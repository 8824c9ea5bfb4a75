---------------------------- MODULE OperatorPage ----------------------------
(***************************************************************************)
(* static/js/index.js without its NFC dialog (NfcDialog), and the list the *)
(* server answers it with: one operator's page, while other pages change   *)
(* the same cards.  Every request of the page that changes something is    *)
(* followed by a getCards of its own, which it awaits; the operator's      *)
(* paging and filtering start others, which nobody awaits, so that several *)
(* lists are under way at once and are answered in any order.              *)
(*                                                                         *)
(* What a request does on the server is CardService's; here it takes       *)
(* effect at once, or fails with or without having done so.                *)
(***************************************************************************)
EXTENDS Naturals, FiniteSets

CONSTANTS
    Cards,       \* numbered in the order they are created in
    Browses,     \* lists of paging and filtering that can be under way at once
    None,
    PageSize,    \* denchiPagination.rowsPerPage
    MaxPage,     \* bound on the pages turned to
    MaxRequests, \* bound on what the operator asks for
    MaxMeddling  \* bound on what other pages do meanwhile

(* The getCards that follow a change, and all of them.                     *)
Ops == {"toggle", "delete", "bulk", "issue"}
Lists == Ops \cup Browses

ASSUME OperatorAssumption ==
    /\ Browses \cap Ops = {} /\ None \notin Lists
    /\ Cards \subseteq Nat /\ IsFiniteSet(Cards)
    /\ None \notin Cards /\ None \notin BOOLEAN
    /\ PageSize \in Nat \ {0} /\ MaxPage \in Nat \ {0}

VARIABLES
    unborn,     \* cards not issued so far
    stored,     \* the account's cards
    written,    \* those whose nfc_written is set
    link,       \* per card, its Withdraw link's enabled
    meddling,   \* what the other pages have done so far
    page, filter,        \* denchiPagination.page, denchiNfcFilter
    shown,      \* cards: per card, what its row shows of enabled, or absent
    loading,    \* cardsLoading
    dialog,     \* the modal dialog that is open
    subject,    \* deleteDialog.denchi
    op,         \* per kind of request, how far it is
    toggled,    \* enabledUpdatingId while op.toggle is on its way
    wasOn,      \* denchi.enabled of the row whose button was pressed
    said,       \* the notification of the last press of that button
    list,       \* per getCards, how far it is
    asked,      \* its page and filter
    answer,     \* its rows as the server has them so far
    newest,     \* observed: the getCards started last, while it may still come out true
    moved,      \* observed: what is shown may be overtaken, outdated or left over
    requests,   \* what the operator has asked for so far
    meddled     \* observed: the toggled card has changed since the toggle

table == <<unborn, stored, written, link, meddling, meddled>>
view == <<page, filter>>
button == <<toggled, wasOn, said>>
lists == <<shown, loading, list, asked, answer, newest, moved>>
vars == <<table, view, button, lists, dialog, subject, op, requests>>

Filters == BOOLEAN \cup {None}
Marks == {"absent", "pending", "on", "off", "null"}
NoRows == [c \in Cards |-> "absent"]
Nothing == [page |-> 1, filter |-> None]

TypeOK ==
    /\ unborn \subseteq Cards /\ stored \subseteq Cards /\ written \subseteq Cards
    /\ link \in [Cards -> {"on", "off"}]
    /\ meddling \in 0..MaxMeddling
    /\ page \in 1..MaxPage /\ filter \in Filters
    /\ shown \in [Cards -> Marks \ {"pending"}]
    /\ loading \in BOOLEAN
    /\ dialog \in {"none", "delete", "bulk"}
    /\ subject \in Cards \cup {None}
    /\ op \in [Ops -> {"idle", "sent", "done", "failed", "listing"}]
    /\ toggled \in Cards \cup {None}
    /\ wasOn \in BOOLEAN
    /\ said \in {"nothing", "enabled", "disabled"}
    /\ list \in [Lists -> {"idle", "asked", "read"}]
    /\ asked \in [Lists -> [page : 1..MaxPage, filter : Filters]]
    /\ answer \in [Lists -> [Cards -> Marks]]
    /\ newest \in Lists \cup {None}
    /\ requests \in 0..MaxRequests
    /\ moved \in BOOLEAN /\ meddled \in BOOLEAN

(* created() has asked for the first page.                                 *)
Init ==
    /\ unborn \in SUBSET Cards /\ Cardinality(unborn) <= 1
    /\ stored = Cards \ unborn
    /\ written \in SUBSET stored
    /\ \E mark \in {"on", "off"} :
          link = [c \in Cards |-> IF c \in unborn THEN "on" ELSE mark]
    /\ meddling = 0
    /\ page = 1 /\ filter = None
    /\ shown = NoRows
    /\ loading = TRUE
    /\ dialog = "none" /\ subject = None
    /\ op = [o \in Ops |-> "idle"]
    /\ toggled = None /\ wasOn = FALSE /\ said = "nothing"
    /\ newest \in Browses
    /\ list = [s \in Lists |-> IF s = newest THEN "asked" ELSE "idle"]
    /\ asked = [s \in Lists |-> Nothing]
    /\ answer = [s \in Lists |-> NoRows]
    /\ moved = TRUE /\ meddled = FALSE
    /\ requests = 0

-----------------------------------------------------------------------------
(* The list.                                                               *)

Matching(f) == {c \in stored : f = None \/ (c \in written <=> f)}

(* get_cards: the page of the matching cards, the newest first.            *)
PageOf(p, f) ==
    {c \in Matching(f) :
        LET before == Cardinality({d \in Matching(f) : d > c})
        IN  before >= (p - 1) * PageSize /\ before < p * PageSize}

(* getCards up to its request.                                             *)
GetCards(s, p, f) ==
    /\ list' = [list EXCEPT ![s] = "asked"]
    /\ asked' = [asked EXCEPT ![s] = [page |-> p, filter |-> f]]
    /\ loading' = TRUE
    /\ newest' = s /\ moved' = TRUE
    /\ UNCHANGED <<shown, answer>>

(* The rows are read.                                                      *)
Reads(s) ==
    /\ list[s] = "asked"
    /\ list' = [list EXCEPT ![s] = "read"]
    /\ answer' = [answer EXCEPT ![s] = [c \in Cards |->
          IF c \in PageOf(asked[s].page, asked[s].filter) THEN "pending" ELSE "absent"]]
    /\ UNCHANGED <<table, view, button, shown, loading, asked, newest, moved, dialog, subject, op,
                   requests>>

(* enrich: each row asks Withdraw for its own link, which may not answer.  *)
Enrich(s, c) ==
    /\ list[s] = "read" /\ answer[s][c] = "pending"
    /\ \E mark \in {"null"} \cup (IF c \in stored THEN {link[c]} ELSE {}) :
          answer' = [answer EXCEPT ![s][c] = mark]
    /\ UNCHANGED <<table, view, button, shown, loading, list, asked, newest, moved, dialog, subject,
                   op, requests>>

(* FAULTY: the row's state is looked up once more, in the new list.        *)
SaysWhatItShows == IF shown'[toggled] = "on" THEN "disabled" ELSE "enabled"

(* The notification of setCardEnabled, of the row as it was when pressed.  *)
Says == IF wasOn THEN "disabled" ELSE "enabled"

(* What awaited the list goes on: toggle's notification, and finally.      *)
Continues(s) ==
    IF s \in Ops
      THEN /\ op' = [op EXCEPT ![s] = "idle"]
           /\ said' = IF s = "toggle" THEN Says ELSE said
      ELSE UNCHANGED <<op, said>>

(* The end of a getCards.                                                  *)
Over(s) ==
    /\ list' = [list EXCEPT ![s] = "idle"]
    /\ asked' = [asked EXCEPT ![s] = Nothing]
    /\ answer' = [answer EXCEPT ![s] = NoRows]
    /\ loading' = FALSE

ListTaken(s) ==
    /\ list[s] = "read" /\ \A c \in Cards : answer[s][c] # "pending"
    /\ shown' = answer[s]
    /\ moved' = (s # newest)
    /\ newest' = IF s = newest THEN None ELSE newest
    /\ Over(s) /\ Continues(s)
    /\ UNCHANGED <<table, view, toggled, wasOn, dialog, subject, requests>>

(* Its error, which may as well come later, is notified and goes no further.*)
ListFails(s) ==
    /\ list[s] = "asked"
    /\ newest' = IF s = newest THEN None ELSE newest
    /\ UNCHANGED <<shown, moved>>
    /\ Over(s) /\ Continues(s)
    /\ UNCHANGED <<table, view, toggled, wasOn, dialog, subject, requests>>

-----------------------------------------------------------------------------
(* The operator.                                                           *)

Asks == requests < MaxRequests /\ requests' = requests + 1

(* The table asks for another page, by itself when the one shown is gone.  *)
Turn(b, p) ==
    /\ dialog = "none" /\ list[b] = "idle" /\ Asks
    /\ page' = p
    /\ GetCards(b, p, filter)
    /\ UNCHANGED <<table, filter, button, dialog, subject, op>>

(* filterCards.                                                            *)
Filter(b, f) ==
    /\ dialog = "none" /\ list[b] = "idle" /\ f # filter /\ Asks
    /\ page' = 1 /\ filter' = f
    /\ GetCards(b, 1, f)
    /\ UNCHANGED <<table, button, dialog, subject, op>>

Send(o) == op[o] = "idle" /\ Asks /\ op' = [op EXCEPT ![o] = "sent"]

(* The button of a row; there is none when the row's state is not known.   *)
SetCardEnabled(c) ==
    /\ dialog = "none" /\ shown[c] \in {"on", "off"}
    /\ Send("toggle")
    /\ toggled' = c /\ wasOn' = (shown[c] = "on") /\ said' = "nothing"
    /\ UNCHANGED <<table, view, lists, dialog, subject>>

OpenDeleteDialog(c) ==
    /\ dialog = "none" /\ shown[c] # "absent" /\ requests < MaxRequests
    /\ dialog' = "delete" /\ subject' = c
    /\ UNCHANGED <<table, view, button, lists, op, requests>>

DeleteCard ==
    /\ dialog = "delete"
    /\ Send("delete")
    /\ UNCHANGED <<table, view, button, lists, dialog, subject>>

OpenBulkDialog ==
    /\ dialog = "none" /\ requests < MaxRequests
    /\ dialog' = "bulk"
    /\ UNCHANGED <<table, view, button, lists, subject, op, requests>>

DisableAllCards ==
    /\ dialog = "bulk"
    /\ Send("bulk")
    /\ UNCHANGED <<table, view, button, lists, dialog, subject>>

(* closeDeleteCardDialog, closeBulkDisableDialog: not while they work.     *)
CloseDialog ==
    /\ dialog # "none" /\ op[dialog] = "idle"
    /\ dialog' = "none" /\ subject' = None
    /\ UNCHANGED <<table, view, button, lists, op, requests>>

IssueCard ==
    /\ dialog = "none"
    /\ Send("issue")
    /\ UNCHANGED <<table, view, button, lists, dialog, subject>>

-----------------------------------------------------------------------------
(* The server.                                                             *)

(* link and stored have been set: has the toggled card changed?            *)
Observed ==
    /\ LET changed == toggled \in stored /\ (toggled \notin stored' \/ link'[toggled] # link[toggled])
       IN  meddled' = (meddled \/ changed)
    /\ moved' = TRUE /\ newest' = None
Unseen == UNCHANGED <<view, button, shown, loading, list, asked, answer, dialog, subject, requests>>

ToggleActs ==
    /\ op["toggle"] = "sent"
    /\ \E ends \in {"done", "failed"} :
          /\ op' = [op EXCEPT !["toggle"] = ends]
          /\ \/ toggled \in stored
                /\ link' = [link EXCEPT ![toggled] = IF wasOn THEN "off" ELSE "on"]
             \/ ends = "failed" /\ UNCHANGED link
    /\ meddled' = FALSE /\ moved' = TRUE /\ newest' = None
    /\ UNCHANGED <<unborn, stored, written, meddling>>
    /\ Unseen

DeleteActs ==
    /\ op["delete"] = "sent"
    /\ \E ends \in {"done", "failed"} :
          /\ ends = "done" => subject \in stored
          /\ op' = [op EXCEPT !["delete"] = ends]
          /\ stored' = stored \ {subject} \/ (ends = "failed" /\ stored' = stored)
    /\ written' = written \cap stored'
    /\ UNCHANGED <<unborn, link, meddling>>
    /\ Observed /\ Unseen

BulkActs ==
    /\ op["bulk"] = "sent"
    /\ \E ends \in {"done", "failed"}, kept \in SUBSET stored :
          /\ op' = [op EXCEPT !["bulk"] = ends]
          /\ link' = [c \in Cards |-> IF c \in stored \ kept THEN "off" ELSE link[c]]
    /\ UNCHANGED <<unborn, stored, written, meddling>>
    /\ Observed /\ Unseen

IssueActs ==
    /\ op["issue"] = "sent"
    /\ \/ /\ \E c \in unborn : stored' = stored \cup {c} /\ unborn' = unborn \ {c}
          /\ \E ends \in {"done", "failed"} : op' = [op EXCEPT !["issue"] = ends]
       \/ /\ op' = [op EXCEPT !["issue"] = "failed"]
          /\ UNCHANGED <<stored, unborn>>
    /\ UNCHANGED <<written, link, meddling>>
    /\ Observed /\ Unseen

(* Another page, or Withdraw's own, changes a card.                        *)
Meddle ==
    /\ meddling < MaxMeddling /\ meddling' = meddling + 1
    /\ \E c \in stored :
          \/ /\ \E mark \in {"on", "off"} : link' = [link EXCEPT ![c] = mark]
             /\ UNCHANGED <<stored, written>>
          \/ stored' = stored \ {c} /\ written' = written \ {c} /\ UNCHANGED link
          \/ written' = written \cup {c} /\ UNCHANGED <<stored, link>>
    /\ UNCHANGED <<unborn, op>>
    /\ Observed /\ Unseen

-----------------------------------------------------------------------------
(* The answers: each refreshes the list, an error ends the matter.         *)

Answered(o) == op[o] = "done" /\ op' = [op EXCEPT ![o] = "listing"]

ToggleAnswered ==
    /\ Answered("toggle")
    /\ GetCards("toggle", page, filter)
    /\ UNCHANGED <<table, view, button, dialog, subject, requests>>

BulkAnswered ==
    /\ Answered("bulk")
    /\ dialog' = "none"
    /\ GetCards("bulk", page, filter)
    /\ UNCHANGED <<table, view, button, subject, requests>>

(* FAULTY: the page goes back after the list has been asked for.           *)
DeleteListsFirst ==
    /\ Answered("delete")
    /\ page' = IF Cardinality({c \in Cards : shown[c] # "absent"}) = 1 /\ page > 1
                 THEN page - 1 ELSE page
    /\ dialog' = "none" /\ subject' = None
    /\ GetCards("delete", page, filter)
    /\ UNCHANGED <<table, filter, button, requests>>

(* The page's last row is gone: the one before it is shown.                *)
DeleteAnswered ==
    /\ Answered("delete")
    /\ page' = IF Cardinality({c \in Cards : shown[c] # "absent"}) = 1 /\ page > 1
                 THEN page - 1 ELSE page
    /\ dialog' = "none" /\ subject' = None
    /\ GetCards("delete", page', filter)
    /\ UNCHANGED <<table, filter, button, requests>>

IssueAnswered ==
    /\ Answered("issue")
    /\ page' = 1
    /\ GetCards("issue", 1, filter)
    /\ UNCHANGED <<table, filter, button, dialog, subject, requests>>

Refused(o) ==
    /\ op[o] = "failed"
    /\ op' = [op EXCEPT ![o] = "idle"]
    /\ UNCHANGED <<table, view, button, lists, dialog, subject, requests>>

Acts == ToggleActs \/ DeleteActs \/ BulkActs \/ IssueActs
Answers == ToggleAnswered \/ BulkAnswered \/ DeleteAnswered \/ IssueAnswered
           \/ \E o \in Ops : Refused(o)
ListGoesOn(s) == Reads(s) \/ ListTaken(s) \/ ListFails(s) \/ \E c \in Cards : Enrich(s, c)

Next ==
    \/ \E b \in Browses : \/ \E p \in 1..MaxPage : Turn(b, p)
                          \/ \E f \in Filters : Filter(b, f)
    \/ \E c \in Cards : SetCardEnabled(c) \/ OpenDeleteDialog(c)
    \/ DeleteCard \/ OpenBulkDialog \/ DisableAllCards \/ CloseDialog \/ IssueCard
    \/ Acts \/ Answers \/ Meddle
    \/ \E s \in Lists : ListGoesOn(s)

Spec == Init /\ [][Next]_vars

-----------------------------------------------------------------------------
(* The rows of an answer, and what they show.                              *)
Rows(marks) == {c \in Cards : marks[c] # "absent"}

(* Unless its answer was overtaken, failed or outdated, the table shows    *)
(* the page and the filter that are set, every row with the state of its   *)
(* own link: the refresh after a change asks for what is to be seen.       *)
ListIsTrue ==
    ~moved =>
        /\ Rows(shown) = PageOf(page, filter)
        /\ \A c \in Cards : shown[c] \in {"absent", "null", link[c]}

(* "Denchi Card disabled." is true of the card, although the list has been *)
(* asked for in between, unless somebody has changed it since.             *)
ToastIsTrue ==
    said # "nothing" /\ ~meddled =>
        /\ toggled \in stored
        /\ link[toggled] = IF said = "enabled" THEN "on" ELSE "off"

(* The inductive invariant behind ListIsTrue: the list started last, as    *)
(* long as nothing has changed, is asked for what is set and has read it.  *)
ListSafe ==
    /\ newest # None =>
          /\ list[newest] # "idle"
          /\ asked[newest] = [page |-> page, filter |-> filter]
          /\ list[newest] = "read" =>
                /\ Rows(answer[newest]) = PageOf(page, filter)
                /\ \A c \in Cards : answer[newest][c] \in {"absent", "null", "pending", link[c]}
    /\ ListIsTrue

(* ... and behind ToastIsTrue: from its taking effect to the notification. *)
ToastSafe ==
    /\ op["toggle"] \in {"done", "listing"} \/ said # "nothing" =>
          meddled \/ (toggled \in stored /\ link[toggled] = IF wasOn THEN "off" ELSE "on")
    /\ said # "nothing" => op["toggle"] = "idle" /\ said = Says
    /\ list["toggle"] # "idle" => op["toggle"] = "listing"

=============================================================================
