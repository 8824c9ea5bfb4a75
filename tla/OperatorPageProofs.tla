------------------------- MODULE OperatorPageProofs -------------------------
(***************************************************************************)
(* The operator's page, for any cards, page size, number of lists under    *)
(* way at once and amount of what the operator and other pages do.         *)
(***************************************************************************)
EXTENDS OperatorPage, TLAPS

(* What the two arguments need of the types.                               *)
Typed ==
    /\ op \in [Ops -> {"idle", "sent", "done", "failed", "listing"}]
    /\ list \in [Lists -> {"idle", "asked", "read"}]
    /\ DOMAIN asked = Lists
    /\ answer \in [Lists -> [Cards -> Marks]]
    /\ link \in [Cards -> {"on", "off"}]
    /\ stored \subseteq Cards /\ unborn \subseteq Cards
    /\ wasOn \in BOOLEAN
    /\ newest \in Lists \cup {None}

PageInv == Typed /\ ListSafe /\ ToastSafe

ListVars == <<shown, list, asked, answer, newest, moved>>

-----------------------------------------------------------------------------
(* Nothing of the lists or of the cards changes.                           *)
LEMMA ListSafeStays ==
  ASSUME ListSafe, UNCHANGED <<ListVars, view, stored, written, link>>
  PROVE  ListSafe'
  BY DEF ListSafe, ListIsTrue, ListVars, view, Rows, PageOf, Matching

LEMMA ToastSafeStays ==
  ASSUME ToastSafe, UNCHANGED <<op, list, said, meddled, toggled, stored, link, wasOn>>
  PROVE  ToastSafe'
  BY DEF ToastSafe, Says

(* A getCards asks for what is set.                                        *)
LEMMA GetCardsSafe ==
  ASSUME Typed, NEW s \in Lists, NEW p, NEW f, page' = p, filter' = f, GetCards(s, p, f)
  PROVE  /\ ListSafe'
         /\ list' \in [Lists -> {"idle", "asked", "read"}]
         /\ DOMAIN asked' = Lists
         /\ answer' \in [Lists -> [Cards -> Marks]]
         /\ newest' \in Lists \cup {None}
<1>1. /\ list' = [list EXCEPT ![s] = "asked"]
      /\ asked' = [asked EXCEPT ![s] = [page |-> page', filter |-> filter']]
      /\ newest' = s /\ moved' = TRUE /\ answer' = answer
  BY DEF GetCards
<1>2. list'[s] = "asked" /\ asked'[s] = [page |-> page', filter |-> filter']
  BY <1>1 DEF Typed
<1>3. ListSafe'
  BY <1>1, <1>2 DEF ListSafe, ListIsTrue
<1> QED BY <1>1, <1>3 DEF Typed

(* The server's cards change: no list counts any more.                     *)
LEMMA ChangeSafe ==
  ASSUME newest' = None, moved' = TRUE
  PROVE  ListSafe'
  BY DEF ListSafe, ListIsTrue


-----------------------------------------------------------------------------
(* Each action keeps the invariant.                                        *)

LEMMA InitSafe == Init => PageInv
<1> SUFFICES ASSUME Init PROVE PageInv
  OBVIOUS
<1>1. newest \in Lists
  BY DEF Init, Lists
<1>2. Typed
  BY <1>1 DEF Init, Typed, NoRows, Marks
<1>3. ListSafe
  <2>1. list[newest] = "asked" /\ asked[newest] = Nothing
    BY <1>1 DEF Init
  <2>2. page = 1 /\ filter = None
    BY DEF Init
  <2>3. Nothing = [page |-> page, filter |-> filter]
    BY <2>2 DEF Nothing
  <2>4. moved
    BY DEF Init
  <2> QED BY <2>1, <2>3, <2>4 DEF ListSafe, ListIsTrue
<1>4. ToastSafe
  <2>1. "toggle" \in Ops /\ "toggle" \in Lists
    BY DEF Ops, Lists
  <2>2. op["toggle"] = "idle" /\ said = "nothing"
    BY <2>1 DEF Init
  <2>3. list["toggle"] = "idle"
    BY <2>1, OperatorAssumption DEF Init, Ops
  <2> QED BY <2>2, <2>3 DEF ToastSafe
<1> QED BY <1>2, <1>3, <1>4 DEF PageInv

LEMMA BrowseKeeps ==
  ASSUME PageInv, NEW b \in Browses,
         (\E p \in 1..MaxPage : Turn(b, p)) \/ (\E f \in Filters : Filter(b, f))
  PROVE  PageInv'
<1> USE DEF PageInv
<1>1. PICK p, f : page' = p /\ filter' = f /\ GetCards(b, p, f) /\ list[b] = "idle"
  BY DEF Turn, Filter
<1>2. UNCHANGED <<table, button, op>>
  BY DEF Turn, Filter
<1>3. b \in Lists
  BY DEF Lists
<1>4. Typed' /\ ListSafe'
  BY <1>1, <1>2, <1>3, GetCardsSafe DEF Typed, table, button
<1>5. ToastSafe'
  <2>1. b # "toggle" => list'["toggle"] = list["toggle"]
    BY <1>1, <1>3 DEF GetCards, Typed, Ops, Lists
  <2>2. b # "toggle"
    BY OperatorAssumption DEF Ops
  <2> QED BY <2>1, <2>2, <1>2 DEF ToastSafe, Says, table, button
<1> QED BY <1>4, <1>5

(* What the operator opens, closes and presses, and an error.              *)
LEMMA QuietKeeps ==
  ASSUME PageInv, UNCHANGED <<ListVars, view, table, button>>,
         NEW o \in Ops, NEW m \in {"idle", "sent"}, o = "toggle" => m = "idle",
         op' = op \/ (op' = [op EXCEPT ![o] = m] /\ op[o] \in {"idle", "failed"})
  PROVE  PageInv'
<1> USE DEF PageInv
<1>1. Typed'
  BY DEF Typed, ListVars, button, table
<1>2. ListSafe'
  BY ListSafeStays DEF table
<1>3. ToastSafe'
  BY SMT DEF Typed, ToastSafe, Says, ListVars, button, table, Ops
<1> QED BY <1>1, <1>2, <1>3

LEMMA OperatorKeeps ==
  ASSUME PageInv,
         \/ \E c \in Cards : OpenDeleteDialog(c)
         \/ DeleteCard \/ OpenBulkDialog \/ DisableAllCards \/ CloseDialog \/ IssueCard
         \/ \E o \in Ops : Refused(o)
  PROVE  PageInv'
<1>1. UNCHANGED <<ListVars, view, table, button>>
  BY DEF OpenDeleteDialog, DeleteCard, OpenBulkDialog, DisableAllCards, CloseDialog, IssueCard,
     Refused, Send, Asks, ListVars, lists
<1>2. \/ op' = op
      \/ \E o \in Ops, m \in {"idle", "sent"} :
            (o = "toggle" => m = "idle") /\ op' = [op EXCEPT ![o] = m] /\ op[o] \in {"idle", "failed"}
  BY DEF OpenDeleteDialog, DeleteCard, OpenBulkDialog, DisableAllCards, CloseDialog, IssueCard,
     Refused, Send, Asks, Ops
<1> QED BY <1>1, <1>2, QuietKeeps DEF Ops

LEMMA SetCardEnabledKeeps ==
  ASSUME PageInv, NEW c \in Cards, SetCardEnabled(c)
  PROVE  PageInv'
<1> USE DEF PageInv
<1>1. op' = [op EXCEPT !["toggle"] = "sent"] /\ op["toggle"] = "idle" /\ said' = "nothing"
  BY DEF SetCardEnabled, Send
<1>2. UNCHANGED <<ListVars, view, unborn, stored, written, link>>
  BY DEF SetCardEnabled, ListVars, lists, table
<1>3. wasOn' \in BOOLEAN
  BY DEF SetCardEnabled
<1>4. Typed'
  BY <1>1, <1>2, <1>3 DEF Typed, ListVars
<1>5. ListSafe'
  BY <1>2, ListSafeStays
<1>6. ToastSafe'
  BY <1>1, <1>2, SMT DEF Typed, ToastSafe, ListVars, Ops
<1> QED BY <1>4, <1>5, <1>6

(* The server acts: only the toggle itself sets what its toast will say.   *)
LEMMA ToggleActsKeeps == ASSUME PageInv, ToggleActs PROVE PageInv'
<1> USE DEF PageInv
<1>1. newest' = None /\ moved' = TRUE /\ UNCHANGED <<list, asked, answer, toggled, wasOn, said>>
      /\ UNCHANGED <<unborn, stored>>
  BY DEF ToggleActs, Unseen, button
<1>2. PICK ends \in {"done", "failed"} :
          /\ op' = [op EXCEPT !["toggle"] = ends]
          /\ \/ toggled \in stored /\ link' = [link EXCEPT ![toggled] = IF wasOn THEN "off" ELSE "on"]
             \/ ends = "failed" /\ UNCHANGED link
  BY DEF ToggleActs
<1>3. Typed'
  BY <1>1, <1>2 DEF Typed
<1>4. ListSafe'
  BY <1>1, ChangeSafe
<1>5. ToastSafe'
  <2>1. op["toggle"] = "sent" /\ op'["toggle"] = ends /\ list["toggle"] = "idle"
    BY <1>2 DEF ToggleActs, Typed, ToastSafe, Ops
  <2>2. said = "nothing"
    BY <2>1 DEF ToastSafe
  <2>3. ends = "done" => toggled \in stored /\ link'[toggled] = IF wasOn THEN "off" ELSE "on"
    BY <1>2 DEF Typed
  <2> QED BY <2>1, <2>2, <2>3, <1>1, <1>2 DEF ToastSafe
<1> QED BY <1>3, <1>4, <1>5

LEMMA OthersActKeeps ==
  ASSUME PageInv, Observed, Unseen, NEW o \in Ops \ {"toggle"}, NEW m \in {"done", "failed"},
         op' = op \/ op' = [op EXCEPT ![o] = m],
         stored' \subseteq Cards, unborn' \subseteq Cards, link' \in [Cards -> {"on", "off"}]
  PROVE  PageInv'
<1> USE DEF PageInv
<1>1. newest' = None /\ moved' = TRUE /\ UNCHANGED <<list, asked, answer, toggled, wasOn, said>>
  BY DEF Observed, Unseen, button
<1>2. Typed'
  BY <1>1 DEF Typed
<1>3. ListSafe'
  BY <1>1, ChangeSafe
<1>4. op'["toggle"] = op["toggle"]
  BY DEF Typed, Ops
<1>5. ~meddled' => ~meddled /\ (toggled \in stored => toggled \in stored' /\ link'[toggled] = link[toggled])
  BY DEF Observed
<1>6. ToastSafe'
  BY <1>1, <1>4, <1>5 DEF ToastSafe, Says
<1> QED BY <1>2, <1>3, <1>6

LEMMA ServerKeeps ==
  ASSUME PageInv, DeleteActs \/ BulkActs \/ IssueActs \/ Meddle
  PROVE  PageInv'
<1>0. stored \subseteq Cards /\ unborn \subseteq Cards /\ link \in [Cards -> {"on", "off"}]
  BY DEF PageInv, Typed
<1>1. Observed /\ Unseen
  BY DEF DeleteActs, BulkActs, IssueActs, Meddle
<1>2. CASE DeleteActs
  <2>1. stored' \subseteq Cards /\ unborn' \subseteq Cards /\ link' \in [Cards -> {"on", "off"}]
    BY <1>0, <1>2 DEF DeleteActs
  <2>2. PICK m \in {"done", "failed"} : op' = [op EXCEPT !["delete"] = m]
    BY <1>2 DEF DeleteActs
  <2> QED BY <1>1, <2>1, <2>2, OthersActKeeps DEF Ops
<1>3. CASE BulkActs
  <2>1. stored' \subseteq Cards /\ unborn' \subseteq Cards
    BY <1>0, <1>3 DEF BulkActs
  <2>2. link' \in [Cards -> {"on", "off"}]
    BY <1>0, <1>3 DEF BulkActs
  <2>3. PICK m \in {"done", "failed"} : op' = [op EXCEPT !["bulk"] = m]
    BY <1>3 DEF BulkActs
  <2> QED BY <1>1, <2>1, <2>2, <2>3, OthersActKeeps DEF Ops
<1>4. CASE IssueActs
  <2>1. stored' \subseteq Cards /\ unborn' \subseteq Cards /\ link' \in [Cards -> {"on", "off"}]
    BY <1>0, <1>4 DEF IssueActs
  <2>2. PICK m \in {"done", "failed"} : op' = [op EXCEPT !["issue"] = m]
    BY <1>4 DEF IssueActs
  <2> QED BY <1>1, <2>1, <2>2, OthersActKeeps DEF Ops
<1>5. CASE Meddle
  <2>1. stored' \subseteq Cards /\ unborn' \subseteq Cards /\ link' \in [Cards -> {"on", "off"}]
    BY <1>0, <1>5 DEF Meddle
  <2>2. op' = op
    BY <1>5 DEF Meddle
  <2> QED BY <1>1, <2>1, <2>2, OthersActKeeps DEF Ops
<1> QED BY <1>2, <1>3, <1>4, <1>5

(* An answer asks for the list.                                            *)
LEMMA AnswersKeep ==
  ASSUME PageInv, ToggleAnswered \/ BulkAnswered \/ DeleteAnswered \/ IssueAnswered
  PROVE  PageInv'
<1> USE DEF PageInv
<1>1. UNCHANGED <<table, button>>
  BY DEF ToggleAnswered, BulkAnswered, DeleteAnswered, IssueAnswered
<1>2. PICK o, p, f : o \in Ops /\ Answered(o) /\ GetCards(o, p, f) /\ page' = p /\ filter' = f
  BY DEF ToggleAnswered, BulkAnswered, DeleteAnswered, IssueAnswered, Ops, view
<1>3. op' = [op EXCEPT ![o] = "listing"] /\ op[o] = "done"
  BY <1>2 DEF Answered
<1>4. o \in Lists
  BY <1>2 DEF Lists
<1>5. Typed' /\ ListSafe'
  BY <1>1, <1>2, <1>3, <1>4, GetCardsSafe DEF Typed, table, button
<1>6. ToastSafe'
  <2>1. list' = [list EXCEPT ![o] = "asked"]
    BY <1>2 DEF GetCards
  <2>2. /\ op'["toggle"] \in {"done", "listing"} => op["toggle"] \in {"done", "listing"}
        /\ op["toggle"] = "idle" => op'["toggle"] = "idle"
        /\ op["toggle"] = "listing" => op'["toggle"] = "listing"
        /\ list'["toggle"] # "idle" => list["toggle"] # "idle" \/ op'["toggle"] = "listing"
    BY <1>3, <1>4, <2>1 DEF Typed, Ops, Lists
  <2> QED BY <1>1, <2>2 DEF ToastSafe, Says, table, button
<1> QED BY <1>5, <1>6

-----------------------------------------------------------------------------
(* The lists.                                                              *)

LEMMA ReadsKeeps ==
  ASSUME PageInv, NEW s \in Lists, Reads(s)
  PROVE  PageInv'
<1> USE DEF PageInv
<1>1. /\ list' = [list EXCEPT ![s] = "read"] /\ list[s] = "asked"
      /\ UNCHANGED <<table, view, button, op, shown, asked, newest, moved>>
  BY DEF Reads
<1> DEFINE new == [c \in Cards |->
                      IF c \in PageOf(asked[s].page, asked[s].filter) THEN "pending" ELSE "absent"]
<1>2. answer' = [answer EXCEPT ![s] = new] /\ new \in [Cards -> Marks]
  BY DEF Reads, Marks
<1>3. Typed'
  BY <1>1, <1>2 DEF Typed, table, button
<1>4. ListSafe'
  <2>1. ListIsTrue'
    BY <1>1 DEF ListSafe, ListIsTrue, Rows, PageOf, Matching, table, view
  <2>2. ASSUME newest = s
        PROVE  Rows(answer'[s]) = PageOf(page, filter) /\ \A c \in Cards : answer'[s][c] \in {"absent", "pending"}
    <3>1. answer'[s] = new
      BY <1>2 DEF Typed
    <3>2. asked[s] = [page |-> page, filter |-> filter]
      BY <2>2, OperatorAssumption DEF ListSafe
    <3>3. new = [c \in Cards |-> IF c \in PageOf(page, filter) THEN "pending" ELSE "absent"]
      BY <3>2
    <3>4. PageOf(page, filter) \subseteq Cards
      BY DEF PageOf, Matching, Typed
    <3> QED BY <3>1, <3>3, <3>4 DEF Rows
  <2>3. newest # s => \/ answer'[newest] = answer[newest] /\ list'[newest] = list[newest]
                     \/ newest = None
    BY <1>1, <1>2 DEF Typed
  <2>4. (PageOf(page, filter))' = PageOf(page, filter)
    BY <1>1 DEF PageOf, Matching, table, view
  <2>5. list'[s] = "read"
    BY <1>1 DEF Typed
  <2> QED BY <1>1, <2>1, <2>2, <2>3, <2>4, <2>5 DEF ListSafe, Rows, table, view
<1>5. ToastSafe'
  <2>1. list'["toggle"] # "idle" => list["toggle"] # "idle"
    BY <1>1 DEF Typed, Lists, Ops
  <2> QED BY <1>1, <2>1 DEF ToastSafe, Says, table, button
<1> QED BY <1>3, <1>4, <1>5

LEMMA EnrichKeeps ==
  ASSUME PageInv, NEW s \in Lists, NEW c \in Cards, Enrich(s, c)
  PROVE  PageInv'
<1> USE DEF PageInv
<1>1. UNCHANGED <<table, view, button, op, shown, list, asked, newest, moved>>
  BY DEF Enrich
<1>2. PICK mark \in {"null", link[c]} : answer' = [answer EXCEPT ![s][c] = mark]
  BY DEF Enrich
<1>3. answer[s][c] = "pending" /\ mark \in {"null", "on", "off"}
  BY DEF Enrich, Typed
<1>4. answer' \in [Lists -> [Cards -> Marks]]
  BY <1>2, <1>3 DEF Typed, Marks
<1>5. Typed'
  BY <1>1, <1>4 DEF Typed, table, button
<1>6. ListSafe'
  <2>1. ListIsTrue'
    BY <1>1 DEF ListSafe, ListIsTrue, Rows, PageOf, Matching, table, view
  <2>2. \A t \in Lists : Rows(answer[t])' = Rows(answer[t])
    BY <1>2, <1>3 DEF Typed, Rows
  <2>3. \A t \in Lists, d \in Cards :
           answer'[t][d] = answer[t][d] \/ answer'[t][d] \in {"null", link[d]}
    BY <1>2 DEF Typed
  <2>4. (PageOf(page, filter))' = PageOf(page, filter)
    BY <1>1 DEF PageOf, Matching, table, view
  <2>5. newest = None \/ newest \in Lists
    BY DEF Typed
  <2>6. newest # None => Rows(answer[newest])' = Rows(answer[newest])
    BY <1>1, <2>2, <2>5
  <2> QED BY <1>1, <2>1, <2>3, <2>4, <2>5, <2>6 DEF ListSafe, table, view
<1>7. ToastSafe'
  BY <1>1, ToastSafeStays DEF table, button
<1> QED BY <1>5, <1>6, <1>7

(* What waited for a list goes on when it is over.                         *)
LEMMA ContinuesKeeps ==
  ASSUME Typed, ToastSafe, NEW s \in Lists, list[s] # "idle", Over(s), Continues(s),
         UNCHANGED <<table, toggled, wasOn>>
  PROVE  /\ ToastSafe'
         /\ op' \in [Ops -> {"idle", "sent", "done", "failed", "listing"}]
         /\ list' \in [Lists -> {"idle", "asked", "read"}]
         /\ DOMAIN asked' = Lists
         /\ answer' \in [Lists -> [Cards -> Marks]]
<1>1. /\ op' \in [Ops -> {"idle", "sent", "done", "failed", "listing"}]
      /\ list' \in [Lists -> {"idle", "asked", "read"}]
  BY DEF Typed, Over, Continues
<1>2. DOMAIN asked' = Lists /\ answer' \in [Lists -> [Cards -> Marks]]
  BY DEF Typed, Over, NoRows, Marks
<1>3. ToastSafe'
  <2>1. CASE s = "toggle"
    <3>1. op'["toggle"] = "idle" /\ list'["toggle"] = "idle"
      BY <2>1 DEF Typed, Over, Continues, Ops, Lists
    <3>2. op["toggle"] = "listing" /\ said' = Says
      BY <2>1 DEF ToastSafe, Continues, Ops
    <3> QED BY <3>1, <3>2 DEF ToastSafe, Says, table
  <2>2. CASE s # "toggle"
    <3>1. op'["toggle"] = op["toggle"] /\ list'["toggle"] = list["toggle"] /\ said' = said
      BY <2>2 DEF Typed, Over, Continues, Ops, Lists
    <3> QED BY <3>1 DEF ToastSafe, Says, table
  <2> QED BY <2>1, <2>2
<1> QED BY <1>1, <1>2, <1>3

LEMMA ListTakenKeeps ==
  ASSUME PageInv, NEW s \in Lists, ListTaken(s)
  PROVE  PageInv'
<1> USE DEF PageInv
<1>1. /\ list[s] = "read" /\ \A c \in Cards : answer[s][c] # "pending"
      /\ shown' = answer[s] /\ moved' = (s # newest)
      /\ newest' = IF s = newest THEN None ELSE newest
      /\ Over(s) /\ Continues(s)
      /\ UNCHANGED <<table, view, toggled, wasOn>>
  BY DEF ListTaken
<1>2. ToastSafe' /\ Typed'
  BY <1>1, ContinuesKeeps DEF Typed, table
<1>3. (PageOf(page, filter))' = PageOf(page, filter)
  BY <1>1 DEF PageOf, Matching, table, view
<1>4. CASE s = newest
  <2>1. /\ Rows(answer[s]) = PageOf(page, filter)
        /\ \A c \in Cards : answer[s][c] \in {"absent", "null", link[c]}
    BY <1>1, <1>4, OperatorAssumption DEF ListSafe
  <2>2. Rows(shown)' = Rows(answer[s])
    BY <1>1 DEF Rows
  <2> QED BY <1>1, <1>2, <1>3, <1>4, <2>1, <2>2 DEF ListSafe, ListIsTrue, table
<1>5. CASE s # newest
  <2>1. newest # None => /\ list'[newest] = list[newest] /\ asked'[newest] = asked[newest]
                         /\ answer'[newest] = answer[newest]
    BY <1>1, <1>5 DEF Over, Typed
  <2> QED BY <1>1, <1>2, <1>3, <1>5, <2>1 DEF ListSafe, ListIsTrue, Rows, table, view
<1> QED BY <1>4, <1>5

LEMMA ListFailsKeeps ==
  ASSUME PageInv, NEW s \in Lists, ListFails(s)
  PROVE  PageInv'
<1> USE DEF PageInv
<1>1. /\ list[s] = "asked" /\ UNCHANGED <<shown, moved, table, view, toggled, wasOn>>
      /\ newest' = IF s = newest THEN None ELSE newest
      /\ Over(s) /\ Continues(s)
  BY DEF ListFails
<1>2. ToastSafe' /\ Typed'
  BY <1>1, ContinuesKeeps DEF Typed, table
<1>3. ListIsTrue'
  BY <1>1 DEF ListSafe, ListIsTrue, Rows, PageOf, Matching, table, view
<1>4. newest' # None => /\ newest' = newest /\ list'[newest] = list[newest]
                        /\ asked'[newest] = asked[newest] /\ answer'[newest] = answer[newest]
  BY <1>1 DEF Over, Typed
<1>5. (PageOf(page, filter))' = PageOf(page, filter)
  BY <1>1 DEF PageOf, Matching, table, view
<1> QED BY <1>1, <1>2, <1>3, <1>4, <1>5 DEF ListSafe, Rows, table, view

LEMMA StutterKeeps == ASSUME PageInv, UNCHANGED vars PROVE PageInv'
<1> USE DEF PageInv
<1>1. Typed' /\ ToastSafe'
  BY DEF vars, lists, table, button, Typed, ToastSafe, Says
<1>2. ListSafe'
  BY ListSafeStays DEF vars, lists, ListVars, table
<1> QED BY <1>1, <1>2

-----------------------------------------------------------------------------
(* The inductive invariant holds.                                          *)
THEOREM PageIsSafe == Spec => []PageInv
<1>1. PageInv /\ [Next]_vars => PageInv'
  <2> SUFFICES ASSUME PageInv, [Next]_vars PROVE PageInv'
    OBVIOUS
  <2>1. CASE \E b \in Browses : \/ \E p \in 1..MaxPage : Turn(b, p)
                                \/ \E f \in Filters : Filter(b, f)
    BY <2>1, BrowseKeeps
  <2>2. CASE \E c \in Cards : SetCardEnabled(c)
    BY <2>2, SetCardEnabledKeeps
  <2>3. CASE \/ \E c \in Cards : OpenDeleteDialog(c)
             \/ DeleteCard \/ OpenBulkDialog \/ DisableAllCards \/ CloseDialog \/ IssueCard
             \/ \E o \in Ops : Refused(o)
    BY <2>3, OperatorKeeps
  <2>4. CASE ToggleActs
    BY <2>4, ToggleActsKeeps
  <2>5. CASE DeleteActs \/ BulkActs \/ IssueActs \/ Meddle
    BY <2>5, ServerKeeps
  <2>6. CASE ToggleAnswered \/ BulkAnswered \/ DeleteAnswered \/ IssueAnswered
    BY <2>6, AnswersKeep
  <2>7. CASE \E s \in Lists : ListGoesOn(s)
    BY <2>7, ReadsKeeps, EnrichKeeps, ListTakenKeeps, ListFailsKeeps DEF ListGoesOn
  <2>8. CASE UNCHANGED vars
    BY <2>8, StutterKeeps
  <2> QED BY <2>1, <2>2, <2>3, <2>4, <2>5, <2>6, <2>7, <2>8 DEF Next, Acts, Answers
<1> QED BY InitSafe, <1>1, PTL DEF Spec

(* Unless overtaken, failed or outdated, the table shows what is set.      *)
THEOREM PageListIsTrue == Spec => []ListIsTrue
<1>1. PageInv => ListIsTrue
  BY DEF PageInv, ListSafe
<1> QED BY <1>1, PageIsSafe, PTL

(* What the toast says of a card is true until somebody else changes it.   *)
THEOREM PageToastIsTrue == Spec => []ToastIsTrue
<1>1. PageInv => ToastIsTrue
  BY DEF PageInv, ToastSafe, ToastIsTrue, Says
<1> QED BY <1>1, PageIsSafe, PTL

=============================================================================
