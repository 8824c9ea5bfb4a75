----------------------------- MODULE NfcDialog -----------------------------
(***************************************************************************)
(* Writing tags from the operator's page: prepareNfcWrite, writeNfc,       *)
(* markNfcWritten, retryNfcWrite and closeNfcDialog of index.js.           *)
(*                                                                         *)
(* The page has one nfcDialog object and any number of async calls that    *)
(* read and assign its fields when they resume.  A call t of Calls is one  *)
(* run of prepareNfcWrite or retryNfcWrite; pc[t] names what it awaits.    *)
(* Web NFC and the server are modelled by how they answer.                 *)
(***************************************************************************)
EXTENDS Naturals

CONSTANTS
    Cards,        \* card ids; a card's URI is named by the card
    Calls,        \* async calls that can be unfinished at once
    None,         \* JavaScript null
    OneAtATime,   \* no dialog is opened while a call is unfinished
    MaxFaults     \* bound on failed requests and failed writes

ASSUME DialogAssumption ==
    /\ None \notin Cards \cup Calls
    /\ OneAtATime \in BOOLEAN
    /\ MaxFaults \in Nat

VARIABLES
    dialog,       \* nfcDialog; ctrl is the call whose AbortController it has
    posting,      \* issueCard awaits its POST
    cards,        \* the ids issued so far
    pc,           \* idle, or what a call awaits: fetch, write, mark, list
    call,         \* a call's own variables
    row,          \* the server's nfc_written
    tagged,       \* cards whose URI is on a tag
    faults

vars == <<dialog, posting, cards, pc, call, row, tagged, faults>>

Closed == [show |-> FALSE, card |-> None, uri |-> None, writing |-> FALSE,
           tagWritten |-> FALSE, error |-> FALSE, ctrl |-> None]

TypeOK ==
    /\ dialog \in [show : BOOLEAN, card : Cards \cup {None}, uri : Cards \cup {None},
                   writing : BOOLEAN, tagWritten : BOOLEAN, error : BOOLEAN,
                   ctrl : Calls \cup {None}]
    /\ posting \in BOOLEAN
    /\ cards \in SUBSET Cards
    /\ pc \in [Calls -> {"idle", "fetch", "write", "mark", "list"}]
    /\ call \in [Calls -> [by : {"issue", "prepare", "write", "mark"},
                         card : Cards \cup {None}]]
    /\ row \in [Cards -> {"unwritten", "written"}]
    /\ tagged \in SUBSET Cards
    /\ faults \in 0..MaxFaults

Init ==
    /\ dialog = Closed
    /\ posting = FALSE
    /\ cards \in SUBSET Cards
    /\ pc = [t \in Calls |-> "idle"]
    /\ call = [t \in Calls |-> [by |-> "mark", card |-> None]]
    /\ row = [c \in Cards |-> "unwritten"]
    /\ tagged = {}
    /\ faults = 0

Fault == faults < MaxFaults /\ faults' = faults + 1

-----------------------------------------------------------------------------
(* FAULTY: writeNfc's finally forgets that the dialog is not writing.      *)
FinallyWriting(d, t) == IF d.ctrl = t THEN [d EXCEPT !.ctrl = None] ELSE d

(* FAULTY: the controller is cleared with false instead of null.           *)
FinallyFalse(d, t) ==
    [d EXCEPT !.writing = FALSE, !.ctrl = IF @ = t THEN FALSE ELSE @]

(* The finally clauses call t runs through when writeNfc ends with the     *)
(* dialog d: writeNfc's own, then that of prepareNfcWrite.                 *)
Finally(d, t) ==
    LET e == IF d.ctrl = t THEN [d EXCEPT !.ctrl = None, !.writing = FALSE] ELSE d
    IN  IF call[t].by \in {"issue", "prepare"} THEN [e EXCEPT !.writing = FALSE] ELSE e

(* A write is aborted: no error is shown, its finally clauses run.         *)
Aborted(d, q) == IF q # None /\ pc[q] = "write" THEN Finally(d, q) ELSE d
Writers == {q \in Calls : pc[q] = "write"}

(* prepareNfcWrite up to its GET.                                          *)
Prepare(t, c, by) ==
    /\ pc[t] = "idle"
    /\ dialog' = [dialog EXCEPT !.show = TRUE, !.card = c, !.uri = None,
                    !.writing = TRUE, !.tagWritten = FALSE, !.error = FALSE]
    /\ pc' = [pc EXCEPT ![t] = "fetch"]
    /\ call' = [call EXCEPT ![t] = [by |-> by, card |-> c]]
    /\ UNCHANGED <<row, tagged, faults>>

Quiet == ~posting /\ \A q \in Calls : pc[q] = "idle"
Issuing == posting \/ \E q \in Calls : pc[q] # "idle" /\ call[q].by = "issue"

(* The Write NFC button of a row, which the modal dialog covers.           *)
Click(t, c) ==
    /\ ~dialog.show /\ c \in cards
    /\ OneAtATime => Quiet
    /\ Prepare(t, c, "prepare")
    /\ UNCHANGED <<posting, cards>>

(* issueCard: its POST, and when that is answered the dialog of the new    *)
(* card, over whatever is open by then.                                    *)
Issue ==
    /\ ~dialog.show /\ ~Issuing
    /\ OneAtATime => Quiet
    /\ posting' = TRUE
    /\ UNCHANGED <<dialog, cards, pc, call, row, tagged, faults>>

Issued(t, c) ==
    /\ posting
    /\ c \notin cards
    /\ posting' = FALSE
    /\ cards' = cards \cup {c}
    /\ Prepare(t, c, "issue")

IssueFailed ==
    /\ posting
    /\ posting' = FALSE
    /\ UNCHANGED <<dialog, cards, pc, call, row, tagged, faults>>

(* writeNfc up to reader.write, on the dialog d as it then is.  The        *)
(* browser has one pending write: an earlier one is aborted.  A null URI   *)
(* is refused by reader.write.                                             *)
BeginWrite(t, d, by) ==
    \/ /\ d.uri = None
       /\ dialog' = [d EXCEPT !.writing = FALSE, !.error = TRUE, !.ctrl = None]
       /\ pc' = [pc EXCEPT ![t] = "idle"]
       /\ UNCHANGED call
    \/ /\ d.uri # None
       /\ \E q \in Writers \cup {None} :
             /\ q = None => Writers = {}
             /\ dialog' = Aborted([d EXCEPT !.writing = TRUE, !.error = FALSE, !.ctrl = t], q)
             /\ pc' = [x \in Calls |-> CASE x = t -> "write" [] x = q -> "idle"
                                           [] OTHER -> pc[x]]
       /\ call' = [call EXCEPT ![t] = [by |-> by, card |-> d.uri]]

(* GET /cards/{id}/nfc, which answers 409 for a written card; no other     *)
(* event comes between its answer and reader.write.                        *)
Fetched(t) ==
    /\ pc[t] = "fetch"
    /\ \/ /\ row[call[t].card] = "unwritten"
          /\ BeginWrite(t, [dialog EXCEPT !.uri = call[t].card], call[t].by)
          /\ UNCHANGED faults
       \/ /\ \/ row[call[t].card] = "written" /\ UNCHANGED faults
             \/ Fault
          /\ dialog' = [dialog EXCEPT !.error = TRUE, !.writing = FALSE]
          /\ pc' = [pc EXCEPT ![t] = "idle"]
          /\ UNCHANGED call
    /\ UNCHANGED <<posting, cards, row, tagged>>

(* markNfcWritten up to its POST, whose URL is built from the dialog.      *)
BeginMark(t, d) ==
    /\ dialog' = d
    /\ pc' = [pc EXCEPT ![t] = "mark"]

(* A blank tag is presented; reader.write resolves or rejects.             *)
Tapped(t) ==
    /\ pc[t] = "write"
    /\ \/ /\ tagged' = tagged \cup {call[t].card}
          /\ BeginMark(t, [dialog EXCEPT !.tagWritten = TRUE])
          /\ call' = [call EXCEPT ![t].card = dialog.card]
          /\ UNCHANGED faults
       \/ /\ Fault
          /\ dialog' = Finally([dialog EXCEPT !.error = TRUE], t)
          /\ pc' = [pc EXCEPT ![t] = "idle"]
          /\ UNCHANGED <<call, tagged>>
    /\ UNCHANGED <<posting, cards, row>>

(* POST /cards/{id}/nfc-written: done, done but not answered, refused.     *)
Marked(t) ==
    /\ pc[t] = "mark"
    /\ \/ /\ call[t].card # None
          /\ row' = [row EXCEPT ![call[t].card] = "written"]
          /\ pc' = [pc EXCEPT ![t] = "list"]
          /\ UNCHANGED <<dialog, faults>>
       \/ /\ \/ call[t].card = None /\ UNCHANGED <<row, faults>>
             \/ Fault /\ UNCHANGED row
             \/ /\ call[t].card # None /\ Fault
                /\ row' = [row EXCEPT ![call[t].card] = "written"]
          /\ dialog' = Finally([dialog EXCEPT !.error = TRUE], t)
          /\ pc' = [pc EXCEPT ![t] = "idle"]
    /\ UNCHANGED <<posting, cards, call, tagged>>

(* closeNfcDialog aborts the write whose controller the dialog holds.      *)
Close(p) ==
    /\ dialog' = Closed
    /\ pc' = [x \in Calls |->
                IF x = dialog.ctrl /\ p[x] = "write" THEN "idle" ELSE p[x]]

(* getCards, which reports its own failures, then closeNfcDialog.          *)
Listed(t) ==
    /\ pc[t] = "list"
    /\ Close([pc EXCEPT ![t] = "idle"])
    /\ UNCHANGED <<posting, cards, call, row, tagged, faults>>

Cancel ==
    /\ dialog.show
    /\ Close(pc)
    /\ UNCHANGED <<posting, cards, call, row, tagged, faults>>

(* FAULTY: Retry only ever updates the status.                             *)
RetryMark(t) ==
    /\ pc[t] = "idle"
    /\ dialog.show /\ dialog.error /\ ~dialog.writing
    /\ BeginMark(t, dialog)
    /\ call' = [call EXCEPT ![t] = [by |-> "mark", card |-> dialog.card]]
    /\ UNCHANGED <<posting, cards, row, tagged, faults>>

(* FAULTY: Retry only ever writes.                                         *)
RetryWrite(t) ==
    /\ pc[t] = "idle"
    /\ dialog.show /\ dialog.error /\ ~dialog.writing
    /\ BeginWrite(t, dialog, "write")
    /\ UNCHANGED <<posting, cards, row, tagged, faults>>

(* The Retry button: shown with an error, disabled while writing.          *)
Retry(t) ==
    /\ pc[t] = "idle"
    /\ dialog.show /\ dialog.error /\ ~dialog.writing
    /\ IF dialog.tagWritten
         THEN /\ BeginMark(t, dialog)
              /\ call' = [call EXCEPT ![t] = [by |-> "mark", card |-> dialog.card]]
         ELSE BeginWrite(t, dialog, "write")
    /\ UNCHANGED <<posting, cards, row, tagged, faults>>

Resume(t) == Fetched(t) \/ Marked(t) \/ Listed(t)

Next ==
    \/ \E t \in Calls : Resume(t) \/ Tapped(t) \/ Retry(t)
    \/ \E t \in Calls, c \in Cards : Click(t, c) \/ Issued(t, c)
    \/ Issue \/ IssueFailed \/ Cancel

Spec == Init /\ [][Next]_vars

(* The browser resumes a call that got its answer, and an operator who     *)
(* sees an error presses Retry until it is gone, or cancels.               *)
FairSpec ==
    /\ Spec
    /\ \A t \in Calls : WF_vars(Resume(t))
    /\ WF_vars(\E t \in Calls : Retry(t))

-----------------------------------------------------------------------------
(* "The new Denchi Card starts Unwritten and becomes Written only after    *)
(* the browser reports a successful write and the status update succeeds": *)
(* a card is Written only if its own URI is on some tag.                   *)
WrittenMeansTagged ==
    \A c \in Cards : row[c] = "written" => c \in tagged

(* Once the tag is written, retrying updates the status and never writes a *)
(* second tag for the card.                                                *)
RetryNeverRewrites ==
    [][\A t \in Calls :
          pc[t] = "write" /\ pc'[t] = "mark" => ~dialog.tagWritten]_vars

(* A written tag does not stay unrecorded while its dialog is open: Retry  *)
(* is offered, is not left disabled, and in the end gets the card Written, *)
(* whatever writes and status updates failed before.                       *)
WrittenTagIsRecorded ==
    \A c \in Cards :
        dialog.tagWritten /\ dialog.card = c
            ~> row[c] = "written" \/ dialog.card # c

-----------------------------------------------------------------------------
(* Why they hold when no dialog is opened while a call is unfinished.      *)

(* Nothing is unfinished while a card is being issued.                     *)
QuietIssue == posting => ~dialog.show /\ \A t \in Calls : pc[t] = "idle"

(* A call that fetches or writes is alone, and Retry is out of reach until *)
(* it ends; the dialog is still its card's, or closed.                     *)
WriterAlone ==
    \A t \in Calls : pc[t] \in {"fetch", "write"} =>
        /\ \A q \in Calls \ {t} : pc[q] = "idle"
        /\ dialog.show => dialog.writing /\ ~dialog.error
        /\ ~dialog.tagWritten
        /\ call[t].card \in Cards
        /\ dialog.card \in {call[t].card, None}

(* What an open dialog would write is its own card's URI.                  *)
OwnUri == dialog.show => dialog.card \in Cards /\ dialog.uri \in {dialog.card, None}

(* Whatever is or will be recorded has been written, and a dialog that is  *)
(* open while it is being recorded knows.                                  *)
RecordsTags ==
    /\ dialog.tagWritten => dialog.card \in tagged \cup {None}
    /\ \A t \in Calls : pc[t] \in {"mark", "list"} =>
          call[t].card \in tagged \cup {None} /\ (dialog.show => dialog.tagWritten)

DialogSafe == QuietIssue /\ WriterAlone /\ OwnUri /\ RecordsTags /\ WrittenMeansTagged

=============================================================================
