--------------------------- MODULE NfcDialogProofs ---------------------------
(***************************************************************************)
(* Written means tagged, and a tag is written once, for any number of      *)
(* cards, of calls under way, of faults and of retries, as long as no      *)
(* dialog is opened while a call is unfinished.                            *)
(***************************************************************************)
EXTENDS NfcDialog, TLAPS

(* Types.  The finally clauses and the abort of a write keep a dialog one. *)
Dialogs == [show : BOOLEAN, card : Cards \cup {None}, uri : Cards \cup {None},
            writing : BOOLEAN, tagWritten : BOOLEAN, error : BOOLEAN,
            ctrl : Calls \cup {None}]

LEMMA FinallyTyped ==
    ASSUME NEW d \in Dialogs, NEW t
    PROVE  Finally(d, t) \in Dialogs
BY DEF Finally, Dialogs

(* The finally clauses only end the writing.                               *)
LEMMA FinallyEnds ==
    ASSUME NEW d \in Dialogs, NEW t
    PROVE  /\ Finally(d, t).show = d.show /\ Finally(d, t).card = d.card
           /\ Finally(d, t).uri = d.uri /\ Finally(d, t).error = d.error
           /\ Finally(d, t).tagWritten = d.tagWritten
BY DEF Finally, Dialogs

(* writeNfc keeps the types, whatever it aborts.                           *)
LEMMA BeginWriteTyped ==
    ASSUME TypeOK, NEW t \in Calls, NEW d \in Dialogs,
           NEW by \in {"issue", "prepare", "write", "mark"}, BeginWrite(t, d, by)
    PROVE  /\ dialog' \in Dialogs
           /\ pc' \in [Calls -> {"idle", "fetch", "write", "mark", "list"}]
           /\ call' \in [Calls -> [by : {"issue", "prepare", "write", "mark"},
                                   card : Cards \cup {None}]]
<1>1. CASE d.uri = None
  BY <1>1 DEF BeginWrite, TypeOK, Dialogs
<1>2. CASE d.uri # None
  <2>1. PICK q \in Writers \cup {None} :
          /\ dialog' = Aborted([d EXCEPT !.writing = TRUE, !.error = FALSE, !.ctrl = t], q)
          /\ pc' = [x \in Calls |-> CASE x = t -> "write" [] x = q -> "idle" [] OTHER -> pc[x]]
    BY <1>2 DEF BeginWrite
  <2>2. call' = [call EXCEPT ![t] = [by |-> by, card |-> d.uri]]
    BY <1>2 DEF BeginWrite
  <2>3. [d EXCEPT !.writing = TRUE, !.error = FALSE, !.ctrl = t] \in Dialogs
    BY DEF Dialogs
  <2>4. dialog' \in Dialogs
    BY <2>1, <2>3, FinallyTyped DEF Aborted
  <2>5. \A x \in Calls : pc'[x] \in {"write", "idle", pc[x]}
    BY <2>1
  <2>6. pc' \in [Calls -> {"idle", "fetch", "write", "mark", "list"}]
    BY <2>1, <2>5 DEF TypeOK
  <2> QED BY <2>2, <2>4, <2>6 DEF TypeOK, Dialogs
<1> QED BY <1>1, <1>2

(* Every step keeps the types: what a tag is written with is a card.       *)
LEMMA TypeStep == TypeOK /\ WriterAlone /\ [Next]_vars => TypeOK'
<1> SUFFICES ASSUME TypeOK, WriterAlone, [Next]_vars PROVE TypeOK'
    OBVIOUS
<1> USE DialogAssumption
<1>0. dialog \in Dialogs
  BY DEF TypeOK, Dialogs
<1>1. ASSUME NEW t \in Calls, NEW c \in Cards, NEW by \in {"issue", "prepare"}, Prepare(t, c, by)
      PROVE  /\ dialog' \in Dialogs /\ UNCHANGED <<row, tagged, faults>>
             /\ pc' \in [Calls -> {"idle", "fetch", "write", "mark", "list"}]
             /\ call' \in [Calls -> [by : {"issue", "prepare", "write", "mark"},
                                     card : Cards \cup {None}]]
  BY <1>0, <1>1 DEF Prepare, TypeOK, Dialogs
<1>2. ASSUME NEW t \in Calls, NEW c \in Cards, Click(t, c) \/ Issued(t, c) PROVE TypeOK'
  BY <1>1, <1>2 DEF Click, Issued, TypeOK, Dialogs
<1>3. ASSUME NEW t \in Calls, Fetched(t) PROVE TypeOK'
  <2>1. call[t].card \in Cards \cup {None} /\ call[t].by \in {"issue", "prepare", "write", "mark"}
    BY DEF TypeOK
  <2>2. [dialog EXCEPT !.uri = call[t].card] \in Dialogs
    BY <1>0, <2>1 DEF Dialogs
  <2>0. UNCHANGED <<posting, cards, row, tagged>> /\ faults' \in 0..MaxFaults
    BY <1>3 DEF Fetched, Fault, TypeOK
  <2>3. CASE BeginWrite(t, [dialog EXCEPT !.uri = call[t].card], call[t].by)
    <3>1. /\ dialog' \in Dialogs
          /\ pc' \in [Calls -> {"idle", "fetch", "write", "mark", "list"}]
          /\ call' \in [Calls -> [by : {"issue", "prepare", "write", "mark"},
                                   card : Cards \cup {None}]]
      BY <2>1, <2>2, <2>3, BeginWriteTyped
    <3> QED BY <2>0, <3>1 DEF TypeOK, Dialogs
  <2>4. CASE /\ dialog' = [dialog EXCEPT !.error = TRUE, !.writing = FALSE]
             /\ pc' = [pc EXCEPT ![t] = "idle"] /\ UNCHANGED call
    BY <1>0, <2>0, <2>4 DEF TypeOK, Dialogs
  <2> QED
    <3>1. CASE BeginWrite(t, [dialog EXCEPT !.uri = call[t].card], call[t].by)
      BY <2>3, <3>1
    <3>2. CASE ~BeginWrite(t, [dialog EXCEPT !.uri = call[t].card], call[t].by)
      <4>1. /\ dialog' = [dialog EXCEPT !.error = TRUE, !.writing = FALSE]
            /\ pc' = [pc EXCEPT ![t] = "idle"] /\ UNCHANGED call
        BY <1>3, <3>2, Zenon DEF Fetched
      <4> QED BY <2>4, <4>1
    <3> QED BY <3>1, <3>2
<1>4. ASSUME NEW t \in Calls, Tapped(t) PROVE TypeOK'
  <2>1. [dialog EXCEPT !.error = TRUE] \in Dialogs
    BY <1>0 DEF Dialogs
  <2>2. dialog' \in Dialogs
    <3>1. CASE dialog' = [dialog EXCEPT !.tagWritten = TRUE]
      BY <1>0, <3>1 DEF Dialogs
    <3>2. CASE dialog' = Finally([dialog EXCEPT !.error = TRUE], t)
      BY <2>1, <3>2, FinallyTyped
    <3> QED BY <1>4, <3>1, <3>2 DEF Tapped, BeginMark
  <2>3. call[t].card \in Cards
    BY <1>4 DEF Tapped, WriterAlone
  <2>4. /\ tagged' \in SUBSET Cards /\ faults' \in 0..MaxFaults
        /\ UNCHANGED <<posting, cards, row>>
    BY <1>4, <2>3 DEF Tapped, Fault, TypeOK
  <2>5. /\ pc' \in [Calls -> {"idle", "fetch", "write", "mark", "list"}]
        /\ call' \in [Calls -> [by : {"issue", "prepare", "write", "mark"},
                                 card : Cards \cup {None}]]
    BY <1>0, <1>4 DEF Tapped, BeginMark, TypeOK, Dialogs
  <2> QED BY <2>2, <2>4, <2>5 DEF TypeOK, Dialogs
<1>5. ASSUME NEW t \in Calls, Marked(t) PROVE TypeOK'
  <2>1. [dialog EXCEPT !.error = TRUE] \in Dialogs
    BY <1>0 DEF Dialogs
  <2>2. dialog' \in Dialogs
    BY <1>0, <1>5, <2>1, FinallyTyped DEF Marked
  <2> QED BY <1>5, <2>2 DEF Marked, Fault, TypeOK, Dialogs
<1>6. Closed \in Dialogs
  BY DEF Closed, Dialogs
<1>7. ASSUME NEW t \in Calls, Listed(t) PROVE TypeOK'
  BY <1>6, <1>7 DEF Listed, Close, TypeOK, Dialogs
<1>8. CASE Cancel
  BY <1>6, <1>8 DEF Cancel, Close, TypeOK, Dialogs
<1>9. ASSUME NEW t \in Calls, Retry(t) PROVE TypeOK'
  <2>1. CASE dialog.tagWritten
    BY <1>0, <1>9, <2>1 DEF Retry, BeginMark, TypeOK, Dialogs
  <2>2. CASE ~dialog.tagWritten
    BY <1>0, <1>9, <2>2, BeginWriteTyped DEF Retry, TypeOK, Dialogs
  <2> QED BY <2>1, <2>2
<1>10. CASE Issue \/ IssueFailed
  BY <1>10 DEF Issue, IssueFailed, TypeOK
<1>11. CASE UNCHANGED vars
  BY <1>11 DEF vars, TypeOK
<1> QED BY <1>2, <1>3, <1>4, <1>5, <1>7, <1>8, <1>9, <1>10, <1>11 DEF Next, Resume

-----------------------------------------------------------------------------
(* The invariant.  Calls that neither fetch nor write may be several, all  *)
(* of them status updates and the lists after them.                        *)
DialogInv == TypeOK /\ DialogSafe

(* writeNfc on a dialog that nobody else writes: it ends with an error, or *)
(* waits for a tag.                                                        *)
EndsInError(t, d) ==
    /\ d.uri = None
    /\ dialog' = [d EXCEPT !.writing = FALSE, !.error = TRUE, !.ctrl = None]
    /\ pc' = [pc EXCEPT ![t] = "idle"] /\ UNCHANGED call

AwaitsTag(t, d, by) ==
    /\ d.uri # None
    /\ dialog' = [d EXCEPT !.writing = TRUE, !.error = FALSE, !.ctrl = t]
    /\ pc' = [pc EXCEPT ![t] = "write"]
    /\ call' = [call EXCEPT ![t] = [by |-> by, card |-> d.uri]]

LEMMA BeginWriteAlone ==
    ASSUME DialogInv, NEW t \in Calls, NEW d \in Dialogs,
           NEW by \in {"issue", "prepare", "write", "mark"}, BeginWrite(t, d, by),
           \A q \in Calls : pc[q] # "write"
    PROVE  EndsInError(t, d) \/ AwaitsTag(t, d, by)
<1> USE DialogAssumption
<1>1. CASE d.uri = None
  BY <1>1 DEF BeginWrite, EndsInError
<1>2. CASE d.uri # None
  <2>1. Writers = {}
    BY DEF Writers
  <2>2. /\ dialog' = Aborted([d EXCEPT !.writing = TRUE, !.error = FALSE, !.ctrl = t], None)
        /\ pc' = [x \in Calls |-> CASE x = t -> "write" [] x = None -> "idle" [] OTHER -> pc[x]]
        /\ call' = [call EXCEPT ![t] = [by |-> by, card |-> d.uri]]
    BY <1>2, <2>1 DEF BeginWrite
  <2>3. pc' = [pc EXCEPT ![t] = "write"]
    BY <2>2 DEF DialogInv, TypeOK
  <2> QED BY <1>2, <2>2, <2>3 DEF Aborted, AwaitsTag
<1> QED BY <1>1, <1>2

(* A dialog is opened when every call has ended.                           *)
LEMMA PrepareSafe ==
    ASSUME DialogInv, NEW t \in Calls, NEW c \in Cards,
           NEW by \in {"issue", "prepare"}, Prepare(t, c, by),
           \A q \in Calls : pc[q] = "idle", posting' = FALSE
    PROVE  DialogSafe'
<1> USE DialogAssumption DEF DialogInv, DialogSafe, TypeOK
<1>1. /\ dialog'.show = TRUE /\ dialog'.card = c /\ dialog'.uri = None /\ dialog'.writing = TRUE
      /\ dialog'.tagWritten = FALSE /\ dialog'.error = FALSE
      /\ pc' = [pc EXCEPT ![t] = "fetch"] /\ call'[t].card = c /\ UNCHANGED <<row, tagged>>
  BY DEF Prepare
<1>2. QuietIssue' /\ OwnUri' /\ WrittenMeansTagged'
  BY <1>1 DEF QuietIssue, OwnUri, WrittenMeansTagged
<1>3. \A q \in Calls \ {t} : pc'[q] = "idle"
  BY <1>1
<1>4. WriterAlone' /\ RecordsTags'
  BY <1>1, <1>3 DEF WriterAlone, RecordsTags
<1> QED BY <1>2, <1>4

(* Fetched keeps the invariant: the dialog that it writes for is its own.  *)
LEMMA FetchedSafe ==
    ASSUME DialogInv, NEW t \in Calls, Fetched(t)
    PROVE  DialogSafe'
<1> USE DialogAssumption DEF DialogInv, DialogSafe, TypeOK
<1>1. /\ \A q \in Calls \ {t} : pc[q] = "idle"
      /\ pc[t] = "fetch" /\ ~dialog.tagWritten /\ call[t].card \in Cards
      /\ dialog.card \in {call[t].card, None}
      /\ ~posting /\ UNCHANGED <<posting, row, tagged>>
  BY DEF Fetched, WriterAlone, QuietIssue
<1>2. WrittenMeansTagged'
  BY <1>1 DEF WrittenMeansTagged
<1>3. CASE BeginWrite(t, [dialog EXCEPT !.uri = call[t].card], call[t].by)
  <2>1. PICK d \in Dialogs : d = [dialog EXCEPT !.uri = call[t].card]
    BY <1>1 DEF Dialogs
  <2>2. \A q \in Calls : pc[q] # "write"
    BY <1>1
  <2>3. BeginWrite(t, d, call[t].by)
    BY <1>3, <2>1
  <2>4. /\ d.uri = call[t].card /\ d.card = dialog.card /\ d.show = dialog.show
        /\ ~d.tagWritten
    BY <1>1, <2>1
  <2>5. /\ dialog' = [d EXCEPT !.writing = TRUE, !.error = FALSE, !.ctrl = t]
        /\ pc' = [pc EXCEPT ![t] = "write"]
        /\ call' = [call EXCEPT ![t] = [by |-> call[t].by, card |-> d.uri]]
    <3>1. d.uri # None /\ call[t].by \in {"issue", "prepare", "write", "mark"}
      BY <1>1, <2>4
    <3>2. PICK by \in {"issue", "prepare", "write", "mark"} : by = call[t].by
      BY <3>1
    <3>3. BeginWrite(t, d, by)
      BY <2>3, <3>2
    <3> HIDE DEF DialogInv, DialogSafe, TypeOK
    <3>4. EndsInError(t, d) \/ AwaitsTag(t, d, by)
      BY <2>2, <3>3, BeginWriteAlone
    <3> QED BY <3>1, <3>2, <3>4 DEF EndsInError, AwaitsTag
  <2>6. /\ dialog'.show = dialog.show /\ dialog'.card = dialog.card /\ dialog'.uri = call[t].card
        /\ dialog'.writing /\ ~dialog'.error /\ ~dialog'.tagWritten
        /\ call'[t].card = call[t].card
        /\ pc'[t] = "write" /\ \A q \in Calls \ {t} : pc'[q] = "idle"
    BY <1>1, <2>4, <2>5 DEF Dialogs
  <2>7. QuietIssue' /\ OwnUri' /\ RecordsTags'
    BY <1>1, <2>6 DEF QuietIssue, OwnUri, RecordsTags
  <2>8. WriterAlone'
    BY <1>1, <2>6 DEF WriterAlone
  <2> QED BY <1>2, <2>7, <2>8
<1>4. CASE ~BeginWrite(t, [dialog EXCEPT !.uri = call[t].card], call[t].by)
  <2>1. /\ dialog' = [dialog EXCEPT !.error = TRUE, !.writing = FALSE]
        /\ pc' = [pc EXCEPT ![t] = "idle"] /\ UNCHANGED call
    BY <1>4, Zenon DEF Fetched
  <2>2. \A q \in Calls : pc'[q] = "idle"
    BY <1>1, <2>1
  <2>3. /\ dialog'.show = dialog.show /\ dialog'.card = dialog.card /\ dialog'.uri = dialog.uri
        /\ dialog'.tagWritten = dialog.tagWritten
    BY <2>1
  <2> QED BY <1>1, <1>2, <2>2, <2>3 DEF QuietIssue, WriterAlone, OwnUri, RecordsTags
<1> QED BY <1>3, <1>4

(* Retry keeps it: it writes the open dialog's own URI, or posts for the   *)
(* card whose tag was written.                                             *)
LEMMA RetrySafe ==
    ASSUME DialogInv, NEW t \in Calls, Retry(t)
    PROVE  DialogSafe'
<1> USE DialogAssumption DEF DialogInv, DialogSafe, TypeOK
<1>1. /\ pc[t] = "idle" /\ dialog.show /\ dialog.error /\ ~dialog.writing
      /\ ~posting /\ UNCHANGED <<posting, row, tagged>>
      /\ dialog.card \in Cards /\ dialog.uri \in {dialog.card, None}
  BY DEF Retry, QuietIssue, OwnUri
<1>2. \A q \in Calls : pc[q] \notin {"fetch", "write"}
  BY <1>1 DEF WriterAlone
<1>3. WrittenMeansTagged'
  BY <1>1 DEF WrittenMeansTagged
<1>4. CASE dialog.tagWritten
  <2>1. /\ dialog' = dialog /\ pc' = [pc EXCEPT ![t] = "mark"]
        /\ call' = [call EXCEPT ![t] = [by |-> "mark", card |-> dialog.card]]
    BY <1>4 DEF Retry, BeginMark
  <2>2. \A q \in Calls : pc'[q] \notin {"fetch", "write"}
    BY <1>2, <2>1
  <2>3. QuietIssue' /\ WriterAlone' /\ OwnUri'
    BY <1>1, <2>1, <2>2 DEF QuietIssue, WriterAlone, OwnUri
  <2>4. RecordsTags'
    BY <1>1, <1>4, <2>1 DEF RecordsTags
  <2> QED BY <1>3, <2>3, <2>4
<1>5. CASE ~dialog.tagWritten
  <2>1. BeginWrite(t, dialog, "write") /\ dialog \in Dialogs
    BY <1>5 DEF Retry, Dialogs
  <2>2. CASE EndsInError(t, dialog)
    <3>1. pc' = pc
      BY <1>1, <2>2 DEF EndsInError
    <3> QED BY <1>1, <1>2, <1>3, <2>2, <3>1 DEF EndsInError, QuietIssue, WriterAlone, OwnUri, RecordsTags
  <2>3. CASE AwaitsTag(t, dialog, "write")
    <3>1. \A q \in Calls : pc[q] = "idle"
      BY <1>1, <1>2, <1>5 DEF RecordsTags
    <3>2. /\ dialog'.show = dialog.show /\ dialog'.card = dialog.card /\ dialog'.uri = dialog.uri
          /\ dialog'.writing /\ ~dialog'.error /\ ~dialog'.tagWritten
          /\ call'[t].card = dialog.card /\ dialog.card \in Cards
          /\ pc'[t] = "write" /\ \A q \in Calls \ {t} : pc'[q] = "idle"
      BY <1>1, <1>5, <2>3, <3>1 DEF AwaitsTag
    <3>3. QuietIssue' /\ OwnUri' /\ RecordsTags'
      BY <1>1, <3>2 DEF QuietIssue, OwnUri, RecordsTags
    <3>4. WriterAlone'
      BY <3>2 DEF WriterAlone
    <3> QED BY <1>3, <3>3, <3>4
  <2>4. \A q \in Calls : pc[q] # "write"
    BY <1>2
  <2> HIDE DEF DialogInv, DialogSafe, TypeOK
  <2> QED BY <2>1, <2>2, <2>3, <2>4, BeginWriteAlone
<1> QED BY <1>4, <1>5

(* A tag that is presented keeps it: what is on it is what will be marked. *)
LEMMA TappedSafe ==
    ASSUME DialogInv, NEW t \in Calls, Tapped(t)
    PROVE  DialogSafe'
<1> USE DialogAssumption DEF DialogInv, DialogSafe, TypeOK
<1>1. /\ \A q \in Calls \ {t} : pc[q] = "idle"
      /\ pc[t] = "write" /\ ~dialog.tagWritten /\ call[t].card \in Cards
      /\ dialog.card \in {call[t].card, None}
      /\ ~posting /\ UNCHANGED <<posting, row>>
  BY DEF Tapped, WriterAlone, QuietIssue
<1>2. CASE /\ tagged' = tagged \cup {call[t].card}
           /\ dialog' = [dialog EXCEPT !.tagWritten = TRUE] /\ pc' = [pc EXCEPT ![t] = "mark"]
           /\ call' = [call EXCEPT ![t].card = dialog.card]
  <2>1. /\ dialog'.show = dialog.show /\ dialog'.card = dialog.card /\ dialog'.uri = dialog.uri
        /\ dialog'.tagWritten /\ call'[t].card = dialog.card
        /\ \A q \in Calls : pc'[q] \in {"idle", "mark"}
        /\ \A q \in Calls \ {t} : pc'[q] = "idle"
    BY <1>1, <1>2
  <2>2. QuietIssue' /\ WriterAlone' /\ OwnUri'
    BY <1>1, <2>1 DEF QuietIssue, WriterAlone, OwnUri
  <2>3. RecordsTags' /\ WrittenMeansTagged'
    BY <1>1, <1>2, <2>1 DEF RecordsTags, WrittenMeansTagged
  <2> QED BY <2>2, <2>3
<1>3. CASE /\ dialog' = Finally([dialog EXCEPT !.error = TRUE], t)
           /\ pc' = [pc EXCEPT ![t] = "idle"] /\ UNCHANGED <<call, tagged>>
  <2>1. [dialog EXCEPT !.error = TRUE] \in Dialogs
    BY DEF Dialogs
  <2>2. /\ dialog'.show = dialog.show /\ dialog'.card = dialog.card /\ dialog'.uri = dialog.uri
        /\ dialog'.tagWritten = dialog.tagWritten
    BY <1>3, <2>1, FinallyEnds
  <2>3. \A q \in Calls : pc'[q] = "idle"
    BY <1>1, <1>3
  <2> QED BY <1>1, <1>3, <2>2, <2>3
       DEF QuietIssue, WriterAlone, OwnUri, RecordsTags, WrittenMeansTagged
<1> QED BY <1>2, <1>3 DEF Tapped, BeginMark

(* The answer of a status update keeps it.                                 *)
LEMMA MarkedSafe ==
    ASSUME DialogInv, NEW t \in Calls, Marked(t)
    PROVE  DialogSafe'
<1> USE DialogAssumption DEF DialogInv, DialogSafe, TypeOK
<1>1. /\ pc[t] = "mark" /\ call[t].card \in tagged \cup {None}
      /\ dialog.show => dialog.tagWritten
      /\ ~posting /\ UNCHANGED <<posting, call, tagged>>
      /\ \A q \in Calls : pc[q] \notin {"fetch", "write"}
  BY DEF Marked, WriterAlone, QuietIssue, RecordsTags
<1>2. /\ pc' \in {[pc EXCEPT ![t] = "list"], [pc EXCEPT ![t] = "idle"]}
      /\ row' = row \/ (call[t].card # None /\ row' = [row EXCEPT ![call[t].card] = "written"])
  BY DEF Marked
<1>3. /\ dialog'.show = dialog.show /\ dialog'.card = dialog.card /\ dialog'.uri = dialog.uri
      /\ dialog'.tagWritten = dialog.tagWritten
  <2>1. [dialog EXCEPT !.error = TRUE] \in Dialogs
    BY DEF Dialogs
  <2>2. dialog' = dialog \/ dialog' = Finally([dialog EXCEPT !.error = TRUE], t)
    BY DEF Marked
  <2> QED BY <2>1, <2>2, FinallyEnds
<1>4. /\ \A q \in Calls : pc'[q] \notin {"fetch", "write"}
      /\ \A q \in Calls : pc'[q] \in {"mark", "list"} => pc[q] \in {"mark", "list"}
  BY <1>1, <1>2
<1>5. QuietIssue' /\ WriterAlone' /\ OwnUri' /\ RecordsTags'
  BY <1>1, <1>3, <1>4 DEF QuietIssue, WriterAlone, OwnUri, RecordsTags
<1>6. WrittenMeansTagged'
  BY <1>1, <1>2 DEF WrittenMeansTagged
<1> QED BY <1>5, <1>6

(* Closing the dialog keeps it, also while calls are under way.            *)
LEMMA CloseSafe ==
    ASSUME DialogInv, dialog' = Closed, UNCHANGED <<posting, call, row, tagged>>, ~posting,
           \A q \in Calls : pc'[q] \in {pc[q], "idle"}
    PROVE  DialogSafe'
BY DialogAssumption DEF Closed, DialogInv, DialogSafe, TypeOK, QuietIssue, WriterAlone, OwnUri,
   RecordsTags, WrittenMeansTagged

(* The invariant is inductive when no dialog is opened beside a call.      *)
LEMMA DialogStep ==
    ASSUME OneAtATime
    PROVE  DialogInv /\ [Next]_vars => DialogInv'
<1> SUFFICES ASSUME DialogInv, [Next]_vars PROVE DialogSafe'
    BY TypeStep DEF DialogInv, DialogSafe
<1>1. ASSUME NEW t \in Calls, NEW c \in Cards, Click(t, c) PROVE DialogSafe'
  <2>1. /\ Prepare(t, c, "prepare") /\ posting' = FALSE
        /\ \A q \in Calls : pc[q] = "idle"
    BY <1>1 DEF Click, Quiet, DialogInv, TypeOK
  <2> QED BY <2>1, PrepareSafe
<1>2. ASSUME NEW t \in Calls, NEW c \in Cards, Issued(t, c) PROVE DialogSafe'
  BY <1>2, PrepareSafe DEF Issued, DialogInv, DialogSafe, QuietIssue
<1>3. CASE Issue
  BY <1>3 DEF Issue, Quiet, DialogInv, DialogSafe, QuietIssue, WriterAlone, OwnUri, RecordsTags,
     WrittenMeansTagged
<1>4. CASE IssueFailed
  BY <1>4 DEF IssueFailed, DialogInv, DialogSafe, QuietIssue, WriterAlone, OwnUri, RecordsTags,
     WrittenMeansTagged
<1>5. ASSUME NEW t \in Calls, Listed(t) PROVE DialogSafe'
  <2>1. ~posting
    BY <1>5 DEF Listed, DialogInv, DialogSafe, QuietIssue
  <2>2. \A q \in Calls : pc'[q] \in {pc[q], "idle"}
    BY <1>5 DEF Listed, Close, DialogInv, TypeOK
  <2> QED BY <1>5, <2>1, <2>2, CloseSafe DEF Listed, Close
<1>6. CASE Cancel
  <2>1. ~posting
    BY <1>6 DEF Cancel, DialogInv, DialogSafe, QuietIssue
  <2>2. \A q \in Calls : pc'[q] \in {pc[q], "idle"}
    BY <1>6 DEF Cancel, Close
  <2> QED BY <1>6, <2>1, <2>2, CloseSafe DEF Cancel, Close
<1>7. CASE UNCHANGED vars
  BY <1>7 DEF vars, DialogInv, DialogSafe, QuietIssue, WriterAlone, OwnUri, RecordsTags,
     WrittenMeansTagged
<1> QED BY <1>1, <1>2, <1>3, <1>4, <1>5, <1>6, <1>7, FetchedSafe, TappedSafe, MarkedSafe, RetrySafe
     DEF Next, Resume

(* It holds of a page that has just been loaded.                           *)
LEMMA DialogInit == Init => DialogInv
<1> SUFFICES ASSUME Init PROVE DialogInv
    OBVIOUS
<1> USE DialogAssumption DEF Init, Closed
<1>1. TypeOK
  <2>0. faults \in 0..MaxFaults
    OBVIOUS
  <2>1. posting \in BOOLEAN /\ cards \in SUBSET Cards /\ tagged \in SUBSET Cards
    OBVIOUS
  <2>2. dialog \in Dialogs
    BY DEF Dialogs
  <2>3. /\ pc \in [Calls -> {"idle", "fetch", "write", "mark", "list"}]
        /\ call \in [Calls -> [by : {"issue", "prepare", "write", "mark"}, card : Cards \cup {None}]]
        /\ row \in [Cards -> {"unwritten", "written"}]
    OBVIOUS
  <2> QED BY <2>0, <2>1, <2>2, <2>3 DEF TypeOK, Dialogs
<1>2. DialogSafe
  BY DEF DialogSafe, QuietIssue, WriterAlone, OwnUri, RecordsTags, WrittenMeansTagged
<1> QED BY <1>1, <1>2 DEF DialogInv

(* Every variable keeps its type: a tag never gets the URI of no card.     *)
THEOREM DialogTypeCorrect ==
    ASSUME OneAtATime
    PROVE  Spec => []TypeOK
<1>1. DialogInv /\ [Next]_vars => DialogInv'
  BY DialogStep
<1>2. DialogInv => TypeOK
  BY DEF DialogInv
<1> QED BY <1>1, <1>2, DialogInit, PTL DEF Spec

(* A card is Written only if a tag carries its URI, for an operator who    *)
(* opens no dialog while a call is unfinished, whatever is cancelled,      *)
(* retried or fails.                                                       *)
THEOREM DialogWrittenMeansTagged ==
    ASSUME OneAtATime
    PROVE  Spec => []WrittenMeansTagged
<1>1. DialogInv /\ [Next]_vars => DialogInv'
  BY DialogStep
<1>2. DialogInv => WrittenMeansTagged
  BY DEF DialogInv, DialogSafe
<1> QED BY <1>1, <1>2, DialogInit, PTL DEF Spec

(* In a dialog whose tag is written, no further tag is, however often the  *)
(* status update is retried.                                               *)
THEOREM DialogRetryNeverRewrites ==
    ASSUME OneAtATime
    PROVE  Spec => RetryNeverRewrites
<1>1. DialogInv /\ [Next]_vars => DialogInv'
  BY DialogStep
<1>2. DialogInv => \A t \in Calls : pc[t] = "write" /\ pc'[t] = "mark" => ~dialog.tagWritten
  BY DEF DialogInv, DialogSafe, WriterAlone
<1> QED BY <1>1, <1>2, DialogInit, PTL DEF Spec, RetryNeverRewrites

=============================================================================
