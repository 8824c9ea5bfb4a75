------------------------- MODULE CardServiceProofs -------------------------
(***************************************************************************)
(* Proofs about CardService, for any sets of cards, accounts, requests and *)
(* settings, any bound on faults and any kinds of faults.                  *)
(*                                                                         *)
(* First the types, operator by operator and then handler by handler, and  *)
(* that no handler goes on forever; then the answers of the requests that  *)
(* set links, over CardHistory; then what keeps issues apart, and the      *)
(* invariant DeletionSafe, from which the two theorems about deletion      *)
(* follow; and last that CardService implements CardContract, with the     *)
(* other properties that rest on the same invariants.                      *)
(***************************************************************************)
EXTENDS CardRefinement, CardHistory, TLAPS, FiniteSetTheorems

(* The initial state is well typed.                                        *)
LEMMA TypeInit == Init => TypeOK
<1> SUFFICES ASSUME Init PROVE TypeOK
    OBVIOUS
<1>1. StoreType
  BY DEF Init, StoreType
<1>2. RequestType
  BY DEF Init, RequestType, Pc, Job, Status
<1>3. UpdateType
  BY DEF Init, UpdateType, NoCards, Progress
<1> QED BY <1>1, <1>2, <1>3, CardsAssumption DEF Init, TypeOK

(* A fault is counted only below the bound.                                *)
LEMMA SpendType ==
    ASSUME NEW f, TypeOK, Spend(f)
    PROVE  faults' \in 0..MaxFaults
BY CardsAssumption DEF Spend, TypeOK

(* Moving a request to its next call keeps its type.                       *)
LEMMA GotoType ==
    ASSUME NEW r \in Requests, NEW p \in Pc, TypeOK, Goto(r, p)
    PROVE  RequestType'
BY DEF TypeOK, RequestType, Goto

(* Answering a request keeps its type.                                     *)
LEMMA AnswerType ==
    ASSUME NEW r \in Requests, NEW status \in Status, TypeOK, Answer(r, status)
    PROVE  RequestType'
BY DEF TypeOK, RequestType, Answer, Pc

(* Entering the error path of an issue keeps the type of the request.      *)
LEMMA UndoType ==
    ASSUME NEW r \in Requests, NEW p \in Pc, NEW status \in Status, TypeOK, Undo(r, p, status)
    PROVE  RequestType'
BY DEF TypeOK, RequestType, Undo

(* So does each step of that path, which notes its failure.                *)
LEMMA UndoStepType ==
    ASSUME NEW r \in Requests, NEW p, NEW q \in Pc, NEW good,
           NEW what \in {"card", "withdraw", "wallet"}, TypeOK, UndoStep(r, p, q, what, good)
    PROVE  RequestType' /\ UpdateType' /\ withdrawOn' \in BOOLEAN
BY DEF TypeOK, RequestType, UpdateType, update, UndoStep

(* Settling the update of one card keeps the types of the progress.        *)
LEMMA SettleType ==
    ASSUME NEW r \in Requests, NEW c \in Cards, NEW result \in Progress \ {"put"},
           TypeOK, Settle(r, c, result)
    PROVE  UpdateType'
<1> USE DEF TypeOK, UpdateType, Settle
<1>1. /\ sub' \in [Requests -> [Cards -> Progress]]
      /\ got' \in [Requests -> [Cards -> Settings \cup {None}]]
  OBVIOUS
<1>2. ASSUME NEW q \in Requests, NEW d \in Cards, sub'[q][d] = "put"
      PROVE  got'[q][d] \in Settings
  <2>1. q # r \/ d # c
    BY <1>2
  <2>2. sub'[q][d] = sub[q][d] /\ got'[q][d] = got[q][d]
    BY <2>1
  <2> QED BY <1>2, <2>2
<1> QED BY <1>1, <1>2

(* A request that arrives is well typed, whether admitted or turned away.  *)
LEMMA ArriveType ==
    ASSUME NEW r \in Requests, NEW op \in {"issue", "set", "bulk", "delete", "mark", "nfc"},
           NEW a \in Accounts, NEW c \in Cards \cup {None},
           NEW w \in {"on", "off"}, NEW p \in Pc, NEW status \in Status,
           TypeOK, Arrive(r, op, a, c, w, p, status)
    PROVE  TypeOK'
<1>1. RequestType'
  BY DEF TypeOK, RequestType, Arrive, Job
<1>2. UpdateType'
  BY DEF TypeOK, UpdateType, Arrive, NoCards, Progress
<1> QED BY <1>1, <1>2 DEF TypeOK, StoreType, Arrive, store

(* The steps of issue_denchi keep the types.                               *)
LEMMA IssueStepType ==
    ASSUME NEW r \in Requests, TypeOK, IssueStep(r)
    PROVE  TypeOK'
<1> USE DEF Pc, IssuePc, DeletePc, OtherPc, Status
<1>1. CASE IssueCreateWallet(r)
  <2>1. StoreType'
    BY <1>1 DEF TypeOK, StoreType, RequestType, Job, IssueCreateWallet
  <2>2. RequestType'
    BY <1>1, GotoType, AnswerType DEF IssueCreateWallet
  <2>3. UpdateType'
    BY <1>1 DEF TypeOK, UpdateType, update, IssueCreateWallet
  <2> QED BY <1>1, <2>1, <2>2, <2>3, SpendType DEF TypeOK, IssueCreateWallet
<1>2. CASE IssueCreateLink(r)
  <2>1. StoreType'
    <3>1. PICK s \in Settings :
              \/ UNCHANGED <<link, settings>>
              \/ /\ link' = [link EXCEPT ![job[r].card] = "on"]
                 /\ settings' = [settings EXCEPT ![job[r].card] = s]
      BY <1>2 DEF IssueCreateLink
    <3>2. UNCHANGED <<wallet, owner, row>>
      BY <1>2 DEF IssueCreateLink
    <3> QED BY <3>1, <3>2 DEF TypeOK, StoreType
  <2>2. RequestType'
    BY <1>2, GotoType, UndoType DEF IssueCreateLink
  <2>3. UpdateType'
    BY <1>2 DEF TypeOK, UpdateType, update, IssueCreateLink
  <2> QED BY <1>2, <2>1, <2>2, <2>3, SpendType DEF TypeOK, IssueCreateLink
<1>3. CASE IssueInsertCard(r)
  <2>1. StoreType'
    BY <1>3 DEF TypeOK, StoreType, IssueInsertCard
  <2>2. RequestType'
    BY <1>3, GotoType, UndoType DEF IssueInsertCard
  <2>3. UpdateType'
    BY <1>3 DEF TypeOK, UpdateType, update, IssueInsertCard
  <2> QED BY <1>3, <2>1, <2>2, <2>3, SpendType DEF TypeOK, IssueInsertCard
<1>4. CASE IssueLoadCard(r)
  <2>1. StoreType'
    BY <1>4 DEF TypeOK, StoreType, store, IssueLoadCard
  <2>2. RequestType'
    BY <1>4, AnswerType, UndoType DEF IssueLoadCard
  <2>3. UpdateType'
    BY <1>4 DEF TypeOK, UpdateType, update, IssueLoadCard
  <2> QED BY <1>4, <2>1, <2>2, <2>3, SpendType DEF TypeOK, IssueLoadCard
<1>5. CASE IssueUndoCard(r)
  <2>1. StoreType'
    BY <1>5 DEF TypeOK, StoreType, IssueUndoCard
  <2>2. RequestType' /\ UpdateType' /\ withdrawOn' \in BOOLEAN
    BY <1>5, UndoStepType DEF IssueUndoCard
  <2> QED BY <1>5, <2>1, <2>2, SpendType DEF TypeOK, IssueUndoCard
<1>6. CASE IssueUndoLink(r)
  <2>1. StoreType'
    BY <1>6 DEF TypeOK, StoreType, IssueUndoLink
  <2>2. RequestType' /\ UpdateType' /\ withdrawOn' \in BOOLEAN
    BY <1>6, UndoStepType DEF IssueUndoLink
  <2> QED BY <1>6, <2>1, <2>2, SpendType DEF TypeOK, IssueUndoLink
<1>7. CASE IssueUndoWallet(r)
  <2>1. StoreType'
    BY <1>7 DEF TypeOK, StoreType, IssueUndoWallet
  <2>2. RequestType' /\ UpdateType' /\ withdrawOn' \in BOOLEAN
    BY <1>7, UndoStepType DEF IssueUndoWallet
  <2> QED BY <1>7, <2>1, <2>2, SpendType DEF TypeOK, IssueUndoWallet
<1> QED BY <1>1, <1>2, <1>3, <1>4, <1>5, <1>6, <1>7 DEF IssueStep

(* A step that begins no PUT keeps what the cards at their PUTs hold.      *)
LEMMA ProgressType ==
    ASSUME TypeOK, sub' \in [Requests -> [Cards -> Progress]], got' = got,
           \A q \in Requests, c \in Cards : sub'[q][c] = "put" => sub[q][c] = "put"
    PROVE  UpdateType'
BY DEF TypeOK, UpdateType

(* The amounts come back from a PUT as its GET read them: what is sent in  *)
(* units of a currency is kept in hundredths again, and nothing is cut off.*)
LEMMA RoundTrip ==
    ASSUME NEW s \in Settings
    PROVE  Stored(Sent(s)) = s
<1>1. s \in [currency : STRING, min : Nat, max : Nat, title : STRING]
  BY CardsAssumption
<1>2. s = Amounts(s, s.min, s.max)
  BY <1>1 DEF Amounts
<1>3. PerUnit(Sent(s)) = PerUnit(s)
  BY DEF PerUnit, InSats, Sent, Amounts
<1>4. Stored(Sent(s)) = Amounts(s, (PerUnit(s) * s.min) \div PerUnit(s),
                                   (PerUnit(s) * s.max) \div PerUnit(s))
  BY <1>3 DEF Stored, Sent, Amounts
<1>5. \A n \in Nat : (PerUnit(s) * n) \div PerUnit(s) = n
  <2>1. \A n \in Nat : (1 * n) \div 1 = n /\ (100 * n) \div 100 = n
    OBVIOUS
  <2> QED BY <2>1 DEF PerUnit
<1>6. s.min \in Nat /\ s.max \in Nat
  BY <1>1
<1> QED BY <1>2, <1>4, <1>5, <1>6

(* So do those of set_denchi_enabled and disable_all_cards.                *)
LEMMA UpdateStepType ==
    ASSUME NEW r \in Requests, TypeOK, UpdateStep(r)
    PROVE  TypeOK'
<1> USE DEF Pc, IssuePc, DeletePc, OtherPc, Status
<1>1. CASE SetFindWallet(r)
  <2>1. StoreType'
    BY <1>1 DEF TypeOK, StoreType, store, SetFindWallet
  <2>2. RequestType'
    BY <1>1, GotoType, AnswerType DEF SetFindWallet
  <2>3. UpdateType'
    <3>1. sub' = sub \/ sub' = [sub EXCEPT ![r][job[r].card] = "queued"]
      BY <1>1 DEF SetFindWallet
    <3>2. \A q \in Requests, c \in Cards : sub'[q][c] = "put" => sub[q][c] = "put"
      BY <3>1 DEF TypeOK, UpdateType
    <3>3. sub' \in [Requests -> [Cards -> Progress]]
      <4>1. sub \in [Requests -> [Cards -> Progress]]
        BY DEF TypeOK, UpdateType
      <4> QED BY <3>1, <4>1 DEF Progress
    <3> QED BY <1>1, <3>2, <3>3, ProgressType DEF SetFindWallet
  <2> QED BY <1>1, <2>1, <2>2, <2>3, SpendType DEF TypeOK, SetFindWallet
<1>2. CASE BulkSnapshot(r)
  <2>1. StoreType'
    BY <1>2 DEF TypeOK, StoreType, store, BulkSnapshot
  <2>2. RequestType'
    BY <1>2, GotoType, AnswerType DEF BulkSnapshot
  <2>3. UpdateType'
    <3>1. \/ sub' = sub
          \/ sub' = [sub EXCEPT ![r] = [c \in Cards |->
                       IF Owned(c, job[r].acct) THEN "queued" ELSE "none"]]
      BY <1>2 DEF BulkSnapshot
    <3>2. \A q \in Requests, c \in Cards : sub'[q][c] = "put" => sub[q][c] = "put"
      BY <3>1 DEF TypeOK, UpdateType
    <3>3. sub' \in [Requests -> [Cards -> Progress]]
      <4>1. sub \in [Requests -> [Cards -> Progress]]
        BY DEF TypeOK, UpdateType
      <4> QED BY <3>1, <4>1 DEF Progress
    <3> QED BY <1>2, <3>2, <3>3, ProgressType DEF BulkSnapshot
  <2> QED BY <1>2, <2>1, <2>2, <2>3, SpendType DEF TypeOK, BulkSnapshot
<1>3. CASE UpdateDone(r)
  <2>1. StoreType'
    BY <1>3 DEF TypeOK, StoreType, store, UpdateDone
  <2>2. RequestType'
    BY <1>3, AnswerType DEF UpdateDone
  <2>3. UpdateType'
    BY <1>3 DEF TypeOK, UpdateType, update, UpdateDone
  <2> QED BY <1>3, <2>1, <2>2, <2>3, SpendType DEF TypeOK, UpdateDone
<1>4. ASSUME NEW c \in Cards, UpdateGet(r, c) PROVE TypeOK'
  <2>1. UpdateType'
    <3>1. CASE Settle(r, c, "failed") \/ Settle(r, c, "skipped")
      BY <3>1, SettleType DEF Progress
    <3>2. CASE /\ LinkFound(c)
               /\ sub' = [sub EXCEPT ![r][c] = "put"]
               /\ got' = [got EXCEPT ![r][c] = settings[c]]
      <4>1. settings[c] \in Settings
        BY <3>2 DEF TypeOK, StoreType, LinkFound
      <4> QED BY <3>2, <4>1 DEF TypeOK, UpdateType, Progress
    <3> QED BY <1>4, <3>1, <3>2 DEF UpdateGet
  <2> QED BY <1>4, <2>1, SpendType DEF TypeOK, StoreType, RequestType, UpdateGet, store, request
<1>5. ASSUME NEW c \in Cards, UpdatePut(r, c) PROVE TypeOK'
  <2>1. Settle(r, c, "updated") \/ Settle(r, c, "failed")
    BY <1>5 DEF UpdatePut
  <2>2. UpdateType'
    BY <2>1, SettleType DEF Progress
  <2>3. CASE Write(r, c)
    <3>1. job[r].want \in {"on", "off"} /\ got[r][c] \in Settings
      BY <1>5 DEF TypeOK, RequestType, UpdateType, Job, UpdatePut
    <3>2. /\ link' = [link EXCEPT ![c] = job[r].want]
          /\ settings' = [settings EXCEPT ![c] = got[r][c]]
      BY <2>3, <3>1, RoundTrip DEF Write
    <3>3. StoreType'
      BY <1>5, <3>1, <3>2 DEF TypeOK, StoreType, UpdatePut
    <3> QED BY <1>5, <2>2, <3>3, SpendType DEF TypeOK, RequestType, UpdatePut, request
  <2>4. CASE UNCHANGED <<link, settings>>
    BY <1>5, <2>2, <2>4, SpendType DEF TypeOK, StoreType, RequestType, UpdatePut, request
  <2> QED BY <1>5, <2>3, <2>4 DEF UpdatePut
<1> QED BY <1>1, <1>2, <1>3, <1>4, <1>5 DEF UpdateStep

(* And those of delete_existing_denchi.                                    *)
LEMMA DeleteStepType ==
    ASSUME NEW r \in Requests, TypeOK, DeleteStep(r)
    PROVE  TypeOK'
<1> USE DEF Pc, IssuePc, DeletePc, OtherPc, Status
<1>1. CASE DeleteFindWallet(r)
  <2>1. StoreType'
    BY <1>1 DEF TypeOK, StoreType, store, DeleteFindWallet
  <2>2. RequestType'
    BY <1>1, GotoType, AnswerType DEF DeleteFindWallet
  <2>3. UpdateType'
    BY <1>1 DEF TypeOK, UpdateType, update, DeleteFindWallet
  <2> QED BY <1>1, <2>1, <2>2, <2>3, SpendType DEF TypeOK, DeleteFindWallet
<1>2. CASE DeleteProbeLink(r)
  <2>1. StoreType'
    BY <1>2 DEF TypeOK, StoreType, store, DeleteProbeLink
  <2>2. RequestType'
    BY <1>2, GotoType, AnswerType DEF DeleteProbeLink
  <2>3. UpdateType'
    BY <1>2 DEF TypeOK, UpdateType, update, DeleteProbeLink
  <2> QED BY <1>2, <2>1, <2>2, <2>3, SpendType DEF TypeOK, DeleteProbeLink
<1>3. CASE DeleteDropLink(r)
  <2>1. StoreType'
    BY <1>3 DEF TypeOK, StoreType, DeleteDropLink
  <2>2. RequestType'
    BY <1>3, GotoType, AnswerType DEF DeleteDropLink
  <2>3. UpdateType'
    BY <1>3 DEF TypeOK, UpdateType, update, DeleteDropLink
  <2> QED BY <1>3, <2>1, <2>2, <2>3, SpendType DEF TypeOK, DeleteDropLink
<1>4. CASE DeleteDropWallet(r)
  <2>1. StoreType'
    BY <1>4 DEF TypeOK, StoreType, DeleteDropWallet
  <2>2. RequestType'
    BY <1>4, GotoType, AnswerType DEF DeleteDropWallet
  <2>3. UpdateType'
    BY <1>4 DEF TypeOK, UpdateType, update, DeleteDropWallet
  <2> QED BY <1>4, <2>1, <2>2, <2>3, SpendType DEF TypeOK, DeleteDropWallet
<1>5. CASE DeleteConfirmWallet(r)
  <2>1. StoreType'
    BY <1>5 DEF TypeOK, StoreType, store, DeleteConfirmWallet
  <2>2. RequestType'
    BY <1>5, GotoType, AnswerType DEF DeleteConfirmWallet
  <2>3. UpdateType'
    BY <1>5 DEF TypeOK, UpdateType, update, DeleteConfirmWallet
  <2> QED BY <1>5, <2>1, <2>2, <2>3, SpendType DEF TypeOK, DeleteConfirmWallet
<1>6. CASE DeleteDropCard(r)
  <2>1. StoreType'
    BY <1>6 DEF TypeOK, StoreType, DeleteDropCard
  <2>2. RequestType'
    BY <1>6, GotoType, AnswerType DEF DeleteDropCard
  <2>3. UpdateType'
    BY <1>6 DEF TypeOK, UpdateType, update, DeleteDropCard
  <2> QED BY <1>6, <2>1, <2>2, <2>3, SpendType DEF TypeOK, DeleteDropCard
<1>7. CASE DeleteConfirmCard(r)
  <2>1. StoreType'
    BY <1>7 DEF TypeOK, StoreType, store, DeleteConfirmCard
  <2>2. RequestType'
    BY <1>7, AnswerType DEF DeleteConfirmCard
  <2>3. UpdateType'
    BY <1>7 DEF TypeOK, UpdateType, update, DeleteConfirmCard
  <2> QED BY <1>7, <2>1, <2>2, <2>3, SpendType DEF TypeOK, DeleteConfirmCard
<1> QED BY <1>1, <1>2, <1>3, <1>4, <1>5, <1>6, <1>7 DEF DeleteStep

(* And those of the NFC endpoints.                                         *)
LEMMA NfcStepType ==
    ASSUME NEW r \in Requests, TypeOK, NfcStep(r)
    PROVE  TypeOK'
<1> USE DEF Pc, IssuePc, DeletePc, OtherPc, Status
<1>1. CASE MarkWrite(r)
  <2>1. StoreType'
    BY <1>1 DEF TypeOK, StoreType, MarkWrite
  <2>2. RequestType'
    BY <1>1, GotoType, AnswerType DEF MarkWrite
  <2>3. UpdateType'
    BY <1>1 DEF TypeOK, UpdateType, update, MarkWrite
  <2> QED BY <1>1, <2>1, <2>2, <2>3, SpendType DEF TypeOK, MarkWrite
<1>2. CASE MarkReload(r)
  <2>1. StoreType'
    BY <1>2 DEF TypeOK, StoreType, store, MarkReload
  <2>2. RequestType'
    BY <1>2, AnswerType DEF MarkReload
  <2>3. UpdateType'
    BY <1>2 DEF TypeOK, UpdateType, update, MarkReload
  <2> QED BY <1>2, <2>1, <2>2, <2>3, SpendType DEF TypeOK, MarkReload
<1>3. CASE NfcFindWallet(r)
  <2>1. StoreType'
    BY <1>3 DEF TypeOK, StoreType, store, NfcFindWallet
  <2>2. RequestType'
    BY <1>3, GotoType, AnswerType DEF NfcFindWallet
  <2>3. UpdateType'
    BY <1>3 DEF TypeOK, UpdateType, update, NfcFindWallet
  <2> QED BY <1>3, <2>1, <2>2, <2>3, SpendType DEF TypeOK, NfcFindWallet
<1>4. CASE NfcGetLink(r)
  <2>1. StoreType'
    BY <1>4 DEF TypeOK, StoreType, store, NfcGetLink
  <2>2. RequestType'
    BY <1>4, AnswerType DEF NfcGetLink
  <2>3. UpdateType'
    BY <1>4 DEF TypeOK, UpdateType, update, NfcGetLink
  <2> QED BY <1>4, <2>1, <2>2, <2>3, SpendType DEF TypeOK, NfcGetLink
<1> QED BY <1>1, <1>2, <1>3, <1>4 DEF NfcStep

(* And the arrival of any request.                                         *)
LEMMA ClientType ==
    ASSUME NEW r \in Requests, TypeOK, Client(r)
    PROVE  TypeOK'
<1> USE ArriveType DEF Admit, TurnAway, Pc, IssuePc, DeletePc, OtherPc, Status
<1>1. CASE IssueStart(r)
  BY <1>1 DEF IssueStart
<1>2. CASE SetStart(r)
  BY <1>2 DEF SetStart
<1>3. CASE BulkStart(r)
  BY <1>3 DEF BulkStart
<1>4. CASE MarkStart(r)
  BY <1>4 DEF MarkStart
<1>5. CASE NfcStart(r)
  BY <1>5 DEF NfcStart
<1>6. ASSUME NEW a \in Accounts, NEW c \in Cards, DeleteStart(r, a, c) PROVE TypeOK'
  BY <1>6 DEF DeleteStart
<1> QED BY <1>1, <1>2, <1>3, <1>4, <1>5, <1>6 DEF Client

(* And a crash, a change from outside, a switch of Withdraw.               *)
LEMMA EnvironmentType ==
    ASSUME TypeOK, Environment
    PROVE  TypeOK'
<1>1. CASE Crash
  <2>1. RequestType'
    BY <1>1 DEF TypeOK, RequestType, Crash, Pc, Status
  <2>2. UpdateType'
    BY <1>1 DEF TypeOK, UpdateType, Crash, NoCards, Progress
  <2> QED BY <1>1, <2>1, <2>2, CardsAssumption DEF TypeOK, StoreType, Crash, store
<1>2. CASE SwitchWithdraw
  BY <1>2 DEF TypeOK, StoreType, RequestType, UpdateType, SwitchWithdraw, store, request, update
<1>3. ASSUME NEW c \in Cards, ExternalLink(c) PROVE TypeOK'
  <2>1. link' \in [Cards -> {"absent", "on", "off"}]
    BY <1>3 DEF TypeOK, StoreType, ExternalLink
  <2>2. /\ settings' \in [Cards -> Settings \cup {None}]
        /\ \A d \in Cards : link'[d] # "absent" => settings'[d] \in Settings
    BY <1>3 DEF TypeOK, StoreType, ExternalLink, LinkFound
  <2>3. UNCHANGED <<wallet, owner, row, withdrawOn, request, update, faults>>
    BY <1>3 DEF ExternalLink
  <2> QED BY <2>1, <2>2, <2>3 DEF TypeOK, StoreType, RequestType, UpdateType, request, update
<1>4. ASSUME NEW c \in Cards, ExternalDropWallet(c) PROVE TypeOK'
  BY <1>4 DEF TypeOK, StoreType, RequestType, UpdateType, ExternalDropWallet, request, update
<1> QED BY <1>1, <1>2, <1>3, <1>4 DEF Environment

(* Every step keeps the types.                                             *)
LEMMA TypeStep == TypeOK /\ [Next]_vars => TypeOK'
<1> SUFFICES ASSUME TypeOK, [Next]_vars PROVE TypeOK'
    OBVIOUS
<1>1. CASE UNCHANGED vars
  BY <1>1 DEF TypeOK, StoreType, RequestType, UpdateType, vars, store, request, update
<1>2. CASE Next
  BY <1>2, ClientType, IssueStepType, UpdateStepType, DeleteStepType, NfcStepType,
     EnvironmentType DEF Next, Handler
<1> QED BY <1>1, <1>2

(* Every variable keeps its type: the stores of the three owners, the      *)
(* requests in progress, and the updates of links they have under way.     *)
THEOREM TypeCorrect == Spec => []TypeOK
BY TypeInit, TypeStep, PTL DEF Spec

-----------------------------------------------------------------------------
(* What every answer rests on: the calls of a request run out.             *)

(* The cards that stand at v in the progress s of an update.               *)
Standing(s, v) == {c \in Cards : s[c] = v}

(* CallsAhead, call by call.                                               *)
LEMMA CallsAheadOf ==
    ASSUME NEW s
    PROVE  /\ CallsAhead("idle", s) = 0
           /\ CallsAhead("update", s) =
                 2 * Cardinality(Standing(s, "queued")) + Cardinality(Standing(s, "put")) + 1
           /\ CallsAhead("setWallet", s) = 2 * Cardinality(Cards) + 2
           /\ CallsAhead("snapshot", s) = 2 * Cardinality(Cards) + 2
           /\ \A p \in {"undoWallet", "confirmCard", "reloadCard", "nfcLink"} : CallsAhead(p, s) = 1
           /\ \A p \in {"undoLink", "dropCard", "markCard", "nfcWallet"} : CallsAhead(p, s) = 2
           /\ \A p \in {"undoCard", "confirmWallet"} : CallsAhead(p, s) = 3
           /\ \A p \in {"loadCard", "dropWallet"} : CallsAhead(p, s) = 4
           /\ \A p \in {"insertCard", "dropLink", "probeLink"} : CallsAhead(p, s) = 5
           /\ \A p \in {"createLink", "findWallet"} : CallsAhead(p, s) = 6
           /\ CallsAhead("createWallet", s) = 7
BY DEF CallsAhead, Standing

(* The cards of an update are counted once.                                *)
LEMMA Counts ==
    ASSUME IsFiniteSet(Cards), NEW s
    PROVE  /\ IsFiniteSet(Standing(s, "queued")) /\ IsFiniteSet(Standing(s, "put"))
           /\ Cardinality(Cards) \in Nat
           /\ Cardinality(Standing(s, "queued")) \in Nat
           /\ Cardinality(Standing(s, "put")) \in Nat
           /\ Cardinality(Standing(s, "queued")) + Cardinality(Standing(s, "put")) <= Cardinality(Cards)
<1> DEFINE Q == Standing(s, "queued")
           P == Standing(s, "put")
<1>1. Q \in SUBSET Cards /\ P \in SUBSET Cards /\ Q \cup P \in SUBSET Cards /\ Q \cap P = {}
  BY DEF Standing
<1>2. IsFiniteSet(Q) /\ IsFiniteSet(P) /\ Cardinality(Q \cup P) <= Cardinality(Cards)
  BY <1>1, FS_Subset
<1>3. Cardinality(Q \cup P) = Cardinality(Q) + Cardinality(P) - Cardinality({})
  BY <1>1, <1>2, FS_Union
<1>4. Cardinality(Q) \in Nat /\ Cardinality(P) \in Nat /\ Cardinality(Cards) \in Nat
  BY <1>2, FS_CardinalityType
<1> QED BY <1>2, <1>3, <1>4, FS_EmptySet

(* No call has more calls ahead of it than the first of a bulk action over *)
(* all cards or the first of an issue.                                     *)
LEMMA CallsAheadBounded ==
    ASSUME IsFiniteSet(Cards), NEW p \in Pc, NEW s
    PROVE  CallsAhead(p, s) \in 0..(2 * Cardinality(Cards) + 7)
BY CallsAheadOf, Counts DEF Pc, IssuePc, DeletePc, OtherPc

(* A card that moves on from queued leaves fewer calls, one that moves on  *)
(* from its GET leaves fewer as well.                                      *)
LEMMA CardMovesOn ==
    ASSUME IsFiniteSet(Cards), NEW s \in [Cards -> Progress], NEW c \in Cards, NEW v,
           \/ s[c] = "queued" /\ v # "queued"
           \/ s[c] = "put" /\ v \notin {"queued", "put"}
    PROVE  CallsAhead("update", [s EXCEPT ![c] = v]) < CallsAhead("update", s)
<1> DEFINE t == [s EXCEPT ![c] = v]
<1>1. Standing(t, "queued") = Standing(s, "queued") \ {c}
  BY DEF Standing
<1>2. v # "put" => Standing(t, "put") = Standing(s, "put") \ {c}
  BY DEF Standing
<1>3. v = "put" => Standing(t, "put") = Standing(s, "put") \cup {c}
  BY DEF Standing
<1> HIDE DEF t
<1>4. /\ Cardinality(Standing(s, "queued")) \in Nat /\ IsFiniteSet(Standing(s, "queued"))
      /\ Cardinality(Standing(s, "put")) \in Nat /\ IsFiniteSet(Standing(s, "put"))
  BY Counts
<1>5. c \in Standing(s, "queued") <=> s[c] = "queued"
  BY DEF Standing
<1>6. c \in Standing(s, "put") <=> s[c] = "put"
  BY DEF Standing
<1>7. Cardinality(Standing(t, "queued")) =
        IF s[c] = "queued" THEN Cardinality(Standing(s, "queued")) - 1
                           ELSE Cardinality(Standing(s, "queued"))
  BY <1>1, <1>4, <1>5, FS_RemoveElement
<1>8. Cardinality(Standing(t, "put")) =
        IF v = "put"
          THEN IF s[c] = "put" THEN Cardinality(Standing(s, "put"))
                               ELSE Cardinality(Standing(s, "put")) + 1
          ELSE IF s[c] = "put" THEN Cardinality(Standing(s, "put")) - 1
                               ELSE Cardinality(Standing(s, "put"))
  <2>1. CASE v = "put"
    BY <1>3, <1>4, <1>6, <2>1, FS_AddElement
  <2>2. CASE v # "put" /\ s[c] = "put"
    <3>1. Cardinality(Standing(s, "put") \ {c}) = Cardinality(Standing(s, "put")) - 1
      BY <1>4, <1>6, <2>2, FS_RemoveElement
    <3> QED BY <1>2, <2>2, <3>1
  <2>3. CASE v # "put" /\ s[c] # "put"
    <3>1. Standing(s, "put") \ {c} = Standing(s, "put")
      BY <1>6, <2>3
    <3> QED BY <1>2, <2>3, <3>1
  <2> QED BY <2>1, <2>2, <2>3
<1>9. CallsAhead("update", t) < CallsAhead("update", s)
  BY <1>4, <1>7, <1>8, CallsAheadOf
<1> QED BY <1>9 DEF t

(* A step of an issue, of a deletion or of an NFC request is one call.     *)
LEMMA CallMade ==
    ASSUME NEW r \in Requests, TypeOK, IssueStep(r) \/ DeleteStep(r) \/ NfcStep(r)
    PROVE  CallsLeft(r)' < CallsLeft(r)
<1> USE CallsAheadOf DEF TypeOK, RequestType, CallsLeft, Goto, Answer, Undo, UndoStep
<1>1. CASE IssueStep(r)
  <2>1. CASE IssueCreateWallet(r)
    BY <2>1 DEF IssueCreateWallet
  <2>2. CASE IssueCreateLink(r)
    BY <2>2 DEF IssueCreateLink
  <2>3. CASE IssueInsertCard(r)
    BY <2>3 DEF IssueInsertCard
  <2>4. CASE IssueLoadCard(r)
    BY <2>4 DEF IssueLoadCard
  <2>5. CASE IssueUndoCard(r)
    BY <2>5 DEF IssueUndoCard
  <2>6. CASE IssueUndoLink(r)
    BY <2>6 DEF IssueUndoLink
  <2>7. CASE IssueUndoWallet(r)
    BY <2>7 DEF IssueUndoWallet
  <2> QED BY <1>1, <2>1, <2>2, <2>3, <2>4, <2>5, <2>6, <2>7 DEF IssueStep
<1>2. CASE DeleteStep(r)
  <2>1. CASE DeleteFindWallet(r)
    BY <2>1 DEF DeleteFindWallet
  <2>2. CASE DeleteProbeLink(r)
    BY <2>2 DEF DeleteProbeLink
  <2>3. CASE DeleteDropLink(r)
    BY <2>3 DEF DeleteDropLink
  <2>4. CASE DeleteDropWallet(r)
    BY <2>4 DEF DeleteDropWallet
  <2>5. CASE DeleteConfirmWallet(r)
    BY <2>5 DEF DeleteConfirmWallet
  <2>6. CASE DeleteDropCard(r)
    BY <2>6 DEF DeleteDropCard
  <2>7. CASE DeleteConfirmCard(r)
    BY <2>7 DEF DeleteConfirmCard
  <2> QED BY <1>2, <2>1, <2>2, <2>3, <2>4, <2>5, <2>6, <2>7 DEF DeleteStep
<1>3. CASE NfcStep(r)
  BY <1>3 DEF NfcStep, MarkWrite, MarkReload, NfcFindWallet, NfcGetLink
<1> QED BY <1>1, <1>2, <1>3

(* So is a step of an update, whatever becomes of the card it is for.      *)
LEMMA UpdateCallMade ==
    ASSUME IsFiniteSet(Cards), NEW r \in Requests, TypeOK, UpdateStep(r)
    PROVE  CallsLeft(r)' < CallsLeft(r)
<1> USE DEF TypeOK, RequestType, UpdateType, CallsLeft
<1>0. sub[r] \in [Cards -> Progress]
  OBVIOUS
<1>1. ASSUME pc[r] \in {"setWallet", "snapshot"}, pc'[r] \in {"idle", "update"}
      PROVE  CallsLeft(r)' < CallsLeft(r)
  BY <1>1, CallsAheadOf, Counts
<1>2. CASE SetFindWallet(r)
  BY <1>1, <1>2 DEF SetFindWallet, Goto, Answer
<1>3. CASE BulkSnapshot(r)
  BY <1>1, <1>3 DEF BulkSnapshot, Goto, Answer
<1>4. CASE UpdateDone(r)
  <2>1. pc[r] = "update" /\ pc'[r] = "idle"
    BY <1>4 DEF UpdateDone, Answer
  <2> QED BY <2>1, CallsAheadOf, Counts
<1>5. ASSUME NEW c \in Cards, NEW v, pc[r] = "update", pc' = pc, sub' = [sub EXCEPT ![r][c] = v],
             \/ sub[r][c] = "queued" /\ v # "queued"
             \/ sub[r][c] = "put" /\ v \notin {"queued", "put"}
      PROVE  CallsLeft(r)' < CallsLeft(r)
  <2>1. sub'[r] = [sub[r] EXCEPT ![c] = v]
    BY <1>5
  <2>2. CallsAhead("update", sub'[r]) < CallsAhead("update", sub[r])
    BY <1>0, <1>5, <2>1, CardMovesOn
  <2> QED BY <1>5, <2>2
<1>6. ASSUME NEW c \in Cards, UpdateGet(r, c) PROVE CallsLeft(r)' < CallsLeft(r)
  BY <1>5, <1>6 DEF UpdateGet, Settle, request
<1>7. ASSUME NEW c \in Cards, UpdatePut(r, c) PROVE CallsLeft(r)' < CallsLeft(r)
  BY <1>5, <1>7 DEF UpdatePut, Settle, request
<1> QED BY <1>2, <1>3, <1>4, <1>6, <1>7 DEF UpdateStep

(* For any number of cards, each call a handler makes leaves it fewer: it  *)
(* ends after at most two per card and seven more, whatever fails and      *)
(* whatever other requests do meanwhile.                                   *)
THEOREM HandlersEnd ==
    ASSUME IsFiniteSet(Cards)
    PROVE  Spec => /\ CallsRunOut
                   /\ [](\A r \in Requests : CallsLeft(r) \in 0..(2 * Cardinality(Cards) + 7))
<1>1. TypeOK /\ [Next]_vars => TypeOK'
  BY TypeStep
<1>2. TypeOK => \A r \in Requests : Handler(r) => CallsLeft(r)' < CallsLeft(r)
  BY CallMade, UpdateCallMade DEF Handler
<1>3. TypeOK => \A r \in Requests : CallsLeft(r) \in 0..(2 * Cardinality(Cards) + 7)
  BY CallsAheadBounded DEF TypeOK, RequestType, CallsLeft
<1> QED BY <1>1, <1>2, <1>3, TypeInit, PTL DEF Spec, CallsRunOut

-----------------------------------------------------------------------------
(* The answers of the requests that update links.                          *)

Stays(r) == pc'[r] = pc[r] /\ job'[r] = job[r] /\ out'[r] = out[r] /\ sub'[r] = sub[r]

(* What is observed keeps its type.                                        *)
LEMMA WatchType ==
    ASSUME TypeOK', HistoryTypeOK, Watch
    PROVE  HistoryTypeOK'
<1> DEFINE S == SUBSET {"absent", "on", "off"}
<1>1. \A r \in Requests, c \in Cards : link'[c] \in {"absent", "on", "off"} /\ seen[r][c] \in S
  BY DEF TypeOK, StoreType, HistoryTypeOK
<1>2. \A r \in Requests, c \in Cards : seen'[r][c] \in S
  BY <1>1 DEF Watch
<1>3. seen' \in [Requests -> [Cards -> S]]
  BY <1>2 DEF Watch
<1>4. throughout' \in [Requests -> SUBSET Cards]
  BY DEF Watch, OwnedNow, HistoryTypeOK
<1> QED BY <1>3, <1>4 DEF HistoryTypeOK

(* While a request goes on, or rests with its answer, what was seen for it *)
(* stays seen, the present is added, and nothing is added to what it owned *)
(* throughout.                                                             *)
LEMMA WatchGrows ==
    ASSUME NEW r \in Requests, HistoryTypeOK, Watch, ~Begins(r)
    PROVE  /\ \A c \in Cards : seen[r][c] \subseteq seen'[r][c]
           /\ Watched(r) => \A c \in Cards : link'[c] \in seen'[r][c]
           /\ throughout'[r] \subseteq throughout[r]
           /\ Watched(r) => throughout'[r] \subseteq OwnedNow(r)'
BY DEF Watch, HistoryTypeOK

(* A request that does not move stays as safe as it was.                   *)
LEMMA StaysSafe ==
    ASSUME NEW r \in Requests, HistoryTypeOK, Watch, UpdateSafe(r), Stays(r)
    PROVE  UpdateSafe(r)'
<1>1. ~Begins(r)
  BY DEF Stays, Begins
<1>2. AtItsCalls(r)'
  BY DEF UpdateSafe, AtItsCalls, Stays, Watched
<1>3. SettledWereSeen(r)'
  BY <1>1, WatchGrows DEF UpdateSafe, SettledWereSeen, Stays
<1>4. NoCardForgotten(r)' /\ OkIsSettled(r)'
  BY <1>1, WatchGrows DEF UpdateSafe, NoCardForgotten, OkIsSettled, Stays, Answered
<1> QED BY <1>2, <1>3, <1>4 DEF UpdateSafe

(* Neither does a request that updates no links say anything about them.   *)
LEMMA OtherwiseSafe ==
    ASSUME NEW r \in Requests, job'[r].op \notin {"set", "bulk"}, pc'[r] \notin UpdatePc
    PROVE  UpdateSafe(r)'
BY DEF UpdateSafe, AtItsCalls, SettledWereSeen, NoCardForgotten, OkIsSettled, Watched,
       Answered, UpdatePc

(* A request turned away has done nothing, and its answer is not ok.       *)
LEMMA TurnedAwaySafe ==
    ASSUME NEW r \in Requests, TypeOK, NEW op, NEW a, NEW c, NEW w, NEW status, status # "ok",
           op = "bulk" => w = "off",
           TurnAway(r, op, a, c, w, status)
    PROVE  UpdateSafe(r)'
<1>1. /\ pc'[r] = "idle" /\ out'[r] = status
      /\ job'[r] = [op |-> op, acct |-> a, card |-> c, want |-> w]
      /\ sub'[r] = NoCards("none")
  BY DEF TurnAway, Arrive, TypeOK, RequestType, UpdateType
<1> QED BY <1>1 DEF UpdateSafe, AtItsCalls, SettledWereSeen, NoCardForgotten, OkIsSettled,
       Watched, Answered, UpdatePc, NoCards

(* A request admitted starts from nothing, at the first call of its kind.  *)
LEMMA AdmittedSafe ==
    ASSUME NEW r \in Requests, TypeOK, NEW op, NEW a, NEW c, NEW w, NEW p, p # "idle",
           p \in {"setWallet", "snapshot"} <=> op \in {"set", "bulk"},
           p # "update",
           p = "setWallet" => op = "set" /\ c \in Cards,
           p = "snapshot" => op = "bulk" /\ w = "off",
           Admit(r, op, a, c, w, p)
    PROVE  UpdateSafe(r)'
<1>1. /\ pc'[r] = p
      /\ job'[r] = [op |-> op, acct |-> a, card |-> c, want |-> w]
      /\ sub'[r] = NoCards("none")
  BY DEF Admit, Arrive, TypeOK, RequestType, UpdateType
<1> QED BY <1>1 DEF UpdateSafe, AtItsCalls, SettledWereSeen, NoCardForgotten, OkIsSettled,
       Watched, Answered, UpdatePc, NoCards

(* So much for the requests that arrive.                                   *)
LEMMA ClientAnswers ==
    ASSUME NEW r \in Requests, TypeOK, Client(r)
    PROVE  UpdateSafe(r)'
<1>1. CASE IssueStart(r)
  BY <1>1, TurnedAwaySafe, AdmittedSafe DEF IssueStart
<1>2. CASE SetStart(r)
  BY <1>2, TurnedAwaySafe, AdmittedSafe DEF SetStart
<1>3. CASE BulkStart(r)
  BY <1>3, TurnedAwaySafe, AdmittedSafe DEF BulkStart
<1>4. CASE MarkStart(r)
  BY <1>4, TurnedAwaySafe, AdmittedSafe DEF MarkStart
<1>5. CASE NfcStart(r)
  BY <1>5, TurnedAwaySafe, AdmittedSafe DEF NfcStart
<1>6. ASSUME NEW a \in Accounts, NEW c \in Cards, DeleteStart(r, a, c)
      PROVE  UpdateSafe(r)'
  BY <1>6, TurnedAwaySafe, AdmittedSafe DEF DeleteStart
<1> QED BY <1>1, <1>2, <1>3, <1>4, <1>5, <1>6 DEF Client

(* The steps of the updates themselves: what a card is settled as is what  *)
(* its link is, or is made, in that step.                                  *)
LEMMA UpdateAnswers ==
    ASSUME NEW r \in Requests, TypeOK, HistoryTypeOK, Watch, UpdateSafe(r), UpdateStep(r)
    PROVE  UpdateSafe(r)'
<1> USE DEF UpdateSafe, AtItsCalls, SettledWereSeen, NoCardForgotten, OkIsSettled, Watched, Answered,
        UpdatePc
<1>1. /\ pc[r] \in UpdatePc /\ job' = job
      /\ job[r].op \in {"set", "bulk"}
      /\ job[r].op = "set" => job[r].card \in Cards
  BY DEF UpdateStep, SetFindWallet, BulkSnapshot, UpdateDone, UpdateGet, UpdatePut, Goto, Answer, request
<1>2. /\ \A c \in Cards : seen[r][c] \subseteq seen'[r][c] /\ link'[c] \in seen'[r][c]
      /\ throughout'[r] \subseteq throughout[r]
      /\ throughout'[r] \subseteq OwnedNow(r)'
  BY <1>1, WatchGrows DEF Begins
<1>3. pc \in [Requests -> Pc] /\ out \in [Requests -> Status]
      /\ sub \in [Requests -> [Cards -> Progress]]
  BY DEF TypeOK, RequestType, UpdateType
<1>4. CASE SetFindWallet(r)
  <2>1. pc[r] = "setWallet" /\ job[r].op = "set"
    BY <1>1, <1>4 DEF SetFindWallet
  <2>2. CASE pc'[r] = "idle" /\ out'[r] # "ok" /\ sub' = sub
    BY <1>1, <1>2, <2>1, <2>2
  <2>3. CASE pc'[r] = "update" /\ sub' = [sub EXCEPT ![r][job[r].card] = "queued"]
    BY <1>1, <1>2, <1>3, <2>1, <2>3
  <2> QED BY <1>3, <1>4, <2>2, <2>3 DEF SetFindWallet, Answer, Goto
<1>5. CASE BulkSnapshot(r)
  <2>1. pc[r] = "snapshot" /\ job[r].op = "bulk"
    BY <1>1, <1>5 DEF BulkSnapshot
  <2>2. CASE pc'[r] = "idle" /\ out'[r] # "ok" /\ sub' = sub
    BY <1>1, <1>2, <2>1, <2>2
  <2>3. CASE /\ pc'[r] = "update"
             /\ sub'[r] = [c \in Cards |-> IF Owned(c, job[r].acct) THEN "queued" ELSE "none"]
    <3>1. \A c \in Cards : Owned(c, job[r].acct)' <=> Owned(c, job[r].acct)
      BY <1>1, <1>5 DEF BulkSnapshot, Owned, store
    <3>2. throughout'[r] \subseteq {c \in Cards : sub'[r][c] # "none"}
      BY <1>1, <1>2, <2>3, <3>1 DEF OwnedNow
    <3> QED BY <1>1, <1>2, <2>1, <2>3, <3>2
  <2> QED BY <1>3, <1>5, <2>2, <2>3 DEF BulkSnapshot, Answer, Goto
<1>6. CASE UpdateDone(r)
  <2>1. /\ pc[r] = "update" /\ pc'[r] = "idle" /\ sub' = sub
        /\ \A c \in Cards : sub[r][c] \notin {"queued", "put"}
        /\ job[r].op = "set" /\ out'[r] = "ok" => sub[r][job[r].card] # "failed"
    BY <1>3, <1>6 DEF UpdateDone, Answer, update
  <2>2. OkIsSettled(r)'
    BY <1>1, <1>3, <2>1 DEF Progress
  <2> QED BY <1>1, <1>2, <2>1, <2>2
<1>7. ASSUME NEW c \in Cards, UpdateGet(r, c) \/ UpdatePut(r, c)
      PROVE  UpdateSafe(r)'
  <2>1. /\ pc[r] = "update" /\ UNCHANGED <<pc, job, out>>
        /\ \E p \in Progress \ {"none"} :
              /\ sub' = [sub EXCEPT ![r][c] = p]
              /\ p \in {"updated", "skipped"} => link'[c] = job[r].want
    <3>1. CASE UpdateGet(r, c)
      BY <3>1 DEF UpdateGet, Settle, store, request, Progress
    <3>2. CASE UpdatePut(r, c)
      <4>1. pc[r] = "update" /\ UNCHANGED <<pc, job, out>>
        BY <3>2 DEF UpdatePut, request
      <4>2. PICK f \in Outcomes :
              /\ LinkFound(c) /\ Applied(f) => link' = [link EXCEPT ![c] = job[r].want]
              /\ \/ LinkFound(c) /\ f = "ok" /\ sub' = [sub EXCEPT ![r][c] = "updated"]
                 \/ sub' = [sub EXCEPT ![r][c] = "failed"]
        BY <3>2 DEF UpdatePut, Settle, Write
      <4>3. CASE LinkFound(c) /\ f = "ok" /\ sub' = [sub EXCEPT ![r][c] = "updated"]
        <5>1. link'[c] = job[r].want
          BY <4>2, <4>3 DEF Applied, TypeOK, StoreType
        <5> QED BY <4>1, <4>3, <5>1 DEF Progress
      <4> QED BY <4>1, <4>2, <4>3 DEF Progress
    <3> QED BY <1>7, <3>1, <3>2
  <2> QED BY <1>1, <1>2, <1>3, <2>1
<1> QED BY <1>4, <1>5, <1>6, <1>7 DEF UpdateStep

(* The other handlers are at calls of their own, and stay there.           *)
LEMMA OtherAnswers ==
    ASSUME NEW r \in Requests, TypeOK, UpdateSafe(r),
           IssueStep(r) \/ DeleteStep(r) \/ NfcStep(r)
    PROVE  UpdateSafe(r)'
<1>1. pc[r] \notin UpdatePc \cup {"idle"} /\ pc'[r] \notin UpdatePc /\ job' = job
  <2> USE DEF UpdatePc, TypeOK, RequestType, Goto, Answer, Undo, UndoStep, store
  <2>1. CASE IssueStep(r)
    BY <2>1 DEF IssueStep, IssueCreateWallet, IssueCreateLink, IssueInsertCard, IssueLoadCard,
       IssueUndoCard, IssueUndoLink, IssueUndoWallet
  <2>2. CASE DeleteStep(r)
    BY <2>2 DEF DeleteStep, DeleteFindWallet, DeleteProbeLink, DeleteDropLink, DeleteDropWallet,
       DeleteConfirmWallet, DeleteDropCard, DeleteConfirmCard
  <2>3. CASE NfcStep(r)
    BY <2>3 DEF NfcStep, MarkWrite, MarkReload, NfcFindWallet, NfcGetLink
  <2> QED BY <2>1, <2>2, <2>3
<1> QED BY <1>1, OtherwiseSafe DEF UpdateSafe, AtItsCalls, Watched

(* A step of one request leaves the others where they are.                 *)
LEMMA OthersRest ==
    ASSUME NEW q \in Requests, NEW r \in Requests \ {q}, TypeOK, Client(q) \/ Handler(q)
    PROVE  Stays(r)
<1> USE DEF Stays, TypeOK, RequestType, UpdateType, Goto, Answer, Undo, UndoStep, store, update, request
<1>1. CASE Client(q)
  <2> USE DEF TurnAway, Admit, Arrive
  <2>1. CASE IssueStart(q)
    BY <2>1 DEF IssueStart
  <2>2. CASE SetStart(q)
    BY <2>2 DEF SetStart
  <2>3. CASE BulkStart(q) \/ MarkStart(q) \/ NfcStart(q)
    BY <2>3 DEF BulkStart, MarkStart, NfcStart
  <2>4. ASSUME NEW a \in Accounts, NEW c \in Cards, DeleteStart(q, a, c) PROVE Stays(r)
    BY <2>4 DEF DeleteStart
  <2> QED BY <1>1, <2>1, <2>2, <2>3, <2>4 DEF Client
<1>2. CASE IssueStep(q)
  BY <1>2 DEF IssueStep, IssueCreateWallet, IssueCreateLink, IssueInsertCard, IssueLoadCard,
     IssueUndoCard, IssueUndoLink, IssueUndoWallet
<1>3. CASE UpdateStep(q)
  <2>1. CASE SetFindWallet(q)
    BY <2>1 DEF SetFindWallet
  <2>2. CASE BulkSnapshot(q)
    BY <2>2 DEF BulkSnapshot
  <2>3. CASE UpdateDone(q)
    BY <2>3 DEF UpdateDone
  <2>4. ASSUME NEW c \in Cards, UpdateGet(q, c) PROVE Stays(r)
    BY <2>4 DEF UpdateGet, Settle
  <2>5. ASSUME NEW c \in Cards, UpdatePut(q, c) PROVE Stays(r)
    BY <2>5 DEF UpdatePut, Settle
  <2> QED BY <1>3, <2>1, <2>2, <2>3, <2>4, <2>5 DEF UpdateStep
<1>4. CASE DeleteStep(q)
  BY <1>4 DEF DeleteStep, DeleteFindWallet, DeleteProbeLink, DeleteDropLink, DeleteDropWallet,
     DeleteConfirmWallet, DeleteDropCard, DeleteConfirmCard
<1>5. CASE NfcStep(q)
  BY <1>5 DEF NfcStep, MarkWrite, MarkReload, NfcFindWallet, NfcGetLink
<1> QED BY <1>1, <1>2, <1>3, <1>4, <1>5 DEF Handler

(* A crash answers no request with ok, and leaves nothing settled; nothing *)
(* else from outside moves a request.                                      *)
LEMMA EnvironmentAnswers ==
    ASSUME NEW r \in Requests, TypeOK, HistoryTypeOK, Watch, UpdateSafe(r), Environment
    PROVE  UpdateSafe(r)'
<1>1. CASE Crash /\ pc[r] # "idle"
  <2>1. /\ pc'[r] = "idle" /\ out'[r] = "crashed" /\ sub'[r] = NoCards("none") /\ job' = job
    BY <1>1 DEF Crash
  <2> QED BY <2>1 DEF UpdateSafe, AtItsCalls, SettledWereSeen, NoCardForgotten, OkIsSettled,
         Watched, Answered, UpdatePc, NoCards
<1>2. CASE ~(Crash /\ pc[r] # "idle")
  <2>1. Stays(r)
    BY <1>2 DEF Environment, Crash, SwitchWithdraw, ExternalLink, ExternalDropWallet, Stays,
       store, request, update
  <2> QED BY <2>1, StaysSafe
<1> QED BY <1>1, <1>2

(* The invariant of the answers holds in the beginning.                    *)
LEMMA AnswersInit == HInit => AnswersSafe
<1> SUFFICES ASSUME HInit PROVE AnswersSafe
    OBVIOUS
<1>1. HistoryTypeOK
  BY DEF HInit, HistoryTypeOK, NoCards
<1>2. \A r \in Requests : pc[r] = "idle" /\ job[r].op = "none"
  BY DEF HInit, Init
<1> QED BY <1>1, <1>2 DEF AnswersSafe, UpdateSafe, AtItsCalls, SettledWereSeen, NoCardForgotten,
       OkIsSettled, Watched, Answered, UpdatePc

(* And it is inductive, given the types.                                   *)
LEMMA AnswersStep == TypeOK /\ AnswersSafe /\ [HNext]_<<vars, history>> => AnswersSafe'
<1> SUFFICES ASSUME TypeOK, AnswersSafe, [HNext]_<<vars, history>> PROVE AnswersSafe'
    OBVIOUS
<1>1. CASE UNCHANGED <<vars, history>>
  <2>1. AnswersSafe <=> AnswersSafe'
    BY <1>1 DEF vars, store, request, update, history, AnswersSafe, HistoryTypeOK, UpdateSafe,
       AtItsCalls, SettledWereSeen, NoCardForgotten, OkIsSettled, Watched, Answered
  <2> QED BY <2>1
<1>2. CASE HNext
  <2>1. HistoryTypeOK'
    BY <1>2, TypeStep, WatchType DEF HNext, AnswersSafe
  <2>2. ASSUME NEW r \in Requests PROVE UpdateSafe(r)'
    <3>0. HistoryTypeOK /\ Watch /\ UpdateSafe(r)
      BY <1>2, <2>2 DEF HNext, AnswersSafe
    <3>1. CASE Client(r) \/ Handler(r)
      BY <3>0, <3>1, ClientAnswers, UpdateAnswers, OtherAnswers DEF Handler
    <3>2. ASSUME NEW q \in Requests \ {r}, Client(q) \/ Handler(q) PROVE UpdateSafe(r)'
      BY <3>0, <3>2, OthersRest, StaysSafe
    <3>3. CASE Environment
      BY <3>0, <3>3, EnvironmentAnswers
    <3> QED BY <1>2, <3>1, <3>2, <3>3 DEF HNext, Next
  <2> QED BY <2>1, <2>2 DEF AnswersSafe
<1> QED BY <1>1, <1>2

(* Types and invariant together, as the two theorems use them.             *)
LEMMA AnswersInvariant == HSpec => [](TypeOK /\ AnswersSafe)
<1>1. HInit => TypeOK
  BY TypeInit DEF HInit
<1>2. [HNext]_<<vars, history>> => [Next]_vars
  BY DEF HNext
<1> QED BY <1>1, <1>2, TypeStep, AnswersInit, AnswersStep, PTL DEF HSpec

(* PUT /cards/{id}/enabled never claims a state the link was not in while  *)
(* the request was served: with any number of requests on one card, any    *)
(* faults and crashes, and whatever is done on the pages of Withdraw and   *)
(* LNbits meanwhile.                                                       *)
THEOREM SetAnswersAreTrue == HSpec => []SetAnswerWasTrue
<1>1. AnswersSafe => SetAnswerWasTrue
  BY DEF AnswersSafe, UpdateSafe, SettledWereSeen, OkIsSettled, SetAnswerWasTrue, Answered
<1> QED BY <1>1, AnswersInvariant, PTL

(* "Disable All Cards" passes over no card its account owned throughout,   *)
(* and counts none as done that was never off, under the same conditions.  *)
THEOREM BulkAnswersAreTrue == HSpec => []BulkAnswerWasTrue
<1>1. AnswersSafe => BulkAnswerWasTrue
  BY DEF AnswersSafe, UpdateSafe, AtItsCalls, SettledWereSeen, NoCardForgotten, BulkAnswerWasTrue,
     Answered
<1> QED BY <1>1, AnswersInvariant, PTL

-----------------------------------------------------------------------------
(* What the requests do to each other, and issues that keep apart.         *)

RequestsReady == TypeOK /\ IssuesApart

(* What a step of one request leaves alone.                                *)
OthersStay(r) ==
    /\ job' = job
    /\ \A q \in Requests \ {r} :
          pc'[q] = pc[q] /\ out'[q] = out[q] /\ fails'[q] = fails[q] /\ sub'[q] = sub[q]

(* What the steps of each kind of request do to the requests, and what     *)
(* they leave alone.                                                       *)
LEMMA IssueMoves ==
    ASSUME NEW r \in Requests, RequestsReady, IssueStep(r)
    PROVE  /\ pc[r] \in IssuePc /\ job[r].op = "issue" /\ job[r].card \in Cards
           /\ pc'[r] \in {"idle"} \cup (IssuePc \ {"createWallet"}) /\ pc'[r] # pc[r]
           /\ pc'[r] = "createLink" => pc[r] = "createWallet"
           /\ OthersStay(r) /\ UNCHANGED <<sub, got>>
           /\ \A c \in Cards \ {job[r].card} :
                 /\ wallet'[c] = wallet[c] /\ link'[c] = link[c]
                 /\ settings'[c] = settings[c] /\ row'[c] = row[c]
<1> USE DEF OthersStay, IssuePc, Goto, Answer, Undo, UndoStep, store, update,
        RequestsReady, TypeOK, StoreType, RequestType
<1>0. pc[r] \in IssuePc => job[r].op = "issue" /\ job[r].card \in Cards
  BY DEF RequestsReady, IssuesApart, PcFitsJob
<1>1. CASE IssueCreateWallet(r)
  BY <1>0, <1>1 DEF IssueCreateWallet
<1>2. CASE IssueCreateLink(r)
  BY <1>0, <1>2 DEF IssueCreateLink
<1>3. CASE IssueInsertCard(r)
  BY <1>0, <1>3 DEF IssueInsertCard
<1>4. CASE IssueLoadCard(r)
  BY <1>0, <1>4 DEF IssueLoadCard
<1>5. CASE IssueUndoCard(r)
  BY <1>0, <1>5 DEF IssueUndoCard
<1>6. CASE IssueUndoLink(r)
  BY <1>0, <1>6 DEF IssueUndoLink
<1>7. CASE IssueUndoWallet(r)
  BY <1>0, <1>7 DEF IssueUndoWallet
<1> QED BY <1>1, <1>2, <1>3, <1>4, <1>5, <1>6, <1>7 DEF IssueStep

(* Those of an update keep wallets, owners and rows, and make no link.     *)
LEMMA UpdateMoves ==
    ASSUME NEW r \in Requests, RequestsReady, UpdateStep(r)
    PROVE  /\ pc[r] \in {"setWallet", "snapshot", "update"} /\ job[r].op \notin {"issue", "delete"}
           /\ pc'[r] \in {"idle", "update"}
           /\ OthersStay(r) /\ UNCHANGED <<wallet, owner, row>>
           /\ \A c \in Cards : link'[c] # "absent" => link[c] # "absent"
<1> USE DEF OthersStay, Goto, Answer, Settle, store, request, update,
        RequestsReady, TypeOK, StoreType, RequestType, UpdateType
<1>0. pc[r] \in {"setWallet", "snapshot", "update"} => job[r].op \notin {"issue", "delete"}
  BY DEF RequestsReady, IssuesApart, PcFitsJob, OtherPc
<1>1. CASE SetFindWallet(r)
  BY <1>0, <1>1 DEF SetFindWallet
<1>2. CASE BulkSnapshot(r)
  BY <1>0, <1>2 DEF BulkSnapshot
<1>3. CASE UpdateDone(r)
  BY <1>0, <1>3 DEF UpdateDone
<1>4. ASSUME NEW c \in Cards, UpdateGet(r, c) \/ UpdatePut(r, c)
      PROVE  /\ pc[r] = "update" /\ UNCHANGED <<pc, job, out, fails, wallet, owner, row>>
             /\ \A d \in Cards : link'[d] # "absent" => link[d] # "absent"
             /\ \A q \in Requests \ {r} : sub'[q] = sub[q]
  BY <1>4 DEF UpdateGet, UpdatePut, Write, LinkFound
<1> QED BY <1>0, <1>1, <1>2, <1>3, <1>4 DEF UpdateStep

(* Those of a deletion only take away, and only from its own card.         *)
LEMMA DeleteMoves ==
    ASSUME NEW r \in Requests, RequestsReady, DeleteStep(r)
    PROVE  /\ pc[r] \in DeletePc /\ job[r].op = "delete" /\ job[r].card \in Cards
           /\ pc'[r] \in {"idle"} \cup (DeletePc \ {"findWallet"}) /\ pc'[r] # pc[r]
           /\ OthersStay(r) /\ UNCHANGED <<owner, settings, sub, got>>
           /\ \A c \in Cards :
                 /\ link'[c] # "absent" => link[c] # "absent"
                 /\ row'[c] # "absent" => row[c] # "absent"
                 /\ wallet'[c] = wallet[c] \/ (wallet[c] = "active" /\ wallet'[c] = "deleted")
           /\ \A c \in Cards \ {job[r].card} :
                 wallet'[c] = wallet[c] /\ link'[c] = link[c] /\ row'[c] = row[c]
<1> USE DEF OthersStay, DeletePc, Goto, Answer, store, update, RequestsReady, TypeOK, StoreType, RequestType
<1>0. pc[r] \in DeletePc => job[r].op = "delete" /\ job[r].card \in Cards
  BY DEF RequestsReady, IssuesApart, PcFitsJob
<1>1. CASE DeleteFindWallet(r)
  BY <1>0, <1>1 DEF DeleteFindWallet
<1>2. CASE DeleteProbeLink(r)
  BY <1>0, <1>2 DEF DeleteProbeLink
<1>3. CASE DeleteDropLink(r)
  BY <1>0, <1>3 DEF DeleteDropLink
<1>4. CASE DeleteDropWallet(r)
  BY <1>0, <1>4 DEF DeleteDropWallet
<1>5. CASE DeleteConfirmWallet(r)
  BY <1>0, <1>5 DEF DeleteConfirmWallet
<1>6. CASE DeleteDropCard(r)
  BY <1>0, <1>6 DEF DeleteDropCard
<1>7. CASE DeleteConfirmCard(r)
  BY <1>0, <1>7 DEF DeleteConfirmCard
<1> QED BY <1>1, <1>2, <1>3, <1>4, <1>5, <1>6, <1>7 DEF DeleteStep

(* Those of the NFC endpoints change no more than the row to be marked.    *)
LEMMA NfcMoves ==
    ASSUME NEW r \in Requests, RequestsReady, NfcStep(r)
    PROVE  /\ pc[r] \in {"markCard", "reloadCard", "nfcWallet", "nfcLink"}
           /\ job[r].op \notin {"issue", "delete"}
           /\ pc'[r] \in {"idle", "reloadCard", "nfcLink"} /\ pc'[r] # pc[r]
           /\ OthersStay(r) /\ UNCHANGED <<wallet, owner, link, settings, sub, got>>
           /\ \A c \in Cards : row'[c] = row[c] \/ row[c] = "unwritten"
           /\ pc[r] = "markCard" \/ row' = row
           /\ \A c \in Cards \ {job[r].card} : row'[c] = row[c]
<1> USE DEF OthersStay, Goto, Answer, store, update, RequestsReady, TypeOK, StoreType, RequestType
<1>0. pc[r] \in {"markCard", "reloadCard", "nfcWallet", "nfcLink"} => job[r].op \notin {"issue", "delete"}
  BY DEF RequestsReady, IssuesApart, PcFitsJob, OtherPc
<1>1. CASE MarkWrite(r)
  BY <1>0, <1>1 DEF MarkWrite
<1>2. CASE MarkReload(r)
  BY <1>0, <1>2 DEF MarkReload
<1>3. CASE NfcFindWallet(r)
  BY <1>0, <1>3 DEF NfcFindWallet
<1>4. CASE NfcGetLink(r)
  BY <1>0, <1>4 DEF NfcGetLink
<1> QED BY <1>1, <1>2, <1>3, <1>4 DEF NfcStep

(* A request that arrives changes nothing but the request.                 *)
LEMMA ClientMoves ==
    ASSUME NEW r \in Requests, TypeOK, Client(r)
    PROVE  /\ pc[r] = "idle"
           /\ pc'[r] \in {"idle", "createWallet", "setWallet", "snapshot", "findWallet",
                          "markCard", "nfcWallet"}
           /\ pc'[r] = "createWallet" => IssueStart(r)
           /\ sub'[r] = NoCards("none") /\ UNCHANGED <<store, got, faults>>
           /\ \A q \in Requests \ {r} :
                 /\ pc'[q] = pc[q] /\ job'[q] = job[q] /\ out'[q] = out[q]
                 /\ fails'[q] = fails[q] /\ sub'[q] = sub[q]
<1> USE DEF Admit, TurnAway, Arrive, TypeOK, RequestType, UpdateType
<1>1. ASSUME NEW a \in Accounts, NEW c \in Cards, Fresh(c),
             \/ TurnAway(r, "issue", a, None, "on", "404")
             \/ TurnAway(r, "issue", a, None, "on", "503")
             \/ Admit(r, "issue", a, c, "on", "createWallet")
      PROVE  /\ pc[r] = "idle" /\ pc'[r] \in {"idle", "createWallet"}
             /\ sub'[r] = NoCards("none") /\ UNCHANGED <<store, got, faults>>
             /\ \A q \in Requests \ {r} :
                   /\ pc'[q] = pc[q] /\ job'[q] = job[q] /\ out'[q] = out[q]
                   /\ fails'[q] = fails[q] /\ sub'[q] = sub[q]
  BY <1>1
<1>1a. IssueStart(r) =>
             /\ pc[r] = "idle" /\ pc'[r] \in {"idle", "createWallet"}
             /\ sub'[r] = NoCards("none") /\ UNCHANGED <<store, got, faults>>
             /\ \A q \in Requests \ {r} :
                   /\ pc'[q] = pc[q] /\ job'[q] = job[q] /\ out'[q] = out[q]
                   /\ fails'[q] = fails[q] /\ sub'[q] = sub[q]
  BY <1>1, Zenon DEF IssueStart
<1>2. CASE SetStart(r)
  BY <1>2 DEF SetStart
<1>3. CASE BulkStart(r)
  BY <1>3 DEF BulkStart
<1>4. CASE MarkStart(r)
  BY <1>4 DEF MarkStart
<1>5. CASE NfcStart(r)
  BY <1>5 DEF NfcStart
<1>6. ASSUME NEW a \in Accounts, NEW c \in Cards, DeleteStart(r, a, c)
      PROVE  /\ pc[r] = "idle" /\ pc'[r] \in {"idle", "findWallet"}
             /\ sub'[r] = NoCards("none") /\ UNCHANGED <<store, got, faults>>
             /\ \A q \in Requests \ {r} :
                   /\ pc'[q] = pc[q] /\ job'[q] = job[q] /\ out'[q] = out[q]
                   /\ fails'[q] = fails[q] /\ sub'[q] = sub[q]
  BY <1>6 DEF DeleteStart
<1> QED BY <1>1a, <1>2, <1>3, <1>4, <1>5, <1>6 DEF Client

(* A step in which no record appears, no wallet is made or forgotten and   *)
(* no issue builds on keeps the issues apart.                              *)
LEMMA ApartFrame ==
    ASSUME IssuesApart,
           \A c \in Cards :
              /\ wallet'[c] = "none" <=> wallet[c] = "none"
              /\ link'[c] # "absent" => link[c] # "absent"
              /\ row'[c] # "absent" => row[c] # "absent",
           \A q \in Requests :
              \/ pc'[q] = pc[q] /\ job'[q] = job[q]
              \/ pc[q] \in IssuePc /\ pc'[q] \in IssuePc \ Building /\ job'[q] = job[q]
              \/ pc'[q] \in DeletePc /\ job'[q].op = "delete" /\ job'[q].card \in Cards
              \/ pc'[q] \in OtherPc /\ job'[q].op \notin {"issue", "delete"}
              \/ pc'[q] = "idle"
    PROVE  IssuesApart'
<1> USE DEF IssuePc, DeletePc, OtherPc, Building
<1>1. OneIssuer' /\ PcFitsJob'
  BY DEF IssuesApart, OneIssuer, PcFitsJob
<1>2. WalletFirst'
  BY DEF IssuesApart, WalletFirst
<1>3. BuiltSoFar'
  BY DEF IssuesApart, PcFitsJob, BuiltSoFar
<1> QED BY <1>1, <1>2, <1>3 DEF IssuesApart

(* An issue builds on the card it alone has drawn.                         *)
LEMMA IssueStepApart ==
    ASSUME NEW r \in Requests, RequestsReady, IssueStep(r)
    PROVE  IssuesApart'
<1> USE DEF RequestsReady, TypeOK, StoreType, RequestType, IssuePc, DeletePc, OtherPc, Building
<1>a. /\ pc[r] \in IssuePc /\ job' = job /\ job[r].op = "issue" /\ job[r].card \in Cards
      /\ pc'[r] \in {"idle"} \cup IssuePc
      /\ \A q \in Requests \ {r} : pc'[q] = pc[q]
  BY IssueMoves DEF OthersStay
<1>b. OneIssuer' /\ PcFitsJob'
  BY <1>a DEF IssuesApart, OneIssuer, PcFitsJob
<1>c. \A q \in Requests \ {r} : pc[q] \in IssuePc =>
         job[q].card \in Cards /\ job[q].card # job[r].card
  BY <1>a DEF IssuesApart, OneIssuer, PcFitsJob
<1>d. ASSUME \A c \in Cards \ {job[r].card} :
                row'[c] = row[c] /\ wallet'[c] = wallet[c] /\ link'[c] = link[c],
             pc'[r] \in Building =>
                LET c == job[r].card IN
                /\ row'[c] = "absent"
                /\ pc'[r] = "createWallet" <=> wallet'[c] = "none"
                /\ pc'[r] # "insertCard" => link'[c] = "absent"
      PROVE  BuiltSoFar'
  BY <1>a, <1>c, <1>d DEF IssuesApart, BuiltSoFar
<1>1. CASE IssueCreateWallet(r)
  <2> USE <1>1 DEF IssueCreateWallet, Goto, Answer
  <2>1. WalletFirst'
    BY DEF IssuesApart, WalletFirst
  <2>2. BuiltSoFar'
    BY <1>a, <1>d DEF IssuesApart, BuiltSoFar, Applied
  <2> QED BY <1>b, <2>1, <2>2 DEF IssuesApart
<1>2. CASE IssueCreateLink(r)
  <2> USE <1>2 DEF IssueCreateLink, Goto, Undo
  <2>1. WalletFirst'
    BY DEF IssuesApart, WalletFirst, BuiltSoFar
  <2>2. BuiltSoFar'
    BY <1>a, <1>d DEF IssuesApart, BuiltSoFar
  <2> QED BY <1>b, <2>1, <2>2 DEF IssuesApart
<1>3. CASE IssueInsertCard(r)
  <2> USE <1>3 DEF IssueInsertCard, Goto, Undo
  <2>1. WalletFirst'
    BY DEF IssuesApart, WalletFirst, BuiltSoFar
  <2>2. BuiltSoFar'
    BY <1>a, <1>d DEF IssuesApart, BuiltSoFar
  <2> QED BY <1>b, <2>1, <2>2 DEF IssuesApart
<1>4. CASE IssueLoadCard(r)
  BY <1>a, <1>4, ApartFrame DEF IssueLoadCard, Answer, Undo, store
<1>5. CASE IssueUndoCard(r) \/ IssueUndoLink(r)
  BY <1>a, <1>5, ApartFrame DEF IssueUndoCard, IssueUndoLink, UndoStep
<1>6. CASE IssueUndoWallet(r)
  <2> USE <1>6 DEF IssueUndoWallet, UndoStep
  <2>1. wallet' = wallet \/ wallet' = [wallet EXCEPT ![job[r].card] = "purged"]
    OBVIOUS
  <2>2. WalletFirst'
    BY <2>1 DEF IssuesApart, WalletFirst
  <2>3. BuiltSoFar'
    BY <1>a, <1>d, <2>1 DEF IssuesApart, BuiltSoFar
  <2> QED BY <1>b, <2>2, <2>3 DEF IssuesApart
<1> QED BY <1>1, <1>2, <1>3, <1>4, <1>5, <1>6 DEF IssueStep

(* A request to issue draws an id that nobody has drawn; any other one     *)
(* that arrives builds nothing.                                            *)
LEMMA ClientApart ==
    ASSUME NEW r \in Requests, RequestsReady, Client(r)
    PROVE  IssuesApart'
<1> USE DEF RequestsReady, TypeOK, RequestType, IssuePc, DeletePc, OtherPc, store
<1>1. ASSUME NEW op, NEW a, NEW c, NEW w, NEW status, TurnAway(r, op, a, c, w, status)
      PROVE  IssuesApart'
  BY <1>1, ApartFrame DEF TurnAway, Arrive
<1>2. ASSUME NEW op \in {"set", "bulk", "mark", "nfc"}, NEW a, NEW c, NEW w,
             NEW p \in OtherPc, Admit(r, op, a, c, w, p)
      PROVE  IssuesApart'
  BY <1>2, ApartFrame DEF Admit, Arrive
<1>3. ASSUME NEW a \in Accounts, NEW c \in Cards, Fresh(c),
             Admit(r, "issue", a, c, "on", "createWallet")
      PROVE  IssuesApart'
  <2> USE <1>3 DEF Admit, Arrive
  <2>1. OneIssuer' /\ PcFitsJob' /\ WalletFirst'
    BY DEF IssuesApart, OneIssuer, PcFitsJob, WalletFirst, Fresh
  <2>2. BuiltSoFar'
    BY DEF IssuesApart, BuiltSoFar, WalletFirst, Building, Fresh
  <2> QED BY <2>1, <2>2 DEF IssuesApart
<1>4. ASSUME NEW a \in Accounts, NEW c \in Cards, Admit(r, "delete", a, c, "off", "findWallet")
      PROVE  IssuesApart'
  BY <1>4, ApartFrame DEF Admit, Arrive
<1>5. CASE IssueStart(r)
  BY <1>1, <1>3, <1>5 DEF IssueStart
<1>6. CASE SetStart(r)
  BY <1>1, <1>2, <1>6 DEF SetStart
<1>7. CASE BulkStart(r)
  BY <1>1, <1>2, <1>7 DEF BulkStart
<1>8. CASE MarkStart(r)
  BY <1>1, <1>2, <1>8 DEF MarkStart
<1>9. CASE NfcStart(r)
  BY <1>1, <1>2, <1>9 DEF NfcStart
<1>10. ASSUME NEW a \in Accounts, NEW c \in Cards, DeleteStart(r, a, c)
       PROVE  IssuesApart'
  BY <1>1, <1>4, <1>10 DEF DeleteStart
<1> QED BY <1>5, <1>6, <1>7, <1>8, <1>9, <1>10 DEF Client

(* Issues keep apart from the first, and no step of anybody changes that:  *)
(* no assumption on what happens outside the extension.                    *)
LEMMA RequestsReadyInit == Init => RequestsReady
BY TypeInit DEF Init, RequestsReady, IssuesApart, OneIssuer, PcFitsJob, WalletFirst, BuiltSoFar,
       Building, IssuePc, DeletePc, OtherPc

(* The same for every step.                                                *)
LEMMA RequestsReadyStep == RequestsReady /\ [Next]_vars => RequestsReady'
<1> SUFFICES ASSUME RequestsReady, [Next]_vars PROVE IssuesApart'
    BY TypeStep DEF RequestsReady
<1>0. IssuesApart
  BY DEF RequestsReady
<1>1. CASE UNCHANGED vars
  BY <1>0, <1>1, ApartFrame DEF vars, store, request
<1>2. ASSUME NEW r \in Requests, UpdateStep(r) PROVE IssuesApart'
  <2>1. /\ pc'[r] \in {"idle", "update"} /\ job[r].op \notin {"issue", "delete"} /\ OthersStay(r)
        /\ UNCHANGED <<wallet, row>> /\ \A c \in Cards : link'[c] # "absent" => link[c] # "absent"
    BY <1>2, UpdateMoves
  <2> QED BY <1>0, <2>1, ApartFrame DEF OthersStay, OtherPc
<1>3. ASSUME NEW r \in Requests, DeleteStep(r) PROVE IssuesApart'
  <2>1. /\ pc'[r] \in {"idle"} \cup DeletePc /\ job[r].op = "delete" /\ job[r].card \in Cards
        /\ OthersStay(r)
        /\ \A c \in Cards :
              /\ wallet'[c] = "none" <=> wallet[c] = "none"
              /\ link'[c] # "absent" => link[c] # "absent"
              /\ row'[c] # "absent" => row[c] # "absent"
    BY <1>3, DeleteMoves
  <2> QED BY <1>0, <2>1, ApartFrame DEF OthersStay
<1>4. ASSUME NEW r \in Requests, NfcStep(r) PROVE IssuesApart'
  <2>1. /\ pc'[r] \in {"idle", "reloadCard", "nfcLink"} /\ job[r].op \notin {"issue", "delete"}
        /\ OthersStay(r) /\ UNCHANGED <<wallet, link>>
        /\ \A c \in Cards : row'[c] # "absent" => row[c] # "absent"
    BY <1>4, NfcMoves
  <2> QED BY <1>0, <2>1, ApartFrame DEF OthersStay, OtherPc
<1>5. CASE Environment
  <2> USE <1>0 DEF RequestsReady, TypeOK, StoreType, RequestType, store, request
  <2>1. CASE Crash
    BY <2>1, ApartFrame DEF Crash
  <2>2. CASE SwitchWithdraw
    BY <2>2, ApartFrame DEF SwitchWithdraw
  <2>3. ASSUME NEW c \in Cards, ExternalLink(c) PROVE IssuesApart'
    BY <2>3, ApartFrame DEF ExternalLink, LinkFound
  <2>4. ASSUME NEW c \in Cards, ExternalDropWallet(c) PROVE IssuesApart'
    BY <2>4, ApartFrame DEF ExternalDropWallet
  <2> QED BY <1>5, <2>1, <2>2, <2>3, <2>4 DEF Environment
<1> QED BY <1>1, <1>2, <1>3, <1>4, <1>5, ClientApart, IssueStepApart DEF Next, Handler

-----------------------------------------------------------------------------
(* Deletion.                                                               *)

Unmoved(q) == pc'[q] = pc[q] /\ job'[q] = job[q] /\ out'[q] = out[q]
Uninvolved(q) ==
    \/ pc'[q] \in {"idle"} \cup OtherPc /\ job'[q].op \notin {"issue", "delete"}
    \/ pc'[q] = "idle" /\ ~Answered(q, "delete", "ok")'
Retreats(q) == pc[q] \in IssuePc /\ pc'[q] \in IssuePc \ Building /\ job'[q] = job[q]

(* A step in which no issue builds on and no deletion moves, no wallet     *)
(* changes and no link or row appears keeps the invariant.                 *)
LEMMA Bystander ==
    ASSUME DeletionSafe,
           wallet' = wallet,
           \A c \in Cards : link'[c] = "absent" \/ link[c] # "absent",
           \A c \in Cards : row'[c] = "absent" \/ row[c] # "absent",
           \A q \in Requests : Unmoved(q) \/ Uninvolved(q) \/ Retreats(q)
    PROVE  DeletionSafe'
<1> USE DEF Unmoved, Uninvolved, Retreats, IssuePc, DeletePc, OtherPc, Building
<1>1. OneIssuer' /\ PcFitsJob'
  BY DEF DeletionSafe, OneIssuer, PcFitsJob
<1>2. BuiltInOrder'
  BY DEF DeletionSafe, PcFitsJob, BuiltInOrder, BuiltSoFar
<1>3. NotBuiltAndDeleted'
  BY DEF DeletionSafe, NotBuiltAndDeleted, Deletes, Answered
<1>4. DeletedInOrder'
  BY DEF DeletionSafe, PcFitsJob, DeletedInOrder, Answered
<1>5. DeletedWalletHasNoLink' /\ WalletFirst'
  BY DEF DeletionSafe, DeletedWalletHasNoLink, WalletFirst
<1> QED BY <1>1, <1>2, <1>3, <1>4, <1>5 DEF DeletionSafe

(* An issue that goes on building stays the only one on its card.          *)
LEMMA IssueFrame ==
    ASSUME NEW r \in Requests, DeletionSafe,
           pc[r] \in Building,
           pc'[r] \in IssuePc \cup {"idle"},
           job' = job,
           \A q \in Requests \ {r} : pc'[q] = pc[q] /\ out'[q] = out[q]
    PROVE  OneIssuer' /\ PcFitsJob' /\ NotBuiltAndDeleted'
<1> USE DEF DeletionSafe, PcFitsJob, IssuePc, DeletePc, OtherPc, Building
<1>1. OneIssuer' /\ PcFitsJob'
  BY DEF OneIssuer
<1>2. NotBuiltAndDeleted'
  BY DEF NotBuiltAndDeleted, Deletes, Answered
<1> QED BY <1>1, <1>2

LEMMA IssueStepSafe ==
    ASSUME NEW r \in Requests, TypeOK, DeletionSafe, IssueStep(r)
    PROVE  DeletionSafe'
<1> USE DEF TypeOK, StoreType, RequestType, Pc, IssuePc, DeletePc, OtherPc, Building
<1>1. CASE IssueCreateWallet(r)
  <2> USE <1>1 DEF IssueCreateWallet, Goto, Answer
  <2>1. OneIssuer' /\ PcFitsJob' /\ NotBuiltAndDeleted'
    BY IssueFrame
  <2>2. BuiltInOrder'
    BY DEF DeletionSafe, OneIssuer, PcFitsJob, BuiltInOrder, BuiltSoFar, Applied
  <2>3. DeletedInOrder'
    BY DEF DeletionSafe, PcFitsJob, NotBuiltAndDeleted, DeletedInOrder, Deletes, Answered
  <2>4. DeletedWalletHasNoLink' /\ WalletFirst'
    BY DEF DeletionSafe, PcFitsJob, DeletedWalletHasNoLink, WalletFirst
  <2> QED BY <2>1, <2>2, <2>3, <2>4 DEF DeletionSafe
<1>2. CASE IssueCreateLink(r)
  <2> USE <1>2 DEF IssueCreateLink, Goto, Undo
  <2>1. OneIssuer' /\ PcFitsJob' /\ NotBuiltAndDeleted'
    BY IssueFrame
  <2>2. BuiltInOrder'
    BY DEF DeletionSafe, OneIssuer, PcFitsJob, BuiltInOrder, BuiltSoFar
  <2>3. DeletedInOrder'
    BY DEF DeletionSafe, PcFitsJob, NotBuiltAndDeleted, DeletedInOrder, Deletes, Answered
  <2>4. DeletedWalletHasNoLink' /\ WalletFirst'
    BY DEF DeletionSafe, PcFitsJob, BuiltInOrder, BuiltSoFar, DeletedWalletHasNoLink, WalletFirst
  <2> QED BY <2>1, <2>2, <2>3, <2>4 DEF DeletionSafe
<1>3. CASE IssueInsertCard(r)
  <2> USE <1>3 DEF IssueInsertCard, Goto, Undo
  <2>1. OneIssuer' /\ PcFitsJob' /\ NotBuiltAndDeleted'
    BY IssueFrame
  <2>2. BuiltInOrder'
    BY DEF DeletionSafe, OneIssuer, PcFitsJob, BuiltInOrder, BuiltSoFar
  <2>3. DeletedInOrder'
    BY DEF DeletionSafe, PcFitsJob, NotBuiltAndDeleted, DeletedInOrder, Deletes, Answered
  <2>4. DeletedWalletHasNoLink' /\ WalletFirst'
    BY DEF DeletionSafe, PcFitsJob, BuiltInOrder, BuiltSoFar, DeletedWalletHasNoLink, WalletFirst
  <2> QED BY <2>1, <2>2, <2>3, <2>4 DEF DeletionSafe
<1>4. CASE IssueLoadCard(r)
  BY <1>4, Bystander DEF IssueLoadCard, Answer, Undo, Unmoved, Uninvolved, Retreats,
     Answered, store, DeletionSafe, PcFitsJob
<1>5. CASE IssueUndoCard(r)
  BY <1>5, Bystander DEF IssueUndoCard, UndoStep, Unmoved, Uninvolved, Retreats
<1>6. CASE IssueUndoLink(r)
  BY <1>6, Bystander DEF IssueUndoLink, UndoStep, Unmoved, Uninvolved, Retreats
<1>7. CASE IssueUndoWallet(r)
  <2> USE <1>7 DEF IssueUndoWallet, UndoStep
  <2>1. OneIssuer' /\ PcFitsJob'
    BY DEF DeletionSafe, OneIssuer, PcFitsJob
  <2>2. BuiltInOrder'
    BY DEF DeletionSafe, OneIssuer, PcFitsJob, BuiltInOrder, BuiltSoFar
  <2>3. NotBuiltAndDeleted'
    BY DEF DeletionSafe, PcFitsJob, NotBuiltAndDeleted, Deletes, Answered
  <2>4. DeletedInOrder'
    BY DEF DeletionSafe, PcFitsJob, DeletedInOrder, DeletedWalletHasNoLink, Answered
  <2>5. DeletedWalletHasNoLink' /\ WalletFirst'
    BY DEF DeletionSafe, PcFitsJob, DeletedWalletHasNoLink, WalletFirst
  <2> QED BY <2>1, <2>2, <2>3, <2>4, <2>5 DEF DeletionSafe
<1> QED BY <1>1, <1>2, <1>3, <1>4, <1>5, <1>6, <1>7 DEF IssueStep

(* A step of a deletion touches only the card it deletes, which nobody is  *)
(* building, and only takes away: what the invariant says of issues stays. *)
LEMMA DeleteFrame ==
    ASSUME NEW r \in Requests, DeletionSafe,
           pc[r] \in DeletePc,
           pc'[r] \in DeletePc \cup {"idle"},
           job' = job,
           \A q \in Requests \ {r} : pc'[q] = pc[q] /\ out'[q] = out[q],
           \A c \in Cards \ {job[r].card} :
              wallet'[c] = wallet[c] /\ link'[c] = link[c] /\ row'[c] = row[c],
           \A c \in Cards :
              /\ wallet'[c] = "none" => wallet[c] = "none"
              /\ link'[c] = "absent" \/ link'[c] = link[c]
              /\ row'[c] = "absent" \/ row'[c] = row[c]
    PROVE  OneIssuer' /\ PcFitsJob' /\ WalletFirst' /\ BuiltInOrder' /\ NotBuiltAndDeleted'
<1> USE DEF DeletionSafe, PcFitsJob, IssuePc, DeletePc, OtherPc, Building
<1>1. OneIssuer' /\ PcFitsJob' /\ WalletFirst'
  BY DEF OneIssuer, WalletFirst
<1>2. BuiltInOrder'
  BY DEF BuiltInOrder, BuiltSoFar, NotBuiltAndDeleted, Deletes
<1>3. NotBuiltAndDeleted'
  BY DEF NotBuiltAndDeleted, Deletes, Answered
<1> QED BY <1>1, <1>2, <1>3

LEMMA DeleteStepSafe ==
    ASSUME NEW r \in Requests, TypeOK, DeletionSafe, DeleteStep(r)
    PROVE  DeletionSafe'
<1> DEFINE Framed == OneIssuer' /\ PcFitsJob' /\ WalletFirst' /\ BuiltInOrder' /\ NotBuiltAndDeleted'
<1> USE DEF TypeOK, StoreType, RequestType, Pc, IssuePc, DeletePc, OtherPc
<1>1. CASE DeleteFindWallet(r)
  <2> USE <1>1 DEF DeleteFindWallet, Goto, Answer, store
  <2>1. Framed
    BY DeleteFrame
  <2>2. DeletedInOrder' /\ DeletedWalletHasNoLink'
    BY DEF DeletionSafe, DeletedWalletHasNoLink, PcFitsJob, DeletedInOrder, Answered
  <2> QED BY <2>1, <2>2 DEF DeletionSafe
<1>2. CASE DeleteProbeLink(r)
  <2> USE <1>2 DEF DeleteProbeLink, Goto, Answer, store
  <2>1. Framed
    BY DeleteFrame
  <2>2. DeletedInOrder' /\ DeletedWalletHasNoLink'
    BY DEF DeletionSafe, DeletedWalletHasNoLink, PcFitsJob, DeletedInOrder, Answered
  <2> QED BY <2>1, <2>2 DEF DeletionSafe
<1>3. CASE DeleteDropLink(r)
  <2> USE <1>3 DEF DeleteDropLink, Goto, Answer
  <2>1. Framed
    BY DeleteFrame
  <2>2. DeletedInOrder' /\ DeletedWalletHasNoLink'
    BY DEF DeletionSafe, DeletedWalletHasNoLink, PcFitsJob, DeletedInOrder, Answered, Applied
  <2> QED BY <2>1, <2>2 DEF DeletionSafe
<1>4. CASE DeleteDropWallet(r)
  <2> USE <1>4 DEF DeleteDropWallet, Goto, Answer
  <2>1. Framed
    BY DeleteFrame
  <2>2. DeletedInOrder' /\ DeletedWalletHasNoLink'
    BY DEF DeletionSafe, DeletedWalletHasNoLink, PcFitsJob, DeletedInOrder, Answered
  <2> QED BY <2>1, <2>2 DEF DeletionSafe
<1>5. CASE DeleteConfirmWallet(r)
  <2> USE <1>5 DEF DeleteConfirmWallet, Goto, Answer, store
  <2>1. Framed
    BY DeleteFrame
  <2>2. DeletedInOrder' /\ DeletedWalletHasNoLink'
    BY DEF DeletionSafe, DeletedWalletHasNoLink, PcFitsJob, DeletedInOrder, Answered
  <2> QED BY <2>1, <2>2 DEF DeletionSafe
<1>6. CASE DeleteDropCard(r)
  <2> USE <1>6 DEF DeleteDropCard, Goto, Answer
  <2>1. Framed
    BY DeleteFrame
  <2>2. DeletedInOrder' /\ DeletedWalletHasNoLink'
    BY DEF DeletionSafe, DeletedWalletHasNoLink, PcFitsJob, DeletedInOrder, Answered
  <2> QED BY <2>1, <2>2 DEF DeletionSafe
<1>7. CASE DeleteConfirmCard(r)
  <2> USE <1>7 DEF DeleteConfirmCard, Answer, store
  <2>1. Framed
    BY DeleteFrame
  <2>2. DeletedInOrder' /\ DeletedWalletHasNoLink'
    BY DEF DeletionSafe, DeletedWalletHasNoLink, PcFitsJob, DeletedInOrder, Answered
  <2> QED BY <2>1, <2>2 DEF DeletionSafe
<1> QED BY <1>1, <1>2, <1>3, <1>4, <1>5, <1>6, <1>7 DEF DeleteStep

(* The requests that neither build nor delete are bystanders, and so is    *)
(* what happens outside the extension.                                     *)
LEMMA UpdateStepSafe ==
    ASSUME NEW r \in Requests, TypeOK, DeletionSafe, UpdateStep(r)
    PROVE  DeletionSafe'
<1> USE Bystander DEF TypeOK, RequestType, Unmoved, Uninvolved, Goto, Answer,
        IssuePc, DeletePc, OtherPc, Pc, store, request
<1>1. CASE SetFindWallet(r)
  BY <1>1 DEF SetFindWallet, DeletionSafe, PcFitsJob
<1>2. CASE BulkSnapshot(r)
  BY <1>2 DEF BulkSnapshot, DeletionSafe, PcFitsJob
<1>3. CASE UpdateDone(r)
  BY <1>3 DEF UpdateDone, DeletionSafe, PcFitsJob
<1>4. ASSUME NEW c \in Cards, UpdateGet(r, c) PROVE DeletionSafe'
  BY <1>4 DEF UpdateGet
<1>5. ASSUME NEW c \in Cards, UpdatePut(r, c) PROVE DeletionSafe'
  BY <1>5 DEF UpdatePut, Write, LinkFound, StoreType
<1> QED BY <1>1, <1>2, <1>3, <1>4, <1>5 DEF UpdateStep

(* The NFC endpoints change at most whether a row says Written.            *)
LEMMA NfcStepSafe ==
    ASSUME NEW r \in Requests, TypeOK, DeletionSafe, NfcStep(r)
    PROVE  DeletionSafe'
<1> USE Bystander DEF TypeOK, RequestType, Unmoved, Uninvolved, Goto, Answer,
        IssuePc, DeletePc, OtherPc, Pc, store
<1>1. CASE MarkWrite(r)
  BY <1>1 DEF MarkWrite, DeletionSafe, PcFitsJob, StoreType
<1>2. CASE MarkReload(r)
  BY <1>2 DEF MarkReload, DeletionSafe, PcFitsJob
<1>3. CASE NfcFindWallet(r)
  BY <1>3 DEF NfcFindWallet, DeletionSafe, PcFitsJob
<1>4. CASE NfcGetLink(r)
  BY <1>4 DEF NfcGetLink, DeletionSafe, PcFitsJob
<1> QED BY <1>1, <1>2, <1>3, <1>4 DEF NfcStep

(* Nothing from outside deletes a wallet, by assumption, or creates a      *)
(* record; a crash answers no deletion with ok.                            *)
LEMMA EnvironmentSafe ==
    ASSUME TypeOK, DeletionSafe, Environment, "drop_wallet" \notin External
    PROVE  DeletionSafe'
<1> USE Bystander DEF Unmoved, Uninvolved, TypeOK, StoreType, store, request
<1>1. CASE Crash
  BY <1>1 DEF Crash, RequestType, Answered
<1>2. CASE SwitchWithdraw
  BY <1>2 DEF SwitchWithdraw
<1>3. ASSUME NEW c \in Cards, ExternalLink(c) PROVE DeletionSafe'
  BY <1>3 DEF ExternalLink, LinkFound
<1>4. ASSUME NEW c \in Cards, ExternalDropWallet(c) PROVE DeletionSafe'
  BY <1>4 DEF ExternalDropWallet
<1> QED BY <1>1, <1>2, <1>3, <1>4 DEF Environment

(* A request turned away changes nothing; one admitted to issue has drawn  *)
(* an id nobody knows; one admitted to delete has found a row.             *)
LEMMA ClientSafe ==
    ASSUME NEW r \in Requests, TypeOK, DeletionSafe, Client(r)
    PROVE  DeletionSafe'
<1> USE DEF TypeOK, RequestType, IssuePc, DeletePc, OtherPc, Pc, store
<1>1. ASSUME NEW op, NEW a, NEW c, NEW w, NEW status, status # "ok",
             TurnAway(r, op, a, c, w, status)
      PROVE  DeletionSafe'
  BY <1>1, Bystander DEF TurnAway, Arrive, Unmoved, Uninvolved, Answered
<1>2. ASSUME NEW op \in {"set", "bulk", "mark", "nfc"}, NEW a, NEW c, NEW w,
             NEW p \in OtherPc, Admit(r, op, a, c, w, p)
      PROVE  DeletionSafe'
  BY <1>2, Bystander DEF Admit, Arrive, Unmoved, Uninvolved
<1>3. ASSUME NEW a \in Accounts, NEW c \in Cards, Fresh(c),
             Admit(r, "issue", a, c, "on", "createWallet")
      PROVE  DeletionSafe'
  <2> USE <1>3 DEF Admit, Arrive
  <2>1. OneIssuer' /\ PcFitsJob'
    BY DEF DeletionSafe, OneIssuer, PcFitsJob, Fresh
  <2>2. BuiltInOrder'
    BY DEF DeletionSafe, BuiltInOrder, BuiltSoFar, WalletFirst, Building, Fresh
  <2>3. NotBuiltAndDeleted'
    BY DEF DeletionSafe, NotBuiltAndDeleted, Building, Deletes, Answered, Fresh
  <2>4. DeletedInOrder' /\ DeletedWalletHasNoLink' /\ WalletFirst'
    BY DEF DeletionSafe, DeletedInOrder, DeletedWalletHasNoLink, WalletFirst, Answered
  <2> QED BY <2>1, <2>2, <2>3, <2>4 DEF DeletionSafe
<1>4. ASSUME NEW a \in Accounts, NEW c \in Cards, row[c] # "absent",
             Admit(r, "delete", a, c, "off", "findWallet")
      PROVE  DeletionSafe'
  <2> USE <1>4 DEF Admit, Arrive
  <2>1. OneIssuer' /\ PcFitsJob'
    BY DEF DeletionSafe, OneIssuer, PcFitsJob
  <2>2. BuiltInOrder'
    BY DEF DeletionSafe, BuiltInOrder, BuiltSoFar, Building
  <2>3. NotBuiltAndDeleted'
    BY DEF DeletionSafe, BuiltInOrder, BuiltSoFar, NotBuiltAndDeleted, Building, Deletes, Answered
  <2>4. DeletedInOrder' /\ DeletedWalletHasNoLink' /\ WalletFirst'
    BY DEF DeletionSafe, DeletedInOrder, DeletedWalletHasNoLink, WalletFirst, Answered
  <2> QED BY <2>1, <2>2, <2>3, <2>4 DEF DeletionSafe
<1>5. CASE IssueStart(r)
  BY <1>1, <1>3, <1>5 DEF IssueStart
<1>6. CASE SetStart(r)
  BY <1>1, <1>2, <1>6 DEF SetStart
<1>7. CASE BulkStart(r)
  BY <1>1, <1>2, <1>7 DEF BulkStart
<1>8. CASE MarkStart(r)
  BY <1>1, <1>2, <1>8 DEF MarkStart
<1>9. CASE NfcStart(r)
  BY <1>1, <1>2, <1>9 DEF NfcStart
<1>10. ASSUME NEW a \in Accounts, NEW c \in Cards, DeleteStart(r, a, c)
       PROVE  DeletionSafe'
  BY <1>1, <1>4, <1>10 DEF DeleteStart
<1> QED BY <1>5, <1>6, <1>7, <1>8, <1>9, <1>10 DEF Client

(* The invariant holds of the cards that exist in the beginning.           *)
LEMMA DeletionSafeInit == Init => DeletionSafe
BY DEF Init, DeletionSafe, OneIssuer, PcFitsJob, WalletFirst, BuiltInOrder, BuiltSoFar, NotBuiltAndDeleted,
       DeletedInOrder, DeletedWalletHasNoLink, Building, Deletes, Answered,
       IssuePc, DeletePc, OtherPc

(* The invariant is inductive, given the types.                            *)
LEMMA DeletionSafeStep ==
    ASSUME "drop_wallet" \notin External
    PROVE  TypeOK /\ DeletionSafe /\ [Next]_vars => DeletionSafe'
<1> SUFFICES ASSUME TypeOK, DeletionSafe, [Next]_vars PROVE DeletionSafe'
    OBVIOUS
<1>1. CASE UNCHANGED vars
  BY <1>1, Bystander DEF vars, store, request, Unmoved
<1>2. CASE Next
  BY <1>2, ClientSafe, IssueStepSafe, UpdateStepSafe, DeleteStepSafe, NfcStepSafe,
     EnvironmentSafe DEF Next, Handler
<1> QED BY <1>1, <1>2

(* As long as nobody deletes a card's wallet behind the extension's back,  *)
(* issues and deletions keep out of each other's way: with any number of   *)
(* cards, accounts and requests, whatever calls fail, are lost or cut      *)
(* short by a crash, and whatever happens to the links from outside.       *)
THEOREM DeletionIsSafe ==
    ASSUME "drop_wallet" \notin External
    PROVE  Spec => []DeletionSafe
BY TypeInit, TypeStep, DeletionSafeInit, DeletionSafeStep, PTL DEF Spec

(* Under the same assumption a soft-deleted wallet never has a live link,  *)
(* so that no card ends up in the "Manual recovery" branch of a deletion.  *)
THEOREM NoManualRecovery ==
    ASSUME "drop_wallet" \notin External
    PROVE  Spec => []DeletedWalletHasNoLink
<1>1. DeletionSafe => DeletedWalletHasNoLink
  BY DEF DeletionSafe
<1> QED BY <1>1, DeletionIsSafe, PTL

(* And a deletion that claims success has removed link, wallet and row for *)
(* good.                                                                   *)
THEOREM DeletionTellsTheTruth ==
    ASSUME "drop_wallet" \notin External
    PROVE  Spec => []DeleteOkMeansGone
<1>1. DeletionSafe => DeleteOkMeansGone
  BY DEF DeletionSafe, DeletedInOrder, DeleteOkMeansGone
<1> QED BY <1>1, DeletionIsSafe, PTL

-----------------------------------------------------------------------------
(* CardService implements CardContract.  This, the rows and the ownership  *)
(* below rest on DeletionSafe, and so on nobody deleting a card's wallet   *)
(* on LNbits' own page; the report of an issue and the settings of a link  *)
(* rest on RequestsReady alone, and allow that.                            *)

ContractReady == RequestsReady /\ DeletionSafe /\ ContractSafe

(* The invariant holds when nothing is under way.                          *)
LEMMA ContractSafeInit == Init => ContractSafe
BY DEF Init, ContractSafe, OpFits, BuiltOnWallet, UndoAnswers, UndoPc

(* A step of r that takes no wallet away keeps the invariant if it keeps   *)
(* what the invariant says of r.                                           *)
LEMMA ContractFrame ==
    ASSUME NEW r \in Requests, ContractReady, OthersStay(r),
           \A c \in Cards : wallet[c] = "active" => wallet'[c] = "active",
           pc'[r] # "idle" => job[r].op = "bulk" \/ job[r].card \in Cards,
           pc'[r] \in {"markCard", "reloadCard"} => job[r].op = "mark",
           pc'[r] \in {"nfcWallet", "nfcLink"} => job[r].op = "nfc",
           pc'[r] \notin {"setWallet", "snapshot"},
           pc'[r] = "update" =>
              \/ job[r].op = "bulk" /\ job[r].want = "off"
              \/ job[r].op = "set" /\ \A c \in Cards \ {job[r].card} : sub'[r][c] = "none",
           pc'[r] \in {"createLink", "insertCard"} => wallet'[job[r].card] = "active",
           pc'[r] \in UndoPc => out'[r] \in {"500", "502"}
    PROVE  ContractSafe'
<1> USE DEF ContractReady, RequestsReady, ContractSafe, OthersStay
<1>1. OpFits'
  BY DEF OpFits
<1>2. BuiltOnWallet'
  <2> SUFFICES ASSUME NEW q \in Requests, pc'[q] \in {"createLink", "insertCard"}
               PROVE  wallet'[job'[q].card] = "active"
      BY DEF BuiltOnWallet
  <2>1. CASE q = r
    BY <2>1
  <2>2. CASE q # r
    <3>1. pc[q] \in {"createLink", "insertCard"} /\ job'[q] = job[q]
      BY <2>2
    <3>2. job[q].card \in Cards
      BY <3>1 DEF DeletionSafe, PcFitsJob, IssuePc
    <3> QED BY <3>1, <3>2 DEF BuiltOnWallet
  <2> QED BY <2>1, <2>2
<1>3. UndoAnswers'
  BY DEF UndoAnswers
<1> QED BY <1>1, <1>2, <1>3

(* A step that takes a wallet away takes one nobody builds on.             *)
LEMMA ContractFrameDrop ==
    ASSUME NEW r \in Requests, ContractReady, OthersStay(r),
           pc[r] \in {"undoWallet", "dropWallet"},
           \A c \in Cards \ {job[r].card} : wallet'[c] = wallet[c],
           pc'[r] \in {"idle", "confirmWallet"}
    PROVE  ContractSafe'
<1> USE DEF ContractReady, RequestsReady, ContractSafe, OthersStay
<1>1. OpFits'
  BY DEF OpFits
<1>2. BuiltOnWallet'
  <2> SUFFICES ASSUME NEW q \in Requests, pc'[q] \in {"createLink", "insertCard"}
               PROVE  wallet'[job'[q].card] = "active"
      BY DEF BuiltOnWallet
  <2>1. q # r /\ pc[q] \in {"createLink", "insertCard"} /\ job'[q] = job[q]
    OBVIOUS
  <2>2. job[q].card \in Cards
    BY <2>1 DEF DeletionSafe, PcFitsJob, IssuePc
  <2>3. job[q].card # job[r].card
    BY <2>1 DEF DeletionSafe, OneIssuer, NotBuiltAndDeleted, Building, Deletes, IssuePc, DeletePc
  <2> QED BY <2>1, <2>2, <2>3 DEF BuiltOnWallet
<1>3. UndoAnswers'
  BY DEF UndoAnswers, UndoPc
<1> QED BY <1>1, <1>2, <1>3

(* The steps of an issue.                                                  *)
LEMMA IssueStepContract ==
    ASSUME NEW r \in Requests, ContractReady, IssueStep(r)
    PROVE  ContractSafe'
<1> USE ContractFrame DEF ContractReady, RequestsReady, OthersStay, TypeOK, RequestType, StoreType, UndoPc, update
<1>0. pc[r] \in IssuePc => job[r].card \in Cards
  BY DEF DeletionSafe, PcFitsJob
<1>1. CASE IssueCreateWallet(r)
  BY <1>0, <1>1 DEF IssueCreateWallet, Goto, Answer, Applied, IssuePc
<1>2. CASE IssueCreateLink(r)
  BY <1>0, <1>2 DEF IssueCreateLink, Goto, Undo, KeyAccepted, IssuePc
<1>3. CASE IssueInsertCard(r)
  BY <1>0, <1>3 DEF IssueInsertCard, Goto, Undo, IssuePc
<1>4. CASE IssueLoadCard(r)
  BY <1>0, <1>4 DEF IssueLoadCard, Answer, Undo, IssuePc, store
<1>5. CASE IssueUndoCard(r)
  BY <1>0, <1>5 DEF IssueUndoCard, UndoStep, IssuePc, ContractSafe, UndoAnswers
<1>6. CASE IssueUndoLink(r)
  BY <1>0, <1>6 DEF IssueUndoLink, UndoStep, IssuePc, ContractSafe, UndoAnswers
<1>7. CASE IssueUndoWallet(r)
  BY <1>0, <1>7, ContractFrameDrop DEF IssueUndoWallet, UndoStep, IssuePc
<1> QED BY <1>1, <1>2, <1>3, <1>4, <1>5, <1>6, <1>7 DEF IssueStep

(* The steps of an update stay on the card of their request, or in a bulk  *)
(* action on cards that are to be disabled.                                *)
LEMMA UpdateStepContract ==
    ASSUME NEW r \in Requests, ContractReady, UpdateStep(r)
    PROVE  ContractSafe'
<1> USE ContractFrame DEF ContractReady, RequestsReady, OthersStay, TypeOK, RequestType, UpdateType, UndoPc
<1>0. ContractSafe
  BY DEF ContractReady, RequestsReady
<1>1. CASE SetFindWallet(r)
  <2>0. wallet' = wallet
    BY <1>1 DEF SetFindWallet, store
  <2>1. job[r].op = "set" /\ job[r].card \in Cards /\ sub[r] = NoCards("none")
    BY <1>0, <1>1 DEF SetFindWallet, ContractSafe, OpFits
  <2>2. CASE pc'[r] = "idle"
    BY <1>1, <2>0, <2>2 DEF SetFindWallet, Goto, Answer
  <2>3. CASE pc'[r] # "idle"
    <3>1. sub' = [sub EXCEPT ![r][job[r].card] = "queued"] /\ Goto(r, "update")
      BY <1>1, <2>3 DEF SetFindWallet, Answer
    <3> QED BY <2>0, <2>1, <3>1 DEF Goto, NoCards
  <2> QED BY <2>2, <2>3
<1>2. CASE BulkSnapshot(r)
  <2>1. job[r].op = "bulk" /\ job[r].want = "off" /\ wallet' = wallet
    BY <1>0, <1>2 DEF BulkSnapshot, ContractSafe, OpFits, store
  <2>2. /\ job' = job /\ pc'[r] \in {"idle", "update"}
        /\ \A q \in Requests \ {r} :
              pc'[q] = pc[q] /\ out'[q] = out[q] /\ fails'[q] = fails[q] /\ sub'[q] = sub[q]
    BY <1>2 DEF BulkSnapshot, Goto, Answer
  <2> QED BY <2>1, <2>2
<1>3. CASE UpdateDone(r)
  BY <1>0, <1>3 DEF UpdateDone, Answer, store, update
<1>4. ASSUME NEW c \in Cards, pc[r] = "update", sub[r][c] \in {"queued", "put"},
             NEW v, sub' = [sub EXCEPT ![r][c] = v], UNCHANGED <<wallet, request>>
      PROVE  ContractSafe'
  BY <1>0, <1>4 DEF ContractSafe, OpFits, request
<1>5. ASSUME NEW c \in Cards, UpdateGet(r, c) PROVE ContractSafe'
  BY <1>4, <1>5 DEF UpdateGet, Settle, store
<1>6. ASSUME NEW c \in Cards, UpdatePut(r, c) PROVE ContractSafe'
  BY <1>4, <1>6 DEF UpdatePut, Settle
<1> QED BY <1>1, <1>2, <1>3, <1>5, <1>6 DEF UpdateStep

(* The steps of a deletion take a wallet away that nobody builds on.       *)
LEMMA DeleteStepContract ==
    ASSUME NEW r \in Requests, ContractReady, DeleteStep(r)
    PROVE  ContractSafe'
<1> USE ContractFrame DEF ContractReady, RequestsReady, OthersStay, TypeOK, RequestType, StoreType, UndoPc,
        Goto, Answer, store, update
<1>0. pc[r] \in DeletePc => job[r].card \in Cards
  BY DEF DeletionSafe, PcFitsJob
<1>1. CASE DeleteFindWallet(r)
  BY <1>0, <1>1 DEF DeleteFindWallet, DeletePc
<1>2. CASE DeleteProbeLink(r)
  BY <1>0, <1>2 DEF DeleteProbeLink, DeletePc
<1>3. CASE DeleteDropLink(r)
  BY <1>0, <1>3 DEF DeleteDropLink, DeletePc
<1>4. CASE DeleteDropWallet(r)
  BY <1>0, <1>4, ContractFrameDrop DEF DeleteDropWallet, DeletePc
<1>5. CASE DeleteConfirmWallet(r)
  BY <1>0, <1>5 DEF DeleteConfirmWallet, DeletePc
<1>6. CASE DeleteDropCard(r)
  BY <1>0, <1>6 DEF DeleteDropCard, DeletePc
<1>7. CASE DeleteConfirmCard(r)
  BY <1>0, <1>7 DEF DeleteConfirmCard, DeletePc
<1> QED BY <1>1, <1>2, <1>3, <1>4, <1>5, <1>6, <1>7 DEF DeleteStep

(* The steps of the NFC endpoints keep to their two calls.                 *)
LEMMA NfcStepContract ==
    ASSUME NEW r \in Requests, ContractReady, NfcStep(r)
    PROVE  ContractSafe'
<1> USE ContractFrame DEF ContractReady, RequestsReady, OthersStay, TypeOK, RequestType, UndoPc,
        Goto, Answer, store, update
<1>0. OpFits
  BY DEF ContractSafe
<1>1. CASE MarkWrite(r)
  BY <1>0, <1>1 DEF MarkWrite, OpFits
<1>2. CASE MarkReload(r)
  BY <1>0, <1>2 DEF MarkReload
<1>3. CASE NfcFindWallet(r)
  BY <1>0, <1>3 DEF NfcFindWallet, OpFits
<1>4. CASE NfcGetLink(r)
  BY <1>0, <1>4 DEF NfcGetLink
<1> QED BY <1>1, <1>2, <1>3, <1>4 DEF NfcStep

(* A request comes in with its first call, or is turned away.              *)
LEMMA ClientContract ==
    ASSUME NEW r \in Requests, ContractReady, Client(r)
    PROVE  ContractSafe'
<1> USE DEF ContractReady, RequestsReady, TypeOK, RequestType, UpdateType, store
<1>0. ASSUME NEW op, NEW a, NEW c, NEW w, NEW p, NEW status, Arrive(r, op, a, c, w, p, status),
             \/ p = "idle"
             \/ op = "issue" /\ c \in Cards /\ p = "createWallet"
             \/ op = "set" /\ c \in Cards /\ p = "setWallet"
             \/ op = "bulk" /\ w = "off" /\ p = "snapshot"
             \/ op = "delete" /\ c \in Cards /\ p = "findWallet"
             \/ op = "mark" /\ c \in Cards /\ p = "markCard"
             \/ op = "nfc" /\ c \in Cards /\ p = "nfcWallet"
      PROVE  ContractSafe'
  <2>1. /\ \A q \in Requests \ {r} :
               pc'[q] = pc[q] /\ job'[q] = job[q] /\ out'[q] = out[q] /\ sub'[q] = sub[q]
        /\ pc'[r] = p /\ sub'[r] = NoCards("none")
        /\ job'[r] = [op |-> op, acct |-> a, card |-> c, want |-> w]
        /\ wallet' = wallet
    BY <1>0 DEF Arrive
  <2>2. OpFits'
    BY <1>0, <2>1 DEF OpFits, ContractSafe, NoCards
  <2>3. BuiltOnWallet'
    BY <1>0, <2>1 DEF BuiltOnWallet, ContractSafe
  <2>4. UndoAnswers'
    BY <1>0, <2>1 DEF UndoAnswers, UndoPc, ContractSafe
  <2> QED BY <2>2, <2>3, <2>4 DEF ContractSafe
<1> USE DEF Admit, TurnAway
<1>1. CASE IssueStart(r)
  BY <1>0, <1>1 DEF IssueStart
<1>2. CASE SetStart(r)
  BY <1>0, <1>2 DEF SetStart
<1>3. CASE BulkStart(r)
  BY <1>0, <1>3 DEF BulkStart
<1>4. CASE MarkStart(r)
  BY <1>0, <1>4 DEF MarkStart
<1>5. CASE NfcStart(r)
  BY <1>0, <1>5 DEF NfcStart
<1>6. ASSUME NEW a \in Accounts, NEW c \in Cards, DeleteStart(r, a, c) PROVE ContractSafe'
  BY <1>0, <1>6 DEF DeleteStart
<1> QED BY <1>1, <1>2, <1>3, <1>4, <1>5, <1>6 DEF Client

(* A crash leaves nothing under way; nothing from outside takes a wallet.  *)
LEMMA EnvironmentContract ==
    ASSUME ContractReady, Environment, "drop_wallet" \notin External
    PROVE  ContractSafe'
<1> USE DEF ContractReady, RequestsReady, ContractSafe, OpFits, BuiltOnWallet, UndoAnswers, UndoPc,
        store, request, update
<1>1. CASE Crash
  BY <1>1 DEF Crash
<1>2. CASE SwitchWithdraw
  BY <1>2 DEF SwitchWithdraw
<1>3. ASSUME NEW c \in Cards, ExternalLink(c) PROVE ContractSafe'
  BY <1>3 DEF ExternalLink
<1>4. ASSUME NEW c \in Cards, ExternalDropWallet(c) PROVE ContractSafe'
  BY <1>4 DEF ExternalDropWallet
<1> QED BY <1>1, <1>2, <1>3, <1>4 DEF Environment

(* Types, deletions and this invariant hold together, initially and after  *)
(* every step.                                                             *)
LEMMA ContractReadyInit == Init => ContractReady
BY RequestsReadyInit, DeletionSafeInit, ContractSafeInit DEF ContractReady

(* Every step keeps the invariant while no wallet is deleted elsewhere.    *)
LEMMA ContractReadyStep ==
    ASSUME "drop_wallet" \notin External
    PROVE  ContractReady /\ [Next]_vars => ContractReady'
<1> SUFFICES ASSUME ContractReady, [Next]_vars PROVE ContractSafe'
    BY RequestsReadyStep, DeletionSafeStep DEF ContractReady, RequestsReady
<1>1. CASE UNCHANGED vars
  BY <1>1 DEF ContractReady, RequestsReady, ContractSafe, OpFits, BuiltOnWallet, UndoAnswers, UndoPc,
     vars, store, request, update
<1>2. CASE Next
  BY <1>2, ClientContract, IssueStepContract, UpdateStepContract, DeleteStepContract,
     NfcStepContract, EnvironmentContract DEF Next, Handler
<1> QED BY <1>1, <1>2

-----------------------------------------------------------------------------
(* The refinement.  First what a change of one record of one card is to    *)
(* the contract.                                                           *)
OthersKeep(c) ==
    \A d \in Cards \ {c} : wallet'[d] = wallet[d] /\ link'[d] = link[d] /\ row'[d] = row[d]

(* Equal stores are equal in the contract's terms.                         *)
LEMMA RecordsKept ==
    ASSUME TypeOK, UNCHANGED <<wallet, link, row>>
    PROVE  /\ UNCHANGED [c \in Cards |-> PartsOf(c)]
           /\ UNCHANGED {c \in Cards : link[c] = "on"}
BY DEF PartsOf

(* A record that appears on one card is one that the contract gains.       *)
LEMMA RecordGained ==
    ASSUME NEW c \in Cards, NEW p, OthersKeep(c),
           PartsOf(c)' = PartsOf(c) \cup {p},
           IF p = "link" THEN link'[c] = "on" ELSE link'[c] = link[c]
    PROVE  Contract!Gains(c, p)
<1>0. \A d \in Cards \ {c} : PartsOf(d)' = PartsOf(d)
  BY DEF OthersKeep, PartsOf
<1>1. [d \in Cards |-> PartsOf(d)]' = [[d \in Cards |-> PartsOf(d)] EXCEPT ![c] = @ \cup {p}]
  BY <1>0
<1>2. {d \in Cards : link[d] = "on"}'
        = IF p = "link" THEN {d \in Cards : link[d] = "on"} \cup {c} ELSE {d \in Cards : link[d] = "on"}
  BY DEF OthersKeep
<1> QED BY <1>1, <1>2 DEF Contract!Gains

(* A record that goes from one card is one that the contract loses.        *)
LEMMA RecordLost ==
    ASSUME NEW c \in Cards, NEW p, OthersKeep(c),
           PartsOf(c)' = PartsOf(c) \ {p},
           IF p = "link" THEN link'[c] # "on" ELSE link'[c] = link[c]
    PROVE  Contract!Loses(c, p)
<1>0. \A d \in Cards \ {c} : PartsOf(d)' = PartsOf(d)
  BY DEF OthersKeep, PartsOf
<1>1. [d \in Cards |-> PartsOf(d)]' = [[d \in Cards |-> PartsOf(d)] EXCEPT ![c] = @ \ {p}]
  BY <1>0
<1>2. {d \in Cards : link[d] = "on"}'
        = IF p = "link" THEN {d \in Cards : link[d] = "on"} \ {c} ELSE {d \in Cards : link[d] = "on"}
  BY DEF OthersKeep
<1> QED BY <1>1, <1>2 DEF Contract!Loses

(* Writing the enabled state of a found link changes that state alone.     *)
LEMMA LinkSet ==
    ASSUME NEW c \in Cards, NEW v \in {"on", "off"}, TypeOK, LinkFound(c),
           link' = [link EXCEPT ![c] = v], UNCHANGED <<wallet, row>>
    PROVE  /\ {"wallet", "link"} \subseteq PartsOf(c)
           /\ UNCHANGED [d \in Cards |-> PartsOf(d)]
           /\ {d \in Cards : link[d] = "on"}'
                = IF v = "on" THEN {d \in Cards : link[d] = "on"} \cup {c}
                  ELSE {d \in Cards : link[d] = "on"} \ {c}
<1> USE DEF TypeOK, StoreType, LinkFound, KeyAccepted, PartsOf
<1>1. {"wallet", "link"} \subseteq PartsOf(c)
  OBVIOUS
<1>2. UNCHANGED [d \in Cards |-> PartsOf(d)]
  OBVIOUS
<1>3. {d \in Cards : link[d] = "on"}'
        = IF v = "on" THEN {d \in Cards : link[d] = "on"} \cup {c}
          ELSE {d \in Cards : link[d] = "on"} \ {c}
  OBVIOUS
<1> QED BY <1>1, <1>2, <1>3

(* A step of a request under way that has such an effect is the work of    *)
(* its request, if it is answered only with what is so.                    *)
LEMMA RequestWorks ==
    ASSUME NEW r \in Requests, TypeOK, pc[r] # "idle", OthersStay(r), pc'[r] \in Pc,
           pc' \in [Requests -> Pc], out' \in [Requests -> Status],
           Contract!Effect(r),
           pc'[r] = "idle" => out'[r] \notin {"none", "crashed"},
           pc'[r] = "idle" /\ out'[r] = "ok" => Contract!Kept(r)
    PROVE  Contract!Work(r)
<1>1. UNCHANGED [q \in Requests |-> job[q].card]
  BY DEF OthersStay
<1>2. DoingOf(r) # "nothing"
  BY DEF DoingOf, TypeOK, RequestType, Job
<1>3. CASE pc'[r] # "idle"
  <2>1. UNCHANGED [q \in Requests |-> DoingOf(q)]
    BY <1>3 DEF OthersStay, DoingOf
  <2>2. UNCHANGED [q \in Requests |-> AnswerOf(q)]
    BY <1>3 DEF OthersStay, AnswerOf
  <2> QED BY <1>1, <1>2, <2>1, <2>2 DEF Contract!Work
<1>4. CASE pc'[r] = "idle"
  <2>1. [q \in Requests |-> DoingOf(q)]' = [[q \in Requests |-> DoingOf(q)] EXCEPT ![r] = "nothing"]
    BY <1>4 DEF OthersStay, DoingOf
  <2>2. [q \in Requests |-> AnswerOf(q)]'
          = [[q \in Requests |-> AnswerOf(q)] EXCEPT ![r] = IF out'[r] = "ok" THEN "ok" ELSE "failed"]
    BY <1>4 DEF OthersStay, AnswerOf
  <2> QED BY <1>1, <1>2, <1>4, <2>1, <2>2 DEF Contract!Work
<1> QED BY <1>3, <1>4

(* The effects of the four kinds of requests that have one.                *)
LEMMA NoEffect ==
    ASSUME NEW r \in Requests, TypeOK, UNCHANGED <<wallet, link, row>>
    PROVE  Contract!Effect(r)
BY RecordsKept DEF Contract!Effect

(* What an issue does to its card is an effect of that request.            *)
LEMMA IssueEffect ==
    ASSUME NEW r \in Requests, pc[r] # "idle", job[r].op = "issue",
           NEW c, c = job[r].card, Contract!Issues(c)
    PROVE  Contract!Effect(r)
BY DEF Contract!Effect, Contract!Issues, Contract!Gains, Contract!Loses, DoingOf

(* The same for a deletion.                                                *)
LEMMA DeleteEffect ==
    ASSUME NEW r \in Requests, pc[r] # "idle", job[r].op = "delete",
           NEW c, c = job[r].card, Contract!Deletes(c)
    PROVE  Contract!Effect(r)
BY DEF Contract!Effect, Contract!Deletes, Contract!Loses, DoingOf

(* The same for an update of one card.                                     *)
LEMMA SetEffect ==
    ASSUME NEW r \in Requests, pc[r] # "idle", job[r].op = "set",
           NEW c, c = job[r].card, Contract!Sets(c)
    PROVE  Contract!Effect(r)
BY DEF Contract!Effect, Contract!Sets, DoingOf

(* The same for the bulk action.                                           *)
LEMMA BulkEffect ==
    ASSUME NEW r \in Requests, pc[r] # "idle", job[r].op = "bulk", Contract!Disables
    PROVE  Contract!Effect(r)
BY DEF Contract!Effect, DoingOf

(* The steps of an issue work for it: a wallet is made where nothing is,   *)
(* link and row beside an active wallet, and "ok" is said of a row there.  *)
LEMMA IssueStepWorks ==
    ASSUME NEW r \in Requests, ContractReady, IssueStep(r)
    PROVE  Contract!Work(r)
<1> USE DEF ContractReady, RequestsReady
<1>a. /\ pc[r] # "idle" /\ pc[r] \in IssuePc
      /\ job[r].op = "issue" /\ job[r].card \in Cards
      /\ OthersStay(r)
  BY IssueMoves DEF IssuePc
<1>b. PICK c \in Cards : c = job[r].card
  BY <1>a
<1>0. /\ pc[r] # "idle" /\ pc[r] \in IssuePc
      /\ job[r].op = "issue" /\ c = job[r].card
      /\ OthersStay(r)
  BY <1>a, <1>b
<1>t. /\ pc' \in [Requests -> Pc] /\ out' \in [Requests -> Status] /\ pc'[r] \in Pc
  BY IssueStepType DEF TypeOK, RequestType
<1>1. CASE IssueCreateWallet(r)
  <2>1. wallet[c] = "none" /\ link[c] = "absent" /\ row[c] = "absent"
    BY <1>0, <1>1 DEF DeletionSafe, BuiltInOrder, BuiltSoFar, WalletFirst, Building, IssueCreateWallet
  <2>2. CASE wallet' = wallet
    BY <1>0, <1>t, <1>1, <2>2, NoEffect, RequestWorks
       DEF IssueCreateWallet, Goto, Answer, TypeOK, RequestType
  <2>3. CASE wallet' = [wallet EXCEPT ![c] = "active"]
    <3>1. OthersKeep(c) /\ PartsOf(c) = {} /\ PartsOf(c)' = {"wallet"} /\ link'[c] = link[c]
      BY <1>0, <1>1, <2>1, <2>3 DEF OthersKeep, PartsOf, IssueCreateWallet, TypeOK, StoreType
    <3>2. Contract!Gains(c, "wallet")
      BY <1>0, <3>1, RecordGained
    <3>3. Contract!Issues(c)
      BY <1>0, <3>1, <3>2 DEF Contract!Issues
    <3> QED BY <1>0, <1>t, <1>1, <3>3, IssueEffect, RequestWorks
            DEF IssueCreateWallet, Goto, Answer, TypeOK, RequestType
  <2> QED BY <1>0, <1>1, <2>2, <2>3 DEF IssueCreateWallet
<1>2. CASE IssueCreateLink(r)
  <2>1. wallet[c] = "active" /\ link[c] = "absent" /\ row[c] = "absent"
    BY <1>0, <1>2 DEF DeletionSafe, BuiltInOrder, BuiltSoFar, Building, ContractSafe, BuiltOnWallet, IssueCreateLink
  <2>2. pc'[r] # "idle"
    BY <1>2 DEF IssueCreateLink, Goto, Undo, TypeOK, RequestType
  <2>3. CASE link' = link
    BY <1>0, <1>t, <1>2, <2>2, <2>3, NoEffect, RequestWorks DEF IssueCreateLink
  <2>4. CASE link' = [link EXCEPT ![c] = "on"]
    <3>1. OthersKeep(c) /\ PartsOf(c) = {"wallet"} /\ PartsOf(c)' = {"wallet", "link"} /\ link'[c] = "on"
      BY <1>0, <1>2, <2>1, <2>4 DEF OthersKeep, PartsOf, IssueCreateLink, TypeOK, StoreType
    <3>2. Contract!Gains(c, "link")
      BY <1>0, <3>1, RecordGained
    <3>3. Contract!Issues(c)
      BY <1>0, <3>1, <3>2 DEF Contract!Issues
    <3> QED BY <1>0, <1>t, <2>2, <3>3, IssueEffect, RequestWorks
  <2> QED BY <1>0, <1>2, <2>3, <2>4 DEF IssueCreateLink
<1>3. CASE IssueInsertCard(r)
  <2>1. wallet[c] = "active" /\ row[c] = "absent"
    BY <1>0, <1>3 DEF DeletionSafe, BuiltInOrder, BuiltSoFar, Building, ContractSafe, BuiltOnWallet, IssueInsertCard
  <2>2. pc'[r] # "idle"
    BY <1>3 DEF IssueInsertCard, Goto, Undo, TypeOK, RequestType
  <2>3. CASE row' = row
    BY <1>0, <1>t, <1>3, <2>2, <2>3, NoEffect, RequestWorks DEF IssueInsertCard
  <2>4. CASE row' = [row EXCEPT ![c] = "unwritten"]
    <3>1. /\ OthersKeep(c) /\ PartsOf(c)' = PartsOf(c) \cup {"card"} /\ link'[c] = link[c]
          /\ "wallet" \in PartsOf(c) /\ PartsOf(c) \subseteq {"wallet", "link"}
      BY <1>0, <1>3, <2>1, <2>4 DEF OthersKeep, PartsOf, IssueInsertCard, TypeOK, StoreType
    <3>2. Contract!Gains(c, "card")
      BY <1>0, <3>1, RecordGained
    <3>3. Contract!Issues(c)
      BY <1>0, <3>1, <3>2 DEF Contract!Issues
    <3> QED BY <1>0, <1>t, <2>2, <3>3, IssueEffect, RequestWorks
  <2> QED BY <1>0, <1>3, <2>3, <2>4 DEF IssueInsertCard
<1>4. CASE IssueLoadCard(r)
  <2>1. UNCHANGED <<wallet, link, row>>
    BY <1>4 DEF IssueLoadCard, store
  <2>2. pc'[r] = "idle" => out'[r] = "ok" /\ row'[c] # "absent"
    BY <1>0, <1>4, <2>1 DEF IssueLoadCard, Answer, Undo, TypeOK, RequestType
  <2>3. pc'[r] = "idle" => Contract!Kept(r)
    BY <1>0, <2>2 DEF Contract!Kept, DoingOf, PartsOf
  <2> QED BY <1>0, <1>t, <2>1, <2>2, <2>3, NoEffect, RequestWorks
<1>5. ASSUME NEW p \in {"wallet", "link", "card"}, OthersKeep(c), PartsOf(c)' = PartsOf(c) \ {p},
             IF p = "link" THEN link'[c] # "on" ELSE link'[c] = link[c]
      PROVE  Contract!Effect(r)
  BY <1>0, <1>5, RecordLost, IssueEffect DEF Contract!Issues, Contract!Parts
<1>6. CASE IssueUndoCard(r)
  <2>1. pc'[r] # "idle"
    BY <1>6 DEF IssueUndoCard, UndoStep, TypeOK, RequestType
  <2>2. CASE row' = row
    BY <1>0, <1>t, <1>6, <2>1, <2>2, NoEffect, RequestWorks DEF IssueUndoCard
  <2>3. CASE row' = [row EXCEPT ![c] = "absent"]
    <3>1. OthersKeep(c) /\ PartsOf(c)' = PartsOf(c) \ {"card"} /\ link'[c] = link[c]
      BY <1>0, <1>6, <2>3 DEF OthersKeep, PartsOf, IssueUndoCard, TypeOK, StoreType
    <3> QED BY <1>0, <1>t, <1>5, <2>1, <3>1, RequestWorks
  <2> QED BY <1>0, <1>6, <2>2, <2>3 DEF IssueUndoCard
<1>7. CASE IssueUndoLink(r)
  <2>1. pc'[r] # "idle"
    BY <1>7 DEF IssueUndoLink, UndoStep, TypeOK, RequestType
  <2>2. CASE link' = link
    BY <1>0, <1>t, <1>7, <2>1, <2>2, NoEffect, RequestWorks DEF IssueUndoLink
  <2>3. CASE link' = [link EXCEPT ![c] = "absent"]
    <3>1. OthersKeep(c) /\ PartsOf(c)' = PartsOf(c) \ {"link"} /\ link'[c] # "on"
      BY <1>0, <1>7, <2>3 DEF OthersKeep, PartsOf, IssueUndoLink, TypeOK, StoreType
    <3> QED BY <1>0, <1>t, <1>5, <2>1, <3>1, RequestWorks
  <2> QED BY <1>0, <1>7, <2>2, <2>3 DEF IssueUndoLink
<1>8. CASE IssueUndoWallet(r)
  <2>1. out'[r] \in {"500", "502"}
    BY <1>8 DEF IssueUndoWallet, UndoStep, ContractSafe, UndoAnswers, UndoPc
  <2>2. CASE wallet' = wallet
    BY <1>0, <1>t, <1>8, <2>1, <2>2, NoEffect, RequestWorks DEF IssueUndoWallet
  <2>3. CASE wallet' = [wallet EXCEPT ![c] = "purged"]
    <3>1. OthersKeep(c) /\ PartsOf(c)' = PartsOf(c) \ {"wallet"} /\ link'[c] = link[c]
      BY <1>0, <1>8, <2>3 DEF OthersKeep, PartsOf, IssueUndoWallet, TypeOK, StoreType
    <3> QED BY <1>0, <1>t, <1>5, <2>1, <3>1, RequestWorks
  <2> QED BY <1>0, <1>8, <2>2, <2>3 DEF IssueUndoWallet
<1> QED BY <1>1, <1>2, <1>3, <1>4, <1>6, <1>7, <1>8 DEF IssueStep

(* The steps of an update work for it: a PUT sets the link of its card, or *)
(* in a bulk action turns one off.                                         *)
LEMMA UpdateStepWorks ==
    ASSUME NEW r \in Requests, ContractReady, UpdateStep(r)
    PROVE  Contract!Work(r)
<1> USE DEF ContractReady, RequestsReady
<1>0. pc[r] # "idle" /\ OthersStay(r)
  BY UpdateMoves
<1>t. /\ pc' \in [Requests -> Pc] /\ out' \in [Requests -> Status] /\ pc'[r] \in Pc
  BY UpdateStepType DEF TypeOK, RequestType
<1>1. CASE SetFindWallet(r)
  <2>1. UNCHANGED <<wallet, link, row>>
    BY <1>1 DEF SetFindWallet, store
  <2>2. pc'[r] = "idle" => out'[r] \in {"404", "500"}
    BY <1>1 DEF SetFindWallet, Goto, Answer, TypeOK, RequestType
  <2> QED BY <1>0, <1>t, <2>1, <2>2, NoEffect, RequestWorks
<1>2. CASE BulkSnapshot(r)
  <2>1. UNCHANGED <<wallet, link, row>>
    BY <1>2 DEF BulkSnapshot, store
  <2>2. pc'[r] = "idle" => out'[r] = "500"
    BY <1>2 DEF BulkSnapshot, Goto, Answer, TypeOK, RequestType
  <2> QED BY <1>0, <1>t, <2>1, <2>2, NoEffect, RequestWorks
<1>3. CASE UpdateDone(r)
  <2>1. UNCHANGED <<wallet, link, row>>
    BY <1>3 DEF UpdateDone, store
  <2>2. out'[r] \in {"ok", "502"} /\ job[r].op \in {"set", "bulk"}
    BY <1>3 DEF UpdateDone, Answer, TypeOK, RequestType
  <2>3. Contract!Kept(r)
    BY <1>0, <2>2 DEF Contract!Kept, DoingOf
  <2> QED BY <1>0, <1>t, <2>1, <2>2, <2>3, NoEffect, RequestWorks
<1>4. ASSUME NEW c \in Cards, UpdateGet(r, c) PROVE Contract!Work(r)
  <2>1. UNCHANGED <<wallet, link, row>> /\ pc' = pc
    BY <1>4 DEF UpdateGet, store, request
  <2> QED BY <1>0, <1>t, <2>1, NoEffect, RequestWorks
<1>5. ASSUME NEW c \in Cards, UpdatePut(r, c) PROVE Contract!Work(r)
  <2>1. UNCHANGED <<wallet, row>> /\ pc' = pc
    BY <1>5 DEF UpdatePut, request
  <2>2. CASE link' = link
    BY <1>0, <1>t, <2>1, <2>2, NoEffect, RequestWorks
  <2>3. CASE LinkFound(c) /\ link' = [link EXCEPT ![c] = job[r].want]
    <3>1. job[r].want \in {"on", "off"}
      BY DEF TypeOK, RequestType, Job
    <3>2. CASE job[r].op = "set" /\ c = job[r].card
      <4>1. Contract!Sets(c)
        BY <2>1, <2>3, <3>1, LinkSet DEF Contract!Sets
      <4> QED BY <1>0, <1>t, <2>1, <3>2, <4>1, SetEffect, RequestWorks
    <3>3. CASE job[r].op = "bulk" /\ job[r].want = "off"
      <4>1. Contract!Disables
        BY <2>1, <2>3, <3>3, LinkSet DEF Contract!Disables
      <4> QED BY <1>0, <1>t, <2>1, <3>3, <4>1, BulkEffect, RequestWorks
    <3> QED BY <1>5, <3>2, <3>3 DEF UpdatePut, ContractSafe, OpFits
  <2> QED BY <1>5, <2>2, <2>3 DEF UpdatePut, Write
<1> QED BY <1>1, <1>2, <1>3, <1>4, <1>5 DEF UpdateStep

(* The steps of a deletion work for it: the wallet goes after the link,    *)
(* the row when both are gone, and "ok" is said of nothing left.           *)
LEMMA DeleteStepWorks ==
    ASSUME NEW r \in Requests, ContractReady, DeleteStep(r)
    PROVE  Contract!Work(r)
<1> USE DEF ContractReady, RequestsReady
<1>a. /\ pc[r] # "idle" /\ job[r].op = "delete" /\ job[r].card \in Cards
      /\ OthersStay(r)
  BY DeleteMoves DEF DeletePc
<1>b. PICK c \in Cards : c = job[r].card
  BY <1>a
<1>0. pc[r] # "idle" /\ job[r].op = "delete" /\ c = job[r].card /\ OthersStay(r)
  BY <1>a, <1>b
<1>t. /\ pc' \in [Requests -> Pc] /\ out' \in [Requests -> Status] /\ pc'[r] \in Pc
  BY DeleteStepType DEF TypeOK, RequestType
<1>1. ASSUME UNCHANGED <<wallet, link, row>>, pc'[r] = "idle" => out'[r] \notin {"none", "crashed", "ok"}
      PROVE  Contract!Work(r)
  BY <1>0, <1>t, <1>1, NoEffect, RequestWorks
<1>2. CASE DeleteFindWallet(r) \/ DeleteProbeLink(r) \/ DeleteConfirmWallet(r)
  BY <1>1, <1>2 DEF DeleteFindWallet, DeleteProbeLink, DeleteConfirmWallet, Goto, Answer, store,
     TypeOK, RequestType
<1>3. CASE DeleteDropLink(r)
  <2>1. pc'[r] = "idle" => out'[r] = "502"
    BY <1>3 DEF DeleteDropLink, Goto, Answer, TypeOK, RequestType
  <2>2. CASE link' = link
    BY <1>1, <1>3, <2>1, <2>2 DEF DeleteDropLink
  <2>3. CASE link' = [link EXCEPT ![c] = "absent"]
    <3>1. OthersKeep(c) /\ PartsOf(c)' = PartsOf(c) \ {"link"} /\ link'[c] # "on"
      BY <1>0, <1>3, <2>3 DEF OthersKeep, PartsOf, DeleteDropLink, TypeOK, StoreType
    <3>2. Contract!Deletes(c)
      BY <3>1, RecordLost DEF Contract!Deletes
    <3> QED BY <1>0, <1>t, <2>1, <3>2, DeleteEffect, RequestWorks
  <2> QED BY <1>0, <1>3, <2>2, <2>3 DEF DeleteDropLink
<1>4. CASE DeleteDropWallet(r)
  <2>1. pc'[r] = "idle" => out'[r] = "500"
    BY <1>4 DEF DeleteDropWallet, Goto, Answer, TypeOK, RequestType
  <2>2. CASE wallet' = wallet
    BY <1>1, <1>4, <2>1, <2>2 DEF DeleteDropWallet
  <2>3. CASE wallet' = [wallet EXCEPT ![c] = "deleted"]
    <3>1. link[c] = "absent"
      BY <1>0, <1>4 DEF DeleteDropWallet, DeletionSafe, DeletedInOrder
    <3>2. OthersKeep(c) /\ PartsOf(c)' = PartsOf(c) \ {"wallet"} /\ link'[c] = link[c]
      BY <1>0, <1>4, <2>3 DEF OthersKeep, PartsOf, DeleteDropWallet, TypeOK, StoreType
    <3>3. "link" \notin PartsOf(c)
      BY <3>1 DEF PartsOf
    <3>4. Contract!Deletes(c)
      BY <3>2, <3>3, RecordLost DEF Contract!Deletes
    <3> QED BY <1>0, <1>t, <2>1, <3>4, DeleteEffect, RequestWorks
  <2> QED BY <1>0, <1>4, <2>2, <2>3 DEF DeleteDropWallet
<1>5. CASE DeleteDropCard(r)
  <2>1. pc'[r] = "idle" => out'[r] = "500"
    BY <1>5 DEF DeleteDropCard, Goto, Answer, TypeOK, RequestType
  <2>2. CASE row' = row
    BY <1>1, <1>5, <2>1, <2>2 DEF DeleteDropCard
  <2>3. CASE row' = [row EXCEPT ![c] = "absent"]
    <3>1. link[c] = "absent" /\ wallet[c] # "active"
      BY <1>0, <1>5 DEF DeleteDropCard, DeletionSafe, DeletedInOrder
    <3>2. OthersKeep(c) /\ PartsOf(c)' = PartsOf(c) \ {"card"} /\ link'[c] = link[c]
      BY <1>0, <1>5, <2>3 DEF OthersKeep, PartsOf, DeleteDropCard, TypeOK, StoreType
    <3>3. PartsOf(c) \subseteq {"card"}
      BY <3>1 DEF PartsOf
    <3>4. Contract!Deletes(c)
      BY <3>2, <3>3, RecordLost DEF Contract!Deletes
    <3> QED BY <1>0, <1>t, <2>1, <3>4, DeleteEffect, RequestWorks
  <2> QED BY <1>0, <1>5, <2>2, <2>3 DEF DeleteDropCard
<1>6. CASE DeleteConfirmCard(r)
  <2>1. UNCHANGED <<wallet, link, row>>
    BY <1>6 DEF DeleteConfirmCard, store
  <2>2. out'[r] \in {"ok", "500"} /\ (out'[r] = "ok" => row'[c] = "absent")
    BY <1>0, <1>6, <2>1 DEF DeleteConfirmCard, Answer, TypeOK, RequestType
  <2>3. link'[c] = "absent" /\ wallet'[c] # "active"
    BY <1>0, <1>6, <2>1 DEF DeleteConfirmCard, DeletionSafe, DeletedInOrder
  <2>4. out'[r] = "ok" => Contract!Kept(r)
    BY <1>0, <2>2, <2>3 DEF Contract!Kept, DoingOf, PartsOf
  <2> QED BY <1>0, <1>t, <2>1, <2>2, <2>4, NoEffect, RequestWorks
<1> QED BY <1>2, <1>3, <1>4, <1>5, <1>6 DEF DeleteStep

(* The NFC endpoints change no record; "ok" is said of a row that is there *)
(* or of a link that was just read.                                        *)
LEMMA NfcStepWorks ==
    ASSUME NEW r \in Requests, ContractReady, NfcStep(r)
    PROVE  Contract!Work(r)
<1> USE DEF ContractReady, RequestsReady
<1>a. pc[r] # "idle" /\ job[r].op \in {"mark", "nfc"} /\ job[r].card \in Cards /\ OthersStay(r)
  BY NfcMoves DEF ContractSafe, OpFits
<1>b. PICK c \in Cards : c = job[r].card
  BY <1>a
<1>0. pc[r] # "idle" /\ job[r].op \in {"mark", "nfc"} /\ c = job[r].card /\ OthersStay(r)
  BY <1>a, <1>b
<1>t. /\ pc' \in [Requests -> Pc] /\ out' \in [Requests -> Status] /\ pc'[r] \in Pc
  BY NfcStepType DEF TypeOK, RequestType
<1>1. CASE MarkWrite(r)
  <2>1. pc'[r] = "idle" => out'[r] = "500"
    BY <1>1 DEF MarkWrite, Goto, Answer, TypeOK, RequestType
  <2>2. wallet' = wallet /\ link' = link /\ \A d \in Cards : row'[d] = "absent" <=> row[d] = "absent"
    BY <1>1 DEF MarkWrite, TypeOK, StoreType
  <2>3. Contract!Effect(r)
    BY <2>2 DEF Contract!Effect, PartsOf
  <2> QED BY <1>0, <1>t, <2>1, <2>3, RequestWorks
<1>2. CASE MarkReload(r)
  <2>1. UNCHANGED <<wallet, link, row>>
    BY <1>2 DEF MarkReload, store
  <2>2. out'[r] \in {"ok", "500"} /\ (out'[r] = "ok" => row'[c] # "absent")
    BY <1>0, <1>2, <2>1 DEF MarkReload, Answer, TypeOK, RequestType
  <2>3. job[r].op = "mark"
    BY <1>2 DEF MarkReload, ContractSafe, OpFits
  <2>4. out'[r] = "ok" => Contract!Kept(r)
    BY <1>0, <2>2, <2>3 DEF Contract!Kept, DoingOf, PartsOf
  <2> QED BY <1>0, <1>t, <2>1, <2>2, <2>4, NoEffect, RequestWorks
<1>3. CASE NfcFindWallet(r)
  <2>1. UNCHANGED <<wallet, link, row>>
    BY <1>3 DEF NfcFindWallet, store
  <2>2. pc'[r] = "idle" => out'[r] \in {"404", "500"}
    BY <1>3 DEF NfcFindWallet, Goto, Answer, TypeOK, RequestType
  <2> QED BY <1>0, <1>t, <2>1, <2>2, NoEffect, RequestWorks
<1>4. CASE NfcGetLink(r)
  <2>1. UNCHANGED <<wallet, link, row>>
    BY <1>4 DEF NfcGetLink, store
  <2>2. /\ out'[r] \in {"ok", "502"}
        /\ out'[r] = "ok" => wallet'[c] = "active" /\ link'[c] # "absent"
    BY <1>0, <1>4, <2>1 DEF NfcGetLink, Answer, LinkFound, KeyAccepted, TypeOK, RequestType
  <2>3. job[r].op = "nfc"
    BY <1>4 DEF NfcGetLink, ContractSafe, OpFits
  <2>4. out'[r] = "ok" => Contract!Kept(r)
    BY <1>0, <2>2, <2>3 DEF Contract!Kept, DoingOf, PartsOf
  <2> QED BY <1>0, <1>t, <2>1, <2>2, <2>4, NoEffect, RequestWorks
<1> QED BY <1>1, <1>2, <1>3, <1>4 DEF NfcStep

(* A request that arrives asks, or is turned away with a failure.          *)
LEMMA RequestAsks ==
    ASSUME NEW r \in Requests, TypeOK, NEW op \in Contract!Operations, NEW a, NEW c \in Cards \cup {None},
           NEW w, NEW p \in Pc, NEW status \in Status, Arrive(r, op, a, c, w, p, status),
           \/ /\ p # "idle"
              /\ op = "issue" => c \in Cards /\ PartsOf(c) = {}
              /\ op # "bulk" => c \in Cards
           \/ p = "idle" /\ status \notin {"none", "ok", "crashed"}
    PROVE  Contract!Ask(r)
<1> USE DEF TypeOK, RequestType, Arrive
<1>1. pc[r] = "idle" /\ UNCHANGED <<wallet, link, row>>
  BY DEF store
<1>2. DoingOf(r) = "nothing"
  BY <1>1 DEF DoingOf
<1>3. [q \in Requests |-> job[q].card]' = [[q \in Requests |-> job[q].card] EXCEPT ![r] = c]
  OBVIOUS
<1>4. CASE p # "idle"
  <2>1. [q \in Requests |-> DoingOf(q)]' = [[q \in Requests |-> DoingOf(q)] EXCEPT ![r] = op]
    BY <1>4 DEF DoingOf
  <2>2. [q \in Requests |-> AnswerOf(q)]' = [[q \in Requests |-> AnswerOf(q)] EXCEPT ![r] = "none"]
    BY <1>4 DEF AnswerOf
  <2> QED BY <1>1, <1>2, <1>3, <1>4, <2>1, <2>2, RecordsKept DEF Contract!Ask, Contract!Operations
<1>5. CASE p = "idle"
  <2>1. UNCHANGED [q \in Requests |-> DoingOf(q)]
    BY <1>1, <1>5 DEF DoingOf
  <2>2. [q \in Requests |-> AnswerOf(q)]' = [[q \in Requests |-> AnswerOf(q)] EXCEPT ![r] = "failed"]
    BY <1>5 DEF AnswerOf
  <2> QED BY <1>1, <1>2, <1>3, <2>1, <2>2, RecordsKept DEF Contract!Ask, Contract!Operations
<1> QED BY <1>4, <1>5

(* A request that arrives is one that is asked of the contract.            *)
LEMMA ClientAsks ==
    ASSUME NEW r \in Requests, ContractReady, Client(r)
    PROVE  Contract!Ask(r)
<1> USE RequestAsks DEF ContractReady, RequestsReady, Admit, TurnAway, Contract!Operations,
        Pc, IssuePc, DeletePc, OtherPc, Status
<1>0. \A c \in Cards : Fresh(c) => PartsOf(c) = {}
  BY DEF Fresh, PartsOf, DeletionSafe, WalletFirst
<1>1. CASE IssueStart(r)
  BY <1>0, <1>1 DEF IssueStart
<1>2. CASE SetStart(r)
  BY <1>2 DEF SetStart
<1>3. CASE BulkStart(r)
  BY <1>3 DEF BulkStart
<1>4. CASE MarkStart(r)
  BY <1>4 DEF MarkStart
<1>5. CASE NfcStart(r)
  BY <1>5 DEF NfcStart
<1>6. ASSUME NEW a \in Accounts, NEW c \in Cards, DeleteStart(r, a, c) PROVE Contract!Ask(r)
  BY <1>6 DEF DeleteStart
<1> QED BY <1>1, <1>2, <1>3, <1>4, <1>5, <1>6 DEF Client

(* A crash stops every request; the owner changes a link behind the        *)
(* extension's back; an edit of its other fields and a switch of Withdraw  *)
(* are nothing to the contract.                                            *)
LEMMA StutterStep ==
    ASSUME TypeOK, UNCHANGED <<wallet, link, row, pc, job, out>>
    PROVE  UNCHANGED Contract!vars
<1>1. UNCHANGED [q \in Requests |-> DoingOf(q)] /\ UNCHANGED [q \in Requests |-> AnswerOf(q)]
  BY DEF DoingOf, AnswerOf
<1> QED BY <1>1, RecordsKept DEF Contract!vars

(* A crash stops every request, and other steps are the world's.           *)
LEMMA EnvironmentAllowed ==
    ASSUME ContractReady, Environment, "drop_wallet" \notin External
    PROVE  Contract!Stop \/ Contract!Outside \/ UNCHANGED Contract!vars
<1> USE DEF ContractReady, RequestsReady
<1>1. CASE Crash
  <2>1. UNCHANGED <<wallet, link, row>> /\ UNCHANGED [q \in Requests |-> job[q].card]
    BY <1>1 DEF Crash, store
  <2>2. [q \in Requests |-> DoingOf(q)]' = [q \in Requests |-> "nothing"]
    BY <1>1 DEF Crash, DoingOf
  <2>3. UNCHANGED [q \in Requests |-> AnswerOf(q)]
    BY <1>1 DEF Crash, AnswerOf
  <2> QED BY <2>1, <2>2, <2>3, RecordsKept DEF Contract!Stop
<1>2. CASE SwitchWithdraw
  BY <1>2, StutterStep DEF SwitchWithdraw, store, request
<1>3. ASSUME NEW c \in Cards, ExternalLink(c)
      PROVE  Contract!Outside \/ UNCHANGED Contract!vars
  <2>1. LinkFound(c) /\ UNCHANGED <<wallet, row, pc, job, out>>
    BY <1>3 DEF ExternalLink, request
  <2>2. "wallet" \in PartsOf(c) /\ "link" \in PartsOf(c)
    BY <2>1 DEF LinkFound, KeyAccepted, PartsOf
  <2>3. /\ UNCHANGED [q \in Requests |-> DoingOf(q)]
        /\ UNCHANGED [q \in Requests |-> AnswerOf(q)]
        /\ UNCHANGED [q \in Requests |-> job[q].card]
    BY <2>1 DEF DoingOf, AnswerOf
  <2>4. CASE link' = link
    BY <2>1, <2>4, StutterStep
  <2>5. CASE \E v \in {"on", "off"} : link' = [link EXCEPT ![c] = v]
    <3>1. Contract!Sets(c)
      BY <2>1, <2>5, LinkSet DEF Contract!Sets
    <3> QED BY <2>2, <2>3, <3>1 DEF Contract!Outside
  <2>6. CASE link' = [link EXCEPT ![c] = "absent"]
    <3>1. OthersKeep(c) /\ PartsOf(c)' = PartsOf(c) \ {"link"} /\ link'[c] # "on"
      BY <2>1, <2>6 DEF OthersKeep, PartsOf, TypeOK, StoreType
    <3>2. Contract!Loses(c, "link")
      BY <3>1, RecordLost
    <3> QED BY <2>2, <2>3, <3>2 DEF Contract!Outside
  <2> QED BY <1>3, <2>4, <2>5, <2>6 DEF ExternalLink
<1>4. ASSUME NEW c \in Cards, ExternalDropWallet(c) PROVE FALSE
  BY <1>4 DEF ExternalDropWallet
<1> QED BY <1>1, <1>2, <1>3, <1>4 DEF Environment

(* The preissued cards are complete; nobody has asked for anything yet.    *)
LEMMA ContractInit == Init => Contract!Init
<1> SUFFICES ASSUME Init PROVE Contract!Init
    OBVIOUS
<1>1. \A c \in Cards :
        PartsOf(c) = IF link[c] = "on" THEN {"wallet", "link", "card"} ELSE {}
  BY DEF Init, PartsOf
<1>2. [c \in Cards |-> PartsOf(c)] \in [Cards -> {{}, {"wallet", "link", "card"}}]
  BY <1>1
<1>3. {c \in Cards : link[c] = "on"}
        = {c \in Cards : [d \in Cards |-> PartsOf(d)][c] = {"wallet", "link", "card"}}
  BY <1>1
<1>4. [q \in Requests |-> DoingOf(q)] = [q \in Requests |-> "nothing"]
  BY DEF Init, DoingOf
<1>5. [q \in Requests |-> job[q].card] \in [Requests -> {None}]
  BY DEF Init
<1>6. [q \in Requests |-> AnswerOf(q)] = [q \in Requests |-> "none"]
  BY DEF Init, AnswerOf
<1> QED BY <1>2, <1>3, <1>4, <1>5, <1>6 DEF Contract!Init, Contract!Parts

(* Every step is one of the contract, or one that it does not see.         *)
LEMMA ContractStep ==
    ASSUME "drop_wallet" \notin External
    PROVE  ContractReady /\ [Next]_vars => [Contract!Next]_Contract!vars
<1> SUFFICES ASSUME ContractReady, [Next]_vars
             PROVE  Contract!Next \/ UNCHANGED Contract!vars
    OBVIOUS
<1>1. CASE UNCHANGED vars
  BY <1>1, StutterStep DEF ContractReady, RequestsReady, vars, store, request
<1>2. ASSUME NEW r \in Requests, Client(r) \/ Handler(r) PROVE Contract!Next
  BY <1>2, ClientAsks, IssueStepWorks, UpdateStepWorks, DeleteStepWorks, NfcStepWorks
     DEF Handler, Contract!Next
<1>3. CASE Environment
  BY <1>3, EnvironmentAllowed DEF Contract!Next
<1> QED BY <1>1, <1>2, <1>3 DEF Next

(* The contract holds of the calls of the handlers, whatever fails and     *)
(* however they interleave: whatever a step does to a card is what one of  *)
(* the requests was asked for, in the order the records need, and an "ok"  *)
(* is said of records that are so at that moment.                          *)
THEOREM Implements ==
    ASSUME "drop_wallet" \notin External
    PROVE  Spec => ImplementsContract
<1>1. ContractReady /\ [Next]_vars => ContractReady'
  BY ContractReadyStep
<1>2. ContractReady /\ [Next]_vars => [Contract!Next]_Contract!vars
  BY ContractStep
<1> QED BY <1>1, <1>2, ContractReadyInit, ContractInit, PTL
        DEF Spec, ImplementsContract, Contract!Spec

-----------------------------------------------------------------------------
(* The life of a card.  First, whose steps change which cards are made.    *)

(* A step that moves no issue between building and not, keeps which        *)
(* wallets there are and only begins issues on cards without one.          *)
LEMMA MadeKept ==
    ASSUME \A d \in Cards : wallet'[d] = "none" <=> wallet[d] = "none",
           \A q \in Requests :
              \/ pc[q] \in Building /\ pc'[q] \in Building /\ job'[q] = job[q]
              \/ pc[q] \notin Building /\ pc'[q] \notin Building
              \/ pc[q] \notin Building /\ pc'[q] \in Building /\ wallet[job'[q].card] = "none"
    PROVE  UNCHANGED Made
<1>1. ASSUME NEW d \in Cards, wallet[d] # "none" PROVE BeingMade(d)' <=> BeingMade(d)
  BY <1>1 DEF BeingMade
<1> QED BY <1>1 DEF Made

(* No record comes or goes; issues may end.                                *)
LEMMA LifeRests ==
    ASSUME \A d \in Cards : PartsOf(d)' = PartsOf(d), NEW S \in SUBSET Cards, Made' = Made \cup S
    PROVE  Life!LifeNext
<1>1. UNCHANGED [d \in Cards |-> PartsOf(d)]
  OBVIOUS
<1> QED BY <1>1 DEF Life!LifeNext, Life!Abandoned

(* No record comes or goes, and no issue ends.                             *)
LEMMA LifeStutters ==
    ASSUME \A d \in Cards : PartsOf(d)' = PartsOf(d), UNCHANGED Made
    PROVE  Life!LifeNext
<1>1. {} \in SUBSET Cards /\ Made' = Made \cup {}
  OBVIOUS
<1> QED BY <1>1, LifeRests

(* What happens to one card is a step of its life: it may give up being    *)
(* made, lose a record, or get one while it is made.                       *)
LEMMA LifeOfOne ==
    ASSUME NEW c \in Cards, \A d \in Cards \ {c} : PartsOf(d)' = PartsOf(d),
           Made' \in {Made, Made \cup {c}},
           \/ PartsOf(c)' = PartsOf(c)
           \/ /\ \E p \in PartsOf(c) : PartsOf(c)' = PartsOf(c) \ {p}
              /\ Made' = Made
           \/ /\ c \notin Made
              /\ \E p \in {"wallet", "link", "card"} \ PartsOf(c) :
                    /\ PartsOf(c)' = PartsOf(c) \cup {p}
                    /\ p = "link" => "wallet" \in PartsOf(c)
                    /\ p = "card" => c \in Made'
    PROVE  Life!LifeNext
<1> DEFINE parts == [d \in Cards |-> PartsOf(d)]
<1>1. CASE PartsOf(c)' = PartsOf(c)
  <2>1. \A d \in Cards : PartsOf(d)' = PartsOf(d)
    BY <1>1
  <2>2. PICK S \in SUBSET Cards : Made' = Made \cup S
    BY DEF Made
  <2> QED BY <2>1, <2>2, LifeRests
<1>2. ASSUME NEW p \in PartsOf(c), PartsOf(c)' = PartsOf(c) \ {p}, Made' = Made
      PROVE  Life!LifeNext
  <2>1. p \in parts[c] /\ parts' = [parts EXCEPT ![c] = @ \ {p}]
    BY <1>2
  <2> QED BY <1>2, <2>1 DEF Life!LifeNext, Life!Loses
<1>3. ASSUME c \notin Made, NEW p \in {"wallet", "link", "card"} \ PartsOf(c),
             PartsOf(c)' = PartsOf(c) \cup {p},
             p = "link" => "wallet" \in PartsOf(c),
             p = "card" => c \in Made'
      PROVE  Life!LifeNext
  <2>1. p \in {"wallet", "link", "card"} \ parts[c] /\ parts' = [parts EXCEPT ![c] = @ \cup {p}]
    BY <1>3
  <2>2. p = "link" => "wallet" \in parts[c]
    BY <1>3
  <2>3. \/ Made' = Made \cup {c}
        \/ p # "card" /\ UNCHANGED Made
    BY <1>3
  <2> QED BY <1>3, <2>1, <2>2, <2>3 DEF Life!LifeNext, Life!Builds, Life!Parts, Life!HasWallet
<1> QED BY <1>1, <1>2, <1>3

(* An issue that moves on: nobody else builds on its card, so it is made   *)
(* when the issue no longer builds.                                        *)
LEMMA IssueMade ==
    ASSUME NEW r \in Requests, RequestsReady, IssueStep(r), NEW c \in Cards, c = job[r].card,
           pc[r] \in Building
    PROVE  /\ c \notin Made
           /\ Made' = IF pc'[r] \notin Building /\ wallet'[c] # "none" THEN Made \cup {c} ELSE Made
<1>1. /\ OthersStay(r) /\ \A d \in Cards \ {c} : wallet'[d] = wallet[d]
      /\ pc'[r] \in {"idle"} \cup IssuePc
  BY IssueMoves
<1>2. \A d \in Cards \ {c} : BeingMade(d)' <=> BeingMade(d)
  BY <1>1 DEF OthersStay, BeingMade
<1>3. BeingMade(c)
  BY DEF BeingMade
<1>4. \A q \in Requests \ {r} : ~(pc[q] \in Building /\ job[q].card = c)
  BY DEF RequestsReady, IssuesApart, OneIssuer, Building, IssuePc
<1>5. BeingMade(c)' <=> pc'[r] \in Building
  BY <1>1, <1>4 DEF OthersStay, BeingMade
<1> QED BY <1>1, <1>2, <1>3, <1>5 DEF Made

(* A step of an issue builds on its card, gives up or takes back.          *)
LEMMA IssueStepLives ==
    ASSUME NEW r \in Requests, RequestsReady, IssueStep(r)
    PROVE  Life!LifeNext
<1> USE DEF RequestsReady, TypeOK, StoreType, RequestType
<1>1. PICK c \in Cards : c = job[r].card
  BY IssueMoves
<1>2. /\ OthersStay(r) /\ pc[r] \in IssuePc
      /\ \A d \in Cards \ {c} : wallet'[d] = wallet[d] /\ link'[d] = link[d] /\ row'[d] = row[d]
  BY <1>1, IssueMoves
<1>3. \A d \in Cards \ {c} : PartsOf(d)' = PartsOf(d)
  BY <1>2 DEF PartsOf
<1>4. CASE pc[r] \in Building
  <2>1. /\ c \notin Made
        /\ Made' = IF pc'[r] \notin Building /\ wallet'[c] # "none" THEN Made \cup {c} ELSE Made
    BY <1>1, <1>4, IssueMade
  <2>2. /\ row[c] = "absent"
        /\ pc[r] = "createWallet" <=> wallet[c] = "none"
        /\ pc[r] # "insertCard" => link[c] = "absent"
    BY <1>1, <1>4 DEF IssuesApart, BuiltSoFar
  <2>3. CASE IssueCreateWallet(r)
    <3>1. /\ "wallet" \notin PartsOf(c)
          /\ PartsOf(c)' \in {PartsOf(c), PartsOf(c) \cup {"wallet"}}
      BY <1>1, <2>2, <2>3 DEF IssueCreateWallet, PartsOf
    <3> QED BY <1>3, <2>1, <3>1, LifeOfOne
  <2>4. CASE IssueCreateLink(r)
    <3>1. \/ PartsOf(c)' = PartsOf(c)
          \/ /\ "link" \notin PartsOf(c) /\ "wallet" \in PartsOf(c)
             /\ PartsOf(c)' = PartsOf(c) \cup {"link"}
      BY <1>1, <2>2, <2>4 DEF IssueCreateLink, PartsOf, KeyAccepted
    <3> QED BY <1>3, <2>1, <3>1, LifeOfOne
  <2>5. CASE IssueInsertCard(r)
    <3>1. \/ PartsOf(c)' = PartsOf(c)
          \/ "card" \notin PartsOf(c) /\ PartsOf(c)' = PartsOf(c) \cup {"card"}
      BY <1>1, <2>2, <2>5 DEF IssueInsertCard, PartsOf
    <3>2. pc'[r] \notin Building /\ wallet'[c] # "none"
      BY <2>2, <2>5 DEF IssueInsertCard, Goto, Undo, Building
    <3> QED BY <1>3, <2>1, <3>1, <3>2, LifeOfOne
  <2> QED BY <1>4, <2>3, <2>4, <2>5
          DEF IssueStep, IssueLoadCard, IssueUndoCard, IssueUndoLink, IssueUndoWallet, UndoStep, Building
<1>5. CASE pc[r] \notin Building
  <2>1. pc'[r] \notin Building
    BY <1>5 DEF IssueStep, IssueCreateWallet, IssueCreateLink, IssueInsertCard, IssueLoadCard,
       IssueUndoCard, IssueUndoLink, IssueUndoWallet, UndoStep, Undo, Answer, Building
  <2>2. \A d \in Cards : BeingMade(d)' <=> BeingMade(d)
    BY <1>2, <1>5, <2>1 DEF OthersStay, BeingMade
  <2>3. Made' = IF wallet'[c] # "none" /\ ~BeingMade(c) THEN Made \cup {c} ELSE Made \ {c}
    BY <1>2, <2>2 DEF Made
  <2>4. wallet[c] # "none" => wallet'[c] # "none"
    BY <1>1, <1>5 DEF IssueStep, IssueCreateWallet, IssueCreateLink, IssueInsertCard, IssueLoadCard,
       IssueUndoCard, IssueUndoLink, IssueUndoWallet, Building, store
  <2>5. Made' \in {Made, Made \cup {c}} /\ (wallet[c] # "none" => Made' = Made)
    BY <2>3, <2>4 DEF Made
  <2>6. /\ PartsOf(c)' \in {PartsOf(c), PartsOf(c) \ {"wallet"}, PartsOf(c) \ {"link"}, PartsOf(c) \ {"card"}}
        /\ wallet[c] = "none" => PartsOf(c) = {}
    BY <1>1, <1>5 DEF IssueStep, IssueCreateWallet, IssueCreateLink, IssueInsertCard, IssueLoadCard,
       IssueUndoCard, IssueUndoLink, IssueUndoWallet, Building, store, PartsOf, IssuesApart, WalletFirst
  <2>7. CASE PartsOf(c)' = PartsOf(c)
    BY <1>3, <2>5, <2>7, LifeOfOne
  <2>8. CASE PartsOf(c)' # PartsOf(c)
    <3>1. PICK p \in {"wallet", "link", "card"} : PartsOf(c)' = PartsOf(c) \ {p}
      BY <2>6, <2>8
    <3>2. p \in PartsOf(c)
      BY <2>8, <3>1
    <3>3. Made' = Made
      BY <2>5, <2>6, <3>2
    <3> QED BY <1>3, <3>1, <3>2, <3>3, LifeOfOne
  <2> QED BY <2>7, <2>8
<1> QED BY <1>4, <1>5

(* A handler of another request takes at most one record away.             *)
LEMMA OtherStepLives ==
    ASSUME NEW r \in Requests, RequestsReady, UpdateStep(r) \/ DeleteStep(r) \/ NfcStep(r)
    PROVE  Life!LifeNext
<1> USE DEF RequestsReady, TypeOK, StoreType, RequestType
<1>1. UNCHANGED Made
  <2>1. pc[r] \notin Building /\ pc'[r] \notin Building /\ OthersStay(r)
    BY UpdateMoves, DeleteMoves, NfcMoves DEF Building, DeletePc
  <2>2. \A d \in Cards : wallet'[d] = "none" <=> wallet[d] = "none"
    BY UpdateMoves, DeleteMoves, NfcMoves
  <2> QED BY <2>1, <2>2, MadeKept DEF OthersStay
<1>2. ASSUME \A d \in Cards : PartsOf(d)' = PartsOf(d) PROVE Life!LifeNext
  BY <1>1, <1>2, LifeStutters
<1>3. ASSUME NEW c \in Cards, NEW p, \A d \in Cards \ {c} : PartsOf(d)' = PartsOf(d),
             PartsOf(c)' = PartsOf(c) \ {p}
      PROVE  Life!LifeNext
  <2>1. CASE p \in PartsOf(c)
    BY <1>1, <1>3, <2>1, LifeOfOne
  <2>2. CASE p \notin PartsOf(c)
    BY <1>2, <1>3, <2>2
  <2> QED BY <2>1, <2>2
<1>4. CASE NfcStep(r)
  BY <1>2, <1>4 DEF PartsOf, NfcStep, MarkWrite, MarkReload, NfcFindWallet, NfcGetLink, store
<1>5. CASE UpdateStep(r)
  <2>1. UNCHANGED <<wallet, row>> /\ \A d \in Cards : link'[d] # "absent" => link[d] # "absent"
    BY <1>5, UpdateMoves
  <2>2. \A d \in Cards : link[d] # "absent" => link'[d] # "absent"
    <3>1. CASE SetFindWallet(r) \/ BulkSnapshot(r) \/ UpdateDone(r)
      BY <3>1 DEF SetFindWallet, BulkSnapshot, UpdateDone, store
    <3>2. ASSUME NEW c \in Cards, UpdateGet(r, c)
          PROVE  \A d \in Cards : link[d] # "absent" => link'[d] # "absent"
      BY <3>2 DEF UpdateGet, store
    <3>3. ASSUME NEW c \in Cards, UpdatePut(r, c)
          PROVE  \A d \in Cards : link[d] # "absent" => link'[d] # "absent"
      <4>1. job[r].want \in {"on", "off"}
        BY DEF Job
      <4> QED BY <3>3, <4>1 DEF UpdatePut, Write
    <3> QED BY <1>5, <3>1, <3>2, <3>3 DEF UpdateStep
  <2> QED BY <1>2, <2>1, <2>2 DEF PartsOf
<1>6. CASE DeleteStep(r)
  <2>1. PICK c \in Cards : c = job[r].card
    BY <1>6, DeleteMoves
  <2>2. \A d \in Cards \ {c} : PartsOf(d)' = PartsOf(d)
    BY <1>6, <2>1, DeleteMoves DEF PartsOf
  <2>3. PartsOf(c)' \in {PartsOf(c), PartsOf(c) \ {"wallet"}, PartsOf(c) \ {"link"}, PartsOf(c) \ {"card"}}
    <3>1. CASE DeleteFindWallet(r) \/ DeleteProbeLink(r) \/ DeleteConfirmWallet(r) \/ DeleteConfirmCard(r)
      BY <3>1 DEF DeleteFindWallet, DeleteProbeLink, DeleteConfirmWallet, DeleteConfirmCard, store, PartsOf
    <3>2. CASE DeleteDropLink(r)
      BY <2>1, <3>2 DEF DeleteDropLink, PartsOf
    <3>3. CASE DeleteDropWallet(r)
      BY <2>1, <3>3 DEF DeleteDropWallet, PartsOf
    <3>4. CASE DeleteDropCard(r)
      BY <2>1, <3>4 DEF DeleteDropCard, PartsOf
    <3> QED BY <1>6, <3>1, <3>2, <3>3, <3>4 DEF DeleteStep
  <2> QED BY <1>2, <1>3, <2>2, <2>3
<1> QED BY <1>4, <1>5, <1>6

(* Asking changes no card; a crash ends all issues under way; on other     *)
(* pages records only go.                                                  *)
LEMMA OutsideLives ==
    ASSUME RequestsReady, Environment \/ \E r \in Requests : Client(r)
    PROVE  Life!LifeNext
<1> USE DEF RequestsReady, TypeOK, StoreType, RequestType
<1>1. ASSUME UNCHANGED <<wallet, link, row>>, NEW S \in SUBSET Cards, Made' = Made \cup S
      PROVE  Life!LifeNext
  <2>1. \A d \in Cards : PartsOf(d)' = PartsOf(d)
    BY <1>1 DEF PartsOf
  <2> QED BY <1>1, <2>1, LifeRests
<1>2. ASSUME NEW r \in Requests, Client(r) PROVE Life!LifeNext
  <2>1. /\ UNCHANGED store /\ pc[r] = "idle"
        /\ pc'[r] \in Building => pc'[r] = "createWallet"
        /\ \A q \in Requests \ {r} : pc'[q] = pc[q] /\ job'[q] = job[q]
    BY <1>2, ClientMoves DEF Building
  <2>2. pc'[r] = "createWallet" => wallet[job'[r].card] = "none"
    BY <1>2, ClientMoves DEF IssueStart, TurnAway, Admit, Arrive, Fresh
  <2>3. \A q \in Requests :
              \/ pc[q] \in Building /\ pc'[q] \in Building /\ job'[q] = job[q]
              \/ pc[q] \notin Building /\ pc'[q] \notin Building
              \/ pc[q] \notin Building /\ pc'[q] \in Building /\ wallet[job'[q].card] = "none"
    BY <2>1, <2>2 DEF Building
  <2>4. UNCHANGED Made
    BY <2>1, <2>3, MadeKept DEF store
  <2> QED BY <2>1, <2>4, LifeStutters DEF store, PartsOf
<1>3. CASE Crash
  <2>1. UNCHANGED <<wallet, link, row>> /\ Made' = {d \in Cards : wallet[d] # "none"}
    BY <1>3 DEF Crash, store, Made, BeingMade, Building
  <2>2. PICK S \in SUBSET Cards : Made' = Made \cup S
    BY <2>1 DEF Made
  <2> QED BY <1>1, <2>1, <2>2
<1>4. CASE SwitchWithdraw
  <2>1. UNCHANGED <<wallet, link, row, pc, job>>
    BY <1>4 DEF SwitchWithdraw, store, request
  <2>2. UNCHANGED Made
    BY <2>1 DEF Made, BeingMade
  <2> QED BY <2>1, <2>2, LifeStutters DEF PartsOf
<1>5. ASSUME NEW c \in Cards, ExternalLink(c) \/ ExternalDropWallet(c) PROVE Life!LifeNext
  <2>1. UNCHANGED Made
    BY <1>5 DEF ExternalLink, ExternalDropWallet, request, Made, BeingMade
  <2>2. \A d \in Cards \ {c} : PartsOf(d)' = PartsOf(d)
    BY <1>5 DEF ExternalLink, ExternalDropWallet, PartsOf
  <2>3. \/ PartsOf(c)' = PartsOf(c)
        \/ "wallet" \in PartsOf(c) /\ PartsOf(c)' = PartsOf(c) \ {"wallet"}
        \/ "link" \in PartsOf(c) /\ PartsOf(c)' = PartsOf(c) \ {"link"}
    BY <1>5 DEF ExternalLink, ExternalDropWallet, LinkFound, PartsOf
  <2> QED BY <2>1, <2>2, <2>3, LifeOfOne
<1> QED BY <1>2, <1>3, <1>4, <1>5 DEF Environment

(* Every card lives as those who only read it take for granted, for any    *)
(* number of cards and requests, any faults, and whatever is done on other *)
(* pages: what PublicLookup and Terminal are proved from.                  *)
THEOREM CardsLive == Spec => ImplementsLife
<1>1. Init => Life!LifeInit
  <2> SUFFICES ASSUME Init PROVE Life!LifeInit
      OBVIOUS
  <2>1. \A c \in Cards : PartsOf(c) = IF c \in Preissued THEN {"wallet", "link", "card"} ELSE {}
    BY DEF Init, PartsOf
  <2>2. \A c \in Cards : ~BeingMade(c) /\ (wallet[c] # "none" <=> c \in Preissued)
    BY DEF Init, BeingMade, Building
  <2> QED BY <2>1, <2>2 DEF Made, Life!LifeInit, Life!Complete, Life!Parts
<1>2. RequestsReady /\ [Next]_vars => [Life!LifeNext]_<<[c \in Cards |-> PartsOf(c)], Made>>
  <2> SUFFICES ASSUME RequestsReady, [Next]_vars
               PROVE  Life!LifeNext \/ UNCHANGED <<[c \in Cards |-> PartsOf(c)], Made>>
      OBVIOUS
  <2>1. CASE UNCHANGED vars
    BY <2>1 DEF vars, store, request, PartsOf, Made, BeingMade
  <2>2. CASE Next
    BY <2>2, IssueStepLives, OtherStepLives, OutsideLives DEF Next, Handler
  <2> QED BY <2>1, <2>2
<1> QED BY <1>1, <1>2, RequestsReadyInit, RequestsReadyStep, PTL DEF Spec, ImplementsLife, Life!LifeSpec

-----------------------------------------------------------------------------
(* Rows: no single fault strands one.                                      *)

(* Faults are only counted up.                                             *)
LEMMA SpendGrows ==
    ASSUME NEW f, TypeOK, Spend(f)
    PROVE  faults' >= faults /\ (f # "ok" => faults' = faults + 1)
BY DEF TypeOK, Spend

(* A step in which no row appears, no wallet is purged and no undo moves.  *)
LEMMA RowsFrame ==
    ASSUME ContractReady, RowsUndone, faults' \in Nat, faults' >= faults,
           \A c \in Cards : row'[c] = "absent" \/ row[c] # "absent",
           \A c \in Cards : wallet'[c] = "purged" => wallet[c] = "purged",
           \A q \in Requests : pc'[q] \in UndoPc => pc'[q] = pc[q] /\ job'[q] = job[q]
    PROVE  RowsUndone'
<1> USE DEF ContractReady, RequestsReady, TypeOK, UndoPc
<1>1. \A q \in Requests : pc[q] \in UndoPc => job[q].card \in Cards
  BY DEF DeletionSafe, PcFitsJob, IssuePc
<1>2. \A q \in Requests :
          /\ pc'[q] = "undoCard" => faults' >= 1 \/ row'[job'[q].card] = "absent"
          /\ pc'[q] \in {"undoLink", "undoWallet"} => faults' >= 2 \/ row'[job'[q].card] = "absent"
  BY <1>1 DEF RowsUndone
<1>3. \A c \in Cards : wallet'[c] = "purged" => faults' >= 2 \/ row'[c] = "absent"
  BY DEF RowsUndone
<1> QED BY <1>2, <1>3 DEF RowsUndone

(* Every step of an issue is a call that may fail.                         *)
LEMMA IssueSpends ==
    ASSUME NEW r \in Requests, IssueStep(r)
    PROVE  \E f : Spend(f)
BY Zenon DEF IssueStep, IssueCreateWallet, IssueCreateLink, IssueInsertCard,
       IssueLoadCard, IssueUndoCard, IssueUndoLink, IssueUndoWallet

(* The steps of an issue: its row appears before any undo of it begins, an *)
(* undo begins with a fault, and passes a row with another.                *)
LEMMA IssueStepRows ==
    ASSUME NEW r \in Requests, ContractReady, RowsUndone, IssueStep(r)
    PROVE  RowsUndone'
<1> USE DEF ContractReady, RequestsReady, TypeOK, StoreType, RequestType
<1>a. /\ job[r].card \in Cards /\ job' = job /\ pc[r] \in IssuePc
      /\ \A q \in Requests \ {r} : pc'[q] = pc[q]
      /\ \A c \in Cards \ {job[r].card} : row'[c] = row[c] /\ wallet'[c] = wallet[c]
  BY IssueMoves DEF OthersStay
<1>b. faults \in Nat /\ faults' \in Nat /\ faults' >= faults
  <2>1. TypeOK /\ TypeOK'
    BY IssueStepType
  <2>2. faults \in Nat /\ faults' \in Nat
    BY <2>1, CardsAssumption DEF TypeOK
  <2>3. PICK f : Spend(f)
    BY IssueSpends
  <2> QED BY <2>1, <2>2, <2>3, SpendGrows
<1>c. \A q \in Requests : pc[q] \in UndoPc => job[q].card \in Cards
  BY DEF DeletionSafe, PcFitsJob, IssuePc, UndoPc
<1>d. \A q \in Requests \ {r} : pc[q] \in UndoPc => job[q].card # job[r].card
  BY <1>a DEF DeletionSafe, OneIssuer, IssuePc, UndoPc
<1>1. ASSUME pc'[r] = "undoCard" => faults' >= 1 \/ row'[job[r].card] = "absent",
             pc'[r] \in {"undoLink", "undoWallet"} => faults' >= 2 \/ row'[job[r].card] = "absent",
             wallet'[job[r].card] = "purged" => faults' >= 2 \/ row'[job[r].card] = "absent"
      PROVE  RowsUndone'
  <2>1. \A q \in Requests :
          /\ pc'[q] = "undoCard" => faults' >= 1 \/ row'[job'[q].card] = "absent"
          /\ pc'[q] \in {"undoLink", "undoWallet"} => faults' >= 2 \/ row'[job'[q].card] = "absent"
    <3>1. ASSUME NEW q \in Requests \ {r}, pc'[q] \in UndoPc
          PROVE  /\ pc[q] = pc'[q] /\ job'[q].card = job[q].card
                 /\ row'[job[q].card] = row[job[q].card]
      BY <1>a, <1>c, <1>d, <3>1
    <3>2. ASSUME NEW q \in Requests \ {r}
          PROVE  /\ pc'[q] = "undoCard" => faults' >= 1 \/ row'[job'[q].card] = "absent"
                 /\ pc'[q] \in {"undoLink", "undoWallet"} => faults' >= 2 \/ row'[job'[q].card] = "absent"
      BY <1>b, <3>1, <3>2 DEF RowsUndone, UndoPc
    <3> QED BY <1>a, <1>1, <3>2
  <2>2. \A c \in Cards : wallet'[c] = "purged" => faults' >= 2 \/ row'[c] = "absent"
    BY <1>a, <1>b, <1>1 DEF RowsUndone
  <2> QED BY <2>1, <2>2 DEF RowsUndone
<1>2. CASE IssueCreateWallet(r)
  BY <1>a, <1>b, <1>1, <1>2 DEF IssueCreateWallet, Goto, Answer, RowsUndone
<1>3. CASE IssueCreateLink(r)
  <2>1. row[job[r].card] = "absent"
    BY <1>3 DEF IssueCreateLink, DeletionSafe, BuiltInOrder, BuiltSoFar, Building
  <2> QED BY <1>a, <1>b, <1>1, <1>3, <2>1 DEF IssueCreateLink, Goto, Undo
<1>4. CASE IssueInsertCard(r)
  <2>1. wallet'[job[r].card] = "active"
    BY <1>4 DEF IssueInsertCard, ContractSafe, BuiltOnWallet
  <2>2. PICK f \in Outcomes :
            Spend(f) /\ IF f = "ok" THEN Goto(r, "loadCard") ELSE Undo(r, "undoCard", "500")
    BY <1>4 DEF IssueInsertCard
  <2>3. pc'[r] = "undoCard" => f # "ok"
    BY <2>2 DEF Goto
  <2>4. /\ pc'[r] \in {"loadCard", "undoCard"}
        /\ pc'[r] = "undoCard" => faults' >= 1
    BY <1>b, <2>2, <2>3, SpendGrows DEF Goto, Undo
  <2> QED BY <1>a, <1>1, <1>4, <2>1, <2>4 DEF IssueInsertCard
<1>5. CASE IssueLoadCard(r)
  <2>1. \/ pc'[r] = "idle"
        \/ pc'[r] = "undoCard" /\ (faults' >= 1 \/ row[job[r].card] = "absent")
    BY <1>b, <1>5, SpendGrows DEF IssueLoadCard, Answer, Undo
  <2> QED BY <1>a, <1>b, <1>1, <1>5, <2>1 DEF IssueLoadCard, store, RowsUndone
<1>6. CASE IssueUndoCard(r)
  <2>1. /\ pc'[r] = "undoLink"
        /\ row'[job[r].card] = "absent" \/ (faults' = faults + 1 /\ row' = row)
    BY <1>a, <1>6, SpendGrows DEF IssueUndoCard, UndoStep, Applied
  <2>2. faults >= 1 \/ row[job[r].card] = "absent"
    BY <1>6 DEF IssueUndoCard, UndoStep, RowsUndone
  <2>3. row'[job[r].card] = "absent" \/ row' = row
    BY <2>1
  <2> QED BY <1>a, <1>b, <1>1, <1>6, <2>1, <2>2, <2>3 DEF IssueUndoCard, RowsUndone
<1>7. CASE IssueUndoLink(r)
  BY <1>a, <1>b, <1>1, <1>7 DEF IssueUndoLink, UndoStep, RowsUndone
<1>8. CASE IssueUndoWallet(r)
  BY <1>a, <1>b, <1>1, <1>8 DEF IssueUndoWallet, UndoStep, RowsUndone
<1> QED BY <1>2, <1>3, <1>4, <1>5, <1>6, <1>7, <1>8 DEF IssueStep

(* No other step lets a row appear, purges a wallet or moves an undo.      *)
LEMMA RowsStep ==
    ASSUME "drop_wallet" \notin External
    PROVE  ContractReady /\ RowsUndone /\ [Next]_vars => RowsUndone'
<1> SUFFICES ASSUME ContractReady, RowsUndone, [Next]_vars PROVE RowsUndone'
    OBVIOUS
<1> USE RowsFrame, SpendGrows DEF UndoPc
<1>t. TypeOK /\ TypeOK' /\ faults \in Nat /\ faults' \in Nat
  BY TypeStep, CardsAssumption DEF ContractReady, RequestsReady, TypeOK
<1>1. CASE UNCHANGED vars
  BY <1>t, <1>1 DEF vars, store, request
<1>2. ASSUME NEW r \in Requests, Client(r) PROVE RowsUndone'
  BY <1>t, <1>2, ClientMoves DEF store
<1>3. ASSUME NEW r \in Requests, UpdateStep(r) PROVE RowsUndone'
  <2>1. faults' = faults \/ \E f \in Outcomes \cup ReadOutcomes : Spend(f)
    BY <1>3 DEF UpdateStep, SetFindWallet, BulkSnapshot, UpdateDone, UpdateGet, UpdatePut
  <2>2. faults' >= faults
    BY <1>t, <2>1
  <2> QED BY <1>t, <1>3, <2>2, UpdateMoves DEF OthersStay, ContractReady, RequestsReady
<1>4. ASSUME NEW r \in Requests, DeleteStep(r) PROVE RowsUndone'
  <2>1. \E f \in Outcomes \cup ReadOutcomes : Spend(f)
    BY <1>4 DEF DeleteStep, DeleteFindWallet, DeleteProbeLink, DeleteDropLink, DeleteDropWallet,
       DeleteConfirmWallet, DeleteDropCard, DeleteConfirmCard
  <2>2. faults' >= faults
    BY <1>t, <2>1
  <2> QED BY <1>t, <1>4, <2>2, DeleteMoves DEF OthersStay, DeletePc, ContractReady, RequestsReady
<1>5. ASSUME NEW r \in Requests, NfcStep(r) PROVE RowsUndone'
  <2>1. \E f \in Outcomes \cup ReadOutcomes : Spend(f)
    BY <1>5 DEF NfcStep, MarkWrite, MarkReload, NfcFindWallet, NfcGetLink
  <2>2. faults' >= faults
    BY <1>t, <2>1
  <2> QED BY <1>t, <1>5, <2>2, NfcMoves DEF OthersStay, ContractReady, RequestsReady
<1>6. CASE Environment
  BY <1>t, <1>6 DEF Environment, Crash, SwitchWithdraw, ExternalLink, ExternalDropWallet,
     store, request, TypeOK, RequestType
<1> QED BY <1>1, <1>2, <1>3, <1>4, <1>5, <1>6, IssueStepRows DEF Next, Handler

(* One failed call, one lost answer or one crash, wherever it strikes,     *)
(* leaves every row with a wallet its owner can delete, or with one that   *)
(* is soft-deleted after its link.                                         *)
THEOREM NoRowStranded ==
    ASSUME "drop_wallet" \notin External
    PROVE  Spec => []RowsStayDeletable
<1>1. Init => RowsUndone
  BY DEF Init, RowsUndone
<1>2. ContractReady /\ RowsUndone => RowsStayDeletable
  <2> SUFFICES ASSUME ContractReady, RowsUndone, faults <= 1, NEW c \in Cards, row[c] # "absent"
               PROVE  \/ wallet[c] = "active"
                      \/ wallet[c] = "deleted" /\ link[c] = "absent"
      BY DEF RowsStayDeletable
  <2>1. wallet[c] \in {"none", "active", "deleted", "purged"} /\ faults \in Nat
    BY CardsAssumption DEF ContractReady, RequestsReady, TypeOK, StoreType
  <2>2. wallet[c] # "none" /\ (wallet[c] = "deleted" => link[c] = "absent")
    BY DEF ContractReady, RequestsReady, DeletionSafe, WalletFirst, DeletedWalletHasNoLink
  <2>3. wallet[c] # "purged"
    BY <2>1 DEF RowsUndone
  <2> QED BY <2>1, <2>2, <2>3
<1> QED BY <1>1, <1>2, ContractReadyInit, ContractReadyStep, RowsStep, PTL DEF Spec

-----------------------------------------------------------------------------
(* The rollback report.                                                    *)

Untouched(r) == pc'[r] = pc[r] /\ job'[r] = job[r] /\ out'[r] = out[r] /\ fails'[r] = fails[r]

(* A step in which no record appears and no issue moves.                   *)
LEMMA ReportFrame ==
    ASSUME RequestsReady, ReportKept,
           \A c \in Cards : row'[c] # "absent" => row[c] # "absent",
           \A c \in Cards : link'[c] # "absent" => link[c] # "absent",
           \A c \in Cards : wallet'[c] = "active" => wallet[c] = "active",
           \A q \in Requests :
              \/ Untouched(q)
              \/ /\ pc'[q] \notin IssuePc /\ ~Failed(q)'
                 /\ \/ job'[q] = job[q]
                    \/ job'[q].op # "issue" \/ job'[q].card = None
    PROVE  ReportKept'
<1> USE DEF RequestsReady
<1>1. \A q \in Requests : pc[q] \in IssuePc => job[q].card \in Cards
  BY DEF IssuesApart, PcFitsJob
<1>2. ASSUME NEW q \in Requests, NEW r \in Requests,
             pc'[q] \in IssuePc, job'[r].op = "issue", job'[r].card = job'[q].card
      PROVE  q = r
  <2>1. Untouched(q) /\ pc[q] \in IssuePc /\ job[q].card # None
    BY <1>1, <1>2, CardsAssumption DEF Untouched
  <2>2. job'[r] = job[r]
    BY <1>2, <2>1 DEF Untouched
  <2> QED BY <1>2, <2>1, <2>2 DEF ReportKept, Untouched
<1>3. ASSUME NEW r \in Requests,
             Failed(r)' \/ pc'[r] \in {"undoLink", "undoWallet"}
      PROVE  Untouched(r) /\ job[r].card \in Cards
  <2>1. Untouched(r)
    BY <1>3 DEF IssuePc
  <2>2. Failed(r) \/ pc[r] \in IssuePc
    BY <1>3, <2>1 DEF Untouched, Failed, Answered, IssuePc
  <2> QED BY <1>1, <2>1, <2>2 DEF ReportKept, Failed
<1>4. ASSUME NEW r \in Requests
      PROVE  /\ Failed(r)' => job'[r].card \in Cards
             /\ Failed(r)' \/ pc'[r] \in {"undoLink", "undoWallet"} => CardNamed(r)'
             /\ Failed(r)' \/ pc'[r] = "undoWallet" => LinkNamed(r)'
             /\ Failed(r)' => WalletNamed(r)'
  <2> SUFFICES ASSUME Untouched(r), job[r].card \in Cards
               PROVE  /\ Failed(r)' => job'[r].card \in Cards
                      /\ Failed(r)' \/ pc'[r] \in {"undoLink", "undoWallet"} => CardNamed(r)'
                      /\ Failed(r)' \/ pc'[r] = "undoWallet" => LinkNamed(r)'
                      /\ Failed(r)' => WalletNamed(r)'
      BY <1>3
  <2> QED BY DEF ReportKept, Untouched, Failed, Answered, CardNamed, LinkNamed, WalletNamed
<1> QED BY <1>2, <1>4 DEF ReportKept, Failed, Answered

(* A step of an issue is nobody else's report; what it leaves behind is    *)
(* named in its own.                                                       *)
LEMMA ReportIssue ==
    ASSUME RequestsReady, ReportKept, NEW r \in Requests,
           pc[r] \in IssuePc, job' = job,
           \A q \in Requests \ {r} : pc'[q] = pc[q] /\ out'[q] = out[q] /\ fails'[q] = fails[q],
           \A c \in Cards \ {job[r].card} :
              row'[c] = row[c] /\ link'[c] = link[c] /\ wallet'[c] = wallet[c],
           Failed(r)' \/ pc'[r] \in {"undoLink", "undoWallet"} => CardNamed(r)',
           Failed(r)' \/ pc'[r] = "undoWallet" => LinkNamed(r)',
           Failed(r)' => WalletNamed(r)'
    PROVE  ReportKept'
<1> USE DEF RequestsReady
<1>1. \A q \in Requests : pc[q] \in IssuePc => job[q].card \in Cards /\ job[q].op = "issue"
  BY DEF IssuesApart, PcFitsJob
<1>2. \A p, q \in Requests :
        pc'[p] \in IssuePc /\ job'[q].op = "issue" /\ job'[q].card = job'[p].card => p = q
  BY DEF ReportKept
<1>3. ASSUME NEW q \in Requests \ {r}, Failed(q)' \/ pc'[q] \in {"undoLink", "undoWallet"}
      PROVE  job[q].card \in Cards /\ job[q].card # job[r].card
  <2>1. Failed(q) \/ pc[q] \in IssuePc
    BY <1>3 DEF Failed, Answered, IssuePc
  <2>2. job[q].card \in Cards /\ job[q].op = "issue"
    BY <1>1, <2>1 DEF ReportKept, Failed, Answered
  <2> QED BY <2>2 DEF ReportKept
<1>4. ASSUME NEW q \in Requests \ {r}
      PROVE  /\ Failed(q)' => job'[q].card \in Cards
             /\ Failed(q)' \/ pc'[q] \in {"undoLink", "undoWallet"} => CardNamed(q)'
             /\ Failed(q)' \/ pc'[q] = "undoWallet" => LinkNamed(q)'
             /\ Failed(q)' => WalletNamed(q)'
  BY <1>3 DEF ReportKept, Failed, Answered, CardNamed, LinkNamed, WalletNamed
<1>5. Failed(r)' => job'[r].card \in Cards
  BY <1>1
<1> QED BY <1>2, <1>4, <1>5 DEF ReportKept, Failed, Answered

(* An issue names in its answer what its undo could not remove.            *)
LEMMA IssueStepReport ==
    ASSUME NEW r \in Requests, RequestsReady, ReportKept, IssueStep(r)
    PROVE  ReportKept'
<1> USE DEF RequestsReady, TypeOK, StoreType, RequestType
<1>a. /\ pc[r] \in IssuePc /\ job' = job /\ job[r].card \in Cards
      /\ \A q \in Requests \ {r} : pc'[q] = pc[q] /\ out'[q] = out[q] /\ fails'[q] = fails[q]
      /\ \A c \in Cards \ {job[r].card} :
            row'[c] = row[c] /\ link'[c] = link[c] /\ wallet'[c] = wallet[c]
  BY IssueMoves DEF OthersStay
<1>b. Outcomes \subseteq {"ok", "refused", "lost"} /\ ("lost" \in Outcomes => "lost" \in FaultKinds)
  BY DEF Outcomes
<1>1. ASSUME pc'[r] \notin {"idle", "undoLink", "undoWallet"} PROVE ReportKept'
  BY <1>a, <1>1, ReportIssue DEF Failed, Answered
<1>2. CASE IssueCreateWallet(r)
  <2>1. link[job[r].card] = "absent" /\ row[job[r].card] = "absent"
    BY <1>a, <1>2 DEF IssueCreateWallet, IssuesApart, BuiltSoFar, WalletFirst, Building
  <2>2. CASE pc'[r] = "createLink"
    BY <1>1, <1>2, <2>2 DEF IssueCreateWallet
  <2>3. CASE pc'[r] # "createLink"
    <3>1. PICK f \in Outcomes \ {"ok"} :
              wallet' = IF Applied(f) THEN [wallet EXCEPT ![job[r].card] = "active"] ELSE wallet
      BY <1>2, <2>3 DEF IssueCreateWallet, Goto
    <3>2. pc'[r] = "idle" /\ out'[r] = "no_wallet" /\ UNCHANGED <<link, row>>
      BY <1>2, <2>3 DEF IssueCreateWallet, Goto, Answer
    <3>3. wallet'[job[r].card] = "active" => "lost" \in FaultKinds
      <4>1. wallet[job[r].card] = "none"
        BY <1>a, <1>2 DEF IssueCreateWallet, IssuesApart, BuiltSoFar, Building
      <4> QED BY <1>b, <3>1, <4>1 DEF Applied
    <3>4. \A c \in Cards \ {job[r].card} : wallet'[c] = wallet[c]
      BY <3>1
    <3> QED BY <1>a, <2>1, <3>2, <3>3, <3>4, ReportIssue DEF CardNamed, LinkNamed, WalletNamed
  <2> QED BY <2>2, <2>3
<1>3. CASE IssueCreateLink(r)
  <2>1. link[job[r].card] = "absent" /\ row[job[r].card] = "absent"
    BY <1>a, <1>3 DEF IssueCreateLink, IssuesApart, BuiltSoFar, Building
  <2>2. CASE pc'[r] = "insertCard"
    BY <1>1, <1>3, <2>2 DEF IssueCreateLink
  <2>3. CASE pc'[r] # "insertCard"
    <3>1. pc'[r] = "undoWallet" /\ out'[r] = "502" /\ UNCHANGED <<wallet, row>>
      BY <1>3, <2>3 DEF IssueCreateLink, Goto, Undo
    <3>2. link'[job[r].card] # "absent" => "lost" \in FaultKinds
      BY <1>b, <1>3, <2>1, <2>3 DEF IssueCreateLink, Goto, Applied
    <3>3. \A c \in Cards \ {job[r].card} : link'[c] = link[c]
      BY <1>3 DEF IssueCreateLink
    <3> QED BY <1>a, <2>1, <3>1, <3>2, <3>3, ReportIssue DEF Failed, Answered, CardNamed, LinkNamed
  <2> QED BY <2>2, <2>3
<1>4. CASE IssueInsertCard(r)
  <2>1. pc'[r] \in {"loadCard", "undoCard"}
    BY <1>4 DEF IssueInsertCard, Goto, Undo
  <2> QED BY <1>1, <1>4, <2>1 DEF IssueInsertCard
<1>5. CASE IssueLoadCard(r)
  <2>1. UNCHANGED <<wallet, link, row>>
    BY <1>5 DEF IssueLoadCard, store
  <2>2. pc'[r] \in {"undoCard", "idle"} /\ (pc'[r] = "idle" => out'[r] = "ok")
    BY <1>5 DEF IssueLoadCard, Answer, Undo
  <2> QED BY <1>a, <2>1, <2>2, ReportIssue DEF Failed, Answered
<1>6. CASE IssueUndoCard(r)
  <2>1. pc'[r] = "undoLink" /\ UNCHANGED <<wallet, link>>
    BY <1>6 DEF IssueUndoCard, UndoStep
  <2>2. row'[job[r].card] = "absent" \/ "card" \in fails'[r]
    BY <1>a, <1>6 DEF IssueUndoCard, UndoStep, Applied
  <2>3. \A c \in Cards \ {job[r].card} : row'[c] = row[c]
    BY <1>6 DEF IssueUndoCard
  <2> QED BY <1>a, <2>1, <2>2, <2>3, ReportIssue DEF Failed, Answered, CardNamed
<1>7. CASE IssueUndoLink(r)
  <2>1. pc'[r] = "undoWallet" /\ UNCHANGED <<wallet, row>> /\ fails[r] \subseteq fails'[r]
    BY <1>7 DEF IssueUndoLink, UndoStep
  <2>2. CardNamed(r)
    BY <1>7 DEF IssueUndoLink, UndoStep, ReportKept
  <2>3. link'[job[r].card] = "absent" \/ "withdraw" \in fails'[r]
    BY <1>a, <1>7 DEF IssueUndoLink, UndoStep, Applied, LinkFound
  <2>4. \A c \in Cards \ {job[r].card} : link'[c] = link[c]
    BY <1>7 DEF IssueUndoLink
  <2> QED BY <1>a, <2>1, <2>2, <2>3, <2>4, ReportIssue DEF Failed, Answered, CardNamed, LinkNamed
<1>8. CASE IssueUndoWallet(r)
  <2>1. /\ pc'[r] = "idle" /\ UNCHANGED <<link, row>> /\ fails[r] \subseteq fails'[r]
        /\ out'[r] = out[r]
    BY <1>8 DEF IssueUndoWallet, UndoStep
  <2>2. CardNamed(r) /\ LinkNamed(r)
    BY <1>8 DEF IssueUndoWallet, UndoStep, ReportKept
  <2>3. wallet'[job[r].card] # "active" \/ "wallet" \in fails'[r]
    BY <1>a, <1>8 DEF IssueUndoWallet, UndoStep, Applied
  <2>4. \A c \in Cards \ {job[r].card} : wallet'[c] = wallet[c]
    BY <1>8 DEF IssueUndoWallet
  <2> QED BY <1>a, <2>1, <2>2, <2>3, <2>4, ReportIssue DEF Failed, Answered, CardNamed, LinkNamed, WalletNamed
<1> QED BY <1>2, <1>3, <1>4, <1>5, <1>6, <1>7, <1>8 DEF IssueStep

(* No other step lets a record appear or moves an issue; one that is asked *)
(* for draws a card that no request is about.                              *)
LEMMA ClientReport ==
    ASSUME NEW r \in Requests, RequestsReady, ReportKept, Client(r)
    PROVE  ReportKept'
<1> USE DEF RequestsReady, TypeOK, RequestType
<1>1. ASSUME NEW op, NEW a, NEW c, NEW w, NEW p \in Pc, NEW status,
             Arrive(r, op, a, c, w, p, status),
             p \notin IssuePc,
             op # "issue" \/ c = None,
             op = "issue" => status \notin {"no_wallet", "500", "502"}
      PROVE  ReportKept'
  <2>1. UNCHANGED <<wallet, link, row>>
    BY <1>1 DEF Arrive, store
  <2>2. \A q \in Requests \ {r} : Untouched(q)
    BY <1>1 DEF Arrive, Untouched
  <2>3. /\ pc'[r] = p /\ job'[r].op = op /\ job'[r].card = c /\ out'[r] = status
    BY <1>1 DEF Arrive
  <2> QED BY <1>1, <2>1, <2>2, <2>3, ReportFrame DEF Failed, Answered
<1>2. ASSUME NEW a \in Accounts, NEW c \in Cards, Fresh(c),
             Admit(r, "issue", a, c, "on", "createWallet")
      PROVE  ReportKept'
  <2> USE DEF Admit, Arrive
  <2>1. UNCHANGED <<wallet, link, row>>
    BY <1>2 DEF store
  <2>2. \A q \in Requests \ {r} : Untouched(q) /\ job[q].card # c
    BY <1>2 DEF Untouched, Fresh
  <2>3. pc'[r] = "createWallet" /\ job'[r].card = c
    BY <1>2
  <2>4. \A p, q \in Requests :
          pc'[p] \in IssuePc /\ job'[q].op = "issue" /\ job'[q].card = job'[p].card => p = q
    BY <2>2, <2>3 DEF ReportKept, Untouched
  <2>5. ASSUME NEW q \in Requests
        PROVE  /\ Failed(q)' => job'[q].card \in Cards
               /\ Failed(q)' \/ pc'[q] \in {"undoLink", "undoWallet"} => CardNamed(q)'
               /\ Failed(q)' \/ pc'[q] = "undoWallet" => LinkNamed(q)'
               /\ Failed(q)' => WalletNamed(q)'
    <3>1. CASE q = r
      BY <2>3, <3>1 DEF Failed, Answered
    <3>2. CASE q # r
      BY <2>1, <2>2, <3>2 DEF ReportKept, Untouched, Failed, Answered, CardNamed, LinkNamed, WalletNamed
    <3> QED BY <3>1, <3>2
  <2> QED BY <2>4, <2>5 DEF ReportKept, Failed, Answered
<1>p. {"idle", "setWallet", "snapshot", "findWallet", "markCard", "nfcWallet"} \subseteq Pc \ IssuePc
  BY DEF Pc, IssuePc, DeletePc, OtherPc
<1>o. ASSUME NEW op \in {"set", "bulk", "delete", "mark", "nfc"}, NEW a, NEW c, NEW w,
             NEW p \in {"idle", "setWallet", "snapshot", "findWallet", "markCard", "nfcWallet"},
             NEW status, Arrive(r, op, a, c, w, p, status)
      PROVE  ReportKept'
  BY <1>1, <1>p, <1>o
<1>q. ASSUME NEW a \in Accounts, NEW status \in {"404", "503"},
             TurnAway(r, "issue", a, None, "on", status)
      PROVE  ReportKept'
  BY <1>1, <1>p, <1>q DEF TurnAway
<1>3. CASE IssueStart(r)
  <2>1. PICK a \in Accounts, c \in Cards :
            /\ Fresh(c)
            /\ \/ TurnAway(r, "issue", a, None, "on", "404")
               \/ TurnAway(r, "issue", a, None, "on", "503")
               \/ Admit(r, "issue", a, c, "on", "createWallet")
    BY <1>3 DEF IssueStart
  <2>2. CASE Admit(r, "issue", a, c, "on", "createWallet")
    BY <1>2, <2>1, <2>2
  <2>3. CASE \/ TurnAway(r, "issue", a, None, "on", "404")
             \/ TurnAway(r, "issue", a, None, "on", "503")
    BY <1>q, <2>3
  <2> QED BY <2>1, <2>2, <2>3
<1>4. CASE SetStart(r)
  BY <1>o, <1>4 DEF SetStart, Admit, TurnAway
<1>5. CASE BulkStart(r)
  BY <1>o, <1>5 DEF BulkStart, Admit, TurnAway
<1>6. CASE MarkStart(r)
  BY <1>o, <1>6 DEF MarkStart, Admit, TurnAway
<1>7. CASE NfcStart(r)
  BY <1>o, <1>7 DEF NfcStart, Admit, TurnAway
<1>8. ASSUME NEW a \in Accounts, NEW c \in Cards, DeleteStart(r, a, c) PROVE ReportKept'
  BY <1>o, <1>8 DEF DeleteStart, Admit, TurnAway
<1> QED BY <1>3, <1>4, <1>5, <1>6, <1>7, <1>8 DEF Client

(* No other step adds to what a failed issue left behind.                  *)
LEMMA ReportStep == RequestsReady /\ ReportKept /\ [Next]_vars => ReportKept'
<1> SUFFICES ASSUME RequestsReady, ReportKept, [Next]_vars PROVE ReportKept'
    OBVIOUS
<1> USE ReportFrame DEF RequestsReady, TypeOK, StoreType, RequestType
<1>1. CASE UNCHANGED vars
  BY <1>1 DEF vars, store, request, Untouched
<1>o. ASSUME NEW r \in Requests, job[r].op # "issue",
             pc'[r] \notin IssuePc, job' = job,
             \A q \in Requests \ {r} : pc'[q] = pc[q] /\ out'[q] = out[q] /\ fails'[q] = fails[q]
      PROVE  \A q \in Requests :
              \/ Untouched(q)
              \/ pc'[q] \notin IssuePc /\ ~Failed(q)' /\ job'[q] = job[q]
  BY <1>o DEF Untouched, Failed, Answered
<1>2. ASSUME NEW r \in Requests, UpdateStep(r) PROVE ReportKept'
  BY <1>o, <1>2, UpdateMoves DEF OthersStay, IssuePc
<1>3. ASSUME NEW r \in Requests, DeleteStep(r) PROVE ReportKept'
  <2>1. /\ job[r].op # "issue" /\ pc'[r] \notin IssuePc /\ OthersStay(r)
        /\ \A c \in Cards :
              /\ row'[c] # "absent" => row[c] # "absent"
              /\ link'[c] # "absent" => link[c] # "absent"
              /\ wallet'[c] = "active" => wallet[c] = "active"
    BY <1>3, DeleteMoves DEF IssuePc, DeletePc
  <2> QED BY <1>o, <2>1 DEF OthersStay
<1>4. ASSUME NEW r \in Requests, NfcStep(r) PROVE ReportKept'
  BY <1>o, <1>4, NfcMoves DEF OthersStay, IssuePc
<1>5. CASE Crash
  BY <1>5 DEF Crash, store, Untouched, Failed, Answered, IssuePc
<1>6. CASE SwitchWithdraw
  BY <1>6 DEF SwitchWithdraw, store, request, Untouched
<1>7. ASSUME NEW c \in Cards, ExternalLink(c) \/ ExternalDropWallet(c) PROVE ReportKept'
  <2>1. /\ UNCHANGED row
        /\ \A d \in Cards : link'[d] # "absent" => link[d] # "absent"
        /\ \A d \in Cards : wallet'[d] = "active" => wallet[d] = "active"
    BY <1>7 DEF ExternalLink, ExternalDropWallet, LinkFound
  <2>2. \A q \in Requests : Untouched(q)
    BY <1>7 DEF ExternalLink, ExternalDropWallet, request, Untouched
  <2> QED BY <2>1, <2>2
<1> QED BY <1>1, <1>2, <1>3, <1>4, <1>5, <1>6, <1>7, ClientReport, IssueStepReport
        DEF Next, Handler, Environment

(* An issue that ends in an error names every record it left behind, but   *)
(* for what its own failed call made without an answer: however many of    *)
(* its undo steps fail, and whatever other requests or the owner do        *)
(* meanwhile.                                                              *)
THEOREM LeftoversReported == Spec => []RollbackReport
<1>1. Init => ReportKept
  BY DEF Init, ReportKept, Failed, Answered, IssuePc
<1>2. ReportKept => RollbackReport
  BY DEF ReportKept, RollbackReport
<1> QED BY <1>1, <1>2, RequestsReadyInit, RequestsReadyStep, ReportStep, PTL DEF Spec

-----------------------------------------------------------------------------
(* Ownership.                                                              *)

(* Every wallet that is there keeps its account.                           *)
OwnersKept == \A c \in Cards : wallet[c] # "none" => wallet'[c] # "none" /\ owner'[c] = owner[c]

(* A wallet once made is never another account's.                          *)
LEMMA OwnersStay == RequestsReady /\ [Next]_vars => OwnersKept
<1> SUFFICES ASSUME RequestsReady, [Next]_vars PROVE OwnersKept
    OBVIOUS
<1> USE DEF RequestsReady, TypeOK, StoreType, OwnersKept
<1>0. CASE UNCHANGED <<wallet, owner>>
  BY <1>0
<1>1. CASE UNCHANGED vars
  BY <1>0, <1>1 DEF vars, store
<1>2. ASSUME NEW r \in Requests, Client(r) PROVE OwnersKept
  BY <1>0, <1>2, ClientMoves DEF store
<1>3. ASSUME NEW r \in Requests, IssueStep(r) PROVE OwnersKept
  <2>1. CASE IssueCreateWallet(r)
    <3>1. wallet[job[r].card] = "none"
      BY <2>1 DEF IssueCreateWallet, IssuesApart, BuiltSoFar, Building
    <3> QED BY <2>1, <3>1 DEF IssueCreateWallet
  <2>2. CASE IssueUndoWallet(r)
    BY <2>2 DEF IssueUndoWallet
  <2> QED BY <1>0, <1>3, <2>1, <2>2 DEF IssueStep, IssueCreateLink, IssueInsertCard, IssueLoadCard,
             IssueUndoCard, IssueUndoLink, store
<1>4. ASSUME NEW r \in Requests, UpdateStep(r) PROVE OwnersKept
  BY <1>0, <1>4, UpdateMoves
<1>5. ASSUME NEW r \in Requests, DeleteStep(r) PROVE OwnersKept
  BY <1>5, DeleteMoves
<1>6. ASSUME NEW r \in Requests, NfcStep(r) PROVE OwnersKept
  BY <1>0, <1>6, NfcMoves
<1>7. CASE Environment
  <2>1. ASSUME NEW c \in Cards, ExternalDropWallet(c) PROVE OwnersKept
    BY <2>1 DEF ExternalDropWallet
  <2> QED BY <1>0, <1>7, <2>1 DEF Environment, Crash, SwitchWithdraw, ExternalLink, store
<1> QED BY <1>1, <1>2, <1>3, <1>4, <1>5, <1>6, <1>7 DEF Next, Handler

(* A request that stays where it is goes on acting for that account.       *)
LEMMA ActsStill ==
    ASSUME ContractReady, OwnersKept, NEW q \in Requests, ActsFor(q),
           job'[q] = job[q], pc'[q] = pc[q], sub'[q] = sub[q]
    PROVE  ActsFor(q)'
<1>1. pc[q] \in IssuePc \cup DeletePc \cup {"markCard"} => job[q].card \in Cards
  BY DEF ContractReady, RequestsReady, DeletionSafe, PcFitsJob, ContractSafe, OpFits
<1> QED BY <1>1 DEF ActsFor, OwnersKept, DeletePc

(* It moves on from its check, and then only along the same card.          *)
LEMMA ActsOn ==
    ASSUME ContractReady, OwnersKept, NEW r \in Requests, ActsFor(r),
           job' = job, job[r].card \in Cards,
           pc[r] \in (IssuePc \ {"createWallet"}) \cup (DeletePc \ {"findWallet"}) \cup {"markCard"},
           pc'[r] \notin {"findWallet", "update"}
    PROVE  ActsFor(r)'
BY DEF ActsFor, OwnersKept

(* A handler goes on for the account whose ownership it checked.           *)
LEMMA HandlerActs ==
    ASSUME NEW r \in Requests, ContractReady, ActsForOwner, OwnersKept, Handler(r)
    PROVE  ActsForOwner'
<1> USE DEF ContractReady, RequestsReady, TypeOK, RequestType
<1>0. ActsFor(r)
  BY DEF ActsForOwner
<1>1. ASSUME ActsFor(r)', job' = job,
             \A q \in Requests \ {r} : pc'[q] = pc[q] /\ sub'[q] = sub[q]
      PROVE  ActsForOwner'
  BY <1>1, ActsStill DEF ActsForOwner
<1>2. CASE IssueStep(r)
  <2>a. pc[r] \in IssuePc /\ job[r].card \in Cards
    BY <1>2, IssueMoves
  <2>b. /\ job' = job /\ pc'[r] \notin {"findWallet", "update"}
        /\ \A q \in Requests \ {r} : pc'[q] = pc[q] /\ sub'[q] = sub[q]
    BY <1>2, IssueMoves DEF OthersStay, IssuePc
  <2>1. CASE pc[r] = "createWallet"
    <3>1. IssueCreateWallet(r)
      BY <1>2, <2>1 DEF IssueStep, IssueCreateWallet, IssueCreateLink, IssueInsertCard,
         IssueLoadCard, IssueUndoCard, IssueUndoLink, IssueUndoWallet, UndoStep
    <3>2. \/ pc'[r] = "idle"
          \/ /\ pc'[r] = "createLink"
             /\ wallet'[job[r].card] = "active" /\ owner'[job[r].card] = job[r].acct
      BY <2>a, <3>1 DEF IssueCreateWallet, Goto, Answer, Applied, StoreType
    <3>3. ActsFor(r)'
      BY <2>b, <3>2 DEF ActsFor, IssuePc, DeletePc
    <3> QED BY <1>1, <2>b, <3>3
  <2>2. CASE pc[r] # "createWallet"
    BY <1>0, <1>1, <2>a, <2>b, <2>2, ActsOn
  <2> QED BY <2>1, <2>2
<1>3. CASE DeleteStep(r)
  <2>a. pc[r] \in DeletePc /\ job[r].card \in Cards
    BY <1>3, DeleteMoves
  <2>b. /\ job' = job /\ pc'[r] \notin {"findWallet", "update", "createWallet"}
        /\ \A q \in Requests \ {r} : pc'[q] = pc[q] /\ sub'[q] = sub[q]
    BY <1>3, DeleteMoves DEF OthersStay, DeletePc
  <2>1. CASE pc[r] = "findWallet"
    <3>1. DeleteFindWallet(r)
      BY <1>3, <2>1 DEF DeleteStep, DeleteFindWallet, DeleteProbeLink, DeleteDropLink,
         DeleteDropWallet, DeleteConfirmWallet, DeleteDropCard, DeleteConfirmCard
    <3>2. \/ pc'[r] = "idle"
          \/ wallet[job[r].card] # "none" /\ owner[job[r].card] = job[r].acct
      BY <3>1 DEF DeleteFindWallet, Answer
    <3>3. ActsFor(r)'
      BY <2>a, <2>b, <3>2 DEF ActsFor, OwnersKept, IssuePc, DeletePc
    <3> QED BY <1>1, <2>b, <3>3
  <2>2. CASE pc[r] # "findWallet"
    BY <1>0, <1>1, <2>a, <2>b, <2>2, ActsOn
  <2> QED BY <2>1, <2>2
<1>4. CASE UpdateStep(r)
  <2>a. /\ job' = job /\ pc'[r] \in {"idle", "update"}
        /\ \A q \in Requests \ {r} : pc'[q] = pc[q] /\ sub'[q] = sub[q]
    BY <1>4, UpdateMoves DEF OthersStay
  <2>1. ASSUME \A c \in Cards : sub'[r][c] \in {"queued", "put"} =>
                   wallet[c] # "none" /\ owner[c] = job[r].acct
        PROVE  ActsForOwner'
    <3>1. ActsFor(r)'
      BY <2>a, <2>1 DEF ActsFor, OwnersKept, IssuePc, DeletePc
    <3> QED BY <1>1, <2>a, <3>1
  <2>2. CASE pc'[r] = "idle"
    <3>1. ActsFor(r)'
      BY <2>2 DEF ActsFor, IssuePc, DeletePc
    <3> QED BY <1>1, <2>a, <3>1
  <2>3. CASE pc[r] = "update" /\ pc'[r] # "idle"
    <3>1. PICK c \in Cards : UpdateGet(r, c) \/ UpdatePut(r, c)
      BY <1>4, <2>3 DEF UpdateStep, SetFindWallet, BulkSnapshot, UpdateDone, Answer
    <3>2. sub[r][c] \in {"queued", "put"} /\ \A d \in Cards \ {c} : sub'[r][d] = sub[r][d]
      BY <3>1 DEF UpdateGet, UpdatePut, Settle, UpdateType
    <3> QED BY <1>0, <2>1, <2>3, <3>2 DEF ActsFor
  <2>4. CASE pc[r] = "setWallet" /\ pc'[r] # "idle"
    <3>1. OwnWallet(r) /\ sub' = [sub EXCEPT ![r][job[r].card] = "queued"]
      BY <1>4, <2>4 DEF UpdateStep, SetFindWallet, BulkSnapshot, UpdateDone, UpdateGet, UpdatePut, Answer
    <3>2. sub[r] = NoCards("none")
      BY <2>4 DEF ContractSafe, OpFits
    <3> QED BY <2>1, <3>1, <3>2 DEF OwnWallet, NoCards, UpdateType
  <2>5. CASE pc[r] = "snapshot" /\ pc'[r] # "idle"
    <3>1. sub' = [sub EXCEPT ![r] = [c \in Cards |-> IF Owned(c, job[r].acct) THEN "queued" ELSE "none"]]
      BY <1>4, <2>5 DEF UpdateStep, SetFindWallet, BulkSnapshot, UpdateDone, UpdateGet, UpdatePut, Answer
    <3> QED BY <2>1, <3>1 DEF Owned, UpdateType
  <2>6. pc[r] \in {"update", "setWallet", "snapshot"}
    BY <1>4, UpdateMoves
  <2> QED BY <2>2, <2>3, <2>4, <2>5, <2>6
<1>5. CASE NfcStep(r)
  <2>1. /\ job' = job /\ pc'[r] \in {"idle", "reloadCard", "nfcLink"}
        /\ \A q \in Requests \ {r} : pc'[q] = pc[q] /\ sub'[q] = sub[q]
    BY <1>5, NfcMoves DEF OthersStay
  <2>2. ActsFor(r)'
    BY <2>1 DEF ActsFor, IssuePc, DeletePc
  <2> QED BY <1>1, <2>1, <2>2
<1> QED BY <1>2, <1>3, <1>4, <1>5 DEF Handler

(* A request that arrives is admitted with what its checks require.        *)
LEMMA ClientActs ==
    ASSUME NEW r \in Requests, ContractReady, ActsForOwner, OwnersKept, Client(r)
    PROVE  ActsForOwner'
<1> USE DEF ContractReady, RequestsReady, TypeOK, RequestType, UpdateType
<1>1. ASSUME NEW op, NEW a, NEW c, NEW w, NEW p, NEW status, Arrive(r, op, a, c, w, p, status),
             \/ p \in {"idle", "createWallet", "setWallet", "snapshot", "nfcWallet"}
             \/ c \in Cards /\ wallet[c] # "none" /\ p = "findWallet"
             \/ c \in Cards /\ wallet[c] # "none" /\ owner[c] = a /\ p = "markCard"
      PROVE  ActsForOwner'
  <2>1. \A q \in Requests \ {r} : pc'[q] = pc[q] /\ job'[q] = job[q] /\ sub'[q] = sub[q]
    BY <1>1 DEF Arrive
  <2>2. pc'[r] = p /\ job'[r].card = c /\ job'[r].acct = a
    BY <1>1 DEF Arrive
  <2>3. ActsFor(r)'
    BY <1>1, <2>2 DEF ActsFor, OwnersKept, IssuePc, DeletePc
  <2> QED BY <2>1, <2>3, ActsStill DEF ActsForOwner
<1> USE DEF Admit, TurnAway
<1>2. CASE IssueStart(r)
  BY <1>1, <1>2 DEF IssueStart
<1>3. CASE SetStart(r)
  BY <1>1, <1>3 DEF SetStart
<1>4. CASE BulkStart(r)
  BY <1>1, <1>4 DEF BulkStart
<1>5. CASE MarkStart(r)
  BY <1>1, <1>5 DEF MarkStart, Owned
<1>6. CASE NfcStart(r)
  BY <1>1, <1>6 DEF NfcStart
<1>7. ASSUME NEW a \in Accounts, NEW c \in Cards, DeleteStart(r, a, c) PROVE ActsForOwner'
  BY <1>1, <1>7 DEF DeleteStart
<1> QED BY <1>2, <1>3, <1>4, <1>5, <1>6, <1>7 DEF Client

(* Every step keeps the requests acting for the owners.                    *)
LEMMA ActsStep == ContractReady /\ ActsForOwner /\ [Next]_vars => ActsForOwner'
<1> SUFFICES ASSUME ContractReady, ActsForOwner, [Next]_vars PROVE ActsForOwner'
    OBVIOUS
<1>0. OwnersKept
  BY OwnersStay DEF ContractReady
<1>1. CASE UNCHANGED vars
  BY <1>0, <1>1, ActsStill DEF ActsForOwner, vars, request, update
<1>2. CASE Crash
  BY <1>2 DEF Crash, ActsForOwner, ActsFor, IssuePc, DeletePc
<1>3. CASE Environment /\ ~Crash
  BY <1>0, <1>3, ActsStill DEF ActsForOwner, Environment, SwitchWithdraw, ExternalLink,
     ExternalDropWallet, request, update
<1> QED BY <1>0, <1>1, <1>2, <1>3, ClientActs, HandlerActs DEF Next

(* A step that changes a record is one of a request that acts on the card  *)
(* for its wallet's account.                                               *)
Records(c) == <<wallet[c], link[c], settings[c], row[c]>>
Acted(c) ==
    \E r \in Requests :
        /\ <<pc[r], sub[r]>>' # <<pc[r], sub[r]>>
        /\ job[r].acct = owner'[c]
        /\ job[r].card = c \/ sub[r][c] = "put"

(* What an issue changes, it changes for the wallet's account.             *)
LEMMA IssueActed ==
    ASSUME NEW r \in Requests, ContractReady, ActsForOwner, OwnersKept, IssueStep(r),
           NEW c \in Cards, Records(c)' # Records(c)
    PROVE  Acted(c)
<1> USE DEF ContractReady, RequestsReady, TypeOK, RequestType, StoreType
<1>1. pc[r] \in IssuePc /\ job[r].card \in Cards
  BY IssueMoves
<1>2. pc'[r] # pc[r] /\ c = job[r].card
  BY IssueMoves DEF Records
<1>3. CASE pc[r] = "createWallet"
  <2>1. owner'[c] = job[r].acct
    BY <1>1, <1>2, <1>3 DEF IssueStep, IssueCreateWallet, IssueCreateLink, IssueInsertCard,
       IssueLoadCard, IssueUndoCard, IssueUndoLink, IssueUndoWallet, UndoStep, Records
  <2> QED BY <1>2, <2>1 DEF Acted
<1>4. CASE pc[r] # "createWallet"
  <2>1. owner'[c] = job[r].acct
    BY <1>1, <1>2, <1>4 DEF ActsForOwner, ActsFor, OwnersKept
  <2> QED BY <1>2, <2>1 DEF Acted
<1> QED BY <1>3, <1>4

(* The same for every handler.                                             *)
LEMMA HandlerActed ==
    ASSUME NEW r \in Requests, ContractReady, ActsForOwner, OwnersKept, Handler(r),
           NEW c \in Cards, Records(c)' # Records(c)
    PROVE  Acted(c)
<1> USE DEF ContractReady, RequestsReady, TypeOK, RequestType, StoreType
<1>1. CASE IssueStep(r)
  BY <1>1, IssueActed
<1>2. CASE UpdateStep(r)
  <2>1. PICK d \in Cards : UpdatePut(r, d)
    BY <1>2 DEF UpdateStep, SetFindWallet, BulkSnapshot, UpdateDone, UpdateGet, Records, store
  <2>2. c = d /\ sub[r][c] = "put" /\ pc[r] = "update"
    BY <2>1 DEF UpdatePut, Write, Records
  <2>3. sub'[r][c] # "put"
    BY <2>1, <2>2 DEF UpdatePut, Settle, UpdateType
  <2>4. owner'[c] = job[r].acct
    BY <2>2 DEF ActsForOwner, ActsFor, OwnersKept
  <2> QED BY <2>2, <2>3, <2>4 DEF Acted
<1>3. CASE DeleteStep(r)
  <2>1. pc[r] \in DeletePc \ {"findWallet"} /\ pc'[r] # pc[r] /\ c = job[r].card
    <3>1. pc[r] # "findWallet"
      BY <1>3 DEF DeleteStep, DeleteFindWallet, DeleteProbeLink, DeleteDropLink, DeleteDropWallet,
         DeleteConfirmWallet, DeleteDropCard, DeleteConfirmCard, Records, store
    <3> QED BY <1>3, <3>1, DeleteMoves DEF Records
  <2>2. owner'[c] = job[r].acct
    BY <2>1 DEF ActsForOwner, ActsFor, OwnersKept
  <2> QED BY <2>1, <2>2 DEF Acted
<1>4. CASE NfcStep(r)
  <2>1. pc[r] = "markCard" /\ pc'[r] # pc[r] /\ c = job[r].card
    BY <1>4, NfcMoves DEF Records
  <2>2. owner'[c] = job[r].acct
    BY <2>1 DEF ActsForOwner, ActsFor, OwnersKept
  <2> QED BY <2>1, <2>2 DEF Acted
<1> QED BY <1>1, <1>2, <1>3, <1>4 DEF Handler

(* As long as nobody works on a card's records on Withdraw's and LNbits'   *)
(* own pages, a card changes only by a step of a request of its wallet's   *)
(* account: ownership that was checked calls earlier still holds.          *)
THEOREM OwnersAct ==
    ASSUME External \subseteq {"switch"}
    PROVE  Spec => OnlyOwnersAct
<1>0. "drop_wallet" \notin External
  OBVIOUS
<1>1. Init => ActsForOwner
  BY DEF Init, ActsForOwner, ActsFor, IssuePc, DeletePc
<1>2. ASSUME ContractReady, ActsForOwner, [Next]_vars, NEW c \in Cards, Records(c)' # Records(c)
      PROVE  Acted(c)
  <2>1. ASSUME NEW r \in Requests, Client(r) PROVE FALSE
    BY <1>2, <2>1, ClientMoves DEF store, Records, ContractReady, RequestsReady
  <2>2. ~Environment
    BY <1>2 DEF Environment, Crash, SwitchWithdraw, ExternalLink, ExternalDropWallet, store, Records
  <2>3. CASE UNCHANGED vars
    BY <1>2, <2>3 DEF vars, store, Records
  <2> QED BY <1>2, <2>1, <2>2, <2>3, OwnersStay, HandlerActed DEF Next, ContractReady
<1>3. ContractReady /\ ActsForOwner /\ [Next]_vars =>
        \A c \in Cards : Records(c)' # Records(c) => Acted(c)
  BY <1>2
<1>4. ContractReady /\ [Next]_vars => ContractReady'
  BY <1>0, ContractReadyStep
<1> QED BY <1>1, <1>3, <1>4, ContractReadyInit, ActsStep, PTL DEF Spec, OnlyOwnersAct, Records, Acted

-----------------------------------------------------------------------------
(* The other fields of a link.                                             *)

(* A step that makes no link, begins no issue and reads no link, and that  *)
(* leaves the fields of the links that stay.                               *)
LEMMA ReadFrame ==
    ASSUME RequestsReady, ReadIsCurrent, OwnersKept,
           \A c \in Cards : link'[c] # "absent" => link[c] # "absent" /\ settings'[c] = settings[c],
           \A q \in Requests : pc'[q] \in {"createWallet", "createLink"} =>
              pc[q] \in {"createWallet", "createLink"} /\ job'[q] = job[q],
           \A q \in Requests, c \in Cards : sub'[q][c] = "put" =>
              sub[q][c] = "put" /\ (pc[q] = "update" => pc'[q] = "update") /\ got'[q][c] = got[q][c]
    PROVE  ReadIsCurrent'
BY DEF ReadIsCurrent, OwnersKept

(* The steps of an issue make no link that an update has read.             *)
LEMMA IssueStepRead ==
    ASSUME NEW r \in Requests, RequestsReady, ReadIsCurrent, OwnersKept, IssueStep(r)
    PROVE  ReadIsCurrent'
<1> USE DEF RequestsReady, TypeOK, StoreType, RequestType
<1>a. /\ pc[r] \in IssuePc /\ job[r].card \in Cards /\ job' = job /\ UNCHANGED <<sub, got>>
      /\ pc'[r] \notin {"createWallet", "update"} /\ (pc'[r] = "createLink" => pc[r] = "createWallet")
      /\ \A q \in Requests \ {r} : pc'[q] = pc[q]
  BY IssueMoves DEF OthersStay, IssuePc
<1>b. \A c \in Cards : sub[r][c] # "put"
  BY <1>a DEF ReadIsCurrent, IssuePc
<1>1. CASE IssueCreateLink(r)
  <2>1. \A c \in Cards \ {job[r].card} : link'[c] = link[c] /\ settings'[c] = settings[c]
    BY <1>1 DEF IssueCreateLink
  <2>2. \A q \in Requests : sub[q][job[r].card] # "put"
    BY <1>1, <1>a DEF IssueCreateLink, ReadIsCurrent
  <2> QED BY <1>a, <1>b, <2>1, <2>2 DEF ReadIsCurrent, OwnersKept
<1>2. CASE ~IssueCreateLink(r)
  <2>1. settings' = settings /\ \A c \in Cards : link'[c] # "absent" => link[c] # "absent"
    BY <1>2 DEF IssueStep, IssueCreateWallet, IssueInsertCard, IssueLoadCard, IssueUndoCard,
       IssueUndoLink, IssueUndoWallet, store
  <2> QED BY <1>a, <1>b, <2>1, ReadFrame
<1> QED BY <1>1, <1>2

(* A GET reads what the link holds, and its PUT writes the same back.      *)
LEMMA UpdateStepRead ==
    ASSUME NEW r \in Requests, RequestsReady, ReadIsCurrent, OwnersKept, UpdateStep(r)
    PROVE  /\ ReadIsCurrent'
           /\ \A c \in Cards : link'[c] # "absent" => link[c] # "absent" /\ settings'[c] = settings[c]
<1> USE DEF RequestsReady, TypeOK, StoreType, RequestType, UpdateType
<1>a. /\ job' = job /\ pc'[r] \in {"idle", "update"}
      /\ \A q \in Requests \ {r} : pc'[q] = pc[q]
  BY UpdateMoves DEF OthersStay
<1>b. \A c \in Cards : sub[r][c] = "put" => pc[r] = "update"
  BY DEF ReadIsCurrent
<1>c. \A q \in Requests \ {r} : sub'[q] = sub[q]
  BY UpdateMoves DEF OthersStay
<1>1. CASE SetFindWallet(r) \/ BulkSnapshot(r) \/ UpdateDone(r)
  <2>1. UNCHANGED <<link, settings>>
    BY <1>1 DEF SetFindWallet, BulkSnapshot, UpdateDone, store
  <2>2. \A c \in Cards : sub'[r][c] # "put"
    <3>1. CASE SetFindWallet(r)
      <4>1. \A c \in Cards : sub[r][c] # "put"
        BY <1>b, <3>1 DEF SetFindWallet
      <4>2. sub' = sub \/ sub' = [sub EXCEPT ![r][job[r].card] = "queued"]
        BY <3>1 DEF SetFindWallet
      <4>3. ASSUME NEW c \in Cards PROVE sub'[r][c] \in {sub[r][c], "queued"}
        BY <4>2
      <4> QED BY <4>1, <4>3
    <3>2. CASE BulkSnapshot(r)
      <4>1. \A c \in Cards : sub[r][c] # "put"
        BY <1>b, <3>2 DEF BulkSnapshot
      <4>2. \/ sub' = sub
            \/ sub' = [sub EXCEPT ![r] = [c \in Cards |->
                         IF Owned(c, job[r].acct) THEN "queued" ELSE "none"]]
        BY <3>2 DEF BulkSnapshot
      <4>3. ASSUME NEW c \in Cards PROVE sub'[r][c] \in {sub[r][c], "queued", "none"}
        BY <4>2
      <4> QED BY <4>1, <4>3
    <3>3. CASE UpdateDone(r)
      BY <3>3 DEF UpdateDone, update
    <3> QED BY <1>1, <3>1, <3>2, <3>3
  <2>3. got' = got
    BY <1>1 DEF SetFindWallet, BulkSnapshot, UpdateDone, update
  <2>4. \A q \in Requests, c \in Cards : sub'[q][c] = "put" =>
           q # r /\ sub'[q] = sub[q] /\ pc'[q] = pc[q] /\ got'[q][c] = got[q][c]
    BY <1>a, <1>c, <2>2, <2>3
  <2>5. \A q \in Requests : pc'[q] \in {"createWallet", "createLink"} =>
           pc[q] = pc'[q] /\ job'[q] = job[q]
    BY <1>a
  <2> QED BY <2>1, <2>4, <2>5, ReadFrame
<1>2. ASSUME NEW c \in Cards, UpdateGet(r, c)
      PROVE  ReadIsCurrent' /\ UNCHANGED <<link, settings>>
  <2>1. UNCHANGED <<link, settings, wallet, pc, job>> /\ pc[r] = "update"
    BY <1>2 DEF UpdateGet, store, request
  <2>2. CASE sub'[r][c] # "put"
    <3>1. \A q \in Requests, d \in Cards : sub'[q][d] = "put" =>
             sub[q][d] = "put" /\ got'[q][d] = got[q][d]
      <4>1. PICK result \in {"failed", "skipped"} : Settle(r, c, result)
        BY <1>2, <2>2 DEF UpdateGet
      <4> QED BY <4>1 DEF Settle
    <3> QED BY <2>1, <3>1, ReadFrame
  <2>3. CASE sub'[r][c] = "put"
    <3>1. LinkFound(c) /\ sub' = [sub EXCEPT ![r][c] = "put"] /\ got' = [got EXCEPT ![r][c] = settings[c]]
      BY <1>2, <2>3 DEF UpdateGet, Settle
    <3>2. \A q \in Requests : pc[q] \in {"createWallet", "createLink"} => job[q].card # c
      BY <3>1 DEF IssuesApart, BuiltSoFar, Building, LinkFound
    <3> QED BY <2>1, <3>1, <3>2 DEF ReadIsCurrent, LinkFound, KeyAccepted
  <2> QED BY <2>1, <2>2, <2>3
<1>3. ASSUME NEW c \in Cards, UpdatePut(r, c)
      PROVE  /\ ReadIsCurrent'
             /\ \A d \in Cards : link'[d] # "absent" => link[d] # "absent" /\ settings'[d] = settings[d]
  <2>1. sub[r][c] = "put" /\ UNCHANGED <<pc, job>>
    BY <1>3 DEF UpdatePut, request
  <2>2. \/ UNCHANGED <<link, settings>>
        \/ LinkFound(c) /\ Write(r, c)
    BY <1>3 DEF UpdatePut
  <2>3. LinkFound(c) => Stored(Sent(got[r][c])) = settings[c]
    BY <2>1, RoundTrip DEF ReadIsCurrent, LinkFound
  <2>4. \A d \in Cards : link'[d] # "absent" => link[d] # "absent" /\ settings'[d] = settings[d]
    BY <2>2, <2>3 DEF Write, LinkFound
  <2>5. \A q \in Requests, d \in Cards : sub'[q][d] = "put" =>
           sub[q][d] = "put" /\ got'[q][d] = got[q][d]
    <3>1. PICK result \in {"updated", "failed"} : Settle(r, c, result)
      BY <1>3 DEF UpdatePut
    <3> QED BY <3>1 DEF Settle
  <2> QED BY <2>1, <2>4, <2>5, ReadFrame
<1> QED BY <1>1, <1>2, <1>3 DEF UpdateStep, SetFindWallet, BulkSnapshot, UpdateDone, store

(* Deletions, the NFC endpoints, arrivals and a restart edit no link.      *)
LEMMA OtherStepRead ==
    ASSUME RequestsReady, ReadIsCurrent, OwnersKept, "edit" \notin External,
           \/ Environment \/ UNCHANGED vars
           \/ \E r \in Requests : DeleteStep(r) \/ NfcStep(r) \/ (Client(r) /\ ~IssueStart(r))
    PROVE  /\ ReadIsCurrent'
           /\ settings' = settings
<1> USE DEF RequestsReady, TypeOK, StoreType, RequestType, UpdateType
<1>1. \A q \in Requests, c \in Cards : sub[q][c] = "put" => pc[q] = "update"
  BY DEF ReadIsCurrent
<1>2. ASSUME settings' = settings,
             \A c \in Cards : link'[c] # "absent" => link[c] # "absent",
             \A q \in Requests : pc'[q] \in {"createWallet", "createLink"} =>
                pc[q] = pc'[q] /\ job'[q] = job[q],
             \A q \in Requests, c \in Cards : sub'[q][c] = "put" =>
                sub[q][c] = "put" /\ pc'[q] = pc[q] /\ got'[q][c] = got[q][c]
      PROVE  ReadIsCurrent' /\ settings' = settings
  BY <1>2, ReadFrame
<1>3. CASE UNCHANGED vars
  BY <1>2, <1>3 DEF vars, store, request, update
<1>4. CASE Crash
  BY <1>2, <1>1, <1>4 DEF Crash, store, NoCards
<1>5. CASE Environment /\ ~Crash
  BY <1>2, <1>5 DEF Environment, SwitchWithdraw, ExternalLink, ExternalDropWallet, LinkFound,
     store, request, update
<1>6. ASSUME NEW r \in Requests, DeleteStep(r) PROVE ReadIsCurrent' /\ settings' = settings
  <2>1. /\ UNCHANGED <<settings, job, sub, got>>
        /\ pc[r] \in DeletePc /\ pc'[r] \in {"idle"} \cup DeletePc
        /\ \A q \in Requests \ {r} : pc'[q] = pc[q]
        /\ \A c \in Cards : link'[c] # "absent" => link[c] # "absent"
    <3> HIDE DEF TypeOK, StoreType, RequestType, UpdateType
    <3> QED BY <1>6, DeleteMoves DEF OthersStay
  <2>2. pc[r] # "update" /\ pc'[r] \notin {"createWallet", "createLink"}
    BY <2>1 DEF DeletePc
  <2> QED BY <1>1, <1>2, <2>1, <2>2
<1>7. ASSUME NEW r \in Requests, NfcStep(r) PROVE ReadIsCurrent' /\ settings' = settings
  <2>1. /\ UNCHANGED <<link, settings, job, sub, got>>
        /\ pc[r] # "update" /\ pc'[r] \notin {"createWallet", "createLink"}
        /\ \A q \in Requests \ {r} : pc'[q] = pc[q]
    BY <1>7, NfcMoves DEF OthersStay
  <2> QED BY <1>1, <1>2, <2>1
<1>8. ASSUME NEW r \in Requests, Client(r), ~IssueStart(r) PROVE ReadIsCurrent' /\ settings' = settings
  <2>1. /\ UNCHANGED <<settings, link, got>>
        /\ pc'[r] \notin {"createWallet", "createLink"} /\ sub'[r] = NoCards("none")
        /\ \A q \in Requests \ {r} : pc'[q] = pc[q] /\ job'[q] = job[q] /\ sub'[q] = sub[q]
    BY <1>8, ClientMoves DEF store
  <2> QED BY <1>2, <2>1 DEF NoCards
<1> QED BY <1>3, <1>4, <1>5, <1>6, <1>7, <1>8

(* An issue begins with a card whose wallet does not exist, and of which   *)
(* no link can have been read.                                             *)
LEMMA IssueStartRead ==
    ASSUME NEW r \in Requests, RequestsReady, ReadIsCurrent, OwnersKept, IssueStart(r)
    PROVE  ReadIsCurrent' /\ settings' = settings
<1> USE DEF RequestsReady, TypeOK, StoreType, RequestType, UpdateType
<1>1. UNCHANGED <<wallet, link, settings, got>>
  BY ClientMoves DEF Client, store
<1>2. /\ sub'[r] = NoCards("none")
      /\ \A q \in Requests \ {r} : pc'[q] = pc[q] /\ job'[q] = job[q] /\ sub'[q] = sub[q]
  BY ClientMoves DEF Client
<1>3. /\ pc'[r] \in {"idle", "createWallet"}
      /\ pc'[r] = "createWallet" => job'[r].card \in Cards /\ wallet[job'[r].card] = "none"
  BY DEF IssueStart, Admit, TurnAway, Arrive, Fresh
<1>4. ASSUME NEW q \in Requests, NEW c \in Cards, sub'[q][c] = "put"
      PROVE  q # r /\ sub[q][c] = "put" /\ pc'[q] = pc[q]
  BY <1>2, <1>4 DEF NoCards
<1>5. ASSUME NEW q \in Requests, NEW c \in Cards, sub'[q][c] = "put"
      PROVE  /\ pc'[q] = "update" /\ wallet'[c] # "none"
             /\ \A p \in Requests : pc'[p] \in {"createWallet", "createLink"} => job'[p].card # c
             /\ link'[c] # "absent" => got'[q][c] = settings'[c]
  <2>1. /\ pc[q] = "update" /\ wallet[c] # "none"
        /\ \A p \in Requests : pc[p] \in {"createWallet", "createLink"} => job[p].card # c
        /\ link[c] # "absent" => got[q][c] = settings[c]
    BY <1>4, <1>5 DEF ReadIsCurrent
  <2>2. pc'[r] \in {"createWallet", "createLink"} => job'[r].card # c
    BY <1>2, <1>3, <2>1
  <2>3. \A p \in Requests : pc'[p] \in {"createWallet", "createLink"} => job'[p].card # c
    BY <1>2, <2>1, <2>2
  <2>4. pc'[q] = "update" /\ wallet'[c] # "none"
    BY <1>1, <1>4, <1>5, <2>1
  <2>5. link'[c] # "absent" => got'[q][c] = settings'[c]
    BY <1>1, <2>1
  <2> QED BY <2>3, <2>4, <2>5
<1> QED BY <1>1, <1>5 DEF ReadIsCurrent

(* Every step keeps what was read current while nobody edits a link.       *)
LEMMA ReadStep ==
    ASSUME "edit" \notin External
    PROVE  RequestsReady /\ ReadIsCurrent /\ [Next]_vars => ReadIsCurrent'
BY OwnersStay, IssueStartRead, IssueStepRead, UpdateStepRead, OtherStepRead DEF Next, Handler, Client

(* As long as nobody edits a link on Withdraw's own page, the limits,      *)
(* title and expiry of a link stay what they are for as long as it exists, *)
(* whatever its currency: no PUT writes back what has changed since its    *)
(* GET, and the amounts it converts come back as they were.                *)
THEOREM SettingsKept ==
    ASSUME "edit" \notin External
    PROVE  Spec => SettingsSurvive
<1>1. Init => ReadIsCurrent
  BY DEF Init, ReadIsCurrent, NoCards
<1>2. ASSUME RequestsReady, ReadIsCurrent, [Next]_vars, NEW c \in Cards,
             link[c] # "absent", link'[c] # "absent"
      PROVE  settings'[c] = settings[c]
  <2>1. ASSUME NEW r \in Requests, IssueStep(r) PROVE settings'[c] = settings[c]
    <3>1. CASE IssueCreateLink(r)
      <4>1. c # job[r].card
        BY <1>2, <3>1 DEF IssueCreateLink, RequestsReady, IssuesApart, BuiltSoFar, Building
      <4> QED BY <1>2, <3>1, <4>1 DEF IssueCreateLink, RequestsReady, TypeOK, StoreType
    <3>2. CASE ~IssueCreateLink(r)
      BY <2>1, <3>2 DEF IssueStep, IssueCreateWallet, IssueInsertCard, IssueLoadCard, IssueUndoCard,
         IssueUndoLink, IssueUndoWallet, store
    <3> QED BY <3>1, <3>2
  <2>2. ASSUME NEW r \in Requests, UpdateStep(r) PROVE settings'[c] = settings[c]
    BY <1>2, <2>2, OwnersStay, UpdateStepRead
  <2>3. ASSUME NEW r \in Requests, IssueStart(r) PROVE settings'[c] = settings[c]
    BY <1>2, <2>3, OwnersStay, IssueStartRead
  <2>4. ASSUME \/ Environment \/ UNCHANGED vars
               \/ \E r \in Requests : DeleteStep(r) \/ NfcStep(r) \/ (Client(r) /\ ~IssueStart(r))
        PROVE  settings'[c] = settings[c]
    BY <1>2, <2>4, OwnersStay, OtherStepRead
  <2> QED BY <1>2, <2>1, <2>2, <2>3, <2>4 DEF Next, Handler
<1>3. RequestsReady /\ ReadIsCurrent /\ [Next]_vars =>
        \A c \in Cards : link[c] # "absent" /\ link'[c] # "absent" => settings'[c] = settings[c]
  BY <1>2
<1>4. RequestsReady /\ ReadIsCurrent /\ [Next]_vars => ReadIsCurrent'
  BY ReadStep
<1> QED BY <1>1, <1>3, <1>4, RequestsReadyInit, RequestsReadyStep, PTL DEF Spec, SettingsSurvive

=============================================================================
