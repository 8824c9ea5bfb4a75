--------------------------- MODULE ReceiptProofs ---------------------------
(***************************************************************************)
(* Proofs about Receipt, for any sets of cards and requests, any cooldown  *)
(* and any bound on the clock.                                             *)
(***************************************************************************)
EXTENDS Receipt, TLAPS

(* The initial state is well typed.                                        *)
LEMMA ReceiptTypeInit == Init => TypeOK
BY ReceiptAssumption DEF Init, TypeOK, Times

(* What runs inside the lock keeps the types.                              *)
LEMMA HoldType ==
    ASSUME NEW p \in Requests, NEW rest \in Seq(Requests), TypeOK, Hold(p, rest)
    PROVE  TypeOK'
<1>1. job[p].card \in Cards /\ Reserved(job[p].card) \in [Cards -> Times \cup {None}]
  BY DEF TypeOK, Reserved
<1>2. lastAuto' \in [Cards -> Times \cup {None}]
  <2>1. lastAuto' = lastAuto \/ lastAuto' = Reserved(job[p].card)
    BY DEF Hold
  <2> QED BY <1>1, <2>1 DEF TypeOK
<1>3. started' \in [Cards -> Times \cup {None}]
  <2>1. started' = started \/ started' = [started EXCEPT ![job[p].card] = now]
    BY DEF Hold
  <2> QED BY <2>1 DEF TypeOK
<1>4. /\ pc' \in [Requests -> {"idle", "lookup", "wait", "send"}]
      /\ out' \in [Requests -> {"none", "printed", "suppressed", "404", "503"}]
  BY DEF TypeOK, Hold
<1>5. holder' \in Requests \cup {None} /\ waiters' = rest /\ UNCHANGED <<now, autoPrint, job>>
  BY DEF TypeOK, Hold
<1> QED BY <1>2, <1>3, <1>4, <1>5 DEF TypeOK

(* Every step keeps the types.                                             *)
LEMMA ReceiptTypeStep == TypeOK /\ [Next]_vars => TypeOK'
<1> SUFFICES ASSUME TypeOK, [Next]_vars PROVE TypeOK'
    OBVIOUS
<1>1. CASE UNCHANGED vars
  BY <1>1 DEF TypeOK, vars
<1>2. CASE Tick
  BY <1>2, ReceiptAssumption DEF TypeOK, Tick, Times
<1>3. ASSUME NEW p \in Requests, Ask(p) PROVE TypeOK'
  <2>1. pc' \in [Requests -> {"idle", "lookup", "wait", "send"}]
    BY <1>3 DEF TypeOK, Ask
  <2>2. out' \in [Requests -> {"none", "printed", "suppressed", "404", "503"}]
    BY <1>3 DEF TypeOK, Ask
  <2>3. job' \in [Requests -> [card : Cards, mode : {"auto", "manual"}]]
    <3>1. CASE UNCHANGED job
      BY <3>1 DEF TypeOK
    <3>2. CASE \E c \in Cards, mode \in {"auto", "manual"} :
                  job' = [job EXCEPT ![p] = [card |-> c, mode |-> mode]]
      BY <3>2 DEF TypeOK
    <3> QED BY <1>3, <3>1, <3>2 DEF Ask
  <2> QED BY <1>3, <2>1, <2>2, <2>3 DEF TypeOK, Ask
<1>4. ASSUME NEW p \in Requests, NotFound(p) PROVE TypeOK'
  BY <1>4 DEF TypeOK, NotFound
<1>5. ASSUME NEW p \in Requests, Found(p) PROVE TypeOK'
  <2>1. CASE waiters = <<>> /\ Hold(p, <<>>)
    BY <2>1, HoldType DEF TypeOK
  <2>2. CASE waiters' = Append(waiters, p)
    BY <1>5, <2>2, HoldType DEF TypeOK, Found
  <2> QED BY <1>5, <2>1, <2>2 DEF Found
<1>6. ASSUME NEW p \in Requests, Woken(p) PROVE TypeOK'
  <2>1. Tail(waiters) \in Seq(Requests)
    BY <1>6 DEF TypeOK, Woken
  <2> QED BY <1>6, <2>1, HoldType DEF Woken
<1>7. ASSUME NEW p \in Requests, Sent(p) PROVE TypeOK'
  BY <1>7 DEF TypeOK, Sent
<1> QED BY <1>1, <1>2, <1>3, <1>4, <1>5, <1>6, <1>7 DEF Next, Handler

(* The lock is free and no card was ever printed.                          *)
LEMMA PrinterSafeInit == Init => PrinterSafe
BY ReceiptAssumption DEF Init, PrinterSafe, HolderSends, TableRemembers, Unanswered

(* What runs inside the lock keeps the invariant.                          *)
LEMMA HoldSafe ==
    ASSUME NEW p \in Requests, NEW rest, TypeOK, PrinterSafe, Hold(p, rest), pc[p] # "idle"
    PROVE  PrinterSafe'
<1> DEFINE c == job[p].card
<1>1. c \in Cards
  BY DEF TypeOK
<1>2. HolderSends' /\ Unanswered'
  BY ReceiptAssumption DEF TypeOK, PrinterSafe, HolderSends, Unanswered, Hold, LockFree
<1>3. CASE UNCHANGED <<lastAuto, started>>
  BY <1>2, <1>3 DEF PrinterSafe, TableRemembers, Hold
<1>4. CASE started' = [started EXCEPT ![c] = now] /\ lastAuto' = Reserved(c)
  <2> SUFFICES ASSUME NEW d \in Cards
               PROVE  /\ started'[d] # None => started'[d] <= now'
                      /\ \/ lastAuto'[d] = started'[d]
                         \/ /\ lastAuto'[d] = None /\ started'[d] # None
                            /\ started'[d] + Cooldown <= now'
    BY <1>2 DEF PrinterSafe, TableRemembers
  <2>1. now' = now /\ now \in Nat /\ Cooldown \in Nat
    BY ReceiptAssumption DEF TypeOK, Times, Hold
  <2>2. CASE d = c
    BY <1>4, <2>1, <2>2 DEF TypeOK, Reserved
  <2>3. CASE d # c
    <3>1. started'[d] = started[d] /\ lastAuto'[d] = IF Recent(d) THEN lastAuto[d] ELSE None
      BY <1>4, <2>3 DEF TypeOK, Reserved
    <3>2. started[d] = None \/ started[d] \in Nat
      BY DEF TypeOK, Times
    <3> QED BY <2>1, <3>1, <3>2 DEF PrinterSafe, TableRemembers, Recent
  <2> QED BY <2>2, <2>3
<1> QED BY <1>3, <1>4 DEF Hold

(* The invariant is inductive, given the types.                            *)
LEMMA PrinterSafeStep == TypeOK /\ PrinterSafe /\ [Next]_vars => PrinterSafe'
<1> SUFFICES ASSUME TypeOK, PrinterSafe, [Next]_vars PROVE PrinterSafe'
    OBVIOUS
<1> USE DEF PrinterSafe
<1>1. CASE UNCHANGED vars
  BY <1>1 DEF HolderSends, TableRemembers, Unanswered, vars
<1>2. CASE Tick
  <2>1. HolderSends' /\ Unanswered'
    BY <1>2 DEF HolderSends, Unanswered, Tick
  <2>2. TableRemembers'
    BY <1>2, ReceiptAssumption DEF TypeOK, Times, TableRemembers, Tick
  <2> QED BY <2>1, <2>2
<1>3. ASSUME NEW p \in Requests, Ask(p) PROVE PrinterSafe'
  BY <1>3 DEF TypeOK, HolderSends, TableRemembers, Unanswered, Ask
<1>4. ASSUME NEW p \in Requests, NotFound(p) PROVE PrinterSafe'
  BY <1>4 DEF TypeOK, HolderSends, TableRemembers, Unanswered, NotFound
<1>5. ASSUME NEW p \in Requests, Found(p) PROVE PrinterSafe'
  <2>1. CASE waiters = <<>> /\ Hold(p, <<>>)
    BY <1>5, <2>1, HoldSafe DEF Found
  <2>2. CASE waiters' = Append(waiters, p) /\ UNCHANGED <<now, lastAuto, holder, out, started>>
             /\ pc' = [pc EXCEPT ![p] = "wait"]
    BY <1>5, <2>2 DEF TypeOK, HolderSends, TableRemembers, Unanswered, Found
  <2> QED BY <1>5, <2>1, <2>2 DEF Found
<1>6. ASSUME NEW p \in Requests, Woken(p) PROVE PrinterSafe'
  BY <1>6, HoldSafe DEF Woken
<1>7. ASSUME NEW p \in Requests, Sent(p) PROVE PrinterSafe'
  BY <1>7, ReceiptAssumption DEF TypeOK, HolderSends, TableRemembers, Unanswered, Sent
<1> QED BY <1>1, <1>2, <1>3, <1>4, <1>5, <1>6, <1>7 DEF Next, Handler

(* Types and invariant together, as the theorems below use them.           *)
LEMMA PrinterInvariant == Spec => [](TypeOK /\ PrinterSafe)
BY ReceiptTypeInit, ReceiptTypeStep, PrinterSafeInit, PrinterSafeStep, PTL DEF Spec

(* The desk of the printer never leaves its types: whoever asks, whoever   *)
(* is woken, and whatever is cut short, the lock is held by a request or   *)
(* by nobody, and the times kept are times of the clock.                   *)
THEOREM ReceiptTypes == Spec => []TypeOK
BY ReceiptTypeInit, ReceiptTypeStep, PTL DEF Spec

(* No two receipts are ever sent at once, whoever asks and whatever fails. *)
THEOREM PrinterNotShared == Spec => []OneReceiptAtATime
<1>1. TypeOK /\ PrinterSafe => OneReceiptAtATime
  BY DEF PrinterSafe, HolderSends, OneReceiptAtATime
<1> QED BY <1>1, PrinterInvariant, PTL

(* Two automatic receipts of one card begin at least a cooldown apart.     *)
THEOREM AutoPrintsAreSpaced == Spec => AutoPrintsSpaced
<1>1. ASSUME TypeOK, PrinterSafe, [Next]_vars, NEW c \in Cards, started'[c] # started[c]
      PROVE  started[c] = None \/ started'[c] >= started[c] + Cooldown
  <2>1. PICK p \in Requests :
          /\ c = job[p].card /\ ~Recent(c)
          /\ started' = [started EXCEPT ![c] = now]
    BY <1>1 DEF TypeOK, vars, Next, Tick, Ask, Handler, NotFound, Found, Woken, Sent, Hold
  <2>2. started'[c] = now /\ (started[c] = None \/ started[c] \in Nat) /\ now \in Nat
    BY <1>1, <2>1 DEF TypeOK, Times
  <2> QED BY <1>1, <2>1, <2>2, ReceiptAssumption DEF PrinterSafe, TableRemembers, Recent
<1>2. TypeOK /\ PrinterSafe /\ [Next]_vars =>
        [\A c \in Cards :
            started'[c] # started[c] =>
                started[c] = None \/ started'[c] >= started[c] + Cooldown]_vars
  BY <1>1
<1> QED BY <1>2, PrinterInvariant, PTL DEF Spec, AutoPrintsSpaced

(* A receipt is suppressed only for one that began less than a cooldown    *)
(* ago.                                                                    *)
THEOREM NoReceiptIsLost == Spec => SuppressedForAReason
<1>1. ASSUME TypeOK, PrinterSafe, [Next]_vars, NEW p \in Requests,
             pc[p] # "idle", out'[p] = "suppressed"
      PROVE  started[job[p].card] # None /\ now < started[job[p].card] + Cooldown
  <2>1. job[p].card \in Cards /\ Recent(job[p].card)
    BY <1>1 DEF TypeOK, PrinterSafe, Unanswered, vars, Next, Tick, Ask, Handler,
       NotFound, Found, Woken, Sent, Hold
  <2> QED BY <1>1, <2>1 DEF PrinterSafe, TableRemembers, Recent
<1>2. TypeOK /\ PrinterSafe /\ [Next]_vars =>
        [\A p \in Requests :
            pc[p] # "idle" /\ out'[p] = "suppressed" =>
                LET c == job[p].card IN
                started[c] # None /\ now < started[c] + Cooldown]_vars
  BY <1>1
<1> QED BY <1>2, PrinterInvariant, PTL DEF Spec, SuppressedForAReason

=============================================================================
