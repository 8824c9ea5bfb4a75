-------------------------- MODULE BulkTopUpProofs --------------------------
(***************************************************************************)
(* Proofs about BulkTopUp, for any set of wallets.                         *)
(***************************************************************************)
EXTENDS BulkTopUp, TLAPS

(* Types and accounts together: what the runs of the script preserve.      *)
TopUpInv == TypeOK /\ TopUpSafe

LEMMA TopUpInit == Init => TopUpInv
<1> SUFFICES ASSUME Init PROVE TopUpInv
    OBVIOUS
<1>1. TypeOK
  <2>1. dry \in BOOLEAN /\ yes \in BOOLEAN /\ agreed \in BOOLEAN
    BY Zenon DEF Init
  <2> QED BY <2>1 DEF Init, TypeOK
<1>2. LoopAccounts /\ CreditsInTurn
  BY DEF Init, LoopAccounts, CreditsInTurn
<1>3. exit # "0"
  BY DEF Init
<1> QED BY <1>1, <1>2, <1>3 DEF TopUpInv, TopUpSafe

(* A start, or a read-only call, has credited nothing yet.                 *)
LEMMA ReadsSafe ==
    ASSUME TopUpInv, NEW at, NEW next, Reads(at, next),
           <<at, next>> \in {<<"login", "verify">>, <<"verify", "account">>, <<"account", "list">>}
    PROVE  TopUpInv'
BY DEF TopUpInv, TypeOK, TopUpSafe, LoopAccounts, CreditsInTurn, Reads, Ends

(* One turn of the loop books its wallet in one of the two lists.          *)
LEMMA TurnSafe ==
    ASSUME TopUpInv, NEW w \in Wallets, TopUpWallet(w)
    PROVE  TopUpInv'
<1>1. /\ credits[w] = 0
      /\ credits' = credits \/ credits' = [credits EXCEPT ![w] = 1]
  BY DEF TopUpInv, TypeOK, TopUpSafe, LoopAccounts, CreditsInTurn, TopUpWallet, Credited
<1>2. TypeOK'
  BY <1>1 DEF TopUpInv, TypeOK, TopUpWallet
<1>3. LoopAccounts'
  BY DEF TopUpInv, TypeOK, TopUpSafe, LoopAccounts, TopUpWallet
<1>4. CreditsInTurn'
  <2>1. ASSUME NEW v \in Wallets
        PROVE  /\ credits'[v] <= 1
               /\ v \in succeeded' => credits'[v] = 1
               /\ credits'[v] = 1 => v \in succeeded' \cup failed'
    <3>1. CASE v = w
      BY <1>1, <3>1 DEF TopUpInv, TypeOK, TopUpSafe, LoopAccounts, CreditsInTurn,
         TopUpWallet, Credited
    <3>2. CASE v # w
      BY <1>1, <3>2 DEF TopUpInv, TypeOK, TopUpSafe, LoopAccounts, CreditsInTurn,
         TopUpWallet, Credited
    <3> QED BY <3>1, <3>2
  <2> QED BY <2>1 DEF TopUpInv, TopUpSafe, CreditsInTurn, TopUpWallet
<1>5. exit' # "0"
  BY DEF TopUpInv, TopUpSafe, CreditsInTurn, TopUpWallet
<1> QED BY <1>2, <1>3, <1>4, <1>5 DEF TopUpInv, TopUpSafe

(* Cutting the run short leaves at most the wallet of the PUT under way    *)
(* unreported.                                                             *)
LEMMA InterruptSafe == TopUpInv /\ Interrupt => TopUpInv'
<1> SUFFICES ASSUME TopUpInv, Interrupt PROVE TopUpInv'
    OBVIOUS
<1>1. CASE UNCHANGED credits
  BY <1>1 DEF TopUpInv, TypeOK, TopUpSafe, LoopAccounts, CreditsInTurn, Interrupt, Ends
<1>2. CASE pc = "credit" /\ \E w \in todo : Credited(w)
  <2>1. PICK w \in todo : Credited(w)
    BY <1>2
  <2>2. w \in Wallets /\ credits[w] \in Nat /\ credits[w] <= 1
    BY <2>1 DEF TopUpInv, TypeOK, TopUpSafe, CreditsInTurn
  <2>3. credits[w] # 1
    BY <1>2, <2>1, <2>2 DEF TopUpInv, TopUpSafe, LoopAccounts, CreditsInTurn
  <2>4. credits[w] = 0
    BY <2>2, <2>3
  <2>5. credits' = [credits EXCEPT ![w] = 1]
    BY <2>1, <2>4 DEF Credited
  <2>6. exit' = "interrupted" /\ pc' = "off"
    BY <1>2 DEF Interrupt, Ends
  <2>7. TypeOK'
    BY <2>2, <2>5, <2>6 DEF TopUpInv, TypeOK, Interrupt
  <2>8. LoopAccounts'
    BY <1>2, <2>6 DEF TopUpInv, TopUpSafe, LoopAccounts, Interrupt
  <2>9. CreditsInTurn'
    BY <1>2, <2>1, <2>2, <2>5, <2>6 DEF TopUpInv, TypeOK, TopUpSafe, LoopAccounts,
       CreditsInTurn, Interrupt
  <2> QED BY <2>6, <2>7, <2>8, <2>9 DEF TopUpInv, TopUpSafe
<1> QED BY <1>1, <1>2 DEF Interrupt

(* Every step keeps types and accounts.                                    *)
LEMMA TopUpStep == TopUpInv /\ [Next]_vars => TopUpInv'
<1> SUFFICES ASSUME TopUpInv, [Next]_vars PROVE TopUpInv'
    OBVIOUS
<1> USE DEF TopUpInv
<1>1. CASE UNCHANGED vars
  BY <1>1 DEF TypeOK, TopUpSafe, LoopAccounts, CreditsInTurn, vars, tool
<1>2. CASE Start
  <2>1. dry' \in BOOLEAN /\ yes' \in BOOLEAN /\ agreed' \in BOOLEAN
    BY <1>2, Zenon DEF Start
  <2>2. TypeOK'
    BY <1>2, <2>1 DEF TypeOK, Start, Ends
  <2>3. LoopAccounts' /\ CreditsInTurn' /\ exit' # "0"
    BY <1>2 DEF LoopAccounts, CreditsInTurn, Start, Ends
  <2> QED BY <2>2, <2>3 DEF TopUpSafe
<1>3. CASE Login \/ VerifySuperuser \/ GetAccount
  BY <1>3, ReadsSafe DEF Login, VerifySuperuser, GetAccount
<1>4. CASE GetMatchingWallets
  BY <1>4 DEF TypeOK, TopUpSafe, LoopAccounts, CreditsInTurn, GetMatchingWallets,
     AfterSummary, Matching, Ends
<1>5. CASE Confirm
  <2>1. agreed' \in BOOLEAN /\ (pc' = "credit" => agreed')
    BY <1>5, Zenon DEF TypeOK, Confirm, Ends
  <2>2. TypeOK'
    BY <1>5, <2>1 DEF TypeOK, Confirm, Ends
  <2>3. LoopAccounts'
    BY <1>5 DEF TopUpSafe, LoopAccounts, CreditsInTurn, Confirm, Ends
  <2>4. CreditsInTurn'
    BY <1>5, <2>1 DEF TopUpSafe, CreditsInTurn, Confirm, Ends
  <2>5. exit' # "0"
    BY <1>5 DEF TopUpSafe, CreditsInTurn, Confirm, Ends
  <2> QED BY <2>2, <2>3, <2>4, <2>5 DEF TopUpSafe
<1>6. CASE \E w \in Wallets : TopUpWallet(w)
  BY <1>6, TurnSafe
<1>7. CASE Report
  BY <1>7 DEF TypeOK, TopUpSafe, LoopAccounts, CreditsInTurn, Report, Ends
<1>8. CASE Interrupt
  BY <1>8, InterruptSafe
<1>9. CASE \E w \in Wallets : WalletChanges(w)
  BY <1>9 DEF TypeOK, TopUpSafe, LoopAccounts, CreditsInTurn, WalletChanges, tool
<1> QED
  BY <1>1, <1>2, <1>3, <1>4, <1>5, <1>6, <1>7, <1>8, <1>9 DEF Next, Step

LEMMA TopUpInvariant == Spec => []TopUpInv
BY TopUpInit, TopUpStep, PTL DEF Spec

(* However calls fail and wherever a run is cut short, its report is true, *)
(* and no wallet is credited twice.                                        *)
THEOREM TopUpReportIsTrue == Spec => []ReportIsTrue
<1>1. TopUpInv => ReportIsTrue
  BY DEF TopUpInv, TypeOK, TopUpSafe, LoopAccounts, CreditsInTurn, ReportIsTrue
<1> QED BY <1>1, TopUpInvariant, PTL

(* No balance changes in a dry run, or before the operator has agreed.     *)
THEOREM TopUpNeedsConsent == Spec => CreditsNeedConsent
<1>1. ASSUME TopUpInv, [Next]_vars, NEW w \in Wallets, credits'[w] > credits[w]
      PROVE  ~dry /\ (yes \/ agreed) /\ w \in shown
  <2>1. credits' # credits
    BY <1>1 DEF TopUpInv, TypeOK
  <2>2. pc = "credit" /\ w \in todo
    BY <1>1, <2>1 DEF TopUpInv, TypeOK, vars, tool, Next, Step, Start, Login, VerifySuperuser,
       GetAccount, Reads, GetMatchingWallets, Confirm, TopUpWallet, Credited, Report,
       Interrupt, WalletChanges
  <2>3. ~dry /\ (yes \/ agreed)
    BY <1>1, <2>2, Zenon DEF TopUpInv, TopUpSafe, CreditsInTurn
  <2>4. w \in shown
    BY <1>1, <2>2 DEF TopUpInv, TopUpSafe, LoopAccounts
  <2> QED BY <2>3, <2>4
<1>2. TopUpInv /\ [Next]_vars =>
        [\A w \in Wallets :
            credits'[w] > credits[w] => ~dry /\ (yes \/ agreed) /\ w \in shown]_vars
  BY <1>1
<1> QED BY <1>2, TopUpInvariant, PTL DEF Spec, CreditsNeedConsent

=============================================================================
