--------------------------- MODULE MigrationProofs ---------------------------
(***************************************************************************)
(* The import is faithful for any rows of the two tables, any number of    *)
(* runs cut off and any use of Giftcard in between.                        *)
(***************************************************************************)
EXTENDS Migration, TLAPS

ImportInv == TypeOK /\ ImportSafe

(* A run that ends early leaves what it has added, or nothing of it.       *)
LEMMA AbortedSafe ==
  ASSUME ImportInv, run # "none", Aborted
  PROVE  ImportSafe'
<1>1. /\ run' = "none" /\ (target' = target \/ target' = before)
      /\ UNCHANGED <<rows, before, imported, recorded>>
  BY DEF Aborted
<1>2. ~imported /\ ~recorded
  BY DEF ImportInv, ImportSafe
<1>3. ImportFaithful'
  BY <1>1, <1>2 DEF ImportInv, ImportSafe, ImportFaithful
<1> QED BY <1>1, <1>2, <1>3 DEF ImportSafe

LEMMA AbortedTyped ==
  ASSUME TypeOK, Aborted, crashes' \in Nat
  PROVE  TypeOK'
  BY DEF Aborted, admin_vars, TypeOK

LEMMA InsertKeeps ==
  ASSUME ImportInv, NEW id \in Ids, Insert(id)
  PROVE  ImportInv'
<1> USE DEF ImportInv
<1>1. /\ run = "inserting" /\ id \in todo
      /\ target' = [target EXCEPT ![id] = IF @ = None THEN rows[id] ELSE @]
      /\ todo' = todo \ {id}
      /\ UNCHANGED <<admin_vars, recorded, run, rows, before, imported, crashes>>
  BY DEF Insert, Upcoming, Inserts
<1>2. TypeOK'
  BY <1>1 DEF TypeOK, Rows, admin_vars
<1>3. ~imported /\ ~recorded
  BY <1>1 DEF ImportSafe
<1>4. \A i \in Ids : target'[i] = IF i = id /\ target[i] = None THEN rows[i] ELSE target[i]
  BY <1>1 DEF TypeOK, Rows
<1>5. ImportFaithful'
  BY <1>1, <1>3, <1>4 DEF ImportSafe, ImportFaithful
<1>6. \A i \in Ids : rows[i] # None => i \in todo' \/ target'[i] # None
  BY <1>1, <1>4 DEF ImportSafe
<1> QED BY <1>1, <1>2, <1>3, <1>5, <1>6 DEF ImportSafe

(* The reads; nothing has been inserted so far.                            *)
LEMMA ReadsKeep ==
  ASSUME ImportInv, StartImport \/ ReadProfiles \/ ReadCards
  PROVE  ImportInv'
<1> USE DEF ImportInv
<1>1. TypeOK'
  BY DEF StartImport, ReadProfiles, ReadCards, TypeOK, Rows, NoRows, admin_vars
<1>2. UNCHANGED <<target, recorded, imported>> /\ target = before' /\ ~recorded /\ ~imported
  BY DEF StartImport, Begins, ReadProfiles, ReadCards, ImportSafe
<1>3. ImportFaithful'
  BY <1>2 DEF ImportFaithful
<1>4. run' = "inserting" => \A id \in Ids : rows'[id] # None => id \in todo'
  BY DEF StartImport, ReadProfiles, ReadCards
<1> QED BY <1>1, <1>2, <1>3, <1>4 DEF ImportSafe

LEMMA EndsKeep ==
  ASSUME ImportInv, NothingToImport \/ Return
  PROVE  ImportInv'
<1> USE DEF ImportInv
<1>1. CASE NothingToImport
  <2>1. TypeOK'
    BY <1>1 DEF NothingToImport, TypeOK, admin_vars, run_vars
  <2>2. ImportSafe'
    BY <1>1 DEF NothingToImport, Begins, run_vars, ImportSafe, ImportFaithful
  <2> QED BY <2>1, <2>2
<1>2. CASE Return
  <2>1. TypeOK'
    BY <1>2 DEF Return, TypeOK, admin_vars
  <2>2. \A id \in Ids : rows[id] # None => target[id] # None
    BY <1>2 DEF Return, ImportSafe
  <2>3. ImportSafe'
    BY <1>2, <2>2 DEF Return, ImportSafe, ImportFaithful
  <2> QED BY <2>1, <2>3
<1> QED BY <1>1, <1>2

(* What goes on around it.                                                 *)
LEMMA AdminKeeps ==
  ASSUME ImportInv, SwitchGiftcard \/ RepairDatabase \/ GiftcardWrites \/ UNCHANGED vars
  PROVE  ImportInv'
<1> USE DEF ImportInv
<1>1. UNCHANGED <<target, recorded, run_vars, imported, crashes>>
  BY DEF SwitchGiftcard, RepairDatabase, GiftcardWrites, vars
<1>2. /\ giftcard' \in BOOLEAN /\ database' \in {"absent", "incomplete", "old", "ready"}
      /\ legacy' \in Rows /\ writes' \in Nat
  <2>1. CASE SwitchGiftcard
    BY <2>1 DEF SwitchGiftcard, TypeOK
  <2>2. CASE RepairDatabase
    BY <2>2 DEF RepairDatabase, TypeOK
  <2>3. CASE GiftcardWrites
    <3>1. legacy' \in Rows
      BY <2>3 DEF GiftcardWrites, TypeOK, Rows
    <3>0. writes \in Nat /\ writes' = writes + 1
      BY <2>3 DEF GiftcardWrites, TypeOK
    <3>2. writes' \in Nat
      BY <3>0
    <3> QED BY <2>3, <3>1, <3>2 DEF GiftcardWrites, TypeOK
  <2>4. CASE UNCHANGED vars
    BY <2>4 DEF vars, admin_vars, TypeOK
  <2> QED BY <2>1, <2>2, <2>3, <2>4
<1>3. TypeOK'
  BY <1>1, <1>2 DEF TypeOK, run_vars
<1>4. ImportSafe'
  BY <1>1 DEF ImportSafe, ImportFaithful, run_vars
<1> QED BY <1>3, <1>4

THEOREM ImportIsSafe == Spec => []ImportInv
<1>1. Init => ImportInv
  <2>1. NoRows \in Rows /\ 0 \in Nat
    BY DEF NoRows, Rows
  <2>3. Init => TypeOK
    BY <2>1 DEF Init, TypeOK
  <2>2. Init => ImportSafe
    BY DEF Init, ImportSafe, ImportFaithful
  <2> QED BY <2>2, <2>3 DEF ImportInv
<1>2. ImportInv /\ [Next]_vars => ImportInv'
  <2> SUFFICES ASSUME ImportInv, [Next]_vars PROVE ImportInv'
    OBVIOUS
  <2>1. CASE \E id \in Ids : Insert(id)
    BY <2>1, InsertKeeps
  <2>2. CASE StartImport \/ ReadProfiles \/ ReadCards
    BY <2>2, ReadsKeep
  <2>3. CASE NothingToImport \/ Return
    BY <2>3, EndsKeep
  <2>4. CASE TooOld
    BY <2>4, AbortedSafe, AbortedTyped DEF TooOld, Upcoming, ImportInv, TypeOK
  <2>5. CASE CutOff
    <3>0. crashes \in Nat /\ crashes' = crashes + 1
      BY <2>5 DEF CutOff, ImportInv, TypeOK
    <3>1. crashes' \in Nat
      BY <3>0
    <3> QED BY <2>5, <3>1, AbortedSafe, AbortedTyped DEF CutOff, ImportInv
  <2>6. CASE SwitchGiftcard \/ RepairDatabase \/ GiftcardWrites \/ UNCHANGED vars
    BY <2>6, AdminKeeps
  <2> QED BY <2>1, <2>2, <2>3, <2>4, <2>5, <2>6 DEF Next, Migrates
<1> QED BY <1>1, <1>2, PTL DEF Spec

(* No retry replaces a row, and a run that counts has left none out.       *)
THEOREM MigrationImportFaithful == Spec => []ImportFaithful
<1>1. ImportInv => ImportFaithful
  BY DEF ImportInv, ImportSafe
<1> QED BY <1>1, ImportIsSafe, PTL

=============================================================================
