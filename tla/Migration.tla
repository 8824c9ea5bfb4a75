------------------------------ MODULE Migration ------------------------------
(***************************************************************************)
(* migrations.py: m005_import_giftcard copies what the extension's former  *)
(* self, Giftcard, has stored.  LNbits runs it when it installs or starts  *)
(* the extension, records it as run once it returns, and runs it again at  *)
(* the next start when it raised or was cut off.  The connection it hands  *)
(* over may undo the statements of such a run or keep them.  Meanwhile the *)
(* administrator may switch Giftcard on, and use and upgrade it.           *)
(***************************************************************************)
EXTENDS Naturals

CONSTANTS
    Profiles, Cards,  \* ids of the rows of the two tables
    Contents,         \* what a row can hold
    None,
    MaxWrites,        \* bound on the changes Giftcard makes
    MaxCrashes        \* bound on the runs cut off

ASSUME MigrationAssumption ==
    /\ Profiles \cap Cards = {}
    /\ None \notin Contents
    /\ MaxWrites \in Nat /\ MaxCrashes \in Nat

Ids == Profiles \cup Cards
Rows == [Ids -> Contents \cup {None}]
NoRows == [id \in Ids |-> None]

VARIABLES
    giftcard,  \* Giftcard is installed and not deactivated
    database,  \* the legacy database: absent, incomplete, old (before 0.1.0), ready
    legacy,    \* its rows
    target,    \* denchi.profiles and denchi.cards
    recorded,  \* the migration counts as run
    run,       \* how far the current run is
    rows,      \* profiles and cards as it has read them
    todo,      \* the rows it has not come to
    before,    \* target as the run has found it
    imported,  \* observed: the recorded run has not returned early
    writes, crashes

run_vars == <<run, rows, todo, before>>
admin_vars == <<giftcard, database, legacy, writes>>
vars == <<admin_vars, target, recorded, run_vars, imported, crashes>>

TypeOK ==
    /\ giftcard \in BOOLEAN
    /\ database \in {"absent", "incomplete", "old", "ready"}
    /\ legacy \in Rows /\ target \in Rows /\ rows \in Rows /\ before \in Rows
    /\ recorded \in BOOLEAN /\ imported \in BOOLEAN
    /\ run \in {"none", "reading", "half read", "inserting"}
    /\ todo \subseteq Ids
    /\ writes \in Nat /\ crashes \in Nat

(* m001 to m004 have made empty tables of the form that m005 fills.        *)
Init ==
    /\ giftcard \in BOOLEAN
    /\ database \in {"absent", "incomplete", "old", "ready"}
    /\ legacy \in Rows
    /\ target = NoRows
    /\ recorded = FALSE
    /\ run = "none" /\ rows = NoRows /\ todo = {} /\ before = NoRows
    /\ imported = FALSE
    /\ writes = 0 /\ crashes = 0

-----------------------------------------------------------------------------
(* The migration.                                                          *)

Begins == ~recorded /\ run = "none"

(* There is no legacy database: m005 returns, and is not run again.        *)
NothingToImport ==
    /\ Begins /\ ~giftcard /\ database = "absent"
    /\ recorded' = TRUE
    /\ UNCHANGED <<admin_vars, target, run_vars, imported, crashes>>

(* Giftcard is inactive, and its tables are there.                         *)
StartImport ==
    /\ Begins /\ ~giftcard /\ database \in {"old", "ready"}
    /\ run' = "reading"
    /\ before' = target /\ rows' = NoRows /\ todo' = {}
    /\ UNCHANGED <<admin_vars, target, recorded, imported, crashes>>

(* One SELECT after the other.                                             *)
ReadProfiles ==
    /\ run = "reading"
    /\ run' = "half read"
    /\ rows' = [id \in Ids |-> IF id \in Profiles THEN legacy[id] ELSE None]
    /\ UNCHANGED <<admin_vars, target, recorded, todo, before, imported, crashes>>

ReadCards ==
    /\ run = "half read"
    /\ run' = "inserting"
    /\ rows' = [id \in Ids |-> IF id \in Cards THEN legacy[id] ELSE rows[id]]
    /\ todo' = {id \in Ids : rows'[id] # None}
    /\ UNCHANGED <<admin_vars, target, recorded, before, imported, crashes>>

(* Profiles come first.                                                    *)
Upcoming(id) == run = "inserting" /\ id \in todo /\ (id \in Cards => todo \cap Profiles = {})

(* A row of an older Giftcard lacks the lookup hash.                       *)
Complete(id) == id \in Cards => database # "old"

(* FAULTY: what is there is replaced.                                      *)
Replaces(id) == target' = [target EXCEPT ![id] = rows[id]]

(* FAULTY: a plain INSERT, refused when the id is there.                   *)
InsertsNew(id) == target[id] = None /\ target' = [target EXCEPT ![id] = rows[id]]

(* INSERT ... ON CONFLICT (id) DO NOTHING.                                 *)
Inserts(id) == target' = [target EXCEPT ![id] = IF @ = None THEN rows[id] ELSE @]

Insert(id) ==
    /\ Upcoming(id) /\ Complete(id)
    /\ Inserts(id)
    /\ todo' = todo \ {id}
    /\ UNCHANGED <<admin_vars, recorded, run, rows, before, imported, crashes>>

(* The run is over without having returned.                                *)
Aborted ==
    /\ run' = "none"
    /\ target' \in {target, before}
    /\ todo' = {}
    /\ UNCHANGED <<admin_vars, recorded, rows, before, imported>>

(* "Upgrade Giftcard to 0.1.0 before migration."                           *)
TooOld ==
    /\ \E id \in todo : Upcoming(id) /\ ~Complete(id)
    /\ Aborted
    /\ UNCHANGED crashes

(* The process ends, or a statement fails.                                 *)
CutOff ==
    /\ run # "none" /\ crashes < MaxCrashes
    /\ crashes' = crashes + 1
    /\ Aborted

Return ==
    /\ run = "inserting" /\ todo = {}
    /\ run' = "none"
    /\ recorded' = TRUE /\ imported' = TRUE
    /\ UNCHANGED <<admin_vars, target, rows, todo, before, crashes>>

-----------------------------------------------------------------------------
(* The administrator, and whoever uses Giftcard.                           *)

SwitchGiftcard ==
    /\ giftcard' = ~giftcard
    /\ UNCHANGED <<database, legacy, writes, target, recorded, run_vars, imported, crashes>>

(* The database is put where it belongs, restored, or upgraded.            *)
RepairDatabase ==
    /\ database # "ready" /\ run = "none"
    /\ database' = "ready"
    /\ UNCHANGED <<giftcard, legacy, writes, target, recorded, run_vars, imported, crashes>>

(* Profiles and cards come, change and go.                                 *)
GiftcardWrites ==
    /\ giftcard /\ database \in {"old", "ready"} /\ writes < MaxWrites
    /\ writes' = writes + 1
    /\ \E id \in Ids, content \in Contents \cup {None} :
          content # legacy[id] /\ legacy' = [legacy EXCEPT ![id] = content]
    /\ UNCHANGED <<giftcard, database, target, recorded, run_vars, imported, crashes>>

Migrates ==
    \/ NothingToImport \/ StartImport \/ ReadProfiles \/ ReadCards
    \/ (\E id \in Ids : Insert(id)) \/ TooOld \/ Return

Next == Migrates \/ CutOff \/ SwitchGiftcard \/ RepairDatabase \/ GiftcardWrites

Spec == Init /\ [][Next]_vars

(* LNbits is started again as long as the migration has not been run.      *)
FairSpec == Spec /\ WF_vars(Migrates)

-----------------------------------------------------------------------------
(* Through every retry: what an earlier run has left is never replaced,    *)
(* what a run adds is what Giftcard held when it was read, and a run that  *)
(* counts has left out no row of either table.                             *)
ImportFaithful ==
    /\ \A id \in Ids : target[id] = before[id] \/ (before[id] = None /\ target[id] = rows[id])
    /\ imported => \A id \in Ids : rows[id] # None => target[id] # None

(* Once Giftcard is off and its database complete, the import comes to an  *)
(* end, whatever earlier runs have left behind.                            *)
ImportCompletes == <>[](~giftcard /\ database = "ready") => <>recorded

(* The inductive invariant behind ImportFaithful: a run has inserted all   *)
(* that it has not still to do.                                            *)
ImportSafe ==
    /\ ImportFaithful
    /\ run = "inserting" => \A id \in Ids : rows[id] # None => id \in todo \/ target[id] # None
    /\ run \in {"reading", "half read"} => target = before
    /\ imported => recorded
    /\ recorded => run = "none"

=============================================================================
