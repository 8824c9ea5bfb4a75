--------------------------- MODULE CardRefinement ---------------------------
(***************************************************************************)
(* CardService implements CardContract: the records that exist, and each   *)
(* request as what it does until it has its answer.  It also implements    *)
(* CardLife, what those who only read the records rely on.                 *)
(***************************************************************************)
EXTENDS CardService

PartsOf(c) ==
    (IF wallet[c] = "active" THEN {"wallet"} ELSE {})
      \cup (IF link[c] # "absent" THEN {"link"} ELSE {})
      \cup (IF row[c] # "absent" THEN {"card"} ELSE {})

DoingOf(r) == IF pc[r] = "idle" THEN "nothing" ELSE job[r].op

AnswerOf(r) ==
    IF pc[r] # "idle" \/ out[r] \in {"none", "crashed"} THEN "none"
    ELSE IF out[r] = "ok" THEN "ok" ELSE "failed"

Contract == INSTANCE CardContract WITH
    parts <- [c \in Cards |-> PartsOf(c)],
    enabled <- {c \in Cards : link[c] = "on"},
    doing <- [r \in Requests |-> DoingOf(r)],
    card <- [r \in Requests |-> job[r].card],
    answer <- [r \in Requests |-> AnswerOf(r)]

(* Every step of the handlers, their faults and retries is one that        *)
(* CardContract allows, or changes nothing that it speaks of.              *)
ImplementsContract == Contract!Spec

-----------------------------------------------------------------------------
(* A card is made once its wallet is there and no issue adds to it.        *)
BeingMade(c) == \E r \in Requests : pc[r] \in Building /\ job[r].card = c
Made == {c \in Cards : wallet[c] # "none" /\ ~BeingMade(c)}

Life == INSTANCE CardLife WITH parts <- [c \in Cards |-> PartsOf(c)], made <- Made

(* Whoever reads a card record by record can rely on this: once its issue  *)
(* has inserted the row, given up or been cut off, nothing is added to a   *)
(* card again, whatever other requests, rollbacks and pages do.            *)
ImplementsLife == Life!LifeSpec

-----------------------------------------------------------------------------
(* The inductive invariants behind it and behind CardService's properties. *)

(* The calls of a request are those of what it was asked for; an update    *)
(* touches the card of its request, or any when all are to be disabled.    *)
OpFits ==
    \A r \in Requests :
        /\ pc[r] # "idle" => job[r].op = "bulk" \/ job[r].card \in Cards
        /\ pc[r] \in {"markCard", "reloadCard"} => job[r].op = "mark"
        /\ pc[r] \in {"nfcWallet", "nfcLink"} => job[r].op = "nfc"
        /\ pc[r] = "setWallet" => job[r].op = "set" /\ sub[r] = NoCards("none")
        /\ pc[r] = "snapshot" => job[r].op = "bulk" /\ job[r].want = "off"
        /\ pc[r] = "update" =>
              \/ job[r].op = "bulk" /\ job[r].want = "off"
              \/ job[r].op = "set" /\ \A c \in Cards \ {job[r].card} : sub[r][c] = "none"

(* A link or a row is only made beside an active wallet.                   *)
BuiltOnWallet ==
    \A r \in Requests : pc[r] \in {"createLink", "insertCard"} => wallet[job[r].card] = "active"

(* The error path of an issue ends in an error.                            *)
UndoPc == {"undoCard", "undoLink", "undoWallet"}
UndoAnswers == \A r \in Requests : pc[r] \in UndoPc => out[r] \in {"500", "502"}

ContractSafe == OpFits /\ BuiltOnWallet /\ UndoAnswers

(* A wallet is purged beside its row only by an undo that failed to remove *)
(* it, the second fault of its issue.                                      *)
RowsUndone ==
    /\ \A r \in Requests :
          /\ pc[r] = "undoCard" => faults >= 1 \/ row[job[r].card] = "absent"
          /\ pc[r] \in {"undoLink", "undoWallet"} => faults >= 2 \/ row[job[r].card] = "absent"
    /\ \A c \in Cards : wallet[c] = "purged" => faults >= 2 \/ row[c] = "absent"

(* What an issue draws is nobody else's issue, and what its undo has       *)
(* passed is gone or named.                                                *)
ReportKept ==
    /\ \A q, r \in Requests :
          pc[q] \in IssuePc /\ job[r].op = "issue" /\ job[r].card = job[q].card => q = r
    /\ \A r \in Requests :
          /\ Failed(r) => job[r].card \in Cards
          /\ Failed(r) \/ pc[r] \in {"undoLink", "undoWallet"} => CardNamed(r)
          /\ Failed(r) \/ pc[r] = "undoWallet" => LinkNamed(r)
          /\ Failed(r) => WalletNamed(r)

(* A request that has passed its check acts for the wallet's account.      *)
ActsFor(r) ==
    /\ pc[r] \in (IssuePc \ {"createWallet"}) \cup (DeletePc \ {"findWallet"}) \cup {"markCard"} =>
          wallet[job[r].card] # "none" /\ owner[job[r].card] = job[r].acct
    /\ pc[r] = "findWallet" => wallet[job[r].card] # "none"
    /\ pc[r] = "update" => \A c \in Cards : sub[r][c] \in {"queued", "put"} =>
          wallet[c] # "none" /\ owner[c] = job[r].acct
ActsForOwner == \A r \in Requests : ActsFor(r)

(* What a GET has read of a link is what the link holds until the PUT.     *)
ReadIsCurrent ==
    \A r \in Requests, c \in Cards :
        sub[r][c] = "put" =>
            /\ pc[r] = "update"
            /\ wallet[c] # "none"
            /\ \A q \in Requests : pc[q] \in {"createWallet", "createLink"} => job[q].card # c
            /\ link[c] # "absent" => got[r][c] = settings[c]

=============================================================================
