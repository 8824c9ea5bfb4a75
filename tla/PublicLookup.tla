---------------------------- MODULE PublicLookup ----------------------------
(***************************************************************************)
(* get_public_lookup_with_hash of services.py: what anybody who holds a    *)
(* card can ask, as POST /public/lookup and as the first half of POST      *)
(* /public/print-receipt.  It reads a row, a wallet, a link and then the   *)
(* history of payments in batches, while the card is being issued or       *)
(* deleted, as CardLife says, and while payments arrive.                   *)
(*                                                                         *)
(* A payment is numbered by its time.  get_payments lists the successful   *)
(* ones of a wallet, newest first; one that was pending may succeed later  *)
(* and then turns up among older ones.                                     *)
(***************************************************************************)
EXTENDS CardLife, Naturals, Sequences, FiniteSets

CONSTANTS
    None,
    Limit,         \* PUBLIC_HISTORY_LIMIT
    Batch,         \* PUBLIC_HISTORY_BATCH_SIZE
    MaxPayments    \* bound on the payments of a behaviour

ASSUME LookupAssumption ==
    /\ None \notin Cards
    /\ IsFiniteSet(Cards) /\ Cards # {}
    /\ Limit \in Nat \ {0} /\ Batch \in Nat \ {0} /\ MaxPayments \in Nat

VARIABLES
    pays,          \* the payments of the card in use: its link's or another's
    lpc,           \* the next call of the lookup, or idle
    asked,         \* the card whose URI was posted
    shown,         \* history: the payments in it
    size,          \* len(history): one that turns up twice counts twice
    offset,
    out,           \* none, found, 404 or 500
    before,        \* observed: the link's payments that had succeeded when asked
    whole          \* observed: since then the card had row, wallet and link at once

lookup == <<lpc, asked, shown, size, offset, out, before, whole>>

life == <<parts, made>>

LookupTypeOK ==
    /\ parts \in [Cards -> SUBSET Parts] /\ made \subseteq Cards
    /\ pays \in Seq([own : BOOLEAN, ok : BOOLEAN])
    /\ lpc \in {"idle", "row", "wallet", "link", "history"}
    /\ asked \in Cards \cup {None}
    /\ shown \subseteq DOMAIN pays
    /\ size \in 0..Limit
    /\ offset \in Nat
    /\ out \in {"none", "found", "404", "500"}
    /\ before \subseteq DOMAIN pays
    /\ whole \in BOOLEAN

LookupInit ==
    /\ pays = <<>>
    /\ lpc = "idle" /\ asked = None /\ shown = {} /\ size = 0 /\ offset = 0 /\ out = "none"
    /\ before = {} /\ whole = FALSE

(* The answer is taken, or its reader is gone: nothing is kept.            *)
Dismiss ==
    /\ lpc' = "idle" /\ asked' = None /\ shown' = {} /\ size' = 0 /\ offset' = 0 /\ out' = "none"
    /\ before' = {} /\ whole' = FALSE

-----------------------------------------------------------------------------
CardMoves(c) ==
    /\ Builds(c) \/ Loses(c) \/ Abandoned({c})
    /\ whole' = (whole \/ (lpc # "idle" /\ c = asked /\ Complete(c)'))
    /\ UNCHANGED <<pays, lpc, asked, shown, size, offset, out, before>>

PaymentArrives ==
    /\ Len(pays) < MaxPayments
    /\ \E own \in BOOLEAN, ok \in BOOLEAN : pays' = Append(pays, [own |-> own, ok |-> ok])
    /\ UNCHANGED <<life, lookup>>

PaymentSucceeds ==
    /\ \E i \in DOMAIN pays : ~pays[i].ok /\ pays' = [pays EXCEPT ![i].ok = TRUE]
    /\ UNCHANGED <<life, lookup>>

-----------------------------------------------------------------------------
(* A URI of this host with a well-formed path; any other is a 404 at once. *)
Ask(c) ==
    /\ lpc' = "row"
    /\ asked' = c
    /\ shown' = {} /\ size' = 0 /\ offset' = 0 /\ out' = "none"
    /\ before' = {i \in DOMAIN pays : pays[i].own /\ pays[i].ok}
    /\ whole' = Complete(c)
    /\ UNCHANGED <<life, pays>>

Answer(o) ==
    /\ lpc' = "idle" /\ out' = o
    /\ UNCHANGED <<life, pays, asked, shown, size, offset, before, whole>>

Proceed(next) ==
    /\ lpc' = next
    /\ UNCHANGED <<life, pays, asked, shown, size, offset, out, before, whole>>

(* What LNbits' and the extension's databases are asked may fail.          *)
FindRow ==
    /\ lpc = "row"
    /\ \/ HasRow(asked) /\ Proceed("wallet")
       \/ ~HasRow(asked) /\ Answer("404")
       \/ Answer("500")

FindWallet ==
    /\ lpc = "wallet"
    /\ \/ HasWallet(asked) /\ Proceed("link")
       \/ ~HasWallet(asked) /\ Answer("404")
       \/ Answer("500")

(* FAULTY: the link is not checked, the row is believed.                   *)
CheckLinkLater ==
    /\ lpc = "link"
    /\ Proceed("history")

(* The link must exist and be the one the row and the hash speak of; a     *)
(* failed call is a 404 too.                                               *)
CheckLink ==
    /\ lpc = "link"
    /\ \/ HasLink(asked) /\ Proceed("history")
       \/ Answer("404")

(* The first n of S, newest first.                                         *)
Newest(S, n) == {k \in S : Cardinality({j \in S : j > k}) < n}

(* get_payments(outgoing, tag withdraw, status success, time descending).  *)
Paid == {i \in DOMAIN pays : pays[i].ok}

(* FAULTY: a batch with too few payments of this link is taken as short.   *)
ShortOfOwn(batch, entries) == Cardinality(entries) < Batch

(* Nothing is left to read after this batch.                               *)
Short(batch, entries) == Cardinality(batch) < Batch

(* One round of the loop: the link's own payments of a batch are taken, no *)
(* more than the limit; a full history or a short batch ends it.           *)
ReadHistory ==
    /\ lpc = "history"
    /\ \/ LET batch == Newest(Paid, offset + Batch) \ Newest(Paid, offset)
              entries == Newest({i \in batch : pays[i].own}, Limit - size)
          IN
          /\ shown' = shown \cup entries
          /\ size' = size + Cardinality(entries)
          /\ offset' = offset + Batch
          /\ IF size' = Limit \/ Short(batch, entries)
               THEN lpc' = "idle" /\ out' = "found"
               ELSE UNCHANGED <<lpc, out>>
          /\ UNCHANGED <<life, pays, asked, before, whole>>
       \/ Answer("404")

LookupStep == FindRow \/ FindWallet \/ CheckLink \/ ReadHistory

-----------------------------------------------------------------------------
(* The history has no gap: a payment of the card that had succeeded when   *)
(* the lookup began is in it, or the history is full and all of it is      *)
(* newer, although the batches are read by offset while payments arrive.   *)
(* (An arrival makes an entry turn up twice.)                              *)
HistoryHasNoGap ==
    out = "found" =>
        \A i \in before : i \in shown \/ (size = Limit /\ \A j \in shown : j > i)

(* A card is only shown if at one moment of the request it had its row,    *)
(* its wallet and its link: half-issued and half-deleted cards are not     *)
(* found, although the three are read one after the other.                 *)
FoundCardWasWhole == out = "found" => whole

-----------------------------------------------------------------------------
(* The inductive invariant behind both, in parts.                          *)

(* The history is begun by its first batch.                                *)
NothingReadYet ==
    lpc \in {"row", "wallet", "link"} => shown = {} /\ size = 0 /\ offset = 0

(* While the batches are read, each payment still missing lies behind the  *)
(* offset, and behind everything shown so far.                             *)
MissingLiesBehind ==
    lpc = "history" =>
        /\ size < Limit
        /\ \A i \in before \ shown :
              i \notin Newest(Paid, offset) /\ \A j \in shown : j > i

(* The payments that counted when the lookup began still do.               *)
BeforeStillPaid == \A i \in before : pays[i].own /\ pays[i].ok

(* A card with a row gets nothing any more: what is seen of it after its   *)
(* row was there together with the row.                                    *)
SeenTogether ==
    /\ lpc # "idle" => asked \in Cards /\ (Complete(asked) => whole)
    /\ lpc \in {"wallet", "link"} => asked \in made
    /\ lpc = "wallet" /\ HasWallet(asked) /\ HasLink(asked) => whole
    /\ lpc = "link" /\ HasLink(asked) => whole
    /\ lpc = "history" => whole
    /\ out = "found" => lpc = "idle"
    /\ \A c \in Cards : HasRow(c) => c \in made

LookupSafe ==
    /\ NothingReadYet
    /\ MissingLiesBehind
    /\ BeforeStillPaid
    /\ SeenTogether
    /\ HistoryHasNoGap
    /\ FoundCardWasWhole

=============================================================================
