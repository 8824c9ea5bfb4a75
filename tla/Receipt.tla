------------------------------ MODULE Receipt ------------------------------
(***************************************************************************)
(* POST /public/print-receipt: api_print_receipt of views_api.py and       *)
(* print_receipt of receipt.py.  All requests share one printer behind an  *)
(* asyncio.Lock, which is first come, first served, and one table of when  *)
(* each card was last printed automatically.                               *)
(*                                                                         *)
(* now is monotonic() in a unit that makes Cooldown small.  Time passes    *)
(* between any two steps: a lookup, a wait for the lock and a send to a    *)
(* slow printer each take as long as they take.                            *)
(***************************************************************************)
EXTENDS Naturals, Sequences

CONSTANTS
    Cards,         \* lookup hashes
    Requests,
    None,
    Cooldown,      \* AUTO_COOLDOWN_SECONDS
    MaxTime        \* bound on the clock

ASSUME ReceiptAssumption ==
    /\ None \notin Cards \cup Requests \cup Nat
    /\ Cards # {}
    /\ Cooldown \in Nat \ {0}
    /\ MaxTime \in Nat

VARIABLES
    now,
    autoPrint,     \* receipt_config().auto_print
    lastAuto,      \* _last_auto_print
    holder,        \* the request inside "async with _printer_lock"
    waiters,       \* the requests waiting for it, in order
    pc,            \* idle, lookup, wait, send
    job,           \* the card and the mode a request asks for
    out,           \* its answer
    started        \* observed: when a card's last automatic send began

vars == <<now, autoPrint, lastAuto, holder, waiters, pc, job, out, started>>

Times == 0..MaxTime

TypeOK ==
    /\ now \in Times
    /\ autoPrint \in BOOLEAN
    /\ lastAuto \in [Cards -> Times \cup {None}]
    /\ holder \in Requests \cup {None}
    /\ waiters \in Seq(Requests)
    /\ pc \in [Requests -> {"idle", "lookup", "wait", "send"}]
    /\ job \in [Requests -> [card : Cards, mode : {"auto", "manual"}]]
    /\ out \in [Requests -> {"none", "printed", "suppressed", "404", "503"}]
    /\ started \in [Cards -> Times \cup {None}]

Init ==
    /\ now = 0
    /\ autoPrint \in BOOLEAN
    /\ lastAuto = [c \in Cards |-> None]
    /\ holder = None
    /\ waiters = <<>>
    /\ pc = [p \in Requests |-> "idle"]
    /\ \E c \in Cards : job = [p \in Requests |-> [card |-> c, mode |-> "manual"]]
    /\ out = [p \in Requests |-> "none"]
    /\ started = [c \in Cards |-> None]

-----------------------------------------------------------------------------
(* A valid token and, for an automatic print, the configuration admit a    *)
(* request; then its card is looked up.                                    *)
Ask(p) ==
    /\ pc[p] = "idle"
    /\ \E c \in Cards, mode \in {"auto", "manual"}, valid \in BOOLEAN :
        IF valid /\ (mode = "auto" => autoPrint)
          THEN /\ job' = [job EXCEPT ![p] = [card |-> c, mode |-> mode]]
               /\ pc' = [pc EXCEPT ![p] = "lookup"]
               /\ out' = [out EXCEPT ![p] = "none"]
          ELSE /\ out' = [out EXCEPT ![p] = "404"]
               /\ UNCHANGED <<pc, job>>
    /\ UNCHANGED <<now, autoPrint, lastAuto, holder, waiters, started>>

NotFound(p) ==
    /\ pc[p] = "lookup"
    /\ pc' = [pc EXCEPT ![p] = "idle"]
    /\ out' = [out EXCEPT ![p] = "404"]
    /\ UNCHANGED <<now, autoPrint, lastAuto, holder, waiters, job, started>>

(* FAULTY: a reservation lasts one unit too long.                          *)
RecentOrJust(c) == lastAuto[c] # None /\ now <= lastAuto[c] + Cooldown

(* The card was reserved less than a cooldown ago.                         *)
Recent(c) == lastAuto[c] # None /\ now < lastAuto[c] + Cooldown

(* FAULTY: the reservations whose cooldown is NOT over are forgotten.      *)
ReservedAlone(c) ==
    [d \in Cards |-> IF d = c THEN now ELSE IF Recent(d) THEN None ELSE lastAuto[d]]

(* FAULTY: the end of the cooldown is stored instead of its beginning.     *)
ReservedUntil(c) ==
    [d \in Cards |-> IF d = c THEN now + Cooldown
                     ELSE IF Recent(d) THEN lastAuto[d] ELSE None]

(* Reserve the card, and forget the cards whose cooldown is over.          *)
Reserved(c) ==
    [d \in Cards |-> IF d = c THEN now ELSE IF Recent(d) THEN lastAuto[d] ELSE None]

(* FAULTY: the lock is taken around the cooldown check only.               *)
LockFreeAnyway == TRUE

LockFree == holder = None

(* The body of "async with _printer_lock" up to the send; rest is who      *)
(* still waits for the lock.                                               *)
Hold(p, rest) ==
    LET c == job[p].card
        auto == job[p].mode = "auto"
    IN
    /\ LockFree
    /\ waiters' = rest
    /\ \/ /\ auto /\ Recent(c)
          /\ pc' = [pc EXCEPT ![p] = "idle"]
          /\ out' = [out EXCEPT ![p] = "suppressed"]
          /\ UNCHANGED <<lastAuto, holder, started>>
       \/ /\ auto => ~Recent(c)
          /\ holder' = p
          /\ pc' = [pc EXCEPT ![p] = "send"]
          /\ lastAuto' = IF auto THEN Reserved(c) ELSE lastAuto
          /\ started' = IF auto THEN [started EXCEPT ![c] = now] ELSE started
          /\ UNCHANGED out
    /\ UNCHANGED <<now, autoPrint, job>>

(* asyncio.Lock.acquire does not overtake those who wait.                  *)
Found(p) ==
    /\ pc[p] = "lookup"
    /\ \/ waiters = <<>> /\ Hold(p, <<>>)
       \/ /\ holder # None \/ waiters # <<>>
          /\ waiters' = Append(waiters, p)
          /\ pc' = [pc EXCEPT ![p] = "wait"]
          /\ UNCHANGED <<now, autoPrint, lastAuto, holder, job, out, started>>

Woken(p) ==
    /\ pc[p] = "wait"
    /\ waiters # <<>>
    /\ p = Head(waiters)
    /\ Hold(p, Tail(waiters))

(* FAULTY: the lock is released after a send that succeeds, no other.      *)
SentOrStuck(p) ==
    /\ pc[p] = "send"
    /\ pc' = [pc EXCEPT ![p] = "idle"]
    /\ \/ holder' = None /\ out' = [out EXCEPT ![p] = "printed"]
       \/ out' = [out EXCEPT ![p] = "503"] /\ UNCHANGED holder
    /\ UNCHANGED <<now, autoPrint, lastAuto, waiters, job, started>>

(* _send_bytes succeeds, fails, or is cancelled by its timeout; in the     *)
(* last two cases the printer may have printed all the same.               *)
Sent(p) ==
    /\ pc[p] = "send"
    /\ holder' = None
    /\ pc' = [pc EXCEPT ![p] = "idle"]
    /\ \/ out' = [out EXCEPT ![p] = "printed"]
       \/ out' = [out EXCEPT ![p] = "503"]
    /\ UNCHANGED <<now, autoPrint, lastAuto, waiters, job, started>>

Tick ==
    /\ now < MaxTime
    /\ now' = now + 1
    /\ UNCHANGED <<autoPrint, lastAuto, holder, waiters, pc, job, out, started>>

Handler(p) == NotFound(p) \/ Found(p) \/ Woken(p) \/ Sent(p)

Next == Tick \/ \E p \in Requests : Ask(p) \/ Handler(p)

Spec == Init /\ [][Next]_vars

(* Every lookup ends and every send: connecting and draining have their    *)
(* timeouts, closing has none and is taken to end.  The event loop then    *)
(* runs the handler; nobody has to ask for a receipt.                      *)
FairSpec == Spec /\ \A p \in Requests : WF_vars(Handler(p))

-----------------------------------------------------------------------------
(* "Repeated auto-prints for the same card are suppressed for five         *)
(* seconds", also when the first send failed, was slow, or waits for       *)
(* another card's receipt: two automatic sends of a card begin at least a  *)
(* cooldown apart, whatever else print_receipt drops from its table.       *)
AutoPrintsSpaced ==
    [][\A c \in Cards :
          started'[c] # started[c] =>
              started[c] = None \/ started'[c] >= started[c] + Cooldown]_vars

(* A receipt is only ever suppressed for one that began less than a        *)
(* cooldown ago: a print asked for later is not lost.                      *)
SuppressedForAReason ==
    [][\A p \in Requests :
          pc[p] # "idle" /\ out'[p] = "suppressed" =>
              LET c == job[p].card IN
              started[c] # None /\ now < started[c] + Cooldown]_vars

(* The bytes of two receipts never mix: print_receipt sends one at a time. *)
OneReceiptAtATime ==
    \A p, q \in Requests : pc[p] = "send" /\ pc[q] = "send" => p = q

(* A request for a receipt is answered even while others keep asking and   *)
(* sends keep failing: the lock is always passed on, in order.             *)
EveryReceiptAnswered ==
    \A p \in Requests : pc[p] # "idle" ~> pc[p] = "idle"

-----------------------------------------------------------------------------
(* The inductive invariant behind the safety properties.                   *)

(* The lock is held by the one request that sends.                         *)
HolderSends == \A p \in Requests : pc[p] = "send" <=> holder = p

(* The table knows when each card's last automatic send began, or has      *)
(* forgotten it since its cooldown is over.                                *)
TableRemembers ==
    \A c \in Cards :
        /\ started[c] # None => started[c] <= now
        /\ \/ lastAuto[c] = started[c]
           \/ /\ lastAuto[c] = None /\ started[c] # None
              /\ started[c] + Cooldown <= now

(* A request in progress has no answer yet.                                *)
Unanswered == \A p \in Requests : pc[p] # "idle" => out[p] = "none"

PrinterSafe == HolderSends /\ TableRemembers /\ Unanswered

=============================================================================
