---------------------------- MODULE CardHistory ----------------------------
(***************************************************************************)
(* CardService observed over time.  The answer to a request speaks of a    *)
(* past its final state no longer shows, so this module adds, for each     *)
(* request in progress, what was the case at some moment or at every       *)
(* moment since it arrived.  The program has no such variables: the        *)
(* behaviours are those of CardService, watched.                           *)
(***************************************************************************)
EXTENDS CardService

VARIABLES
    seen,         \* per request and card: the link states since it arrived
    throughout    \* per request: the cards its account owned all the while

history == <<seen, throughout>>

OwnedNow(r) == {c \in Cards : Owned(c, job[r].acct)}

HInit ==
    /\ Init
    /\ seen = [r \in Requests |-> NoCards({})]
    /\ throughout = [r \in Requests |-> {}]

(* The requests whose answer says what the links were.                     *)
Watched(r) == pc[r] # "idle" /\ job[r].op \in {"set", "bulk"}
Begins(r) == pc[r] = "idle" /\ pc'[r] # "idle"

Watch ==
    /\ seen' = [r \in Requests |-> [c \in Cards |->
                   CASE Begins(r)  -> IF Watched(r)' THEN {link'[c]} ELSE {}
                     [] Watched(r) -> seen[r][c] \cup {link'[c]}
                     [] OTHER      -> seen[r][c]]]
    /\ throughout' = [r \in Requests |->
                   CASE Begins(r)  -> IF Watched(r)' THEN OwnedNow(r)' ELSE {}
                     [] Watched(r) -> throughout[r] \cap OwnedNow(r)'
                     [] OTHER      -> throughout[r]]

HNext == Next /\ Watch
HSpec == HInit /\ [][HNext]_<<vars, history>>

(* PUT /cards/{id}/enabled answers {"enabled": w} only if the link was in  *)
(* that state at some moment while the request was being served, however   *)
(* the Withdraw page and other requests flip it between its GET and PUT.   *)
SetAnswerWasTrue ==
    \A r \in Requests :
        Answered(r, "set", "ok") => job[r].want \in seen[r][job[r].card]

(* "Disable All Cards" passes over no card its account owned throughout:   *)
(* each is counted, and one counted as updated or skipped was off at some  *)
(* moment of the request.                                                  *)
BulkAnswerWasTrue ==
    \A r \in Requests :
        Answered(r, "bulk", "ok") =>
            /\ throughout[r] \subseteq {c \in Cards : sub[r][c] # "none"}
            /\ \A c \in Cards :
                  sub[r][c] \in {"updated", "skipped"} => "off" \in seen[r][c]

-----------------------------------------------------------------------------
(* The inductive invariant behind the two answers, in parts.               *)

HistoryTypeOK ==
    /\ seen \in [Requests -> [Cards -> SUBSET {"absent", "on", "off"}]]
    /\ throughout \in [Requests -> SUBSET Cards]

UpdatePc == {"setWallet", "snapshot", "update"}

(* Only the requests that update links are ever at the calls of an update, *)
(* each at its own, and a bulk action always means off.                    *)
AtItsCalls(r) ==
    /\ Watched(r) <=> pc[r] \in UpdatePc
    /\ pc[r] = "snapshot" => job[r].op = "bulk"
    /\ pc[r] = "setWallet" => job[r].op = "set"
    /\ pc[r] \in UpdatePc /\ job[r].op = "set" => job[r].card \in Cards
    /\ job[r].op = "bulk" => job[r].want = "off"

(* A card settled as updated or skipped has been seen as it was wanted.    *)
SettledWereSeen(r) ==
    \A c \in Cards :
        job[r].op \in {"set", "bulk"} /\ sub[r][c] \in {"updated", "skipped"} =>
            job[r].want \in seen[r][c]

(* Past its first query an update has taken up every card it is about: the *)
(* one of its path, or all its account has owned since.                    *)
NoCardForgotten(r) ==
    /\ pc[r] = "update" /\ job[r].op = "set" => sub[r][job[r].card] # "none"
    /\ (pc[r] = "update" /\ job[r].op = "bulk") \/ Answered(r, "bulk", "ok") =>
          throughout[r] \subseteq {c \in Cards : sub[r][c] # "none"}

(* A card whose update was answered with ok has been settled.              *)
OkIsSettled(r) ==
    Answered(r, "set", "ok") =>
        job[r].card \in Cards /\ sub[r][job[r].card] \in {"updated", "skipped"}

UpdateSafe(r) ==
    AtItsCalls(r) /\ SettledWereSeen(r) /\ NoCardForgotten(r) /\ OkIsSettled(r)

AnswersSafe == HistoryTypeOK /\ \A r \in Requests : UpdateSafe(r)

=============================================================================
