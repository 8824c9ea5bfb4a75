---------------------------- MODULE CardContract ----------------------------
(***************************************************************************)
(* What the card service promises, without its calls: a card is the set of *)
(* its records that exist, a request is what it was asked for until it is  *)
(* answered, and each of its steps changes at most one record of a card.   *)
(* CardRefinement shows that CardService does no more than this, whatever  *)
(* fails: records come in one order and go in one order, only those of the *)
(* card a request is about, and "ok" means that it is so at that moment.   *)
(***************************************************************************)
CONSTANTS Cards, Requests, None

VARIABLES
    parts,    \* per card, its records
    enabled,  \* the cards whose link is enabled
    doing,    \* per request, what it is doing
    card,     \* per request, the card it is about
    answer    \* per request, how the last one was answered

vars == <<parts, enabled, doing, card, answer>>

Parts == {"wallet", "link", "card"}
Operations == {"issue", "set", "bulk", "delete", "mark", "nfc"}

Init ==
    /\ parts \in [Cards -> {{}, Parts}]
    /\ enabled = {c \in Cards : parts[c] = Parts}
    /\ doing = [r \in Requests |-> "nothing"]
    /\ card \in [Requests -> {None}]
    /\ answer = [r \in Requests |-> "none"]

-----------------------------------------------------------------------------
(* A request comes; it may be turned away at once.  An issue has a card of *)
(* its own, of which nothing exists.                                       *)
Ask(r) ==
    /\ doing[r] = "nothing"
    /\ \E op \in Operations, c \in Cards \cup {None} :
          /\ card' = [card EXCEPT ![r] = c]
          /\ \/ /\ op = "issue" => c \in Cards /\ parts[c] = {}
                /\ op \in Operations \ {"issue", "bulk"} => c \in Cards
                /\ doing' = [doing EXCEPT ![r] = op]
                /\ answer' = [answer EXCEPT ![r] = "none"]
             \/ /\ answer' = [answer EXCEPT ![r] = "failed"]
                /\ UNCHANGED doing
    /\ UNCHANGED <<parts, enabled>>

Gains(c, p) ==
    /\ parts' = [parts EXCEPT ![c] = @ \cup {p}]
    /\ enabled' = IF p = "link" THEN enabled \cup {c} ELSE enabled

Loses(c, p) ==
    /\ parts' = [parts EXCEPT ![c] = @ \ {p}]
    /\ enabled' = IF p = "link" THEN enabled \ {c} ELSE enabled

(* The wallet comes first; the link and the card's row need it.            *)
Issues(c) ==
    \/ parts[c] = {} /\ Gains(c, "wallet")
    \/ "wallet" \in parts[c] /\ parts[c] \subseteq {"wallet", "link"}
       /\ \E p \in {"link", "card"} : Gains(c, p)
    \/ \E p \in Parts : Loses(c, p)   \* the rollback

(* The link goes first, then the wallet, the row last.                     *)
Deletes(c) ==
    \/ Loses(c, "link")
    \/ "link" \notin parts[c] /\ Loses(c, "wallet")
    \/ parts[c] \subseteq {"card"} /\ Loses(c, "card")

Sets(c) ==
    /\ {"wallet", "link"} \subseteq parts[c]
    /\ enabled' \in {enabled \cup {c}, enabled \ {c}}
    /\ UNCHANGED parts

Disables ==
    /\ \E c \in Cards : {"wallet", "link"} \subseteq parts[c] /\ enabled' = enabled \ {c}
    /\ UNCHANGED parts

Effect(r) ==
    \/ UNCHANGED <<parts, enabled>>
    \/ doing[r] = "issue" /\ Issues(card[r])
    \/ doing[r] = "delete" /\ Deletes(card[r])
    \/ doing[r] = "set" /\ Sets(card[r])
    \/ doing[r] = "bulk" /\ Disables

(* What an "ok" says of the card when it is given.                         *)
Kept(r) ==
    LET c == card[r] IN
    /\ doing[r] \in {"issue", "mark"} => "card" \in parts'[c]
    /\ doing[r] = "delete" => parts'[c] = {}
    /\ doing[r] = "nfc" => {"wallet", "link"} \subseteq parts'[c]

Work(r) ==
    /\ doing[r] # "nothing"
    /\ Effect(r)
    /\ \/ UNCHANGED <<doing, answer>>
       \/ /\ doing' = [doing EXCEPT ![r] = "nothing"]
          /\ \E a \in {"ok", "failed"} :
                (a = "ok" => Kept(r)) /\ answer' = [answer EXCEPT ![r] = a]
    /\ UNCHANGED card

(* The server stops: nobody is answered, and the records stay.             *)
Stop ==
    /\ doing' = [r \in Requests |-> "nothing"]
    /\ UNCHANGED <<parts, enabled, card, answer>>

(* The owner's hands on Withdraw's and LNbits' own pages.                  *)
Outside ==
    /\ \E c \in Cards :
          /\ "wallet" \in parts[c]
          /\ \/ Loses(c, "link") \/ Loses(c, "wallet")
             \/ "link" \in parts[c] /\ Sets(c)
    /\ UNCHANGED <<doing, card, answer>>

Next == (\E r \in Requests : Ask(r) \/ Work(r)) \/ Stop \/ Outside

Spec == Init /\ [][Next]_vars

=============================================================================
