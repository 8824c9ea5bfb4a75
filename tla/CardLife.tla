------------------------------ MODULE CardLife ------------------------------
(***************************************************************************)
(* The life of a card, as whoever only reads its records sees it.  While a *)
(* card is made, records are added, the row last; after that, or when its  *)
(* issue gives up or is cut off, none ever is, and whatever is removed, by *)
(* a rollback, a deletion or on other pages, stays removed.  PublicLookup  *)
(* and Terminal read cards that live like this; CardRefinement shows that  *)
(* CardService lets them.                                                  *)
(***************************************************************************)
CONSTANT Cards

VARIABLES
    parts,    \* per card, its records
    made      \* the cards that nobody adds a record to any more

Parts == {"wallet", "link", "card"}

HasRow(c) == "card" \in parts[c]
HasWallet(c) == "wallet" \in parts[c]
HasLink(c) == "link" \in parts[c]
Complete(c) == parts[c] = Parts

LifeInit ==
    /\ parts \in [Cards -> {{}, Parts}]
    /\ made = {c \in Cards : Complete(c)}

(* The wallet comes before the link; with its row a card is made.          *)
Builds(c) ==
    /\ c \notin made
    /\ \E p \in Parts \ parts[c] :
          /\ p = "link" => HasWallet(c)
          /\ parts' = [parts EXCEPT ![c] = @ \cup {p}]
          /\ \/ made' = made \cup {c}
             \/ p # "card" /\ UNCHANGED made

Loses(c) ==
    /\ \E p \in parts[c] : parts' = [parts EXCEPT ![c] = @ \ {p}]
    /\ UNCHANGED made

(* An issue fails; a crash cuts off all that are under way, in one step or *)
(* one after the other.                                                    *)
Abandoned(S) == made' = made \cup S /\ UNCHANGED parts

LifeNext ==
    \/ \E c \in Cards : Builds(c) \/ Loses(c)
    \/ \E S \in SUBSET Cards : Abandoned(S)

LifeSpec == LifeInit /\ [][LifeNext]_<<parts, made>>

=============================================================================
