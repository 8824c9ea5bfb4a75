--------------------------- MODULE MCCardHistory ---------------------------
(* Instances of CardHistory for TLC.  The configurations give Preissued    *)
(* either no card or all of them, so cards are interchangeable too.        *)
EXTENDS CardHistory, TLC

(* A link as it is issued, and one that was changed on Withdraw's page.    *)
IssuedOnly == {[currency |-> "null", min |-> 1, max |-> 5, title |-> "card"]}
IssuedOrEuro == IssuedOnly \cup {[currency |-> "EUR", min |-> 50, max |-> 250, title |-> "card"]}

Symmetry ==
    Permutations(Requests) \cup Permutations(Accounts) \cup Permutations(Cards)
=============================================================================
