------------------------------ MODULE Terminal ------------------------------
(***************************************************************************)
(* tools/denchi-terminal/terminal.py: the program of the counter, with an  *)
(* NFC reader and maybe a printer, and the server it asks.  In public mode *)
(* a tap is a public lookup.  In admin mode the program first reads all    *)
(* wallets, all cards and every card's link, page by page, into a table;   *)
(* a tap is then looked up in the table and only the balance is fetched.   *)
(* One action is one call, with the code up to the next one.               *)
(***************************************************************************)
EXTENDS PublicLookup, FiniteSetsExt, SequencesExt

CONSTANTS
    PageSize,      \* PAGE_SIZE
    Mode,          \* the values of DENCHI_MODE to be considered
    MaxPartial     \* bound on the cards that have some of their records only

ASSUME TerminalAssumption ==
    PageSize \in Nat \ {0} /\ Mode \subseteq {"public", "admin"} /\ MaxPartial \in Nat

VARIABLES
    mode,
    rows,          \* the cards GET /cards lists, newest first
    wallets,       \* the cards whose wallet LNbits lists, in the order of its list
    tpc,           \* the next call of the terminal, or where it waits
    items,         \* fetch_paginated: what it has fetched, of wallets or of cards
    total,         \* get_cards: the count, while the rows are not yet read
    walletOf,      \* wallets_by_id
    todo,          \* the cards build_admin_lookup has not come to
    table,         \* the lookup table
    tapped,        \* the card whose tag is on the reader
    present,       \* observed: the cards that were there when the program started
    disturbed      \* observed: the start has read lists that no longer fit together

program == <<tpc, items, total, walletOf, todo, table, tapped>>

vars == <<life, pays, lookup, mode, rows, wallets, program, present, disturbed>>

Starting == {"login", "wallets", "count", "cards", "links"}
Serving == {"call", "balance", "print"}

ProgramTypeOK ==
    /\ mode \in Mode
    /\ rows \in Seq(Cards) /\ wallets \in Seq(Cards)
    /\ tpc \in {"off", "prompt", "release"} \cup Starting \cup Serving
    /\ items \in Seq(Cards) /\ todo \in Seq(Cards)
    /\ total \in Nat
    /\ walletOf \subseteq Cards /\ table \subseteq Cards /\ present \subseteq Cards
    /\ tapped \in Cards \cup {None}
    /\ disturbed \in BOOLEAN

TypeOK == LookupTypeOK /\ ProgramTypeOK

(* Bound: in public mode one card is in use, in admin mode all of them;    *)
(* at most one of them is issued after the beginning (Init).               *)
InUse == IF mode = "public" THEN {CHOOSE c \in Cards : TRUE} ELSE Cards

Init ==
    /\ LookupInit
    /\ mode \in Mode
    /\ LifeInit
    /\ made \subseteq InUse
    /\ \A c, d \in InUse \ made : c = d
    /\ rows = SetToSeq({c \in Cards : HasRow(c)})
    /\ wallets = rows
    /\ tpc = "off"
    /\ items = <<>> /\ todo = <<>> /\ total = 0
    /\ walletOf = {} /\ table = {} /\ tapped = None
    /\ present = {} /\ disturbed = FALSE

-----------------------------------------------------------------------------
(* What can make the program miss a card that is there: a deletion shifts  *)
(* every later page, and the loop may end on a count that is out of date   *)
(* (FetchCards), as the count of a page is read before its rows.           *)
Disturbs(c) == tpc \in Starting /\ Loses(c)

(* What is deleted is listed no more.                                      *)
Without(list, c) == {RemoveAt(list, i) : i \in {j \in DOMAIN list : list[j] = c}}

(* Rows are listed newest first, and those of one moment by their ids; in  *)
(* which order LNbits lists its wallets is not known.                      *)
Insertions(list, c) == {InsertAt(list, i, c) : i \in 1..(Len(list) + 1)}

CardChanges(c) ==
    /\ CardMoves(c)
    /\ Cardinality({d \in Cards : parts'[d] \notin {{}, Parts}}) <= MaxPartial
    /\ \/ (HasRow(c)' <=> HasRow(c)) /\ UNCHANGED rows
       \/ ~HasRow(c) /\ HasRow(c)' /\ rows' \in Insertions(rows, c)
       \/ HasRow(c) /\ ~HasRow(c)' /\ rows' \in Without(rows, c)
    /\ \/ (HasWallet(c)' <=> HasWallet(c)) /\ UNCHANGED wallets
       \/ ~HasWallet(c) /\ HasWallet(c)' /\ wallets' \in Insertions(wallets, c)
       \/ HasWallet(c) /\ ~HasWallet(c)' /\ wallets' \in Without(wallets, c)
    /\ disturbed' = (disturbed \/ Disturbs(c))
    /\ UNCHANGED <<mode, program, present>>

Payments ==
    /\ mode = "public"
    /\ PaymentArrives \/ PaymentSucceeds
    /\ UNCHANGED <<mode, rows, wallets, program, present, disturbed>>

(* A step of main or of a callback: tp is what comes next.                 *)
Program(tp) ==
    /\ tpc' = tp
    /\ UNCHANGED <<life, pays, mode, rows, wallets>>

Kept == <<items, total, walletOf, todo, table>>

-----------------------------------------------------------------------------
(* main up to the first call.                                              *)
Launch ==
    /\ tpc = "off"
    /\ Program(IF mode = "public" THEN "prompt" ELSE "login")
    /\ present' = {c \in Cards : Complete(c)}
    /\ UNCHANGED <<lookup, Kept, tapped, disturbed>>

(* The process ends, and what it knew is lost.                             *)
Exit ==
    /\ Program("off")
    /\ items' = <<>> /\ todo' = <<>> /\ total' = 0
    /\ walletOf' = {} /\ table' = {} /\ tapped' = None
    /\ present' = {} /\ disturbed' = FALSE
    /\ Dismiss

(* AdminSetupError or a RequestException: main returns 1.                  *)
SetupFails == tpc \in Starting /\ Exit

Login ==
    /\ tpc = "login"
    /\ Program("wallets")
    /\ UNCHANGED <<lookup, Kept, tapped, present, disturbed>>

(* The page of a list at the current offset, which is Len(items).          *)
PageOf(list) == SubSeq(list, Len(items) + 1, Min({Len(items) + PageSize, Len(list)}))

(* FAULTY: the loop stops when the count is met exactly.                   *)
FetchedExactly(page, count) == Len(items \o page) = count

(* FAULTY: the loop stops one short of the count.                          *)
FetchedAlmost(page, count) == page = <<>> \/ Len(items \o page) + 1 >= count

(* The end of the loop of fetch_paginated.                                 *)
FetchedAll(page, count) == page = <<>> \/ Len(items \o page) >= count

(* GET /api/v1/wallet/paginated.                                           *)
FetchWallets ==
    /\ tpc = "wallets"
    /\ LET page == PageOf(wallets) IN
        IF FetchedAll(page, Len(wallets))
          THEN /\ walletOf' = Range(items \o page)
               /\ items' = <<>>
               /\ Program("count")
          ELSE /\ items' = items \o page
               /\ Program("wallets")
               /\ UNCHANGED walletOf
    /\ UNCHANGED <<lookup, total, todo, table, tapped, present, disturbed>>

(* GET /cards: get_cards counts first and reads the page afterwards.       *)
CountCards ==
    /\ tpc = "count"
    /\ total' = Len(rows)
    /\ Program("cards")
    /\ UNCHANGED <<lookup, items, walletOf, todo, table, tapped, present, disturbed>>

FetchCards ==
    /\ tpc = "cards"
    /\ LET page == PageOf(rows) IN
        IF FetchedAll(page, total)
          THEN /\ todo' = items \o page
               /\ items' = <<>>
               /\ disturbed' = (disturbed \/ total # Len(rows))
               /\ Program("links")
          ELSE /\ items' = items \o page
               /\ Program("count")
               /\ UNCHANGED <<todo, disturbed>>
    /\ total' = 0
    /\ UNCHANGED <<lookup, walletOf, table, tapped, present>>

(* The next card: skipped with a warning when its wallet was not listed,   *)
(* an error when its link cannot be read or its URI is there already.      *)
ReadLink ==
    /\ tpc = "links" /\ todo # <<>>
    /\ LET c == Head(todo) IN
        /\ c \in walletOf => HasLink(c) /\ c \notin table
        /\ table' = IF c \in walletOf THEN table \cup {c} ELSE table
    /\ todo' = Tail(todo)
    /\ Program("links")
    /\ UNCHANGED <<lookup, items, total, walletOf, tapped, present, disturbed>>

Ready ==
    /\ tpc = "links" /\ todo = <<>>
    /\ Program("prompt")
    /\ UNCHANGED <<lookup, Kept, tapped, present, disturbed>>

-----------------------------------------------------------------------------
(* A tag comes near the reader: on_connect runs to its first call, or ends *)
(* when the tag carries no card of this server, or none of the table.      *)
Tap(c) ==
    /\ tpc = "prompt"
    /\ \/ mode = "public" /\ tapped' = c /\ Program("call") /\ Ask(c)
       \/ /\ mode = "admin" /\ c \in table /\ tapped' = c
          /\ Program("balance") /\ UNCHANGED lookup
       \/ tapped' = None /\ Program("release") /\ UNCHANGED lookup
    /\ UNCHANGED <<Kept, present, disturbed>>

(* lookup_card returns or raises; a printer may be configured.             *)
Shown ==
    /\ tpc = "call" /\ lpc = "idle"
    /\ \/ out = "found" /\ Program("print")
       \/ Program("release")
    /\ Dismiss
    /\ UNCHANGED <<Kept, tapped, present, disturbed>>

(* The server goes on for nobody, and changes nothing.                     *)
TimedOut ==
    /\ tpc = "call" /\ lpc # "idle"
    /\ Program("release")
    /\ Dismiss
    /\ UNCHANGED <<Kept, tapped, present, disturbed>>

(* GET /api/v1/wallet with the key of the table.                           *)
ReadBalance ==
    /\ tpc = "balance"
    /\ \/ HasWallet(tapped) /\ Program("print")
       \/ Program("release")
    /\ UNCHANGED <<lookup, Kept, tapped, present, disturbed>>

(* send_receipt; a failure is printed and ignored.                         *)
PrintReceipt ==
    /\ tpc = "print"
    /\ Program("release")
    /\ UNCHANGED <<lookup, Kept, tapped, present, disturbed>>

Released ==
    /\ tpc = "release"
    /\ Program("prompt")
    /\ tapped' = None
    /\ UNCHANGED <<lookup, Kept, present, disturbed>>

(* Ctrl-C, or the reader fails.                                            *)
Quit == tpc # "off" /\ Exit

Served ==
    /\ LookupStep
    /\ UNCHANGED <<mode, rows, wallets, program, present, disturbed>>

Work ==
    \/ Login \/ SetupFails \/ FetchWallets \/ CountCards \/ FetchCards \/ ReadLink \/ Ready
    \/ Served \/ Shown \/ ReadBalance \/ PrintReceipt

Next ==
    \/ Launch \/ Work \/ TimedOut \/ Released \/ Quit \/ Payments
    \/ \E c \in Cards : Tap(c)
    \/ \E c \in InUse : CardChanges(c)

Spec == Init /\ [][Next]_vars

(* Every call of the terminal has a timeout, every call of the server      *)
(* returns.  Tags, and people, come and go as they like.                   *)
FairSpec == Spec /\ WF_vars(Work)

-----------------------------------------------------------------------------
(* A terminal that is ready knows every card that was there when it was    *)
(* started, however the pages shifted while cards were issued: no tag of   *)
(* the shop's is refused as unknown until the next restart.  The code does *)
(* not promise it when a card was deleted meanwhile, or one issued between *)
(* the last count and the rows read after it.                              *)
TableIsComplete ==
    mode = "admin" /\ tpc \in {"prompt", "release"} \cup Serving /\ ~disturbed =>
        present \subseteq table

(* Starting ends, and so does serving a tap: pages read by offset do not   *)
(* go on forever when the lists shrink, and no card holds up the queue.    *)
EveryTapAnswered ==
    tpc \in Starting \cup Serving ~> tpc \in {"prompt", "release", "off"}

-----------------------------------------------------------------------------
(* The inductive invariant behind TableIsComplete, in parts.               *)

(* What exists is listed.                                                  *)
ListsAreTrue ==
    \A c \in Cards :
        /\ HasRow(c) => c \in Range(rows)
        /\ HasWallet(c) => c \in Range(wallets)

(* Every call of a start begins with what it needs and nothing else.       *)
StartsAfresh ==
    /\ mode = "public" => tpc \notin Starting
    /\ tpc \in {"off", "login"} => items = <<>> /\ table = {}

(* The card has been fetched, or its place in the list is yet to come.     *)
Ahead(list, c) ==
    c \in Range(items) \/ \E k \in DOMAIN list : k > Len(items) /\ list[k] = c

(* Undisturbed, the fetch has passed over no card that was there.          *)
NoCardPassedOver ==
    tpc \in Starting /\ ~disturbed =>
        \A c \in present :
            /\ Complete(c)
            /\ tpc = "wallets" => Ahead(wallets, c)
            /\ tpc \in {"count", "cards", "links"} => c \in walletOf
            /\ tpc \in {"count", "cards"} => Ahead(rows, c)
            /\ tpc = "links" => c \in table \cup Range(todo)

TableSafe ==
    /\ ListsAreTrue
    /\ StartsAfresh
    /\ NoCardPassedOver
    /\ TableIsComplete

=============================================================================
