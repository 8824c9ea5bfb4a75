----------------------------- MODULE BulkTopUp -----------------------------
(***************************************************************************)
(* tools/bulk_topup.py: the operator's script that adds the same amount to *)
(* every Card wallet of one account, and LNbits' admin API it calls.  One  *)
(* action is one call of request_json, with the code up to the next one.   *)
(*                                                                         *)
(* A call answers, fails without effect, or takes effect and fails to      *)
(* answer (a timeout, a reset, a body that is no JSON).  The operator can  *)
(* interrupt the script at any time, also while LNbits serves its PUT, and *)
(* start it again.  Meanwhile the account's wallets come and go.           *)
(***************************************************************************)

EXTENDS Naturals

CONSTANT Wallets   \* wallet ids of the account

VARIABLES
    kind,          \* LNbits: card (active, lightning, the name matches), other, deleted
    pc,            \* the next call of the script, or off
    dry, yes,      \* --dry-run and --yes
    shown,         \* the wallets print_summary has listed
    todo,          \* those of them the loop has not come to
    succeeded,     \* the wallets printed with OK
    failed,        \* the wallets printed with FAILED
    exit,          \* the exit status of the last run
    agreed,        \* observed: the operator typed YES in this run
    credits        \* observed: how often this run has credited a wallet

tool == <<pc, dry, yes, shown, todo, succeeded, failed, exit, agreed>>

vars == <<kind, tool, credits>>

TypeOK ==
    /\ kind \in [Wallets -> {"card", "other", "deleted"}]
    /\ pc \in {"off", "login", "verify", "account", "list", "confirm", "credit"}
    /\ dry \in BOOLEAN /\ yes \in BOOLEAN /\ agreed \in BOOLEAN
    /\ shown \in SUBSET Wallets
    /\ todo \in SUBSET Wallets
    /\ succeeded \in SUBSET Wallets
    /\ failed \in SUBSET Wallets
    /\ exit \in {"none", "0", "1", "2", "interrupted"}
    /\ credits \in [Wallets -> Nat]

Init ==
    /\ kind \in [Wallets -> {"card", "other", "deleted"}]
    /\ pc = "off"
    /\ dry = FALSE /\ yes = FALSE /\ agreed = FALSE
    /\ shown = {} /\ todo = {} /\ succeeded = {} /\ failed = {}
    /\ exit = "none"
    /\ credits = [w \in Wallets |-> 0]

-----------------------------------------------------------------------------
(* The script ends with a status.                                          *)
Ends(status) == pc' = "off" /\ exit' = status

(* parse_args, base_url and the choice between a token and a login.        *)
Start ==
    /\ pc = "off"
    /\ dry' \in BOOLEAN /\ yes' \in BOOLEAN
    /\ agreed' = FALSE
    /\ shown' = {} /\ todo' = {} /\ succeeded' = {} /\ failed' = {}
    /\ credits' = [w \in Wallets |-> 0]
    /\ \/ pc' \in {"login", "verify"} /\ exit' = "none"
       \/ Ends("2")                      \* parser.error
       \/ Ends("1")                      \* base_url
    /\ UNCHANGED kind

(* A read-only step of main: the next one, or an error.                    *)
Reads(at, next) ==
    /\ pc = at
    /\ \/ pc' = next /\ UNCHANGED exit
       \/ Ends("1")
    /\ UNCHANGED <<kind, dry, yes, shown, todo, succeeded, failed, agreed, credits>>

Login == Reads("login", "verify")

VerifySuperuser == Reads("verify", "account")

GetAccount == Reads("account", "list")

(* The wallets that get_matching_wallets picks.                            *)
Matching == {w \in Wallets : kind[w] = "card"}

(* FAULTY: --yes is read before --dry-run.                                 *)
AfterSummaryYes ==
    IF Matching = {} THEN Ends("1")
    ELSE IF yes THEN pc' = "credit" /\ UNCHANGED exit
    ELSE IF dry THEN Ends("0")
    ELSE pc' = "confirm" /\ UNCHANGED exit

(* What main does once the summary is printed.                             *)
AfterSummary ==
    IF Matching = {} THEN Ends("1")
    ELSE IF dry THEN Ends("0")
    ELSE IF yes THEN pc' = "credit" /\ UNCHANGED exit
    ELSE pc' = "confirm" /\ UNCHANGED exit

(* get_matching_wallets fails or refuses LNbits' answer, or main shows the *)
(* wallets it found.                                                       *)
GetMatchingWallets ==
    /\ pc = "list"
    /\ \/ Ends("1") /\ UNCHANGED <<shown, todo>>
       \/ /\ shown' = Matching
          /\ todo' = Matching
          /\ AfterSummary
    /\ UNCHANGED <<kind, dry, yes, succeeded, failed, agreed, credits>>

(* Anything but YES, and the end of the input, cancels.                    *)
Confirm ==
    /\ pc = "confirm"
    /\ \/ pc' = "credit" /\ agreed' = TRUE /\ UNCHANGED exit
       \/ Ends("1") /\ UNCHANGED agreed
    /\ UNCHANGED <<kind, dry, yes, shown, todo, succeeded, failed, credits>>

(* LNbits adds the amount; a deleted wallet cannot be credited.            *)
Credited(w) ==
    /\ kind[w] # "deleted"
    /\ credits' = [credits EXCEPT ![w] = @ + 1]

(* FAULTY: a top-up that failed is tried once more.                        *)
TopUpRetried(w) ==
    /\ pc = "credit" /\ w \in todo
    /\ \/ /\ Credited(w) /\ todo' = todo \ {w}
          /\ succeeded' = succeeded \cup {w} /\ failed' = failed \ {w}
       \/ /\ w \notin failed /\ failed' = failed \cup {w}
          /\ Credited(w) \/ UNCHANGED credits
          /\ UNCHANGED <<todo, succeeded>>
    /\ UNCHANGED <<kind, pc, dry, yes, shown, exit, agreed>>

(* One turn of the loop: top_up_wallet confirms, is refused, or fails      *)
(* after LNbits has added the amount.                                      *)
TopUpWallet(w) ==
    /\ pc = "credit" /\ w \in todo
    /\ todo' = todo \ {w}
    /\ \/ Credited(w) /\ succeeded' = succeeded \cup {w} /\ UNCHANGED failed
       \/ UNCHANGED credits /\ failed' = failed \cup {w} /\ UNCHANGED succeeded
       \/ Credited(w) /\ failed' = failed \cup {w} /\ UNCHANGED succeeded
    /\ UNCHANGED <<kind, pc, dry, yes, shown, exit, agreed>>

(* FAULTY: the report waits until nothing has failed.                      *)
ReportSuccess ==
    /\ pc = "credit" /\ todo = {} /\ failed = {}
    /\ Ends("0")
    /\ UNCHANGED <<kind, dry, yes, shown, todo, succeeded, failed, agreed, credits>>

Report ==
    /\ pc = "credit" /\ todo = {}
    /\ Ends(IF failed = {} THEN "0" ELSE "1")
    /\ UNCHANGED <<kind, dry, yes, shown, todo, succeeded, failed, agreed, credits>>

(* Ctrl-C at a prompt of login is an error like others; elsewhere no       *)
(* handler catches it.  A PUT under way may still take effect.             *)
Interrupt ==
    /\ pc # "off"
    /\ Ends(IF pc = "login" THEN "1" ELSE "interrupted")
    /\ \/ UNCHANGED credits
       \/ pc = "credit" /\ \E w \in todo : Credited(w)
    /\ UNCHANGED <<kind, dry, yes, shown, todo, succeeded, failed, agreed>>

(* The account's owner issues, renames and deletes wallets.                *)
WalletChanges(w) ==
    /\ kind' \in {[kind EXCEPT ![w] = k] : k \in {"card", "other", "deleted"} \ {kind[w]}}
    /\ kind[w] = "deleted" => kind'[w] = "deleted"
    /\ UNCHANGED <<tool, credits>>

Step ==
    \/ Login \/ VerifySuperuser \/ GetAccount \/ GetMatchingWallets
    \/ \E w \in Wallets : TopUpWallet(w)
    \/ Report

Next ==
    \/ Start \/ Step \/ Confirm \/ Interrupt
    \/ \E w \in Wallets : WalletChanges(w)

Spec == Init /\ [][Next]_vars

(* Every call of request_json ends, at the latest by its timeout.  Nobody  *)
(* has to start the script or to answer its question.                      *)
FairSpec == Spec /\ WF_vars(Step)

-----------------------------------------------------------------------------
(* The report can be trusted.  "Operation is additive", so an operator who *)
(* runs the script again must know from it what was done: after exit 0     *)
(* every wallet of the summary was credited once (and none in a dry run),  *)
(* what is printed as OK was credited once, what is not in the summary was *)
(* not credited at all, and no wallet twice, however calls fail and        *)
(* wherever the run is cut short.                                          *)
ReportIsTrue ==
    /\ exit = "0" => \A w \in shown : credits[w] = IF dry THEN 0 ELSE 1
    /\ \A w \in Wallets :
        /\ credits[w] <= 1
        /\ w \in succeeded => credits[w] = 1
        /\ credits[w] = 1 => w \in shown
        /\ credits[w] = 1 /\ exit \in {"0", "1"} => w \in succeeded \cup failed

(* No balance changes in a dry run, nor before the operator has seen the   *)
(* summary and has typed YES or given --yes.                               *)
CreditsNeedConsent ==
    [][\A w \in Wallets :
          credits'[w] > credits[w] => ~dry /\ (yes \/ agreed) /\ w \in shown]_vars

(* Once money may have moved, the operator gets a report: one wallet that  *)
(* fails does not keep the others from being tried.                        *)
EveryCreditReported ==
    pc = "credit" ~> pc = "off" /\ (exit = "interrupted" \/ shown = succeeded \cup failed)

-----------------------------------------------------------------------------
(* The inductive invariant behind the safety properties.                   *)

(* The loop has handled the wallets of the summary it no longer has to do; *)
(* each of them is printed once.                                           *)
LoopAccounts ==
    /\ todo \subseteq shown /\ succeeded \cup failed \subseteq shown
    /\ (succeeded \cup failed) \cap todo = {}
    /\ succeeded \cap failed = {}
    /\ pc \in {"confirm", "credit"} => shown = succeeded \cup failed \cup todo

(* Nothing is credited before its turn, nor without the operator's word.   *)
CreditsInTurn ==
    /\ \A w \in Wallets :
        /\ credits[w] <= 1
        /\ w \in succeeded => credits[w] = 1
        /\ credits[w] = 1 => w \in succeeded \cup failed
                             \/ (w \in todo /\ exit = "interrupted")
    /\ pc \in {"confirm", "credit"} => ~dry
    /\ pc = "credit" => yes \/ agreed
    /\ pc \in {"login", "verify", "account", "list", "confirm"} =>
          succeeded = {} /\ failed = {}
    /\ pc \in {"login", "verify", "account", "list"} => shown = {}
    /\ pc # "off" => exit = "none"

TopUpSafe ==
    /\ LoopAccounts
    /\ CreditsInTurn
    /\ exit = "0" => IF dry THEN succeeded = {} /\ failed = {} ELSE shown = succeeded

=============================================================================
