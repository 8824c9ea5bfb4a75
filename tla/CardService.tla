---------------------------- MODULE CardService ----------------------------
(***************************************************************************)
(* The server side of Denchi Card: the request handlers of views_api.py,   *)
(* the services they call (services.py) and the rows they keep (crud.py).  *)
(*                                                                         *)
(* A card is three records kept by three owners: an LNbits wallet, a link  *)
(* of the Withdraw extension, and a row of denchi.cards.  No transaction   *)
(* spans them.  A handler is a coroutine that changes them one awaited     *)
(* call at a time; between two awaits any other handler may run.  Each     *)
(* action below is one awaited call together with the code that runs up to *)
(* the next one, and pc[r] names the call request r makes next.            *)
(*                                                                         *)
(* A slot c of Cards stands for the ids one issue draws: wallet[c],        *)
(* link[c] and row[c] are the three records created under them.            *)
(*                                                                         *)
(* An operator marked FAULTY is a slip the code could have made in the one *)
(* after it.  No action uses it; put in place of that one, it must break   *)
(* the property PROJECT.json names with it.                                *)
(***************************************************************************)
EXTENDS Naturals, FiniteSets

CONSTANTS
    Cards,        \* id slots an issue may draw; each is drawn at most once
    Accounts,     \* LNbits accounts
    Requests,     \* HTTP requests that can be in progress at once
    Settings,     \* values of a link's other fields
    None,         \* no card, no account, no settings
    Preissued,    \* the cards that exist when the model starts
    BulkLimit,    \* WITHDRAW_ENRICHMENT_CONCURRENCY
    MaxFaults,    \* bound on the faults of one behaviour
    FaultKinds,   \* which faults happen: see Outcomes and Crash
    External      \* what is changed behind the extension's back

ASSUME CardsAssumption ==
    /\ None \notin Cards \cup Accounts \cup Settings
    /\ Preissued \subseteq Cards
    /\ Settings \subseteq [currency : STRING, min : Nat, max : Nat, title : STRING]
    /\ \E s \in Settings : s.currency = "null"
    /\ BulkLimit \in Nat \ {0}
    /\ MaxFaults \in Nat
    /\ FaultKinds \subseteq {"refused", "lost", "crash"}
    /\ External \subseteq {"toggle", "edit", "drop_link", "drop_wallet", "switch"}

VARIABLES
    wallet,       \* LNbits: none, active, deleted (soft), purged (force)
    owner,        \* LNbits: the account a wallet belongs to
    link,         \* Withdraw: absent, on (enabled), off (disabled)
    settings,     \* Withdraw: its other fields; title stands for those passed on as they are
    row,          \* denchi.cards: absent, unwritten, written
    withdrawOn,   \* the Withdraw extension is installed, active, accessible
    pc,           \* the call a request makes next; idle once it is answered
    job,          \* what a request asks for
    out,          \* its status code, "none" while none is decided; "no_wallet" is the
                  \* 500 whose detail is "Failed to create Card wallet."
    fails,        \* rollback_failures reported in its error
    sub,          \* per card: progress of set_denchi_enabled_with_client
    got,          \* per card: the link data its GET returned
    faults        \* faults so far

store == <<wallet, owner, link, settings, row>>
request == <<pc, job, out, fails>>
update == <<sub, got>>
vars == <<store, withdrawOn, request, update, faults>>

IssuePc == {"createWallet", "createLink", "insertCard", "loadCard",
            "undoCard", "undoLink", "undoWallet"}
DeletePc == {"findWallet", "probeLink", "dropLink", "dropWallet",
             "confirmWallet", "dropCard", "confirmCard"}
OtherPc == {"setWallet", "snapshot", "update", "markCard", "reloadCard",
            "nfcWallet", "nfcLink"}
Status == {"none", "ok", "404", "409", "500", "no_wallet", "502", "503", "crashed"}
Job == [op : {"none", "issue", "set", "bulk", "delete", "mark", "nfc"},
        acct : Accounts \cup {None},
        card : Cards \cup {None},
        want : {"on", "off"}]

Pc == {"idle"} \cup IssuePc \cup DeletePc \cup OtherPc
Progress == {"none", "queued", "put", "updated", "skipped", "failed"}

StoreType ==
    /\ wallet \in [Cards -> {"none", "active", "deleted", "purged"}]
    /\ owner \in [Cards -> Accounts \cup {None}]
    /\ link \in [Cards -> {"absent", "on", "off"}]
    /\ settings \in [Cards -> Settings \cup {None}]
    /\ \A c \in Cards : link[c] # "absent" => settings[c] \in Settings
    /\ row \in [Cards -> {"absent", "unwritten", "written"}]

RequestType ==
    /\ pc \in [Requests -> Pc]
    /\ job \in [Requests -> Job]
    /\ out \in [Requests -> Status]
    /\ fails \in [Requests -> SUBSET {"card", "withdraw", "wallet"}]

UpdateType ==
    /\ sub \in [Requests -> [Cards -> Progress]]
    /\ got \in [Requests -> [Cards -> Settings \cup {None}]]
    /\ \A r \in Requests, c \in Cards : sub[r][c] = "put" => got[r][c] \in Settings

TypeOK ==
    /\ StoreType
    /\ RequestType
    /\ UpdateType
    /\ withdrawOn \in BOOLEAN
    /\ faults \in 0..MaxFaults

NoCards(v) == [c \in Cards |-> v]

Init ==
    /\ wallet = [c \in Cards |-> IF c \in Preissued THEN "active" ELSE "none"]
    /\ \E o \in [Preissued -> Accounts] :
          owner = [c \in Cards |-> IF c \in Preissued THEN o[c] ELSE None]
    /\ link = [c \in Cards |-> IF c \in Preissued THEN "on" ELSE "absent"]
    /\ \E s \in [Preissued -> Settings] :
          settings = [c \in Cards |-> IF c \in Preissued THEN s[c] ELSE None]
    /\ row = [c \in Cards |-> IF c \in Preissued THEN "unwritten" ELSE "absent"]
    /\ withdrawOn = TRUE
    /\ pc = [r \in Requests |-> "idle"]
    /\ job = [r \in Requests |->
                 [op |-> "none", acct |-> None, card |-> None, want |-> "off"]]
    /\ out = [r \in Requests |-> "none"]
    /\ fails = [r \in Requests |-> {}]
    /\ sub = [r \in Requests |-> NoCards("none")]
    /\ got = [r \in Requests |-> NoCards(None)]
    /\ faults = 0

-----------------------------------------------------------------------------
(* Calls and their outcomes.  A call may answer an error without having    *)
(* done anything (refused) or after having done it (lost).                 *)

Outcomes == {"ok"} \cup (FaultKinds \cap {"refused", "lost"})
ReadOutcomes == Outcomes \ {"lost"}

Spend(f) ==
    \/ f = "ok" /\ UNCHANGED faults
    \/ f # "ok" /\ faults < MaxFaults /\ faults' = faults + 1

Applied(f) == f # "refused"

(* Withdraw serves a call made with the wallet's admin key.                *)
KeyAccepted(c) == withdrawOn /\ wallet[c] = "active"
LinkFound(c) == KeyAccepted(c) /\ link[c] # "absent"

(* get_owned_denchi, and the WHERE of get_owned_cards_with_admin_keys.     *)
Owned(c, a) == row[c] # "absent" /\ wallet[c] = "active" /\ owner[c] = a

(* get_wallet(wallet_id) followed by wallet.user # account_id.             *)
OwnWallet(r) ==
    /\ wallet[job[r].card] = "active"
    /\ owner[job[r].card] = job[r].acct

(* Ids are random: one that is drawn names no record and no earlier draw.  *)
Fresh(c) == wallet[c] = "none" /\ \A r \in Requests : job[r].card # c

-----------------------------------------------------------------------------
(* A request arrives, moves to its next call, or is answered.              *)

Arrive(r, op, a, c, w, p, status) ==
    /\ pc[r] = "idle"
    /\ pc' = [pc EXCEPT ![r] = p]
    /\ job' = [job EXCEPT ![r] = [op |-> op, acct |-> a, card |-> c, want |-> w]]
    /\ out' = [out EXCEPT ![r] = status]
    /\ fails' = [fails EXCEPT ![r] = {}]
    /\ sub' = [sub EXCEPT ![r] = NoCards("none")]
    /\ UNCHANGED <<store, withdrawOn, got, faults>>

Admit(r, op, a, c, w, p) == Arrive(r, op, a, c, w, p, "none")
TurnAway(r, op, a, c, w, status) == Arrive(r, op, a, c, w, "idle", status)

Goto(r, p) ==
    /\ pc' = [pc EXCEPT ![r] = p]
    /\ UNCHANGED <<job, out, fails>>

Answer(r, status) ==
    /\ pc' = [pc EXCEPT ![r] = "idle"]
    /\ out' = [out EXCEPT ![r] = status]
    /\ UNCHANGED <<job, fails>>

-----------------------------------------------------------------------------
(* POST /cards/issue.                                                      *)

IssueStart(r) ==
    \E a \in Accounts, c \in Cards :
        /\ Fresh(c)
        /\ \/ TurnAway(r, "issue", a, None, "on", "404")   \* no such Profile
           \/ ~withdrawOn /\ TurnAway(r, "issue", a, None, "on", "503")
           \/ withdrawOn /\ Admit(r, "issue", a, c, "on", "createWallet")

IssueCreateWallet(r) ==
    LET c == job[r].card IN
    /\ pc[r] = "createWallet"
    /\ \E f \in Outcomes :
        /\ Spend(f)
        /\ IF Applied(f)
             THEN /\ wallet' = [wallet EXCEPT ![c] = "active"]
                  /\ owner' = [owner EXCEPT ![c] = job[r].acct]
             ELSE UNCHANGED <<wallet, owner>>
        /\ IF f = "ok" THEN Goto(r, "createLink") ELSE Answer(r, "no_wallet")
    /\ UNCHANGED <<link, settings, row, withdrawOn, update>>

(* The error path of issue_denchi: run the undo steps from p, answer o.    *)
Undo(r, p, o) ==
    /\ pc' = [pc EXCEPT ![r] = p]
    /\ out' = [out EXCEPT ![r] = o]
    /\ UNCHANGED <<job, fails>>

(* withdraw_request: the limits of the Profile, in no currency.            *)
IssueCreateLink(r) ==
    LET c == job[r].card IN
    /\ pc[r] = "createLink"
    /\ \E f \in Outcomes, s \in {t \in Settings : t.currency = "null"} :
        /\ Spend(f)
        /\ IF KeyAccepted(c) /\ Applied(f)
             THEN /\ link' = [link EXCEPT ![c] = "on"]
                  /\ settings' = [settings EXCEPT ![c] = s]
             ELSE UNCHANGED <<link, settings>>
        /\ IF KeyAccepted(c) /\ f = "ok"
             THEN Goto(r, "insertCard")
             ELSE Undo(r, "undoWallet", "502")
    /\ UNCHANGED <<wallet, owner, row, withdrawOn, update>>

(* lookup_hash_from_lnurl_url and the INSERT of create_denchi.             *)
IssueInsertCard(r) ==
    LET c == job[r].card IN
    /\ pc[r] = "insertCard"
    /\ \E f \in Outcomes :
        /\ Spend(f)
        /\ row' = IF Applied(f) THEN [row EXCEPT ![c] = "unwritten"] ELSE row
        /\ IF f = "ok" THEN Goto(r, "loadCard") ELSE Undo(r, "undoCard", "500")
    /\ UNCHANGED <<wallet, owner, link, settings, withdrawOn, update>>

(* The SELECT of create_denchi: the row may be gone again by now.          *)
IssueLoadCard(r) ==
    /\ pc[r] = "loadCard"
    /\ \E f \in ReadOutcomes :
        /\ Spend(f)
        /\ IF f = "ok" /\ row[job[r].card] # "absent"
             THEN Answer(r, "ok")
             ELSE Undo(r, "undoCard", "500")
    /\ UNCHANGED <<store, withdrawOn, update>>

(* An undo step is tried once; a failure is noted and the next one runs.   *)
UndoStep(r, p, next, what, good) ==
    /\ pc[r] = p
    /\ pc' = [pc EXCEPT ![r] = next]
    /\ fails' = [fails EXCEPT ![r] = IF good THEN @ ELSE @ \cup {what}]
    /\ UNCHANGED <<job, out, withdrawOn, update>>

(* FAULTY: the error path forgets a row its INSERT may have left.          *)
IssueKeepCard(r) ==
    /\ UndoStep(r, "undoCard", "undoLink", "card", TRUE)
    /\ UNCHANGED <<store, faults>>

IssueUndoCard(r) ==
    LET c == job[r].card IN
    \E f \in Outcomes :
        /\ UndoStep(r, "undoCard", "undoLink", "card", f = "ok")
        /\ Spend(f)
        /\ row' = IF Applied(f) THEN [row EXCEPT ![c] = "absent"] ELSE row
        /\ UNCHANGED <<wallet, owner, link, settings>>

IssueUndoLink(r) ==
    LET c == job[r].card IN
    \E f \in Outcomes :
        /\ UndoStep(r, "undoLink", "undoWallet", "withdraw", LinkFound(c) /\ f = "ok")
        /\ Spend(f)
        /\ link' = IF KeyAccepted(c) /\ Applied(f)
                     THEN [link EXCEPT ![c] = "absent"] ELSE link
        /\ UNCHANGED <<wallet, owner, settings, row>>

(* FAULTY: on the path of a failed row the error is worded too early.      *)
IssueUndoWalletUnnamed(r) ==
    LET c == job[r].card IN
    \E f \in Outcomes :
        /\ UndoStep(r, "undoWallet", "idle", "wallet", f = "ok" \/ out[r] = "500")
        /\ Spend(f)
        /\ wallet' = IF Applied(f) THEN [wallet EXCEPT ![c] = "purged"] ELSE wallet
        /\ UNCHANGED <<owner, link, settings, row>>

IssueUndoWallet(r) ==
    LET c == job[r].card IN
    \E f \in Outcomes :
        /\ UndoStep(r, "undoWallet", "idle", "wallet", f = "ok")
        /\ Spend(f)
        /\ wallet' = IF Applied(f) THEN [wallet EXCEPT ![c] = "purged"] ELSE wallet
        /\ UNCHANGED <<owner, link, settings, row>>

-----------------------------------------------------------------------------
(* PUT /cards/{id}/enabled and POST /cards/disable-all.                    *)

SetStart(r) ==
    \E a \in Accounts, c \in Cards, w \in {"on", "off"} :
        /\ wallet[c] # "none"
        /\ \/ ~Owned(c, a) /\ TurnAway(r, "set", a, c, w, "404")
           \/ Owned(c, a) /\ ~withdrawOn /\ TurnAway(r, "set", a, c, w, "503")
           \/ Owned(c, a) /\ withdrawOn /\ Admit(r, "set", a, c, w, "setWallet")

SetFindWallet(r) ==
    /\ pc[r] = "setWallet"
    /\ \E f \in ReadOutcomes :
        /\ Spend(f)
        /\ \/ f # "ok" /\ Answer(r, "500") /\ UNCHANGED sub
           \/ f = "ok" /\ ~OwnWallet(r) /\ Answer(r, "404") /\ UNCHANGED sub
           \/ /\ f = "ok" /\ OwnWallet(r)
              /\ sub' = [sub EXCEPT ![r][job[r].card] = "queued"]
              /\ Goto(r, "update")
    /\ UNCHANGED <<store, withdrawOn, got>>

BulkStart(r) ==
    \E a \in Accounts :
        \/ ~withdrawOn /\ TurnAway(r, "bulk", a, None, "off", "503")
        \/ withdrawOn /\ Admit(r, "bulk", a, None, "off", "snapshot")

(* FAULTY: the query of the Unwritten filter is used for the bulk action.  *)
BulkSnapshotUnwritten(r) ==
    /\ pc[r] = "snapshot"
    /\ sub' = [sub EXCEPT ![r] = [c \in Cards |->
                 IF Owned(c, job[r].acct) /\ row[c] = "unwritten"
                   THEN "queued" ELSE "none"]]
    /\ Goto(r, "update")
    /\ UNCHANGED <<store, withdrawOn, got, faults>>

(* get_owned_cards_with_admin_keys: the cards this bulk action will visit. *)
BulkSnapshot(r) ==
    /\ pc[r] = "snapshot"
    /\ \E f \in ReadOutcomes :
        /\ Spend(f)
        /\ \/ f # "ok" /\ Answer(r, "500") /\ UNCHANGED sub
           \/ /\ f = "ok"
              /\ sub' = [sub EXCEPT ![r] = [c \in Cards |->
                            IF Owned(c, job[r].acct) THEN "queued" ELSE "none"]]
              /\ Goto(r, "update")
    /\ UNCHANGED <<store, withdrawOn, got>>

(* FAULTY: a card that failed is tried again until it works.               *)
SettleOrRetry(r, c, result) ==
    /\ sub' = [sub EXCEPT ![r][c] = IF result = "failed" THEN "queued" ELSE result]
    /\ got' = [got EXCEPT ![r][c] = None]

Settle(r, c, result) ==
    /\ sub' = [sub EXCEPT ![r][c] = result]
    /\ got' = [got EXCEPT ![r][c] = None]

(* FAULTY: a card that failed keeps its permit of the semaphore.           *)
PermitsKept(r) == {c \in Cards : sub[r][c] \in {"put", "failed"}}

(* The cards of a request that are inside "async with semaphore".          *)
Permits(r) == {c \in Cards : sub[r][c] = "put"}

(* set_denchi_enabled_with_client up to its GET, inside the semaphore.  An *)
(* answer that cannot be used, amounts in a currency that are no numbers   *)
(* among it, is a failed call: its error too is a 502 before the PUT.      *)
UpdateGet(r, c) ==
    /\ pc[r] = "update"
    /\ sub[r][c] = "queued"
    /\ Cardinality(Permits(r)) < BulkLimit
    /\ \E f \in ReadOutcomes :
        /\ Spend(f)
        /\ \/ (~LinkFound(c) \/ f # "ok") /\ Settle(r, c, "failed")
           \/ LinkFound(c) /\ f = "ok" /\ link[c] = job[r].want
                /\ Settle(r, c, "skipped")
           \/ /\ LinkFound(c) /\ f = "ok" /\ link[c] # job[r].want
              /\ sub' = [sub EXCEPT ![r][c] = "put"]
              /\ got' = [got EXCEPT ![r][c] = settings[c]]
    /\ UNCHANGED <<store, withdrawOn, request>>

(* Withdraw keeps the amounts of a link in sats, or in hundredths of its   *)
(* currency, and takes them in sats or in units of it.  A number of a      *)
(* request is written here as the pair of what is divided and by what.     *)
InSats(s) == s.currency \in {"null", "sat"}
PerUnit(s) == IF InSats(s) THEN 1 ELSE 100
Amounts(s, min, max) ==
    [currency |-> s.currency, min |-> min, max |-> max, title |-> s.title]

(* FAULTY: the amounts are sent as they were read.                         *)
SentAsRead(s) == Amounts(s, <<s.min, 1>>, <<s.max, 1>>)

(* FAULTY: a link without a currency is not taken to be one in sats.       *)
SentInUnits(s) ==
    LET per == IF s.currency = "sat" THEN 1 ELSE 100 IN
    Amounts(s, <<s.min, per>>, <<s.max, per>>)

(* withdraw_update_request: the fields read by the GET, amounts converted. *)
Sent(s) == Amounts(s, <<s.min, PerUnit(s)>>, <<s.max, PerUnit(s)>>)

(* What Withdraw makes of them: it is taken to round to whole hundredths,  *)
(* so that what the division of a float loses is of no account.            *)
Stored(b) ==
    LET whole(number) == (PerUnit(b) * number[1]) \div number[2] IN
    Amounts(b, whole(b.min), whole(b.max))

(* The PUT, with the new flag.                                             *)
Write(r, c) ==
    /\ link' = [link EXCEPT ![c] = job[r].want]
    /\ settings' = [settings EXCEPT ![c] = Stored(Sent(got[r][c]))]

UpdatePut(r, c) ==
    /\ pc[r] = "update"
    /\ sub[r][c] = "put"
    /\ \E f \in Outcomes :
        /\ Spend(f)
        /\ IF LinkFound(c) /\ Applied(f) THEN Write(r, c) ELSE UNCHANGED <<link, settings>>
        /\ \/ LinkFound(c) /\ f = "ok" /\ Settle(r, c, "updated")
           \/ ~(LinkFound(c) /\ f = "ok") /\ Settle(r, c, "failed")
    /\ UNCHANGED <<wallet, owner, row, withdrawOn, request>>

(* FAULTY: the answer does not depend on how the update went.              *)
UpdateDoneAnyway(r) ==
    /\ pc[r] = "update"
    /\ \A c \in Cards : sub[r][c] \notin {"queued", "put"}
    /\ Answer(r, "ok")
    /\ UNCHANGED <<store, withdrawOn, update, faults>>

UpdateDone(r) ==
    /\ pc[r] = "update"
    /\ \A c \in Cards : sub[r][c] \notin {"queued", "put"}
    /\ \/ job[r].op = "set" /\ sub[r][job[r].card] = "failed" /\ Answer(r, "502")
       \/ job[r].op = "set" /\ sub[r][job[r].card] # "failed" /\ Answer(r, "ok")
       \/ job[r].op = "bulk" /\ Answer(r, "ok")
    /\ UNCHANGED <<store, withdrawOn, update, faults>>

-----------------------------------------------------------------------------
(* DELETE /cards/{id}.                                                     *)

DeleteStart(r, a, c) ==
    /\ wallet[c] # "none"
    /\ \/ row[c] = "absent" /\ TurnAway(r, "delete", a, c, "off", "404")
       \/ row[c] # "absent" /\ ~withdrawOn /\ TurnAway(r, "delete", a, c, "off", "503")
       \/ row[c] # "absent" /\ withdrawOn /\ Admit(r, "delete", a, c, "off", "findWallet")

(* FAULTY: the wallet's account is not compared with the requester.        *)
DeleteFindAnyWallet(r) ==
    /\ pc[r] = "findWallet"
    /\ \/ wallet[job[r].card] = "deleted" /\ Goto(r, "probeLink")
       \/ wallet[job[r].card] = "active" /\ Goto(r, "dropLink")
       \/ wallet[job[r].card] \in {"none", "purged"} /\ Answer(r, "404")
    /\ UNCHANGED <<store, withdrawOn, update, faults>>

(* FAULTY: get_wallet is called without deleted=None.                      *)
DeleteFindActiveWallet(r) ==
    /\ pc[r] = "findWallet"
    /\ IF OwnWallet(r) THEN Goto(r, "dropLink") ELSE Answer(r, "404")
    /\ UNCHANGED <<store, withdrawOn, update, faults>>

(* get_wallet(..., deleted=None) also finds soft-deleted wallets.          *)
DeleteFindWallet(r) ==
    LET c == job[r].card
        mine == wallet[c] \in {"active", "deleted"} /\ owner[c] = job[r].acct
    IN
    /\ pc[r] = "findWallet"
    /\ \E f \in ReadOutcomes :
        /\ Spend(f)
        /\ \/ f # "ok" /\ Answer(r, "500")
           \/ f = "ok" /\ ~mine /\ Answer(r, "404")
           \/ f = "ok" /\ mine /\ wallet[c] = "deleted" /\ Goto(r, "probeLink")
           \/ f = "ok" /\ mine /\ wallet[c] = "active" /\ Goto(r, "dropLink")
    /\ UNCHANGED <<store, withdrawOn, update>>

(* The public page of the link answers 404: the link is absent, or the     *)
(* whole Withdraw extension has been switched off since the request began. *)
DeleteProbeLink(r) ==
    /\ pc[r] = "probeLink"
    /\ \E f \in ReadOutcomes :
        /\ Spend(f)
        /\ IF f = "ok" /\ (link[job[r].card] = "absent" \/ ~withdrawOn)
             THEN Goto(r, "dropCard")
             ELSE Answer(r, "409")
    /\ UNCHANGED <<store, withdrawOn, update>>

(* FAULTY: any 404 is taken to mean that the link is absent.               *)
DeleteDropLinkAny404(r) ==
    LET c == job[r].card IN
    /\ pc[r] = "dropLink"
    /\ link' = IF KeyAccepted(c) THEN [link EXCEPT ![c] = "absent"] ELSE link
    /\ IF KeyAccepted(c) \/ ~withdrawOn
         THEN Goto(r, "dropWallet")
         ELSE Answer(r, "502")
    /\ UNCHANGED <<wallet, owner, settings, row, withdrawOn, update, faults>>

(* An absent link answers "Withdraw link does not exist.": go on.          *)
DeleteDropLink(r) ==
    LET c == job[r].card IN
    /\ pc[r] = "dropLink"
    /\ \E f \in Outcomes :
        /\ Spend(f)
        /\ link' = IF KeyAccepted(c) /\ Applied(f)
                     THEN [link EXCEPT ![c] = "absent"] ELSE link
        /\ IF KeyAccepted(c) /\ f = "ok" THEN Goto(r, "dropWallet") ELSE Answer(r, "502")
    /\ UNCHANGED <<wallet, owner, settings, row, withdrawOn, update>>

(* FAULTY: delete_wallet's exception is logged and the deletion goes on.   *)
DeleteDropWalletOrNot(r) ==
    LET c == job[r].card IN
    /\ pc[r] = "dropWallet"
    /\ \E f \in Outcomes :
        /\ Spend(f)
        /\ wallet' = IF Applied(f) /\ wallet[c] = "active"
                       THEN [wallet EXCEPT ![c] = "deleted"] ELSE wallet
    /\ Goto(r, "dropCard")
    /\ UNCHANGED <<owner, link, settings, row, withdrawOn, update>>

DeleteDropWallet(r) ==
    LET c == job[r].card IN
    /\ pc[r] = "dropWallet"
    /\ \E f \in Outcomes :
        /\ Spend(f)
        /\ wallet' = IF Applied(f) /\ wallet[c] = "active"
                       THEN [wallet EXCEPT ![c] = "deleted"] ELSE wallet
        /\ IF f = "ok" THEN Goto(r, "confirmWallet") ELSE Answer(r, "500")
    /\ UNCHANGED <<owner, link, settings, row, withdrawOn, update>>

DeleteConfirmWallet(r) ==
    /\ pc[r] = "confirmWallet"
    /\ \E f \in ReadOutcomes :
        /\ Spend(f)
        /\ IF f = "ok" /\ wallet[job[r].card] = "deleted"
             THEN Goto(r, "dropCard")
             ELSE Answer(r, "500")
    /\ UNCHANGED <<store, withdrawOn, update>>

DeleteDropCard(r) ==
    LET c == job[r].card IN
    /\ pc[r] = "dropCard"
    /\ \E f \in Outcomes :
        /\ Spend(f)
        /\ row' = IF Applied(f) THEN [row EXCEPT ![c] = "absent"] ELSE row
        /\ IF f = "ok" THEN Goto(r, "confirmCard") ELSE Answer(r, "500")
    /\ UNCHANGED <<wallet, owner, link, settings, withdrawOn, update>>

DeleteConfirmCard(r) ==
    /\ pc[r] = "confirmCard"
    /\ \E f \in ReadOutcomes :
        /\ Spend(f)
        /\ Answer(r, IF f = "ok" /\ row[job[r].card] = "absent" THEN "ok" ELSE "500")
    /\ UNCHANGED <<store, withdrawOn, update>>

-----------------------------------------------------------------------------
(* POST /cards/{id}/nfc-written and GET /cards/{id}/nfc.                   *)

MarkStart(r) ==
    \E a \in Accounts, c \in Cards :
        /\ wallet[c] # "none"
        /\ \/ ~Owned(c, a) /\ TurnAway(r, "mark", a, c, "on", "404")
           \/ Owned(c, a) /\ Admit(r, "mark", a, c, "on", "markCard")

(* FAULTY: the row is marked even when it is no longer there.              *)
MarkUpserts(r) ==
    /\ pc[r] = "markCard"
    /\ row' = [row EXCEPT ![job[r].card] = "written"]
    /\ Goto(r, "reloadCard")
    /\ UNCHANGED <<wallet, owner, link, settings, withdrawOn, update, faults>>

MarkWrite(r) ==
    LET c == job[r].card IN
    /\ pc[r] = "markCard"
    /\ \E f \in Outcomes :
        /\ Spend(f)
        /\ row' = IF Applied(f) /\ row[c] = "unwritten"
                    THEN [row EXCEPT ![c] = "written"] ELSE row
        /\ IF f = "ok" THEN Goto(r, "reloadCard") ELSE Answer(r, "500")
    /\ UNCHANGED <<wallet, owner, link, settings, withdrawOn, update>>

MarkReload(r) ==
    /\ pc[r] = "reloadCard"
    /\ \E f \in ReadOutcomes :
        /\ Spend(f)
        /\ Answer(r, IF f = "ok" /\ row[job[r].card] # "absent" THEN "ok" ELSE "500")
    /\ UNCHANGED <<store, withdrawOn, update>>

NfcStart(r) ==
    \E a \in Accounts, c \in Cards :
        /\ wallet[c] # "none"
        /\ \/ ~Owned(c, a) /\ TurnAway(r, "nfc", a, c, "on", "404")
           \/ Owned(c, a) /\ row[c] = "written" /\ TurnAway(r, "nfc", a, c, "on", "409")
           \/ /\ Owned(c, a) /\ row[c] = "unwritten"
              /\ \/ ~withdrawOn /\ TurnAway(r, "nfc", a, c, "on", "503")
                 \/ withdrawOn /\ Admit(r, "nfc", a, c, "on", "nfcWallet")

NfcFindWallet(r) ==
    /\ pc[r] = "nfcWallet"
    /\ \E f \in ReadOutcomes :
        /\ Spend(f)
        /\ \/ f # "ok" /\ Answer(r, "500")
           \/ f = "ok" /\ ~OwnWallet(r) /\ Answer(r, "404")
           \/ f = "ok" /\ OwnWallet(r) /\ Goto(r, "nfcLink")
    /\ UNCHANGED <<store, withdrawOn, update>>

NfcGetLink(r) ==
    /\ pc[r] = "nfcLink"
    /\ \E f \in ReadOutcomes :
        /\ Spend(f)
        /\ Answer(r, IF f = "ok" /\ LinkFound(job[r].card) THEN "ok" ELSE "502")
    /\ UNCHANGED <<store, withdrawOn, update>>

-----------------------------------------------------------------------------
(* The server process stops: every handler in progress is gone, with no    *)
(* rollback; what the databases hold stays.                                *)
Crash ==
    /\ "crash" \in FaultKinds /\ faults < MaxFaults
    /\ \E r \in Requests : pc[r] # "idle"
    /\ faults' = faults + 1
    /\ out' = [r \in Requests |-> IF pc[r] # "idle" THEN "crashed" ELSE out[r]]
    /\ pc' = [r \in Requests |-> "idle"]
    /\ sub' = [r \in Requests |-> IF pc[r] # "idle" THEN NoCards("none") ELSE sub[r]]
    /\ got' = [r \in Requests |-> IF pc[r] # "idle" THEN NoCards(None) ELSE got[r]]
    /\ UNCHANGED <<store, withdrawOn, job, fails>>

(* The owner also works with the Withdraw and LNbits pages directly, and   *)
(* an administrator may switch Withdraw off and on.                        *)
ExternalLink(c) ==
    /\ LinkFound(c)
    /\ \/ /\ "toggle" \in External
          /\ link' = [link EXCEPT ![c] = IF @ = "on" THEN "off" ELSE "on"]
          /\ UNCHANGED settings
       \/ /\ "edit" \in External
          /\ \E s \in Settings : settings' = [settings EXCEPT ![c] = s]
          /\ UNCHANGED link
       \/ /\ "drop_link" \in External
          /\ link' = [link EXCEPT ![c] = "absent"]
          /\ UNCHANGED settings
    /\ UNCHANGED <<wallet, owner, row, withdrawOn, request, update, faults>>

ExternalDropWallet(c) ==
    /\ "drop_wallet" \in External
    /\ wallet[c] = "active"
    /\ wallet' = [wallet EXCEPT ![c] = "deleted"]
    /\ UNCHANGED <<owner, link, settings, row, withdrawOn, request, update, faults>>

SwitchWithdraw ==
    /\ "switch" \in External
    /\ withdrawOn' = ~withdrawOn
    /\ UNCHANGED <<store, request, update, faults>>

-----------------------------------------------------------------------------
Client(r) ==
    \/ IssueStart(r) \/ SetStart(r) \/ BulkStart(r) \/ MarkStart(r) \/ NfcStart(r)
    \/ \E a \in Accounts, c \in Cards : DeleteStart(r, a, c)

IssueStep(r) ==
    \/ IssueCreateWallet(r) \/ IssueCreateLink(r) \/ IssueInsertCard(r)
    \/ IssueLoadCard(r) \/ IssueUndoCard(r) \/ IssueUndoLink(r) \/ IssueUndoWallet(r)

UpdateStep(r) ==
    \/ SetFindWallet(r) \/ BulkSnapshot(r) \/ UpdateDone(r)
    \/ \E c \in Cards : UpdateGet(r, c) \/ UpdatePut(r, c)

DeleteStep(r) ==
    \/ DeleteFindWallet(r) \/ DeleteProbeLink(r) \/ DeleteDropLink(r)
    \/ DeleteDropWallet(r) \/ DeleteConfirmWallet(r)
    \/ DeleteDropCard(r) \/ DeleteConfirmCard(r)

NfcStep(r) ==
    MarkWrite(r) \/ MarkReload(r) \/ NfcFindWallet(r) \/ NfcGetLink(r)

(* The event loop runs a handler whose awaited call has returned.          *)
Handler(r) == IssueStep(r) \/ UpdateStep(r) \/ DeleteStep(r) \/ NfcStep(r)

Environment ==
    \/ Crash \/ SwitchWithdraw
    \/ \E c \in Cards : ExternalLink(c) \/ ExternalDropWallet(c)

Next == (\E r \in Requests : Client(r) \/ Handler(r)) \/ Environment

Spec == Init /\ [][Next]_vars

(* A request in progress is resumed when its call returns; and an owner    *)
(* who wants a card gone asks again, whenever a request can be made, until *)
(* its row is gone ("Retry deletion.").                                    *)
Finishing == \A r \in Requests : WF_vars(Handler(r))
OwnerDeletes(c) ==
    \E r \in Requests, a \in Accounts :
        a = owner[c] /\ row[c] # "absent" /\ DeleteStart(r, a, c)
Retrying == \A c \in Cards : SF_vars(OwnerDeletes(c))

FairSpec == Spec /\ Finishing /\ Retrying

-----------------------------------------------------------------------------
(* Properties.                                                             *)

Answered(r, op, status) == pc[r] = "idle" /\ job[r].op = op /\ out[r] = status

(* delete_existing_denchi soft-deletes a wallet only once its Withdraw     *)
(* link is gone, whatever fails and whatever other requests do meanwhile:  *)
(* a soft-deleted wallet with a live link would leave the card, whose      *)
(* retries all answer 409, in need of manual recovery.                     *)
DeletedWalletHasNoLink ==
    \A c \in Cards : wallet[c] = "deleted" => link[c] = "absent"

(* A delete that claims success removed all three records, and none of     *)
(* them comes back by a request that was already under way.                *)
DeleteOkMeansGone ==
    \A r \in Requests :
        Answered(r, "delete", "ok") =>
            LET c == job[r].card IN
            row[c] = "absent" /\ link[c] = "absent" /\ wallet[c] # "active"

(* What is left of the card of issue r is named among the rollback         *)
(* failures of its error.  Only what a call has made that answered an      *)
(* error can be missing there: the link of a POST that failed (502), or    *)
(* the wallet of a create_wallet that did, when nothing else was called.   *)
CardNamed(r) == row[job[r].card] # "absent" => "card" \in fails[r]
LinkNamed(r) ==
    link[job[r].card] # "absent" =>
        \/ "withdraw" \in fails[r]
        \/ "lost" \in FaultKinds /\ out[r] = "502"
WalletNamed(r) ==
    wallet[job[r].card] = "active" =>
        \/ "wallet" \in fails[r]
        \/ "lost" \in FaultKinds /\ out[r] = "no_wallet"

(* When issue_denchi fails, the operator can find and remove what it left  *)
(* behind, whatever calls of its rollback fail as well, and whatever other *)
(* requests do meanwhile.                                                  *)
Failed(r) == \E status \in {"no_wallet", "500", "502"} : Answered(r, "issue", status)
RollbackReport ==
    \A r \in Requests : Failed(r) => CardNamed(r) /\ LinkNamed(r) /\ WalletNamed(r)

(* One failed call or one crash, wherever it strikes, never strands a row: *)
(* every row of denchi.cards still belongs to a wallet its owner can       *)
(* delete, or to one whose deletion can be resumed after its link.         *)
RowsStayDeletable ==
    faults <= 1 =>
        \A c \in Cards : row[c] # "absent" =>
            \/ wallet[c] = "active"
            \/ wallet[c] = "deleted" /\ link[c] = "absent"

(* What a card consists of changes only by a step of a request its wallet's*)
(* own account made, although ownership is checked once, calls earlier.    *)
OnlyOwnersAct ==
    [][\A c \in Cards :
          <<wallet[c], link[c], settings[c], row[c]>>'
              # <<wallet[c], link[c], settings[c], row[c]>> =>
          \E r \in Requests :
              /\ <<pc[r], sub[r]>>' # <<pc[r], sub[r]>>
              /\ job[r].acct = owner'[c]
              /\ job[r].card = c \/ sub[r][c] = "put"]_vars

(* Enabling and disabling keep the limits, title and expiry of a link, in  *)
(* whatever currency its limits are: what the PUT sends back is what the   *)
(* link still holds, however the GETs and PUTs of several requests         *)
(* interleave.                                                             *)
SettingsSurvive ==
    [][\A c \in Cards :
          link[c] # "absent" /\ link'[c] # "absent"
              => settings'[c] = settings[c]]_vars

(* The calls a request has ahead of it at most, at its call p and with its *)
(* cards at s: an issue the longer of its two paths, an update two for     *)
(* each card not yet asked for and one for each card that is read.         *)
CallsAhead(p, s) ==
    LET of(progress) == Cardinality({c \in Cards : s[c] = progress}) IN
    CASE p = "idle"                                                     -> 0
      [] p = "update"                               -> 2 * of("queued") + of("put") + 1
      [] p \in {"setWallet", "snapshot"}                 -> 2 * Cardinality(Cards) + 2
      [] p \in {"undoWallet", "confirmCard", "reloadCard", "nfcLink"}   -> 1
      [] p \in {"undoLink", "dropCard", "markCard", "nfcWallet"}        -> 2
      [] p \in {"undoCard", "confirmWallet"}                            -> 3
      [] p \in {"loadCard", "dropWallet"}                               -> 4
      [] p \in {"insertCard", "dropLink", "probeLink"}                  -> 5
      [] p \in {"createLink", "findWallet"}                             -> 6
      [] p = "createWallet"                                             -> 7

CallsLeft(r) == CallsAhead(pc[r], sub[r])

(* No handler goes round in circles: each call it makes, also on the error *)
(* path of an issue and for each card of a bulk action, uses one up,       *)
(* whatever fails, and cards issued or toggled meanwhile add none.         *)
CallsRunOut ==
    [][\A r \in Requests : Handler(r) => CallsLeft(r)' < CallsLeft(r)]_vars

(* No handler is ever stuck, whatever others have done to its cards: the   *)
(* cards of a disable-all that wait for a permit of the semaphore get one, *)
(* also when those before them have failed.  As the calls run out, every   *)
(* handler thus comes to its answer.                                       *)
HandlersGoOn == \A r \in Requests : pc[r] # "idle" => ENABLED Handler(r)

(* Every request is answered or cut off by a crash, although its calls     *)
(* fail and other requests and pages take away what it works on.           *)
EveryRequestAnswered ==
    \A r \in Requests : pc[r] # "idle" ~> pc[r] = "idle"

(* A deletion that failed or crashed part way can be finished by asking    *)
(* again: an owner who retries gets rid of the card.  The exception is the *)
(* "Manual recovery" answer, for a wallet deleted in LNbits while its link *)
(* was live.                                                               *)
NeedsManualRecovery(c) == wallet[c] = "deleted" /\ link[c] # "absent"
RetriedDeleteCompletes ==
    \A c \in Cards : row[c] # "absent" ~> row[c] = "absent" \/ NeedsManualRecovery(c)

-----------------------------------------------------------------------------
(* The inductive invariant behind DeletedWalletHasNoLink and               *)
(* DeleteOkMeansGone, in parts.                                            *)

(* An issue draws fresh ids: no two work on one card.                      *)
OneIssuer ==
    \A q, r \in Requests :
        pc[q] \in IssuePc /\ pc[r] \in IssuePc /\ job[q].card = job[r].card => q = r

PcFitsJob ==
    \A r \in Requests :
        /\ pc[r] \in IssuePc => job[r].op = "issue" /\ job[r].card \in Cards
        /\ pc[r] \in DeletePc => job[r].op = "delete" /\ job[r].card \in Cards
        /\ pc[r] \in OtherPc => job[r].op \notin {"issue", "delete"}

(* The wallet comes first.                                                 *)
WalletFirst ==
    \A c \in Cards : wallet[c] = "none" => link[c] = "absent" /\ row[c] = "absent"

(* Until its row is inserted, nobody but its issuer adds to a new card.    *)
Building == {"createWallet", "createLink", "insertCard"}
BuiltSoFar ==
    \A q \in Requests : pc[q] \in Building =>
        LET c == job[q].card IN
        /\ row[c] = "absent"
        /\ pc[q] = "createWallet" <=> wallet[c] = "none"
        /\ pc[q] # "insertCard" => link[c] = "absent"

(* Issues keep apart and build in order, whatever is deleted meanwhile.    *)
IssuesApart == OneIssuer /\ PcFitsJob /\ WalletFirst /\ BuiltSoFar

(* Nor does anybody take from it, except on LNbits' own page.              *)
BuiltInOrder ==
    /\ BuiltSoFar
    /\ \A q \in Requests : pc[q] \in Building => wallet[job[q].card] # "deleted"

Deletes(r) ==
    pc[r] \in DeletePc \/ Answered(r, "delete", "ok")
NotBuiltAndDeleted ==
    \A q, r \in Requests :
        pc[q] \in Building /\ Deletes(r) => job[q].card # job[r].card

(* A deletion proceeds from link to wallet to row, and what it has passed  *)
(* stays behind it.                                                        *)
DeletedInOrder ==
    \A r \in Requests :
        LET c == job[r].card IN
        /\ pc[r] \in {"dropWallet", "confirmWallet"} => link[c] = "absent"
        /\ pc[r] \in {"probeLink", "dropCard", "confirmCard"} =>
              link[c] = "absent" /\ wallet[c] \in {"deleted", "purged"}
        /\ Answered(r, "delete", "ok") =>
              /\ c \in Cards
              /\ link[c] = "absent" /\ wallet[c] \in {"deleted", "purged"}
              /\ row[c] = "absent"

(* Issues build in order, deletions undo in order, and never on one card   *)
(* at once: what the two theorems about deletion rest on.                  *)
DeletionSafe ==
    /\ OneIssuer
    /\ PcFitsJob
    /\ WalletFirst
    /\ BuiltInOrder
    /\ NotBuiltAndDeleted
    /\ DeletedInOrder
    /\ DeletedWalletHasNoLink

=============================================================================
