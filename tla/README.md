# Denchi Card, specified

A TLA+ development kept beside the Denchi Card extension for LNbits: models of its
server and of its pages, TLC configurations that check them on small instances, and
proofs that TLAPS checks. Paths and line numbers refer to `src/`.

Run a check with `tlc -config CardFaults.cfg MCCardService`, a proof with
`tlapm CardServiceProofs.tla`; `PROJECT.json` lists every run with its module and
configuration, every theorem, the mutants that each property must reject, and the lines
of code each definition stands for.

## 1. The system

A **card** is three records kept by three owners: an LNbits *wallet* (the money), a link
of the *Withdraw* extension (what a tag's URI points to, enabled or disabled), and a row
of `denchi.cards` that ties them together. No transaction spans them. Everything hard in
this code follows from that, from handlers being coroutines that interleave at every
`await`, and from page scripts doing the same around one dialog object.

| part | state | operations | talks to |
|---|---|---|---|
| Card lifecycle: `services.issue_denchi`, `delete_existing_denchi`, `crud.py`, `views_api.py` | the three records | issue with rollback, delete with retry | LNbits core functions, Withdraw's HTTP API (in process), its own table |
| Enabled state: `set_denchi_enabled`, `disable_all_cards` | Withdraw's `enabled` and the other fields of a link | GET then PUT, one card or all, ten at a time | Withdraw's API |
| NFC endpoints: `get_nfc_write_data`, `mark_denchi_nfc_written` | `nfc_written` | give out the URI of an Unwritten card, mark it Written | Withdraw's API, its table |
| Operator page: `static/js/index.js` | list, paging, dialogs | issue, write a tag, toggle, disable all, delete | the API, Web NFC |
| Public lookup: `get_public_lookup_with_hash` | none | find a card by its URI, check its link, read balance and history | LNbits, Withdraw |
| Lookup page: `static/js/lookup.js` | scan and lookup controllers, generation, client-side cooldown | scan, look up, print | the API, Web NFC |
| Receipts: `receipt.py`, `api_print_receipt` | printer lock, table of automatic prints | print one receipt, suppress repeats | a TCP printer |
| Profiles: `crud.py`, `models.py` | `denchi.profiles` | create, list, delete | its table |
| Card list: `get_cards`, `enrich_denchi_page` | none | one page of cards, then one GET per card | core database, Withdraw |
| Migrations: `migrations.py` | the schema, the imported rows | m001 to m005, once each | both databases |
| Tools: `tools/bulk_topup.py`, `tools/denchi-terminal` | none, and a snapshot of cards | credit matching wallets; show and print a tapped card | LNbits' APIs, a reader, a printer |

What makes each part correct, and what is hard about it:

- **Card lifecycle.** Calls fail, answer after an effect that is never heard of, or are cut
  short by a restart; other requests and the owner's own use of the Withdraw and LNbits
  pages come in between. A failed issue must say what it left behind; a deletion must not
  claim success early, must never delete a wallet whose link is alive (the link could then
  only be removed by hand), and must be resumable from wherever it stopped.
- **Enabled state.** An answer must be true of the link at some moment of the request; a
  list read earlier must not make a bulk action pass over a card; the PUT must not change
  what it did not mean to.
- **NFC writing.** A card must be Written only if a tag carries its URI, and a written tag
  must get recorded without a second write, although every step may fail and the dialog's
  fields are read after awaits.
- **Receipts.** One receipt at a time; automatic ones of a card a cooldown apart, none
  suppressed without cause; nobody waits forever.
- **Lookup page.** Only the tag tapped last is shown, waited for and printed, although
  answers come in any order; automatic prints keep a cooldown that prunes its own table.
- **Operator page.** A list that was not overtaken shows what is set, and the notification of
  a toggle is true of the card, although a list has been asked for in between.
- **Public lookup and terminal.** A card is only found when it was whole at one moment; its
  history has no gap and the terminal's table no missing card, although both are read by
  offset from lists that change.
- **Top-up.** The script is additive, so its report must be true however calls fail.
- **Migrations.** A run that stopped part way can be repeated and overwrites nothing.

`PROJECT.json` lists the hazards one by one with their lines, the properties that cover
them, or why none does yet.

## 2. Modules and code

**CardService** models lifecycle, enabled state and NFC endpoints together, because they
meet on the same records. One action is one awaited call with the code up to the next
call; `pc[r]` names the call request `r` makes next, so that any other request can run in
between.

| variables | code |
|---|---|
| `wallet`, `owner` | LNbits' wallets: none, active, deleted (`delete_wallet`), purged (`force_delete_wallet`); their account |
| `link`, `settings` | Withdraw's link: absent, on, off; its other fields: currency, the two amounts, and a title that stands for all those passed on as they are |
| `row` | the row of `denchi.cards` and its `nfc_written` |
| `withdrawOn` | what `ensure_withdraw_available` asks |
| `pc`, `job`, `out`, `fails` | a handler's position, arguments, status code (`"no_wallet"` is the 500 "Failed to create Card wallet.") and `rollback_failures` |
| `sub`, `got` | per card: where an enable or disable stands, and the link data its GET returned |

| requests | actions |
|---|---|
| `POST /cards/issue` | `IssueStart`, `IssueCreateWallet`, `IssueCreateLink`, `IssueInsertCard`, `IssueLoadCard`, and on the error path `IssueUndoCard`, `IssueUndoLink`, `IssueUndoWallet` |
| `PUT /cards/{id}/enabled`, `POST /cards/disable-all` | `SetStart`, `SetFindWallet`, `BulkStart`, `BulkSnapshot`, then per card `UpdateGet`, `UpdatePut`, at last `UpdateDone` |
| `DELETE /cards/{id}` | `DeleteStart`, `DeleteFindWallet`, `DeleteProbeLink` or `DeleteDropLink` and `DeleteDropWallet` and `DeleteConfirmWallet`, then `DeleteDropCard`, `DeleteConfirmCard` |
| `GET /cards/{id}/nfc`, `POST /cards/{id}/nfc-written` | `NfcStart`, `NfcFindWallet`, `NfcGetLink`; `MarkStart`, `MarkWrite`, `MarkReload` |
| not a request | `Crash`, `ExternalLink`, `ExternalDropWallet`, `SwitchWithdraw` |

A call's outcome is `ok`, `refused` (an error, nothing done) or `lost` (done, but answered
by an error). Every fault counts towards `MaxFaults`. What is merged or left out:

- `get_owned_denchi`, `get_profile` and `ensure_withdraw_available` are read-only and run
  first; they are one step with the arrival of the request, and a failure of theirs, which
  would answer without doing anything, is left out. A missing Profile is a free choice.
- A card slot stands for the ids that an issue draws; they are random and never repeat,
  so the slot is drawn when the request starts.
- The semaphore is acquired in the same step as the GET it protects.
- A malformed answer of Withdraw, a mismatch of ids, amounts in another currency that are no
  numbers, an invalid URI: the call failed. The error status of a failed call is that of its
  most common cause.
- `Sent` is what `withdraw_update_request` makes of a link's data: Withdraw answers the amounts
  of a link in another currency than sats in hundredths and takes them in units, so they are
  divided by 100 (`services.py:432-441`). A quotient is kept as a pair of numbers. `Stored` is
  what Withdraw makes of the request. It is not part of this repository: it is taken to multiply
  by 100 and to round to whole hundredths, so that what the float division loses does not show.
- A key is refused when its wallet is not active; Withdraw answers 404 when it is
  switched off. These are assumptions about LNbits and Withdraw.

**CardHistory** adds to CardService what was true at some moment, or at every moment,
since a request arrived: an answer speaks of that, and the final state no longer shows it.

**NfcDialog** models the write dialog of the operator's page. A call `t` is one run of
`prepareNfcWrite` or `retryNfcWrite`; all of them share the one `dialog` object, as in the
code. `call[t].card` is the card whose URI is being fetched or written, later the one
named in the URL of the status update. Web NFC has one pending write: a new `reader.write` aborts
the earlier one. `issueCard`'s reload of the list is one step with the answer of its POST.
The early returns of `writeNfc` in an unsupported browser, and the post-write scan, which
touches no state of the page, are left out. `OneAtATime` is a discipline of the operator:
no dialog is opened while an earlier call is unfinished.

**Receipt** models `api_print_receipt` and `print_receipt`: token and mode checks, lookup,
the lock and its queue, the cooldown table with its pruning, the send. Time passes between
any two steps, also during a send, because `_send_bytes` may exceed its timeout in
`wait_closed` (`receipt.py:195`). Connecting and draining have timeouts, closing has none;
fairness assumes that it ends as well. `started` is observed, not in the code.

Operators marked FAULTY are slips the code could have made. No action uses them: each is
what a definition is replaced with to see that a property notices.

**CardContract** is what the service promises without saying how: a card is the set of its
records that exist; a request is what it was asked for until it is answered; each step
changes at most one record, of the card the request is about. Records are made wallet first
and removed link first, row last; "ok" to an issue means that the row is there at that
moment, to a deletion that nothing is, to a request for the URI that wallet and link are.
**CardRefinement** maps CardService onto it: `parts` are the records that are neither absent
nor deleted, `doing` is the kind of the request until its `pc` is back to idle, `answer`
forgets the status code. `ImplementsContract` is `Contract!Spec` under that mapping.

**CardLife** is what those see of it who only read the records: while a card is made (an issue
of it is under way) records are added, the link after the wallet; with its row, or when the issue
gives up or is cut off, it is in `made` and nothing is added any more; what a rollback, a deletion
or another page removes stays removed. CardRefinement maps CardService onto it too
(`ImplementsLife`), with changes on other pages included, and PublicLookup and Terminal are
built on it: the composition of the two halves is this module.

**OperatorPage** models `index.js` without its NFC dialog, and the list the server answers it
with. `list[s]` is one `getCards`: each of the four operations awaits one of its own after
its answer, `Browses` are those of paging and filtering that nobody awaits. `Reads` is
`get_cards`, `Enrich` the query for one row's link, after which `ListTaken` or `ListFails`
runs the code behind the await. What toggles, deletions, issues and bulk requests do on the
server is CardService's subject; here they take effect in one step, fail, or fail after having
taken effect. `unborn`, `stored`, `written`, `link` are the server; the other variables are
the page's `data()`. Left out: `rowsNumber` (so `Turn` may go to any page, the table's own
corrections included), the search by wallet name, which filters as `denchiNfcFilter` does, the
client-side choice of `denchiEnabledFilter`, and the profile table.

**LookupPage** models `lookup.js`. `card[l]` and `gen[l]` are the local variables of one run of
`handleReading` that waits for its fetch; `controller` is `denchiLookupController`.
`denchiLookupGeneration` is only ever compared with what waiting runs remember, so
incrementing it is choosing a value that none of them has: a finite set suffices. The
`error` text and browsers without Web NFC are left out.

**PublicLookup** models `get_public_lookup_with_hash`: `lpc` is its next call. The cards it
reads live as CardLife says (`CardMoves`), one step of theirs between any two of its own. A call
that fails ends it with a 500.
`pays` are the payments of the wallet by time, of this link or another one, succeeded or
pending; the history is the set `shown` of those in it and its length `size`, which counts
one that turned up twice twice.

**Terminal** extends it with `terminal.py`: `tpc` is the next call of the program, `items`
what `fetch_paginated` has so far, `todo` and `table` the cards of `build_admin_lookup`
before and after their link was read. In public mode a tap runs a lookup; in admin mode it
is looked up in the table. A process that ends forgets everything. LNbits' own list of
wallets is taken to answer a page and its count together; `GET /cards` is not, since
`get_cards` counts first (`crud.py:88`). A new row is mostly the first, but rows of one moment
are ordered by id (`crud.py:114`), and the order of wallets is not known, so `Insertions` lets it
turn up anywhere.

**BulkTopUp** models `tools/bulk_topup.py`: `pc` is the next `request_json` or prompt. A call
answers, fails, or takes effect and fails to answer. The amount is one credit.

**Migration** models `m005_import_giftcard` over the tables that m001 to m004 have made: two
SELECTs, then one INSERT per row, profiles first. A run that is cut off or raises is run
again; its statements may have been kept or undone (`Aborted`), since the extension does not
decide that. The unique index on `withdraw_lookup_hash` (`migrations.py:46`) is left out: rows
with different ids are taken to belong to different Withdraw links and so to differ in it.

Each `...Proofs` module holds the theorems about the module it is named after;
**MCCardService** and **MCCardHistory** the symmetry of the instances.

## 3. Runs

| run | bounds | shows |
|---|---|---|
| `card_faults` | 1 card, 1 account, 2 requests, 2 faults of any kind, links toggled, edited and removed from outside, Withdraw switched | `DeletedWalletHasNoLink`, `DeleteOkMeansGone`, `RowsStayDeletable`, `ImplementsContract`, `ImplementsLife` |
| `card_answers` | the same sizes, 2 calls refused or without an answer, links toggled and wallets deleted from outside | `RollbackReport`, `SetAnswerWasTrue`, `BulkAnswerWasTrue` |
| `card_races` | 2 cards, whose links are in no currency or in euros, 2 accounts, 2 requests, no faults, semaphore of 1 | `HandlersGoOn`, `OnlyOwnersAct`, `SettingsSurvive`, `CallsRunOut` |
| `card_retries` | 1 card, 2 requests, 1 fault of any kind, wallets deleted from outside, fairness | `EveryRequestAnswered`, `RetriedDeleteCompletes` |
| `nfc_dialog` | 2 cards, 2 calls, 2 faults, one dialog at a time, fairness | `WrittenMeansTagged`, `RetryNeverRewrites`, `WrittenTagIsRecorded` |
| `nfc_overlap` | the same without faults and without that discipline | `WrittenMeansTagged` is violated |
| `receipt` | 2 cards, 2 requests, cooldown 2, clock to 5, fairness | `OneReceiptAtATime`, `AutoPrintsSpaced`, `SuppressedForAReason`, `EveryReceiptAnswered` |
| `operator_page` | 2 cards, one of them perhaps not issued yet, pages of 1, 2 requests of the operator, 1 list of paging or filtering beside those of the operations, 1 change by another page | `ListIsTrue`, `ToastIsTrue` |
| `lookup_page` | 2 cards, 2 overlapping lookups, cooldown 2, clock to 4, fairness | `LoadingIsTrue`, `ResultIsOfLastTap`, `AutoPrintsOnTime`, `TapsAnswered` |
| `terminal` | 3 cards, at most one issued later and one at a time with only some of its records, pages of 1, history of 2 in batches of 2, 3 payments, both modes, fairness | `HistoryHasNoGap`, `FoundCardWasWhole`, `TableIsComplete`, `EveryTapAnswered` |
| `bulk_topup` | 3 wallets, any number of runs, faults and interrupts, fairness | `ReportIsTrue`, `CreditsNeedConsent`, `EveryCreditReported` |
| `migration` | 1 profile and 2 cards with two contents, 2 runs cut off, 2 writes of Giftcard, fairness | `ImportFaithful`, `ImportCompletes` |

Why the bounds are enough. The records of one card interact with those of another only
through the semaphore and through ownership, so the runs about failures take one card and
the run about accounts two. There the semaphore has one permit, and a disable-all of two cards
must pass it on, also from a card that another request has deleted and whose update therefore
fails: `HandlersGoOn` says that no handler is ever stuck and `CallsRunOut` that none has calls
without end, so that every request is answered there too. `EveryRequestAnswered` itself, under
fairness and with faults, is checked with one card. Two requests show every pairwise race, an issue and a
deletion of its card included, since the card is listed as soon as its row is inserted;
each can be followed by further requests, so that a retry after a fault, or after a crash,
is among the behaviours. Two faults let an undo step fail after the step it undoes. In
`receipt`, one request sends while the other waits, or asks again and again; the clock
covers two cooldowns and the boundaries between them. In `operator_page` two requests of the
operator and the list each is followed by give up to three lists under way; pages of one card
make every deletion the last of its page. In `terminal` pages of one card, and batches of
two of three payments, let every insertion and deletion shift a border that is still to be read;
`MaxPartial` keeps the half-made and half-deleted cards to one, and two were checked as well.
In `lookup_page` a third lookup that comes while two wait would only be one more that is
aborted. `bulk_topup` has no bound but the wallets. In `migration` three rows of two tables
leave a row before and behind each cut. The inductive invariants of the proofs, and the type
invariants that no configuration names, were checked with the same bounds. `ImplementsContract`
also holds with two cards, two accounts and lost answers; `operator_page` lists the smaller of
two instances that were checked (3 requests without a change from outside).

What is assumed, and shows where it matters:

- `RowsStayDeletable` is about one fault. With two, a row whose cleanup fails can be left
  beside a purged wallet; no deletion finds it again (`services.py:754-765`), but the error of
  the issue names it (`RollbackReport`).
- `RollbackReport` excepts what a call makes that answers an error. When the POST that
  creates the link takes effect and its answer is lost, the link stays and is not named; the
  error is the 502 of that POST. When `create_wallet` does, the wallet stays and the error is
  "Failed to create Card wallet." (`services.py:710`). The property says that nothing else goes
  unnamed: a wallet whose rollback failed (`services.py:765`) is always named, whether or not
  link and row are left with it.
- `DeletedWalletHasNoLink` holds as long as `External` lacks `drop_wallet`. The owner who
  deletes the wallet by hand while its link is live meets the "Manual recovery" answer of
  `services.py:620`, and `RetriedDeleteCompletes` excepts exactly that state
  (`NeedsManualRecovery`).
- `SettingsSurvive` is about the extension's requests. An edit made on Withdraw's page
  between a GET and its PUT is overwritten.
- `ImplementsContract` assumes that no wallet is deleted by hand, as above: only such a wallet
  leaves a live link behind it.
- `ListIsTrue` speaks of a list that was not overtaken. When the answer of an older query
  comes last, the table shows it until the next one: `index.js` has no generation, unlike
  `lookup.js`. `moved` marks those states, and those in which a card has changed since.
- `TableIsComplete` excepts a deletion while the table is built, which shifts every later page
  (`terminal.py:129`), and a loop that ends on a count that is out of date because a card was
  issued between that count and its rows (`crud.py:88`, `crud.py:101`): it stops one short.
  `disturbed` marks exactly these; the terminal then refuses a card until it is started again.
  Cards issued at any other moment cost no entry.
- `HistoryHasNoGap` allows an entry to turn up twice, which a payment that arrives between
  two batches does cause.
- `ReportIsTrue` counts a top-up whose answer is lost as failed although it was credited, as
  the script does; what it excludes is a wallet credited and not listed, or printed as OK and not
  credited. The script says that running it again credits again.

**Fairness.** `Finishing` is weak fairness of each handler: an awaited call returns and the
event loop resumes the coroutine. `Retrying` is strong fairness of the owner who wants a
card gone and asks whenever a request can be made, as the error texts tell him to
("Retry deletion."). In NfcDialog, calls resume when answered, and the operator who sees an
error presses Retry or Cancel; presenting a tag, clicking and cancelling are nobody's duty.
In Receipt, lookups and sends end; nobody has to ask. In LookupPage every fetch ends; taps
and Stop Scan are free. In Terminal and BulkTopUp every call ends, at the latest by its
timeout; nobody has to hold a card to the reader, start a script or answer its question. In
Migration, LNbits is started again as long as the migration has not been recorded.
OperatorPage is checked for safety only.

**A divergence.** `nfc_overlap`: `issueCard` is awaiting its POST while the operator opens
the dialog of another card A and its write is pending. The answer opens the dialog of the
new card B over it (`index.js:176`), and presenting the tag before B's own URI has been
fetched writes A's URI; `markNfcWritten` (`index.js:329`) then posts for the card the dialog
shows, B. B becomes Written though no tag carries its URI, against "becomes **Written**
only after the browser reports a successful write" (`README.md:65`).

## 4. Proofs

For every set of cards, accounts, requests and settings, and every bound. **CardServiceProofs**
is about CardService, CardHistory and CardRefinement:

| theorem | property | assumes of the constants | inductive invariant |
|---|---|---|---|
| `TypeCorrect` | `TypeOK` | nothing | itself |
| `HandlersEnd` | `CallsRunOut`, and that `CallsLeft` is bounded | finitely many cards | `TypeOK` |
| `SetAnswersAreTrue`, `BulkAnswersAreTrue` | `SetAnswerWasTrue`, `BulkAnswerWasTrue` | nothing | `AnswersSafe` |
| `LeftoversReported` | `RollbackReport` | nothing | `IssuesApart`, `ReportKept` |
| `CardsLive` | `ImplementsLife` | nothing | `IssuesApart` |
| `SettingsKept` | `SettingsSurvive` | no link is edited by hand | `IssuesApart`, `ReadIsCurrent` |
| `DeletionIsSafe`, `NoManualRecovery`, `DeletionTellsTheTruth` | `DeletionSafe`, `DeletedWalletHasNoLink`, `DeleteOkMeansGone` | no wallet is deleted by hand | `DeletionSafe` |
| `Implements` | `ImplementsContract` | the same | `DeletionSafe`, `ContractSafe` |
| `NoRowStranded` | `RowsStayDeletable` | the same | `DeletionSafe`, `ContractSafe`, `RowsUndone` |
| `OwnersAct` | `OnlyOwnersAct` | nobody works on a card on Withdraw's or LNbits' own pages | `DeletionSafe`, `ContractSafe`, `ActsForOwner` |

"By hand" is `External`: what happens on other pages than the extension's. Each theorem holds
for any number of refused, lost and crashed calls.

*Types and calls.* `HandlersEnd` is the part of `EveryRequestAnswered` that does not need
fairness: `CallsAhead` counts the calls a request has ahead of it, and every step of a handler
lowers it. For an update the count is of cards, so that the lemmas about it (`Counts`,
`CardMovesOn`) are about cardinalities; the rest is one look at each action.

*Answers.* CardHistory remembers of every card and request whether the card was on, off,
missing or the account's at some moment, or at every moment, since the request arrived.
`AnswersSafe` says that a request is at the calls of its kind (`AtItsCalls`), that a card whose
update was settled was seen as it says (`SettledWereSeen`), that a bulk action has each card
that was the account's throughout in its list (`NoCardForgotten`), and that an "ok" was given
with every card settled (`OkIsSettled`).

*Issues.* `OneIssuer` keeps two issues apart (ids are fresh), `WalletFirst` makes a fresh id one
without link and row, `PcFitsJob` ties a request's position to its kind and `BuiltSoFar` says
how far each issue has come. Together they are `IssuesApart`, which holds whatever is deleted
meanwhile, on LNbits' own page too. The lemmas `IssueMoves`, `UpdateMoves`, `DeleteMoves`,
`NfcMoves` and `ClientMoves` say once what a step of each kind of request can move. `ReportKept`
follows each record of a failing issue from the undo step that should remove it to the answer,
and past it: nobody issues that card again and what is gone stays gone. `ReadIsCurrent` carries
what a GET has read to its PUT: in between only other updates write the link, and they write
back the same, since dividing by 100 and storing hundredths again is the identity whatever the
currency (`RoundTrip`), while a new link is only made for a card without a wallet, which nobody can
have read.

*The life of a card.* `CardsLive` is the refinement that the lookup and the terminal start
from, and needs no assumption. `MadeKept`, `LifeRests` and `LifeOfOne` say when a step
stutters or is one card's in CardLife's terms; `IssueMade` that a card becomes made exactly
when its issue inserts the row, gives up or is cut off. No other issue is at work on it then
(`OneIssuer`), and what this one had not built yet is not there (`BuiltSoFar`); every other
step, by hand or not, only removes.

*Deletions.* `DeletedWalletHasNoLink` is not inductive by itself. A wallet is deleted by a
request that removed the link several calls earlier, so `DeletedInOrder` must say that the link
is still absent, and nobody may create one in between. Links are created only by an issue that
is still building, so `NotBuiltAndDeleted` keeps issues and deletions off each other's cards: a
deletion starts from a row, and `BuiltInOrder` says that a card being built has none. The proof
has one step per action; `Bystander` disposes of the requests that neither build nor delete, of
the error path of an issue, and of changes from outside; `IssueFrame` and `DeleteFrame` say what
a step of an issue or a deletion cannot disturb.

*Contract, rows, owners.* `ContractSafe` ties a request's calls to what it was asked for, and
says that link and row are only ever made beside an active wallet; with it every action is
shown to be a step of the contract or to change nothing it speaks of: one lemma for each of
what the contract calls a gain or a loss of a record, one for each kind of request.
`RowsUndone` counts the faults an undo has behind it: one to begin, another to pass a row that
is still there, so that a wallet purged beside its row has cost two. `ActsForOwner` carries the
ownership check from the call that made it to the last call that relies on it.

The other components:

- Receipt: `ReceiptTypes`, and `PrinterNotShared`, `AutoPrintsAreSpaced`, `NoReceiptIsLost` from
  `PrinterSafe`: the lock is held by the one request that sends
  (`HolderSends`), the table agrees with history or has forgotten only what is over
  (`TableRemembers`), and a request in progress has no answer yet (`Unanswered`).

- NfcDialog: `DialogTypeCorrect`, `DialogWrittenMeansTagged`, `DialogRetryNeverRewrites`, assuming
  the discipline `OneAtATime` without which `nfc_overlap` fails, from `DialogSafe`: a call that
  fetches or writes is alone and Retry out of reach (`WriterAlone`), an open dialog holds its own
  card's URI (`OwnUri`), and what is being recorded has been written (`RecordsTags`). Several
  calls may still record at once, since Retry stays enabled during a status update it started.
- LookupPage: `PageLoadingIsTrue`, `PageResultIsOfLastTap`, `PageAutoPrintsOnTime`, from
  `PageSafe`. `GenerationSafe` says that a run of the current generation is the one the
  controller would abort, that it is for the last tag, and that every other run has been
  aborted; `TimesRemembered` that the table of times has forgotten only what is over. The
  one assumption is that there are more generations than runs.
- OperatorPage: `PageListIsTrue` from `ListSafe`, which follows the list started last from its
  question to its answer, and `PageToastIsTrue` from `ToastSafe`, which follows the toggled
  link from the server's step to the notification.
- BulkTopUp: `TopUpReportIsTrue` and `TopUpNeedsConsent` from `TopUpSafe`: the loop's wallets
  are those of the summary, each in exactly one of three sets (`LoopAccounts`), and credited
  only in its turn (`CreditsInTurn`).
- Migration: `MigrationImportFaithful` from `ImportSafe`: a run has inserted every row that it
  has not still to do.
- PublicLookup and Terminal, in TerminalProofs: `TerminalTypes`; `HistoriesHaveNoGap` and
  `OnlyWholeCardsFound` from `LookupSafe`, `TablesAreComplete` from `TableSafe`. They assume
  that there are finitely many cards, at least one. A payment still missing from the history
  lies behind the offset and behind everything shown (`MissingLiesBehind`): payments that
  arrive or succeed only push others further back (`Newest` and its lemmas), and a batch
  that is not full has nothing behind it, by counting. A card found was whole because
  nothing is added to a card that has its row: what is seen of it later was there together
  with the row (`SeenTogether`). That is CardLife, which `CardsLive` proves of the service,
  so the two theorems about reading rest on a proof about writing. A card that was there at
  the start is in what was fetched or still ahead in the list (`NoCardPassedOver`), and when
  the number fetched reaches the count nothing is ahead, unless that count is no longer that of
  the list just read.

Only model-checked: `HandlersGoOn`, which is about ENABLED, and liveness (`EveryRequestAnswered`, `RetriedDeleteCompletes`,
`WrittenTagIsRecorded`, `EveryReceiptAnswered`, `TapsAnswered`, `EveryTapAnswered`,
`EveryCreditReported`, `ImportCompletes`), which needs fairness; both are beyond TLAPS here. Every other property of the passing runs has a theorem.

## 5. Not modelled

- **Profiles.** `create_profile`, `get_profiles` and `delete_profile` are one statement each on
  one table, keyed by id and account; validators look at one request. Nothing interleaves, and
  a property would restate the statement.
- **What things look like.** Receipts, pages, tables of the terminal, notification texts other
  than the toggle's.
- **Parsing.** URLs, settings, arguments: one guard each, which an input passes or fails.
- **A restart of the server during a print**, which forgets the printer lock and the table of
  automatic prints by design. Nothing speaks of them across a restart.
- **Registration of routes**, and the hardware: the reader and the printer are actions that
  happen, or calls that end.
