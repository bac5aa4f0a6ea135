# Stock-memo: a specification of its write paths and shared state

Stock-memo is a multi-user trading journal: a Flask server over one SQLite
file, a browser front end in plain JavaScript, and an HTTP API through which
trading bots report executions. This directory holds TLA+ models of the parts
in which several actors, failures or long histories meet, the TLC runs that
check them on small instances, and theorems whose proofs TLAPS checks. Paths
below are relative to the repository's root.

## 1. Inventory

The server is one process with several threads (README.en.md, "Deployment
Shape"). State lives in SQLite (`app/database`), in attachment folders
(`uploads/.users/<id>`), in the memory of the process and in the browser.
Requests that change an account run one at a time under the account's lock
(`app/routes/auth.py`, `app/utils/userlocks.py`) and each inside one
`BEGIN IMMEDIATE` transaction (`db_conn(write=True)`); reads take no lock.

| Component | State | Operations | Interacts with | What is hard | What makes it correct |
|---|---|---|---|---|---|
| Entry store (`services/entries.py`, `write_receipts.py`, `database/audit.py`) | entries, entry_changes, entry_requests | create, update, delete, resolve_review, bot insert/patch/delete, restore | editor, bots, restore, caches | requests made from old reads; retries | a revision names one content; a keyed write happens once and is answered alike |
| Sell integrity (`database/entry_logic.py`) | the trades of a position, in order of time | check, conflict, flag | entry store | changes in the middle of a history | no shortage without a question or a mark |
| Entry editor (`static/js/10-transfer.js`, `23-editor-draft.js`, `14-history.js`) | form, pending write, drafts in localStorage | open, type, submit, retry, close, restore draft | entry store through the network | lost answers, late requests, expired logins | one record per record written; no lost update |
| Ledger and profit (`domain/trades.py`, `services/ledger.py`, `realized_pnl.py`, `accounts.py`, `integrity.py`) | stored profits, brokers, split rules | every write of a trade, mappings, splits, rules and their preview | entry store, bots, screens, historical prices | a profit rests on rows that others change; names linked to codes; splits | stored profits are those the trades give; reported ones stay; a preview comes true |
| Journal, statistics, valuation, analysis (`services/journal.py`, `stats.py`, `valuation.py`, `analysis.py`) | none (derived) | portfolio, chart, statistics, curve | ledger | four passes over one history, in two units of shares | they agree; lots add up; a recovery is one |
| Caches (`utils/statscache.py`, `journal.py`, validators in `routes/api.py`) | cached snapshots, data versions | snapshot, page, 304 | entry store | commit, then invalidate | no outdated answer once the write was answered |
| Trading API and bots (`trading_api/`) | bots, commands, bot records | heartbeat, ack, resync, remove; trades one by one or in batches, pages | entry store, the bots' own memory | lost answers, bots that stop, commands that expire | a command starts once; "done" was done; no execution is missed; no deleted record returns unasked |
| Historical prices (`services/historical_prices.py`) | jobs, leases, assets, prices | plan, claim, run | vendors, ledger | a worker that lost its lease | one fetch at a time; closes stay; jobs end |
| Quotes (`services/quotes.py`, `prices.py`, `jobs.py`) | kept quotes, price slots, fetches under way | submit, join, refuse, take, fetch | vendors | threads that finish in any order; failures after the close | kept quotes never go back; "current" is current; the close stands |
| Backup (`services/backups.py`, `jobs.py`) | archives, status row, retention | manual and daily run, verify, prune | records, accounts | failures and crashes in the middle of a run | the last success was one; good copies stay; missed runs are made up for |
| Restore and recovery (`services/restores.py`, `restore_recovery.py`) | records, folder, workspace, journal, marker, blocked names | restore, roll back, recover at start | backups, account deletion, attachments | a crash between any two steps; failures while undoing | atomic for the owner; the server comes up |
| Authentication (`routes/auth.py`, `ownership.py`, `csrf.py`, `services/users.py`) | session cookie, epoch, locks held by a request | login, logout, password change, approval, deletion | every request | checks before a wait; lock order | a revoked session changes nothing; no deadlock |
| Rate limits (`utils/ratelimit.py`) | counters per name and address | failure, success, allowed | login, sign-up, reset | windows that end | bounded attempts; no eternal lock-out |
| Attachments (`services/images.py`) | files | store, release | entry store, restore | shared files, failing saves | a referenced file exists |
| Browser screens (`static/js`) | page memory | render, refresh | journal API | answers that come after the screen left | the last request wins |

`PROJECT.json` lists the same components with their status, and under
"hazards" the places where each hazard bites.

## 2. Modules

| Module | Models | Checked by |
|---|---|---|
| `EntryStore` | the transactions on one account's entries | run `EntryStore`, `EntryStoreProofs` |
| `EditorSession` (extends `EntryStore`) | editor, network, drafts, login | runs `EditorSession`, `EditorSessionDuplicate`; `EntryStoreProofs` |
| `SellIntegrity` | positions and what web and bots may do to them | run `SellIntegrity`, `SellIntegrityProofs` |
| `TradeRules` | identities, positions, order, splits, the profit of a sell | through `TradeLedger` |
| `TradeLedger` (extends `TradeRules`) | every write that bears on positions and profits | run `TradeLedger`, `TradeLedgerProofs` |
| `TradeScreens` (extends `TradeLedger`) | what four screens compute from the trades | run `TradeLedger`, `TradeLedgerProofs` |
| `StatsCache` | the cached journal index, its version, HTTP validators, pages | run `Answers`, `ServicesProofs` |
| `BotCommands` | heartbeats and commands of bots | run `Answers`, `AccessProofs` |
| `BotTrades` (extends `BotCommands`) | executions, resends, backfill, resync, listings | run `Answers`, `AccessProofs` |
| `HistoricalJobs` | the queue that collects daily closes | runs `HistoricalJobs`, `HistoricalSplit`; `HistoricalJobsProofs` |
| `QuoteService` | the shared fetches of current prices | runs `Answers`, `ManualRefresh`; `ServicesProofs` |
| `BackupJob` | the full backup and its scheduler | run `Backups`, `ServicesProofs` |
| `AtomicRestore` | what an account promises its owner | property of `Backups` |
| `RestoreRecovery` | restore, crash, recovery on disk and in the database | runs `Backups`, `RestoreTornJournal`; `RestoreRecoveryProofs` |
| `AccountAuth` | who may do what to which account: checks, locks, epochs, keys | run `AccountAuth`, `AccessProofs` |

`MC...` modules give the constants small values; `...Proofs` modules hold
theorems, and `FoldLemmas` what they need about folds over finite sets: it models
no code. Operators introduced by a comment "Mutant:" are not part of a
specification: each is a plausible bug of the operator it stands before, and
the properties are known to find it. `TypeOK` and its like state the shape of a
state; where a module has proofs they are proved.

### EntryStore

`entries` is the table of one account; a row is its web columns (`text`), the
columns the server computes (`derived`: review flag, reason, realised profit),
`bot`, and `rev`. `seq` is the last id of `entry_changes`, `receipts` is
`entry_requests`. `Restamp` is the update trigger
(`MAX(OLD.revision+1, last_insert_rowid())`). Every action is one transaction
including what it does at its end: `Recompute` stands for `realized_pnl.refresh`,
the review flags of other rows and the account identities, which may change the
derived columns of any rows, each with a change row of its own. Rows that
predate the triggers have revision 1 and no change row (`Legacy`).
`seen`, `applied` and `answers` are history.

A row that was written, deleted and written again under its old id - by the
browser's proposed id, by SQLite's next id, by a restore of the archive's ids -
must not get a revision a reader still holds. `RevisionNamesOneContent` says
so, and the stale check of update and delete rests on it. `ExecutedAtMostOnce`
and `RetriesAgree` are the contract of the receipts.

Left out: ids an archive shares with another account, the deletion of the
account with its receipts (the key of `entry_requests` is the user id, which is
never given again), and the reasons of `invalid` and `confirm` (SellIntegrity).

### EditorSession

One tab. `form`, `pending` (`window.editorPendingWrite`), `waiting` (the write
submit awaits), `offered` and `draft` follow the code's variables; `request`,
`answer` and `late` are the network: a request whose answer nobody awaits may
be executed at any later time or never. Serving a request takes the actions of
`EntryStore`. `intents`, `made` and `dropped` are history: which record the
user set out to write, how often it was created, and whether a refusal made the
editor drop its key. `requiresConfirm` is answered with the same key and
`force=1`, or cancelled. Requests for which a second refresh of the CSRF token
is needed are refused requests. `world` never changes; it says what a behaviour
is about (how many records are written, whether others write, whether logins
end, how many requests may be late).

`DuplicatesOnlyAfterRefusal` says that nothing but a refusal can lead to a
duplicate - neither timeouts nor closed forms, killed tabs and restored
drafts. That a refusal can is the finding of `EditorSessionDuplicate`.
`NoLostUpdate` says that an update the server executes finds the row as the
user saw it when the form was opened, however late the request is.

### SellIntegrity

`ledger` maps ids to trades (kind, quantity, day, position, settled, bot,
review). `Balance` is the running sum in `entry_order`; `Available`, `Conflict`
and `Flag` are `check_sell_integrity`, `oversell_after_change` and
`flag_oversold_sells`. Sums are cardinalities of sets of shares, which keeps
the module free of recursion. `pos` stands for the position key, which
`TradeRules` derives from names, codes and brokers. `WebNeverDeepens` and
`NoSilentShortage` compare the worst shortfall of each position before and
after a step.

### TradeRules, TradeLedger and TradeScreens

A table is a function from the ids of its entries to rows; `env` is what else
the rules read: registered broker names (`links`, `owner`), published splits, and the
user's split rules. `Identity` is `identify_entry`, `LinkedCode` the linking of
names to codes, `Earlier` is `entry_order`, `Prepared` the rows as
`services/ledger.py` hands them to every reader (identified, linked, in today's
shares), `HoldingBefore` and `Computed` are `apply_trade`. `Refresh` is
`realized_pnl.refresh`; it is inside the action of every write that calls it,
and only under the conditions under which the code calls it
(`RefreshIfChanged` of an update or a patch, `PublishSplits` only for users who
recorded the code).

`given` remembers the profit last reported for an entry and `preview` is the
split dialog with its token. `world` says what users, bots, brokers and vendors
send in one behaviour.

`ProfitIsCurrent` is the contract of the stored profits: at every moment they
are what a recomputation would store. `ReportedProfitStays` and
`EarlierProfitsStay` say what a recomputation may not do; the second excepts a
trade that gives a code to a name without one (`LinksStay`), because a later
namesake moves the earlier trades to another position. `PreviewIsWhatHappens`
compares what the split dialog showed - the holdings of the stock, the profit
realized with all stocks - with what confirming stores, whatever happened in
between. The token of the dialog covers the rows and the splits of its own stock
only; a split of another stock that matters to the profits changes stored
profits, and with them rows, so the token no longer fits (`OtherStockWorld`).

`TradeScreens` has the passes of the portfolio (new shares, order of time), of
the historical valuation (old shares, by trading day, splits first), of the
statistics and of the analysis. A pass is a fold over a set of trades or events
with an order that says which one comes last. Entries have ids of their own, so
the orders leave nothing open but splits of one position on one day, of which
the code keeps one and vendors and rules give one.

`ScreensAgree` compares the first two passes for every class of trades. It
excepts positions that are not `Comparable`: those whose trades were recorded in
two time zones, for which trading days do not follow times, and those with a
trade known only by a name that is the code of the others, which a split of the
code does not reach.

`LotsAreHoldings` ties lots to holdings. `RecoveryIsReal` compares the two
one-pass computations on the curve of profits with what the whole curve says: how
deep it fell below an earlier height, where it first was that deep, and when it
first was back. The statistics sort by date and time, where the trades of bots
have a date only and count as midnight; the analysis sorts by date. On a day
that has trades of both kinds the two go through different curves, so that they
show the same fall is said for the others only (`OneKindADay`).

Left out is the snapshot of published splits that a user takes over with a
restored archive (`user_split_snapshots`): all users see one table of them.
One account number and one currency; prices are multiples of a unit that makes
every division exact, so the rounding of averages is left out. The clamped
holding of `apply_trade` (`Sold`) and the unclamped balance of the check
(`Net`, `SellIntegrity`) differ after an excess sell; no property relates the
two, since the code does not. Whether the web asks before it takes a buy away
is in `SellIntegrity`; a user may always confirm, so every such step is
possible here.

### StatsCache

Records are abstracted to the number of commits they include: what a
transaction reads is `db` at its first statement. `cache` is the one entry of
`_stats_cache` a user has (`journal-index`); `version` is `_BOOT_ID` and
`_data_versions`; `reader` is what a request knows between two steps: the
validator taken first, the version taken by `snapshot()`, what it read. Every
call of `statscache` is a step of its own, because `_lock` covers no more.
`FailAfterCommit` is an exception between commit and `invalidate` (unused
attachments are removed in between): the change is answered with an error and
the cached index misses it until the next change. The properties therefore
speak of `announced` changes - followed by `invalidate`, as all that are
answered with success. `held` is every response a browser may send back as
`If-None-Match`; there is no action for a 304, because it changes nothing and
`NotModifiedIsCurrent` is demanded of every moment at which it could be sent.

Left out: the owner's id in key and validator, other users' keys, and the
preview of splits, which is not cached.

### BotCommands and BotTrades

The bots are not part of the repository. What is assumed of them follows the
API's documentation and how the server treats them: commands taken and
acknowledgements owed (`machine`) are in memory and lost at a restart; the log
of executions and the queue of unanswered ones are durable; a bot that was off
looks back from `last_sync` on before it goes on (`asleep`, `Backfill`).

`bots`, `cell` and `commands` are the tables (`users.bot_status` is `cell`,
the bot without an id). Times are ages that stop growing one beyond the limit
the code compares them with, since nothing depends on more. `Heartbeat` is the
whole route: it stores the report, applies an acknowledgement, takes a command
if one is open, and its answer may be lost (`heard`) - the command is then
spent, as the code intends (at most once).

`BotTrades` numbers executions by time. `Send` and `Deliver` are a request and
a batch (some rows of which may fail, and whose answer may be lost); `Resync`
sends an old execution again for a command that is under way; `NextPage` reads
records back by cursor while others are written and deleted. `stored` and
`over` are history.

`NothingSlipsThrough` ties the server's `last_sync` to the bots' queues: an
execution that was never recorded is queued or will be looked for.
`RevivedOnlyIfAsked` protects what the user deleted. `GreenMeansAllRun` is
proved only (theorem `GreenIsGreen`).

### HistoricalJobs

One asset. `jobs` has a row for each range of days, and one without days
(`AssetOnly`) that asks for splits alone; a range is planned anew by queuing its
row again, as `ON CONFLICT` does. `worker` is the local state of `run_one` in
the thread of each server process: claiming, reading the cache and storing are
transactions of their own, the vendor is asked between the last two. `checked_at`
and the deadlines of jobs are the time that has passed, in the steps the code
compares with (`Minute`, `Day`, `Elapse`). `lease_until` identifies a lease, so
`claims` numbers them. A process may end (`Crash`), and a fetch may take longer
than its lease (`ElapseLate`): its time limits are those of single reads.

A close is a pair: the splits the vendor divided it by, which are all it knows
when it answers (`adjusted`), and the splits the worker multiplied it with
(`undone`), which it was told of before - in the answer of `FetchAsset`, or by
metadata up to a day old that saves that question. It is the price of the day's
trades if the two are the same (`AsTraded`). Asking for the asset and asking for
the closes are two steps, because a split may come between them, and the
metadata ages in the worker's hands.

`StoredAsTraded`, that every verified close is such a price, is what the adapter
promises and is false (run `HistoricalSplit`). What does hold is
`ClosesFitSplits`: verified closes are undone with the very splits the asset is
stored with, never some with older ones, and once the asset has all splits there
is no wrong close left. A close that misses a split is wrong for as long as the
asset misses it, which the next question, after a day, ends.

`NobodyWorksInVain` and `JobsEnd` hold for late fetches as well, each of which
may add one. `VerifiedClosesStay` and `ClosesFitSplits` are stated without
them, and are false with them. A comment in `run_one` says that a worker that
lost its lease does not overwrite newer results; what the code checks is that
nobody has claimed its job again. Between the end of the lease and that claim
another job may run, find a split and store it, and the late worker then stores
the splits of before over it, and closes that fit neither. Plans of three days
may also overlap (a plan bridges days that are at another job), so that the one
that claims the job next, with what it read before, may erase a close. The
splits come back with the next job that finds the asset a day old.

Left out: the split of a plan into batches - the days of the instance lie
within one -, the watchers that only decide what is planned, and the
recomputation of profits in the same transaction (`PublishSplits` of
`TradeLedger`).

### QuoteService

`fetch[r]` is the future that request `r` submitted, `inflight` the fetch of
each market mode, `lock` the moment between `submit` and `add_done_callback`:
a fetch that ends in between calls its callback in the request's own thread,
which holds the lock. `ask` is what a request waits for; `Take` is a request
that got its answer or ran out of time. `slots` are the rows of `price_cache`,
of which only the presence matters, and `quotes` the answer kept in
`quote_cache` for each mode: its status, when it was looked at, its slot.

Time is counted in moments, `PRICE_MEM_TTL` of which make the 50 seconds a kept
quote serves polls; `Phase` says where in a trading day each moment lies, so
that a kept quote may be served in a later phase than it was looked at in. The
phase is read when a fetch begins and again after the provider failed
(`LastResort`), as in `_fetch_price_uncached`; between the two, and before the
price is kept, time may pass. A kept quote is served as it is. Saving a slot may
fail in silence (`SaveSlot`), and reading or writing the kept quote may raise
(`FetchFails`), upon which whoever waits answers without a price. `Refuse` does
not depend on the fetches of the model: the 300 places are shared with the
fetches of other stocks.

`AnswersAreCurrent` says how old a price may be that is called current: 50
seconds before it was asked for, and no older than the question if the fetch is
that of a manual refresh. A request that joins a fetch under way asked, in that
sense, when the fetch began. A manual refresh that joins the fetch of a *poll*
may be served the kept quote, against two comments (`ManualIsLive`, run
`ManualRefresh`). `CloseStands` speaks of every answer in the KRX mode, kept
quotes included: once the close has been known, and the market closed, for
longer than a quote is kept, nothing else is called the current price. Within
these 50 seconds a poll may still be served a trade made after the close.
Left out: foreign stocks, funds and gold, and the memory cache of `fetch_price`.

### BackupJob

`row` is `backup_state`, `run` the run that holds `_backup_lock`, `copies` the
archives of every account and of the database. `CopyTarget` writes, verifies,
renames and prunes; each step of a run may fail, and `Stop` is a crash between
any two. `Wake` is the scheduler, which takes a row that says "running" while
the lock is free for an interrupted run. Time is counted in half days, so that
03:00 and midnight differ; a run that began at 02:59 and one that ends the next
day are not told apart from others of their half day. Accounts whose name is
older than the rule for names have no folder to copy (`Nameless`): the run
passes them over and still succeeds, so `LastSuccessIsTrue` does not promise
them a copy.

`LastSuccessIsTrue` covers what a later failure, a deletion of an account or
the retention may do to the copies a success promised (`promised`, history).

### RestoreRecovery and AtomicRestore

`folder`, `work` (journal, staging, retired) and the database part (`owner`,
`data`, `markers`) are what survives a crash; `pc`, `op`, `had`, `archive`,
`todo`, `blocked` are memory. Each statement that changes the disk or commits
is an action; `Crash` may come between any two, `Raise` replaces any step
before the commit and the ones after it. `rmtree` removes a user's folder in
two steps (it may be found `Torn`) and a workspace entry by entry in any order.
Start-up recovery examines one workspace after the other and is interrupted
like anything else. Signing up takes the lock of the name, as restoring and
deleting do.

`AtomicRestore` has the account's records and attachments in one step each.
The refinement mapping shows as attachments what the next start would leave
(`Settled`): the retired folder of a restore without marker, the folder
otherwise. `ServedAccountIsWhole` is stricter for the moments at which requests
are answered: the folder itself must fit the records. `ComesUpUnlessStuck`
names the two situations in which every start fails: a torn journal, and a
committed restore whose workspace could not be removed while a later one of the
same account was interrupted with the folder put aside (`CommittedLeft`).

### AccountAuth

`users` and `keys` are the tables, `records` stands for all other data stored
under a name and remembers whose requests wrote it. `request` is what a thread
is at: it takes its locks in turn (`Arrive`, `TakeLock`), is checked with the
last one, and runs its handler, one transaction, before the locks are released.
Reads take no lock (`CheckRead`), and what they show is from the snapshot in
which `validate_owner` looks again (`Read`). A client may send any cookie or
token it ever got (`cookies`, `tokens`). `Tool` is `tools/reset_password.py`:
another process that knows no locks, so `ChecksHoldUntilTheEnd` is stated for
accounts it was not used on; all other properties hold with it.

The check is one step with the last lock: what others do between the two, they
might have done before. Requests without the lock wait at their first one, and
nothing but the name is known of them, so a request begins when it gets it.
`Write` does not repeat the check of the owner, because some handlers do not;
`NothingIsInherited` therefore shows that the locks alone suffice for writes.

Left out: expiry, CSRF, scopes, wrong passwords and rate limits (they refuse,
`Refuse`), and administrators' requests for a reset.

## 3. Runs

| Run | Instance | Shows |
|---|---|---|
| `EntryStore` | 2 ids, 2 texts, 2 derived values, 1 key, `MaxSeq` | `RevisionNamesOneContent`, `ExecutedAtMostOnce`, `RetriesAgree` |
| `EditorSession` | four worlds: two records of one text or of two, one with a late request and logins that end, and one existing record that others write, too | `DuplicatesOnlyAfterRefusal`, `NoLostUpdate` |
| `SellIntegrity` | 3 trades, quantities 1 and 2; in one world 2 days, in the other 2 positions and orders cancelled and reinstated | `WebNeverDeepens`, `NoSilentShortage` |
| `TradeLedger` | nine worlds of up to 4 trades: classes, splits, previews of two kinds, names without codes, bots, time zones, a curve of profits, openings | `ProfitIsCurrent`, `ReportedProfitStays`, `EarlierProfitsStay`, `PreviewIsWhatHappens`, `ScreensAgree`, `LotsAreHoldings`, `RecoveryIsReal` |
| `Answers` | the index: 2 reads, 2 changes at a time, 2 commits, 1 restart; prices: 2 requests, 5 moments from before the opening to after the close, 2 of which make the 50 seconds; bots: 2 bots with 2 commands, or with 1 command and 2 executions and pages of one row, or with 3 executions | `NotModifiedIsCurrent`, `ReadsSeeAnsweredChanges`, `PagesAreCurrent`; `QuotesNeverGoBack`, `AnswersAreCurrent`, `CloseStands`; `DoneMeansDone`, `CommandsRunOnce`, `NothingSlipsThrough`, `ListingIsComplete`, `RevivedOnlyIfAsked` |
| `HistoricalJobs` | 2 processes, 2 days, 2 plans; a crash, a split or both, or a late fetch | `NobodyWorksInVain`, `ClosesFitSplits`, `VerifiedClosesStay`, `JobsEnd` |
| `Backups` | backup: 2 accounts, one of them without a folder, 2.5 days, copies kept for one, 1 failure, 1 crash; restore: 2 accounts of a name, 2 restores, 2 crashes, rollbacks may fail, workspaces may remain after a commit | `LastSuccessIsTrue`, `GoodCopiesStay`, `CatchesUp`; `ServedAccountIsWhole`, refinement of `AtomicRestore`, `ComesUpUnlessStuck` |
| `AccountAuth` | 2 requests, 2 names with a lock each, 2 changes to accounts or keys | `NothingIsInherited`, `ReadsShowOwnAccount`, `ChecksHoldUntilTheEnd`, `NoCircularWait`, `AdministratorsStay` |
| `EditorSessionDuplicate`, `RestoreTornJournal`, `HistoricalSplit`, `ManualRefresh` | the smallest instances of their modules | a finding each |

`Answers` and `Backups` put parts side by side that answer alike, or that make and
use the same archives, but share no state. Their variable `part` says which one a
behaviour explores, so that each is explored in full and the product of them
is not; fairness is assumed of the part that is explored. In the restore part
of `Backups` the database has just been backed up, so that no backup is due.

Bounds. Two ids let the id of a deleted row be given again; two texts let a row
return to an earlier content; one key is enough because receipts of different
keys do not meet. Three trades are a buy, the sell that needs it, and a third
that comes between them or replaces it. Two crashes let a recovery be
interrupted; a restore that is followed by another one, by a deletion or by a
new account of the same name needs two of each. `AccountAuth` starts without
accounts, or with both established, or with the user's name taken a second time
and the cookie and token of its first owner still around; two changes are then
one under the feet of a request and one that uses what it left, and two
requests are as many as can wait for each other.

The worlds of `TradeLedger` are each rich in one thing, because their product
is out of reach: four events make a curve fall, recover and fall deeper; a
split between two trades may be published before or after both are recorded,
and a second one on a later day; two scopes of a rule, two brokers of one
account, two stocks under one name. The worlds of `BotTrades` bound what may
happen in one behaviour (`BotsNext`): two commands for two bots let a late
acknowledgement meet another command; three executions, two of one bot, let a
bot stop between two of its own while the other one reports. The theorems have
none of these limits. In `Backups` a run ends within the half day in which it
began, and two and a half days let an archive grow too old and a missed backup be
made up for. For the prices two requests are the one that fetches and the one
that joins, in one mode, or one in each mode at one moment; with 50 seconds of
two moments a quote kept during the session is served after it, and
three moments after the close let one that was kept before the close was known
run out. The splits of `HistoricalJobs` come with a process that ends or without,
a late fetch without either (`Mishaps`).

`MaxSeq`, `MaxUsers`, `MaxOps`, `MaxCrashes`, `MaxCommits`, `MaxBoots`,
`MaxPlans`, `Mishaps`, `MaxKeys`, `MaxChanges`, `MaxCommands`,
`MaxFailures`, `MaxStops`, `LastTime` and `LastMoment` bound counters and appear
in guards only, as do `intents` and `late` of the worlds of `EditorSession`. In
`RestoreRecovery` the workspaces of failed restores are always removed: if the
removal of one can fail (`CleanupMayFail = {"failed"}`), a journal can survive
its staging and make the next start remove attachments that were added
meanwhile, and `ServedAccountIsWhole` does not hold. Deadlock is checked in
every run.

Fairness. The safety properties of every run hold without any. `FairSpec` of
`RestoreRecovery` assumes that the process goes on with the restore, purge or
start it is in, and that a server that is down is started again; in
`HistoricalJobs` that each worker thread goes on (`worker()` loops, and
`jobs.start_all` starts it with the server) and that deadlines pass;
`BackupFairness` that the run of a backup goes on, that the scheduler looks
again, that its quarters of an hour pass, and that a server that is down is
started again. Each is weak fairness. Crashes, requests, failures and actions of
users are never assumed to happen, nor is their absence.

### Findings

Each of these runs checks one statement of the repository and ends in a
counterexample:

- `EditorSessionDuplicate`: a retry refused with 401 (or another answer below
  500) makes the editor forget the key of a write that was executed; the next
  save duplicates the record.
- `RestoreTornJournal`: a crash while the journal is written leaves a file that
  makes every start fail.
- `HistoricalSplit`: a split that the vendor knows of when it returns closes, but
  did not when it was asked about the asset, is not undone: the closes are
  stored as verified, divided by its ratio, until the asset is asked for again.
- `ManualRefresh`: a manual refresh that finds the fetch of a poll under way is
  served the quote that was kept, up to 50 seconds older than the refresh.

## 4. Proofs

All theorems hold for every value of the constants, under the named assumptions
of the module. What they assume is shape: ids are positive and finite in
number, null values are no members of the sets they complete
(`IdsAssumption`, `NullsAssumption`, `EditorAssumption`, `BotAssumption`,
`RowAssumption`, `TradesAssumption`, `QuoteAssumption`, `MarksAssumption`),
bounds are numbers and days are numbered (`BoundsAssumption`,
`QueueAssumption`), quantities are positive (`LedgerAssumption`), legacy rows have
revision 1, executions are numbered,
quantities, prices, times and profits in `TradeLedger` are whole numbers and
splits finitely many (`NumbersAssumption`), the
tables a behaviour of `TradeLedger` starts with have the columns of a row and a
bot's patch can name neither the id of a row nor the source of a profit
(`WorldsAssumption`), retention
is positive (`BackupAssumption`), there are finitely many locks, numbered, and
every name has one (`AccountAssumption`, `RowsAssumption`).

**`EntryStoreProofs`** proves all properties of the run `EntryStore`, type
correctness and that a row never changes without a greater revision; then both
properties of the run `EditorSession`, and that a session uses the store only
as `EntryStore` says (`SessionsUseTheStore`), so that everything proved of
`EntryStore` holds under the editor.

- For revisions (`NearCounter`, `SeenBehind`): a live row's revision is at most
  `seq + 1`; every version ever committed is at most the revision of the row
  that is in the table under its id, or at most `seq` if there is none; and a
  committed version whose revision equals the row's is that row.
  `RevisionNamesOneContent` alone is not inductive: it does not say that a
  revision to come is new. A restamped row gets more than its old revision, and
  at least the number of its own change row; a row created under the id of a
  deleted one gets a change row's number beyond `seq`, so a chain of updates
  may not have driven revisions above the counter - which `NearCounter` bounds.
- For receipts: a key without receipt was never executed nor answered, and a
  key with a receipt was executed once and answered only with it.

Each action has a lemma that reduces it to "some rows are written with
consecutive change rows", and `Recompute` has one lemma for all of them.

- For the editor's updates (`FormInv`, `CarriedInv`, `ResultInv`): whatever
  write the form, a draft or the network carries was made from a version that
  was once committed, and carries that version's revision. With
  `RevisionNamesOneContent` a row that has the revision of a request is then
  the row the user saw. It takes that a receipt names a committed version,
  because a form that was typed in while its save was under way goes on from
  the answer; that a draft's pending write belongs to the draft's slot; and
  that there is never a request and an answer at once.
- For its creations (`IntentInv`), as long as no refusal made the editor drop a
  key: all creations of an intent that are carried anywhere - in the form, in
  the draft, awaited or late - have one key (`OneKey`), which has a receipt as
  soon as a record was made (`DoneIsReceipted`), so an accepted creation whose
  key is fresh is the first of its intent. `FreshInv` is why a submit without
  pending write may draw a new key: a form or draft without the write of its
  intent is of one for which nothing was ever sent.

The invariant was checked by TLC on the instance of `EditorSession` before it
was proved.

**`AccessProofs`** proves the properties of the bots in the run `Answers`, types, and that a
green indicator means that all bots run.
`CommandInv`: an id that was not given yet was never started or finished, a
command that did not go out was not started, and whatever a bot owes or a row
records as acknowledged is finished. `RecordInv`: what a bot knows of is stored
or queued, and what it does not know of happened while it was off and after
all it knows of - so looking back from its own last record misses nothing.
`OverInv`: a command that was over when a record was deleted is not under way
again, because commands are started once. `PageInv`: the rows a listing owes
are those it has and those below its cursor.

**`SellIntegrityProofs`** proves both properties of the run `SellIntegrity` and
types, for any trades, quantities, days and positions. The properties speak of
the worst balance in a history, and balances are sums over sets, which are
defined by recursion. What that definition does not say - that the order does
not matter (`NetWith`), that a sum depends only on what is summed (`NetOfSame`) -
is proved by looking at a minimal set for which it fails; the library's
well-foundedness of strict inclusion says that there is one. From this follows
what one row does to the balances of its position (`BalanceWith`, `BalanceOf`),
and from that the two halves of the check: `AdditionIsHarmless`, a row that
passes `check_sell_integrity` leaves no balance worse than the worst was without
it, and `RemovalIsHarmless`, nothing but a buy can be missed. `HarmlessRow` puts
them together: whoever deepens a shortage either wrote a sell that the check
refuses or changed a buy that `oversell_after_change` reports. Each action then
has a lemma that says which of the two it may do, and where the mark is. The
invariant is only the type; deficits of before do not matter.

**`TradeLedgerProofs`** proves the properties of the run `TradeLedger`, of
`ScreensAgree` the part about shares (`SharesAgree`).
`LedgerInv` adds what the refresh relies on: tables are functions, rows have
their columns. `Refresh` leaves alone what is `Provided`, and every write puts a
profit and its source into a row together. For `ProfitIsCurrent` the refresh has
to be idempotent (`RefreshAgain`): it changes profits, sources and identities,
reads none of the first two but where they are `Provided`, and an identity found
once is found again. Where the code does without a refresh, it would change
nothing: after corrections of columns outside `PnlColumns` (`RefreshUnread`),
and after splits of a code no entry has (`RefreshElsewhere`) - for that no name
without a code may stand for it either, which holds because a name gets its code
from an entry that has it. For `EarlierProfitsStay` no fold has to be unfolded:
the rows before a sell are the same set, so the holding computed from them is
(`PastStays`), and identities and codes stay because the table was current and
no name got a code. For `PreviewIsWhatHappens` the table a token names was
current when the dialog was computed and is current when it is confirmed, under
environments that differ at most in the splits of other stocks (`PreviewInv`).
Rows of the stock itself are prepared from what the token names
(`RowsOfStock`); what the sells of another stock earn is, under both, what the
table stores for them (`CurrentWorth`), which the rule does not touch.

The screens are folds in an order, over histories of any length. `FoldLemmas` has
what is known of such a fold, for any operation, as its constants are operators:
the fold of a set is the operation applied to the element picked and the fold of
the rest; sums do not depend on the order; a property that survives taking away
the last element holds of all finite sets. Each pass is an instance of it. That a
row holds numbers, after every write, patch, refresh and rescaling, is an
invariant of its own (`TradesAreNumbers`).

- `LotsAddUp`: after each trade the lots, all natural, add up to the holding
  (`LotsFit`). A sell takes from lot n what the ones before it could not give, so
  the first n together give the smaller of what they have and what is asked.
- `RecoveriesAreReal`: the state of a pass after an event is what the definitions
  say of the events up to it (`DrawdownIsFall`, `RecoveryIsReturn`): the height, the
  deepest fall, its first trough, and for the analysis whether the present fall
  contains it and where it ended. The last event changes heights and falls of
  no earlier one. Under `OneKindADay` both orders are one, and profits not known
  add nothing (`PassesAgree`).
- `ScreensShareAlike`: after every trade and every split, in the order of days, the
  position of the portfolio is that of the valuation times the splits still to
  come (`DayAgrees`). A split moves
  a factor from one side to the other; a trade is rescaled by just the splits after
  its day, and buying and selling commute with a factor, lot by lot.

**`ServicesProofs`** proves the safety properties of the runs `Backups` and
`Answers` for the three modules it is about. Of `BackupJob` these are `LastSuccessIsTrue` and `GoodCopiesStay`.
`RunInv`: whatever a run has ticked off has failed, has left, or has a good copy
as young as the run. `PromiseInv` says the same of the last success; it needs
`PeopleInv`, that an account that left does not return, or an earlier promise
would be asked for by it. A copy that goes is replaced by one of its day, or is
beyond the retention while a younger one was just placed.

Of `QuoteService` they are `QuotesNeverGoBack`, `AnswersAreCurrent` and
`CloseStands`, for any requests, lengths of the 50 seconds and schedules
of phases. `OneInv` and `LockInv`: a mode has at most one fetch, which is in
`inflight` until it is forgotten, and a fetch without callback is that of the
request that holds the lock. `FetchInv`: no kept quote is younger than the fetch
that is to replace it, and a current answer was looked at when its fetch
began, or within 50 seconds before if the fetch is a poll's. `WaitInv`: no
request was due after its fetch had begun. For the close, `Stands`, which
`KeptInv` says of what is kept and `FetchInv` of what is served: whatever was
looked at out of hours, later than the close has been known, is the close. A
slot that has a price never loses it, so a fetch that begins then finds the
close fetched or remembered, and what was kept before has run out by the time
of which `CloseStands` speaks.

Of `StatsCache` they are all of the index, and that the cache itself is current,
for any threads, commits and restarts. The inductive invariant says that every
version anybody holds is `NotLater` than the current one - so a version that has
gone never returns, not even after a restart - and that whatever was read after
a version was taken includes all announced changes as long as the version is
still the current one: nothing is announced without a new version.

**`AccessProofs`** proves all five properties of the run `AccountAuth`, for
any names, requests and locks, shared ones included. `LockInv`: a request holds
the lock of every name it may touch or still waits for it, and holds only locks
below those it waits for. Hence `CheckInv`, that what a granted request was
checked for holds whoever else handles one - the password tool excepted, after
which the account is at least still the same - and hence no circle: among
requests that all wait for each other, the one with the greatest lock would
wait for a greater one. `CookieInv`: ids of accounts are never given again, and
a session whose epoch is current knows the account's rights, so that no
session of an ordinary account is one of an administrator.

**`RestoreRecoveryProofs`** proves `ServedAccountIsWhole` and that the protocol
on disk and in the database implements `AtomicRestore`, for any number of
restores, crashes, accounts and backups. `FolderInv`: an account's folder either
is whole already, or every restore that a start would undo makes it whole
(`Restorable`): it puts the old folder back, or removes one where none was, or
touches nothing. `OnlyOne`: there is at most one such restore. While the
process is at a step, `PcInv` says how far the disk has come, and that the
marker is committed with the records or not at all; a recovery keeps what is
true of the workspaces it has not come to. The theorems suppose
`CleanupMayFail \subseteq {"committed"}`, as the run does: the workspace of a
*failed* restore is taken to be removed. Where it may remain they are false -
the next start undoes the restore once more and removes attachments that came
in since.

**`HistoricalJobsProofs`** proves the three safety properties of the run
`HistoricalJobs` and types. `OverdueInv` counts: the workers whose lease has run
out are no more than the fetches that were late. While there has been none, a
claim therefore finds every other worker idle (`OneByOne`), and what a worker
read before it asked the vendor still holds when it stores (`ReadHolds`), up to
the age of prices; hence it keeps verified closes. `FoundInv` and `SplitsInv`: a
worker that asks for closes knows splits to undo, its closes were adjusted for
at least those and at most for what the vendor reports now, and so were the stored
ones (`Undoes`). With the splits it stores, and those it puts in doubt, every
verified close is undone with the asset's splits (`UndoneFit`); if these are all
there are, the vendor cannot have adjusted it for more.

Only model-checked: liveness (`CatchesUp`, `JobsEnd`, `ComesUpUnlessStuck`),
which the provers cannot treat; and of `ScreensAgree` the average price. The
model divides whole numbers, and averages in shares before and after a split
are the same only where every division is exact, as in the worlds of the run: for
all worlds the formula is false of the model, though true of fractions.

## 5. Not modelled, and what comes next

Not modelled: rate limits (arithmetic on timestamps that only refuses
requests); input validation (checks of single fields); foreign stocks, funds
and gold, news and the memory cache of `fetch_price`; the reference counts of
single attachment files; rendering in the browser and requests that outlive the
screen that made them; search, calendar and tag counts; the distributions and
benchmark curves of the statistics; the format of an archive and the preview of
a restore; one-off migrations and the read-only audit report; deployment tools.

Order of further work:

1. Prices as fractions in `TradeScreens`, for which the average price of
   `ScreensAgree` can be proved as well.
2. A second tab in `EditorSession`, with which the draft slot of a new record
   is shared, and the cookie jar of a browser with late answers.
3. `Attachments`: files shared by entries, saves that fail half-way.
4. `RateLimit`: windows and lock-outs at their ends.
5. `JournalClient`: the front end's request contexts.
