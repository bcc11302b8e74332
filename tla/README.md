# Verification of the accounts backend

This directory models the parts of the accounts backend (`src/`: an Express API
over PostgreSQL, with Redis, SQS and several background runners) whose
correctness depends on what happens *at the same time* or *in between*: cash
changing hands, requests competing for a small connection pool, signals and
messages that must survive crashes and must not go out twice. TLC checks the
models on small instances; TLAPS proves the main safety properties for every
value of the constants.

    tlc -workers 2 -config MCCashWalletTransfers.cfg MCCashWallet.tla
    tlapm CashWalletProofs.tla

Paths below are relative to `src/src` of the repository unless they start with
`docs/` or `test/`.

## 1. Inventory

### The system in one paragraph

Staff of an organization record money at *sites*. Every financial row (expenses,
plot payments, cheques, day book ...) is projected by triggers into
`cash_flow_entries`; cash receipts are projected once more into the *custody
ledger*, which says which person holds which cash at which site. People hand
cash to one another (*handovers*) or turn it into another person's imprest float
(*wallet-to-imprest transfers*); the Admin distributes a site's cash to staff,
who spend, return and claim it (*imprest*). One or a few API processes share a
PostgreSQL pool with a small limit and keep a response cache each; background
runners in the same processes deliver signals, reminders and Drive shares, and
two separate workers consume SQS queues of client messages and payment texts.

### Modelled components

| Component | State | Operations | What is hard | What makes it correct |
|---|---|---|---|---|
| Wallet write admission (`services/walletWriteAdmission.service.js`, `transaction()` of the two wallet services) | permit counter, queue of waiting promises, pool clients | acquire, queue timer, release, connect, commit/rollback | a timer and a release answering the same promise; a path that loses a permit; starving logins of clients | permits are conserved, bounds hold, no overtaking, two clients stay free, every request is answered |
| Cash custody ledger (migrations 199, 203, 208, 210, 212, 234) | `loyalty_vault_accounts/_entries/_sources`, source rows, `cash_flow_entries` | reconcile a receipt when either of its two rows changes; post with a debit guard | both halves of one receipt change at once; a receipt moves to another site or shrinks after its cash was handed on | postings equal what the receipt now says; nobody is overdrawn; the three readings of the ledger agree |
| Wallet handovers (`services/loyaltyVault.service.js`) | `loyalty_vault_transfers` | create, accept, reject, cancel, replay | two pending handovers of the same cash, repeated and concurrent resolution, retried creation, lock cycles | posts once and only if accepted; resolution is final; a retry finds its row |
| Wallet-to-imprest transfers (`services/walletImprestTransfer.service.js`, migration 232) | `wallet_imprest_transfers`, `imprest_ledger`, outbox | create, two acceptances, reject, cancel, replay | acceptance racing rejection and cancellation, participants removed from the site meanwhile | both accepted before cash moves; each step leaves its outbox row |
| Imprest inbox signals (`services/walletImprestNotifications.service.js`) | outbox rows, Bull queue, pump and drain loops | enqueue, deliverOne, drain, pump, job worker, start/stop | crashes between signal and COMMIT, lost COMMIT answers, Redis outages, two servers on one row, clients held while waiting | at least once to every member, left alone once delivered, delivered in the end |
| Event reminders (`services/eventReminderScheduler.service.js`, `services/eventReminder.service.js`) | `event_reminders` rows with status and attempts, one run per server, reconciliations under way | claimBatch, processRow, markFailure, retry, reconcileEventReminders, the six-hourly sweep | abandoned-claim recovery against a slow sender, lost statements, overlapping and deadlocking reconciliations, an event that moves while a batch is sent | a fresh claim is exclusive, a duplicate has a cause, settled rows stay settled, every reminder settles, every wanted reminder gets a row |
| Response cache (`config/cache.js`, `middlewares/cache.middleware.js`, `graphql/services/dashboardCache.js`, `services/requestHistoryQuery.js`, the single flight of the balance sheet) | stored answers, generation counter, unfinished shared reads | look up, authorize a hit, load, fill, join, invalidate on `finish`, expire | a read spanning a write; a hit waiting for its authorization; joining work that began before a write; a client that leaves before `finish` | nothing older than an acknowledged write is stored or answered; the rest expires |
| Client messaging (`controllers/managementAnalyticsMessaging.controller.js`, `services/clientMessagingQueue.service.js`, `workers/clientMessagingWorker.js`) | delivery rows, campaign totals, SQS messages | queue after COMMIT, record refusals, claim, send, record, recount, give up | redelivery to a second worker, AWS accepted but the record failed, the dead-letter queue, recounts overtaking one another | a duplicate has a cause; the promise of `MessageDelivery`; deliveries settle |
| Drive share jobs (`services/driveShareJobs.service.js`, `services/googleDrive.service.js`) | `google_drive_shares` rows, advisory lock per plot, running count, files in Drive | enqueue, claim under a cap, defer, list, upload with retries, finish, requeue at boot | a booting process requeues what another one works on; Drive carries out what it answers with an error; files deleted by hand | one file of an identity; the cap; every queued share settles |
| SMS reminders (`services/smsReminder.service.js`, `services/plotPaymentNotification.service.js`, `utils/sqs.js`, `workers/smsWorker.js`) | `sms_reminder_log` rows with dedupe keys, SQS messages, batches in hand | insert, hand over in batches, mark refusals, poll, send, mark, delete | overlapping ticks, a run that ends half way, a batch call that throws after SQS took it, visibility timeouts within a batch | one hand-over per key; the log tells the truth; only decided messages are deleted; the queue drains |
| Site cash and staff imprest (`controllers/imprest.controller.js`, `models/Imprest.model.js`, `controllers/approval.controller.js`, migrations 125, 195, 207) | site cash, floats, reservations, papers (handovers, requests, returns, expenses) | write, accept and refuse each kind of paper; transfers and adjustments | the site's cash is computed from several tables; decisions race; row, advisory and foreign-key locks mix | cash is not issued twice, reservations stay covered, a check holds until the rows are written, decisions are final |

How they meet: a handover or wallet-to-imprest request first takes an admission permit
(`WalletWriteAdmission`), then a pool client, then runs the transaction modelled
in `CashWallet`, whose COMMIT may insert the outbox row that
`WalletImprestOutbox` delivers. Receipts reach `CashWallet` through triggers, in
whatever transaction changed the financial row. `CashWallet` keeps
the set of outbox event keys (`outbox`), which is exactly the input of
`WalletImprestOutbox` (`Enqueue`); the admission gate is invisible to the ledger
because a refused request never opens a transaction. An accepted
wallet-to-imprest transfer credits a float of `ImprestAccounts`, whose cash it takes from a
person's wallet and not from what the site may distribute. Every write that
goes through a cached route is a `Commit` and a `Finish` of `ResponseCache`. The
reminder engine and the Drive runner share nothing with the wallets but the pool
and the processes they run in; the two SQS workers are processes of their own.

### Not modelled

The `components` of `PROJECT.json` list every part with its reason. In short:

| Component | Why it is left aside |
|---|---|
| Account WhatsApp messages | the claim and its interrupted-send rule are those of `ClientMessaging` on another queue; the rest is provider I/O |
| Compliance scheduler | its claim is that of `EventReminders` without the recovery (`services/complianceScheduler.service.js:300`: a claim of a process that dies stays PROCESSING); the rest is calendar arithmetic |
| Documented request transactions | savepoints of one request; the only concurrency is that request's own awaits |
| Backup and restore | export slots of one process and a restore while every other writer is stopped (`docs/BACKUP_RESTORE.md:53`) |
| Cheque clearance and approval | fan-out of a status over the mirrors of a dozen tables; the part that moves imprest cash, the approval of expenses, is in `ImprestAccounts` |
| Cashflow and plot money transfers | ordered advisory locks and idempotency keys as in `CashWallet`; the allocation over receipts is arithmetic |
| Seek-permission requests, edit requests, recycle bin | one guarded UPDATE per decision |
| Authentication and sessions, permissions | checks of one row, read again by every request |
| Bank reconciliation, installments, pool money, TDS, commissions | long sequential computations in one transaction |
| Day book, plots, registry, members, the older wallet, farmers, vendors, construction | record keeping; their cash reaches the custody ledger through the triggers that are modelled |
| Chat, Google Calendar, documents, dashboards, receipts, startup | best-effort sockets, provider I/O, reads, layout, schema scripts |

They are also the bulk of the lines: controllers that validate, query and format.
A model of them would repeat statements one by one and could not say more than
the code does.

## 2. Plan

Done, each with its proofs, in the order of importance:
`WalletWriteAdmission`; `CustodyTerms`, `CashCustody` (what the ledger promises)
and `CashWallet` with the refinement between them; `WalletImprestOutbox`;
`EventReminders`; `ResponseCache`; `MessageDelivery` (what a campaign promises)
and `ClientMessaging` with the refinement; `DriveShareJobs`; `SmsReminders`;
`ImprestAccounts`.

Worth doing next: several receipts in one transaction of `CashWallet`
(`migrations/203_unified_cash_wallet.js:69` locks them in row order); the
decisions on a cheque and its mirrors; the allocations of installments and
cashflow transfers as functions against reference definitions.

## 3. Modules

Every `MC...` module only adds what its runs need (symmetry, definitions for
constants, constraints). Mutants, the operators marked `Mutant:` in the modules,
are plausible bugs each property must catch; no specification uses them.

`FiniteSums` has the one operator two components share, `SumOver`: the `SUM(...)`
of a column over the rows of a table. Proofs are in modules of their own:
`CashWalletProofs` (admission and custody), `ImprestProofs` (imprest and its
outbox), and one for each of the other components; `FiniteSetFacts` has the
lemmas about finite sets and sums that both of the first two cite. Because two
pairs of components share a proof module, the gate and the outbox name their
specifications `GateSpec` and `OutboxSpec`, and what belongs to them likewise.

### WalletWriteAdmission

JavaScript runs a synchronous block without interruption, so one action is one
such block. `active` and `waiting` are the two variables of
`createWalletWriteAdmission`; `pc` is where each request stands in
`transaction()`; `others` counts clients held by every other route.

| Code | Definition |
|---|---|
| `acquire()`: free permit / full queue / queued | `AcquireFree`, `AcquireRefused`, `AcquireQueued` |
| queue timer | `QueueTimeout` |
| `permit()` release, hand-over to the oldest waiter | `Release` |
| `database.connect()` and its failure, `finally` of `transaction()` | `Connect`, `ConnectFailed`, `Finish` |
| `admissionFor()` limit | `Limit` |
| the shared pool | `OtherConnects`, `OtherReleases` |

### CustodyTerms, CashCustody, CashWallet

`CustodyTerms` is the vocabulary: what a receipt should post (`Posting`), what a
transfer row is, who may resolve it, when a resolution settles it. It is used by
both sides of the refinement. `CashCustody` is the promise of
`docs/cash-wallets.md` and `docs/wallet-imprest-transfers.md`: receipts change, transfers are
requested and resolved, each in one step, and no step leaves anybody with less
than nothing.

`CashWallet` is the implementation as PostgreSQL transactions running side by
side. A worker `Open`s a transaction, takes its locks one at a time in the order
of the statements (`TakeLock`), reads and decides (`Read...`, `Decide...`) and
commits (`Commit...`); `Abort` is a timeout, lost connection, crash, or a refusal
for a reason outside the model. READ COMMITTED reads see committed rows only, so
between two steps anything not locked may change.

| Code | Definition |
|---|---|
| `reconcile_loyalty_vault_entry` fired by the source row or by `cash_flow_entries` | `OpenSource`/`OpenEntry`, `ReadReceipt`, `DecideReceipt`, `CommitReceipt` |
| adjust in place or reverse and credit (migration 208) | `SamePlace`, `DebitOf`, `CreditOf` |
| `loyalty_vault_apply_delta` and its guard (migration 210) | `Post`, `Funded` |
| `createVaultTransfer`, `createWalletImprestTransfer` | `OpenRequest`, `ReadRequest`, `DecideRequest`, `CommitRequest` |
| `resolveVaultTransfer`, `resolveWalletImprestTransfer` | `OpenResolve`, `ReadRow`, `DecideResolve`, `CommitResolve` |
| advisory and row locks; `lockAccounts` of either service | `SiteLock`, `KeyLock`, `RowLock`, `EntryLock`, `AccountLock`; `HolderLocks` |
| `users` rows: FOR UPDATE by imprest transfers (`services/walletImprestTransfer.service.js:94`); FOR KEY SHARE by foreign keys | `UserRow`; `KeyShare`, `ReceiptLocks`, `RequestReferences`, `ResolveReferences` |
| participants' assignments, SELECT ... FOR SHARE (`:147`) | `MemberLock`, `ShareAssignments` |
| `enqueueWalletImprestNotification` | `Announce`, `EventsOf` |
| Site assignment by an administrator | `Assign`, `Unassign` |

Locks conflict as in PostgreSQL (`Conflicts`): a foreign key's KEY SHARE and
another transaction's FOR UPDATE of the same user exclude each other, shared
locks of one kind do not, everything else excludes itself. A receipt locks the
users it refers to when its row is written, before its deferred trigger asks for
the entry and the accounts, and the assigner once more when an entry is posted;
which users these are is left open (`References`). `ShareAssignments` is one
scan: it locks the assignments that are there and nothing for those that are
not, so one that is inserted after the scan (`granted` remembers it) is read by
the check without being locked.

Abstractions. A replay, a 403 and a 409
are all `Answer`: the transaction ends without a write. The refusals for an
administrator's wallet capped by cash in hand, for free site cash and for voided
receipts (212) only remove behaviours; each is an `Abort`. Holders are users
(members hold cash the same way). One transaction changes one receipt; bulk
changes are not modelled. `Transfers` bounds how many rows are ever inserted.

### WalletImprestOutbox

A *lane* is one place `deliverOne` can run: the drain loop of a server, or one
slot of its Bull worker.

| Code | Definition |
|---|---|
| outbox INSERT in the transfer's transaction, `next_attempt_at` | `Enqueue`, `ComeDue` |
| `SELECT ... FOR UPDATE SKIP LOCKED` and the recipients | `Deliverable`, `Claimed` |
| emit to each recipient, mark, COMMIT | `Signal`, `Deliver` |
| ROLLBACK, retry recorded on the same client | `Fail`, `RecordRetry` |
| `drain()` | `DrainNext`, `DrainFails`, `DrainFull`, `DrainResult` |
| `pump()` and `queue.add` | `Pump`, `AddJob`, `AddFails` |
| Bull worker; BullMQ itself (external) | `StartJob`, `ClaimJob`, `ClaimFails`, `JobDone`, `JobFailed`; `JobUnreported`, `Stalled` |
| start/stop/shutdown, crashes, Redis | `Boot`, `Stop`, `Exit`, `Crash`, `RedisDown`, `RedisUp` |

A crash releases every lock and loses every uncommitted change of the process; a
lost COMMIT answer is the second disjunct of `Deliver`. Which due row is oldest
and how long a backoff lasts are left open; claim and recipient query are one
step, because they are one transaction under the row lock and membership is
re-read on every attempt. A socket emit that reaches nobody is not a failure: the signal only
tells a client to read the database. Every fault uses up one of `Faults`.

### EventReminders

The reminders of one event. A row is a (slot, recipient) pair, a slot a
(reminder type, `scheduled_at`) pair: the UNIQUE key of `event_reminders`. What
`calculateReminderSchedule` computes from dates and time zones is the constant
`ScheduleOf`: the slots of each date the event may have.

| Code | Definition |
|---|---|
| `claimBatch`: recover, then claim with `FOR UPDATE SKIP LOCKED` | `Abandoned`, `Recovered`, `Claimable`, `Batches`, `Claim` |
| `processRow`: load the event, compare the schedule | `StillWanted`, `Check`, `CancelRow` |
| `deliverEmail`, `deliverFcm` | `Send` (accepted, skipped, refused, or accepted with the answer lost) |
| the UPDATE to SENT or SKIPPED and its audit row; `markFailure` | `Record`, `MarkFailure`, `Close` |
| an error that ends `runEventReminderScheduler`; end of the process | `RunThrows`, `Crash` |
| `retryEventReminders` | `Retry` |
| `reconcileEventReminders`, one statement at a time | `LoadEvent`, `LoadPreferences`, `Upsert`, `BeginCancel`, `CancelStray`, `Commit`, `Abort` |
| row locks of uncommitted reconciliations, PostgreSQL's deadlock detector (external) | `Locked`, `HeldByOther`, `Waits`, `DeadlockVictim` |
| `queueReminderReconciliation` after an edit; `reconcileFutureEvents` | `ChangeEvent`, `ChangePreferences`; `Sweep` |

Time is three flags: `due` (`next_attempt_at` and `scheduled_at` have passed),
`aged` (the claim is older than fifteen minutes) and `over` (`usefulUntil` of a
slot has passed). A reconciliation's writes become visible at `Commit`; until
then its rows are locked, which is all others can notice. Recovery and claim are
two statements of one transaction and one action. Which due rows are oldest,
the order of a batch and the order in which the cancelling UPDATE meets rows are
left open; the INSERT loops take equal schedules in equal order (`NextLocks`). A
recipient change the code does not follow up (a deactivated user) is
`ChangeUsers`; an edit whose queued reconciliation is lost is an edit followed
by `Abort`. E-mail and push go through the same status machine and are both
"mails" here. Texts, push-token housekeeping and the scheduler's health row are
left out. `sends`, `doubtful` and `slow` are history only: no guard reads them.

### ResponseCache

The cache of one process. What a key reads in the database is a version,
counted up by every `Commit` that touches it; what is stored or answered is the
version that was read. Three kinds of keys stand for the three ways a read is
served.

| Code | Definition |
|---|---|
| `cacheResponse`: lookup, hit with `authorizeHit`, miss | `Lookup`, `DecidePrivate`, `Authorize`, `Load`, `Answer` |
| `readDashboardCache`: look up again when overtaken, share the load | `DecideShared`, `Join`, `LoadFlight`, `EndFlight`, `FlightFails`, `Land` |
| `runHistoryQuery`, `getReportSingleFlight` | `BeginLive`, `Flights` |
| `nocache` | `BeginFresh` |
| `cacheSet` under the generation check | `Fill` |
| `invalidateCacheOnSuccess`, on the response's `finish`; a response that never finishes, or another process's write | `Finish`, `NextGeneration`, `Touched`; `Unannounced` |
| TTL, restart | `Expire`, `Restart` |

The prefixes a route invalidates are taken to cover what the route changes.
`acked` (the newest acknowledged version of a key) and a read's `floor` (what was
acknowledged when it began) are history. Left out: the rate limiter that keeps
its counters in the same store, and the admission queue of the history reads.

### MessageDelivery, ClientMessaging

`MessageDelivery` is what the messaging workspace promises of a campaign's
deliveries; its `void` says when nothing more is promised. `ClientMessaging` is
one campaign from the commit of its delivery rows. A worker of the model is one
message in the hands of a process.

| Code | Definition |
|---|---|
| `enqueueClientMessages` and what the request writes afterwards | `Enqueue`, `Enqueued`, `RecordRefused`, `RecordCampaign` |
| `processMessage`: parse, retired channel, claim, the branch of an unclaimable delivery | `Receive`, `Retire`, `Claim`, `Skip`, `UncertainOutcome`, `GiveUp` |
| the senders, the UPDATE to SENT, the catch block | `Send`, `RecordSent`, `RecordFailure`, `GivenBack` |
| `refreshCampaign`: its snapshot, its UPDATE, its failure | `Total`, `Refresh`, `Verdict`, `RefreshFails` |
| SQS (external): visibility timeout, redrive, DeleteMessage | `Reappear`, `Orphaned`, `Delete` |
| ends of the request and of a worker | `ApiCrash`, `WorkerCrash` |

A lost answer (`Lost`) is AWS accepting what the worker is told failed, or the
database failing where the worker has already sent. Recipient lookup, consent
filters, templates and the campaign list are left out.

### DriveShareJobs

`google_drive_shares` is the queue. A share of the model has one file, the same
for every share of its plot: two shares of one plot are what competes for it.

| Code | Definition |
|---|---|
| `enqueueShare` | `Enqueue` |
| `kickShareRunner` and `claimNext` | `Kick`, `Allowance`, `Claim`, `Batches` |
| `tryPlotShareLock`, the deferral | `Lock`, `LockFails`, `LockFree`, `Defer` |
| folders and listing, `withDriveRetry`, `upsertFile` | `List`, `LookUp`, `Put`, `PutFindsNothing`, `Retry`, `RetryFrom` |
| `finish`, the lock given back | `Record`, `Release`, `LocksLeft` |
| `startDriveShareRunner`; ends of processes | `Start`, `Requeue`; `Crash` |
| Drive and its users (external) | `Written`, `Remove` |

Two processes are justified by `docs/BACKUP_RESTORE.md:53,60` ("other API
instances", "all API instances"). Drive's listing is taken to be consistent, and a request
of a process that ended to be carried out before its successor lists. Contents
of files, folders, progress reports and a database failure inside `finish` (the
row stays `running` until the next boot) are left out.

### SmsReminders

A message is named by its dedupe key, a run is a tick of the hour or the approval
of a payment; `QueuedOnce` is what justifies naming messages so.

| Code | Definition |
|---|---|
| `queueRemindersForSite`, `notifyApprovedPlotPayment`: insert, collect | `Tick`, `Notify`, `Insert`, `IsNew`, `StartQueueing` |
| `enqueueSms`: batches, refused entries, a call that throws | `Enqueue`, `SendBatch`, `Chunks` |
| the UPDATE to failed | `Mark`, `ToMark` |
| `poll`, `handle`: send, `markLog`, delete | `Receive`, `Send`, `Record`, `Delete`, `MayDelete` |
| SQS (external): visibility timeout, receipt handles | `Expire`, `receipt` |
| failures of database and processes | `RunBreaks`, `WorkerBreaks` |

Manual sends (a new key every time), which reminders are due, and the texts are
left out. `handed`, `delivered`, `refused`, `rejected` and `stranded` record what
happened outside the database; no guard reads them.

### ImprestAccounts

One site. The Admin's account is the site's distributable cash, a member of
staff has a float. Every request is one transaction over a *paper*: written by
one request, decided by another. The locks it needs (`LockPlan`) are taken one
at a time in the order of the code (`Before`: the paper, what its row refers to,
the site, the accounts by id), then the balances are compared, then the rows are written, whose
foreign keys lock users' rows FOR KEY SHARE.

| Code | Definition |
|---|---|
| `createAllocation`, `createTransfer`, `createExpenseRequest`, `createExpenseFromImprest`, `adjustBalance`, `createReturn`, an Admin's expense | `Write` (kinds of `Paper`) |
| `confirmReceipt`, `approveExpenseRequest`, `acceptReturn`, `approveEntry` | `Accept`, `MayAccept` |
| `cancelAllocation`, `declineReceipt`, `rejectExpenseRequest`, `rejectReturn`, `rejectEntry` | `Refuse`, `MayRefuse`, `Restores` |
| `siteDistributable`, `imprest_available_site_cash`; `getBalance` | `Available`; `Balance` |
| reservations of `reconcile_imprest_debit` | `Held`, `Own`, `After` |
| `lockSiteDistribution`, `lockImprestAccounts`, the trigger's locks, foreign keys | `SiteLock`, `Accounts`, `EarlyReferences`, `LateReferences`, `LockPlan`, `Before`, `Firsts` |
| PostgreSQL (external): lock conflicts, deadlock detector | `Conflict`, `WaitsFor`, `ExplicitlyWaitsFor`, `DeadlockVictim` |
| other modules deleting cash receipts | `RemoveReceipt` |

A handler's check and the trigger's check of the same amount are one check. An
expense is decided by the Admin, its assignee, or, if it has none, a user with
the permission (`Reviewers`), who may be the one who spent; requests may not be decided
by who made them. Left
out: zero amounts, rounding and dates; the cap of the Admin's cash wallet
(migration 217); handovers escrowed by older versions; edits of an expense; the
later rejection of the expense an approved claim became; references of columns
whose foreign key is not declared in the repository.

## 4. Runs

| Run | Instance | What it shows |
|---|---|---|
| `write_admission` | 5 writers, limit 2, queue 2, pool 4 | the gate is safe (`GateSafe`), two clients stay free (`PoolHeadroom`), nobody is overtaken (`NoOvertaking`), every write is answered; the fifth writer is refused while two run and two wait |
| `receipts` | 2 workers, 2 users, 2 sites, 1 receipt, amounts 1 and 2, a foreign key or none | concurrent edits of both halves: `ReceiptInPlace`, `BooksAgree` |
| `transfers` | 2 workers, 2 users, 1 site, 1 receipt, 1 transfer of either kind, changing assignments, a foreign key on the member of staff | `NeverOverdrawn`, `NoExplicitCycle`, `BothAccepted`, `RetryNeverCollides`, `OutboxComplete`, `AcceptedByAssigned`, and the refinement `CustodyImplemented` |
| `outbox` | 2 servers, 1 row, 2 participants (1 moving), 1 job slot, pool 1, 1 run per job, 2 faults | `AtLeastOnce`, `DeliveredIsDone`, `EventuallyDelivered`, `PumpReturns` |
| `reminder_delivery` | 2 servers, 1 reconciler, 1 reminder, 2 attempts, 1 move, 1 edit, 1 fault | `ClaimIsExclusive`, `DuplicatesExplained`, `SettledIsFinal`, `EveryReminderSettles` |
| `reminder_coverage` | 2 reconcilers, 2 times of a day that share one of 3 slots, 1 move, 1 fault, no server | `EventuallyCovered`: every wanted reminder has a row in the end |
| `cache_reads` | 2 readers, 2 writers, a key of each kind, 2 writes of one key | `StoredIsCurrent`, `ReadYourWrites`, `StaleEntriesExpire` |
| `messages` | 2 deliveries (1 of a retired channel), 2 workers, final receive and redrive both 2, 2 faults of different kinds | `DuplicatesExplained`, the refinement `KeepsPromise`, `DeliveriesSettle` |
| `drive_jobs` | 2 shares of one plot, 2 processes, cap 1, 2 attempts, 1 end of a process, 1 lost answer, 1 removal | `NoDuplicateFiles`, `WithinCap`, `SharesSettle` |
| `sms_messages` | 2 keys, 2 runs, 2 workers, batches of 1, polls of 2, 1 fault | `QueuedOnce`, `LogIsTrue`, `DeletedIsDecided`, `QueueDrains` |
| `imprest_accounts` | 1 Admin, 2 staff (1 reviewer), 3 requests, 2 at a time, 1 removed receipt | `SiteNotOverIssued`, `AccountsSound`, `CheckStillHolds`, `ExplicitLocksOrdered`, `AcceptanceIsFinal` |
| `imprest_deadlock` | the same with 2 requests and both staff reviewing | *violated*: see section 6 |

Why these bounds are enough to be interesting: a race needs two transactions and
one contended object, so two workers and one receipt (or one transfer) reach
each hazard of `PROJECT.json`; two amounts let a receipt
shrink and grow, two sites let it move. In the outbox one row suffices for
double delivery, two faults allow a failed signal and a lost COMMIT or crash
in one behaviour; a pool of one client is where waiting for a second one hurts.
Two overlapping reconciliations read different dates, or
one before and one after a slot has passed, and can deadlock. Two workers and
two faults let a message be sent, lost and received again; the final receive is
the last one before the dead-letter queue, as in deployment (5 and 5:
`workers/clientMessagingWorker.js:129`, `docs/aws-client-messaging.md:31`), so a
worker may end on it; two Drive attempts
let the second find what the first made; a cap of one makes the second share
wait. Three imprest requests are two that write papers and one that decides
while another is under way. The mutants listed in `PROJECT.json` confirm that each
property does fail, within these bounds, under a plausible bug. What a bound
hides (a third transaction in a lock cycle, say) is what the proofs are for.

Constraints. `transfers` leaves two statements on the receipt at once to
`receipts` and to the proofs (`OneReceiptStatement`). `cache_reads` leaves behaviours that write more than one key to the
proofs (`OneKeyWritten`), `messages` those with a third fault (`TwoFaults`);
neither writes nor faults are fair, so that no behaviour that is kept depends on
those left out. `imprest_accounts` uses its transactions in turn, because they
are interchangeable, and assigns every paper that needs it (`InTurn`). Symmetry
is used only over the workers of `receipts` and `transfers`, which check no
liveness. `CHECK_DEADLOCK` is off where the system really ends: every row
delivered, reminder settled, campaign finished, share settled, request used up
(`outbox`, the reminder runs, `messages`, `drive_jobs`, the imprest runs).

The type invariants are theorems and not repeated in the runs, except where
they are part of `GateSafe` and `AccountsSound`.

### Fairness

*Admission*: the queue timer and the pool's connection timer fire
(`setTimeout`, `connectionTimeoutMillis`), and `statement_timeout` ends a
transaction. Nothing forces a request to arrive or a waiter to be granted.

*Outbox*: a lane that has a row goes on or fails, the drain, pump and worker loops run,
`next_attempt_at` passes, a stopped process exits and is started again by its
supervisor, a stalled job is noticed, and a `queue.add` under way is answered.
The last one is an assumption about Redis: with `maxRetriesPerRequest: null`
ioredis keeps a sent command until it reconnects, so if Redis never came back
the single pump, and the drain fallback behind it, would wait with it. No
fairness is put on crashes, outages or on Redis returning otherwise. The pool's
10-second connection timeout is *not* used: `PumpReturns` holds without it.

*Reminders*: time passes; every server polls once a minute and works on, also
when reconciliations lock and unlock a row again and again (strong fairness,
because PostgreSQL queues lock requests in their order); a reconciliation under
way goes on; the sweep comes round every six hours; a mail is accepted or fails
in the end (the mailer's socket timeouts), however late. No fairness is put on
edits, faults or the answers of the mail server.

*Cache*: a read under way goes on, a shared read ends or fails, entries expire.
Nothing forces a read to begin or a write to be acknowledged.

*Messages*: the request goes on until it ends, workers go on, queued messages
are polled for, and SQS shows a message again that no worker has. A slow worker
need not be overtaken.

*Drive*: the sweep's timer fires, runs go on while their process lives, a
process that ended is started again.

*SMS*: the hourly tick comes again, runs and workers go on, SQS shows a message
again when its timeout is over. Payments and faults are not fair.

The imprest runs check safety only.

## 5. Proofs

All proofs are checked by TLAPS without assumptions other than the named
`ASSUME`s on the constants: bounds are numbers, the roles of users and workers are
apart, and the tables and sets that are summed up are finite
(`TablesAssumption`). Every component has an inductive invariant (`IInv`;
`GateInv` and `OutboxInv` for the admission gate and the outbox) that its initial
states satisfy and every action preserves, shown action by action, and the
theorems are drawn from it.

**Admission** (`CashWalletProofs`, last part). `GateInv` = types, the queue holds
exactly the queued requests, once each, the counter counts the holders, no
permit is idle while somebody waits, both bounds. The properties need one
another: that a release hands its permit to the head of the queue keeps the
counter exact only because the head is a queued request, and that is what
`QueueIsQueued` says. `AdmissionSafe`, `HeadroomKept` and `GrantsInOrder`
follow.

**Custody** (`CashWalletProofs`). `NeverOverdrawn` alone is not inductive: a
commit debits what was checked two steps earlier. `IInv` adds that locks are
exclusive (`Exclusive`), that outside a transaction the sources row and the
ledger mirror the receipt (`SourcesMirror`, `LedgerMirror`), and for every worker what it
knows at each stage because of the locks it holds (`WorkerInv`): the row it read
is still the row, the funds it checked are still there. Each action of another
worker leaves that knowledge alone, because it would need one of the same locks.
From `IInv` follow `TypeCorrect`, `Solvency`, `PostedOnce`,
`ReceiptsReconciled`, `RetriesReplay`, `ResolvedForGood`, and `PromiseKept`:
every commit is one step of `CashCustody`, everything else stutters.
`AcceptedByBoth` and `OutboxTellsAll` hold because the events of a row
(`EventsOf`) are a function of the row: each commit adds to the outbox exactly
what the row it writes calls for, and a resolved row calls for nothing new.
`AssignedWhenAccepted` follows what an acceptance knows of its participants
(`SharedInv`): after the scan each assignment is locked, not there, or inserted
since (`Looked`), and after the check each is locked or inserted since. An
assignment that is locked is not removed before the commit; without FOR SHARE
the second step fails (mutant `ResolveLocksUnshared`).
`LedgerBalances` compares sums over receipts and transfers, not all of which a
commit touches: each commit changes one term of each sum (`SumDiffers`), by the
amount it posts. `LocksNeverCycle` is about the locks that are not
shared: whoever holds one of them needs only later ones (`Ordered`), because
every statement's locks come after those before it (`ProceedShared`). It
takes a set of workers that wait for one another's locks of this kind in a circle,
and in it one whose awaited lock comes last in the order of locks
(`MaximalElement`): the holder of that lock waits for a later one. This is for
any number of workers, where the run has two.

**Imprest** (`ImprestProofs`, first part). `SiteNotOverIssued` depends on what
other transactions checked and have not written yet, so `IInv` says of every
transaction what it is about to do (`Underway`): its paper is the one it read
(`Prepared`), and the locks it still needs come after all it holds (`Locking`).
With `NoConflict` this gives what the checks rely on: once a request has all its locks,
its payer's account, the site or a float, is in nobody else's hands
(`PayerIsLocked`). A commit changes cash, floats and papers at once; `Effects`
shows that together they take from the payer at most the amount checked, beyond
the paper's own reservation, and from anybody else nothing, and
`CommitEffects` restates that for the three readings of the books. Hence
`SiteIsCovered`, `FloatsAreCovered` (no float pays more than its reservations
leave) and `ChecksStayTrue`: a check outlives the commits of others, because none of
them takes from its payer, and it loses to a deleted receipt only what was
deleted. Two more parts are needed for the types. Rejecting an approved expense
returns cash to the site, and `GivenBack` says that this stays within what was
spent; a request numbers its paper within the bound, because papers, requests under way
and requests left together never exceed `Requests` (`Counted`).
`ExplicitLocksNeverCycle` is the order argument again, over the waits for locks
the code takes for update that are held that way; what its members hold through foreign
keys besides does not matter; `DecisionsAreFinal` needs that a decision holds its paper's row.

**Outbox** (`ImprestProofs`, last part). `OutboxInv` adds to the properties that no
two lanes work on one row (`Exclusive`), that a member not yet signalled is
still to be signalled by the lane that has the row (`NobodySkipped`), that a
drain in progress has not used up its batch, and that a running job has runs left.
`NobodyLeftOut` and `DeliveredOnce` (`DeliveredIsDone`: no delivery under way has
a delivered row, and no step changes one) follow.

**Finite sets and sums** (`FiniteSetFacts`). Sums are folds, and the
library's induction over finite sets takes an operator, which the provers cannot
instantiate. The induction is therefore done once, for sets (`SubsetInduction`): a family
of subsets of a finite set that has each of them whose proper subsets it has
has them all. It rests on the strict-subset relation
being well-founded on finite sets. From it come `SumRecursion` and what the other proofs
cite: a sum splits, agrees where the terms agree, is monotone, and changes by
what one term changes.

**Reminders** (`EventRemindersProofs`). `ClaimIsExclusive` needs to know of a
fresh claim exactly which statuses its row may have (`FreshClaim`), that fresh
claims of two workers are apart (`Alone`) and that what `claimBatch` takes for
abandoned is remembered as slow (`AgedIsSlow`). A reconciliation decides to
cancel a row long before it commits: `LockInv` says that no row is held by two
of them and that a held row can still be cancelled, because every other writer
waits for its lock. `OneMail` follows one mail from `Send` to `Record`. From
`IInv` follow `TypeCorrect`, `Exclusive`, `DuplicatesHaveACause` and
`SettledForGood`.

**Cache** (`ResponseCacheProofs`). The generation a read carries tells whether a
write was acknowledged since the read began. `IInv` says so of reads and of
shared reads that hold data (`LoadedIsCurrent`, `FlightsAreCurrent`), and that
the database is never behind what is acknowledged (`DataAhead`).
`CacheStaysCurrent` and `ReadsSeeAcknowledgedWrites` follow.

**Messages** (`ClientMessagingProofs`). `DuplicatesHaveACause` needs that a
queued delivery is in no worker's hands (`QueuedIsFree`), that one worker at
most is between claim and record (`OneSender`), and that a delivery that may
still be sent was not accepted before, unless that is in doubt (`AcceptedOnce`).
`PromiseKept` is the refinement: as long as no answer was lost and no worker was
too slow (`~Void`), what a worker knows of its delivery at each stage is true
(`Knows`), workers have different messages (`Apart`), a queued delivery was
never accepted (`Fresh`) and what is still to be queued or marked as refused has
reached nobody (`Unqueued`). Every step then is a step of `MessageDelivery` or leaves
the deliveries alone; once the promise is void, it stays void.

**Drive** (`DriveShareJobsProofs`). A run that lists, looks up or uploads holds
the lock of its plot (`HoldsLock`); one that is about to create a file is right
that there is none (`KnowsAbsent`), because only the lock's holder creates files
and a retry looks again. Hence `OneFileEach`. `CapKept` counts the runs of a
process together with the limit of the claim under way. `NothingIsForgotten`
needs that the run of a row marked running has still to write to it (`Pursued`).

**SMS** (`SmsRemindersProofs`). A key a run is about to hand over was never
handed over and is in no other run's hands (`HandoversAreFirst`); a run marks
only what it was told SQS refused (`MarksAreRefused`); what a worker is about to
record or delete happened (`OutcomesAreReal`). `HandedOverOnce`, `LogStaysTrue`
and `OnlyDecidedDeleted` follow.

Only model-checked: everything about liveness (`EveryWriteAnswered`,
`EventuallyDelivered`, `PumpReturns`, `EveryReminderSettles`,
`EventuallyCovered`, `StaleEntriesExpire`, `DeliveriesSettle`, `SharesSettle`,
`QueueDrains`), which is out of reach of this prover. Every safety property a
passing run checks is a theorem.

## 6. What the models say about the code

* Disagreement `imprest_deadlock`: `migrations/125_universal_imprest_enforcement.js:356`
  says that locking accounts in id order serializes debits, allocations,
  transfers, returns and adjustments "without deadlocks". An expense of the Admin
  inserted with a member of staff as its reviewer holds that member's `users`
  row FOR KEY SHARE through its foreign key when its trigger asks for the site
  lock; a transfer to the same member holds the site lock when it asks for the
  row FOR UPDATE. PostgreSQL aborts one of them. `ExplicitLocksOrdered` states
  what does hold: in every cycle somebody waits for a foreign key's lock, or for
  a row that a foreign key holds.
* The remaining observations are disagreements, or limits of what the
  properties say, that the models led to; no run of their own shows them.
* `test/event-reminder-security-contract.test.mjs:15` calls the reminder worker
  multi-instance safe. Without any failure, two servers send
  one reminder twice when a run is slower than fifteen minutes (a batch has up
  to two hundred rows, handled one after the other, and a claim's age counts from
  the claim of the batch). `DuplicatesExplained` and `ClaimIsExclusive` state
  what does hold.
* `docs/google-calendar-accounts.md:9` says that preferences control the
  reminder recipients. A reminder cancelled by one reconciliation stays cancelled when
  it is wanted again: the INSERT of the later one finds the row and leaves its
  status alone (`services/eventReminder.service.js:211`). Hence
  `EventuallyCovered` asks for a row, not for a pending one.
* `EventuallyCovered` rests on the sweep: a reconciliation that lost a deadlock
  or its connection is rolled back and only logged, and a change of the
  recipients that is not an edit of the event is not reconciled at all.
* A client message is sent twice when AWS accepted it and the UPDATE to SENT, or
  the recount after it, fails: the catch block returns the delivery to QUEUED
  (`workers/clientMessagingWorker.js:117-134`), although the comment at :104
  means to avoid exactly that. `DuplicatesExplained` names this and the lost
  answer of AWS as the only causes.
* `docs/aws-client-messaging.md:111` expects a campaign to move to COMPLETED. The
  request writes its first status after the messages are queued
  (`controllers/managementAnalyticsMessaging.controller.js:270`), over whatever
  fast workers wrote, and two recounts may be written in the opposite order of
  their snapshots; when no message is left, nothing writes the campaign again.
  The deliveries are right (`DeliveriesSettle`), the campaign may stay QUEUED or
  SENDING.
* A worker slower than the visibility timeout finds its delivery given up by the
  next one; it may then write QUEUED over FAILED with no message left in the
  queue. `DeliveriesSettle` speaks of behaviours without such delays.
* A worker that ends while it has a message on its fifth receive leaves the
  delivery as it is, QUEUED or SENDING: the message moves to the dead-letter queue
  (`maxReceiveCount` 5, `docs/aws-client-messaging.md:31`) instead of coming
  back, and only the worker itself would have given the delivery up
  (`receiveCount >= 5`, `workers/clientMessagingWorker.js:129`).
  `DeliveriesSettle` excepts exactly this (`Abandoned`): every other end of a
  worker is made up for by a further receive.
* The UPDATEs of a share's outcome and of its deferral have no status guard
  (`services/driveShareJobs.service.js:222`, `:238`): when a booting process
  requeues a share another one is uploading (`:409`), the second run may write
  `queued` over the first one's `completed`. The share is uploaded again as an
  update of the same file and settles again, which `NoDuplicateFiles` and
  `SharesSettle` cover.
* The comment at `services/smsReminder.service.js:135` expects a row SQS refused
  to be retried by a later run; the run finds its dedupe key taken for the
  rest of the day. A row whose run ended half way is never handed over at all
  (`stranded` in `LogIsTrue`).
* Removing an assignment while it is inserted again: an administrator's update
  deletes and re-inserts assignments in separate autocommits
  (`controllers/admin.controller.js:177`). In the gap between DELETE and INSERT an
  acceptance is refused. But FOR SHARE locks only assignments it finds: one
  inserted between the scan and the check
  (`services/walletImprestTransfer.service.js:147`, `:148`) lets the acceptance pass and may
  be removed again before it commits. `AcceptedByAssigned` names that as the
  only way a participant can be accepted without an assignment.
* The wallet services can deadlock with a receipt through a row of `users`. An
  imprest transfer locks the accounts and then its participants' users rows FOR
  UPDATE (`services/walletImprestTransfer.service.js:93-94`). A receipt holds a
  users row FOR KEY SHARE through its foreign keys
  (`migrations/199_loyalty_vault.js:237`) when its deferred trigger asks for the
  account (`migrations/203_unified_cash_wallet.js:72`). `CashWallet` has this
  cycle, with a request or an acceptance on the one side and either half of
  a receipt on the other; PostgreSQL aborts one, which is `Abort`, and every other
  property holds through it. No document or comment of these services claims
  the opposite. `NoExplicitCycle` states what does hold.
* `SiteNotOverIssued` and `CheckStillHolds` leave out cash whose receipt another
  module deletes meanwhile (`removed`): those modules do not take the site lock.
* `NoExplicitCycle` rests on `ORDER BY holder_key`: with accounts locked in request
  order, two opposite handovers block each other until `lock_timeout` (mutant
  `BeforeUnsorted`).
* The retry of a failed signal is recorded on the client of the failed delivery,
  not on a second one; with a second one the pump does not return when every client is lent
  (mutant `RecordRetryElsewhere`).
* Finished Bull jobs must be removed: Bull gives up a job after its runs, and its
  backoff is shorter than the row's. If finished jobs were kept, a job that
  found its row not yet due would block every later one.
