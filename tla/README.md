# Verification of the RKPR restaurant CRM

This directory holds TLA+ models of the CRM's back end (`src/apps/api`: FastAPI, SQLAlchemy 2 and
PostgreSQL under READ COMMITTED) and of its cron worker (`src/apps/worker`: ARQ), the TLC configurations
that check small instances of them, and theorems about them whose proofs TLAPS checks. `PROJECT.json`
lists the components, the runs, the mutated definitions that show each property can fail, the lines of
code every definition stands for, the hazards and the theorems.

What runs concurrently is the same everywhere: API requests, each in a session whose transaction commits
when the request ends; cron jobs on any number of worker replicas; and PostgreSQL between them. The code
relies on row locks (`SELECT ... FOR UPDATE`), unique keys and advisory locks, and on the
identity map of a SQLAlchemy session, which decides much of what follows: **a row that a session has
loaded before is not refreshed by a later `SELECT ... FOR UPDATE` of the same session unless the query says
`populate_existing`**. A caller that looks at a row, then locks it, still computes on what it saw first.
And an UPDATE names only the columns that differ from that copy. Every model says for each caller what it
has read before it takes its lock.

How to run: `tlc -config Orders.cfg MCOrders.tla` and `tlapm OrderFulfilment_proofs.tla`, and so
on for the names in section 4 and 5.

## 1. Inventory

Paths are below `src/apps/api/app` unless they start with `worker/` (`src/apps/worker/worker`).

| component | state | operations | interacts with | what is hard | what makes it correct |
|---|---|---|---|---|---|
| Outbox (`outbox`, `event_bus`) | `outbox_events` rows | record in the business transaction, claim, consume, settle, purge | every domain service writes it, the dispatch job reads it | several dispatchers, a stop between two commits, replays during a batch | one holder per event, bounded deliveries, no outcome overwritten, nothing failed without a trace, everything settled |
| Dead-letter list (`dead_letter`) | `dead_letter_entries` | create, investigate, mark ready, ignore, replay | outbox rows and job rows | the entry is a second transaction after the failure; two replays at once | a permanent failure has an entry |
| Cron runner (`jobs/locks.py`, `worker/scheduling.py`) | advisory locks, pooled connections | try lock, run, unlock | every cron task | the lock belongs to a connection, the session changes connections at every commit | one replica per job, every lock returned |
| Job records (`jobs/runner.py`, `jobs/service.py`) | `job_records` | start, outcome, cancel, replay | dead-letter list | rollback in the error handler, cancellation of the task | a "running" row has a run, an outcome is final |
| Points ledger (`loyalty`) | `loyalty_accounts`, `loyalty_ledger_entries` | earn, redeem, adjust, reverse, expire | order completion, staff, cron | callers that loaded the account before the lock; keys; lots | entries serialize, balance equals the ledger, a lot expires once |
| Gift cards (`gift_cards`) | `gift_cards`, its ledger | activate, suspend, redeem, adjust, reverse, cancel, expire | staff, cron | every request but a reversal decides on a copy | no more leaves a card than is on it, status tells balance, closed stays closed |
| Customer credit (`customer_credit`) | account with a balance, ledger entries | issue, redeem, adjust, reverse | staff, referrals, achievements | as the points ledger, without lots; a referral posts to two accounts in one transaction | as the points ledger |
| Orders (`orders`) | `orders`, lines, status history | create, edit, transitions, assignment | stock, customer rollup, offers, loyalty | the order is loaded without a lock and its new status written whatever it has become | terminal stays terminal, stock and customer follow the status once |
| Stock (`inventory`) | `stock_balances`, `stock_movements`, batches, the item's roll-up, receipts, transfers, counts, `order_inventory_states` | movements, reversal, receive, transfer, count, adjust, rebuild; reserve, consume, release | orders, staff | documents and batches read without a lock, sums read before the lock, reservation and consumption racing a cancellation | each projection is the sum of the movements, a document has the effect its status says, promised stock is used once or given back once |
| Offers (`offers`) | `offers`, versions, `coupons`, `offer_redemptions` | reserve, confirm, reject, reverse | orders | status checked on an unlocked copy, capacity given back under a lock | uses within limits and budget, capacity not lost |
| Messages (`communications`) | `scheduled_messages`, `messages`, conversations, `provider_status_events` | schedule, cancel, send due, retry failed, inbound, status webhooks | provider, outbox, jobs | provider call inside the batch's transaction; webhooks before the commit, repeated or out of order | a message is sent once, each is settled, a receipt is never taken back, failures are retried |
| Reservations and tables (`reservations`) | `reservations`, table assignments, blocks, table groups, waitlist | book, approve, edit, assign, seat, cancel, block, merge, split, notify, promote | reminders, messages, outbox | nothing is locked: two assignments of one table, edits and blocks in between; windows past midnight | no overlap on a table, groups can be taken apart, what is over stays over |
| Campaigns and segments (`campaigns`, `segments`) | campaign, recipients, membership | approve, launch, send, pause | messages, jobs | launching twice, pausing during a batch | a recipient is contacted once |
| Service recovery (`service_recovery`) | recovery actions and their references | propose, approve, reject, execute, reverse | points ledger, payments of the order | executing or reversing an action twice, two refunds of one payment | a status tells what the guest got, nothing is given before its approval |
| Payments (`orders`) | `order_payments`, `orders.payment_status` | record, change status | recovery | two requests each sum without the other's payment | the order's status follows from its payments |
| Complaints, referrals, achievements | case and progress rows | open, escalate, resolve, reward | loyalty, outbox, jobs | deadline sweeps racing staff | a reward is given once |
| Notifications | rows, deliveries | insert once per event, mark read, deliver | outbox consumers | the same event delivered twice | one notification per event and user |
| Customers, menu, staff, tasks, leads, feedback, settings | records | create, edit, status change | audit, outbox | lost update between two forms | - |
| Reports, analytics, AI | query results, recorded answers | compute, export | read-only on the rest | arithmetic, no interplay | - |
| Authentication, permissions, rate limits, cache, files | sessions, counters | check | every request | best effort on Redis | - |
| Dashboard, contracts package | browser state | presentation over the API | API | - | - |

`PROJECT.json` has one entry for each directory of the code, modelled or not, with the reason.

## 2. Modules

| module | models | composes |
|---|---|---|
| `OutboxDispatcher` | the outbox, its dispatchers, the dead-letter list and its replay requests | - |
| `ScheduledJobs` | the cron runner, the connection pools, advisory locks and job rows | - |
| `Account` | *abstract*: what a balance ledger promises its callers | - |
| `PointsLedger` | one loyalty account with its callers and expiry sweeps | implements `Account` |
| `GiftCards` | one gift card and all its requests | - |
| `StockPromise` | *abstract*: stock promised to orders | - |
| `OrderFulfilment` | orders, the stock integration, the balance row and the customer rollup together | implements `StockPromise` |
| `StockLedger` | movements, balances, batches, the roll-up and the documents that post: receipts, transfers, counts, adjustments, rebuilds | - |
| `TableBooking` | reservations, tables, groups, blocks, the waitlist and the reminder job | - |
| `ServiceRecovery` | recovery actions with the points they credit and the payments they refund, and staff's own changes of payments | - |
| `OfferRedemption` | one offer, its coupons, their redemptions | - |
| `ScheduledMessages` | the batches that send scheduled messages | - |
| `MessageDelivery` | a message after it was handed over: webhooks and the retry job | - |
| `X_proofs` | the theorems about `OutboxDispatcher`, `ScheduledJobs`, `StockLedger`, `TableBooking`; `PointsLedger` with `GiftCards` and `ServiceRecovery`; `OrderFulfilment` with `OfferRedemption`; `MessageDelivery` with `ScheduledMessages` | extends the modules it is about |
| `SumTheorems` | lemmas on sums over finite sets | - |
| `MCX` | model values and symmetry for TLC | extends `X`; `MCCredit` extends `PointsLedger` and `ServiceRecovery`, `MCOrders` extends `OrderFulfilment` and `OfferRedemption` |

The granularity is one database transaction, split wherever something another actor can change is read
before the lock that protects it. Where a whole stretch runs under a row lock it is one step.
A component whose proofs share a module with another's has names of its own for what both have (`CardSpec`,
`RecoveryInit`, `OfferSessions`), so that one module can extend both. Definitions marked
"Mutant" are plausible mistakes in the definition that follows them; nothing but the `mutants` of `PROJECT.json` uses
them.

History variables (`stale`, `raced`, `late`, `overlapped` ...) remember that a step was decided on an outdated
reading. They are how a property says exactly which overlap it does not survive: "the balance is the ledger's
sum less what the last rebuild read too early" is both a promise and a finding. For each of them a run
without the excuse was tried and fails, so none is idle.

### OutboxDispatcher

`status`, `due` (`available_at` in the past) and `attempts` are the columns of `outbox_events`; an event
is a number, in `created_at` order. `SelectForUpdate` and `CommitClaim` are the claim of
`dispatch_pending_events` (`FOR UPDATE SKIP LOCKED`, then one commit that says "processing"), with
`rowLock` what the open transaction has locked. `BeginAttempt`, `ConsumerReturns`, `MarkPublished`,
`ConsumerRaises` and `CreateEntry` are `_process_one`, each ending in a commit of its own. The claim holds no
lock past its commit, so the `copy` of `attempts` that the worker's session remembers is separate from the
column. Consumers are external: they return, raise something classified as retryable or permanent, or are cut
short. `Abort` is a crash, the job's timeout, or a consumer that fails after using the session (the rollback
expires `event`, and the handler's own read of `event.attempts` raises in turn); `stranded` remembers the events of
that batch that were claimed and have no outcome.
`MarkInvestigating`, `MarkReplayReady` and `IgnoreEntry` are the triage endpoints, which look at no
status; `ReplayRead`/`ReplayCommit` are the two halves of a replay request, and `ReplayCommit` writes the
status only if it differs from what the request has read, as the unit of work does. `Purge` is the
retention job.

### ScheduledJobs

`idle`, `owner` and `held` are a replica's SQLAlchemy pool (first in, first out up to the pool size, a connection that
does not fit is closed) and PostgreSQL's table of session-level advisory locks. `TryLock` is `pg_try_advisory_lock`,
`Unlock` is `pg_advisory_unlock` *on whichever connection the session holds by then*. `StartRecord` to `CreateEntry`
are `run_job`, with the check-outs and check-ins its commits and rollbacks cause. `CancelInvocation` is ARQ's
`job_timeout` (a `CancelledError`, which only the lock's `finally` sees); `CrashReplica` closes the connections of a
process; `cutOff` remembers the runs of both. `raised` is something else: the runs whose function raised in a
transaction, which nobody stopped. ARQ is external: any replica may start any job at any time, up to `max_jobs` at
once. `run_job`'s `idempotency_key` is left out because no caller passes one.

### PointsLedger and Account

One account. `call` is what each session has read so far; `Preloading` names the callers whose session holds the
account before `post_entry` locks it: `enroll()` returns it to an order's completion
(`orders/commercial_growth_integration.py`), to the rewards of achievements (`achievements/awards.py:126`) and
referrals (`referrals/relationships.py:246`) and to service recovery's credit (`service_recovery/service.py:416`), and
the expiry sweep gets it with `session.get`. The order's points and its achievement rewards are posted in one
transaction; the model posts each in one of its own, which lets more happen between them. Everything from the lock to
the commit is one step: `Post`, `ReverseEntry` or `Sweep`. The unique key is tested at the write (`Fresh`), since the
read before the lock may be outdated. A lot is an earning that can expire, its `lot` the points that may still do so.
`Swept` is the loop of a sweep over the lots it has read, in whatever order the query returned them: it has no ORDER
BY, and the order decides which lots are cut short when the balance runs out. `Account` says what the module
docstrings of the three ledgers promise: each posting builds on the balance the one before it left, under a fresh key,
never below zero; a *blind* posting, by a caller that read the balance too early, builds on some earlier one.
`Serializes` is that `PointsLedger` implements it.

### GiftCards

`Load` is the request's read of the card and its status check, `cardRequest` keeps the copy. `Write` is the
commit: the columns that differ from the copy, and `stale` remembers that some commit was computed on an
outdated copy. `PostEntry` is the ledger's posting with its cap at the initial amount and the status
that follows from the balance unless the card is frozen. `Close` is `cancel_card` and `expire_card`, whose
entry has a key of its own per card.

### OrderFulfilment and StockPromise

Several orders of one customer over one stock item at one location. `Begin` loads the order and
checks the transition on that copy; the commit writes the status whatever it has become, and `raced` remembers
when it had changed. `transition_order` flushes the order's UPDATE, and so takes its row lock, before
it reads the stock state for consumption or release: from there to the commit is one step (`Prepare`,
`Cancel`, `Advance`). A confirmation reads the stock state first (`ReadStock`), and a completion loads the
customer's row first (`LoadCustomer`), so those reads are steps of their own. `keys` are the idempotency keys of
movements; `Adjust` is every other movement on the balance row. `need` is what the order's recipes call
for and does not change (section 7). `StockPromise` is the abstract specification: free stock, and a claim per
order that goes from none to promised to used or returned.

### StockLedger

One item, in two locations, either tracked by batch or not (`tracked`, chosen in `Init`). `ledger` is the sum of
the append-only movements of a balance row (a location, and a batch if there are any); `onHand`, `remaining` and
`rollup` are its three projections: `stock_balances.on_hand_quantity`, `inventory_batches.remaining_quantity`,
`inventory_items.on_hand_quantity`. Every request has the same shape. `Begin...` is what it reads without a lock:
the status of its document, the batches, the roll-up, for a rebuild the sums of the movements. `Lock` takes the
balance rows of all its movements, checks them (`Accepts`: the location's negative-stock rule, the batch's
bounds, a batch code already used) and computes the new values, for a rebuild also what has been posted since it read
(`early`); `Commit` makes movements, projections and
the document's status visible together. `plan` is the set of movements: `ReceiptMoves`, `TransferMoves`, `CountMoves`,
or `Undo` of those a reversal found. `moves` are the movements of documents, each with its `reversed` mark.
Counts go through `BeginStart` (the snapshot), `BeginRecord`, `BeginSubmit`, `BeginApproval`; what they count is
the shelf, which `Lose` lets differ from the books by `gap`. `missed` is what the last rebuild of a row left out.

### TableBooking

Nothing in this part of the code takes a row lock. A request reads, decides and writes at its commit, so every
operation is a *change*: the columns it writes and the rows it has read (`seen`). `Serve` performs a change at
once or, for a session, keeps it in `work` until `Commit`, after others may have committed. `Conflicts` is
`check_table_availability`: assignments of reservations on the same date (`Date`), with buffers, and blocks.
`Create`, `Transition`, `Approve`, `Edit`, `Assign`, `Unassign` are the reservation endpoints, `SetTable`, `Merge`,
`Split`, `Block`, `Release` those of tables, `Notify`, `Promote`, `Dismiss` those of the waitlist, `Remind` the cron
job's step. `raced` holds rows written on an outdated reading, `edited` reservations whose window was
changed while a table was theirs.

### ServiceRecovery

`Begin` is the unlocked read of an action and the check of its status, with `seen` what it read; the first write
to a row waits for whoever has written it (`Unlocked`). `Credit` posts to the points ledger under the key of
the action; a failure of the ledger is caught and the action marked "failed". `Pick`, `Compute`, `Commit` are a
refund: the latest paid payment is chosen, its row is written, the order's payment status is computed from
the payments committed by then, and the commit writes the columns that differ from what was loaded.
`BeginPayment` starts the same sequence for staff who record a payment or change its status. `Spend` is the
guest's use of the points, which may leave too few to take back.

### OfferRedemption

`Reserve` locks the offer row and reads everything else after it, so it is one step. `Load` is the
unlocked read and status check of a confirmation, rejection or reversal; `ConfirmRedemption` and `Release` write the
new status whatever the row holds by then, and `Release` gives the capacity back under the locks.
`again` counts the uses the count does not see (released twice or revived), `revived` the redemptions that
came back from a final status. A per-offer limit and per-coupon limits are one function
`Limit`; an offer without a code is one whose only coupon has no limit.

### ScheduledMessages

`Select` is the unlocked read of the due rows; `Deliver`, `RefuseSend`, `Raise` are one message of the loop
from the row's lock to its outcome, `done` what the transaction has written so far, `Commit` and `RollBack` its
end. `keys` are the committed `scheduled:{id}:{attempt}` keys of `messages`. The value "processing" and
`processing_locked_at` never leave the transaction, so no other batch ever sees them: what prevents a
second send is the unique key alone. `delivered`, `twice`, `undone`, `raised`, `overlapped` are history.

### MessageDelivery

`stage` is how far `send_message` has come: new, handed to the provider but not committed, recorded, lost with its
transaction, or closed without the provider having it (refused, timed out, suppressed). `Report` is the provider:
`reports[m]` is what it says of a message, in order. A webhook may be served for any report, in any order, by two
requests at a time, again after a failure, and before `Record`: `Receive` inserts the event under its unique id
and reads the message, `Apply` changes the status if `OUTBOUND_MESSAGE_TRANSITIONS` allows it *from the copy* and
consumes the event in any case, `Drop` loses the request. `RetryFailed` is the job, over a batch of the oldest
candidates. `late` holds the messages of which a webhook overtook an earlier one or the message's own commit.

## 3. Abstract specifications

* `Account` (state: a balance and a list of postings; one action). Claimed by the docstrings of
  `loyalty/ledger.py`, `gift_cards/ledger.py` and `customer_credit/ledger.py`. `PointsLedger` implements it
  through `funds <- balance, postings <- Postings`; gift cards do not (section 6), so `GiftCards` states weaker
  properties of its own.
* `StockPromise` (state: free stock, a claim per order). `OrderFulfilment` implements it through
  `free <- onHand - reserved, claim <- Claim, units <- need`: a second confirmation, a
  confirmation racing a cancellation, a retried preparation must each map to one abstract step or to none.

## 4. Runs

| run | instance | shows |
|---|---|---|
| `outbox` | 2 workers, 2 events, 2 replay requests, 2 attempts, 1 replay per event, 1 batch cut short, fair workers | one holder per event nobody replayed (`ExclusiveClaim`); deliveries bounded by the replays (`DeliveriesBounded`); a permanent failure is on the list, about to be, or its worker was stopped between two commits (`FailureTraceable`); no slow worker rewrites a published event (`PublishedIsFinal`); every event is settled but those whose own batch was cut short (`EventuallySettled`) |
| `outbox_retry` | 1 event | *violated*: a retryable failure is claimed again (`FailuresAreRetried`) |
| `outbox_stale` | 1 event, 1 batch cut short | *violated*: the claim of a batch cut short does not last (`StaleLocksAreRecovered`) |
| `jobs` | 2 replicas, 3 invocations of one job, 4 connections, 1 idle per pool, 2 invocations at once, 1 cancellation or crash | a job never runs on two replicas unless a pool closed its lock (`OneReplicaPerJob`); no lock outlives its job on a replica that runs one invocation at a time (`NoLockLeft`); "running" rows and permanent failures account for every run that was not cut off, a "running" row only if its function did not raise in a transaction (`RowsTellTheRun`) |
| `jobs_failure` | 1 invocation, nothing cancelled, no crash | *violated*: a run that is over has recorded its outcome (`FailureIsRecorded`) |
| `credit` | points: 2 sessions, 3 keys, amounts 1 and 2, 3 entries, every kind of caller; recovery: 2 sessions, a credit, a manual action and 2 refunds, 2 payments, 6 requests | `PointsLedger` implements `Account` (`Serializes`), the balance is never negative (`TypeOK`), a lot expires once (`LotExpiresOnce`); an action's status tells what the guest has got, and nothing is given before its approval (`StatusTellsValue`); refunds are distinct (`RefundsAreDistinct`); the order's payment status follows its payments (`PaymentStatusFollows`) |
| `gift` | 2 requests, a card of 2, amounts of 1, 5 entries | an outdated copy is the only way to overspend (`OverspendOnlyIfStale`), to a status that contradicts the balance (`StatusTellsBalance`) or back from closed (`ClosedIsFinal`); each kind of closing posts once even so (`ClosedOnce`) |
| `orders` | orders: 2 orders, 2 requests, needs 0 to 2, stock up to 2; offers: 4 redemptions, 2 requests, 2 customers, offer limit 3, coupon limit 2, 2 per customer, budget 5 at 2 each | reserved stock is what the reservations need (`ReservedIsOwed`) and is on hand (`TypeOK`), none is stranded on a cancelled or prepared order (`ReservedIsNotStranded`), the kitchen works on orders whose stock was taken (`ServedIfTaken`), a completion counts once (`CountedOnce`), `StockPromise` is implemented (`KeepsPromises`); uses are within the limits but for uses released twice or revived (`WithinLimit`), capacity is never lost (`NoCapacityLost`), customer limit and budget hold but for revived ones (`SharesHold`) |
| `stock` | 2 sessions; 1 receipt of 2, 1 transfer, 1 count; opening balance 2; one unit wasted or added; 3 postings, rebuilds or losses; with and without batches | balances are the ledger less what the last rebuild read too early (`BalanceIsLedger`); batches are it unless computed on an outdated quantity (`BatchIsLedger`) and the roll-up after a posting nothing overlapped (`RollupIsTotal`); a document has the effect its status says (`EffectMatchesStatus`); a count corrects the books (`CountCorrectsBooks`) |
| `tables` | 1 session that atomic requests overtake, 2 reservations, 2 tables, 1 waitlist entry, windows across midnight, 3 commits | two reservations on one table at once need a race, an edited window or midnight (`NeverOverbooked`); groups can be taken apart (`GroupsCanBeSplit`); what is over stays over but for an outdated writer (`OverStaysOver`) |
| `messages` | 2 messages, 2 overlapping invocations, 2 attempts, 1 batch cut short | who can be written to twice and why, and that what was recorded is not due again (`DeliveredOnce`); every message is settled (`AllSettle`) |
| `delivery` | 2 messages, 2 webhook requests at once, batches of 1, 2 attempts | a message has the status last told unless a webhook came out of order (`StatusIsWhatWasTold`); no receipt is taken back (`NoRegression`); passing failures are retried unless permanent ones fill the batch (`RetriedUnlessCrowded`) |

`credit` and `orders` explore two components each, one while the other is at rest in an initial state: the modules
share no variable, so nothing is gained by interleaving them. Where the code connects the two, each module has its own
side of the connection: what a recovery credits is a caller of `PointsLedger` and a posting of `ServiceRecovery`, and
the confirmations and releases an order makes for its redemptions are requests of `OfferRedemption` like any other. In
`credit` one kind, `service_recovery_credit`, stands for the callers that enroll the guest and post a reward or
credit: all of `Enrolling` are treated alike.

Why the bounds are enough. Each hazard needs two actors on one row and one thing that goes wrong between two of their
steps, so two sessions (workers, replicas) and one abort reach it; the second event, job or order is there because the
batch, the pool or the stock is shared. `gift` allows five entries, enough for issue, redeem, reverse, redeem, close;
the points ledger three, enough for an earning, its reversal and a sweep of what is left. An offer limit of 3 and a
coupon limit of 2 with four keys make both limits bind and leave a key to exceed them, and a budget of 5 at 2 each
makes the last discount a cut one. The needs 0, 1 and 2 over a stock of at most 2 include the order that needs
nothing, two that fit together and two that do not. The three commits of `stock` are a posting, one that overlaps it
and one on top (a receipt, its reversal and a rebuild; a loss, a count's approval and wastage); its steps of a count
that post nothing are not bounded. In `tables` a session that waits while other requests are served at once has every
interleaving of two requests in which one is overtaken, and three commits are enough to take a table, free it and take
it again; `MCSeats` gives one reservation both tables to choose from and the other one. Recovery has six requests,
enough to propose, approve and execute two actions; its two payments of half the order make every payment status
occur. `BatchSize` 1 in `delivery` lets one permanent failure crowd a batch. Bounds that are not the code's are
`MaxReplays`, `MaxAborts`, `MaxStops`, `MaxEntries`, `MaxCardEntries`, `MaxStock`, `MaxSteps`, `MaxRequests`, `Runs`,
`Conns`, and the finite sets.

`CHECK_DEADLOCK FALSE` where the bounded system may stop: an outbox with nothing to claim and no replay left, a
points account whose entries are used up or a recovery out of requests (`credit`), an offer whose keys are all final
(`orders`), messages that are settled, and the instances that bound their commits (`stock`, `tables`). The
others always have a step (`ScheduledJobs` says so explicitly with `AllOver`).
Symmetry is used in runs without liveness only, over sessions, workers, replicas, keys, customers and orders, none of
which any definition singles out; in `orders` the orders are the customers of the offer too, and its four keys are
exchanged within two pairs only, which is less than is sound.

Fairness:

* `OutboxDispatcher!FairSpec`: each worker takes its steps (cron starts dispatch every two minutes, a running
  batch runs on; consumers return or raise), time passes (`BecomeDue`), a replay request in flight ends.
  Nobody is obliged to triage, and recording events is not fair. A batch that is cut short
  leaves the events it had not come to "processing" for good, since nothing looks for a stale claim. `EventuallySettled`
  excuses these, while they are "processing", and no others: an abort elsewhere is no excuse, and one that was
  requeued by a replay is owed an outcome again. That the excuse is needed is what `outbox_stale` shows.
* `ScheduledMessages!ScheduleSpec`: time passes, each invocation selects again while something is due, a batch under way
  goes on. Aborts and cancellations are not fair.
* `MessageDelivery!Spec`: the retry job runs every ten minutes (`WF(RetryFailed)`). The provider, its webhooks and the
  requests that serve them owe nothing.

## 5. Proofs

Forty-one theorems over seven modules, and the lemmas of `SumTheorems`, for every value of the constants. They assume
only the named `ASSUME`s of the modules, which TLC evaluates on every run. Every invariant and every action property of
the passing runs is proved, and both refinements.

**`OutboxDispatcher_proofs`.** `TypeCorrect` is `TypeInv`, `TypeOK` with the fact that a worker past its claim
works on an event of its batch. *`ClaimsAreExclusive`*: `ExclusiveClaim` is not inductive, because a claim is
selected in one step and marked in another. `ClaimInv` adds `LockInv` (locked rows are pending, in one batch, and no two
workers lock the same row) and `HolderInv` (an event nobody replayed has at most one holder, and none unless its row
says "processing"). *`DeliveriesAreBounded`*: `BoundInv` counts, per event, deliveries plus the
workers that may still deliver plus one if the row is still to be claimed; every step keeps the sum within
one plus the replays. This needs the finiteness of `Workers`. *`PublishedStays`* follows from
`ClaimInv`: only a holder rewrites the row. *`FailuresAreTraceable`*: that some entry of a failed event is unresolved is
not inductive: a replay request that has read the event as pending closes its entry without requeueing anything, and in
the meantime the event may have been claimed and have failed for good. `TraceInv` asks for an entry that no such
request is about to close (`Awaited`); the failure has just made one, and any other request requeues what it closes.

**`ScheduledJobs_proofs`.** `TypeCorrect`, *`JobsAreExclusive`*, *`LocksAreGivenBack`*, *`RowsAreTrue`* (which excepts
runs that were cut off, and for "running" those that raised in a transaction, as `RowsTellTheRun` does). An invocation
does not keep the connection its lock is on, so no invariant can tie one to the other; the argument counts instead.
`LocksOK`: at most one connection holds a job's lock, and while none that held it was closed, that connection has
taken the lock at least as often as there are invocations inside it, all on the replica that owns the connection
(`Covers`). An unlock elsewhere only lowers the number of invocations. `PoolsOK` and `SessionsOK` say whose a
connection is: idle in one pool, or checked out by one session, or closed and without locks; `CheckOutEffect`,
`CheckInEffect` and `BorrowEffect` turn the pools' sequences into sets once and for all. `LocksAreGivenBack` adds
`Alone`: a replica whose invocations never overlapped has opened one connection (because a checkout that finds the
pool empty would need another session to have the first one, `Used` and `SoleConnection`), and what this connection
holds is held, once, by the invocation it runs. `Runs` has to be finite.

**`SumTheorems`.** What is reserved, a balance, a card's entries and an offer's discounts are sums over finite sets, and
the library defines them by a fold: the value at a set of *some* recursive function on its subsets. The prover cannot
instantiate the library's induction theorems, so the module argues by a least size: if some set had no such function, a
smallest one would have none, and it does have one (`LeastElement`). From there come the facts the other modules
use: the sum is an integer, adding an element adds its value, disjoint sets add up, two functions that agree on the set
have the same sum.

**`PointsLedger_proofs`: the points.** `TypeCorrect`, *`PostingsSerialize`* (the refinement of `Account`),
*`LotsExpireOnce`*. The invariant says the ledger is a chain that ends in the balance (`ChainOK`), that the copy of a
caller that has loaded the account is a balance the chain has been at (`CopiesOK`), and that a lot is whole until it
is taken, with what has expired no more than what an earlier entry earned (`LotsOK`). Every transaction is one
abstract step, appending a list of postings that each build on the one before (`Extends`): one for a posting or a
reversal, any number for a sweep. What a sweep posts is a recursive function over its lots; that it exists is shown by
a least index (`SweepDefined`), and what has been posted after `n` lots, in any order, by the same argument
(`SweptOK`, `SweepExtends`). A second sweep over the same lot meets the key of the first, so the unique key is what
`LotsExpireOnce` rests on.

**`PointsLedger_proofs`: service recovery.** *`StatusIsTrue`*, *`NothingRefundedTwice`*, *`OrderStatusFollows`*. What an
action has given is tied to its status unless the status was written on an outdated reading (`GivenOK`); an action that
waits for its approval has given nothing *and no request is past the approval check* (`ApprovalOK`), which is what makes
the second part of `StatusTellsValue` hold in spite of overlaps; a refunded payment stays refunded unless contested
(`RefundedOK`). `WorkIs` says of every stage of a request what it knows. Finiteness is needed of `Payments` only.

**`PointsLedger_proofs`: gift cards.** `CardsTypeCorrect`, *`ClosingIsPostedOnce`*, *`CardStatusIsTrue`*, *`ClosedStays`*,
*`OverspendNeedsStaleCopy`*. The invariant adds what each request has loaded (`Loaded`: a status its kind accepts, a
balance in range), which is what keeps a commit on an outdated copy within the CHECK constraints. `AfterWrite` says what
every commit leaves from what it computed, `AfterAppend` what an entry more does to the ledger; every request is one of
two shapes (`PostKeeps`, `PlainKeeps`). For overspending, `NetCovers`: the entries add up to at least the balance, with
equality only as long as no credit or reversal met the cap at the initial amount.

**`OrderFulfilment_proofs`: orders.** `TypeCorrect`, *`NothingIsStranded`*, *`OrdersCountOnce`*, *`PromisesAreKept`*
(the refinement of `StockPromise`), *`ReservationsAddUp`*, *`KitchenIsSupplied`*. The argument: the stock state of an
order only moves forward, so what a status tells about it (`Tells`) remains true of an *outdated* status, which is why
a request that decides on a copy still does no harm here. `KeysOK` ties states to the movement keys that exist, and
`CountOK` says no count a completion has loaded is ahead of the orders counted. `ReservationsAddUp` follows the sum
through every move of an order into or out of "reserved", and adds what the sum is for: there is always enough
reserved and on hand to consume or release each reservation. `ServedOK` is about orders never moved on an outdated
status: there, "released" means cancelled, and from "preparing" on the stock was consumed or none was needed.

**`OrderFulfilment_proofs`: offers.** *`LimitsHold`*, *`CapacityIsKept`*, *`SharesAreKept`*. The argument counts:
`OneRow` says what replacing one row does to the set of uses of an offer or coupon, `OneRowCounted` what it does to
their number; a reservation adds one to uses and count, a release takes one from both, and where the count is already
zero, or the redemption already final, `again` takes the difference. Hence `count <= uses <= count + again` and `count
<= Limit`. `SharesOK` is the same for a customer's uses and for the sum of the discounts: what is live and was not
revived only grows by a reservation, which has counted all live uses, the revived ones included.

**`StockLedger_proofs`.** *`BalancesAreTheLedger`*, *`BatchesAreTheLedger`*, *`RollupsAddUp`*, *`DocumentsPostOnce`*,
*`CountsCorrect`*: every property of the run `stock`, for any rows, batches, documents and numbers of lines. The
invariant says what remains true of the copies a request took. `LocksOK`: no two requests lock a row, what one will
write to its rows is what they hold plus what it moves, and what a rebuild will write is the ledger less what it had
missed when it took its locks: that is how `BalancesAreTheLedger` covers every row, rebuilt or not, and says what is
missing from it. `DocumentsOK` (`Current`): its document is as it was, or past every status from which such a request
may go on, and then the commit marks it `raced`; statuses only go `Onward`. `Knows`: the roll-up it has loaded is the
sum of the balances it saw unless it was overlapped. A commit adds a set of movements disjoint from those there are
(`DeltaUnion`), and a reversal the mirror image of those it found (`DeltaImage`), which for a document that is not
`raced` are all of them (`ReversesAll`). `CountsCorrect` reads the `gap` of a line off the movement the approval
makes. The sums are those of `SumTheorems`.

**`TableBooking_proofs`.** *`NoTableTwice`*, *`GroupsSplit`*, *`OverStays`*: every property of the run `tables`. What a
request writes was decided earlier, so `ChangeOK` says what holds of a change from then on: a status was decided on one
that was not over, tables are given to one reservation that exists, a primary table was seen unmerged. If
the reading is still true when the change is written, that is enough: a table is given only where no
reservation with a claim stands in the way (`NewAssignment`), and whoever holds a table keeps its window or is `edited`
(`WriteWindow`); a new group hangs from a table outside any (`WriteKeepsGroups`). `HoldersExist` is needed so
that the creation of a reservation cannot give one that holds a table its status.

**`MessageDelivery_proofs`: delivery.** `TypeCorrect`, *`ToldInOrder`*, *`ReceiptsStand`*. `NoRegression` must hold even
for messages whose webhooks came in any order, so it cannot lean on order: `ToldOK` says that behind a status, and behind
the status each request has read, stands a consumed report (`Told`), and since a life of a message has one report at each
position (`LifeOK`) and a report is consumed once, no request can still apply an earlier one. `ToldInOrder` does
use order. `OrderOK`: what was seen of a message that is not late was seen in order, so no two requests serve it at
once (`Alone`), so the copy is the status there still is (`CopiesOK`), and what is consumed is a first part of the
reports (`PrefixOK`), which the status follows step by step; `Known` counts that part through a bijection.

**`MessageDelivery_proofs`: scheduled messages.** *`SentOnce`*. `OneKey`: a message none of whose attempts raised has one
key, so a second batch meets it in `keys`; `SentOK`: what the provider took is recorded under a key, undone, or in a
batch that still locks the row; `AloneOK`: without overlaps the batch there is works on messages never recorded.

What is only model-checked: liveness (`EventuallySettled`, `AllSettle`, `RetriedUnlessCrowded`), which is out of the
prover's reach, and `FailuresAreRetried`, `StaleLocksAreRecovered` and `FailureIsRecorded`, which are violated. The
recursive definitions above are recursive functions, about which facts had to be proved by least counterexample; none
is left to TLC alone.

## 6. What the code does that a reader may not expect

Three disagreements between code and documentation have a run each (`findings`):

* `outbox_retry`. Nothing reads `failed_retryable`, so a retryable failure is never retried
  (`event_bus/dispatcher.py:54` against "Failures are retried with bounded backoff.",
  `docs/INTEGRATIONS_AUTOMATIONS_REALTIME.md:537`).
* `outbox_stale`. Nothing reads `locked_at` or looks for "processing" rows, so an event whose batch was cut short after
  its claim is never delivered (`event_bus/dispatcher.py:67` against "Stale locks are recoverable.",
  `docs/INTEGRATIONS_AUTOMATIONS_REALTIME.md:569`).
* `jobs_failure`. When a job's function raises in a transaction, the rollback expires `job` and the handler fails on
  `job.attempts`: no outcome is recorded and the row stays "running" (`jobs/runner.py:108` against the docstring at
  `:55-58`: partial writes "are rolled back before recording the failure").

Others that came up, with the property or definition that shows them:

* Outbox. A failure whose dead-letter entry was not yet committed is on no list (`lost`). Two replay requests of one
  entry may both go through, which is why the bound of `DeliveriesBounded` counts replays.
* Jobs. A pool that closes a surplus connection drops the advisory lock it holds, and another
  replica runs the same job (`worker/db.py:38` against the "must not double-run" of `jobs/locks.py`; `dropped` in
  `OneReplicaPerJob`). With two invocations in one replica, the session may unlock on another connection than it
  locked on: PostgreSQL warns, the lock stays with a pooled connection, and other replicas skip the job until that
  connection is closed or happens to unlock (`crowded` in `NoLockLeft`). Nothing reads "retry_wait" or
  `next_retry_at`. A cancellation or a crash leaves the row "running" (`cutOff`).
* Points. An order's earning, a reward for an achievement or a referral, a recovery's credit and a sweep post on a
  balance read before the lock (`Blind`), so one of two overlapping postings is lost from the balance although both
  are in the ledger. The docstring of `loyalty/ledger.py` says that two transactions on one account "serialize rather
  than losing one of the two deltas"; that is what `Serializes` shows of the callers that lock first, and of no other.
  Two overlapping reversals of one entry under two keys both post.
* Gift cards. The lock on a card does not refresh the copy the amounts are computed from, so two
  redemptions can spend the same balance (`gift_cards/redemption.py:40` against `gift_cards/ledger.py:4-5`; `stale`).
  A suspension or cancellation that overlaps a redemption is undone or ignored; the cap at the
  initial amount makes the balance less than the ledger's sum.
* Orders. A transition decided on an outdated copy writes its status anyway, so a cancelled order can come
  back and be completed without stock (`raced`, hence the premise of `ServedIfTaken`), although
  `orders/states.py` calls it terminal. Two completions of two orders of one customer can lose one from
  `completed_order_count` (hence `<=` in `CountedOnce`). A confirmed order has no transition to cancelled, yet
  the release branch for it is reachable by that race.
* Stock. A transfer of a batch can never be posted: the batch it makes at the destination repeats the item and code
  that `uq_inventory_batches_item_code` keeps unique (`BeginTransfer`); the second posting of one receipt of a tracked
  item fails on the same constraint. Of an untracked receipt posted twice only half is ever reversed (`Reversible`).
  The batch's quantity is computed on an unlocked copy, so one of two postings is lost from it (`stale`), and the
  roll-up drifts until the next posting (`exact`), against the comments at `inventory/ledger.py:274` and `:407`. A
  rebuild undoes what was posted between its sums and its locks (`missed`; `inventory/balances.py:154`). An adjustment
  or wastage of a tracked item need not name a batch (`inventory/adjustments.py:58`), and then moves a balance row no
  batch accounts for. What moves between the snapshot of a count and its counting is "corrected" away when the count
  is approved (`calm`; `inventory/stock_counts.py:89` and `:154`).
* Reservations. "Never overbook" (`reservations/assignment.py`) fails by a race (nothing is locked), by editing the
  window of a reservation that has a table, and across midnight, where only reservations of the same date are
  compared (`NeverOverbooked`). The generic transition endpoint approves without the availability check that
  `service.py:31-38` calls indispensable. Releasing an old block makes a table available that has been put into
  maintenance since; cancellations and no-shows leave their table "reserved". Buffers are added on one side of the
  comparison only. Reminders compute a start in UTC from local times, so they are due five and a half hours late, and
  opening hours accept an end past midnight; neither is part of the model.
* Service recovery. Two executions of one action may refund two payments, or mark as "failed" a credit that was given
  (`raced`), and no endpoint takes a failed action further. Reversing a refund leaves the payment refunded.
  Overlapping changes of two payments leave a `payment_status` that neither sum gives (`mixed`).
* Offers. Two overlapping releases give one use back twice, and a confirmation that overlaps a rejection revives
  it, so a limit can be exceeded (`again`, `revived`) although `offers/redemptions.py:12-15` says the limits are
  concurrency-safe. Reservations never expire (`reservation_expires_at` stays NULL); an offer's own
  `redemption_cap` is never read by a reservation; status "applied" is never set.
* Scheduled messages. A batch that is rolled back has handed over messages it will hand over again, and so have two
  overlapping invocations once an attempt has raised, since they then use two keys
  (`DeliveredOnce`; `communications/scheduling.py:57-60` says it cannot happen). The same race can write an older
  attempt count over a newer one, whose next key is taken; every later batch that contains the row is
  rolled back, which is why `AllSettle` has the premise that batches do not overlap. A message can be
  cancelled after it was sent, and one that a batch holds is sent in spite of its cancellation. What the
  provider refuses is "sent" in the schedule.
* Delivery. A webhook ahead of the commit of its message, or of an earlier webhook, is consumed and its status lost
  (`late`; `communications/webhooks.py:144`). A late "accepted" turns a failed message back to "queued" through the edge
  that exists for retries, in the graph that `communications/states.py` calls the "no regression" guarantee. A message the
  job has put back to "queued" is sent by nothing. Permanent failures stay candidates and can fill the batch
  (`Crowded`).

## 7. Not modelled

* Simplifications inside the models. An order's need does not change after it is loaded (the code reads the recipe
  again at each transition; an order's lines never change once it is created, but a recipe edited in between would
  release a different quantity). Edits, assignments and notes of an order are not modelled: they touch columns of
  their own. `OrderFulfilment` has one location, one item and no batches, `StockLedger` has locations and batches and
  no reservations: the two columns of a balance row are written under the same lock. One offer version, one points
  account, one card. Two lines of an order that share an ingredient share a movement key, so such an order cannot be
  confirmed; the model's single item stands for the rest. A document of `StockLedger` has one line. Who approves a
  recovery is not modelled: the refusal of self-approval (`service_recovery/service.py:286`) is among the requests
  that roll back, so `Approve` may also happen where the code would refuse it, and never the reverse. `TableBooking`
  has no opening hours (`OpenWindows` stands for them), no notes and no areas.
* Conversations and inbound messages: a webhook creates or reopens a conversation. Two at once can
  make two open conversations of one customer, since nothing is locked or unique, and the branch that reopens a
  resolved one (`communications/messaging.py:292`) is never reached because the query before it leaves those out.
* `communications/integrations.py` consumes the outbox a second time for the event types the
  dispatcher leaves out (`EXCLUDED_EVENT_TYPES`), in one transaction and without a lock.
* Complaints: the sweep notes an escalation once per level, so a second missed follow-up or a breach after reopening
  is never reported, and a completed follow-up still is; the rules are arithmetic on dates, and the interplay is that
  of an unlocked copy, as in `ServiceRecovery`.
* `orders/seed.py` and the other seeds write rows no request could; they are not part of the behaviour.
* Components listed as not modelled in `PROJECT.json`: those without interplay (catalogues, reports, arithmetic,
  presentation, generated migrations, the dashboard), which are most of the lines of the repository, and those planned
  below.
* External, modelled by how the code uses them: ARQ (starts and cancels jobs), SQLAlchemy's pool and unit of
  work, PostgreSQL's locks, the message provider.

## 8. Plan

1. Done: outbox with dead letters, job runner, points ledger with `Account`, gift cards, orders with stock and
   `StockPromise`, stock ledger and documents, tables, recovery with payments, offers, scheduled messages and their
   delivery; the proofs of section 5.
2. Done: proofs of every invariant, action property and refinement of these runs.
3. Next: `Conversations` with the second outbox consumer, over the messages of `MessageDelivery`.
4. `CustomerCredit`: a third ledger against `Account`, with the rewards of referrals and achievements that post to it.
5. `Campaigns`: launching and pausing against the recipients' rows; `Complaints`: the deadline sweep against staff.
6. `credit` and `orders` each hold two components; what is added next to them goes into the runs there are.
