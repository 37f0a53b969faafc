# Gable: TLA+ models, checks and proofs

Gable is an ERP for lumber and building-materials dealers: a Go backend over
PostgreSQL (`src/gable/backend`), micro-UIs built on the agent-native framework
(`src/agent-native/templates/gable-*`) and an event backbone between them (an
Appwrite collection; `src/platform`). The framework itself runs agents behind
chat windows and messaging platforms; two of its protocols keep their state in
shared tables and are modelled too. This directory models the parts whose
correctness depends on interleaving, failure and order. It checks them with TLC
and proves the central invariants with TLAPS.

## 1. Inventory of the system

| Part | State | Operations | Talks to |
|---|---|---|---|
| Transactions, `pkg/database/postgres.go` | the open transaction in the context | RunInTx, GetExecutor | every service |
| Inventory, `internal/inventory` | `inventory(quantity, allocated)` per product and location | Allocate, Release, Fulfill, AdjustStock, MoveStock | called inside transactions of orders, purchase orders and the till |
| Orders, `internal/order` | `orders.status`, `order_lines` | ConfirmOrder, CancelOrder, FulfillOrder | inventory, invoices, publisher, exposure gate |
| Invoices, `internal/invoice` | `invoices` | CreateInvoice, ExistsInvoiceForOrder, SumOpenBalanceCents, PostInvoiceToLedger | GL, customer account, publisher |
| Delivery completion, `internal/delivery` and the adapter in `cmd/server/main.go` | `deliveries.status` | CompleteDelivery, CreateFromOrder | invoices |
| GL and customer account, `internal/gl`, `internal/account` | journal entries, customer transactions | SyncInvoice, PostTransaction | called by PostInvoiceToLedger |
| Event publisher, `pkg/eventpub` | a buffered channel, two flags, counters | Publish, drain/post, Stop | Appwrite `events` collection |
| Idempotency middleware, `pkg/middleware/idempotency.go` | in-memory cache of 2xx responses | get, set, cleanup | in front of every POST and PUT handler, and of the auth middleware |
| Event consumers, `server/plugins/gable-events.ts` of four micro-UIs | `lastSeenId`, an application-state marker | poll every 30 s | the `events` collection |
| Gable REST client, `packages/gable-client` | none | request with an idempotency key | backend |
| Integration task queue, `packages/core/src/integrations` of agent-native | `integration_pending_tasks`: status, attempts, payload (a message, then its answer, then the receipt) | webhook (enqueue, dispatch), process-task (claim, run, stage, send, complete), the retry sweep | messaging platforms, agent runs |
| Agent run ledger, `packages/core/src/agent` (`run-store.ts`, `run-manager.ts`, `production-agent.ts`) | `agent_runs` (status, error, reason, dispatch mode), `agent_run_events`, turn-abort markers | start, claim, checkpoint, complete, hand over to a successor, repair from the log, reap and recover, stop a turn | `thread_data`, chat clients that poll, sweep timers |
| Payments, deposits, quotes, routes, purchase orders, till | their own tables | see section 8 | not modelled yet |

What makes the behaviour hard, part by part, and what being correct means:

- **Orders and inventory.** Every handler reads the order *outside* the
  transaction, decides on what it read, and ends the transaction with an
  unconditional overwrite of the status. Inside, each stock call selects rows
  without locks and updates them later under a `WHERE` guard. Correct: stock is
  never promised twice, allocations are exactly those of the CONFIRMED orders,
  what left the yard is exactly what FULFILLED orders asked for, final statuses
  are final, transactions that wait for each other end.
- **Billing.** A fulfilment and a completed delivery both create the order's
  invoice, one inside a transaction, the other in three commits. Both lock the
  customer's row. Correct: one invoice per order, posted to both ledgers and
  announced; the credit limit holds.
- **Publisher.** Many request goroutines, one drainer, a channel that Stop
  closes, a remote collection that may answer late or never. Correct:
  at-most-once, never blocking, honest counters, a Stop that returns.
- **Consumer.** A timer starts a poll whether or not the last one ended, and the
  cursor moves before the put. Correct: nothing twice, nothing lost, a silent
  start.
- **Idempotency.** Lookup before the handler, store after it, nothing in
  between, and all of it before the caller is authenticated. Correct: one
  execution and one answer per key, for as long as the cache can vouch for it.
- **Task queue.** Serverless invocations that crash, stall and overlap share
  nothing but a row; a sweep writes the same row. Correct: a conversation is
  served in order and by one invocation at a time, the agent runs a bounded
  number of times and never again once its answer is staged, a confirmed answer
  is not sent again, every task ends.
- **Run ledger.** A producer, its successor, readers that repair what they
  read, reapers that judge by heartbeats, and a user who stops the turn all
  write the same rows. Correct: a run that ended stays as it ended, a row says
  completed only when the answer can be read, one agent works on a turn, a stop
  stops, no run stays open.

`PROJECT.json` lists every hazard at the line where it bites.

## 2. Modules

| Module | Models |
|---|---|
| `Postgres` | rows under READ COMMITTED: committed version, at most one uncommitted version, its holder |
| `Inventory` (extends `Postgres`) | the stock calls of `internal/inventory`, statement by statement |
| `OrderToCash` (extends `Inventory`) | the requests that use them, from DRAFT to invoice, and their composition with billing and events |
| `OrderBook` | abstract: the order as a dealer thinks of it, after the comment on CancelOrder (`order/service.go`): each request happens at once, a product is one pile; implemented by `OrderToCash` |
| `EventFeed` | abstract: an at-most-once feed |
| `EventPub` | `pkg/eventpub`; implements `EventFeed` |
| `GableEvents` | the micro-UIs' poll |
| `Idempotency` | the middleware and a client that may retry |
| `TaskQueue` | the queue between webhooks and agent: webhook, processor, sweep |
| `RunLedger` | the durable runs of one turn: producers, observers, stop |
| `MC*` | small instances for TLC |
| `*Proofs` | theorems and their proofs |

**OrderToCash and the code.** `req[p]` is the handler goroutine `p` runs, `stage` its
program counter. One request is `ReadOrder` (GetOrder and the status check),
`CheckCredit` (or `GateRefuses`, the exposure gate's no, which is a free choice),
then per line `ListStock` (the SELECT of the stock call) and one `UpdateStock` per
UPDATE, then for a fulfilment `CheckInvoice`, `CreateInvoice` and `PostToLedger`, then
`CommitOrder` and `Publish`. `LineFails` is an error of a stock call, `Fail` any other: a failed statement
or COMMIT, a cancelled request context, a crash. Both roll back. `DeadlockVictim`
is PostgreSQL's detector. The delivery path is `CompleteDelivery`, `AutoInvoice`,
`PostToGL`, `PostToAR`. AdjustStock and MoveStock are `BeginAdjust`/`BeginMove`, then
`ReadRow` and `WriteRow` per AdjustStock call, then `EndStockRequest`.

Choices a reader should know of:

- The list query has no ORDER BY, so row order and ties are nondeterministic.
- UpdateStatus and COMMIT are one step: nothing another goroutine sees lies
  between them. A plain AdjustStock runs without RunInTx; its UPDATE and the end
  of its implicit transaction are two steps, which only prolongs the row lock.
- The customer's row is locked twice in a fulfilment: inserting the invoice takes
  KEY SHARE on it for the foreign key (`migrations/005_create_invoices.sql:8`), and
  PostTransaction reads the balance FOR UPDATE (`account/repository.go:89`). The
  stages tell who holds what (`SharesCustomer`, `OwnsCustomer`) and who waits
  (`AwaitsCustomer`); a delivery, whose postings are transactions of their own,
  waits but holds nothing from one step to the next. Two fulfilments of one
  customer that share the row wait for each other (`Crossed`), and `DeadlockVictim`
  rolls one back. A holder of that row waits for no inventory row, so there are
  no mixed cycles.
- CreateInvoice publishes after its own RunInTx, which inside FulfillOrder joins
  the outer transaction: the event leaves before the COMMIT. For a delivery,
  the commit of the invoice and its event are one step: that a crash in
  between loses the event is not modelled, and `EveryInvoiceAnnounced` is
  claimed without failures only.
- Marking the delivery DELIVERED and ExistsInvoiceForOrder are one step; they
  touch different tables.
- Compensating Release and RevertFulfillment calls are made on the way to an
  error that rolls the transaction back, so they have no effect and no action.
- ON_HOLD is a legal status since migration 071. An ON_HOLD order can only be
  cancelled.
- A delivery of an order in any status is billed, because the adapter does not
  look at the status.
- Payments are not part of SumOpenBalanceCents here; with none, it is the sum
  of the invoices.
- Quantities are small integers where the code has `float64` and NUMERIC; no
  property depends on fractions. `MaxQuantity` stands for the column's overflow.

**EventPub and the code.** Publish is two steps, the load of `stopped` and the
`select`. The drainer is `Receive`, `PostEnds` or `DrainerExits`. `PostEnds(received, heard)`
distinguishes whether the collection has the request from whether the drainer
hears a 2xx in its 5 s; a request given up goes to `late`, and `LateDocument` may still
turn it into a document, at any time or never. `Restart` empties everything in
memory. `SendOnClosed` is the Go panic. `cmd/server/main.go` never calls Stop, so
`MayStop` covers tests and embedders.

**GableEvents and the code.** A poll is `FetchEvents` (the answer is the collection
at that moment and may be handled any time later), `HandleDocs` (the synchronous part up to
`appStatePut`) and `PutMarker`. `backlog` is a history variable: what the first answer
since the start held. The four copies of the plugin differ only in their watched
prefixes, the constant `Watched`. The batch of a poll is a set: one put writes
the whole marker. Events only matter by identity; that the marker's
`entity` is read from a field the flattened documents do not have is outside the
model.

**Idempotency and the code.** `Lookup` is `store.get` with the replay, `HandlerSucceeds` and
`HandlerFails` are `next.ServeHTTP`, `Store` is `store.set`, which stores nothing
at capacity. `Covered` are the POST and PUT requests with a key. `Cleanup` is the sweep
of every ten minutes. The key is the client's header, *not* the path and not the
caller: `cmd/server/main.go:838-846` wraps the middleware around the auth
middleware, so `principalScope` finds nobody in the context and answers "anon"
(section 4). A request that auth refuses is `HandlerFails`. The history variable `lapsed` collects
the keys the cache cannot vouch for any more: two of their requests overlapped, or the
response of one expired, was lost in a restart or found the cache full.

**TaskQueue and the code.** The columns of a row are `status`, `attempts`, `payload`,
`thread`, `eventKey`; `payload` says what the row carries: the message, the staged answer,
the answer with its receipt, or `{}`. `Enqueue` is the insert behind the unique event key,
`Fire` the dispatch post (`toFire`: about to be made; `calls`: on its way), `Claim` the conditional
UPDATE of claimPendingTask. `worker[w]` is an invocation: it starts where its payload says
(`StartOf`) and goes through `RunAgent`, `StageAnswer`, `Send`, `StageReceipt`, `Persist`,
`Complete`, `DispatchNext`; errors lead to `Catch`, `Checkpoint` (the row goes back with what is still
to be delivered) or `Contain`. The sweep is `SweepSelect` and, per row, `SweepRow`, a
compare-and-swap on what it selected: `moved` holds the rows whose `updated_at` is no longer the
selected one.

- The portable processor is modelled: no durable campaign, A2A continuation,
  system notice or automation payload.
- Rows are numbered in the order `(created_at, id)`, in which they are served. They turn
  up in any order: `created_at` is read before the INSERT, in one of many processes
  (`pending-tasks-store.ts:172`). One UPDATE is one step. Counters
  of dispatch attempts are bookkeeping and left out; a row that is stored but whose
  dispatch throws is a lost dispatch.
- An agent that breaks down before there is an answer (`brokeDown`) leaves an apology, sent
  without looking at its receipt and in an empty `catch` (`webhook-handler.ts:1939-1950`); the
  task completes either way, so the model does not say that the apology arrived.
- A call that fails may have had its effect (`Send`, `Complete`) or not. All faults, crashes
  and lost posts draw on the one bound `MaxFaults`.
- `Outlives` says whether an invocation may run on past the time after which
  the sweep takes a processing row for abandoned. The platform's limit is meant to
  rule it out; section 4 says what happens if it does not.

**RunLedger and the code.** One turn. `row[r]` is a row of `agent_runs`, `log[r]` the terminal
events among its events: two in their order, and the checkpoint, whose reserved
sequence number sorts after them. `prod[r]` is the process that works on the run, `pc` the
next statement of run-manager's completion that touches shared state: `Checkpoint` and
`MarkBoundary` (a boundary is logged at once), `Conclude`/`Notice` (the agent returns, or learns
that its row was closed), `Store` (thread_data), `CountRows`, `StopTurn`, `Insert`, `Relook`, `Dispatch`/`Defer`,
`Hand`, `HandReason` (the hand-over to a successor; errored when the chunk ended in an error the
turn can be continued from), `ChainFails` (the hand-over breaks off), `Emit` (the last event), `Close` (the row). Observers
repair the row from the log (`Observe`), reap it under a row lock (`Reap`, `Commit` with the
successor) and, if they sweep, append their own event (`Append`). The stop is
`StopTheTurn`, `StopSelects` or `StopHasWaited`, `Decide`.

- A transaction that waits for a row lock is two steps: what it selected, and
  what it does with the rows that still match. Postgres re-checks the `WHERE`
  clause of the rows it waited for and does not see rows inserted meanwhile.
- Merged into one step, because nothing another process sees lies between them
  or a reader of the middle state acts alike: a repair (read the log, update), an
  append (read the last event, insert), a stop's transaction once it has its rows with the events it logs,
  the row's status with its reason and error in `Close`, the count and the marker look in
  `CountRows`. The chunk's own hand-over keeps status and reason apart (`Hand`, `HandReason`).
- Rows are numbered by `started_at`, which is the order of insertion. The two
  turn-abort markers are `marker`: they count as rows and as newer runs.
- Whether a run looks dead is free: a heartbeat may fail to land. `misjudged` remembers
  that a living producer was reaped. Claims that lose the compare-and-swap leave no trace.
- Whether the last reaped runs made progress is free (`DeadOnArrival`).
- A successor that is neither inserted nor dispatched is `ChainFails`. One whose insert
  fails although its dispatch gets through, and which then inserts its own row
  (`production-agent.ts:8640`), is left out.
- Left out: foreground runs, a client that posts again, the caps on rate-limited and unproductive chunks (a chunk may always end at
  a boundary or fail), the wall-clock limit (`StopTurn` may always happen).

## 3. Runs that pass

| Run | Instance | Shows |
|---|---|---|
| `otc_serial` | 2 orders, 2 products, 3 rows, 2 goroutines, one request per order at a time, failures | `AllocationBacked`, `StockShipped`, `BilledOnce`, `FinalStatus` hold, and `OrderToCash` implements `OrderBook` (`BookSpec`), as long as requests on *one* order do not overlap, whatever different orders do to each other and whatever fails |
| `otc_racing` | 2 orders of one customer, 2 yards of one product, two requests on one order allowed, no injected failures | what survives even then, deadlocks on stock rows and on the customer's row included: `NoOversell`, postings, an event for every invoice, `FulfilledIsBilled` |
| `otc_live` | 3 orders of one customer, two of them crossing, one row per product, a credit limit of two orders, fairness | every request ends, both kinds of deadlock included; a cancel succeeds unless it is a deadlock's victim |
| `otc_stock` | moves of one product, counts of the other, confirms and cancels, failures | `NonNegative`, `OnHandConserved` |
| `evp_feed` | 3 events, queue of 2, Stop, 1 restart, fairness | `EventPub` implements `EventFeed`; honest counters; Stop drains and returns; queued events leave the queue |
| `gev_polls` | one poll at a time, fetches that fail, 1 restart, fairness | nothing shown twice, silent start, nothing skipped, every event shown |
| `idem_retry` | 5 requests, 2 callers with one key, overlap, expiry, a cache of 1, 1 restart | executed once and one answer for every key the cache vouched for, never a failure as an answer |
| `tq_serverless` | 2 messages of one conversation, stored in either order, 2 invocations, 2 faults, 2 attempts, fairness | order, one invocation per conversation, bounded agent runs, nothing run or sent again after it is staged, answered before completed, every task ends |
| `run_turn` | up to 3 runs, budget 3, a poller, crashes, wrong verdicts | `CompletedIsStored`, `OneProducer`, `WithinBudget` through two hand-overs, or a hand-over and a recovery |
| `run_stopped` | up to 2 runs, budget 2, a sweeper, a stop, crashes, wrong verdicts, fairness | `StatusFinal` with every writer of a row present; every run ends |

Where a property needs a condition, the condition is a constant of the run;
section 4 says what happens without it.

### Bounds and why they are enough

`MaxInFlight` bounds the requests on one order (two suffice for its races: a
handler races through the order's status, the rows and the invoice count only),
`MaxStockTasks` the AdjustStock and MoveStock requests in flight, `MaxEvents` the
events of one order (it bounds how many requests an order ever sees; with three, a
confirm, a fulfilment and a delivery fit, in any order), `MaxQuantity` the column, `MaxRestarts`
restarts. Two products in three rows let one line span rows and two orders lock rows
crosswise; two yards of one product let two orders of a customer be fulfilled without meeting on a
stock row, and a third order of `otc_live` lets them meet on the customer's row while others cross on stock rows; three events are one more than the queue holds. `Symmetry` (over goroutines)
is used for safety and action properties only. `CHECK_DEADLOCK FALSE` is set
everywhere, since no request need ever arrive: the system may rest. `otc_live` is what
rules out requests that wait for each other for ever.

`MaxTasks` and `MaxFaults` bound the queue: two tasks are what order and mutual exclusion need,
two faults let a retry fail too, and with two attempts the cap is reached. `MaxRuns` bounds
the rows of a turn: with three, a run handed over can itself be handed over or be recovered; with two, a stop
meets a recovery or a hand-over. `run_turn` has the poller and `run_stopped` the sweeper, the two
kinds of observer; both in one run add nothing but states, since they share no
state except the row. With a budget of three and three rows it is the second half of `WithinBudget` that
`run_turn` exercises: what a producer counted still holds when it inserts. The same run with `Budget = 2`, where
the third row lies beyond the budget, passes as well, but has no second hand-over. The theorems of section 6 need none of these bounds.

## 4. Where code and comments disagree

Two runs check a sentence of a comment against what the code does, and a property of a
passing run is the opposite of a third; the quotes are in `PROJECT.json`, `findings`.

`idem_find_shared` (`OwnResponse`). The comments on principalScope and in `main.go` say that the
middleware runs after auth, so that the key of one caller never collides with
another's. It wraps the auth middleware and runs before it: two callers that send
one key share an entry, and the second is given the first one's response.

`evp_feed` (`StopDrains`). The comment on Stop says that it drains no further and that the
drainer exits after its in-flight POST (`eventpub.go:200-201`). A closed channel still
yields what it buffers: when Stop returns, everything queued has been posted.

`run_find_stop` (`StopStops`). A user stops the turn while a poller reaps its run. The stop's
SELECT ... FOR UPDATE waits for the reaper's transaction, which closes the row and inserts a
successor. When the SELECT returns, the old row no longer matches and the new one is
not in its snapshot, so the stop believes that nothing runs; its next statement finds
the successor as the latest run, without an event that would continue it, and answers
that the turn had ended. No marker is written, and the successor is dispatched and works.

The conditions of the passing runs are necessary. Change what the first column says
and TLC shows the behaviour (`MCOrderToCash` has the instances for the `otc` rows):

| Change | Then |
|---|---|
| `otc_serial` with `MaxInFlight = 2` | `BookSpec` fails with each of the others. `AllocationBacked` fails: two cancels of one order release twice, the second from another order's allocation (against `order/service.go:295-297`). Alone, `FinalStatus` fails: a cancel that read CONFIRMED overwrites FULFILLED (`order/service.go:347`, against 278-282); and `BilledOnce` fails: fulfilment and delivery both look for an invoice before either creates one (`cmd/server/main.go:1036`, against 1033-1034) |
| `otc_stock` with `NoOversell` | fails: a move takes units that a confirm allocated after the move's check (`inventory/service.go:121`, against 117-118) |
| `otc_stock` with kinds confirm and adjust, and `AllocationBacked` | fails: a count writes back a stale `allocated`, and a confirmed order loses its stock (`inventory/repository.go:84`) |
| `otc_live` with the orders and the stock of `otc_serial`, two rows for one product | `CancelSucceeds` fails: what Allocate spread over two rows, Release asks of one, and the order can never be cancelled (against `order/service.go:332-335`) |
| `otc_racing` with `Failures = TRUE` | `LedgersAgree` fails: the delivery's invoice, journal entry and customer posting are three commits (`invoice/service.go:210-212` wants one) |
| `otc_racing` with `EveryInvoiceAnnounced` as an equality | fails, without any injected failure: two fulfilments of one customer deadlock on the customer's row (`account/repository.go:89`), and the one that is rolled back leaves its `invoice.created` behind (26 states) |
| `otc_stock` with `MaxStockTasks = 2` | `OnHandConserved` fails: two moves overwrite each other's rows |
| `gev_polls` with a second poll | `NoReplay` and `BacklogQuiet` fail: an older answer handled last moves the cursor back |
| `gev_polls` with `Failing = {"putting"}` | `NothingSkipped` fails: the cursor has passed the batch whose put failed |
| `gev_polls` with an empty `Backlog` | `NothingSkipped` fails: an empty answer does not anchor, the first event is swallowed |
| `idem_retry` with `ExecutedOnce` for every key, `lapsed` or not | fails: nothing marks a key as being worked on, entries expire, a full cache stores nothing, and the cache is in memory |
| `tq_serverless` with `Outlives = TRUE` | `OneInvocation` fails: the sweep gives away the row of an invocation that still runs. The sweep waits 75 s on serverless hosts and 5 minutes elsewhere (`pending-tasks-retry-job.ts:49-50`); where a host lets a function run longer, "only one invocation gets to process this task" (`plugin.ts:2011`) is not kept |
| `run_turn` with `OneProducer` checked without its condition `~misjudged` | fails: a living producer whose heartbeat does not land is replaced while it works |

Two more divergences are plain in the actions and need no property:
`SendOnClosed` is a Publish call panicking because Stop closed the channel between
its check and its send, and `inventory.moved` is published after a return statement (`inventory/service.go:162`),
so `stockFeed` never holds it. The credit check counts issued invoices only: orders
confirmed before any is invoiced can exceed the limit together.

So are these of the two framework protocols:

- `markTaskCompleted` and `markTaskFailed` write by id alone (`Complete`, `Catch`): with an
  invocation that outlives its time, a row that has failed may turn completed, or the
  other way round.
- The sweep of runs appends its stale event to every row of its snapshot, reaped or
  not (`Miss`, `Append`; `run-store.ts:3347`). The comment above wants a row that is
  not stale any more "correctly excluded" (3329-3332), but the next reader believes the
  event and closes the living run.
- setRunError writes whatever the row says (`Diagnosed`): a reaped producer that
  comes back failing overwrites `stale_run`, and the cap on recoveries, which counts
  that code, counts one too few ("exactly three successors per turn", `run-store.ts:2088`).
- A boundary is logged before the thread is saved, and a reader that believes
  it closes the row (`Checkpoint`, `Reconciled`): the row of a *truncated* run is no
  sign that thread_data is durable, although the invariant at `run-manager.ts:2028` is
  about every row that is no longer running. `CompletedIsStored` is what remains true.
- A producer counts the rows of its turn in one statement and inserts its successor in
  another. `WithinBudget` says that the count cannot grow stale in between, as long as no living
  producer is reaped; one that is reaped there inserts its successor next to the reaper's, and the
  turn has a row more than "the documented ceiling" (`run-store.ts:328`).

## 5. Fairness

`otc_live`: strong fairness on each goroutine's `Serve`. The Go scheduler runs every
runnable goroutine; a goroutine waiting for a row is enabled only while the row
is free (a row of `inventory`, or the customer's), and PostgreSQL grants row locks in the order they were asked for, which
is what strong fairness says. No request need arrive and no failure need happen.
`evp_feed`: weak fairness on publishers, drainer and Stop; a POST ends because the
HTTP client times out. `gev_polls`: weak fairness on polls (the
timer keeps firing and awaits are answered) and strong fairness on handling an
answer, which says that not every fetch fails for ever. None of them assumes that
restarts happen or stay away. `tq_serverless`: weak fairness on every post that is
to be made, on the claim by some invocation, on each step of an invocation that is
not killed, and on the sweep, whose timer keeps firing; faults are never forced. `run_stopped`:
weak fairness on producers, claims and on what an observer has begun, and strong
fairness on `Observe` and `Reap`: timers and polls come round again and again, a row may be
locked in between, and a dead producer does not look fresh for ever. Nothing forces a dispatch,
a stop or a crash: a run nobody claims is reaped.

## 6. What is proved

The theorems hold for every value of the constants under the named ASSUMEs of the
modules; TLC evaluates these assumptions on every run.

**`OrderToCashProofs`** (one lemma per stock call, then one per handler).
The inductive invariant is `StockInv /\ DocsTypeOK /\ ReqInv`. `NonNegative` speaks
of committed rows and is not inductive: a commit installs a draft, and an UPDATE
computes a draft from a quantity chosen from rows read earlier. So `StockInv` says
that drafts too are non-negative, and what a call in progress may be: it takes a positive amount
from a row of its product (`TakesPositive`, `ContinuationOK`); the `WHERE` guard then does the
rest (`UpdatedOK`).
Proved: `Typed`, `NonNegativeHolds`, and `NoOversellHolds`: if neither counts nor moves
arrive, no row promises more than it holds, for any number of goroutines, orders,
lines and rows. The condition is necessary: section 4 has the behaviour without it.

**`BillingProofs`** (on the invariant above). `BillInv` adds that a stock call is open only in the stages
that make one, and that a fulfilment about to commit has an invoice, its own or one it found (`BillOK`):
`FulfilledIsBilledHolds` needs no condition, since nothing ever takes an invoice away. `AgreeInv`
counts debts: each posting an invoice still lacks is owed by a request on the order that stands before it
(`LedgerInv`), and the events of an order are at least its invoices and those its fulfilments are about to commit
(`EventInv`, an inequality, since a deadlock's victim leaves its event behind). A request
that dies between two commits takes its debt along, hence the condition of `LedgersAgreeHolds`, `~Failures`; that no *deadlock* does so
is `CrossedAtLedger`: who waits for the customer's row in a cycle is a fulfilment before its COMMIT, never a delivery between its
postings. `EveryInvoiceAnnouncedHolds` has the same condition because the commit of a delivery's invoice and its event are one step here.
`SerialInv`, for `Serial` (`MaxInFlight <= 1`), says that what a request read is still the order's
status and that the order it is about to bill has no invoice. Proved from it: `BilledOnceHolds` and
`FinalStatusHolds`, whatever fails.

**`StockProofs`** (on both). Three invariants about sums.

- `TxInv`, for `Serial /\ NoAdjustments`. What a transaction has changed in the rows of a product
  (`Change`: what it sees less what is committed) is what its request has placed of it so far, line by
  line (`Tally`, `Placed`, `DoneOn`); who is outside a transaction holds no row; and the committed rows are the initial ones plus
  what the orders of a status ask for (`Backed`). A COMMIT moves both by the same amount (`CommitOrderOK`),
  a ROLLBACK moves neither, and the step of one transaction leaves the `Change` of all others alone (`OthersChange`), which is
  what the row locks are for. Proved: `AllocationBackedHolds`, `StockShippedHolds`. The subtle case is `SkipLine`: a cancel
  that skipped a line would strand its allocation, and `SomethingAllocated` shows that it never does, because what the
  order was promised is still allocated to the product (`Promised`).
- With one row per product (`OnePile`) the same fact puts all of it in the row that
  Release picks, so no line of a cancel fails (`CancelLineSucceeds`): `CancelSucceedsHolds`, for `~Failures`.
- `HandInv`, for `Conserving` (`MaxStockTasks <= 1` and nothing is fulfilled). What an AdjustStock read of a quantity is
  still so when it writes (`Reads`); half a move has changed the quantity of its product by exactly what its second
  half will bring back (`Moving`); all others have changed no quantity (`Untouched`). Proved: `OnHandConservedHolds`.

- `BookRefinement`, under the conditions of `TxInv`: every behaviour of `OrderToCash` is one of `OrderBook`. There an
  order is confirmed, cancelled or fulfilled in one step, and a product is a single pile of units on hand and
  units promised. `BookTotals` maps the rows to the pile: the sums over a product's rows are the initial ones
  and what the orders ask for, which is `Backed`. A COMMIT is the only step that moves the book (`CommitBook`),
  by the effect of the request's kind (`BookMoves`); that the pile has the units for a confirmed order,
  the guard of the abstract `Confirm`, follows from `NoOversell` *after* the COMMIT (`PromisedFits`). A delivery's invoice is `Bill` (`BillBook`), an order held for its credit is `Hold`
  (`HoldBook`), and every other step leaves the book as it is.

The sums are folds, whose recursion TLAPS does not unfold by itself. The first part of the module derives the laws of finite
sums from a smallest counterexample: strict inclusion is well-founded on the subsets of a finite set
(`Smallest`), so a family of subsets on which a law fails would have a least member (`NoCounterexample`).
`AddsUnique` and `AddsExists` give the fold its recursion equation, `SumStep`, and the rest follows from it: `SumRemove`, `SumPlus`,
`SumChange`, `SumAtLeast`.

**`GableEventsProofs`.** `ReplayInv`: the collection holds no event twice, the cursor is in it and all that was shown is at or before
it (`CursorInv`); the answer a poll holds is a prefix of the collection that reaches as far as the cursor, and what it is about
to put is new (`PollOK`). It is the prefix that a second, older poll would break, hence `OnePoll`. `QuietInv` says that until
the first restart nothing of the first answer was or will be shown, `SkipInv` that no answer is empty. Proved: `Typed`,
`NoReplayHolds`, `BacklogQuietHolds`, and `NothingSkippedHolds` for a collection that is not empty on boot and
puts that do not fail.

**`EventPubProofs`.** `AtMostOnce` is about events in the log, in hand and in the
queue. It becomes inductive with `Places` (all of these and `late` are disjoint and
without repetition), `Entered` (whatever is in them was queued by its Publish call, so
Enqueue never re-enters it), `Control` (the drainer holds an event exactly while posting, and exits only
on a closed and empty channel). Proved: `Typed`, `AtMostOnceHolds`, `CountersHonestHolds`,
`StopDrainsHolds` and `Refinement`: `Spec => Feed!Spec`, each step mapped to one step of
the feed or to a stutter.

**`IdempotencyProofs`.** `Honest`: a cached response, one that was given and one about to be stored are
those of a success with that key. `Vouched`, for keys not in `lapsed`: one request is in flight, and once the
work is done its response is about to be stored or is in the cache, so that a request only goes on to its handler while
the work is not done. Proved without any condition on what the environment does: `Typed`, `ExecutedOnceHolds`, `OneAnswerHolds`.

**`TaskQueueProofs`.** Four invariants; the other three rest on the first. `RowInv`: types,
and the sweep's snapshot is true of every row nobody has touched since (`SnapshotHolds`), which
is what its compare-and-swap rests on. `OrderInv`: of the tasks of a
conversation one is processing (`OneProcessing`); each step then overtakes nobody (`KeepsOrder`), except that a row may still turn up
late, before one that is being processed. `AnswerInv`: an invocation that stands after the send has an accepted
answer or a broken-down agent behind it (`AnsweredBy`). `InvocationInv`, for `~Outlives`: the row of a
working invocation is processing and its own (`OwnRow`, `Apart`), the sweep has not selected it (`Swept`), and
a message that waits has an attempt left (`Capped`). Proved:
`TypeCorrect`, `ServedInOrder`, `CompletedWasAnswered`, and, as long as no invocation outlives its
time, `OneAtATime`, `AgentRunsCapped`, `StagedNotRerun`, `ReceiptNotSentAgain`.

**`RunLedgerProofs`.** `IInv` is `TypeOK` with `Contiguous` (rows are numbered without gaps),
`Holding` (a reaper's transaction holds a running row alone), `Unsaved` and `Silent`. The core
is `Unsaved`: a run whose part is not in thread_data has no answer in its log, or its row
is closed where no event can repair it; without it, a repair could write completed.
`StatusFinal` follows because each step changes a row as `FinalStep` allows. `OneProducer` needs
`TurnInv`: producers begin with a claim and never go back (`Claimed`, `OnlyForward`), and only the latest run may still
begin, work or hand over unless a living producer was misjudged (`Foremost`). `WithinBudget` is inductive with it
(`BudgetInv`): who inserts is the latest run, so nobody else stands before an insert when a row is added
(`GrownBudget`), and only `CountRows`, which has just seen room, leads a producer there (`CountsFirst`). Proved: `TypeCorrect`,
`SavedBeforeCompleted`, `DecidedStays`, `OneAtWork`, `BudgetKept`.

The assumptions the last two modules on orders add are that rows, goroutines and orders are finite
(`FiniteAssumption`, `OrdersFinite`), as any state of the program has them, and that the two rows of a
move stock the same product (`MoveAssumption`): MoveStock takes one product and two locations.

Every safety invariant and every action property that a passing run checks is a theorem, and so are both refinements. Where
a theorem has a condition, section 4 shows the behaviour without it, or the property would not say what it means
(a fulfilment changes what is on hand, a failed statement ends a cancel). `OwnResponse` and `StopStops` are what the two violation runs refute. Model-checked only
are the liveness properties (`EveryRequestEnds`, `StopEnds`, `QueueDrains`,
`EveryEventShown`, `EveryTaskEnds`, `EveryRunEnds`): fairness and ENABLED are beyond the prover.

## 7. Not modelled

Branch scoping of stock and of users, the creation of a missing inventory row,
fractions, prices and tax, the exposure gate's decision, order creation and
editing, e-mail, HTTP details. Of the agent-native framework only the task queue and the run ledger are modelled:
the rest is templates, editors, user interface and provider adapters, whose state is
local to a process or a browser and which have no protocol that a model of this kind would say
more about than a test. The remaining back-office packages, the web application, the SDK and the infrastructure are
listed in `PROJECT.json` with the reason.

## 8. Plan

In order of weight; each step adds a module, one passing run and its proofs. The
number of runs stays at about a dozen: a `find` run makes room for the run of a new
module and its disagreement moves to the second table of section 4.

1. `Payments`: charge, record, refund, deposits and the balance they settle. Safety:
   money charged is recorded or refunded, refunds never exceed the charge, a
   deposit is applied once, although it is read without a lock. Then the credit
   limit, with payments.
2. `PurchaseOrders` and `Till`: receipts and sales over `Inventory`, with the lost updates
   that section 4 shows for a receipt; received quantities never exceed what was ordered unnoticed.
3. `Routes`: DispatchRoute, CompleteRoute, deliveries and the optimizer's
   replacement of a route.
4. `Quotes`: the state machine and its conversion to an order, once.
5. `EventBackbone`: `EventPub` composed with the fan-out's retries and with
   `GableEvents`; the feed of `EventFeed` as what consumers may rely on.
6. The draft-then-apply actions of the micro-UIs, with `Idempotency` in front.
7. `RunLedger` with foreground runs and the client that posts again, and the
   durable campaigns and A2A continuations of `TaskQueue`.
8. Proofs: the invariants of the modules above.

## 9. Running

    tlc -workers 2 -config otc_serial.cfg MCOrderToCash
    tlapm OrderToCashProofs.tla

`otc_*` belong to `MCOrderToCash`, `evp_*` to `MCEventPub`, `gev_*` to `MCGableEvents`,
`idem_*` to `MCIdempotency`, `tq_*` to `MCTaskQueue`, `run_*` to `MCRunLedger`. Definitions headed by a comment `Mutant:` are deliberate mistakes:
put in the place of the definition that follows, each breaks the property that
`PROJECT.json` names under `mutants`.
