# Limited-goods reservation: models, checks and proofs

A verification project for the reservation service in this repository: sales of
limited goods, where a purchase holds stock for a while, a payment turns the hold
into a sale, and an unpaid hold gives the stock back; and of the load trials that are
to show that it does.  The modules are translated from the Java, SQL, Lua, JavaScript and
PowerShell sources; `PROJECT.json` maps every definition to its lines.

## 1. The system

| Part | State it keeps | Operations | Where |
|---|---|---|---|
| Sales and stock counters | `sales`, `sale_items` (available, held, sold, total, per-user limit) | create a sale; every counter move below | `sales/` |
| Purchase transaction | `orders`, `order_items` | one transaction: lock the key, replay or check, lock the items, hold stock | `purchases/PurchaseTransactionService` |
| Reservations and expiry | `reservations` (status, hold expiry, confirmation deadline) | create, confirm, release, `due`, expire | `reservations/` |
| Payment service | `payment_attempts` (status, lease, next check, terminal time) | start, work, apply; callback endpoint | `payments/` |
| Payment worker | its threads and semaphore; the lease columns | dispatch, drain (claim, ask, apply), expiry sweep, shutdown | `worker/` |
| Provider client, mock provider | requests in flight; `mock_pg_receipts` | resolve over HTTP; accept | `payments/PaymentProvider`, `mockpg/` |
| Front door | none (signed tickets) | verify ticket, replay, freshness, permit, purchase, return permit | `purchases/PurchaseService`, `config/AdmissionTicket` |
| Admission gate | Redis: permits in flight, rate gate, one-second negative stock cache | enter, leave, complete, remember | `admission/` |
| Waiting room | Redis: queue, ready set, item records, liveness set, rate | join, poll | `waiting/`, `waiting.lua` |
| Sale catalog | Redis: a five-second projection of each sale | refresh; warm-up clean-up | `sales/SaleCatalogPublisher` |
| State and invariant queries | none | counts of disagreements, read by operators | `ops/` |
| Browser scripts | one user's iteration: registration, ticket, order | join, poll, buy, replay, pay, each with retries | `k6/target/` |
| Offline contract tests | mocked answers, fake clock and metrics | run a script, look at its requests | `ops/performance/target-static-test.mjs` |
| Target trials | a warm-up, a measured trial, their verdicts | check the configuration, load, drain, review, clean up | `ops/performance/target*.ps1` |
| Baseline experiments | a warm-up, a measured load, its verdict | load, check, drain, judge | `k6/`, `ops/performance.ps1` |
| Recorded experiments | the scripts and reviews of their day | | `artifacts/performance/` |

Everything durable is in PostgreSQL; Redis is advisory.  Parts meet only in the
tables: an API request, a worker thread, a provider callback and the expiry sweep
each run transactions on the same order, serialised by its row lock
(`orders.lock`), and on the same items, serialised by the item row locks
(`sales.lockItems`, in id order).  A purchase has no order to lock yet and
serialises on an advisory lock of its user and key.  Between its transactions a
worker holds no lock, only a ten-second lease.

What is hard in it: the hold clock and the payment clock run side by side, so an
order may be paid after its hold lapsed, and must then be neither released nor left
over; payments are asked for over a network that loses answers, by workers whose
leases run out while they are merely slow, while callbacks may bring the same
result; one table of counters is moved by four kinds of transaction; the deadline a
request carries is read in a second query.  `PROJECT.json` lists every such hazard
with its line and the properties that cover it, or says why none does.

In front of the purchase stand the waiting room and the gate, whose keys in Redis lapse at
different moments while purchases are under way; behind it a pool of worker threads that
must lose no slot.  A trial is judged by comparing counts, some kept by the scripts and
some read from the database, while answers are lost and requests are served after their
script has given up.

What makes each part correct:

- stock: nothing oversold or lost, limits per user kept (`StockMatchesOrders`,
  `WithinUserLimit`, and as a whole `AllocatesStock`);
- purchases: one order per key (`OneOrderPerKey`);
- orders, holds and attempts agree; finished is final; stock is given back only when
  unpaid for good (`OrdersAgree`, `FinishedIsFinal`, `ReleasedOnlyUnpaid`);
- payments: charged once at most, never charged without stock, every charge ends as a
  confirmed order, every attempt and order ends (`NoDoubleCharge`,
  `ChargedKeepsStock`, `ResultIsTheProviders`, `TakenUpInTime`, and the liveness
  properties);
- catalog and waiting room: nobody is sent home while stock may come back, the room and
  its tickets keep their limits, its keys agree, and who polls as told keeps its place
  (`SoldOutIsFinal`, `CleanedStaysClean`, `CatchesUp`, `DismissedForGood`, `PlacesAgree`,
  `LimitsAreKept`, `PolitenessPays`);
- admission: no more purchases than permits as long as permits last, a committed order is
  answered and never refused, a ticket that lapsed in a queue buys nothing, and the negative
  cache refuses no longer than its lifetime after the last moment without stock, or after a
  command that its sender had given up on was run (`PermitsAreKept`, `OrdersAreReplayed`,
  `LateTicketsBuyNothing`, `StaleForAMoment`);
- worker: no slot is lost, jobs are taken up, a shutdown ends (`SlotsAddUp`, `JobsAreTaken`,
  `Rests`);
- browser scripts: whatever is repeated, payments come within the hold and the iteration
  within its window; only what was heard of is paid for; the contract tests pass
  (`KeepsItsTimes`, `ImplementsIteration`, `TestsPass`);
- trials: configuration, scripts and review agree, the load is the one planned, a verdict is
  right about each order (`PlansFit`, `LoadFits`, `VerdictsFit`, `ExperimentsAreFair`,
  `FirstRecordsAgree`).

## 2. Modules

| Module | Models | Uses |
|---|---|---|
| `Quantities` | requests, and SQL `sum(quantity)` over a set of orders | |
| `Allocation` | abstract specification: limited stock is offered, held, and then bought or returned, once | `Quantities` |
| `Checkout` | the order database, one action per transaction | `Quantities`, instance of `Allocation` |
| `TxLocks` | the same transactions lock by lock and statement by statement, shown to implement `Checkout` | `Checkout` |
| `PaymentFlow` | workers, leases, provider, network, callbacks, sweep around the transactions of `Checkout` | `Checkout` |
| `Catalog` | the publishers of the sale catalog over moving stock, and the warm-up clean-up | |
| `Waiting` | `waiting.lua` one call per step, with purchases by ticket and the catalog it reads | `Catalog` |
| `DeadlineEvidence` | stored instants and the deadline query of `target-state.sql` | `Checkout` |
| `WorkerPool` | dispatch, drain and shutdown of the worker, thread by thread | |
| `Admission` | the front door step by step: replay, permit, locks, negative cache, commit, leave | |
| `Iterations`, `Iteration` | what those who count may rely on of one iteration of a load script; as a specification | |
| `Browser` | the iteration of each browser script, in time, against a service that answers as it likes, shown to implement `Iteration` | instance of `Iteration` |
| `BrowserTests` | the contract tests: scripts, mocked answers, assertions | `Browser` |
| `VirtualUsers` | what k6 does with a script: init contexts, the shared array, setup, arrivals, dropped ones | |
| `TargetPlan` | configurations, windows, thresholds, and what the review asks for | |
| `EarlierPlan` | the thresholds and review of the first recorded target trials | `TargetPlan` |
| `TargetRun` | an experiment of two trials: load, drain, review, clean-up | `Iterations` |
| `Baseline` | an experiment on the baseline: warm-up, check, spike or capacity trial, verdict | |
| `FirstSpike` | the first recorded experiment, on two servers with their connections | |
| `MCCheckout`, `MCTxLocks`, `MCPaymentFlow`, `MCCatalog`, `MCWaiting`, `MCWorkerPool`, `MCAdmission`, `MCDeadlineEvidence` | small instances for TLC | |
| `MCBrowser` | one instance of `Browser` in ticks of five seconds and one of `BrowserTests` in seconds, side by side | |
| `MCTarget` | `EarlierPlan` (with `TargetPlan`), `VirtualUsers` and `TargetRun` side by side | |
| `MCBaseline` | `Baseline` and `FirstSpike` side by side | |
| `CheckoutProofs` | lemmas on sums; types, references, agreeing statuses, counters, limits and keys are inductive; the theorems of `Checkout` and its refinement of `Allocation` | `Checkout` |
| `PaymentFlowProofs` | the safety of `PaymentFlow`, which implements `Checkout` | `PaymentFlow`, `CheckoutProofs` |
| `TxLocksProofs` | `TxLocks` implements `Checkout`, and no circle of waits | `TxLocks`, `CheckoutProofs` |
| `WaitingProofs` | the safety of `Catalog` and of `Waiting`, which implements `Catalog` | `Waiting` |
| `AdmissionProofs` | the safety of `Admission` | `Admission` |
| `WorkerPoolProofs` | the slot count of `WorkerPool`, and that nothing is rejected | `WorkerPool` |
| `ExperimentProofs` | the times of `Browser`, which implements `Iteration`; the safety of `Baseline` and of `FirstSpike` | `Browser`, `MCBaseline` |
| `TrialProofs` | a good verdict of `TargetRun` is right about each order; the load of `VirtualUsers` is the one planned; the plans of `TargetPlan` and `EarlierPlan` fit together | `MCTarget` |

### Checkout

Variables are tables: `sales`, `stock` (`sale_items`), `orders` (with their
`order_items`), `reservations`, `attempts` (`payment_attempts`).  A table is a
function from the ids in use to rows.  Actions are the transactions that write:

| Action | Code |
|---|---|
| `CreateSale` | `SaleService.create` |
| `Purchase` | `PurchaseTransactionService.purchase`, `ReservationService.create` |
| `Start` | `PaymentService.start` |
| `Apply` | `PaymentService.apply`, with `Confirm` and `Release` of `ReservationService` |
| `Expire` | `ReservationService.expire` |
| `Tick` | time passes |

Refusals (each `ApiError`, each early return) write nothing, so they are the absence
of a step.  Transactions are atomic: each takes the lock that protects what it
decides on before it reads it.  `TxLocks` checks that this is so.

Stored instants are represented by the time left until them, never below 0, which
is all any transaction asks ("is it still ahead?").  That removes the absolute clock
and makes the state space finite without a bound on time.  Prices are left out: a
total is copied from order to attempt, and `apply` refuses another amount.

### TxLocks

`tx` gives each database session the transaction it runs: what it was asked for, the
locks it holds and the rows it has read.  A purchase is `Begin`, `LockKey`, `LookUp`,
a `LockItem` for each item in id order, `ItemsLocked`, a `CheckItem` for each item (its
own `used` query) and `CommitPurchase`; the others are `Begin`, `LockOrder`, `ReadOrder`,
`LockItem`s if they move stock, and their commit.  Statements read what is committed
when they run; a commit writes back whole rows as the entity manager does, so a row
read too early would be a lost update.  `CommitsAreAtomic` is `Spec` of `Checkout`:
the refinement mapping is the identity on the tables, and a step that commits nothing
is a stutter.

Left out: time passes only while no transaction runs (an instant read at the start of
a transaction and used at its end can differ by the length of the transaction; no
order between transactions depends on it, as they compare it with the instants of the
order whose lock they hold); two keys whose advisory hash is the same, which only
serialises more; the claim, which locks one row with `skip locked` and waits for nobody;
the share locks that foreign keys take, on rows that the transaction has locked itself
or that nobody locks.

### PaymentFlow

`jobs` holds the two columns only workers read (`next_check_at`, `lease_until`).
A worker is idle, `claimed`, `read` (between the two queries of
`PaymentService.work`), `calling` or `answered`.  `calls` are requests on their way:
one whose sender timed out or died stays there, from `Nobody`, and may be accepted
later or be lost.  `Accept` is one `MockPaymentStore.accept` transaction; whether the
sender hears of it is a separate choice, and a first `LOST_RESPONSE` is never heard.
`FindDue` and `ExpireNext` are the sweep: the list is read in one transaction and
each order expired in another, or abandoned (`SweepFails`).

A claim is one statement (`for update skip locked`) and so one step.  A worker whose
lease ran out goes on, beside the one that claims next.

### Catalog

`shelf` is what the publisher's query returns of a sale (the sums of available and held
units), moved by units as the transactions of `Checkout` move them; `catalog` is the
Redis keys, `publishing` the rows a publisher has read and not yet written.  A refresh is
`Read` and a `Write` for each sale, or `RefreshFails` in between.  The shared advisory lock
is held exactly while `publishing[p]` has rows; `DeleteSale`, the transaction of the
clean-up, waits for that (`LockIsFree`), and `DeleteKeys` follows it.  The transaction's
guard (one sale, every order confirmed) is that nothing is held.

The lock does not cover a SET that a publisher has given up on after 200 ms: the exception
ends its transaction, and Redis may run the command later (`late`, `RunsLate`), also after
the clean-up.  So a cleaned sale may have a key once more, for five seconds, though the
comment at `SaleCatalogPublisher.java:30` promises that no stale publisher writes it back;
nobody asks for that sale any more.  `CleanedStaysClean` says that there is no other way
back, and `SoldOutIsFinal` and `CatchesUp` hold whenever such commands are run.

### Waiting

Redis runs `waiting.lua` as one step, so `Join` and `Poll` are one action each.  Both begin
with the clean-up of lapsed and inactive entries, also when the call is then refused
(`OnlyPurges`).  `items` is the record of an id, `queue`, `ready` and `live` the sorted
sets, `rate` the instant of the next ticket; all keep the time left.  Of the waiters who
have not polled, a call removes `PurgeLimit`: since the time left stops at 0, which of
them are longest gone is not known, and any choice is allowed.  `Buy` is a purchase with
a ticket, at the moment it commits; `CompleteReady` returns the ticket later, or never
does (`NeverCompletes`).  A key that bought once is answered with its order from then on.

Left out: a loss of Redis as a whole (`target-v1.md` promises nothing then); the skew of
Redis' clock and the application's; the clean-up of a warm-up, which runs when nobody waits.

### WorkerPool

`slots` is the semaphore, `tasks` the executor's queue, `turn` the dispatch loop's `i` with
the slot it has in hand, `thread[t]` where a drain is, `monitor` the synchronized methods.
`tryAcquire` and `execute` are two steps, as a thread may take the last job, end or throw
in between.  `Claims` may find nothing; `Throws` is an exception of claim, work or apply,
which the catch and finally clauses turn into `Release`.  `ShutdownNow` forgets the queue.
What a job does is in `PaymentFlow`; here it ends, or throws and is due again.

### Admission

A call of `PurchaseService.purchase` goes through `Replay` (a transaction of its own),
`RequireFresh`, `Enter`, then the purchase transaction lock by lock (`LockKey`, `Look`,
`LockStock`, `Decide`, `Remember`, `Commit`) and `Leave`.  Each step may fail (`Fails`: a
statement timeout, no connection) and the process may die (`Dies`): the database then rolls
back and Redis is told nothing.  An answer of Redis may be lost after the command was done
(`EnterUnanswered`), and a command may be done after its sender gave up.  For the negative
cache that is `Arrives`: `late` counts the commands under way, each of which is run at any
time afterwards, when the transaction that sent it has long rolled back and stock is there
again, or never.  A permit granted late is one of a call that died, a permit returned late is
returned by a slow `Leave`.  `GiveBack` is a hold that lapses.  There is one item with `Units`
units, one order per buyer; tickets, permits, the rate gap and the cache keep the time left.

### Browser, Iteration, BrowserTests

`step` is where `browser()` (or `existingPayment()`) of `k6/target/common.js` is; each
request takes some time, is answered in one of the ways the script tells apart, and the
service may have done what it does not answer for.  `clock`, `expires` and `server.left`
(the browser's 180 s, the ticket's 10 s, the hold's 300 s) move by the same amount.  In
ticks of five seconds what a step lasts is rounded up and what it must be done within is
rounded down, so what holds in ticks holds in seconds.  `Iteration` forgets all but what was
asked, made and heard, and the refinement mapping reads it off `order`, `paid` and
`server`; `TargetRun` is built on the same `Moves`.

`BrowserTests` gives a script the mocked answers of a test, a clock that only sleeps move,
and states the assertions that follow each test.  The hash that gives a user its behavior is
not modelled: every tenth that a test allows for is tried.

### VirtualUsers, TargetPlan, EarlierPlan, TargetRun

`VirtualUsers` models k6 from how the scripts and the tests' fakes use it.  `TargetPlan`
has the windows and thresholds of the six scripts, what `target.ps1` lets through, and, as
definitions of their own, what `target-review.ps1` requires and expects; a step goes from
the warm-up's configuration to the measured one.  `EarlierPlan` has the same of 2026-09-11.
`TargetRun` keeps for each iteration a record of `Iterations` and for each order a row;
`Serves` joins the two.  `ServeLate` is a request served after its script gave up, `Misses`
an answer that does not come.  `Passes` is the review's list of requirements on counts.

### Baseline, FirstSpike

`Baseline` is `performance.ps1 Run` with `purchase-warmup.ps1` and `capacity.ps1`: the
database starts empty, the warm-up is checked by its counts, then the other sale is
measured.  The service is modelled as the scripts meet it, and `asked` are the requests it
has not done with, whoever still waits.  `FirstSpike` adds what the recorded errors of
2026-09-09 come from: connections, the row everybody waits for, the one-second limit.  In
both a payment that was accepted may come to the provider after its deadline and be refused
(`FailPayment`): the order can be paid again, which no script does, and then expires.

### DeadlineEvidence

Only this module needs instants: it adds a clock (bounded by `MaxClock`) and what
`confirmation_deadline` and `terminal_at` store.

## 3. Runs

| Run | Instance | Shows |
|---|---|---|
| `checkout` | 2 users, 2 keys, 3 orders, 2 attempts, 2 items: one scarce, one with a small limit; quantities to 2; hold, payment window and opening 1 tick | the safety properties of `Checkout`, its step properties, and that it implements `Allocation` |
| `tx_locks` | 2 sessions, 1 user, 2 keys, 2 orders, 2 attempts, 2 items of one sale | the lock-by-lock transactions implement `Checkout`; no circular wait |
| `payment_flow` | 2 workers, 1 order, 2 attempts, scenarios LOST_RESPONSE, DELAYED_SUCCESS, FAILURE; hold and window of 2 ticks, lease, recheck and settling of 1 | the payment safety properties under lost, late and repeated requests, crashes, expiring leases, callbacks |
| `payment_live` | 1 worker, all scenarios that differ (UNKNOWN too) | every charge is confirmed, every attempt and order ends |
| `catalog` | 2 sales with 2 and 1 units, 2 publishers, keys of 2 ticks, 1 late command at a time | SOLD_OUT is final, the cleaned sale stays away but for a late command, the catalog catches up |
| `waiting` | 3 ids, a room of 2, 1 ticket at a time, 1 unit, purge limit 1; waits and inactivity of 3 ticks, tickets of 2, retries of 1 and 2; no late commands of the catalog | limits, agreement of the four keys, a polite waiter keeps its place, nobody sent home early |
| `worker_pool` | 3 threads and slots, 2 jobs | no slot is lost, jobs are taken up, a shutdown ends |
| `admission` | 2 buyers, 2 calls, 3 tokens, 1 unit, 1 permit of 2 ticks, rate gap of 1, negative cache of 2, tickets of 3, 2 late commands at a time | permits, replays, lapsed tickets, the negative cache |
| `deadline_evidence` | 1 order, 2 attempts, 6 ticks | the finding below |
| `browser` | every script and variant, ticks of five seconds, answers after 0 or 1 tick; the contract tests in seconds | the scripts keep their times and implement `Iteration`; the contract tests pass |
| `target` | configurations of rates 1 and 40, durations 1, 60 and 180, stocks 60 to 3000, users 10 and 50000; 2 virtual users of a scenario, 3 in all, 2 arrivals a second; experiments of 2 arrivals a trial | plans, load and verdicts fit together |
| `baseline` | 1 arrival of a scenario and the one more at its end, stocks 2 and 3; the first experiment with 1 virtual user and 2 servers of 1 connection | an experiment measures what it says; the first record explains itself |

Why these bounds are enough to be interesting.  Two users and three orders make
purchases that compete for the last piece, exhaust a limit and, after an expiry, fit
again.  Two attempts per order make a retry after a failure and a late answer for
the first.  Two workers are what a lapsed lease takes.  One tick for each time still
orders all events around it both ways; the hold and the window are longer than lease
and recheck in `payment_flow` so that leases lapse within them.  SUCCESS behaves as
LOST_RESPONSE whose answer arrives the second time, and is left out there.  Three
orders in place of more, and one order beside the workers, is where TLC's reach ends;
the theorems (section 5) have no such bound.

In `waiting` three ids for a room of two make it full, one ticket makes the second waiter
wait for the first, and a purge limit of one leaves an inactive waiter to the next call.
A ticket of two ticks and a wait of three make the deadline cut a ticket short, and the
inactivity time is longer than the longer retry, as 30 s is longer than 12 s.

In `tx_locks` two sessions are what a conflict takes, two items what an order of locks
takes; one user with two keys makes both the same and different advisory locks, with
a limit of one that two purchases of the user compete for.

In `worker_pool` two jobs for three drains leave one without a job, beside one that ends.
In `admission` one permit for two calls makes them compete; it lapses in two ticks while its
call waits, and then both reach the row lock, where one unit makes the second find nothing.
Of two late commands the second can lengthen what the first began.  In `catalog` one late
command is enough to come after any newer write and after the clean-up; `waiting` has none,
to stay within TLC's reach, and the theorems about it have any number.

In `browser` the times are those of the code (180 s, 10 s, 300 s, 420 s) and so are the
five joins and five tries; a tick of five seconds is the timeout of a request.  `target`
takes the sizes that its thresholds tell apart, the smallest and the usual ones; two
arrivals in a trial and the one more suffice for an unheard order beside a heard one, a
warm-up's order beside a measured one, and a count that comes out right by mistake of
another.  One arrival and one more in `baseline` are two users of one sale, and a stock
of two or three is just enough, or more.

`CHECK_DEADLOCK FALSE` stands where the system may stop: in the runs over the database,
with every id used and every clock at 0, nothing is left to do; a shut down worker stays
so; an iteration, a trial or an experiment ends.  In `catalog`, `waiting` and `admission`
deadlock is checked.  `checkout`, `payment_flow`, `tx_locks` and `admission` use symmetry
over ids that no definition tells apart; the runs with liveness use none, and neither do
those whose ids are numbers.

`MCBrowser`, `MCTarget` and `MCBaseline` hold two or three small systems that do not
meet: the initial state chooses one and the others stay as they are.  Each property says
which one it is about.

### Fairness

`FairFlow` assumes what the scheduling of `Worker` gives: time passes; the
scheduled sweep (`fixedDelay`) runs, and goes through its list; a worker that has
claimed goes on, and a call ends by an answer or its two-second timeout (weak
fairness); and each attempt that is claimable again and again is claimed
(strong fairness of `Claim` for each attempt, because claims are ordered by
`next_check_at` and another attempt may be in front).  And faults stop
(`<>[][~Fault]`): crashes, lost requests and answers, timeouts in place of answers,
exceptions that end a sweep, and callbacks that bring UNKNOWN.  The last is an
assumption to know of: each UNKNOWN sets `next_check_at` a second ahead
(`PaymentService.java:71`), so a provider that reported UNKNOWN more often than once a
second would put the check off for ever.  The mock provider sends no callbacks.

`FairCatalog` assumes that the scheduled refresh runs and goes through its rows (weak
fairness), and that failures stop.

`FairPool` assumes that the timer's dispatch and each running thread go on (weak
fairness), that a shutdown once begun reaches `shutdownNow`, and that exceptions stop.  A
job ends by its provider call's timeout and the database's statement timeout.  Nothing is
assumed about when, or whether, a shutdown begins.

A sweep reads at most a hundred orders and stops at the first exception
(`Worker.java:66`): an order whose expiry always throws would block those behind it.
`OrdersAgree` says that it never throws for a reason of state.

## 4. Finding

`deadline_evidence` (doc and code differ): `PaymentService.start` writes the
deadline of a new attempt over the only `confirmation_deadline` of the order
(`PaymentService.java:46`), and `successDeadlineViolations`
(`ops/performance/target-state.sql:28`) compares each attempt's `terminal_at` with
it.  A SUCCESS attempt that missed its deadline and failed is no longer counted once
the order is paid for again within the hold, while
`docs/architecture/target-v1.md:52` says that a missed deadline remains a failure
of the objective whatever is recovered later.  It affects the evidence only, no
stock and no money.

Three more things came up in the load scripts.  None contradicts what a doc or a test says,
and the models have them as they are.

- A browser that took the last unit and was not answered cannot replay: its own hold makes
  the sale fully held, so that no ticket is given (`waiting.lua`), and it polls until its
  180 seconds are over.  The comment at `k6/target/common.js:167` (a lost success remains
  a replay) holds where there is stock left to be announced.
- `target.ps1:94` asks for stock for every arrival of a reservation trial, without the one
  more that `target-review.ps1:59` allows for; that arrival may find the sale full.
- The earlier review (2026-09-11) allowed no arrival more for business trials, today's does.

## 5. Proofs

`tlapm` proves the theorems below for all values of the constants that satisfy the named
assumptions of the modules: any number of users, items, orders, attempts, workers, sessions,
waiters and calls, and any times.  The assumptions say what type a constant has, that ids
and sessions are finitely many (a UUID, a connection of the pool), and, where a promise
rests on it, how two constants of the code relate; those are named below.  The runs
evaluate every assumption for the values they use.

### Checkout

| Theorem | Says |
|---|---|
| `Invariance` | `Spec => []Inv`, the inductive invariant |
| `TypeCorrect` | `TypeOK`; in particular no counter is negative |
| `StockIsRight` | `StockMatchesOrders` |
| `LimitIsKept` | `WithinUserLimit` |
| `KeysAreUnique` | `OneOrderPerKey` |
| `StatesAgree` | `OrdersAgree`: `HoldFollowsOrder`, `PaymentFollowsOrder` and `OneBlockingAttempt` |
| `FinishedStays`, `ReleasesAreSafe` | the two step properties |
| `Refinement` | `Checkout` implements `Allocation` |

The argument.  `Inv` has layers, each needed by the next:

1. `TypeInv`: rows of the right type (counters any integers) and the foreign keys,
   and that a sale's items have counters exactly when the sale exists.
2. `StateInv`: the three agreements between orders, holds and attempts.  None is
   inductive alone.  A result may confirm only because its attempt is open, hence its
   order in payment, hence its hold ACTIVE; the sweep may expire a pending order only
   because no attempt of it is open; `OneBlockingAttempt` is what makes the failure of
   one attempt the end of the payment.
3. `StockInv`: counters are sums, and available is not negative.  It needs the layer
   above: settled stock must come out of an order that holds it, or the sums would
   count it twice.  `StepKind` reduces the steps to four (a new sale, a purchase,
   an order settled, nothing moved); the first lemmas of `CheckoutProofs` say what
   each does to a sum.  A sum is defined as the size of a set of pieces, so that its
   lemmas follow from those on finite sets, without induction.
4. `WithinUserLimit` and `OneOrderPerKey` by the same four kinds of step.

`Refinement` uses the same four kinds: `Offer`, `Hold`, `Settle` and a stutter.
That a purchase finds `available >= n` implies the abstract guard, because by
`StockInv` what is taken is what is not available.

### PaymentFlow

| Theorem | Says |
|---|---|
| `FlowInvariance` | `FlowSpec => []FlowInv` |
| `FlowImplementsCheckout` | each step is a transaction of `Checkout`, a tick, or leaves its tables alone; so every theorem above holds of the flow |
| `FlowAllocatesStock` | and the flow implements `Allocation` |
| `FlowTyped` | `FlowTypeOK` |
| `ChargedOnce`, `ChargedStaysStocked`, `ResultsAgree` | `NoDoubleCharge`, `ChargedKeepsStock`, `ResultIsTheProviders` |
| `TakenInTime` | `TakenUpInTime`: the provider takes up an attempt only while it is open and in time |

`FlowInv` adds to `TypeInv` that jobs, receipts, workers, calls and sweep refer to rows that
exist (`FlowTables`); that a final result, and one a worker has heard and is about to apply,
is the provider's (`Answers`, not inductive without the second half); and `Deadlines`.  The
last is the heart of it: a worker reads the deadline in one query, apart from the attempt,
and the call carries it on its way for as long as it takes, while the order's deadline may
be written anew.  It is written anew only by another attempt, and that starts only when this
one has failed; so the deadline a call carries is right *as long as its attempt is open*.
`NoDoubleCharge` follows with `OneBlockingAttempt`: two charged attempts of an order would
both be open or succeeded.

### TxLocks

| Theorem | Says |
|---|---|
| `LocksInvariance` | `LocksSpec => []LocksInv` |
| `CommitsAreSteps` | `CommitsAreAtomic`: each commit is one step of `Checkout`, any other step a stutter |
| `LocksAllocateStock` | so the interleaved transactions implement `Allocation` |
| `NeverInCircles` | `NoCircularWait`, for any number of sessions |

`LocksInv` has a line for each place of a transaction, which says what it has read and that
this *is still what is committed* (`RowsLocked`, `MayBuy`, `MovesStock`): the rows it writes
back whole are then the rows of `Checkout`'s action.  That another session's commit leaves
them alone is `WritesOnly`: a commit writes rows only under locks it holds, and `Exclusive`
keeps these apart.  A purchase's count of what its user has bought is protected by the row
of the item, not by the key: two purchases of a user with different keys meet there.

`NeverInCircles` is proved by a rank.  In a set of sessions of which each waits for another,
one waits for the item of the greatest `Position`; whoever holds that item waits for an item
further on, as items are locked in that order and nothing is waited for after them but
items.  Sessions are finitely many, so there is a greatest.

### Catalog and Waiting

| Theorem | Says |
|---|---|
| `CatalogTyped`, `SoldOutIsRight`, `CleanedForGood` | `CatalogTypeOK`, `SoldOutIsFinal`, `CleanedStaysClean` |
| `WaitingInvariance` | `WaitingSpec => []WaitingInv` |
| `WaitingImplementsCatalog` | the catalog beside the room behaves as `Catalog` |
| `KeysAlwaysAgree`, `LimitsHold`, `PolitenessAlwaysPays` | `PlacesAgree`, `LimitsAreKept`, `PolitenessPays` |
| `DismissalIsFinal` | `DismissedForGood`: a place is lost to a ticket, to time or to a sale that is over |

A key of the catalog may be written from a row of any age, so `CatalogInv` says of rows, and
of commands given up on, what it says of keys (`RowsAreFinal`, `LateIsFinal`); a row,
command or key of a sale that does not exist yet would make a lie possible once it does
(`KeysHaveSales`).  The rows of publishers, who have the lock, are of sales that exist, hence
not of the cleaned one: that is `CleanedForGood`.

`WaitingInv` has `CatalogInv`; that places, tickets and records go together, each with the
time left of the other (`KeysAgree`); and the limits, of which `LimitsAreKept` counts only
what has not lapsed, while the invariant counts what is in the keys, lapsed or not: that is
what the code compares with the limit.  `PolitenessPays` rests on the assumption that the
longer retry is shorter than the inactivity time (12 s and 30 s).

### Admission

| Theorem | Says |
|---|---|
| `AdmissionInvariance` | `AdmissionSpec => []AdmissionInv` |
| `AdmissionTyped`, `PermitsHold`, `StaleIsBrief` | `AdmissionTypeOK`, `PermitsAreKept`, `StaleForAMoment` |
| `OrdersAnswered`, `LateTicketsRefused` | `OrdersAreReplayed`, `LateTicketsBuyNothing` |

`AdmissionInv` says of each call what it relies on at its step (`CallOK`): its key's lock
and that it found no order, the item's lock, its ticket in time, units left, and its permit
with the time left that the call reckons with.  `TokensDiffer` is needed for the last: a call
that leaves must not remove another's permit.  `NoneIsNow` says that while nothing is left
the cache is rightly told so.  A command that nobody waits for tells it whatever is left by
then, so what the cache refuses it refuses rightly, or for its lifetime from the last
moment without stock or the last such command.  More does not hold of the code: each late
command refuses the item for a second, however long stock has been back.

### WorkerPool

`PoolTyped`, `SlotsAreKept` (`SlotsAddUp`) and `NeverRejected` (no task is handed to a closed
executor), for any number of threads.  Free
slots, the slot in dispatch's hand, queued tasks and busy threads add up to the number of
threads, until `shutdownNow` drops tasks with their slots.  That nothing is rejected needs
the monitor: dispatch hands out slots and the shutdown closes the executor only inside it.

### Browser

`BrowserInvariance`, `TimesSuffice` (`KeepsItsTimes`) and `ImplementsIterations`
(`ImplementsIteration`).  `TimesAssumption` of `Browser` adds up how long a script may take
that repeats all it can: the last round begins before 180 s and polls once more, the ticket
is used at its end, the purchase is replayed, the user thinks for 45 s, the payment takes
five tries.  The sum must be within the hold and the graceful stop, and a payment of the
worker script within what is left of its order's hold.  `BrowserInv` says by when each step
is reached.  With the times of the code, in ticks, the sum is 59 and the hold is
59: the script leaves no tick to spare, and a sixth try of five seconds, or a longer
think time, is no longer covered.  That is the use of the theorem: who changes a time or a
count in `common.js` sees which sum it is part of.

### TargetRun

`RunInvariance` and `GoodVerdictsAreRight` (`VerdictsAreRight`, which `VerdictsFit` is about
in the run), for any number of arrivals.  A review compares counts: so many orders in the
database, so many heard of by the scripts.  `RunInv` says that what is heard of is there
(`RowsFollow`), and so equal counts leave nothing unheard of.  The payments of
a business trial are not compared with what was accepted; there the argument is another
one: every iteration has ended, and k6 was content, which it is not if one that ended had
asked in vain (`NoneInVain`); an answer that was waited for in vain cannot become heard of
later.  That the verdict stays right needs `InTurn`: after the drain no request is
served any more, and only payments not meant to succeed are still open.

`VerdictsOfRunsFit` says it (`VerdictsFit`) of `MCSpec`, which the run checks.

### VirtualUsers

`VusInvariance` and `LoadKeepsThePlan` (`LoadIsAsPlanned`) of `VusSpec`, and `LoadsFit`
(`LoadFits`) of `MCSpec`, for any rate, fixture and numbers of virtual users.
`LoadIsPlanned` is the only assumption: there are more orders than arrivals per scenario,
which is the `+ 1` of `target-trial.ps1:50`.  That no two iterations pay for one order is not
inductive: an iteration picks its order by its index, and k6 counts only the arrivals that
found a virtual user.  `VusInv` says so (`IsIteration`, `IndicesDiffer`): the index is below
the number of iterations so far, which is below the number of arrivals, which is below the
number of orders.  `LoadedOnce` is the mutual exclusion of the shared array: `reads` is 1
from the moment it is loaded, and until then one virtual user at most is at the file.

### TargetPlan, EarlierPlan

`PlansAlwaysFit` (`PlansFit`), for any rates (`RatesAssumption`: naturals, as the parameters
of `target.ps1` are whole numbers), durations, stocks and users that `Allowed` lets through.
The invariant is small (`PlanInv`: the configuration is the one asked for or its warm-up);
the work is in the lemmas, one for each thing on which scripts and review must agree.
`ArrivalsAreCounted` adds up the arrivals over the windows with a fold of the community
modules.  The fold is a recursive function over subsets, which says nothing until such a
function is known to exist; a script has four windows at most, so `SumsExist` writes it
down and `SumTakesOne` takes the windows out one by one, in whatever order they are chosen.
That the windows of a sale bring as many as there are users needs `users % 10 = 0`
(`target.ps1:89`): 6, 3 and 1 tenths, each rounded down.

### Baseline

`BaselineInvariance`, `ExperimentsMeasureFairly` (`MeasuresFairly`) and `FairExperiments`
(`ExperimentsAreFair` of `MCSpec`), for any rate, stock and number of arrivals.
`BaselineInv` has three parts.  `Records`: requests and orders are those of iterations, each
on the sale of its scenario, which keeps users with the same key apart.  `StockCovers`: what
is left and what was sold cover the stock, and the stock covers `Rate + 1` arrivals, so that
nobody is refused in a capacity trial.  `ChecksHold`: what each check has found stays so,
because a request is only at the service for an iteration that waits for it or has not heard
of it (`RequestsAreOwn`), and the checks have seen every iteration end well; without that
half a late request could still make an order after the warm-up was counted.  A payment
that the provider refuses costs no claim: its order is not confirmed, and the counts differ.

### FirstSpike

`SpikeInvariance`, `SpikeRecordsAgree` (`RecordsAgree`) and `FirstRecords`
(`FirstRecordsAgree` of `MCSpec`), for any numbers of arrivals, virtual users, servers and
connections.  `SpikeAssumption` of `MCBaseline` is that a pool has a connection at all, or
nobody could get on.  `SpikeInv` relates what a script knows of its order, what the order is
and what the servers still do for it (`Agrees`): an order that expires is held, so its iteration
has ended without hearing that it was bought or that it was paid for, and that is an error
the script has counted; or its payment was accepted and then refused for its deadline, which
the script does not hear of (`failed`).  With a backlog longer than the payment window the
errors alone do not account for the expired orders, and `ErrorsExplainExpiries` says so.
`SomeoneGetsOn` follows from `ServersAgree`: who works on the row needs nothing that those
who wait for it hold.

### Only model-checked

- Liveness: `payment_live`, `catalog` and `worker_pool`.  Fairness and ENABLED are outside
  the prover, and so `Claim`'s strong fairness is too.
- `DeadlineEvidence`: its run expects a violation.
- The contract tests (`BrowserTests`, `TestsPass`).  A test is given by value, its answers
  and the counts it asserts, so that there is nothing to generalise over.

Every other safety property of a passing run is a theorem.

## 6. Not modelled

- Controllers, validation, identity, configuration, metrics, tracing: no state.
- The fingerprint of a request, which tells a replay from a reused key: both are
  refused or answered without a write.  Prices and amounts, see above.  32-bit
  counters: the CHECK `total = available + held + sold` keeps each below its total.
- The signature of a ticket: who holds one was given it.
- Of the load trials: Docker and its containers, samples of CPU and database, latencies and
  their percentiles, the hash (`fraction`) that spreads users over behaviors, where every
  outcome is allowed, and the reports.
- Recorded scripts that are copies: the later baseline record has the scripts of the first
  one, the second target record of 2026-09-11 those of the first, and those of 2026-09-12
  and of the capacity trials are today's.  Measured numbers and prose.

## 7. Plan

Done, in this order: `Quantities`, `Allocation`, `Checkout` with its run and proofs,
`PaymentFlow`, `DeadlineEvidence`, `TxLocks`, `Catalog` with its proofs, `Waiting`,
`WorkerPool` with its proofs, `Admission`, the load trials from `Iterations` to
`FirstSpike`; then the proofs of `PaymentFlow`, `TxLocks`, `Waiting`, `Admission`,
`Browser` and `TargetRun`, and last those of `VirtualUsers`, the plans, `Baseline` and
`FirstSpike`.  What could come next:

1. the two hazards without a property: UNKNOWN callbacks more often than once a second, which
   keep a payment from being asked for, and waiters of a fully held sale in the first ranks,
   who keep those of other sales waiting.  Both are about fairness that the code does not
   promise, so a property needs a bound on what the provider and the waiters do;
2. `Admission` composed with `TxLocks`: today the front door and the locks of the
   transactions behind it are checked apart.
