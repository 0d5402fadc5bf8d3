# PeakPass: TLA+ models, checks and proofs

PeakPass sells the seats of an event under a rush of buyers. It is a Fastify
server (several instances) over PostgreSQL, which decides, and Redis, which
caches answers and runs a waiting room. This directory holds TLA+ models of its
logic, the TLC runs that check them and TLAPS proofs of what matters most.
Paths below are relative to the repository; the server is in `src/`.

## 1. The system

| Component | State | Operations | Talks to |
|---|---|---|---|
| Events and inventory (`core/services/event.service.ts`, `inventory.service.ts`) | `events.available_seats` | create an event; add or deduct seats under `FOR UPDATE` | called by every purchase operation |
| Reservations (`reservation.service.ts`, `infra/cron/reservation-sweeper.ts`) | rows `active / released / converted / expired`, `expires_at` | create (deducts seats), release, expire by sweeper or by a checkout that finds it due | inventory; Redis hold |
| Checkout (`checkout.service.ts`, `order.service.ts`) | rows of `orders`, one per Idempotency-Key | direct checkout, conversion of a reservation, replay | reservations, inventory, admission |
| Order expiration (`order-expiration.service.ts`, `infra/cron/order-sweeper.ts`) | `orders.status`, `payment_deadline_at`, `expiration_last_failed_at` | expire a pending order after its deadline | inventory |
| Payment webhook (`payment-webhook.service.ts`, `ticket.service.ts`) | `payment_records`, `payment_callback_keys`, `tickets`, `orders.status` | settle, fail, record a callback of an expired order | inventory, orders |
| Settlement delivery (`api/rest/payments.ts`, `api/middleware/idempotency.ts`, `infra/redis/commands.ts`) | Redis answer cache (24 h) and lock (30 s) by callback key | read cache, take lock, run the webhook transaction, store, release | payment webhook |
| Reservation hold (`reservation.service.ts`, `commands.ts`) | Redis copy of a reservation | write after commit, delete after commit, serve GET | reservations |
| Transactions (`infra/postgres/client.ts`) | row locks, snapshots | READ COMMITTED, SERIALIZABLE, up to three attempts | all services |
| Admission queue (`infra/redis/admission.ts`) | one epoch's entries and indexes in Redis | join, status, cancel, tick, claim, complete, close, reconcile, initialize, publish, freeze | consumption, recovery |
| Admission consumption (`admission-consumption.ts`) | `admission_results`, advisory locks | claim and occupy in one transaction, replay, reclaim overdue claims | queue, reservations, checkout |
| Admission recovery (`admission.service.ts`, `admission-policy.ts`, `admission-scheduler.ts`) | `admission_events` (generation, epoch, phase), Redis control | recover, publish, maintain, retire | queue |
| Demo routes (`api/rest/demo.ts`) | none of their own | settle a demo user's order without the cache and the lock | payment webhook |
| Queue controller of a tab (`frontend/admission-polling.js`) | the view, one exchange, timers, the stored purchase | poll, join, cancel, purchase, retry, stop | the admission routes |
| Demo page (`frontend/app.jsx`, `app-flow.jsx`) | session, step states, results | steps 1-7, reset, run all, base and mode | the controller, every route |
| Rate limiter, Redis connection, shutdown (`rateLimit.ts`, `redis/client.ts`, `main.ts`) | windows, one client, handles | count, reconnect, stop | all routes |
| GraphQL reads, authentication, webhook signature, application shell, migrations, load tests | none that decides a purchase | read, reject, present | - |

What is hard here:

* two sweepers, a lazy expiration, checkouts and payment callbacks all decide the
  same rows, on several servers;
* `NOW()` is the time a transaction began, so a checkout that waited for a lock
  acts on an older time than the sweeper beside it;
* callbacks are repeated, reordered and contradictory, and a settlement can
  arrive after the seats are gone;
* a server may end between `COMMIT` and its Redis calls, `COMMIT` may succeed
  without an acknowledgement, a Redis call may fail after it was executed, and
  every Redis key may vanish;
* a purchase of a protected event decides on a snapshot that is older than the
  locks it waited for, and its claim in Redis outlives the transaction;
* the waiting room must be rebuilt after a loss of Redis by several instances,
  without two epochs being open;
* the browser repeats, gives up and reloads, and its handlers share one session
  that is replaced while they wait for it.

What makes each component correct: inventory never goes below zero and no seat
is sold or returned twice; a reservation is converted by one order; reservations
and orders reach one final status and keep it; payment records and tickets agree
with the order; a 200 is durable and consistent; nobody releases another
request's lock; holds end. For the waiting room: capacity, rate and order of
promotion, indexes that agree, slots that come back, and only on a durable
result; one purchase an admission; one generation open at a time. For the
browser: one open purchase, a view that never goes back, nothing left waiting.

## 2. Modules

| Module | What it is |
|---|---|
| `SeatCount` | the number of seats the rows of a table stand for, as a cardinality |
| `SeatLedger` | abstract specification: free, held and sold seats, and the moves allowed |
| `Purchase` | the purchase path over its PostgreSQL rows: the core module |
| `SettlementRequests` | extends `Purchase`: deliveries of payment callbacks around the webhook transaction |
| `AdmissionQueue` | the waiting room: the Redis script's operations on one ready epoch |
| `AdmissionConsumption` | a purchase with an admission: locks, snapshot, claim, ledger, reclaimer |
| `AdmissionEpoch` | which generation of the waiting room is open: observation, recovery, cleaning |
| `Upkeep` | the sweepers' batches, the hold of a reservation in Redis, shutdown and restart |
| `AdmissionPolling` | the controller of the waiting room in one browser tab, and its network |
| `DemoPage` | the demo page: handlers that share one session |
| `MC...` | constants and symmetry of each for TLC |
| `PurchaseProofs` | lemmas about `SeatCount`; type correctness and conservation of seats of `Purchase` |
| `PurchaseRecordProofs` | extends it: final outcomes, conversions, payment records, tickets, callbacks, and the refinement of `SeatLedger` |
| `SettlementRequestsProofs` | extends that: `SettlementRequests` refines `Purchase`; answers and locks |
| `AdmissionQueueProofs` | indexes, counts, capacity, rate and order of `AdmissionQueue` |
| `AdmissionConsumptionProofs` | one purchase an admission, answers, slots and resets of `AdmissionConsumption` |
| `AdmissionEpochProofs` | publishing and cleaning of `AdmissionEpoch` |
| `AdmissionPollingProofs` | the open purchase, the wait and the view of `AdmissionPolling` |
| `DemoPageProofs` | requests for a session and running steps of `DemoPage` |

### `Purchase`

One action is one committed transaction. That is justified by how the code locks:
each transaction first locks the row it decides on (`FOR UPDATE`, a conditional
`UPDATE`, or the advisory lock of the checkout key), touches no shared row before
that, and holds its locks until `COMMIT`. A request that is refused rolls back and
a replay only reads: both are stuttering steps. That the lock order of single
statements is free of deadlocks is assumed here.

| Variable | Code |
|---|---|
| `clock` | time; a transaction's `NOW()` is any of the last `MaxLag` values (`TransactionTimes`) |
| `events`, `available` | rows of `events`, `available_seats` |
| `reservations` | rows of `reservations`; `item` is what was asked for |
| `orders` | rows of `orders` by `idempotency_key`; the pending payment record of a checkout, inserted with its order and never updated, is part of the row |
| `tickets` | how many ticket rows an order has |
| `payments` | rows of `payment_records` that have a provider transaction id |
| `callbackKeys` | rows of `payment_callback_keys` |

Actions and code: `CreateEvent` = `createEventWithClient`; `CreateReservation`,
`ReleaseReservation`, `ExpireReservation`, `ReturnSeatsAndFinalize` = the methods
of those names in `reservation.service.ts`; `Checkout` = `checkout` with its three
committed outcomes; `CreateOrder` = `createOrder`; `ExpirePendingOrder` =
`expirePendingOrderWithClient`; `ProcessPaymentWebhook` with `ReserveCallbackKey`,
`InsertPaymentRecord`, `CallbackForExpired`, `HandleSettle`, `HandleFail` = the
methods of `payment-webhook.service.ts`.

Abstractions. `buyer` is the user and the tier together, because the code only
compares them. Prices, currencies, unknown tiers and invalid bodies can only
refuse. Every event is created `published`, nothing changes that, and only
`ends_at` closes a sale. Tickets are counted, their numbers come from a sequence.
The status `delivered` exists in the schema and no code sets it; rows from before
migrations 008 and 011 (`NULL` deadline or callback status) are left out. The
constraint of migration 007 (seats at most `total_seats`) is not a guard of the
model: `SeatsConserved` shows that it never rejects anything. No event is
protected by admission here; `AdmissionConsumption` has that. `releaseReservation` has no route, it is part of the
service's interface and therefore an action; `convertReservation` has no caller
and is not modelled.

### `SettlementRequests`

A delivery goes through one action per `await` of its handler: `ReadCache`,
`AcquireLock`, `RecheckCache`, `CommitCallback` or `RollBackCallback`,
`StoreResult`, `ReleaseLock`. Any delivery may crash between any two (`Crash`),
any Redis key may be forgotten (`Forget`: TTL, restart), any Redis call may fail
before or after it was executed, and `CommitCallback` includes the `COMMIT` whose
acknowledgement is lost. `DeliverDemo` and `SettleDemo` are `POST /demo/settlement`:
for an order of the demo user it runs the same webhook transaction under a
transaction id made from the order (`DemoTx`), past the cache and the lock, so only
`payment_callback_keys` is between the two routes. That a provider's own ids do not
have the demo form is an assumption (`ProviderCallbacks`). Meanwhile the rest of `Purchase` takes its steps
(`SaleStep`). The provider knows an order only after its checkout. A replayed
answer is delivered whole; 4xx and 5xx answers are one value, `Refused`. The
checkout scope of the middleware keeps no cached answer and continues without the
lock, so it adds nothing to the keys of `Purchase`.

### `AdmissionQueue`

The Lua script of `infra/redis/admission.ts` runs atomically, so one call is one
action. Its keys are the variables: `:entries`, `:joins`, `:latest`, `:users`
(`active`), `:waiting`, `:leases`, `:active` (`admitted`), `:claims`, `:window`,
`:sequence` and the `users` field of `:meta`. `Overdue`, `Terminal` and `Structures` are
its local functions `expire`, `terminal` with `clearActive`, and `structures`; `Status`,
`JoinAgain` and `Join`, `Cancel`, `Tick`, `Claim` and `ClaimAgain`, `Reconcile`, `Complete` and
`Close` are its operations, each with the expiry it does on the way, also when it then refuses.

A time is kept as the time left until it (0: it has come), because the script only
compares times with now. That makes the model finite without stopping the clock;
which of several members that are due a `LIMIT` picks is left open, where Redis takes
the earliest. `admittedAt` is kept as the time left until the promotion leaves the rate's
window. `EndSession` is `endAt`. Admissions are named by their sequence number, ids being
fresh. An admission is claimed at most once, so its claim token and fingerprint only refuse
other callers, and a refusal is a stuttering step; so is the script's limit on calls of one user.
The dirty bit, the sentinels and the control key belong to `AdmissionEpoch`.

### `AdmissionConsumption`

A purchase with an admission (`purchaseTransaction`) is one action per lock it takes or
statement it decides by: `EnterGate` (the shared event gate and the policy), `LockAdmission`,
`Judge` (the ledger, `ownResult`), `Claim` (the Redis script), `Occupy` (the savepoint with the
reservation or order and the ledger row), `Commit`, `Settle`, `Recheck`. Locks are not
variables: who holds one is told by where a request is (`InsideGate`, `AdmissionLocked`,
`KeyLocked`). A transaction sees `Snapshot`, taken when it began, and what is newer makes a
conflict where PostgreSQL would raise one; `Conflict` begins again while attempts are left.
`ReplayOrder` is the checkout whose key has an order. `Reconcile`, `Reclaim`, `CommitClosed` and
`Report` are `reclaimOverdueClaims`. `Commit` may be acknowledged or not, every request and reclaimer may
end at any point (`Fail`, `ReclaimFails`), and `LoseRedis` with `Recover` moves the event
to another epoch.

| Variable | Code |
|---|---|
| `ledger` | `admission_results`, by admission: outcome and command |
| `occupations` | the reservations and orders bought with an admission |
| `epoch`, `serving` | `admission_events.epoch`; the namespace is ready in Redis |
| `queue` | the admission's entry in Redis: state, who claimed it, past its deadline |
| `requests`, `reclaimers` | where each is, and what it has read |
| `answers` | the definite answers sent (a 5xx, and `ADMISSION_IN_PROGRESS`, decide nothing) |

A command stands for its fingerprint, so two of one admission are two bodies, or a
reservation and a checkout. What an occupation does to the seats is `Purchase`; whether it is
possible is left open (`consumed` or `rejected`). The claim token is left out: a claim of the
same command is taken over whatever its token. An entry here is first admitted; how it got there is
`AdmissionQueue`.

### `AdmissionEpoch`

`maintain` of each instance is `Tick` (the policy), `Look` (the control), `Serve` (the queue's own tick),
`Doubt` (the second look after a difference), then `Clean`, `Scan` and `Unlink`; `recover` is three
transactions under the exclusive gate: `Gate1`, `CurrentProcess`, `Decide`, `Commit1`; `Gate2`,
`Initialize`, `Commit2`; `Gate3`, `Publish`. `Orphans` and `Adopted` are `retireOrphans`, `Released` is what
`barrier` does once protection was released. Everything a step read earlier is in `inst[i]`
and may be old when it is used.

| Variable | Code |
|---|---|
| `policy` | the event's row of `admission_events` |
| `gate` | the exclusive advisory lock of the event |
| `server` | `run_id` of the Redis process; another one is empty |
| `control`, `space` | `:control`, and the namespace of each generation: none, intact, damaged, or past its session |
| `opened` | which generations were ever published (history) |
| `inst` | per instance: connection, `runId`, readiness, what was observed, where it is |

A generation stands for its epoch, both change together. Redis loses everything at once or keeps
it; a connection may be lost apart from that, and then the step of its instance fails.

### `Upkeep`

`Scan`, `ExpireOrder`, `OrderFails`, `NoteFailure`, `NoteLost`, `PassEnds` are the order sweeper of an
instance: at most `OrderBatch` orders a pass, one transaction each, and a separate statement that notes a
failure. `overdue` is the order in which `ORDER BY` puts the rows, so a noted failure
moves an order to the end. `ScanReservations`, `ExpireReservation`, `ReservationFails` are the other
sweeper, which has no rotation. `SetHold` and `DeleteHold` are the Redis calls after a `COMMIT`: `calls`
holds those still to be made, in any order, and `CallLost` loses one; `Shown` is what `GET
/reservations/:id` may answer. `Shutdown`, `Exit`, `Crash` and `Start` are the life of an instance:
a shutdown waits for the order sweeper and not for the other one.

### `AdmissionPolling`

`createController` of `frontend/admission-polling.js`: `tab` is its state, and its functions keep their
names (`Poll`, `Apply`, `Accept`, `Fail`, `Refresh`, `OnStatus`, `OnJoin`, `OnCancel`, `OnPurchase`, `Attempt`). One
exchange is current (`tab.flight`); one that timed out or was pre-empted becomes `late`: the
server may still execute it and its answer may still come (`Receive`, `ReceiveLate`, `Miss`,
`MissLate`, `TimeOut`). `pending` is `sessionStorage`, `Restart` is a reload, a recheck, or another context and back. The server is what the
tab relies on: an epoch and the user's entries. `open` is history: purchases sent and
not yet answered to the user. Times are an order only: `held` says that the wait after a failure
lasts, and a timer is due at any time or not before that wait ends. The measurement of promotion
delays (`recognize`, the trace) is left out. Only the last abandoned exchange is kept.

### `DemoPage`

The handlers of `frontend/app.jsx` (`step1` to `step7`, the two duplicates, `runAll`, `loadReservation`, the
purchase of the controller) are `flows`: each keeps the base and mode it was started under, waits for
`ensureLiveDemoSession` and then for its request, and repeats it once with a new session when the token was
rejected. `auth` is the session, its generation and the request under way; `place` the base and whose session it
was; `running`, `proven` and `shown` what the page shows, as far as buttons depend on it (`MayReserve`, `MaySettle`
and the others are the buttons' conditions). `SwitchBase`, `Recheck`, `Reset`, `Mount` dispose the controller and what it
was doing. The controller itself is `AdmissionPolling`; here it is the phase it shows.

### `SeatLedger` and the refinement

The abstract ledger knows free, held and sold seats. `Purchase` implements it:
held are the seats of active reservations and pending orders, sold are issued
tickets, and every committed transaction is one `Open`, `Hold`, `Return` or `Sell`
of one event, or no move at all. A conversion is no move: the seats go
from a reservation to an order and stay held.

## 3. Runs

| Run | Checks | Instance |
|---|---|---|
| `purchase_seats` | `TypeOK`, `SeatsConserved`, `ConversionMatchesOrder`, `FinalOutcomes`, `LedgerSpec` | 1 event of 3 seats, 2 buyers, 2 reservations, 2 checkout keys, 1 provider transaction, 1 callback key, quantities 1-2, clock to 3, lag 1 |
| `purchase_payments` | `PaymentRecordsMatchOrder`, `TicketsMatchPayment`, `AcceptedCallbacksHonoured`, `FinancialFactsKept` | 2 orders, 3 provider transactions, 4 callback keys, no reservations |
| `purchase_liveness` | `ReservationsResolve`, `OrdersResolve` | 2 reservations, 2 orders, fairness, no symmetry |
| `settlement_requests` | `AnswersAreDurable`, `AnswersAgree`, `AnswersStayTrue`, `OthersLockKept` | 3 deliveries by either route, 2 callback keys, 1 order, 1 provider transaction and that of the demo route |
| `admission_queue` | `IndexesAgree`, `CapacityHeld`, `RateHeld`, `FirstComeFirstServed`, `ApprovedClaimSurvives` | 3 users, 4 joins, 2 slots, rate 1, batch 2, 2 places, lease time 2, admission and claim time 1 |
| `admission_liveness` | `WaitingEnds`, `SlotsReturn` | 2 users, 2 joins, 1 slot, cleanup 1, fairness, no symmetry |
| `admission_consumption` | `OnePurchasePerAdmission`, `AnswersMatchLedger`, `SlotReturnsOnResult`, `NoPurchaseAfterReset`, `ClaimsSettle` | 1 admission, a reservation and a checkout, 2 requests, 1 reclaimer, 2 attempts, 1 recovery |
| `admission_epoch` | `NoLatePublisher`, `NeverStartedOver`, `OpenNamespaceKept`, `Reopens` | 2 instances, 1 fault of any kind, protection switched twice; 9 generations, the last of which no behaviour reaches |
| `admission_polling` | `OneOpenPurchase`, `QueueWaitHeld`, `ViewNeverGoesBack`, `PromotionSeen` | 1 purchase body an entry, 1 automatic repeat, 2 epochs, 2 entries, 1 join key |
| `demo_page` | `OneSessionRequest`, `RunningInFlight`, `WaitsEnd` | the mock and one live base, 1 user, steps 1, 3 and a duplicate and `runAll`, 2 handlers at a time, 2 ends of a session |
| `upkeep` | `OrdersTurn`, `ReadsCatchUp` | 2 instances, 2 orders of which one always fails, 1 reservation, batches of 1, 1 stop |
| `purchase_tx_reuse` | `ProviderTxOfOneOrder` is violated | 2 orders, 2 transactions, 3 callback keys |

Why these bounds reach the interesting cases. Three seats and quantities up to two
make two requests compete for the last seat in more than one way. Two
reservations and two orders let one reservation be wanted by both orders while
the other expires. With the sale ending at 2, the clock at 3 and lag 1, a
reservation can be past its expiry for the sweeper and not for a transaction that
began earlier, and a conversion can meet a closed sale. Four callback keys over
three transactions and two orders give failure then success, success then failure,
repetition under a new key, reuse of a key and reuse of a transaction id, each
before and after expiration. Three deliveries are what it takes for an owner, a
successor of its expired lock and a redelivery after both. One event is enough
because no action mentions two; the proofs are for any number.

In the queue, two slots and two places for three users make the queue fill up and the slots
run out; a batch above the rate makes the rate decide, and a rate below the capacity makes
capacity decide once two admissions are claimed; the fourth join is a user's second admission
while the others are in any state. With one slot and a cleaning budget of one, cleaning and
promoting never share a tick. The epoch's limit `MaxEntries` is the code's own.

One admission is enough for the races of `admission_consumption`, which are all about one
admission: the same request twice, two different ones, and the reclaimer between them. What two
admissions under one checkout key do (the last conjunct of `OnePurchasePerAdmission`) this run does not exercise.
Two requests and a reclaimer are the three parties the second look is about, and a second
attempt lets a conflict be met and survived. In `admission_epoch` one fault can hit at any point, and two
switches release protection and bring it back while both instances are somewhere in a recovery;
with two faults the state space is beyond reach. In `admission_polling` two
entries and two epochs make every answer possibly about an older one. In `demo_page` two handlers
are what it takes for one to replace the session another waits for; steps 4, 5 and 7 and the
second duplicate run only within `runAll`. In `upkeep` a batch of one filled by an order that always fails is
the worst case of the rotation.

The bounds of `Purchase` are `MaxClock` (the clock stops), `MaxLag` (age of the oldest open
transaction) and the two guards marked "bound of the model", which keep deadlines
within the clock so that each can pass. Ids and callback keys are used up, so a
behaviour ends and runs say `CHECK_DEADLOCK FALSE`. Symmetry is used in safety
runs only.

What the properties say:

* `SeatsConserved`: free + reserved + ordered seats equal the event's total. It
  fails if a reservation is finalized twice, or a conversion outlives its order.
* `ConversionMatchesOrder`: converted if and only if exactly one order has it, for the
  same item; no constraint of the schema says so.
* `FinalOutcomes`: a final status, and what was bought, never changes.
* `LedgerSpec`: the refinement of section 2; a seat with a ticket never moves again.
* `PaymentRecordsMatchOrder`, `TicketsMatchPayment`: the three tables agree after
  every sequence of callbacks.
* `AcceptedCallbacksHonoured`: what a callback that was answered 200 did is still
  there, also for orders that had expired.
* `FinancialFactsKept`: a settled transaction and a callback key never change.
* `AnswersAreDurable`: a 200, even one replayed from Redis, belongs to a committed
  callback. `AnswersAgree` and `AnswersStayTrue`: all deliveries of a callback are told
  the same, and it stays true. The exception stated in `AnswersAgree` is the code's own:
  a late success corrects a failure recorded for an expired order.
* `OthersLockKept`: a release never removes a successor's lock.
* `ReservationsResolve`, `OrdersResolve`: no hold is for ever.

* `IndexesAgree`: the six indexes of the queue say what the records say, over every sequence of
  operations; otherwise `structures()` would refuse every later call.
* `CapacityHeld`, `RateHeld`: over all slots held, claimed and overdue ones included; over every
  window, whatever became of the admissions promoted in it.
* `FirstComeFirstServed`, `ApprovedClaimSurvives`: what joins, polls,
  cancellations, ticks and claims in any order may never do to another admission.
* `WaitingEnds`, `SlotsReturn`: who keeps polling is promoted; a slot comes back.

* `OnePurchasePerAdmission`: what was bought with an admission is what its ledger row says, once.
  Two requests, retries of a rolled back one and the reclaimer all decide it.
* `AnswersMatchLedger`: a definite answer agrees with the ledger, at once and for ever; who was
  told no has bought nothing. The second look of `purchaseTransaction` is what it depends on.
* `SlotReturnsOnResult`: a claimed slot is given back only on a committed result, as that
  result says. `NoPurchaseAfterReset`: no purchase commits after its epoch was left. `ClaimsSettle`:
  every claim ends.
* `NoLatePublisher`: whoever publishes, the policy names that generation, open and protected, at that
  moment. `NeverStartedOver`: a generation that was open is never written again empty.
  `OpenNamespaceKept`: no cleaning deletes the open queue. `Reopens`: a protected event is served again.
* `OneOpenPurchase`: while the outcome of a purchase is unknown, it is the one a button, a timer or
  a reload sends. `QueueWaitHeld`: nothing asks the queue during the wait after a
  failure. `ViewNeverGoesBack`: no late answer shows an older place. `PromotionSeen`: a
  waiting tab notices what became of its entry, unless a refusal ended its polling.
* `OneSessionRequest`, `WaitsEnd`: one request for the current session, and nobody waits for it for ever.
  `RunningInFlight`: what is shown as running can still end.
* `OrdersTurn`: an order that always fails does not keep another from being expired. `ReadsCatchUp`: a
  final reservation is read as final in the end.

Fairness of the queue (`FairQueueSpec`) is weak: for the tick, which the scheduler repeats every
`tickMs`, for time, and for the finalisation of each claim, which is the buyer's transaction or the
reclaimer after it; `ClaimsSettle` is that last one in `AdmissionConsumption`. Users are
not fair.

Fairness elsewhere. `AdmissionConsumption`: weak for a request's steps (PostgreSQL's and the server's timeouts
end each), the clock and the recovery; strong for the reclaimer's steps, which other requests disable
again and again by holding a lock: the scheduler comes back every tick and is assumed not to
fail for ever. `AdmissionEpoch`: weak for the steps of an instance and its reconnection, as
the scheduler and the client repeat both without end. `AdmissionPolling`: the tab's timers; strong for a poll
that is sent again and again to be executed and answered, because the network does not lose all of them;
nothing for users, nor for joins and purchases. `DemoPage`: only that a request for a session ends,
which its timeout guarantees. `Upkeep`: weak for the sweeper and for restart; strong for each order that can be expired
(its transaction does not fail for ever) and for the note of a failure; and the TTL of a hold.

Fairness of `Purchase` (`FairSpec`) is weak and only for the clock and the two sweepers, per
row. Both sweepers are started with the server and their timers re-arm whatever an iteration
does; a row that failed is selected again. Buyers and the provider are not fair: nobody has to pay.
Per-row fairness assumes that a due row is eventually in a batch. For orders that is
what `expiration_last_failed_at` is for, and `OrdersTurn` of `Upkeep` shows it; the
reservation sweeper orders by `expires_at` alone, so there it is an assumption
(fewer than 200 reservations that always fail).

### What a run disagreed with

`purchase_tx_reuse`: the header of `payment-webhook.service.ts` promises that a
provider transaction id attached to two different orders is rejected. The check is in
`insertPaymentRecord`, which a callback for an order that is paid already (or a failure for
a cancelled one) never reaches; it is accepted and bound in `payment_callback_keys`.
For the same reason a second successful transaction of a paid order leaves no payment
record, only its callback key.

## 4. Proofs

Every safety invariant, every action property and both refinements that a passing run
checks are theorems, for every value of the constants: any number of events, buyers, rows,
deliveries, admissions, instances, handlers, and any bound. The runs show them on the
instances above; each inductive invariant was checked by TLC before it was proved.
The general form is `Init => Inv`, `Inv /\ [Next]_vars => Inv'`, one lemma an action, and for an action
property that a step from a state with `Inv` satisfies it.

### `PurchaseProofs`, `PurchaseRecordProofs`

| Theorem | States | Rests on |
|---|---|---|
| `TypeCorrect` | `TypeOK` | itself: a deduction is guarded, so seats stay in `Nat` |
| `Conservation` | `SeatsConserved` | `ConservationInv` = `TypeOK`, `RowsOfEvents`, `SeatsConserved` |
| `OutcomesFinal`, `FactsFinal` | `FinalOutcomes`, `FinancialFactsKept` | `TypeOK` |
| `ConversionCorrect` | `ConversionMatchesOrder` | `ConversionInv` |
| `RecordsCorrect`, `TicketsCorrect`, `CallbacksHonoured` | `PaymentRecordsMatchOrder`, `TicketsMatchPayment`, `AcceptedCallbacksHonoured` | `PaymentInv` |
| `ImplementsLedger` | `LedgerSpec` | `LedgerInv` |

`RowsOfEvents` says that a reservation or an order belongs to an event that exists; without
it `CreateEvent` could open an event that rows already count against. An action
changes one row of one table by `n` seats (`SeatTotalChange`) and `available` by `-n`, or
moves a row's seats between the two tables. Totals are cardinalities of sets of
numbered seats, so no recursive sum is needed; what a change of one row does to them follows
from the library's theorems on finite sets.

The payment invariants hold only together: whether a callback may
settle depends on the records of its order, and the tickets on what it settled. `PaymentInv` adds
`RecordsOfOrders` (a record is of an order that exists). The refinement needs conservation, the tickets
and `NoSeatsBefore` (an event not yet created has no seats anywhere); each committed
transaction is then shown to be one move of the ledger, or none.

### `SettlementRequestsProofs`

`RequestsImplementPurchase`: every step of a delivery is a step of `Purchase` or leaves its tables
alone, so all theorems about `Purchase` hold here. `AnswersDurable`,
`AnswersConsistent` and `AnswersTrue` rest on `RequestsInv`: `PaymentInv`, and for each answer that is in the cache, held by
a handler or sent, that the callback it answers is committed with it (`Committed`). The cached and
not yet stored answers have to be included: an answer is replayed long after its
transaction. `CommittedStays` is the step that matters: no transaction takes back what an
answer said. `LocksRespected` is `OthersLockKept`.

### `AdmissionQueueProofs`

`QueueInv` gives, for each record, what its state implies in the leases, the admitted and the claimed
members, the window and the latest admission of its user, and for the counts what the sets they stand
for have. `IndexesCorrect`, `CapacityCorrect`, `RateCorrect`, `PromotionInOrder` and `ClaimsSurvive` follow
(`IndexesAgree`, `CapacityHeld`, `RateHeld`, `FirstComeFirstServed`, `ApprovedClaimSurvives`). `StructuresHold` is
a result with no run of its own: the comparison `structures()` makes on every call never
fails, so no sequence of legal calls ends in the script refusing the event for good.

### `AdmissionConsumptionProofs`

`ConsumptionInv` states what each request and each reclaimer may rely on at each of its steps
(`RequestSound`, `ReclaimerSound`): which locks it holds and that nobody else does
(`AdmissionExclusive`, `KeyExclusive`), how old its snapshot may be, what the claim it made says. `PurchaseSound` relates
the ledger to the occupations, `QueueSound` the claims in Redis to the ledger, and `AnswerSound` each
answer to both. From it: `OneAdmissionOnePurchase`, `AnswersHold`, `SlotsReturnOnResults`,
`NothingBoughtAfterReset`. The last conjunct of `OnePurchasePerAdmission`, about two admissions under one
checkout key, is not exercised by the run and proved here.

### `AdmissionEpochProofs`

What makes recovery safe is that an instance inside the gate knows the policy: `InstanceSound` says that
the gate is its own exactly while it is in a gated step, that what it read of the policy there still holds, and that
keys it is about to delete are not of the generation it saw in the control. `OpenedSound` says that a generation that was ever
open is behind the policy, or still open in it. The first excludes a late publisher, who read the policy
before somebody else changed it; the second, that a recovery starts an open generation over. `PublishersInTurn`, `NothingStartedOver`, `OpenNamespaceSafe` are
`NoLatePublisher`, `NeverStartedOver`, `OpenNamespaceKept`.

### `AdmissionPollingProofs`

`SoundTab` is about the controller alone: an exchange under way is about what the tab shows (a cancel
about its entry, a join about its key, a purchase about its purchase), a key belongs to the entry
its attempt started from, only a purchase is out while the wait lasts, and no timer ends
that wait early. `PollingInv` relates it to the server: what is shown and what was
answered is at most what the queue has reached (`AtMost`), the key of a join has been used by
nobody but that attempt (`KeyFresh`), an answer that is still on its way is not older than the view (`Tells`), and
every open purchase is the tab's and the stored one. The server's steps only let a queue grow
(`Grows`), which keeps all of this (`GrowthTab`). `OnePurchaseOpen`, `WaitHeld` and `ViewAdvancesAlways` are
`OneOpenPurchase`, `QueueWaitHeld` and `ViewNeverGoesBack`; `PollingTyped` is type correctness.

### `DemoPageProofs`

`PageInv` says that a request for the current session is the one under way, that every handler is one
its kind allows (`SoundFlows`), and that every step shown as running is covered by a handler, by `runAll` or by
an open purchase (`StepsSound`). `OneRequest` and `RunningEnds` are `OneSessionRequest` and `RunningInFlight`.

### Assumptions

All are named in the module that declares the constants, and TLC evaluates them in the runs of that module:
`SeatsAssumption` (positive totals and quantities, natural times), `TablesAssumption` (finitely many reservation ids and
keys, `NoReservation` none of them), `DemoAssumption` (a demo transaction of each order), `ProfileAssumption` (the
profile's numbers are positive, as the configuration demands), `ConsumptionAssumption`, `FaultsAssumption`,
`GenerationsAssumption` (0 is a generation), `PollingAssumption`, `DemoPageAssumption` (what a button may be, the mock is a base),
and that the values that stand for nothing are nothing else (`NullsAssumption`, `NobodyAssumption`, `NoneAssumption`).

### What is only model-checked

Liveness under fairness, which is outside the prover's reach: `WaitingEnds`, `SlotsReturn`,
`ReservationsResolve`, `OrdersResolve`, `ClaimsSettle`, `Reopens`, `PromotionSeen`, `WaitsEnd`, `OrdersTurn`,
`ReadsCatchUp`. `Upkeep` has only such properties and so no theorem. Induction over data is out of
reach too, which is why totals are cardinalities; no module a theorem is in uses a recursive operator.

## 5. What is not claimed

Met while modelling, and left as they are:

* Recovery: an instance that kept the `runId` of an older process between its policy read and its look may
  start a second generation after one loss. Users are reset twice, nothing worse
  (`docs/records/ISSUE_16_VALIDATION.md:218` has it), so no property forbids it.
* Holds: the comment at `reservation.service.ts:182-184` calls a stale `expiresAt` the worst case. A hold written
  after its deletion also shows the old status until its TTL, which is why `ReadsCatchUp` says "in the end".
* The reservation sweeper has no rotation: 200 reservations that fail every time would starve the rest.
* The page: a handler that repeats after a 401 uses the base and mode of its closure, so the
  session of an earlier base can become the current one; late answers of steps 1, 3, 4 and 5 still set what is shown after
  a reset; a 401 on a repeated purchase ends the stored purchase as decided though an earlier attempt may
  still be executed. `DemoPage` has the first two in its steps and claims nothing about them.

Not modelled, and why:

* Locks of single statements, and so deadlocks (`checkout.service.ts:273`). A transaction is one step in `Purchase`.
* `GET /checkouts/:orderId`, the event cache and the GraphQL reads: they read. The first reads the order and its tickets
  in two statements without a transaction.
* The rate limiter, authentication and the signature check: they only refuse, a stuttering step.
* `convertReservation`, which nobody calls; the rows of before migrations 008 and 011.
* Selecting another event on the page, the request log, all presentation; issuing a demo session on the server.
* Configuration, logging, error formatting, migrations, seed data and the load tests.

## 6. Plan

1. An abstract specification of a purchase with an admission (each admission is undecided, then bought once or refused for
   good), and a proof that `AdmissionConsumption` implements it; the same for the waiting room as a plain queue.
2. The statements of the purchase transactions with their row locks: no deadlock, refines `Purchase`.
3. Shutdown beside a running sweep (`main.ts`), as a safety property of `Upkeep`.
