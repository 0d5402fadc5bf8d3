------------------------------ MODULE Purchase ------------------------------
(***************************************************************************)
(* The purchase path of PeakPass over its PostgreSQL rows: reservations    *)
(* hold seats, checkouts turn a reservation or free seats into an order,   *)
(* payment webhooks settle or fail the order, sweepers expire both.        *)
(*                                                                         *)
(* One action is one committed transaction: each begins by locking the     *)
(* row it decides on (SELECT ... FOR UPDATE, an atomic UPDATE or the       *)
(* advisory lock of the checkout key) and touches no shared row before     *)
(* that.  A request that is rejected rolls back and a replay only reads,   *)
(* so both are stuttering steps.                                           *)
(*                                                                         *)
(* An item is what a purchase request asks for.  Its "buyer" stands for    *)
(* the user and the tier together: the code compares both for equality     *)
(* only.  Prices, an unknown tier and the admission of protected events    *)
(* (off here) can only reject a request.                                   *)
(***************************************************************************)
EXTENDS Integers, FiniteSets, SeatCount

CONSTANTS
    Events,          \* event ids
    Buyers,          \* (user, tier) pairs
    ReservationIds,  \* reservation ids, each used at most once
    CheckoutKeys,    \* Idempotency-Keys of checkouts: one order each
    ProviderTxs,     \* provider_transaction_id values
    CallbackKeys,    \* Idempotency-Keys of payment webhooks
    NoReservation,   \* reservation_id NULL
    TotalSeats,      \* events.total_seats
    EndsAt,          \* events.ends_at
    MaxQuantity,     \* largest quantity of one request
    HoldTtl,         \* RESERVATION_TTL_SECONDS
    PaymentWindow,   \* ORDER_PAYMENT_WINDOW_MINUTES
    MaxClock,        \* bound of the model: the clock stops here
    MaxLag           \* bound of the model: age of the oldest open transaction

ASSUME SeatsAssumption ==
    /\ TotalSeats \in [Events -> Nat \ {0}]
    /\ EndsAt \in [Events -> Nat]
    /\ MaxQuantity \in Nat \ {0}
    /\ HoldTtl \in Nat /\ PaymentWindow \in Nat
    /\ MaxClock \in Nat /\ MaxLag \in Nat

ASSUME TablesAssumption ==
    /\ IsFiniteSet(ReservationIds) /\ IsFiniteSet(CheckoutKeys)
    /\ NoReservation \notin ReservationIds

VARIABLES
    clock,         \* time; NOW() of a transaction is the time it began
    events,        \* ids of the rows of events
    available,     \* events.available_seats
    reservations,  \* rows of reservations
    orders,        \* rows of orders, by idempotency_key
    tickets,       \* number of rows of tickets of an order
    payments,      \* rows of payment_records with a provider_transaction_id
    callbackKeys   \* rows of payment_callback_keys

vars == <<clock, events, available, reservations, orders, tickets, payments,
          callbackKeys>>
catalog == <<clock, events>>
paymentTables == <<tickets, payments, callbackKeys>>

----------------------------------------------------------------------------
(* Rows.  The pending payment_record of a checkout is inserted with its    *)
(* order and never updated: the order row stands for both.                 *)

Missing == [status |-> "missing"]

Items == [buyer : Buyers, event : Events, quantity : 1 .. MaxQuantity]

Reservation == [status : {"active", "released", "converted", "expired"},
                item : Items, expiresAt : Nat]

Order == [status : {"pending", "paid", "cancelled", "expired"},
          item : Items, reservation : ReservationIds \cup {NoReservation},
          deadline : Nat]

PaymentRecord == [status : {"settled", "failed"}, order : CheckoutKeys,
                  reconciliation : BOOLEAN]

CallbackBinding == [status : {"settled", "failed"}, order : CheckoutKeys,
                    tx : ProviderTxs]

TypeOK ==
    /\ clock \in 0 .. MaxClock
    /\ events \in SUBSET Events
    /\ available \in [Events -> Nat]
    /\ reservations \in [ReservationIds -> Reservation \cup {Missing}]
    /\ orders \in [CheckoutKeys -> Order \cup {Missing}]
    /\ tickets \in [CheckoutKeys -> 0 .. MaxQuantity]
    /\ payments \in [ProviderTxs -> PaymentRecord \cup {Missing}]
    /\ callbackKeys \in [CallbackKeys -> CallbackBinding \cup {Missing}]

Init ==
    /\ clock = 0
    /\ events = {}
    /\ available = [e \in Events |-> 0]
    /\ reservations = [r \in ReservationIds |-> Missing]
    /\ orders = [k \in CheckoutKeys |-> Missing]
    /\ tickets = [k \in CheckoutKeys |-> 0]
    /\ payments = [t \in ProviderTxs |-> Missing]
    /\ callbackKeys = [c \in CallbackKeys |-> Missing]

----------------------------------------------------------------------------
(* Time and inventory.                                                     *)

\* NOW() of the transactions that commit at this moment: they may have waited
\* for a lock or a connection since they began.
TransactionTimes == {now \in 0 .. clock : clock - now <= MaxLag}

Tick ==
    /\ clock < MaxClock
    /\ clock' = clock + 1
    /\ UNCHANGED <<events, available, reservations, orders, paymentTables>>

CreateEvent(e) ==
    /\ e \notin events
    /\ events' = events \cup {e}
    /\ available' = [available EXCEPT ![e] = TotalSeats[e]]
    /\ UNCHANGED <<clock, reservations, orders, paymentTables>>

\* Every event this code creates is 'published', so only its end closes a sale.
SaleEligible(e, now) == e \in events /\ now < EndsAt[e]

AdjustUnchecked(e, delta) ==
    available' = [available EXCEPT ![e] = @ + delta]

AdjustAvailableSeats(e, delta) ==
    /\ delta < 0 => available[e] + delta >= 0
    /\ available' = [available EXCEPT ![e] = @ + delta]

----------------------------------------------------------------------------
(* Reservations.                                                           *)

CreateReservation(r, item, now) ==
    /\ reservations[r] = Missing
    /\ clock + HoldTtl <= MaxClock                 \* bound of the model
    /\ SaleEligible(item.event, now)
    /\ AdjustAvailableSeats(item.event, -item.quantity)
    /\ reservations' = [reservations EXCEPT ![r] =
           [status |-> "active", item |-> item, expiresAt |-> clock + HoldTtl]]
    /\ UNCHANGED <<catalog, orders, paymentTables>>

FinalizeTwice(r, finalStatus) ==
    /\ reservations[r] # Missing
    /\ reservations[r].status # finalStatus
    /\ AdjustAvailableSeats(reservations[r].item.event,
                            reservations[r].item.quantity)
    /\ reservations' = [reservations EXCEPT ![r].status = finalStatus]

\* A reservation that is no longer active keeps its status and its seats.
ReturnSeatsAndFinalize(r, finalStatus) ==
    /\ reservations[r].status = "active"
    /\ AdjustAvailableSeats(reservations[r].item.event,
                            reservations[r].item.quantity)
    /\ reservations' = [reservations EXCEPT ![r].status = finalStatus]

ReleaseReservation(r) ==
    /\ ReturnSeatsAndFinalize(r, "released")
    /\ UNCHANGED <<catalog, orders, paymentTables>>

SweepOpenSalesOnly(r) ==
    /\ reservations[r] # Missing
    /\ reservations[r].expiresAt <= clock
    /\ SaleEligible(reservations[r].item.event, clock)
    /\ ReturnSeatsAndFinalize(r, "expired")
    /\ UNCHANGED <<catalog, orders, paymentTables>>

\* The sweeper selects due reservations and expires each in a transaction of
\* its own, which does not look at expires_at again.  expires_at never changes,
\* so what was due when it was selected is due now.
ExpireReservation(r) ==
    /\ reservations[r] # Missing
    /\ reservations[r].expiresAt <= clock
    /\ ReturnSeatsAndFinalize(r, "expired")
    /\ UNCHANGED <<catalog, orders, paymentTables>>

----------------------------------------------------------------------------
(* Checkouts.  A key that has an order replays it or is rejected.          *)

CreateOrder(k, item, reservation, now) ==
    /\ orders[k] = Missing
    /\ now + PaymentWindow <= MaxClock             \* bound of the model
    /\ SaleEligible(item.event, now)
    /\ orders' = [orders EXCEPT ![k] =
           [status |-> "pending", item |-> item, reservation |-> reservation,
            deadline |-> now + PaymentWindow]]

CheckoutDirect(k, item, now) ==
    /\ CreateOrder(k, item, NoReservation, now)
    /\ AdjustAvailableSeats(item.event, -item.quantity)
    /\ UNCHANGED <<catalog, reservations, paymentTables>>

ConvertOtherItem(k, r, item, now) ==
    /\ reservations[r].status = "active"
    /\ now < reservations[r].expiresAt
    /\ reservations[r].item.event = item.event
    /\ reservations' = [reservations EXCEPT ![r].status = "converted"]
    /\ CreateOrder(k, item, r, now)
    /\ UNCHANGED <<catalog, available, paymentTables>>

\* The conversion and the order commit together: when the event is no longer
\* on sale the conversion rolls back too.
CheckoutReservation(k, r, item, now) ==
    /\ reservations[r].status = "active"
    /\ reservations[r].item = item
    /\ now < reservations[r].expiresAt
    /\ reservations' = [reservations EXCEPT ![r].status = "converted"]
    /\ CreateOrder(k, item, r, now)
    /\ UNCHANGED <<catalog, available, paymentTables>>

\* A checkout that finds its own reservation due commits the cleanup and
\* answers 409.
CheckoutExpiredReservation(k, r, item, now) ==
    /\ orders[k] = Missing
    /\ reservations[r].status = "active"
    /\ reservations[r].item = item
    /\ reservations[r].expiresAt <= now
    /\ ReturnSeatsAndFinalize(r, "expired")
    /\ UNCHANGED <<catalog, orders, paymentTables>>

Checkout(k, item, now) ==
    \/ CheckoutDirect(k, item, now)
    \/ \E r \in ReservationIds :
           \/ CheckoutReservation(k, r, item, now)
           \/ CheckoutExpiredReservation(k, r, item, now)

----------------------------------------------------------------------------
(* Expiration of unpaid orders.                                            *)

ExpireAnyOrder(k, now) ==
    /\ orders[k] # Missing
    /\ orders[k].status # "expired"
    /\ orders[k].deadline <= now
    /\ AdjustAvailableSeats(orders[k].item.event, orders[k].item.quantity)
    /\ orders' = [orders EXCEPT ![k].status = "expired"]
    /\ UNCHANGED <<catalog, reservations, paymentTables>>

ExpireDirectOrderOnly(k, now) ==
    /\ orders[k].status = "pending"
    /\ orders[k].reservation = NoReservation
    /\ orders[k].deadline <= now
    /\ AdjustAvailableSeats(orders[k].item.event, orders[k].item.quantity)
    /\ orders' = [orders EXCEPT ![k].status = "expired"]
    /\ UNCHANGED <<catalog, reservations, paymentTables>>

ExpirePendingOrder(k, now) ==
    /\ orders[k].status = "pending"
    /\ orders[k].deadline <= now
    /\ AdjustAvailableSeats(orders[k].item.event, orders[k].item.quantity)
    /\ orders' = [orders EXCEPT ![k].status = "expired"]
    /\ UNCHANGED <<catalog, reservations, paymentTables>>

----------------------------------------------------------------------------
(* Payment webhooks.                                                       *)

\* A callback key belongs for ever to the first callback accepted under it.
ReserveCallbackKey(c, k, t, status) ==
    LET binding == [status |-> status, order |-> k, tx |-> t]
    IN  /\ callbackKeys[c] \in {Missing, binding}
        /\ callbackKeys' = [callbackKeys EXCEPT ![c] = binding]

KeepFirstRecord(t, k, status, reconciliation) ==
    IF payments[t] = Missing
      THEN payments' = [payments EXCEPT ![t] =
               [status |-> status, order |-> k, reconciliation |-> reconciliation]]
      ELSE /\ payments[t].order = k
           /\ UNCHANGED payments

OverwriteRecord(t, k, status, reconciliation) ==
    /\ payments[t] # Missing => payments[t].order = k
    /\ payments' = [payments EXCEPT ![t] =
           [status |-> status, order |-> k, reconciliation |-> reconciliation]]

\* A transaction id recorded for another order rejects the callback; for the
\* same order only a late success changes the record.
InsertPaymentRecord(t, k, status, reconciliation) ==
    IF payments[t] = Missing
      THEN payments' = [payments EXCEPT ![t] =
               [status |-> status, order |-> k, reconciliation |-> reconciliation]]
      ELSE /\ payments[t].order = k
           /\ payments' = IF reconciliation
                            THEN [payments EXCEPT ![t].status = "settled",
                                                  ![t].reconciliation = TRUE]
                            ELSE payments

\* The seats of an expired order are gone, its payment is still recorded.
CallbackForExpired(k, t, status) ==
    /\ orders[k].status = "expired"
    /\ InsertPaymentRecord(t, k, status, status = "settled")
    /\ UNCHANGED <<available, orders, tickets>>

\* The transitions of an order under its row lock: they write what they are
\* told, and only their callers have looked at the status.
MarkOrderAsPaid(k) == orders' = [orders EXCEPT ![k].status = "paid"]
CancelOrder(k) == orders' = [orders EXCEPT ![k].status = "cancelled"]

\* One ticket for each seat, once.
IssueTickets(k) ==
    tickets' = [tickets EXCEPT ![k] = IF @ > 0 THEN @ ELSE orders[k].item.quantity]

SettleCancelled(k, t) ==
    \/ /\ orders[k].status = "paid"
       /\ UNCHANGED <<available, orders, tickets, payments>>
    \/ /\ orders[k].status \in {"pending", "cancelled"}
       /\ InsertPaymentRecord(t, k, "settled", FALSE)
       /\ MarkOrderAsPaid(k)
       /\ IssueTickets(k)
       /\ UNCHANGED available

OneTicketAnOrder(k, t) ==
    \/ /\ orders[k].status = "paid"
       /\ UNCHANGED <<available, orders, tickets, payments>>
    \/ /\ orders[k].status = "pending"
       /\ InsertPaymentRecord(t, k, "settled", FALSE)
       /\ MarkOrderAsPaid(k)
       /\ tickets' = [tickets EXCEPT ![k] = 1]
       /\ UNCHANGED available

\* A cancelled order rejects a settlement.
HandleSettle(k, t) ==
    \/ /\ orders[k].status = "paid"
       /\ UNCHANGED <<available, orders, tickets, payments>>
    \/ /\ orders[k].status = "pending"
       /\ InsertPaymentRecord(t, k, "settled", FALSE)
       /\ MarkOrderAsPaid(k)
       /\ IssueTickets(k)
       /\ UNCHANGED available

FailPaid(k, t) ==
    \/ /\ orders[k].status = "cancelled"
       /\ UNCHANGED <<available, orders, tickets, payments>>
    \/ /\ orders[k].status \in {"pending", "paid"}
       /\ InsertPaymentRecord(t, k, "failed", FALSE)
       /\ AdjustAvailableSeats(orders[k].item.event, orders[k].item.quantity)
       /\ CancelOrder(k)
       /\ UNCHANGED tickets

\* A failure after settlement changes nothing and is answered as settled.
HandleFail(k, t) ==
    \/ /\ orders[k].status \in {"paid", "cancelled"}
       /\ UNCHANGED <<available, orders, tickets, payments>>
    \/ /\ orders[k].status = "pending"
       /\ InsertPaymentRecord(t, k, "failed", FALSE)
       /\ AdjustAvailableSeats(orders[k].item.event, orders[k].item.quantity)
       /\ CancelOrder(k)
       /\ UNCHANGED tickets

ProcessPaymentWebhook(c, k, t, status) ==
    /\ orders[k] # Missing
    /\ ReserveCallbackKey(c, k, t, status)
    /\ \/ CallbackForExpired(k, t, status)
       \/ status = "settled" /\ HandleSettle(k, t)
       \/ status = "failed" /\ HandleFail(k, t)
    /\ UNCHANGED <<catalog, reservations>>

----------------------------------------------------------------------------
(* Specification.                                                          *)

SaleStep ==
    \/ Tick
    \/ \E e \in Events : CreateEvent(e)
    \/ \E r \in ReservationIds :
           \/ \E item \in Items, now \in TransactionTimes :
                  CreateReservation(r, item, now)
           \/ ReleaseReservation(r)
           \/ ExpireReservation(r)
    \/ \E k \in CheckoutKeys :
           \/ \E item \in Items, now \in TransactionTimes : Checkout(k, item, now)
           \/ \E now \in TransactionTimes : ExpirePendingOrder(k, now)

PaymentStep ==
    \E c \in CallbackKeys, k \in CheckoutKeys, t \in ProviderTxs,
       status \in {"settled", "failed"} :
        ProcessPaymentWebhook(c, k, t, status)

Next == SaleStep \/ PaymentStep

Spec == Init /\ [][Next]_vars

\* Both sweepers run for as long as a server runs, and try again what failed.
FairSpec ==
    /\ Spec
    /\ WF_vars(Tick)
    /\ \A r \in ReservationIds : WF_vars(ExpireReservation(r))
    /\ \A k \in CheckoutKeys : WF_vars(ExpirePendingOrder(k, clock))

----------------------------------------------------------------------------
(* Properties.                                                             *)

\* Seats of event e held by active reservations, by reservation.
ReservedSeats(e) ==
    [r \in ReservationIds |->
        IF reservations[r].status = "active" /\ reservations[r].item.event = e
          THEN reservations[r].item.quantity ELSE 0]

\* Seats of event e occupied by orders in one of the statuses, by order.
OrderedSeats(e, statuses) ==
    [k \in CheckoutKeys |->
        IF orders[k].status \in statuses /\ orders[k].item.event = e
          THEN orders[k].item.quantity ELSE 0]

\* Tickets issued for event e, by order.
TicketedSeats(e) ==
    [k \in CheckoutKeys |->
        IF orders[k] # Missing /\ orders[k].item.event = e THEN tickets[k] ELSE 0]

\* Every seat of an event is in exactly one place: free, held by an active
\* reservation, or occupied by a pending or paid order.  No seat is sold twice,
\* returned twice, or lost, whichever of the sweepers, checkouts and webhooks
\* reach a reservation or an order first.
SeatsConserved ==
    \A e \in events :
        available[e] + SeatTotal(ReservedSeats(e))
                     + SeatTotal(OrderedSeats(e, {"pending", "paid"}))
          = TotalSeats[e]

\* A reservation is converted exactly when one order was created from it, and
\* that order is for what was reserved.  No column of the schema enforces this:
\* orders.reservation_id is not unique.
ConversionMatchesOrder ==
    /\ \A k \in CheckoutKeys :
           (orders[k] # Missing /\ orders[k].reservation # NoReservation) =>
               /\ reservations[orders[k].reservation].status = "converted"
               /\ reservations[orders[k].reservation].item = orders[k].item
    /\ \A r \in ReservationIds : reservations[r].status = "converted" =>
           Cardinality({k \in CheckoutKeys : orders[k] # Missing
                                             /\ orders[k].reservation = r}) = 1

\* The terminal payment records of an order agree with its status: none while
\* it is pending; exactly one, settled and needing no reconciliation, once it
\* is paid; failed ones once it is cancelled; and after expiration a settled
\* one always asks for reconciliation.
PaymentRecordsMatchOrder ==
    \A k \in CheckoutKeys : orders[k] # Missing =>
        LET records == {t \in ProviderTxs : payments[t] # Missing
                                            /\ payments[t].order = k}
        IN  CASE orders[k].status = "pending" -> records = {}
              [] orders[k].status = "paid" ->
                     /\ Cardinality(records) = 1
                     /\ \A t \in records : payments[t].status = "settled"
                                           /\ ~payments[t].reconciliation
              [] orders[k].status = "cancelled" ->
                     /\ records # {}
                     /\ \A t \in records : payments[t].status = "failed"
              [] orders[k].status = "expired" ->
                     \A t \in records : payments[t].reconciliation
                                        <=> payments[t].status = "settled"

\* Tickets exist for paid orders only, one for each seat.
TicketsMatchPayment ==
    \A k \in CheckoutKeys :
        tickets[k] = IF orders[k].status = "paid" THEN orders[k].item.quantity ELSE 0

\* A callback that was answered 200 stays visible in what it did: an accepted
\* settlement leaves its order paid, or expired with that transaction recorded
\* as settled and to be reconciled; an accepted failure leaves its order paid
\* already, cancelled, or expired with that transaction recorded.
AcceptedCallbacksHonoured ==
    \A c \in CallbackKeys : callbackKeys[c] # Missing =>
        LET k == callbackKeys[c].order
            t == callbackKeys[c].tx
        IN  \/ orders[k].status = "paid"
            \/ orders[k].status = "cancelled" /\ callbackKeys[c].status = "failed"
            \/ /\ orders[k].status = "expired"
               /\ payments[t] # Missing /\ payments[t].order = k
               /\ callbackKeys[c].status = "settled" =>
                      payments[t].status = "settled" /\ payments[t].reconciliation

\* What a step keeps of a row: what was bought, and a final status.
OutcomesKept ==
    /\ \A r \in ReservationIds : reservations[r] # Missing =>
           /\ reservations'[r].item = reservations[r].item
           /\ reservations[r].status # "active" =>
                  reservations'[r] = reservations[r]
    /\ \A k \in CheckoutKeys : orders[k] # Missing =>
           /\ orders'[k].item = orders[k].item
           /\ orders'[k].reservation = orders[k].reservation
           /\ orders[k].status # "pending" => orders'[k] = orders[k]

\* Reservations and orders move once, from active or pending to a final
\* status, and what was bought never changes.
FinalOutcomes == [][OutcomesKept]_vars

\* What a step keeps of the money.
FactsKept ==
    /\ \A t \in ProviderTxs :
           (payments[t] # Missing /\ payments[t].status = "settled") =>
               /\ payments'[t].status = "settled"
               /\ payments'[t].order = payments[t].order
               /\ payments[t].reconciliation => payments'[t].reconciliation
    /\ \A c \in CallbackKeys : callbackKeys[c] # Missing =>
           callbackKeys'[c] = callbackKeys[c]

\* A settled transaction stays settled, for the same order, and a request for
\* reconciliation is never withdrawn; a callback key is never bound again.
FinancialFactsKept == [][FactsKept]_vars

\* The header of payment-webhook.service.ts: a provider transaction id attached
\* to two different orders is rejected.
ProviderTxOfOneOrder ==
    \A c, d \in CallbackKeys :
        (callbackKeys[c] # Missing /\ callbackKeys[d] # Missing
         /\ callbackKeys[c].tx = callbackKeys[d].tx) =>
            callbackKeys[c].order = callbackKeys[d].order

\* The purchase path moves seats only as the abstract ledger allows.
Ledger == INSTANCE SeatLedger WITH
    free <- available,
    held <- [e \in Events |-> SeatTotal(ReservedSeats(e))
                              + SeatTotal(OrderedSeats(e, {"pending"}))],
    sold <- [e \in Events |-> SeatTotal(TicketedSeats(e))]

LedgerSpec == Ledger!Spec

\* A hold on seats is never for ever: a sweeper expires what nobody finished.
ReservationsResolve ==
    \A r \in ReservationIds :
        reservations[r].status = "active" ~> reservations[r].status # "active"

OrdersResolve ==
    \A k \in CheckoutKeys :
        orders[k].status = "pending" ~> orders[k].status # "pending"
=============================================================================
