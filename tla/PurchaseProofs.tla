---------------------------- MODULE PurchaseProofs ----------------------------
(***************************************************************************)
(* Proofs about Purchase for every set of events, reservations, keys and   *)
(* transactions, every quantity and every bound of the clock.              *)
(***************************************************************************)
EXTENDS Purchase, FiniteSetTheorems, TLAPS

----------------------------------------------------------------------------
(* Seat totals.  For every finite table SeatTotal is a natural number,     *)
(* zero for an empty table, and changing one row changes it by exactly     *)
(* that row's difference.  With this, totals are handled as numbers.       *)

\* The numbered seats of one row, and the rows of a table without one of them.
RowSeats(row, n) == {row} \X (1 .. n)

\* A row of n seats is a finite set of n seats.
LEMMA RowSeatsCount ==
  ASSUME NEW row, NEW n \in Nat
  PROVE  /\ IsFiniteSet(RowSeats(row, n))
         /\ Cardinality(RowSeats(row, n)) = n
<1>1. /\ IsFiniteSet({row})
      /\ Cardinality({row}) = 1
  BY FS_Singleton
<1>2. /\ IsFiniteSet(1 .. n)
      /\ Cardinality(1 .. n) = n
  <2>1. /\ IsFiniteSet(1 .. n)
        /\ Cardinality(1 .. n) = IF 1 > n THEN 0 ELSE n - 1 + 1
    BY FS_Interval
  <2> QED  BY <2>1
<1>3. /\ IsFiniteSet({row} \X (1 .. n))
      /\ Cardinality({row} \X (1 .. n)) = Cardinality({row}) * Cardinality(1 .. n)
  BY <1>1, <1>2, FS_Product
<1> QED  BY <1>1, <1>2, <1>3 DEF RowSeats

\* The seats of a finite table of bounded rows are finite, so they have a total.
LEMMA SeatTotalType ==
  ASSUME NEW S, IsFiniteSet(S), NEW max \in Nat, NEW f \in [S -> 0 .. max]
  PROVE  /\ IsFiniteSet(SeatsOf(f))
         /\ SeatTotal(f) \in Nat
<1>1. IsFiniteSet(1 .. max)
  BY FS_Interval
<1>2. IsFiniteSet(S \X (1 .. max))
  BY <1>1, FS_Product
<1>3. SeatsOf(f) \in SUBSET (S \X (1 .. max))
  <2> SUFFICES ASSUME NEW row \in S, NEW i \in 1 .. f[row]
               PROVE  <<row, i>> \in S \X (1 .. max)
    BY DEF SeatsOf
  <2>1. f[row] \in 0 .. max
    OBVIOUS
  <2> QED  BY <2>1
<1>4. IsFiniteSet(SeatsOf(f))
  BY <1>2, <1>3, FS_Subset
<1> QED  BY <1>4, FS_CardinalityType DEF SeatTotal

\* A table whose rows occupy nothing has total zero.
LEMMA SeatTotalZero ==
  ASSUME NEW S, NEW f, DOMAIN f = S, \A row \in S : f[row] = 0
  PROVE  SeatTotal(f) = 0
<1>1. SeatsOf(f) = {}
  <2> SUFFICES ASSUME NEW row \in S, NEW i \in 1 .. f[row]
               PROVE  FALSE
    BY DEF SeatsOf
  <2> QED  OBVIOUS
<1> QED  BY <1>1, FS_EmptySet DEF SeatTotal

\* Changing one row changes the total by what that row gains or loses.
LEMMA SeatTotalChange ==
  ASSUME NEW S, IsFiniteSet(S), NEW max \in Nat,
         NEW f \in [S -> 0 .. max], NEW g \in [S -> 0 .. max],
         NEW x \in S, \A row \in S \ {x} : g[row] = f[row]
  PROVE  SeatTotal(g) = SeatTotal(f) - f[x] + g[x]
<1> DEFINE others == {seat \in SeatsOf(f) : seat[1] # x}
<1>1. /\ IsFiniteSet(SeatsOf(f))
      /\ SeatTotal(f) \in Nat
  BY SeatTotalType
<1>2. IsFiniteSet(others)
  BY <1>1, FS_Subset, others \in SUBSET SeatsOf(f)
<1>3. /\ f[x] \in Nat
      /\ g[x] \in Nat
  OBVIOUS
<1>4. ASSUME NEW h \in [S -> 0 .. max], \A row \in S \ {x} : h[row] = f[row]
      PROVE  /\ SeatsOf(h) = others \cup RowSeats(x, h[x])
             /\ others \cap RowSeats(x, h[x]) = {}
  <2>1. SeatsOf(h) \subseteq others \cup RowSeats(x, h[x])
    <3> SUFFICES ASSUME NEW row \in S, NEW i \in 1 .. h[row]
                 PROVE  <<row, i>> \in others \cup RowSeats(x, h[x])
      BY DEF SeatsOf
    <3>1. CASE row = x
      BY <3>1 DEF RowSeats
    <3>2. CASE row # x
      <4>1. h[row] = f[row]
        BY <1>4, <3>2
      <4>2. <<row, i>> \in SeatsOf(f)
        BY <4>1 DEF SeatsOf
      <4> QED  BY <3>2, <4>2
    <3> QED  BY <3>1, <3>2
  <2>2. others \subseteq SeatsOf(h)
    <3> SUFFICES ASSUME NEW row \in S, NEW i \in 1 .. f[row], row # x
                 PROVE  <<row, i>> \in SeatsOf(h)
      BY DEF SeatsOf
    <3>1. h[row] = f[row]
      BY <1>4
    <3> QED  BY <3>1 DEF SeatsOf
  <2>3. RowSeats(x, h[x]) \subseteq SeatsOf(h)
    BY DEF RowSeats, SeatsOf
  <2>4. others \cap RowSeats(x, h[x]) = {}
    BY DEF RowSeats
  <2> QED  BY <2>1, <2>2, <2>3, <2>4
<1>5. ASSUME NEW h \in [S -> 0 .. max], \A row \in S \ {x} : h[row] = f[row]
      PROVE  SeatTotal(h) = Cardinality(others) + h[x]
  <2> DEFINE mine == RowSeats(x, h[x])
  <2>1. h[x] \in Nat
    OBVIOUS
  <2>2. IsFiniteSet(mine) /\ Cardinality(mine) = h[x]
    BY <2>1, RowSeatsCount
  <2>3. SeatsOf(h) = others \cup mine /\ others \cap mine = {}
    BY <1>4, <1>5
  <2> HIDE DEF others, mine
  <2>4. Cardinality(others \cup mine)
          = Cardinality(others) + Cardinality(mine) - Cardinality(others \cap mine)
    BY <1>2, <2>2, FS_Union
  <2>5. Cardinality(others) \in Nat
    BY <1>2, FS_CardinalityType
  <2>6. Cardinality(others \cap mine) = 0
    BY <2>3, FS_EmptySet
  <2>7. SeatTotal(h) = Cardinality(others \cup mine)
    BY <2>3 DEF SeatTotal
  <2> QED  BY <2>1, <2>2, <2>4, <2>5, <2>6, <2>7
<1>6. SeatTotal(f) = Cardinality(others) + f[x]
  BY <1>5
<1>7. SeatTotal(g) = Cardinality(others) + g[x]
  BY <1>5
<1>8. Cardinality(others) \in Nat
  BY <1>2, FS_CardinalityType
<1> HIDE DEF others
<1> QED  BY <1>3, <1>6, <1>7, <1>8

\* A table occupies at least what one of its rows does.
LEMMA SeatTotalCovers ==
  ASSUME NEW S, IsFiniteSet(S), NEW max \in Nat, NEW f \in [S -> 0 .. max], NEW x \in S
  PROVE  SeatTotal(f) >= f[x]
<1> DEFINE g == [f EXCEPT ![x] = 0]
<1>1. /\ g \in [S -> 0 .. max] /\ g[x] = 0
      /\ \A row \in S \ {x} : g[row] = f[row]
  OBVIOUS
<1> HIDE DEF g
<1>2. SeatTotal(g) = SeatTotal(f) - f[x] + g[x]
  BY <1>1, SeatTotalChange
<1>3. SeatTotal(f) \in Nat /\ SeatTotal(g) \in Nat /\ f[x] \in Nat
  BY <1>1, SeatTotalType
<1> QED  BY <1>1, <1>2, <1>3

----------------------------------------------------------------------------
(* Rows.                                                                   *)

\* A row with a status of its table is a row and not a missing one.
LEMMA ReservationRow ==
  ASSUME TypeOK, NEW r \in ReservationIds,
         reservations[r] # Missing \/ reservations[r].status # "missing"
  PROVE  reservations[r] \in Reservation
<1>1. reservations[r] \in Reservation \cup {Missing}
  BY DEF TypeOK
<1>2. Missing.status = "missing"
  BY DEF Missing
<1> QED  BY <1>1, <1>2

LEMMA OrderRow ==
  ASSUME TypeOK, NEW k \in CheckoutKeys,
         orders[k] # Missing \/ orders[k].status # "missing"
  PROVE  orders[k] \in Order
<1>1. orders[k] \in Order \cup {Missing}
  BY DEF TypeOK
<1>2. Missing.status = "missing"
  BY DEF Missing
<1> QED  BY <1>1, <1>2

\* Seats move inside Nat: a deduction is guarded, a return only adds.
LEMMA AdjustType ==
  ASSUME TypeOK, NEW e \in Events, NEW delta \in Int, AdjustAvailableSeats(e, delta)
  PROVE  /\ available' \in [Events -> Nat]
         /\ available' = [available EXCEPT ![e] = @ + delta]
<1>1. available \in [Events -> Nat]
  BY DEF TypeOK
<1>2. available[e] + delta \in Nat
  BY <1>1 DEF AdjustAvailableSeats
<1> QED  BY <1>1, <1>2 DEF AdjustAvailableSeats

\* Finalizing a reservation keeps both tables well typed.
LEMMA FinalizeType ==
  ASSUME TypeOK, NEW r \in ReservationIds, NEW final \in {"released", "expired"},
         ReturnSeatsAndFinalize(r, final)
  PROVE  /\ available' \in [Events -> Nat]
         /\ reservations' \in [ReservationIds -> Reservation \cup {Missing}]
<1>1. reservations[r] \in Reservation
  BY ReservationRow DEF ReturnSeatsAndFinalize
<1>2. /\ reservations[r].item.event \in Events
      /\ reservations[r].item.quantity \in Int
  BY <1>1, SeatsAssumption DEF Reservation, Items
<1>3. available' \in [Events -> Nat]
  BY <1>2, AdjustType DEF ReturnSeatsAndFinalize
<1>4. [reservations[r] EXCEPT !.status = final] \in Reservation
  BY <1>1 DEF Reservation
<1>5. reservations \in [ReservationIds -> Reservation \cup {Missing}]
  BY DEF TypeOK
<1>6. reservations' = [reservations EXCEPT ![r].status = final]
  BY DEF ReturnSeatsAndFinalize
<1> QED  BY <1>3, <1>4, <1>5, <1>6

\* A new order row is well typed.
LEMMA CreateOrderType ==
  ASSUME TypeOK, NEW k \in CheckoutKeys, NEW item \in Items,
         NEW reservation \in ReservationIds \cup {NoReservation},
         NEW now \in TransactionTimes, CreateOrder(k, item, reservation, now)
  PROVE  orders' \in [CheckoutKeys -> Order \cup {Missing}]
<1>1. now + PaymentWindow \in Nat
  BY SeatsAssumption DEF TransactionTimes
<1>2. [status |-> "pending", item |-> item, reservation |-> reservation,
       deadline |-> now + PaymentWindow] \in Order
  BY <1>1 DEF Order
<1> QED  BY <1>2 DEF CreateOrder, TypeOK

\* Moving an order to another status keeps the table well typed.
LEMMA OrderStatusType ==
  ASSUME TypeOK, NEW k \in CheckoutKeys, orders[k] \in Order,
         NEW status \in {"pending", "paid", "cancelled", "expired"}
  PROVE  [orders EXCEPT ![k].status = status] \in [CheckoutKeys -> Order \cup {Missing}]
<1>1. [orders[k] EXCEPT !.status = status] \in Order
  BY DEF Order
<1> QED  BY <1>1 DEF TypeOK

\* Recording a payment keeps payment_records well typed.
LEMMA InsertPaymentRecordType ==
  ASSUME TypeOK, NEW t \in ProviderTxs, NEW k \in CheckoutKeys,
         NEW status \in {"settled", "failed"}, NEW reconciliation \in BOOLEAN,
         InsertPaymentRecord(t, k, status, reconciliation)
  PROVE  payments' \in [ProviderTxs -> PaymentRecord \cup {Missing}]
<1>1. payments \in [ProviderTxs -> PaymentRecord \cup {Missing}]
  BY DEF TypeOK
<1>2. CASE payments[t] = Missing
  <2>1. [status |-> status, order |-> k, reconciliation |-> reconciliation]
           \in PaymentRecord
    BY DEF PaymentRecord
  <2> QED  BY <1>1, <1>2, <2>1 DEF InsertPaymentRecord
<1>3. CASE payments[t] # Missing
  <2>1. payments[t] \in PaymentRecord
    BY <1>1, <1>3
  <2>2. [payments[t] EXCEPT !.status = "settled", !.reconciliation = TRUE]
           \in PaymentRecord
    BY <2>1 DEF PaymentRecord
  <2>3. [payments EXCEPT ![t].status = "settled", ![t].reconciliation = TRUE]
           \in [ProviderTxs -> PaymentRecord \cup {Missing}]
    BY <1>1, <2>2
  <2> QED  BY <1>1, <1>3, <2>3 DEF InsertPaymentRecord
<1> QED  BY <1>2, <1>3

----------------------------------------------------------------------------
(* Type correctness.                                                       *)

LEMMA TypeInit == Init => TypeOK
BY SeatsAssumption DEF Init, TypeOK, Missing

\* A webhook keeps every table well typed.
LEMMA WebhookType ==
  ASSUME TypeOK, NEW c \in CallbackKeys, NEW k \in CheckoutKeys,
         NEW t \in ProviderTxs, NEW status \in {"settled", "failed"},
         ProcessPaymentWebhook(c, k, t, status)
  PROVE  TypeOK'
<1>1. orders[k] \in Order
  BY OrderRow DEF ProcessPaymentWebhook
<1>2. /\ orders[k].item.event \in Events
      /\ orders[k].item.quantity \in 1 .. MaxQuantity
      /\ orders[k].item.quantity \in Int
  BY <1>1, SeatsAssumption DEF Order, Items
<1>3. callbackKeys' \in [CallbackKeys -> CallbackBinding \cup {Missing}]
  <2>1. [status |-> status, order |-> k, tx |-> t] \in CallbackBinding
    BY DEF CallbackBinding
  <2> QED  BY <2>1 DEF ProcessPaymentWebhook, ReserveCallbackKey, TypeOK
<1>4. /\ available' \in [Events -> Nat]
      /\ orders' \in [CheckoutKeys -> Order \cup {Missing}]
      /\ tickets' \in [CheckoutKeys -> 0 .. MaxQuantity]
      /\ payments' \in [ProviderTxs -> PaymentRecord \cup {Missing}]
  <2>1. CASE CallbackForExpired(k, t, status)
    BY <2>1, InsertPaymentRecordType DEF CallbackForExpired, TypeOK
  <2>2. CASE HandleSettle(k, t)
    <3>1. CASE UNCHANGED <<available, orders, tickets, payments>>
      BY <3>1 DEF TypeOK
    <3>2. CASE /\ InsertPaymentRecord(t, k, "settled", FALSE)
               /\ orders' = [orders EXCEPT ![k].status = "paid"]
               /\ tickets' = [tickets EXCEPT ![k] =
                                 IF @ > 0 THEN @ ELSE orders[k].item.quantity]
               /\ UNCHANGED available
      <4>1. tickets' \in [CheckoutKeys -> 0 .. MaxQuantity]
        BY <1>2, <3>2, SeatsAssumption DEF TypeOK
      <4>2. orders' \in [CheckoutKeys -> Order \cup {Missing}]
        BY <1>1, <3>2, OrderStatusType
      <4> QED  BY <3>2, <4>1, <4>2, InsertPaymentRecordType DEF TypeOK
    <3> QED  BY <2>2, <3>1, <3>2 DEF HandleSettle, MarkOrderAsPaid, IssueTickets
  <2>3. CASE HandleFail(k, t)
    <3>1. CASE UNCHANGED <<available, orders, tickets, payments>>
      BY <3>1 DEF TypeOK
    <3>2. CASE /\ InsertPaymentRecord(t, k, "failed", FALSE)
               /\ AdjustAvailableSeats(orders[k].item.event, orders[k].item.quantity)
               /\ orders' = [orders EXCEPT ![k].status = "cancelled"]
               /\ UNCHANGED tickets
      <4>1. orders' \in [CheckoutKeys -> Order \cup {Missing}]
        BY <1>1, <3>2, OrderStatusType
      <4>2. available' \in [Events -> Nat]
        BY <1>2, <3>2, AdjustType
      <4> QED  BY <3>2, <4>1, <4>2, InsertPaymentRecordType DEF TypeOK
    <3> QED  BY <2>3, <3>1, <3>2 DEF HandleFail, CancelOrder
  <2> QED  BY <2>1, <2>2, <2>3 DEF ProcessPaymentWebhook
<1>5. UNCHANGED <<clock, events, reservations>>
  BY DEF ProcessPaymentWebhook, catalog
<1> QED  BY <1>3, <1>4, <1>5 DEF TypeOK

LEMMA TypeStep == TypeOK /\ [Next]_vars => TypeOK'
<1> SUFFICES ASSUME TypeOK, [Next]_vars
             PROVE  TypeOK'
  OBVIOUS
<1>1. CASE Tick
  BY <1>1, SeatsAssumption DEF Tick, TypeOK, paymentTables
<1>2. ASSUME NEW e \in Events, CreateEvent(e)
      PROVE  TypeOK'
  BY <1>2, SeatsAssumption DEF CreateEvent, TypeOK, paymentTables
<1>3. ASSUME NEW r \in ReservationIds, NEW item \in Items,
             NEW now \in TransactionTimes, CreateReservation(r, item, now)
      PROVE  TypeOK'
  <2>1. [status |-> "active", item |-> item, expiresAt |-> clock + HoldTtl]
           \in Reservation
    BY SeatsAssumption DEF TypeOK, Reservation
  <2>2. reservations' \in [ReservationIds -> Reservation \cup {Missing}]
    BY <1>3, <2>1 DEF CreateReservation, TypeOK
  <2>3. available' \in [Events -> Nat]
    <3>1. item.event \in Events /\ -item.quantity \in Int
      BY SeatsAssumption DEF Items
    <3> QED  BY <1>3, <3>1, AdjustType DEF CreateReservation
  <2> QED  BY <1>3, <2>2, <2>3 DEF CreateReservation, TypeOK, catalog, paymentTables
<1>4. ASSUME NEW r \in ReservationIds, ReleaseReservation(r)
      PROVE  TypeOK'
  BY <1>4, FinalizeType DEF ReleaseReservation, TypeOK, catalog, paymentTables
<1>5. ASSUME NEW r \in ReservationIds, ExpireReservation(r)
      PROVE  TypeOK'
  BY <1>5, FinalizeType DEF ExpireReservation, TypeOK, catalog, paymentTables
<1>6. ASSUME NEW k \in CheckoutKeys, NEW item \in Items,
             NEW now \in TransactionTimes, CheckoutDirect(k, item, now)
      PROVE  TypeOK'
  <2>1. orders' \in [CheckoutKeys -> Order \cup {Missing}]
    BY <1>6, CreateOrderType DEF CheckoutDirect
  <2>2. available' \in [Events -> Nat]
    <3>1. item.event \in Events /\ -item.quantity \in Int
      BY SeatsAssumption DEF Items
    <3> QED  BY <1>6, <3>1, AdjustType DEF CheckoutDirect
  <2> QED  BY <1>6, <2>1, <2>2 DEF CheckoutDirect, TypeOK, catalog, paymentTables
<1>7. ASSUME NEW k \in CheckoutKeys, NEW item \in Items, NEW r \in ReservationIds,
             NEW now \in TransactionTimes, CheckoutReservation(k, r, item, now)
      PROVE  TypeOK'
  <2>1. orders' \in [CheckoutKeys -> Order \cup {Missing}]
    BY <1>7, CreateOrderType DEF CheckoutReservation
  <2>2. reservations[r] \in Reservation
    BY <1>7, ReservationRow DEF CheckoutReservation
  <2>3. [reservations[r] EXCEPT !.status = "converted"] \in Reservation
    BY <2>2 DEF Reservation
  <2>4. reservations' \in [ReservationIds -> Reservation \cup {Missing}]
    BY <1>7, <2>3 DEF CheckoutReservation, TypeOK
  <2> QED  BY <1>7, <2>1, <2>4 DEF CheckoutReservation, TypeOK, catalog, paymentTables
<1>8. ASSUME NEW k \in CheckoutKeys, NEW item \in Items, NEW r \in ReservationIds,
             NEW now \in TransactionTimes,
             CheckoutExpiredReservation(k, r, item, now)
      PROVE  TypeOK'
  BY <1>8, FinalizeType
     DEF CheckoutExpiredReservation, TypeOK, catalog, paymentTables
<1>9. ASSUME NEW k \in CheckoutKeys, NEW now \in TransactionTimes,
             ExpirePendingOrder(k, now)
      PROVE  TypeOK'
  <2>1. orders[k] \in Order
    BY <1>9, OrderRow DEF ExpirePendingOrder
  <2>2. /\ orders[k].item.event \in Events
        /\ orders[k].item.quantity \in Int
    BY <2>1, SeatsAssumption DEF Order, Items
  <2>3. available' \in [Events -> Nat]
    BY <1>9, <2>2, AdjustType DEF ExpirePendingOrder
  <2>4. orders' \in [CheckoutKeys -> Order \cup {Missing}]
    BY <1>9, <2>1, OrderStatusType DEF ExpirePendingOrder
  <2> QED  BY <1>9, <2>3, <2>4 DEF ExpirePendingOrder, TypeOK, catalog, paymentTables
<1>10. ASSUME NEW c \in CallbackKeys, NEW k \in CheckoutKeys, NEW t \in ProviderTxs,
              NEW status \in {"settled", "failed"},
              ProcessPaymentWebhook(c, k, t, status)
       PROVE  TypeOK'
  BY <1>10, WebhookType
<1>11. CASE UNCHANGED vars
  BY <1>11 DEF vars, TypeOK
<1> QED  BY <1>1, <1>2, <1>3, <1>4, <1>5, <1>6, <1>7, <1>8, <1>9, <1>10, <1>11
         DEF Next, SaleStep, PaymentStep, Checkout

\* Every row always has the shape its table declares; in particular
\* available_seats never drops below zero.
THEOREM TypeCorrect == Spec => []TypeOK
BY TypeInit, TypeStep, PTL DEF Spec

----------------------------------------------------------------------------
(* Conservation of seats.                                                  *)

\* Rows refer to events that exist: a checkout or a reservation locks the row
\* of its event before it inserts anything.
RowsOfEvents ==
    /\ \A r \in ReservationIds : reservations[r] # Missing =>
           reservations[r].item.event \in events
    /\ \A k \in CheckoutKeys : orders[k] # Missing =>
           orders[k].item.event \in events

ConservationInv == TypeOK /\ RowsOfEvents /\ SeatsConserved

Occupying == {"pending", "paid"}

\* The tables of seats are bounded by the largest request.
SeatTables ==
    \A e \in Events :
        /\ ReservedSeats(e) \in [ReservationIds -> 0 .. MaxQuantity]
        /\ OrderedSeats(e, Occupying) \in [CheckoutKeys -> 0 .. MaxQuantity]

LEMMA SeatTablesType == TypeOK => SeatTables
<1> SUFFICES ASSUME TypeOK, NEW e \in Events
             PROVE  /\ ReservedSeats(e) \in [ReservationIds -> 0 .. MaxQuantity]
                    /\ OrderedSeats(e, Occupying) \in [CheckoutKeys -> 0 .. MaxQuantity]
  BY DEF SeatTables
<1>1. ASSUME NEW r \in ReservationIds, reservations[r].status = "active"
      PROVE  reservations[r].item.quantity \in 0 .. MaxQuantity
  <2>1. reservations[r] \in Reservation
    BY <1>1, ReservationRow
  <2> QED  BY <2>1, SeatsAssumption DEF Reservation, Items
<1>2. ASSUME NEW k \in CheckoutKeys, orders[k].status \in Occupying
      PROVE  orders[k].item.quantity \in 0 .. MaxQuantity
  <2>1. orders[k] \in Order
    BY <1>2, OrderRow DEF Occupying
  <2> QED  BY <2>1, SeatsAssumption DEF Order, Items
<1>3. 0 \in 0 .. MaxQuantity
  BY SeatsAssumption
<1> QED  BY <1>1, <1>2, <1>3 DEF ReservedSeats, OrderedSeats

\* A step that changes at most reservation r moves the total of the held seats
\* by what r gains or loses.
LEMMA ReservedSeatsChange ==
  ASSUME TypeOK, TypeOK', NEW e \in Events, NEW r \in ReservationIds,
         \A x \in ReservationIds \ {r} : reservations'[x] = reservations[x]
  PROVE  SeatTotal(ReservedSeats(e)')
           = SeatTotal(ReservedSeats(e)) - ReservedSeats(e)[r] + ReservedSeats(e)'[r]
<1> DEFINE f == ReservedSeats(e)
           g == ReservedSeats(e)'
<1>1. SeatTables /\ SeatTables'
  BY SeatTablesType, PTL
<1>2. /\ f \in [ReservationIds -> 0 .. MaxQuantity]
      /\ g \in [ReservationIds -> 0 .. MaxQuantity]
  BY <1>1 DEF SeatTables
<1>3. \A x \in ReservationIds \ {r} : g[x] = f[x]
  BY DEF ReservedSeats
<1> HIDE DEF f, g
<1>4. SeatTotal(g) = SeatTotal(f) - f[r] + g[r]
  BY <1>2, <1>3, SeatTotalChange, TablesAssumption, SeatsAssumption
<1> QED  BY <1>4 DEF f, g

\* The same for a step that changes at most order k.
LEMMA OrderedSeatsChange ==
  ASSUME TypeOK, TypeOK', NEW e \in Events, NEW k \in CheckoutKeys,
         \A x \in CheckoutKeys \ {k} : orders'[x] = orders[x]
  PROVE  SeatTotal(OrderedSeats(e, Occupying)')
           = SeatTotal(OrderedSeats(e, Occupying))
               - OrderedSeats(e, Occupying)[k] + OrderedSeats(e, Occupying)'[k]
<1> DEFINE f == OrderedSeats(e, Occupying)
           g == OrderedSeats(e, Occupying)'
<1>1. SeatTables /\ SeatTables'
  BY SeatTablesType, PTL
<1>2. /\ f \in [CheckoutKeys -> 0 .. MaxQuantity]
      /\ g \in [CheckoutKeys -> 0 .. MaxQuantity]
  BY <1>1 DEF SeatTables
<1>3. \A x \in CheckoutKeys \ {k} : g[x] = f[x]
  BY DEF OrderedSeats
<1> HIDE DEF f, g
<1>4. SeatTotal(g) = SeatTotal(f) - f[k] + g[k]
  BY <1>2, <1>3, SeatTotalChange, TablesAssumption, SeatsAssumption
<1> QED  BY <1>4 DEF f, g

\* Totals are natural numbers.
LEMMA SeatTotalsType ==
  ASSUME TypeOK, NEW e \in Events
  PROVE  /\ SeatTotal(ReservedSeats(e)) \in Nat
         /\ SeatTotal(OrderedSeats(e, Occupying)) \in Nat
<1>1. /\ ReservedSeats(e) \in [ReservationIds -> 0 .. MaxQuantity]
      /\ OrderedSeats(e, Occupying) \in [CheckoutKeys -> 0 .. MaxQuantity]
  BY SeatTablesType DEF SeatTables
<1> QED  BY <1>1, SeatTotalType, TablesAssumption, SeatsAssumption

\* Seats are conserved by a step on one reservation that takes from, or gives
\* to, the free seats what the reservation gains or loses.
LEMMA ReservationMoves ==
  ASSUME ConservationInv, TypeOK', events' = events, orders' = orders,
         NEW r \in ReservationIds,
         \A x \in ReservationIds \ {r} : reservations'[x] = reservations[x],
         \A e \in events : available'[e] + ReservedSeats(e)'[r]
                            = available[e] + ReservedSeats(e)[r]
  PROVE  SeatsConserved'
<1> SUFFICES ASSUME NEW e \in events
             PROVE  available'[e] + SeatTotal(ReservedSeats(e)')
                      + SeatTotal(OrderedSeats(e, Occupying)') = TotalSeats[e]
  BY DEF SeatsConserved, Occupying
<1>1. TypeOK /\ e \in Events
  BY DEF ConservationInv, TypeOK
<1>2. available[e] + SeatTotal(ReservedSeats(e))
        + SeatTotal(OrderedSeats(e, Occupying)) = TotalSeats[e]
  BY DEF ConservationInv, SeatsConserved, Occupying
<1>3. SeatTotal(ReservedSeats(e)')
        = SeatTotal(ReservedSeats(e)) - ReservedSeats(e)[r] + ReservedSeats(e)'[r]
  BY <1>1, ReservedSeatsChange
<1>4. OrderedSeats(e, Occupying)' = OrderedSeats(e, Occupying)
  BY DEF OrderedSeats
<1>5. /\ SeatTotal(ReservedSeats(e)) \in Nat
      /\ SeatTotal(OrderedSeats(e, Occupying)) \in Nat
  BY <1>1, SeatTotalsType
<1>6. /\ available[e] \in Nat /\ available'[e] \in Nat
      /\ ReservedSeats(e)[r] \in Nat /\ ReservedSeats(e)'[r] \in Nat
  <2>1. SeatTables /\ SeatTables'
    BY <1>1, SeatTablesType, PTL
  <2> QED  BY <1>1, <2>1, SeatsAssumption DEF SeatTables, TypeOK
<1>7. available'[e] + ReservedSeats(e)'[r] = available[e] + ReservedSeats(e)[r]
  OBVIOUS
<1> QED  BY <1>2, <1>3, <1>4, <1>5, <1>6, <1>7

\* The same for a step on one order.
LEMMA OrderMoves ==
  ASSUME ConservationInv, TypeOK', events' = events, reservations' = reservations,
         NEW k \in CheckoutKeys,
         \A x \in CheckoutKeys \ {k} : orders'[x] = orders[x],
         \A e \in events : available'[e] + OrderedSeats(e, Occupying)'[k]
                            = available[e] + OrderedSeats(e, Occupying)[k]
  PROVE  SeatsConserved'
<1> SUFFICES ASSUME NEW e \in events
             PROVE  available'[e] + SeatTotal(ReservedSeats(e)')
                      + SeatTotal(OrderedSeats(e, Occupying)') = TotalSeats[e]
  BY DEF SeatsConserved, Occupying
<1>1. TypeOK /\ e \in Events
  BY DEF ConservationInv, TypeOK
<1>2. available[e] + SeatTotal(ReservedSeats(e))
        + SeatTotal(OrderedSeats(e, Occupying)) = TotalSeats[e]
  BY DEF ConservationInv, SeatsConserved, Occupying
<1>3. SeatTotal(OrderedSeats(e, Occupying)')
        = SeatTotal(OrderedSeats(e, Occupying))
            - OrderedSeats(e, Occupying)[k] + OrderedSeats(e, Occupying)'[k]
  BY <1>1, OrderedSeatsChange
<1>4. ReservedSeats(e)' = ReservedSeats(e)
  BY DEF ReservedSeats
<1>5. /\ SeatTotal(ReservedSeats(e)) \in Nat
      /\ SeatTotal(OrderedSeats(e, Occupying)) \in Nat
  BY <1>1, SeatTotalsType
<1>6. /\ available[e] \in Nat /\ available'[e] \in Nat
      /\ OrderedSeats(e, Occupying)[k] \in Nat
      /\ OrderedSeats(e, Occupying)'[k] \in Nat
  <2>1. SeatTables /\ SeatTables'
    BY <1>1, SeatTablesType, PTL
  <2> QED  BY <1>1, <2>1, SeatsAssumption DEF SeatTables, TypeOK
<1>7. available'[e] + OrderedSeats(e, Occupying)'[k]
        = available[e] + OrderedSeats(e, Occupying)[k]
  OBVIOUS
<1> QED  BY <1>2, <1>3, <1>4, <1>5, <1>6, <1>7

\* Seats are conserved by a conversion: the order gains what the reservation
\* loses and no free seat moves.
LEMMA ConversionMoves ==
  ASSUME ConservationInv, TypeOK', events' = events, available' = available,
         NEW r \in ReservationIds, NEW k \in CheckoutKeys,
         \A x \in ReservationIds \ {r} : reservations'[x] = reservations[x],
         \A x \in CheckoutKeys \ {k} : orders'[x] = orders[x],
         \A e \in events : ReservedSeats(e)'[r] + OrderedSeats(e, Occupying)'[k]
                            = ReservedSeats(e)[r] + OrderedSeats(e, Occupying)[k]
  PROVE  SeatsConserved'
<1> SUFFICES ASSUME NEW e \in events
             PROVE  available'[e] + SeatTotal(ReservedSeats(e)')
                      + SeatTotal(OrderedSeats(e, Occupying)') = TotalSeats[e]
  BY DEF SeatsConserved, Occupying
<1>1. TypeOK /\ e \in Events
  BY DEF ConservationInv, TypeOK
<1>2. available[e] + SeatTotal(ReservedSeats(e))
        + SeatTotal(OrderedSeats(e, Occupying)) = TotalSeats[e]
  BY DEF ConservationInv, SeatsConserved, Occupying
<1>3. SeatTotal(ReservedSeats(e)')
        = SeatTotal(ReservedSeats(e)) - ReservedSeats(e)[r] + ReservedSeats(e)'[r]
  BY <1>1, ReservedSeatsChange
<1>4. SeatTotal(OrderedSeats(e, Occupying)')
        = SeatTotal(OrderedSeats(e, Occupying))
            - OrderedSeats(e, Occupying)[k] + OrderedSeats(e, Occupying)'[k]
  BY <1>1, OrderedSeatsChange
<1>5. /\ SeatTotal(ReservedSeats(e)) \in Nat
      /\ SeatTotal(OrderedSeats(e, Occupying)) \in Nat
  BY <1>1, SeatTotalsType
<1>6. /\ available[e] \in Nat
      /\ ReservedSeats(e)[r] \in Nat /\ ReservedSeats(e)'[r] \in Nat
      /\ OrderedSeats(e, Occupying)[k] \in Nat
      /\ OrderedSeats(e, Occupying)'[k] \in Nat
  <2>1. SeatTables /\ SeatTables'
    BY <1>1, SeatTablesType, PTL
  <2> QED  BY <1>1, <2>1, SeatsAssumption DEF SeatTables, TypeOK
<1>7. ReservedSeats(e)'[r] + OrderedSeats(e, Occupying)'[k]
        = ReservedSeats(e)[r] + OrderedSeats(e, Occupying)[k]
  OBVIOUS
<1> QED  BY <1>2, <1>3, <1>4, <1>5, <1>6, <1>7

LEMMA ConservationInit == Init => ConservationInv
<1> SUFFICES ASSUME Init
             PROVE  ConservationInv
  OBVIOUS
<1>1. TypeOK
  BY TypeInit
<1>2. RowsOfEvents
  BY DEF Init, RowsOfEvents
<1>3. SeatsConserved
  BY DEF Init, SeatsConserved
<1> QED  BY <1>1, <1>2, <1>3 DEF ConservationInv

\* A new event starts with every seat free, for no row refers to it yet.
LEMMA CreateEventConserves ==
  ASSUME ConservationInv, NEW e \in Events, CreateEvent(e)
  PROVE  RowsOfEvents' /\ SeatsConserved'
<1>1. TypeOK /\ UNCHANGED <<reservations, orders>>
  BY DEF ConservationInv, CreateEvent
<1>2. RowsOfEvents'
  BY <1>1 DEF ConservationInv, RowsOfEvents, CreateEvent
<1>3. ASSUME NEW d \in events'
      PROVE  available'[d] + SeatTotal(ReservedSeats(d))
               + SeatTotal(OrderedSeats(d, Occupying)) = TotalSeats[d]
  <2>1. CASE d = e
    <3>1. SeatTotal(ReservedSeats(e)) = 0
      <4>1. \A r \in ReservationIds : ReservedSeats(e)[r] = 0
        <5> SUFFICES ASSUME NEW r \in ReservationIds,
                            reservations[r].status = "active"
                     PROVE  reservations[r].item.event # e
          BY DEF ReservedSeats
        <5>1. reservations[r] # Missing
          BY DEF Missing
        <5> QED  BY <5>1 DEF ConservationInv, RowsOfEvents, CreateEvent
      <4>2. DOMAIN ReservedSeats(e) = ReservationIds
        BY DEF ReservedSeats
      <4> QED  BY <4>1, <4>2, SeatTotalZero
    <3>2. SeatTotal(OrderedSeats(e, Occupying)) = 0
      <4>1. \A k \in CheckoutKeys : OrderedSeats(e, Occupying)[k] = 0
        <5> SUFFICES ASSUME NEW k \in CheckoutKeys, orders[k].status \in Occupying
                     PROVE  orders[k].item.event # e
          BY DEF OrderedSeats
        <5>1. orders[k] # Missing
          BY DEF Missing, Occupying
        <5> QED  BY <5>1 DEF ConservationInv, RowsOfEvents, CreateEvent
      <4>2. DOMAIN OrderedSeats(e, Occupying) = CheckoutKeys
        BY DEF OrderedSeats
      <4> QED  BY <4>1, <4>2, SeatTotalZero
    <3>3. available'[e] = TotalSeats[e] /\ TotalSeats[e] \in Nat
      BY <1>1, SeatsAssumption DEF CreateEvent, TypeOK
    <3> QED  BY <2>1, <3>1, <3>2, <3>3
  <2>2. CASE d # e
    <3>1. d \in events /\ available'[d] = available[d]
      BY <1>1, <2>2 DEF CreateEvent, TypeOK
    <3> QED  BY <3>1 DEF ConservationInv, SeatsConserved, Occupying
  <2> QED  BY <2>1, <2>2
<1>4. ASSUME NEW d \in events'
      PROVE  /\ ReservedSeats(d)' = ReservedSeats(d)
             /\ OrderedSeats(d, Occupying)' = OrderedSeats(d, Occupying)
  BY <1>1 DEF ReservedSeats, OrderedSeats
<1>5. SeatsConserved'
  <2> SUFFICES ASSUME NEW d \in events'
               PROVE  available'[d] + SeatTotal(ReservedSeats(d)')
                        + SeatTotal(OrderedSeats(d, Occupying)') = TotalSeats[d]
    BY DEF SeatsConserved, Occupying
  <2> QED  BY <1>3, <1>4
<1> QED  BY <1>2, <1>5

LEMMA CreateReservationConserves ==
  ASSUME ConservationInv, TypeOK', NEW r \in ReservationIds, NEW item \in Items,
         NEW now \in TransactionTimes, CreateReservation(r, item, now)
  PROVE  RowsOfEvents' /\ SeatsConserved'
<1>1. /\ events' = events /\ orders' = orders
      /\ item.event \in events
      /\ reservations[r] = Missing
      /\ reservations' = [reservations EXCEPT ![r] =
             [status |-> "active", item |-> item, expiresAt |-> clock + HoldTtl]]
  BY DEF CreateReservation, SaleEligible, catalog
<1>2. TypeOK /\ available \in [Events -> Nat]
      /\ reservations \in [ReservationIds -> Reservation \cup {Missing}]
  BY DEF ConservationInv, TypeOK
<1>3. /\ item.event \in Events
      /\ item.quantity \in Int /\ -item.quantity \in Int
  BY SeatsAssumption DEF Items
<1>4. available' = [available EXCEPT ![item.event] = @ + (-item.quantity)]
  BY <1>2, <1>3, AdjustType DEF CreateReservation
<1>5. RowsOfEvents'
  BY <1>1, <1>2 DEF ConservationInv, RowsOfEvents
<1>6. ASSUME NEW e \in events
      PROVE  available'[e] + ReservedSeats(e)'[r] = available[e] + ReservedSeats(e)[r]
  <2>1. e \in Events
    BY <1>2 DEF TypeOK
  <2>2. ReservedSeats(e)[r] = 0
    BY <1>1 DEF ReservedSeats, Missing
  <2>3. ReservedSeats(e)'[r] = IF item.event = e THEN item.quantity ELSE 0
    BY <1>1, <1>2 DEF ReservedSeats
  <2>4. available'[e] = IF item.event = e THEN available[e] - item.quantity
                                          ELSE available[e]
    BY <1>2, <1>3, <1>4, <2>1
  <2> QED  BY <1>2, <1>3, <2>1, <2>2, <2>3, <2>4
<1>7. SeatsConserved'
  BY <1>1, <1>2, <1>6, ReservationMoves
<1> QED  BY <1>5, <1>7

\* A reservation gives back exactly what it held, once.
LEMMA FinalizeConserves ==
  ASSUME ConservationInv, TypeOK', NEW r \in ReservationIds,
         NEW final \in {"released", "expired"}, ReturnSeatsAndFinalize(r, final),
         events' = events, orders' = orders
  PROVE  RowsOfEvents' /\ SeatsConserved'
<1> DEFINE item == reservations[r].item
<1>1. TypeOK /\ available \in [Events -> Nat]
      /\ reservations \in [ReservationIds -> Reservation \cup {Missing}]
  BY DEF ConservationInv, TypeOK
<1>2. /\ reservations[r].status = "active"
      /\ reservations[r] \in Reservation
      /\ reservations' = [reservations EXCEPT ![r].status = final]
  BY <1>1, ReservationRow DEF ReturnSeatsAndFinalize
<1>3. item.event \in Events /\ item.quantity \in Int
  BY <1>2, SeatsAssumption DEF Reservation, Items
<1>4. available' = [available EXCEPT ![item.event] = @ + item.quantity]
  BY <1>1, <1>3, AdjustType DEF ReturnSeatsAndFinalize
<1>5. reservations'[r].status = final /\ reservations'[r].item = item
  BY <1>1, <1>2 DEF Reservation
<1>6. RowsOfEvents'
  <2> SUFFICES ASSUME NEW x \in ReservationIds, reservations'[x] # Missing
               PROVE  reservations'[x].item.event \in events
    BY DEF ConservationInv, RowsOfEvents
  <2>1. reservations[r] # Missing
    BY <1>2 DEF Missing
  <2> QED  BY <1>1, <1>2, <1>5, <2>1 DEF ConservationInv, RowsOfEvents
<1>7. ASSUME NEW e \in events
      PROVE  available'[e] + ReservedSeats(e)'[r] = available[e] + ReservedSeats(e)[r]
  <2>1. e \in Events
    BY <1>1 DEF TypeOK
  <2>2. ReservedSeats(e)[r] = IF item.event = e THEN item.quantity ELSE 0
    BY <1>2 DEF ReservedSeats
  <2>3. ReservedSeats(e)'[r] = 0
    BY <1>5 DEF ReservedSeats
  <2>4. available'[e] = IF item.event = e THEN available[e] + item.quantity
                                          ELSE available[e]
    BY <1>1, <1>3, <1>4, <2>1
  <2> QED  BY <1>1, <1>3, <2>1, <2>2, <2>3, <2>4
<1>8. SeatsConserved'
  BY <1>1, <1>2, <1>7, ReservationMoves
<1> QED  BY <1>6, <1>8

\* Moving an order of an existing event to another status keeps every row on
\* an event that exists.
LEMMA OrderKeepsRows ==
  ASSUME ConservationInv, NEW k \in CheckoutKeys, orders[k] \in Order,
         NEW status \in {"pending", "paid", "cancelled", "expired"},
         orders' = [orders EXCEPT ![k].status = status],
         events' = events, reservations' = reservations
  PROVE  RowsOfEvents'
<1>1. orders \in [CheckoutKeys -> Order \cup {Missing}]
  BY DEF ConservationInv, TypeOK
<1>2. orders'[k].item = orders[k].item
  BY <1>1 DEF Order
<1>3. orders[k] # Missing
  BY DEF Order, Missing
<1> QED  BY <1>1, <1>2, <1>3 DEF ConservationInv, RowsOfEvents

\* A pending order that is cancelled or expires gives its seats back.
LEMMA OrderGivesBack ==
  ASSUME ConservationInv, TypeOK', NEW k \in CheckoutKeys,
         orders[k].status = "pending", NEW final \in {"cancelled", "expired"},
         AdjustAvailableSeats(orders[k].item.event, orders[k].item.quantity),
         orders' = [orders EXCEPT ![k].status = final],
         events' = events, reservations' = reservations
  PROVE  RowsOfEvents' /\ SeatsConserved'
<1> DEFINE item == orders[k].item
<1>1. /\ TypeOK /\ available \in [Events -> Nat]
      /\ orders \in [CheckoutKeys -> Order \cup {Missing}]
  BY DEF ConservationInv, TypeOK
<1>2. orders[k] \in Order
  BY <1>1, OrderRow
<1>3. item.event \in Events /\ item.quantity \in Int
  BY <1>2, SeatsAssumption DEF Order, Items
<1>4. available' = [available EXCEPT ![item.event] = @ + item.quantity]
  BY <1>1, <1>3, AdjustType
<1>5. orders'[k].status = final
  BY <1>1, <1>2 DEF Order
<1>6. RowsOfEvents'
  BY <1>2, OrderKeepsRows
<1>7. ASSUME NEW e \in events
      PROVE  available'[e] + OrderedSeats(e, Occupying)'[k]
               = available[e] + OrderedSeats(e, Occupying)[k]
  <2>1. e \in Events
    BY <1>1 DEF TypeOK
  <2>2. OrderedSeats(e, Occupying)[k] = IF item.event = e THEN item.quantity ELSE 0
    BY DEF OrderedSeats, Occupying
  <2>3. OrderedSeats(e, Occupying)'[k] = 0
    BY <1>5 DEF OrderedSeats, Occupying
  <2>4. available'[e] = IF item.event = e THEN available[e] + item.quantity
                                          ELSE available[e]
    BY <1>1, <1>3, <1>4, <2>1
  <2> QED  BY <1>1, <1>3, <2>1, <2>2, <2>3, <2>4
<1>8. SeatsConserved'
  BY <1>1, <1>7, OrderMoves
<1> QED  BY <1>6, <1>8

LEMMA CheckoutDirectConserves ==
  ASSUME ConservationInv, TypeOK', NEW k \in CheckoutKeys, NEW item \in Items,
         NEW now \in TransactionTimes, CheckoutDirect(k, item, now)
  PROVE  RowsOfEvents' /\ SeatsConserved'
<1> DEFINE order == [status |-> "pending", item |-> item,
                     reservation |-> NoReservation,
                     deadline |-> now + PaymentWindow]
<1>1. /\ events' = events /\ reservations' = reservations
      /\ item.event \in events
      /\ orders[k] = Missing
      /\ orders' = [orders EXCEPT ![k] = order]
  BY DEF CheckoutDirect, CreateOrder, SaleEligible, catalog
<1>2. TypeOK /\ available \in [Events -> Nat]
      /\ orders \in [CheckoutKeys -> Order \cup {Missing}]
  BY DEF ConservationInv, TypeOK
<1>3. /\ item.event \in Events
      /\ item.quantity \in Int /\ -item.quantity \in Int
  BY SeatsAssumption DEF Items
<1>4. available' = [available EXCEPT ![item.event] = @ + (-item.quantity)]
  BY <1>2, <1>3, AdjustType DEF CheckoutDirect
<1>5. RowsOfEvents'
  BY <1>1, <1>2 DEF ConservationInv, RowsOfEvents
<1>6. ASSUME NEW e \in events
      PROVE  available'[e] + OrderedSeats(e, Occupying)'[k]
               = available[e] + OrderedSeats(e, Occupying)[k]
  <2>1. e \in Events
    BY <1>2 DEF TypeOK
  <2>2. OrderedSeats(e, Occupying)[k] = 0
    BY <1>1 DEF OrderedSeats, Missing, Occupying
  <2>3. OrderedSeats(e, Occupying)'[k] = IF item.event = e THEN item.quantity ELSE 0
    BY <1>1, <1>2 DEF OrderedSeats, Occupying
  <2>4. available'[e] = IF item.event = e THEN available[e] - item.quantity
                                          ELSE available[e]
    BY <1>2, <1>3, <1>4, <2>1
  <2> QED  BY <1>2, <1>3, <2>1, <2>2, <2>3, <2>4
<1>7. SeatsConserved'
  BY <1>1, <1>2, <1>6, OrderMoves
<1> QED  BY <1>5, <1>7

\* A conversion moves the seats of the reservation to the order.
LEMMA CheckoutReservationConserves ==
  ASSUME ConservationInv, TypeOK', NEW k \in CheckoutKeys, NEW r \in ReservationIds,
         NEW item \in Items, NEW now \in TransactionTimes,
         CheckoutReservation(k, r, item, now)
  PROVE  RowsOfEvents' /\ SeatsConserved'
<1> DEFINE order == [status |-> "pending", item |-> item, reservation |-> r,
                     deadline |-> now + PaymentWindow]
<1>1. /\ events' = events /\ available' = available
      /\ item.event \in events
      /\ orders[k] = Missing
      /\ orders' = [orders EXCEPT ![k] = order]
      /\ reservations[r].status = "active" /\ reservations[r].item = item
      /\ reservations' = [reservations EXCEPT ![r].status = "converted"]
  BY DEF CheckoutReservation, CreateOrder, SaleEligible, catalog
<1>2. TypeOK /\ orders \in [CheckoutKeys -> Order \cup {Missing}]
      /\ reservations \in [ReservationIds -> Reservation \cup {Missing}]
  BY DEF ConservationInv, TypeOK
<1>3. item.event \in Events /\ item.quantity \in Int
  BY SeatsAssumption DEF Items
<1>4. reservations[r] \in Reservation
  BY <1>1, <1>2, ReservationRow
<1>5. reservations'[r].status = "converted" /\ reservations'[r].item = item
  BY <1>1, <1>2, <1>4 DEF Reservation
<1>6. orders'[k] = order
  BY <1>1, <1>2
<1>7. RowsOfEvents'
  BY <1>1, <1>2, <1>5, <1>6 DEF ConservationInv, RowsOfEvents
<1>8. ASSUME NEW e \in events
      PROVE  ReservedSeats(e)'[r] + OrderedSeats(e, Occupying)'[k]
               = ReservedSeats(e)[r] + OrderedSeats(e, Occupying)[k]
  <2>1. OrderedSeats(e, Occupying)[k] = 0 /\ ReservedSeats(e)'[r] = 0
    BY <1>1, <1>5 DEF OrderedSeats, ReservedSeats, Missing, Occupying
  <2>2. ReservedSeats(e)[r] = IF item.event = e THEN item.quantity ELSE 0
    BY <1>1 DEF ReservedSeats
  <2>3. OrderedSeats(e, Occupying)'[k] = IF item.event = e THEN item.quantity ELSE 0
    BY <1>6 DEF OrderedSeats, Occupying
  <2> QED  BY <1>3, <2>1, <2>2, <2>3
<1>9. SeatsConserved'
  BY <1>1, <1>2, <1>8, ConversionMoves
<1> QED  BY <1>7, <1>9

\* A webhook frees the seats of the order it cancels and moves no other seat:
\* a paid order occupies what it occupied while it was pending.
LEMMA WebhookConserves ==
  ASSUME ConservationInv, TypeOK', NEW c \in CallbackKeys, NEW k \in CheckoutKeys,
         NEW t \in ProviderTxs, NEW status \in {"settled", "failed"},
         ProcessPaymentWebhook(c, k, t, status)
  PROVE  RowsOfEvents' /\ SeatsConserved'
<1>1. /\ TypeOK /\ available \in [Events -> Nat]
      /\ orders \in [CheckoutKeys -> Order \cup {Missing}]
  BY DEF ConservationInv, TypeOK
<1>2. orders[k] \in Order
  BY <1>1, OrderRow DEF ProcessPaymentWebhook
<1>3. events' = events /\ reservations' = reservations
  BY DEF ProcessPaymentWebhook, catalog
<1>4. CASE UNCHANGED <<available, orders>>
  <2>1. RowsOfEvents'
    BY <1>3, <1>4 DEF ConservationInv, RowsOfEvents
  <2>2. ASSUME NEW e \in events
        PROVE  available'[e] + OrderedSeats(e, Occupying)'[k]
                 = available[e] + OrderedSeats(e, Occupying)[k]
    BY <1>4 DEF OrderedSeats
  <2>3. SeatsConserved'
    BY <1>3, <1>4, <2>2, OrderMoves
  <2> QED  BY <2>1, <2>3
<1>5. CASE /\ orders[k].status = "pending"
           /\ orders' = [orders EXCEPT ![k].status = "paid"]
           /\ UNCHANGED available
  <2>1. RowsOfEvents'
    BY <1>2, <1>3, <1>5, OrderKeepsRows
  <2>2. orders'[k].status = "paid" /\ orders'[k].item = orders[k].item
    BY <1>1, <1>2, <1>5 DEF Order
  <2>3. ASSUME NEW e \in events
        PROVE  available'[e] + OrderedSeats(e, Occupying)'[k]
                 = available[e] + OrderedSeats(e, Occupying)[k]
    BY <1>5, <2>2 DEF OrderedSeats, Occupying
  <2>4. SeatsConserved'
    BY <1>1, <1>3, <1>5, <2>3, OrderMoves
  <2> QED  BY <2>1, <2>4
<1>6. CASE /\ orders[k].status = "pending"
           /\ AdjustAvailableSeats(orders[k].item.event, orders[k].item.quantity)
           /\ orders' = [orders EXCEPT ![k].status = "cancelled"]
  BY <1>3, <1>6, OrderGivesBack
<1> QED  BY <1>4, <1>5, <1>6
         DEF ProcessPaymentWebhook, CallbackForExpired, HandleSettle, HandleFail,
             MarkOrderAsPaid, CancelOrder

LEMMA ConservationStep == ConservationInv /\ [Next]_vars => ConservationInv'
<1> SUFFICES ASSUME ConservationInv, [Next]_vars
             PROVE  ConservationInv'
  OBVIOUS
<1> USE DEF ConservationInv
<1>0. TypeOK'
  BY TypeStep
<1>1. CASE UNCHANGED <<events, available, reservations, orders>>
  <2>1. RowsOfEvents'
    BY <1>1 DEF RowsOfEvents
  <2>2. SeatsConserved'
    BY <1>1 DEF SeatsConserved, ReservedSeats, OrderedSeats
  <2> QED  BY <1>0, <2>1, <2>2
<1>2. ASSUME NEW e \in Events, CreateEvent(e)
      PROVE  ConservationInv'
  BY <1>0, <1>2, CreateEventConserves
<1>3. ASSUME NEW r \in ReservationIds, NEW item \in Items,
             NEW now \in TransactionTimes, CreateReservation(r, item, now)
      PROVE  ConservationInv'
  BY <1>0, <1>3, CreateReservationConserves
<1>4. ASSUME NEW r \in ReservationIds, ReleaseReservation(r)
      PROVE  ConservationInv'
  BY <1>0, <1>4, FinalizeConserves DEF ReleaseReservation, catalog
<1>5. ASSUME NEW r \in ReservationIds, ExpireReservation(r)
      PROVE  ConservationInv'
  BY <1>0, <1>5, FinalizeConserves DEF ExpireReservation, catalog
<1>6. ASSUME NEW k \in CheckoutKeys, NEW item \in Items,
             NEW now \in TransactionTimes, CheckoutDirect(k, item, now)
      PROVE  ConservationInv'
  BY <1>0, <1>6, CheckoutDirectConserves
<1>7. ASSUME NEW k \in CheckoutKeys, NEW item \in Items, NEW r \in ReservationIds,
             NEW now \in TransactionTimes, CheckoutReservation(k, r, item, now)
      PROVE  ConservationInv'
  BY <1>0, <1>7, CheckoutReservationConserves
<1>8. ASSUME NEW k \in CheckoutKeys, NEW item \in Items, NEW r \in ReservationIds,
             NEW now \in TransactionTimes,
             CheckoutExpiredReservation(k, r, item, now)
      PROVE  ConservationInv'
  BY <1>0, <1>8, FinalizeConserves DEF CheckoutExpiredReservation, catalog
<1>9. ASSUME NEW k \in CheckoutKeys, NEW now \in TransactionTimes,
             ExpirePendingOrder(k, now)
      PROVE  ConservationInv'
  <2>1. RowsOfEvents' /\ SeatsConserved'
    BY <1>0, <1>9, OrderGivesBack DEF ExpirePendingOrder, catalog
  <2> QED  BY <1>0, <2>1
<1>10. ASSUME NEW c \in CallbackKeys, NEW k \in CheckoutKeys, NEW t \in ProviderTxs,
              NEW status \in {"settled", "failed"},
              ProcessPaymentWebhook(c, k, t, status)
       PROVE  ConservationInv'
  BY <1>0, <1>10, WebhookConserves
<1>11. CASE Tick
  BY <1>1, <1>11 DEF Tick
<1>12. CASE UNCHANGED vars
  BY <1>1, <1>12 DEF vars
<1> QED  BY <1>2, <1>3, <1>4, <1>5, <1>6, <1>7, <1>8, <1>9, <1>10, <1>11, <1>12
         DEF Next, SaleStep, PaymentStep, Checkout

\* Every seat of an event is always in exactly one place: whatever sweepers,
\* checkouts and webhooks do in whatever order, no seat is sold twice, returned
\* twice or lost.
THEOREM Conservation == Spec => []SeatsConserved
<1>1. ConservationInv => SeatsConserved
  BY DEF ConservationInv
<1> QED  BY <1>1, ConservationInit, ConservationStep, PTL DEF Spec

=============================================================================
