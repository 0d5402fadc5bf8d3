------------------------- MODULE PurchaseRecordProofs -------------------------
(***************************************************************************)
(* What the rows of Purchase say about each other, for every set of rows   *)
(* and every number of them: outcomes are final, a conversion belongs to   *)
(* one order, and the payment records, the tickets and the callback keys   *)
(* agree with the order they are about.                                    *)
(***************************************************************************)
EXTENDS PurchaseProofs

----------------------------------------------------------------------------
(* The steps of a sale, as the tables see them.                            *)

ReservationOpens(r) ==
    /\ reservations[r] = Missing
    /\ \E row \in Reservation :
           /\ row.status = "active"
           /\ reservations' = [reservations EXCEPT ![r] = row]
    /\ UNCHANGED orders

ReservationEnds(r) ==
    /\ reservations[r].status = "active"
    /\ \E final \in {"released", "expired"} :
           reservations' = [reservations EXCEPT ![r].status = final]
    /\ UNCHANGED orders

OrderOpens(k) ==
    /\ orders[k] = Missing
    /\ \E row \in Order :
           /\ row.status = "pending" /\ row.reservation = NoReservation
           /\ orders' = [orders EXCEPT ![k] = row]
    /\ UNCHANGED reservations

Converts(k, r) ==
    /\ orders[k] = Missing
    /\ reservations[r].status = "active"
    /\ reservations' = [reservations EXCEPT ![r].status = "converted"]
    /\ \E row \in Order :
           /\ row.status = "pending" /\ row.reservation = r
           /\ row.item = reservations[r].item
           /\ orders' = [orders EXCEPT ![k] = row]

OrderExpires(k) ==
    /\ orders[k].status = "pending"
    /\ orders' = [orders EXCEPT ![k].status = "expired"]
    /\ UNCHANGED reservations

RowStep ==
    \/ UNCHANGED <<reservations, orders>>
    \/ \E r \in ReservationIds : ReservationOpens(r) \/ ReservationEnds(r)
    \/ \E k \in CheckoutKeys : OrderOpens(k) \/ OrderExpires(k)
    \/ \E k \in CheckoutKeys, r \in ReservationIds : Converts(k, r)

\* Whatever is sold, at most one reservation and one order change, each as one
\* of the five steps above, and no payment does.
LEMMA SaleStepRows ==
  ASSUME TypeOK, SaleStep
  PROVE  RowStep /\ UNCHANGED paymentTables
<1>1. CASE Tick
  BY <1>1 DEF Tick, RowStep, paymentTables
<1>2. ASSUME NEW e \in Events, CreateEvent(e)
      PROVE  RowStep /\ UNCHANGED paymentTables
  BY <1>2 DEF CreateEvent, RowStep, paymentTables
<1>3. ASSUME NEW r \in ReservationIds, NEW item \in Items,
             NEW now \in TransactionTimes, CreateReservation(r, item, now)
      PROVE  RowStep /\ UNCHANGED paymentTables
  <2>1. [status |-> "active", item |-> item, expiresAt |-> clock + HoldTtl]
           \in Reservation
    BY SeatsAssumption DEF TypeOK, Reservation
  <2>2. ReservationOpens(r)
    BY <1>3, <2>1 DEF CreateReservation, ReservationOpens
  <2> QED  BY <1>3, <2>2 DEF CreateReservation, RowStep
<1>4. ASSUME NEW r \in ReservationIds, ReleaseReservation(r)
      PROVE  RowStep /\ UNCHANGED paymentTables
  <2>1. ReservationEnds(r)
    BY <1>4 DEF ReleaseReservation, ReturnSeatsAndFinalize, ReservationEnds
  <2> QED  BY <1>4, <2>1 DEF ReleaseReservation, RowStep
<1>5. ASSUME NEW r \in ReservationIds, ExpireReservation(r)
      PROVE  RowStep /\ UNCHANGED paymentTables
  <2>1. ReservationEnds(r)
    BY <1>5 DEF ExpireReservation, ReturnSeatsAndFinalize, ReservationEnds
  <2> QED  BY <1>5, <2>1 DEF ExpireReservation, RowStep
<1>6. ASSUME NEW k \in CheckoutKeys, NEW item \in Items,
             NEW now \in TransactionTimes, CheckoutDirect(k, item, now)
      PROVE  RowStep /\ UNCHANGED paymentTables
  <2>1. now + PaymentWindow \in Nat
    BY SeatsAssumption DEF TransactionTimes
  <2>2. [status |-> "pending", item |-> item, reservation |-> NoReservation,
         deadline |-> now + PaymentWindow] \in Order
    BY <2>1 DEF Order
  <2>3. OrderOpens(k)
    BY <1>6, <2>2 DEF CheckoutDirect, CreateOrder, OrderOpens
  <2> QED  BY <1>6, <2>3 DEF CheckoutDirect, RowStep
<1>7. ASSUME NEW k \in CheckoutKeys, NEW item \in Items, NEW r \in ReservationIds,
             NEW now \in TransactionTimes, CheckoutReservation(k, r, item, now)
      PROVE  RowStep /\ UNCHANGED paymentTables
  <2>1. now + PaymentWindow \in Nat
    BY SeatsAssumption DEF TransactionTimes
  <2>2. [status |-> "pending", item |-> item, reservation |-> r,
         deadline |-> now + PaymentWindow] \in Order
    BY <2>1 DEF Order
  <2>3. Converts(k, r)
    BY <1>7, <2>2 DEF CheckoutReservation, CreateOrder, Converts
  <2> QED  BY <1>7, <2>3 DEF CheckoutReservation, RowStep
<1>8. ASSUME NEW k \in CheckoutKeys, NEW item \in Items, NEW r \in ReservationIds,
             NEW now \in TransactionTimes,
             CheckoutExpiredReservation(k, r, item, now)
      PROVE  RowStep /\ UNCHANGED paymentTables
  <2>1. ReservationEnds(r)
    BY <1>8 DEF CheckoutExpiredReservation, ReturnSeatsAndFinalize, ReservationEnds
  <2> QED  BY <1>8, <2>1 DEF CheckoutExpiredReservation, RowStep
<1>9. ASSUME NEW k \in CheckoutKeys, NEW now \in TransactionTimes,
             ExpirePendingOrder(k, now)
      PROVE  RowStep /\ UNCHANGED paymentTables
  <2>1. OrderExpires(k)
    BY <1>9 DEF ExpirePendingOrder, OrderExpires
  <2> QED  BY <1>9, <2>1 DEF ExpirePendingOrder, RowStep
<1> QED  BY <1>1, <1>2, <1>3, <1>4, <1>5, <1>6, <1>7, <1>8, <1>9
         DEF SaleStep, Checkout

\* A webhook leaves the reservations alone and moves at most the order it is
\* about, from pending to paid or cancelled.
LEMMA WebhookRows ==
  ASSUME NEW c \in CallbackKeys, NEW k \in CheckoutKeys,
         NEW t \in ProviderTxs, NEW status \in {"settled", "failed"},
         ProcessPaymentWebhook(c, k, t, status)
  PROVE  /\ reservations' = reservations
         /\ \/ orders' = orders
            \/ /\ orders[k].status = "pending"
               /\ \E final \in {"paid", "cancelled"} :
                      orders' = [orders EXCEPT ![k].status = final]
BY DEF ProcessPaymentWebhook, CallbackForExpired, HandleSettle, HandleFail,
       MarkOrderAsPaid, CancelOrder

----------------------------------------------------------------------------
(* Outcomes are final.                                                     *)

\* One reservation or order that changes keeps what was bought, and changes
\* only while it is active or pending.
LEMMA RowStepKeeps == TypeOK /\ RowStep => OutcomesKept
<1> SUFFICES ASSUME TypeOK, RowStep
             PROVE  OutcomesKept
  OBVIOUS
<1> USE DEF OutcomesKept
<1>0. /\ reservations \in [ReservationIds -> Reservation \cup {Missing}]
      /\ orders \in [CheckoutKeys -> Order \cup {Missing}]
  BY DEF TypeOK
<1>1. CASE UNCHANGED <<reservations, orders>>
  BY <1>1
<1>2. ASSUME NEW r \in ReservationIds, ReservationOpens(r)
      PROVE  OutcomesKept
  BY <1>0, <1>2 DEF ReservationOpens
<1>3. ASSUME NEW r \in ReservationIds, ReservationEnds(r)
      PROVE  OutcomesKept
  <2>1. reservations[r] \in Reservation
    BY <1>3, ReservationRow DEF ReservationEnds
  <2>2. reservations'[r].item = reservations[r].item
    BY <1>0, <1>3, <2>1 DEF ReservationEnds, Reservation
  <2> QED  BY <1>0, <1>3, <2>2 DEF ReservationEnds
<1>4. ASSUME NEW k \in CheckoutKeys, OrderOpens(k)
      PROVE  OutcomesKept
  BY <1>0, <1>4 DEF OrderOpens
<1>5. ASSUME NEW k \in CheckoutKeys, OrderExpires(k)
      PROVE  OutcomesKept
  <2>1. orders[k] \in Order
    BY <1>5, OrderRow DEF OrderExpires
  <2>2. /\ orders'[k].item = orders[k].item
        /\ orders'[k].reservation = orders[k].reservation
    BY <1>0, <1>5, <2>1 DEF OrderExpires, Order
  <2> QED  BY <1>0, <1>5, <2>2 DEF OrderExpires
<1>6. ASSUME NEW k \in CheckoutKeys, NEW r \in ReservationIds, Converts(k, r)
      PROVE  OutcomesKept
  <2>1. reservations[r] \in Reservation
    BY <1>6, ReservationRow DEF Converts
  <2>2. reservations'[r].item = reservations[r].item
    BY <1>0, <1>6, <2>1 DEF Converts, Reservation
  <2> QED  BY <1>0, <1>6, <2>2 DEF Converts
<1> QED  BY <1>1, <1>2, <1>3, <1>4, <1>5, <1>6 DEF RowStep

LEMMA OutcomesStep == TypeOK /\ [Next]_vars => [OutcomesKept]_vars
<1> SUFFICES ASSUME TypeOK, Next
             PROVE  OutcomesKept
  OBVIOUS
<1>1. CASE SaleStep
  BY <1>1, SaleStepRows, RowStepKeeps
<1>2. ASSUME NEW c \in CallbackKeys, NEW k \in CheckoutKeys, NEW t \in ProviderTxs,
             NEW status \in {"settled", "failed"},
             ProcessPaymentWebhook(c, k, t, status)
      PROVE  OutcomesKept
  <2>1. orders \in [CheckoutKeys -> Order \cup {Missing}] /\ orders[k] \in Order
    BY <1>2, OrderRow DEF ProcessPaymentWebhook, TypeOK
  <2> QED  BY <1>2, <2>1, WebhookRows DEF OutcomesKept, Order
<1> QED  BY <1>1, <1>2 DEF Next, PaymentStep

\* However sweepers, checkouts and webhooks race, a reservation and an order
\* take one final status and keep it, and what was bought never changes.
THEOREM OutcomesFinal == Spec => FinalOutcomes
BY TypeCorrect, OutcomesStep, PTL DEF Spec, FinalOutcomes

----------------------------------------------------------------------------
(* A conversion belongs to exactly one order.                              *)

ConversionInv == TypeOK /\ ConversionMatchesOrder

\* The orders that were made from reservation r.
OrdersOf(r) == {k \in CheckoutKeys : orders[k] # Missing /\ orders[k].reservation = r}

\* A reservation that is not converted has no order.
LEMMA NoOrderYet ==
  ASSUME ConversionInv, NEW r \in ReservationIds, reservations[r].status # "converted"
  PROVE  OrdersOf(r) = {}
BY TablesAssumption DEF ConversionInv, ConversionMatchesOrder, OrdersOf

LEMMA ConversionRowStep == ConversionInv /\ RowStep => ConversionMatchesOrder'
<1> SUFFICES ASSUME ConversionInv, RowStep
             PROVE  ConversionMatchesOrder'
  OBVIOUS
<1>0. /\ TypeOK
      /\ reservations \in [ReservationIds -> Reservation \cup {Missing}]
      /\ orders \in [CheckoutKeys -> Order \cup {Missing}]
      /\ Missing.status = "missing"
  BY DEF ConversionInv, TypeOK, Missing
<1>a. /\ \A k \in CheckoutKeys :
             (orders[k] # Missing /\ orders[k].reservation # NoReservation) =>
                 /\ orders[k].reservation \in ReservationIds
                 /\ reservations[orders[k].reservation].status = "converted"
                 /\ reservations[orders[k].reservation].item = orders[k].item
      /\ \A r \in ReservationIds : reservations[r].status = "converted" =>
             Cardinality(OrdersOf(r)) = 1
  BY <1>0 DEF ConversionInv, ConversionMatchesOrder, OrdersOf, Order
<1>1. CASE UNCHANGED <<reservations, orders>>
  BY <1>1, <1>a DEF ConversionMatchesOrder, OrdersOf
<1>2. ASSUME NEW r \in ReservationIds, ReservationOpens(r)
      PROVE  ConversionMatchesOrder'
  <2>1. /\ orders' = orders /\ reservations'[r].status = "active"
        /\ \A x \in ReservationIds \ {r} : reservations'[x] = reservations[x]
    BY <1>0, <1>2 DEF ReservationOpens
  <2>2. reservations[r].status # "converted"
    BY <1>0, <1>2 DEF ReservationOpens
  <2> QED  BY <1>a, <2>1, <2>2 DEF ConversionMatchesOrder, OrdersOf
<1>3. ASSUME NEW r \in ReservationIds, ReservationEnds(r)
      PROVE  ConversionMatchesOrder'
  <2>1. reservations[r] \in Reservation
    BY <1>0, <1>3, ReservationRow DEF ReservationEnds
  <2>2. /\ orders' = orders /\ reservations'[r].status # "converted"
        /\ \A x \in ReservationIds \ {r} : reservations'[x] = reservations[x]
    BY <1>0, <1>3, <2>1 DEF ReservationEnds, Reservation
  <2>3. reservations[r].status # "converted"
    BY <1>3 DEF ReservationEnds
  <2> QED  BY <1>a, <2>2, <2>3 DEF ConversionMatchesOrder, OrdersOf
<1>4. ASSUME NEW k \in CheckoutKeys, OrderOpens(k)
      PROVE  ConversionMatchesOrder'
  <2>1. /\ reservations' = reservations /\ orders[k] = Missing
        /\ orders'[k].reservation = NoReservation
        /\ \A x \in CheckoutKeys \ {k} : orders'[x] = orders[x]
    BY <1>0, <1>4 DEF OrderOpens
  <2>2. \A r \in ReservationIds : OrdersOf(r)' = OrdersOf(r)
    BY <2>1, TablesAssumption DEF OrdersOf
  <2> QED  BY <1>a, <2>1, <2>2 DEF ConversionMatchesOrder, OrdersOf
<1>5. ASSUME NEW k \in CheckoutKeys, OrderExpires(k)
      PROVE  ConversionMatchesOrder'
  <2>1. orders[k] \in Order
    BY <1>0, <1>5, OrderRow DEF OrderExpires
  <2>2. /\ reservations' = reservations
        /\ orders[k] # Missing /\ orders'[k] # Missing
        /\ orders'[k].reservation = orders[k].reservation
        /\ orders'[k].item = orders[k].item
        /\ \A x \in CheckoutKeys \ {k} : orders'[x] = orders[x]
    BY <1>0, <1>5, <2>1 DEF OrderExpires, Order
  <2>3. \A r \in ReservationIds : OrdersOf(r)' = OrdersOf(r)
    BY <2>2 DEF OrdersOf
  <2> QED  BY <1>a, <2>2, <2>3 DEF ConversionMatchesOrder, OrdersOf
<1>6. ASSUME NEW k \in CheckoutKeys, NEW r \in ReservationIds, Converts(k, r)
      PROVE  ConversionMatchesOrder'
  <2>1. reservations[r] \in Reservation
    BY <1>0, <1>6, ReservationRow DEF Converts
  <2>2. /\ reservations'[r].status = "converted"
        /\ reservations'[r].item = reservations[r].item
        /\ \A x \in ReservationIds \ {r} : reservations'[x] = reservations[x]
    BY <1>0, <1>6, <2>1 DEF Converts, Reservation
  <2>3. /\ orders[k] = Missing /\ orders'[k] # Missing
        /\ orders'[k].reservation = r /\ orders'[k].item = reservations[r].item
        /\ \A x \in CheckoutKeys \ {k} : orders'[x] = orders[x]
    BY <1>0, <1>6 DEF Converts, Order
  <2>4. OrdersOf(r) = {}
    BY <1>6, NoOrderYet DEF Converts
  <2>5. OrdersOf(r)' = {k}
    BY <2>3, <2>4 DEF OrdersOf
  <2>6. Cardinality(OrdersOf(r)') = 1
    BY <2>5, FS_Singleton
  <2>7. \A x \in ReservationIds \ {r} : OrdersOf(x)' = OrdersOf(x)
    BY <2>3 DEF OrdersOf
  <2>8. \A x \in CheckoutKeys \ {k} : orders[x] # Missing => orders[x].reservation # r
    BY <2>4 DEF OrdersOf
  <2>9. ASSUME NEW x \in CheckoutKeys,
               orders'[x] # Missing, orders'[x].reservation # NoReservation
        PROVE  /\ reservations'[orders'[x].reservation].status = "converted"
               /\ reservations'[orders'[x].reservation].item = orders'[x].item
    <3>1. CASE x = k
      BY <2>2, <2>3, <3>1
    <3>2. CASE x # k
      BY <1>a, <2>2, <2>3, <2>8, <2>9, <3>2
    <3> QED  BY <3>1, <3>2
  <2>10. ASSUME NEW x \in ReservationIds, reservations'[x].status = "converted"
         PROVE  Cardinality(OrdersOf(x)') = 1
    BY <1>a, <2>2, <2>6, <2>7, <2>10
  <2> QED  BY <2>9, <2>10 DEF ConversionMatchesOrder, OrdersOf
<1> QED  BY <1>1, <1>2, <1>3, <1>4, <1>5, <1>6 DEF RowStep

LEMMA ConversionStep == ConversionInv /\ [Next]_vars => ConversionInv'
<1> SUFFICES ASSUME ConversionInv, [Next]_vars
             PROVE  ConversionInv'
  OBVIOUS
<1>0. TypeOK /\ TypeOK'
  BY TypeStep DEF ConversionInv
<1>1. CASE SaleStep
  BY <1>0, <1>1, SaleStepRows, ConversionRowStep DEF ConversionInv
<1>2. ASSUME NEW c \in CallbackKeys, NEW k \in CheckoutKeys, NEW t \in ProviderTxs,
             NEW status \in {"settled", "failed"},
             ProcessPaymentWebhook(c, k, t, status)
      PROVE  ConversionInv'
  <2>1. orders \in [CheckoutKeys -> Order \cup {Missing}] /\ orders[k] \in Order
    BY <1>0, <1>2, OrderRow DEF ProcessPaymentWebhook, TypeOK
  <2>2. /\ reservations' = reservations
        /\ orders'[k].item = orders[k].item
        /\ orders'[k].reservation = orders[k].reservation
        /\ orders[k] # Missing /\ orders'[k] # Missing
        /\ \A x \in CheckoutKeys \ {k} : orders'[x] = orders[x]
    BY <1>2, <2>1, WebhookRows DEF Order, Missing
  <2>3. \A r \in ReservationIds : OrdersOf(r)' = OrdersOf(r)
    BY <2>2 DEF OrdersOf
  <2>4. ASSUME NEW x \in CheckoutKeys
        PROVE  /\ (orders'[x] # Missing) = (orders[x] # Missing)
               /\ orders[x] # Missing => /\ orders'[x].item = orders[x].item
                                         /\ orders'[x].reservation = orders[x].reservation
    BY <2>2
  <2>5. ConversionMatchesOrder'
    BY <2>2, <2>3, <2>4 DEF ConversionInv, ConversionMatchesOrder, OrdersOf
  <2> QED  BY <1>0, <2>5 DEF ConversionInv
<1>3. CASE UNCHANGED vars
  BY <1>0, <1>3 DEF ConversionInv, ConversionMatchesOrder, vars
<1> QED  BY <1>1, <1>2, <1>3 DEF Next, PaymentStep

\* A reservation is converted exactly when one order was made from it, for what
\* was reserved, although no column of the schema says so.
THEOREM ConversionCorrect == Spec => []ConversionMatchesOrder
<1>1. Init => ConversionInv
  BY TypeInit DEF Init, ConversionInv, ConversionMatchesOrder, Missing
<1>2. ConversionInv => ConversionMatchesOrder
  BY DEF ConversionInv
<1> QED  BY <1>1, <1>2, ConversionStep, PTL DEF Spec

----------------------------------------------------------------------------
(* Payments.                                                               *)

\* A payment record is of an order that exists.
RecordsOfOrders ==
    \A t \in ProviderTxs : payments[t] # Missing => orders[payments[t].order] # Missing

PaymentInv ==
    /\ TypeOK
    /\ RecordsOfOrders
    /\ PaymentRecordsMatchOrder
    /\ TicketsMatchPayment
    /\ AcceptedCallbacksHonoured

\* The terminal payment records of order k, and what they say of it.
RecordsOf(k) == {t \in ProviderTxs : payments[t] # Missing /\ payments[t].order = k}

RecordsAgree(k) ==
    /\ orders[k].status = "pending" => RecordsOf(k) = {}
    /\ orders[k].status = "paid" =>
           /\ Cardinality(RecordsOf(k)) = 1
           /\ \A t \in RecordsOf(k) : payments[t].status = "settled"
                                      /\ ~payments[t].reconciliation
    /\ orders[k].status = "cancelled" =>
           /\ RecordsOf(k) # {}
           /\ \A t \in RecordsOf(k) : payments[t].status = "failed"
    /\ orders[k].status = "expired" =>
           \A t \in RecordsOf(k) : payments[t].reconciliation
                                   <=> payments[t].status = "settled"

AllRecordsAgree == \A k \in CheckoutKeys : orders[k] # Missing => RecordsAgree(k)

\* The property by the status of the order.
LEMMA RecordsByStatus == TypeOK => (PaymentRecordsMatchOrder <=> AllRecordsAgree)
<1> SUFFICES ASSUME TypeOK, NEW k \in CheckoutKeys, orders[k] # Missing
             PROVE  RecordsAgree(k) <=>
                      CASE orders[k].status = "pending" -> RecordsOf(k) = {}
                        [] orders[k].status = "paid" ->
                               /\ Cardinality(RecordsOf(k)) = 1
                               /\ \A t \in RecordsOf(k) : payments[t].status = "settled"
                                                          /\ ~payments[t].reconciliation
                        [] orders[k].status = "cancelled" ->
                               /\ RecordsOf(k) # {}
                               /\ \A t \in RecordsOf(k) : payments[t].status = "failed"
                        [] orders[k].status = "expired" ->
                               \A t \in RecordsOf(k) : payments[t].reconciliation
                                                       <=> payments[t].status = "settled"
  BY Zenon DEF PaymentRecordsMatchOrder, AllRecordsAgree, RecordsOf
<1>1. orders[k].status \in {"pending", "paid", "cancelled", "expired"}
  BY OrderRow DEF Order
<1> QED  BY <1>1 DEF RecordsAgree

\* A step that opens or expires an order and touches no payment: the order has
\* no payment record, no ticket and no accepted callback before and after.
LEMMA OrderStepPayments ==
  ASSUME PaymentInv, TypeOK', UNCHANGED paymentTables, NEW k \in CheckoutKeys,
         \A x \in CheckoutKeys \ {k} : orders'[x] = orders[x],
         \/ orders[k] = Missing /\ orders'[k].status = "pending"
         \/ orders[k].status = "pending" /\ orders'[k].status = "expired"
  PROVE  PaymentInv'
<1>0. /\ TypeOK /\ tickets' = tickets /\ payments' = payments
      /\ callbackKeys' = callbackKeys
      /\ Missing.status = "missing"
  BY DEF PaymentInv, paymentTables, Missing
<1>1. RecordsOf(k) = {}
  <2>1. CASE orders[k] = Missing
    BY <2>1 DEF PaymentInv, RecordsOfOrders, RecordsOf
  <2>2. CASE orders[k].status = "pending"
    BY <1>0, <2>2, RecordsByStatus DEF PaymentInv, AllRecordsAgree, RecordsAgree
  <2> QED  BY <2>1, <2>2
<1>2. RecordsOfOrders'
  <2> SUFFICES ASSUME NEW t \in ProviderTxs, payments[t] # Missing
               PROVE  orders'[payments[t].order] # Missing
    BY <1>0 DEF RecordsOfOrders
  <2>1. payments[t].order \in CheckoutKeys
    BY <1>0 DEF TypeOK, PaymentRecord
  <2> QED  BY <1>0, <2>1 DEF PaymentInv, RecordsOfOrders
<1>3. PaymentRecordsMatchOrder'
  <2>1. \A x \in CheckoutKeys : RecordsOf(x)' = RecordsOf(x)
    BY <1>0 DEF RecordsOf
  <2>2. RecordsAgree(k)'
    BY <1>0, <1>1, <2>1 DEF RecordsAgree
  <2>3. ASSUME NEW x \in CheckoutKeys \ {k}, orders'[x] # Missing
        PROVE  RecordsAgree(x)'
    BY <1>0, <2>1, <2>3, RecordsByStatus DEF PaymentInv, AllRecordsAgree, RecordsAgree
  <2>4. AllRecordsAgree'
    BY <2>2, <2>3 DEF AllRecordsAgree
  <2> QED  BY <2>4, RecordsByStatus, PTL
<1>4. TicketsMatchPayment'
  BY <1>0 DEF PaymentInv, TicketsMatchPayment
<1>5. AcceptedCallbacksHonoured'
  <2> SUFFICES ASSUME NEW c \in CallbackKeys, callbackKeys[c] # Missing
               PROVE  orders'[callbackKeys[c].order] = orders[callbackKeys[c].order]
    BY <1>0 DEF PaymentInv, AcceptedCallbacksHonoured
  <2>1. callbackKeys[c] \in CallbackBinding
    BY <1>0 DEF TypeOK
  <2>2. orders[callbackKeys[c].order].status \in {"paid", "cancelled", "expired"}
    BY DEF PaymentInv, AcceptedCallbacksHonoured
  <2> QED  BY <1>0, <2>1, <2>2 DEF CallbackBinding
<1> QED  BY <1>2, <1>3, <1>4, <1>5 DEF PaymentInv

\* Records and orders that do not change go on agreeing.
LEMMA RecordsUnchanged ==
  ASSUME PaymentInv, TypeOK', UNCHANGED <<orders, payments>>
  PROVE  PaymentRecordsMatchOrder'
<1>1. \A k \in CheckoutKeys : RecordsOf(k)' = RecordsOf(k)
  BY DEF RecordsOf
<1>2. AllRecordsAgree
  BY RecordsByStatus DEF PaymentInv
<1>3. AllRecordsAgree'
  BY <1>1, <1>2 DEF AllRecordsAgree, RecordsAgree
<1> QED  BY <1>3, RecordsByStatus, PTL

\* What a webhook that records a payment does to payment_records.
LEMMA RecordInserted ==
  ASSUME TypeOK, NEW t \in ProviderTxs, NEW k \in CheckoutKeys,
         NEW status \in {"settled", "failed"}, NEW reconciliation \in BOOLEAN,
         InsertPaymentRecord(t, k, status, reconciliation)
  PROVE  /\ \A x \in ProviderTxs \ {t} : payments'[x] = payments[x]
         /\ payments'[t] # Missing /\ payments'[t].order = k
         /\ payments[t] # Missing => payments[t].order = k
         /\ payments[t] = Missing => /\ payments'[t].status = status
                                     /\ payments'[t].reconciliation = reconciliation
         /\ (payments[t] # Missing /\ reconciliation) =>
                /\ payments'[t].status = "settled"
                /\ payments'[t].reconciliation
         /\ (payments[t] # Missing /\ ~reconciliation) => payments'[t] = payments[t]
<1>1. payments \in [ProviderTxs -> PaymentRecord \cup {Missing}]
  BY DEF TypeOK
<1>2. CASE payments[t] = Missing
  BY <1>1, <1>2 DEF InsertPaymentRecord, Missing
<1>3. CASE payments[t] # Missing
  <2>1. payments[t] \in PaymentRecord
    BY <1>1, <1>3
  <2>2. /\ payments[t].order = k
        /\ payments' = IF reconciliation
                         THEN [payments EXCEPT ![t].status = "settled",
                                               ![t].reconciliation = TRUE]
                         ELSE payments
    BY <1>3 DEF InsertPaymentRecord
  <2>3. CASE reconciliation
    <3>1. payments'[t] = [payments[t] EXCEPT !.status = "settled",
                                             !.reconciliation = TRUE]
      BY <1>1, <2>2, <2>3
    <3>2. payments'[t].status = "settled" /\ payments'[t].order = payments[t].order
      BY <2>1, <3>1 DEF PaymentRecord
    <3>4. payments'[t].reconciliation
      BY <2>1, <3>1 DEF PaymentRecord
    <3>3. payments'[t] # Missing
      BY <3>2 DEF Missing
    <3> QED  BY <1>1, <1>3, <2>2, <2>3, <3>2, <3>3, <3>4
  <2>4. CASE ~reconciliation
    BY <1>1, <1>3, <2>2, <2>4
  <2> QED  BY <2>3, <2>4
<1> QED  BY <1>2, <1>3

\* The records of order k gain at most t, and no other order's records change.
LEMMA RecordsGrow ==
  ASSUME TypeOK, NEW t \in ProviderTxs, NEW k \in CheckoutKeys,
         NEW status \in {"settled", "failed"}, NEW reconciliation \in BOOLEAN,
         InsertPaymentRecord(t, k, status, reconciliation)
  PROVE  /\ RecordsOf(k)' = RecordsOf(k) \cup {t}
         /\ \A x \in CheckoutKeys \ {k} :
                /\ RecordsOf(x)' = RecordsOf(x)
                /\ \A y \in RecordsOf(x) : payments'[y] = payments[y]
<1>1. /\ \A x \in ProviderTxs \ {t} : payments'[x] = payments[x]
      /\ payments'[t] # Missing /\ payments'[t].order = k
      /\ payments[t] # Missing => payments[t].order = k
  BY RecordInserted
<1> QED  BY <1>1 DEF RecordsOf

\* A webhook that changes order k and its records leaves the records of every
\* other order in agreement.
LEMMA OtherRecordsAgree ==
  ASSUME PaymentInv, TypeOK', NEW k \in CheckoutKeys,
         \A x \in CheckoutKeys \ {k} :
             /\ orders'[x] = orders[x]
             /\ RecordsOf(x)' = RecordsOf(x)
             /\ \A y \in RecordsOf(x) : payments'[y] = payments[y],
         RecordsAgree(k)'
  PROVE  PaymentRecordsMatchOrder'
<1>1. ASSUME NEW x \in CheckoutKeys \ {k}, orders'[x] # Missing
      PROVE  RecordsAgree(x)'
  <2>1. /\ orders'[x] = orders[x] /\ RecordsOf(x)' = RecordsOf(x)
        /\ \A y \in RecordsOf(x)' : payments'[y] = payments[y]
    OBVIOUS
  <2>2. RecordsAgree(x)
    BY <1>1, <2>1, RecordsByStatus DEF PaymentInv, AllRecordsAgree
  <2> QED  BY <2>1, <2>2 DEF RecordsAgree
<1>2. AllRecordsAgree'
  BY <1>1 DEF AllRecordsAgree
<1> QED  BY <1>2, RecordsByStatus, PTL

----------------------------------------------------------------------------
(* Financial facts are kept.                                               *)

\* A payment record is never removed or given to another order, and a success
\* or a request for reconciliation is never taken back.
RecordKept(x) ==
    payments[x] # Missing =>
        /\ payments'[x] # Missing
        /\ payments'[x].order = payments[x].order
        /\ payments[x].status = "settled" => payments'[x].status = "settled"
        /\ payments[x].reconciliation => payments'[x].reconciliation

LEMMA WebhookKeeps ==
  ASSUME TypeOK, NEW c \in CallbackKeys, NEW k \in CheckoutKeys,
         NEW t \in ProviderTxs, NEW status \in {"settled", "failed"},
         ProcessPaymentWebhook(c, k, t, status)
  PROVE  /\ \A x \in ProviderTxs : RecordKept(x)
         /\ \A d \in CallbackKeys : callbackKeys[d] # Missing =>
                callbackKeys'[d] = callbackKeys[d]
         /\ \A d \in CallbackKeys \ {c} : callbackKeys'[d] = callbackKeys[d]
         /\ callbackKeys'[c] = [status |-> status, order |-> k, tx |-> t]
<1>1. ASSUME NEW x \in ProviderTxs
      PROVE  RecordKept(x)
  <2>1. CASE payments' = payments
    BY <2>1 DEF RecordKept
  <2>2. ASSUME NEW given \in {"settled", "failed"}, NEW reconciliation \in BOOLEAN,
               InsertPaymentRecord(t, k, given, reconciliation)
        PROVE  RecordKept(x)
    BY <2>2, RecordInserted DEF RecordKept
  <2> QED  BY <2>1, <2>2
           DEF ProcessPaymentWebhook, CallbackForExpired, HandleSettle, HandleFail
<1>2. callbackKeys \in [CallbackKeys -> CallbackBinding \cup {Missing}]
  BY DEF TypeOK
<1> QED  BY <1>1, <1>2 DEF ProcessPaymentWebhook, ReserveCallbackKey

LEMMA FactsStep == TypeOK /\ [Next]_vars => [FactsKept]_vars
<1> SUFFICES ASSUME TypeOK, Next
             PROVE  FactsKept
  OBVIOUS
<1>1. CASE SaleStep
  BY <1>1, SaleStepRows DEF FactsKept, paymentTables
<1>2. ASSUME NEW c \in CallbackKeys, NEW k \in CheckoutKeys, NEW t \in ProviderTxs,
             NEW status \in {"settled", "failed"},
             ProcessPaymentWebhook(c, k, t, status)
      PROVE  FactsKept
  BY <1>2, WebhookKeeps DEF FactsKept, RecordKept
<1> QED  BY <1>1, <1>2 DEF Next, PaymentStep

\* A settled transaction stays settled and of its order, a request for
\* reconciliation stands, and a callback key is never bound to another callback.
THEOREM FactsFinal == Spec => FinancialFactsKept
BY TypeCorrect, FactsStep, PTL DEF Spec, FinancialFactsKept

----------------------------------------------------------------------------
(* The payment tables agree.                                               *)

\* What an accepted callback of order k and transaction t leaves behind.
Honoured(k, t, status) ==
    \/ orders[k].status = "paid"
    \/ orders[k].status = "cancelled" /\ status = "failed"
    \/ /\ orders[k].status = "expired"
       /\ payments[t] # Missing /\ payments[t].order = k
       /\ status = "settled" =>
              payments[t].status = "settled" /\ payments[t].reconciliation

AllHonoured ==
    \A c \in CallbackKeys : callbackKeys[c] # Missing =>
        \E k \in CheckoutKeys, t \in ProviderTxs, status \in {"settled", "failed"} :
            /\ callbackKeys[c] = [status |-> status, order |-> k, tx |-> t]
            /\ Honoured(k, t, status)

\* The property by the fields of the binding.
LEMMA HonouredByBinding == TypeOK => (AcceptedCallbacksHonoured <=> AllHonoured)
<1> SUFFICES ASSUME TypeOK
             PROVE  AcceptedCallbacksHonoured <=> AllHonoured
  OBVIOUS
<1>1. ASSUME NEW c \in CallbackKeys, callbackKeys[c] # Missing
      PROVE  \E k \in CheckoutKeys, t \in ProviderTxs, status \in {"settled", "failed"} :
                 callbackKeys[c] = [status |-> status, order |-> k, tx |-> t]
  BY <1>1 DEF TypeOK, CallbackBinding
<1>2. ASSUME NEW c \in CallbackKeys, NEW k \in CheckoutKeys, NEW t \in ProviderTxs,
             NEW status \in {"settled", "failed"},
             callbackKeys[c] = [status |-> status, order |-> k, tx |-> t]
      PROVE  /\ callbackKeys[c].order = k /\ callbackKeys[c].tx = t
             /\ callbackKeys[c].status = status
  BY <1>2
<1>3. AcceptedCallbacksHonoured <=>
        \A c \in CallbackKeys : callbackKeys[c] # Missing =>
            Honoured(callbackKeys[c].order, callbackKeys[c].tx, callbackKeys[c].status)
  BY Zenon DEF AcceptedCallbacksHonoured, Honoured
<1>4. ASSUME AcceptedCallbacksHonoured
      PROVE  AllHonoured
  <2> SUFFICES ASSUME NEW c \in CallbackKeys, callbackKeys[c] # Missing
               PROVE  \E k \in CheckoutKeys, t \in ProviderTxs,
                         status \in {"settled", "failed"} :
                          /\ callbackKeys[c] = [status |-> status, order |-> k, tx |-> t]
                          /\ Honoured(k, t, status)
    BY DEF AllHonoured
  <2>1. PICK k \in CheckoutKeys, t \in ProviderTxs, status \in {"settled", "failed"} :
                 callbackKeys[c] = [status |-> status, order |-> k, tx |-> t]
    BY <1>1
  <2>2. Honoured(k, t, status)
    BY <1>2, <1>3, <1>4, <2>1
  <2> QED  BY <2>1, <2>2
<1>5. ASSUME AllHonoured
      PROVE  AcceptedCallbacksHonoured
  <2> SUFFICES ASSUME NEW c \in CallbackKeys, callbackKeys[c] # Missing
               PROVE  Honoured(callbackKeys[c].order, callbackKeys[c].tx,
                               callbackKeys[c].status)
    BY <1>3
  <2>1. PICK k \in CheckoutKeys, t \in ProviderTxs, status \in {"settled", "failed"} :
                 /\ callbackKeys[c] = [status |-> status, order |-> k, tx |-> t]
                 /\ Honoured(k, t, status)
    BY <1>5 DEF AllHonoured
  <2> QED  BY <1>2, <2>1
<1> QED  BY <1>4, <1>5

\* What was honoured stays honoured.
LEMMA HonouredStays ==
  ASSUME TypeOK, [Next]_vars, NEW k \in CheckoutKeys, NEW t \in ProviderTxs,
         NEW status \in {"settled", "failed"}, Honoured(k, t, status)
  PROVE  Honoured(k, t, status)'
<1>1. orders'[k] = orders[k]
  BY OutcomesStep DEF Honoured, OutcomesKept, vars, Missing
<1>2. RecordKept(t)
  <2>1. CASE SaleStep
    BY <2>1, SaleStepRows DEF RecordKept, paymentTables
  <2>2. CASE PaymentStep
    BY <2>2, WebhookKeeps DEF PaymentStep
  <2>3. CASE UNCHANGED vars
    BY <2>3 DEF RecordKept, vars
  <2> QED  BY <2>1, <2>2, <2>3 DEF Next
<1> QED  BY <1>1, <1>2 DEF Honoured, RecordKept

\* A settlement of a pending order: one settled record and its tickets.
LEMMA SettlePending ==
  ASSUME PaymentInv, TypeOK', NEW k \in CheckoutKeys, NEW t \in ProviderTxs,
         orders[k].status = "pending", HandleSettle(k, t)
  PROVE  /\ PaymentRecordsMatchOrder' /\ TicketsMatchPayment'
         /\ orders'[k].status = "paid"
<1>0. /\ TypeOK /\ orders[k] \in Order
      /\ orders \in [CheckoutKeys -> Order \cup {Missing}]
      /\ tickets \in [CheckoutKeys -> 0 .. MaxQuantity]
  BY OrderRow DEF PaymentInv, TypeOK
<1>1. /\ InsertPaymentRecord(t, k, "settled", FALSE)
      /\ orders' = [orders EXCEPT ![k].status = "paid"]
      /\ tickets' = [tickets EXCEPT ![k] = IF @ > 0 THEN @ ELSE orders[k].item.quantity]
  BY DEF HandleSettle, MarkOrderAsPaid, IssueTickets
<1>2. /\ orders'[k].status = "paid" /\ orders'[k].item = orders[k].item
      /\ orders[k] # Missing
      /\ \A x \in CheckoutKeys \ {k} : orders'[x] = orders[x]
  BY <1>0, <1>1 DEF Order, Missing
<1>3. RecordsOf(k) = {}
  BY <1>0, <1>2, RecordsByStatus DEF PaymentInv, AllRecordsAgree, RecordsAgree
<1>4. RecordsOf(k)' = {t}
  <2>1. RecordsOf(k)' = RecordsOf(k) \cup {t}
    BY <1>0, <1>1, RecordsGrow
  <2> QED  BY <1>3, <2>1
<1>5. payments'[t].status = "settled" /\ ~payments'[t].reconciliation
  BY <1>0, <1>1, <1>3, RecordInserted DEF RecordsOf
<1>6. RecordsAgree(k)'
  <2>1. Cardinality(RecordsOf(k)') = 1
    BY <1>4, FS_Singleton
  <2> QED  BY <1>2, <1>4, <1>5, <2>1 DEF RecordsAgree
<1>7. PaymentRecordsMatchOrder'
  <2>1. \A x \in CheckoutKeys \ {k} :
            /\ orders'[x] = orders[x]
            /\ RecordsOf(x)' = RecordsOf(x)
            /\ \A y \in RecordsOf(x) : payments'[y] = payments[y]
    BY <1>0, <1>1, <1>2, RecordsGrow
  <2> QED  BY <1>6, <2>1, OtherRecordsAgree
<1>8. TicketsMatchPayment'
  <2>1. tickets[k] = 0
    BY DEF PaymentInv, TicketsMatchPayment
  <2>2. tickets'[k] = orders'[k].item.quantity
    BY <1>0, <1>1, <1>2, <2>1
  <2>3. \A x \in CheckoutKeys \ {k} : tickets'[x] = tickets[x]
    BY <1>0, <1>1
  <2> QED  BY <1>2, <2>2, <2>3 DEF PaymentInv, TicketsMatchPayment
<1> QED  BY <1>2, <1>7, <1>8

\* A failure of a pending order: one failed record and no ticket.
LEMMA FailPending ==
  ASSUME PaymentInv, TypeOK', NEW k \in CheckoutKeys, NEW t \in ProviderTxs,
         orders[k].status = "pending", HandleFail(k, t)
  PROVE  /\ PaymentRecordsMatchOrder' /\ TicketsMatchPayment'
         /\ orders'[k].status = "cancelled"
<1>0. /\ TypeOK /\ orders[k] \in Order
      /\ orders \in [CheckoutKeys -> Order \cup {Missing}]
  BY OrderRow DEF PaymentInv, TypeOK
<1>1. /\ InsertPaymentRecord(t, k, "failed", FALSE)
      /\ orders' = [orders EXCEPT ![k].status = "cancelled"]
      /\ tickets' = tickets
  BY DEF HandleFail, CancelOrder
<1>2. /\ orders'[k].status = "cancelled"
      /\ orders[k] # Missing
      /\ \A x \in CheckoutKeys \ {k} : orders'[x] = orders[x]
  BY <1>0, <1>1 DEF Order, Missing
<1>3. RecordsOf(k) = {}
  BY <1>0, <1>2, RecordsByStatus DEF PaymentInv, AllRecordsAgree, RecordsAgree
<1>4. RecordsOf(k)' = {t}
  <2>1. RecordsOf(k)' = RecordsOf(k) \cup {t}
    BY <1>0, <1>1, RecordsGrow
  <2> QED  BY <1>3, <2>1
<1>5. payments'[t].status = "failed"
  BY <1>0, <1>1, <1>3, RecordInserted DEF RecordsOf
<1>6. RecordsAgree(k)'
  BY <1>2, <1>4, <1>5 DEF RecordsAgree
<1>7. PaymentRecordsMatchOrder'
  <2>1. \A x \in CheckoutKeys \ {k} :
            /\ orders'[x] = orders[x]
            /\ RecordsOf(x)' = RecordsOf(x)
            /\ \A y \in RecordsOf(x) : payments'[y] = payments[y]
    BY <1>0, <1>1, <1>2, RecordsGrow
  <2> QED  BY <1>6, <2>1, OtherRecordsAgree
<1>8. TicketsMatchPayment'
  BY <1>1, <1>2 DEF PaymentInv, TicketsMatchPayment
<1> QED  BY <1>2, <1>7, <1>8

\* A callback for an expired order: its transaction is on record, and a success
\* asks for reconciliation.
LEMMA RecordExpired ==
  ASSUME PaymentInv, TypeOK', NEW k \in CheckoutKeys, NEW t \in ProviderTxs,
         NEW status \in {"settled", "failed"}, CallbackForExpired(k, t, status)
  PROVE  /\ PaymentRecordsMatchOrder' /\ TicketsMatchPayment'
         /\ Honoured(k, t, status)'
<1> DEFINE late == status = "settled"
<1>0. TypeOK /\ late \in BOOLEAN
  BY DEF PaymentInv
<1>1. /\ orders[k].status = "expired" /\ orders' = orders /\ tickets' = tickets
      /\ InsertPaymentRecord(t, k, status, late)
      /\ orders[k] # Missing
  BY DEF CallbackForExpired, Missing
<1> HIDE DEF late
<1>2. /\ \A x \in ProviderTxs \ {t} : payments'[x] = payments[x]
      /\ payments'[t] # Missing /\ payments'[t].order = k
      /\ payments[t] # Missing => payments[t].order = k
      /\ payments[t] = Missing => /\ payments'[t].status = status
                                  /\ payments'[t].reconciliation = late
      /\ (payments[t] # Missing /\ late) =>
             /\ payments'[t].status = "settled"
             /\ payments'[t].reconciliation
      /\ (payments[t] # Missing /\ ~late) => payments'[t] = payments[t]
  BY <1>0, <1>1, RecordInserted
<1>3. \A y \in RecordsOf(k) : payments[y].reconciliation <=> payments[y].status = "settled"
  BY <1>0, <1>1, RecordsByStatus DEF PaymentInv, AllRecordsAgree, RecordsAgree
<1>4. RecordsOf(k)' = RecordsOf(k) \cup {t}
  BY <1>0, <1>1, RecordsGrow
<1>5. payments'[t].reconciliation <=> payments'[t].status = "settled"
  <2>1. CASE payments[t] = Missing
    BY <1>0, <1>2, <2>1 DEF late
  <2>2. CASE payments[t] # Missing /\ late
    BY <1>2, <2>2
  <2>3. CASE payments[t] # Missing /\ ~late
    BY <1>2, <1>3, <2>3 DEF RecordsOf
  <2> QED  BY <2>1, <2>2, <2>3
<1>6. RecordsAgree(k)'
  <2>1. ASSUME NEW y \in RecordsOf(k)'
        PROVE  payments'[y].reconciliation <=> payments'[y].status = "settled"
    <3>1. CASE y = t
      BY <1>5, <3>1
    <3>2. CASE y # t
      <4>1. y \in RecordsOf(k) /\ y \in ProviderTxs \ {t}
        BY <1>4, <3>2 DEF RecordsOf
      <4>2. payments'[y] = payments[y]
        BY <1>2, <4>1
      <4> QED  BY <1>3, <4>1, <4>2
    <3> QED  BY <3>1, <3>2
  <2> QED  BY <1>1, <2>1 DEF RecordsAgree
<1>7. PaymentRecordsMatchOrder'
  <2>1. \A x \in CheckoutKeys \ {k} :
            /\ orders'[x] = orders[x]
            /\ RecordsOf(x)' = RecordsOf(x)
            /\ \A y \in RecordsOf(x) : payments'[y] = payments[y]
    BY <1>0, <1>1, RecordsGrow
  <2> QED  BY <1>6, <2>1, OtherRecordsAgree
<1>8. TicketsMatchPayment'
  BY <1>1 DEF PaymentInv, TicketsMatchPayment
<1>9. Honoured(k, t, status)'
  <2>1. late => payments'[t].status = "settled" /\ payments'[t].reconciliation
    BY <1>2, <1>5 DEF late
  <2> QED  BY <1>1, <1>2, <2>1 DEF Honoured, late
<1> QED  BY <1>7, <1>8, <1>9

LEMMA WebhookPayments ==
  ASSUME PaymentInv, TypeOK', NEW c \in CallbackKeys, NEW k \in CheckoutKeys,
         NEW t \in ProviderTxs, NEW status \in {"settled", "failed"},
         ProcessPaymentWebhook(c, k, t, status)
  PROVE  PaymentInv'
<1>0. TypeOK /\ Missing.status = "missing"
  BY DEF PaymentInv, Missing
<1>1. /\ PaymentRecordsMatchOrder' /\ TicketsMatchPayment'
      /\ Honoured(k, t, status)'
  <2>1. CASE CallbackForExpired(k, t, status)
    BY <2>1, RecordExpired
  <2>2. CASE status = "settled" /\ HandleSettle(k, t)
    <3>1. CASE orders[k].status = "pending"
      BY <2>2, <3>1, SettlePending DEF Honoured
    <3>2. CASE orders[k].status # "pending"
      <4>1. orders[k].status = "paid" /\ UNCHANGED <<orders, tickets, payments>>
        BY <2>2, <3>2 DEF HandleSettle
      <4> QED  BY <4>1, RecordsUnchanged DEF PaymentInv, TicketsMatchPayment, Honoured
    <3> QED  BY <3>1, <3>2
  <2>3. CASE status = "failed" /\ HandleFail(k, t)
    <3>1. CASE orders[k].status = "pending"
      BY <2>3, <3>1, FailPending DEF Honoured
    <3>2. CASE orders[k].status # "pending"
      <4>1. /\ orders[k].status \in {"paid", "cancelled"}
            /\ UNCHANGED <<orders, tickets, payments>>
        BY <2>3, <3>2 DEF HandleFail
      <4> QED  BY <2>3, <4>1, RecordsUnchanged
               DEF PaymentInv, TicketsMatchPayment, Honoured
    <3> QED  BY <3>1, <3>2
  <2> QED  BY <2>1, <2>2, <2>3 DEF ProcessPaymentWebhook
<1>2. RecordsOfOrders'
  <2> SUFFICES ASSUME NEW x \in ProviderTxs, payments'[x] # Missing
               PROVE  orders'[payments'[x].order] # Missing
    BY DEF RecordsOfOrders
  <2>1. \A y \in CheckoutKeys : orders[y] # Missing => orders'[y] # Missing
    <3>1. orders \in [CheckoutKeys -> Order \cup {Missing}]
      BY <1>0 DEF TypeOK
    <3>2. orders[k] \in Order
      BY <1>0, OrderRow DEF ProcessPaymentWebhook
    <3> QED  BY <1>0, <3>1, <3>2, WebhookRows DEF Order
  <2>2. payments'[x].order = k \/ payments'[x] = payments[x]
    <3>1. CASE payments' = payments
      BY <3>1
    <3>2. ASSUME NEW given \in {"settled", "failed"}, NEW reconciliation \in BOOLEAN,
                 InsertPaymentRecord(t, k, given, reconciliation)
          PROVE  payments'[x].order = k \/ payments'[x] = payments[x]
      BY <1>0, <3>2, RecordInserted
    <3> QED  BY <3>1, <3>2
             DEF ProcessPaymentWebhook, CallbackForExpired, HandleSettle, HandleFail
  <2>3. orders[k] # Missing
    BY DEF ProcessPaymentWebhook
  <2>4. payments'[x] \in PaymentRecord
    BY DEF TypeOK
  <2> QED  BY <2>1, <2>2, <2>3, <2>4 DEF PaymentInv, RecordsOfOrders, PaymentRecord
<1>3. AcceptedCallbacksHonoured'
  <2>1. AllHonoured
    BY <1>0, HonouredByBinding DEF PaymentInv
  <2>2. [Next]_vars
    BY DEF Next, PaymentStep
  <2>3. ASSUME NEW d \in CallbackKeys, callbackKeys'[d] # Missing
        PROVE  \E y \in CheckoutKeys, x \in ProviderTxs, s \in {"settled", "failed"} :
                   /\ callbackKeys'[d] = [status |-> s, order |-> y, tx |-> x]
                   /\ Honoured(y, x, s)'
    <3>1. CASE d = c
      BY <1>0, <1>1, <3>1, WebhookKeeps
    <3>2. CASE d # c
      <4>1. callbackKeys'[d] = callbackKeys[d]
        BY <1>0, <3>2, WebhookKeeps
      <4>2. PICK y \in CheckoutKeys, x \in ProviderTxs, s \in {"settled", "failed"} :
                   /\ callbackKeys[d] = [status |-> s, order |-> y, tx |-> x]
                   /\ Honoured(y, x, s)
        BY <2>1, <2>3, <4>1 DEF AllHonoured
      <4>3. Honoured(y, x, s)'
        BY <1>0, <2>2, <4>2, HonouredStays
      <4> QED  BY <4>1, <4>2, <4>3
    <3> QED  BY <3>1, <3>2
  <2>4. AllHonoured'
    BY <2>3 DEF AllHonoured
  <2> QED  BY <2>4, HonouredByBinding, PTL
<1> QED  BY <1>1, <1>2, <1>3 DEF PaymentInv

LEMMA PaymentInvStep == PaymentInv /\ [Next]_vars => PaymentInv'
<1> SUFFICES ASSUME PaymentInv, [Next]_vars
             PROVE  PaymentInv'
  OBVIOUS
<1>0. TypeOK /\ TypeOK' /\ Missing.status = "missing"
  BY TypeStep DEF PaymentInv, Missing
<1>1. CASE UNCHANGED <<orders, tickets, payments, callbackKeys>>
  <2>1. RecordsOfOrders' /\ TicketsMatchPayment' /\ AcceptedCallbacksHonoured'
    BY <1>1 DEF PaymentInv, RecordsOfOrders, TicketsMatchPayment,
                AcceptedCallbacksHonoured
  <2>2. PaymentRecordsMatchOrder'
    BY <1>0, <1>1, RecordsUnchanged
  <2> QED  BY <1>0, <2>1, <2>2 DEF PaymentInv
<1>2. CASE SaleStep
  <2>0. RowStep /\ UNCHANGED paymentTables
    BY <1>0, <1>2, SaleStepRows
  <2>1. CASE UNCHANGED orders
    BY <1>1, <2>0, <2>1 DEF paymentTables
  <2>2. ASSUME NEW k \in CheckoutKeys,
               OrderOpens(k) \/ \E r \in ReservationIds : Converts(k, r)
        PROVE  PaymentInv'
    <3>1. /\ orders[k] = Missing /\ orders'[k].status = "pending"
          /\ \A x \in CheckoutKeys \ {k} : orders'[x] = orders[x]
      BY <1>0, <2>2 DEF OrderOpens, Converts, TypeOK
    <3> QED  BY <1>0, <2>0, <3>1, OrderStepPayments
  <2>3. ASSUME NEW k \in CheckoutKeys, OrderExpires(k)
        PROVE  PaymentInv'
    <3>1. orders \in [CheckoutKeys -> Order \cup {Missing}] /\ orders[k] \in Order
      BY <1>0, <2>3, OrderRow DEF OrderExpires, TypeOK
    <3>2. /\ orders[k].status = "pending" /\ orders'[k].status = "expired"
          /\ \A x \in CheckoutKeys \ {k} : orders'[x] = orders[x]
      BY <2>3, <3>1 DEF OrderExpires, Order
    <3> QED  BY <1>0, <2>0, <3>2, OrderStepPayments
  <2> QED  BY <2>0, <2>1, <2>2, <2>3 DEF RowStep, ReservationOpens, ReservationEnds
<1>3. ASSUME NEW c \in CallbackKeys, NEW k \in CheckoutKeys, NEW t \in ProviderTxs,
             NEW status \in {"settled", "failed"},
             ProcessPaymentWebhook(c, k, t, status)
      PROVE  PaymentInv'
  BY <1>0, <1>3, WebhookPayments
<1>4. CASE UNCHANGED vars
  BY <1>1, <1>4 DEF vars
<1> QED  BY <1>2, <1>3, <1>4 DEF Next, PaymentStep

LEMMA PaymentInvInit == Init => PaymentInv
BY TypeInit DEF Init, PaymentInv, RecordsOfOrders, PaymentRecordsMatchOrder,
                TicketsMatchPayment, AcceptedCallbacksHonoured, Missing

\* The inductive invariant of the payment tables.
LEMMA PaymentInvAlways == Spec => []PaymentInv
BY PaymentInvInit, PaymentInvStep, PTL DEF Spec

\* In whatever order settlements, failures, repetitions and the expiration
\* arrive, the terminal payment records of an order agree with its status.
THEOREM RecordsCorrect == Spec => []PaymentRecordsMatchOrder
<1>1. PaymentInv => PaymentRecordsMatchOrder
  BY DEF PaymentInv
<1> QED  BY <1>1, PaymentInvAlways, PTL

\* A paid order has one ticket for each seat and no other order has any.
THEOREM TicketsCorrect == Spec => []TicketsMatchPayment
<1>1. PaymentInv => TicketsMatchPayment
  BY DEF PaymentInv
<1> QED  BY <1>1, PaymentInvAlways, PTL

\* What a callback that was answered 200 did is still there.
THEOREM CallbacksHonoured == Spec => []AcceptedCallbacksHonoured
<1>1. PaymentInv => AcceptedCallbacksHonoured
  BY DEF PaymentInv
<1> QED  BY <1>1, PaymentInvAlways, PTL

----------------------------------------------------------------------------
(* The purchase path implements the abstract seat ledger: every committed  *)
(* transaction opens an event, holds free seats, returns held ones, sells  *)
(* held ones for tickets, or moves no seat.                                *)

Pending == {"pending"}

\* What the ledger calls held and sold.
Held(e) == SeatTotal(ReservedSeats(e)) + SeatTotal(OrderedSeats(e, Pending))

Sold(e) == SeatTotal(TicketedSeats(e))

\* No seat of an event is free before the event exists.
NoSeatsBefore == \A e \in Events : e \notin events => available[e] = 0

LedgerInv == ConservationInv /\ PaymentInv /\ NoSeatsBefore

----------------------------------------------------------------------------
(* The totals as numbers.                                                  *)

LedgerTables ==
    \A e \in Events :
        /\ ReservedSeats(e) \in [ReservationIds -> 0 .. MaxQuantity]
        /\ OrderedSeats(e, Pending) \in [CheckoutKeys -> 0 .. MaxQuantity]
        /\ TicketedSeats(e) \in [CheckoutKeys -> 0 .. MaxQuantity]

LEMMA LedgerTablesType == TypeOK => LedgerTables
<1> SUFFICES ASSUME TypeOK, NEW e \in Events
             PROVE  /\ ReservedSeats(e) \in [ReservationIds -> 0 .. MaxQuantity]
                    /\ OrderedSeats(e, Pending) \in [CheckoutKeys -> 0 .. MaxQuantity]
                    /\ TicketedSeats(e) \in [CheckoutKeys -> 0 .. MaxQuantity]
  BY DEF LedgerTables
<1>1. ReservedSeats(e) \in [ReservationIds -> 0 .. MaxQuantity]
  BY SeatTablesType DEF SeatTables
<1>2. ASSUME NEW k \in CheckoutKeys, orders[k].status \in Pending
      PROVE  orders[k].item.quantity \in 0 .. MaxQuantity
  <2>1. orders[k] \in Order
    BY <1>2, OrderRow DEF Pending
  <2> QED  BY <2>1, SeatsAssumption DEF Order, Items
<1>3. 0 \in 0 .. MaxQuantity /\ tickets \in [CheckoutKeys -> 0 .. MaxQuantity]
  BY SeatsAssumption DEF TypeOK
<1> QED  BY <1>1, <1>2, <1>3 DEF OrderedSeats, TicketedSeats

LEMMA LedgerTotals ==
  ASSUME TypeOK, NEW e \in Events
  PROVE  /\ SeatTotal(ReservedSeats(e)) \in Nat
         /\ SeatTotal(OrderedSeats(e, Pending)) \in Nat
         /\ Held(e) \in Nat /\ Sold(e) \in Nat
         /\ \A r \in ReservationIds : ReservedSeats(e)[r] \in 0 .. Held(e)
         /\ \A k \in CheckoutKeys : OrderedSeats(e, Pending)[k] \in 0 .. Held(e)
         /\ \A k \in CheckoutKeys : TicketedSeats(e)[k] \in Nat
<1> DEFINE f == ReservedSeats(e)
           g == OrderedSeats(e, Pending)
           h == TicketedSeats(e)
<1>1. /\ f \in [ReservationIds -> 0 .. MaxQuantity]
      /\ g \in [CheckoutKeys -> 0 .. MaxQuantity]
      /\ h \in [CheckoutKeys -> 0 .. MaxQuantity]
  BY LedgerTablesType DEF LedgerTables
<1>2. MaxQuantity \in Nat /\ IsFiniteSet(ReservationIds) /\ IsFiniteSet(CheckoutKeys)
  BY SeatsAssumption, TablesAssumption
<1> HIDE DEF f, g, h
<1>3. SeatTotal(f) \in Nat /\ SeatTotal(g) \in Nat /\ SeatTotal(h) \in Nat
  BY <1>1, <1>2, SeatTotalType
<1>4. /\ \A r \in ReservationIds : f[r] \in Nat /\ SeatTotal(f) >= f[r]
      /\ \A k \in CheckoutKeys : g[k] \in Nat /\ SeatTotal(g) >= g[k]
      /\ \A k \in CheckoutKeys : h[k] \in Nat
  BY <1>1, <1>2, SeatTotalCovers
<1>5. Held(e) = SeatTotal(f) + SeatTotal(g) /\ Sold(e) = SeatTotal(h)
  BY DEF Held, Sold, f, g, h
<1>6. /\ SeatTotal(f) \in Nat /\ SeatTotal(g) \in Nat
      /\ Held(e) \in Nat /\ Sold(e) \in Nat
      /\ \A r \in ReservationIds : f[r] \in 0 .. Held(e)
      /\ \A k \in CheckoutKeys : g[k] \in 0 .. Held(e)
      /\ \A k \in CheckoutKeys : h[k] \in Nat
  BY <1>3, <1>4, <1>5
<1> QED  BY <1>6 DEF f, g, h

\* A step on one reservation moves the held seats by what the reservation gains.
LEMMA HeldByReservation ==
  ASSUME TypeOK, TypeOK', NEW e \in Events, UNCHANGED <<orders, tickets>>,
         NEW r \in ReservationIds,
         \A x \in ReservationIds \ {r} : reservations'[x] = reservations[x]
  PROVE  /\ Held(e)' = Held(e) - ReservedSeats(e)[r] + ReservedSeats(e)'[r]
         /\ Sold(e)' = Sold(e)
<1>1. SeatTotal(ReservedSeats(e)')
        = SeatTotal(ReservedSeats(e)) - ReservedSeats(e)[r] + ReservedSeats(e)'[r]
  BY ReservedSeatsChange
<1>2. OrderedSeats(e, Pending)' = OrderedSeats(e, Pending)
  BY DEF OrderedSeats
<1>3. TicketedSeats(e)' = TicketedSeats(e)
  BY DEF TicketedSeats
<1>4. /\ SeatTotal(ReservedSeats(e)) \in Nat
      /\ SeatTotal(OrderedSeats(e, Pending)) \in Nat
      /\ ReservedSeats(e)[r] \in Nat
  BY LedgerTotals
<1>5. LedgerTables'
  BY LedgerTablesType, PTL
<1>6. ReservedSeats(e)'[r] \in Nat
  BY <1>5, SeatsAssumption DEF LedgerTables
<1>7. /\ Held(e)' = SeatTotal(ReservedSeats(e)') + SeatTotal(OrderedSeats(e, Pending)')
      /\ Sold(e)' = SeatTotal(TicketedSeats(e)')
  BY DEF Held, Sold
<1> QED  BY <1>1, <1>2, <1>3, <1>4, <1>6, <1>7 DEF Held, Sold

\* A step on one order moves the held and the sold seats by what the order
\* gains as pending and as ticketed.
LEMMA HeldByOrder ==
  ASSUME TypeOK, TypeOK', NEW e \in Events, reservations' = reservations,
         NEW k \in CheckoutKeys,
         \A x \in CheckoutKeys \ {k} : orders'[x] = orders[x] /\ tickets'[x] = tickets[x]
  PROVE  /\ Held(e)' = Held(e) - OrderedSeats(e, Pending)[k]
                               + OrderedSeats(e, Pending)'[k]
         /\ Sold(e)' = Sold(e) - TicketedSeats(e)[k] + TicketedSeats(e)'[k]
<1> DEFINE f == OrderedSeats(e, Pending)
           g == OrderedSeats(e, Pending)'
           h == TicketedSeats(e)
           i == TicketedSeats(e)'
<1>1. LedgerTables /\ LedgerTables'
  BY LedgerTablesType, PTL
<1>2. /\ f \in [CheckoutKeys -> 0 .. MaxQuantity]
      /\ g \in [CheckoutKeys -> 0 .. MaxQuantity]
      /\ h \in [CheckoutKeys -> 0 .. MaxQuantity]
      /\ i \in [CheckoutKeys -> 0 .. MaxQuantity]
  BY <1>1 DEF LedgerTables
<1>3. \A x \in CheckoutKeys \ {k} : g[x] = f[x] /\ i[x] = h[x]
  BY DEF OrderedSeats, TicketedSeats
<1>4. SeatTotal(ReservedSeats(e)') = SeatTotal(ReservedSeats(e))
  BY DEF ReservedSeats
<1>5. /\ Held(e) = SeatTotal(ReservedSeats(e)) + SeatTotal(f)
      /\ Held(e)' = SeatTotal(ReservedSeats(e)') + SeatTotal(g)
      /\ Sold(e) = SeatTotal(h) /\ Sold(e)' = SeatTotal(i)
  BY DEF Held, Sold
<1>6. SeatTotal(ReservedSeats(e)) \in Nat
  BY LedgerTotals
<1>7. MaxQuantity \in Nat /\ IsFiniteSet(CheckoutKeys)
  BY SeatsAssumption, TablesAssumption
<1> HIDE DEF f, g, h, i
<1>8. /\ SeatTotal(g) = SeatTotal(f) - f[k] + g[k]
      /\ SeatTotal(i) = SeatTotal(h) - h[k] + i[k]
  BY <1>2, <1>3, <1>7, SeatTotalChange
<1>9. /\ SeatTotal(f) \in Nat /\ SeatTotal(h) \in Nat
      /\ f[k] \in Nat /\ g[k] \in Nat /\ h[k] \in Nat /\ i[k] \in Nat
  <2>1. SeatTotal(f) \in Nat /\ SeatTotal(h) \in Nat
    BY <1>2, <1>7, SeatTotalType
  <2>2. /\ f[k] \in 0 .. MaxQuantity /\ g[k] \in 0 .. MaxQuantity
        /\ h[k] \in 0 .. MaxQuantity /\ i[k] \in 0 .. MaxQuantity
    BY <1>2
  <2> QED  BY <1>7, <2>1, <2>2
<1>10. /\ Held(e)' = Held(e) - f[k] + g[k]
       /\ Sold(e)' = Sold(e) - h[k] + i[k]
  BY <1>4, <1>5, <1>6, <1>8, <1>9
<1> QED  BY <1>10 DEF f, g, h, i

\* A conversion moves the seats of the reservation to the order that is made
\* from it: the same seats stay held.
LEMMA HeldByConversion ==
  ASSUME TypeOK, TypeOK', NEW e \in Events, tickets' = tickets,
         NEW k \in CheckoutKeys, NEW r \in ReservationIds, Converts(k, r),
         TicketsMatchPayment
  PROVE  Held(e)' = Held(e) /\ Sold(e)' = Sold(e)
<1> DEFINE before == OrderedSeats(e, Pending)
           after == OrderedSeats(e, Pending)'
<1>1. /\ reservations[r] \in Reservation
      /\ reservations \in [ReservationIds -> Reservation \cup {Missing}]
      /\ orders \in [CheckoutKeys -> Order \cup {Missing}]
      /\ Missing.status = "missing"
  BY ReservationRow DEF Converts, TypeOK, Missing
<1>2. /\ orders[k] = Missing /\ orders'[k].status = "pending"
      /\ orders'[k].item = reservations[r].item /\ orders'[k] # Missing
      /\ \A x \in CheckoutKeys \ {k} : orders'[x] = orders[x]
  BY <1>1 DEF Converts
<1>3. /\ reservations[r].status = "active" /\ reservations'[r].status = "converted"
      /\ \A x \in ReservationIds \ {r} : reservations'[x] = reservations[x]
  BY <1>1 DEF Converts, Reservation
<1>4. SeatTotal(ReservedSeats(e)')
        = SeatTotal(ReservedSeats(e)) - ReservedSeats(e)[r] + ReservedSeats(e)'[r]
  BY <1>3, ReservedSeatsChange
<1>5. SeatTotal(after) = SeatTotal(before) - before[k] + after[k]
  <2>1. LedgerTables /\ LedgerTables'
    BY LedgerTablesType, PTL
  <2>2. /\ before \in [CheckoutKeys -> 0 .. MaxQuantity]
        /\ after \in [CheckoutKeys -> 0 .. MaxQuantity]
    BY <2>1 DEF LedgerTables
  <2>3. \A x \in CheckoutKeys \ {k} : after[x] = before[x]
    BY <1>2 DEF OrderedSeats
  <2> HIDE DEF before, after
  <2> QED  BY <2>2, <2>3, SeatTotalChange, TablesAssumption, SeatsAssumption
<1>6. /\ before[k] = 0 /\ ReservedSeats(e)'[r] = 0
      /\ after[k] = ReservedSeats(e)[r]
  BY <1>1, <1>2, <1>3 DEF OrderedSeats, ReservedSeats, Pending
<1>7. /\ SeatTotal(ReservedSeats(e)) \in Nat /\ SeatTotal(before) \in Nat
      /\ ReservedSeats(e)[r] \in Nat
  <2>1. ReservedSeats(e)[r] \in 0 .. Held(e) /\ Held(e) \in Nat
    BY LedgerTotals
  <2> QED  BY <2>1, LedgerTotals
<1>8. TicketedSeats(e)' = TicketedSeats(e)
  BY <1>1, <1>2 DEF TicketedSeats, TicketsMatchPayment
<1>9. /\ Held(e)' = SeatTotal(ReservedSeats(e)') + SeatTotal(after)
      /\ Sold(e)' = SeatTotal(TicketedSeats(e)')
  BY DEF Held, Sold
<1> HIDE DEF before, after
<1>10. Held(e) = SeatTotal(ReservedSeats(e)) + SeatTotal(before)
  BY DEF Held, before
<1> QED  BY <1>4, <1>5, <1>6, <1>7, <1>8, <1>9, <1>10 DEF Sold

----------------------------------------------------------------------------
(* The moves of the ledger, from what happens to each event.               *)

HeldSeats == [e \in Events |-> Held(e)]

SoldSeats == [e \in Events |-> Sold(e)]

LedgerStutters ==
    /\ available' = available
    /\ \A e \in Events : Held(e)' = Held(e) /\ Sold(e)' = Sold(e)

Opens(e) ==
    /\ available[e] = 0 /\ Held(e) = 0 /\ Sold(e) = 0
    /\ available' = [available EXCEPT ![e] = TotalSeats[e]]
    /\ \A x \in Events : Held(x)' = Held(x) /\ Sold(x)' = Sold(x)

Holds(e, n) ==
    /\ n \in 1 .. available[e]
    /\ available' = [available EXCEPT ![e] = @ - n]
    /\ \A x \in Events : /\ Held(x)' = IF x = e THEN Held(x) + n ELSE Held(x)
                         /\ Sold(x)' = Sold(x)

Returns(e, n) ==
    /\ n \in 1 .. Held(e)
    /\ available' = [available EXCEPT ![e] = @ + n]
    /\ \A x \in Events : /\ Held(x)' = IF x = e THEN Held(x) - n ELSE Held(x)
                         /\ Sold(x)' = Sold(x)

Sells(e, n) ==
    /\ n \in 1 .. Held(e)
    /\ available' = available
    /\ \A x \in Events : /\ Held(x)' = IF x = e THEN Held(x) - n ELSE Held(x)
                         /\ Sold(x)' = IF x = e THEN Sold(x) + n ELSE Sold(x)

Moves ==
    \/ LedgerStutters
    \/ \E e \in Events : Opens(e)
    \/ \E e \in Events, n \in Nat : Holds(e, n) \/ Returns(e, n) \/ Sells(e, n)

\* Each of these moves is a step of the abstract ledger.
LEMMA MovesAreLedgerSteps ==
  ASSUME TypeOK, Moves
  PROVE  [Ledger!Next]_(Ledger!ledger)
<1>1. \A e \in Events : Held(e) \in Nat /\ Sold(e) \in Nat
  BY LedgerTotals
<1>2. /\ HeldSeats = [e \in Events |-> SeatTotal(ReservedSeats(e))
                                       + SeatTotal(OrderedSeats(e, {"pending"}))]
      /\ SoldSeats = [e \in Events |-> SeatTotal(TicketedSeats(e))]
      /\ HeldSeats' = [e \in Events |-> SeatTotal(ReservedSeats(e))
                                       + SeatTotal(OrderedSeats(e, {"pending"}))]'
      /\ SoldSeats' = [e \in Events |-> SeatTotal(TicketedSeats(e))]'
  BY DEF HeldSeats, SoldSeats, Held, Sold, Pending
<1>3. /\ HeldSeats' = [e \in Events |-> Held(e)'] /\ DOMAIN HeldSeats = Events
      /\ SoldSeats' = [e \in Events |-> Sold(e)'] /\ DOMAIN SoldSeats = Events
      /\ \A e \in Events : HeldSeats[e] = Held(e) /\ SoldSeats[e] = Sold(e)
  BY DEF HeldSeats, SoldSeats
<1>4. CASE LedgerStutters
  <2>1. HeldSeats' = HeldSeats /\ SoldSeats' = SoldSeats
    BY <1>4 DEF LedgerStutters, HeldSeats, SoldSeats
  <2> QED  BY <1>2, <1>4, <2>1 DEF LedgerStutters, Ledger!ledger
<1>5. ASSUME NEW e \in Events, Opens(e)
      PROVE  Ledger!Next
  <2>1. HeldSeats' = HeldSeats /\ SoldSeats' = SoldSeats
    BY <1>5 DEF Opens, HeldSeats, SoldSeats
  <2>2. available[e] + HeldSeats[e] + SoldSeats[e] = 0
    BY <1>3, <1>5 DEF Opens
  <2>3. Ledger!Open(e)
    BY <1>2, <1>5, <2>1, <2>2 DEF Opens, Ledger!Open
  <2> QED  BY <2>3 DEF Ledger!Next
<1>6. ASSUME NEW e \in Events, NEW n \in Nat, Holds(e, n)
      PROVE  Ledger!Next
  <2>1. HeldSeats' = [HeldSeats EXCEPT ![e] = @ + n] /\ SoldSeats' = SoldSeats
    BY <1>1, <1>6 DEF Holds, HeldSeats, SoldSeats
  <2>2. Ledger!Hold(e, n)
    BY <1>2, <1>6, <2>1 DEF Holds, Ledger!Hold
  <2> QED  BY <1>6, <2>2 DEF Holds, Ledger!Next
<1>7. ASSUME NEW e \in Events, NEW n \in Nat, Returns(e, n)
      PROVE  Ledger!Next
  <2>1. HeldSeats' = [HeldSeats EXCEPT ![e] = @ - n] /\ SoldSeats' = SoldSeats
    BY <1>1, <1>7 DEF Returns, HeldSeats, SoldSeats
  <2>2. Ledger!Return(e, n)
    BY <1>2, <1>7, <2>1 DEF Returns, Ledger!Return
  <2>3. n \in 1 .. HeldSeats[e]
    BY <1>3, <1>7 DEF Returns
  <2> QED  BY <1>2, <2>2, <2>3 DEF Ledger!Next
<1>8. ASSUME NEW e \in Events, NEW n \in Nat, Sells(e, n)
      PROVE  Ledger!Next
  <2>1. /\ HeldSeats' = [HeldSeats EXCEPT ![e] = @ - n]
        /\ SoldSeats' = [SoldSeats EXCEPT ![e] = @ + n]
    BY <1>1, <1>8 DEF Sells, HeldSeats, SoldSeats
  <2>2. Ledger!Sell(e, n)
    BY <1>2, <1>8, <2>1 DEF Sells, Ledger!Sell
  <2>3. n \in 1 .. HeldSeats[e]
    BY <1>3, <1>8 DEF Sells
  <2> QED  BY <1>2, <2>2, <2>3 DEF Ledger!Next
<1> QED  BY <1>4, <1>5, <1>6, <1>7, <1>8 DEF Moves

----------------------------------------------------------------------------
(* Every transaction is one of these moves.                                *)

\* A step on the seats of one existing event leaves events to come empty.
LEMMA SeatsOfOneEvent ==
  ASSUME LedgerInv, NEW e \in events, NEW seats,
         events' = events, available' = [available EXCEPT ![e] = seats]
  PROVE  NoSeatsBefore'
BY DEF LedgerInv, ConservationInv, TypeOK, NoSeatsBefore

\* A new event is nobody's: no row refers to it.
LEMMA CreateEventMoves ==
  ASSUME LedgerInv, NEW e \in Events, CreateEvent(e)
  PROVE  Moves /\ NoSeatsBefore'
<1>1. /\ TypeOK /\ RowsOfEvents /\ NoSeatsBefore /\ e \notin events
      /\ UNCHANGED <<reservations, orders, tickets>>
      /\ events' = events \cup {e}
      /\ available' = [available EXCEPT ![e] = TotalSeats[e]]
      /\ Missing.status = "missing"
  BY DEF LedgerInv, ConservationInv, CreateEvent, paymentTables, Missing
<1>2. NoSeatsBefore'
  BY <1>1 DEF NoSeatsBefore, TypeOK
<1>3. /\ \A r \in ReservationIds : ReservedSeats(e)[r] = 0
      /\ \A k \in CheckoutKeys : OrderedSeats(e, Pending)[k] = 0
      /\ \A k \in CheckoutKeys : TicketedSeats(e)[k] = 0
  BY <1>1 DEF RowsOfEvents, ReservedSeats, OrderedSeats, TicketedSeats, Pending
<1>4. /\ DOMAIN ReservedSeats(e) = ReservationIds
      /\ DOMAIN OrderedSeats(e, Pending) = CheckoutKeys
      /\ DOMAIN TicketedSeats(e) = CheckoutKeys
  BY DEF ReservedSeats, OrderedSeats, TicketedSeats
<1>5. /\ SeatTotal(ReservedSeats(e)) = 0
      /\ SeatTotal(OrderedSeats(e, Pending)) = 0
      /\ SeatTotal(TicketedSeats(e)) = 0
  BY <1>3, <1>4, SeatTotalZero
<1>6. Held(e) = 0 /\ Sold(e) = 0
  BY <1>5 DEF Held, Sold
<1>7. \A x \in Events : Held(x)' = Held(x) /\ Sold(x)' = Sold(x)
  BY <1>1 DEF Held, Sold, ReservedSeats, OrderedSeats, TicketedSeats
<1>8. Opens(e)
  BY <1>1, <1>6, <1>7 DEF Opens, NoSeatsBefore
<1> QED  BY <1>2, <1>8 DEF Moves

\* A reservation holds free seats of its event.
LEMMA CreateReservationMoves ==
  ASSUME LedgerInv, TypeOK', NEW r \in ReservationIds, NEW item \in Items,
         NEW now \in TransactionTimes, CreateReservation(r, item, now)
  PROVE  Moves /\ NoSeatsBefore'
<1> DEFINE e == item.event
           n == item.quantity
<1>1. /\ TypeOK /\ events' = events /\ UNCHANGED <<orders, tickets>>
      /\ e \in events
      /\ reservations[r] = Missing
      /\ reservations' = [reservations EXCEPT ![r] =
             [status |-> "active", item |-> item, expiresAt |-> clock + HoldTtl]]
  BY DEF LedgerInv, ConservationInv, CreateReservation, SaleEligible, catalog,
         paymentTables
<1>2. /\ available \in [Events -> Nat]
      /\ reservations \in [ReservationIds -> Reservation \cup {Missing}]
  BY <1>1 DEF TypeOK
<1>3. e \in Events /\ n \in Nat \ {0} /\ -n \in Int
  BY SeatsAssumption DEF Items
<1>4. /\ available' = [available EXCEPT ![e] = @ + (-n)]
      /\ available[e] + (-n) >= 0
  BY <1>1, <1>3, AdjustType DEF CreateReservation, AdjustAvailableSeats
<1>5. NoSeatsBefore'
  BY <1>1, <1>4, SeatsOfOneEvent
<1>6. /\ available' = [available EXCEPT ![e] = @ - n]
      /\ n \in 1 .. available[e]
  <2>1. available[e] \in Nat
    BY <1>2, <1>3
  <2> HIDE DEF e, n
  <2>2. available[e] + (-n) = available[e] - n /\ n \in 1 .. available[e]
    BY <1>3, <1>4, <2>1
  <2> QED  BY <1>4, <2>2
<1>7. ASSUME NEW x \in Events
      PROVE  /\ Held(x)' = IF x = e THEN Held(x) + n ELSE Held(x)
             /\ Sold(x)' = Sold(x)
  <2>1. ReservedSeats(x)[r] = 0
    BY <1>1 DEF ReservedSeats, Missing
  <2>2. ReservedSeats(x)'[r] = IF x = e THEN n ELSE 0
    BY <1>1, <1>2 DEF ReservedSeats
  <2>3. /\ Held(x)' = Held(x) - ReservedSeats(x)[r] + ReservedSeats(x)'[r]
        /\ Sold(x)' = Sold(x)
    BY <1>1, <1>2, HeldByReservation
  <2>4. Held(x) \in Nat
    BY <1>1, LedgerTotals
  <2> QED  BY <1>3, <2>1, <2>2, <2>3, <2>4
<1>8. Holds(e, n)
  BY <1>6, <1>7 DEF Holds
<1> QED  BY <1>3, <1>5, <1>8 DEF Moves

\* A reservation that ends returns what it held.
LEMMA FinalizeMoves ==
  ASSUME LedgerInv, TypeOK', NEW r \in ReservationIds,
         NEW final \in {"released", "expired"}, ReturnSeatsAndFinalize(r, final),
         events' = events, UNCHANGED <<orders, tickets>>
  PROVE  Moves /\ NoSeatsBefore'
<1> DEFINE e == reservations[r].item.event
           n == reservations[r].item.quantity
<1>1. /\ TypeOK /\ RowsOfEvents
      /\ available \in [Events -> Nat]
      /\ reservations \in [ReservationIds -> Reservation \cup {Missing}]
      /\ Missing.status = "missing"
  BY DEF LedgerInv, ConservationInv, TypeOK, Missing
<1>2. /\ reservations[r].status = "active"
      /\ reservations[r] \in Reservation
      /\ reservations' = [reservations EXCEPT ![r].status = final]
  BY <1>1, ReservationRow DEF ReturnSeatsAndFinalize
<1>3. e \in Events /\ e \in events /\ n \in Nat \ {0} /\ n \in Int
  BY <1>1, <1>2, SeatsAssumption DEF Reservation, Items, RowsOfEvents
<1>4. available' = [available EXCEPT ![e] = @ + n]
  BY <1>1, <1>3, AdjustType DEF ReturnSeatsAndFinalize
<1>5. NoSeatsBefore'
  BY <1>3, <1>4, SeatsOfOneEvent
<1>6. reservations'[r].status = final
  BY <1>1, <1>2 DEF Reservation
<1>7. ASSUME NEW x \in Events
      PROVE  /\ Held(x)' = IF x = e THEN Held(x) - n ELSE Held(x)
             /\ Sold(x)' = Sold(x)
             /\ x = e => n <= Held(x)
  <2>1. ReservedSeats(x)[r] = IF x = e THEN n ELSE 0
    BY <1>2 DEF ReservedSeats
  <2>2. ReservedSeats(x)'[r] = 0
    BY <1>6 DEF ReservedSeats
  <2>3. /\ Held(x)' = Held(x) - ReservedSeats(x)[r] + ReservedSeats(x)'[r]
        /\ Sold(x)' = Sold(x)
    BY <1>1, <1>2, HeldByReservation
  <2>4. Held(x) \in Nat /\ ReservedSeats(x)[r] \in 0 .. Held(x)
    BY <1>1, LedgerTotals
  <2> QED  BY <1>3, <2>1, <2>2, <2>3, <2>4
<1>8. Returns(e, n)
  <2>1. Held(e) \in Nat
    BY <1>1, <1>3, LedgerTotals
  <2> QED  BY <1>3, <1>4, <1>7, <2>1 DEF Returns
<1> QED  BY <1>3, <1>5, <1>8 DEF Moves

\* A direct checkout holds free seats of its event.
LEMMA CheckoutDirectMoves ==
  ASSUME LedgerInv, TypeOK', NEW k \in CheckoutKeys, NEW item \in Items,
         NEW now \in TransactionTimes, CheckoutDirect(k, item, now)
  PROVE  Moves /\ NoSeatsBefore'
<1> DEFINE e == item.event
           n == item.quantity
           order == [status |-> "pending", item |-> item,
                     reservation |-> NoReservation,
                     deadline |-> now + PaymentWindow]
<1>1. /\ TypeOK /\ TicketsMatchPayment
      /\ events' = events /\ UNCHANGED <<reservations, tickets>>
      /\ e \in events
      /\ orders[k] = Missing /\ Missing.status = "missing"
      /\ orders' = [orders EXCEPT ![k] = order]
  BY DEF LedgerInv, ConservationInv, PaymentInv, CheckoutDirect, CreateOrder,
         SaleEligible, catalog, paymentTables, Missing
<1>2. /\ available \in [Events -> Nat]
      /\ orders \in [CheckoutKeys -> Order \cup {Missing}]
  BY <1>1 DEF TypeOK
<1>3. e \in Events /\ n \in Nat \ {0} /\ -n \in Int
  BY SeatsAssumption DEF Items
<1>4. /\ available' = [available EXCEPT ![e] = @ + (-n)]
      /\ available[e] + (-n) >= 0
  BY <1>1, <1>3, AdjustType DEF CheckoutDirect, AdjustAvailableSeats
<1>5. NoSeatsBefore'
  BY <1>1, <1>4, SeatsOfOneEvent
<1>6. /\ available' = [available EXCEPT ![e] = @ - n]
      /\ n \in 1 .. available[e]
  <2>1. available[e] \in Nat
    BY <1>2, <1>3
  <2> HIDE DEF e, n
  <2>2. available[e] + (-n) = available[e] - n /\ n \in 1 .. available[e]
    BY <1>3, <1>4, <2>1
  <2> QED  BY <1>4, <2>2
<1>7. ASSUME NEW x \in Events
      PROVE  /\ Held(x)' = IF x = e THEN Held(x) + n ELSE Held(x)
             /\ Sold(x)' = Sold(x)
  <2>1. /\ OrderedSeats(x, Pending)[k] = 0
        /\ TicketedSeats(x)[k] = 0
    BY <1>1 DEF OrderedSeats, TicketedSeats, Pending
  <2>2. orders'[k] = order /\ tickets'[k] = 0
    BY <1>1, <1>2 DEF TicketsMatchPayment
  <2>3. OrderedSeats(x, Pending)'[k] = IF x = e THEN n ELSE 0
    BY <2>2 DEF OrderedSeats, Pending
  <2>4. TicketedSeats(x)'[k] = 0
    BY <2>2 DEF TicketedSeats
  <2>5. /\ Held(x)' = Held(x) - OrderedSeats(x, Pending)[k]
                              + OrderedSeats(x, Pending)'[k]
        /\ Sold(x)' = Sold(x) - TicketedSeats(x)[k] + TicketedSeats(x)'[k]
    BY <1>1, <1>2, HeldByOrder
  <2>6. Held(x) \in Nat /\ Sold(x) \in Nat
    BY <1>1, LedgerTotals
  <2> QED  BY <1>3, <2>1, <2>3, <2>4, <2>5, <2>6
<1>8. Holds(e, n)
  BY <1>6, <1>7 DEF Holds
<1> QED  BY <1>3, <1>5, <1>8 DEF Moves

\* A pending order that is cancelled or expires returns what it held.
LEMMA OrderReturns ==
  ASSUME LedgerInv, TypeOK', NEW k \in CheckoutKeys,
         orders[k].status = "pending", NEW final \in {"cancelled", "expired"},
         AdjustAvailableSeats(orders[k].item.event, orders[k].item.quantity),
         orders' = [orders EXCEPT ![k].status = final],
         events' = events, UNCHANGED <<reservations, tickets>>
  PROVE  Moves /\ NoSeatsBefore'
<1> DEFINE e == orders[k].item.event
           n == orders[k].item.quantity
<1>1. /\ TypeOK /\ RowsOfEvents /\ TicketsMatchPayment
      /\ available \in [Events -> Nat]
      /\ orders \in [CheckoutKeys -> Order \cup {Missing}]
      /\ Missing.status = "missing"
  BY DEF LedgerInv, ConservationInv, PaymentInv, TypeOK, Missing
<1>2. orders[k] \in Order
  BY <1>1, OrderRow
<1>3. e \in Events /\ e \in events /\ n \in Nat \ {0} /\ n \in Int
  BY <1>1, <1>2, SeatsAssumption DEF Order, Items, RowsOfEvents
<1>4. available' = [available EXCEPT ![e] = @ + n]
  BY <1>1, <1>3, AdjustType
<1>5. NoSeatsBefore'
  BY <1>3, <1>4, SeatsOfOneEvent
<1>6. orders'[k].status = final /\ tickets[k] = 0 /\ tickets'[k] = 0
  BY <1>1, <1>2 DEF Order, TicketsMatchPayment
<1>7. ASSUME NEW x \in Events
      PROVE  /\ Held(x)' = IF x = e THEN Held(x) - n ELSE Held(x)
             /\ Sold(x)' = Sold(x)
             /\ x = e => n <= Held(x)
  <2>1. /\ OrderedSeats(x, Pending)[k] = IF x = e THEN n ELSE 0
        /\ OrderedSeats(x, Pending)'[k] = 0
    BY <1>6 DEF OrderedSeats, Pending
  <2>2. TicketedSeats(x)[k] = 0 /\ TicketedSeats(x)'[k] = 0
    BY <1>6 DEF TicketedSeats
  <2>3. /\ Held(x)' = Held(x) - OrderedSeats(x, Pending)[k]
                              + OrderedSeats(x, Pending)'[k]
        /\ Sold(x)' = Sold(x) - TicketedSeats(x)[k] + TicketedSeats(x)'[k]
    BY <1>1, HeldByOrder
  <2>4. /\ Held(x) \in Nat /\ Sold(x) \in Nat
        /\ OrderedSeats(x, Pending)[k] \in 0 .. Held(x)
    BY <1>1, LedgerTotals
  <2> QED  BY <1>3, <2>1, <2>2, <2>3, <2>4
<1>8. Returns(e, n)
  <2>1. Held(e) \in Nat
    BY <1>1, <1>3, LedgerTotals
  <2> QED  BY <1>3, <1>4, <1>7, <2>1 DEF Returns
<1> QED  BY <1>3, <1>5, <1>8 DEF Moves

\* A settlement sells what the order held: its tickets are as many.
LEMMA OrderSells ==
  ASSUME LedgerInv, TypeOK', NEW k \in CheckoutKeys,
         orders[k].status = "pending", IssueTickets(k), MarkOrderAsPaid(k),
         UNCHANGED <<events, available, reservations>>
  PROVE  Moves /\ NoSeatsBefore'
<1> DEFINE e == orders[k].item.event
           n == orders[k].item.quantity
<1>1. /\ TypeOK /\ TicketsMatchPayment /\ NoSeatsBefore
      /\ orders \in [CheckoutKeys -> Order \cup {Missing}]
      /\ tickets \in [CheckoutKeys -> 0 .. MaxQuantity]
      /\ Missing.status = "missing"
  BY DEF LedgerInv, ConservationInv, PaymentInv, TypeOK, Missing
<1>2. orders[k] \in Order /\ orders[k] # Missing
  BY <1>1, OrderRow
<1>3. e \in Events /\ n \in Nat \ {0}
  BY <1>2, SeatsAssumption DEF Order, Items
<1>4. NoSeatsBefore'
  BY <1>1 DEF NoSeatsBefore
<1>5. /\ orders'[k].status = "paid" /\ orders'[k].item = orders[k].item
      /\ orders'[k] # Missing
      /\ tickets[k] = 0 /\ tickets'[k] = n
      /\ \A x \in CheckoutKeys \ {k} : orders'[x] = orders[x] /\ tickets'[x] = tickets[x]
  BY <1>1, <1>2 DEF Order, TicketsMatchPayment, IssueTickets, MarkOrderAsPaid
<1>6. ASSUME NEW x \in Events
      PROVE  /\ Held(x)' = IF x = e THEN Held(x) - n ELSE Held(x)
             /\ Sold(x)' = IF x = e THEN Sold(x) + n ELSE Sold(x)
             /\ x = e => n <= Held(x)
  <2>1. /\ OrderedSeats(x, Pending)[k] = IF x = e THEN n ELSE 0
        /\ OrderedSeats(x, Pending)'[k] = 0
    BY <1>5 DEF OrderedSeats, Pending
  <2>2. /\ TicketedSeats(x)[k] = 0
        /\ TicketedSeats(x)'[k] = IF x = e THEN n ELSE 0
    BY <1>5 DEF TicketedSeats
  <2>3. /\ Held(x)' = Held(x) - OrderedSeats(x, Pending)[k]
                              + OrderedSeats(x, Pending)'[k]
        /\ Sold(x)' = Sold(x) - TicketedSeats(x)[k] + TicketedSeats(x)'[k]
    BY <1>1, <1>5, HeldByOrder
  <2>4. /\ Held(x) \in Nat /\ Sold(x) \in Nat
        /\ OrderedSeats(x, Pending)[k] \in 0 .. Held(x)
    BY <1>1, LedgerTotals
  <2> QED  BY <1>3, <2>1, <2>2, <2>3, <2>4
<1>7. Sells(e, n)
  <2>1. Held(e) \in Nat
    BY <1>1, <1>3, LedgerTotals
  <2> QED  BY <1>3, <1>6, <2>1 DEF Sells
<1> QED  BY <1>3, <1>4, <1>7 DEF Moves

\* A conversion moves no seat of the ledger.
LEMMA ConversionMovesNothing ==
  ASSUME LedgerInv, TypeOK', NEW k \in CheckoutKeys, NEW item \in Items,
         NEW r \in ReservationIds, NEW now \in TransactionTimes,
         CheckoutReservation(k, r, item, now)
  PROVE  Moves /\ NoSeatsBefore'
<1>1. /\ TypeOK /\ TicketsMatchPayment /\ NoSeatsBefore
      /\ UNCHANGED <<events, available, tickets>>
  BY DEF LedgerInv, ConservationInv, PaymentInv, CheckoutReservation, catalog,
         paymentTables
<1>2. Converts(k, r)
  <2>1. now + PaymentWindow \in Nat
    BY SeatsAssumption DEF TransactionTimes
  <2>2. [status |-> "pending", item |-> item, reservation |-> r,
         deadline |-> now + PaymentWindow] \in Order
    BY <2>1 DEF Order
  <2> QED  BY <2>2 DEF CheckoutReservation, CreateOrder, Converts
<1>3. \A x \in Events : Held(x)' = Held(x) /\ Sold(x)' = Sold(x)
  BY <1>1, <1>2, HeldByConversion
<1> QED  BY <1>1, <1>3 DEF Moves, LedgerStutters, NoSeatsBefore

\* Nor does a step on none of the tables seats are counted in.
LEMMA NothingMoves ==
  ASSUME LedgerInv, UNCHANGED <<events, available, reservations, orders, tickets>>
  PROVE  Moves /\ NoSeatsBefore'
<1>1. \A x \in Events : Held(x)' = Held(x) /\ Sold(x)' = Sold(x)
  BY DEF Held, Sold, ReservedSeats, OrderedSeats, TicketedSeats
<1> QED  BY <1>1 DEF LedgerInv, Moves, LedgerStutters, NoSeatsBefore

LEMMA LedgerMoves ==
  ASSUME LedgerInv, TypeOK', [Next]_vars
  PROVE  Moves /\ NoSeatsBefore'
<1>1. CASE Tick
  BY <1>1, NothingMoves DEF Tick, paymentTables
<1>2. ASSUME NEW e \in Events, CreateEvent(e)
      PROVE  Moves /\ NoSeatsBefore'
  BY <1>2, CreateEventMoves
<1>3. ASSUME NEW r \in ReservationIds, NEW item \in Items,
             NEW now \in TransactionTimes, CreateReservation(r, item, now)
      PROVE  Moves /\ NoSeatsBefore'
  BY <1>3, CreateReservationMoves
<1>4. ASSUME NEW r \in ReservationIds, ReleaseReservation(r)
      PROVE  Moves /\ NoSeatsBefore'
  BY <1>4, FinalizeMoves DEF ReleaseReservation, catalog, paymentTables
<1>5. ASSUME NEW r \in ReservationIds, ExpireReservation(r)
      PROVE  Moves /\ NoSeatsBefore'
  BY <1>5, FinalizeMoves DEF ExpireReservation, catalog, paymentTables
<1>6. ASSUME NEW k \in CheckoutKeys, NEW item \in Items,
             NEW now \in TransactionTimes, CheckoutDirect(k, item, now)
      PROVE  Moves /\ NoSeatsBefore'
  BY <1>6, CheckoutDirectMoves
<1>7. ASSUME NEW k \in CheckoutKeys, NEW item \in Items, NEW r \in ReservationIds,
             NEW now \in TransactionTimes, CheckoutReservation(k, r, item, now)
      PROVE  Moves /\ NoSeatsBefore'
  BY <1>7, ConversionMovesNothing
<1>8. ASSUME NEW k \in CheckoutKeys, NEW item \in Items, NEW r \in ReservationIds,
             NEW now \in TransactionTimes,
             CheckoutExpiredReservation(k, r, item, now)
      PROVE  Moves /\ NoSeatsBefore'
  BY <1>8, FinalizeMoves DEF CheckoutExpiredReservation, catalog, paymentTables
<1>9. ASSUME NEW k \in CheckoutKeys, NEW now \in TransactionTimes,
             ExpirePendingOrder(k, now)
      PROVE  Moves /\ NoSeatsBefore'
  BY <1>9, OrderReturns DEF ExpirePendingOrder, catalog, paymentTables
<1>10. ASSUME NEW c \in CallbackKeys, NEW k \in CheckoutKeys, NEW t \in ProviderTxs,
              NEW status \in {"settled", "failed"},
              ProcessPaymentWebhook(c, k, t, status)
       PROVE  Moves /\ NoSeatsBefore'
  <2>1. UNCHANGED <<events, reservations>>
    BY <1>10 DEF ProcessPaymentWebhook, catalog
  <2>2. CASE UNCHANGED <<available, orders, tickets>>
    BY <2>1, <2>2, NothingMoves
  <2>3. CASE HandleSettle(k, t)
    <3>1. CASE orders[k].status = "pending"
      BY <2>1, <2>3, <3>1, OrderSells DEF HandleSettle
    <3>2. CASE orders[k].status # "pending"
      BY <2>2, <2>3, <3>2 DEF HandleSettle
    <3> QED  BY <3>1, <3>2
  <2>4. CASE HandleFail(k, t)
    <3>1. CASE orders[k].status = "pending"
      BY <2>1, <2>4, <3>1, OrderReturns DEF HandleFail, CancelOrder
    <3>2. CASE orders[k].status # "pending"
      BY <2>2, <2>4, <3>2 DEF HandleFail
    <3> QED  BY <3>1, <3>2
  <2> QED  BY <1>10, <2>2, <2>3, <2>4 DEF ProcessPaymentWebhook, CallbackForExpired
<1>11. CASE UNCHANGED vars
  BY <1>11, NothingMoves DEF vars
<1> QED  BY <1>1, <1>2, <1>3, <1>4, <1>5, <1>6, <1>7, <1>8, <1>9, <1>10, <1>11
         DEF Next, SaleStep, PaymentStep, Checkout

----------------------------------------------------------------------------
(* The refinement.                                                         *)

LEMMA LedgerInvInit == Init => LedgerInv /\ Ledger!Init
<1> SUFFICES ASSUME Init
             PROVE  LedgerInv /\ Ledger!Init
  OBVIOUS
<1>1. LedgerInv
  BY ConservationInit, PaymentInvInit DEF Init, LedgerInv, NoSeatsBefore
<1>2. \A e \in Events : Held(e) = 0 /\ Sold(e) = 0
  <2> SUFFICES ASSUME NEW e \in Events
               PROVE  Held(e) = 0 /\ Sold(e) = 0
    OBVIOUS
  <2>1. /\ \A r \in ReservationIds : ReservedSeats(e)[r] = 0
        /\ \A k \in CheckoutKeys : OrderedSeats(e, Pending)[k] = 0
        /\ \A k \in CheckoutKeys : TicketedSeats(e)[k] = 0
    BY DEF Init, Missing, ReservedSeats, OrderedSeats, TicketedSeats, Pending
  <2>2. /\ DOMAIN ReservedSeats(e) = ReservationIds
        /\ DOMAIN OrderedSeats(e, Pending) = CheckoutKeys
        /\ DOMAIN TicketedSeats(e) = CheckoutKeys
    BY DEF ReservedSeats, OrderedSeats, TicketedSeats
  <2>3. /\ SeatTotal(ReservedSeats(e)) = 0
        /\ SeatTotal(OrderedSeats(e, Pending)) = 0
        /\ SeatTotal(TicketedSeats(e)) = 0
    BY <2>1, <2>2, SeatTotalZero
  <2> QED  BY <2>3 DEF Held, Sold
<1>3. Ledger!Init
  BY <1>2 DEF Init, Ledger!Init, Held, Sold, Pending
<1> QED  BY <1>1, <1>3

LEMMA LedgerStep ==
  LedgerInv /\ [Next]_vars => LedgerInv' /\ [Ledger!Next]_(Ledger!ledger)
<1> SUFFICES ASSUME LedgerInv, [Next]_vars
             PROVE  LedgerInv' /\ [Ledger!Next]_(Ledger!ledger)
  OBVIOUS
<1>1. ConservationInv' /\ PaymentInv'
  BY ConservationStep, PaymentInvStep DEF LedgerInv
<1>2. TypeOK /\ TypeOK'
  BY <1>1 DEF LedgerInv, ConservationInv
<1>3. Moves /\ NoSeatsBefore'
  BY <1>2, LedgerMoves
<1> QED  BY <1>1, <1>2, <1>3, MovesAreLedgerSteps DEF LedgerInv

\* The purchase path moves seats only as the abstract ledger allows: whatever
\* sweepers, checkouts and webhooks do, an event opens once with all its seats
\* free, seats are held only when they are free, sold or returned only while
\* they are held, and a sold seat is never held or free again.
THEOREM ImplementsLedger == Spec => LedgerSpec
BY LedgerInvInit, LedgerStep, PTL DEF Spec, LedgerSpec, Ledger!Spec
=============================================================================
