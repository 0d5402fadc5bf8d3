CONSTANTS
    Events = {e1}
    Buyers = {b1}
    ReservationIds = {}
    CheckoutKeys = {k1, k2}
    ProviderTxs = {t1, t2, t3}
    CallbackKeys = {c1, c2, c3, c4}
    NoReservation = NoReservation
    Seats = 2
    SaleEnd = 2
    TotalSeats <- MCTotalSeats
    EndsAt <- MCEndsAt
    MaxQuantity = 2
    HoldTtl = 1
    PaymentWindow = 1
    MaxClock = 2
    MaxLag = 1
SPECIFICATION Spec
INVARIANTS
    PaymentRecordsMatchOrder
    TicketsMatchPayment
    AcceptedCallbacksHonoured
PROPERTIES
    FinancialFactsKept
SYMMETRY Interchangeable
CHECK_DEADLOCK FALSE
