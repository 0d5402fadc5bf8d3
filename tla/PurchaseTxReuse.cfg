CONSTANTS
    Events = {e1}
    Buyers = {b1}
    ReservationIds = {}
    CheckoutKeys = {k1, k2}
    ProviderTxs = {t1, t2}
    CallbackKeys = {c1, c2, c3}
    NoReservation = NoReservation
    Seats = 2
    SaleEnd = 2
    TotalSeats <- MCTotalSeats
    EndsAt <- MCEndsAt
    MaxQuantity = 1
    HoldTtl = 1
    PaymentWindow = 1
    MaxClock = 1
    MaxLag = 0
SPECIFICATION Spec
INVARIANT ProviderTxOfOneOrder
CHECK_DEADLOCK FALSE
