CONSTANTS
    Events = {e1}
    Buyers = {b1}
    ReservationIds = {r1, r2}
    CheckoutKeys = {k1, k2}
    ProviderTxs = {t1}
    CallbackKeys = {c1}
    NoReservation = NoReservation
    Seats = 3
    SaleEnd = 2
    TotalSeats <- MCTotalSeats
    EndsAt <- MCEndsAt
    MaxQuantity = 2
    HoldTtl = 1
    PaymentWindow = 1
    MaxClock = 2
    MaxLag = 1
SPECIFICATION FairSpec
PROPERTIES
    ReservationsResolve
    OrdersResolve
CHECK_DEADLOCK FALSE
