CONSTANTS
    Events = {e1}
    Buyers = {b1, b2}
    ReservationIds = {r1, r2}
    CheckoutKeys = {k1, k2}
    ProviderTxs = {t1}
    CallbackKeys = {c1}
    NoReservation = NoReservation
    Seats = 3
    SaleEnd = 2
    TotalSeats <- MCTotalSeats
    EndsAt <- MCEndsAt
    MaxQuantity = 2
    HoldTtl = 1
    PaymentWindow = 2
    MaxClock = 3
    MaxLag = 1
SPECIFICATION Spec
INVARIANTS
    TypeOK
    SeatsConserved
    ConversionMatchesOrder
PROPERTIES
    FinalOutcomes
    LedgerSpec
SYMMETRY Interchangeable
CHECK_DEADLOCK FALSE
