CONSTANTS
    Events = {e1}
    Buyers = {b1}
    ReservationIds = {}
    CheckoutKeys = {k1}
    ProviderTxs = {t1, d1}
    CallbackKeys = {c1, c2}
    NoReservation = NoReservation
    Requests = {q1, q2, q3}
    NoRequest = NoRequest
    DemoBuyers = {b1}
    DemoTx <- MCDemoTx
    Seats = 1
    SaleEnd = 1
    TotalSeats <- MCTotalSeats
    EndsAt <- MCEndsAt
    MaxQuantity = 1
    HoldTtl = 1
    PaymentWindow = 1
    MaxClock = 1
    MaxLag = 0
SPECIFICATION RequestsSpec
INVARIANTS AnswersAreDurable AnswersAgree AnswersStayTrue
PROPERTIES OthersLockKept
SYMMETRY Interchangeable
CHECK_DEADLOCK FALSE
