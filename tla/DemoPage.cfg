SPECIFICATION DemoPageSpec
CONSTANTS
    Mock = Mock
    Bases = {Mock, b1}
    Users = {u1}
    Buttons = {"s1", "s3", "A"}
    Slots = {f1, f2}
    None = None
    MaxGen = 2
INVARIANTS OneSessionRequest RunningInFlight
PROPERTIES WaitsEnd
CHECK_DEADLOCK FALSE
