SPECIFICATION QueueSpec
CONSTANTS
    Users = {u1, u2, u3}
    JoinRequests = {r1, r2, r3, r4}
    NoUser = NoUser
    Capacity = 2
    Rate = 1
    RateWindow = 1
    Batch = 2
    Cleanup = 2
    Reclaim = 1
    LeaseTime = 2
    AdmissionTime = 1
    ClaimTime = 1
    MaxWaiting = 2
    MaxEntries = 4
SYMMETRY QueueSymmetry
INVARIANTS IndexesAgree CapacityHeld RateHeld
PROPERTIES FirstComeFirstServed ApprovedClaimSurvives
