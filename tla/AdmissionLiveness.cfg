SPECIFICATION FairQueueSpec
CONSTANTS
    Users = {u1, u2}
    JoinRequests = {r1, r2}
    NoUser = NoUser
    Capacity = 1
    Rate = 1
    RateWindow = 1
    Batch = 1
    Cleanup = 1
    Reclaim = 1
    LeaseTime = 2
    AdmissionTime = 2
    ClaimTime = 1
    MaxWaiting = 2
    MaxEntries = 2
PROPERTIES WaitingEnds SlotsReturn
