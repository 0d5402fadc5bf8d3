SPECIFICATION FairPollingSpec
CONSTANTS
    Forms = {f1}
    AutoRetries = 1
    None = None
    MaxEpoch = 2
    MaxEntries = 2
    MaxKeys = 1
INVARIANTS OneOpenPurchase QueueWaitHeld
PROPERTIES ViewNeverGoesBack PromotionSeen
CHECK_DEADLOCK FALSE
