SPECIFICATION FairConsumptionSpec
CONSTANTS
    Admissions = {a1}
    Commands = {reserve, checkout}
    DirectCheckouts = {checkout}
    Requests = {q1, q2}
    Reclaimers = {k1}
    NoResult = NoResult
    NoAdmission = NoAdmission
    NoCommand = NoCommand
    Attempts = 2
    LastEpoch = 2
INVARIANTS OnePurchasePerAdmission AnswersMatchLedger
PROPERTIES SlotReturnsOnResult NoPurchaseAfterReset ClaimsSettle
CHECK_DEADLOCK FALSE
