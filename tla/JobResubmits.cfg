CONSTANTS
    o1 = o1
    o2 = o2
    c1 = c1
    Null = Null
    Malformed = Malformed
    Orders = {o1, o2}
    Customers = {c1}
    Inputs <- MCInputs
    Records <- MixedRecords
    StateTtl = 9
    MaxTime = 2
    MaxLog = 2
    MaxRestarts = 1
    MaxResubmits = 1
SPECIFICATION FairJobSpec
CHECK_DEADLOCK FALSE
INVARIANTS StateMatchesTopic DuplicatesBounded
PROPERTY WaitingIsSettledInJob
