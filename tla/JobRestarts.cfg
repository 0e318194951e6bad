CONSTANTS
    o1 = o1
    o2 = o2
    c1 = c1
    Null = Null
    Malformed = Malformed
    Orders = {o1}
    Customers = {c1}
    Inputs <- MCInputs
    Records <- OneOrderRecords
    StateTtl = 9
    MaxTime = 3
    MaxLog = 3
    MaxRestarts = 2
    MaxResubmits = 0
SPECIFICATION JobSpec
CHECK_DEADLOCK FALSE
INVARIANTS JobTypeOK StateMatchesTopic WaitingIsArmedInJob DeliveredNotEarly DuplicatesBounded
PROPERTY CheckpointedAlertIsFinal
