CONSTANTS
    o1 = o1
    o2 = o2
    c1 = c1
    Null = Null
    Malformed = Malformed
    Orders = {o1}
    Customers = {c1}
    Inputs <- MCInputs
    Records <- OneOrderRecords
    StateTtl = 9
    MaxTime = 2
    MaxLog = 2
    MaxRestarts = 0
    MaxResubmits = 1
SPECIFICATION JobSpec
CHECK_DEADLOCK FALSE
PROPERTY ResubmitRestores
