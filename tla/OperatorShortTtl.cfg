CONSTANTS
    o1 = o1
    o2 = o2
    c1 = c1
    c2 = c2
    Null = Null
    Orders = {o1, o2}
    Customers = {c1, c2}
    Inputs <- ExpiryInputs
    StateTtl = 2
    MaxTime = 4
SPECIFICATION FairSpec
INVARIANTS AwaitingIsArmed NeverEarly SmsSpacing
PROPERTY ImplementsDelayAlert
