CONSTANTS
    o1 = o1
    o2 = o2
    c1 = c1
    c2 = c2
    Null = Null
    Orders = {o1}
    Customers = {c1, c2}
    Inputs <- DeepInputs
    StateTtl = 9
    MaxTime = 4
SPECIFICATION Spec
PROPERTY EqualTimestampIsSkipped
