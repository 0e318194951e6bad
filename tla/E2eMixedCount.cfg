CONSTANTS
    Null = Null
    Suite <- MCSuite
    Mixed = "mixed-orders"
    Distribution <- MCDistribution
    LateScenarios <- MCLateScenarios
    Expected <- MCExpected
    OrdersCount = 2
    MaxMessages = 100
    LeftOver <- MCLeftOver
    Services <- MCServices
    Invocations <- PlainInvocation
    PollLimit = 2
    MaxFaults = 0
SPECIFICATION FairSpec
CHECK_DEADLOCK FALSE
PROPERTY MixedCountIsItsLateOrders
