CONSTANTS
    Null = Null
    Suite <- MCSuite
    Mixed = "mixed-orders"
    Distribution <- MCDistribution
    LateScenarios <- MCLateScenarios
    Expected <- MCExpected
    OrdersCount = 2
    MaxMessages = 5
    LeftOver <- MCLeftOver
    Services <- MCServices
    Invocations <- MCInvocations
    PollLimit = 2
    MaxFaults = 1
SPECIFICATION FairSpec
CHECK_DEADLOCK FALSE
INVARIANTS TypeOK PassesAreEarned LateOrdersAreAlerted NoSmsIsCountedTwice
PROPERTY Terminates
