CONSTANTS
    soon = soon
    thirty = thirty
    Null = Null
    NotANumber = NotANumber
    OrderIdMark = OrderIdMark
    Texts = {soon}
    NonStrings = {thirty}
    EarliestTime <- MCEarliestTime
    LatestTime = 120000
    Templates <- MCTemplates
    Names <- MCNames
    Stem <- MCStem
    Files <- MCFiles
    Environments <- MCEnvironments
    CommandLines <- PausedCommandLines
    CreatedAt <- MCCreatedAt
    QueueLimit = 2
    MaxLosses = 1
    MaxOrders = 3
SPECIFICATION Spec
CHECK_DEADLOCK FALSE
INVARIANT PauseFollowsStep
