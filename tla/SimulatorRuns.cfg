CONSTANTS
    soon = soon
    thirty = thirty
    Null = Null
    NotANumber = NotANumber
    OrderIdMark = OrderIdMark
    Texts = {soon}
    NonStrings = {thirty}
    EarliestTime <- MCEarliestTime
    LatestTime = 120000
    Templates <- MCTemplates
    Names <- MCNames
    Stem <- MCStem
    Files <- MCFiles
    Environments <- MCEnvironments
    CommandLines <- MCCommandLines
    CreatedAt <- MCCreatedAt
    QueueLimit = 2
    MaxLosses = 1
    MaxOrders = 3
SPECIFICATION FairSpec
CHECK_DEADLOCK FALSE
INVARIANTS TypeOK CompletedIsPublished ExitTellsTheOutcome MixedRunIsAllOrNothing DryRunPublishesNothing DuplicateRepeatsItsStep
PROPERTIES AssignmentIsProportional EtaDoesNotDrift NeverAheadOfScript Terminates
