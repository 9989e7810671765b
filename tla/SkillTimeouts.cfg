SPECIFICATION FairSpec
CONSTANTS
    Tasks = {main}
    Main = main
    Invs <- TwoInvs
    MaxRequests = 2
    MaxDepth = 4
    BodyHabits <- OnlySelf
    StopOutcomes <- AnsweredOutcomes
INVARIANTS StopOnlyWhenAsked EndIsReported
PROPERTIES StopIsReported
CHECK_DEADLOCK FALSE
