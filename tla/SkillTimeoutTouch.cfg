SPECIFICATION Spec
CONSTANTS
    Tasks = {main}
    Main = main
    Invs <- TwoInvs
    MaxRequests = 1
    MaxDepth = 3
    BodyHabits <- OnlyTouch
    StopOutcomes <- AnsweredOutcomes
INVARIANTS StopOnlyWhenAsked
CHECK_DEADLOCK FALSE
