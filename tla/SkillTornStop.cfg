SPECIFICATION Spec
CONSTANTS
    Tasks = {main}
    Main = main
    Invs <- TwoInvs
    MaxRequests = 1
    MaxDepth = 2
    BodyHabits <- NoHabits
    StopOutcomes <- OnlyTorn
INVARIANTS EndIsReported
CHECK_DEADLOCK FALSE
