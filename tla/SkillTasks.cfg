SPECIFICATION Spec
CONSTANTS
    Tasks = {main, helper}
    Main = main
    Invs <- TwoInvs
    MaxRequests = 2
    MaxDepth = 3
    BodyHabits <- AllHabits
    StopOutcomes <- AllOutcomes
ACTION_CONSTRAINT SmallerBeside
INVARIANTS TypeOK CancelNeverSuccess CancelledReportsStop
PROPERTIES NoOpAfterStop StickyCancellation ImplementsLifecycle
CHECK_DEADLOCK FALSE
