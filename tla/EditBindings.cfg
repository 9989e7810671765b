SPECIFICATION Spec
CONSTANTS
    Sources <- SmallSources
    Diffs <- SomeDiffs
    Descriptions = {d1}
    MaxEdits = 3
    MaxNested = 2
    MaxDecisions = 2
    Bindings <- AllBindings
INVARIANTS TypeOK NoTwins DecidedOnce EveryEditAccounted
CHECK_DEADLOCK FALSE
