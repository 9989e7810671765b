SPECIFICATION Spec
CONSTANTS
    Sources <- SmallSources
    Diffs <- SomeDiffs
    Descriptions = {d1}
    MaxEdits = 3
    MaxNested = 2
    MaxDecisions = 2
    Bindings <- DecidingBindings
INVARIANTS ApprovedIsDropped
CHECK_DEADLOCK FALSE
