SPECIFICATION Spec
CONSTANTS
    Words <- Letters
    MaxSource = 2
    MaxDiff = 4
    Ends <- LFOrNone
    DiffLines <- AllLines
INVARIANTS PatchIsExact DiffsInvert EndsKept
CHECK_DEADLOCK FALSE
