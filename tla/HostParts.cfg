CONSTANTS
    a = a
    b = b
    open = open
    late_key = late_key
    c = c
    odd = odd
    part = part
    Broken = Broken
    Stray = Stray
    Times <- MCTimes
    Counts <- MCCounts
    Names <- MCNames
    Ids <- MCIds
    MaxCommands = 3
    MaxEntries = 3
    Keys <- MCKeys
    MaxNodes = 3
    MaxVisits = 4
    MaxItems = 2
    MaxDepth = 2
    MaxRecordingSamples = 3
    GapThreshold = 2
    RowTime = 2
    Charts <- MCCharts
    MaxPoints = 2
    MinInterval = 2
    MaxTime = 4
    MaxPushes = 4
    Programs <- MCPrograms
    NoRecord = NoRecord
    EmptyProgram = a
    MaxRevision = 3
    MaxPasses = 2
    ShapeNames <- MCShapeNames
    Partners <- MCShapeNames
    NoAttachment = NoAttachment
    MaxContext = 2
    MaxShapes = 1
    Banks <- MCBanks
    MaxSignals = 2
    MaxLayers = 4
    NoRobot = NoRobot
    Files <- MCIds
    Sources <- MCIds
    NoFile = NoFile
    EmptySource = a
    NoProgram = NoProgram
    MaxPrograms = 3
    MaxOpen = 2
    Callbacks <- MCCallbacks
    Raising <- MCRaising
    MaxVersion = 3
    MaxNested = 2
    Threads <- MCIds
    Backends <- MCBackends
    NoWrapper = NoWrapper
    MaxWrappers = 3
    Executions = {a}
    Users = {b}
    Calls <- MCCalls
    Own = "spray"
    OwnMarkers <- MCOwnMarkers
    Root = Root
    Host = Host
    MaxRequests = 2
    MaxIndex = 2
SPECIFICATION HostSpec
INVARIANTS
    ReplayTruthful
    SpansReplayable
    RowsMatched
    SkillsUnambiguous
    PluginsShown
    OrientationKept
    SnapshotsTruthful
    LatestWasDrawn
    PredictionAnswersPlan
    StaleAttachmentsRefused
    EveryListenerCurrent
    CalledOncePerRound
    CleanIsOnDisk
    SyncStandsIn
    ArmAtRest
    PreviewAgrees
    SignalsSeparate
    ClientsSeenThrough
CHECK_DEADLOCK FALSE
