SPECIFICATION Spec
CONSTANTS
    Transforms <- Symmetries
    Identity <- Still
    Compose <- Then
    Inverted <- Back
    Refused = Refused
    WRF = WRF
    TCP = TCP
    table = table
    tray = tray
    pick = pick
    place = place
    d1 = d1
    d2 = d2
    FrameNames = {table, tray, TCP}
    PoseNames = {pick, place}
    CameraNames = {camera}
    Edits <- TurnOrFlip
    Mounts <- OnlyTurn
    MaxEntries = 2
    Devices = {d1, d2}
    Tools <- OneToolTwoTcps
INVARIANT CameraFramesKept
SYMMETRY Interchangeable
