SPECIFICATION HandoffSpec
CONSTANTS
    viewer = viewer
    headset = headset
    Clients <- Viewer
    Away <- Viewer
    StaleNs = 1
    Lengths <- One
    NoPose = NoPose
    Uptimes <- UpDifferently
    MaxElapsed = 2
    MaxPoses = 1
    MaxReboots = 0
    MaxConns = 1
PROPERTIES LivePoseUsed
CHECK_DEADLOCK FALSE
