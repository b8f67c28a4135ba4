SPECIFICATION PathsSpec
CONSTANTS
    Codecs = {mockJSON, jpeg}
    Payloads <- MCShort
    MaxPayloadSize = 2
    MaxChunks = 4
    MaxPending = 1
    MaxAge = 1
    MaxStamp = 2
    MaxNow = 2
    viewer = viewer
    headset = headset
    Clients <- Both
    Away <- Viewer
    StaleNs = 1
    Lengths <- UsualLengths
    NoPose = NoPose
    Uptimes <- UpDifferently
    MaxElapsed = 3
    MaxPoses = 2
    MaxReboots = 1
    MaxConns = 2
INVARIANTS DeliveredWhole NothingForgotten PendingBounded EyesAgree NoStalePose
PROPERTIES ChannelSpec OldestGoFirst FreshPoseUsed
CHECK_DEADLOCK FALSE
