SPECIFICATION FairSpec
CONSTANTS
    c1 = c1
    c2 = c2
    Conns <- MCConns
    NoConn = NoConn
    MaxAttempt = 1
    StaleTicks = 1
INVARIANTS FramesAsNegotiated
PROPERTIES ReconnectsOrWaits
CHECK_DEADLOCK FALSE
