SPECIFICATION FairSpec
CONSTANTS
    c1 = c1
    c2 = c2
    Conns <- MCConns
    NoConn = NoConn
    MaxAttempt = 2
INVARIANTS NoSecondConnection LinesOfOneConnection PosesFollowHello StopIsFinal
PROPERTIES HealthyIsKept FirstRetryIsQuick ReconnectsOrWaits
CHECK_DEADLOCK FALSE
