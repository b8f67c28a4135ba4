SPECIFICATION FairSpec
CONSTANTS
    c1 = c1
    c2 = c2
    Conns = {c1, c2}
    NoConn = NoConn
    MaxHellos = 2
    MaxPoses = 2
INVARIANTS OneStreamPerConnection EveryStreamIsOwned LateOnlyAfterDenialOrStop
PROPERTIES PosesInOrder StreamEndsWithConnection
CHECK_DEADLOCK FALSE
