SPECIFICATION FairSpec
CONSTANTS
    c1 = c1
    c2 = c2
    Conns = {c1, c2}
    NoConn = NoConn
    Streams <- MCStreams
    HeaderLength = 2
    jpegMaxBytes = 2
INVARIANTS FramesAsSent BufferBounded
PROPERTIES OnlyOpenOnesAreKept
CHECK_DEADLOCK FALSE
