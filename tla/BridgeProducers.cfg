SPECIFICATION FairSpec
CONSTANTS
    c1 = c1
    c2 = c2
    Conns = {c1, c2}
    NoConn = NoConn
    s1 = s1
    s2 = s2
    Sources = {s1, s2}
    NoSource = NoSource
    MinSize = 2
    MaxSize = 4
    MaxPacket = 3
    Header = 1
    Requests <- MCRequests
    MaxNumber = 1
    MaxAge = 1
INVARIANTS TokensAreOwned WelcomeIsHonoured AttributedToItsSource
PROPERTIES OnlyLiveProducersSubmit GoesDark
CHECK_DEADLOCK FALSE
