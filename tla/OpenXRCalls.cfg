SPECIFICATION Spec
CONSTANTS
    s1 = s1
    s2 = s2
    p1 = p1
    Handles <- TwoSessions
    Spaces = {p1}
    Names <- MCNames
    MaxPaths = 2
    MaxLength = 3
    PathsIn = {"plain"}
    Capacity = 2
    Period = 1
    NoSession = NoSession
    NoEvent = NoEvent
    MaxTime = 1
    MaxFrames = 2
SYMMETRY Symmetry
INVARIANTS PathsAreStable DrainedAppKnowsState
PROPERTIES RingIsQueue DisplayTimesAdvance
CHECK_DEADLOCK FALSE
