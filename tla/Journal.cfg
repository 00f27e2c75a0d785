CONSTANTS
    Proc = {p1, p2}
    NONE = NONE
    Homes = {11, 12}
    Calls <- MCCalls
    LOGSIZE = 5
    MAXOPBLOCKS = 2
    NBUF = 3
    MaxCalls = 3
    MaxCrashes = 2
SPECIFICATION Spec
INVARIANTS NoPanic
PROPERTIES CallsAreAtomic CallsEnd
CHECK_DEADLOCK FALSE
