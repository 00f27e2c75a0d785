CONSTANTS
    p1 = p1
    p2 = p2
    Proc = {p1, p2}
    NINODES = 9
    Name <- MCName
    Image <- MCImage
    NFILE = 2
    NOFILE = 2
    MAX_SYMBOLIC_DEPTH = 2
    MAXPATHDEPTH = 2
    Programs <- MCMakeAndRemove
    MaxCalls = 1
SPECIFICATION Spec
INVARIANTS NoCircle
CHECK_DEADLOCK FALSE
