CONSTANTS
    NPROC = 2
    MAX_TIME_QUANTUM <- MCQuantum
    MLFQMAXPRIORITY = 0
    MLFQBOOSTTIME = 3
    NCPU = 1
    Lockers = {2}
    Calls = {"fork", "yield", "sleep"}
    Priorities = {0}
    MaxEnterId = 2
SPECIFICATION LiveSpec
INVARIANTS LockHasHolder LockExcludes NoRunnableIsLost
PROPERTIES LockIsReleased
\* At the bound on the entry counter the model stops.
CHECK_DEADLOCK FALSE
