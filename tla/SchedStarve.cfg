CONSTANTS
    NPROC = 3
    MAX_TIME_QUANTUM <- MCQuantum
    MLFQMAXPRIORITY = 0
    MLFQBOOSTTIME = 2
    NCPU = 1
    Lockers = {}
    Calls = {"fork", "yield"}
    Priorities = {0}
    MaxEnterId = 6
SPECIFICATION LiveSpec
PROPERTIES NobodyStarves
\* At the bound on the entry counter the model stops.
CHECK_DEADLOCK FALSE
