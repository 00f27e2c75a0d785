CONSTANTS
    NPROC = 3
    MAX_TIME_QUANTUM <- MCQuantum
    MLFQMAXPRIORITY = 1
    MLFQBOOSTTIME = 3
    NCPU = 1
    Lockers = {}
    Calls = {"fork", "yield", "setPriority"}
    Priorities = {0, 1}
    MaxEnterId = 3
SPECIFICATION Spec
INVARIANTS TypeOK NoPanic 
\* At the bound on the entry counter the model stops.
CHECK_DEADLOCK FALSE
