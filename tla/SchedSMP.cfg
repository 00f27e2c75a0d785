CONSTANTS
    NPROC = 3
    MAX_TIME_QUANTUM <- MCQuantum
    MLFQMAXPRIORITY = 0
    MLFQBOOSTTIME = 2
    NCPU = 2
    Lockers = {}
    Calls = {"fork", "exit", "wait", "kill"}
    Priorities = {0}
    MaxEnterId = 1
SPECIFICATION Spec
INVARIANTS QueuesAreSound NoExitIsMissed
PROPERTIES LifecycleIsKept
\* At the bound on the entry counter the model stops.
CHECK_DEADLOCK FALSE
