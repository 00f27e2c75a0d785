CONSTANTS
    NPROC = 4
    Programs <- MCJoinAndExit
    Targets = {2, 3}
    Limits = {0, 3, 5}
    ImageSize = 1
    MaxSize = 5
    MaxPid = 5
    MaxThreads = 4
SPECIFICATION Spec
INVARIANTS NoPanic
\* A program that makes no more calls runs on in user mode, which is no step.
CHECK_DEADLOCK FALSE
