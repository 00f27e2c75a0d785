CONSTANTS
    NPROC = 4
    Programs <- MCPrograms
    Targets = {2, 3}
    Limits = {0, 3, 5}
    ImageSize = 1
    MaxSize = 5
    MaxPid = 5
    MaxThreads = 4
SPECIFICATION LiveSpec
INVARIANTS NoPanic TableIsSound ThreadsBelong StacksAreOwn LimitHolds NoThreadExitIsMissed ParentCanWait
PROPERTIES ThreadsAreKept ExitEndsProcess
\* A program that makes no more calls runs on in user mode, which is no step.
CHECK_DEADLOCK FALSE
