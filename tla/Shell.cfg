CONSTANTS
    NPROC = 5
    NOFILE = 5
    NFILE = 3
    NPIPE = 1
    PIPESIZE = 2
    WRAP = 4
    INPUT_BUF = 3
    BUFSIZE = 2
    Blank = "_"
    Byte <- MCByte
    Scripts <- MCScripts
    Parse <- MCParse
SPECIFICATION Spec
INVARIANTS PipesAreFifo SleepersHaveReason EndsAreOpen ConsoleCanBeRead
PROPERTIES CommandsEnd
CHECK_DEADLOCK FALSE
