------------------------------ MODULE MCThreads ------------------------------
(* Small instances of Threads for TLC: the programs that processes run. *)
EXTENDS Threads

Program(n, main, thread) ==
    [threads |-> n, calls |-> ({"main"} \X main) \cup ({"thread"} \X thread)]

\* Threads that the main thread makes and joins while memory grows.
Joining == Program(4, {"create", "join", "sbrk", "setmemorylimit"}, {"thread_exit"})

\* Threads fork, and the child uses the stacks they leave.
Forking == Program(4, {"create", "join"}, {"fork late", "thread_exit"})

\* Any thread may end the process; its children are handed to init.
Exiting == Program(4, {"create", "fork", "wait", "exit", "sleep"},
                      {"wait", "exit", "thread_exit"})

\* A thread replaces the process, which has children or other threads.
ReplacingParent == Program(2, {"create", "fork", "sleep"}, {"exec late", "thread_exit"})
ReplacingMany   == Program(3, {"create", "sleep"}, {"exec late", "thread_exit"})

\* Processes are killed, each at most once.
Killing == Program(4, {"create", "fork", "sleep", "wait", "kill"}, {"thread_exit"})

MCPrograms == {Joining, Forking, Exiting, ReplacingParent, ReplacingMany, Killing}

\* A thread calls exit() while the main thread is in thread_join.
MCJoinAndExit == {Program(3, {"create", "join"}, {"exit"})}

ASSUME ProgramsAreOrderly == AllOrderly

=============================================================================
