------------------------------ MODULE Lifecycle ------------------------------
(***************************************************************************)
(* What the process table and the scheduler promise together, without       *)
(* queues, locks, levels or clocks: the states a process goes through       *)
(* (enum procstate), and that a process which runs has a CPU to itself.     *)
(***************************************************************************)
CONSTANTS Proc, CPU, NULL, First

VARIABLES state,    \* the state of each process
          on        \* the process each CPU runs, or NULL

vars == <<state, on>>

Init ==
    /\ state = [p \in Proc |-> IF p = First THEN "RUNNABLE" ELSE "UNUSED"]
    /\ on = [c \in CPU |-> NULL]

Moves(p, from, to) == state[p] = from /\ state' = [state EXCEPT ![p] = to]

Create(p)  == Moves(p, "UNUSED", "EMBRYO")   /\ UNCHANGED on
Discard(p) == Moves(p, "EMBRYO", "UNUSED")   /\ UNCHANGED on
Start(p)   == Moves(p, "EMBRYO", "RUNNABLE") /\ UNCHANGED on
Wake(p)    == Moves(p, "SLEEPING", "RUNNABLE") /\ UNCHANGED on
Reap(p)    == Moves(p, "ZOMBIE", "UNUSED")   /\ UNCHANGED on

Dispatch(c, p) ==
    /\ on[c] = NULL
    /\ Moves(p, "RUNNABLE", "RUNNING")
    /\ on' = [on EXCEPT ![c] = p]

\* p leaves its CPU; a process that exits wakes others as it goes.
Leave(c, p, to, woken) ==
    /\ on[c] = p
    /\ state[p] = "RUNNING"
    /\ woken # {} => to = "ZOMBIE"
    /\ \A q \in woken : state[q] = "SLEEPING"
    /\ state' = [q \in Proc |-> CASE q = p -> to
                                  [] q \in woken -> "RUNNABLE"
                                  [] OTHER -> state[q]]
    /\ on' = [on EXCEPT ![c] = NULL]

Next ==
    \/ \E p \in Proc : Create(p) \/ Discard(p) \/ Start(p) \/ Wake(p) \/ Reap(p)
    \/ \E c \in CPU, p \in Proc :
        \/ Dispatch(c, p)
        \/ \E to \in {"RUNNABLE", "SLEEPING", "ZOMBIE"}, woken \in SUBSET Proc :
               Leave(c, p, to, woken)

Spec == Init /\ [][Next]_vars
-----------------------------------------------------------------------------
States == {"UNUSED", "EMBRYO", "SLEEPING", "RUNNABLE", "RUNNING", "ZOMBIE"}

TypeOK ==
    /\ state \in [Proc -> States]
    /\ on \in [CPU -> Proc \cup {NULL}]

\* A process is RUNNING exactly while a CPU runs it, and then only one does
\* (proc.h: cpu.proc is "The process running on this cpu or null").
Exclusive ==
    /\ \A p \in Proc : state[p] = "RUNNING" <=> \E c \in CPU : on[c] = p
    /\ \A c, d \in CPU : on[c] = on[d] /\ on[c] # NULL => c = d
=============================================================================
