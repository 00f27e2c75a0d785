----------------------------- MODULE AtomicCalls -----------------------------
(***************************************************************************)
(* What the log of xv6 promises: the writes of a call become durable with  *)
(* all the others of that call, and of every call that ran with it.  What  *)
(* a crash leaves is what memory was at a moment when no call was active.  *)
(***************************************************************************)
CONSTANTS Caller, Block, Data

VARIABLES
    store,    \* what a crash leaves
    memory,   \* what a read returns
    active    \* the callers between begin_op() and end_op()

vars == <<store, memory, active>>

Init == store \in [Block -> Data] /\ memory = store /\ active = {}

Begin(c) ==
    /\ c \notin active /\ active' = active \cup {c}
    /\ UNCHANGED <<store, memory>>

Write(c, b, v) ==
    /\ c \in active
    /\ memory' = [memory EXCEPT ![b] = v]
    /\ UNCHANGED <<store, active>>

End(c) ==
    /\ c \in active /\ active' = active \ {c}
    /\ UNCHANGED <<store, memory>>

Commit ==
    /\ active = {}
    /\ store' = memory
    /\ UNCHANGED <<memory, active>>

Crash ==
    /\ memory' = store /\ active' = {}
    /\ UNCHANGED store

Next ==
    \/ \E c \in Caller :
          \/ Begin(c)
          \/ \E b \in Block, v \in Data : Write(c, b, v)
          \/ End(c)
    \/ Commit
    \/ Crash

Spec == Init /\ [][Next]_vars
=============================================================================
