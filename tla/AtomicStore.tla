----------------------------- MODULE AtomicStore -----------------------------
(***************************************************************************)
(* What a crash-safe disk promises the file system: the blocks the running *)
(* system sees (memory), and those a crash leaves (store).  The store only *)
(* moves to what memory holds, for a set of blocks at once, and a crash     *)
(* takes memory back to the store.                                         *)
(***************************************************************************)
CONSTANTS Block, Data

VARIABLES store, memory

vars == <<store, memory>>

TypeOK == store \in [Block -> Data] /\ memory \in [Block -> Data]

Init == TypeOK /\ memory = store

Write(b, v) ==
    /\ memory' = [memory EXCEPT ![b] = v]
    /\ UNCHANGED store

Commit(S) ==
    /\ store' = [b \in Block |-> IF b \in S THEN memory[b] ELSE store[b]]
    /\ UNCHANGED memory

Crash ==
    /\ memory' = store
    /\ UNCHANGED store

Next ==
    \/ \E b \in Block, v \in Data : Write(b, v)
    \/ \E S \in SUBSET Block : Commit(S)
    \/ Crash

Spec == Init /\ [][Next]_vars
=============================================================================
