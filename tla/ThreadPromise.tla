---------------------------- MODULE ThreadPromise ----------------------------
(***************************************************************************)
(* What the threads of a process are promised, whatever slots and nodes they *)
(* are kept in: a thread that was created ends once, and is joined once,    *)
(* after it has ended, by a thread_join that returns what it returned.      *)
(***************************************************************************)
CONSTANT Thread

VARIABLES live,    \* created and not ended
          done,    \* ended and not joined
          joined   \* what thread_join has returned: pairs <<thread, value>>

vars == <<live, done, joined>>

Init == live = {} /\ done = {} /\ joined = {}

\* The next id is that of no thread before.
Create(t) ==
    /\ t \notin live \cup done
    /\ \A j \in joined : j[1] # t
    /\ live' = live \cup {t}
    /\ UNCHANGED <<done, joined>>

\* thread_exit(t): each thread returns its own id.
End(t) ==
    /\ t \in live
    /\ live' = live \ {t} /\ done' = done \cup {t}
    /\ UNCHANGED joined

Join(t) ==
    /\ t \in done
    /\ done' = done \ {t} /\ joined' = joined \cup {<<t, t>>}
    /\ UNCHANGED live

Next == \E t \in Thread : Create(t) \/ End(t) \/ Join(t)

Spec == Init /\ [][Next]_vars
=============================================================================
