-------------------------------- MODULE MLFQ --------------------------------
(***************************************************************************)
(* The multi-level feedback queue of Project1/xv6-public/proc_mlfq.c as    *)
(* operators on the scheduler's data.                                      *)
(*                                                                         *)
(* The C functions run one after the other under ptable.lock and each      *)
(* reads what the one before it wrote, so every function is an operator    *)
(* from a scheduler state s to the scheduler state it leaves.  A doubly    *)
(* linked list is the sequence of its elements, head first.  A process is  *)
(* the index of its slot in ptable.proc; NULL is 0.  A panic sets s.panic: *)
(* nothing runs after it.                                                  *)
(***************************************************************************)
EXTENDS Integers, Sequences, SequencesExt

CONSTANTS NPROC,              \* slots of the process table (param.h: 64)
          MAX_TIME_QUANTUM,   \* ticks per level (param.h: 4, 6, 8)
          MLFQMAXPRIORITY,    \* largest priority value (param.h: 3)
          MLFQBOOSTTIME       \* ticks between boosts (param.h: 100)

Proc  == 1 .. NPROC
NULL  == 0
L0    == 0
L1    == 1
L2    == 2
Level == L0 .. L2

ASSUME MLFQAssumption ==
    /\ NPROC \in Nat \ {0}
    /\ MAX_TIME_QUANTUM \in [Level -> Nat \ {0}]
    /\ MLFQMAXPRIORITY \in Nat
    /\ MLFQBOOSTTIME \in Nat \ {0}

ProcState == {"UNUSED", "EMBRYO", "SLEEPING", "RUNNABLE", "RUNNING", "ZOMBIE"}
MLFQState == {"IDLE", "LOCKED", "UNLOCK_REQUIRE"}

\* struct _MLFQ with the scheduling fields of struct proc beside it.
SchedState ==
    [state       : MLFQState,
     locked_proc : Proc \cup {NULL},
     queue       : [Level -> Seq(Proc)],
     l2q_enter_id: Nat,
     pstate      : [Proc -> ProcState],
     level       : [Proc -> Level \cup {-1}],
     tick_left   : [Proc -> Int],
     pvalue      : [Proc -> 0 .. MLFQMAXPRIORITY],
     enter_id    : [Proc -> Nat],
     panic       : BOOLEAN]

InitMLFQ ==
    [state        |-> "IDLE",
     locked_proc  |-> NULL,
     queue        |-> [l \in Level |-> <<>>],
     l2q_enter_id |-> 0,
     pstate       |-> [p \in Proc |-> "UNUSED"],
     level        |-> [p \in Proc |-> -1],
     tick_left    |-> [p \in Proc |-> 0],
     pvalue       |-> [p \in Proc |-> 0],
     enter_id     |-> [p \in Proc |-> 0],
     panic        |-> FALSE]

-----------------------------------------------------------------------------
(* The order of the L2 queue. *)

SamePriority(s, p, q) ==
    /\ s.pvalue[p] = s.pvalue[q]
    /\ s.enter_id[p] = s.enter_id[q]

\* compare_priority(p, q) > 0: p goes before q, a smaller value being the
\* higher priority and, between equals, the earlier entry.
HigherPriority(s, p, q) ==
    \/ s.pvalue[p] < s.pvalue[q]
    \/ s.pvalue[p] = s.pvalue[q] /\ s.enter_id[p] < s.enter_id[q]

\* The indices of the L2 queue at which push_by_priority stops: p is not
\* higher than the element there.
Stops(s, p) ==
    {i \in 1 .. Len(s.queue[L2]) : ~ HigherPriority(s, p, s.queue[L2][i])}

InsertPosition(s, p) ==
    IF Stops(s, p) = {} THEN Len(s.queue[L2]) + 1
                        ELSE CHOOSE i \in Stops(s, p) : \A j \in Stops(s, p) : i <= j

PushByPriority(s, p) ==
    LET i == InsertPosition(s, p)
    IN  [s EXCEPT !.queue[L2] = InsertAt(@, i, p),
                  !.panic = \/ @
                            \/ /\ i <= Len(s.queue[L2])
                               /\ SamePriority(s, p, s.queue[L2][i])]

-----------------------------------------------------------------------------
(* Entering and leaving the queues. *)

PushHead(s, l, p) == [s EXCEPT !.queue[l] = <<p>> \o @]
PushTail(s, l, p) == [s EXCEPT !.queue[l] = Append(@, p)]
PopTail(s, l)     == [s EXCEPT !.queue[l] = Front(@)]

\* Mutant: the entry counter is not advanced.
InsertKeepsCounter(s, p, l, set_priority, set_timequantum) ==
    LET t == [s EXCEPT
                !.pvalue[p]    = IF set_priority THEN MLFQMAXPRIORITY ELSE @,
                !.tick_left[p] = IF set_timequantum THEN MAX_TIME_QUANTUM[l] ELSE @,
                !.level[p]     = l]
    IN  IF l = L2
        THEN PushByPriority([t EXCEPT !.enter_id[p] = t.l2q_enter_id], p)
        ELSE PushHead(t, l, p)

InsertQueue(s, p, l, set_priority, set_timequantum) ==
    LET t == [s EXCEPT
                !.pvalue[p]    = IF set_priority THEN MLFQMAXPRIORITY ELSE @,
                !.tick_left[p] = IF set_timequantum THEN MAX_TIME_QUANTUM[l] ELSE @,
                !.level[p]     = l]
    IN  IF l = L2
        THEN PushByPriority([t EXCEPT !.enter_id[p] = t.l2q_enter_id,
                                      !.l2q_enter_id = @ + 1], p)
        ELSE PushHead(t, l, p)

\* A process that is in no list has null links, and unlinking it clears both
\* ends of the list.
DeleteFromL2(s, p) ==
    IF p \in ToSet(s.queue[L2])
    THEN LET i == CHOOSE i \in 1 .. Len(s.queue[L2]) : s.queue[L2][i] = p
         IN  [s EXCEPT !.queue[L2] = RemoveAt(@, i)]
    ELSE [s EXCEPT !.queue[L2] = <<>>]

AbleQueues(s) == {l \in Level : s.queue[l] # <<>>}
AbleQueue(s)  == CHOOSE l \in AbleQueues(s) : \A k \in AbleQueues(s) : l <= k

\* Mutant: the queues are looked at though the scheduler is locked.
SelectIgnoresLock(s) ==
    IF AbleQueues(s) = {} THEN s.locked_proc ELSE Last(s.queue[AbleQueue(s)])

\* mlfq_select_target: the process it returns (NULL when there is none), and
\* the state it leaves.
SelectTarget(s) ==
    CASE s.state = "LOCKED" -> s.locked_proc
      [] s.state # "LOCKED" /\ AbleQueues(s) = {} -> NULL
      [] OTHER -> Last(s.queue[AbleQueue(s)])

AfterSelect(s) ==
    CASE s.state = "LOCKED" -> s
      [] s.state = "UNLOCK_REQUIRE" -> [s EXCEPT !.panic = TRUE]
      [] s.state = "IDLE" /\ AbleQueues(s) = {} -> s
      [] OTHER -> [PopTail(s, AbleQueue(s)) EXCEPT
                     !.panic = @ \/ s.pstate[SelectTarget(s)] # "RUNNABLE"]

-----------------------------------------------------------------------------
(* A process that ran goes back. *)

\* Mutant: the priority value is lowered below zero.
AgeBelowZero(s, p) ==
    CASE s.level[p] \in {L0, L1} -> InsertQueue(s, p, s.level[p] + 1, FALSE, TRUE)
      [] s.level[p] = L2 ->
           PushByPriority(
             [s EXCEPT !.pvalue[p] = @ - 1,
                       !.tick_left[p] = MAX_TIME_QUANTUM[L2]], p)
      [] OTHER -> [s EXCEPT !.panic = TRUE]

\* The tick just used was the last of the quantum.
DemoteOrAge(s, p) ==
    CASE s.level[p] \in {L0, L1} -> InsertQueue(s, p, s.level[p] + 1, FALSE, TRUE)
      [] s.level[p] = L2 ->
           PushByPriority(
             [s EXCEPT !.pvalue[p] = IF @ > 0 THEN @ - 1 ELSE @,
                       !.tick_left[p] = MAX_TIME_QUANTUM[L2]], p)
      [] OTHER -> [s EXCEPT !.panic = TRUE]

SameLevel(s, p) ==
    CASE s.level[p] \in {L0, L1} -> PushHead(s, s.level[p], p)
      [] s.level[p] = L2 -> PushByPriority(s, p)
      [] OTHER -> [s EXCEPT !.panic = TRUE]

BackToMLFQ(s, p) ==
    LET t == [s EXCEPT !.tick_left[p] = @ - 1]
    IN  CASE s.state = "LOCKED" -> t
          [] s.state = "UNLOCK_REQUIRE" ->
               [PushTail(s, L0, p) EXCEPT !.state = "IDLE"]
          [] s.state = "IDLE" /\ s.tick_left[p] = 0 -> [s EXCEPT !.panic = TRUE]
          [] s.state = "IDLE" /\ s.tick_left[p] = 1 -> DemoteOrAge(t, p)
          [] OTHER -> SameLevel(t, p)

\* Mutant: a queued process keeps its place.
SetWithoutRelocating(s, p, priority) ==
    IF s.pstate[p] \in {"RUNNING", "SLEEPING", "RUNNABLE"}
    THEN [s EXCEPT !.pvalue[p] = priority] ELSE s

RelocateByPriority(s, p, priority) ==
    LET t == [s EXCEPT !.pvalue[p] = priority]
    IN  CASE s.pstate[p] \in {"RUNNING", "SLEEPING"} -> t
          [] s.pstate[p] = "RUNNABLE" /\ s.level[p] = L2 ->
               PushByPriority(DeleteFromL2(t, p), p)
          [] s.pstate[p] = "RUNNABLE" /\ s.level[p] # L2 -> t
          [] OTHER -> s

-----------------------------------------------------------------------------
(* Boost and the scheduler lock. *)

Live == {"RUNNABLE", "RUNNING", "SLEEPING"}

\* Mutant: the boost drops the lock but does not queue its holder.
BoostLosesHolder(s) ==
    [s EXCEPT !.state = "IDLE", !.locked_proc = NULL,
              !.queue = [l \in Level |-> IF l = L0 THEN @[L2] \o @[L1] \o @[L0] ELSE <<>>],
              !.level = [p \in Proc |-> IF s.pstate[p] \in Live THEN L0 ELSE @[p]],
              !.tick_left = [p \in Proc |-> IF s.pstate[p] \in Live
                                            THEN MAX_TIME_QUANTUM[L0] ELSE @[p]]]

\* Mutant: the boost gives the holder new ticks instead of taking the lock.
BoostRenewsLock(s) ==
    [s EXCEPT
       !.queue = [l \in Level |-> IF l = L0 THEN @[L2] \o @[L1] \o @[L0] ELSE <<>>],
       !.level = [p \in Proc |-> IF s.pstate[p] \in Live THEN L0 ELSE @[p]],
       !.tick_left = [p \in Proc |-> IF s.pstate[p] \in Live
                                     THEN MAX_TIME_QUANTUM[L0] ELSE @[p]]]

\* Popping the tail of L1 (then of L2) and pushing it at the head of L0, until
\* it is empty, puts the whole list before L0 in its own order.  Every element
\* of a queue is given L0's values, and so is every live process.
PriorityBoost(s) ==
    LET unlocked == IF s.state = "LOCKED" THEN {s.locked_proc} ELSE {}
        t == IF s.state = "LOCKED"
             THEN [PushTail(s, L0, s.locked_proc) EXCEPT !.state = "IDLE",
                                                         !.locked_proc = NULL]
             ELSE s
        reset == {p \in Proc : s.pstate[p] \in Live} \cup unlocked
                    \cup ToSet(s.queue[L1]) \cup ToSet(s.queue[L2])
    IN  [t EXCEPT
           !.queue = [l \in Level |-> IF l = L0 THEN @[L2] \o @[L1] \o @[L0] ELSE <<>>],
           !.level = [p \in Proc |-> IF p \in reset THEN L0 ELSE @[p]],
           !.pvalue = [p \in Proc |-> IF p \in reset THEN MLFQMAXPRIORITY ELSE @[p]],
           !.tick_left = [p \in Proc |-> IF p \in reset THEN MAX_TIME_QUANTUM[L0]
                                                        ELSE @[p]]]

\* scheduler_lock when the mlfq is not locked yet (it also clears ticks).
SchedulerLock(s, p) ==
    [s EXCEPT !.state = "LOCKED", !.locked_proc = p, !.tick_left[p] = MLFQBOOSTTIME]

\* scheduler_unlock when the mlfq is locked.
SchedulerUnlock(s) ==
    IF s.locked_proc = NULL
    THEN [s EXCEPT !.panic = TRUE]
    ELSE [s EXCEPT !.state = "UNLOCK_REQUIRE",
                   !.locked_proc = NULL,
                   !.pvalue[s.locked_proc] = MLFQMAXPRIORITY,
                   !.tick_left[s.locked_proc] = MAX_TIME_QUANTUM[L0],
                   !.level[s.locked_proc] = L0]

\* Mutant: a holder that exits keeps the lock.
UnlockOnlyOnSleep(s, p) ==
    IF s.state = "LOCKED" /\ s.pstate[p] = "SLEEPING" /\ p = s.locked_proc
    THEN [SchedulerUnlock(s) EXCEPT !.state = "IDLE"]
    ELSE s

CheckLockStateWhenSched(s, p) ==
    IF /\ s.state = "LOCKED"
       /\ s.pstate[p] \in {"SLEEPING", "ZOMBIE"}
       /\ p = s.locked_proc
    THEN [SchedulerUnlock(s) EXCEPT !.state = "IDLE"]
    ELSE s

CheckWakeup(s, p) == InsertQueue(s, p, s.level[p], FALSE, TRUE)
=============================================================================
