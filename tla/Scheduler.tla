------------------------------ MODULE Scheduler ------------------------------
(***************************************************************************)
(* The processes and CPUs of Project1 (proc.c, trap.c, sysproc.c) on top of *)
(* the multi-level feedback queue.                                         *)
(*                                                                         *)
(* A step is what one CPU does while it holds ptable.lock.  Giving up the  *)
(* CPU runs sched() and, under the same lock, the boost check at the end   *)
(* of scheduler()'s loop; choosing a process is the start of the next      *)
(* loop.  The lock is held from one step to the next in two places only:   *)
(* while wakeup1 scans the table, and when a process that slept in wait()  *)
(* resumes, because scheduler() hands it the lock.                         *)
(***************************************************************************)
EXTENDS MLFQ

CONSTANTS NCPU,          \* CPUs
          Lockers,       \* the processes that use the scheduler lock
          Calls,         \* the system calls the workload makes
          Priorities,    \* the values given to setPriority
          MaxEnterId     \* bound on the entry counter of the L2 queue

CPU      == 0 .. NCPU - 1
NoCPU    == -1
INITPROC == 1
Chan     == {"none", "wait", "ticks", "dev"}

ASSUME SchedulerAssumption ==
    /\ NCPU \in Nat \ {0}
    /\ Lockers \subseteq Proc \ {INITPROC}
    /\ Priorities \subseteq 0 .. MLFQMAXPRIORITY
    /\ MaxEnterId \in Nat

VARIABLES
    sched,       \* the mlfq and the scheduling fields of ptable.proc
    parent,      \* proc.parent
    chan,        \* proc.chan; "wait" is the address of the process itself
    killed,      \* proc.killed
    child,       \* the slot a process is filling in fork(), or NULL
    exiting,     \* the process is inside exit()
    cpuproc,     \* cpu.proc
    lock,        \* ptable.lock, when a step leaves it held
    trap0,       \* CPU 0's timer interrupt: "none", or what is left to do
    ticks,       \* modulo MLFQBOOSTTIME
    boost_flag

vars == <<sched, parent, chan, killed, child, exiting, cpuproc, lock, trap0,
          ticks, boost_flag>>
procvars == <<parent, chan, killed, child, exiting>>
timevars == <<trap0, ticks, boost_flag>>

Free == [cpu |-> NoCPU, chan |-> "none", next |-> 0]

\* ptable.lock can be taken.  Nothing runs after a panic.
Up       == ~ sched.panic
LockFree == Up /\ lock = Free

TypeOK ==
    /\ sched \in SchedState
    /\ parent \in [Proc -> Proc \cup {NULL}]
    /\ chan \in [Proc -> Chan]
    /\ killed \in [Proc -> BOOLEAN]
    /\ child \in [Proc -> Proc \cup {NULL}]
    /\ exiting \in [Proc -> BOOLEAN]
    /\ cpuproc \in [CPU -> Proc \cup {NULL}]
    /\ lock \in [cpu : CPU \cup {NoCPU}, chan : Chan, next : 0 .. NPROC]
    /\ trap0 \in {"none", "wake", "yield"}
    /\ ticks \in 0 .. MLFQBOOSTTIME - 1
    /\ boost_flag \in BOOLEAN

\* userinit: the first process is runnable in L0.
Init ==
    /\ sched = InsertQueue([InitMLFQ EXCEPT !.pstate[INITPROC] = "RUNNABLE"],
                           INITPROC, L0, TRUE, TRUE)
    /\ parent = [p \in Proc |-> NULL]
    /\ chan = [p \in Proc |-> "none"]
    /\ killed = [p \in Proc |-> FALSE]
    /\ child = [p \in Proc |-> NULL]
    /\ exiting = [p \in Proc |-> FALSE]
    /\ cpuproc = [c \in CPU |-> NULL]
    /\ lock = Free
    /\ trap0 = "none"
    /\ ticks = 0
    /\ boost_flag = FALSE

-----------------------------------------------------------------------------
(* What the handlers share. *)

\* Entry numbers are compared with those of other processes of L2 only.  While
\* there are none the model starts again at 0, where the code counts on.
Renumber(s) ==
    IF \E p \in Proc : s.pstate[p] \in Live /\ s.level[p] = L2
    THEN s
    ELSE [s EXCEPT !.l2q_enter_id = 0, !.enter_id = [p \in Proc |-> 0]]

\* The bound on the entry counter is part of every step that may enter L2.
Commit(s) ==
    \E t \in {s} : t.l2q_enter_id <= MaxEnterId /\ sched' = Renumber(t)

\* CPU c runs process p outside of an unfinished timer interrupt.
Runs(c, p) == cpuproc[c] = p /\ p # NULL /\ (c = 0 => trap0 = "none")

\* ... and p is free to make a system call.
AtUser(c, p) == Runs(c, p) /\ LockFree /\ child[p] = NULL /\ ~ exiting[p]

BoostCheck(s) == IF boost_flag THEN PriorityBoost(s) ELSE s

Sched(s, p) ==
    CheckLockStateWhenSched(
        IF s.pstate[p] = "RUNNABLE" THEN BackToMLFQ(s, p) ELSE s, p)

\* The process of CPU c, whose state s already has changed, calls sched();
\* scheduler() goes on behind its swtch().
SwitchOut(c, s) ==
    /\ Commit(BoostCheck(Sched(s, cpuproc[c])))
    /\ cpuproc' = [cpuproc EXCEPT ![c] = NULL]
    /\ boost_flag' = FALSE
    /\ lock' = Free

SetState(s, p, st) == [s EXCEPT !.pstate[p] = st]

WakeupOne(s, p, ch) ==
    IF s.pstate[p] = "SLEEPING" /\ chan[p] = ch
    THEN CheckWakeup(SetState(s, p, "RUNNABLE"), p)
    ELSE s

-----------------------------------------------------------------------------
(* scheduler(): one turn of the loop up to swtch(), or all of it when there *)
(* is nothing to run.                                                      *)

Select(c) ==
    /\ cpuproc[c] = NULL
    /\ c = 0 => trap0 = "none"
    /\ LockFree
    /\ SelectTarget(sched) # NULL
    /\ LET p == SelectTarget(sched)
       IN  /\ Commit(SetState(AfterSelect(sched), p, "RUNNING"))
           /\ cpuproc' = [cpuproc EXCEPT ![c] = p]
           /\ chan' = [chan EXCEPT ![p] = "none"]
           /\ lock' = IF chan[p] = "wait"
                      THEN [cpu |-> c, chan |-> "wait", next |-> 0]
                      ELSE Free
    /\ UNCHANGED <<parent, killed, child, exiting, timevars>>

SelectNothing(c) ==
    /\ cpuproc[c] = NULL
    /\ c = 0 => trap0 = "none"
    /\ LockFree
    /\ SelectTarget(sched) = NULL
    /\ Commit(BoostCheck(AfterSelect(sched)))
    /\ boost_flag' = FALSE
    /\ UNCHANGED <<procvars, cpuproc, lock, trap0, ticks>>

-----------------------------------------------------------------------------
(* fork(): the slot is reserved under the lock, filled in without it, and   *)
(* made runnable under the lock.                                           *)

Unused == {q \in Proc : sched.pstate[q] = "UNUSED"}

AllocProc(c, p) ==
    /\ "fork" \in Calls
    /\ AtUser(c, p)
    /\ Unused # {}
    /\ LET np == CHOOSE q \in Unused : \A r \in Unused : q <= r
       IN  /\ sched' = SetState(sched, np, "EMBRYO")
           /\ child' = [child EXCEPT ![p] = np]
    /\ UNCHANGED <<parent, chan, killed, exiting, cpuproc, lock, timevars>>

ForkDone(c, p) ==
    /\ Runs(c, p) /\ LockFree
    /\ child[p] # NULL
    /\ Commit(InsertQueue(SetState(sched, child[p], "RUNNABLE"), child[p],
                          L0, TRUE, TRUE))
    /\ parent' = [parent EXCEPT ![child[p]] = p]
    /\ child' = [child EXCEPT ![p] = NULL]
    /\ UNCHANGED <<chan, killed, exiting, cpuproc, lock, timevars>>

\* No memory for the kernel stack or the page table; the slot is given back
\* without taking the lock.
ForkFails(c, p) ==
    /\ Up /\ Runs(c, p) /\ lock.cpu # c
    /\ child[p] # NULL
    /\ sched' = SetState(sched, child[p], "UNUSED")
    /\ child' = [child EXCEPT ![p] = NULL]
    /\ UNCHANGED <<parent, chan, killed, exiting, cpuproc, lock, timevars>>

-----------------------------------------------------------------------------
(* exit() and wait() *)

\* By its own call or, once killed, on the way back to user space.  A timer
\* interrupt that finds a killed process calls exit() instead of yield().
StartExit(c, p) ==
    /\ cpuproc[c] = p /\ p \notin {NULL, INITPROC}
    /\ Up /\ lock.cpu # c
    /\ child[p] = NULL /\ ~ exiting[p]
    /\ \/ "exit" \in Calls /\ (c = 0 => trap0 = "none")
       \/ killed[p] /\ (c = 0 => trap0 # "wake")
    /\ exiting' = [exiting EXCEPT ![p] = TRUE]
    /\ trap0' = IF c = 0 THEN "none" ELSE trap0
    /\ UNCHANGED <<sched, parent, chan, killed, child, cpuproc, lock, ticks,
                   boost_flag>>

\* Mutant: the parent is not woken.
ExitWithoutWakeup(c, p) ==
    /\ Runs(c, p) /\ LockFree
    /\ exiting[p]
    /\ parent' = [q \in Proc |-> IF parent[q] = p THEN INITPROC ELSE parent[q]]
    /\ SwitchOut(c, SetState(sched, p, "ZOMBIE"))
    /\ exiting' = [exiting EXCEPT ![p] = FALSE]
    /\ UNCHANGED <<chan, killed, child, trap0, ticks>>

Exit(c, p) ==
    /\ Runs(c, p) /\ LockFree
    /\ exiting[p]
    /\ LET s == WakeupOne(sched, parent[p], "wait")
           abandoned == {q \in Proc : parent[q] = p}
           t == IF \E q \in abandoned : s.pstate[q] = "ZOMBIE"
                THEN WakeupOne(s, INITPROC, "wait") ELSE s
       IN  /\ parent' = [q \in Proc |-> IF q \in abandoned THEN INITPROC
                                                          ELSE parent[q]]
           /\ SwitchOut(c, SetState(t, p, "ZOMBIE"))
    /\ exiting' = [exiting EXCEPT ![p] = FALSE]
    /\ UNCHANGED <<chan, killed, child, trap0, ticks>>

Children(p) == {q \in Proc : parent[q] = p}
Zombies(p)  == {q \in Children(p) : sched.pstate[q] = "ZOMBIE"}

\* wait() is entered by a call, or resumed after a sleep with the lock held.
InWait(c, p) ==
    \/ "wait" \in Calls /\ AtUser(c, p)
    \/ Up /\ Runs(c, p) /\ lock = [cpu |-> c, chan |-> "wait", next |-> 0]

WaitReaps(c, p) ==
    /\ InWait(c, p)
    /\ Zombies(p) # {}
    /\ LET q == CHOOSE q \in Zombies(p) : \A r \in Zombies(p) : q <= r
       IN  /\ sched' = [sched EXCEPT !.level[q] = -1, !.pstate[q] = "UNUSED"]
           /\ parent' = [parent EXCEPT ![q] = NULL]
           /\ killed' = [killed EXCEPT ![q] = FALSE]
    /\ lock' = Free
    /\ UNCHANGED <<chan, child, exiting, cpuproc, timevars>>

WaitFails(c, p) ==
    /\ InWait(c, p)
    /\ Zombies(p) = {}
    /\ Children(p) = {} \/ killed[p]
    /\ lock' = Free
    /\ UNCHANGED <<sched, procvars, cpuproc, timevars>>

WaitSleeps(c, p) ==
    /\ InWait(c, p)
    /\ Zombies(p) = {} /\ Children(p) # {} /\ ~ killed[p]
    /\ chan' = [chan EXCEPT ![p] = "wait"]
    /\ SwitchOut(c, SetState(sched, p, "SLEEPING"))
    /\ UNCHANGED <<parent, killed, child, exiting, trap0, ticks>>

-----------------------------------------------------------------------------
(* Sleeping on a device or on the clock, waking up, kill(). *)

\* sleep(): sys_sleep holds tickslock, which the timer interrupt holds until
\* its wakeup is done; a device sleep also happens inside exit().
Sleep(c, p, ch) ==
    /\ "sleep" \in Calls
    /\ Runs(c, p) /\ LockFree
    /\ child[p] = NULL
    /\ ch = "ticks" => trap0 # "wake" /\ ~ exiting[p]
    /\ chan' = [chan EXCEPT ![p] = ch]
    /\ SwitchOut(c, SetState(sched, p, "SLEEPING"))
    /\ UNCHANGED <<parent, killed, child, exiting, trap0, ticks>>

Sleepers(ch) == {p \in Proc : sched.pstate[p] = "SLEEPING" /\ chan[p] = ch}

\* A device interrupt, or another process, calls wakeup() from CPU c.  (A scan
\* that finds nobody changes nothing and is left out.)
DevWakeup(c) ==
    /\ LockFree
    /\ c = 0 => trap0 = "none"
    /\ Sleepers("dev") # {}
    /\ lock' = [cpu |-> c, chan |-> "dev", next |-> 1]
    /\ UNCHANGED <<sched, procvars, cpuproc, timevars>>

\* One turn of wakeup1's loop; after the last the lock is released.
WakeupScan ==
    /\ Up /\ lock.next # 0
    /\ Commit(WakeupOne(sched, lock.next, lock.chan))
    /\ lock' = IF lock.next = NPROC THEN Free ELSE [lock EXCEPT !.next = @ + 1]
    /\ UNCHANGED <<procvars, cpuproc, timevars>>

\* Mutant: whatever is not running is put in a queue.
KillQueuesAny(c, p, q) ==
    /\ "kill" \in Calls
    /\ AtUser(c, p)
    /\ q # INITPROC
    /\ killed' = [killed EXCEPT ![q] = TRUE]
    /\ Commit(IF sched.pstate[q] \in {"SLEEPING", "RUNNABLE"}
              THEN CheckWakeup(SetState(sched, q, "RUNNABLE"), q) ELSE sched)
    /\ UNCHANGED <<parent, chan, child, exiting, cpuproc, lock, timevars>>

\* Mutant: a process that has exited is made runnable.
KillRevives(c, p, q) ==
    /\ "kill" \in Calls
    /\ AtUser(c, p)
    /\ q # INITPROC
    /\ killed' = [killed EXCEPT ![q] = TRUE]
    /\ Commit(IF sched.pstate[q] \in {"SLEEPING", "ZOMBIE"}
              THEN CheckWakeup(SetState(sched, q, "RUNNABLE"), q) ELSE sched)
    /\ UNCHANGED <<parent, chan, child, exiting, cpuproc, lock, timevars>>

\* kill(pid) finds the first slot with that pid, in whatever state it is: pid
\* 0 is that of a free slot.
Kill(c, p, q) ==
    /\ "kill" \in Calls
    /\ AtUser(c, p)
    /\ q # INITPROC
    /\ killed' = [killed EXCEPT ![q] = TRUE]
    /\ Commit(IF sched.pstate[q] = "SLEEPING"
              THEN CheckWakeup(SetState(sched, q, "RUNNABLE"), q) ELSE sched)
    /\ UNCHANGED <<parent, chan, child, exiting, cpuproc, lock, timevars>>

-----------------------------------------------------------------------------
(* The scheduling system calls. *)

YieldCall(c, p) ==
    /\ "yield" \in Calls
    /\ AtUser(c, p)
    /\ LET s == SetState(sched, p, "RUNNABLE")
       IN  SwitchOut(c, IF s.state = "LOCKED" THEN SchedulerUnlock(s) ELSE s)
    /\ UNCHANGED <<procvars, trap0, ticks>>

SetPriority(c, p, q, priority) ==
    /\ "setPriority" \in Calls
    /\ AtUser(c, p)
    /\ Commit(IF p = q THEN [sched EXCEPT !.pvalue[p] = priority]
                       ELSE RelocateByPriority(sched, q, priority))
    /\ UNCHANGED <<procvars, cpuproc, lock, timevars>>

LockCall(c, p) ==
    /\ p \in Lockers
    /\ AtUser(c, p)
    /\ sched.state # "LOCKED"
    /\ ticks' = 0
    /\ SwitchOut(c, SetState(SchedulerLock(sched, p), p, "RUNNABLE"))
    /\ UNCHANGED <<procvars, trap0>>

UnlockCall(c, p) ==
    /\ p \in Lockers
    /\ AtUser(c, p)
    /\ sched.state = "LOCKED"
    /\ SwitchOut(c, SetState(SchedulerUnlock(sched), p, "RUNNABLE"))
    /\ UNCHANGED <<procvars, trap0, ticks>>

\* Both calls end the caller when the lock is not in the state they need.
LockMisuse(c, p) ==
    /\ p \in Lockers
    /\ AtUser(c, p)
    /\ exiting' = [exiting EXCEPT ![p] = TRUE]
    /\ UNCHANGED <<sched, parent, chan, killed, child, cpuproc, lock, timevars>>

-----------------------------------------------------------------------------
(* The timer interrupt. *)

\* Mutant: the boost is never asked for.
TickWithoutBoost ==
    /\ Up /\ trap0 = "none" /\ lock.cpu # 0
    /\ ticks' = (ticks + 1) % MLFQBOOSTTIME
    /\ trap0' = "wake"
    /\ UNCHANGED <<sched, procvars, cpuproc, lock, boost_flag>>

\* CPU 0 counts the tick and then wakes those who sleep on ticks.
TimerTick ==
    /\ Up /\ trap0 = "none" /\ lock.cpu # 0
    /\ ticks' = (ticks + 1) % MLFQBOOSTTIME
    /\ boost_flag' = (boost_flag \/ ticks' = 0)
    /\ trap0' = "wake"
    /\ UNCHANGED <<sched, procvars, cpuproc, lock>>

TickWakeup ==
    /\ trap0 = "wake" /\ LockFree
    /\ lock' = IF Sleepers("ticks") = {} THEN Free
               ELSE [cpu |-> 0, chan |-> "ticks", next |-> 1]
    /\ trap0' = IF cpuproc[0] = NULL THEN "none" ELSE "yield"
    /\ UNCHANGED <<sched, procvars, cpuproc, ticks, boost_flag>>

TimerYield(c, p) ==
    /\ cpuproc[c] = p /\ p # NULL
    /\ LockFree
    /\ c = 0 => trap0 = "yield"
    /\ SwitchOut(c, SetState(sched, p, "RUNNABLE"))
    /\ trap0' = IF c = 0 THEN "none" ELSE trap0
    /\ UNCHANGED <<procvars, ticks>>

-----------------------------------------------------------------------------
CPUStep(c, p) ==
    \/ AllocProc(c, p) \/ ForkDone(c, p) \/ ForkFails(c, p)
    \/ StartExit(c, p) \/ Exit(c, p)
    \/ WaitReaps(c, p) \/ WaitFails(c, p) \/ WaitSleeps(c, p)
    \/ \E ch \in {"ticks", "dev"} : Sleep(c, p, ch)
    \/ \E q \in Proc : Kill(c, p, q)
    \/ YieldCall(c, p)
    \/ \E q \in Proc, v \in Priorities : SetPriority(c, p, q, v)
    \/ LockCall(c, p) \/ UnlockCall(c, p) \/ LockMisuse(c, p)
    \/ TimerYield(c, p)

Next ==
    \/ \E c \in CPU : Select(c) \/ SelectNothing(c) \/ DevWakeup(c)
    \/ \E c \in CPU, p \in Proc : CPUStep(c, p)
    \/ WakeupScan
    \/ TimerTick
    \/ TickWakeup

Spec == Init /\ [][Next]_vars
-----------------------------------------------------------------------------
(* What the scheduler relies on and what it promises. *)

\* No panic() of the queue code is reached: a level is always valid, a running
\* process always has a tick left, a popped one is RUNNABLE, and two processes
\* of the L2 queue never have the same entry number (proc_mlfq.c:109, 315,
\* 332, 363, 380, 390, 540).
NoPanic == ~ sched.panic

\* What is in a queue is RUNNABLE, once, and knows that it is there: a list
\* element with another level would be unlinked from the wrong list.
QueuesAreSound ==
    \A l \in Level :
        /\ IsInjective(sched.queue[l])
        /\ \A p \in ToSet(sched.queue[l]) :
             sched.pstate[p] = "RUNNABLE" /\ sched.level[p] = l

\* No RUNNABLE process is lost: it is in its queue, or it holds the scheduler
\* lock.  (A process that no queue holds is never chosen again.)
NoRunnableIsLost ==
    \A p \in Proc : sched.pstate[p] = "RUNNABLE" =>
        \/ sched.level[p] \in Level /\ p \in ToSet(sched.queue[sched.level[p]])
        \/ sched.state = "LOCKED" /\ p = sched.locked_proc

\* The tail of L2, which is popped first, has the highest priority, whatever
\* setPriority and aging did to the processes of the queue.
L2IsSorted ==
    \A i, j \in 1 .. Len(sched.queue[L2]) :
        i < j => HigherPriority(sched, sched.queue[L2][j], sched.queue[L2][i])

\* A process is on at most one CPU, and is RUNNING exactly while it is on one.
OneCPUPerProcess ==
    \A p \in Proc :
        /\ sched.pstate[p] = "RUNNING" <=> \E c \in CPU : cpuproc[c] = p
        /\ \A c, d \in CPU : cpuproc[c] = p /\ cpuproc[d] = p => c = d

\* Between two steps the scheduler is locked by a process that can run, or not
\* locked at all: the lock dies with its holder, and with its holder's sleep.
LockHasHolder ==
    \/ sched.state = "IDLE" /\ sched.locked_proc = NULL
    \/ /\ sched.state = "LOCKED"
       /\ sched.locked_proc \in Proc
       /\ sched.pstate[sched.locked_proc] \in {"RUNNABLE", "RUNNING"}

\* While the scheduler is locked nobody but the holder runs.
LockExcludes ==
    sched.state = "LOCKED" => \A c \in CPU : cpuproc[c] \in {NULL, sched.locked_proc}

\* Every process that is or will be scheduled is in a valid level with a part
\* of that level's quantum left (proc_test_a.c expects getLevel() in 0 .. 2).
QuantumIsValid ==
    \A p \in Proc :
        sched.pstate[p] \in {"RUNNABLE", "RUNNING"} /\ p # sched.locked_proc =>
            /\ sched.level[p] \in Level
            /\ sched.tick_left[p] \in 1 .. MAX_TIME_QUANTUM[sched.level[p]]

\* A parent never sleeps in wait() on a child that has already exited, though
\* the child may have been handed to it by another process's exit.
NoExitIsMissed ==
    \A p \in Proc :
        sched.pstate[p] = "SLEEPING" /\ chan[p] = "wait" =>
            Zombies(p) = {} /\ ~ killed[p]

\* Processes come and go as the life cycle allows.
Life == INSTANCE Lifecycle WITH state <- sched.pstate, on <- cpuproc, First <- INITPROC
LifecycleIsKept == Life!Spec

-----------------------------------------------------------------------------
(* What must come about. *)

\* What the holder of ptable.lock does next: nobody else can act on the table.
LockedStep ==
    \/ WakeupScan
    \/ \E c \in CPU, p \in Proc :
         /\ lock.cpu = c
         /\ WaitReaps(c, p) \/ WaitFails(c, p) \/ WaitSleeps(c, p)

\* The timer interrupt is latched until interrupts are enabled, and a CPU gets
\* to run between two interrupts: both are strong fairness.  What a CPU does
\* with the lock held or interrupts off is never left unfinished.
Fairness ==
    /\ SF_vars(TimerTick)
    /\ WF_vars(TickWakeup)
    /\ WF_vars(LockedStep)
    /\ \A c \in CPU :
         /\ SF_vars(Select(c) \/ SelectNothing(c))
         /\ WF_vars(\E p \in Proc : TimerYield(c, p))

LiveSpec == Spec /\ Fairness

\* The entry counter is at its bound: the model goes no further there.
AtBound == sched.l2q_enter_id = MaxEnterId

\* Every RUNNABLE process runs in the end, whatever its level and whatever the
\* others do: the boost sees to it.
NobodyStarves == \A p \in Proc : []<>(sched.pstate[p] # "RUNNABLE")

\* A scheduler lock is given up in the end, even by a holder that never does.
LockIsReleased == sched.state = "LOCKED" ~> sched.state = "IDLE" \/ AtBound
=============================================================================
