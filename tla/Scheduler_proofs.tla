--------------------------- MODULE Scheduler_proofs ---------------------------
(***************************************************************************)
(* The safety of the scheduler for any number of processes, any quanta and  *)
(* any boost time, either on any number of CPUs as long as nobody uses the  *)
(* scheduler lock (Lockers = {}), or on one CPU, which is what              *)
(* Project1/xv6-public/bootxv6.sh starts (NCPU = 1: with two CPUs and the   *)
(* lock, a process that runs elsewhere while the scheduler gets locked is   *)
(* lost).                                                                  *)
(*                                                                         *)
(* The first part is about the queue functions, one lemma for each.  A      *)
(* function that moves a process takes it out of the queues first and puts  *)
(* it back last; in between the invariant of the data holds for all the    *)
(* others: Good(s, X) is the invariant of s but for the processes in X,     *)
(* which are in no queue: those being moved, and the holder of the          *)
(* scheduler lock.                                                         *)
(*                                                                         *)
(* Sound(sched), what the functions keep true of their data for everybody   *)
(* but the holder of the lock, is then shown to be inductive                *)
(* together with the position of the processes on the CPUs and in fork(): a *)
(* process that is queued must not be one that is running or half made, and *)
(* the one that runs while the scheduler is locked must be the holder.  The *)
(* lemma of each action also says which step of Lifecycle it is.           *)
(*                                                                         *)
(* The last part is about wait(): a child that has exited is not slept     *)
(* through.                                                                *)
(***************************************************************************)
EXTENDS Scheduler, ListLemmas, WellFoundedInduction, TLAPS

-----------------------------------------------------------------------------
(* The queue functions. *)

\* What is queued is RUNNABLE, once, and in the queue of its level.
QueuesOK(s, X) ==
    \A l \in Level :
        /\ IsInjective(s.queue[l])
        /\ \A p \in ToSet(s.queue[l]) :
             p \notin X /\ s.pstate[p] = "RUNNABLE" /\ s.level[p] = l

LevelOK(s, X) ==
    \A p \in Proc \ X : s.pstate[p] \in Live => s.level[p] \in Level

QuantumOK(s, X) ==
    \A p \in Proc \ X : s.pstate[p] \in {"RUNNABLE", "RUNNING"} =>
        s.tick_left[p] \in 1 .. MAX_TIME_QUANTUM[s.level[p]]

\* The entry numbers of the processes that are, or will be again, in L2 are
\* distinct and below the counter.
InL2(s, p) == s.pstate[p] \in Live /\ s.level[p] = L2

EnterOK(s, X) ==
    \A p \in Proc \ X : InL2(s, p) =>
        /\ s.enter_id[p] < s.l2q_enter_id
        /\ \A q \in Proc \ X : InL2(s, q) /\ s.enter_id[q] = s.enter_id[p] => p = q

\* Who stands nearer to the tail of L2, which is popped, goes first.
OrderOK(s) ==
    \A i, j \in 1 .. Len(s.queue[L2]) :
        i < j => HigherPriority(s, s.queue[L2][j], s.queue[L2][i])

PlacedOK(s, X) ==
    \A p \in Proc \ X : s.pstate[p] = "RUNNABLE" => p \in ToSet(s.queue[s.level[p]])

Good(s, X) ==
    /\ s \in SchedState
    /\ ~ s.panic
    /\ QueuesOK(s, X) /\ LevelOK(s, X) /\ QuantumOK(s, X) /\ EnterOK(s, X) /\ PlacedOK(s, X)
    /\ OrderOK(s)

\* What p, beside those in X, needs to be a member of a queue of level l.
Fits(s, p, l, X) ==
    /\ p \notin X
    /\ s.pstate[p] = "RUNNABLE" /\ s.level[p] = l
    /\ s.tick_left[p] \in 1 .. MAX_TIME_QUANTUM[l]
    /\ l = L2 =>
         /\ s.enter_id[p] < s.l2q_enter_id
         /\ \A q \in Proc \ (X \cup {p}) : InL2(s, q) => s.enter_id[q] # s.enter_id[p]

\* The scheduler is free, or locked by a process that can run.
LockOK(s) ==
    \/ s.state = "IDLE" /\ s.locked_proc = NULL
    \/ /\ s.state = "LOCKED" /\ s.locked_proc \in Proc
       /\ s.pstate[s.locked_proc] \in {"RUNNABLE", "RUNNING"}

Holder(s) == IF s.state = "LOCKED" THEN {s.locked_proc} ELSE {}

Sound(s) == Good(s, Holder(s)) /\ LockOK(s)

KeepsLock(s, t) == t.state = s.state /\ t.locked_proc = s.locked_proc

-----------------------------------------------------------------------------
LEMMA Minimum ==
    ASSUME NEW S \in SUBSET Nat, S # {}
    PROVE  \E i \in S : \A j \in S : i <= j
<1>1. PICK i \in S : \A j \in S : ~ (<<j, i>> \in OpToRel(<, Nat))
  BY NatLessThanWellFounded, WFMin
<1>2. \A j \in S : ~ (j < i)
  BY <1>1 DEF OpToRel
<1> QED BY <1>2

\* A change to the fields of p alone, which no queue holds, disturbs nobody else.
LEMMA OthersStay ==
    ASSUME NEW s, NEW X, NEW p \in X, Good(s, X), NEW t \in SchedState,
           t.panic = s.panic, t.queue = s.queue, t.l2q_enter_id >= s.l2q_enter_id,
           \A q \in Proc \ {p} :
               /\ t.pstate[q] = s.pstate[q] /\ t.level[q] = s.level[q]
               /\ t.tick_left[q] = s.tick_left[q] /\ t.enter_id[q] = s.enter_id[q]
               /\ t.pvalue[q] = s.pvalue[q]
    PROVE  Good(t, X)
<1> USE DEF Good
<1>0. s \in SchedState
  OBVIOUS
<1>1. \A l \in Level : ToSet(s.queue[l]) \subseteq Proc
  BY <1>0, Elements DEF SchedState
<1>2. QueuesOK(t, X)
  BY <1>1 DEF QueuesOK
<1>3. LevelOK(t, X) /\ QuantumOK(t, X) /\ PlacedOK(t, X)
  BY DEF LevelOK, QuantumOK, PlacedOK
<1>4. EnterOK(t, X)
  <2>1. s.l2q_enter_id \in Nat /\ t.l2q_enter_id \in Nat
        /\ \A q \in Proc : s.enter_id[q] \in Nat /\ t.enter_id[q] \in Nat
    BY <1>0 DEF SchedState
  <2> QED BY <2>1 DEF EnterOK, InL2
<1>5. OrderOK(t)
  <2>1. s.queue[L2] \in Seq(Proc) /\ p \notin ToSet(s.queue[L2])
    BY <1>0 DEF SchedState, QueuesOK, Level, L0, L1, L2
  <2>2. \A i \in 1 .. Len(s.queue[L2]) : s.queue[L2][i] \in Proc \ {p}
    BY <2>1, Elements
  <2> QED BY <2>2 DEF OrderOK, HigherPriority
<1> QED BY <1>2, <1>3, <1>4, <1>5

\* A process that no queue holds may be left out of the invariant.
LEMMA LeaveOut ==
    ASSUME NEW s, NEW X, NEW p \in Proc, Good(s, X), s.pstate[p] # "RUNNABLE"
    PROVE  Good(s, X \cup {p})
  BY DEF Good, QueuesOK, LevelOK, QuantumOK, EnterOK, PlacedOK

\* A process that needs no queue is taken into the invariant again.
LEMMA TakeIn ==
    ASSUME NEW s, NEW X, NEW p \in Proc, Good(s, X \cup {p}), s.pstate[p] # "RUNNABLE",
           s.pstate[p] \in Live => s.level[p] \in Level,
           s.pstate[p] = "RUNNING" =>
               s.tick_left[p] \in 1 .. MAX_TIME_QUANTUM[s.level[p]],
           InL2(s, p) =>
               /\ s.enter_id[p] < s.l2q_enter_id
               /\ \A q \in Proc \ (X \cup {p}) : InL2(s, q) => s.enter_id[q] # s.enter_id[p]
    PROVE  Good(s, X)
  BY DEF Good, QueuesOK, LevelOK, QuantumOK, EnterOK, PlacedOK

\* Putting p in the list of its level, wherever, completes the invariant.
LEMMA Queued ==
    ASSUME NEW s, NEW X, NEW p \in Proc, NEW l \in Level, Good(s, X \cup {p}), Fits(s, p, l, X),
           NEW q \in Seq(Proc),
           ToSet(q) = ToSet(s.queue[l]) \cup {p},
           IsInjective(q),
           NEW t, t = [s EXCEPT !.queue[l] = q], l = L2 => OrderOK(t)
    PROVE  Good(t, X)
<1> USE DEF Good
<1>0. s \in SchedState
  OBVIOUS
<1>1. /\ t \in SchedState
      /\ t.queue = [s.queue EXCEPT ![l] = q]
      /\ t.state = s.state /\ t.locked_proc = s.locked_proc /\ t.panic = s.panic
      /\ t.pstate = s.pstate /\ t.level = s.level /\ t.tick_left = s.tick_left
      /\ t.enter_id = s.enter_id /\ t.l2q_enter_id = s.l2q_enter_id
      /\ t.pvalue = s.pvalue
  BY <1>0 DEF SchedState
<1>2. t.queue[l] = q /\ \A k \in Level \ {l} : t.queue[k] = s.queue[k]
  BY <1>0, <1>1 DEF SchedState
<1>3. QueuesOK(t, X)
  BY <1>1, <1>2 DEF QueuesOK, Fits
<1>4. LevelOK(t, X)
  BY <1>1 DEF LevelOK, Fits
<1>5. QuantumOK(t, X)
  BY <1>1 DEF QuantumOK, Fits
<1>6. EnterOK(t, X)
  BY <1>1 DEF EnterOK, Fits, InL2
<1>7. PlacedOK(t, X)
  <2>1. \A r \in Proc \ (X \cup {p}) : s.pstate[r] = "RUNNABLE" => s.level[r] \in Level
    BY DEF LevelOK, Live
  <2> QED BY <1>1, <1>2, <2>1 DEF PlacedOK, Fits
<1>8. OrderOK(t)
  <2>1. CASE l # L2
    <3>1. t.queue[L2] = s.queue[L2]
      BY <1>2, <2>1 DEF Level, L0, L1, L2
    <3> QED BY <1>1, <3>1 DEF OrderOK, HigherPriority
  <2> QED BY <2>1
<1> QED BY <1>1, <1>3, <1>4, <1>5, <1>6, <1>7, <1>8

\* The holder of the lock is in no queue and may go through none.
LEMMA HolderFacts ==
    ASSUME NEW s, Sound(s)
    PROVE  /\ s \in SchedState /\ Good(s, Holder(s))
           /\ \A p \in Holder(s) : p \in Proc /\ s.pstate[p] \in {"RUNNABLE", "RUNNING"}
  BY DEF Sound, LockOK, Holder, Good

\* The lock stays as it is, and its holder able to run.
LEMMA StaysSound ==
    ASSUME NEW s, Sound(s), NEW t, KeepsLock(s, t), Good(t, Holder(s)),
           \A p \in Holder(s) : t.pstate[p] \in {"RUNNABLE", "RUNNING"}
    PROVE  Sound(t) /\ Holder(t) = Holder(s)
  BY DEF Sound, LockOK, Holder, KeepsLock

-----------------------------------------------------------------------------
(* Into a queue *)

LEMMA PositionOK ==
    ASSUME NEW s \in SchedState, NEW p \in Proc
    PROVE  /\ InsertPosition(s, p) \in 1 .. Len(s.queue[L2]) + 1
           /\ InsertPosition(s, p) <= Len(s.queue[L2]) =>
                ~ HigherPriority(s, p, s.queue[L2][InsertPosition(s, p)])
           /\ \A j \in 1 .. Len(s.queue[L2]) :
                j < InsertPosition(s, p) => HigherPriority(s, p, s.queue[L2][j])
<1>1. Len(s.queue[L2]) \in Nat
  BY DEF SchedState, Level, L0, L1, L2
<1>2. CASE Stops(s, p) = {}
  <2>1. \A j \in 1 .. Len(s.queue[L2]) : HigherPriority(s, p, s.queue[L2][j])
    BY <1>2 DEF Stops
  <2> QED BY <1>1, <1>2, <2>1 DEF InsertPosition
<1>3. CASE Stops(s, p) # {}
  <2>1. Stops(s, p) \in SUBSET Nat
    BY <1>1 DEF Stops
  <2>2. \E i \in Stops(s, p) : \A j \in Stops(s, p) : i <= j
    BY <2>1, <1>3, Minimum
  <2> DEFINE i == InsertPosition(s, p)
  <2>3. i \in Stops(s, p) /\ \A j \in Stops(s, p) : i <= j
    BY <2>2, <1>3 DEF InsertPosition
  <2> HIDE DEF i
  <2>4. \A j \in 1 .. Len(s.queue[L2]) : j < i => HigherPriority(s, p, s.queue[L2][j])
    BY <2>3, <1>1 DEF Stops
  <2> QED BY <2>3, <2>4, <1>1 DEF Stops, i
<1> QED BY <1>2, <1>3

\* Whoever differs in the entry number is higher or lower, and higher than is
\* transitive.
LEMMA PriorityOrder ==
    ASSUME NEW s \in SchedState, NEW p \in Proc, NEW q \in Proc, NEW r \in Proc
    PROVE  /\ s.enter_id[p] # s.enter_id[q] /\ ~ HigherPriority(s, p, q)
                => HigherPriority(s, q, p)
           /\ HigherPriority(s, p, q) /\ HigherPriority(s, q, r)
                => HigherPriority(s, p, r)
<1>1. \A x \in Proc : s.pvalue[x] \in Int /\ s.enter_id[x] \in Int
  BY MLFQAssumption DEF SchedState
<1> QED BY <1>1 DEF HigherPriority

LEMMA PushByPriorityOK ==
    ASSUME NEW s, NEW X, NEW p \in Proc, Good(s, X \cup {p}), Fits(s, p, L2, X)
    PROVE  Good(PushByPriority(s, p), X)
<1> DEFINE i == InsertPosition(s, p)
           q == InsertAt(s.queue[L2], i, p)
           t == [s EXCEPT !.queue[L2] = q]
<1>0. s \in SchedState /\ L2 \in Level /\ ~ s.panic
  BY DEF Good, Level, L0, L1, L2
<1>1. s.queue[L2] \in Seq(Proc)
  BY <1>0 DEF SchedState
<1>2. i \in 1 .. Len(s.queue[L2]) + 1
  BY <1>0, PositionOK
<1>3. p \notin ToSet(s.queue[L2]) /\ IsInjective(s.queue[L2])
  BY <1>0 DEF Good, QueuesOK
<1> HIDE DEF i
<1>4. q \in Seq(Proc) /\ ToSet(q) = ToSet(s.queue[L2]) \cup {p} /\ IsInjective(q)
  BY <1>1, <1>2, <1>3, InsertAtFacts
<1>8. /\ Len(q) = Len(s.queue[L2]) + 1
      /\ \A j \in 1 .. Len(q) :
           q[j] = IF j < i THEN s.queue[L2][j]
                  ELSE IF j = i THEN p ELSE s.queue[L2][j - 1]
  BY <1>1, <1>2, InsertAtElements
<1> HIDE DEF q
<1>9. OrderOK(t)
  <2> DEFINE o == s.queue[L2]
  <2>1. /\ \A j \in 1 .. Len(o) : j < i => HigherPriority(s, p, o[j])
        /\ i <= Len(o) => ~ HigherPriority(s, p, o[i])
    BY <1>0, PositionOK DEF i
  <2>2. t.queue[L2] = q /\ t.pvalue = s.pvalue /\ t.enter_id = s.enter_id
    BY <1>0, <1>4 DEF SchedState
  <2>3. \A j \in 1 .. Len(o) : o[j] \in Proc /\ s.enter_id[o[j]] # s.enter_id[p]
    <3> TAKE j \in 1 .. Len(o)
    <3>1. o[j] \in ToSet(o) /\ o[j] \in Proc
      BY <1>1, Elements
    <3>2. o[j] \notin X \cup {p} /\ InL2(s, o[j])
      BY <1>0, <1>3, <3>1 DEF Good, QueuesOK, InL2, Live
    <3> QED BY <3>1, <3>2 DEF Fits
  <2>4. \A j, k \in 1 .. Len(o) : j < k => HigherPriority(s, o[k], o[j])
    BY DEF Good, OrderOK
  <2>5. o \in Seq(Proc) /\ Len(o) \in Nat /\ i \in 1 .. Len(o) + 1
    BY <1>1, <1>2
  <2> HIDE DEF o
  <2>6. \A j \in 1 .. Len(o) : j >= i => HigherPriority(s, o[j], p)
    <3> SUFFICES ASSUME NEW j \in 1 .. Len(o), j >= i PROVE HigherPriority(s, o[j], p)
      OBVIOUS
    <3>1. i \in 1 .. Len(o)
      BY <2>5
    <3>2. HigherPriority(s, o[i], p)
      BY <1>0, <2>1, <2>3, <2>5, <3>1, PriorityOrder
    <3>3. CASE j > i
      BY <1>0, <2>3, <2>4, <3>1, <3>2, <3>3, PriorityOrder
    <3> QED BY <2>5, <3>2, <3>3
  <2>7. \A j, k \in 1 .. Len(q) : j < k => HigherPriority(s, q[k], q[j])
    <3> SUFFICES ASSUME NEW j \in 1 .. Len(q), NEW k \in 1 .. Len(q), j < k
                 PROVE  HigherPriority(s, q[k], q[j])
      OBVIOUS
    <3>0. /\ Len(q) = Len(o) + 1
          /\ \A m \in 1 .. Len(q) :
               q[m] = IF m < i THEN o[m] ELSE IF m = i THEN p ELSE o[m - 1]
      BY <1>8 DEF o
    <3>1. CASE k < i
      <4>1. j \in 1 .. Len(o) /\ k \in 1 .. Len(o) /\ q[j] = o[j] /\ q[k] = o[k]
        BY <2>5, <3>0, <3>1
      <4> QED BY <2>4, <4>1
    <3>2. CASE k = i
      <4>1. j \in 1 .. Len(o) /\ j < i /\ q[j] = o[j] /\ q[k] = p
        BY <2>5, <3>0, <3>2
      <4> QED BY <2>1, <4>1
    <3>3. CASE k > i
      <4>1. k - 1 \in 1 .. Len(o) /\ k - 1 >= i /\ q[k] = o[k - 1]
        BY <2>5, <3>0, <3>3
      <4>2. CASE j < i
        <5>1. j \in 1 .. Len(o) /\ j < k - 1 /\ q[j] = o[j]
          BY <2>5, <3>0, <3>3, <4>2
        <5> QED BY <2>4, <4>1, <5>1
      <4>3. CASE j = i
        <5>1. q[j] = p
          BY <3>0, <4>3
        <5> QED BY <2>6, <4>1, <5>1
      <4>4. CASE j > i
        <5>1. j - 1 \in 1 .. Len(o) /\ j - 1 < k - 1 /\ q[j] = o[j - 1]
          BY <2>5, <3>0, <4>4
        <5> QED BY <2>4, <4>1, <5>1
      <4> QED BY <2>5, <4>2, <4>3, <4>4
    <3> QED BY <2>5, <3>1, <3>2, <3>3
  <2> HIDE DEF t
  <2> QED BY <2>2, <2>7 DEF OrderOK, HigherPriority
<1>5. Good(t, X)
  BY <1>0, <1>4, <1>9, Queued
<1>6. ~ (i <= Len(s.queue[L2]) /\ SamePriority(s, p, s.queue[L2][i]))
  <2> SUFFICES ASSUME i <= Len(s.queue[L2]) PROVE ~ SamePriority(s, p, s.queue[L2][i])
    OBVIOUS
  <2> DEFINE r == s.queue[L2][i]
  <2>1. i \in 1 .. Len(s.queue[L2])
    BY <1>1, <1>2
  <2>2. r \in ToSet(s.queue[L2]) /\ r \in Proc
    BY <1>1, <2>1, Elements
  <2>3. r \notin X \cup {p} /\ InL2(s, r)
    BY <1>0, <1>3, <2>2 DEF Good, QueuesOK, InL2, Live
  <2> QED BY <2>2, <2>3 DEF Fits, SamePriority
<1>7. PushByPriority(s, p) = t
  BY <1>0, <1>6 DEF PushByPriority, i, q, SchedState
<1> QED BY <1>5, <1>7

LEMMA PushHeadOK ==
    ASSUME NEW s, NEW X, NEW p \in Proc, NEW l \in {L0, L1}, Good(s, X \cup {p}), Fits(s, p, l, X)
    PROVE  Good(PushHead(s, l, p), X)
<1> DEFINE q == <<p>> \o s.queue[l]
<1>0. s \in SchedState /\ l \in Level
  BY DEF Good, Level, L0, L1, L2
<1>1. s.queue[l] \in Seq(Proc)
  BY <1>0 DEF SchedState
<1>2. p \notin ToSet(s.queue[l]) /\ IsInjective(s.queue[l])
  BY <1>0 DEF Good, QueuesOK
<1>3. q \in Seq(Proc) /\ ToSet(q) = ToSet(s.queue[l]) \cup {p} /\ IsInjective(q)
  BY <1>1, <1>2, ConsFacts
<1>4. PushHead(s, l, p) = [s EXCEPT !.queue[l] = q]
  BY DEF PushHead
<1> HIDE DEF q
<1>5. l # L2
  BY DEF L0, L1, L2
<1> QED BY <1>0, <1>3, <1>4, <1>5, Queued

LEMMA PushTailOK ==
    ASSUME NEW s, NEW X, NEW p \in Proc, Good(s, X \cup {p}), Fits(s, p, L0, X)
    PROVE  Good(PushTail(s, L0, p), X)
<1> DEFINE q == Append(s.queue[L0], p)
<1>0. s \in SchedState /\ L0 \in Level /\ L0 # L2
  BY DEF Good, Level, L0, L1, L2
<1>1. s.queue[L0] \in Seq(Proc)
  BY <1>0 DEF SchedState
<1>2. p \notin ToSet(s.queue[L0]) /\ IsInjective(s.queue[L0])
  BY <1>0 DEF Good, QueuesOK
<1>3. q \in Seq(Proc) /\ ToSet(q) = ToSet(s.queue[L0]) \cup {p} /\ IsInjective(q)
  BY <1>1, <1>2, AppendFacts
<1>4. PushTail(s, L0, p) = [s EXCEPT !.queue[L0] = q]
  BY DEF PushTail
<1> HIDE DEF q
<1> QED BY <1>0, <1>3, <1>4, Queued

\* insert_queue() takes any process that is RUNNABLE and in no queue; without
\* set_timequantum the process brings ticks of its own.
LEMMA InsertQueueOK ==
    ASSUME NEW s, NEW X, NEW p \in Proc, NEW l \in Level,
           NEW set_priority \in BOOLEAN, NEW set_timequantum \in BOOLEAN,
           p \notin X, Good(s, X \cup {p}), s.pstate[p] = "RUNNABLE",
           set_timequantum \/ s.tick_left[p] \in 1 .. MAX_TIME_QUANTUM[l]
    PROVE  Good(InsertQueue(s, p, l, set_priority, set_timequantum), X)
<1> DEFINE v == IF set_priority THEN MLFQMAXPRIORITY ELSE s.pvalue[p]
           k == IF set_timequantum THEN MAX_TIME_QUANTUM[l] ELSE s.tick_left[p]
           t == [s EXCEPT !.pvalue[p] = v, !.tick_left[p] = k, !.level[p] = l]
           u == [t EXCEPT !.enter_id[p] = t.l2q_enter_id, !.l2q_enter_id = @ + 1]
<1>0. s \in SchedState
  BY DEF Good
<1>a. v \in 0 .. MLFQMAXPRIORITY
  BY <1>0, MLFQAssumption DEF SchedState
<1>b. k \in 1 .. MAX_TIME_QUANTUM[l] /\ k \in Int
  <2>1. MAX_TIME_QUANTUM[l] \in Nat /\ MAX_TIME_QUANTUM[l] >= 1
    BY MLFQAssumption
  <2>2. s.tick_left[p] \in Int
    BY <1>0 DEF SchedState
  <2> QED BY <2>1, <2>2
<1> HIDE DEF v, k
<1>2. /\ t \in SchedState
      /\ t.state = s.state /\ t.locked_proc = s.locked_proc /\ t.panic = s.panic
      /\ t.queue = s.queue /\ t.l2q_enter_id = s.l2q_enter_id
      /\ t.pstate = s.pstate /\ t.enter_id = s.enter_id
      /\ t.level[p] = l /\ t.tick_left[p] = k
      /\ \A q \in Proc \ {p} : /\ t.level[q] = s.level[q]
                               /\ t.tick_left[q] = s.tick_left[q]
                               /\ t.pvalue[q] = s.pvalue[q]
  BY <1>0, <1>a, <1>b DEF SchedState
<1> HIDE DEF t
<1>3. s.l2q_enter_id \in Nat
  BY <1>0 DEF SchedState
<1>4. Good(t, X \cup {p})
  BY <1>2, <1>3, OthersStay
<1>7. InsertQueue(s, p, l, set_priority, set_timequantum) =
          IF l = L2 THEN PushByPriority(u, p) ELSE PushHead(t, l, p)
  BY DEF InsertQueue, t, v, k
<1>5. CASE l # L2
  <2>1. l \in {L0, L1}
    BY <1>5 DEF Level, L0, L1, L2
  <2>2. Fits(t, p, l, X)
    BY <1>2, <1>b, <1>5 DEF Fits
  <2>3. Good(PushHead(t, l, p), X)
    BY <1>4, <2>1, <2>2, PushHeadOK
  <2> QED BY <2>3, <1>5, <1>7
<1>6. CASE l = L2
  <2>0. t.l2q_enter_id \in Nat
    BY <1>2, <1>3
  <2>5. /\ u.enter_id = [t.enter_id EXCEPT ![p] = t.l2q_enter_id]
        /\ u.state = t.state /\ u.locked_proc = t.locked_proc /\ u.panic = t.panic
        /\ u.queue = t.queue /\ u.l2q_enter_id = t.l2q_enter_id + 1
        /\ u.pstate = t.pstate /\ u.level = t.level /\ u.tick_left = t.tick_left
        /\ u.pvalue = t.pvalue
    BY <1>2 DEF SchedState
  <2>6. u \in SchedState
    <3>1. [t.enter_id EXCEPT ![p] = t.l2q_enter_id] \in [Proc -> Nat]
      BY <1>2, <2>0 DEF SchedState
    <3>2. t.l2q_enter_id + 1 \in Nat
      BY <2>0
    <3>3. u = [t EXCEPT !.enter_id = [t.enter_id EXCEPT ![p] = t.l2q_enter_id],
                        !.l2q_enter_id = t.l2q_enter_id + 1]
      BY <1>2 DEF SchedState
    <3> QED BY <1>2, <3>1, <3>2, <3>3 DEF SchedState
  <2>1. /\ u.enter_id[p] = t.l2q_enter_id
        /\ \A q \in Proc \ {p} : u.enter_id[q] = t.enter_id[q]
    BY <1>2, <2>5 DEF SchedState
  <2> HIDE DEF u
  <2>2. Good(u, X \cup {p})
    <3>1. u.l2q_enter_id >= t.l2q_enter_id
      BY <2>0, <2>5
    <3>2. \A q \in Proc \ {p} :
             /\ u.pstate[q] = t.pstate[q] /\ u.level[q] = t.level[q]
             /\ u.tick_left[q] = t.tick_left[q] /\ u.enter_id[q] = t.enter_id[q]
             /\ u.pvalue[q] = t.pvalue[q]
      BY <2>1, <2>5
    <3> QED BY <1>4, <2>5, <2>6, <3>1, <3>2, OthersStay
  <2>3. Fits(u, p, L2, X)
    <3>1. \A q \in Proc \ (X \cup {p}) : InL2(t, q) => t.enter_id[q] < t.l2q_enter_id
      BY <1>4 DEF Good, EnterOK
    <3>2. \A q \in Proc : t.enter_id[q] \in Nat
      BY <1>2 DEF SchedState
    <3>3. \A q \in Proc \ (X \cup {p}) : InL2(u, q) => u.enter_id[q] # u.enter_id[p]
      BY <3>1, <3>2, <2>0, <2>1, <2>5 DEF InL2
    <3> QED BY <3>3, <1>2, <1>b, <1>3, <1>6, <2>0, <2>1, <2>5 DEF Fits
  <2>4. Good(PushByPriority(u, p), X)
    BY <2>2, <2>3, PushByPriorityOK
  <2> QED BY <2>4, <1>6, <1>7
<1> QED BY <1>5, <1>6

LEMMA DemoteOrAgeOK ==
    ASSUME NEW s, NEW X, NEW p \in Proc, p \notin X, Good(s, X \cup {p}),
           s.pstate[p] = "RUNNABLE", s.level[p] \in Level,
           s.level[p] = L2 =>
             /\ s.enter_id[p] < s.l2q_enter_id
             /\ \A q \in Proc \ (X \cup {p}) : InL2(s, q) => s.enter_id[q] # s.enter_id[p]
    PROVE  Good(DemoteOrAge(s, p), X)
<1>0. s \in SchedState
  BY DEF Good
<1>1. CASE s.level[p] \in {L0, L1}
  <2>1. s.level[p] + 1 \in Level
    BY <1>1 DEF Level, L0, L1, L2
  <2>2. Good(InsertQueue(s, p, s.level[p] + 1, FALSE, TRUE), X)
    BY <2>1, InsertQueueOK
  <2>3. s.level[p] # L2
    BY <1>1 DEF L0, L1, L2
  <2> QED BY <2>2, <2>3, <1>1 DEF DemoteOrAge
<1>2. CASE s.level[p] = L2
  <2> DEFINE v == IF s.pvalue[p] > 0 THEN s.pvalue[p] - 1 ELSE s.pvalue[p]
             n == MAX_TIME_QUANTUM[L2]
             t == [s EXCEPT !.pvalue[p] = v, !.tick_left[p] = n]
  <2>1. v \in 0 .. MLFQMAXPRIORITY
    BY <1>0, MLFQAssumption DEF SchedState
  <2>2. n \in Int /\ n \in 1 .. n
    BY MLFQAssumption DEF Level, L0, L1, L2
  <2> HIDE DEF v, n
  <2>3. /\ t \in SchedState
        /\ t.state = s.state /\ t.locked_proc = s.locked_proc /\ t.panic = s.panic
        /\ t.queue = s.queue /\ t.pstate = s.pstate /\ t.level = s.level
        /\ t.enter_id = s.enter_id /\ t.l2q_enter_id = s.l2q_enter_id
        /\ t.tick_left[p] = n
        /\ \A q \in Proc \ {p} : t.tick_left[q] = s.tick_left[q] /\ t.pvalue[q] = s.pvalue[q]
    BY <1>0, <2>1, <2>2 DEF SchedState
  <2>8. t.l2q_enter_id >= s.l2q_enter_id
    BY <1>0, <2>3 DEF SchedState
  <2>4. s.level[p] \notin {L0, L1}
    BY <1>2 DEF L0, L1, L2
  <2>5. DemoteOrAge(s, p) = PushByPriority(t, p)
    BY <1>2, <2>4 DEF DemoteOrAge, v, n
  <2> HIDE DEF t
  <2>6. Good(t, X \cup {p})
    BY <2>3, <2>8, OthersStay
  <2>7. Fits(t, p, L2, X)
    BY <1>2, <2>2, <2>3 DEF Fits, InL2, n
  <2> QED BY <2>5, <2>6, <2>7, PushByPriorityOK
<1> QED BY <1>1, <1>2 DEF Level, L0, L1, L2

LEMMA SameLevelOK ==
    ASSUME NEW s, NEW X, NEW p \in Proc, Good(s, X \cup {p}), s.level[p] \in Level,
           Fits(s, p, s.level[p], X)
    PROVE  Good(SameLevel(s, p), X)
<1>1. CASE s.level[p] \in {L0, L1}
  <2>1. Good(PushHead(s, s.level[p], p), X)
    BY <1>1, PushHeadOK
  <2>2. s.level[p] # L2
    BY <1>1 DEF L0, L1, L2
  <2> QED BY <2>1, <2>2, <1>1 DEF SameLevel
<1>2. CASE s.level[p] = L2
  <2>1. s.level[p] \notin {L0, L1}
    BY <1>2 DEF L0, L1, L2
  <2>2. Good(PushByPriority(s, p), X)
    BY <1>2, PushByPriorityOK
  <2> QED BY <2>1, <2>2, <1>2 DEF SameLevel
<1> QED BY <1>1, <1>2 DEF Level, L0, L1, L2

\* back_to_mlfq(): a process that ran and can go on finds a queue.
LEMMA BackToMLFQOK ==
    ASSUME NEW s, NEW X, NEW p \in Proc, Good(s, X \cup {p}), s.level[p] \in Level,
           Fits(s, p, s.level[p], X), s.state = "IDLE"
    PROVE  Good(BackToMLFQ(s, p), X)
<1> DEFINE n == s.tick_left[p] - 1
           t == [s EXCEPT !.tick_left[p] = n]
<1>0. s \in SchedState
  BY DEF Good
<1>1. /\ MAX_TIME_QUANTUM[s.level[p]] \in Nat
      /\ s.tick_left[p] \in Int /\ s.pvalue[p] \in 0 .. MLFQMAXPRIORITY
      /\ n \in Int
  BY <1>0, MLFQAssumption DEF SchedState
<1>2. /\ t \in SchedState
      /\ t.state = s.state /\ t.locked_proc = s.locked_proc /\ t.panic = s.panic
      /\ t.queue = s.queue /\ t.pstate = s.pstate /\ t.level = s.level
      /\ t.enter_id = s.enter_id /\ t.l2q_enter_id = s.l2q_enter_id
      /\ t.tick_left[p] = n
      /\ \A q \in Proc \ {p} : t.tick_left[q] = s.tick_left[q] /\ t.pvalue[q] = s.pvalue[q]
  BY <1>0, <1>1 DEF SchedState
<1>3. BackToMLFQ(s, p) = CASE s.tick_left[p] = 0 -> [s EXCEPT !.panic = TRUE]
                            [] s.tick_left[p] = 1 -> DemoteOrAge(t, p)
                            [] OTHER -> SameLevel(t, p)
  BY <1>0 DEF BackToMLFQ
<1> HIDE DEF t, n
<1>7. t.l2q_enter_id >= s.l2q_enter_id
  BY <1>0, <1>2 DEF SchedState
<1>4. Good(t, X \cup {p})
  BY <1>2, <1>7, OthersStay
<1>5. CASE s.tick_left[p] = 1
  <2>1. Good(DemoteOrAge(t, p), X)
    BY <1>2, <1>4, DemoteOrAgeOK DEF Fits, InL2
  <2> QED BY <2>1, <1>3, <1>5
<1>6. CASE s.tick_left[p] # 1
  <2>1. n \in 1 .. MAX_TIME_QUANTUM[s.level[p]] /\ s.tick_left[p] # 0
    BY <1>1, <1>6 DEF Fits, n
  <2>2. Fits(t, p, t.level[p], X)
    BY <1>2, <2>1 DEF Fits, InL2
  <2>3. Good(SameLevel(t, p), X)
    BY <1>2, <1>4, <2>2, SameLevelOK
  <2> QED BY <2>1, <2>3, <1>3, <1>6
<1> QED BY <1>5, <1>6

-----------------------------------------------------------------------------
(* Out of a queue *)

\* The list of level l loses p.
LEMMA Unqueued ==
    ASSUME NEW s, NEW X, NEW l \in Level, Good(s, X), NEW p \in ToSet(s.queue[l]),
           NEW q \in Seq(Proc), ToSet(q) = ToSet(s.queue[l]) \ {p}, IsInjective(q),
           KeepsOrder(q, s.queue[l]),
           NEW t, t = [s EXCEPT !.queue[l] = q]
    PROVE  /\ Good(t, X \cup {p}) /\ Fits(t, p, l, X) /\ p \in Proc
           /\ t.level[p] = l /\ t.pstate = s.pstate
<1> USE DEF Good
<1>0. s \in SchedState
  OBVIOUS
<1>1. /\ t \in SchedState
      /\ t.queue = [s.queue EXCEPT ![l] = q]
      /\ t.state = s.state /\ t.locked_proc = s.locked_proc /\ t.panic = s.panic
      /\ t.pstate = s.pstate /\ t.level = s.level /\ t.tick_left = s.tick_left
      /\ t.enter_id = s.enter_id /\ t.l2q_enter_id = s.l2q_enter_id
      /\ t.pvalue = s.pvalue
  BY <1>0 DEF SchedState
<1>2. t.queue[l] = q /\ \A k \in Level \ {l} : t.queue[k] = s.queue[k]
  BY <1>0, <1>1 DEF SchedState
<1>3. p \in Proc
  BY <1>0, Elements DEF SchedState
<1>4. p \notin X /\ s.pstate[p] = "RUNNABLE" /\ s.level[p] = l
  BY DEF QueuesOK
<1>5. QueuesOK(t, X \cup {p})
  BY <1>1, <1>2, <1>4 DEF QueuesOK
<1>6. LevelOK(t, X \cup {p}) /\ QuantumOK(t, X \cup {p}) /\ EnterOK(t, X \cup {p})
  BY <1>1 DEF LevelOK, QuantumOK, EnterOK, InL2
<1>7. PlacedOK(t, X \cup {p})
  <2>1. \A r \in Proc \ X : s.pstate[r] = "RUNNABLE" => s.level[r] \in Level
    BY DEF LevelOK, Live
  <2> QED BY <1>1, <1>2, <2>1 DEF PlacedOK
<1>8. Fits(t, p, l, X)
  BY <1>1, <1>3, <1>4 DEF Fits, QuantumOK, EnterOK, InL2, Live
<1>9. OrderOK(t)
  <2>1. CASE l = L2
    <3>1. \A i, j \in 1 .. Len(q) : i < j => HigherPriority(s, q[j], q[i])
      BY <2>1 DEF KeepsOrder, OrderOK
    <3> QED BY <1>1, <1>2, <2>1, <3>1 DEF OrderOK, HigherPriority
  <2>2. CASE l # L2
    <3>1. t.queue[L2] = s.queue[L2]
      BY <1>2, <2>2 DEF Level, L0, L1, L2
    <3> QED BY <1>1, <3>1 DEF OrderOK, HigherPriority
  <2> QED BY <2>1, <2>2
<1> QED BY <1>1, <1>3, <1>4, <1>5, <1>6, <1>7, <1>8, <1>9

\* mlfq_select_target(): the tail of a queue, or nothing when all are empty.
LEMMA SelectNothingOK ==
    ASSUME NEW s, s.state = "IDLE", AbleQueues(s) = {}
    PROVE  SelectTarget(s) = NULL /\ AfterSelect(s) = s
  BY DEF SelectTarget, AfterSelect

LEMMA SelectOK ==
    ASSUME NEW s, NEW X, Good(s, X), s.state = "IDLE", AbleQueues(s) # {}
    PROVE  LET p == SelectTarget(s)
               t == AfterSelect(s)
           IN  /\ p \in Proc /\ Good(t, X \cup {p}) /\ t.level[p] \in Level
               /\ Fits(t, p, t.level[p], X) /\ t.pstate = s.pstate
<1> DEFINE l == AbleQueue(s)
           p == Last(s.queue[l])
           q == Front(s.queue[l])
           t == [s EXCEPT !.queue[l] = q]
<1>0. s \in SchedState /\ s.panic = FALSE
  BY DEF Good, SchedState
<1>1. l \in Level /\ s.queue[l] # <<>>
  <2>1. AbleQueues(s) \in SUBSET Nat
    BY DEF AbleQueues, Level, L0, L1, L2
  <2>2. l \in AbleQueues(s)
    BY <2>1, Minimum DEF AbleQueue
  <2> QED BY <2>2 DEF AbleQueues
<1>2. SelectTarget(s) = p
  BY <1>0 DEF SelectTarget
<1>9. AfterSelect(s) = [PopTail(s, l) EXCEPT !.panic = @ \/ s.pstate[p] # "RUNNABLE"]
  BY <1>0, <1>2 DEF AfterSelect
<1> HIDE DEF l
<1>3. s.queue[l] \in Seq(Proc) /\ IsInjective(s.queue[l])
  BY <1>0, <1>1 DEF Good, QueuesOK, SchedState
<1>4. /\ p \in ToSet(s.queue[l])
      /\ q \in Seq(Proc) /\ ToSet(q) = ToSet(s.queue[l]) \ {p} /\ IsInjective(q)
      /\ KeepsOrder(q, s.queue[l])
  BY <1>1, <1>3, FrontFacts
<1> HIDE DEF p
<1>5. s.pstate[p] = "RUNNABLE" /\ s.level[p] = l
  BY <1>1, <1>4 DEF Good, QueuesOK
<1>6. AfterSelect(s) = t
  BY <1>0, <1>5, <1>9 DEF PopTail, SchedState
<1> HIDE DEF q
<1>8. /\ Good(t, X \cup {p}) /\ Fits(t, p, l, X) /\ p \in Proc
      /\ t.level[p] = l /\ t.pstate = s.pstate
  <2>1. ASSUME NEW k \in Level, NEW r \in ToSet(s.queue[k]), NEW f \in Seq(Proc),
               ToSet(f) = ToSet(s.queue[k]) \ {r}, IsInjective(f),
               KeepsOrder(f, s.queue[k])
        PROVE  LET u == [s EXCEPT !.queue[k] = f]
               IN  /\ Good(u, X \cup {r}) /\ Fits(u, r, k, X) /\ r \in Proc
                   /\ u.level[r] = k /\ u.pstate = s.pstate
    <3> DEFINE u == [s EXCEPT !.queue[k] = f]
    <3> SUFFICES /\ Good(u, X \cup {r}) /\ Fits(u, r, k, X) /\ r \in Proc
                 /\ u.level[r] = k /\ u.pstate = s.pstate
      OBVIOUS
    <3>1. Good(u, X \cup {r}) /\ Fits(u, r, k, X)
      BY <2>1, Unqueued
    <3>2. r \in Proc /\ s.level[r] = k
      BY <1>0, Elements DEF SchedState, Good, QueuesOK
    <3>3. u.level = s.level /\ u.pstate = s.pstate
      BY <1>0 DEF SchedState
    <3> QED BY <3>1, <3>2, <3>3
  <2> QED BY <1>1, <1>4, <2>1
<1> QED BY <1>1, <1>2, <1>6, <1>8

-----------------------------------------------------------------------------
(* Changes to a process that keep it in place, and to all of them. *)

\* The priority value is nobody's condition but L2's order.
LEMMA PriorityIsFree ==
    ASSUME NEW s, NEW X, Good(s, X), NEW p \in Proc, NEW v \in 0 .. MLFQMAXPRIORITY,
           p \notin ToSet(s.queue[L2]), NEW t, t = [s EXCEPT !.pvalue[p] = v]
    PROVE  Good(t, X)
<1>0. s \in SchedState
  BY DEF Good
<1>1. /\ t \in SchedState
      /\ t.state = s.state /\ t.locked_proc = s.locked_proc /\ t.panic = s.panic
      /\ t.queue = s.queue /\ t.pstate = s.pstate /\ t.level = s.level
      /\ t.enter_id = s.enter_id /\ t.l2q_enter_id = s.l2q_enter_id
      /\ t.tick_left = s.tick_left
      /\ \A q \in Proc \ {p} : t.pvalue[q] = s.pvalue[q]
  BY <1>0 DEF SchedState
<1>2. OrderOK(t)
  <2>1. s.queue[L2] \in Seq(Proc)
    BY <1>0 DEF SchedState, Level, L0, L1, L2
  <2>2. \A i \in 1 .. Len(s.queue[L2]) : s.queue[L2][i] \in Proc \ {p}
    BY <2>1, Elements
  <2> QED BY <1>1, <2>2 DEF Good, OrderOK, HigherPriority
<1> QED BY <1>1, <1>2 DEF Good, QueuesOK, LevelOK, QuantumOK, EnterOK, PlacedOK, InL2

LEMMA RelocateByPriorityOK ==
    ASSUME NEW s, NEW X, Good(s, X), NEW p \in Proc, p \notin X, NEW v \in 0 .. MLFQMAXPRIORITY
    PROVE  Good(RelocateByPriority(s, p, v), X)
<1> DEFINE t == [s EXCEPT !.pvalue[p] = v]
           u == DeleteFromL2(t, p)
<1>0. s \in SchedState /\ L2 \in Level
  BY DEF Good, Level, L0, L1, L2
<1>1. CASE s.pstate[p] = "RUNNABLE" /\ s.level[p] = L2
  <2>1. p \in ToSet(s.queue[L2]) /\ IsInjective(s.queue[L2]) /\ s.queue[L2] \in Seq(Proc)
    BY <1>0, <1>1 DEF Good, PlacedOK, QueuesOK, SchedState
  <2> DEFINE i == CHOOSE i \in 1 .. Len(s.queue[L2]) : s.queue[L2][i] = p
             q == RemoveAt(s.queue[L2], i)
             w == [s EXCEPT !.queue[L2] = q]
             x == [w EXCEPT !.pvalue[p] = v]
  <2>2. i \in 1 .. Len(s.queue[L2]) /\ s.queue[L2][i] = p
    BY <2>1, Elements
  <2>3. RelocateByPriority(s, p, v) = PushByPriority(u, p)
    BY <1>1 DEF RelocateByPriority
  <2>4. u = x
    <3>1. t.queue = s.queue
      BY <1>0 DEF SchedState
    <3>2. u = [t EXCEPT !.queue[L2] = q]
      BY <2>1, <3>1 DEF DeleteFromL2
    <3> HIDE DEF i, q, u
    <3> QED BY <1>0, <3>2 DEF SchedState
  <2> HIDE DEF i, u
  <2>5. /\ q \in Seq(Proc) /\ ToSet(q) = ToSet(s.queue[L2]) \ {p} /\ IsInjective(q)
        /\ KeepsOrder(q, s.queue[L2])
    BY <2>1, <2>2, RemoveAtFacts
  <2> HIDE DEF q
  <2>6. Good(w, X \cup {p}) /\ Fits(w, p, L2, X)
    BY <1>0, <2>1, <2>5, Unqueued
  <2>7. w \in SchedState
    BY <2>6 DEF Good
  <2> HIDE DEF w
  <2>8. /\ x \in SchedState
        /\ x.state = w.state /\ x.locked_proc = w.locked_proc /\ x.panic = w.panic
        /\ x.queue = w.queue /\ x.pstate = w.pstate /\ x.level = w.level
        /\ x.enter_id = w.enter_id /\ x.l2q_enter_id = w.l2q_enter_id
        /\ x.tick_left = w.tick_left
        /\ \A r \in Proc \ {p} : x.pvalue[r] = w.pvalue[r]
    BY <2>7 DEF SchedState
  <2>9. x.l2q_enter_id >= w.l2q_enter_id
    BY <2>7, <2>8 DEF SchedState
  <2> HIDE DEF x
  <2>10. Good(x, X \cup {p}) /\ Fits(x, p, L2, X)
    <3>1. Good(x, X \cup {p})
      BY <2>6, <2>8, <2>9, OthersStay
    <3>2. Fits(x, p, L2, X)
      BY <2>6, <2>8 DEF Fits, InL2
    <3> QED BY <3>1, <3>2
  <2> QED BY <2>3, <2>4, <2>10, PushByPriorityOK
<1>2. CASE ~ (s.pstate[p] = "RUNNABLE" /\ s.level[p] = L2)
  <2>1. p \notin ToSet(s.queue[L2])
    BY <1>0, <1>2 DEF Good, QueuesOK
  <2>2. RelocateByPriority(s, p, v) \in {t, s}
    BY <1>2 DEF RelocateByPriority
  <2> QED BY <2>1, <2>2, PriorityIsFree
<1> QED BY <1>1, <1>2

\* check_wakeup(): a sleeper that is made RUNNABLE gets a queue of its level.
LEMMA WakeupOK ==
    ASSUME NEW s, NEW X, Good(s, X), NEW p \in Proc \ X, s.pstate[p] = "SLEEPING"
    PROVE  LET t == CheckWakeup([s EXCEPT !.pstate[p] = "RUNNABLE"], p)
           IN  Good(t, X) /\ t.pstate = [s.pstate EXCEPT ![p] = "RUNNABLE"]
<1> DEFINE t == [s EXCEPT !.pstate[p] = "RUNNABLE"]
<1>0. s \in SchedState
  BY DEF Good
<1>1. s.level[p] \in Level
  BY DEF Good, LevelOK, Live
<1>2. /\ t \in SchedState
      /\ t.state = s.state /\ t.locked_proc = s.locked_proc /\ t.panic = s.panic
      /\ t.queue = s.queue /\ t.level = s.level /\ t.tick_left = s.tick_left
      /\ t.enter_id = s.enter_id /\ t.l2q_enter_id = s.l2q_enter_id
      /\ t.pvalue = s.pvalue
      /\ t.pstate = [s.pstate EXCEPT ![p] = "RUNNABLE"]
  BY <1>0 DEF SchedState, ProcState
<1> HIDE DEF t
<1>3. /\ t.pstate[p] = "RUNNABLE" /\ t.l2q_enter_id >= s.l2q_enter_id
      /\ \A q \in Proc \ {p} : t.pstate[q] = s.pstate[q]
  BY <1>0, <1>2 DEF SchedState
<1>4. Good(s, X \cup {p})
  BY LeaveOut
<1>5. Good(t, X \cup {p})
  BY <1>2, <1>3, <1>4, OthersStay
<1>6. Good(InsertQueue(t, p, t.level[p], FALSE, TRUE), X)
  BY <1>1, <1>2, <1>3, <1>5, InsertQueueOK
<1>7. InsertQueue(t, p, t.level[p], FALSE, TRUE).pstate = t.pstate
  BY <1>2 DEF InsertQueue, PushByPriority, PushHead, SchedState
<1> QED BY <1>2, <1>6, <1>7 DEF CheckWakeup, t

\* prirority_boost(): every queue is emptied into L0, in order, and so is the
\* lock, whose holder goes behind those who were in L0.
LEMMA BoostOK ==
    ASSUME NEW s, Good(s, Holder(s)), s.state \in {"IDLE", "LOCKED"},
           \A p \in Holder(s) : p \in Proc /\ s.pstate[p] = "RUNNABLE"
    PROVE  LET r == PriorityBoost(s)
           IN  /\ Good(r, {}) /\ r.pstate = s.pstate /\ r.state = "IDLE"
               /\ r.locked_proc = IF s.state = "LOCKED" THEN NULL ELSE s.locked_proc
<1> DEFINE A == {p \in Proc : s.pstate[p] \in Live}
           H == Holder(s)
           base == IF s.state = "LOCKED" THEN Append(s.queue[L0], s.locked_proc)
                                         ELSE s.queue[L0]
           c == s.queue[L2] \o s.queue[L1] \o base
           holder == IF s.state = "LOCKED" THEN NULL ELSE s.locked_proc
           queue == [l \in Level |-> IF l = L0 THEN c ELSE <<>>]
           level == [p \in Proc |-> IF p \in A THEN L0 ELSE s.level[p]]
           pvalue == [p \in Proc |-> IF p \in A THEN MLFQMAXPRIORITY ELSE s.pvalue[p]]
           quanta == [p \in Proc |-> IF p \in A THEN MAX_TIME_QUANTUM[L0]
                                               ELSE s.tick_left[p]]
           t == IF s.state = "LOCKED"
                THEN [PushTail(s, L0, s.locked_proc) EXCEPT !.state = "IDLE",
                                                            !.locked_proc = NULL]
                ELSE s
           r == [t EXCEPT !.queue = queue, !.level = level, !.pvalue = pvalue,
                          !.tick_left = quanta]
<1>0. /\ s \in SchedState /\ {L0, L1, L2} \subseteq Level
      /\ L0 # L1 /\ L1 # L2 /\ L0 # L2
  BY DEF Good, Level, L0, L1, L2
<1>a. H \subseteq A /\ \A p \in H : s.pstate[p] = "RUNNABLE"
  BY DEF Live
<1>1. \A l \in Level : s.queue[l] \in Seq(Proc) /\ IsInjective(s.queue[l])
                       /\ ToSet(s.queue[l]) \subseteq A
                       /\ ToSet(s.queue[l]) \cap H = {}
  <2>1. \A l \in Level : s.queue[l] \in Seq(Proc) /\ IsInjective(s.queue[l])
    BY <1>0 DEF Good, QueuesOK, SchedState
  <2>2. \A l \in Level : ToSet(s.queue[l]) \subseteq Proc
    BY <2>1, Elements
  <2> QED BY <2>1, <2>2 DEF Good, QueuesOK, Live
<1>2. \A k, l \in Level : k # l => ToSet(s.queue[k]) \cap ToSet(s.queue[l]) = {}
  BY DEF Good, QueuesOK
<1>b. base \in Seq(Proc) /\ IsInjective(base) /\ ToSet(base) = ToSet(s.queue[L0]) \cup H
  <2>1. CASE s.state = "LOCKED"
    <3>1. s.locked_proc \in Proc /\ H = {s.locked_proc}
      BY <2>1 DEF Holder
    <3> QED BY <1>0, <1>1, <2>1, <3>1, AppendFacts
  <2>2. CASE s.state # "LOCKED"
    <3>1. H = {} /\ base = s.queue[L0]
      BY <2>2 DEF Holder
    <3> QED BY <1>0, <1>1, <3>1
  <2> QED BY <2>1, <2>2
<1> HIDE DEF H, base
<1>3. /\ c \in Seq(Proc) /\ IsInjective(c)
      /\ ToSet(c) = ToSet(s.queue[L2]) \cup ToSet(s.queue[L1]) \cup ToSet(s.queue[L0]) \cup H
  <2> DEFINE q0 == s.queue[L0]
             q1 == s.queue[L1]
             q2 == s.queue[L2]
             b == q2 \o q1
  <2>0. /\ base \in Seq(Proc) /\ q1 \in Seq(Proc) /\ q2 \in Seq(Proc)
        /\ IsInjective(base) /\ IsInjective(q1) /\ IsInjective(q2)
        /\ ToSet(q2) \cap ToSet(q1) = {}
        /\ (ToSet(q2) \cup ToSet(q1)) \cap ToSet(base) = {}
    BY <1>0, <1>1, <1>2, <1>b
  <2>1. c = b \o base
    OBVIOUS
  <2> HIDE DEF q0, q1, q2, c
  <2>2. b \in Seq(Proc) /\ IsInjective(b) /\ ToSet(b) = ToSet(q2) \cup ToSet(q1)
    BY <2>0, ConcatElements, ConcatFacts
  <2> HIDE DEF b
  <2>3. /\ b \o base \in Seq(Proc) /\ IsInjective(b \o base)
        /\ ToSet(b \o base) = ToSet(b) \cup ToSet(base)
    BY <2>0, <2>2, ConcatElements, ConcatFacts
  <2> QED BY <1>b, <2>1, <2>2, <2>3 DEF q0, q1, q2
<1>c. /\ t \in SchedState /\ t.state = "IDLE" /\ t.locked_proc = holder
      /\ t.queue = [s.queue EXCEPT ![L0] = base]
      /\ t.panic = s.panic /\ t.pstate = s.pstate /\ t.level = s.level
      /\ t.pvalue = s.pvalue /\ t.tick_left = s.tick_left
      /\ t.enter_id = s.enter_id /\ t.l2q_enter_id = s.l2q_enter_id
  <2>1. CASE s.state = "LOCKED"
    <3> DEFINE o == [s.queue EXCEPT ![L0] = base]
    <3>1. o \in [Level -> Seq(Proc)]
      BY <1>0, <1>b DEF SchedState
    <3>2. t = [s EXCEPT !.queue = o, !.state = "IDLE", !.locked_proc = NULL]
      BY <2>1 DEF PushTail, base
    <3> HIDE DEF o, t
    <3>3. t \in SchedState
      BY <1>0, <3>1, <3>2 DEF SchedState, MLFQState
    <3> QED BY <1>0, <2>1, <3>2, <3>3 DEF SchedState, o
  <2>2. CASE s.state # "LOCKED"
    <3>1. [s.queue EXCEPT ![L0] = s.queue[L0]] = s.queue
      BY <1>0 DEF SchedState
    <3> QED BY <1>0, <2>2, <3>1 DEF base
  <2> QED BY <2>1, <2>2
<1>4. PriorityBoost(s) = r
  <2> DEFINE R == {p \in Proc : s.pstate[p] \in Live}
                    \cup (IF s.state = "LOCKED" THEN {s.locked_proc} ELSE {})
                    \cup ToSet(s.queue[L1]) \cup ToSet(s.queue[L2])
  <2>1. R = A
    BY <1>0, <1>a, <1>1 DEF H, Holder
  <2>2. t.queue[L2] \o t.queue[L1] \o t.queue[L0] = c
    BY <1>0, <1>c DEF c, base, SchedState
  <2> HIDE DEF A, c, t
  <2>3. /\ t.level = s.level /\ t.pvalue = s.pvalue /\ t.tick_left = s.tick_left
    BY <1>c DEF t
  <2>4. PriorityBoost(s) =
          [t EXCEPT
             !.queue = [l \in Level |-> IF l = L0 THEN t.queue[L2] \o t.queue[L1] \o t.queue[L0]
                                                  ELSE <<>>],
             !.level = [p \in Proc |-> IF p \in R THEN L0 ELSE t.level[p]],
             !.pvalue = [p \in Proc |-> IF p \in R THEN MLFQMAXPRIORITY ELSE t.pvalue[p]],
             !.tick_left = [p \in Proc |-> IF p \in R THEN MAX_TIME_QUANTUM[L0]
                                                      ELSE t.tick_left[p]]]
    BY DEF PriorityBoost, R, t
  <2> HIDE DEF R
  <2> QED BY <2>1, <2>2, <2>3, <2>4, Zenon
<1>5. MAX_TIME_QUANTUM[L0] \in Nat \ {0} /\ MLFQMAXPRIORITY \in Nat
  BY <1>0, MLFQAssumption
<1> HIDE DEF c, A, t
<1>6. /\ queue \in [Level -> Seq(Proc)]
      /\ level \in [Proc -> Level \cup {-1}]
      /\ pvalue \in [Proc -> 0 .. MLFQMAXPRIORITY]
      /\ quanta \in [Proc -> Int]
  BY <1>0, <1>3, <1>5 DEF SchedState
<1> HIDE DEF queue, level, pvalue, quanta
<1>7. /\ r \in SchedState
      /\ r.state = "IDLE" /\ r.locked_proc = holder /\ r.panic = s.panic
      /\ r.pstate = s.pstate /\ r.queue = queue /\ r.level = level
      /\ r.tick_left = quanta
      /\ r.enter_id = s.enter_id /\ r.l2q_enter_id = s.l2q_enter_id
  BY <1>0, <1>6, <1>c DEF SchedState
<1> HIDE DEF r
<1>8. /\ queue[L0] = c /\ \A l \in Level \ {L0} : queue[l] = <<>>
      /\ \A p \in A : level[p] = L0 /\ quanta[p] = MAX_TIME_QUANTUM[L0]
  BY <1>0 DEF queue, level, quanta, A
<1>9. /\ \A p \in Proc : p \in A <=> s.pstate[p] \in Live
      /\ A \subseteq Proc
  BY DEF A
<1>10. QueuesOK(r, {})
  <2>1. ToSet(c) \subseteq A
    BY <1>0, <1>a, <1>1, <1>3
  <2>2. \A p \in ToSet(c) : r.pstate[p] = "RUNNABLE"
    BY <1>0, <1>a, <1>3, <1>7 DEF Good, QueuesOK
  <2>3. ToSet(<<>>) = {} /\ IsInjective(<<>>)
    BY DEF ToSet, IsInjective
  <2> QED BY <1>3, <1>7, <1>8, <2>1, <2>2, <2>3 DEF QueuesOK
<1>11. LevelOK(r, {})
  BY <1>0, <1>7, <1>8, <1>9 DEF LevelOK
<1>12. QuantumOK(r, {})
  BY <1>5, <1>7, <1>8, <1>9 DEF QuantumOK, Live
<1>13. EnterOK(r, {})
  BY <1>0, <1>7, <1>8, <1>9 DEF EnterOK, InL2
<1>14. PlacedOK(r, {})
  <2>1. \A p \in Proc : s.pstate[p] = "RUNNABLE" => p \in ToSet(c)
    <3> SUFFICES ASSUME NEW p \in Proc, s.pstate[p] = "RUNNABLE" PROVE p \in ToSet(c)
      OBVIOUS
    <3>1. CASE p \in H
      BY <1>3, <3>1
    <3>2. CASE p \notin H
      <4>1. s.level[p] \in Level /\ p \in ToSet(s.queue[s.level[p]])
        BY <3>2 DEF H, Good, PlacedOK, LevelOK, Live
      <4>2. s.level[p] \in {L0, L1, L2}
        BY <4>1 DEF Level, L0, L1, L2
      <4> QED BY <1>3, <4>1, <4>2
    <3> QED BY <3>1, <3>2
  <2> QED BY <2>1, <1>7, <1>8, <1>9 DEF PlacedOK, Live
<1>15. OrderOK(r)
  <2>1. r.queue[L2] = <<>>
    BY <1>7, <1>8 DEF Level, L0, L1, L2
  <2> QED BY <2>1 DEF OrderOK
<1> QED BY <1>4, <1>7, <1>10, <1>11, <1>12, <1>13, <1>14, <1>15 DEF Good
-----------------------------------------------------------------------------
(* What the functions do not touch. *)

LEMMA InsertKeeps ==
    ASSUME NEW s \in SchedState, NEW p, NEW l, NEW set_priority, NEW set_timequantum
    PROVE  LET t == InsertQueue(s, p, l, set_priority, set_timequantum)
           IN  t.pstate = s.pstate /\ KeepsLock(s, t)
  BY DEF InsertQueue, PushByPriority, PushHead, SchedState, KeepsLock

LEMMA RelocateKeeps ==
    ASSUME NEW s \in SchedState, NEW p, NEW v
    PROVE  LET t == RelocateByPriority(s, p, v)
           IN  t.pstate = s.pstate /\ KeepsLock(s, t)
  BY DEF RelocateByPriority, PushByPriority, DeleteFromL2, SchedState, KeepsLock

LEMMA BackKeeps ==
    ASSUME NEW s \in SchedState, NEW p
    PROVE  LET t == BackToMLFQ(s, p)
           IN  t.pstate = s.pstate /\ (s.state = "IDLE" => KeepsLock(s, t))
  BY DEF BackToMLFQ, DemoteOrAge, SameLevel, InsertQueue, PushByPriority, PushHead,
         PushTail, SchedState, KeepsLock

LEMMA SelectKeeps ==
    ASSUME NEW s \in SchedState
    PROVE  LET t == AfterSelect(s)
           IN  t.pstate = s.pstate /\ KeepsLock(s, t)
  BY DEF AfterSelect, PopTail, SchedState, KeepsLock
-----------------------------------------------------------------------------
(* The processes on the CPUs. *)

\* A slot that fork() is filling is an EMBRYO of one parent.
EmbryoOK ==
    \A p \in Proc : child[p] # NULL =>
        /\ sched.pstate[child[p]] = "EMBRYO"
        /\ \A q \in Proc : child[q] = child[p] => q = p

\* The process that exit() wakes exists; the first process never exits.
ParentOK ==
    /\ ~ exiting[INITPROC]
    /\ \A p \in Proc \ {INITPROC} :
         sched.pstate[p] \notin {"UNUSED", "EMBRYO"} => parent[p] \in Proc

\* The scheduler is locked on one CPU only, and for whoever is on it.
LockedAlone ==
    sched.state = "LOCKED" =>
        NCPU = 1 /\ \A c \in CPU : cpuproc[c] \in {NULL, sched.locked_proc}

IInv == TypeOK /\ Sound(sched) /\ LockedAlone /\ OneCPUPerProcess /\ EmbryoOK /\ ParentOK

-----------------------------------------------------------------------------
(* What a step does in the abstract life cycle. *)

LifeStep == [Life!Next]_(Life!vars)

\* A process is created, given up, started, woken or reaped.
LEMMA MoveOK ==
    ASSUME NEW p \in Proc, NEW from, NEW to,
           <<from, to>> \in {<<"UNUSED", "EMBRYO">>, <<"EMBRYO", "UNUSED">>,
                             <<"EMBRYO", "RUNNABLE">>, <<"SLEEPING", "RUNNABLE">>,
                             <<"ZOMBIE", "UNUSED">>},
           sched.pstate[p] = from, sched'.pstate = [sched.pstate EXCEPT ![p] = to],
           cpuproc' = cpuproc
    PROVE  LifeStep
<1>1. Life!Moves(p, from, to) /\ UNCHANGED cpuproc
  BY DEF Life!Moves
<1>2. \/ Life!Create(p) \/ Life!Discard(p) \/ Life!Start(p) \/ Life!Wake(p)
      \/ Life!Reap(p)
  BY <1>1 DEF Life!Create, Life!Discard, Life!Start, Life!Wake, Life!Reap
<1> QED BY <1>2 DEF LifeStep, Life!Next

\* A process leaves its CPU; if it exits, others may be woken.
LEMMA LeaveCPU ==
    ASSUME IInv, NEW c \in CPU, NEW p \in Proc, cpuproc[c] = p,
           cpuproc' = [cpuproc EXCEPT ![c] = NULL], sched' \in SchedState,
           sched'.pstate[p] \in {"RUNNABLE", "SLEEPING", "ZOMBIE"},
           \A q \in Proc \ {p} :
               \/ sched'.pstate[q] = sched.pstate[q]
               \/ /\ sched'.pstate[p] = "ZOMBIE"
                  /\ sched.pstate[q] = "SLEEPING" /\ sched'.pstate[q] = "RUNNABLE"
    PROVE  LifeStep
<1> DEFINE woken == {q \in Proc \ {p} : sched'.pstate[q] # sched.pstate[q]}
           to == sched'.pstate[p]
<1>1. sched.pstate[p] = "RUNNING"
  BY DEF IInv, OneCPUPerProcess
<1>2. woken \in SUBSET Proc /\ (woken # {} => to = "ZOMBIE")
      /\ \A q \in woken : sched.pstate[q] = "SLEEPING"
  OBVIOUS
<1>3. sched'.pstate = [q \in Proc |-> CASE q = p -> to
                                        [] q \in woken -> "RUNNABLE"
                                        [] OTHER -> sched.pstate[q]]
  <2>1. sched'.pstate = [q \in Proc |-> sched'.pstate[q]]
    BY DEF SchedState
  <2>2. \A q \in Proc : sched'.pstate[q] = CASE q = p -> to
                                              [] q \in woken -> "RUNNABLE"
                                              [] OTHER -> sched.pstate[q]
    OBVIOUS
  <2> HIDE DEF woken, to
  <2> QED BY <2>1, <2>2
<1> HIDE DEF woken
<1>4. Life!Leave(c, p, to, woken)
  BY <1>1, <1>2, <1>3 DEF Life!Leave
<1> QED BY <1>2, <1>4 DEF LifeStep, Life!Next

-----------------------------------------------------------------------------
(* Changes of a process's state that are not the queues' own. *)

\* p, in no queue, changes its state.
LEMMA SetStateOK ==
    ASSUME NEW s, NEW X, NEW p \in X \cap Proc, NEW st \in ProcState, Good(s, X)
    PROVE  LET t == SetState(s, p, st)
           IN  /\ Good(t, X) /\ KeepsLock(s, t)
               /\ t.pstate = [s.pstate EXCEPT ![p] = st]
<1> DEFINE t == SetState(s, p, st)
<1>0. s \in SchedState
  BY DEF Good
<1>1. /\ t \in SchedState
      /\ t.state = s.state /\ t.locked_proc = s.locked_proc
      /\ t.panic = s.panic /\ t.queue = s.queue /\ t.level = s.level
      /\ t.tick_left = s.tick_left /\ t.enter_id = s.enter_id
      /\ t.l2q_enter_id = s.l2q_enter_id /\ t.pvalue = s.pvalue
      /\ t.pstate = [s.pstate EXCEPT ![p] = st]
  BY <1>0 DEF SetState, SchedState
<1> HIDE DEF t
<1>2. t.l2q_enter_id >= s.l2q_enter_id /\ \A q \in Proc \ {p} : t.pstate[q] = s.pstate[q]
  BY <1>0, <1>1 DEF SchedState
<1>3. \A q \in Proc \ {p} :
        /\ t.level[q] = s.level[q] /\ t.tick_left[q] = s.tick_left[q]
        /\ t.enter_id[q] = s.enter_id[q] /\ t.pvalue[q] = s.pvalue[q]
  BY <1>1
<1>4. Good(t, X)
  BY <1>1, <1>2, <1>3, OthersStay
<1> QED BY <1>1, <1>4 DEF t, KeepsLock

\* A process that leaves the CPU for good, or to sleep.
LEMMA StopOK ==
    ASSUME NEW s, NEW p \in Proc, NEW st \in {"SLEEPING", "ZOMBIE"},
           Good(s, {}), s.pstate[p] = "RUNNING"
    PROVE  Good(SetState(s, p, st), {})
<1> DEFINE t == SetState(s, p, st)
<1>0. s \in SchedState /\ st \in ProcState
  BY DEF Good, ProcState
<1>1. /\ t.level = s.level /\ t.enter_id = s.enter_id
      /\ t.l2q_enter_id = s.l2q_enter_id
      /\ t.pstate[p] = st /\ \A q \in Proc \ {p} : t.pstate[q] = s.pstate[q]
  BY <1>0 DEF SetState, SchedState
<1>2. Good(t, {p})
  <2>1. Good(s, {} \cup {p}) /\ {} \cup {p} = {p}
    BY LeaveOut
  <2> QED BY <1>0, <2>1, SetStateOK
<1>3. s.level[p] \in Level
  BY DEF Good, LevelOK, Live
<1>4. InL2(t, p) =>
        /\ t.enter_id[p] < t.l2q_enter_id
        /\ \A q \in Proc \ ({} \cup {p}) : InL2(t, q) => t.enter_id[q] # t.enter_id[p]
  BY <1>1 DEF Good, EnterOK, InL2, Live
<1> HIDE DEF t
<1>5. Good(t, {})
  <2>1. Good(t, {} \cup {p})
    <3>1. {} \cup {p} = {p}
      OBVIOUS
    <3> QED BY <1>2, <3>1
  <2> QED BY <1>1, <2>1, <1>3, <1>4, TakeIn
<1> QED BY <1>5 DEF t

\* A process that leaves the CPU and could go on.
LEMMA ReadyOK ==
    ASSUME NEW s, NEW p \in Proc, Good(s, {}), s.pstate[p] = "RUNNING"
    PROVE  LET t == SetState(s, p, "RUNNABLE")
           IN  Good(t, {p}) /\ t.level[p] \in Level /\ Fits(t, p, t.level[p], {})
<1> DEFINE t == SetState(s, p, "RUNNABLE")
<1>0. s \in SchedState /\ "RUNNABLE" \in ProcState
  BY DEF Good, ProcState
<1>1. /\ t.level = s.level /\ t.enter_id = s.enter_id /\ t.tick_left = s.tick_left
      /\ t.l2q_enter_id = s.l2q_enter_id
      /\ t.pstate[p] = "RUNNABLE" /\ \A q \in Proc \ {p} : t.pstate[q] = s.pstate[q]
  BY <1>0 DEF SetState, SchedState
<1>2. Good(t, {p})
  <2>1. Good(s, {} \cup {p}) /\ {} \cup {p} = {p}
    BY LeaveOut
  <2> QED BY <1>0, <2>1, SetStateOK
<1> HIDE DEF t
<1>3. t.level[p] \in Level
  BY <1>1 DEF Good, LevelOK, Live
<1>4. Fits(t, p, t.level[p], {})
  BY <1>1 DEF Fits, Good, QuantumOK, EnterOK, InL2, Live
<1> QED BY <1>2, <1>3, <1>4 DEF t

\* A process that was taken out of its queue runs.
LEMMA RunOK ==
    ASSUME NEW s, NEW p \in Proc, Good(s, {p}), s.level[p] \in Level,
           Fits(s, p, s.level[p], {})
    PROVE  Good(SetState(s, p, "RUNNING"), {})
<1> DEFINE t == SetState(s, p, "RUNNING")
<1>0. s \in SchedState /\ "RUNNING" \in ProcState
  BY DEF Good, ProcState
<1>1. /\ t.level = s.level /\ t.enter_id = s.enter_id /\ t.tick_left = s.tick_left
      /\ t.l2q_enter_id = s.l2q_enter_id
      /\ t.pstate[p] = "RUNNING" /\ \A q \in Proc \ {p} : t.pstate[q] = s.pstate[q]
  BY <1>0 DEF SetState, SchedState
<1>2. Good(t, {} \cup {p})
  <2>1. {} \cup {p} = {p}
    OBVIOUS
  <2> QED BY <1>0, <2>1, SetStateOK
<1> HIDE DEF t
<1>3. Good(t, {})
  BY <1>1, <1>2, TakeIn DEF Fits, InL2
<1> QED BY <1>3 DEF t

\* A slot changes hands outside of the scheduler's sight.
LEMMA SlotOK ==
    ASSUME NEW s, NEW p \in Proc, NEW st \in {"UNUSED", "EMBRYO"}, Sound(s),
           s.pstate[p] \in {"UNUSED", "EMBRYO", "ZOMBIE"}
    PROVE  LET t == SetState(s, p, st)
           IN  /\ Sound(t) /\ KeepsLock(s, t)
               /\ t.pstate = [s.pstate EXCEPT ![p] = st]
<1> DEFINE t == SetState(s, p, st)
           X == Holder(s)
<1>0. /\ s \in SchedState /\ Good(s, X) /\ st \in ProcState
      /\ \A q \in X : q \in Proc /\ s.pstate[q] \in {"RUNNABLE", "RUNNING"}
  BY HolderFacts DEF ProcState
<1> HIDE DEF X
<1>1. Good(t, X \cup {p}) /\ KeepsLock(s, t) /\ t.pstate = [s.pstate EXCEPT ![p] = st]
  <2>1. Good(s, X \cup {p}) /\ p \in (X \cup {p}) \cap Proc
    BY <1>0, LeaveOut
  <2> QED BY <1>0, <2>1, SetStateOK
<1> HIDE DEF t
<1>2. t.pstate[p] = st /\ \A q \in Proc \ {p} : t.pstate[q] = s.pstate[q]
  BY <1>0, <1>1 DEF SchedState
<1>3. Good(t, X)
  BY <1>1, <1>2, TakeIn DEF InL2, Live
<1>4. Sound(t)
  <2>1. \A q \in Holder(s) : t.pstate[q] \in {"RUNNABLE", "RUNNING"}
    BY <1>0, <1>2 DEF X
  <2> QED BY <1>1, <1>3, <2>1, StaysSound DEF X
<1> QED BY <1>1, <1>4 DEF t

\* A child that fork() has finished is queued.
LEMMA ForkOK ==
    ASSUME NEW s, NEW p \in Proc, Sound(s), s.pstate[p] = "EMBRYO"
    PROVE  LET t == InsertQueue(SetState(s, p, "RUNNABLE"), p, L0, TRUE, TRUE)
           IN  /\ Sound(t) /\ KeepsLock(s, t)
               /\ t.pstate = [s.pstate EXCEPT ![p] = "RUNNABLE"]
<1> DEFINE t == SetState(s, p, "RUNNABLE")
           u == InsertQueue(t, p, L0, TRUE, TRUE)
           X == Holder(s)
<1>0. /\ s \in SchedState /\ Good(s, X) /\ "RUNNABLE" \in ProcState /\ L0 \in Level
      /\ \A q \in X : q \in Proc /\ s.pstate[q] \in {"RUNNABLE", "RUNNING"}
  BY HolderFacts DEF ProcState, Level, L0, L2
<1>1. p \notin X
  BY <1>0
<1> HIDE DEF X
<1>2. /\ Good(t, X \cup {p}) /\ KeepsLock(s, t)
      /\ t.pstate = [s.pstate EXCEPT ![p] = "RUNNABLE"]
  <2>1. Good(s, X \cup {p}) /\ p \in (X \cup {p}) \cap Proc
    BY <1>0, LeaveOut
  <2> QED BY <1>0, <2>1, SetStateOK
<1> HIDE DEF t
<1>3. t.pstate[p] = "RUNNABLE" /\ \A q \in Proc \ {p} : t.pstate[q] = s.pstate[q]
  BY <1>0, <1>2 DEF SchedState
<1>4. Good(u, X)
  BY <1>0, <1>1, <1>2, <1>3, InsertQueueOK
<1>5. u.pstate = t.pstate /\ KeepsLock(t, u)
  BY <1>2, InsertKeeps DEF Good
<1> HIDE DEF u
<1>6. KeepsLock(s, u)
  BY <1>2, <1>5 DEF KeepsLock
<1>7. \A q \in Holder(s) : u.pstate[q] \in {"RUNNABLE", "RUNNING"}
  BY <1>0, <1>1, <1>3, <1>5 DEF X
<1>8. Sound(u)
  BY <1>4, <1>6, <1>7, StaysSound DEF X
<1> QED BY <1>2, <1>5, <1>6, <1>8 DEF t, u

\* A sleeper may have become RUNNABLE; nobody else changed.
Woken(s, t) ==
    \A q \in Proc :
        \/ t.pstate[q] = s.pstate[q]
        \/ s.pstate[q] = "SLEEPING" /\ t.pstate[q] = "RUNNABLE"

\* A sleeper is woken and queued, beside the holder of the lock.
LEMMA WakesUp ==
    ASSUME NEW s, NEW p \in Proc, Sound(s), s.pstate[p] = "SLEEPING"
    PROVE  LET t == CheckWakeup(SetState(s, p, "RUNNABLE"), p)
           IN  /\ Sound(t) /\ KeepsLock(s, t) /\ Woken(s, t)
               /\ t.pstate = [s.pstate EXCEPT ![p] = "RUNNABLE"]
<1> DEFINE u == SetState(s, p, "RUNNABLE")
           t == CheckWakeup(u, p)
           X == Holder(s)
<1>0. /\ s \in SchedState /\ Good(s, X)
      /\ \A q \in X : q \in Proc /\ s.pstate[q] \in {"RUNNABLE", "RUNNING"}
  BY HolderFacts
<1>1. p \in Proc \ X
  BY <1>0
<1> HIDE DEF X
<1>2. Good(t, X) /\ t.pstate = [s.pstate EXCEPT ![p] = "RUNNABLE"]
  BY <1>0, <1>1, WakeupOK DEF SetState
<1>3. u \in SchedState /\ KeepsLock(s, u)
  BY <1>0 DEF SetState, SchedState, ProcState, KeepsLock
<1> HIDE DEF u
<1>4. KeepsLock(s, t)
  <2>1. KeepsLock(u, t)
    BY <1>3, InsertKeeps DEF CheckWakeup
  <2> QED BY <1>3, <2>1 DEF KeepsLock
<1> HIDE DEF t
<1>5. Woken(s, t)
  BY <1>0, <1>2 DEF Woken, SchedState
<1>6. \A q \in Holder(s) : t.pstate[q] \in {"RUNNABLE", "RUNNING"}
  BY <1>0, <1>5 DEF Woken, X
<1>7. Sound(t)
  BY <1>2, <1>4, <1>6, StaysSound DEF X
<1> QED BY <1>2, <1>4, <1>5, <1>7 DEF t, u

LEMMA WakeupOneOK ==
    ASSUME NEW s, NEW p \in Proc, NEW ch, Sound(s)
    PROVE  LET t == WakeupOne(s, p, ch)
           IN  /\ Sound(t) /\ KeepsLock(s, t) /\ Woken(s, t)
               /\ \/ t.pstate = s.pstate
                  \/ /\ s.pstate[p] = "SLEEPING"
                     /\ t.pstate = [s.pstate EXCEPT ![p] = "RUNNABLE"]
<1>1. CASE s.pstate[p] = "SLEEPING" /\ chan[p] = ch
  BY <1>1, WakesUp DEF WakeupOne
<1>2. CASE ~ (s.pstate[p] = "SLEEPING" /\ chan[p] = ch)
  BY <1>2 DEF WakeupOne, Woken, KeepsLock
<1> QED BY <1>1, <1>2

-----------------------------------------------------------------------------
(* sched() and the end of scheduler()'s turn. *)

\* How the process that calls sched() may leave it to the scheduler: stopped or
\* ready, with the lock, without it, or having just given it back.
Stopped(s, p) == s.pstate[p] \in {"SLEEPING", "ZOMBIE"}

Switchable(s, p) ==
    \/ /\ s.state = "IDLE" /\ s.locked_proc = NULL
       /\ Good(s, {}) /\ Stopped(s, p)
    \/ /\ s.state = "IDLE" /\ s.locked_proc = NULL
       /\ Good(s, {p}) /\ s.level[p] \in Level /\ Fits(s, p, s.level[p], {})
    \/ /\ s.state = "LOCKED" /\ s.locked_proc = p
       /\ Good(s, {p}) /\ (Stopped(s, p) \/ s.pstate[p] = "RUNNABLE")
    \/ /\ s.state = "UNLOCK_REQUIRE" /\ s.locked_proc = NULL
       /\ Good(s, {p}) /\ Fits(s, p, L0, {})

LEMMA FreshFits ==
    ASSUME NEW s, NEW p \in Proc, s.pstate[p] = "RUNNABLE", s.level[p] = L0,
           s.tick_left[p] = MAX_TIME_QUANTUM[L0]
    PROVE  Fits(s, p, L0, {})
<1>1. MAX_TIME_QUANTUM[L0] \in 1 .. MAX_TIME_QUANTUM[L0] /\ L0 # L2
  BY MLFQAssumption DEF Level, L0, L2
<1> QED BY <1>1 DEF Fits

\* scheduler_unlock() gives the holder a new quantum of L0.
LEMMA UnlockOK ==
    ASSUME NEW s, NEW p \in Proc, Good(s, {p}), s.state = "LOCKED", s.locked_proc = p
    PROVE  LET t == SchedulerUnlock(s)
           IN  /\ Good(t, {p}) /\ t.pstate = s.pstate
               /\ t.state = "UNLOCK_REQUIRE" /\ t.locked_proc = NULL
               /\ t.level[p] = L0 /\ t.tick_left[p] = MAX_TIME_QUANTUM[L0]
<1> DEFINE v == MLFQMAXPRIORITY
           k == MAX_TIME_QUANTUM[L0]
           t == [s EXCEPT !.state = "UNLOCK_REQUIRE", !.locked_proc = NULL,
                          !.pvalue[p] = v, !.tick_left[p] = k, !.level[p] = L0]
<1>0. /\ s \in SchedState /\ p # NULL /\ L0 \in Level \cup {-1}
      /\ v \in 0 .. MLFQMAXPRIORITY /\ k \in Int
      /\ "UNLOCK_REQUIRE" \in MLFQState /\ NULL \in Proc \cup {NULL}
  BY MLFQAssumption DEF Good, Proc, NULL, Level, L0, L2, MLFQState
<1>1. SchedulerUnlock(s) = t
  BY <1>0 DEF SchedulerUnlock
<1> HIDE DEF v, k
<1>2. /\ t \in SchedState /\ t.state = "UNLOCK_REQUIRE" /\ t.locked_proc = NULL
      /\ t.panic = s.panic /\ t.queue = s.queue /\ t.pstate = s.pstate
      /\ t.enter_id = s.enter_id /\ t.l2q_enter_id = s.l2q_enter_id
      /\ t.level = [s.level EXCEPT ![p] = L0]
      /\ t.tick_left = [s.tick_left EXCEPT ![p] = k]
      /\ t.pvalue = [s.pvalue EXCEPT ![p] = v]
  BY <1>0 DEF SchedState
<1> HIDE DEF t
<1>3. /\ t.level[p] = L0 /\ t.tick_left[p] = k
      /\ t.l2q_enter_id >= s.l2q_enter_id
      /\ \A q \in Proc \ {p} :
           /\ t.pstate[q] = s.pstate[q] /\ t.level[q] = s.level[q]
           /\ t.tick_left[q] = s.tick_left[q] /\ t.enter_id[q] = s.enter_id[q]
           /\ t.pvalue[q] = s.pvalue[q]
  BY <1>0, <1>2 DEF SchedState
<1>4. Good(t, {p})
  BY <1>2, <1>3, OthersStay
<1> QED BY <1>1, <1>2, <1>3, <1>4 DEF k

\* A field that the queues do not read changes.
LEMMA SameQueues ==
    ASSUME NEW s, NEW X, Good(s, X), NEW st \in MLFQState, NEW t, t = [s EXCEPT !.state = st]
    PROVE  /\ Good(t, X) /\ t.state = st /\ t.locked_proc = s.locked_proc
           /\ t.pstate = s.pstate /\ t.level = s.level /\ t.tick_left = s.tick_left
<1>1. s \in SchedState
  BY DEF Good
<1>2. /\ t \in SchedState /\ t.state = st /\ t.locked_proc = s.locked_proc
      /\ t.panic = s.panic /\ t.queue = s.queue /\ t.pstate = s.pstate
      /\ t.enter_id = s.enter_id /\ t.l2q_enter_id = s.l2q_enter_id
      /\ t.level = s.level /\ t.tick_left = s.tick_left /\ t.pvalue = s.pvalue
  BY <1>1 DEF SchedState
<1>3. Good(t, X)
  BY <1>2 DEF Good, QueuesOK, LevelOK, QuantumOK, EnterOK, PlacedOK, OrderOK, InL2,
              HigherPriority
<1> QED BY <1>2, <1>3

\* The state that sched() leaves is sound; it is locked only if the caller keeps
\* the lock while it is put back.
SchedGood(s, p) ==
    LET r == Sched(s, p)
    IN  /\ Sound(r) /\ r.pstate = s.pstate
        /\ r.state = "LOCKED" =>
             s.state = "LOCKED" /\ r.locked_proc = p /\ s.pstate[p] = "RUNNABLE"

LEMMA SchedOfIdle ==
    ASSUME NEW s, NEW p \in Proc, s.state = "IDLE", s.locked_proc = NULL,
           \/ Good(s, {}) /\ Stopped(s, p)
           \/ Good(s, {p}) /\ s.level[p] \in Level /\ Fits(s, p, s.level[p], {})
    PROVE  SchedGood(s, p)
<1>1. CASE Good(s, {}) /\ Stopped(s, p)
  <2>1. Sched(s, p) = s
    BY <1>1 DEF Sched, CheckLockStateWhenSched, Stopped
  <2> QED BY <1>1, <2>1 DEF SchedGood, Sound, LockOK, Holder
<1>2. CASE Good(s, {p}) /\ s.level[p] \in Level /\ Fits(s, p, s.level[p], {})
  <2> DEFINE t == BackToMLFQ(s, p)
  <2>1. Good(t, {})
    <3>1. {} \cup {p} = {p}
      OBVIOUS
    <3> QED BY <1>2, <3>1, BackToMLFQOK
  <2>2. t.pstate = s.pstate /\ KeepsLock(s, t)
    BY <1>2, BackKeeps DEF Good
  <2>3. s.pstate[p] = "RUNNABLE"
    BY <1>2 DEF Fits
  <2> HIDE DEF t
  <2>4. CheckLockStateWhenSched(t, p) = t
    BY <2>2 DEF CheckLockStateWhenSched, KeepsLock
  <2>5. Sched(s, p) = t
    BY <2>3, <2>4 DEF Sched, t
  <2> QED BY <2>1, <2>2, <2>5 DEF SchedGood, Sound, LockOK, Holder, KeepsLock
<1> QED BY <1>1, <1>2

\* A holder that sleeps or exits loses the lock ...
LEMMA SchedUnlocks ==
    ASSUME NEW s, NEW p \in Proc, s.state = "LOCKED", s.locked_proc = p,
           Good(s, {p}), Stopped(s, p)
    PROVE  SchedGood(s, p)
<1> DEFINE u == SchedulerUnlock(s)
           t == [u EXCEPT !.state = "IDLE"]
<1>1. /\ Good(u, {p}) /\ u.pstate = s.pstate /\ u.locked_proc = NULL
      /\ u.level[p] = L0
  BY UnlockOK
<1>2. Sched(s, p) = t
  BY DEF Sched, CheckLockStateWhenSched, Stopped
<1> HIDE DEF u
<1>3. /\ Good(t, {p}) /\ t.pstate = s.pstate /\ t.state = "IDLE"
      /\ t.locked_proc = NULL /\ t.level[p] = L0
  BY <1>1, SameQueues DEF MLFQState
<1> HIDE DEF t
<1>4. Good(t, {})
  <2>1. {} \cup {p} = {p} /\ L0 \in Level /\ L0 # L2
    BY DEF Level, L0, L2
  <2> QED BY <1>3, <2>1, TakeIn DEF InL2, Stopped
<1> QED BY <1>2, <1>3, <1>4 DEF SchedGood, Sound, LockOK, Holder

\* ... one that is put back keeps it, and counts the tick.
LEMMA SchedKeepsLock ==
    ASSUME NEW s, NEW p \in Proc, s.state = "LOCKED", s.locked_proc = p,
           Good(s, {p}), s.pstate[p] = "RUNNABLE"
    PROVE  SchedGood(s, p)
<1> DEFINE n == s.tick_left[p] - 1
           t == [s EXCEPT !.tick_left[p] = n]
<1>1. s \in SchedState /\ n \in Int
  BY DEF Good, SchedState
<1>2. Sched(s, p) = t
  <2>1. BackToMLFQ(s, p) = t
    BY DEF BackToMLFQ
  <2>2. t.pstate = s.pstate
    BY <1>1 DEF SchedState
  <2> HIDE DEF t
  <2>3. CheckLockStateWhenSched(t, p) = t
    BY <2>2 DEF CheckLockStateWhenSched
  <2> QED BY <2>1, <2>3 DEF Sched
<1> HIDE DEF n
<1>3. /\ t \in SchedState /\ t.state = s.state /\ t.locked_proc = s.locked_proc
      /\ t.panic = s.panic /\ t.queue = s.queue /\ t.pstate = s.pstate
      /\ t.enter_id = s.enter_id /\ t.l2q_enter_id = s.l2q_enter_id
      /\ t.level = s.level /\ t.pvalue = s.pvalue
      /\ t.tick_left = [s.tick_left EXCEPT ![p] = n]
  BY <1>1 DEF SchedState
<1> HIDE DEF t
<1>4. /\ t.l2q_enter_id >= s.l2q_enter_id
      /\ \A q \in Proc \ {p} :
           /\ t.pstate[q] = s.pstate[q] /\ t.level[q] = s.level[q]
           /\ t.tick_left[q] = s.tick_left[q] /\ t.enter_id[q] = s.enter_id[q]
           /\ t.pvalue[q] = s.pvalue[q]
  BY <1>1, <1>3 DEF SchedState
<1>5. Good(t, {p})
  BY <1>3, <1>4, OthersStay
<1> QED BY <1>2, <1>3, <1>5 DEF SchedGood, Sound, LockOK, Holder

\* After scheduler_unlock() the caller goes to the tail of L0.
LEMMA SchedAfterUnlock ==
    ASSUME NEW s, NEW p \in Proc, s.state = "UNLOCK_REQUIRE", s.locked_proc = NULL,
           Good(s, {p}), Fits(s, p, L0, {})
    PROVE  SchedGood(s, p)
<1> DEFINE u == PushTail(s, L0, p)
           t == [u EXCEPT !.state = "IDLE"]
<1>1. s.pstate[p] = "RUNNABLE"
  BY DEF Fits
<1>2. Sched(s, p) = t
  <2>1. BackToMLFQ(s, p) = t
    BY DEF BackToMLFQ
  <2>2. t.state = "IDLE"
    BY DEF Good, SchedState, PushTail
  <2> HIDE DEF t
  <2>3. CheckLockStateWhenSched(t, p) = t
    BY <2>2 DEF CheckLockStateWhenSched
  <2> QED BY <1>1, <2>1, <2>3 DEF Sched
<1>3. Good(u, {})
  <2>1. {} \cup {p} = {p}
    OBVIOUS
  <2> QED BY <2>1, PushTailOK
<1>4. u.pstate = s.pstate /\ u.locked_proc = NULL
  BY DEF Good, SchedState, PushTail
<1> HIDE DEF u
<1>5. /\ Good(t, {}) /\ t.pstate = s.pstate /\ t.state = "IDLE"
      /\ t.locked_proc = NULL
  BY <1>3, <1>4, SameQueues DEF MLFQState
<1> QED BY <1>2, <1>5 DEF SchedGood, Sound, LockOK, Holder

LEMMA SchedOK ==
    ASSUME NEW s, NEW p \in Proc, Switchable(s, p)
    PROVE  SchedGood(s, p)
  BY SchedOfIdle, SchedUnlocks, SchedKeepsLock, SchedAfterUnlock DEF Switchable

\* The process of a CPU changes its state and calls sched(); if the scheduler is
\* locked, that process is the holder.
LEMMA LeavesOK ==
    ASSUME NEW s, NEW p \in Proc, Sound(s), s.pstate[p] = "RUNNING",
           s.state = "LOCKED" => s.locked_proc = p,
           NEW st \in {"RUNNABLE", "SLEEPING", "ZOMBIE"}
    PROVE  LET t == SetState(s, p, st)
           IN  /\ Switchable(t, p) /\ KeepsLock(s, t)
               /\ t.pstate = [s.pstate EXCEPT ![p] = st]
<1> DEFINE t == SetState(s, p, st)
<1>0. s \in SchedState /\ st \in ProcState
  BY HolderFacts DEF ProcState
<1>1. /\ KeepsLock(s, t) /\ t.pstate = [s.pstate EXCEPT ![p] = st] /\ t.pstate[p] = st
  BY <1>0 DEF SetState, SchedState, KeepsLock
<1>2. CASE s.state = "LOCKED"
  <2>1. Good(t, {p})
    BY <1>0, <1>2, SetStateOK DEF Sound, Holder
  <2> HIDE DEF t
  <2> QED BY <1>1, <1>2, <2>1 DEF Switchable, Stopped, KeepsLock, t
<1>3. CASE s.state # "LOCKED"
  <2>1. s.state = "IDLE" /\ s.locked_proc = NULL /\ Good(s, {})
    BY <1>3 DEF Sound, LockOK, Holder
  <2>2. CASE st = "RUNNABLE"
    <3>1. Good(t, {p}) /\ t.level[p] \in Level /\ Fits(t, p, t.level[p], {})
      BY <2>1, <2>2, ReadyOK
    <3> HIDE DEF t
    <3> QED BY <1>1, <2>1, <3>1 DEF Switchable, KeepsLock, t
  <2>3. CASE st # "RUNNABLE"
    <3>1. Good(t, {})
      BY <2>1, <2>3, StopOK
    <3> HIDE DEF t
    <3> QED BY <1>1, <2>1, <2>3, <3>1 DEF Switchable, Stopped, KeepsLock, t
  <2> QED BY <2>2, <2>3
<1> QED BY <1>2, <1>3

LEMMA BoostCheckOK ==
    ASSUME NEW s, Sound(s), \A p \in Holder(s) : s.pstate[p] = "RUNNABLE"
    PROVE  LET t == BoostCheck(s)
           IN  /\ Sound(t) /\ t.pstate = s.pstate
               /\ t.state = "LOCKED" => s.state = "LOCKED" /\ t.locked_proc = s.locked_proc
<1>1. CASE boost_flag
  <2> DEFINE r == PriorityBoost(s)
  <2>1. /\ Good(s, Holder(s)) /\ s.state \in {"IDLE", "LOCKED"}
        /\ \A p \in Holder(s) : p \in Proc /\ s.pstate[p] = "RUNNABLE"
    BY HolderFacts DEF Sound, LockOK
  <2>2. /\ Good(r, {}) /\ r.pstate = s.pstate /\ r.state = "IDLE"
        /\ r.locked_proc = IF s.state = "LOCKED" THEN NULL ELSE s.locked_proc
    BY <2>1, BoostOK
  <2> HIDE DEF r
  <2>3. r.locked_proc = NULL
    BY <2>2 DEF Sound, LockOK
  <2> QED BY <1>1, <2>2, <2>3 DEF BoostCheck, r, Sound, LockOK, Holder
<1>2. CASE ~ boost_flag
  BY <1>2 DEF BoostCheck
<1> QED BY <1>1, <1>2

\* Counting the entries of L2 from 0 again, when nobody is there, is harmless.
LEMMA CommitOK ==
    ASSUME NEW s, Sound(s), Commit(s)
    PROVE  Sound(sched') /\ sched'.pstate = s.pstate /\ KeepsLock(s, sched')
<1> DEFINE X == Holder(s)
<1>1. sched' = Renumber(s) /\ s \in SchedState /\ Good(s, X)
  BY HolderFacts DEF Commit
<1> HIDE DEF X
<1>2. CASE \E p \in Proc : InL2(s, p)
  BY <1>1, <1>2 DEF Renumber, InL2, KeepsLock
<1>3. CASE ~ \E p \in Proc : InL2(s, p)
  <2>1. sched' = [s EXCEPT !.l2q_enter_id = 0, !.enter_id = [p \in Proc |-> 0]]
    BY <1>1, <1>3 DEF Renumber, InL2
  <2>2. /\ sched'.state = s.state /\ sched'.locked_proc = s.locked_proc
        /\ sched'.panic = s.panic /\ sched'.queue = s.queue
        /\ sched'.pstate = s.pstate /\ sched'.level = s.level
        /\ sched'.tick_left = s.tick_left
    BY <1>1, <2>1 DEF SchedState
  <2>4. sched' \in SchedState
    <3> DEFINE zero == [p \in Proc |-> 0]
    <3>1. zero \in [Proc -> Nat] /\ 0 \in Nat
      OBVIOUS
    <3>2. sched' = [s EXCEPT !.l2q_enter_id = 0, !.enter_id = zero]
      BY <2>1
    <3> HIDE DEF zero
    <3> QED BY <1>1, <3>1, <3>2 DEF SchedState
  <2>3. \A p \in Proc : ~ InL2(sched', p)
    BY <1>3, <2>2 DEF InL2
  <2>5. sched'.queue[L2] = <<>>
    <3> DEFINE o == s.queue[L2]
    <3>1. o \in Seq(Proc)
      BY <1>1 DEF SchedState, Level, L0, L1, L2
    <3>2. ToSet(o) = {}
      <4>1. \A p \in ToSet(o) : p \in Proc /\ InL2(s, p)
        BY <1>1, <3>1, Elements DEF Good, QueuesOK, InL2, Live, Level, L0, L1, L2
      <4> QED BY <1>3, <4>1
    <3> HIDE DEF o
    <3>3. \A i \in 1 .. Len(o) : o[i] \in ToSet(o)
      BY <3>1, Elements
    <3>4. o = <<>>
      BY <3>1, <3>2, <3>3
    <3> QED BY <2>2, <3>4 DEF o
  <2>6. OrderOK(sched')
    BY <2>5 DEF OrderOK
  <2>7. Good(sched', X)
    BY <1>1, <2>2, <2>3, <2>4, <2>6 DEF Good, QueuesOK, LevelOK, QuantumOK, EnterOK, PlacedOK
  <2>8. KeepsLock(s, sched')
    BY <2>2 DEF KeepsLock
  <2>9. \A p \in Holder(s) : sched'.pstate[p] \in {"RUNNABLE", "RUNNING"}
    BY <2>2, HolderFacts
  <2> QED BY <2>2, <2>7, <2>8, <2>9, StaysSound DEF X
<1> QED BY <1>2, <1>3

-----------------------------------------------------------------------------
(* The processes on the CPUs. *)

\* Nobody starts or stops running, and no half made process is touched.
LEMMA NobodyMoves ==
    ASSUME TypeOK, OneCPUPerProcess, EmbryoOK, cpuproc' = cpuproc, child' = child,
           \A q \in Proc :
               /\ sched'.pstate[q] = "RUNNING" <=> sched.pstate[q] = "RUNNING"
               /\ sched.pstate[q] = "EMBRYO" => sched'.pstate[q] = "EMBRYO"
    PROVE  OneCPUPerProcess' /\ EmbryoOK'
<1>1. OneCPUPerProcess'
  BY DEF OneCPUPerProcess
<1>2. \A p \in Proc : child[p] # NULL => child[p] \in Proc
  BY DEF TypeOK
<1>3. EmbryoOK'
  BY <1>2 DEF EmbryoOK
<1> QED BY <1>1, <1>3

\* The process of CPU c stops, and may have woken others.
LEMMA CPULeft ==
    ASSUME TypeOK, OneCPUPerProcess, EmbryoOK, NEW c \in CPU, NEW p \in Proc,
           cpuproc[c] = p, cpuproc' = [cpuproc EXCEPT ![c] = NULL], child' = child,
           sched'.pstate[p] \in {"RUNNABLE", "SLEEPING", "ZOMBIE"},
           \A q \in Proc \ {p} :
               \/ sched'.pstate[q] = sched.pstate[q]
               \/ sched.pstate[q] = "SLEEPING" /\ sched'.pstate[q] = "RUNNABLE"
    PROVE  OneCPUPerProcess' /\ EmbryoOK'
<1>1. /\ cpuproc'[c] = NULL /\ \A d \in CPU \ {c} : cpuproc'[d] = cpuproc[d]
      /\ p # NULL /\ \A q \in Proc : q # NULL
  BY DEF TypeOK, Proc, NULL
<1>2. \A q \in Proc \ {p} : sched'.pstate[q] = "RUNNING" <=> sched.pstate[q] = "RUNNING"
  OBVIOUS
<1>3. \A d \in CPU : cpuproc[d] = p => d = c
  BY DEF OneCPUPerProcess
<1>4. OneCPUPerProcess'
  <2> SUFFICES ASSUME NEW q \in Proc
               PROVE  /\ sched'.pstate[q] = "RUNNING" <=> \E d \in CPU : cpuproc'[d] = q
                      /\ \A d, e \in CPU : cpuproc'[d] = q /\ cpuproc'[e] = q => d = e
    BY DEF OneCPUPerProcess
  <2>1. CASE q = p
    BY <1>1, <1>3, <2>1
  <2>2. CASE q # p
    BY <1>1, <1>2, <2>2 DEF OneCPUPerProcess
  <2> QED BY <2>1, <2>2
<1>5. EmbryoOK'
  <2>1. \A q \in Proc : child[q] # NULL => child[q] \in Proc
    BY DEF TypeOK
  <2>2. sched.pstate[p] = "RUNNING"
    BY DEF OneCPUPerProcess
  <2> QED BY <2>1, <2>2 DEF EmbryoOK
<1> QED BY <1>4, <1>5

\* A RUNNABLE process comes to run on the idle CPU c.
LEMMA CPUTaken ==
    ASSUME TypeOK, OneCPUPerProcess, EmbryoOK, NEW c \in CPU, NEW p \in Proc,
           cpuproc[c] = NULL, cpuproc' = [cpuproc EXCEPT ![c] = p], child' = child,
           sched.pstate[p] = "RUNNABLE",
           sched'.pstate = [sched.pstate EXCEPT ![p] = "RUNNING"]
    PROVE  OneCPUPerProcess' /\ EmbryoOK'
<1>1. /\ cpuproc'[c] = p /\ \A d \in CPU \ {c} : cpuproc'[d] = cpuproc[d]
      /\ \A q \in Proc : q # NULL
  BY DEF TypeOK, Proc, NULL
<1>2. /\ sched'.pstate[p] = "RUNNING"
      /\ \A q \in Proc \ {p} : sched'.pstate[q] = sched.pstate[q]
  BY DEF TypeOK, SchedState
<1>3. \A d \in CPU : cpuproc[d] # p
  BY DEF OneCPUPerProcess
<1>4. OneCPUPerProcess'
  <2> SUFFICES ASSUME NEW q \in Proc
               PROVE  /\ sched'.pstate[q] = "RUNNING" <=> \E d \in CPU : cpuproc'[d] = q
                      /\ \A d, e \in CPU : cpuproc'[d] = q /\ cpuproc'[e] = q => d = e
    BY DEF OneCPUPerProcess
  <2>1. CASE q = p
    BY <1>1, <1>2, <1>3, <2>1
  <2>2. CASE q # p
    BY <1>1, <1>2, <2>2 DEF OneCPUPerProcess
  <2> QED BY <2>1, <2>2
<1>5. EmbryoOK'
  <2>1. \A q \in Proc : child[q] # NULL => child[q] \in Proc
    BY DEF TypeOK
  <2> QED BY <1>2, <2>1 DEF EmbryoOK
<1> QED BY <1>4, <1>5

\* No process is made or unmade, and parents stay.
LEMMA ParentsStay ==
    ASSUME ParentOK, parent' = parent, exiting'[INITPROC] = exiting[INITPROC],
           \A q \in Proc : sched'.pstate[q] \notin {"UNUSED", "EMBRYO"} =>
                             sched.pstate[q] \notin {"UNUSED", "EMBRYO"}
    PROVE  ParentOK'
  BY DEF ParentOK

-----------------------------------------------------------------------------
(* The invariant: one lemma per action. *)

LEMMA InitOK ==
    Init => IInv /\ sched.pstate = [p \in Proc |-> IF p = INITPROC THEN "RUNNABLE"
                                                                  ELSE "UNUSED"]
<1> SUFFICES ASSUME Init
             PROVE  IInv /\ sched.pstate = [p \in Proc |-> IF p = INITPROC THEN "RUNNABLE"
                                                                         ELSE "UNUSED"]
  OBVIOUS
<1> DEFINE s == [InitMLFQ EXCEPT !.pstate[INITPROC] = "RUNNABLE"]
<1>0. /\ INITPROC \in Proc /\ NULL \notin Proc
      /\ L0 \in Level /\ L0 # L2 /\ \A l \in Level : l # -1
  BY MLFQAssumption DEF Proc, NULL, INITPROC, Level, L0, L1, L2
<1>1. /\ s \in SchedState
      /\ s.state = "IDLE" /\ s.locked_proc = NULL /\ s.panic = FALSE
      /\ s.queue = [l \in Level |-> <<>>]
      /\ s.pstate = [p \in Proc |-> IF p = INITPROC THEN "RUNNABLE" ELSE "UNUSED"]
  <2>1. InitMLFQ \in SchedState
    <3>1. [l \in Level |-> <<>>] \in [Level -> Seq(Proc)]
      OBVIOUS
    <3>2. 0 \in 0 .. MLFQMAXPRIORITY
      BY MLFQAssumption
    <3> QED BY <3>1, <3>2 DEF InitMLFQ, SchedState, MLFQState, ProcState
  <2>2. s \in SchedState /\ s.pstate = [InitMLFQ.pstate EXCEPT ![INITPROC] = "RUNNABLE"]
    BY <2>1 DEF SchedState, ProcState
  <2>3. InitMLFQ.pstate = [p \in Proc |-> "UNUSED"]
    BY DEF InitMLFQ
  <2> QED BY <1>0, <2>1, <2>2, <2>3 DEF InitMLFQ
<1> HIDE DEF s
<1>2. Good(s, {INITPROC})
  <2>1. QueuesOK(s, {INITPROC})
    <3>1. ToSet(<<>>) = {} /\ IsInjective(<<>>)
      BY DEF ToSet, IsInjective
    <3> QED BY <1>1, <3>1 DEF QueuesOK
  <2>2. OrderOK(s)
    <3>1. s.queue[L2] = <<>>
      BY <1>1 DEF Level, L0, L1, L2
    <3> QED BY <3>1 DEF OrderOK
  <2> QED BY <1>1, <2>1, <2>2
          DEF Good, LevelOK, QuantumOK, EnterOK, PlacedOK, InL2, Live
<1>3. sched = InsertQueue(s, INITPROC, L0, TRUE, TRUE)
  BY DEF Init, s
<1>4. Good(sched, {}) /\ sched.pstate = s.pstate /\ KeepsLock(s, sched)
  <2>1. Good(InsertQueue(s, INITPROC, L0, TRUE, TRUE), {})
    <3> DEFINE X == {}
    <3>1. Good(s, X \cup {INITPROC}) /\ INITPROC \notin X
      <4>1. X \cup {INITPROC} = {INITPROC}
        OBVIOUS
      <4> QED BY <1>2, <4>1
    <3>2. s.pstate[INITPROC] = "RUNNABLE"
      BY <1>0, <1>1
    <3> HIDE DEF X
    <3>3. Good(InsertQueue(s, INITPROC, L0, TRUE, TRUE), X)
      BY <1>0, <3>1, <3>2, InsertQueueOK
    <3> QED BY <3>3 DEF X
  <2>2. /\ InsertQueue(s, INITPROC, L0, TRUE, TRUE).pstate = s.pstate
        /\ KeepsLock(s, InsertQueue(s, INITPROC, L0, TRUE, TRUE))
    BY <1>1, InsertKeeps
  <2> QED BY <1>3, <2>1, <2>2
<1>5. /\ parent = [p \in Proc |-> NULL] /\ chan = [p \in Proc |-> "none"]
      /\ killed = [p \in Proc |-> FALSE] /\ child = [p \in Proc |-> NULL]
      /\ exiting = [p \in Proc |-> FALSE] /\ cpuproc = [c \in CPU |-> NULL]
      /\ lock = Free /\ trap0 = "none" /\ ticks = 0 /\ boost_flag = FALSE
  BY DEF Init
<1>6. TypeOK
  <2>1. lock \in [cpu : CPU \cup {NoCPU}, chan : Chan, next : 0 .. NPROC]
    BY <1>5, MLFQAssumption DEF Free, Chan
  <2>2. ticks \in 0 .. MLFQBOOSTTIME - 1
    BY <1>5, MLFQAssumption
  <2>3. sched \in SchedState
    BY <1>4 DEF Good
  <2>4. /\ parent \in [Proc -> Proc \cup {NULL}] /\ child \in [Proc -> Proc \cup {NULL}]
        /\ chan \in [Proc -> Chan] /\ cpuproc \in [CPU -> Proc \cup {NULL}]
    BY <1>5 DEF Chan
  <2>5. /\ killed \in [Proc -> BOOLEAN] /\ exiting \in [Proc -> BOOLEAN]
        /\ trap0 \in {"none", "wake", "yield"} /\ boost_flag \in BOOLEAN
    BY <1>5
  <2> QED BY <2>1, <2>2, <2>3, <2>4, <2>5 DEF TypeOK
<1>7. OneCPUPerProcess
  BY <1>0, <1>1, <1>4, <1>5 DEF OneCPUPerProcess
<1>8. EmbryoOK /\ ParentOK
  BY <1>0, <1>1, <1>4, <1>5 DEF EmbryoOK, ParentOK
<1>9. Sound(sched) /\ LockedAlone
  BY <1>1, <1>4 DEF Sound, LockOK, Holder, LockedAlone, KeepsLock
<1> QED BY <1>1, <1>4, <1>6, <1>7, <1>8, <1>9 DEF IInv

LEMMA LockType == Free \in [cpu : CPU \cup {NoCPU}, chan : Chan, next : 0 .. NPROC]
  BY MLFQAssumption DEF Free, Chan

\* What nobody does to the lock and to the CPUs keeps the holder alone.
LEMMA AloneStays ==
    ASSUME LockedAlone, KeepsLock(sched, sched'), cpuproc' = cpuproc
    PROVE  LockedAlone'
  BY DEF LockedAlone, KeepsLock

\* What the invariant says to the process of a CPU.
LEMMA OnCPU ==
    ASSUME IInv, NEW c \in CPU, NEW p \in Proc, cpuproc[c] = p
    PROVE  /\ sched.pstate[p] = "RUNNING" /\ Sound(sched) /\ sched \in SchedState
           /\ sched.state = "LOCKED" => sched.locked_proc = p /\ NCPU = 1
<1>1. sched.pstate[p] = "RUNNING"
  BY DEF IInv, OneCPUPerProcess
<1>2. p # NULL
  BY DEF Proc, NULL
<1> QED BY <1>1, <1>2, HolderFacts DEF IInv, LockedAlone

\* What SwitchOut leaves when the process of the CPU has set its state and may
\* have woken others, locked or unlocked the scheduler.
LEMMA SwitchOutOK ==
    ASSUME IInv, NEW c \in CPU, NEW p \in Proc, cpuproc[c] = p, NEW s,
           SwitchOut(c, s), child' = child, Switchable(s, p),
           s.state = "LOCKED" => NCPU = 1,
           \A q \in Proc \ {p} :
               \/ s.pstate[q] = sched.pstate[q]
               \/ sched.pstate[q] = "SLEEPING" /\ s.pstate[q] = "RUNNABLE"
    PROVE  /\ Sound(sched') /\ sched'.pstate = s.pstate /\ sched' \in SchedState
           /\ LockedAlone' /\ OneCPUPerProcess' /\ EmbryoOK'
           /\ cpuproc' = [cpuproc EXCEPT ![c] = NULL]
           /\ cpuproc' \in [CPU -> Proc \cup {NULL}] /\ lock' = Free
           /\ boost_flag' = FALSE
<1> DEFINE r == Sched(s, p)
           b == BoostCheck(r)
<1>1. Commit(b) /\ lock' = Free /\ boost_flag' = FALSE
      /\ cpuproc' = [cpuproc EXCEPT ![c] = NULL]
  BY DEF SwitchOut
<1>2. /\ Sound(r) /\ r.pstate = s.pstate
      /\ r.state = "LOCKED" =>
           s.state = "LOCKED" /\ r.locked_proc = p /\ s.pstate[p] = "RUNNABLE"
  BY SchedOK DEF SchedGood
<1> HIDE DEF r
<1>3. Sound(b) /\ b.pstate = s.pstate /\ (b.state = "LOCKED" => s.state = "LOCKED")
  <2>1. \A q \in Holder(r) : r.pstate[q] = "RUNNABLE"
    BY <1>2 DEF Holder
  <2> QED BY <1>2, <2>1, BoostCheckOK
<1> HIDE DEF b
<1>4. Sound(sched') /\ sched'.pstate = s.pstate /\ KeepsLock(b, sched')
  BY <1>1, <1>3, CommitOK
<1>5. sched' \in SchedState
  BY <1>4 DEF Sound, Good
<1>6. s.pstate[p] \in {"RUNNABLE", "SLEEPING", "ZOMBIE"}
  BY DEF Switchable, Stopped, Fits
<1>7. OneCPUPerProcess' /\ EmbryoOK'
  <2>1. TypeOK /\ OneCPUPerProcess /\ EmbryoOK
    BY DEF IInv
  <2>2. /\ sched'.pstate[p] \in {"RUNNABLE", "SLEEPING", "ZOMBIE"}
        /\ \A q \in Proc \ {p} :
             \/ sched'.pstate[q] = sched.pstate[q]
             \/ sched.pstate[q] = "SLEEPING" /\ sched'.pstate[q] = "RUNNABLE"
    BY <1>4, <1>6
  <2> QED BY <1>1, <2>1, <2>2, CPULeft
<1>8. cpuproc' \in [CPU -> Proc \cup {NULL}]
  BY <1>1 DEF IInv, TypeOK
<1>9. LockedAlone'
  <2> SUFFICES ASSUME sched'.state = "LOCKED"
               PROVE  NCPU = 1 /\ \A d \in CPU : cpuproc'[d] = NULL
    BY DEF LockedAlone
  <2>1. NCPU = 1
    BY <1>3, <1>4 DEF KeepsLock
  <2>2. \A d \in CPU : d = c
    BY <2>1 DEF CPU
  <2>3. cpuproc'[c] = NULL
    BY <1>1 DEF IInv, TypeOK
  <2> QED BY <2>1, <2>2, <2>3
<1> QED BY <1>1, <1>4, <1>5, <1>7, <1>8, <1>9

\* A process and no other changes its state.
Starting(p, st) == sched'.pstate = [sched.pstate EXCEPT ![p] = st]

\* The process of the CPU is put back as RUNNABLE, or goes to sleep.
LEMMA LeaveStepOK ==
    ASSUME IInv, NEW c \in CPU, NEW p \in Proc, cpuproc[c] = p,
           NEW st \in {"RUNNABLE", "SLEEPING"}, NEW s, SwitchOut(c, s),
           Switchable(s, p), s.state = "LOCKED" => NCPU = 1,
           s.pstate = [sched.pstate EXCEPT ![p] = st],
           UNCHANGED <<parent, killed, child, exiting>>, chan' \in [Proc -> Chan],
           trap0' \in {"none", "wake", "yield"}, ticks' \in 0 .. MLFQBOOSTTIME - 1
    PROVE  IInv' /\ LifeStep /\ Starting(p, st)
<1>1. sched \in SchedState /\ sched.pstate[p] = "RUNNING"
  BY OnCPU
<1>2. s.pstate[p] = st /\ \A q \in Proc \ {p} : s.pstate[q] = sched.pstate[q]
  BY <1>1 DEF SchedState
<1>3. /\ Sound(sched') /\ sched'.pstate = s.pstate /\ sched' \in SchedState
      /\ LockedAlone' /\ OneCPUPerProcess' /\ EmbryoOK'
      /\ cpuproc' = [cpuproc EXCEPT ![c] = NULL]
      /\ cpuproc' \in [CPU -> Proc \cup {NULL}] /\ lock' = Free
      /\ boost_flag' = FALSE
  BY <1>2, SwitchOutOK
<1>4. ParentOK'
  BY <1>1, <1>2, <1>3, ParentsStay DEF IInv
<1>5. TypeOK'
  BY <1>3, LockType DEF IInv, TypeOK
<1>6. LifeStep
  <2>1. /\ sched'.pstate[p] \in {"RUNNABLE", "SLEEPING", "ZOMBIE"}
        /\ \A q \in Proc \ {p} : sched'.pstate[q] = sched.pstate[q]
    BY <1>2, <1>3
  <2> QED BY <1>3, <2>1, LeaveCPU
<1> QED BY <1>3, <1>4, <1>5, <1>6 DEF IInv, Starting

\* The queues change, but no process starts or stops running.
LEMMA NobodyMovesOK ==
    ASSUME IInv, Sound(sched'), LockedAlone', Woken(sched, sched'),
           UNCHANGED <<parent, chan, child, exiting, cpuproc>>,
           killed' \in [Proc -> BOOLEAN],
           lock' \in [cpu : CPU \cup {NoCPU}, chan : Chan, next : 0 .. NPROC],
           trap0' \in {"none", "wake", "yield"},
           ticks' \in 0 .. MLFQBOOSTTIME - 1, boost_flag' \in BOOLEAN
    PROVE  IInv'
<1>1. OneCPUPerProcess' /\ EmbryoOK'
  BY NobodyMoves DEF IInv, Woken
<1>2. ParentOK'
  BY ParentsStay DEF IInv, Woken
<1>3. TypeOK'
  BY DEF IInv, TypeOK, Sound, Good
<1> QED BY <1>1, <1>2, <1>3 DEF IInv

-----------------------------------------------------------------------------
(* The actions. *)

\* Who is chosen: the holder of the lock, or the tail of the first queue.
LEMMA ChosenOK ==
    ASSUME IInv, NEW c \in CPU, Select(c)
    PROVE  LET p == SelectTarget(sched)
               s == SetState(AfterSelect(sched), p, "RUNNING")
           IN  /\ p \in Proc /\ sched.pstate[p] = "RUNNABLE"
               /\ Sound(s) /\ KeepsLock(sched, s)
               /\ s.pstate = [sched.pstate EXCEPT ![p] = "RUNNING"]
               /\ s.state = "LOCKED" => s.locked_proc = p
<1> DEFINE p == SelectTarget(sched)
           t == AfterSelect(sched)
           s == SetState(t, p, "RUNNING")
<1>1. Sound(sched) /\ sched \in SchedState
  BY HolderFacts DEF IInv
<1>2. cpuproc[c] = NULL /\ p # NULL
  BY DEF Select
<1>3. t.pstate = sched.pstate /\ KeepsLock(sched, t)
  BY <1>1, SelectKeeps
<1>4. t \in SchedState =>
        /\ s.pstate = [t.pstate EXCEPT ![p] = "RUNNING"] /\ KeepsLock(t, s)
  BY DEF SetState, SchedState, KeepsLock
<1>5. CASE sched.state = "LOCKED"
  <2>1. p = sched.locked_proc /\ t = sched
    BY <1>5 DEF SelectTarget, AfterSelect
  <2>2. /\ p \in Proc /\ sched.pstate[p] \in {"RUNNABLE", "RUNNING"} /\ Good(sched, {p})
    BY <1>1, <1>5, <2>1 DEF Sound, LockOK, Holder
  <2>3. sched.pstate[p] = "RUNNABLE"
    <3>1. \A d \in CPU : d = c
      BY <1>5 DEF IInv, LockedAlone, CPU
    <3>2. \A d \in CPU : cpuproc[d] # p
      BY <1>2, <3>1
    <3> QED BY <2>2, <3>2 DEF IInv, OneCPUPerProcess
  <2> HIDE DEF p, t
  <2>4. Good(s, {p})
    BY <2>1, <2>2, SetStateOK DEF ProcState
  <2> HIDE DEF s
  <2>5. s.pstate = [sched.pstate EXCEPT ![p] = "RUNNING"] /\ KeepsLock(sched, s)
    BY <1>1, <1>4, <2>1
  <2>6. s.pstate[p] = "RUNNING" /\ s.state = "LOCKED" /\ s.locked_proc = p
    BY <1>1, <1>5, <2>1, <2>2, <2>5 DEF KeepsLock, SchedState
  <2>7. Sound(s)
    BY <2>2, <2>4, <2>6 DEF Sound, LockOK, Holder
  <2> QED BY <2>2, <2>3, <2>5, <2>6, <2>7 DEF p, s, t
<1>6. CASE sched.state # "LOCKED"
  <2>1. sched.state = "IDLE" /\ sched.locked_proc = NULL /\ Good(sched, {})
    BY <1>1, <1>6 DEF Sound, LockOK, Holder
  <2>2. AbleQueues(sched) # {}
    BY <1>2, <2>1, SelectNothingOK
  <2>3. /\ p \in Proc /\ Good(t, {} \cup {p}) /\ t.level[p] \in Level
        /\ Fits(t, p, t.level[p], {})
    BY <2>1, <2>2, SelectOK
  <2> HIDE DEF p, t
  <2>4. Good(t, {p})
    <3>1. {} \cup {p} = {p}
      OBVIOUS
    <3> QED BY <2>3, <3>1
  <2>5. Good(s, {})
    BY <2>3, <2>4, RunOK
  <2>6. sched.pstate[p] = "RUNNABLE"
    BY <1>3, <2>3 DEF Fits
  <2> HIDE DEF s
  <2>7. s.pstate = [sched.pstate EXCEPT ![p] = "RUNNING"] /\ KeepsLock(sched, s)
    BY <1>3, <1>4, <2>4 DEF KeepsLock, Good
  <2>8. Sound(s)
    BY <2>1, <2>5, <2>7 DEF Sound, LockOK, Holder, KeepsLock
  <2>9. s.state = "IDLE"
    BY <2>1, <2>7 DEF KeepsLock
  <2> QED BY <2>3, <2>6, <2>7, <2>8, <2>9 DEF p, s, t
<1> QED BY <1>5, <1>6

LEMMA SelectStep ==
    ASSUME IInv, NEW c \in CPU, Select(c)
    PROVE  IInv' /\ LifeStep
<1> DEFINE p == SelectTarget(sched)
           s == SetState(AfterSelect(sched), p, "RUNNING")
<1>1. /\ p \in Proc /\ sched.pstate[p] = "RUNNABLE"
      /\ Sound(s) /\ KeepsLock(sched, s)
      /\ s.pstate = [sched.pstate EXCEPT ![p] = "RUNNING"]
      /\ s.state = "LOCKED" => s.locked_proc = p
  BY ChosenOK
<1>2. /\ cpuproc[c] = NULL /\ Commit(s)
      /\ cpuproc' = [cpuproc EXCEPT ![c] = p]
      /\ chan' = [chan EXCEPT ![p] = "none"]
      /\ lock' \in {Free, [cpu |-> c, chan |-> "wait", next |-> 0]}
      /\ UNCHANGED <<parent, killed, child, exiting, timevars>>
  BY DEF Select
<1> HIDE DEF p, s
<1>3. /\ Sound(sched') /\ sched'.pstate = [sched.pstate EXCEPT ![p] = "RUNNING"]
      /\ KeepsLock(s, sched') /\ sched' \in SchedState
  BY <1>1, <1>2, CommitOK, HolderFacts
<1>4. OneCPUPerProcess' /\ EmbryoOK'
  BY <1>1, <1>2, <1>3, CPUTaken DEF IInv
<1>5. ParentOK'
  BY <1>1, <1>2, <1>3, ParentsStay DEF IInv, TypeOK, SchedState
<1>6. LockedAlone'
  <2> SUFFICES ASSUME sched'.state = "LOCKED"
               PROVE  /\ NCPU = 1
                      /\ \A d \in CPU : cpuproc'[d] \in {NULL, sched'.locked_proc}
    BY DEF LockedAlone
  <2>1. sched.state = "LOCKED" /\ sched'.locked_proc = p
    BY <1>1, <1>3 DEF KeepsLock
  <2>2. NCPU = 1 /\ \A d \in CPU : d = c
    BY <2>1 DEF IInv, LockedAlone, CPU
  <2> QED BY <1>2, <2>1, <2>2 DEF IInv, TypeOK
<1>7. TypeOK'
  <2>1. lock' \in [cpu : CPU \cup {NoCPU}, chan : Chan, next : 0 .. NPROC]
    BY <1>2, LockType, MLFQAssumption DEF Chan
  <2>2. cpuproc' \in [CPU -> Proc \cup {NULL}] /\ chan' \in [Proc -> Chan]
    BY <1>1, <1>2 DEF IInv, TypeOK, Chan
  <2> QED BY <1>2, <1>3, <2>1, <2>2 DEF IInv, TypeOK, timevars
<1>8. LifeStep
  <2>1. Life!Dispatch(c, p)
    BY <1>1, <1>2, <1>3 DEF Life!Dispatch, Life!Moves
  <2> QED BY <1>1, <2>1 DEF LifeStep, Life!Next
<1> QED BY <1>3, <1>4, <1>5, <1>6, <1>7, <1>8 DEF IInv

LEMMA SelectNothingStep ==
    ASSUME IInv, NEW c \in CPU, SelectNothing(c)
    PROVE  IInv' /\ LifeStep
<1>1. Sound(sched) /\ SelectTarget(sched) = NULL
  BY DEF IInv, SelectNothing
<1>2. sched.state = "IDLE" /\ Good(sched, {})
  <2>1. sched.state # "LOCKED"
    BY <1>1 DEF SelectTarget, Sound, LockOK, Proc, NULL
  <2> QED BY <1>1, <2>1 DEF Sound, LockOK, Holder
<1>3. AbleQueues(sched) = {}
  <2>1. AbleQueues(sched) # {} => SelectTarget(sched) \in Proc
    BY <1>2, SelectOK
  <2> QED BY <1>1, <2>1 DEF Proc, NULL
<1>4. Commit(BoostCheck(sched)) /\ boost_flag' = FALSE
      /\ UNCHANGED <<procvars, cpuproc, lock, trap0, ticks>>
  BY <1>2, <1>3, SelectNothingOK DEF SelectNothing
<1> DEFINE b == BoostCheck(sched)
<1>5. Sound(b) /\ b.pstate = sched.pstate /\ b.state # "LOCKED"
  BY <1>1, <1>2, BoostCheckOK DEF Holder
<1> HIDE DEF b
<1>6. Sound(sched') /\ sched'.pstate = sched.pstate /\ sched'.state # "LOCKED"
  BY <1>4, <1>5, CommitOK DEF KeepsLock, b
<1>7. LockedAlone' /\ Woken(sched, sched')
  BY <1>6 DEF LockedAlone, Woken
<1>8. LifeStep
  BY <1>4, <1>6 DEF LifeStep, Life!vars
<1> QED BY <1>4, <1>6, <1>7, <1>8, NobodyMovesOK DEF IInv, TypeOK, procvars

LEMMA AllocProcStep ==
    ASSUME IInv, NEW c \in CPU, NEW p \in Proc, AllocProc(c, p)
    PROVE  IInv' /\ LifeStep
<1> DEFINE np == CHOOSE q \in Unused : \A r \in Unused : q <= r
<1>1. Sound(sched) /\ sched \in SchedState
  BY HolderFacts DEF IInv
<1>2. np \in Unused
  <2>1. Unused \in SUBSET Nat /\ Unused # {}
    BY DEF AllocProc, Unused, Proc
  <2>2. \E q \in Unused : \A r \in Unused : q <= r
    BY <2>1, Minimum
  <2> QED BY <2>2
<1>3. /\ sched' = SetState(sched, np, "EMBRYO")
      /\ child[p] = NULL /\ child' = [child EXCEPT ![p] = np]
      /\ UNCHANGED <<parent, chan, killed, exiting, cpuproc, lock, timevars>>
  BY DEF AllocProc, AtUser
<1> HIDE DEF np
<1>4. np \in Proc /\ sched.pstate[np] = "UNUSED"
  BY <1>2 DEF Unused
<1>5. Sound(sched') /\ KeepsLock(sched, sched')
  BY <1>1, <1>3, <1>4, SlotOK
<1>6. sched'.pstate = [sched.pstate EXCEPT ![np] = "EMBRYO"]
  BY <1>1, <1>3, <1>4, SlotOK
<1>7. /\ sched'.pstate[np] = "EMBRYO"
      /\ \A q \in Proc \ {np} : sched'.pstate[q] = sched.pstate[q]
  BY <1>1, <1>4, <1>6 DEF SchedState
<1>8. OneCPUPerProcess'
  BY <1>3, <1>4, <1>7 DEF IInv, OneCPUPerProcess
<1>9. EmbryoOK'
  <2>1. /\ child'[p] = np /\ \A q \in Proc \ {p} : child'[q] = child[q]
        /\ \A q \in Proc : child[q] # NULL => child[q] \in Proc
    BY <1>3 DEF IInv, TypeOK
  <2>2. \A q \in Proc : child[q] # np
    BY <1>4 DEF IInv, EmbryoOK, Proc, NULL
  <2> QED BY <1>3, <1>7, <2>1, <2>2 DEF IInv, EmbryoOK
<1>10. ParentOK'
  BY <1>3, <1>4, <1>7 DEF IInv, ParentOK
<1>11. TypeOK'
  <2>1. sched' \in SchedState
    BY <1>5 DEF Sound, Good
  <2> QED BY <1>3, <1>4, <2>1 DEF IInv, TypeOK, timevars
<1>12. LifeStep
  BY <1>3, <1>4, <1>6, MoveOK
<1> QED BY <1>3, <1>5, <1>8, <1>9, <1>10, <1>11, <1>12, AloneStays DEF IInv

LEMMA ForkDoneStep ==
    ASSUME IInv, NEW c \in CPU, NEW p \in Proc, ForkDone(c, p)
    PROVE  IInv' /\ LifeStep
<1> DEFINE np == child[p]
<1>1. Sound(sched) /\ sched \in SchedState
  BY HolderFacts DEF IInv
<1>2. np \in Proc /\ np # NULL /\ sched.pstate[np] = "EMBRYO"
  BY DEF ForkDone, IInv, TypeOK, EmbryoOK
<1>3. /\ Commit(InsertQueue(SetState(sched, np, "RUNNABLE"), np, L0, TRUE, TRUE))
      /\ parent' = [parent EXCEPT ![np] = p] /\ child' = [child EXCEPT ![p] = NULL]
      /\ UNCHANGED <<chan, killed, exiting, cpuproc, lock, timevars>>
  BY DEF ForkDone
<1> HIDE DEF np
<1>4. /\ Sound(sched') /\ KeepsLock(sched, sched')
      /\ sched'.pstate = [sched.pstate EXCEPT ![np] = "RUNNABLE"]
  <2> DEFINE s == InsertQueue(SetState(sched, np, "RUNNABLE"), np, L0, TRUE, TRUE)
  <2>1. /\ Sound(s) /\ KeepsLock(sched, s)
        /\ s.pstate = [sched.pstate EXCEPT ![np] = "RUNNABLE"]
    BY <1>1, <1>2, ForkOK
  <2>2. Commit(s)
    BY <1>3
  <2> HIDE DEF s
  <2> QED BY <2>1, <2>2, CommitOK DEF KeepsLock
<1>5. /\ sched'.pstate[np] = "RUNNABLE"
      /\ \A q \in Proc \ {np} : sched'.pstate[q] = sched.pstate[q]
  BY <1>1, <1>2, <1>4 DEF SchedState
<1>6. OneCPUPerProcess'
  <2>1. \A q \in Proc : sched'.pstate[q] = "RUNNING" <=> sched.pstate[q] = "RUNNING"
    BY <1>2, <1>5
  <2> QED BY <1>3, <2>1 DEF IInv, OneCPUPerProcess
<1>7. EmbryoOK'
  <2>1. /\ child'[p] = NULL /\ \A q \in Proc \ {p} : child'[q] = child[q]
        /\ \A q \in Proc : child[q] # NULL => child[q] \in Proc
    BY <1>3 DEF IInv, TypeOK
  <2>2. \A q \in Proc \ {p} : child[q] # np
    BY <1>2 DEF IInv, EmbryoOK, np
  <2> QED BY <1>5, <2>1, <2>2 DEF IInv, EmbryoOK
<1>8. ParentOK'
  <2>1. parent'[np] = p /\ \A q \in Proc \ {np} : parent'[q] = parent[q]
    BY <1>2, <1>3 DEF IInv, TypeOK
  <2> QED BY <1>3, <1>5, <2>1 DEF IInv, ParentOK
<1>9. TypeOK'
  <2>1. sched' \in SchedState
    BY <1>4 DEF Sound, Good
  <2> QED BY <1>2, <1>3, <2>1 DEF IInv, TypeOK, timevars
<1>10. LifeStep
  BY <1>2, <1>3, <1>4, MoveOK
<1> QED BY <1>3, <1>4, <1>6, <1>7, <1>8, <1>9, <1>10, AloneStays DEF IInv

LEMMA ForkFailsStep ==
    ASSUME IInv, NEW c \in CPU, NEW p \in Proc, ForkFails(c, p)
    PROVE  IInv' /\ LifeStep
<1> DEFINE np == child[p]
<1>1. Sound(sched) /\ sched \in SchedState
  BY HolderFacts DEF IInv
<1>2. np \in Proc /\ np # NULL /\ sched.pstate[np] = "EMBRYO"
  BY DEF ForkFails, IInv, TypeOK, EmbryoOK
<1>3. /\ sched' = SetState(sched, np, "UNUSED")
      /\ child' = [child EXCEPT ![p] = NULL]
      /\ UNCHANGED <<parent, chan, killed, exiting, cpuproc, lock, timevars>>
  BY DEF ForkFails
<1> HIDE DEF np
<1>4. Sound(sched') /\ KeepsLock(sched, sched')
  BY <1>1, <1>2, <1>3, SlotOK
<1>5. sched'.pstate = [sched.pstate EXCEPT ![np] = "UNUSED"]
  BY <1>1, <1>2, <1>3, SlotOK
<1>6. /\ sched'.pstate[np] = "UNUSED"
      /\ \A q \in Proc \ {np} : sched'.pstate[q] = sched.pstate[q]
  BY <1>1, <1>2, <1>5 DEF SchedState
<1>7. OneCPUPerProcess'
  BY <1>2, <1>3, <1>6 DEF IInv, OneCPUPerProcess
<1>8. EmbryoOK'
  <2>1. /\ child'[p] = NULL /\ \A q \in Proc \ {p} : child'[q] = child[q]
        /\ \A q \in Proc : child[q] # NULL => child[q] \in Proc
    BY <1>3 DEF IInv, TypeOK
  <2>2. \A q \in Proc \ {p} : child[q] # np
    BY <1>2 DEF IInv, EmbryoOK, np
  <2> QED BY <1>6, <2>1, <2>2 DEF IInv, EmbryoOK
<1>9. ParentOK'
  BY <1>2, <1>3, <1>6 DEF IInv, ParentOK
<1>10. TypeOK'
  <2>1. sched' \in SchedState
    BY <1>4 DEF Sound, Good
  <2> QED BY <1>3, <2>1 DEF IInv, TypeOK, timevars
<1>11. LifeStep
  BY <1>2, <1>3, <1>5, MoveOK
<1> QED BY <1>3, <1>4, <1>7, <1>8, <1>9, <1>10, <1>11, AloneStays DEF IInv

\* A process sets out to exit: nothing of the scheduler changes.
LEMMA ExitingOK ==
    ASSUME IInv, NEW p \in Proc \ {INITPROC}, exiting' = [exiting EXCEPT ![p] = TRUE],
           UNCHANGED <<sched, parent, chan, killed, child, cpuproc, lock, ticks, boost_flag>>,
           trap0' \in {"none", "wake", "yield"}
    PROVE  IInv' /\ LifeStep
<1>1. Sound(sched') /\ LockedAlone'
  BY DEF IInv, LockedAlone
<1>2. OneCPUPerProcess' /\ EmbryoOK'
  BY DEF IInv, OneCPUPerProcess, EmbryoOK
<1>3. ParentOK'
  <2>1. INITPROC \in Proc
    BY MLFQAssumption DEF Proc, INITPROC
  <2>2. exiting'[INITPROC] = exiting[INITPROC]
    BY <2>1 DEF IInv, TypeOK
  <2> QED BY <2>2 DEF IInv, ParentOK
<1>4. TypeOK'
  BY DEF IInv, TypeOK
<1>5. LifeStep
  BY DEF LifeStep, Life!vars
<1> QED BY <1>1, <1>2, <1>3, <1>4, <1>5 DEF IInv

LEMMA StartExitStep ==
    ASSUME IInv, NEW c \in CPU, NEW p \in Proc, StartExit(c, p)
    PROVE  IInv' /\ LifeStep
<1>1. /\ p # INITPROC /\ exiting' = [exiting EXCEPT ![p] = TRUE]
      /\ trap0' \in {"none", trap0}
      /\ UNCHANGED <<sched, parent, chan, killed, child, cpuproc, lock, ticks,
                     boost_flag>>
  BY DEF StartExit
<1>2. trap0' \in {"none", "wake", "yield"}
  BY <1>1 DEF IInv, TypeOK
<1> QED BY <1>1, <1>2, ExitingOK

LEMMA ExitStep ==
    ASSUME IInv, NEW c \in CPU, NEW p \in Proc, Exit(c, p)
    PROVE  IInv' /\ LifeStep
<1> DEFINE s == WakeupOne(sched, parent[p], "wait")
           abandoned == {q \in Proc : parent[q] = p}
           t == IF \E q \in abandoned : s.pstate[q] = "ZOMBIE"
                THEN WakeupOne(s, INITPROC, "wait") ELSE s
           u == SetState(t, p, "ZOMBIE")
<1>1. /\ cpuproc[c] = p /\ exiting[p]
      /\ parent' = [q \in Proc |-> IF q \in abandoned THEN INITPROC ELSE parent[q]]
      /\ exiting' = [exiting EXCEPT ![p] = FALSE]
      /\ UNCHANGED <<chan, killed, child, trap0, ticks>>
  BY DEF Exit, Runs
<1>a. SwitchOut(c, u)
  BY DEF Exit
<1>2. /\ Sound(sched) /\ sched \in SchedState /\ sched.pstate[p] = "RUNNING"
      /\ sched.state = "LOCKED" => sched.locked_proc = p /\ NCPU = 1
      /\ INITPROC \in Proc
  BY <1>1, OnCPU, MLFQAssumption DEF Proc, INITPROC
<1>3. parent[p] \in Proc
  BY <1>1, <1>2 DEF IInv, ParentOK
<1>4. Sound(s) /\ KeepsLock(sched, s) /\ Woken(sched, s)
  BY <1>2, <1>3, WakeupOneOK
<1> HIDE DEF s
<1>5. Sound(t) /\ KeepsLock(s, t) /\ Woken(s, t)
  <2> DEFINE w == WakeupOne(s, INITPROC, "wait")
  <2>1. Sound(w) /\ KeepsLock(s, w) /\ Woken(s, w)
    BY <1>2, <1>4, WakeupOneOK
  <2>2. KeepsLock(s, s) /\ Woken(s, s)
    BY DEF KeepsLock, Woken
  <2> QED BY <1>4, <2>1, <2>2
<1> HIDE DEF t
<1>6. t.pstate[p] = "RUNNING" /\ t \in SchedState
  BY <1>2, <1>4, <1>5 DEF Woken, Sound, Good
<1>7. t.state = "LOCKED" => t.locked_proc = p /\ NCPU = 1
  BY <1>2, <1>4, <1>5 DEF KeepsLock
<1>8. /\ Switchable(u, p) /\ (u.state = "LOCKED" => NCPU = 1)
      /\ u.pstate = [t.pstate EXCEPT ![p] = "ZOMBIE"]
  BY <1>5, <1>6, <1>7, LeavesOK DEF KeepsLock
<1> HIDE DEF u
<1>9. /\ u.pstate[p] = "ZOMBIE"
      /\ \A q \in Proc \ {p} : \/ u.pstate[q] = sched.pstate[q]
                               \/ /\ sched.pstate[q] = "SLEEPING"
                                  /\ u.pstate[q] = "RUNNABLE"
  BY <1>4, <1>5, <1>6, <1>8 DEF Woken, SchedState
<1>10. /\ Sound(sched') /\ sched'.pstate = u.pstate /\ sched' \in SchedState
       /\ LockedAlone' /\ OneCPUPerProcess' /\ EmbryoOK'
       /\ cpuproc' = [cpuproc EXCEPT ![c] = NULL]
       /\ cpuproc' \in [CPU -> Proc \cup {NULL}] /\ lock' = Free
       /\ boost_flag' = FALSE
  BY <1>1, <1>a, <1>8, <1>9, SwitchOutOK
<1>11. ParentOK'
  <2>1. ~ exiting'[INITPROC]
    BY <1>1, <1>2 DEF IInv, ParentOK, TypeOK
  <2>2. \A q \in Proc : sched'.pstate[q] \notin {"UNUSED", "EMBRYO"} =>
                          sched.pstate[q] \notin {"UNUSED", "EMBRYO"}
    BY <1>2, <1>9, <1>10
  <2>3. \A q \in Proc : parent'[q] \in {parent[q], INITPROC}
    BY <1>1
  <2> QED BY <1>2, <2>1, <2>2, <2>3 DEF IInv, ParentOK
<1>12. TypeOK'
  <2>1. parent' \in [Proc -> Proc \cup {NULL}]
    BY <1>1, <1>2 DEF IInv, TypeOK
  <2>2. exiting' \in [Proc -> BOOLEAN]
    BY <1>1 DEF IInv, TypeOK
  <2> QED BY <1>1, <1>10, <2>1, <2>2, LockType DEF IInv, TypeOK
<1>13. LifeStep
  <2>1. /\ sched'.pstate[p] = "ZOMBIE"
        /\ \A q \in Proc \ {p} : \/ sched'.pstate[q] = sched.pstate[q]
                                 \/ /\ sched.pstate[q] = "SLEEPING"
                                    /\ sched'.pstate[q] = "RUNNABLE"
    BY <1>9, <1>10
  <2> QED BY <1>1, <1>10, <2>1, LeaveCPU
<1> QED BY <1>10, <1>11, <1>12, <1>13 DEF IInv

LEMMA WaitReapsStep ==
    ASSUME IInv, NEW c \in CPU, NEW p \in Proc, WaitReaps(c, p)
    PROVE  IInv' /\ LifeStep
<1> DEFINE z == CHOOSE q \in Zombies(p) : \A r \in Zombies(p) : q <= r
           s == [sched EXCEPT !.level[z] = -1]
           X == Holder(sched)
<1>1. /\ Sound(sched) /\ sched \in SchedState /\ Good(sched, X)
      /\ \A q \in X : q \in Proc /\ sched.pstate[q] \in {"RUNNABLE", "RUNNING"}
  BY HolderFacts DEF IInv
<1>2. z \in Zombies(p)
  <2>1. Zombies(p) \in SUBSET Nat /\ Zombies(p) # {}
    BY DEF WaitReaps, Zombies, Children, Proc
  <2>2. \E q \in Zombies(p) : \A r \in Zombies(p) : q <= r
    BY <2>1, Minimum
  <2> QED BY <2>2
<1>3. /\ sched' = [sched EXCEPT !.level[z] = -1, !.pstate[z] = "UNUSED"]
      /\ parent' = [parent EXCEPT ![z] = NULL]
      /\ killed' = [killed EXCEPT ![z] = FALSE] /\ lock' = Free
      /\ UNCHANGED <<chan, child, exiting, cpuproc, timevars>>
  BY DEF WaitReaps
<1> HIDE DEF z
<1>4. z \in Proc /\ sched.pstate[z] = "ZOMBIE"
  BY <1>2 DEF Zombies, Children
<1>5. sched' = SetState(s, z, "UNUSED")
  BY <1>1, <1>3 DEF SetState, SchedState
<1> HIDE DEF X
<1>6. Sound(s) /\ KeepsLock(sched, s) /\ s.pstate = sched.pstate
  <2>1. /\ s \in SchedState
        /\ s.state = sched.state /\ s.locked_proc = sched.locked_proc
        /\ s.panic = sched.panic /\ s.queue = sched.queue
        /\ s.pstate = sched.pstate /\ s.tick_left = sched.tick_left
        /\ s.enter_id = sched.enter_id /\ s.l2q_enter_id = sched.l2q_enter_id
        /\ s.pvalue = sched.pvalue /\ s.level = [sched.level EXCEPT ![z] = -1]
    BY <1>1, <1>4 DEF SchedState
  <2>2. /\ \A q \in Proc \ {z} : s.level[q] = sched.level[q]
        /\ s.l2q_enter_id >= sched.l2q_enter_id
    BY <1>1, <1>4, <2>1 DEF SchedState
  <2> HIDE DEF s
  <2>3. Good(sched, X \cup {z})
    BY <1>1, <1>4, LeaveOut
  <2>4. Good(s, X \cup {z})
    <3>1. z \in X \cup {z}
      OBVIOUS
    <3> QED BY <1>4, <2>1, <2>2, <2>3, <3>1, OthersStay
  <2>5. Good(s, X)
    BY <1>4, <2>1, <2>4, TakeIn DEF InL2, Live
  <2>6. KeepsLock(sched, s) /\ \A q \in X : s.pstate[q] \in {"RUNNABLE", "RUNNING"}
    BY <1>1, <2>1 DEF KeepsLock
  <2> QED BY <1>1, <2>1, <2>5, <2>6, StaysSound DEF X
<1> HIDE DEF s
<1>7. /\ Sound(sched') /\ KeepsLock(s, sched')
      /\ sched'.pstate = [s.pstate EXCEPT ![z] = "UNUSED"]
  <2>1. s.pstate[z] = "ZOMBIE"
    BY <1>4, <1>6
  <2> QED BY <1>4, <1>5, <1>6, <2>1, SlotOK
<1>8. KeepsLock(sched, sched') /\ sched'.pstate = [sched.pstate EXCEPT ![z] = "UNUSED"]
  BY <1>6, <1>7 DEF KeepsLock
<1>9. /\ sched'.pstate[z] = "UNUSED"
      /\ \A q \in Proc \ {z} : sched'.pstate[q] = sched.pstate[q]
  BY <1>1, <1>4, <1>8 DEF SchedState
<1>10. OneCPUPerProcess' /\ EmbryoOK'
  BY <1>3, <1>4, <1>9, NobodyMoves DEF IInv
<1>11. ParentOK'
  <2>1. \A q \in Proc \ {z} : parent'[q] = parent[q]
    BY <1>3 DEF IInv, TypeOK
  <2> QED BY <1>3, <1>9, <2>1 DEF IInv, ParentOK
<1>12. TypeOK'
  <2>1. sched' \in SchedState
    BY <1>7 DEF Sound, Good
  <2>2. parent' \in [Proc -> Proc \cup {NULL}] /\ killed' \in [Proc -> BOOLEAN]
    BY <1>3 DEF IInv, TypeOK
  <2> QED BY <1>3, <2>1, <2>2, LockType DEF IInv, TypeOK, timevars
<1>13. LifeStep
  BY <1>3, <1>4, <1>8, MoveOK
<1> QED BY <1>3, <1>7, <1>8, <1>10, <1>11, <1>12, <1>13, AloneStays DEF IInv

LEMMA SetPriorityStep ==
    ASSUME IInv, NEW c \in CPU, NEW p \in Proc, NEW q \in Proc, NEW v \in Priorities,
           SetPriority(c, p, q, v)
    PROVE  IInv' /\ LifeStep
<1> DEFINE X == Holder(sched)
           s == IF p = q THEN [sched EXCEPT !.pvalue[p] = v]
                         ELSE RelocateByPriority(sched, q, v)
<1>1. /\ Sound(sched) /\ Good(sched, X) /\ sched \in SchedState
      /\ v \in 0 .. MLFQMAXPRIORITY
      /\ \A r \in X : r \in Proc /\ sched.pstate[r] \in {"RUNNABLE", "RUNNING"}
  BY HolderFacts, SchedulerAssumption DEF IInv
<1>2. UNCHANGED <<procvars, cpuproc, lock, timevars>> /\ cpuproc[c] = p /\ Commit(s)
  BY DEF SetPriority, AtUser, Runs
<1>3. sched.pstate[p] = "RUNNING" /\ (sched.state = "LOCKED" => sched.locked_proc = p)
  BY <1>2, OnCPU
<1>4. q # p => q \notin X
  BY <1>3 DEF Holder
<1> HIDE DEF X
<1>5. Good(s, X) /\ s.pstate = sched.pstate /\ KeepsLock(sched, s)
  <2>1. CASE p = q
    <3>1. p \notin ToSet(sched.queue[L2])
      BY <1>1, <1>3 DEF Good, QueuesOK, Level, L0, L1, L2
    <3> QED BY <1>1, <2>1, <3>1, PriorityIsFree DEF SchedState, KeepsLock
  <2>2. CASE p # q
    BY <1>1, <1>4, <2>2, RelocateByPriorityOK, RelocateKeeps
  <2> QED BY <2>1, <2>2
<1> HIDE DEF s
<1>6. Sound(s)
  BY <1>1, <1>5, StaysSound DEF X
<1>7. Sound(sched') /\ sched'.pstate = sched.pstate /\ KeepsLock(sched, sched')
  BY <1>2, <1>5, <1>6, CommitOK DEF KeepsLock
<1>8. Woken(sched, sched') /\ LockedAlone'
  BY <1>2, <1>7, AloneStays DEF Woken, IInv
<1>9. LifeStep
  BY <1>2, <1>7 DEF LifeStep, Life!vars
<1> QED BY <1>2, <1>7, <1>8, <1>9, NobodyMovesOK DEF IInv, TypeOK, procvars, timevars

LEMMA KillStep ==
    ASSUME IInv, NEW c \in CPU, NEW p \in Proc, NEW q \in Proc, Kill(c, p, q)
    PROVE  IInv' /\ LifeStep /\ sched'.pstate[q] # "SLEEPING"
<1>1. Sound(sched) /\ sched \in SchedState
  BY HolderFacts DEF IInv
<1>2. /\ UNCHANGED <<parent, chan, child, exiting, cpuproc, lock, timevars>>
      /\ killed' = [killed EXCEPT ![q] = TRUE]
  BY DEF Kill
<1>3. /\ Sound(sched') /\ KeepsLock(sched, sched') /\ Woken(sched, sched') /\ LifeStep
      /\ sched'.pstate[q] # "SLEEPING"
  <2>1. CASE sched.pstate[q] = "SLEEPING"
    <3> DEFINE s == CheckWakeup(SetState(sched, q, "RUNNABLE"), q)
    <3>1. Commit(s)
      BY <2>1 DEF Kill
    <3>2. /\ Sound(s) /\ KeepsLock(sched, s)
          /\ s.pstate = [sched.pstate EXCEPT ![q] = "RUNNABLE"]
      BY <1>1, <2>1, WakesUp
    <3> HIDE DEF s
    <3>3. /\ Sound(sched') /\ KeepsLock(sched, sched')
          /\ sched'.pstate = [sched.pstate EXCEPT ![q] = "RUNNABLE"]
      BY <3>1, <3>2, CommitOK DEF KeepsLock
    <3>4. LifeStep
      BY <1>2, <2>1, <3>3, MoveOK
    <3> QED BY <1>1, <2>1, <3>3, <3>4 DEF Woken, SchedState
  <2>2. CASE sched.pstate[q] # "SLEEPING"
    <3>1. /\ Sound(sched') /\ KeepsLock(sched, sched') /\ sched'.pstate = sched.pstate
      BY <1>1, <2>2, CommitOK DEF Kill
    <3> QED BY <1>2, <2>2, <3>1 DEF Woken, LifeStep, Life!vars
  <2> QED BY <2>1, <2>2
<1>4. killed' \in [Proc -> BOOLEAN] /\ LockedAlone'
  BY <1>2, <1>3, AloneStays DEF IInv, TypeOK
<1> QED BY <1>2, <1>3, <1>4, NobodyMovesOK DEF IInv, TypeOK, timevars

LEMMA WakeupScanStep ==
    ASSUME IInv, WakeupScan
    PROVE  IInv' /\ LifeStep
<1>1. Sound(sched)
  BY DEF IInv
<1>2. /\ lock.next \in Proc
      /\ lock' \in [cpu : CPU \cup {NoCPU}, chan : Chan, next : 0 .. NPROC]
  <2>1. lock \in [cpu : CPU \cup {NoCPU}, chan : Chan, next : 0 .. NPROC]
        /\ lock.next # 0 /\ NPROC \in Nat
    BY MLFQAssumption DEF WakeupScan, IInv, TypeOK
  <2>2. lock.next \in Proc
    BY <2>1 DEF Proc
  <2>3. CASE lock.next = NPROC
    <3>1. lock' = Free
      BY <2>3 DEF WakeupScan
    <3> QED BY <2>2, <3>1, LockType
  <2>4. CASE lock.next # NPROC
    <3>1. lock' = [lock EXCEPT !.next = lock.next + 1]
      BY <2>4 DEF WakeupScan
    <3> DEFINE n == lock.next + 1
    <3>2. n \in 0 .. NPROC
      BY <2>1, <2>2, <2>4 DEF Proc
    <3> HIDE DEF n
    <3>3. lock' = [lock EXCEPT !.next = n]
      BY <3>1 DEF n
    <3> QED BY <2>1, <2>2, <3>2, <3>3
  <2> QED BY <2>2, <2>3, <2>4
<1>3. Commit(WakeupOne(sched, lock.next, lock.chan))
      /\ UNCHANGED <<procvars, cpuproc, timevars>>
  BY DEF WakeupScan
<1> DEFINE s == WakeupOne(sched, lock.next, lock.chan)
<1>4. /\ Sound(sched') /\ KeepsLock(sched, sched')
      /\ sched'.pstate = s.pstate /\ Woken(sched, s)
      /\ \/ s.pstate = sched.pstate
         \/ /\ sched.pstate[lock.next] = "SLEEPING"
            /\ s.pstate = [sched.pstate EXCEPT ![lock.next] = "RUNNABLE"]
  <2>1. /\ Sound(s) /\ KeepsLock(sched, s) /\ Woken(sched, s)
        /\ \/ s.pstate = sched.pstate
           \/ /\ sched.pstate[lock.next] = "SLEEPING"
              /\ s.pstate = [sched.pstate EXCEPT ![lock.next] = "RUNNABLE"]
    BY <1>1, <1>2, WakeupOneOK
  <2>2. Commit(s)
    BY <1>3
  <2> HIDE DEF s
  <2>3. Sound(sched') /\ sched'.pstate = s.pstate /\ KeepsLock(s, sched')
    BY <2>1, <2>2, CommitOK
  <2> QED BY <2>1, <2>3 DEF KeepsLock
<1> HIDE DEF s
<1>5. Woken(sched, sched') /\ LockedAlone'
  BY <1>3, <1>4, AloneStays DEF Woken, IInv
<1>6. LifeStep
  BY <1>2, <1>3, <1>4, MoveOK DEF LifeStep, Life!vars
<1> QED BY <1>2, <1>3, <1>4, <1>5, <1>6, NobodyMovesOK DEF IInv, TypeOK, procvars, timevars

\* The steps that leave the processes alone: wait() that fails, an interrupt
\* that begins, a stuttering step.
LEMMA QuietStep ==
    ASSUME IInv, UNCHANGED <<sched, procvars, cpuproc>>,
           lock' \in [cpu : CPU \cup {NoCPU}, chan : Chan, next : 0 .. NPROC],
           trap0' \in {"none", "wake", "yield"},
           ticks' \in 0 .. MLFQBOOSTTIME - 1, boost_flag' \in BOOLEAN
    PROVE  IInv' /\ LifeStep
<1>1. Sound(sched') /\ LockedAlone' /\ Woken(sched, sched')
  BY DEF IInv, LockedAlone, Woken
<1>2. LifeStep
  BY DEF LifeStep, Life!vars
<1> QED BY <1>1, <1>2, NobodyMovesOK DEF IInv, TypeOK, procvars

LEMMA InterruptStep ==
    ASSUME IInv, TimerTick \/ TickWakeup \/ \E c \in CPU : DevWakeup(c)
    PROVE  IInv' /\ LifeStep
<1>1. TypeOK /\ 1 \in 0 .. NPROC /\ {"ticks", "dev"} \subseteq Chan
  BY MLFQAssumption DEF IInv, Chan
<1>2. CASE TimerTick
  <2>1. (ticks + 1) % MLFQBOOSTTIME \in 0 .. MLFQBOOSTTIME - 1
    BY <1>1, MLFQAssumption DEF TypeOK
  <2> QED BY <1>1, <1>2, <2>1, QuietStep DEF TimerTick, TypeOK
<1>3. CASE TickWakeup
  <2>1. 0 \in CPU
    BY SchedulerAssumption DEF CPU
  <2>2. lock' \in [cpu : CPU \cup {NoCPU}, chan : Chan, next : 0 .. NPROC]
    BY <1>1, <1>3, <2>1, LockType DEF TickWakeup
  <2> QED BY <1>1, <1>3, <2>2, QuietStep DEF TickWakeup, TypeOK
<1>4. CASE \E c \in CPU : DevWakeup(c)
  <2> PICK c \in CPU : DevWakeup(c)
    BY <1>4
  <2>1. lock' \in [cpu : CPU \cup {NoCPU}, chan : Chan, next : 0 .. NPROC]
    BY <1>1 DEF DevWakeup
  <2> QED BY <1>1, <2>1, QuietStep DEF DevWakeup, TypeOK, timevars
<1> QED BY <1>2, <1>3, <1>4

\* The steps by which a process gives up its CPU and may go on: the timer's
\* yield() and the yield system call, which unlocks the scheduler first ...
LEMMA YieldStep ==
    ASSUME IInv, NEW c \in CPU, NEW p \in Proc, YieldCall(c, p) \/ TimerYield(c, p)
    PROVE  IInv' /\ LifeStep /\ Starting(p, "RUNNABLE")
<1> DEFINE s == SetState(sched, p, "RUNNABLE")
           u == IF YieldCall(c, p) /\ s.state = "LOCKED" THEN SchedulerUnlock(s) ELSE s
<1>1. cpuproc[c] = p
  BY DEF YieldCall, TimerYield, AtUser, Runs
<1>2. /\ \/ SwitchOut(c, s) /\ (s.state # "LOCKED" \/ TimerYield(c, p))
         \/ SwitchOut(c, SchedulerUnlock(s)) /\ s.state = "LOCKED"
      /\ UNCHANGED procvars /\ trap0' \in {"none", trap0} /\ ticks' = ticks
  BY DEF YieldCall, TimerYield
<1>3. /\ sched.state = "LOCKED" => sched.locked_proc = p /\ NCPU = 1
      /\ Sound(sched) /\ sched.pstate[p] = "RUNNING"
  BY <1>1, OnCPU
<1>4. /\ Switchable(s, p) /\ KeepsLock(sched, s)
      /\ s.pstate = [sched.pstate EXCEPT ![p] = "RUNNABLE"]
  BY <1>3, LeavesOK
<1>5. trap0' \in {"none", "wake", "yield"} /\ ticks' \in 0 .. MLFQBOOSTTIME - 1
      /\ chan' \in [Proc -> Chan]
  BY <1>2 DEF IInv, TypeOK, procvars
<1> HIDE DEF s
<1>6. CASE SwitchOut(c, s)
  <2>1. s.state = "LOCKED" => NCPU = 1
    BY <1>3, <1>4 DEF KeepsLock
  <2> QED BY <1>1, <1>2, <1>4, <1>5, <1>6, <2>1, LeaveStepOK DEF procvars
<1>7. CASE SwitchOut(c, SchedulerUnlock(s)) /\ s.state = "LOCKED"
  <2> DEFINE t == SchedulerUnlock(s)
  <2>1. s.locked_proc = p /\ Good(s, {p})
    BY <1>4, <1>7 DEF Switchable
  <2>2. s.pstate[p] = "RUNNABLE"
    BY <1>3, <1>4 DEF Sound, Good, SchedState
  <2>3. /\ Good(t, {p}) /\ t.pstate = s.pstate
        /\ t.state = "UNLOCK_REQUIRE" /\ t.locked_proc = NULL
        /\ t.level[p] = L0 /\ t.tick_left[p] = MAX_TIME_QUANTUM[L0]
    BY <1>7, <2>1, UnlockOK
  <2> HIDE DEF t
  <2>4. Switchable(t, p)
    BY <2>2, <2>3, FreshFits DEF Switchable
  <2>5. SwitchOut(c, t) /\ t.state # "LOCKED"
    BY <1>7, <2>3 DEF t
  <2> QED BY <1>1, <1>2, <1>4, <1>5, <2>3, <2>4, <2>5, LeaveStepOK DEF procvars
<1> QED BY <1>2, <1>6, <1>7

\* ... the system call that unlocks the scheduler ...
LEMMA UnlockStep ==
    ASSUME IInv, NEW c \in CPU, NEW p \in Proc, UnlockCall(c, p)
    PROVE  IInv' /\ LifeStep /\ Starting(p, "RUNNABLE")
<1> DEFINE u == SchedulerUnlock(sched)
           s == SetState(u, p, "RUNNABLE")
<1>1. /\ cpuproc[c] = p /\ sched.state = "LOCKED" /\ SwitchOut(c, s)
      /\ UNCHANGED <<procvars, trap0, ticks>>
  BY DEF UnlockCall, AtUser, Runs
<1>2. /\ sched.locked_proc = p /\ Sound(sched)
  BY <1>1, OnCPU
<1>3. /\ Good(u, {p}) /\ u.pstate = sched.pstate
      /\ u.state = "UNLOCK_REQUIRE" /\ u.locked_proc = NULL
      /\ u.level[p] = L0 /\ u.tick_left[p] = MAX_TIME_QUANTUM[L0]
  BY <1>1, <1>2, UnlockOK DEF Sound, Holder
<1> HIDE DEF u
<1>4. /\ Good(s, {p}) /\ KeepsLock(u, s)
      /\ s.pstate = [sched.pstate EXCEPT ![p] = "RUNNABLE"]
      /\ s.level = u.level /\ s.tick_left = u.tick_left
  BY <1>3, SetStateOK DEF ProcState, SetState, Good, SchedState
<1> HIDE DEF s
<1>5. s.pstate[p] = "RUNNABLE"
  BY <1>2, <1>4 DEF Sound, Good, SchedState
<1>6. s.state = "UNLOCK_REQUIRE" /\ s.locked_proc = NULL
  BY <1>3, <1>4 DEF KeepsLock
<1>7. Switchable(s, p)
  BY <1>3, <1>4, <1>5, <1>6, FreshFits DEF Switchable
<1>8. trap0' \in {"none", "wake", "yield"} /\ ticks' \in 0 .. MLFQBOOSTTIME - 1
      /\ chan' \in [Proc -> Chan]
  BY <1>1 DEF IInv, TypeOK, procvars
<1> QED BY <1>1, <1>4, <1>6, <1>7, <1>8, LeaveStepOK DEF procvars

\* ... and the one that locks it for the caller.
LEMMA LockStep ==
    ASSUME Lockers = {} \/ NCPU = 1, IInv, NEW c \in CPU, NEW p \in Proc, LockCall(c, p)
    PROVE  IInv' /\ LifeStep /\ Starting(p, "RUNNABLE")
<1> DEFINE k == MLFQBOOSTTIME
           t == [sched EXCEPT !.state = "LOCKED", !.locked_proc = p, !.tick_left[p] = k]
           s == SetState(t, p, "RUNNABLE")
<1>1. /\ cpuproc[c] = p /\ sched.state # "LOCKED" /\ SwitchOut(c, s)
      /\ ticks' = 0 /\ UNCHANGED <<procvars, trap0>> /\ NCPU = 1
  BY DEF LockCall, AtUser, Runs, SchedulerLock
<1>2. /\ Sound(sched) /\ sched \in SchedState /\ sched.pstate[p] = "RUNNING"
      /\ Good(sched, {})
  BY <1>1, OnCPU DEF Sound, Holder
<1>3. Good(sched, {p})
  <2>1. {} \cup {p} = {p}
    OBVIOUS
  <2> QED BY <1>2, <2>1, LeaveOut
<1>4. k \in Int /\ 0 \in 0 .. MLFQBOOSTTIME - 1
  BY MLFQAssumption
<1> HIDE DEF k
<1>5. /\ t \in SchedState /\ t.state = "LOCKED" /\ t.locked_proc = p
      /\ t.panic = sched.panic /\ t.queue = sched.queue /\ t.pstate = sched.pstate
      /\ t.enter_id = sched.enter_id /\ t.l2q_enter_id = sched.l2q_enter_id
      /\ t.level = sched.level /\ t.pvalue = sched.pvalue
      /\ t.tick_left = [sched.tick_left EXCEPT ![p] = k]
  BY <1>2, <1>4 DEF SchedState, MLFQState
<1> HIDE DEF t
<1>6. Good(t, {p})
  <2>1. /\ t.l2q_enter_id >= sched.l2q_enter_id
        /\ \A q \in Proc \ {p} :
             /\ t.pstate[q] = sched.pstate[q] /\ t.level[q] = sched.level[q]
             /\ t.tick_left[q] = sched.tick_left[q] /\ t.enter_id[q] = sched.enter_id[q]
             /\ t.pvalue[q] = sched.pvalue[q]
    BY <1>2, <1>5 DEF SchedState
  <2> QED BY <1>3, <1>5, <2>1, OthersStay
<1>7. /\ Good(s, {p}) /\ KeepsLock(t, s)
      /\ s.pstate = [sched.pstate EXCEPT ![p] = "RUNNABLE"]
  <2>1. p \in {p} \cap Proc /\ "RUNNABLE" \in ProcState
    BY DEF ProcState
  <2>2. /\ Good(s, {p}) /\ KeepsLock(t, s)
        /\ s.pstate = [t.pstate EXCEPT ![p] = "RUNNABLE"]
    BY <1>6, <2>1, SetStateOK
  <2> QED BY <1>5, <2>2
<1> HIDE DEF s
<1>8. s.pstate[p] = "RUNNABLE"
  BY <1>2, <1>7 DEF SchedState
<1>9. Switchable(s, p)
  BY <1>5, <1>7, <1>8 DEF Switchable, KeepsLock
<1>10. trap0' \in {"none", "wake", "yield"} /\ ticks' \in 0 .. MLFQBOOSTTIME - 1
       /\ chan' \in [Proc -> Chan]
  BY <1>1, <1>4 DEF IInv, TypeOK, procvars
<1> QED BY <1>1, <1>7, <1>9, <1>10, LeaveStepOK DEF procvars

\* A caller that finds the lock in the wrong state is on its way out.
LEMMA LockMisuseStep ==
    ASSUME IInv, NEW c \in CPU, NEW p \in Proc, LockMisuse(c, p)
    PROVE  IInv' /\ LifeStep
<1>1. /\ p # INITPROC /\ exiting' = [exiting EXCEPT ![p] = TRUE]
      /\ UNCHANGED <<sched, parent, chan, killed, child, cpuproc, lock, timevars>>
  BY SchedulerAssumption DEF LockMisuse
<1> QED BY <1>1, ExitingOK DEF IInv, TypeOK, timevars

LEMMA SleepStep ==
    ASSUME IInv, NEW c \in CPU, NEW p \in Proc,
           WaitSleeps(c, p) \/ \E ch \in {"ticks", "dev"} : Sleep(c, p, ch)
    PROVE  IInv' /\ LifeStep /\ Starting(p, "SLEEPING")
<1> DEFINE s == SetState(sched, p, "SLEEPING")
<1>1. PICK ch \in Chan : chan' = [chan EXCEPT ![p] = ch]
  BY DEF WaitSleeps, Sleep, Chan
<1>2. cpuproc[c] = p
  BY DEF WaitSleeps, Sleep, InWait, AtUser, Runs
<1>3. /\ SwitchOut(c, s)
      /\ UNCHANGED <<parent, killed, child, exiting, trap0, ticks>>
  BY DEF WaitSleeps, Sleep
<1>4. /\ sched.state = "LOCKED" => sched.locked_proc = p /\ NCPU = 1
      /\ Sound(sched) /\ sched.pstate[p] = "RUNNING"
  BY <1>2, OnCPU
<1>5. /\ Switchable(s, p) /\ KeepsLock(sched, s)
      /\ s.pstate = [sched.pstate EXCEPT ![p] = "SLEEPING"]
  BY <1>4, LeavesOK
<1>6. trap0' \in {"none", "wake", "yield"} /\ ticks' \in 0 .. MLFQBOOSTTIME - 1
      /\ chan' \in [Proc -> Chan]
  BY <1>1, <1>3 DEF IInv, TypeOK
<1> HIDE DEF s
<1>7. s.state = "LOCKED" => NCPU = 1
  BY <1>4, <1>5 DEF KeepsLock
<1> QED BY <1>2, <1>3, <1>5, <1>6, <1>7, LeaveStepOK

LEMMA WaitFailsStep ==
    ASSUME IInv, NEW c \in CPU, NEW p \in Proc, WaitFails(c, p)
    PROVE  IInv' /\ LifeStep
<1>1. UNCHANGED <<sched, procvars, cpuproc, timevars>> /\ lock' = Free
  BY DEF WaitFails
<1> QED BY <1>1, LockType, QuietStep DEF IInv, TypeOK, timevars

-----------------------------------------------------------------------------
\* Every step keeps the invariant, and is a step of the life cycle or none.
LEMMA StepOK ==
    ASSUME Lockers = {} \/ NCPU = 1, IInv, [Next]_vars
    PROVE  IInv' /\ LifeStep
<1>1. ASSUME NEW c \in CPU, Select(c) PROVE IInv' /\ LifeStep
  BY <1>1, SelectStep
<1>2. ASSUME NEW c \in CPU, SelectNothing(c) PROVE IInv' /\ LifeStep
  BY <1>2, SelectNothingStep
<1>3. CASE TimerTick \/ TickWakeup \/ \E c \in CPU : DevWakeup(c)
  BY <1>3, InterruptStep
<1>4. CASE WakeupScan
  BY <1>4, WakeupScanStep
<1>5. ASSUME NEW c \in CPU, NEW p \in Proc, CPUStep(c, p) PROVE IInv' /\ LifeStep
  <2>1. CASE AllocProc(c, p)
    BY <2>1, AllocProcStep
  <2>2. CASE ForkDone(c, p)
    BY <2>2, ForkDoneStep
  <2>3. CASE ForkFails(c, p)
    BY <2>3, ForkFailsStep
  <2>4. CASE StartExit(c, p)
    BY <2>4, StartExitStep
  <2>5. CASE Exit(c, p)
    BY <2>5, ExitStep
  <2>6. CASE WaitReaps(c, p)
    BY <2>6, WaitReapsStep
  <2>7. CASE WaitFails(c, p)
    BY <2>7, WaitFailsStep
  <2>8. CASE WaitSleeps(c, p) \/ \E ch \in {"ticks", "dev"} : Sleep(c, p, ch)
    BY <2>8, SleepStep
  <2>9. CASE \E q \in Proc : Kill(c, p, q)
    BY <2>9, KillStep
  <2>10. CASE YieldCall(c, p) \/ TimerYield(c, p)
    BY <2>10, YieldStep
  <2>11. CASE \E q \in Proc, v \in Priorities : SetPriority(c, p, q, v)
    BY <2>11, SetPriorityStep
  <2>12. CASE LockCall(c, p)
    BY <2>12, LockStep
  <2>13. CASE UnlockCall(c, p)
    BY <2>13, UnlockStep
  <2>14. CASE LockMisuse(c, p)
    BY <2>14, LockMisuseStep
  <2> QED BY <1>5, <2>1, <2>2, <2>3, <2>4, <2>5, <2>6, <2>7, <2>8, <2>9, <2>10,
             <2>11, <2>12, <2>13, <2>14 DEF CPUStep
<1>6. CASE UNCHANGED vars
  BY <1>6, QuietStep DEF IInv, TypeOK, vars, procvars
<1> QED BY <1>1, <1>2, <1>3, <1>4, <1>5, <1>6 DEF Next

\* The inductive invariant holds of every behaviour without the scheduler lock,
\* and of every one on one CPU.
THEOREM Invariance == ASSUME Lockers = {} \/ NCPU = 1 PROVE Spec => []IInv
<1>1. Init => IInv
  BY InitOK
<1>2. IInv /\ [Next]_vars => IInv'
  BY StepOK
<1> QED BY <1>1, <1>2, PTL DEF Spec

\* Every variable keeps its type: no level, priority or entry number leaves its
\* range, in any order of the system calls and interrupts.
THEOREM TypeCorrect == ASSUME Lockers = {} \/ NCPU = 1 PROVE Spec => []TypeOK
<1>1. IInv => TypeOK
  BY DEF IInv
<1> QED BY <1>1, Invariance, PTL

\* No panic of the queue code is reached.
THEOREM NeverPanics == ASSUME Lockers = {} \/ NCPU = 1 PROVE Spec => []NoPanic
<1>1. IInv => NoPanic
  BY DEF IInv, Sound, Good, NoPanic
<1> QED BY <1>1, Invariance, PTL

\* What is queued is RUNNABLE, once, in the queue of its level.
THEOREM SoundQueues == ASSUME Lockers = {} \/ NCPU = 1 PROVE Spec => []QueuesAreSound
<1>1. IInv => QueuesAreSound
  BY DEF IInv, Sound, Good, QueuesOK, QueuesAreSound
<1> QED BY <1>1, Invariance, PTL

\* What is RUNNABLE is queued, so that it is chosen one day.
THEOREM NothingLost == ASSUME Lockers = {} \/ NCPU = 1 PROVE Spec => []NoRunnableIsLost
<1>1. IInv => NoRunnableIsLost
  BY DEF IInv, Sound, LockOK, Holder, Good, LevelOK, PlacedOK, Live, NoRunnableIsLost
<1> QED BY <1>1, Invariance, PTL

\* The processes of L2 stand in the order of their priorities and, among equals,
\* of their entry, whatever setPriority(), aging and wakeups did in between.
THEOREM OrderedL2 == ASSUME Lockers = {} \/ NCPU = 1 PROVE Spec => []L2IsSorted
<1>1. IInv => L2IsSorted
  BY DEF IInv, Sound, Good, OrderOK, L2IsSorted
<1> QED BY <1>1, Invariance, PTL

\* A process that runs or may run has a level and a part of its quantum.
THEOREM ValidQuantum == ASSUME Lockers = {} \/ NCPU = 1 PROVE Spec => []QuantumIsValid
<1>1. IInv => QuantumIsValid
  BY DEF IInv, Sound, LockOK, Holder, Good, LevelOK, QuantumOK, Live, QuantumIsValid
<1> QED BY <1>1, Invariance, PTL

\* A process is on one CPU at most, and RUNNING exactly while it is.
THEOREM OneCPU == ASSUME Lockers = {} \/ NCPU = 1 PROVE Spec => []OneCPUPerProcess
<1>1. IInv => OneCPUPerProcess
  BY DEF IInv
<1> QED BY <1>1, Invariance, PTL

\* The scheduler is locked only while its holder runs or may run: the lock is
\* given back by the holder's sleep, its exit and the boost, in any order of
\* these with the timer's ticks.
THEOREM HolderCanRun == ASSUME Lockers = {} \/ NCPU = 1 PROVE Spec => []LockHasHolder
<1>1. IInv => LockHasHolder
  BY DEF IInv, Sound, LockOK, LockHasHolder
<1> QED BY <1>1, Invariance, PTL

\* While the scheduler is locked nobody but the holder is on a CPU.
THEOREM LockIsExclusive == ASSUME Lockers = {} \/ NCPU = 1 PROVE Spec => []LockExcludes
<1>1. IInv => LockExcludes
  BY DEF IInv, LockedAlone, LockExcludes
<1> QED BY <1>1, Invariance, PTL

\* The process table and the CPUs implement the life cycle: queues, levels,
\* quanta, boosts and the steps of fork(), exit() and wakeup() are below it.
THEOREM LifecycleImplemented == ASSUME Lockers = {} \/ NCPU = 1 PROVE Spec => LifecycleIsKept
<1>1. Init => Life!Init
  <2> SUFFICES ASSUME Init PROVE Life!Init
    OBVIOUS
  <2>1. cpuproc = [c \in CPU |-> NULL]
    BY DEF Init
  <2>2. sched.pstate = [p \in Proc |-> IF p = INITPROC THEN "RUNNABLE" ELSE "UNUSED"]
    BY InitOK
  <2> QED BY <2>1, <2>2 DEF Life!Init
<1>2. IInv /\ [Next]_vars => [Life!Next]_(Life!vars)
  BY StepOK DEF LifeStep
<1> QED BY <1>1, <1>2, Invariance, PTL DEF Spec, LifecycleIsKept, Life!Spec
-----------------------------------------------------------------------------
(* What the life cycle promises by itself *)

LifeInv == Life!TypeOK /\ Life!Exclusive

LEMMA InitLife == Life!Init => LifeInv
  BY DEF Life!Init, LifeInv, Life!TypeOK, Life!Exclusive, Life!States, NULL, Proc

LEMMA StepLife == LifeInv /\ [Life!Next]_(Life!vars) => LifeInv'
<1> SUFFICES ASSUME LifeInv, [Life!Next]_(Life!vars) PROVE LifeInv'
  OBVIOUS
<1>0. NULL \notin Proc
  BY DEF NULL, Proc
<1> USE DEF LifeInv, Life!TypeOK, Life!Exclusive, Life!States, Life!Moves
<1>1. CASE UNCHANGED Life!vars
  BY <1>1 DEF Life!vars
<1>2. ASSUME NEW p \in Proc, Life!Create(p) \/ Life!Discard(p) \/ Life!Start(p) \/ Life!Wake(p) \/ Life!Reap(p)
      PROVE  LifeInv'
  <2>1. PICK to \in {"UNUSED", "EMBRYO", "RUNNABLE"} :
           /\ sched.pstate[p] # "RUNNING" /\ sched'.pstate = [sched.pstate EXCEPT ![p] = to]
           /\ UNCHANGED cpuproc
    BY <1>2 DEF Life!Create, Life!Discard, Life!Start, Life!Wake, Life!Reap
  <2> QED BY <2>1
<1>3. ASSUME NEW c \in CPU, NEW p \in Proc, Life!Dispatch(c, p) PROVE LifeInv'
  <2>1. Life!TypeOK'
    BY <1>3 DEF Life!Dispatch
  <2>2. \A q \in Proc : sched'.pstate[q] = "RUNNING" <=> \E d \in CPU : cpuproc'[d] = q
    BY <1>0, <1>3 DEF Life!Dispatch
  <2>3. \A d, e \in CPU : cpuproc'[d] = cpuproc'[e] /\ cpuproc'[d] # NULL => d = e
    BY <1>0, <1>3 DEF Life!Dispatch
  <2> QED BY <2>1, <2>2, <2>3
<1>4. ASSUME NEW c \in CPU, NEW p \in Proc,
             NEW to \in {"RUNNABLE", "SLEEPING", "ZOMBIE"},
             NEW woken \in SUBSET Proc, Life!Leave(c, p, to, woken)
      PROVE  LifeInv'
  <2>1. Life!TypeOK'
    BY <1>4 DEF Life!Leave
  <2>2. \A q \in Proc : sched'.pstate[q] = "RUNNING" <=> q # p /\ sched.pstate[q] = "RUNNING"
    BY <1>4 DEF Life!Leave
  <2>3. \A q \in Proc : sched'.pstate[q] = "RUNNING" <=> \E d \in CPU : cpuproc'[d] = q
    BY <1>0, <1>4, <2>2 DEF Life!Leave
  <2>4. \A d, e \in CPU : cpuproc'[d] = cpuproc'[e] /\ cpuproc'[d] # NULL => d = e
    BY <1>0, <1>4 DEF Life!Leave
  <2> QED BY <2>1, <2>3, <2>4
<1> QED
  BY <1>1, <1>2, <1>3, <1>4 DEF Life!Next

\* Whatever keeps to the life cycle never runs a process on two CPUs.
THEOREM ExclusiveHolds == LifecycleIsKept => []Life!Exclusive
<1>1. LifeInv => Life!Exclusive
  BY DEF LifeInv
<1> QED
  BY InitLife, StepLife, <1>1, PTL DEF LifecycleIsKept, Life!Spec
-----------------------------------------------------------------------------
(* wait() and exit() *)

\* Nobody is its own parent, so that exit() does not hand the exiting process
\* over together with its children; the first process stays and has no parent.
ParentsOK ==
    /\ \A q \in Proc : parent[q] # q
    /\ parent[INITPROC] = NULL
    /\ sched.pstate[INITPROC] \in Live

WaitInv == NoExitIsMissed /\ ParentsOK

\* A step in which no process leaves its CPU makes no sleeper and no zombie, and
\* what is live stays so.
LEMMA NobodyStops ==
    ASSUME IInv, LifeStep, \A c \in CPU : cpuproc'[c] = NULL => cpuproc[c] = NULL
    PROVE  \A q \in Proc :
             /\ sched'.pstate[q] \in {"SLEEPING", "ZOMBIE"} =>
                    sched'.pstate[q] = sched.pstate[q]
             /\ sched.pstate[q] \in Live => sched'.pstate[q] \in Live
<1>1. /\ sched.pstate \in [Proc -> ProcState]
      /\ cpuproc \in [CPU -> Proc \cup {NULL}]
      /\ \A q \in Proc : q # NULL
  BY DEF IInv, TypeOK, SchedState, Proc, NULL
<1>2. CASE \E p \in Proc : \/ Life!Create(p) \/ Life!Discard(p) \/ Life!Start(p)
                           \/ Life!Wake(p) \/ Life!Reap(p)
  <2> PICK p \in Proc : \/ Life!Create(p) \/ Life!Discard(p) \/ Life!Start(p)
                        \/ Life!Wake(p) \/ Life!Reap(p)
    BY <1>2
  <2>1. \/ sched.pstate[p] \notin Live /\ Starting(p, "EMBRYO")
        \/ sched.pstate[p] \notin Live /\ Starting(p, "UNUSED")
        \/ Starting(p, "RUNNABLE")
    BY DEF Life!Create, Life!Discard, Life!Start, Life!Wake, Life!Reap, Life!Moves,
           Starting, Live
  <2> QED BY <1>1, <2>1 DEF Starting, Live
<1>3. CASE \E c \in CPU, p \in Proc : Life!Dispatch(c, p)
  BY <1>1, <1>3 DEF Life!Dispatch, Life!Moves, Live
<1>4. ~ \E c \in CPU, p \in Proc : \E to, woken : Life!Leave(c, p, to, woken)
  BY <1>1 DEF Life!Leave
<1>5. CASE UNCHANGED Life!vars
  BY <1>5 DEF Life!vars
<1> QED BY <1>2, <1>3, <1>4, <1>5 DEF LifeStep, Life!Next

\* Sleepers in wait() are the same or fewer, and so are zombies.
LEMMA WaitersStay ==
    ASSUME WaitInv,
           \A q \in Proc :
             /\ sched'.pstate[q] = "ZOMBIE" =>
                  sched.pstate[q] = "ZOMBIE" /\ parent'[q] = parent[q]
             /\ sched'.pstate[q] = "SLEEPING" /\ chan'[q] = "wait" =>
                  \/ /\ sched.pstate[q] = "SLEEPING" /\ chan[q] = "wait"
                     /\ killed'[q] => killed[q]
                  \/ Zombies(q) = {} /\ ~ killed'[q]
    PROVE  NoExitIsMissed'
<1> SUFFICES ASSUME NEW p \in Proc, sched'.pstate[p] = "SLEEPING", chan'[p] = "wait"
             PROVE  Zombies(p)' = {} /\ ~ killed'[p]
  BY DEF NoExitIsMissed
<1>1. Zombies(p) = {} /\ ~ killed'[p]
  BY DEF WaitInv, NoExitIsMissed
<1>2. Zombies(p)' \subseteq Zombies(p)
  BY DEF Zombies, Children
<1> QED BY <1>1, <1>2

\* A step that leaves parents and sleepers alone.
LEMMA QuietWait ==
    ASSUME IInv, WaitInv, LifeStep, parent' = parent,
           \A c \in CPU : cpuproc'[c] = NULL => cpuproc[c] = NULL,
           \A q \in Proc : sched'.pstate[q] = "SLEEPING" /\ chan'[q] = "wait" =>
               chan[q] = "wait" /\ (killed'[q] => killed[q])
    PROVE  WaitInv'
<1>1. \A q \in Proc : /\ sched'.pstate[q] \in {"SLEEPING", "ZOMBIE"} =>
                            sched'.pstate[q] = sched.pstate[q]
                      /\ sched.pstate[q] \in Live => sched'.pstate[q] \in Live
  BY NobodyStops
<1>2. NoExitIsMissed'
  BY <1>1, WaitersStay
<1>3. INITPROC \in Proc
  BY MLFQAssumption DEF Proc, INITPROC
<1>4. ParentsOK'
  BY <1>1, <1>3 DEF WaitInv, ParentsOK
<1> QED BY <1>2, <1>4 DEF WaitInv

\* A process gives up its CPU, or goes to sleep having seen no zombie.
LEMMA GiveUpWait ==
    ASSUME IInv, WaitInv, NEW p \in Proc, NEW st \in {"RUNNABLE", "SLEEPING"},
           Starting(p, st), UNCHANGED <<parent, killed>>,
           \A q \in Proc \ {p} : chan'[q] = chan[q],
           st = "SLEEPING" => chan'[p] # "wait" \/ (Zombies(p) = {} /\ ~ killed[p])
    PROVE  WaitInv'
<1>1. /\ sched'.pstate[p] = st
      /\ \A q \in Proc \ {p} : sched'.pstate[q] = sched.pstate[q]
  BY DEF Starting, IInv, TypeOK, SchedState
<1>2. NoExitIsMissed'
  BY <1>1, WaitersStay
<1>3. INITPROC \in Proc
  BY MLFQAssumption DEF Proc, INITPROC
<1>4. ParentsOK'
  BY <1>1, <1>3 DEF WaitInv, ParentsOK, Live
<1> QED BY <1>2, <1>4 DEF WaitInv

-----------------------------------------------------------------------------
(* The actions. *)

\* The actions after which every CPU that ran a process still does, and that
\* touch no parent.
LEMMA KeptWait ==
    ASSUME IInv, WaitInv, LifeStep, NEW c \in CPU, NEW p \in Proc,
           \/ Select(c) \/ SelectNothing(c) \/ DevWakeup(c)
           \/ AllocProc(c, p) \/ ForkFails(c, p) \/ StartExit(c, p) \/ WaitFails(c, p)
           \/ \E q \in Proc, v \in Priorities : SetPriority(c, p, q, v)
           \/ LockMisuse(c, p) \/ WakeupScan \/ TimerTick \/ TickWakeup
    PROVE  WaitInv'
<1>1. /\ UNCHANGED <<parent, killed>>
      /\ \/ cpuproc' = cpuproc
         \/ \E q \in Proc : cpuproc' = [cpuproc EXCEPT ![c] = q]
      /\ \/ chan' = chan
         \/ \E q \in Proc : chan' = [chan EXCEPT ![q] = "none"]
  <2>1. CASE Select(c)
    <3>1. SelectTarget(sched) \in Proc
      BY <2>1, ChosenOK
    <3> QED BY <2>1, <3>1 DEF Select
  <2>2. CASE ~ Select(c)
    BY <2>2 DEF SelectNothing, DevWakeup, AllocProc, ForkFails, StartExit, WaitFails,
          SetPriority, LockMisuse, WakeupScan, TimerTick, TickWakeup, procvars
  <2> QED BY <2>1, <2>2
<1>2. \A d \in CPU : cpuproc'[d] = NULL => cpuproc[d] = NULL
  BY <1>1 DEF IInv, TypeOK, Proc, NULL
<1>3. \A q \in Proc : chan'[q] = "wait" => chan[q] = "wait"
  BY <1>1 DEF IInv, TypeOK
<1> QED BY <1>1, <1>2, <1>3, QuietWait

\* A process that is killed in wait() is woken.
LEMMA KillWait ==
    ASSUME IInv, WaitInv, LifeStep, NEW c \in CPU, NEW p \in Proc, NEW q \in Proc,
           Kill(c, p, q)
    PROVE  WaitInv'
<1>1. /\ UNCHANGED <<parent, chan, cpuproc>>
      /\ killed' = [killed EXCEPT ![q] = TRUE]
  BY DEF Kill
<1>2. sched'.pstate[q] # "SLEEPING"
  BY KillStep
<1>3. \A r \in Proc \ {q} : killed'[r] = killed[r]
  BY <1>1 DEF IInv, TypeOK
<1> QED BY <1>1, <1>2, <1>3, QuietWait

\* A parent gets a child that has not exited.
LEMMA ForkWait ==
    ASSUME IInv, WaitInv, LifeStep, NEW c \in CPU, NEW p \in Proc, ForkDone(c, p)
    PROVE  WaitInv'
<1> DEFINE np == child[p]
<1>1. /\ np \in Proc /\ sched.pstate[np] = "EMBRYO" /\ sched.pstate[p] = "RUNNING"
      /\ p # NULL /\ INITPROC \in Proc
  BY MLFQAssumption DEF ForkDone, Runs, IInv, TypeOK, EmbryoOK, OneCPUPerProcess, Proc, INITPROC
<1>2. /\ parent' = [parent EXCEPT ![np] = p]
      /\ UNCHANGED <<chan, killed, cpuproc>>
  BY DEF ForkDone
<1> HIDE DEF np
<1>3. \A q \in Proc : /\ sched'.pstate[q] \in {"SLEEPING", "ZOMBIE"} =>
                            sched'.pstate[q] = sched.pstate[q]
                      /\ sched.pstate[q] \in Live => sched'.pstate[q] \in Live
  BY <1>2, NobodyStops
<1>4. parent'[np] = p /\ \A q \in Proc \ {np} : parent'[q] = parent[q]
  BY <1>1, <1>2 DEF IInv, TypeOK
<1>5. sched'.pstate[np] # "ZOMBIE"
  BY <1>1, <1>3
<1>6. NoExitIsMissed'
  BY <1>2, <1>3, <1>4, <1>5, WaitersStay
<1>7. np # INITPROC /\ np # p
  BY <1>1 DEF WaitInv, ParentsOK, Live
<1>8. ParentsOK'
  BY <1>1, <1>3, <1>4, <1>7 DEF WaitInv, ParentsOK
<1> QED BY <1>6, <1>8 DEF WaitInv

\* A child that is reaped has no parent.
LEMMA ReapWait ==
    ASSUME IInv, WaitInv, LifeStep, NEW c \in CPU, NEW p \in Proc, WaitReaps(c, p)
    PROVE  WaitInv'
<1> DEFINE z == CHOOSE q \in Zombies(p) : \A r \in Zombies(p) : q <= r
<1>1. z \in Zombies(p)
  <2>1. Zombies(p) \in SUBSET Nat /\ Zombies(p) # {}
    BY DEF WaitReaps, Zombies, Children, Proc
  <2>2. \E q \in Zombies(p) : \A r \in Zombies(p) : q <= r
    BY <2>1, Minimum
  <2> QED BY <2>2
<1>2. /\ sched' = [sched EXCEPT !.level[z] = -1, !.pstate[z] = "UNUSED"]
      /\ parent' = [parent EXCEPT ![z] = NULL]
      /\ killed' = [killed EXCEPT ![z] = FALSE]
      /\ UNCHANGED <<chan, cpuproc>>
  BY DEF WaitReaps
<1> HIDE DEF z
<1>3. z \in Proc /\ sched'.pstate[z] = "UNUSED" /\ INITPROC \in Proc
  BY <1>1, <1>2, MLFQAssumption
     DEF Zombies, Children, IInv, TypeOK, SchedState, Proc, INITPROC
<1>4. \A q \in Proc : /\ sched'.pstate[q] \in {"SLEEPING", "ZOMBIE"} =>
                            sched'.pstate[q] = sched.pstate[q]
                      /\ sched.pstate[q] \in Live => sched'.pstate[q] \in Live
  BY <1>2, NobodyStops
<1>5. /\ parent'[z] = NULL
      /\ \A q \in Proc \ {z} : parent'[q] = parent[q] /\ killed'[q] = killed[q]
  BY <1>2, <1>3 DEF IInv, TypeOK
<1>6. NoExitIsMissed'
  BY <1>2, <1>3, <1>4, <1>5, WaitersStay
<1>7. ParentsOK'
  BY <1>3, <1>4, <1>5 DEF WaitInv, ParentsOK, Proc, NULL
<1> QED BY <1>6, <1>7 DEF WaitInv

LEMMA YieldWait ==
    ASSUME Lockers = {} \/ NCPU = 1, IInv, WaitInv, NEW c \in CPU, NEW p \in Proc,
           YieldCall(c, p) \/ TimerYield(c, p) \/ LockCall(c, p) \/ UnlockCall(c, p)
    PROVE  WaitInv'
<1>1. UNCHANGED procvars
  BY DEF YieldCall, TimerYield, LockCall, UnlockCall
<1>2. Starting(p, "RUNNABLE")
  BY YieldStep, LockStep, UnlockStep
<1> QED BY <1>1, <1>2, GiveUpWait DEF procvars

\* A parent sleeps only when it has found no zombie, under the same lock.
LEMMA SleepWait ==
    ASSUME IInv, WaitInv, NEW c \in CPU, NEW p \in Proc,
           WaitSleeps(c, p) \/ \E ch \in {"ticks", "dev"} : Sleep(c, p, ch)
    PROVE  WaitInv'
<1>1. UNCHANGED <<parent, killed, child>>
  BY DEF WaitSleeps, Sleep
<1>2. Starting(p, "SLEEPING")
  BY SleepStep
<1>3. PICK ch : /\ chan' = [chan EXCEPT ![p] = ch]
                /\ ch # "wait" \/ (Zombies(p) = {} /\ ~ killed[p])
  BY DEF WaitSleeps, Sleep
<1>4. chan'[p] = ch /\ \A q \in Proc \ {p} : chan'[q] = chan[q]
  BY <1>3 DEF IInv, TypeOK
<1> QED BY <1>1, <1>2, <1>3, <1>4, GiveUpWait

\* wakeup1() leaves nobody asleep on its channel in the slot it looks at.
LEMMA WakeupWakes ==
    ASSUME NEW s, NEW p \in Proc, NEW ch, Sound(s)
    PROVE  chan[p] = ch => WakeupOne(s, p, ch).pstate[p] # "SLEEPING"
<1> SUFFICES ASSUME chan[p] = ch PROVE WakeupOne(s, p, ch).pstate[p] # "SLEEPING"
  OBVIOUS
<1>1. CASE s.pstate[p] = "SLEEPING"
  <2>1. CheckWakeup(SetState(s, p, "RUNNABLE"), p).pstate
            = [s.pstate EXCEPT ![p] = "RUNNABLE"]
    BY <1>1, WakesUp
  <2>2. WakeupOne(s, p, ch).pstate = [s.pstate EXCEPT ![p] = "RUNNABLE"]
    BY <1>1, <2>1 DEF WakeupOne
  <2> QED BY <2>2 DEF Sound, Good, SchedState
<1>2. CASE s.pstate[p] # "SLEEPING"
  BY <1>2 DEF WakeupOne
<1> QED BY <1>1, <1>2

\* exit() wakes the parent of the process, and the first process if it hands it
\* a child that has exited already.
LEMMA ExitWait ==
    ASSUME IInv, WaitInv, NEW c \in CPU, NEW p \in Proc, Exit(c, p)
    PROVE  WaitInv'
<1> DEFINE s == WakeupOne(sched, parent[p], "wait")
           abandoned == {q \in Proc : parent[q] = p}
           t == IF \E q \in abandoned : s.pstate[q] = "ZOMBIE"
                THEN WakeupOne(s, INITPROC, "wait") ELSE s
           u == SetState(t, p, "ZOMBIE")
<1>1. /\ cpuproc[c] = p /\ exiting[p]
      /\ parent' = [q \in Proc |-> IF q \in abandoned THEN INITPROC ELSE parent[q]]
      /\ UNCHANGED <<chan, killed, child>>
  BY DEF Exit, Runs
<1>2. SwitchOut(c, u)
  BY DEF Exit
<1>3. /\ Sound(sched) /\ sched \in SchedState /\ sched.pstate[p] = "RUNNING"
      /\ sched.state = "LOCKED" => sched.locked_proc = p /\ NCPU = 1
      /\ INITPROC \in Proc
  BY <1>1, OnCPU, MLFQAssumption DEF Proc, INITPROC
<1>4. parent[p] \in Proc /\ p # INITPROC
  BY <1>1, <1>3 DEF IInv, ParentOK
<1>5. /\ Sound(s) /\ KeepsLock(sched, s) /\ Woken(sched, s)
      /\ chan[parent[p]] = "wait" => s.pstate[parent[p]] # "SLEEPING"
  <2>1. Sound(s) /\ KeepsLock(sched, s) /\ Woken(sched, s)
    BY <1>3, <1>4, WakeupOneOK
  <2>2. chan[parent[p]] = "wait" => s.pstate[parent[p]] # "SLEEPING"
    BY <1>3, <1>4, WakeupWakes
  <2> QED BY <2>1, <2>2
<1> HIDE DEF s
<1>6. /\ Sound(t) /\ KeepsLock(s, t) /\ Woken(s, t)
      /\ (\E q \in abandoned : s.pstate[q] = "ZOMBIE") /\ chan[INITPROC] = "wait"
            => t.pstate[INITPROC] # "SLEEPING"
  <2>1. /\ Sound(WakeupOne(s, INITPROC, "wait"))
        /\ KeepsLock(s, WakeupOne(s, INITPROC, "wait"))
        /\ Woken(s, WakeupOne(s, INITPROC, "wait"))
    BY <1>3, <1>5, WakeupOneOK
  <2>2. chan[INITPROC] = "wait" =>
             WakeupOne(s, INITPROC, "wait").pstate[INITPROC] # "SLEEPING"
    BY <1>3, <1>5, WakeupWakes
  <2>3. KeepsLock(s, s) /\ Woken(s, s)
    BY DEF KeepsLock, Woken
  <2> QED BY <1>5, <2>1, <2>2, <2>3
<1> HIDE DEF t
<1>7. t.pstate[p] = "RUNNING" /\ t \in SchedState
  BY <1>3, <1>5, <1>6 DEF Woken, Sound, Good
<1>8. t.state = "LOCKED" => t.locked_proc = p /\ NCPU = 1
  BY <1>3, <1>5, <1>6 DEF KeepsLock
<1>9. /\ Switchable(u, p) /\ (u.state = "LOCKED" => NCPU = 1)
      /\ u.pstate = [t.pstate EXCEPT ![p] = "ZOMBIE"]
  BY <1>6, <1>7, <1>8, LeavesOK DEF KeepsLock
<1> HIDE DEF u
<1>10. /\ u.pstate[p] = "ZOMBIE" /\ \A q \in Proc \ {p} : u.pstate[q] = t.pstate[q]
       /\ \A q \in Proc \ {p} : \/ u.pstate[q] = sched.pstate[q]
                                \/ /\ sched.pstate[q] = "SLEEPING"
                                   /\ u.pstate[q] = "RUNNABLE"
  <2>1. u.pstate[p] = "ZOMBIE" /\ \A q \in Proc \ {p} : u.pstate[q] = t.pstate[q]
    BY <1>7, <1>9 DEF SchedState
  <2>2. \A q \in Proc : \/ t.pstate[q] = sched.pstate[q]
                        \/ sched.pstate[q] = "SLEEPING" /\ t.pstate[q] = "RUNNABLE"
    BY <1>5, <1>6 DEF Woken
  <2> QED BY <2>1, <2>2
<1>11. sched'.pstate = u.pstate
  BY <1>1, <1>2, <1>9, <1>10, SwitchOutOK
<1> HIDE DEF abandoned
<1>12. \A q \in Proc : q \in abandoned <=> parent[q] = p
  BY DEF abandoned
<1>13. ASSUME NEW q \in Proc, sched'.pstate[q] = "SLEEPING", chan'[q] = "wait"
       PROVE  Zombies(q)' = {} /\ ~ killed'[q]
  <2>1. q # p /\ sched.pstate[q] = "SLEEPING" /\ t.pstate[q] = "SLEEPING"
        /\ s.pstate[q] = "SLEEPING" /\ chan[q] = "wait"
    BY <1>1, <1>5, <1>6, <1>10, <1>11, <1>13 DEF Woken
  <2>2. Zombies(q) = {} /\ ~ killed[q]
    BY <2>1 DEF WaitInv, NoExitIsMissed
  <2>3. q # parent[p]
    BY <1>5, <2>1
  <2>4. ASSUME NEW z \in Zombies(q)'
        PROVE  FALSE
    <3>1. z \in Proc /\ parent'[z] = q /\ sched'.pstate[z] = "ZOMBIE"
      BY DEF Zombies, Children
    <3>2. CASE z = p
      <4>1. p \notin abandoned
        BY <1>12 DEF WaitInv, ParentsOK
      <4> QED BY <1>1, <2>3, <3>1, <3>2, <4>1
    <3>3. CASE z # p /\ z \in abandoned
      <4>1. q = INITPROC /\ u.pstate[z] = "ZOMBIE"
        BY <1>1, <1>11, <3>1, <3>3
      <4>2. s.pstate[z] = "ZOMBIE"
        BY <1>5, <1>6, <1>10, <3>1, <3>3, <4>1 DEF Woken
      <4> QED BY <1>6, <2>1, <3>3, <4>1, <4>2
    <3>4. CASE z # p /\ z \notin abandoned
      <4>1. parent[z] = q /\ sched.pstate[z] = "ZOMBIE"
        BY <1>1, <1>10, <1>11, <3>1, <3>4
      <4> QED BY <2>2, <3>1, <4>1 DEF Zombies, Children
    <3> QED BY <3>2, <3>3, <3>4
  <2> QED BY <1>1, <2>2, <2>4
<1>14. NoExitIsMissed'
  BY <1>13 DEF NoExitIsMissed
<1>15. ParentsOK'
  <2>1. /\ parent'[INITPROC] = NULL /\ NULL # INITPROC /\ INITPROC \notin abandoned
    BY <1>1, <1>3, <1>12 DEF WaitInv, ParentsOK, Proc, NULL
  <2>2. sched'.pstate[INITPROC] \in Live
    BY <1>3, <1>4, <1>10, <1>11 DEF WaitInv, ParentsOK, Live
  <2>3. \A q \in Proc : parent'[q] # q
    BY <1>1, <2>1 DEF WaitInv, ParentsOK
  <2> QED BY <2>1, <2>2, <2>3 DEF ParentsOK
<1> QED BY <1>14, <1>15 DEF WaitInv

-----------------------------------------------------------------------------
LEMMA InitWait == Init => WaitInv
<1> SUFFICES ASSUME Init PROVE WaitInv
  OBVIOUS
<1>1. sched.pstate = [p \in Proc |-> IF p = INITPROC THEN "RUNNABLE" ELSE "UNUSED"]
  BY InitOK
<1>2. INITPROC \in Proc /\ \A q \in Proc : q # NULL
  BY MLFQAssumption DEF Proc, INITPROC, NULL
<1>3. parent = [p \in Proc |-> NULL]
  BY DEF Init
<1>4. NoExitIsMissed
  BY <1>1 DEF NoExitIsMissed
<1>5. ParentsOK
  BY <1>1, <1>2, <1>3 DEF ParentsOK, Live
<1> QED BY <1>4, <1>5 DEF WaitInv

LEMMA StepWait ==
    ASSUME Lockers = {} \/ NCPU = 1, IInv, WaitInv, [Next]_vars
    PROVE  WaitInv'
<1>0. LifeStep
  BY StepOK
<1>a. 0 \in CPU /\ INITPROC \in Proc
  BY SchedulerAssumption, MLFQAssumption DEF CPU, Proc, INITPROC
<1>1. CASE \E c \in CPU : Select(c) \/ SelectNothing(c) \/ DevWakeup(c)
  BY <1>0, <1>a, <1>1, KeptWait
<1>2. CASE WakeupScan \/ TimerTick \/ TickWakeup
  BY <1>0, <1>a, <1>2, KeptWait
<1>3. ASSUME NEW c \in CPU, NEW p \in Proc, CPUStep(c, p)
      PROVE  WaitInv'
  <2>1. CASE \/ AllocProc(c, p) \/ ForkFails(c, p) \/ StartExit(c, p) \/ WaitFails(c, p)
             \/ \E q \in Proc, v \in Priorities : SetPriority(c, p, q, v)
             \/ LockMisuse(c, p)
    BY <1>0, <2>1, KeptWait
  <2>2. CASE ForkDone(c, p)
    BY <1>0, <2>2, ForkWait
  <2>3. CASE Exit(c, p)
    BY <2>3, ExitWait
  <2>4. CASE WaitReaps(c, p)
    BY <1>0, <2>4, ReapWait
  <2>5. CASE WaitSleeps(c, p) \/ \E ch \in {"ticks", "dev"} : Sleep(c, p, ch)
    BY <2>5, SleepWait
  <2>6. CASE \E q \in Proc : Kill(c, p, q)
    BY <1>0, <2>6, KillWait
  <2>7. CASE YieldCall(c, p) \/ TimerYield(c, p) \/ LockCall(c, p) \/ UnlockCall(c, p)
    BY <2>7, YieldWait
  <2> QED BY <1>3, <2>1, <2>2, <2>3, <2>4, <2>5, <2>6, <2>7 DEF CPUStep
<1>4. CASE UNCHANGED vars
  BY <1>4 DEF WaitInv, NoExitIsMissed, ParentsOK, Zombies, Children, vars
<1> QED BY <1>1, <1>2, <1>3, <1>4 DEF Next

\* No parent sleeps in wait() on a child that has exited: not when the child
\* exits between the parent's look and its sleep, nor when it was handed over by
\* another process's exit, on any number of CPUs.
THEOREM ExitsAreSeen == ASSUME Lockers = {} \/ NCPU = 1 PROVE Spec => []NoExitIsMissed
<1>1. Init => WaitInv
  BY InitWait
<1>2. WaitInv /\ IInv /\ [Next]_vars => WaitInv'
  BY StepWait
<1>3. WaitInv => NoExitIsMissed
  BY DEF WaitInv
<1> QED BY <1>1, <1>2, <1>3, Invariance, PTL DEF Spec
=============================================================================
