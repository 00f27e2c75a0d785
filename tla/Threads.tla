------------------------------- MODULE Threads -------------------------------
(***************************************************************************)
(* Processes with threads in Project2 (proc.c, exec.c).  A thread is a slot *)
(* of the process table whose main_ptr is the slot of its main thread; what *)
(* the threads share (pid, size, memory limit, thread table) lives there.  *)
(*                                                                         *)
(* One CPU, as bootxv6.sh starts.  The timer may preempt the kernel         *)
(* wherever ptable.lock is not held, so a step is one critical section, or  *)
(* the unlocked code between two; RUNNABLE stands for RUNNING too, which no *)
(* test in this code tells apart, and any RUNNABLE slot may take the next   *)
(* step.  Memory is counted in pages, and thread_exit returns the thread's  *)
(* own id.                                                                 *)
(***************************************************************************)
EXTENDS Naturals, FiniteSets

CONSTANTS NPROC,
          Programs,    \* each with the calls that its main thread and its other
                       \* threads make, and the number of threads it makes, plus 1
          Targets,     \* pids given to kill and setmemorylimit
          Limits,      \* limits given to setmemorylimit
          ImageSize,   \* pages of a program that exec() has loaded
          MaxSize,     \* bound on the pages of a process
          MaxPid,      \* bound on nextpid
          MaxThreads   \* bound on that number

Slot     == 1 .. NPROC
Node     == 1 .. NPROC
NULL     == 0
INITPROC == 1
FIRST    == 2          \* the process that init has forked

ASSUME ThreadsAssumption ==
    /\ NPROC \in Nat /\ NPROC >= FIRST
    /\ ImageSize \in Nat \ {0} /\ MaxSize \in Nat /\ MaxPid \in Nat
    /\ \A p \in Programs : p.threads \in 0 .. MaxThreads
    /\ MaxThreads \in Nat /\ Targets \subseteq Nat /\ Limits \subseteq Nat

VARIABLES
    proc,      \* ptable.proc
    nextpid,
    at,        \* where a slot is in the kernel, with its local variables
    panic,
    got,       \* what the main thread of FIRST got from thread_join
    program    \* the program that all processes but init run

vars == <<proc, nextpid, at, panic, got, program>>

FreeNode == [state |-> "T_UNUSED", thread |-> NULL, ustack |-> 0, retval |-> 0]
NoTable  == [n \in Node |-> FreeNode]
NoChan   == <<"none">>

FreeSlot ==
    [state |-> "UNUSED", chan |-> NoChan, kstack |-> FALSE, pid |-> 0,
     parent |-> NULL, killed |-> FALSE, is_main |-> FALSE, main_ptr |-> NULL,
     thread_id |-> 0, sz |-> 0, memory_limit |-> 0, thread_num |-> 0,
     main_stack |-> 0, table |-> NoTable]

\* The locals: the main thread, a node and a slot the call works on, and its
\* size, limit or thread id.
User == [pc |-> "user", main |-> NULL, node |-> 0, other |-> NULL, arg |-> 0,
         fresh |-> FALSE]

MainSlot(s, pid, parent) ==
    [FreeSlot EXCEPT !.state = "RUNNABLE", !.kstack = TRUE, !.pid = pid,
                     !.parent = parent, !.is_main = TRUE, !.main_ptr = s,
                     !.sz = ImageSize, !.thread_num = 1, !.main_stack = ImageSize]

\* init waits for its first child.
Init ==
    /\ proc = [s \in Slot |->
                 CASE s = INITPROC -> [MainSlot(s, 1, NULL) EXCEPT
                                         !.state = "SLEEPING", !.chan = <<"wait", s>>]
                   [] s = FIRST    -> MainSlot(s, 2, INITPROC)
                   [] OTHER        -> FreeSlot]
    /\ nextpid = 3
    /\ at = [s \in Slot |-> IF s = INITPROC
                            THEN [User EXCEPT !.pc = "wait", !.main = s] ELSE User]
    /\ panic = FALSE
    /\ got = {}
    /\ program \in Programs

-----------------------------------------------------------------------------
(* What the calls share. *)

\* get_main_thread
Main(s) == IF proc[s].is_main THEN s ELSE proc[s].main_ptr

At(s, pc) == ~ panic /\ proc[s].state = "RUNNABLE" /\ at[s].pc = pc

\* A program makes a call.  (One that was killed between the test of killed at
\* the system call's entry and the call itself still makes it.)
Calls(s, call) ==
    /\ At(s, "user")
    /\ IF s = INITPROC THEN call = "wait"
       ELSE <<IF proc[s].is_main THEN "main" ELSE "thread", call>> \in program.calls

\* A careful program makes some calls only when all its threads are made.
CallsLate(s, call) == Calls(s, call) /\ proc[Main(s)].thread_num = program.threads

First(S) == CHOOSE x \in S : \A y \in S : x <= y

Unused == {s \in Slot : proc[s].state = "UNUSED"}

Rouse(p, S) ==
    [s \in Slot |-> IF s \in S /\ p[s].state = "SLEEPING"
                    THEN [p[s] EXCEPT !.state = "RUNNABLE", !.chan = NoChan]
                    ELSE p[s]]

Wakeup1(p, ch) == Rouse(p, {s \in Slot : p[s].chan = ch})

\* init_thread_data: the slot is free, its kernel stack and with it whatever it
\* was doing are gone.
InitThreadData(p, S) ==
    [s \in Slot |->
       IF s \in S
       THEN [p[s] EXCEPT !.state = "UNUSED", !.chan = NoChan, !.kstack = FALSE,
                         !.pid = 0, !.parent = NULL, !.killed = FALSE,
                         !.is_main = FALSE, !.main_ptr = NULL, !.thread_id = 0,
                         !.main_stack = 0]
       ELSE p[s]]

\* The slots of S end and s goes on at pc; kfree panics on a missing stack.
Destroy(S, s, next) ==
    /\ panic' = \E t \in S : ~ proc[t].kstack
    /\ at' = [t \in Slot |-> IF t = s THEN next ELSE IF t \in S THEN User ELSE at[t]]

\* Mutant: the ended ones are forgotten.
HeldRunning(m) == {proc[m].table[n].thread :
                     n \in {k \in Node : proc[m].table[k].state = "T_USING"}}

\* The threads that m's table holds as running or ended.
Held(m) == {proc[m].table[n].thread :
              n \in {k \in Node : proc[m].table[k].state \in {"T_USING", "T_ZOMBIE"}}}

\* Mutant: the pages that are added are not counted.
LimitReached(m, pages) == proc[m].memory_limit = 0 \/ proc[m].sz <= proc[m].memory_limit

\* There is no limit, or m may have that many more pages.
WithinLimit(m, pages) ==
    proc[m].memory_limit = 0 \/ proc[m].sz + pages <= proc[m].memory_limit

\* allocproc, up to the first release of ptable.lock.  At the bound on pids there
\* is no slot either.
CanAlloc == Unused # {} /\ nextpid < MaxPid

AllocProc(s, local) ==
    /\ CanAlloc
    /\ LET np == First(Unused)
       IN  /\ proc' = [proc EXCEPT ![np].state = "EMBRYO", ![np].pid = nextpid]
           /\ at' = [at EXCEPT ![s] = [local EXCEPT !.other = np]]
    /\ nextpid' = nextpid + 1
    /\ UNCHANGED <<panic, got, program>>

-----------------------------------------------------------------------------
(* thread_create *)

\* A node of the table is reserved, before there is a slot.
CreateReserve(s) ==
    /\ Calls(s, "create")
    /\ LET m == Main(s)
           free == {n \in Node : proc[m].table[n].state \in {"T_UNUSED", "T_ALLOCATED"}}
           n == First(free)
       IN  /\ free # {}
           /\ WithinLimit(m, 2)
           /\ proc[m].thread_num < program.threads
           /\ proc' = [proc EXCEPT ![m].table[n].state = "T_ALLOCATED"]
           /\ at' = [at EXCEPT ![s] =
                       [User EXCEPT !.pc = "create", !.main = m, !.node = n,
                                    !.arg = proc[m].sz,
                                    !.fresh = proc[m].table[n].state = "T_UNUSED"]]
    /\ UNCHANGED <<nextpid, panic, got, program>>

CreateAlloc(s) ==
    /\ At(s, "create")
    /\ AllocProc(s, [at[s] EXCEPT !.pc = "create_pid"])

\* The pid is given back, not necessarily by the one who took the last.
CreatePid(s) ==
    /\ At(s, "create_pid")
    /\ LET l == at[s]
       IN  proc' = [proc EXCEPT ![l.other].kstack = TRUE, ![l.other].table = NoTable,
                                ![l.other].pid = proc[l.main].pid]
    /\ nextpid' = nextpid - 1
    /\ at' = [at EXCEPT ![s].pc = "create_end"]
    /\ UNCHANGED <<panic, got, program>>

\* allocproc finds no slot, or no memory for the stack.
CreateAllocFails(s) ==
    /\ \/ At(s, "create") /\ ~ CanAlloc /\ proc' = [proc EXCEPT
             ![at[s].main].table[at[s].node].state = "T_UNUSED"]
       \/ At(s, "create_pid") /\ proc' = [proc EXCEPT
             ![at[s].main].table[at[s].node].state = "T_UNUSED",
             ![at[s].other].state = "UNUSED"]
    /\ at' = [at EXCEPT ![s] = User]
    /\ UNCHANGED <<nextpid, panic, got, program>>

\* The stack is new, at the size read at the beginning, or the node's old one.
\* If pages were added since the size was read, mappages panics.
CreateEnd(s) ==
    /\ At(s, "create_end")
    /\ LET l == at[s]
           node == proc[l.main].table[l.node]
           top == IF l.fresh THEN l.arg + 2 ELSE node.ustack
       IN  /\ IF l.fresh THEN top <= MaxSize ELSE top # 0
           /\ panic' = (l.fresh /\ proc[l.main].sz > l.arg)
           /\ proc' = [proc EXCEPT
                ![l.main].sz = IF l.fresh THEN top ELSE @,
                ![l.main].thread_num = @ + 1,
                ![l.main].table[l.node] = [node EXCEPT !.state = "T_USING",
                                             !.thread = l.other, !.ustack = top],
                ![l.other].state = "RUNNABLE", ![l.other].is_main = FALSE,
                ![l.other].main_ptr = l.main,
                ![l.other].thread_id = proc[l.main].thread_num]
    /\ at' = [at EXCEPT ![s] = User]
    /\ UNCHANGED <<nextpid, got, program>>

\* No memory for the stack, or an old stack that was never allocated.
CreateBad(s) ==
    /\ At(s, "create_end")
    /\ LET l == at[s]
           node == proc[l.main].table[l.node]
       IN  /\ ~ l.fresh => node.ustack = 0
           /\ proc' = [proc EXCEPT
                ![l.main].table[l.node].state = IF l.fresh THEN "T_UNUSED" ELSE @,
                ![l.other].kstack = FALSE, ![l.other].state = "UNUSED"]
    /\ at' = [at EXCEPT ![s] = User]
    /\ UNCHANGED <<nextpid, panic, got, program>>

-----------------------------------------------------------------------------
(* thread_exit and thread_join *)

\* Mutant: those who wait for the thread are not woken.
ThreadExitUnheard(s) ==
    /\ Calls(s, "thread_exit") /\ ~ proc[s].is_main
    /\ \E n \in Node :
         /\ proc[proc[s].main_ptr].table[n].thread = s
         /\ proc' = [proc EXCEPT ![proc[s].main_ptr].table[n].state = "T_ZOMBIE",
                                 ![proc[s].main_ptr].table[n].retval = proc[s].thread_id,
                                 ![s].state = "ZOMBIE"]
    /\ UNCHANGED <<nextpid, at, panic, got, program>>

ThreadExit(s) ==
    /\ Calls(s, "thread_exit") /\ ~ proc[s].is_main
    /\ LET m == proc[s].main_ptr
           mine == {n \in Node : proc[m].table[n].thread = s}
           n == First(mine)
       IN  /\ panic' = (mine = {})
           /\ proc' = IF mine = {} THEN proc
                      ELSE [Wakeup1(proc, <<"join", m, n>>) EXCEPT
                              ![m].table[n].retval = proc[s].thread_id,
                              ![m].table[n].state = "T_ZOMBIE",
                              ![s].state = "ZOMBIE"]
    /\ UNCHANGED <<nextpid, at, got, program>>

\* Mutant: the node goes on naming the freed slot.
JoinedStill(s, m, n, thread, tid) ==
    /\ proc' = InitThreadData(proc, {thread})
    /\ got' = IF s = FIRST THEN got \cup {<<tid, proc[m].table[n].retval>>} ELSE got
    /\ Destroy({thread}, s, User)

\* Mutant: the value is read when it has been cleared.
JoinedTooLate(s, m, n, thread, tid) ==
    /\ proc' = [InitThreadData(proc, {thread}) EXCEPT ![m].table[n] =
                  [@ EXCEPT !.retval = 0, !.state = "T_ALLOCATED", !.thread = NULL]]
    /\ got' = IF s = FIRST THEN got \cup {<<tid, 0>>} ELSE got
    /\ Destroy({thread}, s, User)

\* The end of a join: the thread's slot is free, its node and stack stay.
Joined(s, m, n, thread, tid) ==
    /\ proc' = [InitThreadData(proc, {thread}) EXCEPT
                  ![m].table[n].retval = 0,
                  ![m].table[n].state = "T_ALLOCATED",
                  ![m].table[n].thread = NULL]
    /\ got' = IF s = FIRST THEN got \cup {<<tid, proc[m].table[n].retval>>} ELSE got
    /\ Destroy({thread}, s, User)

Join(s, tid) ==
    /\ Calls(s, "join")
    /\ LET m == Main(s)
           found == {n \in Node :
                       /\ proc[m].table[n].state \in {"T_USING", "T_ZOMBIE"}
                       /\ proc[proc[m].table[n].thread].thread_id = tid}
           n == First(found)
       IN  /\ found # {}
           /\ \/ /\ proc[m].table[n].state = "T_USING"
                 /\ proc' = [proc EXCEPT ![s].state = "SLEEPING",
                                         ![s].chan = <<"join", m, n>>]
                 /\ at' = [at EXCEPT ![s] =
                             [User EXCEPT !.pc = "join", !.main = m, !.node = n,
                                !.other = proc[m].table[n].thread, !.arg = tid]]
                 /\ UNCHANGED <<panic, got>>
              \/ /\ proc[m].table[n].state = "T_ZOMBIE"
                 /\ Joined(s, m, n, proc[m].table[n].thread, tid)
    /\ UNCHANGED <<nextpid, program>>

\* The joiner does not look why it was woken.
JoinEnd(s) ==
    /\ At(s, "join")
    /\ LET l == at[s]
       IN  IF proc[l.main].table[l.node].state = "T_ZOMBIE"
           THEN Joined(s, l.main, l.node, l.other, l.arg)
           ELSE panic' = TRUE /\ UNCHANGED <<proc, at, got>>
    /\ UNCHANGED <<nextpid, program>>

-----------------------------------------------------------------------------
(* fork *)

Fork(s) ==
    /\ Calls(s, "fork") \/ CallsLate(s, "fork late")
    /\ AllocProc(s, [User EXCEPT !.pc = "fork", !.main = Main(s)])

\* The child is filled in without the lock, if there is memory.
ForkFill(s) ==
    /\ At(s, "fork")
    /\ LET l == at[s]
       IN  \/ /\ proc' = [proc EXCEPT ![l.other].kstack = TRUE,
                                      ![l.other].table = NoTable,
                                      ![l.other].sz = proc[l.main].sz,
                                      ![l.other].parent = l.main]
              /\ at' = [at EXCEPT ![s].pc = "fork_end"]
           \/ /\ proc' = [proc EXCEPT ![l.other].state = "UNUSED"]
              /\ at' = [at EXCEPT ![s] = User]
    /\ UNCHANGED <<nextpid, panic, got, program>>

\* Mutant: the caller's stack stays in the table.
CopiedPlainly(s, node) ==
    IF node.state = "T_UNUSED" THEN FreeNode
    ELSE [FreeNode EXCEPT !.state = "T_ALLOCATED", !.ustack = node.ustack]

\* A node of the child: the stacks of the other threads are kept for threads to
\* come; that of the caller is the child's main stack, and the old main stack
\* takes its place.
Copied(s, node) ==
    CASE node.state = "T_UNUSED" -> FreeNode
      [] node.state # "T_UNUSED" /\ node.thread = s ->
           [FreeNode EXCEPT !.state = "T_ALLOCATED", !.ustack = proc[Main(s)].main_stack]
      [] OTHER -> [FreeNode EXCEPT !.state = "T_ALLOCATED", !.ustack = node.ustack]

ForkEnd(s) ==
    /\ At(s, "fork_end")
    /\ LET m == at[s].main
           np == at[s].other
           own == {n \in Node : proc[m].table[n].state # "T_UNUSED"
                                /\ proc[m].table[n].thread = s}
       IN  proc' = [proc EXCEPT
             ![np].state = "RUNNABLE", ![np].memory_limit = proc[m].memory_limit,
             ![np].table = [n \in Node |-> Copied(s, proc[m].table[n])],
             ![np].main_stack = IF m = s THEN proc[m].main_stack
                                ELSE IF own = {} THEN @
                                ELSE proc[m].table[First(own)].ustack,
             ![np].thread_num = 1, ![np].thread_id = 0,
             ![np].is_main = TRUE, ![np].main_ptr = np]
    /\ at' = [at EXCEPT ![s] = User]
    /\ UNCHANGED <<nextpid, panic, got, program>>

-----------------------------------------------------------------------------
(* exit, wait and kill *)

\* Mutant: the main thread is not woken.
LeaveToMain(s, m) ==
    /\ proc' = [proc EXCEPT ![m].killed = TRUE,
                            ![s].state = "SLEEPING", ![s].chan = <<"exit", s>>]
    /\ at' = [at EXCEPT ![s] = [User EXCEPT !.pc = "exit_woken", !.main = m]]
    /\ panic' = FALSE

\* A thread in exit() wakes the main thread to let it exit, and waits for its
\* own end.
AskMain(s, m) ==
    /\ proc' = [Rouse(proc, {m}) EXCEPT ![m].killed = TRUE,
                  ![s].state = "SLEEPING", ![s].chan = <<"exit", s>>]
    /\ at' = [at EXCEPT ![s] = [User EXCEPT !.pc = "exit_woken", !.main = m]]
    /\ panic' = FALSE

\* exit(), by a call or because the process was killed.  The main thread ends
\* all threads and goes on to close its files.
Exit(s) ==
    /\ \/ Calls(s, "exit")
       \/ At(s, "user") /\ proc[s].killed
    /\ LET m == Main(s)
       IN  /\ m # INITPROC
           /\ \/ s # m /\ AskMain(s, m)
              \/ /\ s = m
                 /\ proc' = InitThreadData(proc, Held(m))
                 /\ Destroy(Held(m), s, [User EXCEPT !.pc = "exit", !.main = m])
    /\ UNCHANGED <<nextpid, got, program>>

\* Mutant: those that have ended are forgotten.
AbandonedAlive(s) == {c \in Slot : proc[c].parent = s /\ proc[c].state # "ZOMBIE"}

\* The processes whose parent is s.
Abandoned(s) == {c \in Slot : proc[c].parent = s /\ \E q \in Slot : Main(q) = c}

\* A thread that is woken from that wait frees the stack it runs on, and then
\* uses its own empty file table, and panics.
ExitEnd(s) ==
    /\ ~ panic /\ proc[s].state = "RUNNABLE" /\ at[s].pc \in {"exit", "exit_woken"}
    /\ panic' = (at[s].pc = "exit_woken")
    /\ LET p == Wakeup1(proc, <<"wait", proc[s].parent>>)
           q == IF \E c \in Abandoned(s) : p[c].state = "ZOMBIE"
                THEN Wakeup1(p, <<"wait", INITPROC>>) ELSE p
       IN  proc' = [c \in Slot |->
                      IF c = s THEN [q[c] EXCEPT !.state = "ZOMBIE"]
                      ELSE IF c \in Abandoned(s) THEN [q[c] EXCEPT !.parent = INITPROC]
                      ELSE q[c]]
    /\ at' = [at EXCEPT ![s] = User]
    /\ UNCHANGED <<nextpid, got, program>>

Children(m) == {c \in Slot : proc[c].is_main /\ proc[c].parent = m}
Zombies(m)  == {c \in Children(m) : proc[c].state = "ZOMBIE"}

\* s looks for children of m, first or after a sleep.
InWait(s, m) == m = (IF at[s].pc = "wait" THEN at[s].main ELSE Main(s))
                /\ (Calls(s, "wait") \/ At(s, "wait"))

WaitReaps(s, m) ==
    /\ InWait(s, m)
    /\ Zombies(m) # {}
    /\ LET z == First(Zombies(m))
       IN  proc' = [proc EXCEPT ![z].kstack = FALSE, ![z].pid = 0, ![z].parent = NULL,
                                ![z].killed = FALSE, ![z].state = "UNUSED"]
    /\ at' = [at EXCEPT ![s] = User]
    /\ UNCHANGED <<nextpid, panic, got, program>>

WaitFails(s, m) ==
    /\ InWait(s, m)
    /\ Zombies(m) = {}
    /\ Children(m) = {} \/ proc[s].killed \/ proc[m].killed
    /\ at' = [at EXCEPT ![s] = User]
    /\ UNCHANGED <<proc, nextpid, panic, got, program>>

WaitSleeps(s, m) ==
    /\ InWait(s, m)
    /\ Zombies(m) = {} /\ Children(m) # {} /\ ~ proc[s].killed /\ ~ proc[m].killed
    /\ proc' = [proc EXCEPT ![s].state = "SLEEPING", ![s].chan = <<"wait", m>>]
    /\ at' = [at EXCEPT ![s] = [User EXCEPT !.pc = "wait", !.main = m]]
    /\ UNCHANGED <<nextpid, panic, got, program>>

\* kill() finds the first slot of a main thread with that pid, in any state,
\* and kills its threads too.  It may be asked again, or only once, for a
\* process.
Kill(s, pid) ==
    /\ Calls(s, "kill")
    /\ LET named == {q \in Slot : proc[q].is_main /\ proc[q].pid = pid}
           m == First(named)
           hit == {proc[m].table[n].thread :
                     n \in {k \in Node : proc[m].table[k].state = "T_USING"}} \cup {m}
           p == Rouse(proc, hit)
       IN  /\ named # {}
           /\ proc[m].killed => Calls(s, "kill again")
           /\ proc' = [q \in Slot |-> IF q \in hit THEN [p[q] EXCEPT !.killed = TRUE]
                                                   ELSE p[q]]
    /\ UNCHANGED <<nextpid, at, panic, got, program>>

-----------------------------------------------------------------------------
(* exec, exec2: the caller becomes the only thread, and the main thread. *)

\* kill_other_threads; the thread table is left as it is.
Exec(s) ==
    /\ Calls(s, "exec") \/ CallsLate(s, "exec late")
    /\ LET others == Held(Main(s)) \ {s}
       IN  /\ proc' = InitThreadData(proc, others)
           /\ Destroy(others, s, [User EXCEPT
                !.pc = IF proc[s].is_main THEN "exec" ELSE "exec_main"])
    /\ UNCHANGED <<nextpid, got, program>>

\* change_main_to_curthread
ExecChangeMain(s) ==
    /\ At(s, "exec_main")
    /\ LET m == proc[s].main_ptr
           adopted == {c \in Slot : /\ proc[c].state \in {"RUNNABLE", "SLEEPING"}
                                    /\ proc[c].is_main /\ proc[c].parent = m}
           p == [c \in Slot |->
                   IF c = s
                   THEN [proc[s] EXCEPT
                          !.sz = proc[m].sz, !.pid = proc[m].pid,
                          !.parent = proc[m].parent, !.killed = proc[m].killed,
                          !.main_stack = proc[m].main_stack, !.memory_limit = 0,
                          !.thread_num = 0, !.table = NoTable,
                          !.is_main = TRUE, !.main_ptr = s, !.thread_id = 0]
                   ELSE IF c \in adopted THEN [proc[c] EXCEPT !.parent = s]
                   ELSE proc[c]]
       IN  /\ proc' = InitThreadData(p, {m})
           /\ Destroy({m}, s, [at[s] EXCEPT !.pc = "exec"])
    /\ UNCHANGED <<nextpid, got, program>>

\* The new image replaces the old one, or it cannot be loaded.
ExecEnd(s) ==
    /\ At(s, "exec")
    /\ proc' \in {proc, [proc EXCEPT ![s].sz = ImageSize, ![s].main_stack = ImageSize,
                                     ![s].memory_limit = 0]}
    /\ at' = [at EXCEPT ![s] = User]
    /\ UNCHANGED <<nextpid, panic, got, program>>

-----------------------------------------------------------------------------
(* sleep, sbrk, setmemorylimit *)

Sleep(s) ==
    /\ Calls(s, "sleep")
    /\ proc' = [proc EXCEPT ![s].state = "SLEEPING", ![s].chan = <<"dev">>]
    /\ UNCHANGED <<nextpid, at, panic, got, program>>

Wakeup ==
    /\ ~ panic
    /\ proc' = Wakeup1(proc, <<"dev">>) /\ proc' # proc
    /\ UNCHANGED <<nextpid, at, panic, got, program>>

\* growproc by one page
Grow(s) ==
    /\ Calls(s, "sbrk")
    /\ LET m == Main(s)
       IN  /\ WithinLimit(m, 1)
           /\ proc[m].sz < MaxSize
           /\ proc' = [proc EXCEPT ![m].sz = @ + 1]
    /\ UNCHANGED <<nextpid, at, panic, got, program>>

\* setmemorylimit takes no lock: what it has checked may change before it writes.
SetLimitCheck(s, pid, limit) ==
    /\ Calls(s, "setmemorylimit")
    /\ LET named == {q \in Slot : proc[q].is_main /\ proc[q].pid = pid}
           p == First(named)
       IN  /\ named # {}
           /\ proc[p].state \in {"SLEEPING", "RUNNABLE"} /\ ~ proc[p].killed
           /\ limit = 0 \/ (limit >= proc[p].memory_limit /\ limit >= proc[p].sz)
           /\ at' = [at EXCEPT ![s] = [User EXCEPT !.pc = "setlimit", !.other = p,
                                                   !.arg = limit]]
    /\ UNCHANGED <<proc, nextpid, panic, got, program>>

SetLimitWrite(s) ==
    /\ At(s, "setlimit")
    /\ proc' = [proc EXCEPT ![at[s].other].memory_limit = at[s].arg]
    /\ at' = [at EXCEPT ![s] = User]
    /\ UNCHANGED <<nextpid, panic, got, program>>

-----------------------------------------------------------------------------
\* The steps of s inside the kernel, which need no decision of the program.
KernelStep(s) ==
    \/ CreateAlloc(s) \/ CreatePid(s) \/ CreateAllocFails(s) \/ CreateEnd(s)
    \/ CreateBad(s) \/ JoinEnd(s)
    \/ ForkFill(s) \/ ForkEnd(s)
    \/ ExitEnd(s)
    \/ \E m \in Slot : at[s].pc = "wait"
                       /\ (WaitReaps(s, m) \/ WaitFails(s, m) \/ WaitSleeps(s, m))
    \/ ExecChangeMain(s) \/ ExecEnd(s)
    \/ SetLimitWrite(s)

UserCall(s) ==
    \/ CreateReserve(s) \/ ThreadExit(s) \/ Fork(s) \/ Exit(s) \/ Exec(s)
    \/ \E tid \in 0 .. MaxThreads : Join(s, tid)
    \/ \E m \in Slot : at[s].pc = "user"
                       /\ (WaitReaps(s, m) \/ WaitFails(s, m) \/ WaitSleeps(s, m))
    \/ \E pid \in Targets : Kill(s, pid)
    \/ Sleep(s) \/ Grow(s)
    \/ \E pid \in Targets, limit \in Limits : SetLimitCheck(s, pid, limit)

Next == (\E s \in Slot : KernelStep(s) \/ UserCall(s)) \/ Wakeup

Spec == Init /\ [][Next]_vars
-----------------------------------------------------------------------------
(* The programs *)

\* In the program g, a thread of that role makes one of the calls.
Makes(g, role, calls) == \E c \in calls : <<role, c>> \in g.calls

\* A thread replaces the process by a call of exec().
Replacing(g) == Makes(g, "thread", {"exec late"})

\* The rules under which the tables of the kernel stay sound.  Only the main thread
\* creates and joins threads: thread_create() may give two callers one node.  A
\* main thread with threads does not call exec(), which leaves their nodes in the
\* table.  A thread calls exec() when all threads are made, and then nobody of the
\* process may end it, or sleep in thread_join(), meanwhile.
Orderly(g) ==
    /\ ~ Makes(g, "thread", {"create", "join", "exec"})
    /\ Makes(g, "main", {"exec", "exec late"}) => g.threads <= 1
    /\ Replacing(g) => /\ ~ Makes(g, "main", {"join", "exit", "kill"})
                       /\ ~ Makes(g, "thread", {"exit", "kill"})

AllOrderly == \A g \in Programs : Orderly(g)

-----------------------------------------------------------------------------
Lives(s) == proc[s].state \in {"RUNNABLE", "SLEEPING"}

\* A process that is not being ended, nor its main thread being replaced.
Process(m) ==
    /\ proc[m].is_main /\ Lives(m) /\ at[m].pc # "exit"
    /\ \A s \in Slot : proc[s].main_ptr = m => at[s].pc # "exec_main"

\* No panic: a joiner finds its thread ended (proc.c:961), a thread is in its
\* main thread's table (proc.c:916), kfree gets a page that is in use, stacks
\* are mapped once, and a thread is never woken from its wait inside exit().
NoPanic == ~ panic

\* The table of a process and its threads agree: each node that is in use has
\* a thread of its own, which lives, or has ended if the node says so.
TableIsSound ==
    \A m \in Slot : Process(m) =>
        \A n \in Node : proc[m].table[n].state \in {"T_USING", "T_ZOMBIE"} =>
            LET t == proc[m].table[n].thread
            IN  /\ t # NULL /\ ~ proc[t].is_main /\ proc[t].main_ptr = m
                /\ Lives(t) <=> proc[m].table[n].state = "T_USING"
                /\ \A k \in Node \ {n} : proc[m].table[k].thread # t

\* No thread outlives its process, and none is forgotten by it: its slot and
\* its kernel stack could never be freed.
ThreadsBelong ==
    \A t \in Slot : (Lives(t) \/ proc[t].state = "ZOMBIE") /\ ~ proc[t].is_main =>
        LET m == proc[t].main_ptr
        IN  m # NULL /\ proc[m].is_main /\ Lives(m) /\ t \in Held(m)

\* The threads of a process have stacks of their own, within its memory: the
\* new one, an old one used again, one that fork() has handed over.
StacksAreOwn ==
    \A m \in Slot : Process(m) /\ at[m].pc # "exec" =>
        LET stacks == {n \in Node : proc[m].table[n].ustack # 0}
        IN  /\ \A n \in stacks : proc[m].table[n].ustack <= proc[m].sz
                                 /\ proc[m].table[n].ustack # proc[m].main_stack
            /\ \A n, k \in stacks :
                 proc[m].table[n].ustack = proc[m].table[k].ustack => n = k

\* A process stays within its memory limit.
LimitHolds ==
    \A m \in Slot : Process(m) /\ proc[m].memory_limit # 0 =>
        proc[m].sz <= proc[m].memory_limit

\* Nobody sleeps in thread_join on a thread that has already ended.
NoThreadExitIsMissed ==
    \A s \in Slot : proc[s].state = "SLEEPING" /\ at[s].pc = "join" =>
        LET node == proc[at[s].main].table[at[s].node]
        IN  node.state = "T_USING" /\ node.thread = at[s].other

\* A process has a parent that can wait for it.
ParentCanWait ==
    \A m \in Slot : m # INITPROC /\ proc[m].is_main /\ (Lives(m) \/ proc[m].state = "ZOMBIE")
        => proc[proc[m].parent].is_main /\ Lives(proc[m].parent)

\* Every thread that the first process makes ends and is joined once, with the
\* value it returned, though its slot, node and stack are used again.
Joins == <<"main", "join">> \in program.calls

IdsOf(state) ==
    {proc[proc[FIRST].table[n].thread].thread_id :
       n \in {k \in Node : Joins /\ proc[FIRST].table[k].state = state}}

Promise == INSTANCE ThreadPromise WITH
    Thread <- 1 .. MaxThreads, live <- IdsOf("T_USING"), done <- IdsOf("T_ZOMBIE"),
    joined <- got

ThreadsAreKept == Promise!Spec

-----------------------------------------------------------------------------
\* A CPU runs whatever stays RUNNABLE, the timer interrupt brings a killed
\* process to exit() in the end, and what is slept on comes about.
Fairness ==
    /\ WF_vars(Wakeup)
    /\ \A s \in Slot : WF_vars(KernelStep(s)) /\ SF_vars(proc[s].killed /\ Exit(s))

LiveSpec == Spec /\ Fairness

\* exit(), called by any thread, ends the process and with it the caller.
ExitEndsProcess ==
    \A s \in Slot : at[s].pc = "exit_woken" ~> proc[s].state = "UNUSED"
=============================================================================
