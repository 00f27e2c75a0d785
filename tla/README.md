# Verification of the three xv6 projects

This directory is a verification development for the kernel code of the
repository: three course projects that each change one part of xv6
(`src/Project<n>/xv6-public`).

* Project1 replaces the round-robin scheduler by a multi-level feedback queue
  (MLFQ) with a scheduler lock.
* Project2 adds threads to processes, memory limits and a process manager.
* Project3 makes the write-ahead log a buffered one that is committed by `sync()`
  or when it is full, and adds large files and symbolic links.

Each project is a kernel of its own; nothing is shared between them at run time.
The models therefore fall in groups, and each is composed inside its group. Code
that the projects share is modelled once, from one of them: the log of xv6 from
Project1 (Project2 has the same files), files, pipes, console and shell from
Project3, where they are the same as in
the others or longer.

| Group | Modules | Code |
|---|---|---|
| Project1 | `MLFQ`, `Scheduler`, `Lifecycle`, `MCScheduler` | `proc_mlfq.c`, `proc.c`, `trap.c`, `sysproc.c` |
| Project1, proofs | `ListLemmas`, `Scheduler_proofs` | |
| Project2 | `Threads`, `ThreadPromise`, `MCThreads`, `Threads_proofs` | `proc.c`, `exec.c` |
| Projects 1 and 2, log | `Journal`, `AtomicCalls`, `MCJournal`, `Journal_proofs` | `log.c`, `bio.c`, `ide.c` |
| Project3, log | `Log`, `AtomicStore`, `MCLog`, `Log_proofs` | `bio.c`, `log.c` |
| Project3, files | `Inodes`, `FileCalls`, `MCFileCalls`, `FileCalls_proofs` | `fs.c`, `sysfile.c`, `file.c`, `exec.c` |
| Project3, blocks | `BlockPath`, `BlockMap`, `MCBlockMap`, `BlockPath_proofs` | `fs.c`, `mkfs.c` |
| Project3, shell | `Pipe`, `Shell`, `MCShell`, `Shell_proofs` | `pipe.c`, `console.c`, `file.c`, `proc.c`, `sysfile.c`, `sh.c`, `init.c`, `cat.c`, `wc.c` |

`PROJECT.json` holds the map from definitions to source lines, the runs, the
mutants that each property must catch, the findings, and the list of hazards.

## 1. Inventory

For each component: the state it keeps, its operations, how it meets the others,
what is hard in it, and what makes it correct.

### Project1: scheduler queues (`proc_mlfq.c`)

State: three doubly linked lists, the state of the MLFQ (`IDLE`, `LOCKED`,
`UNLOCK_REQUIRE`), the process that holds the scheduler lock, and in each process
its level, the ticks left of its quantum, its priority and its entry number in
L2. Operations: insert, push and pop, push by priority, select a target, put a
process back, relocate by priority, boost, lock, unlock, and the hooks that
`sched()` and `wakeup1()` call. All run under `ptable.lock`. Hard: one process
can be named by a list, by the lock, by a CPU, or by nothing, and each operation
relies on which; `push_by_priority` panics when two elements are equal;
`tick_left` counts down for two different purposes. Correct when every RUNNABLE
process is in exactly the list its level says or holds the lock, L2 is in
priority order, no panic is reached, and nobody starves.

### Project1: processes and CPUs (`proc.c`, `trap.c`, `sysproc.c`)

State: the process table, `cpu.proc`, `ptable.lock`, `ticks`, `boost_flag`.
Operations: `fork`, `exit`, `wait`, `sleep`, `wakeup1`, `kill`, `yield`, `sched`,
`scheduler`, `growproc`, the timer interrupt, and the system calls `yield`,
`getLevel`, `setPriority`, `schedulerLock` and `schedulerUnlock`. Hard: two CPUs
(`Makefile:234`), interrupts between any two critical sections, the lock that
`scheduler()` hands to the process it resumes, a holder of the scheduler lock
that sleeps, exits, yields, is killed or is boosted. Correct when a process runs
on one CPU, changes its state as the life cycle allows, and no exit or wakeup is
missed.

### Project2: processes with threads (`proc.c`, `exec.c`)

State: the process table, in which a thread is a slot that points to its main
thread's slot; in the main thread the thread table (node state, slot, stack,
return value), size and memory limit; `nextpid`. Operations: `thread_create`,
`thread_exit`, `thread_join`, `fork`, `exit`, `wait`, `kill`, `exec`, `exec2`,
`growproc`, `setmemorylimit`. Hard: each of them is several critical sections
with unlocked code between, any thread may call any of them, `exit` and `exec`
destroy threads wherever they are, slots, nodes and stacks are used again in new
combinations. Correct when the table of each process agrees with its threads, a
thread is joined once with its value, stacks are not shared, limits hold, and
`exit` ends the whole process.

### Project2: `pmanager`

A user program that makes one system call per line it reads. Not modelled; its
calls are inputs of `Threads`.

### Projects 1 and 2: log, buffer cache and disk queue (`log.c`, `bio.c`, `ide.c`)

State: on disk the blocks, the log and its header; in memory the buffers with
`B_VALID`, `B_DIRTY`, reference counts and sleep locks, the log's header,
`outstanding` and `committing`, and the queue of the disk. Operations: `initlog`,
`begin_op`, `end_op`, `log_write`, `commit`, `bread`, `bwrite`, `brelse`, `iderw`,
`ideintr`. Hard: several calls share a commit, dirty buffers must stay in the cache
until they are in the log, every sleep has one place that wakes it, and the machine
may stop between any two steps. Correct when a call is durable whole or not at all,
no commit runs in the middle of a call, the reservation of log space is enough, and
every call ends.

### Project3: buffer cache and log (`bio.c`, `log.c`)

State: on disk the blocks, the log's blocks and its header; in memory the buffers
with their data, `B_DIRTY`, reference counts and sleep locks, and the log's
header, `outstanding` and `committing`. Operations: `bread`, `bwrite`, `brelse`,
`begin_op`, `end_op`, `log_write`, `sync`, recovery. Hard: a crash between any two
writes, and in recovery again; a commit that leaves out the blocks in use and puts
them back; a log as large as the cache; sleep locks held while waiting for a
commit. Correct when a crash leaves each commit whole or absent, nothing written
is forgotten, `sync()` makes all of it durable, and the committer waits in no circle.

### Project3: inodes, directories and calls (`fs.c`, `sysfile.c`, `file.c`)

State: inodes on disk and in the cache with their reference counts and sleep
locks, directories, symbolic links, the file table and descriptors. Operations:
`iget`, `ilock`, `iput`, `namex`, `create`, `link`, `unlink`, `open`, `mkdir`,
`mknod`, `chdir`, `symbolic_link`, `realpath`, `dup`, `close`, and what `exec`,
`fork` and `exit` do to them. Hard: the window between lookup and lock, inodes that
are freed and allocated again while someone refers to them, a dozen early returns
that each give back another set of references, two inode locks at a time. Correct
when references and link counts are exact, no call panics, and no two calls wait for
each other's inodes.

### Project3: block map (`fs.c`)

State: the addresses in an inode, three levels of tables, the bitmap. Operations:
`balloc`, `bfree`, `bmap`, `itrunc`, `readi`, `writei`. Hard: index arithmetic with
an edge between every two levels, and two functions that must agree about it. Correct
when a read returns what was written, and a block is free or has one owner.

### Project3: processes, pipes, console and shell

State: the process table, open files with their counts, pipes with their rings and
two ends, the console's line buffer. Operations: `fork`, `exit`, `wait`, `kill`,
`sleep`, `wakeup`, `pipe`, `read`, `write`, `dup`, `close`, the console interrupt,
and, in user programs, `runcmd` of `sh`, `init`, `cat`, `wc`, `echo` and `kill`.
Hard: a pipe ends only when the last of many descriptors is closed; a process goes
to sleep while others move, close, exit or kill; the ring's counters wrap. Correct
when no byte is lost, no wakeup is missed, ends are closed exactly when nobody holds
them, and the shell always comes back.

### What else there is

Spin locks, the page allocator, page tables, traps, drivers, boot code, `printf`,
`malloc`, the test programs and `mkfs`: section 8 says how far each is modelled.

## 2. Project1: the scheduler

### Modules

`MLFQ` has the queue functions as operators from a scheduler state to the one
they leave, since they run one after the other under `ptable.lock` and each reads
what the one before it wrote. A list is the sequence of its elements, head first;
`delete_from_queue` on an element that is in no list clears both ends, as it does
in C. A panic sets a flag that stops everything.

`Scheduler` has the processes and CPUs. A step is what one CPU does while it holds
`ptable.lock`; where the lock is held over a boundary (the loop of `wakeup1`, the
lock that `scheduler()` hands to a process that slept in `wait()`) the variable
`lock` says who has it. Giving up the CPU is one step, `SwitchOut`: `sched()` with
its lock check and its insertion, then, under the same lock, the boost check at
the end of `scheduler()`'s loop. `fork` is three steps (the slot is filled in
without the lock), `exit` two, the timer interrupt of CPU 0 three (count, wake
the sleepers, yield), since `tickslock` and `ptable.lock` are taken one after the
other.

`Lifecycle` is the abstract specification: states of processes, and CPUs that
dispatch one and let it go. `Scheduler` implements it with `state <- sched.pstate`
and `on <- cpuproc`.

### Abstractions

* Entry numbers of L2 are only compared within L2, so the model starts again at 0
  when no live process is there. The code's counter is never reset; that it may
  overflow is a listed hazard. The model stops at `MaxEnterId`, which is why these
  runs do not check for deadlock.
* `ticks` is kept modulo the boost time, as the code tests `ticks % 100`.
* Devices wake sleepers at any time. `sleep(n)` sleeps on `ticks` and may be woken
  by any tick; the count is not kept.
* `kill` takes a slot instead of a pid, and also hits free slots, as pid 0 does.

### Runs

| Run | Instance | Question |
|---|---|---|
| `sched_lock` | 1 CPU, 2 processes, one uses the lock, boost every 3 ticks | Does the lock have a live holder, exclude the others, lose nobody, and always end? |
| `sched_l2` | 1 CPU, 3 processes, 2 priorities, 3 entry numbers | Does L2 stay sorted, and is every panic out of reach, while priorities change? |
| `sched_starve` | 1 CPU, 3 processes, boost every 2 ticks | Does everybody run again and again? |
| `sched_smp` | 2 CPUs, 3 processes, fork, exit, wait, kill | Are queues, exits and the life cycle in order without the lock? |

Quanta are 1, 1 and 2 ticks: a process sinks at its first or second tick, so each
level, aging in L2, and a boost in the middle of a quantum all come up within a few
steps. Two CPUs and three processes give a running, a queued and a half made or
exiting process at once; in this code no function looks at more than two processes
of a list at a time. `sched_lock` has one holder and one competitor, as the lock
distinguishes only its holder from the rest.

### Fairness

The timer interrupt is latched while interrupts are off, and taken when they come on:
strong fairness. A CPU gets to its `scheduler()` loop between two interrupts, again
and again: strong fairness of selecting. What is done with the lock held, or in the
interrupt handler, is finished: weak fairness. System calls are never forced.
`LockIsReleased` also accepts that the model has come to the bound on entry numbers,
as it stops there; a mutant that renews the lock violates it all the same.

`NobodyStarves` is checked without the scheduler lock. With it, a process that locks
and unlocks in a loop sets `ticks` to 0 each time and no boost ever comes: it is in
the hazard list.

### What is proved

`Scheduler_proofs`, for any number of processes, any quanta, priorities and boost time,
under `Lockers = {} \/ NCPU = 1`: on any number of CPUs when nobody uses the scheduler
lock, and on one CPU with any number of users of it.

| Theorem | Says |
|---|---|
| `TypeCorrect` | every variable keeps its type |
| `NeverPanics` | no panic of the queue code is reached |
| `SoundQueues` | what is queued is RUNNABLE, once, in the list of its level |
| `NothingLost` | what is RUNNABLE is queued |
| `OrderedL2` | the processes of L2 stand in the order of their priorities |
| `ValidQuantum` | who runs or may run has a level and part of its quantum |
| `OneCPU` | a process is on one CPU at most, RUNNING exactly while it is |
| `HolderCanRun` | who holds the scheduler lock runs or may run, and can unlock |
| `LockIsExclusive` | while the scheduler is locked nobody but the holder runs |
| `LifecycleImplemented` | the scheduler implements `Lifecycle` |
| `ExitsAreSeen` | no parent sleeps in `wait` on a child that has exited |

`ExclusiveHolds` says the same as `OneCPU` of the abstract life cycle: whatever keeps to `Lifecycle`
(`LifecycleIsKept`) never runs a process on two CPUs.

The hypothesis is what the code supports: `bootxv6.sh:1` starts one CPU (`-smp 1`), and the lock is
meant for it. With the lock and two CPUs `NothingLost` is false (section 7): a process that runs
elsewhere while the scheduler gets locked is put in no queue when it yields.

None of these properties is inductive. That a popped process is RUNNABLE needs the
soundness of the queues; that an insertion keeps them sound needs that the process
is in no queue yet, hence that RUNNING processes are in none and that the slot
`fork` fills belongs to one parent; that `push_by_priority` does not panic needs that
the entry numbers of all live processes of level L2, asleep and running ones too,
are distinct and below the counter. That an insertion keeps L2 in order needs the
same, as the order is total only between different entry numbers. The invariant
`IInv` is all of it: the types, `Sound(sched)`, the position of processes on CPUs,
`LockedAlone`, `EmbryoOK` and `ParentOK`.

`Good(s, X)` is the invariant of the queue data except for the processes in `X`: a
function that moves a process takes it out (`Good(s, {p})`) and puts it back
(`Fits` says what it must bring along). The holder of the scheduler lock is such a process
for as long as it has the lock: it is in no queue, RUNNABLE or not, and its
quantum and level do not count until `unlock` puts it at the head of L0 with a new quantum. So
`Sound(s)` is `Good(s, Holder(s))` with `LockOK(s)`, which says that `state` and `locked_proc`
belong together and the holder is RUNNABLE or RUNNING. `LockedAlone` says that
a locked scheduler has one CPU and only the holder on it: that is why the `yield`
and the boost of a tick, which give the lock back in the middle of `trap`, do so for the
running process, and why no second process can yield into no queue.

The first part of `Scheduler_proofs` has one lemma for each queue function in these
terms, on lemmas about lists (`ListLemmas`); the second has one for each action, which
also names the step of `Lifecycle` that the action is.

`ExitsAreSeen` adds `ParentsOK` to `IInv`: nobody is its own parent, and the first
process has no parent and never stops. `exit` hands its children to the first process
and wakes it if one of them is a zombie; without `ParentsOK` the one that exits could be
among them, and would become a zombie after the wakeup had been decided.

Only model-checked: the liveness properties (`LockIsReleased`, `NobodyStarves`).

## 3. Project2: threads

### Modules

`Threads` has the processes on one CPU, as `bootxv6.sh` starts it. The timer may
preempt the kernel wherever `ptable.lock` is not held, so a step is a critical
section or the unlocked code between two, and any RUNNABLE slot may go next. `at`
holds where a slot is in the kernel and the locals of its call, which is what
may be stale. `ThreadPromise` is the abstract specification: a thread is created,
ends once, and is joined once, after its end, with what it returned.
`ThreadsAreKept` says that `Threads` implements it for the first process.

### Abstractions

* RUNNABLE stands for RUNNING too. Nothing in this code tells them apart on one CPU.
* Memory is counted in pages, and a stack is its top page; `thread_exit` returns the
  thread's id, so that a value that is mixed up shows.
* Loading an image in `exec` succeeds or fails; `exec2` differs by the number of
  its stack pages. File tables, and the shrinking of memory, are left out.
* Inside `exit` the main thread may be interrupted while it closes its files; its
  sleeps there are not modelled.
* A process that was killed may still make calls before it is brought to `exit()`.

### The programs

The kernel as it is does not stand any program: some combinations of calls panic
it. `MCThreads` therefore names the programs that the processes run, each a set of
calls for the main thread and one for the others, and the run `threads` checks six
of them at once. "fork late" and "exec late" are made only when all threads of the
program exist; only main threads create; `kill` hits a process once. What happens
outside these rules is in the hazard list, each at its line, with the property
that fails: a main thread that creates and calls `exec` keeps nodes that name freed
slots (`NoPanic`), two threads that create at once take one node (`TableIsSound`), `sbrk`
by a thread during `thread_create` remaps (`NoPanic`), a fork in the middle of a
`thread_create` gives the child a stack outside its memory (`StacksAreOwn`), and so
on. The properties are thus conditional: they hold of programs that keep to the
rules. One of the cases that an ordinary program runs into is a finding with a run of its own.

### Runs

| Run | Instance | Question |
|---|---|---|
| `threads` | 4 slots, 6 programs that make up to 3 threads in a process, pids below 5 | Are threads, tables, stacks and limits consistent, is each thread joined once, and does `exit()` end the process? |
| `bad_join` | one program: create, join; a thread calls `exit` | Violated: see section 7. |

Four slots are init, the program, and two others, which may be threads of it,
children, or threads of a child. A slot, a node and a stack are each used again
within a run, in other combinations. With five slots the safety properties of all
programs but `ReplacingParent` were explored in full, with the same outcome (up to 292000
states for one program); that instance is too large to keep as a run. The run does
not check for deadlock, as a program that makes no more calls goes on in user mode,
which is no step.

Bounds: `MaxPid` on the pid counter (no slot is given out beyond it), `MaxSize` on the
pages of a process (an allocation beyond it fails, which the code handles like missing
memory), `MaxThreads` on the threads of a process, the main thread included. A program
that makes three threads has two slots for them, so that a slot, a node and a stack are
used again.

Fairness: a CPU goes on with what stays RUNNABLE inside the kernel, what a process
sleeps on comes about (weak), and a killed process is brought to `exit()` by the
timer in the end (strong, as it may be RUNNABLE in user mode only now and then).

### What is proved

`Threads_proofs`, for any number of slots, nodes, programs, pages and limits:

| Theorem | Property | Says |
|---|---|---|
| `TablesAreSound` | `TableIsSound` | a node in use has a thread of its own, which lives or has ended as the node says |
| `ThreadsBelongToProcesses` | `ThreadsBelong` | a thread's process lives and holds it, until it is joined |
| `NoThreadExitIsMissedEver` | `NoThreadExitIsMissed` | nobody sleeps in `thread_join` on a thread that has ended |
| `ParentsCanWait` | `ParentCanWait` | every process but init has a parent that lives and is a process |

Each has the form `AllOrderly => (Spec => [](panic \/ P))`.

`AllOrderly` says that every program is `Orderly`: only the main thread creates and joins; a main
thread with threads does not call `exec`; a thread calls `exec` when all threads exist, and then nobody
of its process ends the process or a thread by `exit` or `kill`, and the main thread does not join or
exit. All programs of `MCThreads` are orderly, which TLC evaluates (`ProgramsAreOrderly`). Of these
rules TLC finds three needed with four slots, in that a property above fails without them: threads that
create, `exec` by a main thread with threads, and `exec` by a thread before all threads exist. So does
a `kill` by the main thread while a thread calls `exec`. The others (`join` by a thread; `join`,
`exit` or the `kill` by a thread beside such an `exec`) are what the proof asks for: without them
no counterexample comes up with four slots, and it is open whether there is one with more.

`panic \/` is there because the model, as the kernel, stops at a panic, in the middle of what
it was doing. Orderly programs can reach one: that of `bad_join` is orderly.

`ThreadsInv` is the invariant: the types, and `Sound` unless the kernel has panicked. None of the four
is inductive alone, for these reasons.

* A call keeps locals while `ptable.lock` is free: a node it has taken, a slot it fills in, a main
  thread it has looked up. `KernelOK` says of each such place what it may still rely on
  (`CreateOK`, `MakeOK`, `ForkOK`, `JoinOK`, `ReplaceOK`), and `EmbryosOK` that no two calls
  fill in one slot. `IdleOK` says that what does not live is in user mode, so that a
  slot that is used again does not inherit a place in the kernel.
* That a thread is in the table of its process (`ThreadOK`), and that the table names it truly
  (`TableOK`), need each other, and that no two nodes name one thread (`Distinct`) is what lets one
  of them be freed.
* While a thread replaces its process by `exec` (`Replaced`), the table still names the threads it
  has freed. `TableOK` is weaker there, so everybody who might read the table must be
  shown to be absent: `ReplaceOK` says that no other thread is left, `LastingOK` that nobody joins or ends
  the process.
* A parent that exits hands its children to init, which therefore must not be replaced nor
  end (`InitOK`), and the children of a main thread that is replaced go to the new one (`ParentOK`).
* That a program without threads has none (`AloneOK`) is why its `exec` leaves no node.

There is one lemma for each action, on lemmas about what an action may do to slots: most steps start
and end nothing (`Quiet`), and the others start a thread, end threads, free one that was joined, reap a
process, make zombies, or replace the main thread, each with its lemma
(`StartKeeps`, `EndsKeep`, `JoinedKeeps`, `ReapKeeps`, `ZombieKeeps`, `ReplaceKeeps`).

Only model-checked: `NoPanic`, `StacksAreOwn`, `LimitHolds`, `ThreadsAreKept` and `ExitEndsProcess`
(liveness). The first is false of some orderly programs; the next two also need how many pages
each call maps, and when.

## 4. Projects 1 and 2: the log of xv6

### Modules

`Journal` has the log, the buffer cache and the queue of the disk driver. A process is
a stack of frames, what it has still to do, top first: a call of `bread` pushes the wait
for the sleep lock, which pushes `iderw`, and so on. A step is what runs under `log.lock`,
`bcache.lock` or `idelock`; the disk interrupt, which serves the first buffer of the queue,
is an action of its own, and the machine may stop between any two steps, in recovery too.

`AtomicCalls` is the abstract specification: callers begin, write to memory and end, and
what is durable becomes what memory is, at once, at a moment when nobody is active.
`Journal` implements it with `store <- Recovered` (the disk as recovery would leave it),
`memory <- Seen` (the cached data, or else what is recovered) and `active <-` the
processes between `begin_op` and `end_op`. It differs from `AtomicStore`, the promise of
Project3, in what Project3 gave up: there a commit may take a part of a call.

### Abstractions

* `bget` takes the least recently used of the buffers it may take; here any of them.
* A block holds the number of the call that wrote it last, which tells all writes apart.
* A call reads and writes the blocks that one of `Calls` lists, in that order, one buffer at a
  time. `MAXOPBLOCKS` is the most that a call may write.
* Programming the disk controller is one step, and the disk makes no errors (`ideintr`
  does not look at them).

### Run

`journal`: 2 processes, 2 blocks, log of 5 with its header, `MAXOPBLOCKS` 2, 3 buffers, 3
calls in all, 2 crashes. The log has room for the reservations of two calls, so both
group commit and a `begin_op` that sleeps for space come up; three buffers for seven
blocks make every call recycle some, and two dirty ones leave just one for the
committer; two crashes suffice for one in a commit and one in the recovery from it. It
checks that no panic of `log.c`, `bio.c` and `ide.c` is reached, the refinement
(`CallsAreAtomic`), and that every call ends (`CallsEnd`). Deadlock is not checked,
as the calls are bounded: at the end nobody has anything to do.

Fairness: weak for each process's steps and for the disk's interrupt. A process that can
go on is scheduled in the end, by xv6's round robin or, in Project1, thanks to the boost,
and a disk answers. Calls and crashes are never forced.

### What is proved

`Journal_proofs!CommitsAlone`, for any processes, blocks, calls and sizes: while a commit
runs, no process is between `begin_op` and `end_op`. It is what makes a group commit
atomic, and the reason `AtomicCalls` may demand `active = {}`. `committing => outstanding = 0`
is not inductive: that `outstanding` counts who is in a call needs that each process ends
its call once, hence that its stack has one `end_op` at most, at the bottom, and that
`begin_op` is only pushed on an empty stack. The invariant `Inv` says so of every stack
(`Shaped`), that `outstanding` is the number of active processes, and the implication.

`Journal_proofs!CallsAtomic`, for any processes, blocks, calls and sizes of the log and
the cache, any number of crashes: `Journal` implements `AtomicCalls`. It is the property
`CallsAreAtomic` of the run. The invariant `JInv` is `Inv` with three more parts:

* `CacheInv`, the cache: a buffer's `refcnt` is the number of processes that have it locked or
  are about to, so that none that is in use is recycled; a dirty buffer is valid, a clean
  valid one is as the disk; what a process has locked has been read, unless it is reading it; and
  each request in the queue of the disk has a process asleep on it that has locked the buffer.
* `Lists`: the log in memory and the header on the disk name each block once.
* `Roled`: at most one process commits or recovers, and each `Stands` at a point of its program,
  which is its stack, the buffers it has locked and, for the one that commits, how far the
  disk is: `Logged(n, S)` (the first `n` blocks have been copied to the log), `Placed(n, S)`
  (the header is on the disk and `n` blocks have been installed), `Installed(S)` and
  `Cleared`, where `S` is what waits for the disk.

Memory is `View`, what the dirty buffers and the recovered disk say together. `Recovered` moves in
one step only, when the disk has written the header of a commit, and then it becomes `View`;
writing a block of the log, a block at home or the empty header leaves it as it was, each
because of what the point of the committer says of the disk. That step is `Commit` of
`AtomicCalls`, as nobody is active while `committing`. A crash takes `View` to `Recovered`.
The case of recovery is the same as that of installing, except that no buffer is dirty.

`ReservationSuffices`, if no call writes more than `MAXOPBLOCKS - 2` blocks: of the panics in
`NoPanic`, none but `bget`'s is reached. The invariant is `JInv` with `Room`: the blocks in the
log, those that the active calls owe it (`Owed`: each with what is left on its stack) and two
more fit into `LOGSIZE`. Begun with a reservation of `MAXOPBLOCKS` for each call, the log
is short of one block, as its header is counted, and of one more because `log_write`
asks for room before it looks whether the block is in the log. Both come from the blocks that calls do not
use: for a write, seven of ten reserved at most (`file.c:130`, one bitmap block for a disk of 1000
blocks). The hypothesis is needed: with `LOGSIZE` 4, `MAXOPBLOCKS` 2 and two calls
that write two blocks each, TLC finds the panic of `log_write`. In the run, calls do write
`MAXOPBLOCKS` blocks, but the log of 5 has one block left after two reservations.

Only model-checked: that `bget` has a buffer (part of `NoPanic`), and `CallsEnd`, which is
liveness. The first is false for some sizes: other processes may hold all buffers that are not
dirty. With `LOGSIZE` = `NBUF` (`param.h:11-12`), both 4, one call that has written two blocks and two
processes that read two others, TLC finds `bget` panic in the commit; with the 30 of
`param.h` and three calls that write eight blocks each, six readers suffice.

## 5. Project3: cache and log

### Modules

`Log` has the disk, the cache and the log with any number of processes that
read, write in transactions and sync. A step is what runs under `log.lock` or
`bcache.lock`, or one disk write, and a crash may come between any two. Recovery is
the same code with the same crashes. `bget` takes any buffer it may take; the LRU
order is left open. The data is read when the buffer is found, which nobody can see
before the sleep lock is there.

The blocks of the log have a single user, the committer, so their buffers hold what
is on disk and their data is not kept apart; that they occupy buffers is.
`acquiresleep` is a step of its own: a process refers to a buffer before it has it.

`AtomicStore` is the abstract specification: memory, and a store that moves, for a
set of blocks at once, to what memory holds. A crash takes memory back to the store.
The refinement mapping replays the log: `Store` is each block as the log's header on
disk, if it names it, or else its home, would leave it.

### Runs

| Run | Instance | Question |
|---|---|---|
| `log_atomic` | 2 blocks, log of 4, 4 buffers, one process that writes and syncs, holding two buffers, and one that reads | Is every commit whole or absent after any crash, is nothing forgotten, is sync durable, is the committer never blocked? |

A log of 4 lets 2 blocks in before it commits by itself, so both kinds of commit come
up with two blocks, with one of them in use or not. The cache is full after two
blocks and the log's own, so eviction comes up too. Blocks are symmetric: they are
only compared. `NoPanic` holds in `log_atomic` because two blocks are all that can be
pinned; with as many blocks as the log takes, it fails (section 7).
With a second writer `DirtyIsLogged` and `StoreIsAtomic` fail: between its test and its
append a log write may be overtaken by another's commit. This is in the hazard list.
`MaxHeld` bounds the buffers that a transaction holds at a time: two, as in `bmap` with
its indirect block and `balloc`. Deadlock is checked in this run; a crash is always possible, so it says
little, and `CommitterIsNotBlocked` states the wait that matters.

No liveness is claimed of this log: with another process that syncs, `sync()` need not
return (section 7).

### What is proved

`Log_proofs`, for any blocks and data, any sizes, any number of readers and any crashes, under
two hypotheses:

* `Alone`: at most one process writes and syncs, as in the run. With two the claims are false:
  `sync` commits while the call of another is half done (`log.c:240`), and the other's block, pinned
  but not entered, or changed but not pinned, is in no log.
* `Roomy`: `NBUF <= LOGSIZE`, as in `param.h:11-12`, where both are 30. It is what makes
  `log_write` safe, which does not look for room.

| Theorem | Says |
|---|---|
| `LogFits` | the list fits the header, has a block once, and between commits is what is pinned |
| `CacheCoherent` | a clean buffer nobody has locked is what the disk has |
| `CommitterFree` | the committer does not wait for a buffer of its own, or of one that waits for it |
| `StoreAtomic` | `Log` implements `AtomicStore`, at whatever step the machine stops |
| `SyncDurable` | when `sync` returns, what the calls see is on disk whole |

The invariant `IInv` has five parts besides the types and the lists' being without repetition:

* `Places`: who may be where. Only the writer, or the process that recovers, is ever out of
  user mode.
* `Stacks`: the buffers a process holds for its call lie below those it holds for the log
  (`Extra`), and the blocks of the list are not among the former while a commit copies or
  installs. `CommitterFree` follows: what the committer waits for it has not locked itself,
  and who has it is a reader.
* `Pinned`: what is in use or dirty has a buffer.
* `Coherent`: a clean buffer is as the disk, but for the one block its owner has changed and
  not given to `log_write` yet, and that one is locked.
* `Phases`: for each place of the committer what list, dirty buffers, log and disk have in
  common: `Quiet` (the list is what is dirty), `Logged(n)`, `Placed(n)`. The blocks that
  `commit` leaves out because somebody refers to them (`ref`) are in no log, but dirty, and
  back in the list at the end.

`LogFits` is a matter of counting: the listed blocks are dirty, so each has a buffer of its
own, and there are `NBUF` of them.

For `StoreAtomic` memory is what the buffers say, and the disk where there is no valid one; the
store is the disk with the log replayed. Only writing the header of a commit changes the
store, to memory. A commit that leaves blocks out is the case to look at: the store changes
for the others only.

Only model-checked: `NoPanic`. It is false for some sizes (section 7), as `bget` may find all
buffers pinned.

## 6. Project3: files, blocks and the shell

### Inodes and calls: `Inodes`, `FileCalls`

`Inodes` is the inode layer, `FileCalls` the system calls over it. A step goes from one
`acquiresleep` to the next, as everything it changes meanwhile is under a lock it holds.
A process runs the labels of its stack, and a call pushes those of the function called, so
that `iput` inside `namex` inside `create` inside `open` is the same code each time. Waiting
for a lock is a frame that stays on top. Where the code panics, `Panics(p)` holds and the
process takes no more steps.

Abstractions: an entry of the inode cache is named by the inode it holds; a directory is a function
from names to inodes, and a symbolic link holds a path; offsets, sizes and `stat` are left
out (`BlockMap` has the contents), and transactions are only marked, since a process that
takes a link away outside of one panics in `log_write`. A path stands for its components.

Run `files`: two processes that run one of five sets of calls on a small tree (`MCFileCalls`).
Each set aims at one kind of interference: names of a file that come and go under a
link to it; links that lead to links and to themselves; directories that are removed while
somebody is in them; `realpath` and failing calls, where every early return shows; and a file
shared after a fork. Two calls per process make one call find what another has left half
done and what it has done. `NINODES` 9 leaves two inodes to allocate, so that one is freed and
allocated again; `NFILE` 2, `NOFILE` 2, `MAX_SYMBOLIC_DEPTH` 2 and `MAXPATHDEPTH` 2 are all
reached. Checked: no panic, `ref` is the number of pointers to an inode whatever path a
call has left by, `nlink` is the number of names, and a valid entry of the inode cache says
what is on disk. Deadlock is not checked: calls are bounded, and a circle of locks is
the subject of `bad_inode_locks`, a run of one `create` and one `unlink`. Sets of calls that
run into the other divergences of section 7 are left out of `files`.

Proved in `FileCalls_proofs`, for any number of processes, inodes, names and files, any tree
that `ImageAssumption` allows and any calls that `ProgramsAssumption` allows, which says only
that a path is made of names and which calls have one:

* `IcacheCoherent`: the property `IcacheIsCoherent` of the run.
* `LockedIsAllocated`: an inode that somebody has locked is allocated on disk.
* `DescriptorsAreCounted`: `ref` of an open file is the number of descriptors that stand for
  it. It is the part of `ReferencesAreHeld` about open files.

The first two have one exception, the window of `iput` between freeing the inode on disk and
invalidating its entry (`fs.c:340-347`, the label `release`). There `ialloc` may already
take the inode for another process, which then waits for its lock. Coherence by itself is
not inductive: `iupdate` writes the disk and the entry of an inode because the process has it locked
and has it loaded, and that `iput` frees one that nobody else has locked needs its lock too. The
invariant `CallsInv` therefore has four parts:

* `Types`.
* `AllStacked`: what may stand on the stack of a process, function under function; for
  each, which inodes it has locked with it (none, one, or the one that `iput` is about to
  free), that it alone has them, and what the locals below it hold.
* `Files`: the counts of the open files, and that a process that is not there has no descriptor.
* `IcacheOK`: each entry is invalid, or equals the disk and is not `free`; and a locked inode
  is allocated; but for the one at `release`.

A step changes one stack, so a lemma for each action says what it makes of the stack of its
own process, and one lemma says that the others keep theirs (`Keeps`). On top of a
call there may be any number of `iput` that it still owes, of which only the first has begun.

Only model-checked: `NoPanic` and `LinksAreCounted`, which some calls make false (section 7), and the
rest of `ReferencesAreHeld`, the references to inodes. A walk up to the root that meets
a directory without `..` is modelled, with the lock that `get_inode_path` leaves behind
(`fs.c:853`), but no tree of the runs has one.

### Block map: `BlockPath`, `BlockMap`

`BlockPath` has the index arithmetic of `bmap`, `BlockMap` the rest: `balloc`, `bfree`,
`bmap`, `itrunc`, `readi` and `writei` on a disk of blocks that are rows of words. Each call
holds the inode lock, so it is one step. A word stands for a byte, and therefore a table has as many
entries as a block has words. The model's first state is the layout that `mkfs` writes.

Run `blocks`: 1 direct address, tables of 2, so that one, two and three levels hold
blocks from the third word on; file `f1` is written up to word 31, one more than the largest file
has, `f2` up to word 4; 30 blocks, which the two fill; two truncations. `ReadiIsRight` compares what
`readi` returns, from every offset, with what was written there. `BlocksAreAccounted` says
that a block is in use exactly when one place of one file holds its address. A write that runs out
of blocks panics, as it does in C, and ends the run's behaviour: deadlock is not checked.

Proved, for every size of inode and table: `PathIsValid` (each index lies in its table) and
`PathsDiffer` (two blocks of a file have different places, and none lies where a table on
the way to another does). The proof divides with remainder twice, by a lemma that the pair of
quotient and remainder determines the number (`Division`), and has one lemma for each level. What
`itrunc` frees, which walks recursive tables, is only model-checked.

### Pipes, console, processes and the shell: `Pipe`, `Shell`

`Pipe` is the ring with its two wrapping counters; `Shell` composes it with descriptors,
processes, the console and the programs that a command line starts. A process is again a stack
of frames, where programs are frames too, and `eax` the result of the last call. A step is a
part of a call that runs under one spin lock. A process that has found it must sleep keeps the
lock until it sleeps (state `FALLING`), since a `kill` on another CPU may come in between.

Abstractions: `RUNNABLE` stands for `RUNNING`; memory, ticks and the choice of `scheduler()` are
left out; `Parse` gives the command that a line stands for; `cat`, `wc`, `echo` and `kill` read
and write in pieces of `BUFSIZE`; what the screen shows is not kept.

Run `shell`: nine lines that somebody may type (`MCShell`), on five processes, five descriptors,
three open files, one page for pipes, a ring of 2 with counters that wrap at 4, a console of 3
and reads of 2, as long as the ring as 512 is both in `cat.c:5` and `pipe.c:11`. Five processes are init, the shell, and a pipeline with its parent, with none
left over: a nested pipeline fails in `pipe`, one in the background in `fork`. The lines are
chosen for a writer that fills the ring, a reader that comes first, line editing on a full
buffer, end of file, a kill of the left side, the right side, their parent and the shell itself,
and a command in the background that ends after the shell has forgotten it. Checked: what comes
out of a pipe is what went in, whoever sleeps has a reason, ends are open exactly while somebody
holds them, no pipe is freed under a process that waits in it, the console's buffer can always
be read from when it is full, and the shell always gets back to where it waits for the keyboard.

Fairness: weak, of some process making a step. That is what the round robin justifies and all
that `CommandsEnd` needs, as no program here runs for ever. The keyboard is never forced.
Deadlock is not checked: at the end everybody waits for a key.

Proved in `Shell_proofs`, for any number of processes, descriptors, files, pipes and pages, any
sizes of the ring, the console's buffer and the reads, and any commands: `PipesFifo`,
`EndsOpen`, `ConsoleIsReadable` and `NoWakeupIsLost`, one for each safety invariant of the run.
Of the commands the theorems assume `Grammar`, which says of a set of
commands no more than what `parsecmd()` guarantees: a line gives one of them, the parts of one
are again in the set, what `echo` prints are bytes, and what `kill` is given is a number. The
lines of `MCParse` are an instance, with the set of the commands they give and their parts.

* The ring (`PutAppends`, `TakeIsFirst`): the byte written is appended, the byte read is the
  first, the rest keeps its order, also when the counters wrap. It rests on the remainder of a
  counter being different for counters less than `PIPESIZE` apart, which is why the ring's size
  has to divide the range of a counter. `PutAppendsAll` and `TakesFirst` lift it to the loops of
  `pipewrite()` and `piperead()`.
* The invariant `IInv` has a type for every frame a process may have on its stack (`ProcsOK`),
  and for the tables (`FilesOK`, `ConsoleOK`), with three properties of the run. `ProcsOK` also
  says which frames may follow which: the frames of the kernel stand on top only, the process
  that starts a pipeline finds two descriptors in `eax`, and a slot that is free or a zombie has
  nothing open; without the last, `fork()` would copy over references that count.
* `PipesAreHeld` is what makes it inductive: a process asleep in `piperead()` or `pipewrite()`
  has a descriptor of that pipe. The ring it reads when it wakes exists only because of it: only
  the process itself closes its descriptors, so the end is counted (`EndsAreCounted`), so nobody
  was the last to close. That is the second half of `EndsAreOpen`, `PipesInUse`.
* Each step of a process has a lemma for the files and pipes it leaves, and `SameFiles` takes
  care of all that change no descriptor. Counting is by cardinalities: one descriptor more or
  less is one reference more or less (`References`), and one user of an end moves from the files
  to those that are about to close it.

* `NoWakeupIsLost` has an invariant of its own, `WakeInv`: `IInv` and `Awaited`. A process
  that sleeps, *or has found that it must and still holds the lock* (`FALLING`), has a reason
  that is still true and a channel that the one who ends it looks at (`ReasonsIn`): the ring is
  empty and can be written, or full and can be read, or the console has no line. The state
  before sleep belongs in it because that is where a wakeup gets lost: while one is in it the
  lock is held, so whoever calls `wakeup()` finds everybody either awake or asleep
  (`IsFree`, `NoneLeft`), and nobody ends a reason without a wakeup on its channel. For
  `wait()` the invariant also needs the family (`FamilyIn`): nobody is its own parent, a free
  slot is nobody's child, and `init` is never reaped, since `exit()` gives it the children and
  wakes it (`WaitsForChild`).
* That theorem alone assumes `BUFSIZE <= PIPESIZE`: a piece that is written fits into a pipe.
  Without it the property is false: a killed writer that finds the ring full returns without
  waking the readers (`pipe.c:86-88`), so one that had found an empty ring, and was not woken
  before the loop's end, sleeps on at a full one. `cat` and `wc` have 512 bytes, which is
  `PIPESIZE`, and `echo` writes one byte at a time; a program that writes more at once is
  outside the theorem and outside the run.

Only model-checked: `CommandsEnd`, as liveness.

## 7. Findings

| Run | Property | What |
|---|---|---|
| `bad_join` | `NoPanic` | `exit()` by a thread wakes a main thread out of `thread_join`, which panics (`proc.c:957`). |
| `bad_inode_locks` | `NoCircle` | `create()` gives the directory back with the new inode locked, `unlink()` holds the directory and waits for the inode: both sleep for ever (`sysfile.c:296`). |

### Known divergences without a run

Each of these was met while modelling: the property named fails when the bounds or the
programs of a run let the case in, which is why the passing runs leave it out. They are in the
hazard list, at their lines.

* Project1, `proc_mlfq.c:348`: with two CPUs, a process that runs elsewhere when the scheduler
  gets locked is put in no queue when it yields (`NoRunnableIsLost`). `Makefile:234` starts two CPUs.
* Project1, `proc_mlfq.c:522`: a process that locks and unlocks in a loop sets `ticks` to 0
  each time, and no boost ever comes (`NobodyStarves`).
* Project2, `exec.c:22`: `exec()` by a main thread with threads frees their kernel stacks and
  keeps the nodes; its `exit()` frees them again (`NoPanic`).
* Project2, `proc.c:840`: `nextpid--` may give one pid to two processes.
* Project3, `param.h:11-12`: `NBUF` equals `LOGSIZE`; the log may pin all buffers but two,
  and a transaction that holds two others leaves none for the commit (`Log!NoPanic`).
* Project3, `log.c:343`: `sync()` waits for a buffer whose owner, in `log_write`, waits for
  the commit (`CommitterIsNotBlocked`).
* Project3, `log.c:240`: `sync()` commits in the middle of other calls, against `log.c:12-15`.
* Project3, `log.c:345`: with two writers an append may come between another's test of the
  log's size and its own append (`DirtyIsLogged`, `StoreIsAtomic`).
* Project3, `fs.c:906`: `realpath` and `symbolic_link` call `iput` outside a transaction
  (`FileCalls!NoPanic`).
* Project3, `sysfile.c:265`: `create` and `link` lock a directory that may have been removed
  since it was looked up (`FileCalls!NoPanic`).
* Project3, `fs.c:335`: two that drop the last references to an unlinked inode at once each
  see the other's, and nobody frees it.
* Project3, `pipe.c:86-91` and `console.c:246-251`: a `kill` between the test of `killed` and
  `sleep()` is missed until something else wakes the process (`SleepersHaveReason` asks nothing about it).
* Project3, `file.c:133`: the pieces into which `filewrite` cuts a write are computed for one
  indirect block, while the map has three levels.

## 8. Not modelled

* Files, inodes, pipes and the console of Projects 1 and 2: the same code as Project3's, or
  an earlier form of it without links and deeper tables.
* Spin locks below the steps they make atomic: `pushcli` and `popcli`, and the loop around
  `xchg`.
* `kalloc`, `vm.c` and `umalloc.c`: sequential code on machine words and pointers. What they
  refuse is modelled where `Threads` relies on it.
* Boot code, `swtch`, trap entry, and the drivers below `console.c` and `ide.c`: assembly and
  device registers.
* `pmanager`, the parser, redirection and `cd` of `sh`, `printf`, and the other user programs: text.
* Test programs, whose calls give the inputs of the models; and `mkfs`, except for the layout it leaves.
* File contents under concurrency: `read` and `write` of a file hold its inode lock, change no
  name, and are the atomic steps of `BlockMap`.

## 9. Plan

What would come next, in this order.

1. **The list of `proc_mlfq.c`** as pointers, shown to implement the sequences of `MLFQ`.
2. **Reservation of log space**: what each call logs, from `BlockMap` and `FileCalls`, against
   `MAXOPBLOCKS`, which is what `ReservationSuffices` assumes.
3. **Proofs**: the stacks and the limits of `Threads`; the references to inodes and the links of
   `FileCalls`; the blocks of `BlockMap`.
