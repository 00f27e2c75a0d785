--------------------------------- MODULE Log ---------------------------------
(***************************************************************************)
(* The buffer cache and the write-ahead log of Project3 (bio.c, log.c).    *)
(*                                                                         *)
(* A process reads blocks, changes and log_write()s the ones it holds and   *)
(* releases them.  Nothing is written to disk before the log is almost      *)
(* full, when the log_write() that finds it so commits the blocks nobody    *)
(* refers to, or until sync() commits all of them.  The machine may crash   *)
(* between any two steps; what is on disk is then recovered from the log.   *)
(*                                                                         *)
(* A step is a piece of code that runs under log.lock or bcache.lock, or    *)
(* one disk write.  A block of the log has one user, so its buffer always   *)
(* holds what is on disk; blocks 0, 1, .. LOGSIZE are the log's header and  *)
(* data, Blocks are those of the file system.  The replacement order of     *)
(* bget() is left open: any buffer it may take is taken.                   *)
(***************************************************************************)
EXTENDS Integers, Sequences, FiniteSets, SequencesExt

CONSTANTS Blocks,     \* the blocks of the file system
          Data,       \* what a block may hold
          Blank,      \* what a block holds at first
          LOGSIZE,    \* blocks of the log on disk (param.h: 30)
          NBUF,       \* buffers of the cache (param.h: 30)
          Proc,       \* processes
          Writers, Readers, Syncers,   \* who calls what
          Booter,     \* the process that runs initlog()
          MaxHeld     \* buffers a system call holds at a time

Slot  == 1 .. LOGSIZE
HeaderBlock  == 0
Block == Blocks \cup Slot \cup {HeaderBlock}

ASSUME LogAssumption ==
    /\ Blocks \cap Int = {} /\ IsFiniteSet(Blocks)
    /\ Blank \in Data
    /\ LOGSIZE \in Nat /\ LOGSIZE > 2
    /\ NBUF \in Nat \ {0}
    /\ Writers \cup Readers \cup Syncers \subseteq Proc
    /\ Booter \in Proc
    /\ MaxHeld \in Nat \ {0}

VARIABLES
    home,         \* disk: the blocks of the file system
    slot,         \* disk: the data blocks of the log
    header,       \* disk: the header of the log, as the blocks it names
    cached,       \* the blocks that have a buffer
    data,         \* buf.data
    dirty,        \* the blocks whose buffer has B_DIRTY
    held,         \* the buffers a process has a reference to, oldest first
    waits,        \* the processes inside acquiresleep() of their last one
    lh,           \* log.lh.block[0 .. log.lh.n - 1]
    outstanding,  \* log.outstanding
    committing,   \* log.committing
    inop,         \* the processes between begin_op() and end_op()
    pc,           \* where a process is in log_write() or commit()
    tail,         \* the committer's loop variable
    todo,         \* bfind_noref_dirty(): what is still to be looked at
    noref, ref,   \* no_ref_blocks and ref_blocks
    booting,      \* initlog() has not returned
    panic

disk   == <<home, slot, header>>
cache  == <<cached, data, dirty>>
log    == <<lh, outstanding, committing>>
frame  == <<tail, todo, noref, ref>>
vars   == <<disk, cache, held, waits, log, inop, pc, frame, booting, panic>>

Holds(p) == ToSet(held[p])

\* What is in memory after a reset.
Reset ==
    /\ cached' = {} /\ data' = [b \in Blocks |-> Blank] /\ dirty' = {}
    /\ held' = [p \in Proc |-> <<>>] /\ waits' = {}
    /\ lh' = <<>> /\ outstanding' = 0 /\ committing' = FALSE
    /\ inop' = {}
    /\ pc' = [p \in Proc |-> IF p = Booter THEN "read_head" ELSE "off"]
    /\ tail' = 0 /\ todo' = <<>> /\ noref' = <<>> /\ ref' = <<>>
    /\ booting' = TRUE
    /\ panic' = FALSE

\* The disk as mkfs made it.
Init ==
    /\ home = [b \in Blocks |-> Blank] /\ slot = [i \in Slot |-> Blank]
    /\ header = <<>>
    /\ cached = {} /\ data = [b \in Blocks |-> Blank] /\ dirty = {}
    /\ held = [p \in Proc |-> <<>>] /\ waits = {}
    /\ lh = <<>> /\ outstanding = 0 /\ committing = FALSE
    /\ inop = {}
    /\ pc = [p \in Proc |-> IF p = Booter THEN "read_head" ELSE "off"]
    /\ tail = 0 /\ todo = <<>> /\ noref = <<>> /\ ref = <<>>
    /\ booting = TRUE
    /\ panic = FALSE

At(p, l)  == ~ panic /\ pc[p] = l /\ p \notin waits
Goto(p, l) == pc' = [pc EXCEPT ![p] = l]

-----------------------------------------------------------------------------
(* bio.c *)

Top(p) == Last(held[p])

\* The buffers process p has locked: not the one it waits for.
Locks(p) == ToSet(IF p \in waits THEN Front(held[p]) ELSE held[p])

Referred == UNION {Holds(p) : p \in Proc}

\* bget() may give such a buffer to another block.
Spare == {b \in cached : b \notin Referred /\ b \notin dirty}

\* bget(): the buffer of b, or else a buffer for b.  The data is read while
\* the buffer is locked, and nobody looks at it before.
Bget(p, b) ==
    /\ held' = [held EXCEPT ![p] = Append(@, b)]
    /\ \/ b \in cached /\ UNCHANGED <<cached, data, panic>>
       \/ /\ b \notin cached
          /\ data' = IF b \in Blocks THEN [data EXCEPT ![b] = home[b]] ELSE data
          /\ UNCHANGED panic
          /\ \/ Cardinality(cached) < NBUF /\ cached' = cached \cup {b}
             \/ /\ Cardinality(cached) = NBUF
                /\ \E v \in Spare : cached' = (cached \ {v}) \cup {b}
       \/ /\ b \notin cached /\ Cardinality(cached) = NBUF /\ Spare = {}
          /\ panic' = TRUE
          /\ UNCHANGED <<cached, data>>
    /\ UNCHANGED dirty

\* A buffer for a block of the log, which nobody else locks.
BreadLog(p, b) == Bget(p, b) /\ UNCHANGED waits

\* A buffer for a block of the file system, up to acquiresleep().
BreadHome(p, b) == Bget(p, b) /\ waits' = waits \cup {p}

\* acquiresleep() returns.
Acquire(p) ==
    /\ ~ panic /\ p \in waits
    /\ Top(p) \notin Locks(p)
    /\ \A q \in Proc \ {p} : Top(p) \notin Locks(q)
    /\ waits' = waits \ {p}
    /\ UNCHANGED <<disk, cache, held, log, inop, pc, frame, booting, panic>>

\* brelse() of the last n buffers of p.
Brelse(p, n) == held' = [held EXCEPT ![p] = SubSeq(@, 1, Len(@) - n)]

-----------------------------------------------------------------------------
(* What the file system calls. *)

BeginOp(p) ==
    /\ At(p, "user") /\ p \in Writers /\ p \notin inop /\ held[p] = <<>>
    /\ ~ committing
    /\ outstanding' = outstanding + 1
    /\ inop' = inop \cup {p}
    /\ UNCHANGED <<disk, cache, held, waits, lh, committing, pc, frame, booting, panic>>

EndOp(p) ==
    /\ At(p, "user") /\ p \in inop /\ held[p] = <<>>
    /\ outstanding' = outstanding - 1
    /\ inop' = inop \ {p}
    /\ UNCHANGED <<disk, cache, held, waits, lh, committing, pc, frame, booting, panic>>

\* A reader holds one buffer, a transaction up to MaxHeld (bmap and itrunc
\* keep the blocks of the way down).
Bread(p, b) ==
    /\ At(p, "user")
    /\ \/ p \in inop /\ Len(held[p]) < MaxHeld
       \/ p \in Readers /\ held[p] = <<>>
    /\ b \notin Holds(p)
    /\ BreadHome(p, b)
    /\ UNCHANGED <<disk, log, inop, pc, frame, booting>>

BrelseTop(p) ==
    /\ At(p, "user") /\ held[p] # <<>>
    /\ Brelse(p, 1)
    /\ UNCHANGED <<disk, cache, waits, log, inop, pc, frame, booting, panic>>

\* The caller changes the buffer it got last and calls log_write().
Modify(p, v) ==
    /\ At(p, "user") /\ p \in inop /\ held[p] # <<>>
    /\ v # data[Top(p)]
    /\ data' = [data EXCEPT ![Top(p)] = v]
    /\ Goto(p, "log_write")
    /\ UNCHANGED <<disk, cached, dirty, held, waits, log, inop, frame, booting, panic>>

Sync(p) ==
    /\ At(p, "user") /\ p \in Syncers /\ p \notin inop /\ held[p] = <<>>
    /\ Goto(p, "commit")
    /\ UNCHANGED <<disk, cache, held, waits, log, inop, frame, booting, panic>>

-----------------------------------------------------------------------------
(* log_write() *)

\* wait_until_commit_finish() returns.
WaitUntilCommitFinish(p) ==
    /\ At(p, "log_write")
    /\ ~ committing
    /\ Goto(p, "check")
    /\ UNCHANGED <<disk, cache, held, waits, log, inop, frame, booting, panic>>

Full == Len(lh) >= LOGSIZE - 1 \/ Len(lh) >= LOGSIZE - 2

CheckFull(p) ==
    /\ At(p, "check")
    /\ Goto(p, IF Full THEN "commit" ELSE "append")
    /\ UNCHANGED <<disk, cache, held, waits, log, inop, frame, booting, panic>>

LogAppend(p) ==
    /\ At(p, "append")
    /\ IF outstanding < 1
       THEN panic' = TRUE /\ UNCHANGED <<lh, dirty>>
       ELSE /\ lh' = IF Top(p) \in ToSet(lh) THEN lh ELSE Append(lh, Top(p))
            /\ dirty' = dirty \cup {Top(p)}
            /\ UNCHANGED panic
    /\ Goto(p, "user")
    /\ UNCHANGED <<disk, cached, data, held, waits, outstanding, committing,
                   inop, frame, booting>>

-----------------------------------------------------------------------------
(* commit(): with sync_all from sync(), without it from log_write().       *)

SyncAll(p) == p \notin inop

CommitBegin(p) ==
    /\ At(p, "commit")
    /\ ~ committing
    /\ committing' = TRUE
    /\ Goto(p, "start")
    /\ UNCHANGED <<disk, cache, held, waits, lh, outstanding, inop, frame, booting, panic>>

\* Mutant: sync() leaves out the blocks in use, too.
SyncUnreferred(p) ==
    /\ At(p, "start")
    /\ Goto(p, IF lh = <<>> THEN "end" ELSE "classify")
    /\ todo' = lh
    /\ tail' = 0 /\ noref' = <<>> /\ ref' = <<>>
    /\ UNCHANGED <<disk, cache, held, waits, log, inop, booting, panic>>

CommitStart(p) ==
    /\ At(p, "start")
    /\ Goto(p, IF lh = <<>> THEN "end" ELSE IF SyncAll(p) THEN "write_log" ELSE "classify")
    /\ todo' = IF SyncAll(p) THEN <<>> ELSE lh
    /\ tail' = 0 /\ noref' = <<>> /\ ref' = <<>>
    /\ UNCHANGED <<disk, cache, held, waits, log, inop, booting, panic>>

\* Mutant: the blocks in use are committed, too.
ClassifyAll(p) ==
    /\ At(p, "classify")
    /\ todo # <<>>
    /\ todo' = Tail(todo)
    /\ noref' = Append(noref, todo[1])
    /\ UNCHANGED <<disk, cache, held, waits, log, inop, pc, tail, ref, booting, panic>>

\* is_noref() of the next block of the log.
Classify(p) ==
    /\ At(p, "classify")
    /\ todo # <<>>
    /\ todo' = Tail(todo)
    /\ IF todo[1] \in cached \ Referred
       THEN noref' = Append(noref, todo[1]) /\ UNCHANGED ref
       ELSE ref' = Append(ref, todo[1]) /\ UNCHANGED noref
    /\ UNCHANGED <<disk, cache, held, waits, log, inop, pc, tail, booting, panic>>

\* Only the blocks nobody refers to are committed.
CommitNoref(p) ==
    /\ At(p, "classify")
    /\ todo = <<>>
    /\ lh' = noref
    /\ noref' = <<>>
    /\ Goto(p, "write_log")
    /\ UNCHANGED <<disk, cache, held, waits, outstanding, committing, inop,
                   tail, todo, ref, booting, panic>>

WriteLog(p) ==
    /\ At(p, "write_log")
    /\ IF tail < Len(lh)
       THEN BreadLog(p, tail + 1) /\ Goto(p, "log_from")
       ELSE Goto(p, "write_head") /\ UNCHANGED <<cache, held, waits, panic>>
    /\ UNCHANGED <<disk, log, inop, frame, booting>>

LogFrom(p) ==
    /\ At(p, "log_from")
    /\ BreadHome(p, lh[tail + 1])
    /\ Goto(p, "log_copy")
    /\ UNCHANGED <<disk, log, inop, frame, booting>>

\* Mutant: the log block is not released.
LogCopyLeaks(p) ==
    /\ At(p, "log_copy")
    /\ slot' = [slot EXCEPT ![tail + 1] = data[Top(p)]]
    /\ Brelse(p, 1)
    /\ tail' = tail + 1
    /\ Goto(p, "write_log")
    /\ UNCHANGED <<home, header, cache, waits, log, inop, todo, noref, ref, booting, panic>>

LogCopy(p) ==
    /\ At(p, "log_copy")
    /\ slot' = [slot EXCEPT ![tail + 1] = data[Top(p)]]
    /\ Brelse(p, 2)
    /\ tail' = tail + 1
    /\ Goto(p, "write_log")
    /\ UNCHANGED <<home, header, cache, waits, log, inop, todo, noref, ref, booting, panic>>

\* write_head(): the header's buffer is read, written and released.
WriteHead(p) ==
    /\ At(p, "write_head") \/ At(p, "write_erased")
    /\ IF HeaderBlock \notin Holds(p)
       THEN BreadLog(p, HeaderBlock) /\ UNCHANGED <<header, tail, pc>>
       ELSE /\ header' = lh
            /\ tail' = 0
            /\ Brelse(p, 1)
            /\ Goto(p, IF pc[p] = "write_head" THEN "install" ELSE "restore")
            /\ UNCHANGED <<cache, waits, panic>>
    /\ UNCHANGED <<home, slot, log, inop, todo, noref, ref, booting>>

Install(p) ==
    /\ At(p, "install")
    /\ IF tail < Len(lh)
       THEN BreadLog(p, tail + 1) /\ Goto(p, "install_dst")
       ELSE Goto(p, "erase") /\ UNCHANGED <<cache, held, waits, panic>>
    /\ UNCHANGED <<disk, log, inop, frame, booting>>

InstallDst(p) ==
    /\ At(p, "install_dst")
    /\ BreadHome(p, lh[tail + 1])
    /\ Goto(p, "install_copy")
    /\ UNCHANGED <<disk, log, inop, frame, booting>>

\* Mutant: the block is copied and unpinned but not written.
InstallCopyNoWrite(p) ==
    /\ At(p, "install_copy")
    /\ data' = [data EXCEPT ![Top(p)] = slot[tail + 1]]
    /\ dirty' = dirty \ {Top(p)}
    /\ Brelse(p, 2)
    /\ tail' = tail + 1
    /\ Goto(p, "install")
    /\ UNCHANGED <<disk, cached, waits, log, inop, todo, noref, ref, booting, panic>>

InstallCopy(p) ==
    /\ At(p, "install_copy")
    /\ data' = [data EXCEPT ![Top(p)] = slot[tail + 1]]
    /\ home' = [home EXCEPT ![Top(p)] = slot[tail + 1]]
    /\ dirty' = dirty \ {Top(p)}
    /\ Brelse(p, 2)
    /\ tail' = tail + 1
    /\ Goto(p, "install")
    /\ UNCHANGED <<slot, header, cached, waits, log, inop, todo, noref, ref, booting, panic>>

Erase(p) ==
    /\ At(p, "erase")
    /\ lh' = <<>>
    /\ Goto(p, "write_erased")
    /\ UNCHANGED <<disk, cache, held, waits, outstanding, committing, inop, frame,
                   booting, panic>>

\* Mutant: the blocks that were left out are forgotten.
RestoreNothing(p) ==
    /\ At(p, "restore") /\ ~ booting
    /\ ref' = <<>>
    /\ Goto(p, "end")
    /\ UNCHANGED <<disk, cache, held, waits, log, inop, tail, todo, noref,
                   booting, panic>>

\* The blocks that were left out are the log's again.
Restore(p) ==
    /\ At(p, "restore") /\ ~ booting
    /\ lh' = IF SyncAll(p) THEN lh ELSE ref
    /\ ref' = <<>>
    /\ Goto(p, "end")
    /\ UNCHANGED <<disk, cache, held, waits, outstanding, committing, inop,
                   tail, todo, noref, booting, panic>>

CommitEnd(p) ==
    /\ At(p, "end")
    /\ committing' = FALSE
    /\ Goto(p, IF SyncAll(p) THEN "user" ELSE "append")
    /\ UNCHANGED <<disk, cache, held, waits, lh, outstanding, inop, frame, booting, panic>>

-----------------------------------------------------------------------------
(* Crash and recovery. *)

Crash == Reset /\ UNCHANGED disk

\* Mutant: the log is cleared and not replayed.
ReadHeadNoReplay(p) ==
    /\ At(p, "read_head")
    /\ IF HeaderBlock \notin Holds(p)
       THEN BreadLog(p, HeaderBlock) /\ UNCHANGED <<lh, pc>>
       ELSE /\ lh' = header
            /\ Brelse(p, 1)
            /\ Goto(p, "erase")
            /\ UNCHANGED <<cache, waits, panic>>
    /\ UNCHANGED <<disk, outstanding, committing, inop, frame, booting>>

\* read_head(); recover_from_log() goes on with install_trans().
ReadHead(p) ==
    /\ At(p, "read_head")
    /\ IF HeaderBlock \notin Holds(p)
       THEN BreadLog(p, HeaderBlock) /\ UNCHANGED <<lh, pc>>
       ELSE /\ lh' = header
            /\ Brelse(p, 1)
            /\ Goto(p, "install")
            /\ UNCHANGED <<cache, waits, panic>>
    /\ UNCHANGED <<disk, outstanding, committing, inop, frame, booting>>

BootDone(p) ==
    /\ At(p, "restore") /\ booting
    /\ booting' = FALSE
    /\ pc' = [q \in Proc |-> "user"]
    /\ UNCHANGED <<disk, cache, held, waits, log, inop, frame, panic>>

-----------------------------------------------------------------------------
Step(p) ==
    \/ Acquire(p)
    \/ BeginOp(p) \/ EndOp(p) \/ BrelseTop(p) \/ Sync(p)
    \/ \E b \in Blocks : Bread(p, b)
    \/ \E v \in Data : Modify(p, v)
    \/ WaitUntilCommitFinish(p) \/ CheckFull(p) \/ LogAppend(p)
    \/ CommitBegin(p) \/ CommitStart(p) \/ Classify(p) \/ CommitNoref(p)
    \/ WriteLog(p) \/ LogFrom(p) \/ LogCopy(p) \/ WriteHead(p)
    \/ Install(p) \/ InstallDst(p) \/ InstallCopy(p) \/ Erase(p)
    \/ Restore(p) \/ CommitEnd(p)
    \/ ReadHead(p) \/ BootDone(p)

Next == (\E p \in Proc : Step(p)) \/ Crash

Spec == Init /\ [][Next]_vars
-----------------------------------------------------------------------------
(* What the cache and the log rely on and what they promise. *)

\* No panic() is reached: bget() finds a buffer, and log_write() is called in
\* a transaction.
NoPanic == ~ panic

\* The log lists a block once and fits the arrays of its header, to which
\* log_write() appends without a check; between commits the pinned buffers are
\* those of the log: a dirty block that is not there is never written
\* ("commit()/write_log() will do the disk write") and its buffer is lost.
DirtyIsLogged ==
    /\ Len(lh) <= LOGSIZE /\ IsInjective(lh)
    /\ ~ committing /\ ~ booting => dirty = ToSet(lh)

\* A clean buffer that nobody has locked holds what is on disk: bget() may
\* drop it at any time.
CacheIsCoherent ==
    \A b \in (cached \cap Blocks) \ dirty :
        (\A p \in Proc : b \notin Locks(p)) => data[b] = home[b]

\* The process that commits does not wait for a buffer whose owner, in
\* log_write(), waits for the commit to end, or for one of its own.
CommitterIsNotBlocked ==
    \A p \in waits :
        committing /\ pc[p] \in {"log_copy", "install_copy"} =>
            /\ Top(p) \notin Locks(p)
            /\ \A q \in Proc : Top(p) \in Locks(q) => pc[q] \notin {"log_write", "commit"}

\* The blocks a crash would leave, once the log is replayed.
Store ==
    [b \in Blocks |->
        IF b \in ToSet(header)
        THEN slot[CHOOSE i \in 1 .. Len(header) : header[i] = b] ELSE home[b]]

\* The blocks the system calls see.
Memory ==
    [b \in Blocks |-> CASE booting -> Store[b]
                       [] ~ booting /\ b \in cached -> data[b]
                       [] OTHER -> home[b]]

Atomic == INSTANCE AtomicStore WITH Block <- Blocks, store <- Store, memory <- Memory

\* A crash at any step, in recovery too, leaves what the last commit left: the
\* disk changes for all blocks of a commit at once, to what they hold, and
\* nothing but a crash undoes a write.
StoreIsAtomic == Atomic!Spec

\* What sync() returns from is on disk whole.
SyncIsDurable ==
    [][\A p \in Proc : CommitEnd(p) /\ SyncAll(p) => Store = Memory]_vars
=============================================================================
