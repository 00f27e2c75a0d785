------------------------------- MODULE Journal -------------------------------
(***************************************************************************)
(* The write-ahead log of Project1 and Project2 (log.c), over their buffer *)
(* cache (bio.c) and the queue of the disk driver (ide.c), with crashes.   *)
(*                                                                         *)
(* A process is a stack of frames, what it has still to do, top first.     *)
(* A step is a piece of code that runs under log.lock, bcache.lock or      *)
(* idelock, or that needs the sleep lock of a buffer only; the disk        *)
(* interrupt is an action of its own.  Blocks 0 .. LOGSIZE - 1 are the     *)
(* log, its header first.  A block holds the number of the call that wrote *)
(* it last, and the header the list of the blocks the log holds.  bget()   *)
(* takes the least recently used of the buffers it may take, here any of   *)
(* them.                                                                   *)
(***************************************************************************)
EXTENDS Integers, Sequences, FiniteSets, SequencesExt, Functions

CONSTANTS Proc, NONE,
          Homes,        \* the blocks of the file system
          Calls,        \* what a system call may write: sequences of Homes
          LOGSIZE,      \* blocks of the log with its header (param.h: 30)
          MAXOPBLOCKS,  \* blocks a call may write (param.h: 10)
          NBUF,         \* buffers (param.h: 30)
          MaxCalls, MaxCrashes   \* bounds

ASSUME JournalAssumption ==
    /\ IsFiniteSet(Proc) /\ Proc # {} /\ NONE \notin Proc
    /\ LOGSIZE \in Nat /\ MAXOPBLOCKS \in 1 .. LOGSIZE /\ NBUF \in Nat \ {0}
    /\ Homes \cap (0 .. LOGSIZE - 1) = {}
    /\ \A ws \in Calls : ws \in Seq(Homes) /\ Cardinality(ToSet(ws)) <= MAXOPBLOCKS
    /\ MaxCalls \in Nat /\ MaxCrashes \in Nat

Header == 0
Block  == Homes \cup 0 .. LOGSIZE - 1

VARIABLES
    disk,         \* the content of every block
    cache,        \* the blocks that have a buffer, with that buffer
    idequeue,     \* the blocks whose buffers wait for the disk
    lh,           \* log.lh
    outstanding, committing,
    todo,         \* the frames of each process
    up,           \* initlog() has returned
    calls, crashes

log  == <<lh, outstanding, committing>>
vars == <<disk, cache, idequeue, log, todo, up, calls, crashes>>

Buffer(v, d, r, h, x) == [valid |-> v, dirty |-> d, refcnt |-> r, holder |-> h, data |-> x]

\* initlog(): the header is read, what it names installed, and it is cleared.
initlog == << <<"bread", Header>>, <<"read_head", Header>>, <<"brelse", Header>>,
              <<"install", 1>>, <<"clear", 0>>,
              <<"bread", Header>>, <<"write_head", 0>>, <<"brelse", Header>>,
              <<"up", 0>> >>

Boot == CHOOSE p \in Proc : TRUE

Booting == [p \in Proc |-> IF p = Boot THEN initlog ELSE <<>>]

Init ==
    /\ disk = [b \in Block |-> IF b = Header THEN <<>> ELSE 0]
    /\ cache = <<>> /\ idequeue = <<>>
    /\ lh = <<>> /\ outstanding = 0 /\ committing = FALSE
    /\ todo = Booting /\ up = FALSE
    /\ calls = 0 /\ crashes = 0

At(p, label) == todo[p] # <<>> /\ Head(todo[p])[1] = label
Arg(p)       == Head(todo[p])[2]

\* The frame on top gives way to others.
Do(p, frames) == todo' = [todo EXCEPT ![p] = frames \o Tail(@)]
Done(p)       == Do(p, <<>>)

Clean(b) == cache[b].valid /\ ~ cache[b].dirty

-----------------------------------------------------------------------------
(* ide.c *)

\* iderw() adds the buffer at the end of the queue.
Iderw(p) ==
    /\ At(p, "iderw") /\ ~ Clean(Arg(p))
    /\ idequeue' = Append(idequeue, Arg(p))
    /\ Do(p, << <<"sleep", Arg(p)>> >>)
    /\ UNCHANGED <<disk, cache, log, up, calls, crashes>>

\* It is woken up and finds the request served.
IderwReturns(p) ==
    /\ At(p, "sleep") /\ Clean(Arg(p))
    /\ Done(p)
    /\ UNCHANGED <<disk, cache, idequeue, log, up, calls, crashes>>

\* The disk has served the first buffer of the queue.
Ideintr ==
    /\ idequeue # <<>>
    /\ LET b == Head(idequeue) IN
       /\ IF cache[b].dirty
          THEN /\ disk' = [disk EXCEPT ![b] = cache[b].data]
               /\ cache' = [cache EXCEPT ![b].valid = TRUE, ![b].dirty = FALSE]
          ELSE /\ cache' = [cache EXCEPT ![b].valid = TRUE, ![b].data = disk[b]]
               /\ UNCHANGED disk
    /\ idequeue' = Tail(idequeue)
    /\ UNCHANGED <<log, todo, up, calls, crashes>>

-----------------------------------------------------------------------------
(* bio.c *)

Cached == DOMAIN cache

Recyclable == {b \in Cached : cache[b].refcnt = 0 /\ ~ cache[b].dirty}

BgetFinds(p) ==
    /\ At(p, "bread") /\ Arg(p) \in Cached
    /\ cache' = [cache EXCEPT ![Arg(p)].refcnt = @ + 1]
    /\ Do(p, << <<"acquire", Arg(p)>> >>)
    /\ UNCHANGED <<disk, idequeue, log, up, calls, crashes>>

\* What bget() may take for a block: a buffer not used yet, or of an old block.
Victims == IF Cardinality(Cached) < NBUF THEN {{}} ELSE {{b} : b \in Recyclable}

BgetRecycles(p) ==
    /\ At(p, "bread") /\ Arg(p) \notin Cached
    /\ \E old \in Victims :
          cache' = [b \in (Cached \ old) \cup {Arg(p)} |->
                       IF b = Arg(p) THEN Buffer(FALSE, FALSE, 1, NONE, 0) ELSE cache[b]]
    /\ Do(p, << <<"acquire", Arg(p)>> >>)
    /\ UNCHANGED <<disk, idequeue, log, up, calls, crashes>>

\* acquiresleep(), after which bread() reads what is not valid.
Acquire(p) ==
    /\ At(p, "acquire") /\ cache[Arg(p)].holder = NONE
    /\ cache' = [cache EXCEPT ![Arg(p)].holder = p]
    /\ IF cache[Arg(p)].valid THEN Done(p) ELSE Do(p, << <<"iderw", Arg(p)>> >>)
    /\ UNCHANGED <<disk, idequeue, log, up, calls, crashes>>

\* bwrite(), with the new content.
Bwrite(b, x, c) == [c EXCEPT ![b].dirty = TRUE, ![b].data = x]

Released(b, c) == [c EXCEPT ![b].holder = NONE, ![b].refcnt = @ - 1]

Brelse(p) ==
    /\ At(p, "brelse")
    /\ cache' = Released(Arg(p), cache)
    /\ Done(p)
    /\ UNCHANGED <<disk, idequeue, log, up, calls, crashes>>

-----------------------------------------------------------------------------
(* log.c *)

InTransaction(p) == \E i \in DOMAIN todo[p] : todo[p][i][1] = "end_op"

\* One system call: it writes blocks in one transaction, or it reads one.
CallWrites(p) ==
    /\ up /\ todo[p] = <<>> /\ calls < MaxCalls
    /\ \E ws \in Calls :
          todo' = [todo EXCEPT ![p] = << <<"begin_op", <<calls + 1, ws>>>> >>]
    /\ calls' = calls + 1
    /\ UNCHANGED <<disk, cache, idequeue, log, up, crashes>>

CallReads(p) ==
    /\ up /\ todo[p] = <<>> /\ calls < MaxCalls
    /\ \E b \in Homes : todo' = [todo EXCEPT ![p] = << <<"bread", b>>, <<"brelse", b>> >>]
    /\ calls' = calls + 1
    /\ UNCHANGED <<disk, cache, idequeue, log, up, crashes>>

\* What a call does between begin_op() and the end of end_op().
Body(id, ws) ==
    [k \in 1 .. 3 * Len(ws) + 1 |->
        LET b == ws[(k + 2) \div 3] IN
        IF k = 3 * Len(ws) + 1 THEN <<"end_op", 0>>
        ELSE CASE k % 3 = 1 -> <<"bread", b>>
               [] k % 3 = 2 -> <<"log_write", <<b, id>>>>
               [] OTHER -> <<"brelse", b>>]

\* A mutant of MustWait: a call starts while another commits.
MustWaitForSpace == Len(lh) + (outstanding + 1) * MAXOPBLOCKS > LOGSIZE

MustWait == committing \/ Len(lh) + (outstanding + 1) * MAXOPBLOCKS > LOGSIZE

BeginOp(p) ==
    /\ At(p, "begin_op") /\ ~ MustWait
    /\ outstanding' = outstanding + 1
    /\ Do(p, Body(Arg(p)[1], Arg(p)[2]))
    /\ UNCHANGED <<disk, cache, idequeue, lh, committing, up, calls, crashes>>

BeginOpSleeps(p) ==
    /\ At(p, "begin_op") /\ MustWait
    /\ Do(p, << <<"asleep", Arg(p)>> >>)
    /\ UNCHANGED <<disk, cache, idequeue, log, up, calls, crashes>>

\* wakeup(&log), as process p leaves a frame for others.
Woken(p, frames) ==
    [q \in Proc |-> IF q = p THEN frames \o Tail(todo[p])
                    ELSE IF At(q, "asleep") THEN << <<"begin_op", Arg(q)>> >>
                    ELSE todo[q]]

\* The block is changed, recorded in the log and pinned in the cache.
LogWrite(p) ==
    /\ At(p, "log_write") /\ Len(lh) < LOGSIZE - 1 /\ outstanding > 0
    /\ LET b == Arg(p)[1] IN
       /\ lh' = IF b \in ToSet(lh) THEN lh ELSE Append(lh, b)
       /\ cache' = Bwrite(b, Arg(p)[2], cache)
    /\ Done(p)
    /\ UNCHANGED <<disk, idequeue, outstanding, committing, up, calls, crashes>>

\* A mutant of commit: the header is written before the blocks it names.
CommitHeadFirst ==
    IF lh = <<>> THEN << <<"committed", 0>> >>
    ELSE << <<"bread", Header>>, <<"write_head", 0>>, <<"brelse", Header>>,
            <<"write_log", 1>>, <<"install", 1>>, <<"clear", 0>>,
            <<"bread", Header>>, <<"write_head", 0>>, <<"brelse", Header>>,
            <<"committed", 0>> >>

commit ==
    IF lh = <<>> THEN << <<"committed", 0>> >>
    ELSE << <<"write_log", 1>>,
            <<"bread", Header>>, <<"write_head", 0>>, <<"brelse", Header>>,
            <<"install", 1>>, <<"clear", 0>>,
            <<"bread", Header>>, <<"write_head", 0>>, <<"brelse", Header>>,
            <<"committed", 0>> >>

EndOp(p) ==
    /\ At(p, "end_op") /\ ~ committing
    /\ outstanding' = outstanding - 1
    /\ committing' = (outstanding = 1)
    /\ IF outstanding = 1 THEN Do(p, commit) ELSE todo' = Woken(p, <<>>)
    /\ UNCHANGED <<disk, cache, idequeue, lh, up, calls, crashes>>

\* A mutant of Committed: who waits for the commit is not woken up.
CommittedQuietly(p) ==
    /\ At(p, "committed")
    /\ committing' = FALSE
    /\ Done(p)
    /\ UNCHANGED <<disk, cache, idequeue, lh, outstanding, up, calls, crashes>>

Committed(p) ==
    /\ At(p, "committed")
    /\ committing' = FALSE
    /\ todo' = Woken(p, <<>>)
    /\ UNCHANGED <<disk, cache, idequeue, lh, outstanding, up, calls, crashes>>

\* write_log() and install_trans() read a block of the log and the block it is
\* for, then write one with the content of the other.
Copying(loop, copy, t, to) ==
    IF t > Len(lh) THEN <<>>
    ELSE << <<"bread", t>>, <<"bread", lh[t]>>, <<copy, t>>, <<"iderw", to>>,
            <<"brelse", t>>, <<"brelse", lh[t]>>, <<loop, t + 1>> >>

WriteLog(p) ==
    /\ At(p, "write_log")
    /\ Do(p, Copying("write_log", "to_log", Arg(p), Arg(p)))
    /\ UNCHANGED <<disk, cache, idequeue, log, up, calls, crashes>>

CopyToLog(p) ==
    /\ At(p, "to_log")
    /\ cache' = Bwrite(Arg(p), cache[lh[Arg(p)]].data, cache)
    /\ Done(p)
    /\ UNCHANGED <<disk, idequeue, log, up, calls, crashes>>

InstallTrans(p) ==
    /\ At(p, "install")
    /\ LET t == Arg(p)
       IN  Do(p, Copying("install", "to_home", t, IF t > Len(lh) THEN 0 ELSE lh[t]))
    /\ UNCHANGED <<disk, cache, idequeue, log, up, calls, crashes>>

CopyHome(p) ==
    /\ At(p, "to_home")
    /\ cache' = Bwrite(lh[Arg(p)], cache[Arg(p)].data, cache)
    /\ Done(p)
    /\ UNCHANGED <<disk, idequeue, log, up, calls, crashes>>

\* log.lh.n = 0
Clear(p) ==
    /\ At(p, "clear")
    /\ lh' = <<>>
    /\ Done(p)
    /\ UNCHANGED <<disk, cache, idequeue, outstanding, committing, up, calls, crashes>>

WriteHead(p) ==
    /\ At(p, "write_head")
    /\ cache' = Bwrite(Header, lh, cache)
    /\ Do(p, << <<"iderw", Header>> >>)
    /\ UNCHANGED <<disk, idequeue, log, up, calls, crashes>>

ReadHead(p) ==
    /\ At(p, "read_head")
    /\ lh' = cache[Header].data
    /\ Done(p)
    /\ UNCHANGED <<disk, cache, idequeue, outstanding, committing, up, calls, crashes>>

\* The first process goes on to run init.
Up(p) ==
    /\ At(p, "up")
    /\ up' = TRUE
    /\ Done(p)
    /\ UNCHANGED <<disk, cache, idequeue, log, calls, crashes>>

\* The machine stops and starts: only the disk stays.
Crash ==
    /\ crashes < MaxCrashes
    /\ cache' = <<>> /\ idequeue' = <<>>
    /\ lh' = <<>> /\ outstanding' = 0 /\ committing' = FALSE
    /\ todo' = Booting /\ up' = FALSE
    /\ crashes' = crashes + 1
    /\ UNCHANGED <<disk, calls>>

Step(p) ==
    \/ Iderw(p) \/ IderwReturns(p)
    \/ BgetFinds(p) \/ BgetRecycles(p) \/ Acquire(p) \/ Brelse(p)
    \/ BeginOp(p) \/ BeginOpSleeps(p) \/ LogWrite(p) \/ EndOp(p) \/ Committed(p)
    \/ WriteLog(p) \/ CopyToLog(p) \/ InstallTrans(p) \/ CopyHome(p)
    \/ Clear(p) \/ WriteHead(p) \/ ReadHead(p) \/ Up(p)

Next ==
    \/ \E p \in Proc : Step(p) \/ CallWrites(p) \/ CallReads(p)
    \/ Ideintr
    \/ Crash

\* Processes that can run do, and the disk answers.
Spec ==
    /\ Init /\ [][Next]_vars
    /\ \A p \in Proc : WF_vars(Step(p))
    /\ WF_vars(Ideintr)

-----------------------------------------------------------------------------
(* Properties *)

LogWritePanics(p) ==
    /\ At(p, "log_write")
    /\ \/ Len(lh) >= LOGSIZE - 1
       \/ outstanding < 1
       \/ cache[Arg(p)[1]].holder # p

BgetPanics(p)  == At(p, "bread") /\ Arg(p) \notin Cached /\ Victims = {}

IderwPanics(p) == At(p, "iderw") /\ (Clean(Arg(p)) \/ cache[Arg(p)].holder # p)

BrelsePanics(p) == At(p, "brelse") /\ cache[Arg(p)].holder # p

EndOpPanics(p) == At(p, "end_op") /\ committing

\* The reservation begin_op() makes is enough: no log_write() finds the log
\* full (log.c:218), the cache has a buffer for the committer although the log
\* pins dirty ones (bio.c:92), no buffer is given to the disk twice (ide.c:145)
\* or released by another (bio.c:124), and no call ends during a commit
\* (log.c:153).
NoPanic ==
    \A p \in Proc :
        ~ (\/ LogWritePanics(p) \/ BgetPanics(p) \/ IderwPanics(p)
           \/ BrelsePanics(p) \/ EndOpPanics(p))

\* What recovery would make of the disk as it is.
Recovered ==
    [b \in Homes |-> IF b \in ToSet(disk[Header])
                     THEN disk[CHOOSE i \in DOMAIN disk[Header] : disk[Header][i] = b]
                     ELSE disk[b]]

\* What a read of a block returns.
Seen ==
    [b \in Homes |-> IF up /\ b \in Cached /\ cache[b].valid
                     THEN cache[b].data ELSE Recovered[b]]

Atomic ==
    INSTANCE AtomicCalls WITH
        Caller <- Proc, Block <- Homes, Data <- 0 .. MaxCalls,
        store <- Recovered, memory <- Seen, active <- {p \in Proc : InTransaction(p)}

\* The writes of a call are durable together, the commit never takes a part of
\* a call (log.c:11-15), and a buffer that was evicted and read again still
\* holds what was written to it: whatever the crash interrupts.
CallsAreAtomic == Atomic!Spec

\* A call that waits for the log, a buffer or the disk goes on in the end:
\* every sleep has its wakeup, unless the machine stops.
CallsEnd == \A p \in Proc : (todo[p] # <<>>) ~> (todo[p] = <<>>)

=============================================================================
