-------------------------------- MODULE Shell --------------------------------
(***************************************************************************)
(* What happens when somebody types a command: the console (console.c),    *)
(* pipes (pipe.c), open files (file.c) and processes (proc.c) of Project3, *)
(* under init, the shell and its programs (init.c, sh.c, cat.c, wc.c).     *)
(*                                                                         *)
(* A process is a stack of frames, what it has still to do, top first;     *)
(* eax is the result of its last system call.  A step is a part of a       *)
(* system call that runs under one spin lock.  A process that has found    *)
(* it must sleep keeps the lock until it sleeps ("FALLING"): on another    *)
(* CPU a kill() may come between.  The console is a character at a time;   *)
(* Parse is what parsecmd() makes of a line.                               *)
(***************************************************************************)
EXTENDS Pipe, FiniteSets, SequencesExt, FiniteSetsExt

CONSTANTS NPROC, NOFILE, NFILE,
          NPIPE,       \* pages kalloc() has left for pipes
          INPUT_BUF,   \* the console's buffer (128)
          BUFSIZE,     \* what cat and wc read at a time
          Scripts,     \* what may be typed
          Parse(_)     \* the command a line stands for

Slot == 1 .. NPROC
FD   == 0 .. NOFILE - 1
File == 1 .. NFILE
PipeId == 1 .. NPIPE
init == 1

ASSUME ShellAssumption ==
    /\ NPROC \in Nat \ {0} /\ NOFILE \in Nat /\ NOFILE > 2
    /\ NFILE \in Nat \ {0} /\ NPIPE \in Nat
    /\ INPUT_BUF \in Nat \ {0} /\ BUFSIZE \in Nat \ {0}
    /\ Scripts \subseteq Seq(Byte)

VARIABLES
    proc,      \* ptable
    nextpid,
    ftable,    \* the open files
    pipes,     \* the pipes, FREE when their page is
    input,     \* the console's input
    typing,    \* what is still to be typed
    sent, got  \* what has gone into and come out of each pipe (history)

vars == <<proc, nextpid, ftable, pipes, input, typing, sent, got>>

Failed == [ok |-> FALSE, n |-> 0, bytes |-> <<>>, fds |-> <<>>]

Free == [state |-> "UNUSED", pid |-> 0, parent |-> 0, killed |-> FALSE,
         chan |-> <<>>, ofile |-> [fd \in FD |-> 0], todo |-> <<>>, eax |-> Failed]

FREE == [open |-> FALSE]

NoFile == [ref |-> 0, type |-> "none", pipe |-> 0, writable |-> FALSE]

\* init has opened the console and duplicated it twice.
Init ==
    /\ proc = [s \in Slot |->
                 IF s = init
                 THEN [Free EXCEPT !.state = "RUNNABLE", !.pid = 1,
                                   !.ofile = [fd \in FD |-> IF fd < 3 THEN 1 ELSE 0],
                                   !.todo = << <<"fork", << <<"sh", 0>> >> >>, <<"init2", 0>> >>]
                 ELSE Free]
    /\ nextpid = 2
    /\ ftable = [f \in File |-> IF f = 1 THEN [NoFile EXCEPT !.ref = 3, !.type = "console"]
                                ELSE NoFile]
    /\ pipes = [i \in PipeId |-> FREE]
    /\ input = [text |-> [k \in 0 .. INPUT_BUF - 1 |-> Blank], r |-> 0, w |-> 0, e |-> 0]
    /\ typing \in Scripts
    /\ sent = [i \in PipeId |-> <<>>] /\ got = [i \in PipeId |-> <<>>]

-----------------------------------------------------------------------------
(* The programs: what follows when a frame of theirs is on top *)

exit == << <<"exit", 0>> >>

DoRead(fd, n)   == <<"read", [fd |-> fd, n |-> n]>>
DoWrite(fd, bs) == <<"write", [fd |-> fd, bytes |-> bs]>>

\* exec() of a program by its name; one that is not found exits.
Program(cmd) ==
    CASE cmd.prog = "cat"  -> << DoRead(0, BUFSIZE), <<"cat", 0>> >>
      [] cmd.prog = "wc"   -> << DoRead(0, BUFSIZE), <<"wc", 0>> >>
      [] cmd.prog = "echo" -> [k \in DOMAIN cmd.args |-> DoWrite(1, <<cmd.args[k]>>)] \o exit
      [] cmd.prog = "kill" -> << <<"kill", cmd.pid>> >> \o exit
      [] OTHER -> exit

\* runcmd() of sh.c
Forks(frames) == <<"fork", frames>>

Runcmd(cmd) ==
    CASE cmd.type = "EXEC" -> Program(cmd)
      [] cmd.type = "LIST" ->
            << Forks(<< <<"runcmd", cmd.left>> >>), <<"wait", 0>>, <<"runcmd", cmd.right>> >>
      [] cmd.type = "PIPE" -> << <<"pipe", 0>>, <<"piped", cmd>> >>
      [] cmd.type = "BACK" -> << Forks(<< <<"runcmd", cmd.cmd>> >>) >> \o exit

\* A mutant of Piped: the right side keeps the end it does not write to.
PipedLeaks(cmd, pp) ==
    << Forks(<< <<"close", 1>>, <<"dup", pp[2]>>, <<"close", pp[1]>>, <<"close", pp[2]>>,
                <<"runcmd", cmd.left>> >>),
       Forks(<< <<"close", 0>>, <<"dup", pp[1]>>, <<"close", pp[1]>>, <<"runcmd", cmd.right>> >>),
       <<"close", pp[1]>>, <<"close", pp[2]>>, <<"wait", 0>>, <<"wait", 0>> >> \o exit

\* A pipeline, with the two descriptors pipe() returned.
Piped(cmd, pp) ==
    << Forks(<< <<"close", 1>>, <<"dup", pp[2]>>, <<"close", pp[1]>>, <<"close", pp[2]>>,
                <<"runcmd", cmd.left>> >>),
       Forks(<< <<"close", 0>>, <<"dup", pp[1]>>, <<"close", pp[1]>>, <<"close", pp[2]>>,
                <<"runcmd", cmd.right>> >>),
       <<"close", pp[1]>>, <<"close", pp[2]>>, <<"wait", 0>>, <<"wait", 0>> >> \o exit

\* A read failed or there is nothing more.
AtEnd(eax) == ~ eax.ok \/ eax.bytes = <<>>

\* getcmd() and main() of sh.c, with what has been read of the line: gets()
\* reads a character at a time, up to the end of the line.
Getcmd(line, eax) ==
    LET eof == AtEnd(eax)
        now == IF eof THEN line ELSE line \o eax.bytes
    IN  IF ~ eof /\ Last(now) # "\n" THEN << DoRead(0, 1), <<"getcmd", now>> >>
        ELSE IF now = <<>> THEN exit
        ELSE << Forks(<< <<"runcmd", Parse(now)>> >>), <<"wait", 0>>, <<"sh", 0>> >>

\* cat writes what it has read, and exits when it cannot or there is nothing.
Cat(eax) ==
    IF AtEnd(eax) THEN exit ELSE << DoWrite(1, eax.bytes), <<"cat2", Len(eax.bytes)>> >>

\* What a frame of a program stands for, given the result of the last call.
Expanded(label, arg, eax) ==
    CASE label = "init"   -> << Forks(<< <<"sh", 0>> >>), <<"init2", 0>> >>
      [] label = "init2"  -> << <<"wait", 0>>, <<"init3", eax.n>> >>
      [] label = "init3"  -> IF eax.ok /\ eax.n # arg THEN << <<"wait", 0>>, <<"init3", arg>> >>
                             ELSE << <<"init", 0>> >>
      [] label = "sh"     -> << DoRead(0, 1), <<"getcmd", <<>> >> >>
      [] label = "getcmd" -> Getcmd(arg, eax)
      [] label = "runcmd" -> Runcmd(arg)
      [] label = "piped"  -> Piped(arg, eax.fds)
      [] label = "cat"    -> Cat(eax)
      [] label = "cat2"   -> IF eax.ok /\ eax.n = arg THEN << DoRead(0, BUFSIZE), <<"cat", 0>> >> ELSE exit
      [] label = "wc"     -> IF ~ AtEnd(eax) THEN << DoRead(0, BUFSIZE), <<"wc", 0>> >>
                             ELSE << DoWrite(1, <<Blank>>) >> \o exit

Programs == {"init", "init2", "init3", "sh", "getcmd", "runcmd", "piped", "cat", "cat2", "wc"}

\* A process computes up to its next system call, which no one else can see.
Computes(q) ==
    IF q.todo # <<>> /\ Head(q.todo)[1] \in Programs
    THEN [q EXCEPT !.todo = Expanded(Head(@)[1], Head(@)[2], q.eax) \o Tail(@)]
    ELSE q

\* No frame of a program stands for more than two others on top.
Runs(q) == Computes(Computes(Computes(q)))

-----------------------------------------------------------------------------
(* proc.c: the table of processes *)

Label(p) == IF proc[p].todo = <<>> THEN "none" ELSE Head(proc[p].todo)[1]
Arg(p)   == Head(proc[p].todo)[2]

\* The spin lock a process that falls asleep on a channel still holds.
LockOf(chan) == IF chan = <<>> THEN <<>> ELSE <<chan[1], chan[2]>>

\* A mutant of IsFree: sleep() gives the lock back before the process sleeps.
IsFreeTooEarly(lock) == TRUE

IsFree(lock) ==
    \A q \in Slot : proc[q].state = "FALLING" => LockOf(proc[q].chan) # lock

\* The frames where the process runs in the kernel, killed or not.
InKernel == {"piperead", "pipewrite", "consoleread", "pipeclose", "exit", "wait2"}

At(p, label) ==
    /\ proc[p].state = "RUNNABLE" /\ Label(p) = label
    /\ proc[p].killed => label \in InKernel

\* The process after a step: other frames instead of the one on top.
Does(q, frames) == [q EXCEPT !.todo = frames \o Tail(@)]

\* A system call ends and returns a value.
Returns(q, v) == Runs([Does(q, <<>>) EXCEPT !.eax = [Failed EXCEPT !.ok = TRUE, !.n = v]])

\* read() and pipe() also leave something in the memory of the process.
Reads(q, bs) ==
    Runs([Does(q, <<>>) EXCEPT !.eax = [Failed EXCEPT !.ok = TRUE, !.bytes = bs]])

Makes(q, fds) ==
    Runs([Does(q, <<>>) EXCEPT !.eax = [Failed EXCEPT !.ok = TRUE, !.fds = fds]])

\* It ends with -1.
FailsCall(q) == Runs([Does(q, <<>>) EXCEPT !.eax = Failed])

Falls(q, frames, chan) == [Does(q, frames) EXCEPT !.state = "FALLING", !.chan = chan]

Set(p, q) == proc' = [proc EXCEPT ![p] = q]

\* wakeup()
Woken(ps, chan) ==
    [s \in Slot |-> IF ps[s].state = "SLEEPING" /\ ps[s].chan = chan
                    THEN [ps[s] EXCEPT !.state = "RUNNABLE", !.chan = <<>>] ELSE ps[s]]

\* sleep() releases the lock once the process sleeps.
Sleep(p) ==
    /\ proc[p].state = "FALLING"
    /\ Set(p, [proc[p] EXCEPT !.state = "SLEEPING"])
    /\ UNCHANGED <<nextpid, ftable, pipes, input, typing, sent, got>>

Children(p) == {s \in Slot : proc[s].parent = p}

WaitChan(p) == <<"wait", p, 0>>

InWait(p) == At(p, "wait") \/ At(p, "wait2")

Zombies(p) == {s \in Children(p) : proc[s].state = "ZOMBIE"}

\* wait(): reap a child, give up, or sleep, under ptable.lock.
WaitReaps(p) ==
    /\ InWait(p) /\ Zombies(p) # {}
    /\ LET s == Min(Zombies(p))
       IN  proc' = [proc EXCEPT ![p] = Returns(@, proc[s].pid), ![s] = Free]
    /\ UNCHANGED <<nextpid, ftable, pipes, input, typing, sent, got>>

WaitFails(p) ==
    /\ InWait(p) /\ Zombies(p) = {}
    /\ Children(p) = {} \/ proc[p].killed
    /\ Set(p, FailsCall(proc[p]))
    /\ UNCHANGED <<nextpid, ftable, pipes, input, typing, sent, got>>

WaitSleeps(p) ==
    /\ InWait(p) /\ Zombies(p) = {}
    /\ Children(p) # {} /\ ~ proc[p].killed
    /\ Set(p, [Does(proc[p], << <<"wait2", 0>> >>) EXCEPT !.state = "SLEEPING",
                                                          !.chan = WaitChan(p)])
    /\ UNCHANGED <<nextpid, ftable, pipes, input, typing, sent, got>>

Unused == {s \in Slot : proc[s].state = "UNUSED"}

\* fork() takes a slot, copies the process and lets the copy run; nothing but a
\* kill() looks at the slot in between.  What the child does, the code after
\* fork() returned 0, is the argument.
Fork(p) ==
    /\ At(p, "fork") /\ Unused # {}
    /\ LET s     == Min(Unused)
           child == [proc[s] EXCEPT !.state = "RUNNABLE", !.pid = nextpid, !.parent = p,
                                    !.ofile = proc[p].ofile, !.todo = Arg(p)]
       IN  proc' = [proc EXCEPT ![p] = Returns(@, nextpid), ![s] = Runs(child)]
    /\ nextpid' = nextpid + 1
    /\ ftable' = [f \in File |->
                    [ftable[f] EXCEPT !.ref = @ + Cardinality({fd \in FD : proc[p].ofile[fd] = f})]]
    /\ UNCHANGED <<pipes, input, typing, sent, got>>

\* There is no slot: fork1() panics, which exits.
ForkFails(p) ==
    /\ At(p, "fork") /\ Unused = {}
    /\ Set(p, Does(proc[p], << <<"exit", 0>> >>))
    /\ UNCHANGED <<nextpid, ftable, pipes, input, typing, sent, got>>

\* kill(): a process with the pid is marked, and woken up wherever it sleeps.
Killed(q) ==
    [q EXCEPT !.killed = TRUE,
              !.state = IF @ = "SLEEPING" THEN "RUNNABLE" ELSE @,
              !.chan = IF q.state = "SLEEPING" THEN <<>> ELSE @]

Kill(p) ==
    /\ At(p, "kill")
    /\ LET found == {s \in Slot : proc[s].pid = Arg(p)}
           after == IF found = {} THEN proc
                    ELSE [proc EXCEPT ![Min(found)] = Killed(@)]
       IN  proc' = [after EXCEPT ![p] = IF found = {} THEN FailsCall(@) ELSE Returns(@, 0)]
    /\ UNCHANGED <<nextpid, ftable, pipes, input, typing, sent, got>>

\* trap(): a killed process exits when it enters or leaves the kernel.
KilledExits(p) ==
    /\ proc[p].state = "RUNNABLE" /\ proc[p].killed
    /\ proc[p].todo = <<>> \/ Label(p) \notin InKernel
    /\ Set(p, [proc[p] EXCEPT !.todo = << <<"exit", 0>> >>])
    /\ UNCHANGED <<nextpid, ftable, pipes, input, typing, sent, got>>

Open(p) == {fd \in FD : proc[p].ofile[fd] # 0}

\* exit(), once the files are closed: it wakes the parent, gives its children
\* to init and becomes a zombie.
Exit(p) ==
    /\ At(p, "exit") /\ Open(p) = {}
    /\ LET adopted == [s \in Slot |-> IF proc[s].parent = p THEN [proc[s] EXCEPT !.parent = init]
                                      ELSE proc[s]]
           gone    == [adopted EXCEPT ![p].state = "ZOMBIE", ![p].todo = <<>>]
           told    == Woken(gone, WaitChan(proc[p].parent))
       IN  proc' = IF Zombies(p) # {}
                   THEN Woken(told, WaitChan(init)) ELSE told
    /\ UNCHANGED <<nextpid, ftable, pipes, input, typing, sent, got>>

-----------------------------------------------------------------------------
(* file.c, sysfile.c and pipe.c *)

FreeFDs(p)  == {fd \in FD : proc[p].ofile[fd] = 0}
FreeFiles   == {f \in File : ftable[f].ref = 0}
FreePipes   == {i \in PipeId : pipes[i] = FREE}

CanPipe(p) == Cardinality(FreeFiles) > 1 /\ Cardinality(FreeFDs(p)) > 1 /\ FreePipes # {}

\* pipe() makes a pipe, a file for each end, and a descriptor for each file.
MakePipe(p) ==
    /\ At(p, "pipe") /\ CanPipe(p)
    /\ LET i  == Min(FreePipes)
           rf == Min(FreeFiles)     wf == Min(FreeFiles \ {rf})
           r  == Min(FreeFDs(p))    w  == Min(FreeFDs(p) \ {r})
       IN  /\ pipes' = [pipes EXCEPT ![i] = [open |-> TRUE, ring |-> NewRing,
                                             readopen |-> TRUE, writeopen |-> TRUE]]
           /\ ftable' = [ftable EXCEPT
                ![rf] = [ref |-> 1, type |-> "pipe", pipe |-> i, writable |-> FALSE],
                ![wf] = [ref |-> 1, type |-> "pipe", pipe |-> i, writable |-> TRUE]]
           /\ Set(p, [Makes(proc[p], <<r, w>>) EXCEPT !.ofile[r] = rf, !.ofile[w] = wf])
           /\ sent' = [sent EXCEPT ![i] = <<>>] /\ got' = [got EXCEPT ![i] = <<>>]
    /\ UNCHANGED <<nextpid, input, typing>>

\* A file, a page or a descriptor is missing: the shell panics.
PipeFails(p) ==
    /\ At(p, "pipe") /\ ~ CanPipe(p)
    /\ Set(p, Does(proc[p], << <<"exit", 0>> >>))
    /\ UNCHANGED <<nextpid, ftable, pipes, input, typing, sent, got>>

\* A mutant of Dup: the file is not counted again.
DupUncounted(p) ==
    /\ At(p, "dup")
    /\ LET fd == Min(FreeFDs(p))
       IN  Set(p, [Returns(proc[p], fd) EXCEPT !.ofile[fd] = proc[p].ofile[Arg(p)]])
    /\ UNCHANGED <<nextpid, ftable, pipes, input, typing, sent, got>>

Dup(p) ==
    /\ At(p, "dup")
    /\ LET f  == proc[p].ofile[Arg(p)]
           fd == Min(FreeFDs(p))
       IN  IF f = 0 \/ FreeFDs(p) = {}
           THEN Set(p, FailsCall(proc[p])) /\ UNCHANGED ftable
           ELSE /\ Set(p, [Returns(proc[p], fd) EXCEPT !.ofile[fd] = f])
                /\ ftable' = [ftable EXCEPT ![f].ref = @ + 1]
    /\ UNCHANGED <<nextpid, pipes, input, typing, sent, got>>

\* fileclose() of a descriptor: the last reference to a file for an end of a
\* pipe goes on to close the end.
Fileclose(p, fd, rest) ==
    LET f == proc[p].ofile[fd]
        q == [proc[p] EXCEPT !.ofile[fd] = 0, !.todo = rest]
    IN  IF ftable[f].ref > 1
        THEN Set(p, Runs(q)) /\ ftable' = [ftable EXCEPT ![f].ref = @ - 1]
        ELSE /\ ftable' = [ftable EXCEPT ![f] = NoFile]
             /\ Set(p, IF ftable[f].type = "pipe"
                       THEN [q EXCEPT !.todo = << <<"pipeclose", ftable[f]>> >> \o @] ELSE Runs(q))

Close(p) ==
    /\ At(p, "close")
    /\ IF proc[p].ofile[Arg(p)] = 0 THEN Set(p, FailsCall(proc[p])) /\ UNCHANGED ftable
       ELSE Fileclose(p, Arg(p), Tail(proc[p].todo))
    /\ UNCHANGED <<nextpid, pipes, input, typing, sent, got>>

\* exit() closes the files one after the other.
ExitCloses(p) ==
    /\ At(p, "exit") /\ Open(p) # {}
    /\ Fileclose(p, Min(Open(p)), proc[p].todo)
    /\ UNCHANGED <<nextpid, pipes, input, typing, sent, got>>

\* sys_read() and sys_write() find out what the file of a descriptor is: the
\* frame of the function they call.  The programs only use descriptors they have.
Called(p) ==
    LET frame == Head(proc[p].todo)
        arg   == frame[2]
        f     == proc[p].ofile[arg.fd]
        file  == IF f = 0 THEN NoFile ELSE ftable[f]
    IN  CASE Label(p) = "read" /\ file.type = "pipe" ->
               <<"piperead", [pipe |-> file.pipe, n |-> arg.n]>>
          [] Label(p) = "read" /\ file.type = "console" ->
               <<"consoleread", [n |-> arg.n, dst |-> <<>>]>>
          [] Label(p) = "write" /\ file.type = "pipe" ->
               <<"pipewrite", [pipe |-> file.pipe, bytes |-> arg.bytes, n |-> Len(arg.bytes)]>>
          [] Label(p) = "write" /\ file.type = "console" ->
               <<"consolewrite", Len(arg.bytes)>>
          [] OTHER -> frame

Calls(p, name) ==
    /\ proc[p].state = "RUNNABLE" /\ proc[p].todo # <<>> /\ Called(p)[1] = name

With(p) == Called(p)[2]

PipeLock(i)  == <<"pipe", i>>
ReadChan(i)  == <<"pipe", i, "nread">>
WriteChan(i) == <<"pipe", i, "nwrite">>

\* Closing an end wakes who waits at the other; the second one frees the pipe.
Pipeclose(p) ==
    /\ At(p, "pipeclose") /\ IsFree(PipeLock(Arg(p).pipe))
    /\ LET i == Arg(p).pipe
           closed == IF Arg(p).writable THEN [pipes[i] EXCEPT !.writeopen = FALSE]
                     ELSE [pipes[i] EXCEPT !.readopen = FALSE]
       IN  /\ pipes' = [pipes EXCEPT ![i] = IF closed.readopen \/ closed.writeopen
                                            THEN closed ELSE FREE]
           /\ proc' = Woken([proc EXCEPT ![p] = Returns(@, 0)],
                            IF Arg(p).writable THEN ReadChan(i) ELSE WriteChan(i))
    /\ UNCHANGED <<nextpid, ftable, input, typing, sent, got>>

\* pipewrite(): bytes go into the ring until it is full or all are in.
Pipewrite(p) ==
    /\ Calls(p, "pipewrite") /\ IsFree(PipeLock(With(p).pipe))
    /\ LET i    == With(p).pipe       s == With(p).bytes
           ring == pipes[i].ring
           room == Min({Len(s), PIPESIZE - Used(ring)})
           now  == SubSeq(s, 1, room)
           left == SubSeq(s, room + 1, Len(s))
           me   == IF left = <<>> THEN Returns(proc[p], With(p).n)
                   ELSE IF ~ pipes[i].readopen \/ proc[p].killed THEN FailsCall(proc[p])
                   ELSE Falls(proc[p], << <<"pipewrite", [With(p) EXCEPT !.bytes = left]>> >>,
                              WriteChan(i))
           quiet == left # <<>> /\ (~ pipes[i].readopen \/ proc[p].killed)
       IN  /\ pipes' = [pipes EXCEPT ![i].ring = PutBytes(ring, now)]
           /\ proc' = LET ps == [proc EXCEPT ![p] = me]
                      IN  IF quiet THEN ps ELSE Woken(ps, ReadChan(i))
           /\ sent' = [sent EXCEPT ![i] = @ \o now]
    /\ UNCHANGED <<nextpid, ftable, input, typing, got>>

\* piperead(): sleep while the pipe is empty and may be written to.
PipereadWaits(p) ==
    /\ Calls(p, "piperead") /\ IsFree(PipeLock(With(p).pipe))
    /\ IsEmpty(pipes[With(p).pipe].ring) /\ pipes[With(p).pipe].writeopen
    /\ Set(p, IF proc[p].killed THEN FailsCall(proc[p])
              ELSE Falls(proc[p], <<Called(p)>>, ReadChan(With(p).pipe)))
    /\ UNCHANGED <<nextpid, ftable, pipes, input, typing, sent, got>>

\* Otherwise it takes what there is, nothing at the end.
Piperead(p) ==
    /\ Calls(p, "piperead") /\ IsFree(PipeLock(With(p).pipe))
    /\ LET i    == With(p).pipe
           ring == pipes[i].ring
           n    == Min({Used(ring), With(p).n})
           bs   == SubSeq(Bytes(ring), 1, n)
       IN  /\ ~ (IsEmpty(ring) /\ pipes[i].writeopen)
           /\ pipes' = [pipes EXCEPT ![i].ring = DropBytes(ring, n)]
           /\ proc' = Woken([proc EXCEPT ![p] = Reads(@, bs)], WriteChan(i))
           /\ got' = [got EXCEPT ![i] = @ \o bs]
    /\ UNCHANGED <<nextpid, ftable, input, typing, sent>>

-----------------------------------------------------------------------------
(* console.c *)

ConsLock == <<"cons", 0>>
ConsChan == <<"cons", 0, "r">>

Consolewrite(p) ==
    /\ Calls(p, "consolewrite") /\ IsFree(ConsLock)
    /\ Set(p, Returns(proc[p], With(p)))
    /\ UNCHANGED <<nextpid, ftable, pipes, input, typing, sent, got>>

\* consoleintr(): a character erases, kills the line, or is added to it; the
\* end of a line, or a full buffer, is for the readers.
CharAt(k) == input.text[k % INPUT_BUF]

IsEnd(c) == c \in {"\n", "^D"}

\* A mutant of Completes: only the end of a line is for the readers.
CompletesLine(c) == IsEnd(c)

Completes(c) == IsEnd(c) \/ input.e + 1 = input.r + INPUT_BUF

Consoleintr ==
    /\ typing # <<>> /\ IsFree(ConsLock)
    /\ LET c    == Head(typing)
           ends == {k \in input.w .. input.e - 1 : CharAt(k) = "\n"}
           full == input.e - input.r >= INPUT_BUF
           last == Completes(c)
       IN  CASE c = "^U" ->
                  /\ input' = [input EXCEPT !.e = IF ends = {} THEN input.w ELSE Max(ends) + 1]
                  /\ UNCHANGED proc
             [] c = "^H" ->
                  /\ input' = [input EXCEPT !.e = IF @ # input.w THEN @ - 1 ELSE @]
                  /\ UNCHANGED proc
             [] c \notin {"^U", "^H"} /\ full -> UNCHANGED <<input, proc>>
             [] OTHER ->
                  /\ input' = [input EXCEPT !.text[input.e % INPUT_BUF] = c, !.e = @ + 1,
                                            !.w = IF last THEN input.e + 1 ELSE @]
                  /\ proc' = IF last THEN Woken(proc, ConsChan) ELSE proc
    /\ typing' = Tail(typing)
    /\ UNCHANGED <<nextpid, ftable, pipes, sent, got>>

\* consoleread(): up to n characters, to the end of a line; a ^D after others
\* is left for the next call.  It returns at the first place where it may, or
\* has taken all there is.
Consoleread(p) ==
    /\ Calls(p, "consoleread") /\ IsFree(ConsLock)
    /\ LET n    == With(p).n
           dst  == With(p).dst
           text == [k \in 1 .. input.w - input.r |-> CharAt(input.r + k - 1)]
           stops == {k \in DOMAIN text : IsEnd(text[k]) \/ Len(dst) + k = n}
           k    == Min(stops)
           eof  == text[k] = "^D"
           line == dst \o SubSeq(text, 1, IF eof THEN k - 1 ELSE k)
           all  == dst \o text
       IN  IF stops # {}
           THEN /\ Set(p, Reads(proc[p], line))
                /\ input' = [input EXCEPT !.r = @ + IF eof /\ line # <<>> THEN k - 1 ELSE k]
           ELSE /\ Set(p, IF proc[p].killed THEN FailsCall(proc[p])
                          ELSE Falls(proc[p], << <<"consoleread", [n |-> n, dst |-> all]>> >>,
                                     ConsChan))
                /\ input' = [input EXCEPT !.r = input.w]
    /\ UNCHANGED <<nextpid, ftable, pipes, typing, sent, got>>

-----------------------------------------------------------------------------
Step(p) ==
    \/ Sleep(p) \/ WaitReaps(p) \/ WaitFails(p) \/ WaitSleeps(p)
    \/ Fork(p) \/ ForkFails(p)
    \/ Kill(p) \/ KilledExits(p) \/ ExitCloses(p) \/ Exit(p)
    \/ MakePipe(p) \/ PipeFails(p) \/ Dup(p) \/ Close(p) \/ Pipeclose(p)
    \/ Pipewrite(p) \/ PipereadWaits(p) \/ Piperead(p)
    \/ Consoleread(p) \/ Consolewrite(p)

Next == (\E p \in Slot : Step(p)) \/ Consoleintr

\* scheduler() goes round the table: while some process can run, one does.
Spec == Init /\ [][Next]_vars /\ WF_vars(\E p \in Slot : Step(p))

-----------------------------------------------------------------------------
(* Properties *)

\* What is read from a pipe is what was written to it, in order, and what was
\* written and not read is in the ring, which never holds more than PIPESIZE
\* bytes (pipe.c:93, 116), although its counters wrap around.
PipesAreFifo ==
    \A i \in PipeId :
        pipes[i] # FREE =>
            /\ Valid(pipes[i].ring)
            /\ sent[i] = got[i] \o Bytes(pipes[i].ring)

\* Whoever sleeps still has a reason: no wakeup is lost, whichever CPU it comes
\* from (pipe.c:85-92 and 106-112, console.c:245-252, proc.c:303-310).  A kill()
\* that comes between the test of killed and sleep() is seen by no one but wait().
SleepersHaveReason ==
    \A p \in Slot :
        proc[p].state = "SLEEPING" =>
            CASE Label(p) = "piperead" ->
                   /\ IsEmpty(pipes[Arg(p).pipe].ring) /\ pipes[Arg(p).pipe].writeopen
              [] Label(p) = "pipewrite" ->
                   /\ IsFull(pipes[Arg(p).pipe].ring) /\ pipes[Arg(p).pipe].readopen
              [] Label(p) = "consoleread" -> input.r = input.w
              [] Label(p) = "wait2" ->
                   /\ Children(p) # {} /\ ~ proc[p].killed
                   /\ \A s \in Children(p) : proc[s].state # "ZOMBIE"

References(f) ==
    Cardinality({d \in Slot \X FD : proc[d[1]].ofile[d[2]] = f})

\* Every open file is counted once for each descriptor, and an end of a pipe is
\* open as long as a file for it (file.c:61-74, pipe.c:70-72).
EndsAreCounted ==
    /\ \A f \in File : ftable[f].ref = References(f)
    /\ \A i \in PipeId : \A writable \in BOOLEAN :
          LET users == {f \in File : ftable[f].ref > 0 /\ ftable[f].type = "pipe"
                                     /\ ftable[f].pipe = i /\ ftable[f].writable = writable}
              closers == {p \in Slot : Label(p) = "pipeclose" /\ Arg(p).pipe = i
                                       /\ Arg(p).writable = writable}
          IN  Cardinality(users) + Cardinality(closers)
                = IF pipes[i] # FREE /\ (IF writable THEN pipes[i].writeopen ELSE pipes[i].readopen)
                  THEN 1 ELSE 0

\* A process that reads or writes a pipe, or sleeps there, finds it in use.
PipesInUse ==
    \A p \in Slot :
        Label(p) \in {"piperead", "pipewrite"} => pipes[Arg(p).pipe] # FREE

\* An end of a pipe is open exactly as long as somebody can reach it: no pipe is
\* left that nobody can, and none is freed under a process in piperead() or
\* pipewrite() (file.c:61-74, pipe.c:70-76).
EndsAreOpen == EndsAreCounted /\ PipesInUse

\* The console's indices stay in order, and a full buffer holds something to
\* read, or no key could ever free it (console.c:217-224).
ConsoleCanBeRead ==
    /\ input.r <= input.w /\ input.w <= input.e /\ input.e <= input.r + INPUT_BUF
    /\ input.e = input.r + INPUT_BUF => input.r < input.w

AtConsole(p) == proc[p].state = "SLEEPING" /\ Label(p) = "consoleread"

\* A command that does not wait for the console ends, and the shell gets back to
\* its prompt: every reader of a pipe sees its end (sh.c:100-122).
CommandsEnd == [](<>(\E p \in Slot : AtConsole(p)))

=============================================================================
