------------------------------- MODULE Inodes -------------------------------
(***************************************************************************)
(* The inode layer of Project3 (fs.c): inodes on disk and in the inode      *)
(* cache, their sleep locks, directories and the walk of a path.            *)
(*                                                                         *)
(* A step is what a process does from one acquiresleep() to the next: what   *)
(* it changes meanwhile is under a lock it holds.  A process runs the labels *)
(* of its stack pc, the first one first, and a call pushes the labels of     *)
(* the function called.  A label that waits for a lock is a frame that       *)
(* stays on top until the lock is free.  An entry of the inode cache is      *)
(* named by the number of the inode it holds.                              *)
(***************************************************************************)
EXTENDS Integers, Sequences, FiniteSets, SequencesExt, TLC

CONSTANTS Proc,      \* processes
          NINODES,   \* inodes on disk: 1 .. NINODES
          Name,      \* names in directories, "." and ".." among them
          Image      \* what is there at first, see ImageAssumption

Inum == 1 .. NINODES
ROOTINO == 1
None == 0            \* a null pointer to an inode, or a free directory entry

NoProc == "nobody"
Path == Seq(Name \cup {"/"})    \* "/" stands for the slash a path starts with
Dinode == [type : {"free", "dir", "file", "dev", "sym"}, nlink : Nat]
NotValid == [type |-> "?", nlink |-> 0]

\* disk, dir and text, as mkfs and earlier calls have left them.
ASSUME ImageAssumption ==
    /\ NINODES \in Nat /\ ROOTINO \in Inum /\ IsFiniteSet(Proc)
    /\ {".", ".."} \subseteq Name /\ NoProc \notin Proc
    /\ Image.disk \in [Inum -> Dinode] /\ Image.disk[ROOTINO].type = "dir"
    /\ Image.dir \in [Inum -> [Name -> Inum \cup {None}]]
    /\ DOMAIN Image.text = Inum

VARIABLES
    disk,    \* dinodes, as the buffer cache has them
    dir,     \* the entries of a directory
    text,    \* the path a symbolic link holds
    ref,     \* ip->ref
    cache,   \* ip->type and ip->nlink, or NotValid when ip->valid is 0
    lock,    \* the process that holds ip->lock
    pc,      \* what a process has to do: a stack of <<label, inode>>
    at,      \* namex()'s ip, and what namex() and create() return
    path,    \* what namex() has not walked yet
    wantdir, \* nameiparent
    name,    \* namex()'s name
    cwd,     \* proc->cwd
    inop     \* the processes between begin_op() and end_op()

fsvars == <<disk, dir, text, ref, cache, lock, cwd>>
walkvars == <<at, path, wantdir, name>>

-----------------------------------------------------------------------------
(* Frames, locks and references. *)

At(p, l) == pc[p] # <<>> /\ Head(pc[p])[1] = l
Idle(p)  == pc[p] = <<>> /\ cwd[p] # None

\* p returns from the function on top, to do frames next.
Then(p, frames) == pc' = [pc EXCEPT ![p] = frames \o Tail(@)]

Put(i) == <<"iput", i>>

Free(i) == lock[i] = NoProc

\* ilock() reads the dinode when the entry is not valid.
Loaded(i) == IF cache[i] = NotValid THEN disk[i] ELSE cache[i]

\* ilock(i) returns: the lock is free and the inode is allocated.
CanLock(i) == Free(i) /\ Loaded(i).type # "free"

Locked(p, i) == lock' = [lock EXCEPT ![i] = p]
Unlocked(i)  == lock' = [lock EXCEPT ![i] = NoProc]
Load(i)      == cache' = [cache EXCEPT ![i] = Loaded(i)]

\* iget() and idup(): an entry nobody refers to is recycled, and not valid.
Iget(i) ==
    /\ ref' = [ref EXCEPT ![i] = @ + 1]
    /\ cache' = [cache EXCEPT ![i] = IF ref[i] = 0 THEN NotValid ELSE @]

\* ilock(i) and, while it is held, iget(j).
LoadAndGet(i, j) ==
    /\ ref' = [ref EXCEPT ![j] = @ + 1]
    /\ cache' = [[cache EXCEPT ![i] = Loaded(i)]
                     EXCEPT ![j] = IF ref[j] = 0 THEN NotValid ELSE @]

\* The inode i alone, as e; and some inodes as in new, the others as in old.
Just(i, e) == [j \in {i} |-> e]
Over(new, old) ==
    [i \in DOMAIN new \cup DOMAIN old |-> IF i \in DOMAIN new THEN new[i] ELSE old[i]]

\* iupdate() of the inodes in the domain of new.
Iupdate(new) ==
    /\ disk' = Over(new, disk)
    /\ cache' = Over(new, cache)

Linked(i, n) == Just(i, [Loaded(i) EXCEPT !.nlink = @ + n])

\* log_write() panics when nobody is in a transaction ("outside of trans").
LogPanics == inop = {}

-----------------------------------------------------------------------------
(* iput(): lock the inode; if this is the last reference to an inode without  *)
(* links, free it; then drop the reference.                                *)

Orphan(i) == cache[i] # NotValid /\ cache[i].nlink = 0

\* The usual case: nothing is seen of the lock but the wait for it.
Iput(p) ==
    /\ At(p, "iput")
    /\ LET i == Head(pc[p])[2] IN
         /\ Free(i)
         /\ ~ Orphan(i)
         /\ ref' = [ref EXCEPT ![i] = @ - 1]
         /\ Then(p, <<>>)
    /\ UNCHANGED <<disk, dir, text, cache, lock, cwd, walkvars, inop>>

\* Mutant: other references are not looked for.
IputFreesInUse(p) ==
    /\ At(p, "iput")
    /\ LET i == Head(pc[p])[2] IN
         /\ Free(i)
         /\ Orphan(i)
         /\ Locked(p, i)
         /\ Then(p, <<<<"itrunc", i>>>>)
    /\ UNCHANGED <<disk, dir, text, ref, cache, cwd, walkvars, inop>>

\* No links: the references are counted, and dropped only later.
IputOrphan(p) ==
    /\ At(p, "iput")
    /\ LET i == Head(pc[p])[2] IN
         /\ Free(i)
         /\ Orphan(i)
         /\ IF ref[i] = 1
            THEN Locked(p, i) /\ Then(p, <<<<"itrunc", i>>>>)
            ELSE UNCHANGED lock /\ Then(p, <<<<"unref", i>>>>)
    /\ UNCHANGED <<disk, dir, text, ref, cache, cwd, walkvars, inop>>

\* itrunc() and iupdate(): from here on ialloc() may take the inode.
Itrunc(p) ==
    /\ At(p, "itrunc")
    /\ ~ LogPanics
    /\ LET i == Head(pc[p])[2] IN
         /\ Iupdate(Just(i, [type |-> "free", nlink |-> 0]))
         /\ dir' = [dir EXCEPT ![i] = [n \in Name |-> None]]
         /\ text' = [text EXCEPT ![i] = <<>>]
         /\ Then(p, <<<<"release", i>>>>)
    /\ UNCHANGED <<ref, lock, cwd, walkvars, inop>>

\* Mutant: the entry stays valid.
IputStaysValid(p) ==
    /\ At(p, "release")
    /\ LET i == Head(pc[p])[2] IN
         /\ Unlocked(i)
         /\ Then(p, <<<<"unref", i>>>>)
    /\ UNCHANGED <<disk, dir, text, ref, cache, cwd, walkvars, inop>>

\* The entry is not valid any more when others may lock it.
IputRelease(p) ==
    /\ At(p, "release")
    /\ LET i == Head(pc[p])[2] IN
         /\ cache' = [cache EXCEPT ![i] = NotValid]
         /\ Unlocked(i)
         /\ Then(p, <<<<"unref", i>>>>)
    /\ UNCHANGED <<disk, dir, text, ref, cwd, walkvars, inop>>

Unref(p) ==
    /\ At(p, "unref")
    /\ ref' = [ref EXCEPT ![Head(pc[p])[2]] = @ - 1]
    /\ Then(p, <<>>)
    /\ UNCHANGED <<disk, dir, text, cache, lock, cwd, walkvars, inop>>

-----------------------------------------------------------------------------
(* namex() *)

\* namex() takes a reference to where the path starts; frames follow.
StartOf(p, pth) == IF pth # <<>> /\ Head(pth) = "/" THEN ROOTINO ELSE cwd[p]
ElementsOf(pth) == IF pth # <<>> /\ Head(pth) = "/" THEN Tail(pth) ELSE pth

WalkFrom(p, pth, parent, frames) ==
    /\ at' = [at EXCEPT ![p] = StartOf(p, pth)]
    /\ path' = [path EXCEPT ![p] = ElementsOf(pth)]
    /\ wantdir' = [wantdir EXCEPT ![p] = parent]
    /\ pc' = [pc EXCEPT ![p] = <<<<"namex", None>>>> \o frames]
    /\ UNCHANGED name

\* The path is walked.
WalkEnds(p) ==
    /\ At(p, "namex")
    /\ path[p] = <<>>
    /\ IF wantdir[p]
       THEN at' = [at EXCEPT ![p] = None] /\ Then(p, <<Put(at[p])>>)
       ELSE UNCHANGED at /\ Then(p, <<>>)
    /\ UNCHANGED <<fsvars, path, wantdir, name, inop>>

\* One element: the directory is locked, searched and given back.
WalkStep(p) ==
    /\ At(p, "namex")
    /\ path[p] # <<>>
    /\ LET i == at[p]  e == Head(path[p])  next == dir[i][e] IN
         /\ CanLock(i)
         /\ name' = [name EXCEPT ![p] = e]
         /\ path' = [path EXCEPT ![p] = Tail(@)]
         /\ \/ /\ Loaded(i).type # "dir"
               /\ at' = [at EXCEPT ![p] = None]
               /\ Then(p, <<Put(i)>>)
               /\ Load(i) /\ UNCHANGED ref
            \/ /\ Loaded(i).type = "dir" /\ wantdir[p] /\ Len(path[p]) = 1
               /\ Then(p, <<>>)
               /\ Load(i) /\ UNCHANGED <<ref, at>>
            \/ /\ Loaded(i).type = "dir" /\ ~ (wantdir[p] /\ Len(path[p]) = 1)
               /\ at' = [at EXCEPT ![p] = next]
               /\ IF next = None
                  THEN Then(p, <<Put(i)>>) /\ Load(i) /\ UNCHANGED ref
                  ELSE Then(p, <<Put(i), <<"namex", None>>>>) /\ LoadAndGet(i, next)
    /\ UNCHANGED <<disk, dir, text, lock, cwd, wantdir, inop>>

-----------------------------------------------------------------------------
\* What a process that has done nothing yet looks like.
FsInit ==
    /\ disk = Image.disk /\ dir = Image.dir /\ text = Image.text
    /\ cache = [i \in Inum |-> NotValid]
    /\ lock = [i \in Inum |-> NoProc]
    /\ pc = [p \in Proc |-> <<>>]
    /\ at = [p \in Proc |-> None]
    /\ path = [p \in Proc |-> <<>>]
    /\ wantdir = [p \in Proc |-> FALSE]
    /\ name = [p \in Proc |-> "."]
    /\ inop = {}

FsStep(p) ==
    \/ Iput(p) \/ IputOrphan(p) \/ Itrunc(p) \/ IputRelease(p) \/ Unref(p)
    \/ WalkEnds(p) \/ WalkStep(p)
=============================================================================
