----------------------------- MODULE FileCalls -----------------------------
(***************************************************************************)
(* The file system calls of Project3 (sysfile.c, file.c and the functions    *)
(* of fs.c that follow names back to paths) over the inode layer.            *)
(*                                                                         *)
(* A process makes the calls its program lists, each with any of the         *)
(* arguments given.  begin_op() and end_op() only mark the transaction here: *)
(* module Log is about what they do.                                       *)
(***************************************************************************)
EXTENDS Inodes, FiniteSetsExt

CONSTANTS NFILE,               \* entries of the file table
          NOFILE,              \* descriptors of a process
          MAX_SYMBOLIC_DEPTH,  \* links that open() follows
          MAXPATHDEPTH,        \* directories that get_inode_path() climbs
          Programs,            \* what may run: the calls of the processes, and
                               \* where they start (None: not forked yet)
          MaxCalls             \* per process, how many it makes

Fd == 1 .. NOFILE
File == 1 .. NFILE
NoCall == [op |-> "none"]

VARIABLES
    file,    \* the file table: ref and ip
    ofile,   \* proc->ofile, None for a free descriptor
    call,    \* the call a process is in
    ip,      \* what the functions below call ip, old or new inode
    dp,      \* the directory that unlink(), create() or link() has locked
    seen,    \* sym_list of open()
    climbed, \* how far get_inode_path() has come
    result,  \* the path get_realpath() has found
    left,    \* calls still to be made
    program  \* the one of Programs that runs

callvars == <<file, ofile, call, ip, dp, seen, climbed, result, left, program>>
vars == <<fsvars, walkvars, pc, inop, callvars>>

ASSUME CallsAssumption ==
    /\ NFILE \in Nat \ {0} /\ NOFILE \in Nat \ {0} /\ MaxCalls \in Nat
    /\ MAX_SYMBOLIC_DEPTH \in Nat \ {0} /\ MAXPATHDEPTH \in Nat \ {0}

\* The calls that take a path, and what a process may ask of them.
PathCalls == {"open", "creat", "mkdir", "mknod", "link", "unlink", "chdir",
              "exec", "symlink", "realpath"}
IsPath(w) == ElementsOf(w) \in Seq(Name)

ASSUME ProgramsAssumption ==
    /\ \A i \in Inum : IsPath(Image.text[i])
    /\ \A g \in Programs :
         /\ g.cwd \in [Proc -> Inum \cup {None}]
         /\ \A p \in Proc : \A c \in g.calls[p] : "path" \in DOMAIN c =>
              /\ c.op \in PathCalls /\ IsPath(c.path)
              /\ c.op \in {"link", "symlink"} => IsPath(c.new)

-----------------------------------------------------------------------------
(* Beginning and end of a call. *)

\* What follows namex() in a call, and whether it wants the parent directory.
Handlers(op) ==
    CASE op = "mkdir"    -> <<"create", "created">>
      [] op = "mknod"    -> <<"create", "created">>
      [] op = "creat"    -> <<"create", "opened">>
      [] op = "symlink"  -> <<"climb", "symlink">>
      [] op = "realpath" -> <<"climb">>
      [] op = "exec"     -> <<"exec", "load">>
      [] OTHER           -> <<op>>

WantsParent(op) == op \in {"mkdir", "mknod", "creat", "unlink", "symlink", "realpath"}

InTransaction(op) == op \notin {"symlink", "realpath"}

Labels(ls) == [k \in 1 .. Len(ls) |-> <<ls[k], None>>]

PathCall(p, c) ==
    /\ Idle(p) /\ left[p] > 0
    /\ left' = [left EXCEPT ![p] = @ - 1]
    /\ call' = [call EXCEPT ![p] = c]
    /\ inop' = IF InTransaction(c.op) THEN inop \cup {p} ELSE inop
    /\ Iget(StartOf(p, c.path))
    /\ WalkFrom(p, c.path, WantsParent(c.op), Labels(Handlers(c.op) \o <<"end_op">>))
    /\ UNCHANGED <<disk, dir, text, lock, cwd, file, ofile, ip, dp, seen, climbed, result, program>>

EndOp(p) ==
    /\ At(p, "end_op")
    /\ inop' = inop \ {p}
    /\ Then(p, <<>>)
    /\ call' = [call EXCEPT ![p] = NoCall]
    /\ name' = [name EXCEPT ![p] = "."]
    /\ seen' = [seen EXCEPT ![p] = {}]
    /\ climbed' = [climbed EXCEPT ![p] = 0]
    /\ result' = [result EXCEPT ![p] = <<>>]
    /\ UNCHANGED <<fsvars, at, path, wantdir, file, ofile, ip, dp, left, program>>

\* namex() or create() returned null to a function that tests for it: this one
\* fails too.  (get_realpath() does not test: see Panics.)
LookupFails(p) ==
    /\ \E l \in {"create", "created", "opened", "open", "unlink", "link", "chdir",
               "exec", "load", "symwrite"} : At(p, l)
    /\ at[p] = None
    /\ Then(p, <<>>)
    /\ UNCHANGED <<fsvars, walkvars, inop, callvars>>

-----------------------------------------------------------------------------
(* open(), and the chain of symbolic links it follows. *)

\* readi() of the link gives the path of its target, looked up with the link
\* locked.
OpenLink(p) ==
    /\ At(p, "open") /\ at[p] # None
    /\ LET i == at[p] IN
         /\ CanLock(i)
         /\ Loaded(i).type = "sym" /\ call[p].mode # "stat"
         /\ i \notin seen[p] /\ Cardinality(seen[p]) + 1 < MAX_SYMBOLIC_DEPTH
         /\ Locked(p, i)
         /\ LoadAndGet(i, StartOf(p, text[i]))
         /\ ip' = [ip EXCEPT ![p] = i]
         /\ seen' = [seen EXCEPT ![p] = @ \cup {i}]
         /\ WalkFrom(p, text[i], FALSE, <<<<"followed", None>>>> \o Tail(pc[p]))
    /\ UNCHANGED <<disk, dir, text, cwd, inop, file, ofile, call, dp, climbed, result, left, program>>

\* The link is given back, and its target, if there is one, taken instead.
Followed(p) ==
    /\ At(p, "followed")
    /\ Unlocked(ip[p])
    /\ ip' = [ip EXCEPT ![p] = None]
    /\ Then(p, <<Put(ip[p])>> \o (IF at[p] = None THEN <<>> ELSE <<<<"open", None>>>>))
    /\ UNCHANGED <<disk, dir, text, ref, cache, cwd, walkvars, inop,
                   file, ofile, call, dp, seen, climbed, result, left, program>>

\* A circle of links, too long a chain, or a directory that is to be written.
OpenFails(p) ==
    /\ At(p, "open") /\ at[p] # None
    /\ LET i == at[p]  t == Loaded(i).type IN
         /\ CanLock(i)
         /\ \/ i \in seen[p]
            \/ /\ t = "sym" /\ call[p].mode # "stat"
               /\ Cardinality(seen[p]) + 1 >= MAX_SYMBOLIC_DEPTH
            \/ t = "dir" /\ call[p].mode = "write"
         /\ Load(i)
         /\ at' = [at EXCEPT ![p] = None]
         /\ Then(p, <<Put(i)>>)
    /\ UNCHANGED <<disk, dir, text, ref, lock, cwd, path, wantdir, name, inop, callvars>>

OpenFound(p) ==
    /\ At(p, "open") /\ at[p] # None
    /\ LET i == at[p]  t == Loaded(i).type IN
         /\ CanLock(i)
         /\ i \notin seen[p]
         /\ t # "sym" \/ call[p].mode = "stat"
         /\ t # "dir" \/ call[p].mode # "write"
         /\ Load(i) /\ Locked(p, i)
         /\ Then(p, <<<<"opened", None>>>>)
    /\ UNCHANGED <<disk, dir, text, ref, cwd, walkvars, inop, callvars>>

\* filealloc() and fdalloc(); the reference to the inode is the file's.
Opened(p) ==
    /\ At(p, "opened") /\ at[p] # None
    /\ Unlocked(at[p])
    /\ at' = [at EXCEPT ![p] = None]
    /\ LET fs == {f \in File : file[f].ref = 0}  ds == {d \in Fd : ofile[p][d] = None} IN
         IF fs # {} /\ ds # {}
         THEN /\ file' = [file EXCEPT ![Min(fs)] = [ref |-> 1, ip |-> at[p]]]
              /\ ofile' = [ofile EXCEPT ![p][Min(ds)] = Min(fs)]
              /\ Then(p, <<>>)
         ELSE UNCHANGED <<file, ofile>> /\ Then(p, <<Put(at[p])>>)
    /\ UNCHANGED <<disk, dir, text, ref, cache, cwd, path, wantdir, name, inop,
                   call, ip, dp, seen, climbed, result, left, program>>

-----------------------------------------------------------------------------
(* create() *)

TypeOf(op) ==
    CASE op = "mkdir" -> "dir" [] op = "mknod" -> "dev" [] op = "creat" -> "file"
      [] op = "symlink" -> "sym"

\* The name is there: the directory is given back before the inode is locked.
CreateFinds(p) ==
    /\ At(p, "create") /\ at[p] # None
    /\ LET d == at[p]  i == dir[d][name[p]] IN
         /\ CanLock(d) /\ i # None
         /\ LoadAndGet(d, i)
         /\ at' = [at EXCEPT ![p] = i]
         /\ Then(p, <<Put(d), <<"found", None>>>>)
    /\ UNCHANGED <<disk, dir, text, lock, cwd, path, wantdir, name, inop, callvars>>

\* A file may be opened and a symbolic link changed; nothing else made again.
Found(p) ==
    /\ At(p, "found")
    /\ LET i == at[p]  t == TypeOf(call[p].op) IN
         /\ CanLock(i)
         /\ Load(i)
         /\ IF t = Loaded(i).type /\ t \in {"file", "sym"}
            THEN Locked(p, i) /\ Then(p, <<>>) /\ UNCHANGED at
            ELSE /\ at' = [at EXCEPT ![p] = None]
                 /\ Then(p, <<Put(i)>>) /\ UNCHANGED lock
    /\ UNCHANGED <<disk, dir, text, ref, cwd, path, wantdir, name, inop, callvars>>

\* ialloc() takes the first inode that is free on disk.
CreateAllocates(p) ==
    /\ At(p, "create") /\ at[p] # None
    /\ LET d == at[p]  free == {i \in Inum : disk[i].type = "free"} IN
         /\ CanLock(d) /\ dir[d][name[p]] = None
         /\ free # {}
         /\ disk' = [disk EXCEPT ![Min(free)] = [type |-> TypeOf(call[p].op), nlink |-> 0]]
         /\ Locked(p, d)
         /\ LoadAndGet(d, Min(free))
         /\ dp' = [dp EXCEPT ![p] = d]
         /\ at' = [at EXCEPT ![p] = Min(free)]
         /\ Then(p, <<<<"new", None>>>>)
    /\ UNCHANGED <<dir, text, cwd, path, wantdir, name, inop,
                   file, ofile, call, ip, seen, climbed, result, left, program>>

\* The new inode gets its link, a new directory its dots, and the name is
\* entered.  The directory is given back with the new inode still locked.
CreateLinks(p) ==
    /\ At(p, "new")
    /\ LET i == at[p]  d == dp[p]
           mine == Just(i, [Loaded(i) EXCEPT !.nlink = 1])
           dots == [[n \in Name |-> None] EXCEPT !["."] = i, ![".."] = d]
       IN
         /\ CanLock(i)
         /\ IF call[p].op = "mkdir"
            THEN /\ Iupdate(Over(mine, Linked(d, 1)))
                 /\ dir' = [dir EXCEPT ![i] = dots, ![d][name[p]] = i]
            ELSE Iupdate(mine) /\ dir' = [dir EXCEPT ![d][name[p]] = i]
         /\ lock' = [lock EXCEPT ![i] = p, ![d] = NoProc]
         /\ dp' = [dp EXCEPT ![p] = None]
         /\ Then(p, <<Put(d)>>)
    /\ UNCHANGED <<text, ref, cwd, walkvars, inop,
                   file, ofile, call, ip, seen, climbed, result, left, program>>

\* mkdir() and mknod() give the new inode back.
Created(p) ==
    /\ At(p, "created") /\ at[p] # None
    /\ Unlocked(at[p])
    /\ at' = [at EXCEPT ![p] = None]
    /\ Then(p, <<Put(at[p])>>)
    /\ UNCHANGED <<disk, dir, text, ref, cache, cwd, path, wantdir, name, inop, callvars>>

-----------------------------------------------------------------------------
(* unlink() *)

UnlinkFails(p) ==
    /\ At(p, "unlink") /\ at[p] # None
    /\ LET d == at[p] IN
         /\ CanLock(d)
         /\ name[p] \in {".", ".."} \/ dir[d][name[p]] = None
         /\ Load(d)
         /\ at' = [at EXCEPT ![p] = None]
         /\ Then(p, <<Put(d)>>)
    /\ UNCHANGED <<disk, dir, text, ref, lock, cwd, path, wantdir, name, inop, callvars>>

UnlinkFinds(p) ==
    /\ At(p, "unlink") /\ at[p] # None
    /\ LET d == at[p]  i == dir[d][name[p]] IN
         /\ CanLock(d)
         /\ name[p] \notin {".", ".."} /\ i # None
         /\ Locked(p, d)
         /\ LoadAndGet(d, i)
         /\ dp' = [dp EXCEPT ![p] = d]
         /\ at' = [at EXCEPT ![p] = i]
         /\ Then(p, <<<<"remove", None>>>>)
    /\ UNCHANGED <<disk, dir, text, cwd, path, wantdir, name, inop,
                   file, ofile, call, ip, seen, climbed, result, left, program>>

IsDirEmpty(i) == \A n \in Name \ {".", ".."} : dir[i][n] = None

\* A directory with entries stays: first its inode, then the parent is given back.
UnlinkBusy(p) ==
    /\ At(p, "remove")
    /\ LET i == at[p] IN
         /\ CanLock(i)
         /\ Loaded(i).nlink > 0 /\ Loaded(i).type = "dir" /\ ~ IsDirEmpty(i)
         /\ Load(i)
         /\ at' = [at EXCEPT ![p] = None]
         /\ Then(p, <<Put(i), <<"putdir", None>>>>)
    /\ UNCHANGED <<disk, dir, text, ref, lock, cwd, path, wantdir, name, inop, callvars>>

\* iunlockput(dp)
PutDir(p) ==
    /\ At(p, "putdir")
    /\ Unlocked(dp[p])
    /\ dp' = [dp EXCEPT ![p] = None]
    /\ Then(p, <<Put(dp[p])>>)
    /\ UNCHANGED <<disk, dir, text, ref, cache, cwd, walkvars, inop,
                   file, ofile, call, ip, seen, climbed, result, left, program>>

\* The entry is cleared, and the directory given back with the inode locked.
UnlinkRemoves(p) ==
    /\ At(p, "remove")
    /\ LET i == at[p]  d == dp[p]  isdir == Loaded(i).type = "dir" IN
         /\ CanLock(i)
         /\ Loaded(i).nlink > 0
         /\ isdir => IsDirEmpty(i)
         /\ dir' = [dir EXCEPT ![d][name[p]] = None]
         /\ IF isdir
            THEN /\ disk' = Over(Linked(d, -1), disk)
                 /\ cache' = Over(Just(i, Loaded(i)), Over(Linked(d, -1), cache))
            ELSE Load(i) /\ UNCHANGED disk
         /\ lock' = [lock EXCEPT ![i] = p, ![d] = NoProc]
         /\ dp' = [dp EXCEPT ![p] = None]
         /\ Then(p, <<Put(d), <<"unlinked", None>>>>)
    /\ UNCHANGED <<text, ref, cwd, walkvars, inop,
                   file, ofile, call, ip, seen, climbed, result, left, program>>

UnlinkEnds(p) ==
    /\ At(p, "unlinked")
    /\ Iupdate(Linked(at[p], -1))
    /\ Unlocked(at[p])
    /\ at' = [at EXCEPT ![p] = None]
    /\ Then(p, <<Put(at[p])>>)
    /\ UNCHANGED <<dir, text, ref, cwd, path, wantdir, name, inop, callvars>>

-----------------------------------------------------------------------------
(* link() *)

\* The link is counted before the name is entered.
Link(p) ==
    /\ At(p, "link") /\ at[p] # None
    /\ LET i == at[p] IN
         /\ CanLock(i)
         /\ at' = [at EXCEPT ![p] = None]
         /\ IF Loaded(i).type = "dir"
            THEN Load(i) /\ Then(p, <<Put(i)>>) /\ UNCHANGED <<disk, ip>>
            ELSE /\ Iupdate(Linked(i, 1))
                 /\ ip' = [ip EXCEPT ![p] = i]
                 /\ Then(p, <<<<"linknew", None>>>>)
    /\ UNCHANGED <<dir, text, ref, lock, cwd, path, wantdir, name, inop,
                   file, ofile, call, dp, seen, climbed, result, left, program>>

LinkNew(p) ==
    /\ At(p, "linknew")
    /\ Iget(StartOf(p, call[p].new))
    /\ WalkFrom(p, call[p].new, TRUE, <<<<"linkto", None>>>> \o Tail(pc[p]))
    /\ UNCHANGED <<disk, dir, text, lock, cwd, inop, callvars>>

LinkEnters(p) ==
    /\ At(p, "linkto") /\ at[p] # None
    /\ LET d == at[p]  i == ip[p] IN
         /\ CanLock(d)
         /\ dir[d][name[p]] = None
         /\ Load(d)
         /\ dir' = [dir EXCEPT ![d][name[p]] = i]
         /\ at' = [at EXCEPT ![p] = None]
         /\ ip' = [ip EXCEPT ![p] = None]
         /\ Then(p, <<Put(d), Put(i)>>)
    /\ UNCHANGED <<disk, text, ref, lock, cwd, path, wantdir, name, inop,
                   file, ofile, call, dp, seen, climbed, result, left, program>>

\* Mutant: what the name stands for is not given back.
LinkExistsKeeps(p) ==
    /\ At(p, "linkto") /\ at[p] # None
    /\ LET d == at[p]  i == dir[d][name[p]] IN
         /\ CanLock(d) /\ i # None
         /\ Locked(p, d)
         /\ LoadAndGet(d, i)
         /\ dp' = [dp EXCEPT ![p] = d]
         /\ at' = [at EXCEPT ![p] = None]
         /\ Then(p, <<<<"putdir", None>>, <<"linkbad", None>>>>)
    /\ UNCHANGED <<disk, dir, text, cwd, path, wantdir, name, inop,
                   file, ofile, call, ip, seen, climbed, result, left, program>>

\* dirlink() finds the name: it takes and gives back what the name stands for,
\* while the directory is locked.
LinkExists(p) ==
    /\ At(p, "linkto") /\ at[p] # None
    /\ LET d == at[p]  i == dir[d][name[p]] IN
         /\ CanLock(d) /\ i # None
         /\ Locked(p, d)
         /\ LoadAndGet(d, i)
         /\ dp' = [dp EXCEPT ![p] = d]
         /\ at' = [at EXCEPT ![p] = None]
         /\ Then(p, <<Put(i), <<"putdir", None>>, <<"linkbad", None>>>>)
    /\ UNCHANGED <<disk, dir, text, cwd, path, wantdir, name, inop,
                   file, ofile, call, ip, seen, climbed, result, left, program>>

LinkToNowhere(p) ==
    /\ At(p, "linkto") /\ at[p] = None
    /\ Then(p, <<<<"linkbad", None>>>>)
    /\ UNCHANGED <<fsvars, walkvars, inop, callvars>>

\* Mutant: the link that was counted is not taken back.
LinkBadCounts(p) ==
    /\ At(p, "linkbad")
    /\ LET i == ip[p] IN
         /\ CanLock(i)
         /\ Load(i)
         /\ ip' = [ip EXCEPT ![p] = None]
         /\ Then(p, <<Put(i)>>)
    /\ UNCHANGED <<disk, dir, text, ref, lock, cwd, walkvars, inop,
                   file, ofile, call, dp, seen, climbed, result, left, program>>

\* bad: the link is taken back.
LinkBad(p) ==
    /\ At(p, "linkbad")
    /\ LET i == ip[p] IN
         /\ CanLock(i)
         /\ Iupdate(Linked(i, -1))
         /\ ip' = [ip EXCEPT ![p] = None]
         /\ Then(p, <<Put(i)>>)
    /\ UNCHANGED <<dir, text, ref, lock, cwd, walkvars, inop,
                   file, ofile, call, dp, seen, climbed, result, left, program>>

-----------------------------------------------------------------------------
(* chdir() and exec() *)

Chdir(p) ==
    /\ At(p, "chdir") /\ at[p] # None
    /\ LET i == at[p] IN
         /\ CanLock(i)
         /\ Load(i)
         /\ IF Loaded(i).type = "dir"
            THEN Then(p, <<Put(cwd[p]), <<"chdired", None>>>>) /\ UNCHANGED at
            ELSE Then(p, <<Put(i)>>) /\ at' = [at EXCEPT ![p] = None]
    /\ UNCHANGED <<disk, dir, text, ref, lock, cwd, path, wantdir, name, inop, callvars>>

Chdired(p) ==
    /\ At(p, "chdired")
    /\ cwd' = [cwd EXCEPT ![p] = at[p]]
    /\ at' = [at EXCEPT ![p] = None]
    /\ Then(p, <<>>)
    /\ UNCHANGED <<disk, dir, text, ref, cache, lock, path, wantdir, name, inop, callvars>>

\* get_exec_inode() follows one symbolic link, again with the link locked.
ExecLink(p) ==
    /\ At(p, "exec") /\ at[p] # None
    /\ LET i == at[p] IN
         /\ CanLock(i) /\ Loaded(i).type = "sym"
         /\ Locked(p, i)
         /\ LoadAndGet(i, StartOf(p, text[i]))
         /\ ip' = [ip EXCEPT ![p] = i]
         /\ WalkFrom(p, text[i], FALSE, <<<<"execlink", None>>>> \o Tail(pc[p]))
    /\ UNCHANGED <<disk, dir, text, cwd, inop, file, ofile, call, dp, seen, climbed, result, left, program>>

ExecLinked(p) ==
    /\ At(p, "execlink")
    /\ Unlocked(ip[p])
    /\ ip' = [ip EXCEPT ![p] = None]
    /\ Then(p, <<Put(ip[p])>> \o (IF at[p] = None THEN <<>> ELSE <<<<"look", None>>>>))
    /\ UNCHANGED <<disk, dir, text, ref, cache, cwd, walkvars, inop,
                   file, ofile, call, dp, seen, climbed, result, left, program>>

\* ilock(ip) and iunlock(ip) before get_exec_inode() returns.
ExecFound(p) ==
    /\ (At(p, "exec") /\ at[p] # None /\ Loaded(at[p]).type # "sym") \/ At(p, "look")
    /\ CanLock(at[p])
    /\ Load(at[p])
    /\ Then(p, <<>>)
    /\ UNCHANGED <<disk, dir, text, ref, lock, cwd, walkvars, inop, callvars>>

\* The program is read, or is no program.
ExecLoad(p) ==
    /\ At(p, "load") /\ at[p] # None
    /\ CanLock(at[p])
    /\ Load(at[p])
    /\ at' = [at EXCEPT ![p] = None]
    /\ Then(p, <<Put(at[p])>>)
    /\ UNCHANGED <<disk, dir, text, ref, lock, cwd, path, wantdir, name, inop, callvars>>

-----------------------------------------------------------------------------
(* get_realpath() and symbolic_link() *)

\* The directory is the root itself.
ClimbRoot(p) ==
    /\ At(p, "climb") /\ at[p] = ROOTINO /\ climbed[p] = 0
    /\ CanLock(ROOTINO)
    /\ Load(ROOTINO)
    /\ result' = [result EXCEPT ![p] = <<"/", name[p]>>]
    /\ at' = [at EXCEPT ![p] = None]
    /\ Then(p, <<Put(ROOTINO)>>)
    /\ UNCHANGED <<disk, dir, text, ref, lock, cwd, path, wantdir, name, inop,
                   file, ofile, call, ip, dp, seen, climbed, left, program>>

\* get_inode_name() takes the parent of a directory with that directory locked.
\* When there is none, get_inode_path() leaves it locked: get_realpath() puts
\* only the inode it began with.
ClimbUp(p) ==
    /\ At(p, "climb") /\ at[p] \notin {None, ROOTINO}
    /\ LET i == at[p]  up == dir[i][".."]  first == IF climbed[p] = 0 THEN i ELSE ip[p] IN
         /\ CanLock(i)
         /\ Locked(p, i)
         /\ at' = [at EXCEPT ![p] = up]
         /\ IF up = None
            THEN /\ Load(i) /\ UNCHANGED <<ref, dp>>
                 /\ ip' = [ip EXCEPT ![p] = None]
                 /\ result' = [result EXCEPT ![p] = <<>>]
                 /\ Then(p, <<Put(first)>>)
            ELSE /\ LoadAndGet(i, up)
                 /\ dp' = [dp EXCEPT ![p] = i]
                 /\ ip' = [ip EXCEPT ![p] = first]
                 /\ UNCHANGED result
                 /\ Then(p, <<<<"name", None>>>>)
    /\ UNCHANGED <<disk, dir, text, cwd, path, wantdir, name, inop,
                   file, ofile, call, seen, climbed, left, program>>

\* The parent's entry for it, or any other when it has been removed meanwhile.
NamesIn(d, i) ==
    LET mine == {n \in Name : dir[d][n] = i} IN
    IF mine # {} THEN mine ELSE {n \in Name : dir[d][n] # None}

\* Both are unlocked; get_inode_path() goes on with the parent, or is done.
ClimbName(p) ==
    /\ At(p, "name")
    /\ LET up == at[p]
           target == dp[p]
           drop == IF target = ip[p] THEN <<>> ELSE <<Put(target)>>
           stop == up = ROOTINO \/ climbed[p] + 1 = MAXPATHDEPTH
       IN
         /\ CanLock(up)
         /\ Load(up)
         /\ Unlocked(target)
         /\ climbed' = [climbed EXCEPT ![p] = @ + 1]
         /\ \E n \in NamesIn(up, target) :
              result' = [result EXCEPT ![p] =
                  CASE ~ stop -> <<n>> \o @
                    [] stop /\ up = ROOTINO -> <<"/", n>> \o @ \o <<name[p]>>
                    [] OTHER -> <<>>]
         /\ dp' = [dp EXCEPT ![p] = None]
         /\ IF stop
            THEN /\ at' = [at EXCEPT ![p] = None]
                 /\ ip' = [ip EXCEPT ![p] = None]
                 /\ Then(p, drop \o <<Put(up), Put(ip[p])>>)
            ELSE /\ Then(p, drop \o <<<<"climb", None>>>>)
                 /\ UNCHANGED <<at, ip>>
    /\ UNCHANGED <<disk, dir, text, ref, cwd, path, wantdir, name, inop,
                   file, ofile, call, seen, left, program>>

\* The link is made in a transaction of its own.
Symlink(p) ==
    /\ At(p, "symlink")
    /\ IF result[p] = <<>>
       THEN Then(p, <<>>) /\ UNCHANGED <<inop, ref, cache, walkvars>>
       ELSE /\ inop' = inop \cup {p}
            /\ Iget(StartOf(p, call[p].new))
            /\ WalkFrom(p, call[p].new, TRUE,
                        Labels(<<"create", "symwrite">>) \o Tail(pc[p]))
    /\ UNCHANGED <<disk, dir, text, lock, cwd, callvars>>

SymlinkWrites(p) ==
    /\ At(p, "symwrite") /\ at[p] # None
    /\ text' = [text EXCEPT ![at[p]] = result[p]]
    /\ Unlocked(at[p])
    /\ at' = [at EXCEPT ![p] = None]
    /\ Then(p, <<Put(at[p])>>)
    /\ UNCHANGED <<disk, dir, ref, cache, cwd, path, wantdir, name, inop, callvars>>

-----------------------------------------------------------------------------
(* Descriptors and processes *)

\* fileclose(): the last close of a file puts its inode in a transaction.
CloseFd(p, d, frames) ==
    LET f == ofile[p][d]  last == file[f].ref = 1 IN
    /\ ofile' = [ofile EXCEPT ![p][d] = None]
    /\ file' = [file EXCEPT ![f] = IF last THEN [ref |-> 0, ip |-> None]
                                   ELSE [file[f] EXCEPT !.ref = @ - 1]]
    /\ inop' = IF last THEN inop \cup {p} ELSE inop
    /\ pc' = [pc EXCEPT ![p] =
                 (IF last THEN <<Put(file[f].ip), <<"end_op", None>>>> ELSE <<>>) \o frames]

Close(p) ==
    /\ Idle(p) /\ left[p] > 0 /\ [op |-> "close"] \in program.calls[p]
    /\ \E d \in Fd : ofile[p][d] # None /\ CloseFd(p, d, <<>>)
    /\ left' = [left EXCEPT ![p] = @ - 1]
    /\ UNCHANGED <<fsvars, walkvars, call, ip, dp, seen, climbed, result, program>>

Dup(p) ==
    /\ Idle(p) /\ left[p] > 0 /\ [op |-> "dup"] \in program.calls[p]
    /\ \E d, e \in Fd :
         /\ ofile[p][d] # None /\ ofile[p][e] = None
         /\ \A g \in Fd : g < e => ofile[p][g] # None
         /\ ofile' = [ofile EXCEPT ![p][e] = ofile[p][d]]
         /\ file' = [file EXCEPT ![ofile[p][d]].ref = @ + 1]
    /\ left' = [left EXCEPT ![p] = @ - 1]
    /\ UNCHANGED <<fsvars, walkvars, pc, inop, call, ip, dp, seen, climbed, result, program>>

\* The child shares the open files and the current directory.
Fork(p, q) ==
    /\ Idle(p) /\ left[p] > 0 /\ [op |-> "fork"] \in program.calls[p]
    /\ cwd[q] = None /\ left[q] > 0
    /\ ofile' = [ofile EXCEPT ![q] = ofile[p]]
    /\ file' = [f \in File |-> [file[f] EXCEPT !.ref =
                   @ + Cardinality({d \in Fd : ofile[p][d] = f})]]
    /\ cwd' = [cwd EXCEPT ![q] = cwd[p]]
    /\ ref' = [ref EXCEPT ![cwd[p]] = @ + 1]
    /\ left' = [left EXCEPT ![p] = @ - 1]
    /\ UNCHANGED <<disk, dir, text, cache, lock, walkvars, pc, inop,
                   call, ip, dp, seen, climbed, result, program>>

\* exit() closes what is open, then gives the current directory back.
Exit(p) ==
    /\ Idle(p) /\ [op |-> "exit"] \in program.calls[p]
    /\ left' = [left EXCEPT ![p] = 0]
    /\ pc' = [pc EXCEPT ![p] = <<<<"exit", None>>>>]
    /\ UNCHANGED <<fsvars, walkvars, inop, file, ofile, call, ip, dp, seen, climbed, result, program>>

ExitCloses(p) ==
    /\ At(p, "exit")
    /\ \E d \in Fd :
         /\ ofile[p][d] # None
         /\ \A e \in Fd : e < d => ofile[p][e] = None
         /\ CloseFd(p, d, pc[p])
    /\ UNCHANGED <<fsvars, walkvars, call, ip, dp, seen, climbed, result, left, program>>

ExitLeaves(p) ==
    /\ At(p, "exit")
    /\ \A d \in Fd : ofile[p][d] = None
    /\ inop' = inop \cup {p}
    /\ cwd' = [cwd EXCEPT ![p] = None]
    /\ Then(p, <<Put(cwd[p]), <<"end_op", None>>>>)
    /\ UNCHANGED <<disk, dir, text, ref, cache, lock, walkvars, callvars>>

-----------------------------------------------------------------------------
(* Waiting for a lock *)

\* The inode that p is about to lock.
Target(p) ==
    IF pc[p] = <<>> THEN None
    ELSE LET l == Head(pc[p])[1] IN
         CASE l = "iput" -> Head(pc[p])[2]
           [] l = "linkbad" -> ip[p]
           [] \/ l = "namex" /\ path[p] # <<>>
              \/ l \in {"open", "create", "found", "new", "unlink", "remove", "link", "linkto",
                       "chdir", "exec", "look", "load", "climb", "name"} -> at[p]
           [] OTHER -> None

\* Where the kernel panics: an inode that is free on disk is locked, or the null
\* pointer that get_realpath() did not test for; a last link is taken from an
\* inode without links; no inode is free; an inode is freed outside of every
\* transaction.
Panics(p) ==
    \/ /\ Target(p) # None /\ ~ At(p, "iput")
       /\ Free(Target(p))
       /\ \/ Loaded(Target(p)).type = "free"
          \/ At(p, "remove") /\ Loaded(Target(p)).nlink < 1
          \/ /\ At(p, "create") /\ dir[at[p]][name[p]] = None
             /\ \A i \in Inum : disk[i].type # "free"
    \/ At(p, "climb") /\ at[p] = None
    \/ At(p, "itrunc") /\ LogPanics

-----------------------------------------------------------------------------
Init ==
    /\ FsInit
    /\ program \in Programs
    /\ cwd = program.cwd
    /\ ref = [i \in Inum |-> Cardinality({p \in Proc : cwd[p] = i})]
    /\ file = [f \in File |-> [ref |-> 0, ip |-> None]]
    /\ ofile = [p \in Proc |-> [d \in Fd |-> None]]
    /\ call = [p \in Proc |-> NoCall]
    /\ ip = [p \in Proc |-> None]
    /\ dp = [p \in Proc |-> None]
    /\ seen = [p \in Proc |-> {}]
    /\ climbed = [p \in Proc |-> 0]
    /\ result = [p \in Proc |-> <<>>]
    /\ left = [p \in Proc |-> MaxCalls]

InodeStep(p) == FsStep(p) /\ UNCHANGED callvars

CallStep(p) ==
    \/ \E c \in program.calls[p] : "path" \in DOMAIN c /\ PathCall(p, c)
    \/ EndOp(p) \/ LookupFails(p)
    \/ OpenLink(p) \/ Followed(p) \/ OpenFails(p) \/ OpenFound(p) \/ Opened(p)
    \/ CreateFinds(p) \/ Found(p) \/ CreateAllocates(p) \/ CreateLinks(p) \/ Created(p)
    \/ UnlinkFails(p) \/ UnlinkFinds(p) \/ UnlinkBusy(p) \/ PutDir(p)
    \/ UnlinkRemoves(p) \/ UnlinkEnds(p)
    \/ Link(p) \/ LinkNew(p) \/ LinkEnters(p) \/ LinkExists(p) \/ LinkToNowhere(p) \/ LinkBad(p)
    \/ Chdir(p) \/ Chdired(p)
    \/ ExecLink(p) \/ ExecLinked(p) \/ ExecFound(p) \/ ExecLoad(p)
    \/ ClimbRoot(p) \/ ClimbUp(p) \/ ClimbName(p)
    \/ Symlink(p) \/ SymlinkWrites(p)
    \/ Close(p) \/ Dup(p) \/ (\E q \in Proc : Fork(p, q))
    \/ Exit(p) \/ ExitCloses(p) \/ ExitLeaves(p)

Next == \E p \in Proc : InodeStep(p) \/ CallStep(p)

Spec == Init /\ [][Next]_vars

-----------------------------------------------------------------------------
(* What must hold. *)

\* No call makes the kernel panic: no name leads to a free inode (ilock: no
\* type), no link is taken from an inode that has none, and an inode is freed
\* in a transaction only (fs.c, sysfile.c, log_write()).
NoPanic == \A p \in Proc : ~ Panics(p)

Doing(p) == {pc[p][k][1] : k \in DOMAIN pc[p]}
Sum(f(_)) == MapThenSumSet(f, Proc)

\* Pointers of a process to an inode.  get_inode_path() has one reference that
\* both dp and target are, and chdir() still shows the one it gives back.
Pointers(p, i) ==
    LET count(x) == IF x = i THEN 1 ELSE 0 IN
    count(at[p])
      + (IF i \in {ip[p], dp[p]} THEN 1 ELSE 0)
      + (IF "chdired" \in Doing(p) THEN 0 ELSE count(cwd[p]))
      + Cardinality({k \in DOMAIN pc[p] : i # None /\ pc[p][k][2] = i})

\* ip->ref is the number of pointers to the inode, whatever path the call that
\* took it has left by, and a process that is in no call holds no lock.
ReferencesAreHeld ==
    /\ \A i \in Inum :
         LET points(p) == Pointers(p, i) IN
         ref[i] = Sum(points) + Cardinality({f \in File : file[f].ip = i})
    /\ \A f \in File :
         LET opens(p) == Cardinality({d \in Fd : ofile[p][d] = f}) IN
         file[f].ref = Sum(opens)
    /\ \A i \in Inum : Free(i) \/ pc[lock[i]] # <<>>

\* The names of an inode; a removed directory no longer names its parent.
Names(i) ==
    {e \in Inum \X (Name \ {"."}) :
        /\ dir[e[1]][e[2]] = i
        /\ e[2] = ".." => /\ disk[e[1]].nlink > 0
                          /\ \A p \in Proc : ~ (at[p] = e[1] /\ "unlinked" \in Doing(p))}

\* nlink is the number of names, but for a link() or unlink() that has done one
\* half: no name is left of an inode that is freed, and none is lost.
LinksAreCounted ==
    \A i \in Inum :
        disk[i].nlink = Cardinality(Names(i)) + Cardinality({p \in Proc :
            \/ ip[p] = i /\ Doing(p) \cap {"linknew", "linkto", "linkbad"} # {}
            \/ at[p] = i /\ "unlinked" \in Doing(p)})

\* A valid entry of the inode cache says what is on disk, also when the inode is
\* allocated again while the one who freed it still has the entry.
IcacheIsCoherent ==
    \A i \in Inum :
        \/ ref[i] = 0 \/ cache[i] \in {NotValid, disk[i]}
        \/ \E p \in Proc : At(p, "release") /\ Head(pc[p])[2] = i

\* The processes never wait in a circle for the locks of each other's inodes
\* (fs.c:149: the separation of ilock() from iget() helps avoid deadlock).
NoCircle ==
    \A S \in SUBSET Proc \ {{}} :
        \E p \in S : Target(p) = None \/ lock[Target(p)] \notin S
=============================================================================
