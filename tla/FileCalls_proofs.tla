--------------------------- MODULE FileCalls_proofs ---------------------------
(***************************************************************************)
(* The inode cache and the locks of inodes under the file system calls of  *)
(* Project3, for any processes, any tree of directories and any calls.     *)
(*                                                                         *)
(* The first part says what a process may have on its stack, and which     *)
(* inodes it has locked with it.  The second has a lemma for each step of  *)
(* a process, about its own stack; the third counts the descriptors of     *)
(* open files; the last says what the steps do to the inodes on disk and   *)
(* in the cache, and who may have them locked meanwhile.                   *)
(***************************************************************************)
EXTENDS FileCalls, FiniteSetTheorems, WellFoundedInduction, TLAPS

-----------------------------------------------------------------------------
(* Stacks *)

Maybe  == Inum \cup {None}
F(l)   == <<l, None>>
Ends   == << F("end_op") >>

\* What may be below a function of a call.
Rests(l) ==
    CASE l \in {"create", "found", "new"} ->
           { << F("created") >> \o Ends, << F("opened") >> \o Ends, << F("symwrite") >> \o Ends }
      [] l \in {"climb", "name"} -> { Ends, << F("symlink") >> \o Ends }
      [] l \in {"exec", "execlink", "look"} -> { << F("load") >> \o Ends }
      [] l = "putdir" -> { Ends, << F("linkbad") >> \o Ends }
      [] OTHER -> { Ends }

\* The functions of calls, and those of them that call namex().
Walkers == {"create", "climb", "exec", "open", "unlink", "link", "chdir", "followed",
            "execlink", "linkto"}
Workers == Walkers \cup {"found", "new", "created", "opened", "symwrite", "symlink", "name",
            "look", "load", "putdir", "linkbad", "linknew", "remove", "unlinked", "chdired"}

\* A call in the function l, in namex() on its behalf if it walks.
Work(walks, l, r) == IF walks = "yes" THEN << F("namex"), F(l) >> \o r ELSE << F(l) >> \o r

\* Nothing is left but to end.
Endings == { <<>>, Ends, << F("exit") >>, Ends \o << F("exit") >> }

\* iput() and what it is in: the one on top may be anywhere in it.
Drops    == {"iput", "itrunc", "release", "unref"}
Putting  == {Put(i) : i \in Inum}
Drop(l, i, ps) == << <<l, i>> >> \o ps
Dropping == { <<>> } \cup { Drop(l, i, ps) : l \in Drops, i \in Inum, ps \in Seq(Putting) }

\* The inodes a process has locked in function l.
Locks(p, l) ==
    CASE l \in {"followed", "execlink"} -> {ip[p]}
      [] l \in {"new", "remove", "putdir", "name"} -> {dp[p]}
      [] l = "unlinked" -> {at[p]}
      [] OTHER -> {}
\* and with it still locked, what it goes on with.
Returned(p, l) == IF l \in {"created", "opened", "symwrite"} THEN {at[p]} \ {None} ELSE {}

Owned(p, walks, l) == Locks(p, l) \cup Returned(p, l)

Makers == {"creat", "mkdir", "mknod", "symlink"}

\* What a process knows in function l.
Knows(p, walks, l, r) ==
    /\ cwd[p] \in Inum
    /\ walks = "yes" \/ l \in {"found", "new", "remove", "unlinked", "look", "name", "chdired"} =>
           at[p] \in Inum
    /\ l \in {"linknew", "linkto", "linkbad"} \/ r = << F("linkbad") >> \o Ends => ip[p] \in Inum
    /\ l \in {"climb", "name"} =>
           /\ result[p] \in Seq(Name)
           /\ l = "name" \/ climbed[p] # 0 => ip[p] \in Inum
    /\ l \in {"create", "found", "new"} => call[p].op \in Makers
    /\ l \in {"link", "linknew"} => call[p].op = "link"
    /\ l = "symlink" \/ r = << F("symlink") >> \o Ends => call[p].op = "symlink"

\* The frame on top of an iput() that frees an inode.
Freeing(p, d, mine) ==
    d # <<>> /\ Head(d)[1] \in {"itrunc", "release"} =>
        lock[Head(d)[2]] = p /\ Head(d)[2] \notin mine

Busy(p, d, walks, l, r) ==
    /\ d \in Dropping /\ l \in Workers /\ r \in Rests(l)
    /\ walks \in {"yes", "no"} /\ (walks = "yes" => l \in Walkers)
    /\ pc[p] = d \o Work(walks, l, r)
    /\ Owned(p, walks, l) \subseteq Inum
    /\ \A i \in Owned(p, walks, l) : lock[i] = p
    /\ Knows(p, walks, l, r)
    /\ Freeing(p, d, Owned(p, walks, l))

Ending(p, d, e) ==
    /\ d \in Dropping /\ e \in Endings /\ (e \in {<<>>, << F("exit") >>} => d = <<>>)
    /\ pc[p] = d \o e
    /\ e = <<>> => result[p] = <<>> /\ climbed[p] = 0
    /\ e # Ends /\ e # <<>> => cwd[p] \in Inum
    /\ Freeing(p, d, {})

\* A process is in a call, or about to end it, or in none.
Stacked(p) ==
    \/ \E d \in Dropping, walks \in {"yes", "no"}, l \in Workers : \E r \in Rests(l) : Busy(p, d, walks, l, r)
    \/ \E d \in Dropping, e \in Endings : Ending(p, d, e)

Entry == [type : {"free", "dir", "file", "dev", "sym", "?"}, nlink : Int]

FsTypes ==
    /\ disk \in [Inum -> Entry] /\ cache \in [Inum -> Entry]
    /\ dir \in [Inum -> [Name -> Maybe]]
    /\ DOMAIN text = Inum /\ \A i \in Inum : IsPath(text[i])
    /\ lock \in [Inum -> Proc \cup {NoProc}]

WalkTypes ==
    /\ DOMAIN pc = Proc
    /\ at \in [Proc -> Maybe]
    /\ path \in [Proc -> Seq(Name)] /\ name \in [Proc -> Name]

CallTypes ==
    /\ ip \in [Proc -> Maybe] /\ dp \in [Proc -> Maybe] /\ cwd \in [Proc -> Maybe]
    /\ climbed \in [Proc -> Nat]
    /\ DOMAIN result = Proc /\ \A p \in Proc : IsPath(result[p])
    /\ DOMAIN call = Proc
    /\ \A p \in Proc : call[p].op \in {"link", "symlink"} => IsPath(call[p].new)
    /\ program \in Programs

Types == FsTypes /\ WalkTypes /\ CallTypes

LEMMA Numbers == None \in Maybe /\ None \notin Inum /\ Inum \subseteq Maybe /\ Inum \subseteq Nat
                 /\ ROOTINO \in Inum
  BY ImageAssumption DEF Maybe, None, Inum

LEMMA FrameIs == ASSUME NEW l PROVE F(l)[1] = l /\ F(l)[2] = None
  BY DEF F

\* A stack with something on top.
LEMMA ConsIs ==
    ASSUME NEW f, NEW r, NEW S, r \in Seq(S)
    PROVE  <<f>> \o r # <<>> /\ Head(<<f>> \o r) = f /\ Tail(<<f>> \o r) = r
  <1>1. <<f>> \o r \in Seq(S \cup {f})
    OBVIOUS
  <1>2. Len(<<f>> \o r) = 1 + Len(r) /\ (<<f>> \o r)[1] = f
    OBVIOUS
  <1>3. Len(Tail(<<f>> \o r)) = Len(r)
    BY <1>1, <1>2
  <1>4. \A i \in 1 .. Len(r) : Tail(<<f>> \o r)[i] = r[i]
    BY <1>1, <1>2
  <1> QED BY <1>1, <1>2, <1>3, <1>4

Frame == {"namex", "end_op", "exit"} \cup Workers \cup Drops
Frames == Seq(Frame \X Maybe)

LEMMA Labelled == ASSUME NEW l \in Frame PROVE F(l) \in Frame \X Maybe
  BY Numbers DEF F

LEMMA RestsAre ==
    ASSUME NEW l, NEW r \in Rests(l)
    PROVE  r \in Frames /\ r # <<>>
  <1>1. \A m \in Frame : F(m) \in Frame \X Maybe
    BY Labelled
  <1>2. Ends \in Frames /\ Ends # <<>>
    BY <1>1 DEF Ends, Frames, Frame
  <1>3. ASSUME NEW m \in Frame PROVE << F(m) >> \o Ends \in Frames /\ << F(m) >> \o Ends # <<>>
    BY <1>1, <1>2 DEF Frames
  <1>4. \/ r = Ends
        \/ \E m \in {"created", "opened", "symwrite", "symlink", "load", "linkbad"} : r = << F(m) >> \o Ends
    BY DEF Rests
  <1>5. {"created", "opened", "symwrite", "symlink", "load", "linkbad"} \subseteq Frame
    BY DEF Frame, Workers
  <1> QED BY <1>2, <1>3, <1>4, <1>5

LEMMA PushedOn ==
    ASSUME NEW S, NEW f \in S, NEW r \in Seq(S)
    PROVE  <<f>> \o r \in Seq(S)
  OBVIOUS

LEMMA DroppingIs ==
    ASSUME NEW d \in Dropping
    PROVE  /\ d \in Frames
           /\ d = <<>> \/ \E l \in Drops, i \in Inum, ps \in Seq(Putting) : d = Drop(l, i, ps)
           /\ Seq(Putting) \subseteq Frames
  <1>1. Putting \subseteq Frame \X Maybe
    BY Numbers DEF Putting, Put, Frame, Drops
  <1>2. Seq(Putting) \subseteq Frames
    BY <1>1 DEF Frames
  <1>3. CASE d = <<>>
    BY <1>2, <1>3 DEF Frames
  <1>4. ASSUME NEW l \in Drops, NEW i \in Inum, NEW ps \in Seq(Putting), d = Drop(l, i, ps)
        PROVE  d \in Frames
    <2>1. <<l, i>> \in Frame \X Maybe
      BY <1>4, Numbers DEF Frame
    <2>2. ps \in Frames
      BY <1>2
    <2> DEFINE f == <<l, i>>
    <2>3. f \in Frame \X Maybe /\ ps \in Seq(Frame \X Maybe)
      BY <2>1, <2>2 DEF Frames
    <2> HIDE DEF f
    <2>4. <<f>> \o ps \in Seq(Frame \X Maybe)
      BY <2>3, PushedOn
    <2> QED BY <1>4, <2>4 DEF f, Drop, Frames
  <1> QED BY <1>2, <1>3, <1>4 DEF Dropping

\* Puts may be pushed on puts.
LEMMA PutsDrop ==
    ASSUME NEW ps \in Seq(Putting)
    PROVE  ps \in Dropping
  <1>1. CASE ps = <<>>
    BY <1>1 DEF Dropping
  <1>2. CASE ps # <<>>
    <2>1. ps = << Head(ps) >> \o Tail(ps) /\ Tail(ps) \in Seq(Putting) /\ Head(ps) \in Putting
      BY <1>2
    <2>2. PICK i \in Inum : Head(ps) = <<"iput", i>>
      BY <2>1 DEF Putting, Put
    <2>3. ps = Drop("iput", i, Tail(ps))
      BY <2>1, <2>2 DEF Drop
    <2>4. "iput" \in Drops
      BY DEF Drops
    <2>5. \E l \in Drops, j \in Inum, qs \in Seq(Putting) : ps = Drop(l, j, qs)
      BY <2>1, <2>3, <2>4, Zenon
    <2> QED BY <2>5 DEF Dropping
  <1> QED BY <1>1, <1>2

LEMMA WorkIs ==
    ASSUME NEW l \in Workers, NEW r \in Rests(l), NEW walks \in {"yes", "no"}
    PROVE  /\ Work(walks, l, r) \in Frames /\ Work(walks, l, r) # <<>>
           /\ walks = "yes" => /\ Head(Work(walks, l, r)) = F("namex")
                               /\ Tail(Work(walks, l, r)) = << F(l) >> \o r
           /\ walks = "no" => Head(Work(walks, l, r)) = F(l) /\ Tail(Work(walks, l, r)) = r
           /\ << F(l) >> \o r \in Frames
  <1>1. r \in Frames
    BY RestsAre
  <1>2. F(l) \in Frame \X Maybe /\ F("namex") \in Frame \X Maybe
    BY Labelled DEF Frame
  <1>3. << F(l) >> \o r \in Frames
    BY <1>1, <1>2 DEF Frames
  <1>4. Head(<< F(l) >> \o r) = F(l) /\ Tail(<< F(l) >> \o r) = r /\ << F(l) >> \o r # <<>>
    BY <1>1, ConsIs DEF Frames
  <1>5. << F("namex"), F(l) >> \o r = << F("namex") >> \o (<< F(l) >> \o r)
    BY <1>1, <1>2 DEF Frames
  <1>6. /\ << F("namex") >> \o (<< F(l) >> \o r) # <<>>
        /\ Head(<< F("namex") >> \o (<< F(l) >> \o r)) = F("namex")
        /\ Tail(<< F("namex") >> \o (<< F(l) >> \o r)) = << F(l) >> \o r
    BY <1>3, ConsIs DEF Frames
  <1>7. << F("namex") >> \o (<< F(l) >> \o r) \in Frames
    BY <1>2, <1>3 DEF Frames
  <1> QED BY <1>3, <1>4, <1>5, <1>6, <1>7 DEF Work

LEMMA Pair == ASSUME NEW a, NEW b PROVE <<a>> \o <<b>> = <<a, b>>
  <1> DEFINE S == {a, b}  s == <<a>> \o <<b>>  t == <<a, b>>
  <1>1. s \in Seq(S) /\ t \in Seq(S)
    <2>1. s \in Seq(S)
      OBVIOUS
    <2>2. t \in Seq(S)
      OBVIOUS
    <2> QED BY <2>1, <2>2
  <1>2. Len(s) = 2 /\ s[1] = a /\ s[2] = b
    <2>1. Len(s) = 2
      OBVIOUS
    <2>2. s[1] = a
      OBVIOUS
    <2>3. s[2] = b
      OBVIOUS
    <2> QED BY <2>1, <2>2, <2>3
  <1>3. Len(t) = 2
    OBVIOUS
  <1>4. t[1] = a /\ t[2] = b
    OBVIOUS
  <1> HIDE DEF S, s, t
  <1>5. s = t
    BY <1>1, <1>2, <1>3, <1>4
  <1> QED BY <1>5 DEF s, t

LEMMA EndingsAre ==
    ASSUME NEW e \in Endings
    PROVE  /\ e \in Frames
           /\ e # <<>> => Head(e)[1] \in {"end_op", "exit"}
           /\ Tail(Ends) = <<>> /\ Tail(<< F("exit") >>) = <<>>
           /\ Tail(Ends \o << F("exit") >>) = << F("exit") >>
           /\ Head(Ends) = F("end_op") /\ Head(<< F("exit") >>) = F("exit")
           /\ Head(Ends \o << F("exit") >>) = F("end_op")
  <1>1. F("end_op") \in Frame \X Maybe /\ F("exit") \in Frame \X Maybe
    BY Labelled DEF Frame
  <1>2. Ends \o << F("exit") >> = << F("end_op"), F("exit") >>
    BY Pair DEF Ends
  <1>3. F("end_op")[1] = "end_op" /\ F("exit")[1] = "exit"
    BY FrameIs
  <1>4. e \in Frames
    <2> DEFINE a == F("end_op")  b == F("exit")
    <2>1. a \in Frame \X Maybe /\ b \in Frame \X Maybe
      BY <1>1
    <2>2. e \in { <<>>, <<a>>, <<b>>, <<a, b>> }
      BY <1>2 DEF Endings, Ends
    <2> HIDE DEF a, b
    <2> DEFINE S == Frame \X Maybe
    <2>4. a \in S /\ b \in S
      BY <2>1
    <2> HIDE DEF S
    <2>5. <<>> \in Seq(S) /\ <<a>> \in Seq(S) /\ <<b>> \in Seq(S) /\ <<a, b>> \in Seq(S)
      BY <2>4
    <2> QED BY <2>2, <2>5 DEF Frames, S
  <1>5. /\ Tail(Ends) = <<>> /\ Tail(<< F("exit") >>) = <<>>
        /\ Tail(<< F("end_op"), F("exit") >>) = << F("exit") >>
        /\ Head(Ends) = F("end_op") /\ Head(<< F("exit") >>) = F("exit")
        /\ Head(<< F("end_op"), F("exit") >>) = F("end_op")
    BY <1>1 DEF Ends
  <1> QED BY <1>2, <1>3, <1>4, <1>5 DEF Endings

LEMMA DropOnTop ==
    ASSUME NEW l \in Drops, NEW i \in Inum, NEW ps \in Seq(Putting), NEW w \in Frames
    PROVE  /\ Drop(l, i, ps) \o w # <<>>
           /\ Head(Drop(l, i, ps) \o w) = <<l, i>>
           /\ Tail(Drop(l, i, ps) \o w) = ps \o w
           /\ Head(Drop(l, i, ps)) = <<l, i>> /\ Drop(l, i, ps) # <<>>
           /\ Drop(l, i, ps) \in Dropping
  <1> DEFINE f == <<l, i>>
  <1>1. ps \in Frames
    <2>1. Seq(Putting) \subseteq Frames
      BY PutsDrop, DroppingIs
    <2> QED BY <2>1
  <1>2. ps \o w \in Frames
    BY <1>1 DEF Frames
  <1>3. Drop(l, i, ps) = <<f>> \o ps
    BY DEF Drop
  <1>8. f \in Frame \X Maybe
    BY Numbers DEF Frame
  <1> HIDE DEF f
  <1>4. (<<f>> \o ps) \o w = <<f>> \o (ps \o w)
    BY <1>1, <1>8 DEF Frames
  <1>5. /\ <<f>> \o (ps \o w) # <<>> /\ Head(<<f>> \o (ps \o w)) = f
        /\ Tail(<<f>> \o (ps \o w)) = ps \o w
    BY <1>2, ConsIs DEF Frames
  <1>6. <<f>> \o ps # <<>> /\ Head(<<f>> \o ps) = f
    BY <1>1, ConsIs DEF Frames
  <1>7. Drop(l, i, ps) \in Dropping
    <2>1. \E m \in Drops, j \in Inum, qs \in Seq(Putting) : Drop(l, i, ps) = Drop(m, j, qs)
      BY Zenon
    <2> QED BY <2>1 DEF Dropping
  <1> QED BY <1>3, <1>4, <1>5, <1>6, <1>7 DEF f

LEMMA OnTop ==
    ASSUME NEW d \in Dropping, NEW w \in Frames
    PROVE  /\ d \o w \in Frames
           /\ d = <<>> => d \o w = w
           /\ d # <<>> => /\ d \o w # <<>> /\ Head(d \o w)[1] \in Drops
                          /\ Head(d \o w) = Head(d)
  <1>1. d \in Frames
    BY DroppingIs
  <1>2. d \o w \in Frames /\ (d = <<>> => d \o w = w)
    BY <1>1 DEF Frames
  <1>3. CASE d # <<>>
    <2>1. PICK l \in Drops, i \in Inum, ps \in Seq(Putting) : d = Drop(l, i, ps)
      BY <1>3, DroppingIs
    <2> QED BY <1>2, <2>1, DropOnTop
  <1> QED BY <1>2, <1>3

\* The frame on top of a stack, and the frames below.
Top(p)   == Head(pc[p])[1]
Inode(p) == Head(pc[p])[2]
Below(p) == Tail(pc[p])
Under(l, r) == << F(l) >> \o r

LEMMA BusyTop ==
    ASSUME NEW p, NEW d, NEW walks, NEW l, NEW r, Busy(p, d, walks, l, r)
    PROVE  /\ pc[p] # <<>>
           /\ d # <<>> => Top(p) \in Drops /\ Head(pc[p]) = Head(d)
           /\ d = <<>> /\ walks = "yes" => Top(p) = "namex" /\ Below(p) = Under(l, r)
           /\ d = <<>> /\ walks = "no" => Top(p) = l /\ Below(p) = r
           /\ d = <<>> => pc[p] = Work(walks, l, r)
  <1>1. d \in Dropping /\ l \in Workers /\ r \in Rests(l) /\ walks \in {"yes", "no"}
        /\ pc[p] = d \o Work(walks, l, r)
    BY DEF Busy
  <1>2. /\ Work(walks, l, r) \in Frames /\ Work(walks, l, r) # <<>>
        /\ walks = "yes" => /\ Head(Work(walks, l, r)) = F("namex")
                            /\ Tail(Work(walks, l, r)) = Under(l, r)
        /\ walks = "no" => Head(Work(walks, l, r)) = F(l) /\ Tail(Work(walks, l, r)) = r
    BY <1>1, WorkIs DEF Under
  <1>3. F("namex")[1] = "namex" /\ F(l)[1] = l
    BY FrameIs
  <1> QED BY <1>1, <1>2, <1>3, OnTop DEF Top, Below, Under

LEMMA EndingTop ==
    ASSUME NEW p, NEW d, NEW e, Ending(p, d, e)
    PROVE  /\ d # <<>> => pc[p] # <<>> /\ Top(p) \in Drops /\ Head(pc[p]) = Head(d)
           /\ d = <<>> => pc[p] = e /\ (e # <<>> => Top(p) \in {"end_op", "exit"})
  <1>1. d \in Dropping /\ e \in Endings /\ pc[p] = d \o e
    BY DEF Ending
  <1>2. e \in Frames /\ (e # <<>> => Head(e)[1] \in {"end_op", "exit"})
    BY <1>1, EndingsAre
  <1> QED BY <1>1, <1>2, OnTop DEF Top

LEMMA Apart ==
    /\ Workers \cap Drops = {} /\ Workers \cap {"namex", "end_op", "exit"} = {}
    /\ Drops \cap {"namex", "end_op", "exit"} = {}
  BY DEF Workers, Walkers, Drops

\* What a process in a function of a call has on its stack.
LEMMA JobIs ==
    ASSUME NEW p, NEW l \in Workers, Stacked(p), At(p, l)
    PROVE  \E r \in Rests(l) : Busy(p, <<>>, "no", l, r) /\ Below(p) = r
  <1>1. pc[p] # <<>> /\ Top(p) = l
    BY DEF At, Top
  <1>2. l \notin Drops /\ l \notin {"namex", "end_op", "exit"}
    BY Apart
  <1>3. CASE \E d \in Dropping, e \in Endings : Ending(p, d, e)
    BY <1>1, <1>2, <1>3, EndingTop
  <1>4. ASSUME NEW d \in Dropping, NEW walks \in {"yes", "no"}, NEW m \in Workers, NEW r \in Rests(m),
               Busy(p, d, walks, m, r)
        PROVE  Busy(p, <<>>, "no", l, r) /\ Below(p) = r /\ r \in Rests(l)
    <2>0. /\ pc[p] # <<>>
          /\ d # <<>> => Top(p) \in Drops
          /\ d = <<>> /\ walks = "yes" => Top(p) = "namex" /\ Below(p) = Under(m, r)
          /\ d = <<>> /\ walks = "no" => Top(p) = m /\ Below(p) = r
      BY <1>4, BusyTop
    <2>1. d = <<>>
      BY <1>1, <1>2, <2>0
    <2>2. walks = "no"
      BY <1>1, <1>2, <2>0, <2>1
    <2>3. m = l /\ Below(p) = r
      BY <1>1, <2>0, <2>1, <2>2
    <2> QED BY <1>4, <2>1, <2>2, <2>3
  <1> QED BY <1>3, <1>4 DEF Stacked

LEMMA NamexIs ==
    ASSUME NEW p, Stacked(p), At(p, "namex")
    PROVE  \E l \in Walkers : \E r \in Rests(l) :
              Busy(p, <<>>, "yes", l, r) /\ Below(p) = Under(l, r)
  <1>1. pc[p] # <<>> /\ Top(p) = "namex"
    BY DEF At, Top
  <1>2. "namex" \notin Drops /\ "namex" \notin Workers /\ "namex" \notin {"end_op", "exit"}
    BY Apart
  <1>3. CASE \E d \in Dropping, e \in Endings : Ending(p, d, e)
    BY <1>1, <1>2, <1>3, EndingTop
  <1>4. ASSUME NEW d \in Dropping, NEW walks \in {"yes", "no"}, NEW m \in Workers, NEW r \in Rests(m),
               Busy(p, d, walks, m, r)
        PROVE  m \in Walkers /\ Busy(p, <<>>, "yes", m, r) /\ Below(p) = Under(m, r)
    <2>0. /\ pc[p] # <<>>
          /\ d # <<>> => Top(p) \in Drops
          /\ d = <<>> /\ walks = "yes" => Top(p) = "namex" /\ Below(p) = Under(m, r)
          /\ d = <<>> /\ walks = "no" => Top(p) = m /\ Below(p) = r
      BY <1>4, BusyTop
    <2>1. d = <<>>
      BY <1>1, <1>2, <2>0
    <2>2. walks = "yes"
      BY <1>1, <1>2, <2>0, <2>1
    <2>3. Below(p) = Under(m, r)
      BY <2>0, <2>1, <2>2
    <2>4. walks = "yes" /\ m \in Walkers
      BY <1>4, <2>2 DEF Busy
    <2> QED BY <1>4, <2>1, <2>3, <2>4
  <1> QED BY <1>3, <1>4 DEF Stacked

LEMMA EndIs ==
    ASSUME NEW p, Stacked(p), At(p, "end_op") \/ At(p, "exit")
    PROVE  \E e \in Endings : e # <<>> /\ Ending(p, <<>>, e) /\ pc[p] = e
  <1>1. pc[p] # <<>> /\ Top(p) \in {"end_op", "exit"}
    BY DEF At, Top
  <1>2. \A l \in {"end_op", "exit"} : l \notin Drops /\ l \notin Workers /\ l # "namex"
    BY Apart
  <1>3. ASSUME NEW d \in Dropping, NEW walks \in {"yes", "no"}, NEW m \in Workers, NEW r \in Rests(m),
               Busy(p, d, walks, m, r)
        PROVE  FALSE
    <2>0. /\ d # <<>> => Top(p) \in Drops
          /\ d = <<>> /\ walks = "yes" => Top(p) = "namex"
          /\ d = <<>> /\ walks = "no" => Top(p) = m
      BY <1>3, BusyTop
    <2> QED BY <1>1, <1>2, <2>0
  <1>4. ASSUME NEW d \in Dropping, NEW e \in Endings, Ending(p, d, e)
        PROVE  e # <<>> /\ Ending(p, <<>>, e) /\ pc[p] = e
    <2>1. d = <<>>
      BY <1>1, <1>2, <1>4, EndingTop
    <2> QED BY <1>1, <1>4, <2>1, EndingTop
  <1> QED BY <1>3, <1>4 DEF Stacked

LEMMA IdleIs ==
    ASSUME NEW p, Stacked(p), pc[p] = <<>>
    PROVE  Ending(p, <<>>, <<>>)
  <1>1. ASSUME NEW d \in Dropping, NEW walks \in {"yes", "no"}, NEW m \in Workers, NEW r \in Rests(m),
               Busy(p, d, walks, m, r)
        PROVE  FALSE
    BY <1>1, BusyTop
  <1>2. ASSUME NEW d \in Dropping, NEW e \in Endings, Ending(p, d, e)
        PROVE  Ending(p, <<>>, <<>>)
    BY <1>2, EndingTop
  <1> QED BY <1>1, <1>2 DEF Stacked

-----------------------------------------------------------------------------
(* Steps *)

\* A step of p leaves to the others what they know and have locked.
Alone(p) ==
    \A q \in Proc \ {p} :
        /\ pc'[q] = pc[q] /\ cwd'[q] = cwd[q] /\ at'[q] = at[q] /\ ip'[q] = ip[q] /\ dp'[q] = dp[q]
        /\ call'[q] = call[q] /\ climbed'[q] = climbed[q] /\ result'[q] = result[q]
        /\ \A i \in Inum : lock[i] = q => lock'[i] = q

\* What p knows does not change.
SameCall(p) ==
    /\ cwd'[p] = cwd[p] /\ at'[p] = at[p] /\ ip'[p] = ip[p] /\ dp'[p] = dp[p]
    /\ call'[p] = call[p] /\ climbed'[p] = climbed[p] /\ result'[p] = result[p]

LEMMA HeadOfDrop ==
    ASSUME NEW d \in Dropping, d # <<>>
    PROVE  Head(d)[1] \in Drops /\ Head(d)[2] \in Inum
  <1>1. PICK l \in Drops, i \in Inum, ps \in Seq(Putting) : d = Drop(l, i, ps)
    BY DroppingIs
  <1>2. <<>> \in Frames
    BY DEF Frames
  <1>3. Head(d) = <<l, i>>
    BY <1>1, <1>2, DropOnTop
  <1> QED BY <1>3

LEMMA OwnedSame ==
    ASSUME NEW p, SameCall(p), NEW walks, NEW l
    PROVE  Owned(p, walks, l)' = Owned(p, walks, l)
  BY DEF SameCall, Owned, Locks, Returned

LEMMA KnowsSame ==
    ASSUME NEW p, SameCall(p), NEW walks, NEW l, NEW r, Knows(p, walks, l, r)
    PROVE  Knows(p, walks, l, r)'
  BY DEF SameCall, Knows

LEMMA FreeingSame ==
    ASSUME NEW p, NEW d \in Dropping, NEW mine, Freeing(p, d, mine),
           \A i \in Inum : lock[i] = p => lock'[i] = p
    PROVE  Freeing(p, d, mine)'
  <1> DEFINE h == Head(d)
  <1>1. d # <<>> => h[2] \in Inum
    BY HeadOfDrop
  <1> QED BY <1>1 DEF Freeing

\* A process goes on as it was.
LEMMA StackSame ==
    ASSUME NEW q, SameCall(q), pc'[q] = pc[q], \A i \in Inum : lock[i] = q => lock'[i] = q, Stacked(q)
    PROVE  Stacked(q)'
  <1>1. SameCall(q) /\ pc'[q] = pc[q] /\ \A i \in Inum : lock[i] = q => lock'[i] = q
    OBVIOUS
  <1>2. ASSUME NEW d \in Dropping, NEW walks \in {"yes", "no"}, NEW l \in Workers, NEW r \in Rests(l),
               Busy(q, d, walks, l, r)
        PROVE  Busy(q, d, walks, l, r)'
    <2>1. Owned(q, walks, l)' = Owned(q, walks, l)
      BY <1>1, OwnedSame
    <2>2. Knows(q, walks, l, r)'
      BY <1>1, <1>2, KnowsSame DEF Busy
    <2>3. Freeing(q, d, Owned(q, walks, l))'
      BY <1>1, <1>2, <2>1, FreeingSame DEF Busy
    <2>4. \A i \in Owned(q, walks, l) : i \in Inum /\ lock[i] = q
      BY <1>2 DEF Busy
    <2> QED BY <1>1, <1>2, <2>1, <2>2, <2>3, <2>4 DEF Busy
  <1>3. ASSUME NEW d \in Dropping, NEW e \in Endings, Ending(q, d, e)
        PROVE  Ending(q, d, e)'
    <2>1. Freeing(q, d, {})'
      BY <1>1, <1>3, FreeingSame DEF Ending
    <2> QED BY <1>1, <1>3, <2>1 DEF Ending, SameCall
  <1>4. CASE \E d \in Dropping, walks \in {"yes", "no"}, l \in Workers : \E r \in Rests(l) : Busy(q, d, walks, l, r)
    BY <1>2, <1>4 DEF Stacked
  <1>5. CASE \E d \in Dropping, e \in Endings : Ending(q, d, e)
    BY <1>3, <1>5 DEF Stacked
  <1> QED BY <1>4, <1>5 DEF Stacked

\* The others go on as they were.
LEMMA Keeps ==
    ASSUME NEW p, Alone(p), NEW q \in Proc \ {p}, Stacked(q)
    PROVE  Stacked(q)'
  <1>1. SameCall(q) /\ pc'[q] = pc[q] /\ \A i \in Inum : lock[i] = q => lock'[i] = q
    BY DEF Alone, SameCall
  <1> QED BY <1>1, StackSame

LEMMA PutsOnTop ==
    ASSUME NEW ps \in Seq(Putting), ps # <<>>
    PROVE  Head(ps)[1] = "iput"
  <1> DEFINE h == Head(ps)
  <1>1. h \in Putting
    OBVIOUS
  <1> QED BY <1>1 DEF Putting, Put

\* A call goes on with the function l.
LEMMA Pushed ==
    ASSUME NEW p, NEW ps \in Seq(Putting), NEW walks \in {"yes", "no"}, NEW l \in Workers, NEW r \in Rests(l),
           walks = "yes" => l \in Walkers,
           pc'[p] = ps \o Work(walks, l, r),
           Owned(p, walks, l)' \subseteq Inum,
           \A i \in Owned(p, walks, l)' : lock'[i] = p,
           Knows(p, walks, l, r)'
    PROVE  Stacked(p)'
  <1>1. ps \in Dropping
    BY PutsDrop
  <1>2. Freeing(p, ps, Owned(p, walks, l))'
    BY PutsOnTop DEF Freeing
  <1>3. Busy(p, ps, walks, l, r)'
    BY <1>1, <1>2 DEF Busy
  <1> QED BY <1>1, <1>3 DEF Stacked

LEMMA EndsAre == Ends \in Frames /\ << F("exit") >> \in Frames
                 /\ Ends \in Endings /\ Ends \o << F("exit") >> \in Endings
                 /\ <<>> \in Endings /\ << F("exit") >> \in Endings
  <1>1. Ends \in Endings /\ << F("exit") >> \in Endings
    BY DEF Endings
  <1> QED BY <1>1, EndingsAre DEF Endings

\* The function that waits for another to return.
LEMMA RestCases ==
    ASSUME NEW l, NEW r \in Rests(l)
    PROVE  \/ r = Ends
           \/ \E m \in {"created", "opened", "symwrite", "symlink", "load", "linkbad"} :
                /\ r = Work("no", m, Ends) /\ Ends \in Rests(m) /\ m \in Workers
                /\ m \in {"created", "opened", "symwrite"} => l \in {"create", "found", "new"}
                /\ m = "symlink" => r = << F("symlink") >> \o Ends
                /\ m = "linkbad" => l = "putdir" /\ r = << F("linkbad") >> \o Ends
  <1>1. \A m \in {"created", "opened", "symwrite", "symlink", "load", "linkbad"} :
            Ends \in Rests(m) /\ m \in Workers
    BY DEF Rests, Workers
  <1>2. \/ r = Ends
        \/ \E m \in {"created", "opened", "symwrite", "symlink", "load", "linkbad"} :
             /\ r = << F(m) >> \o Ends
             /\ m \in {"created", "opened", "symwrite"} => l \in {"create", "found", "new"}
             /\ m = "linkbad" => l = "putdir"
    BY DEF Rests
  <1> QED BY <1>1, <1>2 DEF Work

\* A call in which nothing is left but to end.
LEMMA Ended ==
    ASSUME NEW p, NEW ps \in Seq(Putting), pc'[p] = ps \o Ends
    PROVE  Stacked(p)'
  <1>1. ps \in Dropping
    BY PutsDrop
  <1>2. Freeing(p, ps, {})'
    BY PutsOnTop DEF Freeing
  <1>3. Ends # <<>> /\ Ends # << F("exit") >>
    <2>1. F("end_op") # F("exit")
      BY FrameIs
    <2> QED BY <2>1, EndingsAre, EndsAre
  <1>4. Ends \in Endings
    BY EndsAre
  <1>5. Ending(p, ps, Ends)'
    BY <1>1, <1>2, <1>3, <1>4 DEF Ending
  <1> QED BY <1>1, <1>4, <1>5 DEF Stacked

\* The function l returns to what is below it.
LEMMA Resumes ==
    ASSUME NEW p, NEW ps \in Seq(Putting), NEW walks, NEW l, NEW r,
           Busy(p, <<>>, walks, l, r),
           pc'[p] = ps \o r,
           call'[p] = call[p], cwd'[p] \in Inum,
           l = "putdir" => ip'[p] = ip[p],
           l \in {"create", "found", "new"} => at'[p] = None \/ (at'[p] \in Inum /\ lock'[at'[p]] = p)
    PROVE  Stacked(p)'
  <1>1. r \in Rests(l) /\ Knows(p, walks, l, r)
    BY DEF Busy
  <1>2. CASE r = Ends
    BY <1>2, Ended
  <1>3. ASSUME NEW m \in {"created", "opened", "symwrite", "symlink", "load", "linkbad"},
               r = Work("no", m, Ends), Ends \in Rests(m), m \in Workers,
               m \in {"created", "opened", "symwrite"} => l \in {"create", "found", "new"},
               m = "symlink" => r = << F("symlink") >> \o Ends,
               m = "linkbad" => l = "putdir" /\ r = << F("linkbad") >> \o Ends
        PROVE  Stacked(p)'
    <2>1. Owned(p, "no", m)' \subseteq Inum /\ \A i \in Owned(p, "no", m)' : lock'[i] = p
      BY <1>3 DEF Owned, Locks, Returned
    <2>2. m = "symlink" => call'[p].op = "symlink"
      BY <1>1, <1>3 DEF Knows
    <2>3. m = "linkbad" => ip'[p] \in Inum
      BY <1>1, <1>3 DEF Knows
    <2>4. Ends # << F("linkbad") >> \o Ends /\ Ends # << F("symlink") >> \o Ends
      <3>1. Tail(Ends) = <<>> /\ Ends # <<>> /\ Ends \in Seq(Frame \X Maybe)
        BY EndingsAre, EndsAre DEF Frames, Ends
      <3>2. Tail(<< F("linkbad") >> \o Ends) = Ends /\ Tail(<< F("symlink") >> \o Ends) = Ends
        BY <3>1, ConsIs
      <3> QED BY <3>1, <3>2
    <2>5. Knows(p, "no", m, Ends)'
      BY <1>3, <2>2, <2>3, <2>4 DEF Knows
    <2>6. pc'[p] = ps \o Work("no", m, Ends)
      BY <1>3
    <2> QED BY <1>3, <2>1, <2>5, <2>6, Pushed
  <1> QED BY <1>1, <1>2, <1>3, RestCases

\* The two ways a stack with iput() on top is made.
LEMMA DropIs ==
    ASSUME NEW p, NEW l \in Drops, Stacked(p), At(p, l)
    PROVE  \E i \in Inum, ps \in Seq(Putting) :
              /\ Inode(p) = i
              /\ \/ \E walks \in {"yes", "no"}, m \in Workers : \E r \in Rests(m) :
                       Busy(p, Drop(l, i, ps), walks, m, r) /\ Below(p) = ps \o Work(walks, m, r)
                 \/ \E e \in {Ends, Ends \o << F("exit") >>} :
                       Ending(p, Drop(l, i, ps), e) /\ Below(p) = ps \o e
  <1>1. pc[p] # <<>> /\ Top(p) = l
    BY DEF At, Top
  <1>2. l # "namex" /\ l \notin {"end_op", "exit"} /\ l \notin Workers
    BY Apart
  <1>3. ASSUME NEW d \in Dropping, d # <<>>, NEW w \in Frames, pc[p] = d \o w
        PROVE  \E i \in Inum, ps \in Seq(Putting) :
                  d = Drop(l, i, ps) /\ Inode(p) = i /\ Below(p) = ps \o w
    <2>1. PICK k \in Drops, i \in Inum, ps \in Seq(Putting) : d = Drop(k, i, ps)
      BY <1>3, DroppingIs
    <2> DEFINE s == Drop(k, i, ps) \o w
    <2>4. Head(s) = <<k, i>> /\ Tail(s) = ps \o w
      BY DropOnTop
    <2>5. s = pc[p]
      BY <1>3, <2>1
    <2> HIDE DEF s
    <2>2. Head(pc[p]) = <<k, i>> /\ Tail(pc[p]) = ps \o w
      BY <2>4, <2>5
    <2>3. k = l
      BY <1>1, <2>2 DEF Top
    <2> QED BY <2>1, <2>2, <2>3 DEF Inode, Below
  <1>4. ASSUME NEW d \in Dropping, NEW walks \in {"yes", "no"}, NEW m \in Workers, NEW r \in Rests(m),
               Busy(p, d, walks, m, r)
        PROVE  \E i \in Inum, ps \in Seq(Putting) :
                  /\ Inode(p) = i
                  /\ Busy(p, Drop(l, i, ps), walks, m, r) /\ Below(p) = ps \o Work(walks, m, r)
    <2>0. /\ d = <<>> /\ walks = "yes" => Top(p) = "namex"
          /\ d = <<>> /\ walks = "no" => Top(p) = m
      BY <1>4, BusyTop
    <2>1. d # <<>>
      BY <1>1, <1>2, <2>0
    <2>2. Work(walks, m, r) \in Frames /\ pc[p] = d \o Work(walks, m, r)
      BY <1>4, WorkIs DEF Busy
    <2> QED BY <1>3, <1>4, <2>1, <2>2
  <1>5. ASSUME NEW d \in Dropping, NEW e \in Endings, Ending(p, d, e)
        PROVE  \E i \in Inum, ps \in Seq(Putting) :
                  /\ Inode(p) = i
                  /\ Ending(p, Drop(l, i, ps), e) /\ Below(p) = ps \o e
                  /\ e \in {Ends, Ends \o << F("exit") >>}
    <2>0. d = <<>> => pc[p] = e /\ (e # <<>> => Top(p) \in {"end_op", "exit"})
      BY <1>5, EndingTop
    <2>1. d # <<>>
      BY <1>1, <1>2, <2>0
    <2>2. e \in Frames /\ pc[p] = d \o e
      BY <1>5, EndingsAre DEF Ending
    <2>3. e \notin {<<>>, << F("exit") >>}
      BY <1>5, <2>1 DEF Ending
    <2> QED BY <1>3, <1>5, <2>1, <2>2, <2>3 DEF Endings
  <1>6. CASE \E d \in Dropping, walks \in {"yes", "no"}, m \in Workers : \E r \in Rests(m) : Busy(p, d, walks, m, r)
    <2>1. PICK d \in Dropping, walks \in {"yes", "no"}, m \in Workers : \E r \in Rests(m) : Busy(p, d, walks, m, r)
      BY <1>6
    <2>2. PICK r \in Rests(m) : Busy(p, d, walks, m, r)
      BY <2>1
    <2>3. PICK i \in Inum, ps \in Seq(Putting) :
             /\ Inode(p) = i
             /\ Busy(p, Drop(l, i, ps), walks, m, r) /\ Below(p) = ps \o Work(walks, m, r)
      BY <1>4, <2>2
    <2> QED BY <2>3
  <1>7. CASE \E d \in Dropping, e \in Endings : Ending(p, d, e)
    <2>1. PICK d \in Dropping, e \in Endings : Ending(p, d, e)
      BY <1>7
    <2>2. PICK i \in Inum, ps \in Seq(Putting) :
             /\ Inode(p) = i
             /\ Ending(p, Drop(l, i, ps), e) /\ Below(p) = ps \o e
             /\ e \in {Ends, Ends \o << F("exit") >>}
      BY <1>5, <2>1
    <2> QED BY <2>2
  <1> QED BY <1>6, <1>7 DEF Stacked

\* A step of iput(): the inode, the inodes locked beside it, and what is below.
LEMMA DropStep ==
    ASSUME NEW p, NEW l \in Drops, Stacked(p), At(p, l), SameCall(p)
    PROVE  \E i \in Inum, ps \in Seq(Putting), w \in Frames, mine \in SUBSET Inum :
              /\ Inode(p) = i /\ Below(p) = ps \o w
              /\ \A j \in mine : lock[j] = p
              /\ l \in {"itrunc", "release"} => lock[i] = p /\ i \notin mine
              /\ \A d \in Dropping :
                    pc'[p] = d \o w /\ (\A j \in mine : lock'[j] = p) /\ Freeing(p, d, mine)' => Stacked(p)'
  <1>1. PICK i \in Inum, ps \in Seq(Putting) :
              /\ Inode(p) = i
              /\ \/ \E walks \in {"yes", "no"}, m \in Workers : \E r \in Rests(m) :
                       Busy(p, Drop(l, i, ps), walks, m, r) /\ Below(p) = ps \o Work(walks, m, r)
                 \/ \E e \in {Ends, Ends \o << F("exit") >>} :
                       Ending(p, Drop(l, i, ps), e) /\ Below(p) = ps \o e
    BY DropIs
  <1>2. Drop(l, i, ps) # <<>> /\ Head(Drop(l, i, ps)) = <<l, i>>
    <2>1. <<>> \in Frames
      BY DEF Frames
    <2> QED BY <2>1, DropOnTop
  <1>3. ASSUME NEW mine, Freeing(p, Drop(l, i, ps), mine)
        PROVE  l \in {"itrunc", "release"} => lock[i] = p /\ i \notin mine
    <2> DEFINE h == Head(Drop(l, i, ps))
    <2>1. h[1] = l /\ h[2] = i
      BY <1>2
    <2> QED BY <1>2, <1>3, <2>1 DEF Freeing
  <1>4. ASSUME NEW walks \in {"yes", "no"}, NEW m \in Workers, NEW r \in Rests(m),
               Busy(p, Drop(l, i, ps), walks, m, r), Below(p) = ps \o Work(walks, m, r)
        PROVE  \E w \in Frames, mine \in SUBSET Inum :
                  /\ Below(p) = ps \o w
                  /\ \A j \in mine : lock[j] = p
                  /\ l \in {"itrunc", "release"} => lock[i] = p /\ i \notin mine
                  /\ \A d \in Dropping :
                        pc'[p] = d \o w /\ (\A j \in mine : lock'[j] = p) /\ Freeing(p, d, mine)' => Stacked(p)'
    <2> DEFINE w == Work(walks, m, r)  mine == Owned(p, walks, m)
    <2>1. w \in Frames
      BY WorkIs
    <2>2. mine \subseteq Inum /\ (\A j \in mine : lock[j] = p) /\ Knows(p, walks, m, r)
          /\ (walks = "yes" => m \in Walkers) /\ Freeing(p, Drop(l, i, ps), mine)
      BY <1>4 DEF Busy
    <2>3. ASSUME NEW d \in Dropping, pc'[p] = d \o w, \A j \in mine : lock'[j] = p, Freeing(p, d, mine)'
          PROVE  Stacked(p)'
      <3>1. mine' = mine
        BY OwnedSame
      <3>2. Knows(p, walks, m, r)'
        BY <2>2, KnowsSame
      <3>3. Busy(p, d, walks, m, r)'
        BY <2>2, <2>3, <3>1, <3>2 DEF Busy
      <3> QED BY <3>3 DEF Stacked
    <2>4. l \in {"itrunc", "release"} => lock[i] = p /\ i \notin mine
      BY <1>3, <2>2
    <2>5. mine' = mine
      BY OwnedSame
    <2>6. Below(p) = ps \o w
      BY <1>4
    <2> HIDE DEF w, mine
    <2> QED BY <2>1, <2>2, <2>3, <2>4, <2>5, <2>6 DEF Freeing
  <1>5. ASSUME NEW e \in {Ends, Ends \o << F("exit") >>}, Ending(p, Drop(l, i, ps), e), Below(p) = ps \o e
        PROVE  \E w \in Frames, mine \in SUBSET Inum :
                  /\ Below(p) = ps \o w
                  /\ \A j \in mine : lock[j] = p
                  /\ l \in {"itrunc", "release"} => lock[i] = p /\ i \notin mine
                  /\ \A d \in Dropping :
                        pc'[p] = d \o w /\ (\A j \in mine : lock'[j] = p) /\ Freeing(p, d, mine)' => Stacked(p)'
    <2>1. e \in Frames /\ e \in Endings
      BY EndsAre, EndingsAre
    <2>2. Freeing(p, Drop(l, i, ps), {}) /\ e # <<>> /\ e # << F("exit") >>
      <3>1. e \notin {<<>>, << F("exit") >>}
        BY <1>2, <1>5 DEF Ending
      <3> QED BY <1>5, <3>1 DEF Ending
    <2>3. ASSUME NEW d \in Dropping, pc'[p] = d \o e, Freeing(p, d, {})'
          PROVE  Stacked(p)'
      <3>1. Ending(p, d, e)'
        BY <1>5, <2>1, <2>2, <2>3 DEF Ending, SameCall
      <3> QED BY <2>1, <3>1 DEF Stacked
    <2>4. l \in {"itrunc", "release"} => lock[i] = p
      BY <1>3, <2>2
    <2> DEFINE mine == {}
    <2>5. mine \in SUBSET Inum /\ (\A j \in mine : lock[j] = p) /\ i \notin mine
      OBVIOUS
    <2>6. \A d \in Dropping :
              pc'[p] = d \o e /\ (\A j \in mine : lock'[j] = p) /\ Freeing(p, d, mine)' => Stacked(p)'
      BY <2>3
    <2> HIDE DEF mine
    <2> QED BY <1>5, <2>1, <2>4, <2>5, <2>6
  <1> QED BY <1>1, <1>4, <1>5

\* iput() returns.
LEMMA DropEnds ==
    ASSUME NEW p, NEW l \in Drops, Stacked(p), At(p, l), SameCall(p),
           pc'[p] = Below(p), \A i \in Inum : lock[i] = p => lock'[i] = p
    PROVE  Stacked(p)'
  <1>1. PICK i \in Inum, ps \in Seq(Putting), w \in Frames, mine \in SUBSET Inum :
              /\ Inode(p) = i /\ Below(p) = ps \o w
              /\ \A j \in mine : lock[j] = p
              /\ l \in {"itrunc", "release"} => lock[i] = p /\ i \notin mine
              /\ \A d \in Dropping :
                    pc'[p] = d \o w /\ (\A j \in mine : lock'[j] = p) /\ Freeing(p, d, mine)' => Stacked(p)'
    BY DropStep
  <1>2. ps \in Dropping
    BY PutsDrop
  <1>3. Freeing(p, ps, mine)'
    <2>1. mine' = mine
      OBVIOUS
    <2> QED BY <2>1, PutsOnTop DEF Freeing
  <1>4. pc'[p] = ps \o w /\ \A j \in mine : lock'[j] = p
    BY <1>1
  <1> QED BY <1>1, <1>2, <1>3, <1>4

\* iput() goes on at the label k.
LEMMA DropGoes ==
    ASSUME NEW p \in Proc, NEW l \in Drops, NEW k \in Drops, Stacked(p), At(p, l), SameCall(p),
           pc'[p] = << <<k, Inode(p)>> >> \o Below(p),
           \A i \in Inum : lock[i] = p => lock'[i] = p \/ (i = Inode(p) /\ l = "release" /\ k = "unref"),
           k \in {"itrunc", "release"} =>
               lock'[Inode(p)] = p /\ (l = "itrunc" \/ lock[Inode(p)] # p)
    PROVE  Stacked(p)'
  <1>1. PICK i \in Inum, ps \in Seq(Putting), w \in Frames, mine \in SUBSET Inum :
              /\ Inode(p) = i /\ Below(p) = ps \o w
              /\ \A j \in mine : lock[j] = p
              /\ l \in {"itrunc", "release"} => lock[i] = p /\ i \notin mine
              /\ \A d \in Dropping :
                    pc'[p] = d \o w /\ (\A j \in mine : lock'[j] = p) /\ Freeing(p, d, mine)' => Stacked(p)'
    BY DropStep
  <1> DEFINE d == Drop(k, i, ps)
  <1>2. d \in Dropping /\ d # <<>> /\ Head(d) = <<k, i>>
    BY <1>1, DropOnTop
  <1>3. pc'[p] = d \o w
    <2>1. <<k, i>> \in Frame \X Maybe
      BY Numbers DEF Frame
    <2>2. ps \in Frames
      BY PutsDrop, DroppingIs
    <2> DEFINE f == <<k, i>>
    <2>3. f \in Frame \X Maybe
      BY <2>1
    <2> HIDE DEF f
    <2>4. <<f>> \o (ps \o w) = (<<f>> \o ps) \o w
      BY <2>2, <2>3 DEF Frames
    <2>5. pc'[p] = <<f>> \o (ps \o w)
      BY <1>1 DEF f
    <2> QED BY <2>4, <2>5 DEF Drop, f
  <1>4. \A j \in mine : lock'[j] = p
    BY <1>1
  <1>5. k \in {"itrunc", "release"} => lock'[i] = p /\ i \notin mine
    BY <1>1
  <1>6. Freeing(p, d, mine)'
    <2> DEFINE h == Head(d)
    <2>1. h[1] = k /\ h[2] = i
      BY <1>2
    <2>2. d' = d /\ mine' = mine
      OBVIOUS
    <2> HIDE DEF d
    <2> QED BY <1>2, <1>5, <2>1, <2>2 DEF Freeing
  <1> HIDE DEF d
  <1> QED BY <1>1, <1>2, <1>3, <1>4, <1>6

LEMMA StackIs == ASSUME NEW p, Stacked(p), pc[p] # <<>> PROVE Below(p) \in Frames
  <1>1. ASSUME NEW d \in Dropping, NEW walks \in {"yes", "no"}, NEW l \in Workers, NEW r \in Rests(l),
               Busy(p, d, walks, l, r)
        PROVE  pc[p] \in Frames
    <2>1. Work(walks, l, r) \in Frames
      BY WorkIs
    <2> QED BY <1>1, <2>1, OnTop DEF Busy
  <1>2. ASSUME NEW d \in Dropping, NEW e \in Endings, Ending(p, d, e)
        PROVE  pc[p] \in Frames
    BY <1>2, EndingsAre, OnTop DEF Ending
  <1>3. pc[p] \in Frames
    BY <1>1, <1>2 DEF Stacked
  <1> QED BY <1>3 DEF Below, Frames

LEMMA ThenIs ==
    ASSUME NEW p \in Proc, NEW s, DOMAIN pc = Proc, Then(p, s)
    PROVE  /\ pc'[p] = s \o Below(p) /\ DOMAIN pc' = Proc
           /\ \A q \in Proc \ {p} : pc'[q] = pc[q]
  BY DEF Then, Below

\* p returns without more to do.
LEMMA ThenBack ==
    ASSUME NEW p \in Proc, DOMAIN pc = Proc, Then(p, <<>>), Stacked(p), pc[p] # <<>>
    PROVE  /\ pc'[p] = Below(p) /\ DOMAIN pc' = Proc
           /\ \A q \in Proc \ {p} : pc'[q] = pc[q]
  <1>1. Below(p) \in Frames
    BY StackIs
  <1>2. <<>> \o Below(p) = Below(p)
    BY <1>1 DEF Frames
  <1>3. pc'[p] = <<>> \o Below(p)
    BY ThenIs
  <1> QED BY <1>2, <1>3, ThenIs

\* A step that keeps the types, the others, and what p has on its stack.
Good(p) == Types' /\ Alone(p) /\ Stacked(p)'

\* What others have locked stays locked.
LEMMA LocksAre ==
    ASSUME NEW p \in Proc, FsTypes, NEW i \in Inum
    PROVE  /\ Locked(p, i) /\ lock[i] \in {NoProc, p} =>
                /\ lock' \in [Inum -> Proc \cup {NoProc}] /\ lock'[i] = p
                /\ \A j \in Inum : lock[j] \notin {NoProc, p} => lock'[j] = lock[j]
                /\ \A j \in Inum \ {i} : lock'[j] = lock[j]
           /\ Unlocked(i) /\ lock[i] \in {NoProc, p} =>
                /\ lock' \in [Inum -> Proc \cup {NoProc}] /\ lock'[i] = NoProc
                /\ \A j \in Inum : lock[j] \notin {NoProc, p} => lock'[j] = lock[j]
                /\ \A j \in Inum \ {i} : lock'[j] = lock[j]
  BY DEF FsTypes, Locked, Unlocked

LEMMA Somebody == ASSUME NEW q \in Proc PROVE q # NoProc
  BY ImageAssumption

LEMMA LoadedIs ==
    ASSUME FsTypes, NEW i \in Inum
    PROVE  Loaded(i) \in Entry
  BY DEF FsTypes, Loaded, Entry

LEMMA EntryNotValid == NotValid \in Entry
  BY DEF Entry, NotValid

LEMMA LoadIs ==
    ASSUME FsTypes, NEW i \in Inum, Load(i)
    PROVE  /\ cache' \in [Inum -> Entry] /\ cache'[i] = Loaded(i)
           /\ \A j \in Inum \ {i} : cache'[j] = cache[j]
  BY LoadedIs DEF FsTypes, Load

LEMMA LoadAndGetIs ==
    ASSUME FsTypes, NEW i \in Inum, NEW j \in Inum, LoadAndGet(i, j)
    PROVE  /\ cache' \in [Inum -> Entry]
           /\ \A k \in Inum : cache'[k] \in {NotValid, IF k = i THEN Loaded(i) ELSE cache[k]}
  <1>1. Loaded(i) \in Entry /\ NotValid \in Entry
    BY LoadedIs, EntryNotValid
  <1> DEFINE c == [cache EXCEPT ![i] = Loaded(i)]
  <1>2. c \in [Inum -> Entry] /\ c[i] = Loaded(i) /\ \A k \in Inum \ {i} : c[k] = cache[k]
    BY <1>1 DEF FsTypes
  <1>3. cache' = [c EXCEPT ![j] = IF ref[j] = 0 THEN NotValid ELSE @]
    BY DEF LoadAndGet
  <1> HIDE DEF c
  <1> QED BY <1>1, <1>2, <1>3

LEMMA IgetIs ==
    ASSUME FsTypes, NEW i \in Inum, Iget(i)
    PROVE  /\ cache' \in [Inum -> Entry]
           /\ \A k \in Inum : cache'[k] \in {NotValid, cache[k]}
  BY EntryNotValid DEF FsTypes, Iget

LEMMA OverIs ==
    ASSUME NEW old \in [Inum -> Entry], NEW i \in Inum, NEW e \in Entry
    PROVE  /\ Over(Just(i, e), old) \in [Inum -> Entry] /\ Over(Just(i, e), old)[i] = e
           /\ \A k \in Inum \ {i} : Over(Just(i, e), old)[k] = old[k]
  <1>1. DOMAIN Just(i, e) = {i} /\ Just(i, e)[i] = e
    BY DEF Just
  <1>2. {i} \cup Inum = Inum /\ DOMAIN old = Inum
    OBVIOUS
  <1> QED BY <1>1, <1>2 DEF Over

LEMMA OverTwo ==
    ASSUME NEW old \in [Inum -> Entry], NEW i \in Inum, NEW e \in Entry, NEW j \in Inum, NEW f \in Entry
    PROVE  Over(Over(Just(i, e), Just(j, f)), old) = Over(Just(i, e), Over(Just(j, f), old))
  <1>1. DOMAIN Just(i, e) = {i} /\ DOMAIN Just(j, f) = {j}
    BY DEF Just
  <1>2. DOMAIN Over(Just(i, e), Just(j, f)) = {i, j}
    BY <1>1 DEF Over
  <1>3. Over(Just(j, f), old) \in [Inum -> Entry]
    BY OverIs
  <1>4. Over(Over(Just(i, e), Just(j, f)), old) =
           [k \in Inum |-> IF k \in {i, j} THEN Over(Just(i, e), Just(j, f))[k] ELSE old[k]]
    BY <1>2 DEF Over
  <1>5. Over(Just(i, e), Over(Just(j, f), old)) =
           [k \in Inum |-> IF k = i THEN Just(i, e)[k] ELSE Over(Just(j, f), old)[k]]
    BY <1>1, <1>3 DEF Over
  <1>6. \A k \in Inum : Over(Just(j, f), old)[k] = IF k = j THEN Just(j, f)[k] ELSE old[k]
    BY <1>1 DEF Over
  <1>7. \A k \in {i, j} : Over(Just(i, e), Just(j, f))[k] = IF k = i THEN Just(i, e)[k] ELSE Just(j, f)[k]
    BY <1>1 DEF Over
  <1> QED BY <1>4, <1>5, <1>6, <1>7

LEMMA LinkedIs ==
    ASSUME FsTypes, NEW i \in Inum, NEW n \in Int
    PROVE  \E e \in Entry : Linked(i, n) = Just(i, e) /\ e.type = Loaded(i).type /\ e.nlink = Loaded(i).nlink + n
  <1>1. [Loaded(i) EXCEPT !.nlink = @ + n] \in Entry
    BY LoadedIs DEF Entry
  <1>2. /\ [Loaded(i) EXCEPT !.nlink = @ + n].type = Loaded(i).type
        /\ [Loaded(i) EXCEPT !.nlink = @ + n].nlink = Loaded(i).nlink + n
    BY LoadedIs DEF Entry
  <1> QED BY <1>1, <1>2 DEF Linked

-----------------------------------------------------------------------------
(* The steps of iput() *)

LEMMA PcOnly ==
    ASSUME NEW p \in Proc, Types, Stacked(p), pc[p] # <<>>, NEW s, Then(p, s),
           UNCHANGED <<cwd, walkvars, callvars>>,
           lock' \in [Inum -> Proc \cup {NoProc}],
           \A j \in Inum : lock[j] \notin {NoProc, p} => lock'[j] = lock[j]
    PROVE  Alone(p) /\ SameCall(p) /\ WalkTypes' /\ CallTypes' /\ pc'[p] = s \o Below(p)
  <1>1. pc'[p] = s \o Below(p) /\ DOMAIN pc' = Proc /\ \A q \in Proc \ {p} : pc'[q] = pc[q]
    BY ThenIs DEF Types, WalkTypes
  <1>2. UNCHANGED <<at, path, name, ip, dp, cwd, climbed, result, call, program>>
    BY DEF walkvars, callvars
  <1>3. WalkTypes' /\ CallTypes'
    BY <1>1, <1>2 DEF Types, WalkTypes, CallTypes
  <1>4. SameCall(p)
    BY <1>2 DEF SameCall
  <1>5. Alone(p)
    BY <1>1, <1>2, Somebody DEF Alone
  <1> QED BY <1>1, <1>3, <1>4, <1>5

LEMMA IputStep ==
    ASSUME NEW p \in Proc, Types, Stacked(p), Iput(p), UNCHANGED callvars
    PROVE  Good(p)
  <1>1. At(p, "iput") /\ Then(p, <<>>) /\ UNCHANGED <<disk, dir, text, cache, lock, cwd, walkvars>>
    BY DEF Iput
  <1>2. pc[p] # <<>>
    BY <1>1 DEF At
  <1>3. Alone(p) /\ SameCall(p) /\ WalkTypes' /\ CallTypes'
    BY <1>1, <1>2, PcOnly DEF Types, FsTypes
  <1>4. FsTypes'
    BY <1>1 DEF Types, FsTypes
  <1>5. pc'[p] = Below(p)
    BY <1>1, <1>2, ThenBack DEF Types, WalkTypes
  <1>6. Stacked(p)'
    BY <1>1, <1>3, <1>5, DropEnds DEF Drops
  <1> QED BY <1>3, <1>4, <1>6 DEF Good, Types

LEMMA UnrefStep ==
    ASSUME NEW p \in Proc, Types, Stacked(p), Unref(p), UNCHANGED callvars
    PROVE  Good(p)
  <1>1. At(p, "unref") /\ Then(p, <<>>) /\ UNCHANGED <<disk, dir, text, cache, lock, cwd, walkvars>>
    BY DEF Unref
  <1>2. pc[p] # <<>>
    BY <1>1 DEF At
  <1>3. Alone(p) /\ SameCall(p) /\ WalkTypes' /\ CallTypes'
    BY <1>1, <1>2, PcOnly DEF Types, FsTypes
  <1>4. FsTypes'
    BY <1>1 DEF Types, FsTypes
  <1>5. pc'[p] = Below(p)
    BY <1>1, <1>2, ThenBack DEF Types, WalkTypes
  <1>6. Stacked(p)'
    BY <1>1, <1>3, <1>5, DropEnds DEF Drops
  <1> QED BY <1>3, <1>4, <1>6 DEF Good, Types

\* The inode of an iput() is an inode, and locked where it is freed.
LEMMA InodeIs ==
    ASSUME NEW p, NEW l \in Drops, Stacked(p), At(p, l)
    PROVE  Inode(p) \in Inum /\ (l \in {"itrunc", "release"} => lock[Inode(p)] = p)
  <1>1. PICK i \in Inum, ps \in Seq(Putting) :
              /\ Inode(p) = i
              /\ \/ \E walks \in {"yes", "no"}, m \in Workers : \E r \in Rests(m) :
                       Busy(p, Drop(l, i, ps), walks, m, r) /\ Below(p) = ps \o Work(walks, m, r)
                 \/ \E e \in {Ends, Ends \o << F("exit") >>} :
                       Ending(p, Drop(l, i, ps), e) /\ Below(p) = ps \o e
    BY DropIs
  <1>2. Drop(l, i, ps) # <<>> /\ Head(Drop(l, i, ps)) = <<l, i>>
    <2>1. <<>> \in Frames
      BY DEF Frames
    <2> QED BY <2>1, DropOnTop
  <1>3. \E mine : Freeing(p, Drop(l, i, ps), mine)
    BY <1>1 DEF Busy, Ending
  <1> DEFINE h == Head(Drop(l, i, ps))
  <1>4. h[1] = l /\ h[2] = i
    BY <1>2
  <1> QED BY <1>1, <1>2, <1>3, <1>4 DEF Freeing

LEMMA IputOrphanStep ==
    ASSUME NEW p \in Proc, Types, Stacked(p), IputOrphan(p), UNCHANGED callvars
    PROVE  Good(p)
  <1> DEFINE i == Inode(p)
  <1>1. /\ At(p, "iput") /\ UNCHANGED <<disk, dir, text, cache, cwd, walkvars>> /\ Free(i)
        /\ \/ Locked(p, i) /\ Then(p, << <<"itrunc", i>> >>)
           \/ UNCHANGED lock /\ Then(p, << <<"unref", i>> >>)
    BY DEF IputOrphan, Inode
  <1>2. pc[p] # <<>> /\ i \in Inum
    BY <1>1, InodeIs DEF At, Drops
  <1>3. CASE Locked(p, i) /\ Then(p, << <<"itrunc", i>> >>)
    <2>1. /\ lock' \in [Inum -> Proc \cup {NoProc}] /\ lock'[i] = p /\ lock[i] # p
          /\ \A j \in Inum : lock[j] \notin {NoProc, p} => lock'[j] = lock[j]
          /\ \A j \in Inum \ {i} : lock'[j] = lock[j]
      BY <1>1, <1>2, <1>3, LocksAre, Somebody DEF Types, Free
    <2>2. Alone(p) /\ SameCall(p) /\ WalkTypes' /\ CallTypes' /\ pc'[p] = << <<"itrunc", i>> >> \o Below(p)
      BY <1>1, <1>2, <1>3, <2>1, PcOnly
    <2>3. FsTypes'
      BY <1>1, <2>1 DEF Types, FsTypes
    <2>4. Stacked(p)'
      BY <1>1, <2>1, <2>2, DropGoes DEF Drops
    <2> QED BY <2>2, <2>3, <2>4 DEF Good, Types
  <1>4. CASE UNCHANGED lock /\ Then(p, << <<"unref", i>> >>)
    <2>2. Alone(p) /\ SameCall(p) /\ WalkTypes' /\ CallTypes' /\ pc'[p] = << <<"unref", i>> >> \o Below(p)
      BY <1>1, <1>2, <1>4, PcOnly DEF Types, FsTypes
    <2>3. FsTypes'
      BY <1>1, <1>4 DEF Types, FsTypes
    <2>4. Stacked(p)'
      BY <1>1, <1>4, <2>2, DropGoes DEF Drops
    <2> QED BY <2>2, <2>3, <2>4 DEF Good, Types
  <1> QED BY <1>1, <1>3, <1>4

LEMMA ItruncStep ==
    ASSUME NEW p \in Proc, Types, Stacked(p), Itrunc(p), UNCHANGED callvars
    PROVE  Good(p)
  <1> DEFINE i == Inode(p)  gone == [type |-> "free", nlink |-> 0]
  <1>1. /\ At(p, "itrunc") /\ UNCHANGED <<lock, cwd, walkvars>>
        /\ Iupdate(Just(i, gone)) /\ Then(p, << <<"release", i>> >>)
        /\ dir' = [dir EXCEPT ![i] = [n \in Name |-> None]]
        /\ text' = [text EXCEPT ![i] = <<>>]
    BY DEF Itrunc, Inode
  <1>2. pc[p] # <<>> /\ i \in Inum /\ lock[i] = p
    BY <1>1, InodeIs DEF At, Drops
  <1>3. Alone(p) /\ SameCall(p) /\ WalkTypes' /\ CallTypes' /\ pc'[p] = << <<"release", i>> >> \o Below(p)
    BY <1>1, <1>2, PcOnly DEF Types, FsTypes
  <1>4. gone \in Entry
    BY DEF Entry
  <1>5. disk' \in [Inum -> Entry] /\ cache' \in [Inum -> Entry]
    <2> HIDE DEF gone, i
    <2> QED BY <1>1, <1>2, <1>4, OverIs DEF Iupdate, Types, FsTypes
  <1>6. dir' \in [Inum -> [Name -> Maybe]]
    BY <1>1, <1>2, Numbers DEF Types, FsTypes
  <1>7. DOMAIN text' = Inum /\ \A j \in Inum : IsPath(text'[j])
    <2>1. IsPath(<<>>)
      BY DEF IsPath, ElementsOf
    <2> QED BY <1>1, <1>2, <2>1 DEF Types, FsTypes
  <1>8. FsTypes'
    BY <1>1, <1>5, <1>6, <1>7 DEF Types, FsTypes
  <1>9. Stacked(p)'
    BY <1>1, <1>2, <1>3, DropGoes DEF Drops
  <1> QED BY <1>3, <1>8, <1>9 DEF Good, Types

LEMMA ReleaseStep ==
    ASSUME NEW p \in Proc, Types, Stacked(p), IputRelease(p), UNCHANGED callvars
    PROVE  Good(p)
  <1> DEFINE i == Inode(p)
  <1>1. /\ At(p, "release") /\ UNCHANGED <<disk, dir, text, cwd, walkvars>>
        /\ Unlocked(i) /\ Then(p, << <<"unref", i>> >>)
        /\ cache' = [cache EXCEPT ![i] = NotValid]
    BY DEF IputRelease, Inode
  <1>2. pc[p] # <<>> /\ i \in Inum /\ lock[i] = p
    BY <1>1, InodeIs DEF At, Drops
  <1>3. /\ lock' \in [Inum -> Proc \cup {NoProc}]
        /\ \A j \in Inum : lock[j] \notin {NoProc, p} => lock'[j] = lock[j]
        /\ \A j \in Inum \ {i} : lock'[j] = lock[j]
    BY <1>1, <1>2, LocksAre DEF Types
  <1>4. Alone(p) /\ SameCall(p) /\ WalkTypes' /\ CallTypes' /\ pc'[p] = << <<"unref", i>> >> \o Below(p)
    BY <1>1, <1>2, <1>3, PcOnly
  <1>5. cache' \in [Inum -> Entry]
    BY <1>1, <1>2, EntryNotValid DEF Types, FsTypes
  <1>6. FsTypes'
    BY <1>1, <1>3, <1>5 DEF Types, FsTypes
  <1>7. Stacked(p)'
    BY <1>1, <1>3, <1>4, DropGoes DEF Drops
  <1> QED BY <1>4, <1>6, <1>7 DEF Good, Types

-----------------------------------------------------------------------------
(* The steps of namex() *)

LEMMA PutIs == ASSUME NEW i \in Inum PROVE Put(i) \in Frame \X Maybe /\ << Put(i) >> \in Seq(Putting)
  <1>1. Put(i) \in Putting
    BY DEF Putting
  <1>2. Put(i) \in Frame \X Maybe
    BY Numbers DEF Put, Frame, Drops
  <1> QED BY <1>1, <1>2

LEMMA Glue ==
    ASSUME NEW S, NEW a \in S, NEW b \in S, NEW w \in Seq(S)
    PROVE  <<a, b>> \o w = <<a>> \o (<<b>> \o w)
  <1> DEFINE u == <<b>> \o w  s == <<a, b>> \o w  t == <<a>> \o u
  <1>1. u \in Seq(S) /\ Len(u) = 1 + Len(w) /\ u[1] = b /\ \A k \in 1 .. Len(w) : u[k + 1] = w[k]
    OBVIOUS
  <1>2. s \in Seq(S) /\ Len(s) = 2 + Len(w) /\ s[1] = a /\ s[2] = b /\ \A k \in 1 .. Len(w) : s[k + 2] = w[k]
    OBVIOUS
  <1> HIDE DEF u, s
  <1>3. t \in Seq(S) /\ Len(t) = 1 + Len(u) /\ t[1] = a /\ \A k \in 1 .. Len(u) : t[k + 1] = u[k]
    BY <1>1
  <1> HIDE DEF t
  <1>4. Len(s) = Len(t) /\ Len(w) \in Nat
    BY <1>1, <1>2, <1>3
  <1>5. \A k \in 1 .. Len(s) : s[k] = t[k]
    <2> TAKE k \in 1 .. Len(s)
    <2>1. CASE k = 1
      BY <1>2, <1>3, <2>1
    <2>2. CASE k = 2
      BY <1>1, <1>2, <1>3, <1>4, <2>2
    <2>3. CASE k > 2
      <3>1. k - 2 \in 1 .. Len(w) /\ k - 1 \in 1 .. Len(u) /\ k = (k - 2) + 2 /\ k = (k - 1) + 1
            /\ k - 1 = (k - 2) + 1
        BY <1>1, <1>2, <1>4, <2>3
      <3>2. s[k] = w[k - 2]
        BY <1>2, <3>1
      <3>3. t[k] = u[k - 1]
        BY <1>3, <3>1
      <3>4. u[k - 1] = w[k - 2]
        BY <1>1, <3>1
      <3> QED BY <3>2, <3>3, <3>4
    <2> QED BY <1>2, <1>4, <2>1, <2>2, <2>3
  <1>6. s = t
    BY <1>2, <1>3, <1>4, <1>5
  <1> QED BY <1>6 DEF u, s, t

LEMMA GlueThree ==
    ASSUME NEW S, NEW a \in S, NEW b \in S, NEW c \in S, NEW w \in Seq(S)
    PROVE  <<a, b, c>> \o w = <<a>> \o (<<b, c>> \o w)
  <1> DEFINE u == <<b, c>> \o w  s == <<a, b, c>> \o w  t == <<a>> \o u
  <1>1. u \in Seq(S) /\ Len(u) = 2 + Len(w) /\ u[1] = b /\ u[2] = c /\ \A k \in 1 .. Len(w) : u[k + 2] = w[k]
    OBVIOUS
  <1>2. /\ s \in Seq(S) /\ Len(s) = 3 + Len(w) /\ s[1] = a /\ s[2] = b /\ s[3] = c
        /\ \A k \in 1 .. Len(w) : s[k + 3] = w[k]
    OBVIOUS
  <1> HIDE DEF u, s
  <1>3. t \in Seq(S) /\ Len(t) = 1 + Len(u) /\ t[1] = a /\ \A k \in 1 .. Len(u) : t[k + 1] = u[k]
    BY <1>1
  <1> HIDE DEF t
  <1>4. Len(s) = Len(t) /\ Len(w) \in Nat
    BY <1>1, <1>2, <1>3
  <1>5. \A k \in 1 .. Len(s) : s[k] = t[k]
    <2> TAKE k \in 1 .. Len(s)
    <2>1. CASE k = 1
      BY <1>2, <1>3, <2>1
    <2>2. CASE k = 2
      BY <1>1, <1>2, <1>3, <1>4, <2>2
    <2>4. CASE k = 3
      BY <1>1, <1>2, <1>3, <1>4, <2>4
    <2>3. CASE k > 3
      <3>1. k - 3 \in 1 .. Len(w) /\ k - 1 \in 1 .. Len(u) /\ k = (k - 3) + 3 /\ k = (k - 1) + 1
            /\ k - 1 = (k - 3) + 2
        BY <1>1, <1>2, <1>4, <2>3
      <3>2. s[k] = w[k - 3]
        BY <1>2, <3>1
      <3>3. t[k] = u[k - 1]
        BY <1>3, <3>1
      <3>4. u[k - 1] = w[k - 3]
        BY <1>1, <3>1
      <3> QED BY <3>2, <3>3, <3>4
    <2> QED BY <1>2, <1>4, <2>1, <2>2, <2>3, <2>4
  <1>6. s = t
    BY <1>2, <1>3, <1>4, <1>5
  <1> QED BY <1>6 DEF u, s, t

\* iput() before another function.
LEMMA PutFrame ==
    ASSUME NEW i \in Inum, NEW f \in Frame \X Maybe, NEW w \in Frames
    PROVE  << Put(i), f >> \o w = << Put(i) >> \o (<<f>> \o w)
  <1>1. Put(i) \in Frame \X Maybe
    BY PutIs
  <1> DEFINE S == Frame \X Maybe  a == Put(i)
  <1>2. a \in S /\ f \in S /\ w \in Seq(S)
    BY <1>1 DEF Frames
  <1> HIDE DEF S, a
  <1>3. <<a, f>> \o w = <<a>> \o (<<f>> \o w)
    BY <1>2, Glue
  <1> QED BY <1>3 DEF a

LEMMA WorkUnder ==
    ASSUME NEW l \in Workers, NEW r \in Rests(l)
    PROVE  /\ Work("no", l, r) = Under(l, r) /\ Under(l, r) \in Frames
           /\ Work("yes", l, r) = << F("namex") >> \o Under(l, r)
  <1>1. r \in Frames
    BY RestsAre
  <1>2. F(l) \in Frame \X Maybe /\ F("namex") \in Frame \X Maybe
    BY Labelled DEF Frame
  <1>3. Under(l, r) \in Frames
    BY <1>1, <1>2 DEF Frames, Under
  <1>4. Work("no", l, r) = Under(l, r)
    BY DEF Work, Under
  <1> DEFINE S == Frame \X Maybe  a == F("namex")  b == F(l)
  <1>5. a \in S /\ b \in S /\ r \in Seq(S)
    BY <1>1, <1>2 DEF Frames
  <1> HIDE DEF S, a, b
  <1>6. <<a, b>> \o r = <<a>> \o (<<b>> \o r)
    BY <1>5, Glue
  <1>7. Work("yes", l, r) = <<a, b>> \o r /\ Under(l, r) = <<b>> \o r
    BY DEF a, b, Work, Under
  <1> QED BY <1>3, <1>4, <1>6, <1>7 DEF a

\* namex() goes on, or returns to the function l.
LEMMA WalkGoes ==
    ASSUME NEW p, NEW l \in Walkers, NEW r \in Rests(l), Busy(p, <<>>, "yes", l, r),
           NEW ps \in Seq(Putting), NEW walks \in {"yes", "no"}, pc'[p] = ps \o Work(walks, l, r),
           cwd'[p] = cwd[p], ip'[p] = ip[p], dp'[p] = dp[p],
           call'[p] = call[p], climbed'[p] = climbed[p], result'[p] = result[p],
           \A i \in Inum : lock[i] = p => lock'[i] = p,
           walks = "yes" => at'[p] \in Inum
    PROVE  Stacked(p)'
  <1>1. /\ Owned(p, "yes", l) \subseteq Inum /\ \A i \in Owned(p, "yes", l) : lock[i] = p
        /\ Knows(p, "yes", l, r)
    BY DEF Busy
  <1>2. l \notin {"new", "remove", "putdir", "name", "unlinked", "created", "opened", "symwrite",
                  "found", "look", "chdired"} /\ l \in Workers
    BY DEF Walkers, Workers
  <1>3. Owned(p, walks, l)' = Owned(p, "yes", l)
    BY <1>2 DEF Owned, Locks, Returned
  <1>4. Knows(p, walks, l, r)'
    BY <1>1, <1>2 DEF Knows
  <1>5. Owned(p, walks, l)' \subseteq Inum /\ \A i \in Owned(p, walks, l)' : lock'[i] = p
    BY <1>1, <1>3
  <1> QED BY <1>2, <1>4, <1>5, Pushed

LEMMA WalkEndsStep ==
    ASSUME NEW p \in Proc, Types, Stacked(p), WalkEnds(p), UNCHANGED callvars
    PROVE  Good(p)
  <1>1. /\ At(p, "namex") /\ UNCHANGED <<fsvars, path, name, callvars>>
        /\ \/ at' = [at EXCEPT ![p] = None] /\ Then(p, << Put(at[p]) >>)
           \/ UNCHANGED at /\ Then(p, <<>>)
    BY DEF WalkEnds
  <1>2. PICK l \in Walkers : \E r \in Rests(l) : Busy(p, <<>>, "yes", l, r) /\ Below(p) = Under(l, r)
    BY <1>1, NamexIs
  <1>3. PICK r \in Rests(l) : Busy(p, <<>>, "yes", l, r) /\ Below(p) = Under(l, r)
    BY <1>2
  <1>4. l \in Workers /\ at[p] \in Inum
    BY <1>3 DEF Busy, Knows
  <1>5. PICK ps \in Seq(Putting) : Then(p, ps)
    <2>1. <<>> \in Seq(Putting) /\ << Put(at[p]) >> \in Seq(Putting)
      BY <1>4, PutIs
    <2> QED BY <1>1, <2>1
  <1>6. DOMAIN pc' = Proc /\ (\A q \in Proc \ {p} : pc'[q] = pc[q]) /\ pc'[p] = ps \o Work("no", l, r)
    <2>1. pc'[p] = ps \o Below(p) /\ DOMAIN pc' = Proc /\ \A q \in Proc \ {p} : pc'[q] = pc[q]
      BY <1>5, ThenIs DEF Types, WalkTypes
    <2> QED BY <1>3, <1>4, <2>1, WorkUnder
  <1>7. UNCHANGED <<disk, cache, dir, text, lock, path, name, ip, dp, cwd, climbed, result, call, program>>
    BY <1>1 DEF fsvars, callvars
  <1>8. Types'
    <2>1. FsTypes' /\ CallTypes'
      BY <1>7 DEF Types, FsTypes, CallTypes
    <2>2. at' \in [Proc -> Maybe]
      BY <1>1, Numbers DEF Types, WalkTypes
    <2>3. WalkTypes'
      BY <1>6, <1>7, <2>2 DEF Types, WalkTypes
    <2> QED BY <2>1, <2>3 DEF Types
  <1>9. Alone(p)
    BY <1>1, <1>6, <1>7 DEF Alone, Types, WalkTypes
  <1>10. Stacked(p)'
    BY <1>3, <1>6, <1>7, WalkGoes
  <1> QED BY <1>8, <1>9, <1>10 DEF Good

LEMMA WalkStepStep ==
    ASSUME NEW p \in Proc, Types, Stacked(p), WalkStep(p), UNCHANGED callvars
    PROVE  Good(p)
  <1> DEFINE i == at[p]  e == Head(path[p])  next == dir[i][e]
  <1>0. At(p, "namex") /\ path[p] # <<>>
    BY DEF WalkStep
  <1>2. PICK l \in Walkers : \E r \in Rests(l) : Busy(p, <<>>, "yes", l, r) /\ Below(p) = Under(l, r)
    BY <1>0, NamexIs
  <1>3. PICK r \in Rests(l) : Busy(p, <<>>, "yes", l, r) /\ Below(p) = Under(l, r)
    BY <1>2
  <1>4. l \in Workers /\ i \in Inum
    BY <1>3 DEF Busy, Knows
  <1>5. e \in Name /\ Tail(path[p]) \in Seq(Name) /\ next \in Maybe
    <2>1. path[p] \in Seq(Name)
      BY DEF Types, WalkTypes
    <2> QED BY <1>0, <1>4, <2>1 DEF Types, FsTypes
  <1>6. /\ UNCHANGED <<disk, dir, text, lock, cwd>>
        /\ name' = [name EXCEPT ![p] = e] /\ path' = [path EXCEPT ![p] = Tail(@)]
        /\ \/ at' = [at EXCEPT ![p] = None] /\ Then(p, << Put(i) >>) /\ Load(i)
           \/ UNCHANGED at /\ Then(p, <<>>) /\ Load(i)
           \/ /\ at' = [at EXCEPT ![p] = next] /\ next # None
              /\ Then(p, << Put(i), F("namex") >>) /\ LoadAndGet(i, next)
    <2>1. F("namex") = <<"namex", None>>
      BY DEF F
    <2> HIDE DEF e
    <2>2. name' = [name EXCEPT ![p] = e] /\ path' = [path EXCEPT ![p] = Tail(@)]
      BY DEF WalkStep, e
    <2>3. \/ at' = [at EXCEPT ![p] = None] /\ Then(p, << Put(i) >>) /\ Load(i)
          \/ UNCHANGED at /\ Then(p, <<>>) /\ Load(i)
          \/ /\ at' = [at EXCEPT ![p] = next] /\ next # None
             /\ Then(p, << Put(i), F("namex") >>) /\ LoadAndGet(i, next)
      BY <2>1 DEF WalkStep, e
    <2>4. UNCHANGED <<disk, dir, text, lock, cwd>>
      BY DEF WalkStep
    <2> QED BY <2>2, <2>3, <2>4
  <1> HIDE DEF e, next
  <1>7. Work("no", l, r) = Under(l, r) /\ Under(l, r) \in Frames
        /\ Work("yes", l, r) = << F("namex") >> \o Under(l, r)
    BY <1>4, WorkUnder
  <1>8. \E ps \in Seq(Putting), walks \in {"yes", "no"} :
           /\ pc'[p] = ps \o Work(walks, l, r) /\ DOMAIN pc' = Proc
           /\ \A q \in Proc \ {p} : pc'[q] = pc[q]
           /\ at' = [at EXCEPT ![p] = at'[p]] /\ at'[p] \in Maybe
           /\ walks = "yes" => at'[p] \in Inum
           /\ cache' \in [Inum -> Entry]
    <2>1. CASE at' = [at EXCEPT ![p] = None] /\ Then(p, << Put(i) >>) /\ Load(i)
      <3>1. pc'[p] = << Put(i) >> \o Work("no", l, r) /\ DOMAIN pc' = Proc /\ \A q \in Proc \ {p} : pc'[q] = pc[q]
        BY <1>3, <1>7, <2>1, ThenIs DEF Types, WalkTypes
      <3>2. at' = [at EXCEPT ![p] = at'[p]] /\ at'[p] = None
        BY <2>1 DEF Types, WalkTypes
      <3>3. cache' \in [Inum -> Entry]
        BY <1>4, <2>1, LoadIs DEF Types
      <3> QED BY <1>4, <3>1, <3>2, <3>3, PutIs, Numbers
    <2>2. CASE UNCHANGED at /\ Then(p, <<>>) /\ Load(i)
      <3>1. pc'[p] = <<>> \o Work("no", l, r) /\ DOMAIN pc' = Proc /\ \A q \in Proc \ {p} : pc'[q] = pc[q]
        BY <1>3, <1>7, <2>2, ThenIs DEF Types, WalkTypes
      <3>2. at' = [at EXCEPT ![p] = at'[p]] /\ at'[p] \in Maybe
        BY <2>2 DEF Types, WalkTypes
      <3>3. cache' \in [Inum -> Entry]
        BY <1>4, <2>2, LoadIs DEF Types
      <3>4. <<>> \in Seq(Putting)
        OBVIOUS
      <3> QED BY <3>1, <3>2, <3>3, <3>4
    <2>3. CASE /\ at' = [at EXCEPT ![p] = next] /\ next # None
               /\ Then(p, << Put(i), F("namex") >>) /\ LoadAndGet(i, next)
      <3>1. /\ pc'[p] = << Put(i), F("namex") >> \o Below(p) /\ DOMAIN pc' = Proc
            /\ \A q \in Proc \ {p} : pc'[q] = pc[q]
        BY <2>3, ThenIs DEF Types, WalkTypes
      <3>2. at' = [at EXCEPT ![p] = at'[p]] /\ at'[p] = next
        BY <2>3 DEF Types, WalkTypes
      <3>3. next \in Inum
        BY <1>5, <2>3 DEF Maybe
      <3>4. cache' \in [Inum -> Entry]
        BY <1>4, <2>3, <3>3, LoadAndGetIs DEF Types
      <3>5. << Put(i), F("namex") >> \o Under(l, r) = << Put(i) >> \o Work("yes", l, r)
        <4>1. F("namex") \in Frame \X Maybe
          BY Labelled DEF Frame
        <4> QED BY <1>4, <1>7, <4>1, PutFrame
      <3>6. pc'[p] = << Put(i) >> \o Work("yes", l, r)
        BY <1>3, <3>1, <3>5
      <3>7. << Put(i) >> \in Seq(Putting)
        BY <1>4, PutIs
      <3> QED BY <3>1, <3>2, <3>3, <3>4, <3>6, <3>7, Numbers
    <2> QED BY <1>6, <2>1, <2>2, <2>3
  <1>9. PICK ps \in Seq(Putting), walks \in {"yes", "no"} :
           /\ pc'[p] = ps \o Work(walks, l, r) /\ DOMAIN pc' = Proc
           /\ \A q \in Proc \ {p} : pc'[q] = pc[q]
           /\ at' = [at EXCEPT ![p] = at'[p]] /\ at'[p] \in Maybe
           /\ walks = "yes" => at'[p] \in Inum
           /\ cache' \in [Inum -> Entry]
    BY <1>8
  <1>10. UNCHANGED <<ip, dp, climbed, result, call, program>>
    BY DEF callvars
  <1>11. Types'
    BY <1>5, <1>6, <1>9, <1>10 DEF Types, FsTypes, WalkTypes, CallTypes
  <1>12. Alone(p)
    BY <1>6, <1>9, <1>10 DEF Alone, Types, WalkTypes
  <1>13. Stacked(p)'
    BY <1>3, <1>6, <1>9, <1>10, WalkGoes
  <1> QED BY <1>11, <1>12, <1>13 DEF Good

-----------------------------------------------------------------------------
(* The steps of calls: open() *)

\* A variable with an inode for each process, changed for p only.
Sets(new, old, p) == new \in [Proc -> Maybe] /\ \A q \in Proc \ {p} : new[q] = old[q]

LEMMA SetsOne ==
    ASSUME NEW f \in [Proc -> Maybe], NEW p \in Proc, NEW i \in Maybe
    PROVE  Sets([f EXCEPT ![p] = i], f, p) /\ [f EXCEPT ![p] = i][p] = i
  BY DEF Sets

LEMMA SetsNone ==
    ASSUME NEW f \in [Proc -> Maybe], NEW p \in Proc
    PROVE  Sets(f, f, p)
  BY DEF Sets

\* p changes only what is its own, and no lock of the others.
LEMMA MovesFar ==
    ASSUME NEW p \in Proc, Types, DOMAIN pc' = Proc, \A q \in Proc \ {p} : pc'[q] = pc[q],
           Sets(at', at, p), Sets(ip', ip, p), Sets(dp', dp, p),
           UNCHANGED <<cwd, climbed, result, call, program>>,
           path' \in [Proc -> Seq(Name)], name' \in [Proc -> Name],
           \A j \in Inum : lock[j] \notin {NoProc, p} => lock'[j] = lock[j]
    PROVE  Alone(p) /\ WalkTypes' /\ CallTypes'
  <1>1. WalkTypes'
    BY DEF Sets, WalkTypes
  <1>2. CallTypes'
    BY DEF Sets, CallTypes, Types
  <1>3. Alone(p)
    BY Somebody DEF Sets, Alone
  <1> QED BY <1>1, <1>2, <1>3

LEMMA Moves ==
    ASSUME NEW p \in Proc, Types, NEW s, Then(p, s),
           Sets(at', at, p), Sets(ip', ip, p), Sets(dp', dp, p),
           UNCHANGED <<cwd, path, name, climbed, result, call, program>>,
           \A j \in Inum : lock[j] \notin {NoProc, p} => lock'[j] = lock[j]
    PROVE  Alone(p) /\ WalkTypes' /\ CallTypes' /\ pc'[p] = s \o Below(p)
  <1>1. pc'[p] = s \o Below(p) /\ DOMAIN pc' = Proc /\ \A q \in Proc \ {p} : pc'[q] = pc[q]
    BY ThenIs DEF Types, WalkTypes
  <1>2. path' \in [Proc -> Seq(Name)] /\ name' \in [Proc -> Name]
    BY DEF Types, WalkTypes
  <1> QED BY <1>1, <1>2, MovesFar

\* Only one inode in the cache changes, and a lock.
LEMMA FsMoves ==
    ASSUME Types, UNCHANGED <<disk, dir, text>>,
           cache' \in [Inum -> Entry], lock' \in [Inum -> Proc \cup {NoProc}]
    PROVE  FsTypes'
  BY DEF Types, FsTypes

LEMMA EndsApart ==
    Ends # << F("linkbad") >> \o Ends /\ Ends # << F("symlink") >> \o Ends
  <1>1. Tail(Ends) = <<>> /\ Ends # <<>> /\ Ends \in Seq(Frame \X Maybe)
    BY EndingsAre, EndsAre DEF Frames, Ends
  <1>2. Tail(<< F("linkbad") >> \o Ends) = Ends /\ Tail(<< F("symlink") >> \o Ends) = Ends
    BY <1>1, ConsIs
  <1> QED BY <1>1, <1>2

\* A process in the function l of a call.
LEMMA InCall ==
    ASSUME NEW p, NEW l \in Workers, Stacked(p), At(p, l)
    PROVE  \E r \in Rests(l) :
              /\ Busy(p, <<>>, "no", l, r) /\ Below(p) = r /\ r \in Frames /\ pc[p] # <<>>
              /\ Knows(p, "no", l, r) /\ cwd[p] \in Inum
              /\ Owned(p, "no", l) \subseteq Inum /\ \A i \in Owned(p, "no", l) : lock[i] = p
  <1>1. PICK r \in Rests(l) : Busy(p, <<>>, "no", l, r) /\ Below(p) = r
    BY JobIs
  <1> QED BY <1>1, RestsAre DEF Busy, Knows, At

LEMMA StartIs ==
    ASSUME NEW p, cwd[p] \in Inum, NEW pth
    PROVE  StartOf(p, pth) \in Inum
  BY Numbers DEF StartOf

\* A walk begins, on behalf of the function l.
LEMMA WalkBegins ==
    ASSUME NEW p \in Proc, Types, NEW pth, NEW parent, NEW frames, WalkFrom(p, pth, parent, frames),
           IsPath(pth), cwd[p] \in Inum
    PROVE  /\ Sets(at', at, p) /\ at'[p] \in Inum
           /\ path' \in [Proc -> Seq(Name)] /\ name' \in [Proc -> Name]
           /\ pc'[p] = << F("namex") >> \o frames /\ DOMAIN pc' = Proc
           /\ \A q \in Proc \ {p} : pc'[q] = pc[q]
  <1>1. StartOf(p, pth) \in Inum /\ StartOf(p, pth) \in Maybe
    BY StartIs, Numbers
  <1>2. at' = [at EXCEPT ![p] = StartOf(p, pth)]
    BY DEF WalkFrom
  <1>3. Sets(at', at, p) /\ at'[p] \in Inum
    BY <1>1, <1>2, SetsOne DEF Types, WalkTypes
  <1>4. ElementsOf(pth) \in Seq(Name) /\ path' = [path EXCEPT ![p] = ElementsOf(pth)]
    BY DEF IsPath, WalkFrom
  <1>5. path' \in [Proc -> Seq(Name)]
    BY <1>4 DEF Types, WalkTypes
  <1>6. pc' = [pc EXCEPT ![p] = << F("namex") >> \o frames] /\ name' = name
    BY DEF WalkFrom, F
  <1>7. pc'[p] = << F("namex") >> \o frames /\ DOMAIN pc' = Proc /\ \A q \in Proc \ {p} : pc'[q] = pc[q]
    BY <1>6 DEF Types, WalkTypes
  <1> QED BY <1>3, <1>5, <1>6, <1>7 DEF Types, WalkTypes

Failing == {"create", "created", "opened", "open", "unlink", "link", "chdir", "exec", "load", "symwrite"}

LEMMA LookupFailsStep ==
    ASSUME NEW p \in Proc, Types, Stacked(p), LookupFails(p)
    PROVE  Good(p)
  <1>1. PICK l \in Failing : At(p, l)
    BY DEF LookupFails, Failing
  <1>2. l \in Workers /\ l # "putdir"
    BY DEF Failing, Workers, Walkers
  <1>3. PICK r \in Rests(l) : Busy(p, <<>>, "no", l, r) /\ Below(p) = r /\ r \in Frames /\ cwd[p] \in Inum
    BY <1>1, <1>2, InCall
  <1>4. at[p] = None /\ Then(p, <<>>) /\ UNCHANGED <<fsvars, walkvars, callvars>>
    BY DEF LookupFails
  <1>5. UNCHANGED <<disk, dir, text, cache, lock, cwd, at, path, name, ip, dp, climbed, result, call, program>>
    BY <1>4 DEF fsvars, walkvars, callvars
  <1>6. Alone(p) /\ WalkTypes' /\ CallTypes' /\ pc'[p] = <<>> \o Below(p)
    <2>1. Sets(at', at, p) /\ Sets(ip', ip, p) /\ Sets(dp', dp, p)
      BY <1>5, SetsNone DEF Types, WalkTypes, CallTypes
    <2> QED BY <1>4, <1>5, <2>1, Moves
  <1>7. FsTypes'
    BY <1>5 DEF Types, FsTypes
  <1>8. Stacked(p)'
    <2>1. <<>> \in Seq(Putting)
      OBVIOUS
    <2>2. pc'[p] = <<>> \o r
      BY <1>3, <1>6
    <2> QED BY <1>2, <1>3, <1>4, <1>5, <2>1, <2>2, Resumes
  <1> QED BY <1>6, <1>7, <1>8 DEF Good, Types

LEMMA OpenFailsStep ==
    ASSUME NEW p \in Proc, Types, Stacked(p), OpenFails(p)
    PROVE  Good(p)
  <1>1. /\ At(p, "open") /\ at[p] # None /\ Load(at[p])
        /\ at' = [at EXCEPT ![p] = None] /\ Then(p, << Put(at[p]) >>)
        /\ UNCHANGED <<disk, dir, text, lock, cwd, path, name, callvars>>
    BY DEF OpenFails
  <1>2. PICK r \in Rests("open") : Busy(p, <<>>, "no", "open", r) /\ Below(p) = r /\ cwd[p] \in Inum
    BY <1>1, InCall DEF Workers, Walkers
  <1>3. at[p] \in Inum
    BY <1>1 DEF Types, WalkTypes, Maybe
  <1>4. UNCHANGED <<ip, dp, climbed, result, call, program>>
    BY <1>1 DEF callvars
  <1>5. Sets(at', at, p) /\ Sets(ip', ip, p) /\ Sets(dp', dp, p)
    BY <1>1, <1>4, SetsOne, SetsNone, Numbers DEF Types, WalkTypes, CallTypes
  <1>6. Alone(p) /\ WalkTypes' /\ CallTypes' /\ pc'[p] = << Put(at[p]) >> \o Below(p)
    BY <1>1, <1>4, <1>5, Moves
  <1>7. FsTypes'
    BY <1>1, <1>3, LoadIs DEF Types, FsTypes
  <1>8. Stacked(p)'
    BY <1>1, <1>2, <1>3, <1>4, <1>6, PutIs, Resumes
  <1> QED BY <1>6, <1>7, <1>8 DEF Good, Types

LEMMA OneRest ==
    ASSUME NEW l, NEW r \in Rests(l)
    PROVE  l \in {"open", "opened", "followed", "unlink", "remove", "unlinked", "link", "linknew", "linkto",
                  "linkbad", "chdir", "chdired", "created", "symlink", "symwrite", "load"} => r = Ends
  BY DEF Rests

LEMMA EndsRest ==
    ASSUME NEW l \in {"open", "opened", "followed", "unlink", "remove", "unlinked", "link", "linknew",
                  "linkto", "linkbad", "chdir", "chdired", "created", "symlink", "symwrite", "load",
                  "putdir", "climb", "name"}
    PROVE  Ends \in Rests(l) /\ l \in Workers
  BY DEF Rests, Workers, Walkers

\* p goes on with the function l, after some puts.
LEMMA Goes ==
    ASSUME NEW p, NEW ps \in Seq(Putting), NEW l \in Workers, NEW r \in Rests(l),
           pc'[p] = ps \o Under(l, r),
           Owned(p, "no", l)' \subseteq Inum, \A i \in Owned(p, "no", l)' : lock'[i] = p,
           Knows(p, "no", l, r)'
    PROVE  Stacked(p)'
  <1>1. pc'[p] = ps \o Work("no", l, r)
    BY WorkUnder
  <1> QED BY <1>1, Pushed

\* The frames of the function l, with an iput() before it or not.
LEMMA FrameGoes ==
    ASSUME NEW l \in Workers, NEW r \in Rests(l)
    PROVE  /\ << F(l) >> \o r = <<>> \o Under(l, r) /\ <<>> \in Seq(Putting)
           /\ \A i \in Inum : << Put(i), F(l) >> \o r = << Put(i) >> \o Under(l, r)
  <1>1. r \in Frames /\ F(l) \in Frame \X Maybe
    BY RestsAre, Labelled DEF Frame
  <1>2. Under(l, r) \in Frames
    BY WorkUnder
  <1>3. <<>> \o Under(l, r) = Under(l, r)
    BY <1>2 DEF Frames
  <1>4. \A i \in Inum : << Put(i), F(l) >> \o r = << Put(i) >> \o Under(l, r)
    BY <1>1, PutFrame DEF Under
  <1>5. <<>> \in Seq(Putting)
    OBVIOUS
  <1> QED BY <1>3, <1>4, <1>5 DEF Under

LEMMA CanLockIs ==
    ASSUME NEW p \in Proc, Types, NEW i \in Inum, CanLock(i)
    PROVE  /\ lock[i] = NoProc /\ lock[i] # p
           /\ Locked(p, i) => /\ lock' \in [Inum -> Proc \cup {NoProc}] /\ lock'[i] = p
                              /\ \A j \in Inum : lock[j] \notin {NoProc, p} => lock'[j] = lock[j]
                              /\ \A j \in Inum \ {i} : lock'[j] = lock[j]
  BY LocksAre, Somebody DEF Types, CanLock, Free

LEMMA OpenFoundStep ==
    ASSUME NEW p \in Proc, Types, Stacked(p), OpenFound(p)
    PROVE  Good(p)
  <1>1. /\ At(p, "open") /\ at[p] # None /\ CanLock(at[p]) /\ Load(at[p]) /\ Locked(p, at[p])
        /\ Then(p, << F("opened") >>)
        /\ UNCHANGED <<disk, dir, text, cwd, at, path, name, callvars>>
    BY DEF OpenFound, F, walkvars
  <1>2. PICK r \in Rests("open") : Busy(p, <<>>, "no", "open", r) /\ Below(p) = r /\ cwd[p] \in Inum
    BY <1>1, InCall DEF Workers, Walkers
  <1>3. at[p] \in Inum
    BY <1>1 DEF Types, WalkTypes, Maybe
  <1>4. UNCHANGED <<ip, dp, climbed, result, call, program>>
    BY <1>1 DEF callvars
  <1>5. Sets(at', at, p) /\ Sets(ip', ip, p) /\ Sets(dp', dp, p)
    BY <1>1, <1>4, SetsOne, SetsNone, Numbers DEF Types, WalkTypes, CallTypes
  <1>6. /\ lock' \in [Inum -> Proc \cup {NoProc}] /\ lock'[at[p]] = p
        /\ \A j \in Inum : lock[j] \notin {NoProc, p} => lock'[j] = lock[j]
    BY <1>1, <1>3, CanLockIs
  <1>7. Alone(p) /\ WalkTypes' /\ CallTypes' /\ pc'[p] = << F("opened") >> \o Below(p)
    BY <1>1, <1>4, <1>5, <1>6, Moves
  <1>8. FsTypes'
    BY <1>1, <1>3, <1>6, LoadIs, FsMoves DEF Types
  <1>9. Stacked(p)'
    <2>1. r = Ends /\ Ends \in Rests("opened") /\ "opened" \in Workers
      BY OneRest, EndsRest
    <2>2. Owned(p, "no", "opened")' \subseteq Inum /\ \A i \in Owned(p, "no", "opened")' : lock'[i] = p
      BY <1>1, <1>3, <1>6 DEF Owned, Locks, Returned
    <2>3. Knows(p, "no", "opened", Ends)'
      BY <1>1, <1>2, EndsApart DEF Knows
    <2>4. pc'[p] = <<>> \o Under("opened", Ends) /\ <<>> \in Seq(Putting)
      BY <1>2, <1>7, <2>1, FrameGoes
    <2> QED BY <2>1, <2>2, <2>3, <2>4, Goes
  <1> QED BY <1>7, <1>8, <1>9 DEF Good, Types

\* The path in a link leads to what follows it.
LEMMA OpenLinkStep ==
    ASSUME NEW p \in Proc, Types, Stacked(p), OpenLink(p)
    PROVE  Good(p)
  <1> DEFINE i == at[p]
  <1>1. /\ At(p, "open") /\ i # None /\ CanLock(i) /\ Locked(p, i)
        /\ LoadAndGet(i, StartOf(p, text[i]))
        /\ ip' = [ip EXCEPT ![p] = i]
        /\ WalkFrom(p, text[i], FALSE, << F("followed") >> \o Below(p))
        /\ UNCHANGED <<disk, dir, text, cwd, dp, climbed, result, call, program>>
    BY DEF OpenLink, F, Below
  <1>2. PICK r \in Rests("open") : Busy(p, <<>>, "no", "open", r) /\ Below(p) = r /\ cwd[p] \in Inum
    BY <1>1, InCall DEF Workers, Walkers
  <1>3. i \in Inum /\ StartOf(p, text[i]) \in Inum /\ IsPath(text[i])
    BY <1>1, <1>2, StartIs DEF Types, FsTypes, WalkTypes, Maybe
  <1>4. /\ Sets(at', at, p) /\ at'[p] \in Inum
        /\ path' \in [Proc -> Seq(Name)] /\ name' \in [Proc -> Name]
        /\ pc'[p] = << F("namex") >> \o (<< F("followed") >> \o Below(p)) /\ DOMAIN pc' = Proc
        /\ \A q \in Proc \ {p} : pc'[q] = pc[q]
    BY <1>1, <1>2, <1>3, WalkBegins
  <1>5. Sets(ip', ip, p) /\ ip'[p] = i /\ Sets(dp', dp, p)
    BY <1>1, <1>3, SetsOne, SetsNone, Numbers DEF Types, CallTypes
  <1>6. /\ lock' \in [Inum -> Proc \cup {NoProc}] /\ lock'[i] = p
        /\ \A j \in Inum : lock[j] \notin {NoProc, p} => lock'[j] = lock[j]
    BY <1>1, <1>3, CanLockIs
  <1>7. Alone(p) /\ WalkTypes' /\ CallTypes'
    BY <1>1, <1>4, <1>5, <1>6, MovesFar
  <1>8. FsTypes'
    BY <1>1, <1>3, <1>6, LoadAndGetIs, FsMoves DEF Types
  <1>9. Stacked(p)'
    <2>1. r = Ends /\ Ends \in Rests("followed") /\ "followed" \in Workers /\ "followed" \in Walkers
      BY OneRest, EndsRest DEF Walkers
    <2>2. Owned(p, "yes", "followed")' \subseteq Inum /\ \A j \in Owned(p, "yes", "followed")' : lock'[j] = p
      BY <1>3, <1>5, <1>6 DEF Owned, Locks, Returned
    <2>3. Knows(p, "yes", "followed", Ends)'
      BY <1>1, <1>2, <1>4, EndsApart DEF Knows
    <2>4. pc'[p] = <<>> \o Work("yes", "followed", Ends) /\ <<>> \in Seq(Putting)
      <3>1. pc'[p] = Work("yes", "followed", Ends)
        BY <1>2, <1>4, <2>1, WorkUnder DEF Under
      <3>2. Work("yes", "followed", Ends) \in Frames
        BY <2>1, WorkIs
      <3> QED BY <3>1, <3>2 DEF Frames
    <2> QED BY <2>1, <2>2, <2>3, <2>4, Pushed
  <1> QED BY <1>7, <1>8, <1>9 DEF Good, Types

LEMMA FollowedStep ==
    ASSUME NEW p \in Proc, Types, Stacked(p), Followed(p)
    PROVE  Good(p)
  <1> DEFINE s == << Put(ip[p]) >> \o (IF at[p] = None THEN <<>> ELSE << F("open") >>)
  <1>1. /\ At(p, "followed") /\ Unlocked(ip[p]) /\ ip' = [ip EXCEPT ![p] = None] /\ Then(p, s)
        /\ UNCHANGED <<disk, dir, text, cache, cwd, at, path, name, dp, climbed, result, call, program>>
    BY DEF Followed, F, walkvars
  <1>2. PICK r \in Rests("followed") :
           /\ Busy(p, <<>>, "no", "followed", r) /\ Below(p) = r /\ cwd[p] \in Inum
           /\ Owned(p, "no", "followed") \subseteq Inum
           /\ \A i \in Owned(p, "no", "followed") : lock[i] = p
    BY <1>1, InCall DEF Workers, Walkers
  <1>3. ip[p] \in Inum /\ lock[ip[p]] = p
    BY <1>2 DEF Owned, Locks, Returned
  <1>4. Sets(at', at, p) /\ Sets(ip', ip, p) /\ Sets(dp', dp, p)
    BY <1>1, SetsOne, SetsNone, Numbers DEF Types, WalkTypes, CallTypes
  <1>5. /\ lock' \in [Inum -> Proc \cup {NoProc}]
        /\ \A j \in Inum : lock[j] \notin {NoProc, p} => lock'[j] = lock[j]
    BY <1>1, <1>3, LocksAre DEF Types
  <1>6. Alone(p) /\ WalkTypes' /\ CallTypes' /\ pc'[p] = s \o Below(p)
    BY <1>1, <1>4, <1>5, Moves
  <1>7. FsTypes'
    BY <1>1, <1>5 DEF Types, FsTypes
  <1>8. Stacked(p)'
    <2>1. r = Ends /\ Ends \in Rests("open") /\ "open" \in Workers
      BY OneRest, EndsRest
    <2>2. CASE at[p] = None
      <3>1. s = << Put(ip[p]) >> /\ s \in Seq(Putting)
        BY <1>3, <2>2, PutIs
      <3> QED BY <1>2, <1>6, <2>1, <3>1, Ended
    <2>3. CASE at[p] # None
      <3>1. s = << Put(ip[p]), F("open") >>
        BY <2>3, Pair
      <3>2. pc'[p] = << Put(ip[p]) >> \o Under("open", Ends) /\ << Put(ip[p]) >> \in Seq(Putting)
        BY <1>2, <1>3, <1>6, <2>1, <3>1, FrameGoes, PutIs
      <3>3. Owned(p, "no", "open")' = {}
        BY DEF Owned, Locks, Returned
      <3>4. Knows(p, "no", "open", Ends)'
        BY <1>1, <1>2, EndsApart DEF Knows
      <3> QED BY <2>1, <3>2, <3>3, <3>4, Goes
    <2> QED BY <2>2, <2>3
  <1> QED BY <1>6, <1>7, <1>8 DEF Good, Types

LEMMA OpenedStep ==
    ASSUME NEW p \in Proc, Types, Stacked(p), Opened(p)
    PROVE  Good(p)
  <1>1. /\ At(p, "opened") /\ at[p] # None /\ Unlocked(at[p]) /\ at' = [at EXCEPT ![p] = None]
        /\ Then(p, <<>>) \/ Then(p, << Put(at[p]) >>)
        /\ UNCHANGED <<disk, dir, text, cache, cwd, path, name, ip, dp, climbed, result, call, program>>
    BY DEF Opened
  <1>2. PICK r \in Rests("opened") :
           /\ Busy(p, <<>>, "no", "opened", r) /\ Below(p) = r /\ cwd[p] \in Inum
           /\ Owned(p, "no", "opened") \subseteq Inum
           /\ \A i \in Owned(p, "no", "opened") : lock[i] = p
    BY <1>1, InCall DEF Workers, Walkers
  <1>3. at[p] \in Inum /\ lock[at[p]] = p
    BY <1>1, <1>2 DEF Owned, Locks, Returned
  <1>4. Sets(at', at, p) /\ Sets(ip', ip, p) /\ Sets(dp', dp, p)
    BY <1>1, SetsOne, SetsNone, Numbers DEF Types, WalkTypes, CallTypes
  <1>5. /\ lock' \in [Inum -> Proc \cup {NoProc}]
        /\ \A j \in Inum : lock[j] \notin {NoProc, p} => lock'[j] = lock[j]
    BY <1>1, <1>3, LocksAre DEF Types
  <1>6. PICK ps \in Seq(Putting) : Then(p, ps)
    <2>1. <<>> \in Seq(Putting) /\ << Put(at[p]) >> \in Seq(Putting)
      BY <1>3, PutIs
    <2> QED BY <1>1, <2>1
  <1>7. Alone(p) /\ WalkTypes' /\ CallTypes' /\ pc'[p] = ps \o Below(p)
    BY <1>1, <1>4, <1>5, <1>6, Moves
  <1>8. FsTypes'
    BY <1>1, <1>5, FsMoves DEF Types, FsTypes
  <1>9. Stacked(p)'
    BY <1>1, <1>2, <1>7, Resumes
  <1> QED BY <1>7, <1>8, <1>9 DEF Good, Types

-----------------------------------------------------------------------------
(* create() *)

LEMMA CreateFindsStep ==
    ASSUME NEW p \in Proc, Types, Stacked(p), CreateFinds(p)
    PROVE  Good(p)
  <1> DEFINE d == at[p]  i == dir[d][name[p]]
  <1>1. /\ At(p, "create") /\ d # None /\ i # None /\ LoadAndGet(d, i)
        /\ at' = [at EXCEPT ![p] = i] /\ Then(p, << Put(d), F("found") >>)
        /\ UNCHANGED <<disk, dir, text, lock, cwd, path, name, ip, dp, climbed, result, call, program>>
    BY DEF CreateFinds, callvars, F
  <1>2. PICK r \in Rests("create") :
           /\ Busy(p, <<>>, "no", "create", r) /\ Below(p) = r /\ Knows(p, "no", "create", r)
    BY <1>1, InCall DEF Workers, Walkers
  <1>3. d \in Inum /\ name[p] \in Name
    BY <1>1 DEF Types, WalkTypes, Maybe
  <1>4. i \in Inum
    BY <1>1, <1>3 DEF Types, FsTypes, Maybe
  <1> HIDE DEF i
  <1>5. Sets(at', at, p) /\ at'[p] = i /\ Sets(ip', ip, p) /\ Sets(dp', dp, p)
    BY <1>1, <1>4, SetsOne, SetsNone, Numbers DEF Types, WalkTypes, CallTypes
  <1>6. Alone(p) /\ WalkTypes' /\ CallTypes' /\ pc'[p] = << Put(d), F("found") >> \o Below(p)
    BY <1>1, <1>5, Moves
  <1>7. FsTypes'
    BY <1>1, <1>3, <1>4, LoadAndGetIs, FsMoves DEF Types, FsTypes
  <1>8. Stacked(p)'
    <2>1. r \in Rests("found") /\ "found" \in Workers
      BY DEF Rests, Workers
    <2>2. Owned(p, "no", "found")' = {}
      BY DEF Owned, Locks, Returned
    <2>3. Knows(p, "no", "found", r)'
      BY <1>1, <1>2, <1>4, <1>5 DEF Knows
    <2>4. pc'[p] = << Put(d) >> \o Under("found", r) /\ << Put(d) >> \in Seq(Putting)
      BY <1>2, <1>3, <1>6, <2>1, FrameGoes, PutIs
    <2> QED BY <2>1, <2>2, <2>3, <2>4, Goes
  <1> QED BY <1>6, <1>7, <1>8 DEF Good, Types

LEMMA FoundStep ==
    ASSUME NEW p \in Proc, Types, Stacked(p), Found(p)
    PROVE  Good(p)
  <1> DEFINE i == at[p]
  <1>1. /\ At(p, "found") /\ CanLock(i) /\ Load(i)
        /\ UNCHANGED <<disk, dir, text, cwd, path, name, ip, dp, climbed, result, call, program>>
        /\ \/ Locked(p, i) /\ Then(p, <<>>) /\ UNCHANGED at
           \/ at' = [at EXCEPT ![p] = None] /\ Then(p, << Put(i) >>) /\ UNCHANGED lock
    BY DEF Found, callvars
  <1>2. PICK r \in Rests("found") :
           /\ Busy(p, <<>>, "no", "found", r) /\ Below(p) = r /\ Knows(p, "no", "found", r)
           /\ cwd[p] \in Inum
    BY <1>1, InCall DEF Workers
  <1>3. i \in Inum
    BY <1>2 DEF Knows
  <1>4. cache' \in [Inum -> Entry]
    BY <1>1, <1>3, LoadIs DEF Types
  <1>5. CASE Locked(p, i) /\ Then(p, <<>>) /\ UNCHANGED at
    <2>1. Sets(at', at, p) /\ Sets(ip', ip, p) /\ Sets(dp', dp, p)
      BY <1>1, <1>5, SetsNone DEF Types, WalkTypes, CallTypes
    <2>2. /\ lock' \in [Inum -> Proc \cup {NoProc}] /\ lock'[i] = p
          /\ \A j \in Inum : lock[j] \notin {NoProc, p} => lock'[j] = lock[j]
      BY <1>1, <1>3, <1>5, CanLockIs
    <2>3. Alone(p) /\ WalkTypes' /\ CallTypes' /\ pc'[p] = <<>> \o Below(p)
      BY <1>1, <1>5, <2>1, <2>2, Moves
    <2>4. FsTypes'
      BY <1>1, <1>4, <2>2, FsMoves
    <2>5. <<>> \in Seq(Putting)
      OBVIOUS
    <2>6. Stacked(p)'
      BY <1>1, <1>2, <1>3, <1>5, <2>2, <2>3, <2>5, Resumes
    <2> QED BY <2>3, <2>4, <2>6 DEF Good, Types
  <1>6. CASE at' = [at EXCEPT ![p] = None] /\ Then(p, << Put(i) >>) /\ UNCHANGED lock
    <2>1. Sets(at', at, p) /\ at'[p] = None /\ Sets(ip', ip, p) /\ Sets(dp', dp, p)
      BY <1>1, <1>6, SetsOne, SetsNone, Numbers DEF Types, WalkTypes, CallTypes
    <2>3. Alone(p) /\ WalkTypes' /\ CallTypes' /\ pc'[p] = << Put(i) >> \o Below(p)
      BY <1>1, <1>6, <2>1, Moves
    <2>4. FsTypes'
      BY <1>1, <1>4, <1>6, FsMoves DEF Types, FsTypes
    <2>6. Stacked(p)'
      BY <1>1, <1>2, <1>3, <2>1, <2>3, PutIs, Resumes
    <2> QED BY <2>3, <2>4, <2>6 DEF Good, Types
  <1> QED BY <1>1, <1>5, <1>6

LEMMA LeastIsIn ==
    ASSUME NEW S \in SUBSET Nat, S # {}
    PROVE  Min(S) \in S
  <1>1. PICK m \in S : \A k \in S : ~ (<<k, m>> \in OpToRel(<, Nat))
    BY NatLessThanWellFounded, WFMin, Zenon
  <1>2. \A k \in S : ~ (k < m)
    BY <1>1 DEF OpToRel
  <1>3. \E x \in S : \A y \in S : x =< y
    BY <1>2
  <1> QED BY <1>3 DEF Min

LEMMA CreateAllocatesStep ==
    ASSUME NEW p \in Proc, Types, Stacked(p), CreateAllocates(p)
    PROVE  Good(p)
  <1> DEFINE d == at[p]  free == {j \in Inum : disk[j].type = "free"}  i == Min(free)
             fresh == [type |-> TypeOf(call[p].op), nlink |-> 0]
  <1>1. /\ At(p, "create") /\ d # None /\ CanLock(d) /\ free # {}
        /\ disk' = [disk EXCEPT ![i] = fresh] /\ Locked(p, d) /\ LoadAndGet(d, i)
        /\ dp' = [dp EXCEPT ![p] = d] /\ at' = [at EXCEPT ![p] = i] /\ Then(p, << F("new") >>)
        /\ UNCHANGED <<dir, text, cwd, path, name, ip, climbed, result, call, program>>
    BY DEF CreateAllocates, F
  <1>2. PICK r \in Rests("create") :
           /\ Busy(p, <<>>, "no", "create", r) /\ Below(p) = r /\ Knows(p, "no", "create", r)
    BY <1>1, InCall DEF Workers, Walkers
  <1>3. d \in Inum
    BY <1>1 DEF Types, WalkTypes, Maybe
  <1>4. i \in Inum
    <2> HIDE DEF free
    <2>1. free \in SUBSET Nat
      BY Numbers DEF free
    <2>2. Min(free) \in free
      BY <1>1, <2>1, LeastIsIn
    <2> QED BY <2>2 DEF free
  <1>5. fresh \in Entry
    BY <1>2 DEF Knows, Makers, TypeOf, Entry
  <1> HIDE DEF i, fresh
  <1>6. Sets(at', at, p) /\ at'[p] = i /\ Sets(ip', ip, p) /\ Sets(dp', dp, p) /\ dp'[p] = d
    BY <1>1, <1>3, <1>4, SetsOne, SetsNone, Numbers DEF Types, WalkTypes, CallTypes
  <1>7. /\ lock' \in [Inum -> Proc \cup {NoProc}] /\ lock'[d] = p
        /\ \A j \in Inum : lock[j] \notin {NoProc, p} => lock'[j] = lock[j]
    BY <1>1, <1>3, CanLockIs
  <1>8. Alone(p) /\ WalkTypes' /\ CallTypes' /\ pc'[p] = << F("new") >> \o Below(p)
    BY <1>1, <1>6, <1>7, Moves
  <1>9. FsTypes'
    <2>1. disk' \in [Inum -> Entry]
      BY <1>1, <1>5 DEF Types, FsTypes
    <2>2. cache' \in [Inum -> Entry]
      BY <1>1, <1>3, <1>4, LoadAndGetIs DEF Types
    <2> QED BY <1>1, <1>7, <2>1, <2>2 DEF Types, FsTypes
  <1>10. Stacked(p)'
    <2>1. r \in Rests("new") /\ "new" \in Workers
      BY DEF Rests, Workers
    <2>2. Owned(p, "no", "new")' \subseteq Inum /\ \A j \in Owned(p, "no", "new")' : lock'[j] = p
      BY <1>3, <1>6, <1>7 DEF Owned, Locks, Returned
    <2>3. Knows(p, "no", "new", r)'
      BY <1>1, <1>2, <1>4, <1>6 DEF Knows
    <2>4. pc'[p] = <<>> \o Under("new", r) /\ <<>> \in Seq(Putting)
      BY <1>2, <1>8, <2>1, FrameGoes
    <2> QED BY <2>1, <2>2, <2>3, <2>4, Goes
  <1> QED BY <1>8, <1>9, <1>10 DEF Good, Types

LEMMA CreatedStep ==
    ASSUME NEW p \in Proc, Types, Stacked(p), Created(p)
    PROVE  Good(p)
  <1>1. /\ At(p, "created") /\ at[p] # None /\ Unlocked(at[p]) /\ at' = [at EXCEPT ![p] = None]
        /\ Then(p, << Put(at[p]) >>)
        /\ UNCHANGED <<disk, dir, text, cache, cwd, path, name, ip, dp, climbed, result, call, program>>
    BY DEF Created, callvars
  <1>2. PICK r \in Rests("created") :
           /\ Busy(p, <<>>, "no", "created", r) /\ Below(p) = r /\ cwd[p] \in Inum
           /\ Owned(p, "no", "created") \subseteq Inum
           /\ \A i \in Owned(p, "no", "created") : lock[i] = p
    BY <1>1, InCall DEF Workers
  <1>3. at[p] \in Inum /\ lock[at[p]] = p
    BY <1>1, <1>2 DEF Owned, Locks, Returned
  <1>4. Sets(at', at, p) /\ Sets(ip', ip, p) /\ Sets(dp', dp, p)
    BY <1>1, SetsOne, SetsNone, Numbers DEF Types, WalkTypes, CallTypes
  <1>5. /\ lock' \in [Inum -> Proc \cup {NoProc}]
        /\ \A j \in Inum : lock[j] \notin {NoProc, p} => lock'[j] = lock[j]
    BY <1>1, <1>3, LocksAre DEF Types
  <1>6. Alone(p) /\ WalkTypes' /\ CallTypes' /\ pc'[p] = << Put(at[p]) >> \o Below(p)
    BY <1>1, <1>4, <1>5, Moves
  <1>7. FsTypes'
    BY <1>1, <1>5, FsMoves DEF Types, FsTypes
  <1>8. Stacked(p)'
    BY <1>1, <1>2, <1>3, <1>6, PutIs, Resumes
  <1> QED BY <1>6, <1>7, <1>8 DEF Good, Types

LEMMA OverOne ==
    ASSUME NEW old \in [Inum -> Entry], NEW i \in Inum, NEW e \in Entry, NEW new, new = Over(Just(i, e), old)
    PROVE  new \in [Inum -> Entry] /\ new[i] = e /\ \A k \in Inum \ {i} : new[k] = old[k]
  BY OverIs

LEMMA OverBoth ==
    ASSUME NEW old \in [Inum -> Entry], NEW i \in Inum, NEW e \in Entry, NEW j \in Inum, NEW f \in Entry, i # j,
           NEW new, new = Over(Just(i, e), Over(Just(j, f), old))
    PROVE  /\ new \in [Inum -> Entry] /\ new[i] = e /\ new[j] = f
           /\ \A k \in Inum \ {i, j} : new[k] = old[k]
  <1> DEFINE mid == Over(Just(j, f), old)
  <1>1. mid \in [Inum -> Entry] /\ mid[j] = f /\ \A k \in Inum \ {j} : mid[k] = old[k]
    BY OverIs
  <1>2. new = Over(Just(i, e), mid)
    OBVIOUS
  <1> HIDE DEF mid
  <1>3. new \in [Inum -> Entry] /\ new[i] = e /\ \A k \in Inum \ {i} : new[k] = mid[k]
    BY <1>1, <1>2, OverOne
  <1> QED BY <1>1, <1>3

LEMMA UpdatesOne ==
    ASSUME FsTypes, NEW i \in Inum, NEW e \in Entry, Iupdate(Just(i, e))
    PROVE  /\ disk' \in [Inum -> Entry] /\ cache' \in [Inum -> Entry]
           /\ disk'[i] = e /\ cache'[i] = e
           /\ \A k \in Inum \ {i} : disk'[k] = disk[k] /\ cache'[k] = cache[k]
  <1>0. disk \in [Inum -> Entry] /\ cache \in [Inum -> Entry]
    BY DEF FsTypes
  <1>1. disk' = Over(Just(i, e), disk) /\ cache' = Over(Just(i, e), cache)
    BY DEF Iupdate
  <1>2. disk' \in [Inum -> Entry] /\ disk'[i] = e /\ \A k \in Inum \ {i} : disk'[k] = disk[k]
    BY <1>1, <1>0, OverOne
  <1>3. cache' \in [Inum -> Entry] /\ cache'[i] = e /\ \A k \in Inum \ {i} : cache'[k] = cache[k]
    BY <1>1, <1>0, OverOne
  <1> QED BY <1>2, <1>3

LEMMA UpdatesTwo ==
    ASSUME FsTypes, NEW i \in Inum, NEW e \in Entry, NEW j \in Inum, NEW f \in Entry, i # j,
           Iupdate(Over(Just(i, e), Just(j, f)))
    PROVE  /\ disk' \in [Inum -> Entry] /\ cache' \in [Inum -> Entry]
           /\ disk'[i] = e /\ cache'[i] = e /\ disk'[j] = f /\ cache'[j] = f
           /\ \A k \in Inum \ {i, j} : disk'[k] = disk[k] /\ cache'[k] = cache[k]
  <1>0. disk \in [Inum -> Entry] /\ cache \in [Inum -> Entry]
    BY DEF FsTypes
  <1>1. disk' = Over(Over(Just(i, e), Just(j, f)), disk) /\ cache' = Over(Over(Just(i, e), Just(j, f)), cache)
    BY DEF Iupdate
  <1>2. disk' = Over(Just(i, e), Over(Just(j, f), disk)) /\ cache' = Over(Just(i, e), Over(Just(j, f), cache))
    BY <1>1, <1>0, OverTwo
  <1>3. /\ disk' \in [Inum -> Entry] /\ disk'[i] = e /\ disk'[j] = f
        /\ \A k \in Inum \ {i, j} : disk'[k] = disk[k]
    BY <1>2, <1>0, OverBoth
  <1>4. /\ cache' \in [Inum -> Entry] /\ cache'[i] = e /\ cache'[j] = f
        /\ \A k \in Inum \ {i, j} : cache'[k] = cache[k]
    <2> DEFINE new == cache'
    <2>1. new = Over(Just(i, e), Over(Just(j, f), cache)) /\ cache \in [Inum -> Entry]
      BY <1>0, <1>2
    <2> HIDE DEF new
    <2>2. new \in [Inum -> Entry] /\ new[i] = e /\ new[j] = f /\ \A k \in Inum \ {i, j} : new[k] = cache[k]
      BY <2>1, OverBoth
    <2> QED BY <2>2 DEF new
  <1> QED BY <1>3, <1>4

\* What the steps that take a lock and give another back do to the locks.
LEMMA Exchanged ==
    ASSUME NEW p \in Proc, FsTypes, NEW i \in Inum, NEW d \in Inum, lock[i] = NoProc, lock[d] = p,
           lock' = [lock EXCEPT ![i] = p, ![d] = NoProc]
    PROVE  /\ i # d /\ lock' \in [Inum -> Proc \cup {NoProc}] /\ lock'[i] = p /\ lock'[d] = NoProc
           /\ \A j \in Inum : lock[j] \notin {NoProc, p} => lock'[j] = lock[j]
           /\ \A j \in Inum \ {i, d} : lock'[j] = lock[j]
  BY Somebody DEF FsTypes

\* The links of the new inode, and of the directory it is in.
LEMMA NewLinks ==
    ASSUME NEW p \in Proc, Types, Stacked(p), CreateLinks(p)
    PROVE  /\ at[p] \in Inum /\ dp[p] \in Inum /\ CanLock(at[p]) /\ lock[dp[p]] = p
           /\ lock' = [lock EXCEPT ![at[p]] = p, ![dp[p]] = NoProc]
           /\ \E e \in Entry, f \in Entry :
                /\ e.type = Loaded(at[p]).type /\ f.type = Loaded(dp[p]).type
                /\ Iupdate(Just(at[p], e)) \/ Iupdate(Over(Just(at[p], e), Just(dp[p], f)))
  <1> DEFINE i == at[p]  d == dp[p]  e == [Loaded(i) EXCEPT !.nlink = 1]
  <1>1. /\ At(p, "new") /\ CanLock(i) /\ lock' = [lock EXCEPT ![i] = p, ![d] = NoProc]
        /\ Iupdate(Just(i, e)) \/ Iupdate(Over(Just(i, e), Linked(d, 1)))
    BY DEF CreateLinks
  <1>2. PICK r \in Rests("new") :
           /\ Knows(p, "no", "new", r)
           /\ Owned(p, "no", "new") \subseteq Inum
           /\ \A j \in Owned(p, "no", "new") : lock[j] = p
    BY <1>1, InCall DEF Workers
  <1>3. i \in Inum /\ d \in Inum /\ lock[d] = p
    BY <1>2 DEF Knows, Owned, Locks
  <1>4. e \in Entry /\ e.type = Loaded(i).type
    BY <1>3, LoadedIs DEF Types, Entry
  <1>5. PICK f \in Entry : Linked(d, 1) = Just(d, f) /\ f.type = Loaded(d).type
    BY <1>3, LinkedIs DEF Types
  <1> HIDE DEF e
  <1> QED BY <1>1, <1>3, <1>4, <1>5

LEMMA CreateLinksStep ==
    ASSUME NEW p \in Proc, Types, Stacked(p), CreateLinks(p)
    PROVE  Good(p)
  <1> DEFINE i == at[p]  d == dp[p]
             dots == [[n \in Name |-> None] EXCEPT !["."] = i, ![".."] = d]
  <1>1. /\ At(p, "new") /\ dp' = [dp EXCEPT ![p] = None] /\ Then(p, << Put(d) >>)
        /\ UNCHANGED <<text, cwd, at, path, name, ip, climbed, result, call, program>>
        /\ \/ dir' = [dir EXCEPT ![i] = dots, ![d][name[p]] = i]
           \/ dir' = [dir EXCEPT ![d][name[p]] = i]
    BY DEF CreateLinks, walkvars
  <1>2. PICK r \in Rests("new") :
           /\ Busy(p, <<>>, "no", "new", r) /\ Below(p) = r /\ Knows(p, "no", "new", r)
           /\ cwd[p] \in Inum
    BY <1>1, InCall DEF Workers
  <1>3. i \in Inum /\ d \in Inum /\ lock[i] = NoProc /\ lock[d] = p
        /\ lock' = [lock EXCEPT ![i] = p, ![d] = NoProc]
    BY NewLinks DEF CanLock, Free
  <1>4. /\ i # d /\ lock' \in [Inum -> Proc \cup {NoProc}] /\ lock'[i] = p
        /\ \A j \in Inum : lock[j] \notin {NoProc, p} => lock'[j] = lock[j]
    BY <1>3, Exchanged DEF Types
  <1>5. PICK e \in Entry, f \in Entry : Iupdate(Just(i, e)) \/ Iupdate(Over(Just(i, e), Just(d, f)))
    BY NewLinks
  <1>6. disk' \in [Inum -> Entry] /\ cache' \in [Inum -> Entry]
    BY <1>3, <1>4, <1>5, UpdatesOne, UpdatesTwo DEF Types
  <1>7. dir' \in [Inum -> [Name -> Maybe]]
    <2>1. dots \in [Name -> Maybe]
      BY <1>3, Numbers
    <2> HIDE DEF dots
    <2>2. dir \in [Inum -> [Name -> Maybe]] /\ name[p] \in Name
      BY DEF Types, FsTypes, WalkTypes
    <2>3. CASE dir' = [dir EXCEPT ![i] = dots, ![d][name[p]] = i]
      BY <1>3, <1>4, <2>1, <2>2, <2>3, Numbers
    <2>4. CASE dir' = [dir EXCEPT ![d][name[p]] = i]
      BY <1>3, <2>2, <2>4, Numbers
    <2> QED BY <1>1, <2>3, <2>4
  <1>8. FsTypes'
    BY <1>1, <1>4, <1>6, <1>7 DEF Types, FsTypes
  <1>9. Sets(at', at, p) /\ Sets(ip', ip, p) /\ Sets(dp', dp, p)
    BY <1>1, SetsOne, SetsNone, Numbers DEF Types, WalkTypes, CallTypes
  <1>10. Alone(p) /\ WalkTypes' /\ CallTypes' /\ pc'[p] = << Put(d) >> \o Below(p)
    BY <1>1, <1>4, <1>9, Moves
  <1>11. Stacked(p)'
    BY <1>1, <1>2, <1>3, <1>4, <1>10, PutIs, Resumes
  <1> QED BY <1>8, <1>10, <1>11 DEF Good, Types

-----------------------------------------------------------------------------
(* unlink() *)

LEMMA UnlinkFailsStep ==
    ASSUME NEW p \in Proc, Types, Stacked(p), UnlinkFails(p)
    PROVE  Good(p)
  <1>1. /\ At(p, "unlink") /\ at[p] # None /\ Load(at[p])
        /\ at' = [at EXCEPT ![p] = None] /\ Then(p, << Put(at[p]) >>)
        /\ UNCHANGED <<disk, dir, text, lock, cwd, path, name, ip, dp, climbed, result, call, program>>
    BY DEF UnlinkFails, callvars
  <1>2. PICK r \in Rests("unlink") : Busy(p, <<>>, "no", "unlink", r) /\ Below(p) = r /\ cwd[p] \in Inum
    BY <1>1, InCall DEF Workers, Walkers
  <1>3. at[p] \in Inum
    BY <1>1 DEF Types, WalkTypes, Maybe
  <1>4. Sets(at', at, p) /\ Sets(ip', ip, p) /\ Sets(dp', dp, p)
    BY <1>1, SetsOne, SetsNone, Numbers DEF Types, WalkTypes, CallTypes
  <1>5. Alone(p) /\ WalkTypes' /\ CallTypes' /\ pc'[p] = << Put(at[p]) >> \o Below(p)
    BY <1>1, <1>4, Moves
  <1>6. FsTypes'
    BY <1>1, <1>3, LoadIs, FsMoves DEF Types, FsTypes
  <1>7. Stacked(p)'
    BY <1>1, <1>2, <1>3, <1>5, PutIs, Resumes
  <1> QED BY <1>5, <1>6, <1>7 DEF Good, Types

LEMMA UnlinkFindsStep ==
    ASSUME NEW p \in Proc, Types, Stacked(p), UnlinkFinds(p)
    PROVE  Good(p)
  <1> DEFINE d == at[p]  i == dir[d][name[p]]
  <1>1. /\ At(p, "unlink") /\ d # None /\ i # None /\ CanLock(d) /\ Locked(p, d) /\ LoadAndGet(d, i)
        /\ dp' = [dp EXCEPT ![p] = d] /\ at' = [at EXCEPT ![p] = i] /\ Then(p, << F("remove") >>)
        /\ UNCHANGED <<disk, dir, text, cwd, path, name, ip, climbed, result, call, program>>
    BY DEF UnlinkFinds, F
  <1>2. PICK r \in Rests("unlink") :
           /\ Busy(p, <<>>, "no", "unlink", r) /\ Below(p) = r /\ Knows(p, "no", "unlink", r)
    BY <1>1, InCall DEF Workers, Walkers
  <1>3. d \in Inum /\ name[p] \in Name
    BY <1>1 DEF Types, WalkTypes, Maybe
  <1>4. i \in Inum
    BY <1>1, <1>3 DEF Types, FsTypes, Maybe
  <1> HIDE DEF i
  <1>5. Sets(at', at, p) /\ at'[p] = i /\ Sets(ip', ip, p) /\ Sets(dp', dp, p) /\ dp'[p] = d
    BY <1>1, <1>3, <1>4, SetsOne, SetsNone, Numbers DEF Types, WalkTypes, CallTypes
  <1>6. /\ lock' \in [Inum -> Proc \cup {NoProc}] /\ lock'[d] = p
        /\ \A j \in Inum : lock[j] \notin {NoProc, p} => lock'[j] = lock[j]
    BY <1>1, <1>3, CanLockIs
  <1>7. Alone(p) /\ WalkTypes' /\ CallTypes' /\ pc'[p] = << F("remove") >> \o Below(p)
    BY <1>1, <1>5, <1>6, Moves
  <1>8. FsTypes'
    BY <1>1, <1>3, <1>4, <1>6, LoadAndGetIs, FsMoves DEF Types
  <1>9. Stacked(p)'
    <2>1. r = Ends /\ Ends \in Rests("remove") /\ "remove" \in Workers
      BY OneRest, EndsRest
    <2>2. Owned(p, "no", "remove")' \subseteq Inum /\ \A j \in Owned(p, "no", "remove")' : lock'[j] = p
      BY <1>3, <1>5, <1>6 DEF Owned, Locks, Returned
    <2>3. Knows(p, "no", "remove", Ends)'
      BY <1>1, <1>2, <1>4, <1>5, EndsApart DEF Knows
    <2>4. pc'[p] = <<>> \o Under("remove", Ends) /\ <<>> \in Seq(Putting)
      BY <1>2, <1>7, <2>1, FrameGoes
    <2> QED BY <2>1, <2>2, <2>3, <2>4, Goes
  <1> QED BY <1>7, <1>8, <1>9 DEF Good, Types

LEMMA UnlinkBusyStep ==
    ASSUME NEW p \in Proc, Types, Stacked(p), UnlinkBusy(p)
    PROVE  Good(p)
  <1> DEFINE i == at[p]
  <1>1. /\ At(p, "remove") /\ Load(i) /\ at' = [at EXCEPT ![p] = None]
        /\ Then(p, << Put(i), F("putdir") >>)
        /\ UNCHANGED <<disk, dir, text, lock, cwd, path, name, ip, dp, climbed, result, call, program>>
    BY DEF UnlinkBusy, F, callvars
  <1>2. PICK r \in Rests("remove") :
           /\ Busy(p, <<>>, "no", "remove", r) /\ Below(p) = r /\ Knows(p, "no", "remove", r)
           /\ Owned(p, "no", "remove") \subseteq Inum
           /\ \A j \in Owned(p, "no", "remove") : lock[j] = p
    BY <1>1, InCall DEF Workers
  <1>3. i \in Inum /\ dp[p] \in Inum /\ lock[dp[p]] = p
    BY <1>2 DEF Knows, Owned, Locks
  <1>4. Sets(at', at, p) /\ Sets(ip', ip, p) /\ Sets(dp', dp, p)
    BY <1>1, SetsOne, SetsNone, Numbers DEF Types, WalkTypes, CallTypes
  <1>5. Alone(p) /\ WalkTypes' /\ CallTypes' /\ pc'[p] = << Put(i), F("putdir") >> \o Below(p)
    BY <1>1, <1>4, Moves
  <1>6. FsTypes'
    BY <1>1, <1>3, LoadIs, FsMoves DEF Types, FsTypes
  <1>7. Stacked(p)'
    <2>1. r = Ends /\ Ends \in Rests("putdir") /\ "putdir" \in Workers
      BY OneRest, EndsRest
    <2>2. Owned(p, "no", "putdir")' \subseteq Inum /\ \A j \in Owned(p, "no", "putdir")' : lock'[j] = p
      BY <1>1, <1>3 DEF Owned, Locks, Returned
    <2>3. Knows(p, "no", "putdir", Ends)'
      BY <1>1, <1>2, EndsApart DEF Knows
    <2>4. pc'[p] = << Put(i) >> \o Under("putdir", Ends) /\ << Put(i) >> \in Seq(Putting)
      BY <1>2, <1>3, <1>5, <2>1, FrameGoes, PutIs
    <2> QED BY <2>1, <2>2, <2>3, <2>4, Goes
  <1> QED BY <1>5, <1>6, <1>7 DEF Good, Types

LEMMA PutDirStep ==
    ASSUME NEW p \in Proc, Types, Stacked(p), PutDir(p)
    PROVE  Good(p)
  <1> DEFINE d == dp[p]
  <1>1. /\ At(p, "putdir") /\ Unlocked(d) /\ dp' = [dp EXCEPT ![p] = None]
        /\ Then(p, << Put(d) >>)
        /\ UNCHANGED <<disk, dir, text, cache, cwd, at, path, name, ip, climbed, result, call, program>>
    BY DEF PutDir, walkvars
  <1>2. PICK r \in Rests("putdir") :
           /\ Busy(p, <<>>, "no", "putdir", r) /\ Below(p) = r /\ cwd[p] \in Inum
           /\ Owned(p, "no", "putdir") \subseteq Inum
           /\ \A j \in Owned(p, "no", "putdir") : lock[j] = p
    BY <1>1, InCall DEF Workers
  <1>3. d \in Inum /\ lock[d] = p
    BY <1>2 DEF Owned, Locks
  <1>4. Sets(at', at, p) /\ Sets(ip', ip, p) /\ Sets(dp', dp, p)
    BY <1>1, SetsOne, SetsNone, Numbers DEF Types, WalkTypes, CallTypes
  <1>5. /\ lock' \in [Inum -> Proc \cup {NoProc}]
        /\ \A j \in Inum : lock[j] \notin {NoProc, p} => lock'[j] = lock[j]
    BY <1>1, <1>3, LocksAre DEF Types
  <1>6. Alone(p) /\ WalkTypes' /\ CallTypes' /\ pc'[p] = << Put(d) >> \o Below(p)
    BY <1>1, <1>4, <1>5, Moves
  <1>7. FsTypes'
    BY <1>1, <1>5, FsMoves DEF Types, FsTypes
  <1>8. Stacked(p)'
    BY <1>1, <1>2, <1>3, <1>6, PutIs, Resumes
  <1> QED BY <1>6, <1>7, <1>8 DEF Good, Types

\* The inode, and the directory it was in.
LEMMA Removing ==
    ASSUME NEW p \in Proc, Types, Stacked(p), At(p, "remove")
    PROVE  at[p] \in Inum /\ dp[p] \in Inum /\ lock[dp[p]] = p
  <1>1. PICK r \in Rests("remove") :
           /\ Knows(p, "no", "remove", r)
           /\ Owned(p, "no", "remove") \subseteq Inum
           /\ \A j \in Owned(p, "no", "remove") : lock[j] = p
    BY InCall DEF Workers
  <1> QED BY <1>1 DEF Knows, Owned, Locks

LEMMA UnlinkRemovesStep ==
    ASSUME NEW p \in Proc, Types, Stacked(p), UnlinkRemoves(p)
    PROVE  Good(p)
  <1> DEFINE i == at[p]  d == dp[p]
  <1>1. /\ At(p, "remove") /\ CanLock(i) /\ lock' = [lock EXCEPT ![i] = p, ![d] = NoProc]
        /\ dir' = [dir EXCEPT ![d][name[p]] = None]
        /\ dp' = [dp EXCEPT ![p] = None] /\ Then(p, << Put(d), F("unlinked") >>)
        /\ UNCHANGED <<text, cwd, at, path, name, ip, climbed, result, call, program>>
        /\ \/ /\ disk' = Over(Linked(d, -1), disk)
              /\ cache' = Over(Just(i, Loaded(i)), Over(Linked(d, -1), cache))
           \/ Load(i) /\ UNCHANGED disk
    BY DEF UnlinkRemoves, F, walkvars
  <1>2. PICK r \in Rests("remove") :
           /\ Busy(p, <<>>, "no", "remove", r) /\ Below(p) = r /\ Knows(p, "no", "remove", r)
    BY <1>1, InCall DEF Workers
  <1>3. i \in Inum /\ d \in Inum /\ lock[d] = p /\ lock[i] = NoProc
    BY <1>1, Removing DEF CanLock, Free
  <1>4. /\ i # d /\ lock' \in [Inum -> Proc \cup {NoProc}] /\ lock'[i] = p
        /\ \A j \in Inum : lock[j] \notin {NoProc, p} => lock'[j] = lock[j]
    BY <1>1, <1>3, Exchanged DEF Types
  <1>5. disk' \in [Inum -> Entry] /\ cache' \in [Inum -> Entry]
    <2>1. CASE Load(i) /\ UNCHANGED disk
      BY <1>3, <2>1, LoadIs DEF Types, FsTypes
    <2>2. CASE /\ disk' = Over(Linked(d, -1), disk)
               /\ cache' = Over(Just(i, Loaded(i)), Over(Linked(d, -1), cache))
      <3>1. PICK f \in Entry : Linked(d, -1) = Just(d, f)
        BY <1>3, LinkedIs DEF Types
      <3>2. disk' = Over(Just(d, f), disk) /\ cache' = Over(Just(i, Loaded(i)), Over(Just(d, f), cache))
        BY <2>2, <3>1
      <3>3. Loaded(i) \in Entry
        BY <1>3, LoadedIs DEF Types
      <3> QED BY <1>3, <1>4, <3>2, <3>3, OverOne, OverBoth DEF Types, FsTypes
    <2> QED BY <1>1, <2>1, <2>2
  <1>6. dir' \in [Inum -> [Name -> Maybe]]
    BY <1>1, <1>3, Numbers DEF Types, FsTypes, WalkTypes
  <1>7. FsTypes'
    BY <1>1, <1>4, <1>5, <1>6 DEF Types, FsTypes
  <1>8. Sets(at', at, p) /\ Sets(ip', ip, p) /\ Sets(dp', dp, p)
    BY <1>1, SetsOne, SetsNone, Numbers DEF Types, WalkTypes, CallTypes
  <1>9. Alone(p) /\ WalkTypes' /\ CallTypes' /\ pc'[p] = << Put(d), F("unlinked") >> \o Below(p)
    BY <1>1, <1>4, <1>8, Moves
  <1>10. Stacked(p)'
    <2>1. r = Ends /\ Ends \in Rests("unlinked") /\ "unlinked" \in Workers
      BY OneRest, EndsRest
    <2>2. Owned(p, "no", "unlinked")' \subseteq Inum /\ \A j \in Owned(p, "no", "unlinked")' : lock'[j] = p
      BY <1>1, <1>3, <1>4 DEF Owned, Locks, Returned
    <2>3. Knows(p, "no", "unlinked", Ends)'
      BY <1>1, <1>2, <1>3, EndsApart DEF Knows
    <2>4. pc'[p] = << Put(d) >> \o Under("unlinked", Ends) /\ << Put(d) >> \in Seq(Putting)
      BY <1>2, <1>3, <1>9, <2>1, FrameGoes, PutIs
    <2> QED BY <2>1, <2>2, <2>3, <2>4, Goes
  <1> QED BY <1>7, <1>9, <1>10 DEF Good, Types

LEMMA UnlinkEndsStep ==
    ASSUME NEW p \in Proc, Types, Stacked(p), UnlinkEnds(p)
    PROVE  Good(p)
  <1>1. /\ At(p, "unlinked") /\ Iupdate(Linked(at[p], -1)) /\ Unlocked(at[p])
        /\ at' = [at EXCEPT ![p] = None] /\ Then(p, << Put(at[p]) >>)
        /\ UNCHANGED <<dir, text, cwd, path, name, ip, dp, climbed, result, call, program>>
    BY DEF UnlinkEnds, callvars
  <1>2. PICK r \in Rests("unlinked") :
           /\ Busy(p, <<>>, "no", "unlinked", r) /\ Below(p) = r /\ cwd[p] \in Inum
           /\ Owned(p, "no", "unlinked") \subseteq Inum
           /\ \A j \in Owned(p, "no", "unlinked") : lock[j] = p
    BY <1>1, InCall DEF Workers
  <1>3. at[p] \in Inum /\ lock[at[p]] = p
    BY <1>2 DEF Owned, Locks
  <1>4. PICK f \in Entry : Linked(at[p], -1) = Just(at[p], f)
    BY <1>3, LinkedIs DEF Types
  <1>5. disk' \in [Inum -> Entry] /\ cache' \in [Inum -> Entry]
    BY <1>1, <1>3, <1>4, UpdatesOne DEF Types
  <1>6. /\ lock' \in [Inum -> Proc \cup {NoProc}]
        /\ \A j \in Inum : lock[j] \notin {NoProc, p} => lock'[j] = lock[j]
    BY <1>1, <1>3, LocksAre DEF Types
  <1>7. FsTypes'
    BY <1>1, <1>5, <1>6 DEF Types, FsTypes
  <1>8. Sets(at', at, p) /\ Sets(ip', ip, p) /\ Sets(dp', dp, p)
    BY <1>1, SetsOne, SetsNone, Numbers DEF Types, WalkTypes, CallTypes
  <1>9. Alone(p) /\ WalkTypes' /\ CallTypes' /\ pc'[p] = << Put(at[p]) >> \o Below(p)
    BY <1>1, <1>6, <1>8, Moves
  <1>10. Stacked(p)'
    BY <1>1, <1>2, <1>3, <1>9, PutIs, Resumes
  <1> QED BY <1>7, <1>9, <1>10 DEF Good, Types

-----------------------------------------------------------------------------
(* link() *)

LEMMA LinkStep ==
    ASSUME NEW p \in Proc, Types, Stacked(p), Link(p)
    PROVE  Good(p)
  <1> DEFINE i == at[p]
  <1>1. /\ At(p, "link") /\ i # None /\ at' = [at EXCEPT ![p] = None]
        /\ UNCHANGED <<dir, text, lock, cwd, path, name, dp, climbed, result, call, program>>
        /\ \/ Load(i) /\ Then(p, << Put(i) >>) /\ UNCHANGED <<disk, ip>>
           \/ Iupdate(Linked(i, 1)) /\ ip' = [ip EXCEPT ![p] = i] /\ Then(p, << F("linknew") >>)
    BY DEF Link, F
  <1>2. PICK r \in Rests("link") :
           /\ Busy(p, <<>>, "no", "link", r) /\ Below(p) = r /\ Knows(p, "no", "link", r) /\ cwd[p] \in Inum
    BY <1>1, InCall DEF Workers, Walkers
  <1>3. i \in Inum
    BY <1>1 DEF Types, WalkTypes, Maybe
  <1>4. CASE Load(i) /\ Then(p, << Put(i) >>) /\ UNCHANGED <<disk, ip>>
    <2>1. Sets(at', at, p) /\ Sets(ip', ip, p) /\ Sets(dp', dp, p)
      BY <1>1, <1>4, SetsOne, SetsNone, Numbers DEF Types, WalkTypes, CallTypes
    <2>2. Alone(p) /\ WalkTypes' /\ CallTypes' /\ pc'[p] = << Put(i) >> \o Below(p)
      BY <1>1, <1>4, <2>1, Moves
    <2>3. FsTypes'
      BY <1>1, <1>3, <1>4, LoadIs, FsMoves DEF Types, FsTypes
    <2>4. Stacked(p)'
      BY <1>1, <1>2, <1>3, <2>2, PutIs, Resumes
    <2> QED BY <2>2, <2>3, <2>4 DEF Good, Types
  <1>5. CASE Iupdate(Linked(i, 1)) /\ ip' = [ip EXCEPT ![p] = i] /\ Then(p, << F("linknew") >>)
    <2>1. Sets(at', at, p) /\ Sets(ip', ip, p) /\ ip'[p] = i /\ Sets(dp', dp, p)
      BY <1>1, <1>3, <1>5, SetsOne, SetsNone, Numbers DEF Types, WalkTypes, CallTypes
    <2>2. Alone(p) /\ WalkTypes' /\ CallTypes' /\ pc'[p] = << F("linknew") >> \o Below(p)
      BY <1>1, <1>5, <2>1, Moves
    <2>3. PICK f \in Entry : Linked(i, 1) = Just(i, f)
      BY <1>3, LinkedIs DEF Types
    <2>4. disk' \in [Inum -> Entry] /\ cache' \in [Inum -> Entry]
      BY <1>3, <1>5, <2>3, UpdatesOne DEF Types
    <2>5. FsTypes'
      BY <1>1, <2>4 DEF Types, FsTypes
    <2>6. r = Ends /\ Ends \in Rests("linknew") /\ "linknew" \in Workers
      BY OneRest, EndsRest
    <2>7. Owned(p, "no", "linknew")' = {}
      BY DEF Owned, Locks, Returned
    <2>8. Knows(p, "no", "linknew", Ends)'
      BY <1>1, <1>2, <1>3, <2>1, EndsApart DEF Knows
    <2>9. pc'[p] = <<>> \o Under("linknew", Ends) /\ <<>> \in Seq(Putting)
      BY <1>2, <2>2, <2>6, FrameGoes
    <2>10. Stacked(p)'
      BY <2>6, <2>7, <2>8, <2>9, Goes
    <2> QED BY <2>2, <2>5, <2>10 DEF Good, Types
  <1> QED BY <1>1, <1>4, <1>5

LEMMA LinkNewStep ==
    ASSUME NEW p \in Proc, Types, Stacked(p), LinkNew(p)
    PROVE  Good(p)
  <1> DEFINE new == call[p].new
  <1>1. /\ At(p, "linknew") /\ Iget(StartOf(p, new))
        /\ WalkFrom(p, new, TRUE, << F("linkto") >> \o Below(p))
        /\ UNCHANGED <<disk, dir, text, lock, cwd, ip, dp, climbed, result, call, program>>
    BY DEF LinkNew, F, Below, callvars
  <1>2. PICK r \in Rests("linknew") :
           /\ Busy(p, <<>>, "no", "linknew", r) /\ Below(p) = r /\ Knows(p, "no", "linknew", r)
           /\ cwd[p] \in Inum
    BY <1>1, InCall DEF Workers
  <1>3. StartOf(p, new) \in Inum /\ IsPath(new)
    BY <1>2, StartIs DEF Types, CallTypes, Knows
  <1> HIDE DEF new
  <1>4. /\ Sets(at', at, p) /\ at'[p] \in Inum
        /\ path' \in [Proc -> Seq(Name)] /\ name' \in [Proc -> Name]
        /\ pc'[p] = << F("namex") >> \o (<< F("linkto") >> \o Below(p)) /\ DOMAIN pc' = Proc
        /\ \A q \in Proc \ {p} : pc'[q] = pc[q]
    BY <1>1, <1>2, <1>3, WalkBegins
  <1>5. Sets(ip', ip, p) /\ Sets(dp', dp, p)
    BY <1>1, SetsNone DEF Types, CallTypes
  <1>6. Alone(p) /\ WalkTypes' /\ CallTypes'
    BY <1>1, <1>4, <1>5, MovesFar
  <1>7. FsTypes'
    BY <1>1, <1>3, IgetIs, FsMoves DEF Types, FsTypes
  <1>8. Stacked(p)'
    <2>1. r = Ends /\ Ends \in Rests("linkto") /\ "linkto" \in Workers /\ "linkto" \in Walkers
      BY OneRest, EndsRest DEF Walkers
    <2>2. Owned(p, "yes", "linkto")' = {}
      BY DEF Owned, Locks, Returned
    <2>3. Knows(p, "yes", "linkto", Ends)'
      BY <1>1, <1>2, <1>4, EndsApart DEF Knows
    <2>4. pc'[p] = <<>> \o Work("yes", "linkto", Ends) /\ <<>> \in Seq(Putting)
      <3>1. pc'[p] = Work("yes", "linkto", Ends)
        BY <1>2, <1>4, <2>1, WorkUnder DEF Under
      <3>2. Work("yes", "linkto", Ends) \in Frames
        BY <2>1, WorkIs
      <3> QED BY <3>1, <3>2 DEF Frames
    <2> QED BY <2>1, <2>2, <2>3, <2>4, Pushed
  <1> QED BY <1>6, <1>7, <1>8 DEF Good, Types

\* A process that makes a link has the inode to be linked.
LEMMA Linking ==
    ASSUME NEW p \in Proc, NEW l \in {"linkto", "linkbad"}, Stacked(p), At(p, l)
    PROVE  ip[p] \in Inum /\ cwd[p] \in Inum /\ Busy(p, <<>>, "no", l, Ends) /\ Below(p) = Ends
  <1>1. PICK r \in Rests(l) :
           /\ Busy(p, <<>>, "no", l, r) /\ Below(p) = r /\ Knows(p, "no", l, r)
    BY InCall DEF Workers, Walkers
  <1>2. r = Ends
    BY OneRest
  <1> QED BY <1>1, <1>2 DEF Knows

LEMMA LinkEntersStep ==
    ASSUME NEW p \in Proc, Types, Stacked(p), LinkEnters(p)
    PROVE  Good(p)
  <1> DEFINE d == at[p]  i == ip[p]
  <1>1. /\ At(p, "linkto") /\ d # None /\ Load(d)
        /\ dir' = [dir EXCEPT ![d][name[p]] = i]
        /\ at' = [at EXCEPT ![p] = None] /\ ip' = [ip EXCEPT ![p] = None]
        /\ Then(p, << Put(d), Put(i) >>)
        /\ UNCHANGED <<disk, text, lock, cwd, path, name, dp, climbed, result, call, program>>
    BY DEF LinkEnters
  <1>2. i \in Inum /\ cwd[p] \in Inum /\ Busy(p, <<>>, "no", "linkto", Ends) /\ Below(p) = Ends
    BY <1>1, Linking
  <1>3. d \in Inum
    BY <1>1 DEF Types, WalkTypes, Maybe
  <1>4. Sets(at', at, p) /\ Sets(ip', ip, p) /\ Sets(dp', dp, p)
    BY <1>1, SetsOne, SetsNone, Numbers DEF Types, WalkTypes, CallTypes
  <1>5. Alone(p) /\ WalkTypes' /\ CallTypes' /\ pc'[p] = << Put(d), Put(i) >> \o Below(p)
    BY <1>1, <1>4, Moves
  <1>6. FsTypes'
    <2>1. dir' \in [Inum -> [Name -> Maybe]]
      BY <1>1, <1>2, <1>3, Numbers DEF Types, FsTypes, WalkTypes
    <2>2. cache' \in [Inum -> Entry]
      BY <1>1, <1>3, LoadIs DEF Types
    <2> QED BY <1>1, <2>1, <2>2 DEF Types, FsTypes
  <1>7. Stacked(p)'
    <2>1. << Put(d), Put(i) >> \in Seq(Putting)
      BY <1>2, <1>3 DEF Putting
    <2> QED BY <1>2, <1>5, <2>1, Ended
  <1> QED BY <1>5, <1>6, <1>7 DEF Good, Types

LEMMA LinkExistsStep ==
    ASSUME NEW p \in Proc, Types, Stacked(p), LinkExists(p)
    PROVE  Good(p)
  <1> DEFINE d == at[p]  i == dir[d][name[p]]
  <1>1. /\ At(p, "linkto") /\ d # None /\ i # None /\ CanLock(d) /\ Locked(p, d) /\ LoadAndGet(d, i)
        /\ dp' = [dp EXCEPT ![p] = d] /\ at' = [at EXCEPT ![p] = None]
        /\ Then(p, << Put(i), F("putdir"), F("linkbad") >>)
        /\ UNCHANGED <<disk, dir, text, cwd, path, name, ip, climbed, result, call, program>>
    BY DEF LinkExists, F
  <1>2. ip[p] \in Inum /\ cwd[p] \in Inum /\ Busy(p, <<>>, "no", "linkto", Ends) /\ Below(p) = Ends
    BY <1>1, Linking
  <1>3. d \in Inum /\ name[p] \in Name
    BY <1>1 DEF Types, WalkTypes, Maybe
  <1>4. i \in Inum
    BY <1>1, <1>3 DEF Types, FsTypes, Maybe
  <1> HIDE DEF i
  <1>5. Sets(at', at, p) /\ Sets(ip', ip, p) /\ Sets(dp', dp, p) /\ dp'[p] = d
    BY <1>1, <1>3, SetsOne, SetsNone, Numbers DEF Types, WalkTypes, CallTypes
  <1>6. /\ lock' \in [Inum -> Proc \cup {NoProc}] /\ lock'[d] = p
        /\ \A j \in Inum : lock[j] \notin {NoProc, p} => lock'[j] = lock[j]
    BY <1>1, <1>3, CanLockIs
  <1>7. Alone(p) /\ WalkTypes' /\ CallTypes' /\ pc'[p] = << Put(i), F("putdir"), F("linkbad") >> \o Below(p)
    BY <1>1, <1>5, <1>6, Moves
  <1>8. FsTypes'
    BY <1>1, <1>3, <1>4, <1>6, LoadAndGetIs, FsMoves DEF Types
  <1>9. Stacked(p)'
    <2> DEFINE r == << F("linkbad") >> \o Ends
    <2>1. r \in Rests("putdir") /\ "putdir" \in Workers
      BY DEF Rests, Workers
    <2>2. Owned(p, "no", "putdir")' \subseteq Inum /\ \A j \in Owned(p, "no", "putdir")' : lock'[j] = p
      BY <1>3, <1>5, <1>6 DEF Owned, Locks, Returned
    <2>3. Knows(p, "no", "putdir", r)'
      <3>1. r # << F("symlink") >> \o Ends
        <4>1. F("linkbad") # F("symlink")
          BY FrameIs
        <4>2. Ends \in Seq(Frame \X Maybe)
          BY EndsAre DEF Frames
        <4> DEFINE a == F("linkbad")  b == F("symlink")
        <4>3. Head(<<a>> \o Ends) = a /\ Head(<<b>> \o Ends) = b
          BY <4>2, ConsIs
        <4> QED BY <4>1, <4>3
      <3> HIDE DEF r
      <3> QED BY <1>1, <1>2, <1>3, <3>1 DEF Knows
    <2>4. << Put(i), F("putdir"), F("linkbad") >> \o Ends = << Put(i) >> \o Under("putdir", r)
      <3> DEFINE S == Frame \X Maybe  a == Put(i)  b == F("putdir")  c == F("linkbad")
      <3>1. a \in S /\ b \in S /\ c \in S /\ Ends \in Seq(S)
        BY <1>4, PutIs, Labelled, EndsAre DEF Frames, Frame, Workers
      <3> HIDE DEF S, a, b, c
      <3>2. <<b, c>> \o Ends = <<b>> \o (<<c>> \o Ends)
        BY <3>1, Glue
      <3>3. <<a, b, c>> \o Ends = <<a>> \o (<<b, c>> \o Ends)
        BY <3>1, GlueThree, SMTT(60)
      <3> QED BY <3>2, <3>3 DEF a, b, c, r, Under
    <2>5. pc'[p] = << Put(i) >> \o Under("putdir", r) /\ << Put(i) >> \in Seq(Putting)
      BY <1>2, <1>4, <1>7, <2>4, PutIs
    <2> HIDE DEF r
    <2> QED BY <2>1, <2>2, <2>3, <2>5, Goes
  <1> QED BY <1>7, <1>8, <1>9 DEF Good, Types

LEMMA LinkToNowhereStep ==
    ASSUME NEW p \in Proc, Types, Stacked(p), LinkToNowhere(p)
    PROVE  Good(p)
  <1>1. /\ At(p, "linkto") /\ Then(p, << F("linkbad") >>)
        /\ UNCHANGED <<disk, dir, text, cache, lock, cwd, at, path, name, ip, dp, climbed, result, call, program>>
    BY DEF LinkToNowhere, F, fsvars, walkvars, callvars
  <1>2. ip[p] \in Inum /\ cwd[p] \in Inum /\ Busy(p, <<>>, "no", "linkto", Ends) /\ Below(p) = Ends
    BY <1>1, Linking
  <1>3. Sets(at', at, p) /\ Sets(ip', ip, p) /\ Sets(dp', dp, p)
    BY <1>1, SetsNone DEF Types, WalkTypes, CallTypes
  <1>4. Alone(p) /\ WalkTypes' /\ CallTypes' /\ pc'[p] = << F("linkbad") >> \o Below(p)
    BY <1>1, <1>3, Moves
  <1>5. FsTypes'
    BY <1>1 DEF Types, FsTypes
  <1>6. Stacked(p)'
    <2>1. Ends \in Rests("linkbad") /\ "linkbad" \in Workers
      BY EndsRest
    <2>2. Owned(p, "no", "linkbad")' = {}
      BY DEF Owned, Locks, Returned
    <2>3. Knows(p, "no", "linkbad", Ends)'
      BY <1>1, <1>2, EndsApart DEF Knows
    <2>4. pc'[p] = <<>> \o Under("linkbad", Ends) /\ <<>> \in Seq(Putting)
      BY <1>2, <1>4, <2>1, FrameGoes
    <2> QED BY <2>1, <2>2, <2>3, <2>4, Goes
  <1> QED BY <1>4, <1>5, <1>6 DEF Good, Types

LEMMA LinkBadStep ==
    ASSUME NEW p \in Proc, Types, Stacked(p), LinkBad(p)
    PROVE  Good(p)
  <1> DEFINE i == ip[p]
  <1>1. /\ At(p, "linkbad") /\ Iupdate(Linked(i, -1)) /\ ip' = [ip EXCEPT ![p] = None]
        /\ Then(p, << Put(i) >>)
        /\ UNCHANGED <<dir, text, lock, cwd, at, path, name, dp, climbed, result, call, program>>
    BY DEF LinkBad, walkvars
  <1>2. i \in Inum /\ cwd[p] \in Inum /\ Busy(p, <<>>, "no", "linkbad", Ends) /\ Below(p) = Ends
    BY <1>1, Linking
  <1>3. PICK f \in Entry : Linked(i, -1) = Just(i, f)
    BY <1>2, LinkedIs DEF Types
  <1>4. disk' \in [Inum -> Entry] /\ cache' \in [Inum -> Entry]
    BY <1>1, <1>2, <1>3, UpdatesOne DEF Types
  <1>5. FsTypes'
    BY <1>1, <1>4 DEF Types, FsTypes
  <1>6. Sets(at', at, p) /\ Sets(ip', ip, p) /\ Sets(dp', dp, p)
    BY <1>1, SetsOne, SetsNone, Numbers DEF Types, WalkTypes, CallTypes
  <1>7. Alone(p) /\ WalkTypes' /\ CallTypes' /\ pc'[p] = << Put(i) >> \o Below(p)
    BY <1>1, <1>6, Moves
  <1>8. Stacked(p)'
    BY <1>2, <1>7, PutIs, Ended
  <1> QED BY <1>5, <1>7, <1>8 DEF Good, Types

-----------------------------------------------------------------------------
(* chdir() and exec() *)

\* p changes only what is its own, its current directory and its call, too.
LEMMA MovesAll ==
    ASSUME NEW p \in Proc, Types, DOMAIN pc' = Proc, \A q \in Proc \ {p} : pc'[q] = pc[q],
           Sets(at', at, p), Sets(ip', ip, p), Sets(dp', dp, p), Sets(cwd', cwd, p),
           climbed' \in [Proc -> Nat], \A q \in Proc \ {p} : climbed'[q] = climbed[q],
           DOMAIN result' = Proc, IsPath(result'[p]), \A q \in Proc \ {p} : result'[q] = result[q],
           DOMAIN call' = Proc, \A q \in Proc \ {p} : call'[q] = call[q],
           call'[p].op \in {"link", "symlink"} => IsPath(call'[p].new),
           program' = program, path' \in [Proc -> Seq(Name)], name' \in [Proc -> Name],
           \A j \in Inum : lock[j] \notin {NoProc, p} => lock'[j] = lock[j]
    PROVE  Alone(p) /\ WalkTypes' /\ CallTypes'
  <1>1. WalkTypes'
    BY DEF Sets, WalkTypes
  <1>2. CallTypes'
    <2>1. ip' \in [Proc -> Maybe] /\ dp' \in [Proc -> Maybe] /\ cwd' \in [Proc -> Maybe]
      BY DEF Sets
    <2>2. \A q \in Proc : IsPath(result'[q])
      BY DEF Types, CallTypes
    <2>3. \A q \in Proc : call'[q].op \in {"link", "symlink"} => IsPath(call'[q].new)
      BY DEF Types, CallTypes
    <2>4. program' \in Programs
      BY DEF Types, CallTypes
    <2> QED BY <2>1, <2>2, <2>3, <2>4 DEF CallTypes
  <1>3. Alone(p)
    <2> SUFFICES ASSUME NEW q \in Proc \ {p}
                 PROVE  /\ pc'[q] = pc[q] /\ cwd'[q] = cwd[q] /\ at'[q] = at[q] /\ ip'[q] = ip[q]
                        /\ dp'[q] = dp[q] /\ call'[q] = call[q] /\ climbed'[q] = climbed[q]
                        /\ result'[q] = result[q] /\ \A i \in Inum : lock[i] = q => lock'[i] = q
      BY DEF Alone
    <2>1. pc'[q] = pc[q] /\ climbed'[q] = climbed[q] /\ result'[q] = result[q] /\ call'[q] = call[q]
      OBVIOUS
    <2>2. cwd'[q] = cwd[q] /\ at'[q] = at[q] /\ ip'[q] = ip[q] /\ dp'[q] = dp[q]
      BY DEF Sets
    <2>3. \A i \in Inum : lock[i] = q => lock'[i] = q
      BY Somebody
    <2> QED BY <2>1, <2>2, <2>3
  <1> QED BY <1>1, <1>2, <1>3

LEMMA ChdirStep ==
    ASSUME NEW p \in Proc, Types, Stacked(p), Chdir(p)
    PROVE  Good(p)
  <1> DEFINE i == at[p]
  <1>1. /\ At(p, "chdir") /\ i # None /\ Load(i)
        /\ UNCHANGED <<disk, dir, text, lock, cwd, path, name, ip, dp, climbed, result, call, program>>
        /\ \/ Then(p, << Put(cwd[p]), F("chdired") >>) /\ UNCHANGED at
           \/ Then(p, << Put(i) >>) /\ at' = [at EXCEPT ![p] = None]
    BY DEF Chdir, callvars, F
  <1>2. PICK r \in Rests("chdir") : Busy(p, <<>>, "no", "chdir", r) /\ Below(p) = r /\ cwd[p] \in Inum
    BY <1>1, InCall DEF Workers, Walkers
  <1>3. i \in Inum
    BY <1>1 DEF Types, WalkTypes, Maybe
  <1>4. FsTypes'
    BY <1>1, <1>3, LoadIs, FsMoves DEF Types, FsTypes
  <1>5. Sets(at', at, p) /\ Sets(ip', ip, p) /\ Sets(dp', dp, p)
    <2>1. Sets(ip', ip, p) /\ Sets(dp', dp, p)
      BY <1>1, SetsNone DEF Types, CallTypes
    <2>2. CASE UNCHANGED at
      BY <2>1, <2>2, SetsNone DEF Types, WalkTypes
    <2>3. CASE at' = [at EXCEPT ![p] = None]
      BY <2>1, <2>3, SetsOne, Numbers DEF Types, WalkTypes
    <2> QED BY <1>1, <2>2, <2>3
  <1>6. CASE Then(p, << Put(cwd[p]), F("chdired") >>) /\ UNCHANGED at
    <2>1. Alone(p) /\ WalkTypes' /\ CallTypes' /\ pc'[p] = << Put(cwd[p]), F("chdired") >> \o Below(p)
      BY <1>1, <1>5, <1>6, Moves
    <2>2. r = Ends /\ Ends \in Rests("chdired") /\ "chdired" \in Workers
      BY OneRest, EndsRest
    <2>3. Owned(p, "no", "chdired")' = {}
      BY DEF Owned, Locks, Returned
    <2>4. Knows(p, "no", "chdired", Ends)'
      BY <1>1, <1>2, <1>3, <1>6, EndsApart DEF Knows
    <2>5. pc'[p] = << Put(cwd[p]) >> \o Under("chdired", Ends) /\ << Put(cwd[p]) >> \in Seq(Putting)
      BY <1>2, <2>1, <2>2, FrameGoes, PutIs
    <2>6. Stacked(p)'
      BY <2>2, <2>3, <2>4, <2>5, Goes
    <2> QED BY <1>4, <2>1, <2>6 DEF Good, Types
  <1>7. CASE Then(p, << Put(i) >>) /\ at' = [at EXCEPT ![p] = None]
    <2>1. Alone(p) /\ WalkTypes' /\ CallTypes' /\ pc'[p] = << Put(i) >> \o Below(p)
      BY <1>1, <1>5, <1>7, Moves
    <2>2. Stacked(p)'
      BY <1>1, <1>2, <1>3, <2>1, PutIs, Resumes
    <2> QED BY <1>4, <2>1, <2>2 DEF Good, Types
  <1> QED BY <1>1, <1>6, <1>7

LEMMA ChdiredStep ==
    ASSUME NEW p \in Proc, Types, Stacked(p), Chdired(p)
    PROVE  Good(p)
  <1>1. /\ At(p, "chdired") /\ Then(p, <<>>)
        /\ cwd' = [cwd EXCEPT ![p] = at[p]] /\ at' = [at EXCEPT ![p] = None]
        /\ UNCHANGED <<disk, dir, text, cache, lock, path, name, ip, dp, climbed, result, call, program>>
    BY DEF Chdired, callvars
  <1>2. PICK r \in Rests("chdired") :
           Busy(p, <<>>, "no", "chdired", r) /\ Below(p) = r /\ Knows(p, "no", "chdired", r)
    BY <1>1, InCall DEF Workers
  <1>3. at[p] \in Inum
    BY <1>2 DEF Knows
  <1>4. Sets(at', at, p) /\ Sets(ip', ip, p) /\ Sets(dp', dp, p) /\ Sets(cwd', cwd, p) /\ cwd'[p] = at[p]
    BY <1>1, <1>3, SetsOne, SetsNone, Numbers DEF Types, WalkTypes, CallTypes
  <1>5. pc'[p] = <<>> \o Below(p) /\ DOMAIN pc' = Proc /\ \A q \in Proc \ {p} : pc'[q] = pc[q]
    BY <1>1, ThenIs DEF Types, WalkTypes
  <1>6. Alone(p) /\ WalkTypes' /\ CallTypes'
    <2>1. path' \in [Proc -> Seq(Name)] /\ name' \in [Proc -> Name]
      BY <1>1 DEF Types, WalkTypes
    <2>2. /\ climbed' \in [Proc -> Nat] /\ DOMAIN result' = Proc /\ IsPath(result'[p])
          /\ DOMAIN call' = Proc /\ (call'[p].op \in {"link", "symlink"} => IsPath(call'[p].new))
      BY <1>1 DEF Types, CallTypes
    <2> QED BY <1>1, <1>4, <1>5, <2>1, <2>2, MovesAll
  <1>7. FsTypes'
    BY <1>1 DEF Types, FsTypes
  <1>8. Stacked(p)'
    <2>1. <<>> \in Seq(Putting)
      OBVIOUS
    <2> QED BY <1>1, <1>2, <1>3, <1>4, <1>5, <2>1, Resumes
  <1> QED BY <1>6, <1>7, <1>8 DEF Good, Types

\* exec() has one function below, which reads the program.
LEMMA LoadRest ==
    ASSUME NEW l \in {"exec", "execlink", "look"}, NEW r
    PROVE  /\ r \in Rests(l) <=> r = << F("load") >> \o Ends
           /\ r \in Rests(l) => r # << F("linkbad") >> \o Ends /\ r # << F("symlink") >> \o Ends
           /\ l \in Workers
  <1> DEFINE a == F("load")  b == F("linkbad")  c == F("symlink")
  <1>1. Ends \in Seq(Frame \X Maybe)
    BY EndsAre DEF Frames
  <1>2. a # b /\ a # c
    BY FrameIs
  <1>3. Head(<<a>> \o Ends) = a /\ Head(<<b>> \o Ends) = b /\ Head(<<c>> \o Ends) = c
    BY <1>1, ConsIs
  <1> QED BY <1>2, <1>3 DEF Rests, Workers, Walkers

LEMMA ExecLinkStep ==
    ASSUME NEW p \in Proc, Types, Stacked(p), ExecLink(p)
    PROVE  Good(p)
  <1> DEFINE i == at[p]
  <1>1. /\ At(p, "exec") /\ i # None /\ CanLock(i) /\ Locked(p, i)
        /\ LoadAndGet(i, StartOf(p, text[i]))
        /\ ip' = [ip EXCEPT ![p] = i]
        /\ WalkFrom(p, text[i], FALSE, << F("execlink") >> \o Below(p))
        /\ UNCHANGED <<disk, dir, text, cwd, dp, climbed, result, call, program>>
    BY DEF ExecLink, F, Below
  <1>2. PICK r \in Rests("exec") : Busy(p, <<>>, "no", "exec", r) /\ Below(p) = r /\ cwd[p] \in Inum
    BY <1>1, InCall DEF Workers, Walkers
  <1>3. i \in Inum /\ StartOf(p, text[i]) \in Inum /\ IsPath(text[i])
    BY <1>1, <1>2, StartIs DEF Types, FsTypes, WalkTypes, Maybe
  <1>4. /\ Sets(at', at, p) /\ at'[p] \in Inum
        /\ path' \in [Proc -> Seq(Name)] /\ name' \in [Proc -> Name]
        /\ pc'[p] = << F("namex") >> \o (<< F("execlink") >> \o Below(p)) /\ DOMAIN pc' = Proc
        /\ \A q \in Proc \ {p} : pc'[q] = pc[q]
    BY <1>1, <1>2, <1>3, WalkBegins
  <1>5. Sets(ip', ip, p) /\ ip'[p] = i /\ Sets(dp', dp, p)
    BY <1>1, <1>3, SetsOne, SetsNone, Numbers DEF Types, CallTypes
  <1>6. /\ lock' \in [Inum -> Proc \cup {NoProc}] /\ lock'[i] = p
        /\ \A j \in Inum : lock[j] \notin {NoProc, p} => lock'[j] = lock[j]
    BY <1>1, <1>3, CanLockIs
  <1>7. Alone(p) /\ WalkTypes' /\ CallTypes'
    BY <1>1, <1>4, <1>5, <1>6, MovesFar
  <1>8. FsTypes'
    BY <1>1, <1>3, <1>6, LoadAndGetIs, FsMoves DEF Types
  <1>9. Stacked(p)'
    <2>1. r \in Rests("execlink") /\ "execlink" \in Workers /\ "execlink" \in Walkers
      BY LoadRest DEF Walkers
    <2>2. Owned(p, "yes", "execlink")' \subseteq Inum /\ \A j \in Owned(p, "yes", "execlink")' : lock'[j] = p
      BY <1>3, <1>5, <1>6 DEF Owned, Locks, Returned
    <2>3. Knows(p, "yes", "execlink", r)'
      BY <1>1, <1>2, <1>4, LoadRest DEF Knows
    <2>4. pc'[p] = <<>> \o Work("yes", "execlink", r) /\ <<>> \in Seq(Putting)
      <3>1. pc'[p] = Work("yes", "execlink", r)
        BY <1>2, <1>4, <2>1, WorkUnder DEF Under
      <3>2. Work("yes", "execlink", r) \in Frames
        BY <2>1, WorkIs
      <3> QED BY <3>1, <3>2 DEF Frames
    <2> QED BY <2>1, <2>2, <2>3, <2>4, Pushed
  <1> QED BY <1>7, <1>8, <1>9 DEF Good, Types

LEMMA ExecLinkedStep ==
    ASSUME NEW p \in Proc, Types, Stacked(p), ExecLinked(p)
    PROVE  Good(p)
  <1> DEFINE s == << Put(ip[p]) >> \o (IF at[p] = None THEN <<>> ELSE << F("look") >>)
  <1>1. /\ At(p, "execlink") /\ Unlocked(ip[p]) /\ ip' = [ip EXCEPT ![p] = None] /\ Then(p, s)
        /\ UNCHANGED <<disk, dir, text, cache, cwd, at, path, name, dp, climbed, result, call, program>>
    BY DEF ExecLinked, F, walkvars
  <1>2. PICK r \in Rests("execlink") :
           /\ Busy(p, <<>>, "no", "execlink", r) /\ Below(p) = r /\ cwd[p] \in Inum
           /\ Owned(p, "no", "execlink") \subseteq Inum
           /\ \A i \in Owned(p, "no", "execlink") : lock[i] = p
    BY <1>1, InCall DEF Workers, Walkers
  <1>3. ip[p] \in Inum /\ lock[ip[p]] = p
    BY <1>2 DEF Owned, Locks, Returned
  <1>4. Sets(at', at, p) /\ Sets(ip', ip, p) /\ Sets(dp', dp, p)
    BY <1>1, SetsOne, SetsNone, Numbers DEF Types, WalkTypes, CallTypes
  <1>5. /\ lock' \in [Inum -> Proc \cup {NoProc}]
        /\ \A j \in Inum : lock[j] \notin {NoProc, p} => lock'[j] = lock[j]
    BY <1>1, <1>3, LocksAre DEF Types
  <1>6. Alone(p) /\ WalkTypes' /\ CallTypes' /\ pc'[p] = s \o Below(p)
    BY <1>1, <1>4, <1>5, Moves
  <1>7. FsTypes'
    BY <1>1, <1>5 DEF Types, FsTypes
  <1>8. Stacked(p)'
    <2>2. CASE at[p] = None
      <3>1. s = << Put(ip[p]) >> /\ s \in Seq(Putting)
        BY <1>3, <2>2, PutIs
      <3> QED BY <1>1, <1>2, <1>6, <3>1, Resumes
    <2>3. CASE at[p] # None
      <3>0. at'[p] \in Inum
        BY <1>1, <2>3 DEF Types, WalkTypes, Maybe
      <3>1. s = << Put(ip[p]), F("look") >>
        BY <2>3, Pair
      <3>2. r \in Rests("look") /\ "look" \in Workers
        BY LoadRest
      <3>3. pc'[p] = << Put(ip[p]) >> \o Under("look", r) /\ << Put(ip[p]) >> \in Seq(Putting)
        BY <1>2, <1>3, <1>6, <3>1, <3>2, FrameGoes, PutIs
      <3>4. Owned(p, "no", "look")' = {}
        BY DEF Owned, Locks, Returned
      <3>5. Knows(p, "no", "look", r)'
        BY <1>1, <1>2, <3>0, LoadRest DEF Knows
      <3> QED BY <3>2, <3>3, <3>4, <3>5, Goes
    <2> QED BY <2>2, <2>3
  <1> QED BY <1>6, <1>7, <1>8 DEF Good, Types

LEMMA ExecFoundStep ==
    ASSUME NEW p \in Proc, Types, Stacked(p), ExecFound(p)
    PROVE  Good(p)
  <1> DEFINE i == at[p]
  <1>1. /\ (At(p, "exec") /\ i # None) \/ At(p, "look")
        /\ Load(i) /\ Then(p, <<>>)
        /\ UNCHANGED <<disk, dir, text, lock, cwd, at, path, name, ip, dp, climbed, result, call, program>>
    BY DEF ExecFound, callvars, walkvars
  <1>2. PICK l \in {"exec", "look"} : \E s \in Rests(l) :
           Busy(p, <<>>, "no", l, s) /\ Below(p) = s /\ Knows(p, "no", l, s) /\ cwd[p] \in Inum /\ At(p, l)
    BY <1>1, InCall DEF Workers, Walkers
  <1>3. PICK r \in Rests(l) :
           Busy(p, <<>>, "no", l, r) /\ Below(p) = r /\ Knows(p, "no", l, r) /\ cwd[p] \in Inum /\ At(p, l)
    BY <1>2
  <1>4. i \in Inum
    <2>1. CASE l = "look"
      BY <1>3, <2>1 DEF Knows
    <2>2. CASE l = "exec"
      <3>1. ~ At(p, "look")
        BY <1>3, <2>2 DEF At
      <3> QED BY <1>1, <3>1 DEF Types, WalkTypes, Maybe
    <2> QED BY <2>1, <2>2
  <1>5. FsTypes'
    BY <1>1, <1>4, LoadIs, FsMoves DEF Types, FsTypes
  <1>6. Sets(at', at, p) /\ Sets(ip', ip, p) /\ Sets(dp', dp, p)
    BY <1>1, SetsNone DEF Types, WalkTypes, CallTypes
  <1>7. Alone(p) /\ WalkTypes' /\ CallTypes' /\ pc'[p] = <<>> \o Below(p)
    BY <1>1, <1>6, Moves
  <1>8. Stacked(p)'
    <2>1. <<>> \in Seq(Putting)
      OBVIOUS
    <2> QED BY <1>1, <1>3, <1>7, <2>1, Resumes
  <1> QED BY <1>5, <1>7, <1>8 DEF Good, Types

LEMMA ExecLoadStep ==
    ASSUME NEW p \in Proc, Types, Stacked(p), ExecLoad(p)
    PROVE  Good(p)
  <1> DEFINE i == at[p]
  <1>1. /\ At(p, "load") /\ i # None /\ Load(i) /\ at' = [at EXCEPT ![p] = None] /\ Then(p, << Put(i) >>)
        /\ UNCHANGED <<disk, dir, text, lock, cwd, path, name, ip, dp, climbed, result, call, program>>
    BY DEF ExecLoad, callvars
  <1>2. PICK r \in Rests("load") : Busy(p, <<>>, "no", "load", r) /\ Below(p) = r /\ cwd[p] \in Inum
    BY <1>1, InCall DEF Workers
  <1>3. i \in Inum
    BY <1>1 DEF Types, WalkTypes, Maybe
  <1>4. FsTypes'
    BY <1>1, <1>3, LoadIs, FsMoves DEF Types, FsTypes
  <1>5. Sets(at', at, p) /\ Sets(ip', ip, p) /\ Sets(dp', dp, p)
    BY <1>1, SetsOne, SetsNone, Numbers DEF Types, WalkTypes, CallTypes
  <1>6. Alone(p) /\ WalkTypes' /\ CallTypes' /\ pc'[p] = << Put(i) >> \o Below(p)
    BY <1>1, <1>5, Moves
  <1>7. Stacked(p)'
    BY <1>1, <1>2, <1>3, <1>6, PutIs, Resumes
  <1> QED BY <1>4, <1>6, <1>7 DEF Good, Types

-----------------------------------------------------------------------------
(* get_realpath() and symbolic_link() *)

\* Paths from the root, and paths from where a process is.
LEMMA PathsAre ==
    ASSUME NEW w \in Seq(Name)
    PROVE  /\ IsPath(w) /\ IsPath(<<>>) /\ <<>> \in Seq(Name)
           /\ \A n \in Name : /\ IsPath(<<"/", n>>) /\ IsPath(<<"/", n>> \o w)
                              /\ << n >> \o w \in Seq(Name) /\ w \o << n >> \in Seq(Name)
  <1>1. IsPath(w) /\ IsPath(<<>>) /\ <<>> \in Seq(Name)
    BY DEF IsPath, ElementsOf
  <1>2. ASSUME NEW n \in Name
        PROVE  /\ IsPath(<<"/", n>>) /\ IsPath(<<"/", n>> \o w)
               /\ << n >> \o w \in Seq(Name) /\ w \o << n >> \in Seq(Name)
    <2> DEFINE S == Name \cup {"/"}  a == "/"  u == << n >> \o w  v == << a, n >> \o w
    <2>1. u \in Seq(Name) /\ w \o << n >> \in Seq(Name)
      OBVIOUS
    <2>2. a \in S /\ n \in S /\ w \in Seq(S) /\ u \in Seq(S)
      BY <2>1
    <2>3. IsPath(<<"/", n>>)
      <3> DEFINE t == <<"/", n>>
      <3>1. t # <<>> /\ Head(t) = "/" /\ Tail(t) \in Seq(Name)
        OBVIOUS
      <3> QED BY <3>1 DEF IsPath, ElementsOf
    <2> HIDE DEF S, a, u
    <2>4. v = << a >> \o u
      BY <2>2, Glue DEF u
    <2>5. v # <<>> /\ Head(v) = a /\ Tail(v) = u
      BY <2>2, <2>4, ConsIs
    <2> HIDE DEF v
    <2>6. IsPath(v)
      BY <2>1, <2>5 DEF IsPath, ElementsOf, a
    <2> QED BY <2>1, <2>3, <2>6 DEF u, v, a
  <1> QED BY <1>1, <1>2

\* The call in which a process follows names back to the root.
LEMMA Climbing ==
    ASSUME NEW p \in Proc, Types, NEW l \in {"climb", "name"}, Stacked(p), At(p, l)
    PROVE  /\ cwd[p] \in Inum /\ result[p] \in Seq(Name) /\ name[p] \in Name
           /\ l = "name" \/ climbed[p] # 0 => ip[p] \in Inum
           /\ l = "name" => at[p] \in Inum /\ dp[p] \in Inum /\ lock[dp[p]] = p
           /\ \E r \in Rests(l) : Busy(p, <<>>, "no", l, r) /\ Below(p) = r /\ Knows(p, "no", l, r)
  <1>1. PICK r \in Rests(l) :
           /\ Busy(p, <<>>, "no", l, r) /\ Below(p) = r /\ Knows(p, "no", l, r) /\ cwd[p] \in Inum
           /\ Owned(p, "no", l) \subseteq Inum /\ \A i \in Owned(p, "no", l) : lock[i] = p
    BY InCall DEF Workers, Walkers
  <1>2. l = "name" => dp[p] \in Inum /\ lock[dp[p]] = p
    BY <1>1 DEF Owned, Locks, Returned
  <1>3. name[p] \in Name
    BY DEF Types, WalkTypes
  <1> QED BY <1>1, <1>2, <1>3 DEF Knows

LEMMA ClimbRootStep ==
    ASSUME NEW p \in Proc, Types, Stacked(p), ClimbRoot(p)
    PROVE  Good(p)
  <1> DEFINE found == <<"/", name[p]>>
  <1>1. /\ At(p, "climb") /\ Load(ROOTINO) /\ Then(p, << Put(ROOTINO) >>)
        /\ result' = [result EXCEPT ![p] = found] /\ at' = [at EXCEPT ![p] = None]
        /\ UNCHANGED <<disk, dir, text, lock, cwd, path, name, ip, dp, climbed, call, program>>
    BY DEF ClimbRoot
  <1>2. PICK r \in Rests("climb") : Busy(p, <<>>, "no", "climb", r) /\ Below(p) = r
    BY <1>1, Climbing
  <1>3. cwd[p] \in Inum /\ IsPath(found)
    BY <1>1, Climbing, PathsAre
  <1> HIDE DEF found
  <1>4. FsTypes'
    BY <1>1, LoadIs, FsMoves, Numbers DEF Types, FsTypes
  <1>5. Sets(at', at, p) /\ Sets(ip', ip, p) /\ Sets(dp', dp, p) /\ Sets(cwd', cwd, p)
    BY <1>1, SetsOne, SetsNone, Numbers DEF Types, WalkTypes, CallTypes
  <1>6. /\ pc'[p] = << Put(ROOTINO) >> \o Below(p) /\ DOMAIN pc' = Proc
        /\ \A q \in Proc \ {p} : pc'[q] = pc[q]
    BY <1>1, ThenIs DEF Types, WalkTypes
  <1>7. Alone(p) /\ WalkTypes' /\ CallTypes'
    <2>1. path' \in [Proc -> Seq(Name)] /\ name' \in [Proc -> Name]
      BY <1>1 DEF Types, WalkTypes
    <2>2. /\ climbed' \in [Proc -> Nat] /\ DOMAIN call' = Proc
          /\ call'[p].op \in {"link", "symlink"} => IsPath(call'[p].new)
      BY <1>1 DEF Types, CallTypes
    <2>3. DOMAIN result' = Proc /\ result'[p] = found /\ \A q \in Proc \ {p} : result'[q] = result[q]
      BY <1>1 DEF Types, CallTypes
    <2> QED BY <1>1, <1>3, <1>5, <1>6, <2>1, <2>2, <2>3, MovesAll
  <1>8. Stacked(p)'
    BY <1>1, <1>2, <1>3, <1>6, PutIs, Numbers, Resumes
  <1> QED BY <1>4, <1>7, <1>8 DEF Good, Types

LEMMA ClimbUpStep ==
    ASSUME NEW p \in Proc, Types, Stacked(p), ClimbUp(p)
    PROVE  Good(p)
  <1> DEFINE i == at[p]  up == dir[i][".."]  first == IF climbed[p] = 0 THEN i ELSE ip[p]
  <1>1. /\ At(p, "climb") /\ i # None /\ CanLock(i) /\ Locked(p, i) /\ at' = [at EXCEPT ![p] = up]
        /\ UNCHANGED <<disk, dir, text, cwd, path, name, climbed, call, program>>
        /\ \/ /\ up = None /\ Load(i) /\ ip' = [ip EXCEPT ![p] = None] /\ dp' = dp
              /\ result' = [result EXCEPT ![p] = <<>>] /\ Then(p, << Put(first) >>)
           \/ /\ up # None /\ LoadAndGet(i, up) /\ dp' = [dp EXCEPT ![p] = i] /\ ip' = [ip EXCEPT ![p] = first]
              /\ result' = result /\ Then(p, << F("name") >>)
    BY DEF ClimbUp, F
  <1>2. PICK r \in Rests("climb") :
           Busy(p, <<>>, "no", "climb", r) /\ Below(p) = r /\ Knows(p, "no", "climb", r)
    BY <1>1, Climbing
  <1>3. i \in Inum /\ cwd[p] \in Inum
    BY <1>1, Climbing DEF Types, WalkTypes, Maybe
  <1>4. up \in Maybe
    BY <1>3, ImageAssumption DEF Types, FsTypes
  <1>5. first \in Inum
    BY <1>1, <1>3, Climbing
  <1> HIDE DEF up, first
  <1>6. Sets(at', at, p) /\ at'[p] = up
    BY <1>1, <1>4, SetsOne DEF Types, WalkTypes
  <1>7. /\ lock' \in [Inum -> Proc \cup {NoProc}] /\ lock'[i] = p
        /\ \A j \in Inum : lock[j] \notin {NoProc, p} => lock'[j] = lock[j]
    BY <1>1, <1>3, CanLockIs
  <1>8. CASE /\ up = None /\ Load(i) /\ ip' = [ip EXCEPT ![p] = None] /\ dp' = dp
             /\ result' = [result EXCEPT ![p] = <<>>] /\ Then(p, << Put(first) >>)
    <2>1. FsTypes'
      BY <1>1, <1>3, <1>7, <1>8, LoadIs, FsMoves DEF Types
    <2>2. Sets(ip', ip, p) /\ Sets(dp', dp, p) /\ Sets(cwd', cwd, p)
      BY <1>1, <1>8, SetsOne, SetsNone, Numbers DEF Types, CallTypes
    <2>3. /\ pc'[p] = << Put(first) >> \o Below(p) /\ DOMAIN pc' = Proc
          /\ \A q \in Proc \ {p} : pc'[q] = pc[q]
      BY <1>8, ThenIs DEF Types, WalkTypes
    <2>4. Alone(p) /\ WalkTypes' /\ CallTypes'
      <3>1. path' \in [Proc -> Seq(Name)] /\ name' \in [Proc -> Name]
        BY <1>1 DEF Types, WalkTypes
      <3>2. /\ climbed' \in [Proc -> Nat] /\ DOMAIN call' = Proc
            /\ call'[p].op \in {"link", "symlink"} => IsPath(call'[p].new)
        BY <1>1 DEF Types, CallTypes
      <3>3. DOMAIN result' = Proc /\ result'[p] = <<>> /\ \A q \in Proc \ {p} : result'[q] = result[q]
        BY <1>8 DEF Types, CallTypes
      <3>4. IsPath(result'[p])
        BY <1>1, <3>3, Climbing, PathsAre
      <3> QED BY <1>1, <1>6, <1>7, <2>2, <2>3, <3>1, <3>2, <3>3, <3>4, MovesAll
    <2>5. Stacked(p)'
      BY <1>1, <1>2, <1>3, <1>5, <2>3, PutIs, Resumes
    <2> QED BY <2>1, <2>4, <2>5 DEF Good, Types
  <1>9. CASE /\ up # None /\ LoadAndGet(i, up) /\ dp' = [dp EXCEPT ![p] = i] /\ ip' = [ip EXCEPT ![p] = first]
             /\ result' = result /\ Then(p, << F("name") >>)
    <2>1. up \in Inum
      BY <1>4, <1>9 DEF Maybe
    <2>2. Sets(ip', ip, p) /\ ip'[p] = first /\ Sets(dp', dp, p) /\ dp'[p] = i
      BY <1>3, <1>5, <1>9, SetsOne, Numbers DEF Types, CallTypes
    <2>3. Alone(p) /\ WalkTypes' /\ CallTypes' /\ pc'[p] = << F("name") >> \o Below(p)
      BY <1>1, <1>6, <1>7, <1>9, <2>2, Moves
    <2>4. FsTypes'
      BY <1>1, <1>3, <1>7, <1>9, <2>1, LoadAndGetIs, FsMoves DEF Types
    <2>5. r \in Rests("name") /\ "name" \in Workers
      BY DEF Rests, Workers
    <2>6. Owned(p, "no", "name")' \subseteq Inum /\ \A j \in Owned(p, "no", "name")' : lock'[j] = p
      BY <1>3, <1>7, <2>2 DEF Owned, Locks, Returned
    <2>7. Knows(p, "no", "name", r)'
      BY <1>1, <1>2, <1>5, <1>6, <1>9, <2>1, <2>2 DEF Knows
    <2>8. pc'[p] = <<>> \o Under("name", r) /\ <<>> \in Seq(Putting)
      BY <1>2, <2>3, <2>5, FrameGoes
    <2>9. Stacked(p)'
      BY <2>5, <2>6, <2>7, <2>8, Goes
    <2> QED BY <2>3, <2>4, <2>9 DEF Good, Types
  <1> QED BY <1>1, <1>8, <1>9

\* get_inode_path() puts what it has come from, or keeps it to the end.
LEMMA DropsOne ==
    ASSUME NEW t \in Inum, NEW i \in Inum, NEW u \in Inum, NEW drop,
           drop = <<>> \/ drop = << Put(t) >>
    PROVE  /\ drop \in Seq(Putting) /\ drop \o << Put(u), Put(i) >> \in Seq(Putting)
           /\ \A l \in Workers : \A r \in Rests(l) : (drop \o << F(l) >>) \o r = drop \o Under(l, r)
  <1>1. Put(t) \in Putting /\ Put(u) \in Putting /\ Put(i) \in Putting
    BY DEF Putting
  <1>2. drop \in Seq(Putting)
    <2>1. <<>> \in Seq(Putting)
      OBVIOUS
    <2> QED BY <2>1, PutIs
  <1> DEFINE e == << Put(u), Put(i) >>
  <1>3. e \in Seq(Putting)
    BY <1>1
  <1> HIDE DEF e
  <1>4. drop \o e \in Seq(Putting)
    BY <1>2, <1>3
  <1>5. ASSUME NEW l \in Workers, NEW r \in Rests(l) PROVE (drop \o << F(l) >>) \o r = drop \o Under(l, r)
    <2>1. /\ << F(l) >> \o r = <<>> \o Under(l, r)
          /\ << Put(t), F(l) >> \o r = << Put(t) >> \o Under(l, r)
      BY FrameGoes
    <2>2. CASE drop = <<>>
      <3> DEFINE f == F(l)
      <3>1. f \in Frame \X Maybe
        BY Labelled DEF Frame
      <3> HIDE DEF f
      <3>2. <<>> \o << f >> = << f >>
        OBVIOUS
      <3> QED BY <2>1, <2>2, <3>2 DEF f
    <2>3. CASE drop = << Put(t) >>
      BY <2>1, <2>3, Pair
    <2> QED BY <2>2, <2>3
  <1> QED BY <1>2, <1>4, <1>5 DEF e

LEMMA ClimbNameStep ==
    ASSUME NEW p \in Proc, Types, Stacked(p), ClimbName(p)
    PROVE  Good(p)
  <1> DEFINE up == at[p]  target == dp[p]  i == ip[p]
             drop == IF target = i THEN <<>> ELSE << Put(target) >>
             stop == up = ROOTINO \/ climbed[p] + 1 = MAXPATHDEPTH
  <1>1. /\ At(p, "name") /\ Load(up) /\ Unlocked(target)
        /\ climbed' = [climbed EXCEPT ![p] = climbed[p] + 1]
        /\ \E n \in Name :
             result' = [result EXCEPT ![p] =
                 CASE ~ stop -> << n >> \o result[p]
                   [] stop /\ up = ROOTINO -> <<"/", n>> \o result[p] \o << name[p] >>
                   [] OTHER -> <<>>]
        /\ dp' = [dp EXCEPT ![p] = None]
        /\ \/ /\ stop /\ at' = [at EXCEPT ![p] = None] /\ ip' = [ip EXCEPT ![p] = None]
              /\ Then(p, drop \o << Put(up), Put(i) >>)
           \/ ~ stop /\ Then(p, drop \o << F("climb") >>) /\ UNCHANGED <<at, ip>>
        /\ UNCHANGED <<disk, dir, text, cwd, path, name, call, program>>
    BY DEF ClimbName, NamesIn, F
  <1>2. PICK r \in Rests("name") :
           Busy(p, <<>>, "no", "name", r) /\ Below(p) = r /\ Knows(p, "no", "name", r)
    BY <1>1, Climbing
  <1>3. /\ cwd[p] \in Inum /\ up \in Inum /\ i \in Inum /\ target \in Inum /\ lock[target] = p
        /\ result[p] \in Seq(Name) /\ name[p] \in Name
    BY <1>1, Climbing
  <1>4. /\ lock' \in [Inum -> Proc \cup {NoProc}]
        /\ \A j \in Inum : lock[j] \notin {NoProc, p} => lock'[j] = lock[j]
    BY <1>1, <1>3, LocksAre DEF Types
  <1>5. FsTypes'
    BY <1>1, <1>3, <1>4, LoadIs, FsMoves DEF Types
  <1>6. drop = <<>> \/ drop = << Put(target) >>
    OBVIOUS
  <1> HIDE DEF drop
  <1>7. /\ DOMAIN result' = Proc /\ IsPath(result'[p]) /\ \A q \in Proc \ {p} : result'[q] = result[q]
        /\ ~ stop => result'[p] \in Seq(Name)
    <2>1. PICK n \in Name :
             result' = [result EXCEPT ![p] =
                 CASE ~ stop -> << n >> \o result[p]
                   [] stop /\ up = ROOTINO -> <<"/", n>> \o result[p] \o << name[p] >>
                   [] OTHER -> <<>>]
      BY <1>1
    <2> DEFINE w == CASE ~ stop -> << n >> \o result[p]
                      [] stop /\ up = ROOTINO -> <<"/", n>> \o result[p] \o << name[p] >>
                      [] OTHER -> <<>>
    <2>2. w \in {<< n >> \o result[p], <<"/", n>> \o result[p] \o << name[p] >>, <<>>}
          /\ (~ stop => w = << n >> \o result[p])
      OBVIOUS
    <2>3. << n >> \o result[p] \in Seq(Name) /\ IsPath(<< n >> \o result[p]) /\ IsPath(<<>>)
      BY <1>3, PathsAre
    <2>4. IsPath(<<"/", n>> \o result[p] \o << name[p] >>)
      <3> DEFINE s == result[p]  e == << name[p] >>  t == s \o e
      <3>1. t \in Seq(Name)
        BY <1>3, PathsAre
      <3>2. s \in Seq(Name \cup {"/"}) /\ e \in Seq(Name \cup {"/"}) /\ <<"/", n>> \in Seq(Name \cup {"/"})
        BY <1>3
      <3> HIDE DEF s, e
      <3>3. <<"/", n>> \o s \o e = <<"/", n>> \o t
        BY <3>2
      <3>4. IsPath(<<"/", n>> \o t)
        BY <3>1, PathsAre
      <3> QED BY <3>3, <3>4 DEF s, e
    <2>5. result' = [result EXCEPT ![p] = w]
      BY <2>1
    <2> HIDE DEF w
    <2>6. IsPath(w) /\ (~ stop => w \in Seq(Name))
      BY <2>2, <2>3, <2>4
    <2> QED BY <2>5, <2>6 DEF Types, CallTypes
  <1>8. /\ Sets(at', at, p) /\ Sets(ip', ip, p) /\ Sets(dp', dp, p) /\ Sets(cwd', cwd, p)
        /\ climbed' \in [Proc -> Nat] /\ \A q \in Proc \ {p} : climbed'[q] = climbed[q]
    <2>1. Sets(dp', dp, p) /\ Sets(cwd', cwd, p)
      BY <1>1, SetsOne, SetsNone, Numbers DEF Types, CallTypes
    <2>2. Sets(at', at, p) /\ Sets(ip', ip, p)
      <3>1. CASE at' = [at EXCEPT ![p] = None] /\ ip' = [ip EXCEPT ![p] = None]
        BY <3>1, SetsOne, Numbers DEF Types, WalkTypes, CallTypes
      <3>2. CASE UNCHANGED <<at, ip>>
        BY <3>2, SetsNone DEF Types, WalkTypes, CallTypes
      <3> QED BY <1>1, <3>1, <3>2
    <2>3. climbed' \in [Proc -> Nat] /\ \A q \in Proc \ {p} : climbed'[q] = climbed[q]
      BY <1>1 DEF Types, CallTypes
    <2> QED BY <2>1, <2>2, <2>3
  <1>9. /\ path' \in [Proc -> Seq(Name)] /\ name' \in [Proc -> Name] /\ DOMAIN call' = Proc
        /\ call'[p].op \in {"link", "symlink"} => IsPath(call'[p].new)
    BY <1>1 DEF Types, WalkTypes, CallTypes
  <1>10. CASE stop
    <2>1. /\ Then(p, drop \o << Put(up), Put(i) >>)
      BY <1>1, <1>10
    <2>2. /\ pc'[p] = (drop \o << Put(up), Put(i) >>) \o Below(p) /\ DOMAIN pc' = Proc
          /\ \A q \in Proc \ {p} : pc'[q] = pc[q]
      BY <2>1, ThenIs DEF Types, WalkTypes
    <2>3. Alone(p) /\ WalkTypes' /\ CallTypes'
      BY <1>1, <1>4, <1>7, <1>8, <1>9, <2>2, MovesAll
    <2>4. drop \o << Put(up), Put(i) >> \in Seq(Putting)
      BY <1>3, <1>6, DropsOne
    <2>5. Stacked(p)'
      BY <1>1, <1>2, <1>3, <2>2, <2>4, Resumes
    <2> QED BY <1>5, <2>3, <2>5 DEF Good, Types
  <1>11. CASE ~ stop
    <2>1. Then(p, drop \o << F("climb") >>) /\ UNCHANGED <<at, ip>>
      BY <1>1, <1>11
    <2>2. /\ pc'[p] = (drop \o << F("climb") >>) \o Below(p) /\ DOMAIN pc' = Proc
          /\ \A q \in Proc \ {p} : pc'[q] = pc[q]
      BY <2>1, ThenIs DEF Types, WalkTypes
    <2>3. Alone(p) /\ WalkTypes' /\ CallTypes'
      BY <1>1, <1>4, <1>7, <1>8, <1>9, <2>2, MovesAll
    <2>4. Stacked(p)'
      <3>1. r \in Rests("climb") /\ "climb" \in Workers
        BY DEF Rests, Workers, Walkers
      <3>2. Owned(p, "no", "climb")' = {}
        BY DEF Owned, Locks, Returned
      <3>3. Knows(p, "no", "climb", r)'
        BY <1>1, <1>2, <1>3, <1>7, <1>11, <2>1 DEF Knows
      <3>4. pc'[p] = drop \o Under("climb", r) /\ drop \in Seq(Putting)
        BY <1>2, <1>3, <1>6, <2>2, <3>1, DropsOne
      <3> QED BY <3>1, <3>2, <3>3, <3>4, Goes
    <2> QED BY <1>5, <2>3, <2>4 DEF Good, Types
  <1> QED BY <1>10, <1>11

LEMMA MakerRest ==
    ASSUME NEW m \in {"created", "opened", "symwrite"}
    PROVE  /\ << F(m) >> \o Ends \in Rests("create") /\ "create" \in Workers /\ "create" \in Walkers
           /\ << F(m) >> \o Ends # << F("linkbad") >> \o Ends /\ << F(m) >> \o Ends # << F("symlink") >> \o Ends
  <1> DEFINE a == F(m)  b == F("linkbad")  c == F("symlink")
  <1>1. Ends \in Seq(Frame \X Maybe)
    BY EndsAre DEF Frames
  <1>2. a # b /\ a # c
    BY FrameIs
  <1>3. Head(<<a>> \o Ends) = a /\ Head(<<b>> \o Ends) = b /\ Head(<<c>> \o Ends) = c
    BY <1>1, ConsIs
  <1> QED BY <1>2, <1>3 DEF Rests, Workers, Walkers

LEMMA SymlinkStep ==
    ASSUME NEW p \in Proc, Types, Stacked(p), Symlink(p)
    PROVE  Good(p)
  <1> DEFINE new == call[p].new
  <1>1. /\ At(p, "symlink")
        /\ \/ Then(p, <<>>) /\ UNCHANGED <<cache, at, path, name>>
           \/ /\ Iget(StartOf(p, new))
              /\ WalkFrom(p, new, TRUE, Labels(<<"create", "symwrite">>) \o Below(p))
        /\ UNCHANGED <<disk, dir, text, lock, cwd, ip, dp, climbed, result, call, program>>
    BY DEF Symlink, Below, callvars, walkvars
  <1>2. PICK r \in Rests("symlink") :
           Busy(p, <<>>, "no", "symlink", r) /\ Below(p) = r /\ Knows(p, "no", "symlink", r) /\ cwd[p] \in Inum
    BY <1>1, InCall DEF Workers
  <1>3. r = Ends /\ call[p].op = "symlink" /\ IsPath(new) /\ StartOf(p, new) \in Inum
    BY <1>2, OneRest, StartIs DEF Knows, Types, CallTypes
  <1> HIDE DEF new
  <1>4. Sets(ip', ip, p) /\ Sets(dp', dp, p)
    BY <1>1, SetsNone DEF Types, CallTypes
  <1>5. CASE Then(p, <<>>) /\ UNCHANGED <<cache, at, path, name>>
    <2>1. Sets(at', at, p)
      BY <1>5, SetsNone DEF Types, WalkTypes
    <2>2. Alone(p) /\ WalkTypes' /\ CallTypes' /\ pc'[p] = <<>> \o Below(p)
      BY <1>1, <1>4, <1>5, <2>1, Moves
    <2>3. FsTypes'
      BY <1>1, <1>5 DEF Types, FsTypes
    <2>4. Stacked(p)'
      <3>1. <<>> \in Seq(Putting)
        OBVIOUS
      <3> QED BY <1>1, <1>2, <2>2, <3>1, Resumes
    <2> QED BY <2>2, <2>3, <2>4 DEF Good, Types
  <1>6. CASE /\ Iget(StartOf(p, new))
             /\ WalkFrom(p, new, TRUE, Labels(<<"create", "symwrite">>) \o Below(p))
    <2> DEFINE r2 == << F("symwrite") >> \o Ends
    <2>1. /\ Sets(at', at, p) /\ at'[p] \in Inum
          /\ path' \in [Proc -> Seq(Name)] /\ name' \in [Proc -> Name]
          /\ pc'[p] = << F("namex") >> \o (Labels(<<"create", "symwrite">>) \o Below(p)) /\ DOMAIN pc' = Proc
          /\ \A q \in Proc \ {p} : pc'[q] = pc[q]
      BY <1>2, <1>3, <1>6, WalkBegins
    <2>2. Alone(p) /\ WalkTypes' /\ CallTypes'
      BY <1>1, <1>4, <2>1, MovesFar
    <2>3. FsTypes'
      BY <1>1, <1>3, <1>6, IgetIs, FsMoves DEF Types, FsTypes
    <2>4. r2 \in Rests("create") /\ r2 # << F("linkbad") >> \o Ends /\ r2 # << F("symlink") >> \o Ends
          /\ "create" \in Workers /\ "create" \in Walkers
      BY MakerRest
    <2>5. Labels(<<"create", "symwrite">>) \o Ends = Under("create", r2)
      <3> DEFINE S == Frame \X Maybe  a == F("create")  b == F("symwrite")  w == Labels(<<"create", "symwrite">>)
      <3>1. a \in S /\ b \in S /\ Ends \in Seq(S)
        BY Labelled, EndsAre DEF Frames, Frame, Workers, Walkers
      <3>2. w = <<a, b>>
        BY DEF Labels, F
      <3> HIDE DEF S, a, b, w
      <3>3. <<a, b>> \o Ends = <<a>> \o (<<b>> \o Ends)
        BY <3>1, Glue
      <3> QED BY <3>2, <3>3 DEF a, b, w, Under
    <2> HIDE DEF r2
    <2>6. Owned(p, "yes", "create")' = {}
      BY DEF Owned, Locks, Returned
    <2>7. Knows(p, "yes", "create", r2)'
      BY <1>1, <1>2, <1>3, <2>1, <2>4 DEF Knows, Makers
    <2>8. pc'[p] = <<>> \o Work("yes", "create", r2) /\ <<>> \in Seq(Putting)
      <3>1. pc'[p] = Work("yes", "create", r2)
        BY <1>2, <1>3, <2>1, <2>4, <2>5, WorkUnder
      <3>2. Work("yes", "create", r2) \in Frames
        BY <2>4, WorkIs
      <3> QED BY <3>1, <3>2 DEF Frames
    <2>9. Stacked(p)'
      BY <2>4, <2>6, <2>7, <2>8, Pushed
    <2> QED BY <2>2, <2>3, <2>9 DEF Good, Types
  <1> QED BY <1>1, <1>5, <1>6

LEMMA SymlinkWritesStep ==
    ASSUME NEW p \in Proc, Types, Stacked(p), SymlinkWrites(p)
    PROVE  Good(p)
  <1>1. /\ At(p, "symwrite") /\ at[p] # None /\ text' = [text EXCEPT ![at[p]] = result[p]]
        /\ Unlocked(at[p]) /\ at' = [at EXCEPT ![p] = None] /\ Then(p, << Put(at[p]) >>)
        /\ UNCHANGED <<disk, dir, cache, cwd, path, name, ip, dp, climbed, result, call, program>>
    BY DEF SymlinkWrites, callvars
  <1>2. PICK r \in Rests("symwrite") :
           /\ Busy(p, <<>>, "no", "symwrite", r) /\ Below(p) = r /\ cwd[p] \in Inum
           /\ Owned(p, "no", "symwrite") \subseteq Inum
           /\ \A i \in Owned(p, "no", "symwrite") : lock[i] = p
    BY <1>1, InCall DEF Workers
  <1>3. at[p] \in Inum /\ lock[at[p]] = p
    BY <1>1, <1>2 DEF Owned, Locks, Returned
  <1>4. Sets(at', at, p) /\ Sets(ip', ip, p) /\ Sets(dp', dp, p)
    BY <1>1, SetsOne, SetsNone, Numbers DEF Types, WalkTypes, CallTypes
  <1>5. /\ lock' \in [Inum -> Proc \cup {NoProc}]
        /\ \A j \in Inum : lock[j] \notin {NoProc, p} => lock'[j] = lock[j]
    BY <1>1, <1>3, LocksAre DEF Types
  <1>6. Alone(p) /\ WalkTypes' /\ CallTypes' /\ pc'[p] = << Put(at[p]) >> \o Below(p)
    BY <1>1, <1>4, <1>5, Moves
  <1>7. FsTypes'
    <2>1. DOMAIN text' = Inum /\ \A i \in Inum : IsPath(text'[i])
      BY <1>1, <1>3 DEF Types, FsTypes, CallTypes
    <2> QED BY <1>1, <1>5, <2>1 DEF Types, FsTypes
  <1>8. Stacked(p)'
    BY <1>1, <1>2, <1>3, <1>6, PutIs, Resumes
  <1> QED BY <1>6, <1>7, <1>8 DEF Good, Types

-----------------------------------------------------------------------------
(* Beginning and end of a call *)

LEMMA Three == ASSUME NEW a, NEW b, NEW c PROVE <<a, b>> \o <<c>> = <<a, b, c>>
  <1> DEFINE S == {a, b, c}  s == <<a, b>> \o <<c>>  t == <<a, b, c>>
  <1>1. s \in Seq(S) /\ t \in Seq(S)
    <2>1. s \in Seq(S)
      OBVIOUS
    <2>2. t \in Seq(S)
      OBVIOUS
    <2> QED BY <2>1, <2>2
  <1>2. Len(s) = 3 /\ s[1] = a /\ s[2] = b /\ s[3] = c
    <2>1. Len(s) = 3
      OBVIOUS
    <2>2. s[1] = a
      OBVIOUS
    <2>3. s[2] = b
      OBVIOUS
    <2>4. s[3] = c
      OBVIOUS
    <2> QED BY <2>1, <2>2, <2>3, <2>4
  <1>3. Len(t) = 3
    OBVIOUS
  <1>4. t[1] = a /\ t[2] = b /\ t[3] = c
    OBVIOUS
  <1> HIDE DEF S, s, t
  <1>5. s = t
    BY <1>1, <1>2, <1>3, <1>4
  <1> QED BY <1>5 DEF s, t

LEMMA LabelsOne == ASSUME NEW a \in Workers PROVE Labels(<<a>> \o <<"end_op">>) = Under(a, Ends)
  <1> DEFINE x == F(a)  y == F("end_op")  s == <<a>> \o <<"end_op">>  t == Labels(s)
  <1>1. s = <<a, "end_op">>
    BY Pair
  <1>2. t = <<x, y>>
    BY <1>1 DEF Labels, F
  <1> HIDE DEF x, y, t
  <1>3. <<x>> \o <<y>> = <<x, y>>
    BY Pair
  <1> QED BY <1>2, <1>3 DEF t, x, y, Under, Ends

LEMMA LabelsTwo ==
    ASSUME NEW a \in Workers, NEW b \in Workers
    PROVE  Labels(<<a, b>> \o <<"end_op">>) = Under(a, << F(b) >> \o Ends)
  <1> DEFINE x == F(a)  y == F(b)  z == F("end_op")  s == <<a, b>> \o <<"end_op">>  t == Labels(s)
             S == Frame \X Maybe
  <1>1. s = <<a, b, "end_op">>
    BY Three
  <1>2. t = <<x, y, z>>
    BY <1>1 DEF Labels, F
  <1>3. x \in S /\ y \in S /\ z \in S
    BY Labelled DEF Frame
  <1> HIDE DEF x, y, z, t, S
  <1>4. <<y>> \o <<z>> = <<y, z>>
    BY Pair
  <1> DEFINE u == <<y, z>>
  <1>5. <<x>> \o u = <<x, y, z>>
    <2> DEFINE v == <<x>> \o u  w == <<x, y, z>>
    <2>1. v \in Seq(S) /\ Len(v) = 3 /\ v[1] = x /\ v[2] = y /\ v[3] = z
      BY <1>3
    <2>2. w \in Seq(S) /\ Len(w) = 3 /\ w[1] = x /\ w[2] = y /\ w[3] = z
      BY <1>3
    <2> HIDE DEF v, w
    <2>3. v = w
      BY <2>1, <2>2
    <2> QED BY <2>3 DEF v, w
  <1> QED BY <1>2, <1>4, <1>5 DEF t, x, y, z, Under, Ends

LEMMA HandlersAre ==
    ASSUME NEW op \in PathCalls
    PROVE  \E l \in {"create", "climb", "exec", "open", "unlink", "link", "chdir"} : \E r \in Rests(l) :
              /\ Labels(Handlers(op) \o <<"end_op">>) = Under(l, r)
              /\ r # << F("linkbad") >> \o Ends /\ (r = << F("symlink") >> \o Ends => op = "symlink")
              /\ l = "create" => op \in Makers
              /\ l = "link" => op = "link"
  <1>1. CASE op \in {"mkdir", "mknod"}
    <2>1. Handlers(op) = <<"create", "created">> /\ "create" \in Workers /\ "created" \in Workers
      BY <1>1 DEF Handlers, Workers, Walkers
    <2> QED BY <1>1, <2>1, LabelsTwo, MakerRest DEF Makers
  <1>2. CASE op = "creat"
    <2>1. Handlers(op) = <<"create", "opened">> /\ "create" \in Workers /\ "opened" \in Workers
      BY <1>2 DEF Handlers, Workers, Walkers
    <2> QED BY <1>2, <2>1, LabelsTwo, MakerRest DEF Makers
  <1>3. CASE op = "symlink"
    <2> DEFINE r == << F("symlink") >> \o Ends
    <2>1. Handlers(op) = <<"climb", "symlink">> /\ "climb" \in Workers /\ "symlink" \in Workers
      BY <1>3 DEF Handlers, Workers, Walkers
    <2>2. Labels(Handlers(op) \o <<"end_op">>) = Under("climb", r)
      BY <2>1, LabelsTwo
    <2>3. r \in Rests("climb")
      BY DEF Rests
    <2>4. r # << F("linkbad") >> \o Ends
      <3> DEFINE a == F("symlink")  b == F("linkbad")
      <3>1. Ends \in Seq(Frame \X Maybe)
        BY EndsAre DEF Frames
      <3>2. a # b
        BY FrameIs
      <3>3. Head(<<a>> \o Ends) = a /\ Head(<<b>> \o Ends) = b
        BY <3>1, ConsIs
      <3> QED BY <3>2, <3>3
    <2> HIDE DEF r
    <2> QED BY <1>3, <2>2, <2>3, <2>4
  <1>4. CASE op = "realpath"
    <2>1. Handlers(op) = <<"climb">> /\ "climb" \in Workers /\ Ends \in Rests("climb")
      BY <1>4, EndsRest DEF Handlers
    <2> QED BY <1>4, <2>1, LabelsOne, EndsApart
  <1>5. CASE op = "exec"
    <2>1. Handlers(op) = <<"exec", "load">> /\ "exec" \in Workers /\ "load" \in Workers
      BY <1>5 DEF Handlers, Workers, Walkers
    <2> QED BY <1>5, <2>1, LabelsTwo, LoadRest
  <1>6. CASE op \in {"open", "unlink", "link", "chdir"}
    <2>1. Handlers(op) = <<op>> /\ op \in Workers /\ Ends \in Rests(op)
      BY <1>6, EndsRest DEF Handlers
    <2> QED BY <1>6, <2>1, LabelsOne, EndsApart
  <1> QED BY <1>1, <1>2, <1>3, <1>4, <1>5, <1>6 DEF PathCalls

\* A process that is in no call.
LEMMA NoCallIs ==
    ASSUME NEW p \in Proc, Types, Stacked(p), Idle(p)
    PROVE  pc[p] = <<>> /\ cwd[p] \in Inum /\ result[p] = <<>> /\ climbed[p] = 0
  <1>1. pc[p] = <<>> /\ cwd[p] # None
    BY DEF Idle
  <1>2. Ending(p, <<>>, <<>>)
    BY <1>1, IdleIs
  <1>3. result[p] = <<>> /\ climbed[p] = 0
    BY <1>2 DEF Ending
  <1>4. cwd[p] \in Inum
    BY <1>1 DEF Types, CallTypes, Maybe
  <1> QED BY <1>1, <1>3, <1>4

LEMMA PathCallStep ==
    ASSUME NEW p \in Proc, Types, Stacked(p), NEW c \in program.calls[p], "path" \in DOMAIN c, PathCall(p, c)
    PROVE  Good(p)
  <1> DEFINE start == StartOf(p, c.path)
  <1>1. /\ Idle(p) /\ call' = [call EXCEPT ![p] = c] /\ Iget(start)
        /\ WalkFrom(p, c.path, WantsParent(c.op), Labels(Handlers(c.op) \o <<"end_op">>))
        /\ UNCHANGED <<disk, dir, text, lock, cwd, ip, dp, climbed, result, program>>
    BY DEF PathCall
  <1>2. pc[p] = <<>> /\ cwd[p] \in Inum /\ result[p] = <<>> /\ climbed[p] = 0
    BY <1>1, NoCallIs
  <1>3. c.op \in PathCalls /\ IsPath(c.path) /\ (c.op \in {"link", "symlink"} => IsPath(c.new))
    BY ProgramsAssumption DEF Types, CallTypes
  <1>4. start \in Inum
    BY <1>2, StartIs
  <1> HIDE DEF start
  <1>5. PICK l \in {"create", "climb", "exec", "open", "unlink", "link", "chdir"} : \E r \in Rests(l) :
              /\ Labels(Handlers(c.op) \o <<"end_op">>) = Under(l, r)
              /\ r # << F("linkbad") >> \o Ends /\ (r = << F("symlink") >> \o Ends => c.op = "symlink")
              /\ l = "create" => c.op \in Makers
              /\ l = "link" => c.op = "link"
    BY <1>3, HandlersAre
  <1>6. PICK r \in Rests(l) :
              /\ Labels(Handlers(c.op) \o <<"end_op">>) = Under(l, r)
              /\ r # << F("linkbad") >> \o Ends /\ (r = << F("symlink") >> \o Ends => c.op = "symlink")
              /\ l = "create" => c.op \in Makers
              /\ l = "link" => c.op = "link"
    BY <1>5
  <1>7. /\ Sets(at', at, p) /\ at'[p] \in Inum
        /\ path' \in [Proc -> Seq(Name)] /\ name' \in [Proc -> Name]
        /\ pc'[p] = << F("namex") >> \o Under(l, r) /\ DOMAIN pc' = Proc
        /\ \A q \in Proc \ {p} : pc'[q] = pc[q]
    BY <1>1, <1>2, <1>3, <1>6, WalkBegins
  <1>8. /\ Sets(ip', ip, p) /\ Sets(dp', dp, p) /\ Sets(cwd', cwd, p)
        /\ climbed' \in [Proc -> Nat] /\ DOMAIN result' = Proc /\ IsPath(result'[p])
        /\ DOMAIN call' = Proc /\ call'[p] = c /\ \A q \in Proc \ {p} : call'[q] = call[q]
    BY <1>1, SetsNone DEF Types, CallTypes
  <1>9. Alone(p) /\ WalkTypes' /\ CallTypes'
    BY <1>1, <1>3, <1>7, <1>8, MovesAll
  <1>10. FsTypes'
    BY <1>1, <1>4, IgetIs, FsMoves DEF Types, FsTypes
  <1>11. Stacked(p)'
    <2>1. l \in Workers /\ l \in Walkers /\ l \notin {"found", "new", "linknew", "linkto", "linkbad", "name", "symlink"}
      BY DEF Workers, Walkers
    <2>2. Owned(p, "yes", l)' = {}
      BY DEF Owned, Locks, Returned
    <2>3. result'[p] \in Seq(Name) /\ climbed'[p] = 0 /\ cwd'[p] \in Inum
      BY <1>1, <1>2
    <2>4. Knows(p, "yes", l, r)'
      BY <1>6, <1>7, <1>8, <2>1, <2>3 DEF Knows
    <2>5. pc'[p] = <<>> \o Work("yes", l, r) /\ <<>> \in Seq(Putting)
      <3>1. pc'[p] = Work("yes", l, r)
        BY <1>7, <2>1, WorkUnder
      <3>2. Work("yes", l, r) \in Frames
        BY <2>1, WorkIs
      <3> QED BY <3>1, <3>2 DEF Frames
    <2> QED BY <2>1, <2>2, <2>4, <2>5, Pushed
  <1> QED BY <1>9, <1>10, <1>11 DEF Good, Types

\* A process that has no more to do than to end its call, or to exit.
LEMMA Quits ==
    ASSUME NEW p, NEW e \in {<<>>, << F("exit") >>}, pc'[p] = e,
           e = <<>> => result'[p] = <<>> /\ climbed'[p] = 0,
           e # <<>> => cwd'[p] \in Inum
    PROVE  Stacked(p)'
  <1>1. <<>> \in Dropping /\ e \in Endings
    BY EndsAre DEF Dropping
  <1>2. <<>> \o e = e
    <2>1. e \in Frames
      BY EndsAre, EndingsAre
    <2> QED BY <2>1 DEF Frames
  <1>3. Freeing(p, <<>>, {})'
    BY DEF Freeing
  <1>4. Ending(p, <<>>, e)'
    BY <1>1, <1>2, <1>3 DEF Ending
  <1> QED BY <1>1, <1>4 DEF Stacked

LEMMA EndOpStep ==
    ASSUME NEW p \in Proc, Types, Stacked(p), EndOp(p)
    PROVE  Good(p)
  <1>1. /\ At(p, "end_op") /\ Then(p, <<>>)
        /\ call' = [call EXCEPT ![p] = NoCall] /\ name' = [name EXCEPT ![p] = "."]
        /\ climbed' = [climbed EXCEPT ![p] = 0] /\ result' = [result EXCEPT ![p] = <<>>]
        /\ UNCHANGED <<disk, dir, text, cache, lock, cwd, at, path, ip, dp, program>>
    BY DEF EndOp, fsvars
  <1>2. PICK e \in Endings : e # <<>> /\ Ending(p, <<>>, e) /\ pc[p] = e
    BY <1>1, EndIs
  <1>3. pc'[p] = Below(p) /\ DOMAIN pc' = Proc /\ \A q \in Proc \ {p} : pc'[q] = pc[q]
    BY <1>1, <1>2, ThenBack DEF Types, WalkTypes
  <1>4. /\ Sets(at', at, p) /\ Sets(ip', ip, p) /\ Sets(dp', dp, p) /\ Sets(cwd', cwd, p)
    BY <1>1, SetsNone DEF Types, WalkTypes, CallTypes
  <1>5. /\ climbed' \in [Proc -> Nat] /\ climbed'[p] = 0 /\ \A q \in Proc \ {p} : climbed'[q] = climbed[q]
        /\ DOMAIN result' = Proc /\ result'[p] = <<>> /\ \A q \in Proc \ {p} : result'[q] = result[q]
        /\ DOMAIN call' = Proc /\ call'[p] = NoCall /\ \A q \in Proc \ {p} : call'[q] = call[q]
        /\ path' \in [Proc -> Seq(Name)] /\ name' \in [Proc -> Name]
    BY <1>1, ImageAssumption DEF Types, WalkTypes, CallTypes
  <1>6. IsPath(<<>>) /\ NoCall.op \notin {"link", "symlink"}
    <2>1. <<>> \in Seq(Name)
      OBVIOUS
    <2> QED BY <2>1, PathsAre DEF NoCall
  <1>7. Alone(p) /\ WalkTypes' /\ CallTypes'
    BY <1>1, <1>3, <1>4, <1>5, <1>6, MovesAll
  <1>8. FsTypes'
    BY <1>1 DEF Types, FsTypes
  <1>9. Stacked(p)'
    <2> DEFINE x == << F("exit") >>
    <2>1. e # x
      <3>1. Head(x) = F("exit") /\ F("exit")[1] = "exit" /\ Head(pc[p])[1] = "end_op"
        BY <1>1, EndingsAre, EndsAre, FrameIs DEF At
      <3> QED BY <1>2, <3>1
    <2>2. e \in {Ends, Ends \o x}
      BY <1>2, <2>1 DEF Endings
    <2>3. Tail(Ends) = <<>> /\ Tail(Ends \o x) = x
      BY <1>2, EndingsAre
    <2>4. e = Ends \o x => cwd[p] \in Inum
      <3>1. Ends # Ends \o x
        <4>1. Tail(Ends) # Tail(Ends \o x)
          <5>1. x # <<>>
            OBVIOUS
          <5> QED BY <2>3, <5>1
        <4> QED BY <4>1
      <3> QED BY <1>2, <3>1 DEF Ending
    <2>5. Below(p) \in {<<>>, x} /\ (Below(p) # <<>> => cwd[p] \in Inum)
      BY <1>2, <2>2, <2>3, <2>4 DEF Below
    <2> HIDE DEF x
    <2> QED BY <1>1, <1>3, <1>5, <2>5, Quits DEF x
  <1> QED BY <1>7, <1>8, <1>9 DEF Good, Types

LEMMA ExitStep ==
    ASSUME NEW p \in Proc, Types, Stacked(p), Exit(p)
    PROVE  Good(p)
  <1> DEFINE x == << F("exit") >>
  <1>1. /\ Idle(p) /\ pc' = [pc EXCEPT ![p] = x]
        /\ UNCHANGED <<disk, dir, text, cache, lock, cwd, at, path, name, ip, dp, climbed, result, call, program>>
    BY DEF Exit, fsvars, walkvars, F
  <1>2. cwd[p] \in Inum
    BY <1>1, NoCallIs
  <1>3. pc'[p] = x /\ DOMAIN pc' = Proc /\ \A q \in Proc \ {p} : pc'[q] = pc[q]
    BY <1>1 DEF Types, WalkTypes
  <1>4. Sets(at', at, p) /\ Sets(ip', ip, p) /\ Sets(dp', dp, p)
    BY <1>1, SetsNone DEF Types, WalkTypes, CallTypes
  <1>5. path' \in [Proc -> Seq(Name)] /\ name' \in [Proc -> Name]
    BY <1>1 DEF Types, WalkTypes
  <1>6. Alone(p) /\ WalkTypes' /\ CallTypes'
    BY <1>1, <1>3, <1>4, <1>5, MovesFar
  <1>7. FsTypes'
    BY <1>1 DEF Types, FsTypes
  <1>8. x # <<>>
    OBVIOUS
  <1>9. Stacked(p)'
    BY <1>1, <1>2, <1>3, <1>8, Quits
  <1> QED BY <1>6, <1>7, <1>9 DEF Good, Types

\* A process that exits.
LEMMA Exiting ==
    ASSUME NEW p \in Proc, Types, Stacked(p), At(p, "exit")
    PROVE  pc[p] = << F("exit") >> /\ Below(p) = <<>> /\ cwd[p] \in Inum
  <1> DEFINE x == << F("exit") >>
  <1>1. PICK e \in Endings : e # <<>> /\ Ending(p, <<>>, e) /\ pc[p] = e
    BY EndIs
  <1>2. Head(e)[1] = "exit" /\ F("end_op")[1] = "end_op" /\ F("exit")[1] = "exit"
    BY <1>1, FrameIs DEF At
  <1>3. /\ Head(Ends) = F("end_op") /\ Head(Ends \o x) = F("end_op") /\ Tail(x) = <<>> /\ Head(x) = F("exit")
    BY <1>1, EndingsAre
  <1>4. e # Ends /\ e # Ends \o x
    BY <1>2, <1>3
  <1>5. e = x
    BY <1>1, <1>4 DEF Endings
  <1>6. cwd[p] \in Inum
    BY <1>1, <1>4 DEF Ending
  <1> QED BY <1>1, <1>3, <1>5, <1>6 DEF Below

LEMMA ExitLeavesStep ==
    ASSUME NEW p \in Proc, Types, Stacked(p), ExitLeaves(p)
    PROVE  Good(p)
  <1> DEFINE i == cwd[p]
  <1>1. /\ At(p, "exit") /\ cwd' = [cwd EXCEPT ![p] = None] /\ Then(p, << Put(i), F("end_op") >>)
        /\ UNCHANGED <<disk, dir, text, cache, lock, at, path, name, ip, dp, climbed, result, call, program>>
    BY DEF ExitLeaves, walkvars, callvars, F
  <1>2. i \in Inum /\ Below(p) = <<>>
    BY <1>1, Exiting
  <1>3. /\ pc'[p] = << Put(i), F("end_op") >> \o Below(p) /\ DOMAIN pc' = Proc
        /\ \A q \in Proc \ {p} : pc'[q] = pc[q]
    BY <1>1, ThenIs DEF Types, WalkTypes
  <1>4. Sets(at', at, p) /\ Sets(ip', ip, p) /\ Sets(dp', dp, p) /\ Sets(cwd', cwd, p)
    BY <1>1, SetsOne, SetsNone, Numbers DEF Types, WalkTypes, CallTypes
  <1>5. /\ path' \in [Proc -> Seq(Name)] /\ name' \in [Proc -> Name] /\ climbed' \in [Proc -> Nat]
        /\ DOMAIN result' = Proc /\ IsPath(result'[p]) /\ DOMAIN call' = Proc
        /\ call'[p].op \in {"link", "symlink"} => IsPath(call'[p].new)
    BY <1>1 DEF Types, WalkTypes, CallTypes
  <1>6. Alone(p) /\ WalkTypes' /\ CallTypes'
    BY <1>1, <1>3, <1>4, <1>5, MovesAll
  <1>7. FsTypes'
    BY <1>1 DEF Types, FsTypes
  <1>8. Stacked(p)'
    <2> DEFINE a == Put(i)  b == F("end_op")  S == Frame \X Maybe  s == <<a, b>>
    <2>1. a \in S /\ b \in S
      BY <1>2, PutIs, Labelled DEF Frame
    <2> HIDE DEF a, b, S
    <2>2. s \o <<>> = s /\ s = <<a>> \o <<b>>
      <3>1. s \in Seq(S)
        BY <2>1
      <3> HIDE DEF s
      <3>2. s \o <<>> = s
        BY <3>1
      <3>3. s = <<a>> \o <<b>>
        BY Pair DEF s
      <3> QED BY <3>2, <3>3
    <2>3. pc'[p] = << Put(i) >> \o Ends
      BY <1>2, <1>3, <2>2 DEF a, b, Ends
    <2> QED BY <1>2, <2>3, PutIs, Ended
  <1> QED BY <1>6, <1>7, <1>8 DEF Good, Types

-----------------------------------------------------------------------------
(* Descriptors *)

\* The descriptors that stand for a file.
Owners(of, f) == {x \in Proc \X Fd : of[x[1]][x[2]] = f}
Copies(of, p, f) == {d \in Fd : of[p][d] = f}

FilesOK(of, ft) ==
    /\ ft \in [File -> [ref : Nat, ip : Maybe]] /\ of \in [Proc -> [Fd -> File \cup {None}]]
    /\ \A f \in File : ft[f].ref = Cardinality(Owners(of, f)) /\ (ft[f].ref # 0 => ft[f].ip \in Inum)

\* The reference count of an open file is the number of its descriptors, it has
\* an inode, and what has not been forked or has exited has no descriptors.
Files ==
    /\ FilesOK(ofile, file)
    /\ \A q \in Proc : cwd[q] = None => \A d \in Fd : ofile[q][d] = None

\* Only the descriptor d of p is another.
Differs(of, of2, p, d) == \A q \in Proc : \A e \in Fd : <<q, e>> # <<p, d>> => of2[q][e] = of[q][e]

LEMMA OwnersAreFinite ==
    /\ IsFiniteSet(Fd) /\ None \notin File
    /\ \A of, f : IsFiniteSet(Owners(of, f)) /\ Cardinality(Owners(of, f)) \in Nat
    /\ \A of, p, f : IsFiniteSet(Copies(of, p, f)) /\ Cardinality(Copies(of, p, f)) \in Nat
  <1>1. NOFILE \in Int /\ 1 \in Int /\ NFILE \in Int
    BY CallsAssumption
  <1>2. IsFiniteSet(Fd)
    BY <1>1, FS_Interval DEF Fd
  <1>3. IsFiniteSet(Proc \X Fd)
    BY <1>2, ImageAssumption, FS_Product
  <1>4. \A S, T : IsFiniteSet(S) /\ T \in SUBSET S => IsFiniteSet(T) /\ Cardinality(T) \in Nat
    BY FS_Subset, FS_CardinalityType
  <1>5. \A of, f : Owners(of, f) \in SUBSET (Proc \X Fd)
    BY DEF Owners
  <1>6. \A of, p, f : Copies(of, p, f) \in SUBSET Fd
    BY DEF Copies
  <1>7. None \notin File
    BY <1>1 DEF None, File
  <1> QED BY <1>2, <1>3, <1>4, <1>5, <1>6, <1>7

LEMMA OneMoreOwner ==
    ASSUME NEW of, NEW of2, NEW p \in Proc, NEW d \in Fd, NEW f \in File,
           of[p][d] = None, of2[p][d] = f,
           Differs(of, of2, p, d)
    PROVE  \A g \in File : Cardinality(Owners(of2, g)) = Cardinality(Owners(of, g)) + (IF g = f THEN 1 ELSE 0)
  <1>1. None \notin File
    BY OwnersAreFinite
  <1>2. \A x \in Proc \X Fd : x = <<x[1], x[2]>> /\ x[1] \in Proc /\ x[2] \in Fd
    OBVIOUS
  <1>3. <<p, d>> \notin Owners(of, f)
    BY <1>1 DEF Owners, Differs
  <1>4. Owners(of2, f) = Owners(of, f) \cup {<<p, d>>}
    <2>1. \A x \in Proc \X Fd : x \in Owners(of2, f) <=> x \in Owners(of, f) \/ x = <<p, d>>
      BY <1>2, <1>3 DEF Owners, Differs
    <2> QED BY <2>1 DEF Owners, Differs
  <1>5. Cardinality(Owners(of2, f)) = Cardinality(Owners(of, f)) + 1
    <2>1. IsFiniteSet(Owners(of, f))
      BY OwnersAreFinite
    <2>2. \A S, x : IsFiniteSet(S) /\ x \notin S => Cardinality(S \cup {x}) = Cardinality(S) + 1
      BY FS_AddElement
    <2> QED BY <1>3, <1>4, <2>1, <2>2, Zenon
  <1>6. ASSUME NEW g \in File, g # f PROVE Owners(of2, g) = Owners(of, g)
    <2>1. \A x \in Proc \X Fd : x \in Owners(of2, g) <=> x \in Owners(of, g)
      BY <1>1, <1>2, <1>6 DEF Owners, Differs
    <2> QED BY <2>1 DEF Owners, Differs
  <1> QED BY <1>5, <1>6, OwnersAreFinite

\* A child with the descriptors of its parent.
LEMMA OwnersForked ==
    ASSUME NEW of, NEW of2, NEW p \in Proc, NEW q \in Proc, p # q,
           \A d \in Fd : of[q][d] = None /\ of2[q][d] = of[p][d],
           \A t \in Proc : t # q => \A d \in Fd : of2[t][d] = of[t][d]
    PROVE  \A g \in File : Cardinality(Owners(of2, g)) = Cardinality(Owners(of, g)) + Cardinality(Copies(of, p, g))
  <1> SUFFICES ASSUME NEW g \in File
               PROVE  Cardinality(Owners(of2, g)) = Cardinality(Owners(of, g)) + Cardinality(Copies(of, p, g))
    OBVIOUS
  <1> DEFINE A == {d \in Fd : of[p][d] = g}  B == {q} \X A  f == [d \in A |-> <<q, d>>]
  <1>1. g # None
    BY OwnersAreFinite
  <1>2. Owners(of, g) \cap B = {}
    BY <1>1 DEF Owners
  <1>3. Owners(of2, g) = Owners(of, g) \cup B
    <2>1. \A x \in Proc \X Fd : x = <<x[1], x[2]>> /\ x[1] \in Proc /\ x[2] \in Fd
      OBVIOUS
    <2>2. \A x \in Proc \X Fd : x \in B <=> x[1] = q /\ of[p][x[2]] = g
      BY <2>1
    <2>3. \A x \in Proc \X Fd : of2[x[1]][x[2]] = g <=> of[x[1]][x[2]] = g \/ x \in B
      BY <1>1, <2>1, <2>2
    <2>4. B \subseteq Proc \X Fd
      OBVIOUS
    <2> HIDE DEF B
    <2> QED BY <2>3, <2>4 DEF Owners
  <1>4. IsFiniteSet(A)
    BY OwnersAreFinite, FS_Subset
  <1>5. f \in Bijection(A, B)
    <2>1. f \in [A -> B]
      OBVIOUS
    <2>2. \A a, b \in A : f[a] = f[b] => a = b
      OBVIOUS
    <2>3. \A t \in B : \E a \in A : f[a] = t
      OBVIOUS
    <2> HIDE DEF f, A, B
    <2> QED BY <2>1, <2>2, <2>3 DEF Bijection, Injection, Surjection, IsInjective
  <1>6. IsFiniteSet(B) /\ Cardinality(B) = Cardinality(A)
    <2>1. ExistsBijection(A, B)
      BY <1>5 DEF ExistsBijection
    <2> HIDE DEF A, B
    <2> QED BY <1>4, <2>1, FS_Bijection
  <1> HIDE DEF A, B
  <1>7. IsFiniteSet(Owners(of, g)) /\ Cardinality(Owners(of, g)) \in Nat
    BY OwnersAreFinite
  <1>8. Cardinality(A) \in Nat
    BY <1>4, FS_CardinalityType
  <1>9. Cardinality(Owners(of, g) \cup B) = Cardinality(Owners(of, g)) + Cardinality(B) - Cardinality({})
    BY <1>2, <1>6, <1>7, FS_Union
  <1>10. Cardinality({}) = 0
    BY FS_EmptySet
  <1> QED BY <1>3, <1>6, <1>7, <1>8, <1>9, <1>10 DEF A, Copies

\* A file with a descriptor is open.
LEMMA OwnedIsOpen ==
    ASSUME FilesOK(ofile, file), NEW p \in Proc, NEW d \in Fd, ofile[p][d] # None
    PROVE  /\ ofile[p][d] \in File /\ file[ofile[p][d]].ref \in Nat \ {0}
           /\ file[ofile[p][d]].ip \in Inum
  <1> DEFINE f == ofile[p][d]
  <1>1. f \in File
    BY DEF FilesOK
  <1>2. <<p, d>> \in Owners(ofile, f)
    BY DEF Owners
  <1>3. Cardinality(Owners(ofile, f)) \in Nat /\ Cardinality(Owners(ofile, f)) # 0
    BY <1>2, OwnersAreFinite, FS_EmptySet
  <1> HIDE DEF f
  <1>4. file[f].ref # 0 /\ file[f].ref \in Nat /\ file[f].ip \in Inum
    BY <1>1, <1>3 DEF FilesOK
  <1> QED BY <1>1, <1>4 DEF f

LEMMA OpenedFiles ==
    ASSUME NEW p \in Proc, Types, Stacked(p), Files, Opened(p)
    PROVE  FilesOK(ofile', file') /\ cwd[p] \in Inum /\ \A q \in Proc \ {p} : ofile'[q] = ofile[q]
  <1> DEFINE fs == {f \in File : file[f].ref = 0}  ds == {d \in Fd : ofile[p][d] = None}
             f == Min(fs)  d == Min(ds)  i == at[p]
  <1>1. /\ At(p, "opened") /\ i # None
        /\ \/ /\ fs # {} /\ ds # {} /\ file' = [file EXCEPT ![f] = [ref |-> 1, ip |-> i]]
              /\ ofile' = [ofile EXCEPT ![p][d] = f]
           \/ UNCHANGED <<file, ofile>>
    BY DEF Opened
  <1>2. i \in Inum /\ cwd[p] \in Inum
    <2>1. cwd[p] \in Inum
      BY <1>1, InCall DEF Workers
    <2> QED BY <1>1, <2>1 DEF Types, WalkTypes, Maybe
  <1>3. CASE UNCHANGED <<file, ofile>>
    BY <1>2, <1>3 DEF Files
  <1>4. CASE /\ fs # {} /\ ds # {} /\ file' = [file EXCEPT ![f] = [ref |-> 1, ip |-> i]]
             /\ ofile' = [ofile EXCEPT ![p][d] = f]
    <2>1. f \in fs /\ d \in ds
      <3> HIDE DEF fs, ds
      <3>1. fs \in SUBSET Nat /\ ds \in SUBSET Nat
        BY DEF fs, ds, File, Fd
      <3> QED BY <1>4, <3>1, LeastIsIn
    <2>2. f \in File /\ file[f].ref = 0 /\ d \in Fd /\ ofile[p][d] = None
      BY <2>1
    <2> HIDE DEF f, d, i
    <2>3. file' = [file EXCEPT ![f] = [ref |-> 1, ip |-> i]] /\ ofile' = [ofile EXCEPT ![p][d] = f]
      BY <1>4
    <2>4. FilesOK(ofile, file)
      BY DEF Files
    <2>5. /\ ofile' \in [Proc -> [Fd -> File \cup {None}]] /\ ofile'[p][d] = f
          /\ Differs(ofile, ofile', p, d)
          /\ \A q \in Proc \ {p} : ofile'[q] = ofile[q]
      BY <2>2, <2>3, <2>4 DEF FilesOK, Differs
    <2>6. \A g \in File : Cardinality(Owners(ofile', g)) = Cardinality(Owners(ofile, g)) + (IF g = f THEN 1 ELSE 0)
      BY <2>2, <2>5, OneMoreOwner
    <2>7. /\ file' \in [File -> [ref : Nat, ip : Maybe]] /\ file'[f].ref = 1 /\ file'[f].ip = i
          /\ \A g \in File \ {f} : file'[g] = file[g]
      BY <1>2, <2>2, <2>3, <2>4, Numbers DEF FilesOK
    <2>8. \A g \in File : file'[g].ref = Cardinality(Owners(ofile', g)) /\ (file'[g].ref # 0 => file'[g].ip \in Inum)
      BY <1>2, <2>2, <2>4, <2>6, <2>7, OwnersAreFinite DEF FilesOK
    <2> QED BY <1>2, <2>5, <2>7, <2>8 DEF FilesOK
  <1> QED BY <1>1, <1>3, <1>4

LEMMA CloseFiles ==
    ASSUME NEW p \in Proc, Files, NEW d \in Fd, ofile[p][d] # None, NEW frames, CloseFd(p, d, frames)
    PROVE  /\ FilesOK(ofile', file')
           /\ \A q \in Proc \ {p} : ofile'[q] = ofile[q]
           /\ \E i \in Inum : \/ pc' = [pc EXCEPT ![p] = << Put(i), F("end_op") >> \o frames]
                              \/ pc' = [pc EXCEPT ![p] = <<>> \o frames]
  <1> DEFINE f == ofile[p][d]  last == file[f].ref = 1
  <1>1. FilesOK(ofile, file) /\ f \in File /\ file[f].ref \in Nat \ {0} /\ file[f].ip \in Inum
    BY OwnedIsOpen DEF Files
  <1>2. /\ ofile' = [ofile EXCEPT ![p][d] = None]
        /\ file' = [file EXCEPT ![f] = IF last THEN [ref |-> 0, ip |-> None] ELSE [file[f] EXCEPT !.ref = @ - 1]]
        /\ pc' = [pc EXCEPT ![p] = (IF last THEN << Put(file[f].ip), F("end_op") >> ELSE <<>>) \o frames]
    BY DEF CloseFd, F
  <1>3. ofile[p][d] = f
    OBVIOUS
  <1>4. \E i \in Inum : \/ pc' = [pc EXCEPT ![p] = << Put(i), F("end_op") >> \o frames]
                        \/ pc' = [pc EXCEPT ![p] = <<>> \o frames]
    <2>1. CASE last
      <3>1. pc' = [pc EXCEPT ![p] = << Put(file[f].ip), F("end_op") >> \o frames]
        BY <1>2, <2>1
      <3> QED BY <1>1, <3>1
    <2>2. CASE ~ last
      <3>1. pc' = [pc EXCEPT ![p] = <<>> \o frames]
        BY <1>2, <2>2
      <3> QED BY <3>1, Numbers
    <2> QED BY <2>1, <2>2
  <1>5. /\ file' \in [File -> [ref : Nat, ip : Maybe]] /\ file'[f].ref = file[f].ref - 1
        /\ file'[f].ref # 0 => file'[f].ip \in Inum
        /\ \A g \in File \ {f} : file'[g] = file[g]
    <2> DEFINE g == file[f]  n == g.ref - 1
    <2>1. g \in [ref : Nat, ip : Maybe] /\ g.ip \in Inum /\ n \in Nat
      BY <1>1 DEF FilesOK
    <2>2. CASE last
      <3>1. file' = [file EXCEPT ![f] = [ref |-> 0, ip |-> None]]
        BY <1>2, <2>2
      <3>2. file[f].ref - 1 = 0
        BY <2>2
      <3> QED BY <1>1, <3>1, <3>2, Numbers DEF FilesOK
    <2>3. CASE ~ last
      <3>1. file' = [file EXCEPT ![f].ref = @ - 1]
        BY <1>2, <2>3
      <3> QED BY <1>1, <2>1, <3>1 DEF FilesOK
    <2> QED BY <2>2, <2>3
  <1> HIDE DEF f
  <1>6. /\ ofile' \in [Proc -> [Fd -> File \cup {None}]] /\ ofile'[p][d] = None
        /\ Differs(ofile, ofile', p, d)
        /\ \A q \in Proc \ {p} : ofile'[q] = ofile[q]
    BY <1>1, <1>2 DEF FilesOK, Differs
  <1>7. \A g \in File : Cardinality(Owners(ofile, g)) = Cardinality(Owners(ofile', g)) + (IF g = f THEN 1 ELSE 0)
    <2>1. f \in File /\ ofile[p][d] = f /\ ofile'[p][d] = None /\ Differs(ofile', ofile, p, d)
      BY <1>1, <1>3, <1>6 DEF Differs
    <2> QED BY ONLY <2>1, OneMoreOwner, p \in Proc, d \in Fd
  <1>8. \A g \in File : file'[g].ref = Cardinality(Owners(ofile', g)) /\ (file'[g].ref # 0 => file'[g].ip \in Inum)
    BY <1>1, <1>5, <1>7, OwnersAreFinite DEF FilesOK
  <1> QED BY <1>4, <1>5, <1>6, <1>8 DEF FilesOK

LEMMA DupFiles ==
    ASSUME NEW p \in Proc, Types, Files, Dup(p)
    PROVE  FilesOK(ofile', file') /\ cwd[p] \in Inum /\ \A q \in Proc \ {p} : ofile'[q] = ofile[q]
  <1>1. PICK d \in Fd, e \in Fd :
           /\ ofile[p][d] # None /\ ofile[p][e] = None
           /\ ofile' = [ofile EXCEPT ![p][e] = ofile[p][d]]
           /\ file' = [file EXCEPT ![ofile[p][d]].ref = @ + 1]
    BY DEF Dup
  <1> DEFINE f == ofile[p][d]
  <1>2. FilesOK(ofile, file) /\ f \in File /\ file[f].ref \in Nat \ {0} /\ file[f].ip \in Inum
    BY <1>1, OwnedIsOpen DEF Files
  <1>3. ofile[p][e] = None /\ ofile' = [ofile EXCEPT ![p][e] = f] /\ file' = [file EXCEPT ![f].ref = @ + 1]
    BY <1>1
  <1> HIDE DEF f
  <1>4. /\ ofile' \in [Proc -> [Fd -> File \cup {None}]] /\ ofile'[p][e] = f
        /\ Differs(ofile, ofile', p, e)
        /\ \A q \in Proc \ {p} : ofile'[q] = ofile[q]
    BY <1>2, <1>3 DEF FilesOK, Differs
  <1>5. \A g \in File : Cardinality(Owners(ofile', g)) = Cardinality(Owners(ofile, g)) + (IF g = f THEN 1 ELSE 0)
    <2>1. f \in File /\ ofile[p][e] = None /\ ofile'[p][e] = f /\ Differs(ofile, ofile', p, e)
      BY <1>2, <1>3, <1>4
    <2> QED BY ONLY <2>1, OneMoreOwner, p \in Proc, e \in Fd
  <1>6. /\ file' \in [File -> [ref : Nat, ip : Maybe]] /\ file'[f].ref = file[f].ref + 1
        /\ file'[f].ip = file[f].ip /\ \A g \in File \ {f} : file'[g] = file[g]
    BY <1>2, <1>3 DEF FilesOK
  <1>7. \A g \in File : file'[g].ref = Cardinality(Owners(ofile', g)) /\ (file'[g].ref # 0 => file'[g].ip \in Inum)
    BY <1>2, <1>5, <1>6, OwnersAreFinite DEF FilesOK
  <1>8. cwd[p] \in Inum
    BY DEF Dup, Idle, Types, CallTypes, Maybe
  <1> QED BY <1>4, <1>6, <1>7, <1>8 DEF FilesOK

LEMMA ForkFiles ==
    ASSUME NEW p \in Proc, NEW q \in Proc, Types, Files, Fork(p, q)
    PROVE  FilesOK(ofile', file') /\ p # q /\ cwd[p] \in Inum /\ \A t \in Proc \ {q} : ofile'[t] = ofile[t]
  <1>1. /\ cwd[p] # None /\ cwd[q] = None
        /\ ofile' = [ofile EXCEPT ![q] = ofile[p]]
        /\ file' = [f \in File |-> [file[f] EXCEPT !.ref = @ + Cardinality(Copies(ofile, p, f))]]
    BY DEF Fork, Idle, Copies
  <1>2. FilesOK(ofile, file) /\ \A d \in Fd : ofile[q][d] = None
    BY <1>1 DEF Files
  <1>3. p # q /\ cwd[p] \in Inum
    BY <1>1 DEF Types, CallTypes, Maybe
  <1>4. /\ ofile' \in [Proc -> [Fd -> File \cup {None}]]
        /\ \A d \in Fd : ofile[q][d] = None /\ ofile'[q][d] = ofile[p][d]
        /\ \A t \in Proc : t # q => \A d \in Fd : ofile'[t][d] = ofile[t][d]
        /\ \A t \in Proc \ {q} : ofile'[t] = ofile[t]
    BY <1>1, <1>2 DEF FilesOK
  <1>5. \A g \in File : Cardinality(Owners(ofile', g)) = Cardinality(Owners(ofile, g)) + Cardinality(Copies(ofile, p, g))
    BY <1>3, <1>4, OwnersForked
  <1>6. ASSUME NEW g \in File
        PROVE  /\ file'[g] \in [ref : Nat, ip : Maybe]
               /\ file'[g].ref = Cardinality(Owners(ofile', g)) /\ (file'[g].ref # 0 => file'[g].ip \in Inum)
    <2> DEFINE n == Cardinality(Copies(ofile, p, g))
    <2>1. n \in Nat
      BY OwnersAreFinite
    <2>2. n # 0 => file[g].ref # 0
      <3>1. SUFFICES ASSUME n # 0 PROVE file[g].ref # 0
        OBVIOUS
      <3>2. Copies(ofile, p, g) # {}
        BY <3>1, FS_EmptySet
      <3>3. PICK d \in Fd : ofile[p][d] = g
        BY <3>2 DEF Copies
      <3>4. ofile[p][d] # None
        BY <3>3, OwnersAreFinite
      <3> QED BY <1>2, <3>3, <3>4, OwnedIsOpen
    <2>3. file'[g] = [file[g] EXCEPT !.ref = @ + n]
      BY <1>1
    <2> HIDE DEF n
    <2>4. file[g] \in [ref : Nat, ip : Maybe] /\ (file[g].ref # 0 => file[g].ip \in Inum)
      BY <1>2 DEF FilesOK
    <2>5. /\ file'[g] \in [ref : Nat, ip : Maybe] /\ file'[g].ref = file[g].ref + n /\ file'[g].ip = file[g].ip
      BY <2>1, <2>3, <2>4
    <2>6. file'[g].ref = Cardinality(Owners(ofile', g))
      BY <1>2, <1>5, <2>5 DEF FilesOK, n
    <2> QED BY <2>1, <2>2, <2>4, <2>5, <2>6
  <1>7. DOMAIN file' = File
    BY <1>1
  <1>8. file' \in [File -> [ref : Nat, ip : Maybe]]
    <2>1. file' = [g \in File |-> file'[g]]
      BY <1>1
    <2> QED BY <1>6, <2>1
  <1> QED BY <1>3, <1>4, <1>6, <1>8 DEF FilesOK

-----------------------------------------------------------------------------
(* close(), dup(), fork() and exit() *)

LEMMA EndedThenExit ==
    ASSUME NEW p, NEW ps \in Seq(Putting), pc'[p] = ps \o (Ends \o << F("exit") >>), cwd'[p] \in Inum
    PROVE  Stacked(p)'
  <1> DEFINE x == << F("exit") >>  e == Ends \o x
  <1>1. ps \in Dropping /\ e \in Endings
    BY PutsDrop, EndsAre
  <1>2. Freeing(p, ps, {})'
    BY PutsOnTop DEF Freeing
  <1>3. e # <<>> /\ e # x
    <2>1. Tail(e) = x /\ Tail(x) = <<>> /\ x # <<>> /\ Head(e) = F("end_op") /\ Head(x) = F("exit")
      BY EndingsAre, EndsAre
    <2>2. e # x
      BY <2>1, FrameIs
    <2>3. e # <<>>
      BY EndsAre DEF Frames, Ends
    <2> QED BY <2>2, <2>3
  <1>4. Ending(p, ps, e)'
    <2> HIDE DEF e
    <2> QED BY <1>1, <1>2, <1>3 DEF Ending, e
  <1> QED BY <1>1, <1>4 DEF Stacked

\* fileclose() of the last descriptor of a file, before frames.
LEMMA PutThen ==
    ASSUME NEW i \in Inum
    PROVE  /\ << Put(i), F("end_op") >> \o <<>> = << Put(i) >> \o Ends
           /\ << Put(i), F("end_op") >> \o << F("exit") >> = << Put(i) >> \o (Ends \o << F("exit") >>)
  <1> DEFINE a == Put(i)  b == F("end_op")  c == F("exit")  S == Frame \X Maybe  s == <<a, b>>
  <1>1. a \in S /\ b \in S /\ c \in S
    BY PutIs, Labelled DEF Frame
  <1> HIDE DEF a, b, c, S
  <1>2. s \o <<>> = s /\ s = <<a>> \o <<b>>
    <2>1. s \in Seq(S)
      BY <1>1
    <2> HIDE DEF s
    <2>2. s \o <<>> = s
      BY <2>1
    <2>3. s = <<a>> \o <<b>>
      BY Pair DEF s
    <2> QED BY <2>2, <2>3
  <1>3. <<a, b>> \o <<c>> = <<a>> \o (<<b>> \o <<c>>)
    <2> DEFINE w == <<c>>
    <2>1. w \in Seq(S)
      BY <1>1
    <2> HIDE DEF w
    <2>2. <<a, b>> \o w = <<a>> \o (<<b>> \o w)
      BY <1>1, <2>1, Glue
    <2> QED BY <2>2 DEF w
  <1> QED BY <1>2, <1>3 DEF a, b, c, Ends

LEMMA CloseStep ==
    ASSUME NEW p \in Proc, Types, Stacked(p), Files, Close(p)
    PROVE  Good(p) /\ FilesOK(ofile', file') /\ cwd[p] \in Inum /\ \A q \in Proc \ {p} : ofile'[q] = ofile[q]
  <1>1. /\ Idle(p)
        /\ UNCHANGED <<disk, dir, text, cache, lock, cwd, at, path, name, ip, dp, climbed, result, call, program>>
    BY DEF Close, fsvars, walkvars
  <1>2. PICK d \in Fd : ofile[p][d] # None /\ CloseFd(p, d, <<>>)
    BY DEF Close
  <1>3. pc[p] = <<>> /\ cwd[p] \in Inum /\ result[p] = <<>> /\ climbed[p] = 0
    BY <1>1, NoCallIs
  <1>4. /\ FilesOK(ofile', file')
        /\ \A q \in Proc \ {p} : ofile'[q] = ofile[q]
        /\ \E i \in Inum : \/ pc' = [pc EXCEPT ![p] = << Put(i), F("end_op") >> \o <<>>]
                           \/ pc' = [pc EXCEPT ![p] = <<>> \o <<>>]
    BY <1>2, CloseFiles
  <1>5. PICK i \in Inum : \/ pc' = [pc EXCEPT ![p] = << Put(i), F("end_op") >> \o <<>>]
                          \/ pc' = [pc EXCEPT ![p] = <<>> \o <<>>]
    BY <1>4
  <1>6. /\ pc'[p] \in { << Put(i) >> \o Ends, <<>> } /\ DOMAIN pc' = Proc
        /\ \A q \in Proc \ {p} : pc'[q] = pc[q]
    <2>1. <<>> \o <<>> = <<>>
      OBVIOUS
    <2> QED BY <1>5, <2>1, PutThen DEF Types, WalkTypes
  <1>7. Sets(at', at, p) /\ Sets(ip', ip, p) /\ Sets(dp', dp, p)
        /\ path' \in [Proc -> Seq(Name)] /\ name' \in [Proc -> Name]
    BY <1>1, SetsNone DEF Types, WalkTypes, CallTypes
  <1>8. Alone(p) /\ WalkTypes' /\ CallTypes'
    BY <1>1, <1>6, <1>7, MovesFar
  <1>9. FsTypes'
    BY <1>1 DEF Types, FsTypes
  <1>10. Stacked(p)'
    BY <1>1, <1>3, <1>6, PutIs, Ended, Quits
  <1> QED BY <1>3, <1>4, <1>8, <1>9, <1>10 DEF Good, Types

LEMMA ExitClosesStep ==
    ASSUME NEW p \in Proc, Types, Stacked(p), Files, ExitCloses(p)
    PROVE  Good(p) /\ FilesOK(ofile', file') /\ cwd[p] \in Inum /\ \A q \in Proc \ {p} : ofile'[q] = ofile[q]
  <1> DEFINE x == << F("exit") >>
  <1>1. /\ At(p, "exit")
        /\ UNCHANGED <<disk, dir, text, cache, lock, cwd, at, path, name, ip, dp, climbed, result, call, program>>
    BY DEF ExitCloses, fsvars, walkvars
  <1>2. PICK d \in Fd : ofile[p][d] # None /\ CloseFd(p, d, pc[p])
    BY DEF ExitCloses
  <1>3. pc[p] = x /\ cwd[p] \in Inum
    BY <1>1, Exiting
  <1>4. /\ FilesOK(ofile', file')
        /\ \A q \in Proc \ {p} : ofile'[q] = ofile[q]
        /\ \E i \in Inum : \/ pc' = [pc EXCEPT ![p] = << Put(i), F("end_op") >> \o pc[p]]
                           \/ pc' = [pc EXCEPT ![p] = <<>> \o pc[p]]
    BY <1>2, CloseFiles
  <1>5. PICK i \in Inum : \/ pc' = [pc EXCEPT ![p] = << Put(i), F("end_op") >> \o pc[p]]
                          \/ pc' = [pc EXCEPT ![p] = <<>> \o pc[p]]
    BY <1>4
  <1>6. /\ pc'[p] \in { << Put(i) >> \o (Ends \o x), x } /\ DOMAIN pc' = Proc
        /\ \A q \in Proc \ {p} : pc'[q] = pc[q]
    <2>1. <<>> \o x = x
      BY EndsAre DEF Frames
    <2> HIDE DEF x
    <2>2. << Put(i), F("end_op") >> \o x = << Put(i) >> \o (Ends \o x)
      BY PutThen DEF x
    <2> QED BY <1>3, <1>5, <2>1, <2>2 DEF Types, WalkTypes
  <1>7. Sets(at', at, p) /\ Sets(ip', ip, p) /\ Sets(dp', dp, p)
        /\ path' \in [Proc -> Seq(Name)] /\ name' \in [Proc -> Name]
    BY <1>1, SetsNone DEF Types, WalkTypes, CallTypes
  <1>8. Alone(p) /\ WalkTypes' /\ CallTypes'
    BY <1>1, <1>6, <1>7, MovesFar
  <1>9. FsTypes'
    BY <1>1 DEF Types, FsTypes
  <1>10. Stacked(p)'
    <2>1. x # <<>>
      OBVIOUS
    <2> QED BY <1>1, <1>3, <1>6, <2>1, PutIs, EndedThenExit, Quits
  <1> QED BY <1>3, <1>4, <1>8, <1>9, <1>10 DEF Good, Types

LEMMA DupStep ==
    ASSUME NEW p \in Proc, Types, Stacked(p), Dup(p)
    PROVE  Good(p)
  <1>1. UNCHANGED <<disk, dir, text, cache, lock, cwd, pc, at, path, name, ip, dp, climbed, result, call, program>>
    BY DEF Dup, fsvars, walkvars
  <1>2. Types'
    BY <1>1 DEF Types, FsTypes, WalkTypes, CallTypes
  <1>3. Alone(p)
    BY <1>1 DEF Alone
  <1>4. Stacked(p)'
    BY <1>1, StackSame DEF SameCall
  <1> QED BY <1>2, <1>3, <1>4 DEF Good

\* The child that is forked has had no call, and no current directory.
LEMMA ForkStep ==
    ASSUME NEW p \in Proc, NEW q \in Proc, Types, Files, Fork(p, q), \A t \in Proc : Stacked(t)
    PROVE  Types' /\ \A t \in Proc : Stacked(t)'
  <1>1. /\ cwd[q] = None /\ cwd' = [cwd EXCEPT ![q] = cwd[p]]
        /\ UNCHANGED <<disk, dir, text, cache, lock, pc, at, path, name, ip, dp, climbed, result, call, program>>
    BY DEF Fork, walkvars
  <1>2. p # q /\ cwd[p] \in Inum
    BY ForkFiles
  <1>3. cwd' \in [Proc -> Maybe] /\ cwd'[q] \in Inum /\ \A t \in Proc \ {q} : cwd'[t] = cwd[t]
    BY <1>1, <1>2 DEF Types, CallTypes
  <1>4. Types'
    BY <1>1, <1>3 DEF Types, FsTypes, WalkTypes, CallTypes
  <1>5. ASSUME NEW t \in Proc \ {q} PROVE Stacked(t)'
    BY <1>1, <1>3, StackSame DEF SameCall
  <1>6. Stacked(q)'
    <2>1. ASSUME NEW d \in Dropping, NEW walks \in {"yes", "no"}, NEW l \in Workers, NEW r \in Rests(l),
                 Busy(q, d, walks, l, r)
          PROVE  FALSE
      BY <1>1, <2>1, Numbers DEF Busy, Knows
    <2>2. PICK d \in Dropping, e \in Endings : Ending(q, d, e)
      BY <2>1 DEF Stacked
    <2>3. Freeing(q, d, {})'
      BY <1>1, <2>2 DEF Ending, Freeing
    <2>4. Ending(q, d, e)'
      BY <1>1, <1>3, <2>2, <2>3 DEF Ending
    <2> QED BY <2>4 DEF Stacked
  <1> QED BY <1>4, <1>5, <1>6

-----------------------------------------------------------------------------
(* Every step *)

LEMMA InodeStepIs ==
    ASSUME NEW p \in Proc, Types, Stacked(p), InodeStep(p)
    PROVE  Good(p)
  BY IputStep, IputOrphanStep, ItruncStep, ReleaseStep, UnrefStep, WalkEndsStep, WalkStepStep
     DEF InodeStep, FsStep

\* A step of a call that neither closes nor forks.
CallGoesOn(p) ==
    \/ \E c \in program.calls[p] : "path" \in DOMAIN c /\ PathCall(p, c)
    \/ EndOp(p) \/ LookupFails(p)
    \/ OpenLink(p) \/ Followed(p) \/ OpenFails(p) \/ OpenFound(p) \/ Opened(p)
    \/ CreateFinds(p) \/ Found(p) \/ CreateAllocates(p) \/ CreateLinks(p) \/ Created(p)
    \/ UnlinkFails(p) \/ UnlinkFinds(p) \/ UnlinkBusy(p) \/ PutDir(p)
    \/ UnlinkRemoves(p) \/ UnlinkEnds(p)
    \/ Link(p) \/ LinkNew(p) \/ LinkEnters(p) \/ LinkExists(p) \/ LinkToNowhere(p) \/ LinkBad(p)
    \/ Chdir(p) \/ Chdired(p)
    \/ ExecLink(p) \/ ExecLinked(p) \/ ExecFound(p) \/ ExecLoad(p)
    \/ ClimbRoot(p) \/ ClimbUp(p) \/ ClimbName(p)
    \/ Symlink(p) \/ SymlinkWrites(p)
    \/ Dup(p) \/ Exit(p) \/ ExitLeaves(p)

LEMMA CallStepIs ==
    ASSUME NEW p \in Proc, CallStep(p)
    PROVE  CallGoesOn(p) \/ Close(p) \/ ExitCloses(p) \/ \E q \in Proc : Fork(p, q)
  BY DEF CallStep, CallGoesOn

LEMMA CallGoesOnIs ==
    ASSUME NEW p \in Proc, Types, Stacked(p), CallGoesOn(p)
    PROVE  Good(p)
  <1>1. CASE \E c \in program.calls[p] : "path" \in DOMAIN c /\ PathCall(p, c)
    BY <1>1, PathCallStep
  <1>2. CASE EndOp(p) \/ LookupFails(p) \/ OpenLink(p) \/ Followed(p) \/ OpenFails(p) \/ OpenFound(p) \/ Opened(p)
    BY <1>2, EndOpStep, LookupFailsStep, OpenLinkStep, FollowedStep, OpenFailsStep, OpenFoundStep, OpenedStep
  <1>3. CASE CreateFinds(p) \/ Found(p) \/ CreateAllocates(p) \/ CreateLinks(p) \/ Created(p)
    BY <1>3, CreateFindsStep, FoundStep, CreateAllocatesStep, CreateLinksStep, CreatedStep
  <1>4. CASE UnlinkFails(p) \/ UnlinkFinds(p) \/ UnlinkBusy(p) \/ PutDir(p) \/ UnlinkRemoves(p) \/ UnlinkEnds(p)
    BY <1>4, UnlinkFailsStep, UnlinkFindsStep, UnlinkBusyStep, PutDirStep, UnlinkRemovesStep, UnlinkEndsStep
  <1>5. CASE \/ Link(p) \/ LinkNew(p) \/ LinkEnters(p) \/ LinkExists(p) \/ LinkToNowhere(p) \/ LinkBad(p)
    BY <1>5, LinkStep, LinkNewStep, LinkEntersStep, LinkExistsStep, LinkToNowhereStep, LinkBadStep
  <1>6. CASE Chdir(p) \/ Chdired(p) \/ ExecLink(p) \/ ExecLinked(p) \/ ExecFound(p) \/ ExecLoad(p)
    BY <1>6, ChdirStep, ChdiredStep, ExecLinkStep, ExecLinkedStep, ExecFoundStep, ExecLoadStep
  <1>7. CASE ClimbRoot(p) \/ ClimbUp(p) \/ ClimbName(p) \/ Symlink(p) \/ SymlinkWrites(p)
    BY <1>7, ClimbRootStep, ClimbUpStep, ClimbNameStep, SymlinkStep, SymlinkWritesStep
  <1>8. CASE Dup(p) \/ Exit(p) \/ ExitLeaves(p)
    BY <1>8, DupStep, ExitStep, ExitLeavesStep
  <1> QED BY <1>1, <1>2, <1>3, <1>4, <1>5, <1>6, <1>7, <1>8 DEF CallGoesOn

\* What else may change a descriptor or a current directory.
LEMMA FilesStay ==
    ASSUME NEW p \in Proc, InodeStep(p) \/ CallGoesOn(p)
    PROVE  \/ UNCHANGED <<file, ofile, cwd>>
           \/ Opened(p) /\ cwd' = cwd
           \/ Chdired(p) /\ UNCHANGED <<file, ofile>> /\ cwd' = [cwd EXCEPT ![p] = at[p]]
           \/ Dup(p) /\ cwd' = cwd
           \/ ExitLeaves(p) /\ UNCHANGED <<file, ofile>> /\ cwd' = [cwd EXCEPT ![p] = None]
  <1>1. CASE InodeStep(p)
    BY <1>1 DEF InodeStep, FsStep, Iput, IputOrphan, Itrunc, IputRelease, Unref, WalkEnds, WalkStep, fsvars, callvars
  <1>2. CASE \E c \in program.calls[p] : "path" \in DOMAIN c /\ PathCall(p, c)
    BY <1>2 DEF PathCall
  <1>3. CASE EndOp(p) \/ LookupFails(p) \/ OpenLink(p) \/ Followed(p) \/ OpenFails(p) \/ OpenFound(p) \/ Opened(p)
    BY <1>3 DEF EndOp, LookupFails, OpenLink, Followed, OpenFails, OpenFound, Opened, fsvars, callvars
  <1>4. CASE CreateFinds(p) \/ Found(p) \/ CreateAllocates(p) \/ CreateLinks(p) \/ Created(p)
    BY <1>4 DEF CreateFinds, Found, CreateAllocates, CreateLinks, Created, callvars
  <1>5. CASE UnlinkFails(p) \/ UnlinkFinds(p) \/ UnlinkBusy(p) \/ PutDir(p) \/ UnlinkRemoves(p) \/ UnlinkEnds(p)
    BY <1>5 DEF UnlinkFails, UnlinkFinds, UnlinkBusy, PutDir, UnlinkRemoves, UnlinkEnds, callvars
  <1>6. CASE \/ Link(p) \/ LinkNew(p) \/ LinkEnters(p) \/ LinkExists(p) \/ LinkToNowhere(p) \/ LinkBad(p)
    BY <1>6 DEF Link, LinkNew, LinkEnters, LinkExists, LinkToNowhere, LinkBad, fsvars, callvars
  <1>7. CASE Chdir(p) \/ Chdired(p) \/ ExecLink(p) \/ ExecLinked(p) \/ ExecFound(p) \/ ExecLoad(p)
    BY <1>7 DEF Chdir, Chdired, ExecLink, ExecLinked, ExecFound, ExecLoad, callvars
  <1>8. CASE ClimbRoot(p) \/ ClimbUp(p) \/ ClimbName(p) \/ Symlink(p) \/ SymlinkWrites(p)
    BY <1>8 DEF ClimbRoot, ClimbUp, ClimbName, Symlink, SymlinkWrites, callvars
  <1>9. CASE Dup(p) \/ Exit(p) \/ ExitLeaves(p)
    BY <1>9 DEF Dup, Exit, ExitLeaves, fsvars, callvars
  <1> QED BY <1>1, <1>2, <1>3, <1>4, <1>5, <1>6, <1>7, <1>8, <1>9 DEF CallGoesOn

LEMMA FilesSame ==
    ASSUME Files, NEW p \in Proc, FilesOK(ofile', file'),
           \A q \in Proc \ {p} : ofile'[q] = ofile[q] /\ cwd'[q] = cwd[q],
           cwd'[p] = None => \A d \in Fd : ofile'[p][d] = None
    PROVE  Files'
  BY DEF Files

LEMMA FilesGoOn ==
    ASSUME NEW p \in Proc, Types, Stacked(p), Files, InodeStep(p) \/ CallGoesOn(p)
    PROVE  Files'
  <1>1. CASE UNCHANGED <<file, ofile, cwd>>
    BY <1>1 DEF Files
  <1>2. CASE (Opened(p) \/ Dup(p)) /\ cwd' = cwd
    BY <1>2, OpenedFiles, DupFiles, FilesSame, Numbers
  <1>3. CASE Chdired(p) /\ UNCHANGED <<file, ofile>> /\ cwd' = [cwd EXCEPT ![p] = at[p]]
    <2>1. at[p] \in Inum
      <3>1. At(p, "chdired") /\ "chdired" \in Workers
        BY <1>3 DEF Chdired, Workers
      <3> QED BY <3>1, InCall DEF Knows
    <2>2. cwd'[p] # None /\ \A q \in Proc \ {p} : cwd'[q] = cwd[q]
      BY <1>3, <2>1, Numbers DEF Types, CallTypes
    <2>3. FilesOK(ofile', file') /\ \A q \in Proc \ {p} : ofile'[q] = ofile[q]
      BY <1>3 DEF Files
    <2> QED BY <2>2, <2>3, FilesSame
  <1>4. CASE ExitLeaves(p) /\ UNCHANGED <<file, ofile>> /\ cwd' = [cwd EXCEPT ![p] = None]
    <2>1. \A d \in Fd : ofile'[p][d] = None
      BY <1>4 DEF ExitLeaves
    <2>2. \A q \in Proc \ {p} : cwd'[q] = cwd[q] /\ ofile'[q] = ofile[q]
      BY <1>4 DEF Types, CallTypes
    <2>3. FilesOK(ofile', file')
      BY <1>4 DEF Files
    <2> QED BY <2>1, <2>2, <2>3, FilesSame
  <1> QED BY <1>1, <1>2, <1>3, <1>4, FilesStay

AllStacked == \A q \in Proc : Stacked(q)

LEMMA CallsGoOn ==
    ASSUME NEW p \in Proc, Types, AllStacked, Files, InodeStep(p) \/ CallStep(p)
    PROVE  Types' /\ AllStacked' /\ Files'
  <1>1. Stacked(p)
    BY DEF AllStacked
  <1>2. ASSUME Good(p) PROVE Types' /\ AllStacked'
    BY <1>2, Keeps DEF Good, AllStacked
  <1>3. CASE InodeStep(p) \/ CallGoesOn(p)
    BY <1>1, <1>2, <1>3, InodeStepIs, CallGoesOnIs, FilesGoOn
  <1>4. CASE Close(p) \/ ExitCloses(p)
    <2>1. Good(p) /\ FilesOK(ofile', file') /\ cwd[p] \in Inum /\ \A q \in Proc \ {p} : ofile'[q] = ofile[q]
      BY <1>1, <1>4, CloseStep, ExitClosesStep
    <2>2. cwd' = cwd
      BY <1>4 DEF Close, ExitCloses, fsvars
    <2>3. Files'
      BY <2>1, <2>2, FilesSame, Numbers
    <2> QED BY <1>2, <2>1, <2>3
  <1>5. ASSUME NEW q \in Proc, Fork(p, q) PROVE Types' /\ AllStacked' /\ Files'
    <2>1. Types' /\ AllStacked'
      BY <1>5, ForkStep DEF AllStacked
    <2>2. FilesOK(ofile', file') /\ p # q /\ cwd[p] \in Inum /\ \A t \in Proc \ {q} : ofile'[t] = ofile[t]
      BY <1>5, ForkFiles
    <2>3. cwd' = [cwd EXCEPT ![q] = cwd[p]]
      BY <1>5 DEF Fork
    <2>4. cwd'[q] # None /\ \A t \in Proc \ {q} : cwd'[t] = cwd[t]
      BY <2>2, <2>3, Numbers DEF Types, CallTypes
    <2> QED BY <2>1, <2>2, <2>4, FilesSame
  <1> QED BY <1>3, <1>4, <1>5, CallStepIs

-----------------------------------------------------------------------------
(* The inode cache *)

\* Some iput() is about to invalidate the entry of the inode it has freed.
Releasing(i) == \E q \in Proc : At(q, "release") /\ Inode(q) = i

\* An entry says what is on disk and never that the inode is free; an inode that
\* is locked is allocated.
Sound(onDisk, entry, holder) ==
    /\ entry \in {NotValid, onDisk} /\ entry.type # "free"
    /\ holder # NoProc => onDisk.type # "free"

SoundAt(i)  == Sound(disk[i], cache[i], lock[i])
CoherentAt(i) == Releasing(i) \/ SoundAt(i)
IcacheOK == \A i \in Inum : CoherentAt(i)

\* What the steps do that write no inode.
CacheQuiet == \A k \in Inum : cache'[k] \in {NotValid, cache[k]} \/ (CanLock(k) /\ cache'[k] = Loaded(k))
LockQuiet  == \A k \in Inum : lock'[k] \in {lock[k], NoProc} \/ CanLock(k)
Steady(k) ==
    /\ disk'[k] = disk[k]
    /\ cache'[k] \in {NotValid, cache[k]} \/ (CanLock(k) /\ cache'[k] = Loaded(k))
    /\ lock'[k] \in {lock[k], NoProc} \/ CanLock(k)
Quiet(p) ==
    /\ disk' = disk /\ CacheQuiet /\ LockQuiet
    /\ ~ At(p, "release") /\ \A q \in Proc \ {p} : pc'[q] = pc[q]

LEMMA NotValidIs == NotValid.type # "free"
  BY DEF NotValid

LEMMA AtOne ==
    ASSUME NEW p, NEW l, At(p, l), l # "release"
    PROVE  ~ At(p, "release")
  BY DEF At

LEMMA ReleasingIs ==
    ASSUME NEW q \in Proc, Stacked(q), At(q, "release")
    PROVE  Inode(q) \in Inum /\ lock[Inode(q)] = q
  BY InodeIs DEF Drops

\* What is seen of an inode that nobody has locked, or oneself.
LEMMA Sees ==
    ASSUME AllStacked, IcacheOK, NEW i \in Inum,
           Free(i) \/ \E p \in Proc : lock[i] = p /\ ~ At(p, "release")
    PROVE  SoundAt(i) /\ Loaded(i) = disk[i]
  <1>1. ~ Releasing(i)
    <2> SUFFICES ASSUME NEW q \in Proc, At(q, "release"), Inode(q) = i PROVE FALSE
      BY DEF Releasing
    <2>1. lock[i] = q /\ q # NoProc
      BY ReleasingIs, Somebody DEF AllStacked
    <2> QED BY <2>1 DEF Free
  <1>2. SoundAt(i)
    BY <1>1 DEF IcacheOK, CoherentAt
  <1> QED BY <1>2 DEF SoundAt, Sound, Loaded

\* An entry in which nothing has happened but locking, reading and recycling.
LEMMA SteadyIs ==
    ASSUME NEW p \in Proc, AllStacked, IcacheOK, \A q \in Proc \ {p} : pc'[q] = pc[q],
           NEW k \in Inum, Steady(k), At(p, "release") => Inode(p) # k
    PROVE  CoherentAt(k)'
  <1>1. CASE Releasing(k)
    <2>1. PICK q \in Proc : At(q, "release") /\ Inode(q) = k
      BY <1>1 DEF Releasing
    <2>2. q # p /\ pc'[q] = pc[q]
      BY <2>1
    <2>3. At(q, "release")' /\ Inode(q)' = k
      BY <2>1, <2>2 DEF At, Inode
    <2> QED BY <2>3 DEF CoherentAt, Releasing
  <1>2. CASE SoundAt(k)
    <2>1. CASE CanLock(k)
      <3>1. Loaded(k) = disk[k] /\ disk[k].type # "free"
        BY <2>1, Sees DEF CanLock
      <3>2. cache'[k] \in {NotValid, disk'[k]} /\ disk'[k] = disk[k]
        BY <1>2, <3>1 DEF Steady, SoundAt, Sound
      <3> QED BY <3>1, <3>2, NotValidIs DEF CoherentAt, SoundAt, Sound
    <2>2. CASE ~ CanLock(k)
      <3>1. disk'[k] = disk[k] /\ cache'[k] \in {NotValid, cache[k]} /\ lock'[k] \in {lock[k], NoProc}
        BY <2>2 DEF Steady
      <3> QED BY <1>2, <3>1, NotValidIs DEF CoherentAt, SoundAt, Sound
    <2> QED BY <2>1, <2>2
  <1> QED BY <1>1, <1>2 DEF IcacheOK, CoherentAt

LEMMA QuietIs ==
    ASSUME NEW p \in Proc, AllStacked, IcacheOK, Quiet(p)
    PROVE  IcacheOK'
  <1>1. ASSUME NEW k \in Inum PROVE CoherentAt(k)'
    <2>1. Steady(k)
      BY DEF Quiet, CacheQuiet, LockQuiet, Steady
    <2> QED BY <2>1, SteadyIs DEF Quiet
  <1> QED BY <1>1 DEF IcacheOK

\* An inode that iupdate() has written.
LEMMA WrittenIs ==
    ASSUME NEW k \in Inum, disk'[k] = cache'[k], disk'[k].type # "free"
    PROVE  CoherentAt(k)'
  BY DEF CoherentAt, SoundAt, Sound

LEMMA QuietRead ==
    ASSUME FsTypes, NEW i, CanLock(i), Load(i)
    PROVE  CacheQuiet
  BY DEF FsTypes, Load, CacheQuiet

LEMMA QuietReadAndGet ==
    ASSUME FsTypes, NEW i, NEW j, CanLock(i), LoadAndGet(i, j)
    PROVE  CacheQuiet
  <1> DEFINE c == [cache EXCEPT ![i] = Loaded(i)]
  <1>1. DOMAIN c = Inum /\ \A k \in Inum : c[k] = IF k = i THEN Loaded(i) ELSE cache[k]
    BY DEF FsTypes
  <1>2. cache' = [c EXCEPT ![j] = IF ref[j] = 0 THEN NotValid ELSE @]
    BY DEF LoadAndGet
  <1> HIDE DEF c
  <1>3. \A k \in Inum : cache'[k] \in {NotValid, c[k]}
    BY <1>1, <1>2
  <1> QED BY <1>1, <1>3 DEF CacheQuiet

LEMMA QuietGet ==
    ASSUME FsTypes, NEW i, Iget(i)
    PROVE  CacheQuiet
  BY DEF FsTypes, Iget, CacheQuiet

LEMMA QuietSame == cache' = cache => CacheQuiet
  BY DEF CacheQuiet

LEMMA QuietLocks ==
    ASSUME FsTypes, NEW p, NEW i
    PROVE  /\ lock' = lock => LockQuiet
           /\ Unlocked(i) => LockQuiet
           /\ CanLock(i) /\ Locked(p, i) => LockQuiet
  BY DEF FsTypes, LockQuiet, Unlocked, Locked

\* The steps, of calls and of the functions beneath, that write no inode.
QuietStep(p) ==
    \/ \E c \in program.calls[p] : PathCall(p, c)
    \/ EndOp(p) \/ LookupFails(p)
    \/ OpenLink(p) \/ Followed(p) \/ OpenFails(p) \/ OpenFound(p) \/ Opened(p)
    \/ CreateFinds(p) \/ Found(p) \/ Created(p)
    \/ UnlinkFails(p) \/ UnlinkFinds(p) \/ UnlinkBusy(p) \/ PutDir(p)
    \/ LinkNew(p) \/ LinkEnters(p) \/ LinkExists(p) \/ LinkToNowhere(p)
    \/ Chdir(p) \/ Chdired(p)
    \/ ExecLink(p) \/ ExecLinked(p) \/ ExecFound(p) \/ ExecLoad(p)
    \/ ClimbRoot(p) \/ ClimbUp(p) \/ ClimbName(p)
    \/ Symlink(p) \/ SymlinkWrites(p)
    \/ Dup(p) \/ Exit(p) \/ ExitLeaves(p) \/ Close(p) \/ ExitCloses(p)
    \/ Iput(p) \/ Unref(p) \/ WalkEnds(p) \/ WalkStep(p)

\* What each of them does to the cache and to the locks.
Reads == \/ cache' = cache
         \/ \E i : Iget(i)
         \/ \E i : CanLock(i) /\ Load(i)
         \/ \E i : \E j : CanLock(i) /\ LoadAndGet(i, j)
Holds(p) == \/ lock' = lock
            \/ \E i : Unlocked(i)
            \/ \E i : CanLock(i) /\ Locked(p, i)
Writes(p) == disk' = disk /\ Reads /\ Holds(p) /\ ~ At(p, "release")

LEMMA ReadsAreQuiet ==
    ASSUME FsTypes, NEW p, Reads, Holds(p)
    PROVE  CacheQuiet /\ LockQuiet
  BY QuietRead, QuietReadAndGet, QuietGet, QuietSame, QuietLocks DEF Reads, Holds

LEMMA NotAt ==
    ASSUME NEW p, pc[p] = <<>>
    PROVE  ~ At(p, "release")
  BY DEF At

LEMMA WritesInode ==
    ASSUME NEW p, Iput(p) \/ Unref(p) \/ WalkEnds(p) \/ WalkStep(p)
    PROVE  Writes(p)
  <1>1. CASE Iput(p) \/ Unref(p) \/ WalkEnds(p)
    BY <1>1, AtOne DEF Iput, Unref, WalkEnds, fsvars, Writes, Reads, Holds
  <1>2. CASE WalkStep(p)
    <2> DEFINE i == at[p]  next == dir[i][Head(path[p])]
    <2>1. CanLock(i) /\ (Load(i) \/ LoadAndGet(i, next)) /\ disk' = disk /\ lock' = lock /\ At(p, "namex")
      BY <1>2 DEF WalkStep
    <2> HIDE DEF i, next
    <2> QED BY <2>1, AtOne DEF Writes, Reads, Holds
  <1> QED BY <1>1, <1>2

LEMMA WritesOpen ==
    ASSUME NEW p,
           \/ \E c \in program.calls[p] : PathCall(p, c)
           \/ EndOp(p) \/ LookupFails(p)
           \/ OpenLink(p) \/ Followed(p) \/ OpenFails(p) \/ OpenFound(p) \/ Opened(p)
    PROVE  Writes(p)
  <1>1. ASSUME NEW c, PathCall(p, c) PROVE Writes(p)
    <2> DEFINE i == StartOf(p, c.path)
    <2>1. Iget(i) /\ disk' = disk /\ lock' = lock /\ pc[p] = <<>>
      BY <1>1 DEF PathCall, Idle
    <2> HIDE DEF i
    <2> QED BY <2>1, NotAt DEF Writes, Reads, Holds
  <1>2. CASE EndOp(p) \/ LookupFails(p)
    BY <1>2, AtOne DEF EndOp, LookupFails, fsvars, Writes, Reads, Holds
  <1>3. CASE OpenLink(p)
    <2> DEFINE i == at[p]  j == StartOf(p, text[i])
    <2>1. At(p, "open") /\ CanLock(i) /\ Locked(p, i) /\ LoadAndGet(i, j) /\ disk' = disk
      BY <1>3 DEF OpenLink
    <2> HIDE DEF i, j
    <2> QED BY <2>1, AtOne DEF Writes, Reads, Holds
  <1>4. CASE Followed(p) \/ Opened(p)
    <2>1. \E i : (At(p, "followed") \/ At(p, "opened")) /\ Unlocked(i) /\ disk' = disk /\ cache' = cache
      BY <1>4 DEF Followed, Opened
    <2> QED BY <2>1, AtOne DEF Writes, Reads, Holds
  <1>5. CASE OpenFails(p) \/ OpenFound(p)
    <2> DEFINE i == at[p]
    <2>1. At(p, "open") /\ CanLock(i) /\ Load(i) /\ disk' = disk /\ (lock' = lock \/ Locked(p, i))
      BY <1>5 DEF OpenFails, OpenFound
    <2> HIDE DEF i
    <2> QED BY <2>1, AtOne DEF Writes, Reads, Holds
  <1> QED BY <1>1, <1>2, <1>3, <1>4, <1>5

LEMMA WritesCreate ==
    ASSUME NEW p,
           \/ CreateFinds(p) \/ Found(p) \/ Created(p)
           \/ UnlinkFails(p) \/ UnlinkFinds(p) \/ UnlinkBusy(p) \/ PutDir(p)
    PROVE  Writes(p)
  <1>1. CASE CreateFinds(p) \/ UnlinkFinds(p)
    <2> DEFINE d == at[p]  i == dir[d][name[p]]
    <2>1. /\ At(p, "create") \/ At(p, "unlink")
          /\ CanLock(d) /\ LoadAndGet(d, i) /\ disk' = disk /\ (lock' = lock \/ Locked(p, d))
      BY <1>1 DEF CreateFinds, UnlinkFinds
    <2> HIDE DEF d, i
    <2> QED BY <2>1, AtOne DEF Writes, Reads, Holds
  <1>2. CASE Found(p) \/ UnlinkFails(p) \/ UnlinkBusy(p)
    <2> DEFINE i == at[p]
    <2>1. /\ At(p, "found") \/ At(p, "unlink") \/ At(p, "remove")
          /\ CanLock(i) /\ Load(i) /\ disk' = disk /\ (lock' = lock \/ Locked(p, i))
      BY <1>2 DEF Found, UnlinkFails, UnlinkBusy
    <2> HIDE DEF i
    <2> QED BY <2>1, AtOne DEF Writes, Reads, Holds
  <1>3. CASE Created(p) \/ PutDir(p)
    <2>1. \E i : (At(p, "created") \/ At(p, "putdir")) /\ Unlocked(i) /\ disk' = disk /\ cache' = cache
      BY <1>3 DEF Created, PutDir
    <2> QED BY <2>1, AtOne DEF Writes, Reads, Holds
  <1> QED BY <1>1, <1>2, <1>3

LEMMA WritesLink ==
    ASSUME NEW p,
           \/ LinkNew(p) \/ LinkEnters(p) \/ LinkExists(p) \/ LinkToNowhere(p)
           \/ Chdir(p) \/ Chdired(p)
    PROVE  Writes(p)
  <1>1. CASE LinkNew(p)
    <2> DEFINE i == StartOf(p, call[p].new)
    <2>1. Iget(i) /\ disk' = disk /\ lock' = lock /\ At(p, "linknew")
      BY <1>1 DEF LinkNew
    <2> HIDE DEF i
    <2> QED BY <2>1, AtOne DEF Writes, Reads, Holds
  <1>2. CASE LinkEnters(p) \/ Chdir(p)
    <2> DEFINE d == at[p]
    <2>1. (At(p, "linkto") \/ At(p, "chdir")) /\ CanLock(d) /\ Load(d) /\ disk' = disk /\ lock' = lock
      BY <1>2 DEF LinkEnters, Chdir
    <2> HIDE DEF d
    <2> QED BY <2>1, AtOne DEF Writes, Reads, Holds
  <1>3. CASE LinkExists(p)
    <2> DEFINE d == at[p]  i == dir[d][name[p]]
    <2>1. At(p, "linkto") /\ CanLock(d) /\ LoadAndGet(d, i) /\ disk' = disk /\ (lock' = lock \/ Locked(p, d))
      BY <1>3 DEF LinkExists
    <2> HIDE DEF d, i
    <2> QED BY <2>1, AtOne DEF Writes, Reads, Holds
  <1>4. CASE LinkToNowhere(p) \/ Chdired(p)
    BY <1>4, AtOne DEF LinkToNowhere, Chdired, fsvars, Writes, Reads, Holds
  <1> QED BY <1>1, <1>2, <1>3, <1>4

LEMMA WritesExec ==
    ASSUME NEW p,
           \/ ExecLink(p) \/ ExecLinked(p) \/ ExecFound(p) \/ ExecLoad(p)
           \/ ClimbRoot(p) \/ ClimbUp(p) \/ ClimbName(p)
           \/ Symlink(p) \/ SymlinkWrites(p)
    PROVE  Writes(p)
  <1>1. CASE ExecLink(p)
    <2> DEFINE i == at[p]  j == StartOf(p, text[i])
    <2>1. At(p, "exec") /\ CanLock(i) /\ Locked(p, i) /\ LoadAndGet(i, j) /\ disk' = disk
      BY <1>1 DEF ExecLink
    <2> HIDE DEF i, j
    <2> QED BY <2>1, AtOne DEF Writes, Reads, Holds
  <1>2. CASE ExecLinked(p) \/ SymlinkWrites(p)
    <2>1. \E i : (At(p, "execlink") \/ At(p, "symwrite")) /\ Unlocked(i) /\ disk' = disk /\ cache' = cache
      BY <1>2 DEF ExecLinked, SymlinkWrites
    <2> QED BY <2>1, AtOne DEF Writes, Reads, Holds
  <1>3. CASE ExecFound(p) \/ ExecLoad(p)
    <2> DEFINE i == at[p]
    <2>1. /\ At(p, "exec") \/ At(p, "look") \/ At(p, "load")
          /\ CanLock(i) /\ Load(i) /\ disk' = disk /\ lock' = lock
      BY <1>3 DEF ExecFound, ExecLoad
    <2> HIDE DEF i
    <2> QED BY <2>1, AtOne DEF Writes, Reads, Holds
  <1>4. CASE ClimbRoot(p)
    <2>1. At(p, "climb") /\ CanLock(ROOTINO) /\ Load(ROOTINO) /\ disk' = disk /\ lock' = lock
      BY <1>4 DEF ClimbRoot
    <2> QED BY <2>1, AtOne DEF Writes, Reads, Holds
  <1>5. CASE ClimbUp(p)
    <2> DEFINE i == at[p]  j == dir[i][".."]
    <2>1. /\ At(p, "climb") /\ CanLock(i) /\ Locked(p, i) /\ disk' = disk
          /\ Load(i) \/ LoadAndGet(i, j)
      BY <1>5 DEF ClimbUp
    <2> HIDE DEF i, j
    <2> QED BY <2>1, AtOne DEF Writes, Reads, Holds
  <1>6. CASE ClimbName(p)
    <2> DEFINE i == at[p]  t == dp[p]
    <2>1. At(p, "name") /\ CanLock(i) /\ Load(i) /\ Unlocked(t) /\ disk' = disk
      BY <1>6 DEF ClimbName
    <2> HIDE DEF i, t
    <2> QED BY <2>1, AtOne DEF Writes, Reads, Holds
  <1>7. CASE Symlink(p)
    <2> DEFINE i == StartOf(p, call[p].new)
    <2>1. At(p, "symlink") /\ (cache' = cache \/ Iget(i)) /\ disk' = disk /\ lock' = lock
      BY <1>7 DEF Symlink
    <2> HIDE DEF i
    <2> QED BY <2>1, AtOne DEF Writes, Reads, Holds
  <1> QED BY <1>1, <1>2, <1>3, <1>4, <1>5, <1>6, <1>7

LEMMA WritesFiles ==
    ASSUME NEW p,
           Dup(p) \/ Exit(p) \/ ExitLeaves(p) \/ Close(p) \/ ExitCloses(p)
    PROVE  Writes(p)
  <1>1. UNCHANGED <<disk, cache, lock>>
    BY DEF Dup, Exit, ExitLeaves, Close, ExitCloses, fsvars
  <1>2. CASE Dup(p) \/ Exit(p) \/ Close(p)
    <2>1. pc[p] = <<>>
      BY <1>2 DEF Dup, Exit, Close, Idle
    <2> QED BY <1>1, <2>1, NotAt DEF Writes, Reads, Holds
  <1>3. CASE ExitLeaves(p) \/ ExitCloses(p)
    <2>1. At(p, "exit")
      BY <1>3 DEF ExitLeaves, ExitCloses
    <2> QED BY <1>1, <2>1, AtOne DEF Writes, Reads, Holds
  <1> QED BY <1>2, <1>3

\* An iput() that frees an inode: what is on disk and in the cache until the
\* entry is not valid any more.
LEMMA IputOrphanCoheres ==
    ASSUME NEW p \in Proc, Types, AllStacked, IcacheOK, Alone(p), IputOrphan(p)
    PROVE  IcacheOK'
  <1>1. At(p, "iput") /\ Free(Inode(p)) /\ Orphan(Inode(p)) /\ disk' = disk /\ cache' = cache
        /\ (lock' = lock \/ Locked(p, Inode(p)))
    BY DEF IputOrphan, Inode
  <1>2. Inode(p) \in Inum
    BY <1>1, InodeIs DEF AllStacked, Drops
  <1>3. SoundAt(Inode(p))
    BY <1>1, <1>2, Sees
  <1>4. CanLock(Inode(p))
    BY <1>1, <1>3 DEF CanLock, SoundAt, Sound, Orphan, Loaded
  <1>5. LockQuiet /\ CacheQuiet
    BY <1>1, <1>4, QuietLocks, QuietSame DEF Types
  <1>6. Quiet(p)
    BY <1>1, <1>5, AtOne DEF Quiet, Alone
  <1> QED BY <1>6, QuietIs

LEMMA ItruncCoheres ==
    ASSUME NEW p \in Proc, Types, AllStacked, IcacheOK, Alone(p), Itrunc(p)
    PROVE  IcacheOK'
  <1> DEFINE i == Inode(p)  e == [type |-> "free", nlink |-> 0]  f == <<"release", i>>
  <1>1. At(p, "itrunc") /\ Iupdate(Just(i, e)) /\ lock' = lock /\ Then(p, <<f>>)
    BY DEF Itrunc, Inode
  <1>2. i \in Inum /\ e \in Entry
    <2>1. i \in Inum
      BY <1>1, InodeIs DEF AllStacked, Drops
    <2> QED BY <2>1 DEF Entry
  <1>3. \A k \in Inum \ {i} : disk'[k] = disk[k] /\ cache'[k] = cache[k]
    <2> HIDE DEF e, i
    <2> QED BY <1>1, <1>2, UpdatesOne DEF Types
  <1>4. ASSUME NEW k \in Inum, k = i PROVE CoherentAt(k)'
    <2>1. pc[p] # <<>> /\ Stacked(p)
      BY <1>1 DEF At, AllStacked
    <2>2. Below(p) \in Frames /\ pc'[p] = <<f>> \o Below(p)
      BY <1>1, <2>1, StackIs, ThenIs DEF Types, WalkTypes
    <2> DEFINE g == f
    <2>3. pc'[p] # <<>> /\ Head(pc'[p]) = g
      <3> HIDE DEF f
      <3> QED BY <2>2, ConsIs DEF Frames
    <2>4. g[1] = "release" /\ g[2] = i
      OBVIOUS
    <2>5. At(p, "release")' /\ Inode(p)' = k
      <3> HIDE DEF g
      <3> QED BY <1>4, <2>3, <2>4 DEF At, Inode
    <2> QED BY <2>5 DEF CoherentAt, Releasing
  <1>5. ASSUME NEW k \in Inum PROVE CoherentAt(k)'
    <2>1. CASE k = i
      BY <1>4, <2>1
    <2>2. CASE k # i
      <3>1. Steady(k)
        BY <1>1, <1>3, <2>2 DEF Steady
      <3> QED BY <1>1, <3>1, AtOne, SteadyIs DEF Alone
    <2> QED BY <2>1, <2>2
  <1> QED BY <1>5 DEF IcacheOK

LEMMA ReleaseCoheres ==
    ASSUME NEW p \in Proc, Types, AllStacked, IcacheOK, Alone(p), IputRelease(p)
    PROVE  IcacheOK'
  <1> DEFINE i == Inode(p)
  <1>1. At(p, "release") /\ cache' = [cache EXCEPT ![i] = NotValid] /\ Unlocked(i) /\ disk' = disk
    BY DEF IputRelease, Inode
  <1>2. i \in Inum
    BY <1>1, ReleasingIs DEF AllStacked
  <1> HIDE DEF i
  <1>3. cache'[i] = NotValid /\ lock'[i] = NoProc
        /\ \A k \in Inum \ {i} : cache'[k] = cache[k] /\ lock'[k] = lock[k]
    BY <1>1, <1>2 DEF Unlocked, Types, FsTypes
  <1>4. ASSUME NEW k \in Inum PROVE CoherentAt(k)'
    <2>1. CASE k = i
      BY <1>3, <2>1, NotValidIs DEF CoherentAt, SoundAt, Sound
    <2>2. CASE k # i
      <3>1. Steady(k)
        BY <1>1, <1>3, <2>2 DEF Steady
      <3> QED BY <2>2, <3>1, SteadyIs DEF Alone, i
    <2> QED BY <2>1, <2>2
  <1> QED BY <1>4 DEF IcacheOK

\* ialloc(): the entry of a free inode is not valid, or about to be invalidated.
LEMMA CreateAllocatesCoheres ==
    ASSUME NEW p \in Proc, Types, AllStacked, IcacheOK, Alone(p), CreateAllocates(p)
    PROVE  IcacheOK'
  <1> DEFINE d == at[p]  free == {j \in Inum : disk[j].type = "free"}  i == Min(free)
             fresh == [type |-> TypeOf(call[p].op), nlink |-> 0]
  <1>1. /\ At(p, "create") /\ d # None /\ CanLock(d) /\ free # {}
        /\ disk' = [disk EXCEPT ![i] = fresh] /\ Locked(p, d) /\ LoadAndGet(d, i)
    BY DEF CreateAllocates
  <1>2. fresh.type # "free"
    <2>1. PICK r \in Rests("create") : Knows(p, "no", "create", r)
      BY <1>1, InCall DEF AllStacked, Workers, Walkers
    <2> QED BY <2>1 DEF Knows, Makers, TypeOf
  <1>3. d \in Inum
    BY <1>1 DEF Types, WalkTypes, Maybe
  <1>4. i \in Inum /\ disk[i].type = "free"
    <2> HIDE DEF free
    <2>1. free \in SUBSET Nat
      BY Numbers DEF free
    <2>2. Min(free) \in free
      BY <1>1, <2>1, LeastIsIn
    <2> QED BY <2>2 DEF free
  <1> HIDE DEF i, fresh, free, d
  <1>5. d # i
    <2>1. Loaded(d) = disk[d]
      BY <1>1, <1>3, Sees DEF CanLock
    <2> QED BY <1>1, <1>4, <2>1 DEF CanLock
  <1>6. disk'[i] = fresh /\ \A k \in Inum \ {i} : disk'[k] = disk[k]
    BY <1>1, <1>4 DEF Types, FsTypes
  <1>7. lock'[i] = lock[i] /\ cache'[i] \in {NotValid, cache[i]}
    BY <1>1, <1>3, <1>4, <1>5, LoadAndGetIs, CanLockIs DEF Types
  <1>8. CacheQuiet /\ LockQuiet
    BY <1>1, QuietReadAndGet, QuietLocks DEF Types
  <1>9. ~ At(p, "release") /\ \A q \in Proc \ {p} : pc'[q] = pc[q]
    BY <1>1, AtOne DEF Alone
  <1>10. ASSUME NEW k \in Inum, k = i PROVE CoherentAt(k)'
    <2>1. CASE Releasing(k)
      <3>1. PICK q \in Proc : At(q, "release") /\ Inode(q) = k
        BY <2>1 DEF Releasing
      <3>2. pc'[q] = pc[q]
        BY <1>9, <3>1
      <3>3. At(q, "release")' /\ Inode(q)' = k
        BY <3>1, <3>2 DEF At, Inode
      <3> QED BY <3>3 DEF CoherentAt, Releasing
    <2>2. CASE SoundAt(k)
      <3>1. cache[k] = NotValid
        BY <1>4, <1>10, <2>2 DEF SoundAt, Sound
      <3>2. disk'[k] = fresh /\ cache'[k] = NotValid
        BY <1>6, <1>7, <1>10, <3>1
      <3> QED BY <1>2, <3>2, NotValidIs DEF CoherentAt, SoundAt, Sound
    <2> QED BY <2>1, <2>2 DEF IcacheOK, CoherentAt
  <1>11. ASSUME NEW k \in Inum PROVE CoherentAt(k)'
    <2>1. CASE k = i
      BY <1>10, <2>1
    <2>2. CASE k # i
      <3>1. Steady(k)
        BY <1>6, <1>8, <2>2 DEF Steady, CacheQuiet, LockQuiet
      <3> QED BY <1>9, <3>1, SteadyIs
    <2> QED BY <2>1, <2>2
  <1> QED BY <1>11 DEF IcacheOK

\* The steps that write inodes they have locked: allocated they were, and stay.
LEMMA CreateLinksCoheres ==
    ASSUME NEW p \in Proc, Types, AllStacked, IcacheOK, Alone(p), CreateLinks(p)
    PROVE  IcacheOK'
  <1> DEFINE i == at[p]  d == dp[p]
  <1>1. /\ i \in Inum /\ d \in Inum /\ CanLock(i) /\ lock[d] = p
        /\ lock' = [lock EXCEPT ![i] = p, ![d] = NoProc]
    BY NewLinks DEF AllStacked
  <1>2. PICK e \in Entry, f \in Entry :
          /\ e.type = Loaded(i).type /\ f.type = Loaded(d).type
          /\ Iupdate(Just(i, e)) \/ Iupdate(Over(Just(i, e), Just(d, f)))
    BY NewLinks DEF AllStacked
  <1>3. At(p, "new") /\ ~ At(p, "release")
    BY AtOne DEF CreateLinks
  <1> HIDE DEF i, d
  <1>4. i # d /\ lock'[d] = NoProc /\ \A k \in Inum \ {i, d} : lock'[k] = lock[k]
    BY <1>1, Exchanged DEF Types, CanLock, Free
  <1>5. e.type # "free" /\ f.type # "free"
    <2>1. Loaded(d) = disk[d] /\ SoundAt(d)
      BY <1>1, <1>3, Sees
    <2> QED BY <1>1, <1>2, <2>1, Somebody DEF CanLock, SoundAt, Sound
  <1>6. /\ disk'[i] = e /\ cache'[i] = e
        /\ (disk'[d] = f /\ cache'[d] = f) \/ (disk'[d] = disk[d] /\ cache'[d] = cache[d])
        /\ \A k \in Inum \ {i, d} : disk'[k] = disk[k] /\ cache'[k] = cache[k]
    <2>1. CASE Iupdate(Just(i, e))
      BY <1>1, <1>4, <2>1, UpdatesOne DEF Types
    <2>2. CASE Iupdate(Over(Just(i, e), Just(d, f)))
      BY <1>1, <1>4, <2>2, UpdatesTwo DEF Types
    <2> QED BY <1>2, <2>1, <2>2
  <1>7. ASSUME NEW k \in Inum PROVE CoherentAt(k)'
    <2>1. CASE k = i \/ (k = d /\ disk'[d] = f /\ cache'[d] = f)
      BY <1>5, <1>6, <2>1, WrittenIs
    <2>2. CASE k # i /\ (k = d => disk'[d] = disk[d] /\ cache'[d] = cache[d])
      <3>1. Steady(k)
        BY <1>4, <1>6, <2>2 DEF Steady
      <3> QED BY <1>3, <3>1, SteadyIs DEF Alone
    <2> QED BY <1>6, <2>1, <2>2
  <1> QED BY <1>7 DEF IcacheOK

LEMMA UnlinkRemovesCoheres ==
    ASSUME NEW p \in Proc, Types, AllStacked, IcacheOK, Alone(p), UnlinkRemoves(p)
    PROVE  IcacheOK'
  <1> DEFINE i == at[p]  d == dp[p]
  <1>1. /\ At(p, "remove") /\ CanLock(i) /\ lock' = [lock EXCEPT ![i] = p, ![d] = NoProc]
        /\ \/ /\ disk' = Over(Linked(d, -1), disk)
              /\ cache' = Over(Just(i, Loaded(i)), Over(Linked(d, -1), cache))
           \/ Load(i) /\ UNCHANGED disk
    BY DEF UnlinkRemoves
  <1>2. i \in Inum /\ d \in Inum /\ lock[d] = p
    BY <1>1, Removing DEF AllStacked
  <1>3. ~ At(p, "release")
    BY <1>1, AtOne
  <1>4. PICK f \in Entry : Linked(d, -1) = Just(d, f) /\ f.type = Loaded(d).type
    BY <1>2, LinkedIs DEF Types
  <1> HIDE DEF i, d
  <1>5. i # d /\ lock'[d] = NoProc /\ \A k \in Inum \ {i, d} : lock'[k] = lock[k]
    BY <1>1, <1>2, Exchanged DEF Types, CanLock, Free
  <1>6. f.type # "free"
    <2>1. Loaded(d) = disk[d] /\ SoundAt(d)
      BY <1>2, <1>3, Sees
    <2> QED BY <1>2, <1>4, <2>1, Somebody DEF SoundAt, Sound
  <1>7. /\ disk'[i] = disk[i] /\ cache'[i] = Loaded(i)
        /\ (disk'[d] = f /\ cache'[d] = f) \/ (disk'[d] = disk[d] /\ cache'[d] = cache[d])
        /\ \A k \in Inum \ {i, d} : disk'[k] = disk[k] /\ cache'[k] = cache[k]
    <2>1. CASE Load(i) /\ UNCHANGED disk
      BY <1>2, <1>5, <2>1, LoadIs DEF Types
    <2>2. CASE /\ disk' = Over(Linked(d, -1), disk)
               /\ cache' = Over(Just(i, Loaded(i)), Over(Linked(d, -1), cache))
      <3>1. disk' = Over(Just(d, f), disk) /\ cache' = Over(Just(i, Loaded(i)), Over(Just(d, f), cache))
        BY <1>4, <2>2
      <3>2. Loaded(i) \in Entry
        BY <1>2, LoadedIs DEF Types
      <3>3. disk'[d] = f /\ \A k \in Inum \ {d} : disk'[k] = disk[k]
        BY <1>2, <3>1, OverOne DEF Types, FsTypes
      <3>4. cache'[i] = Loaded(i) /\ cache'[d] = f /\ \A k \in Inum \ {i, d} : cache'[k] = cache[k]
        <4> DEFINE new == cache'
        <4>1. new = Over(Just(i, Loaded(i)), Over(Just(d, f), cache)) /\ cache \in [Inum -> Entry]
          BY <3>1 DEF Types, FsTypes
        <4> HIDE DEF new
        <4>2. new[i] = Loaded(i) /\ new[d] = f /\ \A k \in Inum \ {i, d} : new[k] = cache[k]
          BY <1>2, <1>5, <3>2, <4>1, OverBoth
        <4> QED BY <4>2 DEF new
      <3> QED BY <1>2, <1>5, <3>3, <3>4
    <2> QED BY <1>1, <2>1, <2>2
  <1>8. ASSUME NEW k \in Inum PROVE CoherentAt(k)'
    <2>1. CASE k = d /\ disk'[d] = f /\ cache'[d] = f
      BY <1>6, <2>1, WrittenIs
    <2>2. CASE k = d => disk'[d] = disk[d] /\ cache'[d] = cache[d]
      <3>1. Steady(k)
        BY <1>1, <1>2, <1>5, <1>7, <2>2 DEF Steady
      <3> QED BY <1>3, <3>1, SteadyIs DEF Alone
    <2> QED BY <1>7, <2>1, <2>2
  <1> QED BY <1>8 DEF IcacheOK

\* One inode is written, and nothing more locked.
LEMMA WritesOne ==
    ASSUME NEW p \in Proc, Types, AllStacked, IcacheOK, Alone(p), ~ At(p, "release"),
           NEW i \in Inum, NEW n \in Int, Iupdate(Linked(i, n)), CanLock(i) \/ lock[i] = p,
           lock' = lock \/ Unlocked(i)
    PROVE  IcacheOK'
  <1>1. PICK e \in Entry : Linked(i, n) = Just(i, e) /\ e.type = Loaded(i).type
    BY LinkedIs DEF Types
  <1>2. e.type # "free"
    <2>1. Loaded(i) = disk[i] /\ SoundAt(i)
      BY Sees DEF CanLock
    <2> QED BY <1>1, <2>1, Somebody DEF CanLock, SoundAt, Sound
  <1>3. disk'[i] = e /\ cache'[i] = e /\ \A k \in Inum \ {i} : disk'[k] = disk[k] /\ cache'[k] = cache[k]
    BY <1>1, UpdatesOne DEF Types
  <1>4. LockQuiet
    BY QuietLocks DEF Types
  <1>5. ASSUME NEW k \in Inum PROVE CoherentAt(k)'
    <2>1. CASE k = i
      BY <1>2, <1>3, <2>1, WrittenIs
    <2>2. CASE k # i
      <3>1. Steady(k)
        BY <1>3, <1>4, <2>2 DEF Steady, LockQuiet
      <3> QED BY <3>1, SteadyIs DEF Alone
    <2> QED BY <2>1, <2>2
  <1> QED BY <1>5 DEF IcacheOK

LEMMA LinksCohere ==
    ASSUME NEW p \in Proc, Types, AllStacked, IcacheOK, Alone(p),
           UnlinkEnds(p) \/ Link(p) \/ LinkBad(p)
    PROVE  IcacheOK'
  <1>1. CASE UnlinkEnds(p)
    <2>1. At(p, "unlinked") /\ Iupdate(Linked(at[p], -1)) /\ Unlocked(at[p])
      BY <1>1 DEF UnlinkEnds
    <2>2. at[p] \in Inum /\ lock[at[p]] = p
      <3>1. PICK r \in Rests("unlinked") :
               /\ Owned(p, "no", "unlinked") \subseteq Inum
               /\ \A j \in Owned(p, "no", "unlinked") : lock[j] = p
        BY <2>1, InCall DEF AllStacked, Workers
      <3> QED BY <3>1 DEF Owned, Locks
    <2> QED BY <2>1, <2>2, AtOne, WritesOne
  <1>2. CASE Link(p)
    <2>1. /\ At(p, "link") /\ at[p] # None /\ CanLock(at[p]) /\ lock' = lock
          /\ (Load(at[p]) /\ disk' = disk) \/ Iupdate(Linked(at[p], 1))
      BY <1>2 DEF Link
    <2>2. at[p] \in Inum
      BY <2>1 DEF Types, WalkTypes, Maybe
    <2>3. CASE Load(at[p]) /\ disk' = disk
      <3>1. CacheQuiet /\ LockQuiet
        BY <2>1, <2>3, QuietRead, QuietLocks DEF Types
      <3>2. Quiet(p)
        BY <2>1, <2>3, <3>1, AtOne DEF Quiet, Alone
      <3> QED BY <3>2, QuietIs
    <2>4. CASE Iupdate(Linked(at[p], 1))
      BY <2>1, <2>2, <2>4, AtOne, WritesOne
    <2> QED BY <2>1, <2>3, <2>4
  <1>3. CASE LinkBad(p)
    <2>1. At(p, "linkbad") /\ CanLock(ip[p]) /\ Iupdate(Linked(ip[p], -1)) /\ lock' = lock
      BY <1>3 DEF LinkBad
    <2>2. ip[p] \in Inum
      BY <2>1, Linking DEF AllStacked
    <2> QED BY <2>1, <2>2, AtOne, WritesOne
  <1> QED BY <1>1, <1>2, <1>3

-----------------------------------------------------------------------------
(* The theorems *)

LEMMA StepsAre ==
    ASSUME NEW p, InodeStep(p) \/ CallGoesOn(p) \/ Close(p) \/ ExitCloses(p)
    PROVE  \/ QuietStep(p)
           \/ IputOrphan(p) \/ Itrunc(p) \/ IputRelease(p)
           \/ CreateAllocates(p) \/ CreateLinks(p) \/ UnlinkRemoves(p)
           \/ UnlinkEnds(p) \/ Link(p) \/ LinkBad(p)
  BY DEF InodeStep, FsStep, CallGoesOn, QuietStep

LEMMA QuietSteps ==
    ASSUME NEW p, QuietStep(p)
    PROVE  Writes(p)
  BY WritesInode, WritesOpen, WritesCreate, WritesLink, WritesExec, WritesFiles DEF QuietStep

LEMMA IcacheGoesOn ==
    ASSUME NEW p \in Proc, Types, AllStacked, Files, IcacheOK, InodeStep(p) \/ CallStep(p)
    PROVE  IcacheOK'
  <1>1. ASSUME NEW q \in Proc, Fork(p, q) PROVE IcacheOK'
    <2>1. UNCHANGED <<disk, cache, lock, pc>> /\ pc[p] = <<>>
      BY <1>1 DEF Fork, Idle
    <2>2. Quiet(p)
      BY <2>1, NotAt, QuietSame, QuietLocks DEF Quiet, Types
    <2> QED BY <2>2, QuietIs
  <1>2. CASE InodeStep(p) \/ CallGoesOn(p) \/ Close(p) \/ ExitCloses(p)
    <2>1. Stacked(p)
      BY DEF AllStacked
    <2>2. Alone(p)
      BY <1>2, <2>1, InodeStepIs, CallGoesOnIs, CloseStep, ExitClosesStep DEF Good
    <2>3. CASE QuietStep(p)
      <3>1. Writes(p)
        BY <2>3, QuietSteps
      <3>2. CacheQuiet /\ LockQuiet
        BY <3>1, ReadsAreQuiet DEF Writes, Types
      <3>3. Quiet(p)
        BY <2>2, <3>1, <3>2 DEF Writes, Quiet, Alone
      <3> QED BY <3>3, QuietIs
    <2>4. CASE IputOrphan(p) \/ Itrunc(p) \/ IputRelease(p)
      BY <2>2, <2>4, IputOrphanCoheres, ItruncCoheres, ReleaseCoheres
    <2>5. CASE CreateAllocates(p) \/ CreateLinks(p) \/ UnlinkRemoves(p)
      BY <2>2, <2>5, CreateAllocatesCoheres, CreateLinksCoheres, UnlinkRemovesCoheres
    <2>6. CASE UnlinkEnds(p) \/ Link(p) \/ LinkBad(p)
      BY <2>2, <2>6, LinksCohere
    <2> QED BY <1>2, <2>3, <2>4, <2>5, <2>6, StepsAre
  <1> QED BY <1>1, <1>2, CallStepIs

\* The inductive invariant.
CallsInv == Types /\ AllStacked /\ Files /\ IcacheOK

LEMMA TypesAtFirst == ASSUME Init PROVE Types
  <1>1. FsInit /\ cwd = program.cwd /\ program \in Programs
    BY DEF Init
  <1>2. FsTypes
    <2>1. Image.disk \in [Inum -> Entry]
      <3>1. \A e \in Dinode : e \in Entry
        BY DEF Dinode, Entry
      <3> QED BY <3>1, ImageAssumption
    <2>2. Image.dir \in [Inum -> [Name -> Maybe]] /\ DOMAIN Image.text = Inum
          /\ \A i \in Inum : IsPath(Image.text[i])
      BY ImageAssumption, ProgramsAssumption DEF Maybe
    <2>3. cache \in [Inum -> Entry] /\ lock \in [Inum -> Proc \cup {NoProc}]
      BY <1>1, EntryNotValid DEF FsInit
    <2>4. disk = Image.disk /\ dir = Image.dir /\ text = Image.text
      BY <1>1 DEF FsInit
    <2> QED BY <2>1, <2>2, <2>3, <2>4 DEF FsTypes
  <1>3. WalkTypes
    BY <1>1, Numbers, ImageAssumption DEF FsInit, WalkTypes
  <1>4. CallTypes
    <2>1. cwd \in [Proc -> Maybe]
      BY <1>1, ProgramsAssumption DEF Maybe
    <2>2. ip \in [Proc -> Maybe] /\ dp \in [Proc -> Maybe] /\ climbed \in [Proc -> Nat]
      BY Numbers DEF Init
    <2>3. DOMAIN result = Proc /\ \A q \in Proc : IsPath(result[q])
      <3>1. ElementsOf(<<>>) = <<>>
        BY DEF ElementsOf
      <3>2. IsPath(<<>>)
        <4>1. <<>> \in Seq(Name)
          OBVIOUS
        <4> QED BY <3>1, <4>1 DEF IsPath
      <3> QED BY <3>2 DEF Init
    <2>4. DOMAIN call = Proc /\ \A q \in Proc : call[q].op = "none"
      BY DEF Init, NoCall
    <2> QED BY <1>1, <2>1, <2>2, <2>3, <2>4 DEF CallTypes
  <1> QED BY <1>2, <1>3, <1>4 DEF Types

LEMMA StackedAtFirst == ASSUME Init PROVE AllStacked
  <1>1. ASSUME NEW q \in Proc PROVE Stacked(q)
    <2>1. pc[q] = <<>> /\ result[q] = <<>> /\ climbed[q] = 0
      BY DEF Init, FsInit
    <2>2. <<>> \in Dropping /\ <<>> \in Endings
      BY EndsAre DEF Dropping
    <2>3. <<>> \o <<>> = <<>> /\ Ends # <<>> /\ << F("exit") >> # <<>>
      BY DEF Ends
    <2>4. Ending(q, <<>>, <<>>)
      BY <2>1, <2>2, <2>3 DEF Ending, Freeing
    <2> QED BY <2>2, <2>4 DEF Stacked
  <1> QED BY <1>1 DEF AllStacked

LEMMA FilesAtFirst == ASSUME Init PROVE Files
  <1>1. file = [f \in File |-> [ref |-> 0, ip |-> None]] /\ ofile = [q \in Proc |-> [d \in Fd |-> None]]
    BY DEF Init
  <1>2. None \notin File
    BY CallsAssumption DEF None, File
  <1>3. file \in [File -> [ref : Nat, ip : Maybe]] /\ ofile \in [Proc -> [Fd -> File \cup {None}]]
    BY <1>1, Numbers
  <1>4. \A f \in File : Owners(ofile, f) = {}
    BY <1>1, <1>2 DEF Owners
  <1>5. \A f \in File : file[f].ref = Cardinality(Owners(ofile, f)) /\ file[f].ref = 0
    BY <1>1, <1>4, FS_EmptySet
  <1>6. FilesOK(ofile, file)
    BY <1>3, <1>5 DEF FilesOK
  <1> QED BY <1>1, <1>6 DEF Files

LEMMA IcacheAtFirst == ASSUME Init PROVE IcacheOK
  <1>1. \A k \in Inum : cache[k] = NotValid /\ lock[k] = NoProc
    BY DEF Init, FsInit
  <1> QED BY <1>1, NotValidIs DEF IcacheOK, CoherentAt, SoundAt, Sound

LEMMA CallsInvInit == Init => CallsInv
  BY TypesAtFirst, StackedAtFirst, FilesAtFirst, IcacheAtFirst DEF CallsInv

LEMMA CallsInvNext == CallsInv /\ [Next]_vars => CallsInv'
  <1> SUFFICES ASSUME CallsInv, [Next]_vars PROVE CallsInv'
    OBVIOUS
  <1>0. Types /\ AllStacked /\ Files /\ IcacheOK
    BY DEF CallsInv
  <1>1. ASSUME NEW p \in Proc, InodeStep(p) \/ CallStep(p) PROVE CallsInv'
    BY <1>0, <1>1, CallsGoOn, IcacheGoesOn DEF CallsInv
  <1>2. CASE UNCHANGED vars
    <2>1. UNCHANGED <<disk, dir, text, cache, lock, cwd, at, path, name, pc, file, ofile, call, ip, dp,
                      climbed, result, program>>
      BY <1>2 DEF vars, fsvars, walkvars, callvars
    <2>2. Types'
      BY <1>0, <2>1 DEF Types, FsTypes, WalkTypes, CallTypes
    <2>3. AllStacked'
      <3>1. ASSUME NEW q \in Proc PROVE Stacked(q)'
        BY <1>0, <2>1, StackSame DEF AllStacked, SameCall
      <3> QED BY <3>1 DEF AllStacked
    <2>4. Files'
      BY <1>0, <2>1 DEF Files
    <2>5. IcacheOK'
      BY <1>0, <2>1 DEF IcacheOK, CoherentAt, Releasing, SoundAt, At, Inode
    <2> QED BY <2>2, <2>3, <2>4, <2>5 DEF CallsInv
  <1> QED BY <1>1, <1>2 DEF Next

LEMMA CallsInvAlways == Spec => []CallsInv
  BY CallsInvInit, CallsInvNext, PTL DEF Spec

LEMMA CoherenceFollows == CallsInv => IcacheIsCoherent
  <1> SUFFICES ASSUME CallsInv, NEW i \in Inum
               PROVE  \/ cache[i] \in {NotValid, disk[i]}
                      \/ \E p \in Proc : At(p, "release") /\ Head(pc[p])[2] = i
    BY DEF IcacheIsCoherent
  <1>1. CASE Releasing(i)
    BY <1>1 DEF Releasing, Inode
  <1>2. CASE SoundAt(i)
    BY <1>2 DEF SoundAt, Sound
  <1> QED BY <1>1, <1>2 DEF CallsInv, IcacheOK, CoherentAt

\* Whatever calls the processes make, on whatever tree of directories, a valid
\* entry of the inode cache says what is on disk, except in the window in which
\* iput() (fs.c) has freed the inode and has yet to invalidate its entry: every
\* function that writes a dinode or an entry holds its lock, and ilock() reads
\* the dinode again once the entry has been recycled or invalidated.
THEOREM IcacheCoherent == Spec => []IcacheIsCoherent
  BY CallsInvAlways, CoherenceFollows, PTL

\* An inode that a process has locked is allocated on disk, outside of that
\* window: iput() never frees an inode under the lock of another, and what
\* ilock() has let through stays an inode until it is unlocked (fs.c).
THEOREM LockedIsAllocated ==
    Spec => [](\A i \in Inum : \/ Free(i) \/ disk[i].type # "free"
                               \/ \E p \in Proc : At(p, "release") /\ Inode(p) = i)
  <1>1. CallsInv => \A i \in Inum : \/ Free(i) \/ disk[i].type # "free"
                                    \/ \E p \in Proc : At(p, "release") /\ Inode(p) = i
    BY DEF CallsInv, IcacheOK, CoherentAt, Releasing, SoundAt, Sound, Free
  <1> QED BY <1>1, CallsInvAlways, PTL

\* The reference count of an open file is the number of descriptors that stand
\* for it, in all processes, through open(), dup(), fork(), close() and exit();
\* an open file has an inode, and a process that is not there has no descriptor
\* (file.c, sysfile.c, proc.c).
THEOREM DescriptorsAreCounted == Spec => []Files
  <1>1. CallsInv => Files
    BY DEF CallsInv
  <1> QED BY <1>1, CallsInvAlways, PTL
==============================================================================
