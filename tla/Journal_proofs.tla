--------------------------- MODULE Journal_proofs ---------------------------
(***************************************************************************)
(* A commit takes no part of a call: for any processes, blocks, calls and  *)
(* sizes of the log and the cache.                                         *)
(*                                                                         *)
(* The code knows of the calls in progress by their number only.  The      *)
(* proof therefore says where a frame that begins or ends a transaction    *)
(* may stand on the stack of a process, and that outstanding is the number *)
(* of stacks with an end_op().                                             *)
(*                                                                         *)
(* The second part says where a process is between two waits for a buffer  *)
(* or the disk: what is on its stack, which buffers it has locked and, for *)
(* the one that commits or recovers, how far the disk is.                  *)
(*                                                                         *)
(* The third part is that Journal implements AtomicCalls, at whatever step *)
(* the machine stops.  The invariant JInv says of the cache that a         *)
(* reference is a process that has locked the buffer or is about to, that  *)
(* a clean buffer is as the disk, and who waits for the disk; and of the   *)
(* processes that at most one commits or recovers and each stands at a     *)
(* point of its code.  A point of a commit says how far the disk is: which *)
(* blocks are in the log, whether the header is, which are at home.  From  *)
(* that, the one write that moves what a crash leaves is the header's.     *)
(*                                                                         *)
(* The last part counts what the calls in progress have still to write:    *)
(* the log has room for all of it (Room), so that no log_write() panics.   *)
(***************************************************************************)
EXTENDS Journal, FiniteSetTheorems, FunctionTheorems, TLAPS

\* No process is between begin_op() and end_op() while commit() runs
\* (log.c:11-15).
NoCallDuringCommit == committing => \A p \in Proc : ~ InTransaction(p)

-----------------------------------------------------------------------------
(* Stacks *)

IsSeq(s) == \E S : s \in Seq(S)

LEMMA Concatenation ==
    ASSUME NEW s, NEW t, IsSeq(s), IsSeq(t)
    PROVE  /\ IsSeq(s \o t)
           /\ Len(s) \in Nat /\ Len(t) \in Nat /\ Len(s \o t) = Len(s) + Len(t)
           /\ \A i \in 1 .. Len(s \o t) :
                (s \o t)[i] = IF i <= Len(s) THEN s[i] ELSE t[i - Len(s)]
  <1>1. PICK S : s \in Seq(S)
    BY DEF IsSeq
  <1>2. PICK T : t \in Seq(T)
    BY DEF IsSeq
  <1>3. s \in Seq(S \cup T) /\ t \in Seq(S \cup T)
    BY <1>1, <1>2
  <1>4. s \o t \in Seq(S \cup T) /\ Len(s \o t) = Len(s) + Len(t)
    BY <1>3
  <1>5. \A i \in 1 .. Len(s) + Len(t) :
            (s \o t)[i] = IF i <= Len(s) THEN s[i] ELSE t[i - Len(s)]
    BY <1>3
  <1> QED BY <1>3, <1>4, <1>5 DEF IsSeq

LEMMA EmptyStack ==
    ASSUME NEW s, IsSeq(s), Len(s) = 0
    PROVE  s = <<>>
  <1>1. PICK S : s \in Seq(S)
    BY DEF IsSeq
  <1> QED BY <1>1

LEMMA TailOfStack ==
    ASSUME NEW s, IsSeq(s), s # <<>>
    PROVE  /\ IsSeq(Tail(s))
           /\ Len(s) \in Nat \ {0} /\ Len(Tail(s)) = Len(s) - 1
           /\ Head(s) = s[1]
           /\ \A i \in 1 .. Len(s) - 1 : Tail(s)[i] = s[i + 1]
  <1>1. PICK S : s \in Seq(S)
    BY DEF IsSeq
  <1>2. /\ Tail(s) \in Seq(S) /\ Len(s) \in Nat \ {0} /\ Len(Tail(s)) = Len(s) - 1
        /\ Head(s) = s[1]
        /\ \A i \in 1 .. Len(s) - 1 : Tail(s)[i] = s[i + 1]
    BY <1>1
  <1> QED BY <1>2 DEF IsSeq

Begins == {"begin_op", "asleep"}
Marks  == Begins \cup {"end_op"}

\* Frames that neither begin nor end a transaction.
Plain(s) == IsSeq(s) /\ \A i \in 1 .. Len(s) : s[i][1] \notin Marks

\* end_op() comes last, and begin_op() alone.
Shaped(s) ==
    /\ IsSeq(s)
    /\ \A i \in 1 .. Len(s) :
          /\ s[i][1] \in Marks => i = Len(s)
          /\ s[i][1] \in Begins => Len(s) = 1 /\ s[i][2][2] \in Calls

Ends(s) == \E i \in 1 .. Len(s) : s[i][1] = "end_op"

LEMMA PlainIsShaped ==
    ASSUME NEW s, Plain(s)
    PROVE  Shaped(s) /\ ~ Ends(s)
  BY DEF Plain, Shaped, Ends, Marks

LEMMA Plain0 == Plain(<<>>)
  <1>1. <<>> \in Seq({}) /\ Len(<<>>) = 0
    OBVIOUS
  <1> QED BY <1>1 DEF Plain, IsSeq

LEMMA Plain1 ==
    ASSUME NEW a, a[1] \notin Marks
    PROVE  Plain(<<a>>)
  <1> DEFINE s == <<a>>
  <1>1. s \in Seq({a}) /\ Len(s) = 1 /\ s[1] = a
    OBVIOUS
  <1> HIDE DEF s
  <1>2. IsSeq(s)
    BY <1>1 DEF IsSeq
  <1>3. \A i \in 1 .. Len(s) : s[i][1] \notin Marks
    BY <1>1
  <1>4. Plain(s)
    BY <1>2, <1>3 DEF Plain
  <1> QED BY <1>4 DEF s

LEMMA Plain2 ==
    ASSUME NEW a, NEW b, a[1] \notin Marks, b[1] \notin Marks
    PROVE  Plain(<<a, b>>)
  <1> DEFINE s == <<a, b>>
  <1>1. s \in Seq({a, b}) /\ Len(s) = 2 /\ s[1] = a /\ s[2] = b
    OBVIOUS
  <1> HIDE DEF s
  <1>2. IsSeq(s)
    BY <1>1 DEF IsSeq
  <1>3. \A i \in 1 .. Len(s) : s[i][1] \notin Marks
    BY <1>1
  <1>4. Plain(s)
    BY <1>2, <1>3 DEF Plain
  <1> QED BY <1>4 DEF s

\* A call that is about to begin.
LEMMA Begun ==
    ASSUME NEW l \in Begins, NEW x, x[2] \in Calls
    PROVE  Shaped(<< <<l, x>> >>) /\ ~ Ends(<< <<l, x>> >>)
  <1> DEFINE f == <<l, x>>
             s == <<f>>
  <1>1. f[1] = l /\ f[2] = x
    OBVIOUS
  <1>2. f[1] # "end_op"
    BY <1>1 DEF Begins
  <1> HIDE DEF f
  <1>3. s \in Seq({f}) /\ Len(s) = 1 /\ s[1] = f
    OBVIOUS
  <1> HIDE DEF s
  <1>4. IsSeq(s)
    BY <1>3 DEF IsSeq
  <1>5. Shaped(s)
    BY <1>1, <1>3, <1>4 DEF Shaped
  <1>6. ~ Ends(s)
    BY <1>2, <1>3 DEF Ends
  <1> QED BY <1>5, <1>6 DEF s, f

\* The frame on top, neither a beginning nor an end, gives way to such ones.
LEMMA Replaced ==
    ASSUME NEW s, Shaped(s), s # <<>>, Head(s)[1] \notin Marks, NEW fs, Plain(fs)
    PROVE  /\ Shaped(fs \o Tail(s))
           /\ Ends(fs \o Tail(s)) <=> Ends(s)
  <1> DEFINE t == Tail(s)
             r == fs \o t
  <1>1. /\ IsSeq(s) /\ IsSeq(t) /\ IsSeq(fs)
        /\ Len(s) \in Nat \ {0} /\ Len(t) = Len(s) - 1 /\ s[1] = Head(s)
        /\ \A i \in 1 .. Len(t) : t[i] = s[i + 1]
    BY TailOfStack DEF Shaped, Plain
  <1>2. /\ IsSeq(r) /\ Len(fs) \in Nat /\ Len(r) = Len(fs) + Len(t)
        /\ \A i \in 1 .. Len(r) : r[i] = IF i <= Len(fs) THEN fs[i] ELSE t[i - Len(fs)]
    BY <1>1, Concatenation
  <1> HIDE DEF r, t
  <1>3. ASSUME NEW i \in 1 .. Len(r), r[i][1] \in Marks
        PROVE  /\ i - Len(fs) + 1 \in 2 .. Len(s)
               /\ r[i] = s[i - Len(fs) + 1]
               /\ i = Len(r) /\ r[i][1] \notin Begins
    <2>1. ~ (i <= Len(fs))
      BY <1>2, <1>3 DEF Plain
    <2>2. /\ i - Len(fs) \in 1 .. Len(t) /\ r[i] = t[i - Len(fs)]
          /\ i - Len(fs) + 1 \in 2 .. Len(s)
      BY <1>1, <1>2, <2>1
    <2>3. r[i] = s[i - Len(fs) + 1]
      BY <1>1, <2>2
    <2>4. i - Len(fs) + 1 = Len(s) /\ s[i - Len(fs) + 1][1] \notin Begins
      <3>1. PICK j \in 2 .. Len(s) : j = i - Len(fs) + 1
        BY <2>2
      <3>2. s[j][1] \in Marks /\ j \in 1 .. Len(s)
        BY <1>1, <1>3, <2>3, <3>1
      <3>3. j = Len(s) /\ (s[j][1] \in Begins => Len(s) = 1)
        BY <3>2 DEF Shaped
      <3> QED BY <1>1, <3>1, <3>3
    <2> QED BY <1>1, <1>2, <2>2, <2>3, <2>4
  <1>4. Shaped(r)
    BY <1>2, <1>3 DEF Shaped, Marks
  <1>5. Ends(r) => Ends(s)
    <2>1. SUFFICES ASSUME NEW i \in 1 .. Len(r), r[i][1] = "end_op"
                   PROVE  Ends(s)
      BY DEF Ends
    <2>2. i - Len(fs) + 1 \in 1 .. Len(s) /\ s[i - Len(fs) + 1][1] = "end_op"
      BY <1>1, <1>3, <2>1 DEF Marks
    <2> QED BY <2>2 DEF Ends
  <1>6. Ends(s) => Ends(r)
    <2>1. SUFFICES ASSUME NEW i \in 1 .. Len(s), s[i][1] = "end_op"
                   PROVE  Ends(r)
      BY DEF Ends
    <2>2. i # 1
      BY <1>1, <2>1 DEF Marks
    <2>3. i - 1 \in 1 .. Len(t) /\ t[i - 1] = s[i]
      BY <1>1, <2>2
    <2>4. i - 1 + Len(fs) \in 1 .. Len(r) /\ r[i - 1 + Len(fs)] = s[i]
      BY <1>1, <1>2, <2>3
    <2> QED BY <2>1, <2>4 DEF Ends
  <1> QED BY <1>4, <1>5, <1>6 DEF r, t

\* A stack with a beginning on top is that frame only.
LEMMA AtBeginning ==
    ASSUME NEW s, Shaped(s), s # <<>>, Head(s)[1] \in Begins
    PROVE  Len(s) = 1 /\ Tail(s) = <<>> /\ ~ Ends(s) /\ Head(s)[2][2] \in Calls
  <1>1. IsSeq(s) /\ Len(s) \in Nat \ {0} /\ s[1] = Head(s)
    BY TailOfStack DEF Shaped
  <1>2. 1 \in 1 .. Len(s)
    BY <1>1
  <1>3. Len(s) = 1 /\ s[1][2][2] \in Calls
    BY <1>1, <1>2 DEF Shaped
  <1>4. Tail(s) = <<>>
    <2>1. IsSeq(Tail(s)) /\ Len(Tail(s)) = 0
      BY <1>1, <1>3, TailOfStack
    <2> QED BY <2>1, EmptyStack
  <1> QED BY <1>1, <1>3, <1>4 DEF Ends, Begins

\* So is one with an end_op() on top.
LEMMA AtEnd ==
    ASSUME NEW s, Shaped(s), s # <<>>, Head(s)[1] = "end_op"
    PROVE  Tail(s) = <<>> /\ Ends(s)
  <1>1. IsSeq(s) /\ Len(s) \in Nat \ {0} /\ s[1] = Head(s)
    BY TailOfStack DEF Shaped
  <1>2. 1 \in 1 .. Len(s)
    BY <1>1
  <1>3. Len(s) = 1
    BY <1>1, <1>2 DEF Shaped, Marks
  <1>4. Tail(s) = <<>>
    <2>1. IsSeq(Tail(s)) /\ Len(Tail(s)) = 0
      BY <1>1, <1>3, TailOfStack
    <2> QED BY <2>1, EmptyStack
  <1> QED BY <1>1, <1>2, <1>4 DEF Ends

LEMMA WithoutTail ==
    ASSUME NEW s, IsSeq(s)
    PROVE  s \o <<>> = s
  <1>1. PICK S : s \in Seq(S)
    BY DEF IsSeq
  <1> QED BY <1>1

-----------------------------------------------------------------------------
(* The invariant *)

Active == {p \in Proc : Ends(todo[p])}
Stacks ==
    /\ todo = [p \in Proc |-> todo[p]]
    /\ \A p \in Proc : Shaped(todo[p])
Inv ==
    /\ Stacks
    /\ committing \in BOOLEAN
    /\ outstanding = Cardinality(Active)
    /\ committing => outstanding = 0

LEMMA InTransactionIsEnds ==
    ASSUME NEW p \in Proc, Shaped(todo[p])
    PROVE  InTransaction(p) <=> Ends(todo[p])
  <1>1. PICK S : todo[p] \in Seq(S)
    BY DEF Shaped, IsSeq
  <1>2. DOMAIN todo[p] = 1 .. Len(todo[p])
    BY <1>1
  <1> QED BY <1>2 DEF InTransaction, Ends

LEMMA ActiveIsFinite ==
    /\ IsFiniteSet(Active) /\ Cardinality(Active) \in Nat
    /\ Cardinality(Active) = 0 <=> Active = {}
  <1>1. IsFiniteSet(Active)
    BY JournalAssumption, FS_Subset DEF Active
  <1> QED BY <1>1, FS_CardinalityType, FS_EmptySet

LEMMA InvMeans ==
    ASSUME Inv
    PROVE  NoCallDuringCommit
  <1>1. SUFFICES ASSUME committing, NEW p \in Proc PROVE ~ InTransaction(p)
    BY DEF NoCallDuringCommit
  <1>2. Active = {} /\ Shaped(todo[p])
    BY <1>1, ActiveIsFinite DEF Inv, Stacks
  <1> QED BY <1>2, InTransactionIsEnds DEF Active

\* One stack changes, and still has an end_op() if it had one.
LEMMA StackChanges ==
    ASSUME Inv, NEW p \in Proc, NEW s, todo' = [todo EXCEPT ![p] = s],
           Shaped(s), Ends(s) <=> Ends(todo[p])
    PROVE  Stacks' /\ Active' = Active
  <1>1. \A q \in Proc : todo'[q] = IF q = p THEN s ELSE todo[q]
    BY DEF Inv, Stacks
  <1>2. todo' = [q \in Proc |-> todo'[q]]
    BY DEF Inv, Stacks
  <1>3. \A q \in Proc : Shaped(todo[q])
    BY DEF Inv, Stacks
  <1>4. \A q \in Proc : Shaped(todo'[q]) /\ (Ends(todo'[q]) <=> Ends(todo[q]))
    BY <1>1, <1>3
  <1> QED BY <1>2, <1>4 DEF Stacks, Active

\* Most steps replace a frame that is none of the marks by others.
LEMMA GoesOn ==
    ASSUME Inv, NEW p \in Proc, NEW l, At(p, l), l \notin Marks, NEW fs, Plain(fs), Do(p, fs)
    PROVE  Stacks' /\ Active' = Active
  <1>1. Shaped(todo[p]) /\ todo[p] # <<>> /\ Head(todo[p])[1] \notin Marks
    BY DEF Inv, Stacks, At
  <1> DEFINE s == fs \o Tail(todo[p])
  <1>2. Shaped(s) /\ (Ends(s) <=> Ends(todo[p]))
    BY <1>1, Replaced
  <1>3. todo' = [todo EXCEPT ![p] = s]
    BY DEF Do
  <1> HIDE DEF s
  <1> QED BY <1>2, <1>3, StackChanges

\* wakeup(&log) lets the others begin, and leaves their ends alone.
LEMMA Wakes ==
    ASSUME Inv, NEW p \in Proc, todo' = Woken(p, <<>>), NEW s, Shaped(s), s = <<>> \o Tail(todo[p])
    PROVE  /\ Stacks'
           /\ Active' = {q \in Proc : IF q = p THEN Ends(s) ELSE Ends(todo[q])}
  <1>1. \A q \in Proc : todo'[q] = IF q = p THEN s
                                  ELSE IF At(q, "asleep") THEN << <<"begin_op", Arg(q)>> >>
                                  ELSE todo[q]
    BY DEF Woken
  <1>2. todo' = [q \in Proc |-> todo'[q]]
    BY DEF Woken
  <1>3. ASSUME NEW q \in Proc, q # p, At(q, "asleep")
        PROVE  /\ Shaped(<< <<"begin_op", Arg(q)>> >>)
               /\ ~ Ends(<< <<"begin_op", Arg(q)>> >>) /\ ~ Ends(todo[q])
    <2>1. Shaped(todo[q]) /\ todo[q] # <<>> /\ Head(todo[q])[1] \in Begins
      BY <1>3 DEF Inv, Stacks, At, Begins
    <2>2. ~ Ends(todo[q]) /\ Arg(q)[2] \in Calls
      BY <2>1, AtBeginning DEF Arg
    <2>3. "begin_op" \in Begins
      BY DEF Begins
    <2> QED BY <2>2, <2>3, Begun
  <1>4. \A q \in Proc : /\ Shaped(todo'[q])
                        /\ Ends(todo'[q]) <=> IF q = p THEN Ends(s) ELSE Ends(todo[q])
    <2> TAKE q \in Proc
    <2>1. CASE q = p
      BY <1>1, <2>1
    <2>2. CASE q # p /\ At(q, "asleep")
      BY <1>1, <1>3, <2>2
    <2>3. CASE q # p /\ ~ At(q, "asleep")
      BY <1>1, <2>3 DEF Inv, Stacks
    <2> QED BY <2>1, <2>2, <2>3
  <1> QED BY <1>2, <1>4 DEF Stacks, Active

-----------------------------------------------------------------------------
(* Which frames are plain *)

LEMMA Plain7 ==
    ASSUME NEW a, NEW b, NEW c, NEW d, NEW e, NEW f, NEW g,
           \A x \in {a, b, c, d, e, f, g} : x[1] \notin Marks
    PROVE  Plain(<<a, b, c, d, e, f, g>>)
  <1> DEFINE S == {a, b, c, d, e, f, g}
             s == <<a, b, c, d, e, f, g>>
  <1>1. s \in Seq(S) /\ Len(s) = 7
    OBVIOUS
  <1> HIDE DEF s, S
  <1>2. \A k \in 1 .. Len(s) : s[k] \in S
    BY <1>1
  <1>3. IsSeq(s)
    BY <1>1 DEF IsSeq
  <1>4. Plain(s)
    BY <1>2, <1>3 DEF Plain, S
  <1> QED BY <1>4 DEF s

LEMMA Plain9 ==
    ASSUME NEW a, NEW b, NEW c, NEW d, NEW e, NEW f, NEW g, NEW h, NEW i,
           \A x \in {a, b, c, d, e, f, g, h, i} : x[1] \notin Marks
    PROVE  Plain(<<a, b, c, d, e, f, g, h, i>>)
  <1> DEFINE S == {a, b, c, d, e, f, g, h, i}
             s == <<a, b, c, d, e, f, g, h, i>>
  <1>1. s \in Seq(S) /\ Len(s) = 9
    OBVIOUS
  <1> HIDE DEF s, S
  <1>2. \A k \in 1 .. Len(s) : s[k] \in S
    BY <1>1
  <1>3. IsSeq(s)
    BY <1>1 DEF IsSeq
  <1>4. Plain(s)
    BY <1>2, <1>3 DEF Plain, S
  <1> QED BY <1>4 DEF s

LEMMA Plain10 ==
    ASSUME NEW a, NEW b, NEW c, NEW d, NEW e, NEW f, NEW g, NEW h, NEW i, NEW j,
           \A x \in {a, b, c, d, e, f, g, h, i, j} : x[1] \notin Marks
    PROVE  Plain(<<a, b, c, d, e, f, g, h, i, j>>)
  <1> DEFINE S == {a, b, c, d, e, f, g, h, i, j}
             s == <<a, b, c, d, e, f, g, h, i, j>>
  <1>1. s \in Seq(S) /\ Len(s) = 10
    OBVIOUS
  <1> HIDE DEF s, S
  <1>2. \A k \in 1 .. Len(s) : s[k] \in S
    BY <1>1
  <1>3. IsSeq(s)
    BY <1>1 DEF IsSeq
  <1>4. Plain(s)
    BY <1>2, <1>3 DEF Plain, S
  <1> QED BY <1>4 DEF s

LEMMA PlainInitlog == Plain(initlog)
  <1>1. \A x \in {<<"bread", Header>>, <<"read_head", Header>>, <<"brelse", Header>>,
                  <<"install", 1>>, <<"clear", 0>>, <<"write_head", 0>>, <<"up", 0>>} :
            x[1] \notin Marks
    BY DEF Marks, Begins
  <1> QED BY <1>1, Plain9 DEF initlog

LEMMA PlainCommit == Plain(commit)
  <1>1. \A x \in {<<"bread", Header>>, <<"write_log", 1>>, <<"brelse", Header>>, <<"install", 1>>,
                  <<"clear", 0>>, <<"write_head", 0>>, <<"committed", 0>>} :
            x[1] \notin Marks
    BY DEF Marks, Begins
  <1>2. CASE lh = <<>>
    BY <1>1, <1>2, Plain1 DEF commit
  <1>3. CASE lh # <<>>
    BY <1>1, <1>3, Plain10 DEF commit
  <1> QED BY <1>2, <1>3

LEMMA PlainCopying ==
    ASSUME NEW loop, NEW copy, loop \notin Marks, copy \notin Marks, NEW t, NEW to
    PROVE  Plain(Copying(loop, copy, t, to))
  <1>1. \A x \in {<<"bread", t>>, <<"bread", lh[t]>>, <<copy, t>>, <<"iderw", to>>,
                  <<"brelse", t>>, <<"brelse", lh[t]>>, <<loop, t + 1>>} :
            x[1] \notin Marks
    BY DEF Marks, Begins
  <1>2. CASE t > Len(lh)
    BY <1>2, Plain0 DEF Copying
  <1>3. CASE ~ (t > Len(lh))
    BY <1>1, <1>3, Plain7 DEF Copying
  <1> QED BY <1>2, <1>3

\* What a call does ends with end_op(), and only there.
LEMMA BodyEnds ==
    ASSUME NEW ws \in Calls, NEW id
    PROVE  Shaped(Body(id, ws)) /\ Ends(Body(id, ws))
  <1> DEFINE n == 3 * Len(ws) + 1
             s == Body(id, ws)
  <1>1. Len(ws) \in Nat
    BY JournalAssumption
  <1>2. n \in Nat /\ n >= 1
    BY <1>1
  <1> HIDE DEF n
  <1>3. /\ s = [k \in 1 .. n |-> s[k]]
        /\ \A k \in 1 .. n : IF k = n THEN s[k] = <<"end_op", 0>>
                             ELSE s[k][1] \in {"bread", "log_write", "brelse"}
    BY DEF Body, n
  <1>4. IsSeq(s) /\ Len(s) = n
    <2>1. s \in Seq({s[k] : k \in 1 .. n}) /\ Len(s) = n
      <3> HIDE DEF s
      <3> QED BY <1>2, <1>3
    <2> QED BY <2>1 DEF IsSeq
  <1> HIDE DEF s
  <1>5. s[n][1] = "end_op" /\ n \in 1 .. n
    BY <1>2, <1>3
  <1>6. \A k \in 1 .. n : /\ s[k][1] \in Marks => k = n
                          /\ s[k][1] \notin Begins
    BY <1>3, <1>5 DEF Marks, Begins
  <1> QED BY <1>4, <1>5, <1>6 DEF Shaped, Ends, s

-----------------------------------------------------------------------------
(* Steps *)

\* What is left to say of a step that goes on in the same calls.
LEMMA SameCalls ==
    ASSUME Inv, Stacks', Active' = Active, UNCHANGED <<outstanding, committing>>
    PROVE  Inv' /\ Active' = Active
  BY DEF Inv

LEMMA DiskStep ==
    ASSUME Inv, NEW p \in Proc, Iderw(p) \/ IderwReturns(p)
    PROVE  Inv' /\ Active' = Active
  <1>1. CASE Iderw(p)
    <2>1. At(p, "iderw") /\ "iderw" \notin Marks /\ Do(p, << <<"sleep", Arg(p)>> >>)
          /\ UNCHANGED <<outstanding, committing>>
      BY <1>1 DEF Iderw, Marks, Begins, log
    <2>2. Plain(<< <<"sleep", Arg(p)>> >>)
      BY Plain1 DEF Marks, Begins
    <2> QED BY <2>1, <2>2, GoesOn, SameCalls
  <1>2. CASE IderwReturns(p)
    <2>1. At(p, "sleep") /\ "sleep" \notin Marks /\ Do(p, <<>>)
          /\ UNCHANGED <<outstanding, committing>>
      BY <1>2 DEF IderwReturns, Done, Marks, Begins, log
    <2> QED BY <2>1, Plain0, GoesOn, SameCalls
  <1> QED BY <1>1, <1>2

LEMMA BufferStep ==
    ASSUME Inv, NEW p \in Proc,
           BgetFinds(p) \/ BgetRecycles(p) \/ Acquire(p) \/ Brelse(p)
    PROVE  Inv' /\ Active' = Active
  <1>1. CASE BgetFinds(p) \/ BgetRecycles(p)
    <2>1. At(p, "bread") /\ "bread" \notin Marks /\ Do(p, << <<"acquire", Arg(p)>> >>)
          /\ UNCHANGED <<outstanding, committing>>
      BY <1>1 DEF BgetFinds, BgetRecycles, Marks, Begins, log
    <2>2. Plain(<< <<"acquire", Arg(p)>> >>)
      BY Plain1 DEF Marks, Begins
    <2> QED BY <2>1, <2>2, GoesOn, SameCalls
  <1>2. CASE Acquire(p)
    <2>1. At(p, "acquire") /\ "acquire" \notin Marks
          /\ (Do(p, <<>>) \/ Do(p, << <<"iderw", Arg(p)>> >>))
          /\ UNCHANGED <<outstanding, committing>>
      BY <1>2 DEF Acquire, Done, Marks, Begins, log
    <2>2. Plain(<< <<"iderw", Arg(p)>> >>)
      BY Plain1 DEF Marks, Begins
    <2> QED BY <2>1, <2>2, Plain0, GoesOn, SameCalls
  <1>3. CASE Brelse(p)
    <2>1. At(p, "brelse") /\ "brelse" \notin Marks /\ Do(p, <<>>)
          /\ UNCHANGED <<outstanding, committing>>
      BY <1>3 DEF Brelse, Done, Marks, Begins, log
    <2> QED BY <2>1, Plain0, GoesOn, SameCalls
  <1> QED BY <1>1, <1>2, <1>3

\* The steps of a commit, of recovery and of log_write().
LEMMA LogStep ==
    ASSUME Inv, NEW p \in Proc,
           \/ LogWrite(p) \/ WriteLog(p) \/ CopyToLog(p) \/ InstallTrans(p) \/ CopyHome(p)
           \/ Clear(p) \/ WriteHead(p) \/ ReadHead(p) \/ Up(p)
    PROVE  Inv' /\ Active' = Active
  <1>1. CASE LogWrite(p) \/ CopyToLog(p) \/ CopyHome(p) \/ Clear(p) \/ ReadHead(p) \/ Up(p)
    <2>1. PICK l \in {"log_write", "to_log", "to_home", "clear", "read_head", "up"} :
            At(p, l) /\ Do(p, <<>>) /\ UNCHANGED <<outstanding, committing>>
      BY <1>1 DEF LogWrite, CopyToLog, CopyHome, Clear, ReadHead, Up, Done, log
    <2>2. l \notin Marks
      BY DEF Marks, Begins
    <2> QED BY <2>1, <2>2, Plain0, GoesOn, SameCalls
  <1>2. CASE WriteLog(p)
    <2>1. /\ At(p, "write_log") /\ "write_log" \notin Marks /\ "to_log" \notin Marks
          /\ Do(p, Copying("write_log", "to_log", Arg(p), Arg(p)))
          /\ UNCHANGED <<outstanding, committing>>
      BY <1>2 DEF WriteLog, Marks, Begins, log
    <2>2. Plain(Copying("write_log", "to_log", Arg(p), Arg(p)))
      BY <2>1, PlainCopying
    <2> QED BY <2>1, <2>2, GoesOn, SameCalls
  <1>3. CASE InstallTrans(p)
    <2> DEFINE to == IF Arg(p) > Len(lh) THEN 0 ELSE lh[Arg(p)]
    <2>1. /\ At(p, "install") /\ "install" \notin Marks /\ "to_home" \notin Marks
          /\ Do(p, Copying("install", "to_home", Arg(p), to))
          /\ UNCHANGED <<outstanding, committing>>
      BY <1>3 DEF InstallTrans, Marks, Begins, log
    <2>2. Plain(Copying("install", "to_home", Arg(p), to))
      BY <2>1, PlainCopying
    <2> QED BY <2>1, <2>2, GoesOn, SameCalls
  <1>4. CASE WriteHead(p)
    <2>1. At(p, "write_head") /\ "write_head" \notin Marks /\ Do(p, << <<"iderw", Header>> >>)
          /\ UNCHANGED <<outstanding, committing>>
      BY <1>4 DEF WriteHead, Marks, Begins, log
    <2>2. Plain(<< <<"iderw", Header>> >>)
      BY Plain1 DEF Marks, Begins
    <2> QED BY <2>1, <2>2, GoesOn, SameCalls
  <1> QED BY <1>1, <1>2, <1>3, <1>4

\* A process that does nothing makes a call.
LEMMA CallStep ==
    ASSUME Inv, NEW p \in Proc, CallWrites(p) \/ CallReads(p)
    PROVE  Inv' /\ Active' = Active
  <1>1. ~ Ends(todo[p])
    <2>1. todo[p] = <<>>
      BY DEF CallWrites, CallReads
    <2> QED BY <2>1, Plain0, PlainIsShaped
  <1>2. PICK s : todo' = [todo EXCEPT ![p] = s] /\ Shaped(s) /\ ~ Ends(s)
    <2>1. CASE CallWrites(p)
      <3>1. PICK ws \in Calls : todo' = [todo EXCEPT ![p] = << <<"begin_op", <<calls + 1, ws>>>> >>]
        BY <2>1 DEF CallWrites
      <3>2. "begin_op" \in Begins /\ <<calls + 1, ws>>[2] \in Calls
        BY DEF Begins
      <3>3. Shaped(<< <<"begin_op", <<calls + 1, ws>>>> >>)
            /\ ~ Ends(<< <<"begin_op", <<calls + 1, ws>>>> >>)
        BY <3>2, Begun
      <3> QED BY <3>1, <3>3
    <2>2. CASE CallReads(p)
      <3>1. PICK b \in Homes : todo' = [todo EXCEPT ![p] = << <<"bread", b>>, <<"brelse", b>> >>]
        BY <2>2 DEF CallReads
      <3>2. Plain(<< <<"bread", b>>, <<"brelse", b>> >>)
        BY Plain2 DEF Marks, Begins
      <3> QED BY <3>1, <3>2, PlainIsShaped
    <2> QED BY <2>1, <2>2
  <1>3. Stacks' /\ Active' = Active
    BY <1>1, <1>2, StackChanges
  <1>4. UNCHANGED <<outstanding, committing>>
    BY DEF CallWrites, CallReads, log
  <1> QED BY <1>3, <1>4, SameCalls

\* A call begins only while nobody commits, and is counted.
LEMMA BeginStep ==
    ASSUME Inv, NEW p \in Proc, BeginOp(p)
    PROVE  Inv' /\ Active' = Active \cup {p} /\ p \notin Active
  <1> DEFINE s == Body(Arg(p)[1], Arg(p)[2])
  <1>1. Shaped(todo[p]) /\ todo[p] # <<>> /\ Head(todo[p])[1] \in Begins
    BY DEF Inv, Stacks, BeginOp, At, Begins
  <1>2. Tail(todo[p]) = <<>> /\ ~ Ends(todo[p]) /\ Arg(p)[2] \in Calls
    BY <1>1, AtBeginning DEF Arg
  <1>3. Shaped(s) /\ Ends(s)
    BY <1>2, BodyEnds
  <1>4. s \o Tail(todo[p]) = s
    BY <1>2, <1>3, WithoutTail DEF Shaped
  <1>5. todo' = [todo EXCEPT ![p] = s]
    BY <1>4 DEF BeginOp, Do
  <1> HIDE DEF s
  <1>6. \A q \in Proc : todo'[q] = IF q = p THEN s ELSE todo[q]
    BY <1>5 DEF Inv, Stacks
  <1>7. Stacks'
    BY <1>3, <1>5, <1>6 DEF Inv, Stacks
  <1>8. Active' = Active \cup {p} /\ p \notin Active
    BY <1>2, <1>3, <1>6 DEF Active
  <1>9. ~ committing /\ committing' = committing /\ outstanding' = outstanding + 1
    BY DEF BeginOp, MustWait
  <1>10. Cardinality(Active') = Cardinality(Active) + 1
    BY <1>8, ActiveIsFinite, FS_AddElement
  <1> QED BY <1>7, <1>8, <1>9, <1>10 DEF Inv

LEMMA BeginSleepStep ==
    ASSUME Inv, NEW p \in Proc, BeginOpSleeps(p)
    PROVE  Inv' /\ Active' = Active
  <1> DEFINE s == << <<"asleep", Arg(p)>> >>
  <1>1. Shaped(todo[p]) /\ todo[p] # <<>> /\ Head(todo[p])[1] \in Begins
    BY DEF Inv, Stacks, BeginOpSleeps, At, Begins
  <1>2. Tail(todo[p]) = <<>> /\ ~ Ends(todo[p]) /\ Arg(p)[2] \in Calls
    BY <1>1, AtBeginning DEF Arg
  <1>3. "asleep" \in Begins
    BY DEF Begins
  <1>4. Shaped(s) /\ ~ Ends(s)
    BY <1>2, <1>3, Begun
  <1>5. s \o Tail(todo[p]) = s
    BY <1>2, <1>4, WithoutTail DEF Shaped
  <1>6. todo' = [todo EXCEPT ![p] = s]
    BY <1>5 DEF BeginOpSleeps, Do
  <1> HIDE DEF s
  <1>7. Stacks' /\ Active' = Active
    BY <1>2, <1>4, <1>6, StackChanges
  <1>8. UNCHANGED <<outstanding, committing>>
    BY DEF BeginOpSleeps, log
  <1> QED BY <1>7, <1>8, SameCalls

\* The last call that ends commits; then no call is left.
LEMMA EndStep ==
    ASSUME Inv, NEW p \in Proc, EndOp(p)
    PROVE  Inv' /\ Active' = Active \ {p} /\ p \in Active
  <1>1. Shaped(todo[p]) /\ todo[p] # <<>> /\ Head(todo[p])[1] = "end_op"
    BY DEF Inv, Stacks, EndOp, At
  <1>2. Tail(todo[p]) = <<>> /\ Ends(todo[p])
    BY <1>1, AtEnd
  <1>3. Stacks' /\ Active' = Active \ {p}
    <2>1. CASE outstanding = 1
      <3>1. Plain(commit) /\ commit \o Tail(todo[p]) = commit
        BY <1>2, PlainCommit, WithoutTail DEF Plain
      <3>2. todo' = [todo EXCEPT ![p] = commit] /\ Shaped(commit) /\ ~ Ends(commit)
        BY <2>1, <3>1, PlainIsShaped DEF EndOp, Do
      <3>3. \A q \in Proc : todo'[q] = IF q = p THEN commit ELSE todo[q]
        BY <3>2 DEF Inv, Stacks
      <3>4. Stacks'
        BY <3>2, <3>3 DEF Inv, Stacks
      <3> QED BY <3>2, <3>3, <3>4 DEF Active
    <2>2. CASE outstanding # 1
      <3>1. todo' = Woken(p, <<>>)
        BY <2>2 DEF EndOp
      <3>2. <<>> \o Tail(todo[p]) = <<>>
        BY <1>2, Plain0, WithoutTail DEF Plain
      <3>3. Shaped(<<>>) /\ ~ Ends(<<>>)
        BY Plain0, PlainIsShaped
      <3>4. Stacks' /\ Active' = {q \in Proc : IF q = p THEN Ends(<<>>) ELSE Ends(todo[q])}
        BY <3>1, <3>2, <3>3, Wakes
      <3> QED BY <3>3, <3>4 DEF Active
    <2> QED BY <2>1, <2>2
  <1>4. Cardinality(Active') = Cardinality(Active) - 1
    BY <1>2, <1>3, ActiveIsFinite, FS_RemoveElement DEF Active
  <1>5. /\ outstanding' = outstanding - 1
        /\ committing' = (outstanding = 1)
    BY DEF EndOp
  <1>6. outstanding \in Nat /\ outstanding = Cardinality(Active)
    BY ActiveIsFinite DEF Inv
  <1>7. outstanding' = Cardinality(Active')
    BY <1>4, <1>5, <1>6
  <1>8. committing' \in BOOLEAN
    BY <1>5
  <1>9. committing' => outstanding' = 0
    <2>1. CASE outstanding = 1
      BY <1>5, <2>1
    <2>2. CASE outstanding # 1
      BY <1>5, <2>2
    <2> QED BY <2>1, <2>2
  <1>10. Stacks'
    BY <1>3
  <1>11. p \in Active
    BY <1>2 DEF Active
  <1> QED BY <1>3, <1>7, <1>8, <1>9, <1>10, <1>11 DEF Inv

LEMMA CommittedStep ==
    ASSUME Inv, NEW p \in Proc, Committed(p)
    PROVE  Inv' /\ Active' = Active
  <1> DEFINE s == <<>> \o Tail(todo[p])
  <1>1. Shaped(todo[p]) /\ todo[p] # <<>> /\ Head(todo[p])[1] \notin Marks
    BY DEF Inv, Stacks, Committed, At, Marks, Begins
  <1>2. Shaped(s) /\ (Ends(s) <=> Ends(todo[p]))
    BY <1>1, Plain0, Replaced
  <1>3. todo' = Woken(p, <<>>)
    BY DEF Committed
  <1>4. s = <<>> \o Tail(todo[p])
    OBVIOUS
  <1> HIDE DEF s
  <1>5. Stacks' /\ Active' = {q \in Proc : IF q = p THEN Ends(s) ELSE Ends(todo[q])}
    BY <1>2, <1>3, <1>4, Wakes
  <1>6. Active' = Active
    BY <1>2, <1>5 DEF Active
  <1>7. committing' = FALSE /\ outstanding' = outstanding
    BY DEF Committed
  <1> QED BY <1>5, <1>6, <1>7 DEF Inv

\* After a crash, as at first, one process recovers and no call is there.
LEMMA Boots ==
    /\ Booting = [p \in Proc |-> Booting[p]]
    /\ \A p \in Proc : Shaped(Booting[p]) /\ ~ Ends(Booting[p])
  <1>1. \A p \in Proc : Plain(Booting[p])
    BY PlainInitlog, Plain0 DEF Booting
  <1> QED BY <1>1, PlainIsShaped DEF Booting

LEMMA InitInv ==
    ASSUME Init
    PROVE  Inv /\ Active = {}
  <1>1. Stacks /\ Active = {}
    BY Boots DEF Init, Stacks, Active
  <1>2. Cardinality(Active) = 0
    BY <1>1, FS_EmptySet
  <1> QED BY <1>1, <1>2 DEF Init, Inv

LEMMA CrashStep ==
    ASSUME Inv, Crash
    PROVE  Inv' /\ Active' = {}
  <1>1. Stacks' /\ Active' = {}
    BY Boots DEF Crash, Stacks, Active
  <1>2. Cardinality(Active') = 0
    BY <1>1, FS_EmptySet
  <1> QED BY <1>1, <1>2 DEF Crash, Inv

LEMMA NextInv ==
    ASSUME Inv, [Next]_vars
    PROVE  Inv'
  <1>1. CASE UNCHANGED vars
    BY <1>1 DEF vars, log, Inv, Stacks, Active
  <1>2. CASE Ideintr
    BY <1>2 DEF Ideintr, log, Inv, Stacks, Active
  <1>3. CASE Crash
    BY <1>3, CrashStep
  <1>4. ASSUME NEW p \in Proc, Step(p) \/ CallWrites(p) \/ CallReads(p)
        PROVE  Inv'
    BY <1>4, DiskStep, BufferStep, LogStep, CallStep, BeginStep, BeginSleepStep, EndStep,
       CommittedStep DEF Step
  <1> QED BY <1>1, <1>2, <1>3, <1>4 DEF Next

\* A commit takes no part of a call: while commit() copies and installs the
\* log, no process is between begin_op() and end_op(), so none has written one
\* of its blocks and not the others (log.c:11-15), whatever the crashes.
THEOREM CommitsAlone == Spec => []NoCallDuringCommit
  <1>1. Init => Inv
    BY InitInv
  <1>2. Inv /\ [Next]_vars => Inv'
    BY NextInv
  <1>3. Inv => NoCallDuringCommit
    BY InvMeans
  <1> QED BY <1>1, <1>2, <1>3, PTL DEF Spec

-----------------------------------------------------------------------------
(* Stacks, frame by frame *)

Push(f, r) == <<f>> \o r

LEMMA PushIs ==
    ASSUME NEW f, NEW r, IsSeq(r)
    PROVE  /\ IsSeq(Push(f, r)) /\ Push(f, r) # <<>>
           /\ Head(Push(f, r)) = f /\ Tail(Push(f, r)) = r
  <1>1. PICK S : r \in Seq(S)
    BY DEF IsSeq
  <1> DEFINE T == S \cup {f}
  <1>2. r \in Seq(T) /\ <<f>> \in Seq(T) /\ Len(<<f>>) = 1 /\ <<f>>[1] = f
    BY <1>1
  <1> DEFINE s == <<f>> \o r
  <1>3. s \in Seq(T) /\ Len(s) = 1 + Len(r) /\ Len(r) \in Nat
    BY <1>2
  <1>4. s # <<>> /\ Head(s) = f
    BY <1>2
  <1>5. Tail(s) = r
    <2>1. Tail(s) \in Seq(T) /\ Len(Tail(s)) = Len(r)
      BY <1>3, <1>4
    <2>2. \A i \in 1 .. Len(r) : Tail(s)[i] = r[i]
      BY <1>2, <1>3
    <2> HIDE DEF s
    <2> QED BY <1>2, <2>1, <2>2
  <1> QED BY <1>3, <1>4, <1>5 DEF Push, IsSeq

LEMMA NothingIsSeq == IsSeq(<<>>)
  BY Plain0 DEF Plain

LEMMA NoFrames ==
    ASSUME NEW r, IsSeq(r)
    PROVE  <<>> \o r = r
  <1>1. PICK S : r \in Seq(S)
    BY DEF IsSeq
  <1> QED BY <1>1

LEMMA SameSeq ==
    ASSUME NEW s, NEW t, IsSeq(s), IsSeq(t), Len(s) = Len(t), \A i \in 1 .. Len(s) : s[i] = t[i]
    PROVE  s = t
  <1>1. PICK S : s \in Seq(S)
    BY DEF IsSeq
  <1>2. PICK T : t \in Seq(T)
    BY DEF IsSeq
  <1>3. s \in Seq(S \cup T) /\ t \in Seq(S \cup T)
    BY <1>1, <1>2
  <1> QED BY <1>3

LEMMA PushAt ==
    ASSUME NEW f, NEW r, IsSeq(r)
    PROVE  /\ IsSeq(Push(f, r))
           /\ Len(r) \in Nat /\ Len(Push(f, r)) = 1 + Len(r)
           /\ \A i \in 1 .. 1 + Len(r) : Push(f, r)[i] = IF i = 1 THEN f ELSE r[i - 1]
  <1> DEFINE s == <<f>>
  <1>1. s \in Seq({f}) /\ Len(s) = 1 /\ s[1] = f
    OBVIOUS
  <1> HIDE DEF s
  <1>2. IsSeq(s)
    BY <1>1 DEF IsSeq
  <1>3. /\ IsSeq(s \o r) /\ Len(r) \in Nat /\ Len(s \o r) = 1 + Len(r)
        /\ \A i \in 1 .. Len(s \o r) : (s \o r)[i] = IF i <= 1 THEN s[i] ELSE r[i - 1]
    BY <1>1, <1>2, Concatenation
  <1>4. \A i \in 1 .. 1 + Len(r) : (s \o r)[i] = IF i = 1 THEN f ELSE r[i - 1]
    BY <1>1, <1>3
  <1>5. s \o r = Push(f, r)
    BY DEF s, Push
  <1> HIDE DEF Push
  <1> QED BY <1>3, <1>4, <1>5

\* Frames go on a stack one by one.
LEMMA FirstFrame ==
    ASSUME NEW s, NEW r, IsSeq(s), IsSeq(r), s # <<>>
    PROVE  s \o r = Push(Head(s), Tail(s) \o r)
  <1> DEFINE f == Head(s)
             t == Tail(s)
             u == t \o r
             x == s \o r
             y == Push(f, u)
  <1>1. /\ IsSeq(t) /\ Len(s) \in Nat \ {0} /\ Len(t) = Len(s) - 1 /\ f = s[1]
        /\ \A i \in 1 .. Len(t) : t[i] = s[i + 1]
    BY TailOfStack
  <1> HIDE DEF t, f
  <1>2. /\ IsSeq(u) /\ Len(r) \in Nat /\ Len(u) = Len(t) + Len(r)
        /\ \A i \in 1 .. Len(u) : u[i] = IF i <= Len(t) THEN t[i] ELSE r[i - Len(t)]
    BY <1>1, Concatenation
  <1> HIDE DEF u
  <1>3. /\ IsSeq(y) /\ Len(y) = 1 + Len(u)
        /\ \A i \in 1 .. Len(y) : y[i] = IF i = 1 THEN f ELSE u[i - 1]
    BY <1>2, PushAt
  <1>4. /\ IsSeq(x) /\ Len(x) = Len(s) + Len(r)
        /\ \A i \in 1 .. Len(x) : x[i] = IF i <= Len(s) THEN s[i] ELSE r[i - Len(s)]
    BY Concatenation
  <1> HIDE DEF x, y
  <1>5. Len(x) = Len(y)
    BY <1>1, <1>2, <1>3, <1>4
  <1>6. \A i \in 1 .. Len(x) : x[i] = y[i]
    <2>1. TAKE i \in 1 .. Len(x)
    <2>2. i \in 1 .. Len(y) /\ i \in Nat
      BY <1>1, <1>2, <1>4, <1>5
    <2>3. CASE i = 1
      BY <1>1, <1>2, <1>3, <1>4, <2>2, <2>3
    <2>4. CASE i # 1 /\ i <= Len(s)
      <3>1. i - 1 \in 1 .. Len(u) /\ i - 1 \in 1 .. Len(t) /\ i - 1 + 1 = i
        BY <1>1, <1>2, <2>2, <2>4
      <3>2. u[i - 1] = t[i - 1] /\ t[i - 1] = s[i - 1 + 1]
        BY <1>1, <1>2, <3>1
      <3> QED BY <1>3, <1>4, <2>2, <2>4, <3>1, <3>2
    <2>5. CASE i > Len(s)
      <3>1. i - 1 \in 1 .. Len(u) /\ ~ (i - 1 <= Len(t)) /\ i # 1 /\ i - 1 - Len(t) = i - Len(s)
        BY <1>1, <1>2, <1>3, <2>2, <2>5
      <3>2. u[i - 1] = r[i - 1 - Len(t)] /\ x[i] = r[i - Len(s)] /\ y[i] = u[i - 1]
        BY <1>1, <1>2, <1>3, <1>4, <2>2, <2>5, <3>1
      <3> QED BY <3>1, <3>2
    <2> QED BY <1>1, <2>2, <2>3, <2>4, <2>5
  <1>7. x = y
    BY <1>3, <1>4, <1>5, <1>6, SameSeq
  <1> QED BY <1>7 DEF x, y, u, f, t

LEMMA Frames2 ==
    ASSUME NEW a, NEW b, NEW r, IsSeq(r)
    PROVE  <<a, b>> \o r =
           Push(a, Push(b, r))
  <1> DEFINE S == {a, b}
             s1 == <<a, b>>
             s2 == <<b>>
  <1>1. s1 \in Seq(S) /\ Head(s1) = a /\ Tail(s1) = s2
    OBVIOUS
  <1>2. s2 \in Seq(S) /\ s2 \o r = Push(b, r)
    BY DEF Push
  <1>3. s1 # <<>>
    OBVIOUS
  <1> HIDE DEF S, s1, s2
  <1>4. s1 \o r = Push(a, s2 \o r)
    BY <1>1, <1>3, FirstFrame DEF IsSeq
  <1> QED BY <1>2, <1>4 DEF s1

LEMMA Frames7 ==
    ASSUME NEW a, NEW b, NEW c, NEW d, NEW e, NEW f, NEW g, NEW r, IsSeq(r)
    PROVE  <<a, b, c, d, e, f, g>> \o r =
           Push(a, Push(b, Push(c, Push(d, Push(e, Push(f, Push(g, r)))))))
  <1> DEFINE S == {a, b, c, d, e, f, g}
             s1 == <<a, b, c, d, e, f, g>>
             s2 == <<b, c, d, e, f, g>>
             s3 == <<c, d, e, f, g>>
             s4 == <<d, e, f, g>>
             s5 == <<e, f, g>>
             s6 == <<f, g>>
             s7 == <<g>>
  <1>1. s1 \in Seq(S) /\ Head(s1) = a /\ Tail(s1) = s2
    OBVIOUS
  <1>2. s2 \in Seq(S) /\ Head(s2) = b /\ Tail(s2) = s3
    OBVIOUS
  <1>3. s3 \in Seq(S) /\ Head(s3) = c /\ Tail(s3) = s4
    OBVIOUS
  <1>4. s4 \in Seq(S) /\ Head(s4) = d /\ Tail(s4) = s5
    OBVIOUS
  <1>5. s5 \in Seq(S) /\ Head(s5) = e /\ Tail(s5) = s6
    OBVIOUS
  <1>6. s6 \in Seq(S) /\ Head(s6) = f /\ Tail(s6) = s7
    OBVIOUS
  <1>7. s7 \in Seq(S) /\ s7 \o r = Push(g, r)
    BY DEF Push
  <1>8. s1 # <<>> /\ s2 # <<>> /\ s3 # <<>> /\ s4 # <<>> /\ s5 # <<>> /\ s6 # <<>>
    OBVIOUS
  <1> HIDE DEF S, s1, s2, s3, s4, s5, s6, s7
  <1>9. s1 \o r = Push(a, s2 \o r)
    BY <1>1, <1>8, FirstFrame DEF IsSeq
  <1>10. s2 \o r = Push(b, s3 \o r)
    BY <1>2, <1>8, FirstFrame DEF IsSeq
  <1>11. s3 \o r = Push(c, s4 \o r)
    BY <1>3, <1>8, FirstFrame DEF IsSeq
  <1>12. s4 \o r = Push(d, s5 \o r)
    BY <1>4, <1>8, FirstFrame DEF IsSeq
  <1>13. s5 \o r = Push(e, s6 \o r)
    BY <1>5, <1>8, FirstFrame DEF IsSeq
  <1>14. s6 \o r = Push(f, s7 \o r)
    BY <1>6, <1>8, FirstFrame DEF IsSeq
  <1> QED BY <1>7, <1>9, <1>10, <1>11, <1>12, <1>13, <1>14 DEF s1

LEMMA Frames9 ==
    ASSUME NEW a, NEW b, NEW c, NEW d, NEW e, NEW f, NEW g, NEW h, NEW i, NEW r, IsSeq(r)
    PROVE  <<a, b, c, d, e, f, g, h, i>> \o r =
           Push(a, Push(b, Push(c, Push(d, Push(e, Push(f, Push(g, Push(h, Push(i, r)))))))))
  <1> DEFINE S == {a, b, c, d, e, f, g, h, i}
             s1 == <<a, b, c, d, e, f, g, h, i>>
             s2 == <<b, c, d, e, f, g, h, i>>
             s3 == <<c, d, e, f, g, h, i>>
             s4 == <<d, e, f, g, h, i>>
             s5 == <<e, f, g, h, i>>
             s6 == <<f, g, h, i>>
             s7 == <<g, h, i>>
             s8 == <<h, i>>
             s9 == <<i>>
  <1>1. s1 \in Seq(S) /\ Head(s1) = a /\ Tail(s1) = s2
    OBVIOUS
  <1>2. s2 \in Seq(S) /\ Head(s2) = b /\ Tail(s2) = s3
    OBVIOUS
  <1>3. s3 \in Seq(S) /\ Head(s3) = c /\ Tail(s3) = s4
    OBVIOUS
  <1>4. s4 \in Seq(S) /\ Head(s4) = d /\ Tail(s4) = s5
    OBVIOUS
  <1>5. s5 \in Seq(S) /\ Head(s5) = e /\ Tail(s5) = s6
    OBVIOUS
  <1>6. s6 \in Seq(S) /\ Head(s6) = f /\ Tail(s6) = s7
    OBVIOUS
  <1>7. s7 \in Seq(S) /\ Head(s7) = g /\ Tail(s7) = s8
    OBVIOUS
  <1>8. s8 \in Seq(S) /\ Head(s8) = h /\ Tail(s8) = s9
    OBVIOUS
  <1>9. s9 \in Seq(S) /\ s9 \o r = Push(i, r)
    BY DEF Push
  <1>10. s1 # <<>> /\ s2 # <<>> /\ s3 # <<>> /\ s4 # <<>> /\ s5 # <<>> /\ s6 # <<>> /\ s7 # <<>> /\ s8 # <<>>
    OBVIOUS
  <1> HIDE DEF S, s1, s2, s3, s4, s5, s6, s7, s8, s9
  <1>11. s1 \o r = Push(a, s2 \o r)
    BY <1>1, <1>10, FirstFrame DEF IsSeq
  <1>12. s2 \o r = Push(b, s3 \o r)
    BY <1>2, <1>10, FirstFrame DEF IsSeq
  <1>13. s3 \o r = Push(c, s4 \o r)
    BY <1>3, <1>10, FirstFrame DEF IsSeq
  <1>14. s4 \o r = Push(d, s5 \o r)
    BY <1>4, <1>10, FirstFrame DEF IsSeq
  <1>15. s5 \o r = Push(e, s6 \o r)
    BY <1>5, <1>10, FirstFrame DEF IsSeq
  <1>16. s6 \o r = Push(f, s7 \o r)
    BY <1>6, <1>10, FirstFrame DEF IsSeq
  <1>17. s7 \o r = Push(g, s8 \o r)
    BY <1>7, <1>10, FirstFrame DEF IsSeq
  <1>18. s8 \o r = Push(h, s9 \o r)
    BY <1>8, <1>10, FirstFrame DEF IsSeq
  <1> QED BY <1>9, <1>11, <1>12, <1>13, <1>14, <1>15, <1>16, <1>17, <1>18 DEF s1

LEMMA Frames10 ==
    ASSUME NEW a, NEW b, NEW c, NEW d, NEW e, NEW f, NEW g, NEW h, NEW i, NEW j, NEW r, IsSeq(r)
    PROVE  <<a, b, c, d, e, f, g, h, i, j>> \o r =
           Push(a, Push(b, Push(c, Push(d, Push(e, Push(f, Push(g, Push(h, Push(i, Push(j, r))))))))))
  <1> DEFINE S == {a, b, c, d, e, f, g, h, i, j}
             s1 == <<a, b, c, d, e, f, g, h, i, j>>
             s2 == <<b, c, d, e, f, g, h, i, j>>
             s3 == <<c, d, e, f, g, h, i, j>>
             s4 == <<d, e, f, g, h, i, j>>
             s5 == <<e, f, g, h, i, j>>
             s6 == <<f, g, h, i, j>>
             s7 == <<g, h, i, j>>
             s8 == <<h, i, j>>
             s9 == <<i, j>>
             s10 == <<j>>
  <1>1. s1 \in Seq(S) /\ Head(s1) = a /\ Tail(s1) = s2
    OBVIOUS
  <1>2. s2 \in Seq(S) /\ Head(s2) = b /\ Tail(s2) = s3
    OBVIOUS
  <1>3. s3 \in Seq(S) /\ Head(s3) = c /\ Tail(s3) = s4
    OBVIOUS
  <1>4. s4 \in Seq(S) /\ Head(s4) = d /\ Tail(s4) = s5
    OBVIOUS
  <1>5. s5 \in Seq(S) /\ Head(s5) = e /\ Tail(s5) = s6
    OBVIOUS
  <1>6. s6 \in Seq(S) /\ Head(s6) = f /\ Tail(s6) = s7
    OBVIOUS
  <1>7. s7 \in Seq(S) /\ Head(s7) = g /\ Tail(s7) = s8
    OBVIOUS
  <1>8. s8 \in Seq(S) /\ Head(s8) = h /\ Tail(s8) = s9
    OBVIOUS
  <1>9. s9 \in Seq(S) /\ Head(s9) = i /\ Tail(s9) = s10
    OBVIOUS
  <1>10. s10 \in Seq(S) /\ s10 \o r = Push(j, r)
    BY DEF Push
  <1>11. s1 # <<>> /\ s2 # <<>> /\ s3 # <<>> /\ s4 # <<>> /\ s5 # <<>> /\ s6 # <<>> /\ s7 # <<>> /\ s8 # <<>> /\ s9 # <<>>
    OBVIOUS
  <1> HIDE DEF S, s1, s2, s3, s4, s5, s6, s7, s8, s9, s10
  <1>12. s1 \o r = Push(a, s2 \o r)
    BY <1>1, <1>11, FirstFrame DEF IsSeq
  <1>13. s2 \o r = Push(b, s3 \o r)
    BY <1>2, <1>11, FirstFrame DEF IsSeq
  <1>14. s3 \o r = Push(c, s4 \o r)
    BY <1>3, <1>11, FirstFrame DEF IsSeq
  <1>15. s4 \o r = Push(d, s5 \o r)
    BY <1>4, <1>11, FirstFrame DEF IsSeq
  <1>16. s5 \o r = Push(e, s6 \o r)
    BY <1>5, <1>11, FirstFrame DEF IsSeq
  <1>17. s6 \o r = Push(f, s7 \o r)
    BY <1>6, <1>11, FirstFrame DEF IsSeq
  <1>18. s7 \o r = Push(g, s8 \o r)
    BY <1>7, <1>11, FirstFrame DEF IsSeq
  <1>19. s8 \o r = Push(h, s9 \o r)
    BY <1>8, <1>11, FirstFrame DEF IsSeq
  <1>20. s9 \o r = Push(i, s10 \o r)
    BY <1>9, <1>11, FirstFrame DEF IsSeq
  <1> QED BY <1>10, <1>12, <1>13, <1>14, <1>15, <1>16, <1>17, <1>18, <1>19, <1>20 DEF s1

-----------------------------------------------------------------------------
(* What is on the disk and what is not yet. *)

OnDisk    == disk[Header]
Dirty     == {b \in Cached : cache[b].dirty}
Unwritten == [b \in Dirty |-> cache[b].data]
Entries   == 1 .. Len(lh)
Later(n)  == {lh[i] : i \in n + 1 .. Len(lh)}
Data      == <<disk, lh, up, Dirty, Unwritten>>

\* No commit: what was written since the last one is in the cache only.
Running == up /\ OnDisk = <<>> /\ Dirty = ToSet(lh)

\* write_log() has copied n blocks; those of S wait for the disk too.
Logged(n, S) ==
    /\ up /\ OnDisk = <<>> /\ lh # <<>>
    /\ Dirty = ToSet(lh) \cup S
    /\ \A i \in 1 .. n : disk[i] = Unwritten[lh[i]]

\* The header is on the disk and install_trans() has copied n blocks.
Placed(n, S) ==
    /\ OnDisk = lh
    /\ \A i \in 1 .. n : disk[lh[i]] = disk[i]
    /\ Dirty = (IF up THEN Later(n) ELSE {}) \cup S
    /\ up => \A i \in n + 1 .. Len(lh) : Unwritten[lh[i]] = disk[i]

\* All have been copied, and the header can go.
AllPlaced == \A i \in DOMAIN OnDisk : disk[OnDisk[i]] = disk[i]
Installed(S) == lh = <<>> /\ Dirty = S /\ AllPlaced
Cleared == OnDisk = <<>> /\ lh = <<>> /\ Dirty = {}

-----------------------------------------------------------------------------
(* Where a process is between two waits for a buffer or the disk: what is on *)
(* its stack, which buffers it has locked and what is on the disk.           *)

\* The rest of a commit (e = "committed") or a recovery (e = "up"), backwards.
End(e)        == Push(<<e, 0>>, <<>>)
ClearRel(e)   == Push(<<"brelse", Header>>, End(e))
ClearWrite(e) == Push(<<"write_head", 0>>, ClearRel(e))
ClearRead(e)  == Push(<<"bread", Header>>, ClearWrite(e))
ClearLog(e)   == Push(<<"clear", 0>>, ClearRead(e))
Install(e, t) == Push(<<"install", t>>, ClearLog(e))
HeadRel       == Push(<<"brelse", Header>>, Install("committed", 1))
HeadWrite     == Push(<<"write_head", 0>>, HeadRel)
HeadRead      == Push(<<"bread", Header>>, HeadWrite)
Write(t)      == Push(<<"write_log", t>>, HeadRead)
RecoverRel    == Push(<<"brelse", Header>>, Install("up", 1))
RecoverGet    == Push(<<"read_head", Header>>, RecoverRel)
RecoverRead   == Push(<<"bread", Header>>, RecoverGet)

\* One round of write_log() or install_trans(), before n.
Copy6(h, n)              == Push(<<"brelse", h>>, n)
Copy5(t, h, n)           == Push(<<"brelse", t>>, Copy6(h, n))
Copy4(to, t, h, n)       == Push(<<"iderw", to>>, Copy5(t, h, n))
Copy3(copy, to, t, h, n) == Push(<<copy, t>>, Copy4(to, t, h, n))
Copy2(copy, to, t, h, n) == Push(<<"bread", h>>, Copy3(copy, to, t, h, n))
Copy1(copy, to, t, h, n) == Push(<<"bread", t>>, Copy2(copy, to, t, h, n))

\* What a call that writes ws has still to do when it has written j of them.
Left(id, ws, j) == [k \in 1 .. 3 * (Len(ws) - j) + 1 |-> Body(id, ws)[k + 3 * j]]
Written(b, r)  == Push(<<"brelse", b>>, r)
Writes(id, b, r) == Push(<<"log_write", <<b, id>>>>, Written(b, r))

\* The frame on top of a stack, and the rest of it.
Top(s, l, x, r) == IsSeq(s) /\ s # <<>> /\ Head(s) = <<l, x>> /\ Tail(s) = r /\ IsSeq(r)

LogRound(s, H, t) ==
    LET h == lh[t]
        n == Write(t + 1)
    IN  \/ Top(s, "bread", t, Copy2("to_log", t, t, h, n)) /\ H = {} /\ Logged(t - 1, {})
        \/ Top(s, "bread", h, Copy3("to_log", t, t, h, n)) /\ H = {t} /\ Logged(t - 1, {})
        \/ Top(s, "to_log", t, Copy4(t, t, h, n)) /\ H = {t, h} /\ Logged(t - 1, {})
        \/ Top(s, "brelse", t, Copy6(h, n)) /\ H = {t, h} /\ Logged(t, {})
        \/ Top(s, "brelse", h, n) /\ H = {h} /\ Logged(t, {})

Logging(s, H) ==
    \/ \E t \in 1 .. Len(lh) + 1 :
         Top(s, "write_log", t, HeadRead) /\ H = {} /\ Logged(t - 1, {})
    \/ \E t \in Entries : LogRound(s, H, t)
    \/ Top(s, "bread", Header, HeadWrite) /\ H = {} /\ Logged(Len(lh), {})
    \/ Top(s, "write_head", 0, HeadRel) /\ H = {Header} /\ Logged(Len(lh), {})
    \/ Top(s, "brelse", Header, Install("committed", 1)) /\ H = {Header} /\ Placed(0, {})

InstallRound(s, H, e, t) ==
    LET h == lh[t]
        n == Install(e, t + 1)
    IN  \/ Top(s, "bread", t, Copy2("to_home", h, t, h, n)) /\ H = {} /\ Placed(t - 1, {})
        \/ Top(s, "bread", h, Copy3("to_home", h, t, h, n)) /\ H = {t} /\ Placed(t - 1, {})
        \/ Top(s, "to_home", t, Copy4(h, t, h, n)) /\ H = {t, h} /\ Placed(t - 1, {})
        \/ Top(s, "brelse", t, Copy6(h, n)) /\ H = {t, h} /\ Placed(t, {})
        \/ Top(s, "brelse", h, n) /\ H = {h} /\ Placed(t, {})

Installing(s, H, e) ==
    \/ \E t \in 1 .. Len(lh) + 1 :
         Top(s, "install", t, ClearLog(e)) /\ H = {} /\ Placed(t - 1, {})
    \/ \E t \in Entries : InstallRound(s, H, e, t)
    \/ Top(s, "clear", 0, ClearRead(e)) /\ H = {} /\ Placed(Len(lh), {})
    \/ Top(s, "bread", Header, ClearWrite(e)) /\ H = {} /\ Installed({})
    \/ Top(s, "write_head", 0, ClearRel(e)) /\ H = {Header} /\ Installed({})
    \/ Top(s, "brelse", Header, End(e)) /\ H = {Header} /\ Cleared
    \/ Top(s, e, 0, <<>>) /\ H = {} /\ Cleared

Recovering(s, H) ==
    \/ Top(s, "bread", Header, RecoverGet) /\ H = {} /\ lh = <<>> /\ Dirty = {}
    \/ Top(s, "read_head", Header, RecoverRel) /\ H = {Header} /\ lh = <<>> /\ Dirty = {}
    \/ Top(s, "brelse", Header, Install("up", 1)) /\ H = {Header} /\ Placed(0, {})

Writing(s, H, id, ws) ==
    \/ Top(s, "begin_op", <<id, ws>>, <<>>) /\ H = {}
    \/ Top(s, "asleep", <<id, ws>>, <<>>) /\ H = {}
    \/ Top(s, "end_op", 0, <<>>) /\ H = {}
    \/ \E j \in 1 .. Len(ws) :
         LET b == ws[j]
             r == Left(id, ws, j)
         IN  \/ Top(s, "bread", b, Writes(id, b, r)) /\ H = {}
             \/ Top(s, "log_write", <<b, id>>, Written(b, r)) /\ H = {b}
             \/ Top(s, "brelse", b, r) /\ H = {b}

Reading(s, H, b) ==
    \/ Top(s, "bread", b, Push(<<"brelse", b>>, <<>>)) /\ H = {}
    \/ Top(s, "brelse", b, <<>>) /\ H = {b}

Calling(s, H) ==
    \/ s = <<>> /\ H = {}
    \/ \E id \in 1 .. MaxCalls, ws \in Calls : Writing(s, H, id, ws)
    \/ \E b \in Homes : Reading(s, H, b)

Roles == {"call", "committed", "up"}

\* What a process does: a call, a commit, or the recovery.
Point(s, H, e) ==
    \/ e = "call" /\ Calling(s, H)
    \/ e = "committed" /\ up /\ (Logging(s, H) \/ Installing(s, H, e))
    \/ e = "up" /\ ~ up /\ (Recovering(s, H) \/ Installing(s, H, e))

\* A buffer that the log writes is on its way to the disk.
Logs(b, r, H) ==
    \/ \E t \in Entries :
         /\ b = t /\ r = Copy5(t, lh[t], Write(t + 1)) /\ H = {t, lh[t]}
         /\ Logged(t - 1, {t}) /\ Unwritten[t] = Unwritten[lh[t]]
    \/ /\ b = Header /\ r = HeadRel /\ H = {Header}
       /\ Logged(Len(lh), {Header}) /\ Unwritten[Header] = lh

Installs(b, r, H, e) ==
    \/ \E t \in Entries :
         /\ b = lh[t] /\ r = Copy5(t, lh[t], Install(e, t + 1)) /\ H = {t, lh[t]}
         /\ Placed(t - 1, {lh[t]}) /\ Unwritten[lh[t]] = disk[t]
    \/ /\ b = Header /\ r = ClearRel(e) /\ H = {Header}
       /\ Installed({Header}) /\ Unwritten[Header] = <<>>

Pending(b, r, H, e) ==
    \/ e = "committed" /\ up /\ (Logs(b, r, H) \/ Installs(b, r, H, e))
    \/ e = "up" /\ ~ up /\ Installs(b, r, H, e)

\* Where a process is at any time: between two waits, about to lock a buffer,
\* or about to have one read or written or waiting for that.
Waits == {"acquire", "iderw", "sleep"}

Stands(s, H, e) ==
    \/ Point(s, H, e)
    \/ /\ IsSeq(s) /\ s # <<>>
       /\ LET l == Head(s)[1]
              b == Head(s)[2]
              r == Tail(s)
          IN  \/ l = "acquire" /\ b \in Cached /\ b \notin H /\ Point(r, H \cup {b}, e)
              \/ /\ l \in {"iderw", "sleep"} /\ b \in H /\ b \notin Dirty /\ Point(r, H, e)
                 /\ l = "iderw" => ~ cache[b].valid
              \/ l \in {"iderw", "sleep"} /\ b \in H /\ b \in Dirty /\ Pending(b, r, H, e)

-----------------------------------------------------------------------------
(* The top of each stack *)

LEMMA TopPush ==
    ASSUME NEW l, NEW x, NEW r, IsSeq(r)
    PROVE  Top(Push(<<l, x>>, r), l, x, r)
  BY PushIs DEF Top

LEMMA FixedStacks ==
    ASSUME NEW e, NEW t
    PROVE  /\ Top(End(e), e, 0, <<>>)
           /\ Top(ClearRel(e), "brelse", Header, End(e))
           /\ Top(ClearWrite(e), "write_head", 0, ClearRel(e))
           /\ Top(ClearRead(e), "bread", Header, ClearWrite(e))
           /\ Top(ClearLog(e), "clear", 0, ClearRead(e))
           /\ Top(Install(e, t), "install", t, ClearLog(e))
  <1>1. Top(End(e), e, 0, <<>>)
    BY NothingIsSeq, TopPush DEF End
  <1>2. Top(ClearRel(e), "brelse", Header, End(e))
    BY <1>1, TopPush DEF Top, ClearRel
  <1>3. Top(ClearWrite(e), "write_head", 0, ClearRel(e))
    BY <1>2, TopPush DEF Top, ClearWrite
  <1>4. Top(ClearRead(e), "bread", Header, ClearWrite(e))
    BY <1>3, TopPush DEF Top, ClearRead
  <1>5. Top(ClearLog(e), "clear", 0, ClearRead(e))
    BY <1>4, TopPush DEF Top, ClearLog
  <1>6. Top(Install(e, t), "install", t, ClearLog(e))
    BY <1>5, TopPush DEF Top, Install
  <1> QED BY <1>1, <1>2, <1>3, <1>4, <1>5, <1>6

LEMMA HeadStacks ==
    ASSUME NEW t
    PROVE  /\ Top(HeadRel, "brelse", Header, Install("committed", 1))
           /\ Top(HeadWrite, "write_head", 0, HeadRel)
           /\ Top(HeadRead, "bread", Header, HeadWrite)
           /\ Top(Write(t), "write_log", t, HeadRead)
           /\ Top(RecoverRel, "brelse", Header, Install("up", 1))
           /\ Top(RecoverGet, "read_head", Header, RecoverRel)
           /\ Top(RecoverRead, "bread", Header, RecoverGet)
  <1>1. Top(HeadRel, "brelse", Header, Install("committed", 1))
    BY FixedStacks, TopPush DEF Top, HeadRel
  <1>2. Top(HeadWrite, "write_head", 0, HeadRel)
    BY <1>1, TopPush DEF Top, HeadWrite
  <1>3. Top(HeadRead, "bread", Header, HeadWrite)
    BY <1>2, TopPush DEF Top, HeadRead
  <1>4. Top(Write(t), "write_log", t, HeadRead)
    BY <1>3, TopPush DEF Top, Write
  <1>5. Top(RecoverRel, "brelse", Header, Install("up", 1))
    BY FixedStacks, TopPush DEF Top, RecoverRel
  <1>6. Top(RecoverGet, "read_head", Header, RecoverRel)
    BY <1>5, TopPush DEF Top, RecoverGet
  <1>7. Top(RecoverRead, "bread", Header, RecoverGet)
    BY <1>6, TopPush DEF Top, RecoverRead
  <1> QED BY <1>1, <1>2, <1>3, <1>4, <1>5, <1>6, <1>7

LEMMA CopyStacks ==
    ASSUME NEW copy, NEW to, NEW t, NEW h, NEW n, IsSeq(n)
    PROVE  /\ Top(Copy6(h, n), "brelse", h, n)
           /\ Top(Copy5(t, h, n), "brelse", t, Copy6(h, n))
           /\ Top(Copy4(to, t, h, n), "iderw", to, Copy5(t, h, n))
           /\ Top(Copy3(copy, to, t, h, n), copy, t, Copy4(to, t, h, n))
           /\ Top(Copy2(copy, to, t, h, n), "bread", h, Copy3(copy, to, t, h, n))
           /\ Top(Copy1(copy, to, t, h, n), "bread", t, Copy2(copy, to, t, h, n))
  <1>1. Top(Copy6(h, n), "brelse", h, n)
    BY TopPush DEF Top, Copy6
  <1>2. Top(Copy5(t, h, n), "brelse", t, Copy6(h, n))
    BY <1>1, TopPush DEF Top, Copy5
  <1>3. Top(Copy4(to, t, h, n), "iderw", to, Copy5(t, h, n))
    BY <1>2, TopPush DEF Top, Copy4
  <1>4. Top(Copy3(copy, to, t, h, n), copy, t, Copy4(to, t, h, n))
    BY <1>3, TopPush DEF Top, Copy3
  <1>5. Top(Copy2(copy, to, t, h, n), "bread", h, Copy3(copy, to, t, h, n))
    BY <1>4, TopPush DEF Top, Copy2
  <1>6. Top(Copy1(copy, to, t, h, n), "bread", t, Copy2(copy, to, t, h, n))
    BY <1>5, TopPush DEF Top, Copy1
  <1> QED BY <1>1, <1>2, <1>3, <1>4, <1>5, <1>6

LEMMA OneFrame ==
    ASSUME NEW f
    PROVE  IsSeq(<<f>>) /\ Push(f, <<>>) = <<f>>
  <1>1. <<f>> \in Seq({f})
    OBVIOUS
  <1>2. IsSeq(<<f>>)
    BY <1>1 DEF IsSeq
  <1>3. Push(f, <<>>) = <<f>>
    BY <1>2, WithoutTail DEF Push
  <1> QED BY <1>2, <1>3

\* Three frames that are pushed one by one.
LEMMA ThreeAt ==
    ASSUME NEW a, NEW b, NEW c, NEW r, IsSeq(r), NEW M \in Nat, Len(r) = M
    PROVE  LET q == Push(a, Push(b, Push(c, r)))
           IN  /\ IsSeq(q) /\ Len(q) = M + 3 /\ q[1] = a /\ q[2] = b /\ q[3] = c
               /\ \A k \in 1 .. M : q[k + 3] = r[k]
  <1> DEFINE r3 == Push(c, r)
             r2 == Push(b, r3)
             r1 == Push(a, r2)
  <1>1. /\ IsSeq(r3) /\ Len(r3) = 1 + M
        /\ \A i \in 1 .. 1 + M : r3[i] = IF i = 1 THEN c ELSE r[i - 1]
    BY PushAt
  <1> HIDE DEF r3
  <1>2. /\ IsSeq(r2) /\ Len(r2) = 1 + Len(r3)
        /\ \A i \in 1 .. 1 + Len(r3) : r2[i] = IF i = 1 THEN b ELSE r3[i - 1]
    BY <1>1, PushAt
  <1> HIDE DEF r2
  <1>3. /\ IsSeq(r1) /\ Len(r1) = 1 + Len(r2)
        /\ \A i \in 1 .. 1 + Len(r2) : r1[i] = IF i = 1 THEN a ELSE r2[i - 1]
    BY <1>2, PushAt
  <1> HIDE DEF r1
  <1>4. r1[1] = a /\ r1[2] = r2[1] /\ r2[1] = b /\ r1[3] = r2[2] /\ r2[2] = r3[1] /\ r3[1] = c
    BY <1>1, <1>2, <1>3
  <1>5. ASSUME NEW k \in 1 .. M
        PROVE  r1[k + 3] = r[k]
    <2>1. /\ k + 3 \in 1 .. 1 + Len(r2) /\ k + 2 \in 1 .. 1 + Len(r3) /\ k + 1 \in 1 .. 1 + M
          /\ k + 3 - 1 = k + 2 /\ k + 2 - 1 = k + 1 /\ k + 1 - 1 = k
          /\ k + 3 # 1 /\ k + 2 # 1 /\ k + 1 # 1
      BY <1>1, <1>2
    <2>2. r1[k + 3] = r2[k + 2] /\ r2[k + 2] = r3[k + 1] /\ r3[k + 1] = r[k]
      BY <1>1, <1>2, <1>3, <2>1
    <2> QED BY <2>2
  <1>6. Len(r1) = M + 3
    BY <1>1, <1>2, <1>3
  <1> QED BY <1>3, <1>4, <1>5, <1>6 DEF r1, r2, r3

LEMMA BodyAt ==
    ASSUME NEW id, NEW ws, Len(ws) \in Nat
    PROVE  LET B == Body(id, ws)
               n == 3 * Len(ws) + 1
           IN  /\ B = [k \in 1 .. n |-> B[k]]
               /\ B[n] = <<"end_op", 0>>
               /\ \A j \in 0 .. Len(ws) - 1 :
                    /\ B[1 + 3 * j] = <<"bread", ws[j + 1]>>
                    /\ B[2 + 3 * j] = <<"log_write", <<ws[j + 1], id>>>>
                    /\ B[3 + 3 * j] = <<"brelse", ws[j + 1]>>
  <1> DEFINE B == Body(id, ws)
             n == 3 * Len(ws) + 1
             w(k) == ws[(k + 2) \div 3]
  <1>1. B = [k \in 1 .. n |-> B[k]]
    BY DEF Body
  <1>2. n \in 1 .. n
    OBVIOUS
  <1>3. B[n] = <<"end_op", 0>>
    BY <1>2 DEF Body
  <1>4. ASSUME NEW k \in 1 .. n, k # n
        PROVE  /\ k % 3 = 1 => B[k] = <<"bread", w(k)>>
               /\ k % 3 = 2 => B[k] = <<"log_write", <<w(k), id>>>>
               /\ k % 3 = 0 => B[k] = <<"brelse", w(k)>>
    BY <1>4 DEF Body
  <1>5. ASSUME NEW j \in 0 .. Len(ws) - 1
        PROVE  /\ B[1 + 3 * j] = <<"bread", ws[j + 1]>>
               /\ B[2 + 3 * j] = <<"log_write", <<ws[j + 1], id>>>>
               /\ B[3 + 3 * j] = <<"brelse", ws[j + 1]>>
    <2>1. 1 + 3 * j \in 1 .. n /\ 2 + 3 * j \in 1 .. n /\ 3 + 3 * j \in 1 .. n
          /\ 1 + 3 * j # n /\ 2 + 3 * j # n /\ 3 + 3 * j # n
      OBVIOUS
    <2>2. /\ (1 + 3 * j) % 3 = 1 /\ (2 + 3 * j) % 3 = 2 /\ (3 + 3 * j) % 3 = 0
          /\ (1 + 3 * j + 2) \div 3 = j + 1 /\ (2 + 3 * j + 2) \div 3 = j + 1
          /\ (3 + 3 * j + 2) \div 3 = j + 1
      OBVIOUS
    <2> HIDE DEF B, n
    <2> QED BY <1>4, <2>1, <2>2
  <1> HIDE DEF B, n
  <1>6. /\ B = [k \in 1 .. n |-> B[k]]
        /\ B[n] = <<"end_op", 0>>
        /\ \A j \in 0 .. Len(ws) - 1 :
             /\ B[1 + 3 * j] = <<"bread", ws[j + 1]>>
             /\ B[2 + 3 * j] = <<"log_write", <<ws[j + 1], id>>>>
             /\ B[3 + 3 * j] = <<"brelse", ws[j + 1]>>
    BY <1>1, <1>3, <1>5
  <1> QED BY <1>6 DEF B, n

LEMMA FunctionIsSeq ==
    ASSUME NEW M \in Nat, NEW g, g = [k \in 1 .. M |-> g[k]]
    PROVE  IsSeq(g) /\ Len(g) = M
  <1>1. g \in Seq({g[k] : k \in 1 .. M}) /\ Len(g) = M
    OBVIOUS
  <1> QED BY <1>1 DEF IsSeq

Size(ws, j) == 3 * (Len(ws) - j) + 1

LEMMA LeftAt ==
    ASSUME NEW id, NEW ws, NEW j, Size(ws, j) \in Nat
    PROVE  /\ IsSeq(Left(id, ws, j)) /\ Len(Left(id, ws, j)) = Size(ws, j)
           /\ \A k \in 1 .. Size(ws, j) : Left(id, ws, j)[k] = Body(id, ws)[k + 3 * j]
  <1> DEFINE g == Left(id, ws, j)
             M == Size(ws, j)
  <1>2. g = [k \in 1 .. M |-> g[k]] /\ \A k \in 1 .. M : g[k] = Body(id, ws)[k + 3 * j]
    BY DEF Left, Size
  <1> HIDE DEF g, M
  <1>3. IsSeq(g) /\ Len(g) = M
    BY <1>2, FunctionIsSeq DEF M
  <1> QED BY <1>2, <1>3 DEF g, M

\* What a call that writes still has to do: the next block, or its end.
LEMMA LeftIs ==
    ASSUME NEW id, NEW ws \in Calls, NEW j \in 0 .. Len(ws)
    PROVE  /\ ws \in Seq(Homes) /\ Len(ws) \in Nat
           /\ IsSeq(Left(id, ws, j))
           /\ j = Len(ws) => Top(Left(id, ws, j), "end_op", 0, <<>>)
           /\ \A i \in 1 .. Len(ws) : i = j + 1 =>
                Top(Left(id, ws, j), "bread", ws[i], Writes(id, ws[i], Left(id, ws, i)))
  <1> DEFINE n == 3 * Len(ws) + 1
             B == Body(id, ws)
             L == Left(id, ws, j)
             M == Size(ws, j)
  <1>1. ws \in Seq(Homes) /\ Len(ws) \in Nat /\ j \in Nat /\ j <= Len(ws)
    BY JournalAssumption
  <1>2. /\ M \in Nat /\ IsSeq(L) /\ Len(L) = M
        /\ \A k \in 1 .. M : L[k] = B[k + 3 * j]
    <2>1. Size(ws, j) \in Nat
      BY <1>1 DEF Size
    <2> QED BY <2>1, LeftAt
  <1>3. /\ B[n] = <<"end_op", 0>>
        /\ \A i \in 0 .. Len(ws) - 1 :
             /\ B[1 + 3 * i] = <<"bread", ws[i + 1]>>
             /\ B[2 + 3 * i] = <<"log_write", <<ws[i + 1], id>>>>
             /\ B[3 + 3 * i] = <<"brelse", ws[i + 1]>>
    BY <1>1, BodyAt
  <1> HIDE DEF B, L
  <1>4. ASSUME j = Len(ws)
        PROVE  Top(L, "end_op", 0, <<>>)
    <2>1. M = 1 /\ 1 + 3 * j = n
      BY <1>1, <1>4 DEF Size
    <2>2. L[1] = <<"end_op", 0>> /\ Len(L) = 1
      BY <1>2, <1>3, <2>1
    <2>3. L = <<L[1]>>
      <3>1. IsSeq(<<L[1]>>) /\ Len(<<L[1]>>) = 1 /\ <<L[1]>>[1] = L[1]
        BY OneFrame
      <3>2. IsSeq(L) /\ Len(L) = 1
        BY <1>2, <2>2
      <3>3. \A i \in 1 .. 1 : L[i] = <<L[1]>>[i]
        BY <3>1
      <3> QED BY <3>1, <3>2, <3>3, SameSeq
    <2> QED BY <2>2, <2>3, OneFrame, TopPush, NothingIsSeq
  <1>5. ASSUME NEW m \in 1 .. Len(ws), m = j + 1
        PROVE  Top(L, "bread", ws[m], Writes(id, ws[m], Left(id, ws, m)))
    <2> DEFINE f1 == <<"bread", ws[m]>>
               f2 == <<"log_write", <<ws[m], id>>>>
               f3 == <<"brelse", ws[m]>>
               r == Left(id, ws, m)
               N == Size(ws, m)
               r2 == Push(f2, Push(f3, r))
               q == Push(f1, r2)
    <2>1. j \in 0 .. Len(ws) - 1 /\ M = N + 3
      BY <1>1, <1>5 DEF Size
    <2>2. N \in Nat /\ IsSeq(r) /\ Len(r) = N /\ \A k \in 1 .. N : r[k] = B[k + 3 * (j + 1)]
      <3>1. Size(ws, m) \in Nat
        BY <1>1 DEF Size
      <3>2. /\ IsSeq(Left(id, ws, m)) /\ Len(Left(id, ws, m)) = Size(ws, m)
            /\ \A k \in 1 .. Size(ws, m) : Left(id, ws, m)[k] = Body(id, ws)[k + 3 * m]
        BY <3>1, LeftAt
      <3> QED BY <1>5, <3>1, <3>2 DEF B
    <2>3. B[1 + 3 * j] = f1 /\ B[2 + 3 * j] = f2 /\ B[3 + 3 * j] = f3
      BY <1>3, <1>5, <2>1
    <2> HIDE DEF f1, f2, f3, r, N, M
    <2>4. /\ IsSeq(q) /\ Len(q) = N + 3 /\ q[1] = f1 /\ q[2] = f2 /\ q[3] = f3
          /\ \A k \in 1 .. N : q[k + 3] = r[k]
      BY <2>2, ThreeAt
    <2> HIDE DEF q
    <2>5. L[1] = f1 /\ L[2] = f2 /\ L[3] = f3
      BY <1>2, <2>1, <2>2, <2>3
    <2>6. \A i \in 1 .. N + 3 : L[i] = q[i]
      <3>1. TAKE i \in 1 .. N + 3
      <3>2. CASE i > 3
        <4>1. i - 3 \in 1 .. N /\ i - 3 + 3 = i /\ i - 3 + 3 * (j + 1) = i + 3 * j /\ i \in 1 .. M
          <5>1. i \in Int /\ i <= N + 3 /\ j \in Int /\ N \in Int
            BY <1>1, <2>2, <3>1
          <5> QED BY <2>1, <3>2, <5>1
        <4>2. q[i] = r[i - 3] /\ r[i - 3] = B[i + 3 * j] /\ L[i] = B[i + 3 * j]
          BY <1>2, <2>2, <2>4, <4>1
        <4> QED BY <4>2
      <3>3. CASE ~ (i > 3)
        <4>1. i = 1 \/ i = 2 \/ i = 3
          BY <2>2, <3>1, <3>3
        <4> QED BY <2>4, <2>5, <4>1
      <3> QED BY <3>2, <3>3
    <2>7. L = q
      BY <1>2, <2>1, <2>4, <2>6, SameSeq
    <2>8. IsSeq(r2)
      BY <2>2, PushIs
    <2>9. Top(L, "bread", ws[m], r2)
      BY <2>7, <2>8, TopPush DEF q, f1
    <2> QED BY <2>9 DEF r2, f2, f3, r, Writes, Written
  <1>6. ws \in Seq(Homes) /\ Len(ws) \in Nat /\ IsSeq(L)
    BY <1>1, <1>2
  <1> QED BY <1>4, <1>5, <1>6 DEF L

LEMMA LeftAll ==
    ASSUME NEW id, NEW ws, Len(ws) \in Nat
    PROVE  Left(id, ws, 0) = Body(id, ws)
  <1> DEFINE n == 3 * Len(ws) + 1
             B == Body(id, ws)
  <1>1. B = [k \in 1 .. n |-> B[k]]
    BY BodyAt
  <1>2. 3 * (Len(ws) - 0) + 1 = n /\ \A k \in 1 .. n : k + 3 * 0 = k
    OBVIOUS
  <1> HIDE DEF B
  <1>3. Left(id, ws, 0) = [k \in 1 .. n |-> B[k]]
    BY <1>2 DEF Left, B
  <1> QED BY <1>1, <1>3 DEF B

-----------------------------------------------------------------------------
(* What the next frame does to a stack *)

LEMMA OneTop ==
    ASSUME NEW s, NEW l, NEW x, NEW r, Top(s, l, x, r)
    PROVE  \A k, y, q : Top(s, k, y, q) => k = l /\ y = x /\ q = r
  BY DEF Top

Distinct(s) == \A i, j \in 1 .. Len(s) : s[i] = s[j] => i = j

\* The list of the blocks in the log, as the memory and the disk have it.
LogList(s) == s \in Seq(Homes) /\ Len(s) <= LOGSIZE - 1 /\ Distinct(s)
Lists == LogList(lh) /\ LogList(OnDisk)

LEMMA BlocksAre ==
    /\ Header \in Block /\ Header \notin Homes /\ LOGSIZE \in Nat
    /\ \A b \in Homes : b \in Block /\ b # Header
    /\ \A b \in Homes, t \in 1 .. LOGSIZE - 1 : b # t
    /\ \A t \in 1 .. LOGSIZE - 1 : t \in Block /\ t # Header
  BY JournalAssumption DEF Header, Block

LEMMA EntryIs ==
    ASSUME LogList(lh), NEW t \in Entries
    PROVE  /\ t \in 1 .. LOGSIZE - 1 /\ t \in Block /\ t # Header /\ t \notin Homes
           /\ lh[t] \in Homes /\ lh[t] \in Block /\ lh[t] # Header /\ lh[t] # t
           /\ Len(lh) \in Nat /\ t \in Int
           /\ t + 1 \in 1 .. Len(lh) + 1 /\ t + 1 - 1 = t
  <1>1. Len(lh) \in Nat /\ lh[t] \in Homes /\ t \in 1 .. LOGSIZE - 1
    BY JournalAssumption DEF LogList, Entries
  <1> QED BY <1>1, BlocksAre DEF Entries

LEMMA LogRoundStacks ==
    ASSUME NEW t, NEW h
    PROVE  LET n == Write(t + 1) IN
           /\ Top(n, "write_log", t + 1, HeadRead)
           /\ Top(Copy6(h, n), "brelse", h, n)
           /\ Top(Copy5(t, h, n), "brelse", t, Copy6(h, n))
           /\ Top(Copy4(t, t, h, n), "iderw", t, Copy5(t, h, n))
           /\ Top(Copy3("to_log", t, t, h, n), "to_log", t, Copy4(t, t, h, n))
           /\ Top(Copy2("to_log", t, t, h, n), "bread", h, Copy3("to_log", t, t, h, n))
           /\ Top(Copy1("to_log", t, t, h, n), "bread", t, Copy2("to_log", t, t, h, n))
  <1> DEFINE n == Write(t + 1)
  <1>1. PICK m : m = t + 1
    OBVIOUS
  <1>2. Top(Write(m), "write_log", m, HeadRead)
    BY HeadStacks
  <1>3. Top(n, "write_log", t + 1, HeadRead) /\ IsSeq(n)
    BY <1>1, <1>2 DEF Top
  <1> HIDE DEF n
  <1>4. /\ Top(Copy6(h, n), "brelse", h, n)
        /\ Top(Copy5(t, h, n), "brelse", t, Copy6(h, n))
        /\ Top(Copy4(t, t, h, n), "iderw", t, Copy5(t, h, n))
        /\ Top(Copy3("to_log", t, t, h, n), "to_log", t, Copy4(t, t, h, n))
        /\ Top(Copy2("to_log", t, t, h, n), "bread", h, Copy3("to_log", t, t, h, n))
        /\ Top(Copy1("to_log", t, t, h, n), "bread", t, Copy2("to_log", t, t, h, n))
    BY <1>3, CopyStacks
  <1> QED BY <1>3, <1>4 DEF n

LEMMA InstallRoundStacks ==
    ASSUME NEW t, NEW h, NEW e
    PROVE  LET n == Install(e, t + 1) IN
           /\ Top(n, "install", t + 1, ClearLog(e))
           /\ Top(Copy6(h, n), "brelse", h, n)
           /\ Top(Copy5(t, h, n), "brelse", t, Copy6(h, n))
           /\ Top(Copy4(h, t, h, n), "iderw", h, Copy5(t, h, n))
           /\ Top(Copy3("to_home", h, t, h, n), "to_home", t, Copy4(h, t, h, n))
           /\ Top(Copy2("to_home", h, t, h, n), "bread", h, Copy3("to_home", h, t, h, n))
           /\ Top(Copy1("to_home", h, t, h, n), "bread", t, Copy2("to_home", h, t, h, n))
  <1> DEFINE n == Install(e, t + 1)
  <1>1. PICK m : m = t + 1
    OBVIOUS
  <1>2. Top(Install(e, m), "install", m, ClearLog(e))
    BY FixedStacks
  <1>3. Top(n, "install", t + 1, ClearLog(e)) /\ IsSeq(n)
    BY <1>1, <1>2 DEF Top
  <1> HIDE DEF n
  <1>4. /\ Top(Copy6(h, n), "brelse", h, n)
        /\ Top(Copy5(t, h, n), "brelse", t, Copy6(h, n))
        /\ Top(Copy4(h, t, h, n), "iderw", h, Copy5(t, h, n))
        /\ Top(Copy3("to_home", h, t, h, n), "to_home", t, Copy4(h, t, h, n))
        /\ Top(Copy2("to_home", h, t, h, n), "bread", h, Copy3("to_home", h, t, h, n))
        /\ Top(Copy1("to_home", h, t, h, n), "bread", t, Copy2("to_home", h, t, h, n))
    BY <1>3, CopyStacks
  <1> QED BY <1>3, <1>4 DEF n

\* The stack is empty or has a frame on top that waits for nothing.
Awake(s) == IsSeq(s) /\ (s # <<>> => Head(s)[1] \notin Waits /\ IsSeq(Tail(s)))

LEMMA TopIsAwake ==
    ASSUME NEW s, NEW l, NEW x, NEW r, Top(s, l, x, r), l \notin Waits
    PROVE  Awake(s)
  <1>1. <<l, x>>[1] = l
    OBVIOUS
  <1> QED BY <1>1 DEF Top, Awake

LEMMA PointIs ==
    ASSUME NEW s, NEW H, NEW e, Point(s, H, e)
    PROVE  Awake(s)
  <1>1. e \in Roles
    BY DEF Point, Roles
  <1>2. CASE Calling(s, H)
    <2>1. \A x, r : \A l \in {"begin_op", "asleep", "end_op", "bread", "log_write", "brelse"} :
             Top(s, l, x, r) => Awake(s)
      BY TopIsAwake DEF Waits
    <2>2. s = <<>> => Awake(s)
      BY NothingIsSeq DEF Awake
    <2> QED BY <1>2, <2>1, <2>2 DEF Calling, Writing, Reading
  <1>3. CASE Logging(s, H)
    <2>1. \A x, r : \A l \in {"write_log", "bread", "to_log", "write_head", "brelse"} :
             Top(s, l, x, r) => Awake(s)
      BY TopIsAwake DEF Waits
    <2> QED BY <1>3, <2>1 DEF Logging, LogRound
  <1>4. CASE Installing(s, H, e)
    <2>1. \A x, r : \A l \in Roles \cup {"install", "bread", "to_home", "write_head", "brelse", "clear"} :
             Top(s, l, x, r) => Awake(s)
      BY TopIsAwake DEF Waits, Roles
    <2> QED BY <1>1, <1>4, <2>1 DEF Installing, InstallRound
  <1>5. CASE Recovering(s, H)
    <2>1. \A x, r : \A l \in {"bread", "read_head", "brelse"} : Top(s, l, x, r) => Awake(s)
      BY TopIsAwake DEF Waits
    <2> QED BY <1>5, <2>1 DEF Recovering
  <1> QED BY <1>2, <1>3, <1>4, <1>5 DEF Point

LEMMA BreadLogging ==
    ASSUME NEW s, NEW H, NEW b, NEW r, Top(s, "bread", b, r), LogList(lh), Logging(s, H)
    PROVE  b \in Block /\ b \notin H /\ Logging(r, H \cup {b})
  <1>1. \A k, y, q : Top(s, k, y, q) => k = "bread" /\ y = b /\ q = r
    BY OneTop
  <1>2. ASSUME NEW t \in Entries, LogRound(s, H, t)
        PROVE  b \in Block /\ b \notin H /\ Logging(r, H \cup {b})
    <2> DEFINE h == lh[t]
               n == Write(t + 1)
    <2>1. /\ Top(Copy3("to_log", t, t, h, n), "to_log", t, Copy4(t, t, h, n))
          /\ Top(Copy2("to_log", t, t, h, n), "bread", h, Copy3("to_log", t, t, h, n))
      BY LogRoundStacks
    <2>2. t \in Block /\ h \in Block /\ h # t
      BY EntryIs
    <2>3. \/ b = t /\ r = Copy2("to_log", t, t, h, n) /\ H = {} /\ Logged(t - 1, {})
          \/ b = h /\ r = Copy3("to_log", t, t, h, n) /\ H = {t} /\ Logged(t - 1, {})
      BY <1>1, <1>2 DEF LogRound
    <2> HIDE DEF h, n
    <2>4. b \in Block /\ b \notin H
      BY <2>2, <2>3
    <2>5. LogRound(r, H \cup {b}, t)
      <3>1. \/ Top(r, "bread", h, Copy3("to_log", t, t, h, n)) /\ H \cup {b} = {t} /\ Logged(t - 1, {})
            \/ Top(r, "to_log", t, Copy4(t, t, h, n)) /\ H \cup {b} = {t, h} /\ Logged(t - 1, {})
        BY <2>1, <2>3
      <3> QED BY <3>1 DEF LogRound, h, n
    <2> QED BY <2>4, <2>5 DEF Logging
  <1>3. CASE b = Header /\ r = HeadWrite /\ H = {} /\ Logged(Len(lh), {})
    <2>1. Top(r, "write_head", 0, HeadRel) /\ H \cup {b} = {Header} /\ b \in Block
      BY <1>3, HeadStacks, BlocksAre
    <2> QED BY <1>3, <2>1 DEF Logging
  <1>4. /\ \A t : ~ Top(s, "write_log", t, HeadRead)
        /\ ~ Top(s, "write_head", 0, HeadRel)
        /\ ~ Top(s, "brelse", Header, Install("committed", 1))
        /\ Top(s, "bread", Header, HeadWrite) => b = Header /\ r = HeadWrite
    BY <1>1
  <1> QED BY <1>2, <1>3, <1>4 DEF Logging

LEMMA BreadInstalling ==
    ASSUME NEW s, NEW H, NEW e \in Roles, NEW b, NEW r, Top(s, "bread", b, r), LogList(lh),
           Installing(s, H, e)
    PROVE  b \in Block /\ b \notin H /\ Installing(r, H \cup {b}, e)
  <1>1. \A k, y, q : Top(s, k, y, q) => k = "bread" /\ y = b /\ q = r
    BY OneTop
  <1>2. ASSUME NEW t \in Entries, InstallRound(s, H, e, t)
        PROVE  b \in Block /\ b \notin H /\ Installing(r, H \cup {b}, e)
    <2> DEFINE h == lh[t]
               n == Install(e, t + 1)
    <2>1. /\ Top(Copy3("to_home", h, t, h, n), "to_home", t, Copy4(h, t, h, n))
          /\ Top(Copy2("to_home", h, t, h, n), "bread", h, Copy3("to_home", h, t, h, n))
      BY InstallRoundStacks
    <2>2. t \in Block /\ h \in Block /\ h # t
      BY EntryIs
    <2>3. \/ b = t /\ r = Copy2("to_home", h, t, h, n) /\ H = {} /\ Placed(t - 1, {})
          \/ b = h /\ r = Copy3("to_home", h, t, h, n) /\ H = {t} /\ Placed(t - 1, {})
      BY <1>1, <1>2 DEF InstallRound
    <2> HIDE DEF h, n
    <2>4. b \in Block /\ b \notin H
      BY <2>2, <2>3
    <2>5. InstallRound(r, H \cup {b}, e, t)
      <3>1. \/ Top(r, "bread", h, Copy3("to_home", h, t, h, n)) /\ H \cup {b} = {t} /\ Placed(t - 1, {})
            \/ Top(r, "to_home", t, Copy4(h, t, h, n)) /\ H \cup {b} = {t, h} /\ Placed(t - 1, {})
        BY <2>1, <2>3
      <3> QED BY <3>1 DEF InstallRound, h, n
    <2> QED BY <2>4, <2>5 DEF Installing
  <1>3. CASE b = Header /\ r = ClearWrite(e) /\ H = {} /\ Installed({})
    <2>1. Top(r, "write_head", 0, ClearRel(e)) /\ H \cup {b} = {Header} /\ b \in Block
      BY <1>3, FixedStacks, BlocksAre
    <2> QED BY <1>3, <2>1 DEF Installing
  <1>4. /\ \A t : ~ Top(s, "install", t, ClearLog(e))
        /\ ~ Top(s, "clear", 0, ClearRead(e))
        /\ ~ Top(s, "write_head", 0, ClearRel(e))
        /\ ~ Top(s, "brelse", Header, End(e))
        /\ ~ Top(s, e, 0, <<>>)
        /\ Top(s, "bread", Header, ClearWrite(e)) => b = Header /\ r = ClearWrite(e)
    BY <1>1 DEF Roles
  <1> QED BY <1>2, <1>3, <1>4 DEF Installing

LEMMA CallStacks ==
    ASSUME NEW id, NEW b, NEW r, IsSeq(r)
    PROVE  /\ Top(Written(b, r), "brelse", b, r)
           /\ Top(Writes(id, b, r), "log_write", <<b, id>>, Written(b, r))
           /\ Top(Push(<<"brelse", b>>, <<>>), "brelse", b, <<>>)
           /\ Top(Push(<<"bread", b>>, Push(<<"brelse", b>>, <<>>)), "bread", b,
                  Push(<<"brelse", b>>, <<>>))
  <1>1. Top(Written(b, r), "brelse", b, r)
    BY TopPush DEF Written
  <1>2. Top(Push(<<"brelse", b>>, <<>>), "brelse", b, <<>>)
    BY TopPush, NothingIsSeq
  <1>3. IsSeq(Written(b, r)) /\ IsSeq(Push(<<"brelse", b>>, <<>>))
    BY <1>1, <1>2 DEF Top
  <1>4. Top(Writes(id, b, r), "log_write", <<b, id>>, Written(b, r))
    BY <1>3, TopPush DEF Writes
  <1>5. Top(Push(<<"bread", b>>, Push(<<"brelse", b>>, <<>>)), "bread", b,
            Push(<<"brelse", b>>, <<>>))
    BY <1>3, TopPush
  <1> QED BY <1>1, <1>2, <1>4, <1>5

LEMMA BreadCalling ==
    ASSUME NEW s, NEW H, NEW b, NEW r, Top(s, "bread", b, r), Calling(s, H)
    PROVE  b \in Block /\ b \notin H /\ Calling(r, H \cup {b})
  <1>1. \A k, y, q : Top(s, k, y, q) => k = "bread" /\ y = b /\ q = r
    BY OneTop
  <1>2. s # <<>>
    BY DEF Top
  <1>3. ASSUME NEW id \in 1 .. MaxCalls, NEW ws \in Calls, Writing(s, H, id, ws)
        PROVE  b \in Block /\ b \notin H /\ Calling(r, H \cup {b})
    <2>0. /\ \A l \in {"begin_op", "asleep", "end_op", "brelse", "log_write"} :
               \A x, q : ~ Top(s, l, x, q)
          /\ \A x, q : Top(s, "bread", x, q) => x = b /\ q = r
      BY <1>1
    <2>1. PICK j \in 1 .. Len(ws) : b = ws[j] /\ r = Writes(id, b, Left(id, ws, j)) /\ H = {}
      <3>1. \E j \in 1 .. Len(ws) :
               Top(s, "bread", ws[j], Writes(id, ws[j], Left(id, ws, j))) /\ H = {}
        BY <1>3, <2>0 DEF Writing
      <3> QED BY <2>0, <3>1
    <2>2. ws \in Seq(Homes)
      BY JournalAssumption
    <2>3. IsSeq(Left(id, ws, j)) /\ b \in Homes
      <3>1. j \in 0 .. Len(ws)
        OBVIOUS
      <3> QED BY <2>1, <2>2, <3>1, LeftIs
    <2>4. Top(r, "log_write", <<b, id>>, Written(b, Left(id, ws, j))) /\ H \cup {b} = {b}
      BY <2>1, <2>3, CallStacks
    <2>5. Writing(r, H \cup {b}, id, ws)
      BY <2>1, <2>4 DEF Writing
    <2> QED BY <2>1, <2>3, <2>5, BlocksAre DEF Calling
  <1>4. ASSUME NEW x \in Homes, Reading(s, H, x)
        PROVE  b \in Block /\ b \notin H /\ Calling(r, H \cup {b})
    <2>1. b = x /\ r = Push(<<"brelse", x>>, <<>>) /\ H = {}
      BY <1>1, <1>4 DEF Reading
    <2>2. Top(r, "brelse", x, <<>>) /\ H \cup {b} = {x}
      BY <2>1, CallStacks, NothingIsSeq
    <2>3. Reading(r, H \cup {b}, x)
      BY <2>2 DEF Reading
    <2> QED BY <2>1, <2>3, BlocksAre DEF Calling
  <1> QED BY <1>2, <1>3, <1>4 DEF Calling

LEMMA BreadRecovering ==
    ASSUME NEW s, NEW H, NEW b, NEW r, Top(s, "bread", b, r), Recovering(s, H)
    PROVE  b \in Block /\ b \notin H /\ Recovering(r, H \cup {b})
  <1>1. \A k, y, q : Top(s, k, y, q) => k = "bread" /\ y = b /\ q = r
    BY OneTop
  <1>2. /\ ~ Top(s, "read_head", Header, RecoverRel)
        /\ ~ Top(s, "brelse", Header, Install("up", 1))
        /\ Top(s, "bread", Header, RecoverGet) => b = Header /\ r = RecoverGet
    BY <1>1
  <1>3. b = Header /\ r = RecoverGet /\ H = {} /\ lh = <<>> /\ Dirty = {}
    BY <1>2 DEF Recovering
  <1>4. Top(r, "read_head", Header, RecoverRel) /\ H \cup {b} = {Header} /\ b \in Block
    BY <1>3, HeadStacks, BlocksAre
  <1> QED BY <1>3, <1>4 DEF Recovering

\* bread() of a block that the process has not locked, and then it has.
LEMMA BreadPoint ==
    ASSUME NEW s, NEW H, NEW e, NEW b, NEW r, Top(s, "bread", b, r), LogList(lh), Point(s, H, e)
    PROVE  b \in Block /\ b \notin H /\ Point(r, H \cup {b}, e)
  <1>1. e \in Roles
    BY DEF Point, Roles
  <1>2. CASE e = "call"
    BY <1>2, BreadCalling DEF Point
  <1>3. CASE e = "committed"
    BY <1>1, <1>3, BreadLogging, BreadInstalling DEF Point
  <1>4. CASE e = "up"
    BY <1>1, <1>4, BreadRecovering, BreadInstalling DEF Point
  <1> QED BY <1>1, <1>2, <1>3, <1>4 DEF Roles

LEMMA BrelseLogging ==
    ASSUME NEW s, NEW H, NEW b, NEW r, Top(s, "brelse", b, r), LogList(lh), Logging(s, H)
    PROVE  b \in H /\ (Logging(r, H \ {b}) \/ Installing(r, H \ {b}, "committed"))
  <1>1. \A k, y, q : Top(s, k, y, q) => k = "brelse" /\ y = b /\ q = r
    BY OneTop
  <1>2. ASSUME NEW t \in Entries, LogRound(s, H, t)
        PROVE  b \in H /\ Logging(r, H \ {b})
    <2> DEFINE h == lh[t]
               n == Write(t + 1)
    <2>1. Top(Copy6(h, n), "brelse", h, n) /\ Top(n, "write_log", t + 1, HeadRead)
      BY LogRoundStacks
    <2>2. h # t /\ t \in Int /\ t + 1 \in 1 .. Len(lh) + 1 /\ t + 1 - 1 = t
      BY EntryIs
    <2>3. \/ b = t /\ r = Copy6(h, n) /\ H = {t, h} /\ Logged(t, {})
          \/ b = h /\ r = n /\ H = {h} /\ Logged(t, {})
      BY <1>1, <1>2 DEF LogRound
    <2>4. CASE b = t /\ r = Copy6(h, n) /\ H = {t, h} /\ Logged(t, {})
      <3>1. H \ {b} = {h} /\ b \in H
        BY <2>2, <2>4
      <3>2. LogRound(r, H \ {b}, t)
        BY <2>1, <2>4, <3>1 DEF LogRound
      <3> QED BY <3>1, <3>2 DEF Logging
    <2>5. CASE b = h /\ r = n /\ H = {h} /\ Logged(t, {})
      <3>1. H \ {b} = {} /\ b \in H
        BY <2>5
      <3>2. PICK m \in 1 .. Len(lh) + 1 : m = t + 1
        BY <2>2
      <3>3. Top(r, "write_log", m, HeadRead)
        BY <2>1, <2>5, <3>2
      <3>4. m - 1 = t
        BY <2>2, <3>2
      <3> QED BY <2>5, <3>1, <3>3, <3>4 DEF Logging
    <2> QED BY <2>3, <2>4, <2>5
  <1>3. CASE b = Header /\ r = Install("committed", 1) /\ H = {Header} /\ Placed(0, {})
    <2>1. Top(r, "install", 1, ClearLog("committed")) /\ H \ {b} = {} /\ b \in H
      BY <1>3, FixedStacks
    <2>2. 1 \in 1 .. Len(lh) + 1 /\ 1 - 1 = 0
      BY DEF LogList
    <2> QED BY <1>3, <2>1, <2>2 DEF Installing
  <1>4. /\ \A t : ~ Top(s, "write_log", t, HeadRead)
        /\ ~ Top(s, "write_head", 0, HeadRel)
        /\ ~ Top(s, "bread", Header, HeadWrite)
        /\ Top(s, "brelse", Header, Install("committed", 1)) => b = Header /\ r = Install("committed", 1)
    BY <1>1
  <1> QED BY <1>2, <1>3, <1>4 DEF Logging

LEMMA BrelseInstalling ==
    ASSUME NEW s, NEW H, NEW e \in Roles, NEW b, NEW r, Top(s, "brelse", b, r), LogList(lh),
           Installing(s, H, e)
    PROVE  b \in H /\ Installing(r, H \ {b}, e)
  <1>1. \A k, y, q : Top(s, k, y, q) => k = "brelse" /\ y = b /\ q = r
    BY OneTop
  <1>2. ASSUME NEW t \in Entries, InstallRound(s, H, e, t)
        PROVE  b \in H /\ Installing(r, H \ {b}, e)
    <2> DEFINE h == lh[t]
               n == Install(e, t + 1)
    <2>1. Top(Copy6(h, n), "brelse", h, n) /\ Top(n, "install", t + 1, ClearLog(e))
      BY InstallRoundStacks
    <2>2. h # t /\ t \in Int /\ t + 1 \in 1 .. Len(lh) + 1 /\ t + 1 - 1 = t
      BY EntryIs
    <2>3. \/ b = t /\ r = Copy6(h, n) /\ H = {t, h} /\ Placed(t, {})
          \/ b = h /\ r = n /\ H = {h} /\ Placed(t, {})
      BY <1>1, <1>2 DEF InstallRound
    <2>4. CASE b = t /\ r = Copy6(h, n) /\ H = {t, h} /\ Placed(t, {})
      <3>1. H \ {b} = {h} /\ b \in H
        BY <2>2, <2>4
      <3>2. InstallRound(r, H \ {b}, e, t)
        BY <2>1, <2>4, <3>1 DEF InstallRound
      <3> QED BY <3>1, <3>2 DEF Installing
    <2>5. CASE b = h /\ r = n /\ H = {h} /\ Placed(t, {})
      <3>1. H \ {b} = {} /\ b \in H
        BY <2>5
      <3>2. PICK m \in 1 .. Len(lh) + 1 : m = t + 1
        BY <2>2
      <3>3. Top(r, "install", m, ClearLog(e))
        BY <2>1, <2>5, <3>2
      <3>4. m - 1 = t
        BY <2>2, <3>2
      <3> QED BY <2>5, <3>1, <3>3, <3>4 DEF Installing
    <2> QED BY <2>3, <2>4, <2>5
  <1>3. CASE b = Header /\ r = End(e) /\ H = {Header} /\ Cleared
    <2>1. Top(r, e, 0, <<>>) /\ H \ {b} = {} /\ b \in H
      BY <1>3, FixedStacks
    <2> QED BY <1>3, <2>1 DEF Installing
  <1>4. /\ \A t : ~ Top(s, "install", t, ClearLog(e))
        /\ ~ Top(s, "clear", 0, ClearRead(e))
        /\ ~ Top(s, "write_head", 0, ClearRel(e))
        /\ ~ Top(s, "bread", Header, ClearWrite(e))
        /\ ~ Top(s, e, 0, <<>>)
        /\ Top(s, "brelse", Header, End(e)) => b = Header /\ r = End(e)
    BY <1>1 DEF Roles
  <1> QED BY <1>2, <1>3, <1>4 DEF Installing

LEMMA BrelseCalling ==
    ASSUME NEW s, NEW H, NEW b, NEW r, Top(s, "brelse", b, r), Calling(s, H)
    PROVE  b \in H /\ Calling(r, H \ {b})
  <1>1. \A k, y, q : Top(s, k, y, q) => k = "brelse" /\ y = b /\ q = r
    BY OneTop
  <1>2. s # <<>>
    BY DEF Top
  <1>3. ASSUME NEW id \in 1 .. MaxCalls, NEW ws \in Calls, Writing(s, H, id, ws)
        PROVE  b \in H /\ Calling(r, H \ {b})
    <2>0. /\ \A l \in {"begin_op", "asleep", "end_op", "bread", "log_write"} :
               \A x, q : ~ Top(s, l, x, q)
          /\ \A x, q : Top(s, "brelse", x, q) => x = b /\ q = r
      BY <1>1
    <2>1. PICK j \in 1 .. Len(ws) : b = ws[j] /\ r = Left(id, ws, j) /\ H = {b}
      <3>1. \E j \in 1 .. Len(ws) : Top(s, "brelse", ws[j], Left(id, ws, j)) /\ H = {ws[j]}
        BY <1>3, <2>0 DEF Writing
      <3> QED BY <2>0, <3>1
    <2>2. /\ Len(ws) \in Nat
          /\ j = Len(ws) => Top(r, "end_op", 0, <<>>)
          /\ \A i \in 1 .. Len(ws) : i = j + 1 =>
                Top(r, "bread", ws[i], Writes(id, ws[i], Left(id, ws, i)))
      <3>1. j \in 0 .. Len(ws)
        OBVIOUS
      <3> QED BY <2>1, <3>1, LeftIs
    <2>3. Writing(r, {}, id, ws)
      <3>1. CASE j = Len(ws)
        BY <2>2, <3>1 DEF Writing
      <3>2. CASE j # Len(ws)
        <4>1. PICK m \in 1 .. Len(ws) : m = j + 1
          BY <2>2, <3>2
        <4> QED BY <2>2, <4>1 DEF Writing
      <3> QED BY <3>1, <3>2
    <2>4. H \ {b} = {} /\ b \in H
      BY <2>1
    <2> QED BY <2>3, <2>4 DEF Calling
  <1>4. ASSUME NEW x \in Homes, Reading(s, H, x)
        PROVE  b \in H /\ Calling(r, H \ {b})
    <2>1. b = x /\ r = <<>> /\ H = {x}
      BY <1>1, <1>4 DEF Reading
    <2>2. H \ {b} = {} /\ b \in H
      BY <2>1
    <2> QED BY <2>1, <2>2 DEF Calling
  <1> QED BY <1>2, <1>3, <1>4 DEF Calling

LEMMA BrelseRecovering ==
    ASSUME NEW s, NEW H, NEW b, NEW r, Top(s, "brelse", b, r), LogList(lh), Recovering(s, H)
    PROVE  b \in H /\ Installing(r, H \ {b}, "up")
  <1>1. \A k, y, q : Top(s, k, y, q) => k = "brelse" /\ y = b /\ q = r
    BY OneTop
  <1>2. /\ ~ Top(s, "read_head", Header, RecoverRel)
        /\ ~ Top(s, "bread", Header, RecoverGet)
        /\ Top(s, "brelse", Header, Install("up", 1)) => b = Header /\ r = Install("up", 1)
    BY <1>1
  <1>3. b = Header /\ r = Install("up", 1) /\ H = {Header} /\ Placed(0, {})
    BY <1>2 DEF Recovering
  <1>4. Top(r, "install", 1, ClearLog("up")) /\ H \ {b} = {} /\ b \in H
    BY <1>3, FixedStacks
  <1>5. 1 \in 1 .. Len(lh) + 1 /\ 1 - 1 = 0
    BY DEF LogList
  <1> QED BY <1>3, <1>4, <1>5 DEF Installing

\* brelse() of a buffer that the process has locked.
LEMMA BrelsePoint ==
    ASSUME NEW s, NEW H, NEW e, NEW b, NEW r, Top(s, "brelse", b, r), LogList(lh), Point(s, H, e)
    PROVE  b \in H /\ Point(r, H \ {b}, e)
  <1>1. e \in Roles
    BY DEF Point, Roles
  <1>2. CASE e = "call"
    BY <1>2, BrelseCalling DEF Point
  <1>3. CASE e = "committed"
    BY <1>1, <1>3, BrelseLogging, BrelseInstalling DEF Point
  <1>4. CASE e = "up"
    BY <1>1, <1>4, BrelseRecovering, BrelseInstalling DEF Point
  <1> QED BY <1>1, <1>2, <1>3, <1>4 DEF Roles

LEMMA WhichFrame ==
    ASSUME NEW s, NEW H, NEW e, NEW l, NEW x, NEW r, Top(s, l, x, r)
    PROVE  /\ Calling(s, H) => l \in {"begin_op", "asleep", "end_op", "bread", "log_write", "brelse"}
           /\ Logging(s, H) => l \in {"write_log", "bread", "to_log", "write_head", "brelse"}
           /\ Installing(s, H, e) =>
                l \in {"install", "bread", "to_home", "write_head", "brelse", "clear", e}
           /\ Recovering(s, H) => l \in {"bread", "read_head", "brelse"}
  <1>1. \A k, y, q : Top(s, k, y, q) => k = l
    BY OneTop
  <1>2. s # <<>>
    BY DEF Top
  <1>3. Calling(s, H) => l \in {"begin_op", "asleep", "end_op", "bread", "log_write", "brelse"}
    BY <1>1, <1>2 DEF Calling, Writing, Reading
  <1>4. Logging(s, H) => l \in {"write_log", "bread", "to_log", "write_head", "brelse"}
    BY <1>1 DEF Logging, LogRound
  <1>5. Installing(s, H, e) =>
            l \in {"install", "bread", "to_home", "write_head", "brelse", "clear", e}
    BY <1>1 DEF Installing, InstallRound
  <1>6. Recovering(s, H) => l \in {"bread", "read_head", "brelse"}
    BY <1>1 DEF Recovering
  <1> QED BY <1>3, <1>4, <1>5, <1>6

\* What the frames say that only a commit or a recovery has.
LEMMA WriteLogPoint ==
    ASSUME NEW s, NEW H, NEW e, NEW t, NEW r, Top(s, "write_log", t, r), Point(s, H, e)
    PROVE  /\ e = "committed" /\ up /\ t \in 1 .. Len(lh) + 1
           /\ r = HeadRead /\ H = {} /\ Logged(t - 1, {})
  <1>1. e = "committed" /\ up /\ Logging(s, H)
    BY WhichFrame DEF Point
  <1>2. /\ \A l \in {"bread", "to_log", "write_head", "brelse"} : \A x, q : ~ Top(s, l, x, q)
        /\ \A x, q : Top(s, "write_log", x, q) => x = t /\ q = r
    BY OneTop
  <1>3. \E u \in 1 .. Len(lh) + 1 :
            Top(s, "write_log", u, HeadRead) /\ H = {} /\ Logged(u - 1, {})
    BY <1>1, <1>2 DEF Logging, LogRound
  <1> QED BY <1>1, <1>2, <1>3

LEMMA ToLogPoint ==
    ASSUME NEW s, NEW H, NEW e, NEW t, NEW r, Top(s, "to_log", t, r), Point(s, H, e)
    PROVE  /\ e = "committed" /\ up /\ t \in Entries
           /\ r = Copy4(t, t, lh[t], Write(t + 1)) /\ H = {t, lh[t]} /\ Logged(t - 1, {})
  <1>1. e = "committed" /\ up /\ Logging(s, H)
    BY WhichFrame DEF Point
  <1>2. /\ \A l \in {"bread", "write_log", "write_head", "brelse"} : \A x, q : ~ Top(s, l, x, q)
        /\ \A x, q : Top(s, "to_log", x, q) => x = t /\ q = r
    BY OneTop
  <1>3. \E u \in Entries : Top(s, "to_log", u, Copy4(u, u, lh[u], Write(u + 1)))
                           /\ H = {u, lh[u]} /\ Logged(u - 1, {})
    BY <1>1, <1>2 DEF Logging, LogRound
  <1> QED BY <1>1, <1>2, <1>3

LEMMA InstallPoint ==
    ASSUME NEW s, NEW H, NEW e, NEW t, NEW r, Top(s, "install", t, r), Point(s, H, e)
    PROVE  /\ e \in {"committed", "up"} /\ (up <=> e = "committed") /\ t \in 1 .. Len(lh) + 1
           /\ r = ClearLog(e) /\ H = {} /\ Placed(t - 1, {})
  <1>1. e \in {"committed", "up"} /\ (up <=> e = "committed") /\ Installing(s, H, e)
    BY WhichFrame DEF Point
  <1>2. /\ \A l \in {"bread", "to_home", "write_head", "brelse", "clear", e} :
              \A x, q : ~ Top(s, l, x, q)
        /\ \A x, q : Top(s, "install", x, q) => x = t /\ q = r
    BY <1>1, OneTop
  <1>3. \E u \in 1 .. Len(lh) + 1 :
            Top(s, "install", u, ClearLog(e)) /\ H = {} /\ Placed(u - 1, {})
    BY <1>1, <1>2 DEF Installing, InstallRound
  <1> QED BY <1>1, <1>2, <1>3

LEMMA ToHomePoint ==
    ASSUME NEW s, NEW H, NEW e, NEW t, NEW r, Top(s, "to_home", t, r), Point(s, H, e)
    PROVE  /\ e \in {"committed", "up"} /\ (up <=> e = "committed") /\ t \in Entries
           /\ r = Copy4(lh[t], t, lh[t], Install(e, t + 1)) /\ H = {t, lh[t]} /\ Placed(t - 1, {})
  <1>1. e \in {"committed", "up"} /\ (up <=> e = "committed") /\ Installing(s, H, e)
    BY WhichFrame DEF Point
  <1>2. /\ \A l \in {"bread", "install", "write_head", "brelse", "clear", e} :
              \A x, q : ~ Top(s, l, x, q)
        /\ \A x, q : Top(s, "to_home", x, q) => x = t /\ q = r
    BY <1>1, OneTop
  <1>3. \E u \in Entries : Top(s, "to_home", u, Copy4(lh[u], u, lh[u], Install(e, u + 1)))
                           /\ H = {u, lh[u]} /\ Placed(u - 1, {})
    BY <1>1, <1>2 DEF Installing, InstallRound
  <1> QED BY <1>1, <1>2, <1>3

LEMMA ClearPoint ==
    ASSUME NEW s, NEW H, NEW e, NEW x, NEW r, Top(s, "clear", x, r), Point(s, H, e)
    PROVE  /\ e \in {"committed", "up"} /\ (up <=> e = "committed")
           /\ r = ClearRead(e) /\ H = {} /\ Placed(Len(lh), {})
  <1>1. e \in {"committed", "up"} /\ (up <=> e = "committed") /\ Installing(s, H, e)
    BY WhichFrame DEF Point
  <1>2. /\ \A l \in {"bread", "to_home", "write_head", "brelse", "install", e} :
              \A y, q : ~ Top(s, l, y, q)
        /\ \A y, q : Top(s, "clear", y, q) => y = x /\ q = r
    BY <1>1, OneTop
  <1>3. Top(s, "clear", 0, ClearRead(e)) /\ H = {} /\ Placed(Len(lh), {})
    BY <1>1, <1>2 DEF Installing, InstallRound
  <1> QED BY <1>1, <1>2, <1>3

LEMMA WriteHeadPoint ==
    ASSUME NEW s, NEW H, NEW e, NEW x, NEW r, Top(s, "write_head", x, r), Point(s, H, e)
    PROVE  /\ e \in {"committed", "up"} /\ (up <=> e = "committed") /\ H = {Header}
           /\ \/ e = "committed" /\ r = HeadRel /\ Logged(Len(lh), {})
              \/ r = ClearRel(e) /\ Installed({})
  <1>1. e \in {"committed", "up"} /\ (up <=> e = "committed")
        /\ ((e = "committed" /\ Logging(s, H)) \/ Installing(s, H, e))
    BY WhichFrame DEF Point
  <1>2. /\ \A l \in {"bread", "to_home", "clear", "brelse", "install", "to_log", "write_log", e} :
              \A y, q : ~ Top(s, l, y, q)
        /\ \A y, q : Top(s, "write_head", y, q) => y = x /\ q = r
    BY <1>1, OneTop
  <1>3. Logging(s, H) => Top(s, "write_head", 0, HeadRel) /\ H = {Header} /\ Logged(Len(lh), {})
    BY <1>2 DEF Logging, LogRound
  <1>4. Installing(s, H, e) =>
            Top(s, "write_head", 0, ClearRel(e)) /\ H = {Header} /\ Installed({})
    BY <1>2 DEF Installing, InstallRound
  <1> QED BY <1>1, <1>2, <1>3, <1>4

LEMMA ReadHeadPoint ==
    ASSUME NEW s, NEW H, NEW e, NEW x, NEW r, Top(s, "read_head", x, r), Point(s, H, e)
    PROVE  e = "up" /\ ~ up /\ r = RecoverRel /\ H = {Header} /\ lh = <<>> /\ Dirty = {}
  <1>1. e = "up" /\ ~ up /\ Recovering(s, H)
    BY WhichFrame DEF Point
  <1>2. /\ \A l \in {"bread", "brelse"} : \A y, q : ~ Top(s, l, y, q)
        /\ \A y, q : Top(s, "read_head", y, q) => y = x /\ q = r
    BY OneTop
  <1>3. Top(s, "read_head", Header, RecoverRel) /\ H = {Header} /\ lh = <<>> /\ Dirty = {}
    BY <1>1, <1>2 DEF Recovering
  <1> QED BY <1>1, <1>2, <1>3

\* The last frame of a commit or a recovery.
LEMMA LastPoint ==
    ASSUME NEW s, NEW H, NEW e, NEW l \in {"committed", "up"}, NEW x, NEW r, Top(s, l, x, r),
           Point(s, H, e)
    PROVE  e = l /\ (up <=> e = "committed") /\ r = <<>> /\ H = {} /\ Cleared
  <1>1. e = l /\ (up <=> e = "committed") /\ Installing(s, H, e)
    BY WhichFrame DEF Point
  <1>2. /\ \A k \in {"bread", "brelse", "to_home", "install", "write_head", "clear"} :
              \A y, q : ~ Top(s, k, y, q)
        /\ \A y, q : Top(s, l, y, q) => y = x /\ q = r
    BY OneTop
  <1>3. Top(s, e, 0, <<>>) /\ H = {} /\ Cleared
    BY <1>1, <1>2 DEF Installing, InstallRound
  <1> QED BY <1>1, <1>2, <1>3

\* The frames that only a call has.
LEMMA BeginPoint ==
    ASSUME NEW s, NEW H, NEW e, NEW l \in {"begin_op", "asleep"}, NEW x, NEW r, Top(s, l, x, r),
           Point(s, H, e)
    PROVE  /\ e = "call" /\ r = <<>> /\ H = {}
           /\ \E id \in 1 .. MaxCalls, ws \in Calls : x = <<id, ws>>
  <1>1. e = "call" /\ Calling(s, H)
    BY WhichFrame DEF Point
  <1>2. /\ s # <<>>
        /\ \A k \in {"bread", "brelse", "end_op", "log_write"} : \A y, q : ~ Top(s, k, y, q)
        /\ \A k \in {"begin_op", "asleep"} : \A y, q : Top(s, k, y, q) => y = x /\ q = r
    BY OneTop DEF Top
  <1>3. \A b : ~ Reading(s, H, b)
    BY <1>2 DEF Reading
  <1>4. PICK id \in 1 .. MaxCalls, ws \in Calls : Writing(s, H, id, ws)
    BY <1>1, <1>2, <1>3 DEF Calling
  <1>5. H = {} /\ \E k \in {"begin_op", "asleep"} : Top(s, k, <<id, ws>>, <<>>)
    BY <1>2, <1>4 DEF Writing
  <1>6. x = <<id, ws>> /\ r = <<>>
    BY <1>2, <1>5
  <1> QED BY <1>1, <1>5, <1>6

LEMMA EndOpPoint ==
    ASSUME NEW s, NEW H, NEW e, NEW x, NEW r, Top(s, "end_op", x, r), Point(s, H, e)
    PROVE  e = "call" /\ r = <<>> /\ H = {}
  <1>1. e = "call" /\ Calling(s, H)
    BY WhichFrame DEF Point
  <1>2. /\ s # <<>>
        /\ \A k \in {"bread", "brelse", "begin_op", "asleep", "log_write"} :
              \A y, q : ~ Top(s, k, y, q)
        /\ \A y, q : Top(s, "end_op", y, q) => y = x /\ q = r
    BY OneTop DEF Top
  <1>3. \A b : ~ Reading(s, H, b)
    BY <1>2 DEF Reading
  <1>4. PICK id \in 1 .. MaxCalls, ws \in Calls : Writing(s, H, id, ws)
    BY <1>1, <1>2, <1>3 DEF Calling
  <1>5. H = {} /\ Top(s, "end_op", 0, <<>>)
    BY <1>2, <1>4 DEF Writing
  <1> QED BY <1>1, <1>2, <1>5

LEMMA LogWritePoint ==
    ASSUME NEW s, NEW H, NEW e, NEW x, NEW r, Top(s, "log_write", x, r), Point(s, H, e)
    PROVE  /\ e = "call" /\ Calling(r, H)
           /\ x[1] \in Homes /\ x[2] \in 1 .. MaxCalls /\ H = {x[1]}
           /\ \E id \in 1 .. MaxCalls, ws \in Calls : \E j \in 1 .. Len(ws) :
                r = Written(ws[j], Left(id, ws, j))
  <1>1. e = "call" /\ Calling(s, H)
    BY WhichFrame DEF Point
  <1>2. /\ s # <<>>
        /\ \A k \in {"bread", "brelse", "begin_op", "asleep", "end_op"} :
              \A y, q : ~ Top(s, k, y, q)
        /\ \A y, q : Top(s, "log_write", y, q) => y = x /\ q = r
    BY OneTop DEF Top
  <1>3. \A b : ~ Reading(s, H, b)
    BY <1>2 DEF Reading
  <1>4. PICK id \in 1 .. MaxCalls, ws \in Calls : Writing(s, H, id, ws)
    BY <1>1, <1>2, <1>3 DEF Calling
  <1>5. PICK j \in 1 .. Len(ws) :
            Top(s, "log_write", <<ws[j], id>>, Written(ws[j], Left(id, ws, j))) /\ H = {ws[j]}
    BY <1>2, <1>4 DEF Writing
  <1>6. x = <<ws[j], id>> /\ r = Written(ws[j], Left(id, ws, j))
    BY <1>2, <1>5
  <1>7. x[1] = ws[j] /\ x[2] = id
    BY <1>6
  <1>8. ws[j] \in Homes /\ IsSeq(Left(id, ws, j))
    <2>1. ws \in Seq(Homes) /\ j \in 0 .. Len(ws)
      BY JournalAssumption
    <2> QED BY <2>1, LeftIs
  <1>9. Top(r, "brelse", ws[j], Left(id, ws, j))
    BY <1>6, <1>8, CallStacks
  <1>10. Writing(r, H, id, ws)
    BY <1>5, <1>9 DEF Writing
  <1>11. Calling(r, H)
    BY <1>10 DEF Calling
  <1> QED BY <1>1, <1>4, <1>5, <1>6, <1>7, <1>8, <1>11

-----------------------------------------------------------------------------
(* Frames that give way to several *)

LEMMA WriteLogGoes ==
    ASSUME NEW s, NEW H, NEW e, NEW t, NEW r, Top(s, "write_log", t, r), Point(s, H, e),
           LogList(lh)
    PROVE  Point(Copying("write_log", "to_log", t, t) \o r, H, e)
  <1> DEFINE h == lh[t]
             n == Write(t + 1)
             f == Copying("write_log", "to_log", t, t)
  <1>1. /\ e = "committed" /\ up /\ t \in 1 .. Len(lh) + 1
        /\ r = HeadRead /\ H = {} /\ Logged(t - 1, {}) /\ IsSeq(r)
    BY WriteLogPoint DEF Top
  <1>2. Len(lh) \in Nat /\ t \in Int
    BY <1>1 DEF LogList
  <1>3. CASE t > Len(lh)
    <2>1. t - 1 = Len(lh)
      BY <1>1, <1>2, <1>3
    <2>2. f \o r = HeadRead
      BY <1>1, <1>3, NoFrames DEF Copying
    <2>3. Top(f \o r, "bread", Header, HeadWrite)
      BY <2>2, HeadStacks
    <2> HIDE DEF f
    <2>4. Logging(f \o r, H)
      BY <1>1, <2>1, <2>3 DEF Logging
    <2> QED BY <1>1, <2>4 DEF Point, f
  <1>4. CASE ~ (t > Len(lh))
    <2>1. t \in Entries
      BY <1>1, <1>2, <1>4 DEF Entries
    <2>2. f = << <<"bread", t>>, <<"bread", h>>, <<"to_log", t>>, <<"iderw", t>>,
                 <<"brelse", t>>, <<"brelse", h>>, <<"write_log", t + 1>> >>
      BY <1>4 DEF Copying
    <2> DEFINE f1 == <<"bread", t>>
               f2 == <<"bread", h>>
               f3 == <<"to_log", t>>
               f4 == <<"iderw", t>>
               f5 == <<"brelse", t>>
               f6 == <<"brelse", h>>
               f7 == <<"write_log", t + 1>>
    <2>3. <<f1, f2, f3, f4, f5, f6, f7>> \o r =
          Push(f1, Push(f2, Push(f3, Push(f4, Push(f5, Push(f6, Push(f7, r)))))))
      <3> HIDE DEF f1, f2, f3, f4, f5, f6, f7
      <3> QED BY <1>1, Frames7
    <2>4. f \o r = Copy1("to_log", t, t, h, n)
      BY <1>1, <2>2, <2>3 DEF Copy1, Copy2, Copy3, Copy4, Copy5, Copy6, Write
    <2>5. Top(f \o r, "bread", t, Copy2("to_log", t, t, h, n))
      BY <2>4, LogRoundStacks
    <2> HIDE DEF f
    <2>6. LogRound(f \o r, H, t)
      BY <1>1, <2>5 DEF LogRound
    <2>7. Logging(f \o r, H)
      BY <2>1, <2>6 DEF Logging
    <2> QED BY <1>1, <2>7 DEF Point, f
  <1> QED BY <1>3, <1>4

LEMMA InstallingPoint ==
    ASSUME NEW s, NEW H, NEW e \in {"committed", "up"}, up <=> e = "committed", Installing(s, H, e)
    PROVE  Point(s, H, e)
  <1>1. CASE e = "committed"
    BY <1>1 DEF Point
  <1>2. CASE e = "up"
    BY <1>2 DEF Point
  <1> QED BY <1>1, <1>2

LEMMA InstallGoes ==
    ASSUME NEW s, NEW H, NEW e, NEW t, NEW r, Top(s, "install", t, r), Point(s, H, e),
           LogList(lh)
    PROVE  Point(Copying("install", "to_home", t, IF t > Len(lh) THEN 0 ELSE lh[t]) \o r, H, e)
  <1> DEFINE h == lh[t]
             n == Install(e, t + 1)
             f == Copying("install", "to_home", t, IF t > Len(lh) THEN 0 ELSE lh[t])
  <1>1. /\ e \in {"committed", "up"} /\ (up <=> e = "committed") /\ t \in 1 .. Len(lh) + 1
        /\ r = ClearLog(e) /\ H = {} /\ Placed(t - 1, {}) /\ IsSeq(r)
    BY InstallPoint DEF Top
  <1>2. Len(lh) \in Nat /\ t \in Int
    BY <1>1 DEF LogList
  <1>3. CASE t > Len(lh)
    <2>1. t - 1 = Len(lh)
      BY <1>1, <1>2, <1>3
    <2>2. f \o r = ClearLog(e)
      BY <1>1, <1>3, NoFrames DEF Copying
    <2>3. Top(f \o r, "clear", 0, ClearRead(e))
      BY <2>2, FixedStacks
    <2> HIDE DEF f
    <2>4. Installing(f \o r, H, e)
      BY <1>1, <2>1, <2>3 DEF Installing
    <2> QED BY <1>1, <2>4, InstallingPoint DEF f
  <1>4. CASE ~ (t > Len(lh))
    <2>1. t \in Entries
      BY <1>1, <1>2, <1>4 DEF Entries
    <2>2. f = << <<"bread", t>>, <<"bread", h>>, <<"to_home", t>>, <<"iderw", h>>,
                 <<"brelse", t>>, <<"brelse", h>>, <<"install", t + 1>> >>
      BY <1>4 DEF Copying
    <2> DEFINE f1 == <<"bread", t>>
               f2 == <<"bread", h>>
               f3 == <<"to_home", t>>
               f4 == <<"iderw", h>>
               f5 == <<"brelse", t>>
               f6 == <<"brelse", h>>
               f7 == <<"install", t + 1>>
    <2>3. <<f1, f2, f3, f4, f5, f6, f7>> \o r =
          Push(f1, Push(f2, Push(f3, Push(f4, Push(f5, Push(f6, Push(f7, r)))))))
      <3> HIDE DEF f1, f2, f3, f4, f5, f6, f7
      <3> QED BY <1>1, Frames7
    <2>4. f \o r = Copy1("to_home", h, t, h, n)
      BY <1>1, <2>2, <2>3 DEF Copy1, Copy2, Copy3, Copy4, Copy5, Copy6, Install
    <2>5. Top(f \o r, "bread", t, Copy2("to_home", h, t, h, n))
      BY <2>4, InstallRoundStacks
    <2> HIDE DEF f
    <2>6. InstallRound(f \o r, H, e, t)
      BY <1>1, <2>5 DEF InstallRound
    <2>7. Installing(f \o r, H, e)
      BY <2>1, <2>6 DEF Installing
    <2> QED BY <1>1, <2>7, InstallingPoint DEF f
  <1> QED BY <1>3, <1>4

LEMMA OneFrameTop ==
    ASSUME NEW l, NEW x
    PROVE  Top(<< <<l, x>> >>, l, x, <<>>) /\ << <<l, x>> >> \o <<>> = << <<l, x>> >>
  <1>1. IsSeq(<< <<l, x>> >>) /\ Push(<<l, x>>, <<>>) = << <<l, x>> >>
    BY OneFrame
  <1> QED BY <1>1, TopPush, NothingIsSeq, WithoutTail

LEMMA BeginGoes ==
    ASSUME NEW s, NEW H, NEW e, NEW x, NEW r, Point(s, H, e),
           Top(s, "begin_op", x, r)
    PROVE  /\ Point(Body(x[1], x[2]) \o r, H, e)
           /\ Point(<< <<"asleep", x>> >> \o r, H, e)
  <1>1. PICK id \in 1 .. MaxCalls, ws \in Calls : x = <<id, ws>>
    BY BeginPoint
  <1>2. e = "call" /\ r = <<>> /\ H = {}
    BY BeginPoint
  <1>3. Top(<< <<"asleep", x>> >> \o r, "asleep", x, <<>>)
    BY <1>2, OneFrameTop
  <1>4. Writing(<< <<"asleep", x>> >> \o r, H, id, ws)
    BY <1>1, <1>2, <1>3 DEF Writing
  <1>5. Writing(Body(x[1], x[2]) \o r, H, id, ws)
    <2>1. /\ Len(ws) \in Nat /\ IsSeq(Left(id, ws, 0))
          /\ 0 = Len(ws) => Top(Left(id, ws, 0), "end_op", 0, <<>>)
          /\ \A i \in 1 .. Len(ws) : i = 0 + 1 =>
                Top(Left(id, ws, 0), "bread", ws[i], Writes(id, ws[i], Left(id, ws, i)))
      <3>1. ws \in Seq(Homes) /\ 0 \in 0 .. Len(ws)
        BY JournalAssumption
      <3> QED BY <3>1, LeftIs
    <2>2. Body(x[1], x[2]) \o r = Left(id, ws, 0)
      BY <1>1, <1>2, <2>1, LeftAll, WithoutTail
    <2>3. CASE Len(ws) = 0
      BY <1>2, <2>1, <2>2, <2>3 DEF Writing
    <2>4. CASE Len(ws) # 0
      <3>1. 1 \in 1 .. Len(ws) /\ 1 = 0 + 1
        BY <2>1, <2>4
      <3>2. Top(Left(id, ws, 0), "bread", ws[1], Writes(id, ws[1], Left(id, ws, 1)))
        BY <2>1, <3>1
      <3> QED BY <1>2, <2>2, <3>1, <3>2 DEF Writing
    <2> QED BY <2>3, <2>4
  <1> QED BY <1>2, <1>4, <1>5 DEF Point, Calling

LEMMA AsleepGoes ==
    ASSUME NEW s, NEW H, NEW e, NEW x, NEW r, Point(s, H, e), Top(s, "asleep", x, r)
    PROVE  Point(<< <<"begin_op", x>> >>, H, e)
  <1>1. PICK id \in 1 .. MaxCalls, ws \in Calls : x = <<id, ws>>
    BY BeginPoint
  <1>2. e = "call" /\ r = <<>> /\ H = {}
    BY BeginPoint
  <1>3. Top(<< <<"begin_op", x>> >>, "begin_op", x, <<>>)
    BY OneFrameTop
  <1>4. Writing(<< <<"begin_op", x>> >>, H, id, ws)
    BY <1>1, <1>2, <1>3 DEF Writing
  <1> QED BY <1>2, <1>4 DEF Point, Calling

LEMMA CallGoes ==
    /\ \A id \in 1 .. MaxCalls, ws \in Calls :
          Point(<< <<"begin_op", <<id, ws>>>> >>, {}, "call")
    /\ \A b \in Homes : Point(<< <<"bread", b>>, <<"brelse", b>> >>, {}, "call")
    /\ Point(<<>>, {}, "call")
  <1>1. ASSUME NEW id \in 1 .. MaxCalls, NEW ws \in Calls
        PROVE  Calling(<< <<"begin_op", <<id, ws>>>> >>, {})
    <2>1. Top(<< <<"begin_op", <<id, ws>>>> >>, "begin_op", <<id, ws>>, <<>>)
      BY OneFrameTop
    <2>2. Writing(<< <<"begin_op", <<id, ws>>>> >>, {}, id, ws)
      BY <2>1 DEF Writing
    <2> QED BY <2>2 DEF Calling
  <1>2. ASSUME NEW b \in Homes
        PROVE  Calling(<< <<"bread", b>>, <<"brelse", b>> >>, {})
    <2> DEFINE f == << <<"bread", b>>, <<"brelse", b>> >>
    <2>1. f \in Seq({<<"bread", b>>, <<"brelse", b>>})
      OBVIOUS
    <2>2. f \o <<>> = f
      <3> HIDE DEF f
      <3>1. IsSeq(f)
        BY <2>1 DEF IsSeq
      <3> QED BY <3>1, WithoutTail
    <2>3. f \o <<>> = Push(<<"bread", b>>, Push(<<"brelse", b>>, <<>>))
      <3> DEFINE f1 == <<"bread", b>>
                 f2 == <<"brelse", b>>
      <3> HIDE DEF f1, f2
      <3>1. PICK z : z = <<>> /\ IsSeq(z)
        BY NothingIsSeq
      <3>0. IsSeq(z)
        BY <3>1
      <3>2. <<f1, f2>> \o z = Push(f1, Push(f2, z))
        BY <3>0, Frames2
      <3> QED BY <3>1, <3>2 DEF f1, f2
    <2>4. Top(f, "bread", b, Push(<<"brelse", b>>, <<>>))
      <3>1. Top(Push(<<"bread", b>>, Push(<<"brelse", b>>, <<>>)), "bread", b,
                Push(<<"brelse", b>>, <<>>))
        BY NothingIsSeq, CallStacks
      <3> HIDE DEF f
      <3> QED BY <2>2, <2>3, <3>1
    <2> HIDE DEF f
    <2>5. Reading(f, {}, b)
      BY <2>4 DEF Reading
    <2>6. Calling(f, {})
      BY <2>5 DEF Calling
    <2> QED BY <2>6 DEF f
  <1>3. Calling(<<>>, {})
    BY DEF Calling
  <1> QED BY <1>1, <1>2, <1>3 DEF Point

LEMMA CommitGoes ==
    /\ lh = <<>> => Top(commit, "committed", 0, <<>>)
    /\ lh # <<>> => Top(commit, "write_log", 1, HeadRead)
    /\ commit \o <<>> = commit
  <1>1. commit \o <<>> = commit
    BY PlainCommit, WithoutTail DEF Plain
  <1>2. CASE lh = <<>>
    <2>1. commit = << <<"committed", 0>> >>
      BY <1>2 DEF commit
    <2> QED BY <1>1, <1>2, <2>1, OneFrameTop
  <1>3. CASE lh # <<>>
    <2>1. commit = << <<"write_log", 1>>,
            <<"bread", Header>>, <<"write_head", 0>>, <<"brelse", Header>>,
            <<"install", 1>>, <<"clear", 0>>,
            <<"bread", Header>>, <<"write_head", 0>>, <<"brelse", Header>>,
            <<"committed", 0>> >>
      BY <1>3 DEF commit
    <2> DEFINE f1 == <<"write_log", 1>>
               f2 == <<"bread", Header>>
               f3 == <<"write_head", 0>>
               f4 == <<"brelse", Header>>
               f5 == <<"install", 1>>
               f6 == <<"clear", 0>>
               f7 == <<"committed", 0>>
    <2>2. <<f1, f2, f3, f4, f5, f6, f2, f3, f4, f7>> \o <<>> =
          Push(f1, Push(f2, Push(f3, Push(f4, Push(f5, Push(f6, Push(f2, Push(f3, Push(f4,
             Push(f7, <<>>))))))))))
      <3> HIDE DEF f1, f2, f3, f4, f5, f6, f7
      <3>1. PICK z : z = <<>> /\ IsSeq(z)
        BY NothingIsSeq
      <3>0. IsSeq(z)
        BY <3>1
      <3>2. <<f1, f2, f3, f4, f5, f6, f2, f3, f4, f7>> \o z =
            Push(f1, Push(f2, Push(f3, Push(f4, Push(f5, Push(f6, Push(f2, Push(f3, Push(f4,
               Push(f7, z))))))))))
        BY <3>0, Frames10
      <3> QED BY <3>1, <3>2
    <2>3. commit = Write(1)
      BY <1>1, <2>1, <2>2
      DEF Write, HeadRead, HeadWrite, HeadRel, Install, ClearLog, ClearRead, ClearWrite, ClearRel, End
    <2> QED BY <1>1, <1>3, <2>3, HeadStacks
  <1> QED BY <1>2, <1>3

LEMMA InitlogGoes == Top(initlog, "bread", Header, RecoverGet)
  <1>1. initlog \o <<>> = initlog
    BY PlainInitlog, WithoutTail DEF Plain
  <1> DEFINE f1 == <<"bread", Header>>
             f2 == <<"read_head", Header>>
             f3 == <<"brelse", Header>>
             f4 == <<"install", 1>>
             f5 == <<"clear", 0>>
             f6 == <<"write_head", 0>>
             f7 == <<"up", 0>>
  <1>2. <<f1, f2, f3, f4, f5, f1, f6, f3, f7>> \o <<>> =
        Push(f1, Push(f2, Push(f3, Push(f4, Push(f5, Push(f1, Push(f6, Push(f3,
           Push(f7, <<>>)))))))))
    <2> HIDE DEF f1, f2, f3, f4, f5, f6, f7
    <2>1. PICK z : z = <<>> /\ IsSeq(z)
      BY NothingIsSeq
    <2>0. IsSeq(z)
      BY <2>1
    <2>2. <<f1, f2, f3, f4, f5, f1, f6, f3, f7>> \o z =
          Push(f1, Push(f2, Push(f3, Push(f4, Push(f5, Push(f1, Push(f6, Push(f3,
             Push(f7, z)))))))))
      BY <2>0, Frames9
    <2> QED BY <2>1, <2>2
  <1>3. initlog = RecoverRead
    BY <1>1, <1>2
    DEF initlog, RecoverRead, RecoverGet, RecoverRel, Install, ClearLog, ClearRead, ClearWrite, ClearRel, End
  <1> QED BY <1>3, HeadStacks

-----------------------------------------------------------------------------
(* The invariant *)

Held(p) == {b \in Cached : cache[b].holder = p}

\* The frame on top waits for block b.
For(s, l, b) == s # <<>> /\ Head(s)[1] = l /\ Head(s)[2] = b

Users(b) == {p \in Proc : b \in Held(p) \/ For(todo[p], "acquire", b)}

Contents == Nat \cup Seq(Homes)
Buffers  == [valid : BOOLEAN, dirty : BOOLEAN, refcnt : Nat, holder : Proc \cup {NONE},
             data : Contents]

Types ==
    /\ disk \in [Block -> Contents]
    /\ cache \in [Cached -> Buffers] /\ Cached \subseteq Block
    /\ up \in BOOLEAN /\ calls \in 0 .. MaxCalls

Counts == \A b \in Cached : cache[b].refcnt = Cardinality(Users(b))

Coherent ==
    \A b \in Cached :
        /\ cache[b].dirty => cache[b].valid
        /\ cache[b].valid /\ ~ cache[b].dirty => cache[b].data = disk[b]

\* What a process has locked has been read, unless it is reading it.
Filled ==
    \A p \in Proc : \A b \in Held(p) :
        cache[b].valid \/ For(todo[p], "iderw", b) \/ For(todo[p], "sleep", b)

Queued ==
    /\ idequeue \in Seq(Block) /\ Distinct(idequeue)
    /\ \A i \in 1 .. Len(idequeue) : \E p \in Proc :
          /\ For(todo[p], "sleep", idequeue[i]) /\ idequeue[i] \in Held(p)
          /\ ~ Clean(idequeue[i])

\* At most one process, c, commits or recovers; the others make calls.
Role(p, c) == IF p # c THEN "call" ELSE IF up THEN "committed" ELSE "up"

Control(c) ==
    /\ \A p \in Proc : Stands(todo[p], Held(p), Role(p, c))
    /\ c = NONE <=> (up /\ ~ committing)
    /\ c = NONE => Running
    /\ ~ up => c = Boot /\ ~ committing /\ \A p \in Proc : p # c => todo[p] = <<>>

CacheInv == Types /\ Counts /\ Coherent /\ Filled /\ Queued

Roled == \E c \in Proc \cup {NONE} : Control(c)

JInv == Inv /\ CacheInv /\ Lists /\ Roled

-----------------------------------------------------------------------------
(* What a process relies on *)

LEMMA DataSame ==
    ASSUME Data' = Data
    PROVE  /\ disk' = disk /\ lh' = lh /\ (up' <=> up) /\ Dirty' = Dirty /\ Unwritten' = Unwritten
           /\ OnDisk' = OnDisk /\ Entries' = Entries
  <1>1. disk' = disk /\ lh' = lh /\ (up' <=> up) /\ Dirty' = Dirty /\ Unwritten' = Unwritten
    BY DEF Data
  <1> QED BY <1>1 DEF OnDisk, Entries

LEMMA PlacesSame ==
    ASSUME Data' = Data
    PROVE  /\ \A n, S : Logged(n, S) => Logged(n, S)'
           /\ \A n, S : Placed(n, S) => Placed(n, S)'
           /\ \A S : Installed(S) => Installed(S)'
           /\ Cleared => Cleared'
           /\ Running => Running'
  <1>1. /\ disk' = disk /\ lh' = lh /\ (up' <=> up) /\ Dirty' = Dirty /\ Unwritten' = Unwritten
        /\ OnDisk' = OnDisk
    BY DataSame
  <1>2. \A n, S : Logged(n, S) => Logged(n, S)'
    BY <1>1 DEF Logged
  <1>3. \A n, S : Placed(n, S) => Placed(n, S)'
    BY <1>1 DEF Placed, Later
  <1>4. \A S : Installed(S) => Installed(S)'
    BY <1>1 DEF Installed, AllPlaced
  <1>5. Cleared => Cleared'
    BY <1>1 DEF Cleared
  <1>6. Running => Running'
    BY <1>1 DEF Running
  <1> QED BY <1>1, <1>2, <1>3, <1>4, <1>5, <1>6

LEMMA PointSame ==
    ASSUME Data' = Data, NEW s, NEW H, NEW e, Point(s, H, e)
    PROVE  Point(s, H, e)'
  <1>1. /\ lh' = lh /\ (up' <=> up) /\ Dirty' = Dirty /\ Entries' = Entries
        /\ \A n, S : Logged(n, S) => Logged(n, S)'
        /\ \A n, S : Placed(n, S) => Placed(n, S)'
        /\ \A S : Installed(S) => Installed(S)'
        /\ Cleared => Cleared'
    BY DataSame, PlacesSame
  <1>2. \A t : LogRound(s, H, t) => LogRound(s, H, t)'
    BY <1>1 DEF LogRound
  <1>3. Logging(s, H) => Logging(s, H)'
    BY <1>1, <1>2 DEF Logging
  <1>4. \A t : InstallRound(s, H, e, t) => InstallRound(s, H, e, t)'
    BY <1>1 DEF InstallRound
  <1>5. Installing(s, H, e) => Installing(s, H, e)'
    BY <1>1, <1>4 DEF Installing
  <1>6. Recovering(s, H) => Recovering(s, H)'
    BY <1>1 DEF Recovering
  <1> QED BY <1>1, <1>3, <1>5, <1>6 DEF Point

LEMMA PendingSame ==
    ASSUME Data' = Data, NEW b, NEW r, NEW H, NEW e, Pending(b, r, H, e)
    PROVE  Pending(b, r, H, e)'
  <1>1. /\ disk' = disk /\ lh' = lh /\ (up' <=> up) /\ Unwritten' = Unwritten /\ Entries' = Entries
        /\ \A n, S : Logged(n, S) => Logged(n, S)'
        /\ \A n, S : Placed(n, S) => Placed(n, S)'
        /\ \A S : Installed(S) => Installed(S)'
    BY DataSame, PlacesSame
  <1>2. Logs(b, r, H) => Logs(b, r, H)'
    BY <1>1 DEF Logs
  <1>3. Installs(b, r, H, e) => Installs(b, r, H, e)'
    BY <1>1 DEF Installs
  <1> QED BY <1>1, <1>2, <1>3 DEF Pending

\* A process is not concerned by a step that leaves the data alone, and what
\* it has locked or is about to.
LEMMA StandsSame ==
    ASSUME Data' = Data, NEW s, NEW H, NEW e, Stands(s, H, e),
           \A b \in H : cache'[b].valid = cache[b].valid,
           \A b : For(s, "acquire", b) /\ b \in Cached => b \in Cached'
    PROVE  Stands(s, H, e)'
  <1>1. Dirty' = Dirty
    BY DataSame
  <1>2. CASE Point(s, H, e)
    BY <1>2, PointSame DEF Stands
  <1>3. CASE ~ Point(s, H, e)
    <2> DEFINE l == Head(s)[1]
               b == Head(s)[2]
               r == Tail(s)
    <2>1. IsSeq(s) /\ s # <<>>
      BY <1>3 DEF Stands
    <2>2. CASE l = "acquire" /\ b \in Cached /\ b \notin H /\ Point(r, H \cup {b}, e)
      <3>1. b \in Cached'
        BY <2>1, <2>2 DEF For
      <3>2. Point(r, H \cup {b}, e)'
        BY <2>2, PointSame
      <3> QED BY <2>1, <2>2, <3>1, <3>2 DEF Stands
    <2>3. CASE /\ l \in {"iderw", "sleep"} /\ b \in H /\ b \notin Dirty /\ Point(r, H, e)
               /\ l = "iderw" => ~ cache[b].valid
      <3>1. b \notin Dirty' /\ (l = "iderw" => ~ cache'[b].valid)
        BY <1>1, <2>3
      <3>2. Point(r, H, e)'
        BY <2>3, PointSame
      <3> QED BY <2>1, <2>3, <3>1, <3>2 DEF Stands
    <2>4. CASE l \in {"iderw", "sleep"} /\ b \in H /\ b \in Dirty /\ Pending(b, r, H, e)
      <3>1. b \in Dirty'
        BY <1>1, <2>4
      <3>2. Pending(b, r, H, e)'
        BY <2>4, PendingSame
      <3> QED BY <2>1, <2>4, <3>1, <3>2 DEF Stands
    <2> QED BY <1>3, <2>2, <2>3, <2>4 DEF Stands
  <1> QED BY <1>2, <1>3

\* A call depends on no data.
LEMMA CallSame ==
    ASSUME NEW s, NEW H, Stands(s, H, "call"),
           \A b \in H : cache'[b].valid = cache[b].valid /\ (b \in Dirty' <=> b \in Dirty),
           \A b : For(s, "acquire", b) /\ b \in Cached => b \in Cached'
    PROVE  Stands(s, H, "call")'
  <1>0. \A q, G : Point(q, G, "call") => Point(q, G, "call")'
    BY DEF Point
  <1>1. CASE Point(s, H, "call")
    BY <1>0, <1>1 DEF Stands
  <1>2. CASE ~ Point(s, H, "call")
    <2> DEFINE l == Head(s)[1]
               b == Head(s)[2]
               r == Tail(s)
    <2>1. IsSeq(s) /\ s # <<>> /\ ~ Pending(b, r, H, "call")
      BY <1>2 DEF Stands, Pending
    <2>2. CASE l = "acquire" /\ b \in Cached /\ b \notin H /\ Point(r, H \cup {b}, "call")
      <3>1. b \in Cached'
        BY <2>1, <2>2 DEF For
      <3>2. Point(r, H \cup {b}, "call")'
        BY <1>0, <2>2
      <3> QED BY <2>1, <2>2, <3>1, <3>2 DEF Stands
    <2>3. CASE /\ l \in {"iderw", "sleep"} /\ b \in H /\ b \notin Dirty /\ Point(r, H, "call")
               /\ l = "iderw" => ~ cache[b].valid
      <3>1. b \notin Dirty' /\ (l = "iderw" => ~ cache'[b].valid)
        BY <2>3
      <3>2. Point(r, H, "call")'
        BY <1>0, <2>3
      <3> QED BY <2>1, <2>3, <3>1, <3>2 DEF Stands
    <2> QED BY <1>2, <2>1, <2>2, <2>3 DEF Stands
  <1> QED BY <1>1, <1>2

-----------------------------------------------------------------------------
(* Steps and the buffers *)

LEMMA AwakeWaits ==
    ASSUME NEW s, Awake(s), NEW l \in Waits, NEW b
    PROVE  ~ For(s, l, b)
  BY DEF Awake, For

\* A buffer changes in one field or two.
LEMMA Bwritten ==
    ASSUME Types, NEW b \in Cached, NEW x \in Contents, NEW c, c = Bwrite(b, x, cache)
    PROVE  /\ c \in [Cached -> Buffers]
           /\ c[b].dirty /\ c[b].data = x /\ c[b].valid = cache[b].valid
           /\ c[b].refcnt = cache[b].refcnt /\ c[b].holder = cache[b].holder
           /\ \A y \in Cached : y # b => c[y] = cache[y]
  BY DEF Types, Bwrite, Buffers

LEMMA Found ==
    ASSUME Types, NEW b \in Cached, NEW c, c = [cache EXCEPT ![b].refcnt = @ + 1]
    PROVE  /\ c \in [Cached -> Buffers]
           /\ c[b].dirty = cache[b].dirty /\ c[b].data = cache[b].data
           /\ c[b].valid = cache[b].valid /\ c[b].refcnt = cache[b].refcnt + 1
           /\ c[b].holder = cache[b].holder
           /\ \A y \in Cached : y # b => c[y] = cache[y]
  BY DEF Types, Buffers

LEMMA Unlocked ==
    ASSUME Types, NEW b \in Cached, cache[b].refcnt # 0, NEW c, c = Released(b, cache)
    PROVE  /\ c \in [Cached -> Buffers]
           /\ c[b].dirty = cache[b].dirty /\ c[b].data = cache[b].data
           /\ c[b].valid = cache[b].valid /\ c[b].refcnt = cache[b].refcnt - 1
           /\ c[b].holder = NONE
           /\ \A y \in Cached : y # b => c[y] = cache[y]
  BY DEF Types, Buffers, Released

LEMMA CachedIs ==
    ASSUME NEW S, NEW T, NEW c, c \in [S -> T]
    PROVE  DOMAIN c = S
  OBVIOUS

\* Steps that change no buffer, of a process that waits for none.
LEMMA CacheSame ==
    ASSUME CacheInv, UNCHANGED <<disk, cache, idequeue>>,
           up' \in BOOLEAN, calls' \in 0 .. MaxCalls,
           \A q \in Proc : todo'[q] = todo[q] \/ (Awake(todo[q]) /\ Awake(todo'[q]))
    PROVE  CacheInv'
  <1>1. \A q \in Proc : \A l \in Waits : \A b : For(todo'[q], l, b) <=> For(todo[q], l, b)
    BY AwakeWaits
  <1>2. \A q \in Proc : \A b : /\ For(todo'[q], "acquire", b) <=> For(todo[q], "acquire", b)
                               /\ For(todo'[q], "iderw", b) <=> For(todo[q], "iderw", b)
                               /\ For(todo'[q], "sleep", b) <=> For(todo[q], "sleep", b)
    BY <1>1 DEF Waits
  <1>3. Cached' = Cached /\ \A q : Held(q)' = Held(q)
    BY DEF Cached, Held
  <1>4. Types'
    BY <1>3 DEF CacheInv, Types
  <1>5. Counts'
    <2>1. \A b : Users(b)' = Users(b)
      BY <1>2, <1>3 DEF Users
    <2> QED BY <1>3, <2>1 DEF CacheInv, Counts
  <1>6. Coherent'
    BY <1>3 DEF CacheInv, Coherent
  <1>7. Filled'
    BY <1>2, <1>3 DEF CacheInv, Filled
  <1>8. Queued'
    BY <1>2, <1>3 DEF CacheInv, Queued, Clean, Distinct
  <1> QED BY <1>4, <1>5, <1>6, <1>7, <1>8 DEF CacheInv

\* bwrite(), and what it does to a buffer that the process has locked.
LEMMA BwriteCache ==
    ASSUME CacheInv, NEW p \in Proc, Awake(todo[p]), NEW b \in Held(p), NEW x \in Contents,
           cache' = Bwrite(b, x, cache), UNCHANGED <<disk, idequeue, up, calls>>,
           \A q \in Proc : q # p => todo'[q] = todo[q],
           \A y : ~ For(todo'[p], "acquire", y)
    PROVE  CacheInv'
  <1>1. /\ cache' \in [Cached -> Buffers]
        /\ cache'[b].dirty /\ cache'[b].data = x /\ cache'[b].valid = cache[b].valid
        /\ cache'[b].refcnt = cache[b].refcnt /\ cache'[b].holder = cache[b].holder
        /\ \A y \in Cached : y # b => cache'[y] = cache[y]
    <2>1. Types /\ b \in Cached
      BY DEF CacheInv, Held
    <2> QED BY <2>1, Bwritten
  <1>2. Cached' = Cached
    BY <1>1, CachedIs DEF Cached
  <1>3. \A q : Held(q)' = Held(q)
    BY <1>1, <1>2 DEF Held
  <1>4. \A y \in Held(p) : cache[y].valid
    <2>1. \A y : ~ For(todo[p], "iderw", y) /\ ~ For(todo[p], "sleep", y)
      BY AwakeWaits DEF Waits
    <2> QED BY <2>1 DEF CacheInv, Filled
  <1>5. \A y : ~ For(todo[p], "acquire", y) /\ ~ For(todo[p], "sleep", y)
    BY AwakeWaits DEF Waits
  <1>6. Types'
    BY <1>1, <1>2 DEF CacheInv, Types
  <1>7. Counts'
    <2>1. \A y : Users(y)' = Users(y)
      BY <1>3, <1>5 DEF Users
    <2> QED BY <1>1, <1>2, <2>1 DEF CacheInv, Counts
  <1>8. Coherent'
    BY <1>1, <1>2, <1>4 DEF CacheInv, Coherent
  <1>9. Filled'
    <2>1. SUFFICES ASSUME NEW q \in Proc, NEW y \in Held(q)
                   PROVE  cache'[y].valid \/ For(todo'[q], "iderw", y) \/ For(todo'[q], "sleep", y)
      BY <1>3 DEF Filled
    <2>2. cache'[y].valid = cache[y].valid
      BY <1>1 DEF Held
    <2>3. CASE q = p
      BY <1>4, <2>2, <2>3
    <2>4. CASE q # p
      BY <2>2, <2>4 DEF CacheInv, Filled
    <2> QED BY <2>3, <2>4
  <1>10. Queued'
    <2>1. ASSUME NEW i \in 1 .. Len(idequeue)
          PROVE  \E q \in Proc : /\ For(todo'[q], "sleep", idequeue[i]) /\ idequeue[i] \in Held(q)
                                 /\ ~ Clean(idequeue[i])'
      <3>1. PICK q \in Proc : /\ For(todo[q], "sleep", idequeue[i]) /\ idequeue[i] \in Held(q)
                              /\ ~ Clean(idequeue[i])
        BY DEF CacheInv, Queued
      <3>2. q # p
        BY <1>5, <3>1
      <3>3. ~ Clean(idequeue[i])'
        BY <1>1, <3>1 DEF Clean, Held
      <3> QED BY <3>1, <3>2, <3>3
    <2> QED BY <1>3, <2>1 DEF CacheInv, Queued, Distinct
  <1> QED BY <1>6, <1>7, <1>8, <1>9, <1>10 DEF CacheInv

\* iderw() puts the buffer on the queue.
LEMMA IderwCache ==
    ASSUME CacheInv, NEW p \in Proc, NEW b \in Held(p), For(todo[p], "iderw", b), ~ Clean(b),
           idequeue' = Append(idequeue, b), For(todo'[p], "sleep", b),
           \A q \in Proc : q # p => todo'[q] = todo[q],
           UNCHANGED <<disk, cache, up, calls>>
    PROVE  CacheInv'
  <1>1. Cached' = Cached /\ \A q : Held(q)' = Held(q)
    BY DEF Cached, Held
  <1>2. \A y : ~ For(todo[p], "acquire", y) /\ ~ For(todo'[p], "acquire", y)
               /\ ~ For(todo[p], "sleep", y)
    BY DEF For
  <1>3. Types' /\ Coherent'
    BY <1>1 DEF CacheInv, Types, Coherent
  <1>4. Counts'
    <2>1. \A y : Users(y)' = Users(y)
      BY <1>1, <1>2 DEF Users
    <2> QED BY <1>1, <2>1 DEF CacheInv, Counts
  <1>5. Filled'
    <2>1. \A y : For(todo[p], "iderw", y) => For(todo'[p], "sleep", y)
      BY DEF For
    <2> QED BY <1>1, <1>2, <2>1 DEF CacheInv, Filled
  <1>6. Queued'
    <2>1. idequeue \in Seq(Block) /\ Distinct(idequeue) /\ b \in Block
      BY DEF CacheInv, Queued, Types, Held
    <2>2. /\ idequeue' \in Seq(Block) /\ Len(idequeue') = Len(idequeue) + 1 /\ Len(idequeue) \in Nat
          /\ idequeue'[Len(idequeue) + 1] = b
          /\ \A i \in 1 .. Len(idequeue) : idequeue'[i] = idequeue[i]
      BY <2>1
    <2>3. \A i \in 1 .. Len(idequeue) : \E q \in Proc :
            /\ q # p /\ For(todo'[q], "sleep", idequeue[i]) /\ idequeue[i] \in Held(q)
            /\ ~ Clean(idequeue[i])
      BY <1>2 DEF CacheInv, Queued
    <2>4. \A i \in 1 .. Len(idequeue) : idequeue[i] # b
      BY <2>3 DEF Held
    <2>5. Distinct(idequeue')
      BY <2>1, <2>2, <2>4 DEF Distinct
    <2>6. ASSUME NEW i \in 1 .. Len(idequeue')
          PROVE  \E q \in Proc : /\ For(todo'[q], "sleep", idequeue'[i]) /\ idequeue'[i] \in Held(q)
                                 /\ ~ Clean(idequeue'[i])
      <3>1. CASE i = Len(idequeue) + 1
        BY <2>2, <3>1
      <3>2. CASE i # Len(idequeue) + 1
        <4>1. i \in 1 .. Len(idequeue)
          BY <2>2, <3>2
        <4> QED BY <2>2, <2>3, <4>1
      <3> QED BY <3>1, <3>2
    <2>7. \A y : Clean(y)' = Clean(y)
      BY DEF Clean
    <2> QED BY <1>1, <2>2, <2>5, <2>6, <2>7 DEF Queued
  <1> QED BY <1>3, <1>4, <1>5, <1>6 DEF CacheInv

\* iderw() returns when the buffer is clean.
LEMMA IderwReturnsCache ==
    ASSUME CacheInv, NEW p \in Proc, NEW b, For(todo[p], "sleep", b), Clean(b), Awake(todo'[p]),
           \A q \in Proc : q # p => todo'[q] = todo[q],
           UNCHANGED <<disk, cache, idequeue, up, calls>>
    PROVE  CacheInv'
  <1>1. Cached' = Cached /\ \A q : Held(q)' = Held(q)
    BY DEF Cached, Held
  <1>2. \A y : /\ ~ For(todo[p], "acquire", y) /\ ~ For(todo[p], "iderw", y)
               /\ For(todo[p], "sleep", y) => y = b
    BY DEF For
  <1>3. \A y : ~ For(todo'[p], "acquire", y) /\ ~ For(todo'[p], "iderw", y)
               /\ ~ For(todo'[p], "sleep", y)
    BY AwakeWaits DEF Waits
  <1>4. Types' /\ Coherent'
    BY <1>1 DEF CacheInv, Types, Coherent
  <1>5. Counts'
    <2>1. \A y : Users(y)' = Users(y)
      BY <1>1, <1>2, <1>3 DEF Users
    <2> QED BY <1>1, <2>1 DEF CacheInv, Counts
  <1>6. Filled'
    BY <1>1, <1>2, <1>3 DEF CacheInv, Filled, Clean
  <1>7. Queued'
    <2>1. \A i \in 1 .. Len(idequeue) : \E q \in Proc :
            /\ q # p /\ For(todo[q], "sleep", idequeue[i]) /\ idequeue[i] \in Held(q)
            /\ ~ Clean(idequeue[i])
      BY <1>2 DEF CacheInv, Queued
    <2> QED BY <1>1, <2>1 DEF CacheInv, Queued, Distinct, Clean
  <1> QED BY <1>4, <1>5, <1>6, <1>7 DEF CacheInv

LEMMA UsersAreFinite ==
    ASSUME NEW b
    PROVE  IsFiniteSet(Users(b)) /\ (Cardinality(Users(b)) = 0 <=> Users(b) = {})
  <1>1. IsFiniteSet(Users(b))
    BY JournalAssumption, FS_Subset DEF Users
  <1> QED BY <1>1, FS_EmptySet

\* A step that changes the users of a buffer only.
Kept ==
    /\ Cached' = Cached
    /\ \A y \in Cached : /\ cache'[y].valid = cache[y].valid
                         /\ cache'[y].dirty = cache[y].dirty
                         /\ cache'[y].data = cache[y].data

\* bget() finds the block in the cache.
LEMMA FindsCache ==
    ASSUME CacheInv, NEW p \in Proc, Awake(todo[p]), NEW b \in Cached, b \notin Held(p),
           cache' = [cache EXCEPT ![b].refcnt = @ + 1], For(todo'[p], "acquire", b),
           \A q \in Proc : q # p => todo'[q] = todo[q],
           UNCHANGED <<disk, idequeue, up, calls>>
    PROVE  CacheInv' /\ Kept /\ \A q : Held(q)' = Held(q)
  <1>1. /\ cache' \in [Cached -> Buffers]
        /\ cache'[b].dirty = cache[b].dirty /\ cache'[b].data = cache[b].data
        /\ cache'[b].valid = cache[b].valid /\ cache'[b].refcnt = cache[b].refcnt + 1
        /\ cache'[b].holder = cache[b].holder
        /\ \A y \in Cached : y # b => cache'[y] = cache[y]
    BY Found DEF CacheInv
  <1>2. Cached' = Cached
    BY <1>1, CachedIs DEF Cached
  <1>3. \A q : Held(q)' = Held(q)
    BY <1>1, <1>2 DEF Held
  <1>4. \A y : ~ For(todo[p], "acquire", y) /\ ~ For(todo[p], "iderw", y)
               /\ ~ For(todo[p], "sleep", y)
    BY AwakeWaits DEF Waits
  <1>5. \A y : /\ For(todo'[p], "acquire", y) <=> y = b
               /\ ~ For(todo'[p], "iderw", y) /\ ~ For(todo'[p], "sleep", y)
    BY DEF For
  <1>6. Types'
    BY <1>1, <1>2 DEF CacheInv, Types
  <1>7. Counts'
    <2>1. Users(b)' = Users(b) \cup {p} /\ p \notin Users(b)
      BY <1>3, <1>4, <1>5 DEF Users
    <2>2. \A y : y # b => Users(y)' = Users(y)
      BY <1>3, <1>4, <1>5 DEF Users
    <2>3. Cardinality(Users(b)') = Cardinality(Users(b)) + 1
      BY <2>1, UsersAreFinite, FS_AddElement
    <2> QED BY <1>1, <1>2, <2>2, <2>3 DEF CacheInv, Counts
  <1>8. Coherent'
    BY <1>1, <1>2 DEF CacheInv, Coherent
  <1>9. \A y \in Cached : cache'[y].valid = cache[y].valid /\ cache'[y].dirty = cache[y].dirty
    BY <1>1
  <1>10. Filled'
    <2>1. SUFFICES ASSUME NEW q \in Proc, NEW y \in Held(q)
                   PROVE  cache'[y].valid \/ For(todo'[q], "iderw", y) \/ For(todo'[q], "sleep", y)
      BY <1>3 DEF Filled
    <2>2. cache[y].valid \/ For(todo[q], "iderw", y) \/ For(todo[q], "sleep", y)
      BY DEF CacheInv, Filled
    <2>3. cache'[y].valid = cache[y].valid
      BY <1>9 DEF Held
    <2> QED BY <1>4, <2>2, <2>3
  <1>11. Queued'
    <2>1. ASSUME NEW i \in 1 .. Len(idequeue)
          PROVE  \E q \in Proc : /\ For(todo'[q], "sleep", idequeue[i]) /\ idequeue[i] \in Held(q)
                                 /\ ~ Clean(idequeue[i])'
      <3>1. PICK q \in Proc : /\ For(todo[q], "sleep", idequeue[i]) /\ idequeue[i] \in Held(q)
                              /\ ~ Clean(idequeue[i])
        BY DEF CacheInv, Queued
      <3>2. q # p
        BY <1>4, <3>1
      <3>3. ~ Clean(idequeue[i])'
        BY <1>9, <3>1 DEF Clean, Held
      <3> QED BY <3>1, <3>2, <3>3
    <2> QED BY <1>3, <2>1 DEF CacheInv, Queued, Distinct
  <1>12. Kept
    BY <1>1, <1>2 DEF Kept
  <1> QED BY <1>3, <1>6, <1>7, <1>8, <1>10, <1>11, <1>12 DEF CacheInv

\* bget() takes a buffer for the block.
Fresh == Buffer(FALSE, FALSE, 1, NONE, 0)

LEMMA RecyclesCache ==
    ASSUME CacheInv, NEW p \in Proc, Awake(todo[p]), NEW b \in Block, b \notin Cached,
           NEW old, old \subseteq Recyclable,
           cache' = [y \in (Cached \ old) \cup {b} |-> IF y = b THEN Fresh ELSE cache[y]],
           For(todo'[p], "acquire", b), \A q \in Proc : ~ For(todo[q], "acquire", b),
           \A q \in Proc : q # p => todo'[q] = todo[q],
           UNCHANGED <<disk, idequeue, up, calls>>
    PROVE  /\ CacheInv'
           /\ \A q \in Proc : Held(q)' = Held(q)
           /\ \A q \in Proc : \A y \in Held(q) : cache'[y].valid = cache[y].valid
           /\ \A q \in Proc, y \in Cached : For(todo[q], "acquire", y) => y \in Cached'
           /\ b \in Cached'
           /\ \A y : (y \in Cached' /\ cache'[y].dirty) <=> (y \in Cached /\ cache[y].dirty)
           /\ \A y \in Cached : cache[y].dirty => cache'[y].data = cache[y].data
  <1>1. /\ Fresh \in Buffers /\ ~ Fresh.valid /\ ~ Fresh.dirty /\ Fresh.refcnt = 1
        /\ Fresh.holder = NONE
    BY DEF Fresh, Buffer, Buffers, Contents
  <1> HIDE DEF Fresh
  <1>2. /\ Cached' = (Cached \ old) \cup {b} /\ cache'[b] = Fresh
        /\ \A y \in Cached \ old : y # b /\ cache'[y] = cache[y]
    BY DEF Cached
  <1>3. \A y \in old : y \in Cached /\ cache[y].refcnt = 0 /\ Users(y) = {}
    BY UsersAreFinite DEF Recyclable, CacheInv, Counts
  <1>4. \A q \in Proc : Held(q)' = Held(q)
    <2>1. TAKE q \in Proc
    <2>2. \A y \in old : cache[y].holder # q
      BY <1>3 DEF Users, Held
    <2>3. cache'[b].holder # q
      BY <1>1, <1>2, JournalAssumption
    <2>4. \A y : (y \in Cached' /\ cache'[y].holder = q) <=> (y \in Cached /\ cache[y].holder = q)
      BY <1>2, <2>2, <2>3
    <2> QED BY <2>4 DEF Held
  <1>5. \A y : ~ For(todo[p], "acquire", y) /\ ~ For(todo[p], "iderw", y)
               /\ ~ For(todo[p], "sleep", y)
    BY AwakeWaits DEF Waits
  <1>6. \A y : /\ For(todo'[p], "acquire", y) <=> y = b
               /\ ~ For(todo'[p], "iderw", y) /\ ~ For(todo'[p], "sleep", y)
    BY DEF For
  <1>7. \A q \in Proc : \A y \in Held(q) : y \in Cached \ old /\ y # b /\ cache'[y] = cache[y]
    BY <1>2, <1>3 DEF Held, Users
  <1>8. Types'
    <2>1. \A y \in Cached' : cache'[y] \in Buffers
      BY <1>1, <1>2 DEF CacheInv, Types
    <2>2. cache' = [y \in Cached' |-> cache'[y]]
      BY <1>2
    <2>3. Cached' \subseteq Block
      BY <1>2 DEF CacheInv, Types
    <2> QED BY <2>1, <2>2, <2>3 DEF CacheInv, Types
  <1>9. Counts'
    <2>1. Users(b)' = {p}
      <3>1. \A q \in Proc : b \notin Held(q)'
        BY <1>4 DEF Held
      <3>2. \A q \in Proc : For(todo'[q], "acquire", b) <=> q = p
        BY <1>6
      <3> QED BY <3>1, <3>2 DEF Users
    <2>2. Cardinality({p}) = 1
      BY FS_Singleton
    <2>3. ASSUME NEW y \in Cached \ old
          PROVE  Users(y)' = Users(y)
      <3>1. y # b
        BY <1>2
      <3>2. \A q \in Proc : (y \in Held(q)' <=> y \in Held(q))
                            /\ (For(todo'[q], "acquire", y) <=> For(todo[q], "acquire", y))
        BY <1>4, <1>5, <1>6, <3>1
      <3> QED BY <3>2 DEF Users
    <2>4. ASSUME NEW y \in Cached'
          PROVE  cache'[y].refcnt = Cardinality(Users(y)')
      <3>1. CASE y = b
        BY <1>1, <1>2, <2>1, <2>2, <3>1
      <3>2. CASE y # b
        <4>1. y \in Cached \ old /\ cache'[y] = cache[y]
          BY <1>2, <3>2
        <4> QED BY <2>3, <4>1 DEF CacheInv, Counts
      <3> QED BY <3>1, <3>2
    <2> QED BY <2>4 DEF Counts
  <1>10. Coherent'
    BY <1>1, <1>2 DEF CacheInv, Coherent
  <1>11. Filled'
    <2>1. SUFFICES ASSUME NEW q \in Proc, NEW y \in Held(q)
                   PROVE  cache'[y].valid \/ For(todo'[q], "iderw", y) \/ For(todo'[q], "sleep", y)
      BY <1>4 DEF Filled
    <2>2. cache[y].valid \/ For(todo[q], "iderw", y) \/ For(todo[q], "sleep", y)
      BY DEF CacheInv, Filled
    <2> QED BY <1>5, <1>7, <2>2
  <1>12. Queued'
    <2>1. ASSUME NEW i \in 1 .. Len(idequeue)
          PROVE  \E q \in Proc : /\ For(todo'[q], "sleep", idequeue[i]) /\ idequeue[i] \in Held(q)
                                 /\ ~ Clean(idequeue[i])'
      <3>1. PICK q \in Proc : /\ For(todo[q], "sleep", idequeue[i]) /\ idequeue[i] \in Held(q)
                              /\ ~ Clean(idequeue[i])
        BY DEF CacheInv, Queued
      <3>2. q # p
        BY <1>5, <3>1
      <3>3. ~ Clean(idequeue[i])'
        BY <1>7, <3>1 DEF Clean
      <3> QED BY <3>1, <3>2, <3>3
    <2> QED BY <1>4, <2>1 DEF CacheInv, Queued, Distinct
  <1>13. CacheInv'
    BY <1>8, <1>9, <1>10, <1>11, <1>12 DEF CacheInv
  <1>14. \A q \in Proc : \A y \in Held(q) : cache'[y].valid = cache[y].valid
    BY <1>7
  <1>15. \A q \in Proc, y \in Cached : For(todo[q], "acquire", y) => y \in Cached'
    BY <1>2, <1>3 DEF Users
  <1>16. \A y \in Cached : cache[y].dirty => y \notin old
    BY DEF Recyclable
  <1>17. /\ \A y : (y \in Cached' /\ cache'[y].dirty) <=> (y \in Cached /\ cache[y].dirty)
         /\ \A y \in Cached : cache[y].dirty => cache'[y].data = cache[y].data
    BY <1>1, <1>2, <1>16
  <1> QED BY <1>2, <1>4, <1>13, <1>14, <1>15, <1>17

\* acquiresleep() of a buffer that nobody has locked.
LEMMA AcquireCache ==
    ASSUME CacheInv, NEW p \in Proc, NEW b \in Cached, For(todo[p], "acquire", b),
           cache[b].holder = NONE, cache' = [cache EXCEPT ![b].holder = p],
           \/ cache[b].valid /\ Awake(todo'[p])
           \/ For(todo'[p], "iderw", b),
           \A q \in Proc : q # p => todo'[q] = todo[q],
           UNCHANGED <<disk, idequeue, up, calls>>
    PROVE  /\ CacheInv' /\ Kept /\ Held(p)' = Held(p) \cup {b}
           /\ \A q \in Proc : q # p => Held(q)' = Held(q)
  <1>1. /\ cache' \in [Cached -> Buffers]
        /\ cache'[b].dirty = cache[b].dirty /\ cache'[b].data = cache[b].data
        /\ cache'[b].valid = cache[b].valid /\ cache'[b].refcnt = cache[b].refcnt
        /\ cache'[b].holder = p
        /\ \A y \in Cached : y # b => cache'[y] = cache[y]
    <2>1. Types /\ p \in Proc \cup {NONE}
      BY DEF CacheInv
    <2>2. PICK c : c = cache'
      OBVIOUS
    <2>3. c = [cache EXCEPT ![b].holder = p]
      BY <2>2
    <2>4. /\ c \in [Cached -> Buffers]
          /\ c[b].dirty = cache[b].dirty /\ c[b].data = cache[b].data
          /\ c[b].valid = cache[b].valid /\ c[b].refcnt = cache[b].refcnt /\ c[b].holder = p
          /\ \A y \in Cached : y # b => c[y] = cache[y]
      BY <2>1, <2>3 DEF Types, Buffers
    <2> QED BY <2>2, <2>4
  <1>2. Cached' = Cached
    BY <1>1, CachedIs DEF Cached
  <1>3. \A q \in Proc : Held(q)' = IF q = p THEN Held(p) \cup {b} ELSE Held(q)
    BY <1>1, <1>2, JournalAssumption DEF Held
  <1>4. \A y : /\ For(todo[p], "acquire", y) <=> y = b
               /\ ~ For(todo[p], "iderw", y) /\ ~ For(todo[p], "sleep", y)
    BY DEF For
  <1>5. \A y : ~ For(todo'[p], "acquire", y)
    BY AwakeWaits DEF Waits, For
  <1>6. Types'
    BY <1>1, <1>2 DEF CacheInv, Types
  <1>7. Counts'
    <2>1. \A y : Users(y)' = Users(y)
      BY <1>3, <1>4, <1>5 DEF Users
    <2> QED BY <1>1, <1>2, <2>1 DEF CacheInv, Counts
  <1>8. Coherent'
    BY <1>1, <1>2 DEF CacheInv, Coherent
  <1>9. \A y \in Cached : cache'[y].valid = cache[y].valid /\ cache'[y].dirty = cache[y].dirty
    BY <1>1
  <1>10. Filled'
    <2>1. ASSUME NEW q \in Proc, NEW y \in Held(q)
          PROVE  cache'[y].valid \/ For(todo'[q], "iderw", y) \/ For(todo'[q], "sleep", y)
      <3>1. cache[y].valid \/ For(todo[q], "iderw", y) \/ For(todo[q], "sleep", y)
        BY DEF CacheInv, Filled
      <3>2. cache'[y].valid = cache[y].valid
        BY <1>9 DEF Held
      <3> QED BY <1>4, <3>1, <3>2
    <2>2. cache'[b].valid \/ For(todo'[p], "iderw", b)
      BY <1>1
    <2> QED BY <1>3, <2>1, <2>2 DEF Filled
  <1>11. Queued'
    <2>1. ASSUME NEW i \in 1 .. Len(idequeue)
          PROVE  \E q \in Proc : /\ For(todo'[q], "sleep", idequeue[i]) /\ idequeue[i] \in Held(q)'
                                 /\ ~ Clean(idequeue[i])'
      <3>1. PICK q \in Proc : /\ For(todo[q], "sleep", idequeue[i]) /\ idequeue[i] \in Held(q)
                              /\ ~ Clean(idequeue[i])
        BY DEF CacheInv, Queued
      <3>2. q # p
        BY <1>4, <3>1
      <3>3. ~ Clean(idequeue[i])'
        BY <1>9, <3>1 DEF Clean, Held
      <3> QED BY <1>3, <3>1, <3>2, <3>3
    <2> QED BY <2>1 DEF CacheInv, Queued, Distinct
  <1>12. Kept
    BY <1>1, <1>2 DEF Kept
  <1> QED BY <1>3, <1>6, <1>7, <1>8, <1>10, <1>11, <1>12 DEF CacheInv

\* brelse() of a buffer that the process has locked.
LEMMA BrelseCache ==
    ASSUME CacheInv, NEW p \in Proc, Awake(todo[p]), NEW b \in Held(p),
           cache' = Released(b, cache), Awake(todo'[p]),
           \A q \in Proc : q # p => todo'[q] = todo[q],
           UNCHANGED <<disk, idequeue, up, calls>>
    PROVE  /\ CacheInv' /\ Kept /\ Held(p)' = Held(p) \ {b}
           /\ \A q \in Proc : q # p => Held(q)' = Held(q)
  <1>0. b \in Cached /\ cache[b].refcnt = Cardinality(Users(b)) /\ p \in Users(b)
    BY DEF CacheInv, Counts, Users, Held
  <1>1. /\ cache' \in [Cached -> Buffers]
        /\ cache'[b].dirty = cache[b].dirty /\ cache'[b].data = cache[b].data
        /\ cache'[b].valid = cache[b].valid /\ cache'[b].refcnt = cache[b].refcnt - 1
        /\ cache'[b].holder = NONE
        /\ \A y \in Cached : y # b => cache'[y] = cache[y]
    <2>1. cache[b].refcnt # 0
      BY <1>0, UsersAreFinite
    <2> QED BY <1>0, <2>1, Unlocked DEF CacheInv
  <1>2. Cached' = Cached
    BY <1>1, CachedIs DEF Cached
  <1>3. \A q \in Proc : Held(q)' = IF q = p THEN Held(p) \ {b} ELSE Held(q)
    BY <1>1, <1>2, JournalAssumption DEF Held
  <1>4. \A y : /\ ~ For(todo[p], "acquire", y) /\ ~ For(todo'[p], "acquire", y)
               /\ ~ For(todo[p], "iderw", y) /\ ~ For(todo[p], "sleep", y)
    BY AwakeWaits DEF Waits
  <1>6. Types'
    BY <1>1, <1>2 DEF CacheInv, Types
  <1>7. Counts'
    <2>1. \A y : y # b => Users(y)' = Users(y)
      BY <1>3, <1>4 DEF Users
    <2>2. Users(b)' = Users(b) \ {p}
      BY <1>3, <1>4 DEF Users
    <2>3. Cardinality(Users(b)') = Cardinality(Users(b)) - 1
      BY <1>0, <2>2, UsersAreFinite, FS_RemoveElement
    <2> QED BY <1>0, <1>1, <1>2, <2>1, <2>3 DEF CacheInv, Counts
  <1>8. Coherent'
    BY <1>1, <1>2 DEF CacheInv, Coherent
  <1>9. \A y \in Cached : cache'[y].valid = cache[y].valid /\ cache'[y].dirty = cache[y].dirty
    BY <1>1
  <1>10. Filled'
    <2>1. ASSUME NEW q \in Proc, NEW y \in Held(q)
          PROVE  cache'[y].valid \/ For(todo'[q], "iderw", y) \/ For(todo'[q], "sleep", y)
      <3>1. cache[y].valid \/ For(todo[q], "iderw", y) \/ For(todo[q], "sleep", y)
        BY DEF CacheInv, Filled
      <3>2. cache'[y].valid = cache[y].valid
        BY <1>9 DEF Held
      <3> QED BY <1>4, <3>1, <3>2
    <2> QED BY <1>3, <2>1 DEF Filled
  <1>11. Queued'
    <2>1. ASSUME NEW i \in 1 .. Len(idequeue)
          PROVE  \E q \in Proc : /\ For(todo'[q], "sleep", idequeue[i]) /\ idequeue[i] \in Held(q)'
                                 /\ ~ Clean(idequeue[i])'
      <3>1. PICK q \in Proc : /\ For(todo[q], "sleep", idequeue[i]) /\ idequeue[i] \in Held(q)
                              /\ ~ Clean(idequeue[i])
        BY DEF CacheInv, Queued
      <3>2. q # p
        BY <1>4, <3>1
      <3>3. ~ Clean(idequeue[i])'
        BY <1>9, <3>1 DEF Clean, Held
      <3> QED BY <1>3, <3>1, <3>2, <3>3
    <2> QED BY <2>1 DEF CacheInv, Queued, Distinct
  <1>12. Kept
    BY <1>1, <1>2 DEF Kept
  <1> QED BY <1>3, <1>6, <1>7, <1>8, <1>10, <1>11, <1>12 DEF CacheInv

\* The disk interrupt: the first buffer of the queue is on the disk, or read.
LEMMA IdeintrCache ==
    ASSUME CacheInv, Ideintr
    PROVE  LET b == Head(idequeue) IN
           /\ CacheInv' /\ Cached' = Cached /\ b \in Cached
           /\ \A q : Held(q)' = Held(q)
           /\ ~ cache'[b].dirty /\ cache'[b].valid
           /\ \A y \in Cached : y # b => cache'[y] = cache[y]
           /\ \E p \in Proc : For(todo[p], "sleep", b) /\ b \in Held(p)
           /\ cache[b].dirty => /\ disk' = [disk EXCEPT ![b] = cache[b].data]
                                /\ cache'[b].data = cache[b].data
           /\ ~ cache[b].dirty => /\ disk' = disk /\ cache'[b].data = disk[b]
                                  /\ ~ cache[b].valid
  <1> DEFINE b == Head(idequeue)
             n == Len(idequeue)
             t == Tail(idequeue)
  <1>1. /\ idequeue \in Seq(Block) /\ idequeue # <<>> /\ Distinct(idequeue)
        /\ n \in Nat \ {0} /\ b = idequeue[1] /\ b \in Block
        /\ t \in Seq(Block) /\ Len(t) = n - 1
        /\ \A i \in 1 .. n - 1 : t[i] = idequeue[i + 1]
    BY DEF CacheInv, Queued, Ideintr
  <1>2. PICK p \in Proc : For(todo[p], "sleep", b) /\ b \in Held(p) /\ ~ Clean(b)
    <2>1. 1 \in 1 .. n
      BY <1>1
    <2> QED BY <1>1, <2>1 DEF CacheInv, Queued
  <1>3. b \in Cached
    BY <1>2 DEF Held
  <1>4. /\ idequeue' = t /\ UNCHANGED <<todo, up, calls>>
        /\ \/ /\ cache[b].dirty
              /\ disk' = [disk EXCEPT ![b] = cache[b].data]
              /\ cache' = [cache EXCEPT ![b].valid = TRUE, ![b].dirty = FALSE]
           \/ /\ ~ cache[b].dirty /\ disk' = disk
              /\ cache' = [cache EXCEPT ![b].valid = TRUE, ![b].data = disk[b]]
    BY DEF Ideintr
  <1> HIDE DEF b, n, t
  <1>5. /\ cache' \in [Cached -> Buffers]
        /\ ~ cache'[b].dirty /\ cache'[b].valid
        /\ cache'[b].refcnt = cache[b].refcnt /\ cache'[b].holder = cache[b].holder
        /\ \A y \in Cached : y # b => cache'[y] = cache[y]
        /\ cache[b].dirty => /\ disk' = [disk EXCEPT ![b] = cache[b].data]
                             /\ cache'[b].data = cache[b].data
        /\ ~ cache[b].dirty => disk' = disk /\ cache'[b].data = disk[b]
    <2>1. Types
      BY DEF CacheInv
    <2>2. CASE /\ cache[b].dirty
               /\ disk' = [disk EXCEPT ![b] = cache[b].data]
               /\ cache' = [cache EXCEPT ![b].valid = TRUE, ![b].dirty = FALSE]
      <3>1. PICK c : c = cache'
        OBVIOUS
      <3>2. c = [cache EXCEPT ![b].valid = TRUE, ![b].dirty = FALSE]
        BY <2>2, <3>1
      <3>3. /\ c \in [Cached -> Buffers]
            /\ ~ c[b].dirty /\ c[b].valid /\ c[b].data = cache[b].data
            /\ c[b].refcnt = cache[b].refcnt /\ c[b].holder = cache[b].holder
            /\ \A y \in Cached : y # b => c[y] = cache[y]
        BY <1>3, <2>1, <3>2 DEF Types, Buffers
      <3> QED BY <2>2, <3>1, <3>3
    <2>3. CASE /\ ~ cache[b].dirty /\ disk' = disk
               /\ cache' = [cache EXCEPT ![b].valid = TRUE, ![b].data = disk[b]]
      <3>1. PICK c : c = cache'
        OBVIOUS
      <3>2. c = [cache EXCEPT ![b].valid = TRUE, ![b].data = disk[b]]
        BY <2>3, <3>1
      <3>3. /\ c \in [Cached -> Buffers]
            /\ ~ c[b].dirty /\ c[b].valid /\ c[b].data = disk[b]
            /\ c[b].refcnt = cache[b].refcnt /\ c[b].holder = cache[b].holder
            /\ \A y \in Cached : y # b => c[y] = cache[y]
        <4>1. disk[b] \in Contents /\ cache[b] \in Buffers /\ ~ cache[b].dirty
          BY <1>1, <1>3, <2>1, <2>3 DEF Types
        <4> QED BY <1>3, <2>1, <3>2, <4>1 DEF Types, Buffers
      <3> QED BY <2>3, <3>1, <3>3
    <2> QED BY <1>4, <2>2, <2>3
  <1>6. Cached' = Cached
    BY <1>5, CachedIs DEF Cached
  <1>7. \A q : Held(q)' = Held(q)
    BY <1>5, <1>6 DEF Held
  <1>8. ~ cache[b].dirty => ~ cache[b].valid
    BY <1>2 DEF Clean
  <1>9. /\ disk' \in [Block -> Contents]
        /\ \A y \in Block : y # b => disk'[y] = disk[y]
        /\ disk'[b] = cache'[b].data
    <2>1. disk \in [Block -> Contents] /\ cache[b].data \in Contents
      BY <1>3 DEF CacheInv, Types, Buffers
    <2>2. CASE cache[b].dirty
      BY <1>1, <1>5, <2>1, <2>2
    <2>3. CASE ~ cache[b].dirty
      BY <1>5, <2>1, <2>3
    <2> QED BY <2>2, <2>3
  <1>10. Types'
    BY <1>4, <1>5, <1>6, <1>9 DEF CacheInv, Types
  <1>11. Counts'
    <2>1. \A y : Users(y)' = Users(y)
      BY <1>4, <1>7 DEF Users
    <2> QED BY <1>5, <1>6, <2>1 DEF CacheInv, Counts
  <1>12. Coherent'
    <2>1. \A y \in Cached : y \in Block
      BY DEF CacheInv, Types
    <2> QED BY <1>5, <1>6, <1>9, <2>1 DEF CacheInv, Coherent
  <1>13. Filled'
    <2>1. \A y \in Cached : cache[y].valid => cache'[y].valid
      BY <1>5
    <2> QED BY <1>4, <1>7, <2>1 DEF CacheInv, Filled, Held
  <1>14. Queued'
    <2>1. Distinct(t)
      <3>1. SUFFICES ASSUME NEW i \in 1 .. Len(t), NEW j \in 1 .. Len(t), t[i] = t[j]
                     PROVE  i = j
        BY DEF Distinct
      <3>2. i + 1 \in 1 .. n /\ j + 1 \in 1 .. n /\ idequeue[i + 1] = idequeue[j + 1]
        BY <1>1, <3>1
      <3>3. i + 1 = j + 1
        BY <1>1, <3>2 DEF Distinct, n
      <3> QED BY <1>1, <3>3
    <2>2. ASSUME NEW i \in 1 .. Len(t)
          PROVE  \E y, q \in Proc \cup Block : 
                    /\ y = t[i] /\ q \in Proc
                    /\ For(todo[q], "sleep", y) /\ y \in Held(q) /\ y # b /\ ~ Clean(y)
      <3>1. PICK j \in 1 .. n : j = i + 1 /\ j # 1 /\ t[i] = idequeue[j]
        BY <1>1
      <3>2. PICK q \in Proc : /\ For(todo[q], "sleep", t[i]) /\ t[i] \in Held(q)
                              /\ ~ Clean(t[i])
        BY <3>1 DEF CacheInv, Queued, n
      <3>3. t[i] # b
        <4>1. 1 \in 1 .. n
          BY <1>1
        <4> QED BY <1>1, <3>1, <4>1 DEF Distinct, n
      <3>4. t[i] \in Block
        BY <1>1
      <3> QED BY <3>2, <3>3, <3>4
    <2>3. \A y, q : y \in Held(q) /\ y # b /\ ~ Clean(y) => ~ Clean(y)'
      BY <1>5 DEF Clean, Held
    <2>4. PICK u : u = idequeue'
      OBVIOUS
    <2>5. u = t
      BY <1>4, <2>4
    <2>6. u \in Seq(Block) /\ Distinct(u)
      BY <1>1, <2>1, <2>5
    <2>7. \A i \in 1 .. Len(u) : \E q \in Proc :
            For(todo'[q], "sleep", u[i]) /\ u[i] \in Held(q)' /\ ~ Clean(u[i])'
      BY <1>4, <1>7, <2>2, <2>3, <2>5
    <2> QED BY <2>4, <2>6, <2>7 DEF Queued
  <1>15. CacheInv'
    BY <1>10, <1>11, <1>12, <1>13, <1>14 DEF CacheInv
  <1> QED BY <1>2, <1>3, <1>5, <1>6, <1>7, <1>8, <1>15 DEF b

LEMMA NothingCached == DOMAIN <<>> = {} /\ <<>> \in Seq(Block) /\ Distinct(<<>>)
                       /\ \A T : <<>> \in [{} -> T]
  BY DEF Distinct

\* At first, and after a crash, nothing is in the cache.
LEMMA InitCache ==
    ASSUME cache = <<>>, idequeue = <<>>, disk \in [Block -> Contents], up \in BOOLEAN,
           calls \in 0 .. MaxCalls
    PROVE  CacheInv
  <1>1. Cached = {}
    BY NothingCached DEF Cached
  <1>2. Types
    BY <1>1, NothingCached DEF Types
  <1>3. Queued
    BY NothingCached DEF Queued
  <1>4. Counts /\ Coherent /\ Filled
    BY <1>1 DEF Counts, Coherent, Filled, Held
  <1> QED BY <1>2, <1>3, <1>4 DEF CacheInv


-----------------------------------------------------------------------------
(* One step of one process *)

LEMMA PointTop ==
    ASSUME NEW s, NEW H, NEW e, Point(s, H, e), s # <<>>
    PROVE  Top(s, Head(s)[1], Head(s)[2], Tail(s))
  <1>0. \A l, x : <<l, x>>[1] = l /\ <<l, x>>[2] = x
    OBVIOUS
  <1>1. ASSUME NEW l, NEW x, NEW r, Top(s, l, x, r)
        PROVE  Top(s, Head(s)[1], Head(s)[2], Tail(s))
    <2>1. PICK f : f = <<l, x>>
      OBVIOUS
    <2>2. Head(s) = f /\ f[1] = l /\ f[2] = x /\ Tail(s) = r
      BY <1>0, <1>1, <2>1 DEF Top
    <2> QED BY <1>1, <2>2
  <1>2. CASE Calling(s, H)
    BY <1>1, <1>2 DEF Calling, Writing, Reading
  <1>3. CASE Logging(s, H)
    BY <1>1, <1>3 DEF Logging, LogRound
  <1>4. CASE Installing(s, H, e)
    BY <1>1, <1>4 DEF Installing, InstallRound
  <1>5. CASE Recovering(s, H)
    BY <1>1, <1>5 DEF Recovering
  <1> QED BY <1>2, <1>3, <1>4, <1>5 DEF Point

\* A process that waits for nothing is at a point of its program.
LEMMA StandsAwake ==
    ASSUME NEW s, NEW H, NEW e, Stands(s, H, e), s # <<>>, Head(s)[1] \notin Waits
    PROVE  Point(s, H, e) /\ Top(s, Head(s)[1], Head(s)[2], Tail(s))
  <1>1. Point(s, H, e)
    BY DEF Stands, Waits
  <1> QED BY <1>1, PointTop

LEMMA AtPoint ==
    ASSUME NEW c, Control(c), NEW p \in Proc, NEW l, At(p, l), l \notin Waits
    PROVE  /\ Point(todo[p], Held(p), Role(p, c))
           /\ Top(todo[p], l, Arg(p), Tail(todo[p])) /\ IsSeq(Tail(todo[p]))
           /\ Awake(todo[p]) /\ (up \/ p = c)
  <1>1. Stands(todo[p], Held(p), Role(p, c)) /\ todo[p] # <<>> /\ Head(todo[p])[1] = l
    BY DEF Control, At
  <1>2. Point(todo[p], Held(p), Role(p, c)) /\ Top(todo[p], l, Arg(p), Tail(todo[p]))
    BY <1>1, StandsAwake DEF Arg
  <1> QED BY <1>1, <1>2, PointIs DEF Top, Control

\* A process that waits for block b, and what it does then.
LEMMA AtWait ==
    ASSUME NEW c, Control(c), NEW p \in Proc, NEW l \in Waits, At(p, l)
    PROVE  /\ For(todo[p], l, Arg(p)) /\ IsSeq(Tail(todo[p])) /\ (up \/ p = c)
           /\ LET b == Arg(p)
                  H == Held(p)
                  r == Tail(todo[p])
                  e == Role(p, c)
              IN  \/ l = "acquire" /\ b \in Cached /\ b \notin H /\ Point(r, H \cup {b}, e)
                  \/ /\ l # "acquire" /\ b \in H /\ b \notin Dirty /\ Point(r, H, e)
                     /\ l = "iderw" => ~ cache[b].valid
                  \/ l # "acquire" /\ b \in H /\ b \in Dirty /\ Pending(b, r, H, e)
  <1>1. /\ Stands(todo[p], Held(p), Role(p, c)) /\ todo[p] # <<>> /\ Head(todo[p])[1] = l
        /\ Head(todo[p])[2] = Arg(p)
    BY DEF Control, At, Arg
  <1>2. ~ Point(todo[p], Held(p), Role(p, c))
    BY <1>1, PointIs DEF Awake
  <1>3. IsSeq(Tail(todo[p]))
    BY <1>1, <1>2, TailOfStack DEF Stands
  <1>4. up \/ p = c
    BY <1>1 DEF Control
  <1> QED BY <1>1, <1>2, <1>3, <1>4 DEF Stands, For, Waits

LEMMA Becomes ==
    ASSUME Inv, NEW p \in Proc, NEW fs, Do(p, fs)
    PROVE  /\ todo'[p] = fs \o Tail(todo[p])
           /\ \A q \in Proc : q # p => todo'[q] = todo[q]
  <1>1. todo = [q \in Proc |-> todo[q]]
    BY DEF Inv, Stacks
  <1> QED BY <1>1 DEF Do

LEMMA BecomesDone ==
    ASSUME Inv, NEW p \in Proc, Done(p), IsSeq(Tail(todo[p]))
    PROVE  /\ todo'[p] = Tail(todo[p])
           /\ \A q \in Proc : q # p => todo'[q] = todo[q]
  <1>1. Do(p, <<>>)
    BY DEF Done
  <1> QED BY <1>1, Becomes, NoFrames

\* The data are the same when no dirty buffer comes, goes or changes.
LEMMA DataKept ==
    ASSUME UNCHANGED <<disk, lh, up>>,
           \A b : (b \in Cached' /\ cache'[b].dirty) <=> (b \in Cached /\ cache[b].dirty),
           \A b \in Cached : cache[b].dirty => cache'[b].data = cache[b].data
    PROVE  Data' = Data
  <1>1. Dirty' = Dirty
    BY DEF Dirty
  <1>2. \A b \in Dirty : cache'[b].data = cache[b].data
    BY DEF Dirty
  <1>3. Unwritten' = Unwritten
    BY <1>1, <1>2 DEF Unwritten
  <1> QED BY <1>1, <1>3 DEF Data

LEMMA ListsSame ==
    ASSUME Lists, disk' = disk, lh' = lh
    PROVE  Lists'
  BY DEF Lists, LogList, OnDisk, Distinct

\* A step that leaves the data alone.
LEMMA QuietStep ==
    ASSUME JInv, Inv', CacheInv', Data' = Data, committing' = committing,
           NEW c \in Proc \cup {NONE}, Control(c), NEW p \in Proc, up \/ p = c,
           \A q \in Proc : q # p => todo'[q] = todo[q] /\ Held(q)' = Held(q),
           \A q \in Proc : q # p => \A b \in Held(q) : cache'[b].valid = cache[b].valid,
           \A q \in Proc : q # p =>
             \A b : For(todo[q], "acquire", b) /\ b \in Cached => b \in Cached',
           NEW s, NEW H, NEW e, todo'[p] = s, Held(p)' = H, e = Role(p, c), Stands(s, H, e)'
    PROVE  JInv'
  <1>1. disk' = disk /\ lh' = lh /\ (up' <=> up)
    BY DataSame
  <1>2. \A q : Role(q, c)' = Role(q, c)
    BY <1>1 DEF Role
  <1>3. ASSUME NEW q \in Proc
        PROVE  Stands(todo[q], Held(q), Role(q, c))'
    <2>1. CASE q = p
      BY <1>2, <2>1
    <2>2. CASE q # p
      <3>1. PICK t, G, f : t = todo[q] /\ G = Held(q) /\ f = Role(q, c)
        OBVIOUS
      <3>2. Stands(t, G, f)
        BY <3>1 DEF Control
      <3>3. Stands(t, G, f)'
        BY <2>2, <3>1, <3>2, StandsSame
      <3>4. t = todo'[q] /\ G = Held(q)' /\ f = Role(q, c)'
        BY <1>2, <2>2, <3>1
      <3> QED BY <3>3, <3>4
    <2> QED BY <2>1, <2>2
  <1>4. Running => Running'
    BY PlacesSame
  <1>5. /\ c = NONE <=> (up' /\ ~ committing')
        /\ c = NONE => Running'
        /\ ~ up' => c = Boot /\ ~ committing' /\ \A q \in Proc : q # c => todo'[q] = <<>>
    BY <1>1, <1>4 DEF Control
  <1>6. Control(c)'
    BY <1>3, <1>5 DEF Control
  <1>7. Lists'
    BY <1>1, ListsSame DEF JInv
  <1> QED BY <1>6, <1>7 DEF JInv, Roled

-----------------------------------------------------------------------------
(* The steps that change no data *)

LEMMA KeptData ==
    ASSUME Kept, UNCHANGED <<disk, lh, up>>
    PROVE  /\ Data' = Data
           /\ \A q : \A b \in Held(q) : cache'[b].valid = cache[b].valid
           /\ \A b : b \in Cached => b \in Cached'
  BY DataKept DEF Kept, Held

LEMMA PushFor ==
    ASSUME NEW l, NEW b, NEW r, IsSeq(r), NEW s, s = Push(<<l, b>>, r)
    PROVE  IsSeq(s) /\ s # <<>> /\ Head(s)[1] = l /\ Head(s)[2] = b /\ Tail(s) = r /\ For(s, l, b)
  <1>1. /\ IsSeq(s) /\ s # <<>> /\ Head(s) = <<l, b>> /\ Tail(s) = r
    BY PushIs
  <1>2. PICK f : f = <<l, b>>
    OBVIOUS
  <1>3. f[1] = l /\ f[2] = b
    BY <1>2
  <1> QED BY <1>1, <1>2, <1>3 DEF For

\* A process that waits for a buffer it has locked, or is about to lock one.
LEMMA WaitStands ==
    ASSUME NEW l \in {"iderw", "sleep"}, NEW b, NEW r, IsSeq(r), NEW H, NEW e, b \in H,
           \/ b \notin Dirty' /\ Point(r, H, e)' /\ (l = "iderw" => ~ cache'[b].valid)
           \/ b \in Dirty' /\ Pending(b, r, H, e)',
           NEW s, s = Push(<<l, b>>, r)
    PROVE  Stands(s, H, e)'
  <1>1. IsSeq(s) /\ s # <<>> /\ Head(s)[1] = l /\ Head(s)[2] = b /\ Tail(s) = r
    BY PushFor
  <1> QED BY <1>1 DEF Stands

LEMMA AcquireStands ==
    ASSUME NEW b, NEW r, IsSeq(r), NEW H, NEW e, b \notin H, b \in Cached', Point(r, H \cup {b}, e)',
           NEW s, s = Push(<<"acquire", b>>, r)
    PROVE  Stands(s, H, e)'
  <1>1. IsSeq(s) /\ s # <<>> /\ Head(s)[1] = "acquire" /\ Head(s)[2] = b /\ Tail(s) = r
    BY PushFor
  <1> QED BY <1>1 DEF Stands

LEMMA IderwStep ==
    ASSUME JInv, NEW p \in Proc, Iderw(p)
    PROVE  JInv' /\ Data' = Data
  <1>1. PICK c \in Proc \cup {NONE} : Control(c)
    BY DEF JInv, Roled
  <1>2. PICK b, r, H, e : b = Arg(p) /\ r = Tail(todo[p]) /\ H = Held(p) /\ e = Role(p, c)
    OBVIOUS
  <1>3. /\ At(p, "iderw") /\ "iderw" \in Waits /\ ~ Clean(b)
        /\ idequeue' = Append(idequeue, b) /\ Do(p, << <<"sleep", b>> >>)
        /\ UNCHANGED <<disk, cache, lh, up, calls, committing>>
    BY <1>2 DEF Iderw, Waits, log
  <1>4. /\ For(todo[p], "iderw", b) /\ IsSeq(r) /\ (up \/ p = c) /\ b \in H
        /\ \/ b \notin Dirty /\ Point(r, H, e)
           \/ b \in Dirty /\ Pending(b, r, H, e)
    BY <1>1, <1>2, <1>3, AtWait
  <1>5. PICK s : s = Push(<<"sleep", b>>, r)
    OBVIOUS
  <1>6. todo'[p] = s /\ \A q \in Proc : q # p => todo'[q] = todo[q]
    BY <1>2, <1>3, <1>5, Becomes DEF JInv, Push
  <1>7. For(s, "sleep", b)
    BY <1>4, <1>5, PushFor
  <1>8. Inv'
    BY DiskStep DEF JInv
  <1>9. CacheInv'
    BY <1>2, <1>3, <1>4, <1>6, <1>7, IderwCache DEF JInv
  <1>10. Kept /\ \A q : Held(q)' = Held(q)
    BY <1>3 DEF Kept, Cached, Held
  <1>11. /\ Data' = Data /\ Dirty' = Dirty
         /\ \A q : \A y \in Held(q) : cache'[y].valid = cache[y].valid
         /\ \A y : y \in Cached => y \in Cached'
    BY <1>3, <1>10, KeptData, DataSame
  <1>12. Stands(s, H, e)'
    <2>1. CASE b \notin Dirty /\ Point(r, H, e)
      <3>1. b \notin Dirty' /\ Point(r, H, e)'
        BY <1>11, <2>1, PointSame
      <3> QED BY <1>4, <1>5, <3>1, WaitStands
    <2>2. CASE b \in Dirty /\ Pending(b, r, H, e)
      <3>1. b \in Dirty' /\ Pending(b, r, H, e)'
        BY <1>11, <2>2, PendingSame
      <3> QED BY <1>4, <1>5, <3>1, WaitStands
    <2> QED BY <1>4, <2>1, <2>2
  <1>13. JInv'
    BY <1>1, <1>2, <1>3, <1>4, <1>6, <1>8, <1>9, <1>10, <1>11, <1>12, QuietStep
  <1> QED BY <1>11, <1>13

LEMMA IderwReturnsStep ==
    ASSUME JInv, NEW p \in Proc, IderwReturns(p)
    PROVE  JInv' /\ Data' = Data
  <1>1. PICK c \in Proc \cup {NONE} : Control(c)
    BY DEF JInv, Roled
  <1>2. PICK b, r, H, e : b = Arg(p) /\ r = Tail(todo[p]) /\ H = Held(p) /\ e = Role(p, c)
    OBVIOUS
  <1>3. /\ At(p, "sleep") /\ "sleep" \in Waits /\ Clean(b) /\ Done(p)
        /\ UNCHANGED <<disk, cache, idequeue, lh, up, calls, committing>>
    BY <1>2 DEF IderwReturns, Waits, log
  <1>4. For(todo[p], "sleep", b) /\ IsSeq(r) /\ (up \/ p = c) /\ Point(r, H, e)
    <2>1. b \notin Dirty
      BY <1>3 DEF Clean, Dirty
    <2> QED BY <1>1, <1>2, <1>3, <2>1, AtWait
  <1>5. todo'[p] = r /\ \A q \in Proc : q # p => todo'[q] = todo[q]
    BY <1>2, <1>3, <1>4, BecomesDone DEF JInv
  <1>6. Inv'
    BY DiskStep DEF JInv
  <1>7. CacheInv'
    BY <1>2, <1>3, <1>4, <1>5, PointIs, IderwReturnsCache DEF JInv
  <1>8. Kept /\ \A q : Held(q)' = Held(q)
    BY <1>3 DEF Kept, Cached, Held
  <1>9. /\ Data' = Data
        /\ \A q : \A y \in Held(q) : cache'[y].valid = cache[y].valid
        /\ \A y : y \in Cached => y \in Cached'
    BY <1>3, <1>8, KeptData
  <1>10. Stands(r, H, e)'
    <2>1. Point(r, H, e)'
      BY <1>4, <1>9, PointSame
    <2> QED BY <2>1 DEF Stands
  <1>11. JInv'
    BY <1>1, <1>2, <1>3, <1>4, <1>5, <1>6, <1>7, <1>8, <1>9, <1>10, QuietStep
  <1> QED BY <1>9, <1>11

LEMMA BgetFindsStep ==
    ASSUME JInv, NEW p \in Proc, BgetFinds(p)
    PROVE  JInv' /\ Data' = Data
  <1>1. PICK c \in Proc \cup {NONE} : Control(c)
    BY DEF JInv, Roled
  <1>2. PICK b, r, H, e : b = Arg(p) /\ r = Tail(todo[p]) /\ H = Held(p) /\ e = Role(p, c)
    OBVIOUS
  <1>3. /\ At(p, "bread") /\ "bread" \notin Waits /\ b \in Cached
        /\ cache' = [cache EXCEPT ![b].refcnt = @ + 1] /\ Do(p, << <<"acquire", b>> >>)
        /\ UNCHANGED <<disk, idequeue, lh, up, calls, committing>>
    BY <1>2 DEF BgetFinds, Waits, log
  <1>4. /\ Point(todo[p], H, e) /\ Top(todo[p], "bread", b, r) /\ IsSeq(r)
        /\ Awake(todo[p]) /\ (up \/ p = c)
    BY <1>1, <1>2, <1>3, AtPoint
  <1>5. b \notin H /\ Point(r, H \cup {b}, e)
    BY <1>4, BreadPoint DEF JInv, Lists
  <1>6. PICK s : s = Push(<<"acquire", b>>, r)
    OBVIOUS
  <1>7. todo'[p] = s /\ \A q \in Proc : q # p => todo'[q] = todo[q]
    BY <1>2, <1>3, <1>6, Becomes DEF JInv, Push
  <1>8. For(s, "acquire", b)
    BY <1>4, <1>6, PushFor
  <1>9. Inv'
    BY BufferStep DEF JInv
  <1>10. CacheInv' /\ Kept /\ \A q : Held(q)' = Held(q)
    BY <1>2, <1>3, <1>4, <1>5, <1>7, <1>8, FindsCache DEF JInv
  <1>11. /\ Data' = Data
         /\ \A q : \A y \in Held(q) : cache'[y].valid = cache[y].valid
         /\ \A y : y \in Cached => y \in Cached'
    BY <1>3, <1>10, KeptData
  <1>12. Stands(s, H, e)'
    <2>1. Point(r, H \cup {b}, e)'
      BY <1>5, <1>11, PointSame
    <2> QED BY <1>3, <1>4, <1>5, <1>6, <1>11, <2>1, AcquireStands
  <1>13. JInv'
    BY <1>1, <1>2, <1>3, <1>4, <1>7, <1>9, <1>10, <1>11, <1>12, QuietStep
  <1> QED BY <1>11, <1>13

LEMMA BgetRecyclesStep ==
    ASSUME JInv, NEW p \in Proc, BgetRecycles(p)
    PROVE  JInv' /\ Data' = Data
  <1>1. PICK c \in Proc \cup {NONE} : Control(c)
    BY DEF JInv, Roled
  <1>2. PICK b, r, H, e : b = Arg(p) /\ r = Tail(todo[p]) /\ H = Held(p) /\ e = Role(p, c)
    OBVIOUS
  <1>3. /\ At(p, "bread") /\ "bread" \notin Waits /\ b \notin Cached
        /\ Do(p, << <<"acquire", b>> >>)
        /\ UNCHANGED <<disk, idequeue, lh, up, calls, committing>>
    BY <1>2 DEF BgetRecycles, Waits, log
  <1>4. /\ Point(todo[p], H, e) /\ Top(todo[p], "bread", b, r) /\ IsSeq(r)
        /\ Awake(todo[p]) /\ (up \/ p = c)
    BY <1>1, <1>2, <1>3, AtPoint
  <1>5. b \in Block /\ b \notin H /\ Point(r, H \cup {b}, e)
    BY <1>4, BreadPoint DEF JInv, Lists
  <1>6. PICK s : s = Push(<<"acquire", b>>, r)
    OBVIOUS
  <1>7. todo'[p] = s /\ \A q \in Proc : q # p => todo'[q] = todo[q]
    BY <1>2, <1>3, <1>6, Becomes DEF JInv, Push
  <1>8. For(s, "acquire", b)
    BY <1>4, <1>6, PushFor
  <1>9. Inv'
    BY BufferStep DEF JInv
  <1>10. PICK old : /\ old \subseteq Recyclable
                    /\ cache' = [y \in (Cached \ old) \cup {b} |->
                                    IF y = b THEN Fresh ELSE cache[y]]
    BY <1>2 DEF BgetRecycles, Victims, Fresh
  <1>11. \A q \in Proc : ~ For(todo[q], "acquire", b)
    <2>1. SUFFICES ASSUME NEW q \in Proc, For(todo[q], "acquire", b) PROVE FALSE
      OBVIOUS
    <2>2. At(q, "acquire") /\ "acquire" \in Waits /\ Arg(q) = b
      BY <2>1 DEF For, At, Arg, Waits
    <2> QED BY <1>1, <1>3, <2>2, AtWait
  <1>12. /\ CacheInv'
         /\ \A q \in Proc : Held(q)' = Held(q)
         /\ \A q \in Proc : \A y \in Held(q) : cache'[y].valid = cache[y].valid
         /\ \A q \in Proc, y \in Cached : For(todo[q], "acquire", y) => y \in Cached'
         /\ b \in Cached'
         /\ \A y : (y \in Cached' /\ cache'[y].dirty) <=> (y \in Cached /\ cache[y].dirty)
         /\ \A y \in Cached : cache[y].dirty => cache'[y].data = cache[y].data
    BY <1>2, <1>3, <1>4, <1>5, <1>7, <1>8, <1>10, <1>11, RecyclesCache DEF JInv
  <1>13. Data' = Data
    BY <1>3, <1>12, DataKept
  <1>14. Stands(s, H, e)'
    <2>1. Point(r, H \cup {b}, e)'
      BY <1>5, <1>13, PointSame
    <2> QED BY <1>4, <1>5, <1>6, <1>12, <2>1, AcquireStands
  <1>15. JInv'
    BY <1>1, <1>2, <1>3, <1>4, <1>7, <1>9, <1>12, <1>13, <1>14, QuietStep
  <1> QED BY <1>13, <1>15

LEMMA AcquireStep ==
    ASSUME JInv, NEW p \in Proc, Acquire(p)
    PROVE  JInv' /\ Data' = Data
  <1>1. PICK c \in Proc \cup {NONE} : Control(c)
    BY DEF JInv, Roled
  <1>2. PICK b, r, H, e : b = Arg(p) /\ r = Tail(todo[p]) /\ H = Held(p) /\ e = Role(p, c)
    OBVIOUS
  <1>3. /\ At(p, "acquire") /\ "acquire" \in Waits /\ cache[b].holder = NONE
        /\ cache' = [cache EXCEPT ![b].holder = p]
        /\ cache[b].valid => Done(p)
        /\ ~ cache[b].valid => Do(p, << <<"iderw", b>> >>)
        /\ UNCHANGED <<disk, idequeue, lh, up, calls, committing>>
    BY <1>2 DEF Acquire, Waits, log
  <1>4. /\ For(todo[p], "acquire", b) /\ IsSeq(r) /\ (up \/ p = c)
        /\ b \in Cached /\ b \notin H /\ Point(r, H \cup {b}, e)
    BY <1>1, <1>2, <1>3, AtWait
  <1>5. PICK s : s = IF cache[b].valid THEN r ELSE Push(<<"iderw", b>>, r)
    OBVIOUS
  <1>6. todo'[p] = s /\ \A q \in Proc : q # p => todo'[q] = todo[q]
    <2>1. CASE cache[b].valid
      BY <1>2, <1>3, <1>4, <1>5, <2>1, BecomesDone DEF JInv
    <2>2. CASE ~ cache[b].valid
      BY <1>2, <1>3, <1>5, <2>2, Becomes DEF JInv, Push
    <2> QED BY <2>1, <2>2
  <1>7. (cache[b].valid /\ Awake(s)) \/ For(s, "iderw", b)
    BY <1>4, <1>5, PushFor, PointIs
  <1>8. Inv'
    BY BufferStep DEF JInv
  <1>9. /\ CacheInv' /\ Kept /\ Held(p)' = H \cup {b}
        /\ \A q \in Proc : q # p => Held(q)' = Held(q)
    BY <1>2, <1>3, <1>4, <1>6, <1>7, AcquireCache DEF JInv
  <1>10. /\ Data' = Data /\ Dirty' = Dirty
         /\ \A q : \A y \in Held(q) : cache'[y].valid = cache[y].valid
         /\ \A y : y \in Cached => y \in Cached'
    BY <1>3, <1>9, KeptData, DataSame
  <1>11. PICK G : G = H \cup {b}
    OBVIOUS
  <1>12. Stands(s, G, e)'
    <2>1. Point(r, G, e)'
      BY <1>4, <1>10, <1>11, PointSame
    <2>2. CASE cache[b].valid
      BY <1>5, <2>1, <2>2 DEF Stands
    <2>3. CASE ~ cache[b].valid
      <3>1. ~ cache'[b].valid
        BY <1>4, <1>9, <2>3 DEF Kept
      <3>2. b \notin Dirty
        BY <1>4, <2>3 DEF JInv, CacheInv, Coherent, Dirty
      <3> QED BY <1>4, <1>5, <1>10, <1>11, <2>1, <2>3, <3>1, <3>2, WaitStands
    <2> QED BY <2>2, <2>3
  <1>13. JInv'
    BY <1>1, <1>2, <1>3, <1>4, <1>6, <1>8, <1>9, <1>10, <1>11, <1>12, QuietStep
  <1> QED BY <1>10, <1>13

LEMMA BrelseStep ==
    ASSUME JInv, NEW p \in Proc, Brelse(p)
    PROVE  JInv' /\ Data' = Data
  <1>1. PICK c \in Proc \cup {NONE} : Control(c)
    BY DEF JInv, Roled
  <1>2. PICK b, r, H, e : b = Arg(p) /\ r = Tail(todo[p]) /\ H = Held(p) /\ e = Role(p, c)
    OBVIOUS
  <1>3. /\ At(p, "brelse") /\ "brelse" \notin Waits
        /\ cache' = Released(b, cache) /\ Done(p)
        /\ UNCHANGED <<disk, idequeue, lh, up, calls, committing>>
    BY <1>2 DEF Brelse, Waits, log
  <1>4. /\ Point(todo[p], H, e) /\ Top(todo[p], "brelse", b, r) /\ IsSeq(r)
        /\ Awake(todo[p]) /\ (up \/ p = c)
    BY <1>1, <1>2, <1>3, AtPoint
  <1>5. b \in H /\ Point(r, H \ {b}, e)
    BY <1>4, BrelsePoint DEF JInv, Lists
  <1>6. todo'[p] = r /\ \A q \in Proc : q # p => todo'[q] = todo[q]
    BY <1>2, <1>3, <1>4, BecomesDone DEF JInv
  <1>7. Inv'
    BY BufferStep DEF JInv
  <1>8. /\ CacheInv' /\ Kept /\ Held(p)' = H \ {b}
        /\ \A q \in Proc : q # p => Held(q)' = Held(q)
    BY <1>2, <1>3, <1>4, <1>5, <1>6, PointIs, BrelseCache DEF JInv
  <1>9. /\ Data' = Data
        /\ \A q : \A y \in Held(q) : cache'[y].valid = cache[y].valid
        /\ \A y : y \in Cached => y \in Cached'
    BY <1>3, <1>8, KeptData
  <1>10. PICK G : G = H \ {b}
    OBVIOUS
  <1>11. Stands(r, G, e)'
    <2>1. Point(r, G, e)'
      BY <1>5, <1>9, <1>10, PointSame
    <2> QED BY <2>1 DEF Stands
  <1>12. JInv'
    BY <1>1, <1>2, <1>3, <1>4, <1>6, <1>7, <1>8, <1>9, <1>10, <1>11, QuietStep
  <1> QED BY <1>9, <1>12

-----------------------------------------------------------------------------
(* The steps that change no buffer *)

\* A process goes on, and perhaps wakes up those that wait for the log.
LEMMA FlowStep ==
    ASSUME JInv, Inv', UNCHANGED <<disk, cache, idequeue, lh, up>>, calls' \in 0 .. MaxCalls,
           NEW c \in Proc \cup {NONE}, NEW d \in Proc \cup {NONE}, Control(c), NEW p \in Proc,
           ~ up => p = c /\ d = c /\ committing' = committing,
           \A q \in Proc : q # p => Role(q, d) = Role(q, c),
           d = NONE <=> (up /\ ~ committing'), d = NONE => Running,
           Awake(todo[p]), NEW s, todo'[p] = s, NEW H, H = Held(p), NEW e, e = Role(p, d),
           Point(s, H, e),
           \A q \in Proc : q # p => \/ todo'[q] = todo[q]
                                    \/ /\ At(q, "asleep")
                                       /\ todo'[q] = << <<"begin_op", Arg(q)>> >>
    PROVE  JInv' /\ Data' = Data
  <1>1. Kept /\ \A q : Held(q)' = Held(q)
    BY DEF Kept, Cached, Held
  <1>2. /\ Data' = Data
        /\ \A q : \A b \in Held(q) : cache'[b].valid = cache[b].valid
        /\ \A b : b \in Cached => b \in Cached'
    BY <1>1, KeptData
  <1>3. \A q : Role(q, d)' = Role(q, d)
    BY DEF Role
  <1>4. ASSUME NEW q \in Proc, q # p
        PROVE  /\ Stands(todo[q], Held(q), Role(q, d))'
               /\ todo'[q] = todo[q] \/ (Awake(todo[q]) /\ Awake(todo'[q]))
    <2>1. PICK t, u, G, f : /\ t = todo[q] /\ u = todo'[q] /\ G = Held(q) /\ f = Role(q, c)
      OBVIOUS
    <2>2. Stands(t, G, f)
      BY <2>1 DEF Control
    <2>3. u = todo'[q] /\ G = Held(q)' /\ f = Role(q, d)'
      BY <1>1, <1>3, <1>4, <2>1
    <2>4. CASE todo'[q] = todo[q]
      <3>1. Stands(t, G, f)'
        BY <1>2, <2>1, <2>2, StandsSame
      <3> QED BY <2>1, <2>3, <2>4, <3>1
    <2>5. CASE At(q, "asleep") /\ todo'[q] = << <<"begin_op", Arg(q)>> >>
      <3>1. "asleep" \notin Waits
        BY DEF Waits
      <3>2. Point(t, G, f) /\ Top(t, "asleep", Arg(q), Tail(t)) /\ Awake(t)
        BY <2>1, <2>5, <3>1, AtPoint
      <3>3. Point(u, G, f)
        BY <2>1, <2>5, <3>2, AsleepGoes
      <3>4. Point(u, G, f)' /\ Awake(u)
        BY <1>2, <3>3, PointSame, PointIs
      <3>5. Stands(u, G, f)'
        BY <3>4 DEF Stands
      <3> QED BY <2>1, <2>3, <3>2, <3>4, <3>5
    <2> QED BY <1>4, <2>4, <2>5
  <1>5. Point(s, H, e)' /\ Awake(s)
    BY <1>2, PointSame, PointIs
  <1>6. Stands(todo[p], Held(p), Role(p, d))'
    <2>1. Stands(s, H, e)'
      BY <1>5 DEF Stands
    <2>2. s = todo'[p] /\ H = Held(p)' /\ e = Role(p, d)'
      BY <1>1, <1>3
    <2> QED BY <2>1, <2>2
  <1>7. CacheInv'
    <2>1. \A q \in Proc : todo'[q] = todo[q] \/ (Awake(todo[q]) /\ Awake(todo'[q]))
      BY <1>4, <1>5
    <2>2. up' \in BOOLEAN
      BY DEF JInv, CacheInv, Types
    <2> QED BY <2>1, <2>2, CacheSame DEF JInv
  <1>8. Running => Running'
    BY <1>2, PlacesSame
  <1>9. ~ up' => d = Boot /\ ~ committing' /\ \A q \in Proc : q # d => todo'[q] = <<>>
    BY DEF Control, At
  <1>10. Control(d)'
    BY <1>4, <1>6, <1>8, <1>9 DEF Control
  <1>11. Lists'
    BY ListsSame DEF JInv
  <1>12. JInv'
    BY <1>7, <1>10, <1>11 DEF JInv, Roled
  <1> QED BY <1>2, <1>12

LEMMA EmptyPoint ==
    ASSUME NEW H, NEW e, Point(<<>>, H, e)
    PROVE  e = "call" /\ H = {}
  <1>1. \A l, x, r : ~ Top(<<>>, l, x, r)
    BY DEF Top
  <1>2. ~ Logging(<<>>, H) /\ ~ Installing(<<>>, H, e) /\ ~ Recovering(<<>>, H)
    BY <1>1 DEF Logging, LogRound, Installing, InstallRound, Recovering
  <1>3. Calling(<<>>, H) => H = {}
    BY <1>1 DEF Calling, Writing, Reading
  <1> QED BY <1>2, <1>3 DEF Point

LEMMA IdleIs ==
    ASSUME NEW c, Control(c), NEW p \in Proc, todo[p] = <<>>
    PROVE  Held(p) = {} /\ Role(p, c) = "call" /\ Awake(todo[p]) /\ p # c
  <1>1. Stands(todo[p], Held(p), Role(p, c))
    BY DEF Control
  <1>2. Point(<<>>, Held(p), Role(p, c))
    BY <1>1 DEF Stands
  <1>3. Held(p) = {} /\ Role(p, c) = "call"
    BY <1>2, EmptyPoint
  <1> QED BY <1>2, <1>3, PointIs DEF Role

LEMMA BeginOpStep ==
    ASSUME JInv, NEW p \in Proc, BeginOp(p) \/ BeginOpSleeps(p)
    PROVE  JInv' /\ Data' = Data
  <1>1. PICK c \in Proc \cup {NONE} : Control(c)
    BY DEF JInv, Roled
  <1>2. PICK x, r, H, e : x = Arg(p) /\ r = Tail(todo[p]) /\ H = Held(p) /\ e = Role(p, c)
    OBVIOUS
  <1>3. /\ At(p, "begin_op") /\ "begin_op" \notin Waits
        /\ Do(p, Body(x[1], x[2])) \/ Do(p, << <<"asleep", x>> >>)
        /\ UNCHANGED <<disk, cache, idequeue, lh, up, calls, committing>>
    BY <1>2 DEF BeginOp, BeginOpSleeps, Waits, log
  <1>4. /\ Point(todo[p], H, e) /\ Top(todo[p], "begin_op", x, r)
        /\ Awake(todo[p]) /\ (up \/ p = c)
    BY <1>1, <1>2, <1>3, AtPoint
  <1>5. PICK s : s = todo'[p]
    OBVIOUS
  <1>6. Point(s, H, e) /\ \A q \in Proc : q # p => todo'[q] = todo[q]
    <2>1. /\ Point(Body(x[1], x[2]) \o r, H, e)
          /\ Point(<< <<"asleep", x>> >> \o r, H, e)
      BY <1>4, BeginGoes
    <2>2. CASE Do(p, Body(x[1], x[2]))
      BY <1>2, <1>5, <2>1, <2>2, Becomes DEF JInv
    <2>3. CASE Do(p, << <<"asleep", x>> >>)
      BY <1>2, <1>5, <2>1, <2>3, Becomes DEF JInv
    <2> QED BY <1>3, <2>2, <2>3
  <1>7. Inv'
    BY BeginStep, BeginSleepStep DEF JInv
  <1>8. calls' \in 0 .. MaxCalls
    BY <1>3 DEF JInv, CacheInv, Types
  <1> QED BY <1>1, <1>2, <1>3, <1>4, <1>5, <1>6, <1>7, <1>8, FlowStep DEF Control

LEMMA LoopStep ==
    ASSUME JInv, NEW p \in Proc, WriteLog(p) \/ InstallTrans(p)
    PROVE  JInv' /\ Data' = Data
  <1>1. PICK c \in Proc \cup {NONE} : Control(c)
    BY DEF JInv, Roled
  <1>2. PICK t, r, H, e : t = Arg(p) /\ r = Tail(todo[p]) /\ H = Held(p) /\ e = Role(p, c)
    OBVIOUS
  <1>3. /\ \/ At(p, "write_log") /\ Do(p, Copying("write_log", "to_log", t, t))
           \/ /\ At(p, "install")
              /\ Do(p, Copying("install", "to_home", t, IF t > Len(lh) THEN 0 ELSE lh[t]))
        /\ UNCHANGED <<disk, cache, idequeue, lh, up, calls, committing>>
    BY <1>2 DEF WriteLog, InstallTrans, log
  <1>4. PICK s : s = todo'[p]
    OBVIOUS
  <1>5. /\ Point(todo[p], H, e) /\ Awake(todo[p]) /\ (up \/ p = c) /\ Point(s, H, e)
        /\ \A q \in Proc : q # p => todo'[q] = todo[q]
    <2>1. CASE At(p, "write_log") /\ Do(p, Copying("write_log", "to_log", t, t))
      <3>1. /\ Point(todo[p], H, e) /\ Top(todo[p], "write_log", t, r)
            /\ Awake(todo[p]) /\ (up \/ p = c)
        BY <1>1, <1>2, <2>1, AtPoint DEF Waits
      <3>2. Point(Copying("write_log", "to_log", t, t) \o r, H, e)
        BY <3>1, WriteLogGoes DEF JInv, Lists
      <3> QED BY <1>2, <1>4, <2>1, <3>1, <3>2, Becomes DEF JInv
    <2>2. CASE /\ At(p, "install")
               /\ Do(p, Copying("install", "to_home", t, IF t > Len(lh) THEN 0 ELSE lh[t]))
      <3>1. /\ Point(todo[p], H, e) /\ Top(todo[p], "install", t, r)
            /\ Awake(todo[p]) /\ (up \/ p = c)
        BY <1>1, <1>2, <2>2, AtPoint DEF Waits
      <3>2. Point(Copying("install", "to_home", t, IF t > Len(lh) THEN 0 ELSE lh[t]) \o r, H, e)
        BY <3>1, InstallGoes DEF JInv, Lists
      <3> QED BY <1>2, <1>4, <2>2, <3>1, <3>2, Becomes DEF JInv
    <2> QED BY <1>3, <2>1, <2>2
  <1>6. Inv'
    BY LogStep DEF JInv
  <1>7. calls' \in 0 .. MaxCalls
    BY <1>3 DEF JInv, CacheInv, Types
  <1> QED BY <1>1, <1>2, <1>3, <1>4, <1>5, <1>6, <1>7, FlowStep DEF Control

LEMMA CallsStep ==
    ASSUME JInv, NEW p \in Proc, CallWrites(p) \/ CallReads(p)
    PROVE  JInv' /\ Data' = Data
  <1>1. PICK c \in Proc \cup {NONE} : Control(c)
    BY DEF JInv, Roled
  <1>2. /\ up /\ todo[p] = <<>> /\ calls < MaxCalls /\ calls' = calls + 1
        /\ UNCHANGED <<disk, cache, idequeue, lh, up, committing>>
    BY DEF CallWrites, CallReads, log
  <1>3. Held(p) = {} /\ Role(p, c) = "call" /\ Awake(todo[p])
    BY <1>1, <1>2, IdleIs
  <1>4. calls + 1 \in 1 .. MaxCalls
    BY <1>2, JournalAssumption DEF JInv, CacheInv, Types
  <1>5. PICK s : /\ todo' = [todo EXCEPT ![p] = s] /\ Point(s, {}, "call")
    <2>1. CASE CallWrites(p)
      <3>1. PICK ws \in Calls : todo' = [todo EXCEPT ![p] = << <<"begin_op", <<calls + 1, ws>>>> >>]
        BY <2>1 DEF CallWrites
      <3> QED BY <1>4, <3>1, CallGoes
    <2>2. CASE CallReads(p)
      <3>1. PICK b \in Homes : todo' = [todo EXCEPT ![p] = << <<"bread", b>>, <<"brelse", b>> >>]
        BY <2>2 DEF CallReads
      <3> QED BY <3>1, CallGoes
    <2> QED BY <2>1, <2>2
  <1>6. todo'[p] = s /\ \A q \in Proc : q # p => todo'[q] = todo[q]
    BY <1>5 DEF JInv, Inv, Stacks
  <1>7. Inv'
    BY CallStep DEF JInv
  <1>8. calls' \in 0 .. MaxCalls
    BY <1>2, <1>4
  <1> QED BY <1>1, <1>2, <1>3, <1>5, <1>6, <1>7, <1>8, FlowStep DEF Control

\* end_op(): the last one commits.
LEMMA EndOpStep ==
    ASSUME JInv, NEW p \in Proc, EndOp(p)
    PROVE  JInv' /\ Data' = Data
  <1>1. PICK c \in Proc \cup {NONE} : Control(c)
    BY DEF JInv, Roled
  <1>2. PICK x, r, H, e : x = Arg(p) /\ r = Tail(todo[p]) /\ H = Held(p) /\ e = Role(p, c)
    OBVIOUS
  <1>3. /\ At(p, "end_op") /\ "end_op" \notin Waits /\ ~ committing
        /\ committing' = (outstanding = 1)
        /\ IF outstanding = 1 THEN Do(p, commit) ELSE todo' = Woken(p, <<>>)
        /\ UNCHANGED <<disk, cache, idequeue, lh, up, calls>>
    BY DEF EndOp, Waits
  <1>4. /\ Point(todo[p], H, e) /\ Top(todo[p], "end_op", x, r)
        /\ Awake(todo[p]) /\ (up \/ p = c)
    BY <1>1, <1>2, <1>3, AtPoint
  <1>5. e = "call" /\ r = <<>> /\ H = {}
    BY <1>4, EndOpPoint
  <1>6. up /\ c = NONE /\ Running
    BY <1>1, <1>2, <1>3, <1>4, <1>5 DEF Role, Control
  <1>7. p # NONE
    BY JournalAssumption
  <1>8. Inv'
    BY EndStep DEF JInv
  <1>9. calls' \in 0 .. MaxCalls
    BY <1>3 DEF JInv, CacheInv, Types
  <1>10. CASE outstanding = 1
    <2>1. committing' /\ todo'[p] = commit /\ \A q \in Proc : q # p => todo'[q] = todo[q]
      BY <1>2, <1>3, <1>5, <1>10, Becomes, CommitGoes DEF JInv
    <2>2. Role(p, p) = "committed" /\ \A q \in Proc : q # p => Role(q, p) = Role(q, c)
      BY <1>6, JournalAssumption DEF Role
    <2>3. PICK s : s = commit
      OBVIOUS
    <2>4. Point(s, {}, "committed")
      <3>1. CASE lh = <<>>
        <4>1. Top(s, "committed", 0, <<>>) /\ Cleared
          <5>1. ToSet(lh) = {}
            BY <3>1 DEF ToSet
          <5> QED BY <1>6, <2>3, <3>1, <5>1, CommitGoes DEF Running, Cleared
        <4> QED BY <1>6, <4>1 DEF Point, Installing
      <3>2. CASE lh # <<>>
        <4>1. Top(s, "write_log", 1, HeadRead)
          BY <2>3, <3>2, CommitGoes
        <4>2. Len(lh) \in Nat /\ 1 \in 1 .. Len(lh) + 1
          BY DEF JInv, Lists, LogList
        <4>3. Logged(0, {})
          BY <1>6, <3>2 DEF Running, Logged
        <4>4. Logged(1 - 1, {})
          BY <4>3
        <4> QED BY <1>6, <4>1, <4>2, <4>4 DEF Point, Logging
      <3> QED BY <3>1, <3>2
    <2> QED BY <1>1, <1>2, <1>3, <1>4, <1>5, <1>6, <1>7, <1>8, <1>9, <2>1, <2>2, <2>3, <2>4,
               FlowStep
  <1>11. CASE outstanding # 1
    <2>1. /\ ~ committing' /\ todo'[p] = <<>>
          /\ \A q \in Proc : q # p => \/ todo'[q] = todo[q]
                                      \/ /\ At(q, "asleep")
                                         /\ todo'[q] = << <<"begin_op", Arg(q)>> >>
      BY <1>2, <1>3, <1>5, <1>11, NoFrames, NothingIsSeq DEF Woken
    <2> QED BY <1>1, <1>2, <1>3, <1>4, <1>5, <1>6, <1>8, <1>9, <2>1, CallGoes, FlowStep
  <1> QED BY <1>10, <1>11

LEMMA CommittedJInv ==
    ASSUME JInv, NEW p \in Proc, Committed(p)
    PROVE  JInv' /\ Data' = Data
  <1>1. PICK c \in Proc \cup {NONE} : Control(c)
    BY DEF JInv, Roled
  <1>2. PICK x, r, H, e : x = Arg(p) /\ r = Tail(todo[p]) /\ H = Held(p) /\ e = Role(p, c)
    OBVIOUS
  <1>3. /\ At(p, "committed") /\ "committed" \notin Waits
        /\ ~ committing' /\ todo' = Woken(p, <<>>)
        /\ UNCHANGED <<disk, cache, idequeue, lh, up, calls>>
    BY DEF Committed, Waits
  <1>4. /\ Point(todo[p], H, e) /\ Top(todo[p], "committed", x, r)
        /\ Awake(todo[p]) /\ (up \/ p = c)
    BY <1>1, <1>2, <1>3, AtPoint
  <1>5. e = "committed" /\ up /\ r = <<>> /\ H = {} /\ Cleared
    BY <1>4, LastPoint
  <1>6. p = c
    BY <1>2, <1>5 DEF Role
  <1>7. Running
    <2>1. ToSet(<<>>) = {}
      BY DEF ToSet
    <2> QED BY <1>5, <2>1 DEF Cleared, Running
  <1>8. /\ Role(p, NONE) = "call"
        /\ \A q \in Proc : q # p => Role(q, NONE) = Role(q, c)
    BY <1>6, JournalAssumption DEF Role
  <1>9. /\ todo'[p] = <<>>
        /\ \A q \in Proc : q # p => \/ todo'[q] = todo[q]
                                    \/ /\ At(q, "asleep")
                                       /\ todo'[q] = << <<"begin_op", Arg(q)>> >>
    BY <1>2, <1>3, <1>5, NoFrames, NothingIsSeq DEF Woken
  <1>10. Inv'
    BY CommittedStep DEF JInv
  <1>11. calls' \in 0 .. MaxCalls
    BY <1>3 DEF JInv, CacheInv, Types
  <1> QED BY <1>1, <1>2, <1>3, <1>4, <1>5, <1>7, <1>8, <1>9, <1>10, <1>11, CallGoes, FlowStep

-----------------------------------------------------------------------------
(* The steps that change the data *)

\* What a read returns, from the disk and the dirty buffers.
View == [b \in Homes |-> IF up /\ b \in Dirty THEN Unwritten[b] ELSE Recovered[b]]

LEMMA RecoveredIs ==
    ASSUME LogList(OnDisk), NEW b \in Homes
    PROVE  /\ b \notin ToSet(OnDisk) => Recovered[b] = disk[b]
           /\ \A i \in 1 .. Len(OnDisk) : OnDisk[i] = b => Recovered[b] = disk[i]
  <1>1. DOMAIN OnDisk = 1 .. Len(OnDisk) /\ ToSet(OnDisk) = {OnDisk[i] : i \in 1 .. Len(OnDisk)}
    BY DEF LogList, ToSet
  <1>2. Recovered[b] = IF b \in ToSet(OnDisk)
                       THEN disk[CHOOSE i \in DOMAIN OnDisk : OnDisk[i] = b]
                       ELSE disk[b]
    BY DEF Recovered, OnDisk
  <1>3. ASSUME NEW i \in 1 .. Len(OnDisk), OnDisk[i] = b
        PROVE  Recovered[b] = disk[i]
    <2>1. \A j \in 1 .. Len(OnDisk) : OnDisk[j] = b => j = i
      BY <1>3 DEF LogList, Distinct
    <2>2. (CHOOSE j \in DOMAIN OnDisk : OnDisk[j] = b) = i
      BY <1>1, <1>3, <2>1
    <2>3. b \in ToSet(OnDisk)
      BY <1>1, <1>3
    <2> QED BY <1>2, <2>2, <2>3
  <1> QED BY <1>2, <1>3

\* A step of the committer, or of a call while nobody commits.
LEMMA NoisyStep ==
    ASSUME JInv, Inv', CacheInv', Lists', up' = up, committing' = committing,
           NEW c \in Proc \cup {NONE}, Control(c), NEW p \in Proc, c \in {p, NONE},
           c = NONE => Running', Cached' = Cached,
           \A q \in Proc : q # p => todo'[q] = todo[q] /\ Held(q)' = Held(q),
           \A q \in Proc : q # p =>
             \A b \in Held(q) : cache'[b].valid = cache[b].valid /\ (b \in Dirty' <=> b \in Dirty),
           NEW s, NEW H, NEW e, todo'[p] = s, Held(p)' = H, e = Role(p, c), Stands(s, H, e)'
    PROVE  JInv'
  <1>1. \A q : Role(q, c)' = Role(q, c)
    BY DEF Role
  <1>2. ASSUME NEW q \in Proc
        PROVE  Stands(todo[q], Held(q), Role(q, c))'
    <2>1. CASE q = p
      BY <1>1, <2>1
    <2>2. CASE q # p
      <3>1. PICK t, G : t = todo[q] /\ G = Held(q)
        OBVIOUS
      <3>2. Role(q, c) = "call"
        BY <2>2, JournalAssumption DEF Role
      <3>3. Stands(t, G, "call")
        BY <3>1, <3>2 DEF Control
      <3>4. Stands(t, G, "call")'
        BY <2>2, <3>1, <3>3, CallSame
      <3>5. t = todo'[q] /\ G = Held(q)' /\ "call" = Role(q, c)'
        BY <1>1, <2>2, <3>1, <3>2
      <3> QED BY <3>4, <3>5
    <2> QED BY <2>1, <2>2
  <1>3. /\ c = NONE <=> (up' /\ ~ committing')
        /\ ~ up' => c = Boot /\ ~ committing' /\ \A q \in Proc : q # c => todo'[q] = <<>>
    BY DEF Control
  <1>4. Control(c)'
    BY <1>2, <1>3 DEF Control
  <1> QED BY <1>4 DEF JInv, Roled

\* bwrite() by a process that has locked the buffer.
LEMMA BwriteKept ==
    ASSUME CacheInv, NEW p \in Proc, NEW b \in Held(p), NEW x \in Contents,
           cache' = Bwrite(b, x, cache)
    PROVE  /\ Cached' = Cached /\ \A q : Held(q)' = Held(q)
           /\ \A q \in Proc : q # p =>
                \A y \in Held(q) : cache'[y].valid = cache[y].valid /\ (y \in Dirty' <=> y \in Dirty)
           /\ Dirty' = Dirty \cup {b} /\ Unwritten'[b] = x
           /\ \A y \in Dirty : y # b => Unwritten'[y] = Unwritten[y]
  <1>1. /\ cache' \in [Cached -> Buffers]
        /\ cache'[b].dirty /\ cache'[b].data = x /\ cache'[b].valid = cache[b].valid
        /\ cache'[b].refcnt = cache[b].refcnt /\ cache'[b].holder = cache[b].holder
        /\ \A y \in Cached : y # b => cache'[y] = cache[y]
    <2>1. Types /\ b \in Cached
      BY DEF CacheInv, Held
    <2> QED BY <2>1, Bwritten
  <1>2. Cached' = Cached /\ b \in Cached /\ cache[b].holder = p
    BY <1>1, CachedIs DEF Cached, Held
  <1>3. \A q : Held(q)' = Held(q)
    BY <1>1, <1>2 DEF Held
  <1>4. Dirty' = Dirty \cup {b}
    BY <1>1, <1>2 DEF Dirty
  <1>5. \A y \in Dirty : y # b => Unwritten'[y] = Unwritten[y]
    <2>1. \A y \in Dirty : y \in Cached
      BY DEF Dirty
    <2> QED BY <1>1, <1>4, <2>1 DEF Unwritten
  <1>6. Unwritten'[b] = x
    BY <1>1, <1>4 DEF Unwritten
  <1>7. ASSUME NEW q \in Proc, q # p, NEW y \in Held(q)
        PROVE  cache'[y].valid = cache[y].valid /\ (y \in Dirty' <=> y \in Dirty)
    <2>1. y # b /\ y \in Cached
      BY <1>2, <1>7 DEF Held
    <2> QED BY <1>1, <1>4, <2>1
  <1> QED BY <1>2, <1>3, <1>4, <1>5, <1>6, <1>7

\* log_write()
LEMMA LogWriteStep ==
    ASSUME JInv, NEW p \in Proc, LogWrite(p)
    PROVE  /\ JInv' /\ Recovered' = Recovered
           /\ \E b \in Homes, v \in 0 .. MaxCalls : View' = [View EXCEPT ![b] = v]
  <1>1. PICK c \in Proc \cup {NONE} : Control(c)
    BY DEF JInv, Roled
  <1>2. PICK x, r, H, e : x = Arg(p) /\ r = Tail(todo[p]) /\ H = Held(p) /\ e = Role(p, c)
    OBVIOUS
  <1>3. PICK b, v : b = x[1] /\ v = x[2]
    OBVIOUS
  <1>4. /\ At(p, "log_write") /\ "log_write" \notin Waits
        /\ Len(lh) < LOGSIZE - 1 /\ outstanding > 0
        /\ lh' = IF b \in ToSet(lh) THEN lh ELSE Append(lh, b)
        /\ cache' = Bwrite(b, v, cache) /\ Done(p)
        /\ UNCHANGED <<disk, idequeue, committing, up, calls>>
    BY <1>2, <1>3 DEF LogWrite, Waits
  <1>5. /\ Point(todo[p], H, e) /\ Top(todo[p], "log_write", x, r) /\ IsSeq(r)
        /\ Awake(todo[p]) /\ (up \/ p = c)
    BY <1>1, <1>2, <1>4, AtPoint
  <1>6. e = "call" /\ Calling(r, H) /\ b \in Homes /\ v \in 1 .. MaxCalls /\ H = {b}
    BY <1>3, <1>5, LogWritePoint
  <1>7. up /\ c = NONE /\ Running
    <2>1. ~ committing
      BY <1>4 DEF JInv, Inv
    <2> QED BY <1>1, <1>2, <1>5, <1>6, <2>1 DEF Role, Control
  <1>8. v \in Contents /\ b \in Held(p)
    BY <1>2, <1>6, JournalAssumption DEF Contents
  <1>9. todo'[p] = r /\ \A q \in Proc : q # p => todo'[q] = todo[q]
    BY <1>2, <1>4, <1>5, BecomesDone DEF JInv
  <1>10. Point(r, H, e) /\ Point(r, H, e)'
    BY <1>6 DEF Point
  <1>11. Inv'
    BY LogStep DEF JInv
  <1>12. CacheInv'
    <2>1. Awake(r)
      BY <1>10, PointIs
    <2>2. \A y : ~ For(todo'[p], "acquire", y)
      BY <1>9, <2>1, AwakeWaits DEF Waits
    <2> QED BY <1>4, <1>5, <1>8, <1>9, <2>2, BwriteCache DEF JInv
  <1>13. /\ Cached' = Cached /\ \A q : Held(q)' = Held(q)
         /\ \A q \in Proc : q # p =>
              \A y \in Held(q) : cache'[y].valid = cache[y].valid /\ (y \in Dirty' <=> y \in Dirty)
         /\ Dirty' = Dirty \cup {b} /\ Unwritten'[b] = v
         /\ \A y \in Dirty : y # b => Unwritten'[y] = Unwritten[y]
    BY <1>4, <1>8, BwriteKept DEF JInv
  <1>14. LogList(lh) /\ LogList(OnDisk)
    BY DEF JInv, Lists
  <1>15. PICK g : g = lh'
    OBVIOUS
  <1>16. LogList(g) /\ ToSet(g) = ToSet(lh) \cup {b}
    <2>1. CASE b \in ToSet(lh)
      BY <1>4, <1>14, <1>15, <2>1
    <2>2. CASE b \notin ToSet(lh)
      <3>1. g = Append(lh, b) /\ lh \in Seq(Homes) /\ Distinct(lh)
        BY <1>4, <1>14, <1>15, <2>2 DEF LogList
      <3>2. /\ g \in Seq(Homes) /\ Len(g) = Len(lh) + 1 /\ Len(lh) \in Nat
            /\ g[Len(lh) + 1] = b /\ \A i \in 1 .. Len(lh) : g[i] = lh[i]
        BY <1>6, <3>1
      <3>3. \A i \in 1 .. Len(lh) : lh[i] # b
        BY <2>2, <3>1 DEF ToSet
      <3>4. Distinct(g)
        BY <3>1, <3>2, <3>3 DEF Distinct
      <3>5. Len(g) <= LOGSIZE - 1
        BY <1>4, <3>2, JournalAssumption
      <3>6. /\ ToSet(g) = {g[i] : i \in 1 .. Len(lh) + 1}
            /\ ToSet(lh) = {lh[i] : i \in 1 .. Len(lh)}
        BY <3>1, <3>2 DEF ToSet
      <3>7. \A y : y \in ToSet(g) <=> y \in ToSet(lh) \/ y = b
        <4>1. \A i : i \in 1 .. Len(lh) + 1 <=> i \in 1 .. Len(lh) \/ i = Len(lh) + 1
          BY <3>2
        <4> QED BY <3>2, <3>6, <4>1
      <3> QED BY <3>2, <3>4, <3>5, <3>7 DEF LogList
    <2> QED BY <2>1, <2>2
  <1>17. Lists' /\ OnDisk' = OnDisk
    <2>1. OnDisk' = OnDisk
      BY <1>4 DEF OnDisk
    <2> QED BY <1>14, <1>15, <1>16, <2>1 DEF Lists
  <1>18. Running'
    BY <1>4, <1>7, <1>13, <1>15, <1>16, <1>17 DEF Running
  <1>19. JInv'
    <2>1. Stands(r, H, e)'
      BY <1>10 DEF Stands
    <2> QED BY <1>1, <1>2, <1>4, <1>7, <1>9, <1>11, <1>12, <1>13, <1>17, <1>18, <2>1, NoisyStep
  <1>20. Recovered' = Recovered
    BY <1>4 DEF Recovered
  <1>21. View' = [View EXCEPT ![b] = v]
    <2>1. \A y \in Homes : (IF up' /\ y \in Dirty' THEN Unwritten'[y] ELSE Recovered'[y])
                           = IF y = b THEN v
                             ELSE IF up /\ y \in Dirty THEN Unwritten[y] ELSE Recovered[y]
      BY <1>4, <1>7, <1>13, <1>20
    <2> QED BY <1>6, <2>1 DEF View
  <1>22. v \in 0 .. MaxCalls
    BY <1>6
  <1> QED BY <1>6, <1>19, <1>20, <1>21, <1>22

\* The committer has changed a buffer, and has it written.
LEMMA CommitterWrites ==
    ASSUME JInv, Inv', NEW c \in Proc, Control(c), NEW b \in Held(c), NEW x \in Contents,
           cache' = Bwrite(b, x, cache),
           UNCHANGED <<disk, idequeue, lh, up, committing, calls>>,
           \A q \in Proc : q # c => todo'[q] = todo[q], Awake(todo[c]),
           NEW r, IsSeq(r), todo'[c] = Push(<<"iderw", b>>, r), NEW H, H = Held(c),
           NEW e, e = Role(c, c), Pending(b, r, H, e)',
           b \in Homes /\ up => b \in Dirty /\ Unwritten[b] = x
    PROVE  JInv' /\ Recovered' = Recovered /\ View' = View
  <1>1. /\ Cached' = Cached /\ \A q : Held(q)' = Held(q)
        /\ \A q \in Proc : q # c =>
             \A y \in Held(q) : cache'[y].valid = cache[y].valid /\ (y \in Dirty' <=> y \in Dirty)
        /\ Dirty' = Dirty \cup {b} /\ Unwritten'[b] = x
        /\ \A y \in Dirty : y # b => Unwritten'[y] = Unwritten[y]
    BY BwriteKept DEF JInv
  <1>2. PICK s : s = Push(<<"iderw", b>>, r)
    OBVIOUS
  <1>3. For(s, "iderw", b)
    BY <1>2, PushFor
  <1>4. CacheInv'
    <2>1. \A y : ~ For(todo'[c], "acquire", y)
      BY <1>2, <1>3 DEF For
    <2> QED BY <2>1, BwriteCache DEF JInv
  <1>5. Stands(s, H, e)'
    <2>1. b \in H /\ b \in Dirty'
      BY <1>1
    <2> QED BY <1>2, <2>1, WaitStands
  <1>6. Lists'
    BY ListsSame DEF JInv
  <1>7. JInv'
    <2>1. c # NONE
      BY JournalAssumption
    <2> QED BY <1>1, <1>2, <1>4, <1>5, <1>6, <2>1, NoisyStep
  <1>8. Recovered' = Recovered
    BY DEF Recovered
  <1>9. View' = View
    <2>1. \A y \in Homes : (IF up' /\ y \in Dirty' THEN Unwritten'[y] ELSE Recovered'[y])
                           = IF up /\ y \in Dirty THEN Unwritten[y] ELSE Recovered[y]
      BY <1>1, <1>8
    <2> QED BY <2>1 DEF View
  <1> QED BY <1>7, <1>8, <1>9

\* What a process that runs has locked has been read.
LEMMA HeldIsRead ==
    ASSUME CacheInv, NEW p \in Proc, Awake(todo[p]), NEW b \in Held(p)
    PROVE  /\ b \in Cached /\ cache[b].valid /\ cache[b].data \in Contents
           /\ b \notin Dirty => cache[b].data = disk[b]
           /\ b \in Dirty => cache[b].data = Unwritten[b]
  <1>1. \A y : ~ For(todo[p], "iderw", y) /\ ~ For(todo[p], "sleep", y)
    BY AwakeWaits DEF Waits
  <1>2. b \in Cached /\ cache[b].valid
    BY <1>1 DEF CacheInv, Filled, Held
  <1>3. cache[b].data \in Contents
    BY <1>2 DEF CacheInv, Types, Buffers
  <1> QED BY <1>2, <1>3 DEF CacheInv, Coherent, Dirty, Unwritten

LEMMA InList ==
    ASSUME LogList(lh)
    PROVE  /\ \A i \in Entries : lh[i] \in ToSet(lh)
           /\ Later(0) = ToSet(lh) /\ Later(Len(lh)) = {} /\ Len(lh) \in Nat
           /\ \A b \in ToSet(lh) : b \in Homes /\ \E i \in Entries : b = lh[i]
           /\ \A n \in Nat : Later(n) \subseteq ToSet(lh)
           /\ \A n \in Nat : \A i \in n + 1 .. Len(lh) : lh[i] \in Later(n)
           /\ \A i, j \in Entries : lh[i] = lh[j] => i = j
  <1>1. lh \in Seq(Homes) /\ Len(lh) \in Nat /\ ToSet(lh) = {lh[i] : i \in 1 .. Len(lh)}
    BY DEF LogList, ToSet
  <1>2. \A b \in ToSet(lh) : b \in Homes /\ \E i \in Entries : b = lh[i]
    BY <1>1 DEF Entries
  <1>3. Later(Len(lh)) = {}
    BY <1>1 DEF Later
  <1>4. Later(0) = ToSet(lh)
    BY <1>1 DEF Later
  <1>5. \A n \in Nat : Later(n) \subseteq ToSet(lh)
    BY <1>1 DEF Later
  <1> QED BY <1>1, <1>2, <1>3, <1>4, <1>5 DEF Entries, Later, LogList, Distinct

\* write_log() copies a block to the log.
LEMMA CopyToLogStep ==
    ASSUME JInv, NEW p \in Proc, CopyToLog(p)
    PROVE  JInv' /\ Recovered' = Recovered /\ View' = View
  <1>1. PICK c \in Proc \cup {NONE} : Control(c)
    BY DEF JInv, Roled
  <1>2. PICK t, r, H, e : t = Arg(p) /\ r = Tail(todo[p]) /\ H = Held(p) /\ e = Role(p, c)
    OBVIOUS
  <1>3. PICK h, x : h = lh[t] /\ x = cache[h].data
    OBVIOUS
  <1>4. /\ At(p, "to_log") /\ "to_log" \notin Waits
        /\ cache' = Bwrite(t, x, cache) /\ Done(p)
        /\ UNCHANGED <<disk, idequeue, lh, up, committing, calls>>
    BY <1>2, <1>3 DEF CopyToLog, Waits, log
  <1>5. /\ Point(todo[p], H, e) /\ Top(todo[p], "to_log", t, r) /\ IsSeq(r)
        /\ Awake(todo[p]) /\ (up \/ p = c)
    BY <1>1, <1>2, <1>4, AtPoint
  <1>6. /\ e = "committed" /\ up /\ t \in Entries
        /\ r = Copy4(t, t, h, Write(t + 1)) /\ H = {t, h} /\ Logged(t - 1, {})
    BY <1>3, <1>5, ToLogPoint
  <1>7. p = c
    BY <1>2, <1>6 DEF Role
  <1>8. LogList(lh)
    BY DEF JInv, Lists
  <1>9. /\ t \notin Homes /\ h \in Homes /\ t \in 1 .. Len(lh) /\ h \in ToSet(lh)
        /\ \A i \in 1 .. t - 1 : lh[i] # t /\ lh[i] \in ToSet(lh)
    BY <1>3, <1>6, <1>8, EntryIs, InList DEF Entries
  <1>10. PICK q : q = Copy5(t, h, Write(t + 1))
    OBVIOUS
  <1>11. IsSeq(q) /\ r = Push(<<"iderw", t>>, q)
    BY <1>6, <1>10, LogRoundStacks DEF Top, Copy4
  <1>12. h \in Dirty /\ x = Unwritten[h] /\ x \in Contents
    <2>1. h \in Dirty
      BY <1>6, <1>9 DEF Logged
    <2>2. h \in Held(p)
      BY <1>2, <1>6
    <2> QED BY <1>3, <1>5, <2>1, <2>2, HeldIsRead DEF JInv
  <1>13. todo'[p] = r /\ \A y \in Proc : y # p => todo'[y] = todo[y]
    BY <1>2, <1>4, <1>5, BecomesDone DEF JInv
  <1>14. t \in Held(p)
    BY <1>2, <1>6
  <1>15. /\ Dirty' = Dirty \cup {t} /\ Unwritten'[t] = x
         /\ \A y \in Dirty : y # t => Unwritten'[y] = Unwritten[y]
    BY <1>4, <1>12, <1>14, BwriteKept DEF JInv
  <1>16. Logged(t - 1, {t})'
    <2>1. /\ up /\ OnDisk = <<>> /\ lh # <<>> /\ Dirty = ToSet(lh)
          /\ \A i \in 1 .. t - 1 : disk[i] = Unwritten[lh[i]]
      BY <1>6 DEF Logged
    <2>2. \A i \in 1 .. t - 1 : Unwritten'[lh[i]] = Unwritten[lh[i]]
      BY <1>9, <1>15, <2>1
    <2>3. OnDisk' = OnDisk
      BY <1>4 DEF OnDisk
    <2> QED BY <1>4, <1>15, <2>1, <2>2, <2>3 DEF Logged
  <1>17. Pending(t, q, H, e)'
    <2>1. Entries' = Entries /\ lh'[t] = h /\ t # h
      BY <1>3, <1>4, <1>9 DEF Entries
    <2>2. Unwritten'[t] = Unwritten'[h]
      BY <1>12, <1>15, <2>1
    <2>3. Logs(t, q, H)'
      BY <1>6, <1>10, <1>16, <2>1, <2>2 DEF Logs
    <2> QED BY <1>4, <1>6, <2>3 DEF Pending
  <1>18. Inv'
    BY LogStep DEF JInv
  <1> QED BY <1>1, <1>2, <1>4, <1>5, <1>7, <1>9, <1>11, <1>12, <1>13, <1>14, <1>17, <1>18,
             CommitterWrites

\* install_trans() copies a block home.
LEMMA CopyHomeStep ==
    ASSUME JInv, NEW p \in Proc, CopyHome(p)
    PROVE  JInv' /\ Recovered' = Recovered /\ View' = View
  <1>1. PICK c \in Proc \cup {NONE} : Control(c)
    BY DEF JInv, Roled
  <1>2. PICK t, r, H, e : t = Arg(p) /\ r = Tail(todo[p]) /\ H = Held(p) /\ e = Role(p, c)
    OBVIOUS
  <1>3. PICK h, x : h = lh[t] /\ x = cache[t].data
    OBVIOUS
  <1>4. /\ At(p, "to_home") /\ "to_home" \notin Waits
        /\ cache' = Bwrite(h, x, cache) /\ Done(p)
        /\ UNCHANGED <<disk, idequeue, lh, up, committing, calls>>
    BY <1>2, <1>3 DEF CopyHome, Waits, log
  <1>5. /\ Point(todo[p], H, e) /\ Top(todo[p], "to_home", t, r) /\ IsSeq(r)
        /\ Awake(todo[p]) /\ (up \/ p = c)
    BY <1>1, <1>2, <1>4, AtPoint
  <1>6. /\ e \in {"committed", "up"} /\ (up <=> e = "committed") /\ t \in Entries
        /\ r = Copy4(h, t, h, Install(e, t + 1)) /\ H = {t, h} /\ Placed(t - 1, {})
    BY <1>3, <1>5, ToHomePoint
  <1>7. p = c
    BY <1>2, <1>6 DEF Role
  <1>8. LogList(lh)
    BY DEF JInv, Lists
  <1>9. /\ t \notin Homes /\ h \in Homes /\ t \in 1 .. Len(lh) /\ Len(lh) \in Nat
        /\ \A n \in Nat : Later(n) \subseteq ToSet(lh)
        /\ \A y \in ToSet(lh) : y \in Homes
        /\ t - 1 \in Nat /\ t - 1 + 1 = t
    BY <1>3, <1>6, <1>8, EntryIs, InList DEF Entries
  <1>10. PICK q : q = Copy5(t, h, Install(e, t + 1))
    OBVIOUS
  <1>11. IsSeq(q) /\ r = Push(<<"iderw", h>>, q)
    BY <1>6, <1>10, InstallRoundStacks DEF Top, Copy4
  <1>12. PICK m : m = t - 1
    OBVIOUS
  <1>13. /\ m \in Nat /\ Placed(m, {}) /\ \A i \in m + 1 .. Len(lh) : i \in Entries /\ lh[i] \in Later(m)
         /\ t \in m + 1 .. Len(lh)
    BY <1>6, <1>8, <1>9, <1>12, InList DEF Entries
  <1>14. t \notin Dirty
    BY <1>9, <1>13 DEF Placed
  <1>15. x = disk[t] /\ x \in Contents /\ t \in Held(p) /\ h \in Held(p)
    <2>1. t \in Held(p) /\ h \in Held(p)
      BY <1>2, <1>6
    <2> QED BY <1>3, <1>5, <1>14, <2>1, HeldIsRead DEF JInv
  <1>16. todo'[p] = r /\ \A y \in Proc : y # p => todo'[y] = todo[y]
    BY <1>2, <1>4, <1>5, BecomesDone DEF JInv
  <1>17. /\ Dirty' = Dirty \cup {h} /\ Unwritten'[h] = x
         /\ \A y \in Dirty : y # h => Unwritten'[y] = Unwritten[y]
    BY <1>4, <1>15, BwriteKept DEF JInv
  <1>18. Placed(m, {h})'
    <2>1. /\ OnDisk = lh
          /\ \A i \in 1 .. m : disk[lh[i]] = disk[i]
          /\ Dirty = (IF up THEN Later(m) ELSE {}) \cup {}
          /\ up => \A i \in m + 1 .. Len(lh) : Unwritten[lh[i]] = disk[i]
      BY <1>13 DEF Placed
    <2>2. OnDisk' = OnDisk /\ Later(m)' = Later(m)
      BY <1>4 DEF OnDisk, Later
    <2>3. up => \A i \in m + 1 .. Len(lh) : Unwritten'[lh[i]] = disk[i]
      <3>1. SUFFICES ASSUME up, NEW i \in m + 1 .. Len(lh) PROVE Unwritten'[lh[i]] = disk[i]
        OBVIOUS
      <3>2. CASE lh[i] = h
        <4>1. i = t
          BY <1>3, <1>6, <1>8, <1>13, <3>2, InList
        <4> QED BY <1>15, <1>17, <3>2, <4>1
      <3>3. CASE lh[i] # h
        BY <1>13, <1>17, <2>1, <3>1, <3>3
      <3> QED BY <3>2, <3>3
    <2>4. Dirty' = (IF up THEN Later(m) ELSE {}) \cup {h}
      BY <1>17, <2>1
    <2> QED BY <1>4, <2>1, <2>2, <2>3, <2>4 DEF Placed
  <1>19. Pending(h, q, H, e)'
    <2>1. Entries' = Entries /\ lh'[t] = h /\ disk' = disk
      BY <1>3, <1>4 DEF Entries
    <2>2. Unwritten'[h] = disk'[t]
      BY <1>15, <1>17, <2>1
    <2>3. Installs(h, q, H, e)'
      BY <1>6, <1>10, <1>12, <1>18, <2>1, <2>2 DEF Installs
    <2> QED BY <1>4, <1>6, <2>3 DEF Pending
  <1>20. up => h \in Dirty /\ Unwritten[h] = x
    <2>1. up => h \in Dirty
      BY <1>3, <1>13 DEF Placed
    <2>2. up => Unwritten[h] = disk[t]
      BY <1>3, <1>13 DEF Placed
    <2> QED BY <1>15, <2>1, <2>2
  <1>21. Inv'
    BY LogStep DEF JInv
  <1> QED BY <1>1, <1>2, <1>4, <1>5, <1>7, <1>11, <1>15, <1>16, <1>19, <1>20, <1>21,
             CommitterWrites

LEMMA EmptyList == ToSet(<<>>) = {} /\ LogList(<<>>)
  <1>1. <<>> \in Seq(Homes) /\ Len(<<>>) = 0
    OBVIOUS
  <1>2. 0 <= LOGSIZE - 1
    BY JournalAssumption
  <1> QED BY <1>1, <1>2 DEF ToSet, LogList, Distinct

\* write_head(), after write_log() or with an empty list.
LEMMA WriteHeadStep ==
    ASSUME JInv, NEW p \in Proc, WriteHead(p)
    PROVE  JInv' /\ Recovered' = Recovered /\ View' = View
  <1>1. PICK c \in Proc \cup {NONE} : Control(c)
    BY DEF JInv, Roled
  <1>2. PICK x, r, H, e : x = Arg(p) /\ r = Tail(todo[p]) /\ H = Held(p) /\ e = Role(p, c)
    OBVIOUS
  <1>3. /\ At(p, "write_head") /\ "write_head" \notin Waits
        /\ cache' = Bwrite(Header, lh, cache) /\ Do(p, << <<"iderw", Header>> >>)
        /\ UNCHANGED <<disk, idequeue, lh, up, committing, calls>>
    BY DEF WriteHead, Waits, log
  <1>4. /\ Point(todo[p], H, e) /\ Top(todo[p], "write_head", x, r) /\ IsSeq(r)
        /\ Awake(todo[p]) /\ (up \/ p = c)
    BY <1>1, <1>2, <1>3, AtPoint
  <1>5. /\ e \in {"committed", "up"} /\ (up <=> e = "committed") /\ H = {Header}
        /\ \/ e = "committed" /\ r = HeadRel /\ Logged(Len(lh), {})
           \/ r = ClearRel(e) /\ Installed({})
    BY <1>4, WriteHeadPoint
  <1>6. p = c
    BY <1>2, <1>5 DEF Role
  <1>7. /\ LogList(lh) /\ lh \in Contents /\ Header \in Held(p) /\ Header \notin Homes
        /\ \A i \in 1 .. Len(lh) : lh[i] # Header /\ lh[i] \in ToSet(lh)
    <2>1. LogList(lh)
      BY DEF JInv, Lists
    <2> QED BY <1>2, <1>5, <2>1, EntryIs, InList, BlocksAre DEF LogList, Contents, Entries
  <1>8. todo'[p] = Push(<<"iderw", Header>>, r) /\ \A y \in Proc : y # p => todo'[y] = todo[y]
    BY <1>2, <1>3, Becomes DEF JInv, Push
  <1>9. /\ Dirty' = Dirty \cup {Header} /\ Unwritten'[Header] = lh
        /\ \A y \in Dirty : y # Header => Unwritten'[y] = Unwritten[y]
    BY <1>3, <1>7, BwriteKept DEF JInv
  <1>10. OnDisk' = OnDisk
    BY <1>3 DEF OnDisk
  <1>11. Pending(Header, r, H, e)'
    <2>1. CASE e = "committed" /\ r = HeadRel /\ Logged(Len(lh), {})
      <3>1. /\ up /\ OnDisk = <<>> /\ lh # <<>> /\ Dirty = ToSet(lh)
            /\ \A i \in 1 .. Len(lh) : disk[i] = Unwritten[lh[i]]
        BY <2>1 DEF Logged
      <3>2. \A i \in 1 .. Len(lh) : disk[i] = Unwritten'[lh[i]]
        BY <1>7, <1>9, <3>1
      <3>3. PICK n : n = Len(lh)
        OBVIOUS
      <3>4. Logged(n, {Header})'
        BY <1>3, <1>9, <1>10, <3>1, <3>2, <3>3 DEF Logged
      <3>5. n = Len(lh)'
        BY <1>3, <3>3
      <3>6. Logs(Header, r, H)'
        BY <1>3, <1>5, <1>9, <2>1, <3>4, <3>5 DEF Logs
      <3> QED BY <1>3, <1>5, <2>1, <3>6 DEF Pending
    <2>2. CASE r = ClearRel(e) /\ Installed({})
      <3>1. lh = <<>> /\ Dirty = {} /\ AllPlaced
        BY <2>2 DEF Installed
      <3>2. Installed({Header})'
        BY <1>3, <1>9, <1>10, <3>1 DEF Installed, AllPlaced
      <3>3. Installs(Header, r, H, e)'
        BY <1>3, <1>5, <1>9, <2>2, <3>1, <3>2 DEF Installs
      <3> QED BY <1>3, <1>5, <3>3 DEF Pending
    <2> QED BY <1>5, <2>1, <2>2
  <1>12. Inv'
    BY LogStep DEF JInv
  <1> QED BY <1>1, <1>2, <1>3, <1>4, <1>6, <1>7, <1>8, <1>11, <1>12, CommitterWrites

\* The list is emptied, or read, in memory: no buffer changes.
LEMMA CommitterLists ==
    ASSUME JInv, Inv', Lists', NEW c \in Proc, Control(c), Awake(todo[c]),
           UNCHANGED <<disk, cache, idequeue, up, committing, calls>>,
           \A q \in Proc : q # c => todo'[q] = todo[q],
           NEW r, todo'[c] = r, Awake(r), Point(r, Held(c), Role(c, c))'
    PROVE  JInv' /\ Recovered' = Recovered /\ View' = View
  <1>1. Cached' = Cached /\ (\A q : Held(q)' = Held(q)) /\ Dirty' = Dirty
    BY DEF Cached, Held, Dirty
  <1>2. PICK H, e : H = Held(c) /\ e = Role(c, c)
    OBVIOUS
  <1>3. Point(r, H, e)' /\ Role(c, c)' = Role(c, c)
    BY <1>1, <1>2 DEF Role
  <1>4. Stands(r, H, e)'
    BY <1>3 DEF Stands
  <1>5. CacheInv'
    <2>1. up' \in BOOLEAN /\ calls' \in 0 .. MaxCalls
      BY DEF JInv, CacheInv, Types
    <2> QED BY <2>1, CacheSame DEF JInv
  <1>6. JInv'
    <2>1. c # NONE
      BY JournalAssumption
    <2> QED BY <1>1, <1>2, <1>4, <1>5, <2>1, NoisyStep
  <1>7. Recovered' = Recovered
    BY DEF Recovered
  <1>8. Unwritten' = Unwritten
    BY <1>1 DEF Unwritten
  <1> QED BY <1>1, <1>6, <1>7, <1>8 DEF View

\* log.lh.n = 0, when all has been installed.
LEMMA ClearStep ==
    ASSUME JInv, NEW p \in Proc, Clear(p)
    PROVE  JInv' /\ Recovered' = Recovered /\ View' = View
  <1>1. PICK c \in Proc \cup {NONE} : Control(c)
    BY DEF JInv, Roled
  <1>2. PICK x, r, H, e : x = Arg(p) /\ r = Tail(todo[p]) /\ H = Held(p) /\ e = Role(p, c)
    OBVIOUS
  <1>3. /\ At(p, "clear") /\ "clear" \notin Waits /\ lh' = <<>> /\ Done(p)
        /\ UNCHANGED <<disk, cache, idequeue, committing, up, calls>>
    BY DEF Clear, Waits
  <1>4. /\ Point(todo[p], H, e) /\ Top(todo[p], "clear", x, r) /\ IsSeq(r)
        /\ Awake(todo[p]) /\ (up \/ p = c)
    BY <1>1, <1>2, <1>3, AtPoint
  <1>5. /\ e \in {"committed", "up"} /\ (up <=> e = "committed")
        /\ r = ClearRead(e) /\ H = {} /\ Placed(Len(lh), {})
    BY <1>4, ClearPoint
  <1>6. p = c
    BY <1>2, <1>5 DEF Role
  <1>7. todo'[p] = r /\ \A q \in Proc : q # p => todo'[q] = todo[q]
    BY <1>2, <1>3, <1>4, BecomesDone DEF JInv
  <1>8. LogList(lh)
    BY DEF JInv, Lists
  <1>9. Lists' /\ OnDisk' = OnDisk
    <2>1. PICK g : g = lh'
      OBVIOUS
    <2>2. LogList(g)
      BY <1>3, <2>1, EmptyList
    <2>3. OnDisk' = OnDisk
      BY <1>3 DEF OnDisk
    <2> QED BY <2>1, <2>2, <2>3 DEF JInv, Lists
  <1>10. Dirty = {} /\ OnDisk = lh /\ \A i \in 1 .. Len(lh) : disk[lh[i]] = disk[i]
    BY <1>5, <1>8, InList DEF Placed
  <1>11. Installed({})'
    <2>1. Dirty' = Dirty
      BY <1>3 DEF Dirty, Cached
    <2>2. DOMAIN lh = 1 .. Len(lh)
      BY <1>8 DEF LogList
    <2>3. AllPlaced'
      BY <1>3, <1>9, <1>10, <2>2 DEF AllPlaced
    <2> QED BY <1>3, <1>10, <2>1, <2>3 DEF Installed
  <1>12. Point(r, H, e)' /\ Awake(r)
    <2>1. Top(r, "bread", Header, ClearWrite(e))
      BY <1>5, FixedStacks
    <2>2. Installing(r, H, e)'
      BY <1>5, <1>11, <2>1 DEF Installing
    <2>3. Awake(r)
      BY <2>1, TopIsAwake DEF Waits
    <2> QED BY <1>3, <1>5, <2>2, <2>3 DEF Point
  <1>13. Point(r, Held(p), Role(p, c))'
    <2>1. H = Held(p)' /\ e = Role(p, c)'
      BY <1>2, <1>3 DEF Held, Cached, Role
    <2> QED BY <1>12, <2>1
  <1>14. Inv'
    BY LogStep DEF JInv
  <1> QED BY <1>1, <1>3, <1>4, <1>6, <1>7, <1>9, <1>12, <1>13, <1>14, CommitterLists

\* read_head()
LEMMA ReadHeadStep ==
    ASSUME JInv, NEW p \in Proc, ReadHead(p)
    PROVE  JInv' /\ Recovered' = Recovered /\ View' = View
  <1>1. PICK c \in Proc \cup {NONE} : Control(c)
    BY DEF JInv, Roled
  <1>2. PICK x, r, H, e : x = Arg(p) /\ r = Tail(todo[p]) /\ H = Held(p) /\ e = Role(p, c)
    OBVIOUS
  <1>3. /\ At(p, "read_head") /\ "read_head" \notin Waits /\ lh' = cache[Header].data /\ Done(p)
        /\ UNCHANGED <<disk, cache, idequeue, committing, up, calls>>
    BY DEF ReadHead, Waits
  <1>4. /\ Point(todo[p], H, e) /\ Top(todo[p], "read_head", x, r) /\ IsSeq(r)
        /\ Awake(todo[p]) /\ (up \/ p = c)
    BY <1>1, <1>2, <1>3, AtPoint
  <1>5. e = "up" /\ ~ up /\ r = RecoverRel /\ H = {Header} /\ lh = <<>> /\ Dirty = {}
    BY <1>4, ReadHeadPoint
  <1>6. p = c
    BY <1>2, <1>5 DEF Role
  <1>7. todo'[p] = r /\ \A q \in Proc : q # p => todo'[q] = todo[q]
    BY <1>2, <1>3, <1>4, BecomesDone DEF JInv
  <1>8. lh' = OnDisk /\ OnDisk' = OnDisk
    <2>1. Header \in Held(p) /\ Header \notin Dirty
      BY <1>2, <1>5
    <2> QED BY <1>3, <1>4, <2>1, HeldIsRead DEF JInv, OnDisk
  <1>9. Lists'
    <2>1. PICK g : g = OnDisk
      OBVIOUS
    <2>2. LogList(g) /\ g = lh' /\ g = OnDisk'
      BY <1>8, <2>1 DEF JInv, Lists
    <2> QED BY <2>2 DEF Lists
  <1>10. Placed(0, {})'
    <2>1. Dirty' = Dirty
      BY <1>3 DEF Dirty, Cached
    <2> QED BY <1>3, <1>5, <1>8, <2>1 DEF Placed
  <1>11. Point(r, H, e)' /\ Awake(r)
    <2>1. Top(r, "brelse", Header, Install("up", 1))
      BY <1>5, HeadStacks
    <2>2. Recovering(r, H)'
      BY <1>5, <1>10, <2>1 DEF Recovering
    <2>3. Awake(r)
      BY <2>1, TopIsAwake DEF Waits
    <2> QED BY <1>3, <1>5, <2>2, <2>3 DEF Point
  <1>12. Point(r, Held(p), Role(p, c))'
    <2>1. H = Held(p)' /\ e = Role(p, c)'
      BY <1>2, <1>3 DEF Held, Cached, Role
    <2> QED BY <1>11, <2>1
  <1>13. Inv'
    BY LogStep DEF JInv
  <1> QED BY <1>1, <1>3, <1>4, <1>6, <1>7, <1>9, <1>11, <1>12, <1>13, CommitterLists

\* Recovery is over: from now on processes make calls.
LEMMA UpStep ==
    ASSUME JInv, NEW p \in Proc, Up(p)
    PROVE  JInv' /\ Recovered' = Recovered /\ View' = View
  <1>1. PICK c \in Proc \cup {NONE} : Control(c)
    BY DEF JInv, Roled
  <1>2. PICK x, r, H, e : x = Arg(p) /\ r = Tail(todo[p]) /\ H = Held(p) /\ e = Role(p, c)
    OBVIOUS
  <1>3. /\ At(p, "up") /\ "up" \notin Waits /\ up' /\ up' \in BOOLEAN /\ Done(p)
        /\ UNCHANGED <<disk, cache, idequeue, lh, committing, calls>>
    BY DEF Up, Waits, log
  <1>4. /\ Point(todo[p], H, e) /\ Top(todo[p], "up", x, r) /\ IsSeq(r)
        /\ Awake(todo[p]) /\ (up \/ p = c)
    BY <1>1, <1>2, <1>3, AtPoint
  <1>5. e = "up" /\ ~ up /\ r = <<>> /\ H = {} /\ Cleared
    BY <1>4, LastPoint
  <1>6. p = c /\ ~ committing
    BY <1>1, <1>2, <1>5 DEF Role, Control
  <1>7. todo'[p] = <<>> /\ \A q \in Proc : q # p => todo'[q] = <<>> /\ todo[q] = <<>>
    BY <1>1, <1>2, <1>3, <1>4, <1>5, <1>6, BecomesDone DEF JInv, Control
  <1>8. /\ Cached' = Cached /\ (\A q : Held(q)' = Held(q)) /\ Dirty' = Dirty
        /\ OnDisk' = OnDisk
    BY <1>3 DEF Cached, Held, Dirty, OnDisk
  <1>9. \A q \in Proc : Held(q) = {}
    BY <1>1, <1>2, <1>5, <1>7, IdleIs
  <1>10. \A q \in Proc : Role(q, NONE)' = "call"
    BY JournalAssumption DEF Role
  <1>11. Running'
    BY <1>3, <1>5, <1>8, EmptyList DEF Running, Cleared
  <1>12. ASSUME NEW q \in Proc
         PROVE  Stands(todo[q], Held(q), Role(q, NONE))'
    <2>1. PICK s, G, f : s = <<>> /\ G = {} /\ f = "call"
      OBVIOUS
    <2>2. Point(s, G, f)'
      BY <2>1 DEF Point, Calling
    <2>3. Stands(s, G, f)'
      BY <2>2 DEF Stands
    <2>4. s = todo'[q] /\ G = Held(q)' /\ f = Role(q, NONE)'
      BY <1>7, <1>8, <1>9, <1>10, <2>1
    <2> QED BY <2>3, <2>4
  <1>13. Control(NONE)'
    BY <1>3, <1>6, <1>11, <1>12 DEF Control
  <1>14. CacheInv'
    <2>1. \A q \in Proc : todo'[q] = todo[q] \/ (Awake(todo[q]) /\ Awake(todo'[q]))
      BY <1>4, <1>7, NothingIsSeq DEF Awake
    <2>2. calls' \in 0 .. MaxCalls
      BY <1>3 DEF JInv, CacheInv, Types
    <2> QED BY <1>3, <2>1, <2>2, CacheSame DEF JInv
  <1>15. Inv' /\ Lists'
    BY <1>3, LogStep, ListsSame DEF JInv
  <1>16. JInv'
    BY <1>13, <1>14, <1>15 DEF JInv, Roled
  <1>17. Recovered' = Recovered
    BY <1>3 DEF Recovered
  <1>18. Dirty = {}
    BY <1>5 DEF Cleared
  <1> QED BY <1>8, <1>16, <1>17, <1>18 DEF View

\* Before recovery.
Start ==
    /\ todo = Booting /\ cache = <<>> /\ idequeue = <<>> /\ lh = <<>>
    /\ committing = FALSE /\ up = FALSE
    /\ disk \in [Block -> Contents] /\ calls \in 0 .. MaxCalls /\ LogList(OnDisk)

LEMMA StartInv ==
    ASSUME Start, Inv
    PROVE  JInv /\ View = Recovered
  <1>1. Boot \in Proc
    BY JournalAssumption DEF Boot
  <1>2. Cached = {} /\ Dirty = {} /\ \A q : Held(q) = {}
    BY NothingCached DEF Start, Cached, Dirty, Held
  <1>3. CacheInv
    BY InitCache DEF Start
  <1>4. Lists
    BY EmptyList DEF Start, Lists
  <1>5. \A q \in Proc : todo[q] = IF q = Boot THEN initlog ELSE <<>>
    BY DEF Start, Booting
  <1>6. Stands(todo[Boot], Held(Boot), Role(Boot, Boot))
    <2>1. Recovering(initlog, {})
      BY <1>2, InitlogGoes DEF Recovering, Start
    <2>2. Point(initlog, {}, "up")
      BY <2>1 DEF Point, Start
    <2>3. Role(Boot, Boot) = "up"
      BY DEF Role, Start
    <2> QED BY <1>1, <1>2, <1>5, <2>2, <2>3 DEF Stands
  <1>7. \A q \in Proc : q # Boot => Stands(todo[q], Held(q), Role(q, Boot))
    BY <1>2, <1>5, CallGoes DEF Stands, Role
  <1>8. Control(Boot)
    BY <1>1, <1>5, <1>6, <1>7, JournalAssumption DEF Control, Start
  <1>9. JInv
    BY <1>1, <1>3, <1>4, <1>8 DEF JInv, Roled
  <1>10. View = Recovered
    BY DEF View, Start, Recovered
  <1> QED BY <1>9, <1>10

-----------------------------------------------------------------------------
(* The disk has written a dirty buffer *)

Flush(b) ==
    /\ b \in Dirty /\ b \in Block /\ disk = [y \in Block |-> disk[y]]
    /\ disk' = [disk EXCEPT ![b] = Unwritten[b]]
    /\ Dirty' = Dirty \ {b} /\ \A y \in Dirty : y # b => Unwritten'[y] = Unwritten[y]
    /\ UNCHANGED <<lh, up>>

RecoveredRight ==
    \A b \in Homes :
        /\ b \notin ToSet(OnDisk) => Recovered[b] = disk[b]
        /\ \A i \in 1 .. Len(OnDisk) : OnDisk[i] = b => Recovered[b] = disk[i]

LEMMA RecoveredIsRight == (Lists => RecoveredRight) /\ (Lists' => RecoveredRight')
  <1>1. Lists => RecoveredRight
    BY RecoveredIs DEF Lists, RecoveredRight
  <1> QED BY <1>1, PTL

Tables ==
    /\ Recovered = [b \in Homes |-> Recovered[b]]
    /\ View = [b \in Homes |-> View[b]]
    /\ \A b \in Homes : View[b] = IF up /\ b \in Dirty THEN Unwritten[b] ELSE Recovered[b]

LEMMA TheTables == Tables /\ Tables'
  <1>1. Tables
    <2>1. Recovered = [b \in Homes |-> Recovered[b]]
      BY DEF Recovered
    <2>2. View = [b \in Homes |-> View[b]]
      BY DEF View
    <2>3. \A b \in Homes : View[b] = IF up /\ b \in Dirty THEN Unwritten[b] ELSE Recovered[b]
      BY DEF View
    <2> QED BY <2>1, <2>2, <2>3 DEF Tables
  <1> QED BY <1>1, PTL

LEMMA FlushIs ==
    ASSUME NEW b, Flush(b)
    PROVE  disk'[b] = Unwritten[b] /\ \A y \in Block : y # b => disk'[y] = disk[y]
  <1>1. b \in Block /\ disk = [y \in Block |-> disk[y]] /\ disk' = [disk EXCEPT ![b] = Unwritten[b]]
    BY DEF Flush
  <1> QED BY <1>1

\* A block has been copied to the log.
LEMMA FlushLog ==
    ASSUME Lists, NEW t \in Entries, NEW H, H = {t, lh[t]}, NEW r,
           r = Copy5(t, lh[t], Write(t + 1)), Logged(t - 1, {t}),
           Unwritten[t] = Unwritten[lh[t]], up, Flush(t)
    PROVE  Point(r, H, "committed")' /\ Lists' /\ Recovered' = Recovered /\ View' = View
  <1>1. PICK h : h = lh[t]
    OBVIOUS
  <1>2. LogList(lh) /\ LogList(OnDisk)
    BY DEF Lists
  <1>3. /\ t \in 1 .. Len(lh) /\ Len(lh) \in Nat /\ t \in 1 .. LOGSIZE - 1
        /\ t \in Block /\ t \notin Homes /\ t # Header /\ h \in Homes
        /\ \A i \in 1 .. t : i \in Entries /\ i \in Block
        /\ \A i \in Entries : lh[i] \in ToSet(lh) /\ lh[i] \in Homes
        /\ \A y \in ToSet(lh) : y \in Homes
        /\ \A y \in Homes : y \in Block
    <2>1. \A i \in 1 .. t : i \in Entries
      BY <1>2, EntryIs DEF Entries
    <2> QED BY <1>1, <1>2, <2>1, EntryIs, InList, BlocksAre DEF Entries
  <1>4. /\ OnDisk = <<>> /\ lh # <<>> /\ Dirty = ToSet(lh) \cup {t}
        /\ \A i \in 1 .. t - 1 : disk[i] = Unwritten[lh[i]]
    BY DEF Logged
  <1>5. disk'[t] = Unwritten[t] /\ \A y \in Block : y # t => disk'[y] = disk[y]
    BY FlushIs
  <1>6. /\ OnDisk' = <<>> /\ Dirty' = ToSet(lh) /\ lh' = lh /\ up'
        /\ \A y \in ToSet(lh) : Unwritten'[y] = Unwritten[y]
    BY <1>3, <1>4, <1>5, BlocksAre DEF Flush, OnDisk
  <1>7. Lists'
    <2>1. PICK f, g : f = lh /\ g = OnDisk
      OBVIOUS
    <2>2. LogList(f) /\ LogList(g) /\ f = lh' /\ g = OnDisk'
      BY <1>2, <1>4, <1>6, <2>1
    <2> QED BY <2>2 DEF Lists
  <1>8. Logged(t, {})'
    <2>1. ASSUME NEW i \in 1 .. t
          PROVE  disk'[i] = Unwritten'[lh[i]]
      <3>1. Unwritten'[lh[i]] = Unwritten[lh[i]] /\ i \in Block
        BY <1>3, <1>6
      <3>2. CASE i = t
        BY <1>5, <3>1, <3>2
      <3>3. CASE i # t
        <4>1. i \in 1 .. t - 1
          BY <1>3, <3>3
        <4> QED BY <1>4, <1>5, <3>1, <3>3, <4>1
      <3> QED BY <3>2, <3>3
    <2> QED BY <1>4, <1>6, <2>1 DEF Logged
  <1>9. Point(r, H, "committed")'
    <2>1. Top(r, "brelse", t, Copy6(h, Write(t + 1)))
      BY <1>1, LogRoundStacks
    <2>2. t \in Entries' /\ h = lh'[t]
      BY <1>1, <1>6 DEF Entries
    <2>3. LogRound(r, H, t)'
      BY <1>1, <1>8, <2>1, <2>2 DEF LogRound
    <2>4. Logging(r, H)'
      BY <2>2, <2>3 DEF Logging
    <2> QED BY <1>6, <2>4 DEF Point
  <1>10. \A y \in Homes : Recovered'[y] = Recovered[y]
    <2>1. \A y \in Homes : Recovered[y] = disk[y] /\ Recovered'[y] = disk'[y]
      BY <1>4, <1>6, <1>7, EmptyList, RecoveredIsRight DEF RecoveredRight
    <2> QED BY <1>3, <1>5, <2>1
  <1>11. \A y \in Homes : View'[y] = View[y]
    <2>1. \A y \in Homes : y \in Dirty' <=> y \in Dirty
      BY <1>3, <1>4, <1>6
    <2> QED BY <1>6, <1>10, <2>1, TheTables DEF Tables
  <1> QED BY <1>6, <1>7, <1>9, <1>10, <1>11, TheTables DEF Tables

\* The header has, with the list: the commit.
LEMMA FlushHead ==
    ASSUME Lists, NEW H, H = {Header}, NEW r, r = HeadRel, Logged(Len(lh), {Header}),
           Unwritten[Header] = lh, up, Flush(Header)
    PROVE  Point(r, H, "committed")' /\ Lists' /\ Recovered' = View /\ View' = View
  <1>1. LogList(lh)
    BY DEF Lists
  <1>2. /\ Len(lh) \in Nat /\ Later(0) = ToSet(lh)
        /\ \A i \in 1 .. Len(lh) : lh[i] \in ToSet(lh) /\ lh[i] \in Homes /\ i \in Block /\ i # Header
        /\ \A y \in ToSet(lh) : y \in Homes /\ \E i \in 1 .. Len(lh) : y = lh[i]
        /\ \A y \in Homes : y \in Block /\ y # Header
        /\ Header \in Block
    BY <1>1, EntryIs, InList, BlocksAre DEF Entries
  <1>3. /\ OnDisk = <<>> /\ Dirty = ToSet(lh) \cup {Header}
        /\ \A i \in 1 .. Len(lh) : disk[i] = Unwritten[lh[i]]
    BY DEF Logged
  <1>4. disk'[Header] = lh /\ \A y \in Block : y # Header => disk'[y] = disk[y]
    BY FlushIs
  <1>5. /\ OnDisk' = lh /\ Dirty' = ToSet(lh) /\ lh' = lh /\ up'
        /\ \A y \in ToSet(lh) : Unwritten'[y] = Unwritten[y]
    BY <1>2, <1>3, <1>4 DEF Flush, OnDisk
  <1>6. Lists'
    <2>1. PICK g : g = lh
      OBVIOUS
    <2>2. LogList(g) /\ g = lh' /\ g = OnDisk'
      BY <1>1, <1>5, <2>1
    <2> QED BY <2>2 DEF Lists
  <1>7. Placed(0, {})'
    <2>1. Later(0)' = ToSet(lh)
      BY <1>2, <1>5 DEF Later
    <2>2. \A i \in 0 + 1 .. Len(lh) : Unwritten'[lh[i]] = disk'[i]
      BY <1>2, <1>3, <1>4, <1>5
    <2> QED BY <1>5, <2>1, <2>2 DEF Placed
  <1>8. Point(r, H, "committed")'
    <2>1. Top(r, "brelse", Header, Install("committed", 1))
      BY HeadStacks
    <2>2. Logging(r, H)'
      BY <1>7, <2>1 DEF Logging
    <2> QED BY <1>5, <2>2 DEF Point
  <1>9. ASSUME NEW y \in Homes
        PROVE  Recovered'[y] = View[y] /\ View'[y] = View[y]
    <2>1. Recovered[y] = disk[y]
      BY <1>3, EmptyList, RecoveredIsRight DEF RecoveredRight
    <2>2. CASE y \in ToSet(lh)
      <3>1. PICK i \in 1 .. Len(lh) : y = lh[i]
        BY <1>2, <2>2
      <3>2. Recovered'[y] = disk'[i]
        BY <1>5, <1>6, <3>1, RecoveredIsRight DEF RecoveredRight
      <3>3. disk'[i] = Unwritten[y]
        BY <1>2, <1>3, <1>4, <3>1
      <3>4. View[y] = Unwritten[y] /\ View'[y] = Unwritten'[y]
        BY <1>3, <1>5, <2>2, TheTables DEF Tables
      <3> QED BY <1>5, <2>2, <3>2, <3>3, <3>4
    <2>3. CASE y \notin ToSet(lh)
      <3>1. Recovered'[y] = disk'[y] /\ disk'[y] = disk[y]
        BY <1>2, <1>4, <1>5, <1>6, <2>3, RecoveredIsRight DEF RecoveredRight
      <3>2. View[y] = Recovered[y] /\ View'[y] = Recovered'[y]
        BY <1>2, <1>3, <1>5, <2>3, TheTables DEF Tables
      <3> QED BY <2>1, <3>1, <3>2
    <2> QED BY <2>2, <2>3
  <1> QED BY <1>6, <1>8, <1>9, TheTables DEF Tables

\* A block has been copied home.
LEMMA FlushHome ==
    ASSUME Lists, NEW t \in Entries, NEW H, H = {t, lh[t]}, NEW e \in {"committed", "up"},
           up <=> e = "committed", NEW r, r = Copy5(t, lh[t], Install(e, t + 1)),
           Placed(t - 1, {lh[t]}), Unwritten[lh[t]] = disk[t], Flush(lh[t])
    PROVE  Point(r, H, e)' /\ Lists' /\ Recovered' = Recovered /\ View' = View
  <1>1. PICK h, m : h = lh[t] /\ m = t - 1
    OBVIOUS
  <1>2. LogList(lh) /\ LogList(OnDisk)
    BY DEF Lists
  <1>3. /\ t \in 1 .. Len(lh) /\ Len(lh) \in Nat
        /\ h \in Block /\ h \in Homes /\ h # Header /\ Header \in Block
        /\ m \in Nat /\ m + 1 = t
        /\ \A i \in Entries : lh[i] \in ToSet(lh) /\ lh[i] \in Homes /\ lh[i] \in Block
        /\ \A i \in Entries : i \in Block /\ i \notin Homes /\ i # h
        /\ \A i \in Entries : lh[i] = h => i = t
        /\ \A y \in ToSet(lh) : y \in Homes /\ \E i \in Entries : y = lh[i]
        /\ \A y \in Homes : y \in Block
    <2>1. t \in 1 .. Len(lh) /\ Len(lh) \in Nat /\ m \in Nat /\ m + 1 = t
      BY <1>1, <1>2, EntryIs DEF Entries
    <2>2. h \in Block /\ h \in Homes /\ h # Header /\ Header \in Block
      BY <1>1, <1>2, EntryIs, BlocksAre
    <2>3. \A i \in Entries : lh[i] \in ToSet(lh) /\ lh[i] \in Homes /\ lh[i] \in Block
                             /\ i \in Block /\ i \notin Homes /\ i # h
      BY <1>2, <2>2, EntryIs, InList
    <2>4. \A i \in Entries : lh[i] = h => i = t
      BY <1>1, <1>2, InList
    <2> QED BY <1>2, <2>1, <2>2, <2>3, <2>4, InList, BlocksAre
  <1>4. /\ OnDisk = lh
        /\ \A i \in 1 .. m : disk[lh[i]] = disk[i]
        /\ Dirty = (IF up THEN Later(m) ELSE {}) \cup {h}
        /\ up => \A i \in m + 1 .. Len(lh) : Unwritten[lh[i]] = disk[i]
    BY <1>1 DEF Placed
  <1>5. disk'[h] = disk[t] /\ \A y \in Block : y # h => disk'[y] = disk[y]
    BY <1>1, FlushIs
  <1>6. \A i \in Entries : disk'[i] = disk[i]
    BY <1>3, <1>5
  <1>7. Later(m) = Later(t) \cup {h} /\ h \notin Later(t)
    <2>1. \A i : i \in m + 1 .. Len(lh) <=> i = t \/ i \in t + 1 .. Len(lh)
      BY <1>3
    <2>2. h \notin Later(t)
      <3>1. \A i \in t + 1 .. Len(lh) : i \in Entries /\ i # t
        BY <1>3 DEF Entries
      <3> QED BY <1>3, <3>1 DEF Later
    <2> QED BY <1>1, <2>1, <2>2 DEF Later
  <1>8. /\ OnDisk' = lh /\ lh' = lh /\ up' = up
        /\ Dirty' = IF up THEN Later(t) ELSE {}
        /\ \A y \in Dirty : y # h => Unwritten'[y] = Unwritten[y]
    BY <1>1, <1>3, <1>4, <1>5, <1>7 DEF Flush, OnDisk
  <1>9. Lists'
    <2>1. PICK g : g = lh
      OBVIOUS
    <2>2. LogList(g) /\ g = lh' /\ g = OnDisk'
      BY <1>2, <1>8, <2>1
    <2> QED BY <2>2 DEF Lists
  <1>10. Placed(t, {})'
    <2>1. ASSUME NEW i \in 1 .. t
          PROVE  disk'[lh[i]] = disk'[i]
      <3>1. i \in Entries
        BY <1>3 DEF Entries
      <3>2. CASE i = t
        BY <1>1, <1>5, <1>6, <3>1, <3>2
      <3>3. CASE i # t
        <4>1. i \in 1 .. m /\ lh[i] # h
          BY <1>3, <3>1, <3>3
        <4> QED BY <1>3, <1>4, <1>5, <1>6, <3>1, <4>1
      <3> QED BY <3>2, <3>3
    <2>2. up => \A i \in t + 1 .. Len(lh) : Unwritten'[lh[i]] = disk'[i]
      <3>1. SUFFICES ASSUME up, NEW i \in t + 1 .. Len(lh)
                     PROVE  Unwritten'[lh[i]] = disk'[i]
        OBVIOUS
      <3>2. i \in Entries /\ i \in m + 1 .. Len(lh) /\ lh[i] \in Later(t)
        BY <1>3 DEF Entries, Later
      <3>3. lh[i] \in Dirty /\ lh[i] # h
        BY <1>4, <1>7, <3>1, <3>2
      <3> QED BY <1>4, <1>6, <1>8, <3>1, <3>2, <3>3
    <2>3. Later(t)' = Later(t)
      BY <1>8 DEF Later
    <2> QED BY <1>8, <2>1, <2>2, <2>3 DEF Placed
  <1>11. Point(r, H, e)'
    <2>1. Top(r, "brelse", t, Copy6(h, Install(e, t + 1)))
      BY <1>1, InstallRoundStacks
    <2>2. t \in Entries' /\ h = lh'[t]
      BY <1>1, <1>8 DEF Entries
    <2>3. InstallRound(r, H, e, t)'
      BY <1>1, <1>10, <2>1, <2>2 DEF InstallRound
    <2>4. Installing(r, H, e)'
      BY <2>2, <2>3 DEF Installing
    <2> QED BY <1>8, <2>4 DEF Point
  <1>12. \A i \in Entries : Recovered[lh[i]] = disk[i] /\ Recovered'[lh[i]] = disk'[i]
    <2>1. \A i \in Entries : i \in 1 .. Len(OnDisk) /\ i \in 1 .. Len(OnDisk')
                             /\ OnDisk[i] = lh[i] /\ OnDisk'[i] = lh[i]
      BY <1>4, <1>8 DEF Entries
    <2> QED BY <1>3, <1>9, <2>1, RecoveredIsRight DEF RecoveredRight
  <1>13. ASSUME NEW y \in Homes
         PROVE  Recovered'[y] = Recovered[y]
    <2>1. CASE y \in ToSet(lh)
      BY <1>3, <1>6, <1>12, <2>1
    <2>2. CASE y \notin ToSet(lh)
      <3>1. Recovered[y] = disk[y] /\ Recovered'[y] = disk'[y]
        BY <1>4, <1>8, <1>9, <2>2, RecoveredIsRight DEF RecoveredRight
      <3>2. y # h
        BY <1>1, <1>3, <2>2
      <3> QED BY <1>3, <1>5, <3>1, <3>2
    <2> QED BY <2>1, <2>2
  <1>14. ASSUME NEW y \in Homes
         PROVE  View'[y] = View[y]
    <2>1. CASE y = h
      <3>1. Recovered[y] = disk[t]
        BY <1>1, <1>12, <2>1
      <3>2. View[y] = disk[t]
        BY <1>1, <3>1, <2>1, TheTables DEF Tables
      <3>3. View'[y] = Recovered'[y]
        BY <1>7, <1>8, <2>1, TheTables DEF Tables
      <3> QED BY <1>13, <3>1, <3>2, <3>3
    <2>2. CASE y # h
      <3>1. up => (y \in Dirty' <=> y \in Dirty)
        BY <1>4, <1>7, <1>8, <2>2
      <3> QED BY <1>8, <1>13, <2>2, <3>1, TheTables DEF Tables
    <2> QED BY <2>1, <2>2
  <1> QED BY <1>9, <1>11, <1>13, <1>14, TheTables DEF Tables

\* The header has, empty.
LEMMA FlushClear ==
    ASSUME Lists, NEW H, H = {Header}, NEW e \in {"committed", "up"}, up <=> e = "committed",
           NEW r, r = ClearRel(e), Installed({Header}), Unwritten[Header] = <<>>, Flush(Header)
    PROVE  Point(r, H, e)' /\ Lists' /\ Recovered' = Recovered /\ View' = View
  <1>1. LogList(OnDisk) /\ lh = <<>> /\ Dirty = {Header} /\ AllPlaced
    BY DEF Lists, Installed
  <1>2. disk'[Header] = <<>> /\ \A y \in Block : y # Header => disk'[y] = disk[y]
    BY FlushIs
  <1>3. OnDisk' = <<>> /\ Dirty' = {} /\ lh' = <<>> /\ up' = up
    BY <1>1, <1>2 DEF Flush, OnDisk
  <1>4. Lists'
    <2>1. PICK g : g = <<>>
      OBVIOUS
    <2>2. LogList(g) /\ g = lh' /\ g = OnDisk'
      BY <1>3, <2>1, EmptyList
    <2> QED BY <2>2 DEF Lists
  <1>5. Cleared'
    BY <1>3 DEF Cleared
  <1>6. Point(r, H, e)'
    <2>1. Top(r, "brelse", Header, End(e))
      BY FixedStacks
    <2>2. Installing(r, H, e)'
      BY <1>5, <2>1 DEF Installing
    <2> QED BY <1>3, <2>2 DEF Point
  <1>7. ASSUME NEW y \in Homes
        PROVE  Recovered'[y] = Recovered[y]
    <2>1. Recovered'[y] = disk'[y]
      BY <1>3, <1>4, EmptyList, RecoveredIsRight DEF RecoveredRight
    <2>2. disk'[y] = disk[y]
      BY <1>2, BlocksAre
    <2>3. Recovered[y] = disk[y]
      <3>1. CASE y \in ToSet(OnDisk)
        <4>1. PICK i \in 1 .. Len(OnDisk) : OnDisk[i] = y
          BY <1>1, <3>1 DEF LogList, ToSet
        <4>2. disk[OnDisk[i]] = disk[i]
          BY <1>1 DEF AllPlaced, LogList
        <4>3. Recovered[y] = disk[i]
          BY <4>1, RecoveredIsRight DEF RecoveredRight
        <4> QED BY <4>1, <4>2, <4>3
      <3>2. CASE y \notin ToSet(OnDisk)
        BY <3>2, RecoveredIsRight DEF RecoveredRight
      <3> QED BY <3>1, <3>2
    <2> QED BY <2>1, <2>2, <2>3
  <1>8. \A y \in Homes : y \notin Dirty /\ y \notin Dirty'
    BY <1>1, <1>3, BlocksAre
  <1> QED BY <1>4, <1>6, <1>7, <1>8, TheTables DEF Tables

\* What the disk has written brings the committer on.
LEMMA FlushPoint ==
    ASSUME Lists, NEW b, NEW r, NEW H, NEW e, Pending(b, r, H, e), Flush(b)
    PROVE  /\ Point(r, H, e)' /\ Lists' /\ View' = View
           /\ Recovered' = Recovered \/ (Recovered' = View /\ up /\ e = "committed")
  <1>1. /\ e \in {"committed", "up"} /\ (up <=> e = "committed")
        /\ (Logs(b, r, H) /\ e = "committed") \/ Installs(b, r, H, e)
    BY DEF Pending
  <1>2. CASE Logs(b, r, H) /\ e = "committed"
    <2>1. CASE \E t \in Entries :
                 /\ b = t /\ r = Copy5(t, lh[t], Write(t + 1)) /\ H = {t, lh[t]}
                 /\ Logged(t - 1, {t}) /\ Unwritten[t] = Unwritten[lh[t]]
      BY <1>1, <1>2, <2>1, FlushLog
    <2>2. CASE /\ b = Header /\ r = HeadRel /\ H = {Header}
               /\ Logged(Len(lh), {Header}) /\ Unwritten[Header] = lh
      BY <1>1, <1>2, <2>2, FlushHead
    <2> QED BY <1>2, <2>1, <2>2 DEF Logs
  <1>3. CASE Installs(b, r, H, e)
    <2>1. CASE \E t \in Entries :
                 /\ b = lh[t] /\ r = Copy5(t, lh[t], Install(e, t + 1)) /\ H = {t, lh[t]}
                 /\ Placed(t - 1, {lh[t]}) /\ Unwritten[lh[t]] = disk[t]
      BY <1>1, <2>1, FlushHome
    <2>2. CASE /\ b = Header /\ r = ClearRel(e) /\ H = {Header}
               /\ Installed({Header}) /\ Unwritten[Header] = <<>>
      BY <1>1, <2>2, FlushClear
    <2> QED BY <1>3, <2>1, <2>2 DEF Installs
  <1> QED BY <1>1, <1>2, <1>3

LEMMA IdeintrInv ==
    ASSUME Inv, Ideintr
    PROVE  Inv'
  BY DEF Ideintr, log, Inv, Stacks, Active

\* The disk interrupt.
LEMMA IdeintrStep ==
    ASSUME JInv, Ideintr
    PROVE  /\ JInv'
           /\ Data' = Data \/ (/\ View' = View
                               /\ Recovered' = Recovered \/ (Recovered' = View /\ committing))
  <1>1. PICK c \in Proc \cup {NONE} : Control(c)
    BY DEF JInv, Roled
  <1>2. PICK b : b = Head(idequeue)
    OBVIOUS
  <1>3. /\ CacheInv' /\ Cached' = Cached /\ b \in Cached
        /\ \A q : Held(q)' = Held(q)
        /\ ~ cache'[b].dirty /\ cache'[b].valid
        /\ \A y \in Cached : y # b => cache'[y] = cache[y]
        /\ \E p \in Proc : For(todo[p], "sleep", b) /\ b \in Held(p)
        /\ cache[b].dirty => /\ disk' = [disk EXCEPT ![b] = cache[b].data]
                             /\ cache'[b].data = cache[b].data
        /\ ~ cache[b].dirty => /\ disk' = disk /\ cache'[b].data = disk[b]
                               /\ ~ cache[b].valid
    BY <1>2, IdeintrCache DEF JInv
  <1>4. UNCHANGED <<lh, committing, todo, up, calls>> /\ Inv'
    BY IdeintrInv DEF Ideintr, log, JInv
  <1>5. PICK p \in Proc : For(todo[p], "sleep", b) /\ b \in Held(p)
    BY <1>3
  <1>6. At(p, "sleep") /\ Arg(p) = b /\ "sleep" \in Waits
    BY <1>5 DEF For, At, Arg, Waits
  <1>7. PICK s, r, H, e : s = todo[p] /\ r = Tail(s) /\ H = Held(p) /\ e = Role(p, c)
    OBVIOUS
  <1>8. /\ IsSeq(r) /\ (up \/ p = c) /\ b \in H
        /\ \/ b \notin Dirty /\ Point(r, H, e)
           \/ b \in Dirty /\ Pending(b, r, H, e)
    BY <1>1, <1>6, <1>7, AtWait
  <1>9. /\ IsSeq(s) /\ s # <<>> /\ Head(s)[1] = "sleep" /\ Head(s)[2] = b
        /\ r = Tail(s)
    BY <1>5, <1>7 DEF For, JInv, Inv, Stacks, Shaped
  <1>10. \A q \in Proc : q # p => \A y \in Held(q) : y \in Cached /\ y # b
    BY <1>5 DEF Held
  <1>11. CASE b \notin Dirty
    <2>1. Point(r, H, e) /\ ~ cache[b].dirty
      BY <1>3, <1>8, <1>11 DEF Dirty
    <2>2. Data' = Data
      <3>1. \A y \in Cached : cache'[y].dirty <=> cache[y].dirty
        BY <1>3, <2>1
      <3>2. \A y \in Cached : cache[y].dirty => cache'[y].data = cache[y].data
        BY <1>3, <2>1
      <3> QED BY <1>3, <1>4, <2>1, <3>1, <3>2, DataKept
    <2>3. Point(r, H, e)' /\ b \notin Dirty'
      BY <1>3, <2>1, <2>2, PointSame DEF Dirty
    <2>4. Stands(s, H, e)'
      BY <1>8, <1>9, <2>3 DEF Stands
    <2>5. \A q \in Proc : q # p => \A y \in Held(q) : cache'[y].valid = cache[y].valid
      BY <1>3, <1>10
    <2> QED BY <1>1, <1>3, <1>4, <1>7, <1>8, <2>2, <2>4, <2>5, QuietStep
  <1>12. CASE b \in Dirty
    <2>1. Pending(b, r, H, e)
      BY <1>8, <1>12
    <2>2. p = c
      BY <1>7, <2>1 DEF Pending, Role
    <2>3. Flush(b)
      <3>1. /\ cache[b].dirty /\ Unwritten[b] = cache[b].data
        BY <1>12 DEF Dirty, Unwritten
      <3>2. disk' = [disk EXCEPT ![b] = Unwritten[b]]
        BY <1>3, <3>1
      <3>3. b \in Block /\ disk = [y \in Block |-> disk[y]]
        BY <1>3 DEF JInv, CacheInv, Types
      <3>4. Dirty' = Dirty \ {b}
        BY <1>3 DEF Dirty
      <3>5. \A y \in Dirty : y # b => Unwritten'[y] = Unwritten[y]
        <4>1. \A y \in Dirty : y # b => y \in Dirty' /\ cache'[y] = cache[y]
          BY <1>3, <3>4 DEF Dirty
        <4> QED BY <4>1 DEF Unwritten
      <3> QED BY <1>4, <1>12, <3>2, <3>3, <3>4, <3>5 DEF Flush
    <2>4. /\ Point(r, H, e)' /\ Lists' /\ View' = View
          /\ Recovered' = Recovered \/ (Recovered' = View /\ up /\ e = "committed")
      BY <2>1, <2>3, FlushPoint DEF JInv
    <2>5. b \notin Dirty'
      BY <2>3 DEF Flush
    <2>6. Stands(s, H, e)'
      BY <1>8, <1>9, <2>4, <2>5 DEF Stands
    <2>7. \A q \in Proc : q # p =>
            \A y \in Held(q) : cache'[y].valid = cache[y].valid /\ (y \in Dirty' <=> y \in Dirty)
      BY <1>3, <1>10, <2>3 DEF Flush
    <2>8. JInv'
      <3>1. c # NONE
        BY <2>2, JournalAssumption
      <3> QED BY <1>1, <1>3, <1>4, <1>7, <2>2, <2>4, <2>6, <2>7, <3>1, NoisyStep
    <2>9. up => committing
      BY <1>1, <2>2, JournalAssumption DEF Control
    <2> QED BY <2>4, <2>8, <2>9
  <1> QED BY <1>11, <1>12

\* A crash.
LEMMA StartAgain == Start' /\ Inv' => JInv' /\ View' = Recovered'
  <1> DEFINE A == Start /\ Inv
             B == JInv /\ View = Recovered
  <1>1. A => B
    BY StartInv
  <1> HIDE DEF A, B
  <1>2. A' => B'
    BY <1>1, PTL
  <1> QED BY <1>2 DEF A, B

LEMMA CrashJInv ==
    ASSUME JInv, Crash
    PROVE  JInv' /\ Recovered' = Recovered /\ View' = Recovered
  <1>1. Inv'
    BY CrashStep DEF JInv
  <1>2. Start'
    <2>1. disk' \in [Block -> Contents] /\ calls' \in 0 .. MaxCalls
      BY DEF JInv, CacheInv, Types, Crash
    <2>2. LogList(OnDisk)'
      <3>1. PICK g : g = OnDisk
        OBVIOUS
      <3>2. LogList(g) /\ g = OnDisk'
        BY <3>1 DEF JInv, Lists, OnDisk, Crash
      <3> QED BY <3>2
    <2> QED BY <2>1, <2>2 DEF Start, Crash
  <1>3. Recovered' = Recovered
    BY DEF Recovered, Crash
  <1> QED BY <1>1, <1>2, <1>3, StartAgain

LEMMA InitStart ==
    ASSUME Init
    PROVE  Start /\ Recovered = [b \in Homes |-> 0]
  <1>1. disk \in [Block -> Contents] /\ OnDisk = <<>>
    <2>1. <<>> \in Contents /\ 0 \in Contents
      BY DEF Contents
    <2> QED BY <2>1, BlocksAre DEF Init, OnDisk
  <1>2. LogList(OnDisk)
    BY <1>1, EmptyList
  <1>3. calls \in 0 .. MaxCalls
    BY JournalAssumption DEF Init
  <1>4. \A b \in Homes : Recovered[b] = 0
    <2>1. \A b \in Homes : Recovered[b] = disk[b]
      BY <1>1, <1>2, EmptyList, RecoveredIs
    <2> QED BY <2>1, BlocksAre DEF Init
  <1> QED BY <1>1, <1>2, <1>3, <1>4, TheTables DEF Tables, Init, Start

-----------------------------------------------------------------------------
(* What a read returns *)

\* A block that is not dirty can be read at home: it has been copied there if
\* the log on the disk holds it.
Readable ==
    up => \A i \in 1 .. Len(OnDisk) : disk[OnDisk[i]] = disk[i] \/ OnDisk[i] \in Dirty

LEMMA PlacesReadable ==
    ASSUME Lists, up
    PROVE  /\ OnDisk = <<>> => Readable
           /\ AllPlaced => Readable
           /\ \A n \in Nat : \A S : Placed(n, S) => Readable
  <1>1. Len(OnDisk) \in Nat /\ DOMAIN OnDisk = 1 .. Len(OnDisk)
    BY DEF Lists, LogList
  <1>2. OnDisk = <<>> => Readable
    BY DEF Readable
  <1>3. AllPlaced => Readable
    BY <1>1 DEF AllPlaced, Readable
  <1>4. ASSUME NEW n \in Nat, NEW S, Placed(n, S)
        PROVE  Readable
    <2>1. ASSUME NEW i \in 1 .. Len(OnDisk)
          PROVE  disk[OnDisk[i]] = disk[i] \/ OnDisk[i] \in Dirty
      <3>1. OnDisk = lh /\ (i \in 1 .. n \/ i \in n + 1 .. Len(lh))
        BY <1>1, <1>4 DEF Placed
      <3>2. Later(n) \subseteq Dirty
        BY <1>4 DEF Placed
      <3>3. CASE i \in 1 .. n
        BY <1>4, <3>1, <3>3 DEF Placed
      <3>4. CASE i \in n + 1 .. Len(lh)
        BY <3>1, <3>2, <3>4 DEF Later
      <3> QED BY <3>1, <3>3, <3>4
    <2> QED BY <2>1 DEF Readable
  <1> QED BY <1>2, <1>3, <1>4

LEMMA PointReadable ==
    ASSUME Lists, up, NEW s, NEW H, Point(s, H, "committed")
    PROVE  Readable
  <1>1. /\ \A n, S : Logged(n, S) => Readable
        /\ \A n \in Nat : \A S : Placed(n, S) => Readable
        /\ \A S : Installed(S) => Readable
        /\ Cleared => Readable
    BY PlacesReadable DEF Logged, Installed, Cleared
  <1>2. Len(lh) \in Nat /\ 0 \in Nat
    BY DEF Lists, LogList
  <1>3. \A t \in 1 .. Len(lh) + 1 : t \in Nat /\ t - 1 \in Nat
    BY <1>2
  <1>4. \A t \in Entries : t \in Nat /\ t - 1 \in Nat
    BY <1>2 DEF Entries
  <1>5. Logging(s, H) \/ Installing(s, H, "committed")
    BY DEF Point
  <1>6. CASE Logging(s, H)
    BY <1>1, <1>2, <1>6 DEF Logging, LogRound
  <1>7. CASE Installing(s, H, "committed")
    BY <1>1, <1>2, <1>3, <1>4, <1>7 DEF Installing, InstallRound
  <1> QED BY <1>5, <1>6, <1>7

LEMMA PendingReadable ==
    ASSUME Lists, up, NEW b, NEW r, NEW H, Pending(b, r, H, "committed")
    PROVE  Readable
  <1>1. /\ \A n, S : Logged(n, S) => Readable
        /\ \A n \in Nat : \A S : Placed(n, S) => Readable
        /\ \A S : Installed(S) => Readable
    BY PlacesReadable DEF Logged, Installed
  <1>2. \A t \in Entries : t - 1 \in Nat
    BY DEF Lists, LogList, Entries
  <1> QED BY <1>1, <1>2 DEF Pending, Logs, Installs

LEMMA AlwaysReadable ==
    ASSUME JInv
    PROVE  Readable
  <1>1. SUFFICES ASSUME up PROVE Readable
    BY DEF Readable
  <1>2. PICK c \in Proc \cup {NONE} : Control(c)
    BY DEF JInv, Roled
  <1>3. CASE c = NONE
    BY <1>2, <1>3, PlacesReadable, <1>1 DEF Control, Running, JInv
  <1>4. CASE c \in Proc
    <2>1. PICK s, H : s = todo[c] /\ H = Held(c)
      OBVIOUS
    <2>2. Stands(s, H, "committed")
      BY <1>1, <1>2, <1>4, <2>1 DEF Control, Role
    <2>3. Lists /\ up
      BY <1>1 DEF JInv
    <2> QED BY <2>2, <2>3, PointReadable, PendingReadable DEF Stands
  <1> QED BY <1>3, <1>4

\* A buffer that is valid holds the block, whatever is on the disk.
SeesView == Seen = View

LEMMA SeenIs ==
    ASSUME JInv
    PROVE  SeesView
  <1>1. Lists /\ Coherent /\ Readable
    BY AlwaysReadable DEF JInv, CacheInv
  <1>2. ASSUME NEW b \in Homes
        PROVE  (IF up /\ b \in Cached /\ cache[b].valid THEN cache[b].data ELSE Recovered[b])
               = (IF up /\ b \in Dirty THEN Unwritten[b] ELSE Recovered[b])
    <2>1. CASE b \in Dirty
      <3>1. b \in Cached /\ cache[b].valid /\ Unwritten[b] = cache[b].data
        BY <1>1, <2>1 DEF Dirty, Coherent, Unwritten
      <3> QED BY <2>1, <3>1
    <2>2. CASE b \notin Dirty /\ up /\ b \in Cached /\ cache[b].valid
      <3>1. cache[b].data = disk[b]
        BY <1>1, <2>2 DEF Dirty, Coherent
      <3>2. disk[b] = Recovered[b]
        <4>1. /\ b \notin ToSet(OnDisk) => Recovered[b] = disk[b]
              /\ \A i \in 1 .. Len(OnDisk) : OnDisk[i] = b => Recovered[b] = disk[i]
          BY <1>1, RecoveredIs DEF Lists
        <4>2. CASE b \in ToSet(OnDisk)
          <5>1. PICK i \in 1 .. Len(OnDisk) : OnDisk[i] = b
            BY <1>1, <4>2 DEF Lists, LogList, ToSet
          <5> QED BY <1>1, <2>2, <4>1, <5>1 DEF Readable
        <4> QED BY <4>1, <4>2
      <3> QED BY <2>2, <3>1, <3>2
    <2>3. CASE b \notin Dirty /\ ~ (up /\ b \in Cached /\ cache[b].valid)
      BY <2>3
    <2> QED BY <2>1, <2>2, <2>3
  <1> QED BY <1>2 DEF SeesView, Seen, View

SeesCalls == {p \in Proc : InTransaction(p)} = Active

LEMMA CallsAre ==
    ASSUME Inv
    PROVE  SeesCalls
  <1>1. \A p \in Proc : InTransaction(p) <=> Ends(todo[p])
    BY InTransactionIsEnds DEF Inv, Stacks
  <1> QED BY <1>1 DEF SeesCalls, Active

LEMMA Sees == (JInv => SeesView /\ SeesCalls) /\ (JInv' => SeesView' /\ SeesCalls')
  <1>1. JInv => SeesView /\ SeesCalls
    BY SeenIs, CallsAre DEF JInv
  <1> QED BY <1>1, PTL

-----------------------------------------------------------------------------
(* Calls *)

\* A call that writes has its end_op() before it.
LEMMA RestEnds ==
    ASSUME NEW s, NEW l, NEW x, NEW r, Top(s, l, x, r), Ends(r)
    PROVE  Ends(s)
  <1>1. PICK i \in 1 .. Len(r) : r[i][1] = "end_op"
    BY DEF Ends
  <1>2. /\ IsSeq(s) /\ s # <<>> /\ Tail(s) = r
    BY DEF Top
  <1>3. Len(s) \in Nat /\ Len(r) = Len(s) - 1 /\ \A k \in 1 .. Len(s) - 1 : r[k] = s[k + 1]
    BY <1>2, TailOfStack
  <1>4. i + 1 \in 1 .. Len(s) /\ s[i + 1] = r[i]
    BY <1>3
  <1>5. PICK k \in 1 .. Len(s) : s[k] = r[i]
    BY <1>4
  <1> QED BY <1>1, <1>5 DEF Ends

LEMMA LeftEnds ==
    ASSUME NEW id, NEW ws \in Calls, NEW j \in 0 .. Len(ws)
    PROVE  IsSeq(Left(id, ws, j)) /\ Ends(Left(id, ws, j))
  <1>1. Len(ws) \in Nat
    BY JournalAssumption
  <1>2. PICK n : n = Size(ws, j)
    OBVIOUS
  <1>3. n \in Nat /\ n \in 1 .. n /\ n + 3 * j = 3 * Len(ws) + 1
    BY <1>1, <1>2 DEF Size
  <1>4. /\ IsSeq(Left(id, ws, j)) /\ Len(Left(id, ws, j)) = n
        /\ Left(id, ws, j)[n] = Body(id, ws)[n + 3 * j]
    BY <1>2, <1>3, LeftAt
  <1>5. Left(id, ws, j)[n] = <<"end_op", 0>>
    BY <1>1, <1>3, <1>4, BodyAt
  <1>6. Left(id, ws, j)[n][1] = "end_op"
    BY <1>5
  <1> QED BY <1>3, <1>4, <1>6 DEF Ends

LEMMA LogWriteActive ==
    ASSUME JInv, NEW p \in Proc, At(p, "log_write")
    PROVE  p \in Active
  <1>1. PICK c \in Proc \cup {NONE} : Control(c)
    BY DEF JInv, Roled
  <1>2. PICK s, x, r, H, e : s = todo[p] /\ x = Arg(p) /\ r = Tail(todo[p]) /\ H = Held(p)
                             /\ e = Role(p, c)
    OBVIOUS
  <1>3. At(p, "log_write") /\ "log_write" \notin Waits
    BY DEF Waits
  <1>4. Point(s, H, e) /\ Top(s, "log_write", x, r)
    BY <1>1, <1>2, <1>3, AtPoint
  <1>5. PICK id \in 1 .. MaxCalls, ws \in Calls : \E j \in 1 .. Len(ws) :
            r = Written(ws[j], Left(id, ws, j))
    BY <1>4, LogWritePoint
  <1>6. PICK j \in 1 .. Len(ws) : r = Written(ws[j], Left(id, ws, j))
    BY <1>5
  <1>7. j \in 0 .. Len(ws)
    BY JournalAssumption
  <1>8. IsSeq(Left(id, ws, j)) /\ Ends(Left(id, ws, j))
    BY <1>7, LeftEnds
  <1>9. Top(r, "brelse", ws[j], Left(id, ws, j))
    BY <1>6, <1>8, CallStacks
  <1>10. Ends(s)
    BY <1>4, <1>8, <1>9, RestEnds
  <1> QED BY <1>2, <1>10 DEF Active

-----------------------------------------------------------------------------
(* The promise *)

\* AtomicCalls as the invariant has its variables.
Promise ==
    INSTANCE AtomicCalls WITH
        Caller <- Proc, Block <- Homes, Data <- 0 .. MaxCalls,
        store <- Recovered, memory <- View, active <- Active

LEMMA SameData ==
    ASSUME Data' = Data
    PROVE  Recovered' = Recovered /\ View' = View
  <1>1. /\ disk' = disk /\ (up' <=> up) /\ Dirty' = Dirty /\ Unwritten' = Unwritten
    BY DataSame
  <1>2. Recovered' = Recovered
    BY <1>1 DEF Recovered
  <1> QED BY <1>1, <1>2 DEF View

\* A step of a process is a step of the promise or none.
LEMMA ProcessStep ==
    ASSUME JInv, NEW p \in Proc, Step(p) \/ CallWrites(p) \/ CallReads(p)
    PROVE  JInv' /\ [Promise!Next]_(Promise!vars)
  <1>0. Inv
    BY DEF JInv
  <1>1. CASE Iderw(p) \/ IderwReturns(p)
    <2>1. JInv' /\ Data' = Data
      BY <1>1, IderwStep, IderwReturnsStep
    <2>2. Active' = Active
      BY <1>0, <1>1, DiskStep
    <2> QED BY <2>1, <2>2, SameData DEF Promise!vars
  <1>2. CASE BgetFinds(p) \/ BgetRecycles(p) \/ Acquire(p) \/ Brelse(p)
    <2>1. JInv' /\ Data' = Data
      BY <1>2, BgetFindsStep, BgetRecyclesStep, AcquireStep, BrelseStep
    <2>2. Active' = Active
      BY <1>0, <1>2, BufferStep
    <2> QED BY <2>1, <2>2, SameData DEF Promise!vars
  <1>3. CASE BeginOp(p)
    <2>1. JInv' /\ Data' = Data
      BY <1>3, BeginOpStep
    <2>2. Active' = Active \cup {p} /\ p \notin Active
      BY <1>0, <1>3, BeginStep
    <2>3. Promise!Begin(p)
      BY <2>1, <2>2, SameData DEF Promise!Begin
    <2> QED BY <2>1, <2>3 DEF Promise!Next
  <1>4. CASE BeginOpSleeps(p) \/ Committed(p)
    <2>1. JInv' /\ Data' = Data
      BY <1>4, BeginOpStep, CommittedJInv
    <2>2. Active' = Active
      BY <1>0, <1>4, BeginSleepStep, CommittedStep
    <2> QED BY <2>1, <2>2, SameData DEF Promise!vars
  <1>5. CASE LogWrite(p)
    <2>1. /\ JInv' /\ Recovered' = Recovered
          /\ \E b \in Homes, v \in 0 .. MaxCalls : View' = [View EXCEPT ![b] = v]
      BY <1>5, LogWriteStep
    <2>2. PICK b \in Homes, v \in 0 .. MaxCalls : View' = [View EXCEPT ![b] = v]
      BY <2>1
    <2>3. Active' = Active /\ p \in Active
      BY <1>0, <1>5, LogStep, LogWriteActive DEF LogWrite
    <2>4. Promise!Write(p, b, v)
      BY <2>1, <2>2, <2>3 DEF Promise!Write
    <2> QED BY <2>1, <2>4 DEF Promise!Next
  <1>6. CASE EndOp(p)
    <2>1. JInv' /\ Data' = Data
      BY <1>6, EndOpStep
    <2>2. Active' = Active \ {p} /\ p \in Active
      BY <1>0, <1>6, EndStep
    <2>3. Promise!End(p)
      BY <2>1, <2>2, SameData DEF Promise!End
    <2> QED BY <2>1, <2>3 DEF Promise!Next
  <1>7. CASE WriteLog(p) \/ InstallTrans(p)
    <2>1. JInv' /\ Data' = Data
      BY <1>7, LoopStep
    <2>2. Active' = Active
      BY <1>0, <1>7, LogStep
    <2> QED BY <2>1, <2>2, SameData DEF Promise!vars
  <1>8. CASE \/ CopyToLog(p) \/ CopyHome(p) \/ Clear(p) \/ WriteHead(p) \/ ReadHead(p)
             \/ Up(p)
    <2>1. JInv' /\ Recovered' = Recovered /\ View' = View
      BY <1>8, CopyToLogStep, CopyHomeStep, ClearStep, WriteHeadStep, ReadHeadStep, UpStep
    <2>2. Active' = Active
      BY <1>0, <1>8, LogStep
    <2> QED BY <2>1, <2>2 DEF Promise!vars
  <1>9. CASE CallWrites(p) \/ CallReads(p)
    <2>1. JInv' /\ Data' = Data
      BY <1>9, CallsStep
    <2>2. Active' = Active
      BY <1>0, <1>9, CallStep
    <2> QED BY <2>1, <2>2, SameData DEF Promise!vars
  <1> QED BY <1>1, <1>2, <1>3, <1>4, <1>5, <1>6, <1>7, <1>8, <1>9 DEF Step

\* What the disk writes is the commit when it is the header, and no call is
\* active then.
LEMMA DiskWrites ==
    ASSUME JInv, Ideintr
    PROVE  JInv' /\ [Promise!Next]_(Promise!vars)
  <1>1. /\ JInv'
        /\ Data' = Data \/ (/\ View' = View
                            /\ Recovered' = Recovered \/ (Recovered' = View /\ committing))
    BY IdeintrStep
  <1>2. Active' = Active
    BY DEF Ideintr, log, Active
  <1>3. CASE Recovered' = Recovered /\ View' = View
    BY <1>1, <1>2, <1>3 DEF Promise!vars
  <1>4. CASE Recovered' = View /\ View' = View /\ committing
    <2>1. Active = {}
      BY <1>4, ActiveIsFinite DEF JInv, Inv
    <2>2. Promise!Commit
      BY <1>2, <1>4, <2>1 DEF Promise!Commit
    <2> QED BY <1>1, <2>2 DEF Promise!Next
  <1> QED BY <1>1, <1>3, <1>4, SameData

LEMMA NothingStep ==
    ASSUME JInv, UNCHANGED <<disk, cache, idequeue, lh, outstanding, committing, todo, up, calls>>
    PROVE  JInv' /\ Data' = Data /\ Active' = Active
  <1>1. Kept /\ \A q : Held(q)' = Held(q)
    BY DEF Kept, Cached, Held
  <1>2. /\ Data' = Data
        /\ \A q : \A b \in Held(q) : cache'[b].valid = cache[b].valid
        /\ \A b : b \in Cached => b \in Cached'
    BY <1>1, KeptData
  <1>3. PICK c \in Proc \cup {NONE} : Control(c)
    BY DEF JInv, Roled
  <1>4. ASSUME NEW q \in Proc
        PROVE  Stands(todo[q], Held(q), Role(q, c))'
    <2>1. PICK t, G, f : t = todo[q] /\ G = Held(q) /\ f = Role(q, c)
      OBVIOUS
    <2>2. Stands(t, G, f)
      BY <1>3, <2>1 DEF Control
    <2>3. Stands(t, G, f)'
      BY <1>2, <2>1, <2>2, StandsSame
    <2>4. t = todo'[q] /\ G = Held(q)' /\ f = Role(q, c)'
      BY <1>1, <2>1 DEF Role
    <2> QED BY <2>3, <2>4
  <1>5. Running => Running'
    BY <1>2, PlacesSame
  <1>6. Control(c)'
    BY <1>3, <1>4, <1>5 DEF Control
  <1>7. CacheInv'
    BY CacheSame DEF JInv, CacheInv, Types
  <1>8. Active' = Active
    BY DEF Active
  <1>9. Inv'
    BY <1>8 DEF JInv, Inv, Stacks
  <1>10. Lists'
    BY ListsSame DEF JInv
  <1> QED BY <1>2, <1>6, <1>7, <1>8, <1>9, <1>10 DEF JInv, Roled

LEMMA AnyStep ==
    ASSUME JInv, [Next]_vars
    PROVE  JInv' /\ [Promise!Next]_(Promise!vars)
  <1>1. CASE UNCHANGED vars
    <2>1. UNCHANGED <<disk, cache, idequeue, lh, outstanding, committing, todo, up, calls>>
      BY <1>1 DEF vars, log
    <2>2. JInv' /\ Data' = Data /\ Active' = Active
      BY <2>1, NothingStep
    <2> QED BY <2>2, SameData DEF Promise!vars
  <1>2. CASE Ideintr
    BY <1>2, DiskWrites
  <1>3. CASE Crash
    <2>1. JInv' /\ Recovered' = Recovered /\ View' = Recovered /\ Active' = {}
      BY <1>3, CrashJInv, CrashStep DEF JInv
    <2>2. Promise!Crash
      BY <2>1 DEF Promise!Crash
    <2> QED BY <2>1, <2>2 DEF Promise!Next
  <1>4. ASSUME NEW p \in Proc, Step(p) \/ CallWrites(p) \/ CallReads(p)
        PROVE  JInv' /\ [Promise!Next]_(Promise!vars)
    BY <1>4, ProcessStep
  <1> QED BY <1>1, <1>2, <1>3, <1>4 DEF Next

\* The machine starts with what the disk holds, and no call.
LEMMA Starts ==
    ASSUME Init
    PROVE  JInv /\ Promise!Init
  <1>1. Start /\ Recovered = [b \in Homes |-> 0]
    BY InitStart
  <1>2. Inv /\ Active = {}
    BY InitInv
  <1>3. JInv /\ View = Recovered
    BY <1>1, <1>2, StartInv
  <1>4. 0 \in 0 .. MaxCalls
    BY JournalAssumption
  <1> QED BY <1>1, <1>2, <1>3, <1>4 DEF Promise!Init

\* The writes of a call are durable with all the others of that call, the
\* commit takes no part of a call (log.c:11-15), and a read returns what was
\* written last even when the buffer was evicted in between: for any
\* processes, blocks, calls and sizes, at whatever step the machine stops.
THEOREM CallsAtomic == Spec => CallsAreAtomic
  <1>1. Init => JInv /\ Atomic!Init
    <2> SUFFICES ASSUME Init PROVE JInv /\ Atomic!Init
      OBVIOUS
    <2>1. JInv /\ Promise!Init /\ SeesView /\ SeesCalls
      BY Starts, Sees
    <2> QED BY <2>1 DEF SeesView, SeesCalls, Promise!Init, Atomic!Init
  <1>2. JInv /\ [Next]_vars => JInv' /\ [Atomic!Next]_(Atomic!vars)
    <2> SUFFICES ASSUME JInv, [Next]_vars PROVE JInv' /\ [Atomic!Next]_(Atomic!vars)
      OBVIOUS
    <2>1. JInv' /\ [Promise!Next]_(Promise!vars)
      BY AnyStep
    <2>2. Seen = View /\ Seen' = View'
      BY <2>1, Sees DEF SeesView
    <2>3. /\ {p \in Proc : InTransaction(p)} = Active
          /\ {p \in Proc : InTransaction(p)}' = Active'
      BY <2>1, Sees DEF SeesCalls
    <2> HIDE DEF InTransaction
    <2>4. [Atomic!Next]_(Atomic!vars)
      BY <2>1, <2>2, <2>3
      DEF Atomic!Next, Atomic!Begin, Atomic!Write, Atomic!End, Atomic!Commit, Atomic!Crash,
          Atomic!vars, Promise!Next, Promise!Begin, Promise!Write, Promise!End,
          Promise!Commit, Promise!Crash, Promise!vars
    <2> QED BY <2>1, <2>4
  <1> QED BY <1>1, <1>2, PTL DEF Spec, CallsAreAtomic, Atomic!Spec

-----------------------------------------------------------------------------
(* No misuse *)

\* The blocks that a stack has still to give to log_write().
Owes(s) == {b \in Homes : \E i \in 1 .. Len(s) : s[i][1] = "log_write" /\ s[i][2][1] = b}

\* What the calls in progress may still add to the log.
Owed == {x \in Active \X Homes : x[2] \in Owes(todo[x[1]]) /\ x[2] \notin ToSet(lh)}

\* A call writes two blocks less than it reserves.  The largest write that
\* filewrite() makes in one transaction (file.c:130) changes four data blocks,
\* the indirect block, the inode and the only bitmap block of a disk of 1000
\* blocks (param.h:13): seven, of ten reserved.
Slack == \A ws \in Calls : Cardinality(ToSet(ws)) + 2 <= MAXOPBLOCKS

\* The log has room for them, and two blocks more.
Room ==
    Active # {} =>
        /\ up
        /\ \A p \in Active : /\ IsFiniteSet(Owes(todo[p]))
                             /\ Cardinality(Owes(todo[p])) + 2 <= MAXOPBLOCKS
        /\ IsFiniteSet(Owed) /\ Len(lh) + Cardinality(Owed) + 2 <= LOGSIZE

LEMMA TailOwes ==
    ASSUME NEW s, IsSeq(s), s # <<>>
    PROVE  Owes(Tail(s)) \subseteq Owes(s)
  <1>1. /\ Len(s) \in Nat /\ Len(Tail(s)) = Len(s) - 1
        /\ \A i \in 1 .. Len(s) - 1 : Tail(s)[i] = s[i + 1]
    BY TailOfStack
  <1>2. ASSUME NEW i \in 1 .. Len(Tail(s))
        PROVE  \E k \in 1 .. Len(s) : Tail(s)[i] = s[k]
    <2>1. i + 1 \in 1 .. Len(s) /\ Tail(s)[i] = s[i + 1]
      BY <1>1
    <2> QED BY <2>1
  <1> QED BY <1>2 DEF Owes

LEMMA PushOwes ==
    ASSUME NEW f, f[1] # "log_write", NEW r, IsSeq(r)
    PROVE  Owes(Push(f, r)) = Owes(r)
  <1>1. /\ Len(r) \in Nat /\ Len(Push(f, r)) = 1 + Len(r)
        /\ \A i \in 1 .. 1 + Len(r) : Push(f, r)[i] = IF i = 1 THEN f ELSE r[i - 1]
    BY PushAt
  <1>2. ASSUME NEW i \in 1 .. Len(Push(f, r)), Push(f, r)[i][1] = "log_write"
        PROVE  \E k \in 1 .. Len(r) : Push(f, r)[i] = r[k]
    <2>1. i # 1
      BY <1>1, <1>2
    <2>2. i - 1 \in 1 .. Len(r) /\ Push(f, r)[i] = r[i - 1]
      BY <1>1, <2>1
    <2> QED BY <2>2
  <1>3. ASSUME NEW k \in 1 .. Len(r)
        PROVE  \E i \in 1 .. Len(Push(f, r)) : Push(f, r)[i] = r[k]
    <2>1. k + 1 \in 1 .. Len(Push(f, r)) /\ Push(f, r)[k + 1] = r[k]
      BY <1>1
    <2> QED BY <2>1
  <1> QED BY <1>2, <1>3 DEF Owes

LEMMA BodyOwes ==
    ASSUME NEW ws \in Calls, NEW id
    PROVE  Owes(Body(id, ws)) \subseteq ToSet(ws)
  <1> DEFINE B == Body(id, ws)
             n == 3 * Len(ws) + 1
  <1>1. Len(ws) \in Nat /\ DOMAIN ws = 1 .. Len(ws)
    BY JournalAssumption
  <1>2. ASSUME NEW k \in 1 .. n, B[k][1] = "log_write"
        PROVE  B[k][2][1] \in ToSet(ws)
    <2>1. B[k] = IF k = n THEN <<"end_op", 0>>
                 ELSE CASE k % 3 = 1 -> <<"bread", ws[(k + 2) \div 3]>>
                        [] k % 3 = 2 -> <<"log_write", <<ws[(k + 2) \div 3], id>>>>
                        [] OTHER -> <<"brelse", ws[(k + 2) \div 3]>>
      BY DEF Body
    <2>2. PICK m : m = (k + 2) \div 3
      OBVIOUS
    <2>3. B[k] = <<"log_write", <<ws[m], id>>>> /\ k # n
      <3> HIDE DEF B
      <3> QED BY <1>2, <2>1, <2>2
    <2>4. B[k][2][1] = ws[m]
      BY <2>3
    <2>5. m \in 1 .. Len(ws)
      BY <1>1, <2>2, <2>3
    <2> QED BY <1>1, <2>4, <2>5 DEF ToSet
  <1>3. Len(B) = n
    <2>1. B = [k \in 1 .. n |-> B[k]] /\ n \in Nat
      BY <1>1, BodyAt
    <2> HIDE DEF B, n
    <2> QED BY <2>1, FunctionIsSeq
  <1> HIDE DEF B, n
  <1>4. \A b \in Owes(B) : b \in ToSet(ws)
    BY <1>2, <1>3 DEF Owes
  <1> QED BY <1>4 DEF B

\* So many pairs as there are in a rectangle at most.
LEMMA Rectangle ==
    ASSUME NEW A, IsFiniteSet(A), NEW S, NEW F, NEW k \in Nat, NEW R \in SUBSET (A \X S),
           \A a \in A : IsFiniteSet(F[a]) /\ Cardinality(F[a]) <= k,
           \A x \in R : x[2] \in F[x[1]]
    PROVE  IsFiniteSet(R) /\ Cardinality(R) <= Cardinality(A) * k
  <1>1. ASSUME NEW a \in A
        PROVE  \E g : g \in Injection(F[a], 1 .. k)
    <2>1. PICK n \in Nat : n = Cardinality(F[a]) /\ ExistsBijection(1 .. n, F[a])
      BY FS_CardinalityType
    <2>2. n <= k
      BY <2>1
    <2>3. ExistsBijection(F[a], 1 .. n)
      BY <2>1, Fun_ExistsBijSymmetric
    <2>4. PICK g : g \in Bijection(F[a], 1 .. n)
      BY <2>3 DEF ExistsBijection
    <2>5. g \in Injection(F[a], 1 .. k)
      BY <2>2, <2>4 DEF Bijection, Injection, Surjection
    <2> QED BY <2>5
  <1>2. PICK h : h = [a \in A |-> CHOOSE g : g \in Injection(F[a], 1 .. k)]
    OBVIOUS
  <1>3. \A a \in A : h[a] \in Injection(F[a], 1 .. k)
    BY <1>1, <1>2
  <1>4. PICK f : f = [x \in R |-> <<x[1], h[x[1]][x[2]]>>]
    OBVIOUS
  <1>5. \A x \in R : x[1] \in A /\ x = <<x[1], x[2]>> /\ x[2] \in F[x[1]]
    OBVIOUS
  <1>6. ASSUME NEW x \in R
        PROVE  f[x] \in A \X (1 .. k)
    <2>1. h[x[1]][x[2]] \in 1 .. k
      BY <1>3, <1>5 DEF Injection, IsInjective
    <2> QED BY <1>4, <1>5, <2>1
  <1>7. ASSUME NEW x \in R, NEW y \in R, f[x] = f[y]
        PROVE  x = y
    <2>1. x[1] = y[1] /\ h[x[1]][x[2]] = h[y[1]][y[2]]
      BY <1>4, <1>7
    <2>2. x[2] = y[2]
      <3>1. h[x[1]] \in Injection(F[x[1]], 1 .. k)
        BY <1>3, <1>5
      <3>2. x[2] \in F[x[1]] /\ y[2] \in F[x[1]]
        BY <1>5, <2>1
      <3>3. h[x[1]][x[2]] = h[x[1]][y[2]]
        BY <2>1
      <3> QED BY <3>1, <3>2, <3>3 DEF Injection, IsInjective
    <2> QED BY <1>5, <2>1, <2>2
  <1>8. f \in Injection(R, A \X (1 .. k))
    <2>1. f \in [R -> A \X (1 .. k)]
      BY <1>4, <1>6
    <2> QED BY <1>7, <2>1 DEF Injection, IsInjective
  <1>9. /\ IsFiniteSet(A \X (1 .. k))
        /\ Cardinality(A \X (1 .. k)) = Cardinality(A) * k
    <2>1. IsFiniteSet(1 .. k) /\ Cardinality(1 .. k) = k
      BY FS_Interval
    <2> QED BY <2>1, FS_Product
  <1> QED BY <1>8, <1>9, FS_Injection

\* The calls go on, and log nothing.
LEMMA RoomKept ==
    ASSUME Inv, Room, up' = up, lh' = lh, Active' \subseteq Active,
           \A q \in Active' : Owes(todo'[q]) \subseteq Owes(todo[q])
    PROVE  Room'
  <1>1. SUFFICES ASSUME Active' # {} PROVE Room'
    BY DEF Room
  <1>2. /\ up /\ IsFiniteSet(Owed) /\ Len(lh) + Cardinality(Owed) + 2 <= LOGSIZE
        /\ \A p \in Active : /\ IsFiniteSet(Owes(todo[p]))
                             /\ Cardinality(Owes(todo[p])) + 2 <= MAXOPBLOCKS
    BY <1>1 DEF Room
  <1>3. ASSUME NEW p \in Active'
        PROVE  IsFiniteSet(Owes(todo'[p])) /\ Cardinality(Owes(todo'[p])) + 2 <= MAXOPBLOCKS
    <2>1. /\ IsFiniteSet(Owes(todo'[p])) /\ Cardinality(Owes(todo'[p])) <= Cardinality(Owes(todo[p]))
          /\ Cardinality(Owes(todo'[p])) \in Nat /\ Cardinality(Owes(todo[p])) \in Nat
      BY <1>2, FS_Subset, FS_CardinalityType
    <2> QED BY <1>2, <2>1, JournalAssumption
  <1>4. Owed' \subseteq Owed
    BY DEF Owed
  <1>5. /\ IsFiniteSet(Owed') /\ Cardinality(Owed') <= Cardinality(Owed)
        /\ Cardinality(Owed') \in Nat /\ Cardinality(Owed) \in Nat
    BY <1>2, <1>4, FS_Subset, FS_CardinalityType
  <1>6. Len(lh') + Cardinality(Owed') + 2 <= LOGSIZE
    BY <1>2, <1>5, JournalAssumption
  <1> QED BY <1>2, <1>3, <1>5, <1>6 DEF Room

\* A call that begins has made its reservation.
LEMMA RoomBegins ==
    ASSUME JInv, Room, Slack, NEW p \in Proc, BeginOp(p)
    PROVE  Room'
  <1>1. PICK c \in Proc \cup {NONE} : Control(c)
    BY DEF JInv, Roled
  <1>2. PICK s, x, r, H, e : s = todo[p] /\ x = Arg(p) /\ r = Tail(todo[p]) /\ H = Held(p)
                             /\ e = Role(p, c)
    OBVIOUS
  <1>3. At(p, "begin_op") /\ "begin_op" \notin Waits
    BY DEF BeginOp, Waits
  <1>4. Point(s, H, e) /\ Top(s, "begin_op", x, r) /\ (up \/ p = c)
    BY <1>1, <1>2, <1>3, AtPoint
  <1>5. e = "call" /\ r = <<>> /\ \E id \in 1 .. MaxCalls, ws \in Calls : x = <<id, ws>>
    BY <1>4, BeginPoint
  <1>6. PICK id \in 1 .. MaxCalls, ws \in Calls : x = <<id, ws>>
    BY <1>5
  <1>7. up
    BY <1>2, <1>4, <1>5 DEF Role
  <1>8. todo'[p] = Body(id, ws) /\ \A q \in Proc : q # p => todo'[q] = todo[q]
    <2>1. x[1] = id /\ x[2] = ws
      BY <1>6
    <2>2. Do(p, Body(id, ws))
      BY <1>2, <2>1 DEF BeginOp
    <2>3. todo'[p] = Body(id, ws) \o <<>>
      BY <1>2, <1>5, <2>2, Becomes DEF JInv
    <2>4. IsSeq(Body(id, ws))
      BY BodyEnds DEF Shaped
    <2>5. Body(id, ws) \o <<>> = Body(id, ws)
      BY <2>4, WithoutTail
    <2> QED BY <2>2, <2>3, <2>5, Becomes DEF JInv
  <1>9. Active' = Active \cup {p} /\ p \notin Active
    BY BeginStep DEF JInv
  <1>10. lh' = lh /\ up' = up /\ Len(lh) + (outstanding + 1) * MAXOPBLOCKS <= LOGSIZE
    <2>1. /\ lh' = lh /\ up' = up /\ ~ (Len(lh) + (outstanding + 1) * MAXOPBLOCKS > LOGSIZE)
      BY DEF BeginOp, MustWait
    <2>2. outstanding \in Nat /\ Len(lh) \in Nat
      BY ActiveIsFinite DEF JInv, Inv, Lists, LogList
    <2> QED BY <2>1, <2>2, JournalAssumption
  <1>11. PICK W : W = ToSet(ws)
    OBVIOUS
  <1>12. IsFiniteSet(W) /\ Cardinality(W) + 2 <= MAXOPBLOCKS /\ Cardinality(W) \in Nat
    <2>1. ws \in Seq(Homes)
      BY JournalAssumption
    <2>2. IsFiniteSet(ToSet(ws))
      <3>1. /\ ws \in [1 .. Len(ws) -> Homes] /\ Len(ws) \in Nat
            /\ ToSet(ws) = {ws[i] : i \in 1 .. Len(ws)}
        BY <2>1 DEF ToSet
      <3>2. ws \in Surjection(1 .. Len(ws), ToSet(ws))
        BY <3>1 DEF Surjection
      <3> QED BY <3>1, <3>2, FS_Interval, FS_Surjection
    <2> QED BY <1>11, <2>2, FS_CardinalityType DEF Slack
  <1>13. PICK k : k = MAXOPBLOCKS - 2
    OBVIOUS
  <1>14. k \in Nat /\ Cardinality(W) <= k
    BY <1>12, <1>13, JournalAssumption
  <1>15. \A q \in Active : IsFiniteSet(Owes(todo[q])) /\ Cardinality(Owes(todo[q])) <= k
    <2>1. ASSUME NEW q \in Active
          PROVE  IsFiniteSet(Owes(todo[q])) /\ Cardinality(Owes(todo[q])) <= k
      <3>1. IsFiniteSet(Owes(todo[q])) /\ Cardinality(Owes(todo[q])) + 2 <= MAXOPBLOCKS
        BY DEF Room
      <3>2. Cardinality(Owes(todo[q])) \in Nat
        BY <3>1, FS_CardinalityType
      <3> QED BY <1>13, <3>1, <3>2, JournalAssumption
    <2> QED BY <2>1
  <1>16. /\ IsFiniteSet(Owed) /\ Cardinality(Owed) <= Cardinality(Active) * k
         /\ Cardinality(Owed) \in Nat
    <2>0. PICK F : F = [q \in Active |-> Owes(todo[q])]
      OBVIOUS
    <2>1. Owed \in SUBSET (Active \X Homes) /\ \A y \in Owed : y[2] \in F[y[1]]
      BY <2>0 DEF Owed
    <2>2. \A q \in Active : IsFiniteSet(F[q]) /\ Cardinality(F[q]) <= k
      BY <1>15, <2>0
    <2>3. IsFiniteSet(Owed) /\ Cardinality(Owed) <= Cardinality(Active) * k
      BY <1>14, <2>1, <2>2, ActiveIsFinite, Rectangle
    <2> QED BY <2>3, FS_CardinalityType
  <1>17. Owes(todo'[p]) \subseteq W
    BY <1>8, <1>11, BodyOwes
  <1>18. /\ IsFiniteSet(Owes(todo'[p])) /\ Cardinality(Owes(todo'[p])) + 2 <= MAXOPBLOCKS
    <2>1. /\ IsFiniteSet(Owes(todo'[p])) /\ Cardinality(Owes(todo'[p])) <= Cardinality(W)
          /\ Cardinality(Owes(todo'[p])) \in Nat
      BY <1>12, <1>17, FS_Subset, FS_CardinalityType
    <2> QED BY <1>12, <2>1, JournalAssumption
  <1>19. \A q \in Active' : /\ IsFiniteSet(Owes(todo'[q]))
                            /\ Cardinality(Owes(todo'[q])) + 2 <= MAXOPBLOCKS
    <2>1. \A q \in Active : todo'[q] = todo[q]
      BY <1>8, <1>9 DEF Active
    <2>2. \A q \in Active : /\ IsFiniteSet(Owes(todo[q]))
                            /\ Cardinality(Owes(todo[q])) + 2 <= MAXOPBLOCKS
      BY DEF Room
    <2> QED BY <1>9, <1>18, <2>1, <2>2
  <1>20. Owed' \subseteq Owed \cup ({p} \X W)
    <2>1. \A q \in Active : todo'[q] = todo[q]
      BY <1>8, <1>9 DEF Active
    <2> QED BY <1>9, <1>10, <1>17, <2>1 DEF Owed
  <1>21. /\ IsFiniteSet({p} \X W) /\ Cardinality({p} \X W) = Cardinality(W)
    <2>1. IsFiniteSet({p}) /\ Cardinality({p}) = 1
      BY FS_Singleton
    <2>2. /\ IsFiniteSet({p} \X W) /\ Cardinality({p} \X W) = Cardinality({p}) * Cardinality(W)
      BY <1>12, <2>1, FS_Product
    <2> QED BY <1>12, <2>1, <2>2
  <1>22. /\ IsFiniteSet(Owed') /\ Cardinality(Owed') \in Nat
         /\ Cardinality(Owed') <= Cardinality(Owed) + Cardinality(W)
    <2> DEFINE P == {p} \X W
    <2>1. /\ IsFiniteSet(Owed \cup P)
          /\ Cardinality(Owed \cup P) = Cardinality(Owed) + Cardinality(P) - Cardinality(Owed \cap P)
      BY <1>16, <1>21, FS_Union
    <2>2. IsFiniteSet(Owed \cap P) /\ Cardinality(Owed \cap P) \in Nat
      BY <1>16, FS_Intersection, FS_CardinalityType
    <2>3. /\ IsFiniteSet(Owed') /\ Cardinality(Owed') \in Nat
          /\ Cardinality(Owed') <= Cardinality(Owed \cup P) /\ Cardinality(Owed \cup P) \in Nat
      BY <1>20, <2>1, FS_Subset, FS_CardinalityType
    <2> QED BY <1>12, <1>16, <1>21, <2>1, <2>2, <2>3
  <1>23. Len(lh') + Cardinality(Owed') + 2 <= LOGSIZE
    <2>1. PICK n, l, o, w : /\ n = Cardinality(Active) /\ l = Len(lh)
                            /\ o = Cardinality(Owed') /\ w = Cardinality(W)
      OBVIOUS
    <2>2. n \in Nat /\ l \in Nat /\ o \in Nat /\ w \in Nat /\ outstanding = n
      BY <1>12, <1>22, <2>1, ActiveIsFinite DEF JInv, Inv, Lists, LogList
    <2>3. o <= n * k + w
      <3>1. PICK nk : nk = n * k
        OBVIOUS
      <3>2. nk \in Nat
        BY <1>14, <2>2, <3>1
      <3>3. Cardinality(Owed) <= nk
        BY <1>16, <2>1, <3>1
      <3> QED BY <1>16, <1>22, <2>1, <2>2, <3>1, <3>2, <3>3
    <2>4. l + (n + 1) * (k + 2) <= LOGSIZE
      BY <1>10, <1>13, <2>1, <2>2, JournalAssumption
    <2>5. (n + 1) * (k + 2) = n * k + 2 * n + k + 2
      BY <1>14, <2>2
    <2>6. PICK nk : nk = n * k
      OBVIOUS
    <2>7. nk \in Nat /\ o <= nk + w /\ l + (nk + 2 * n + k + 2) <= LOGSIZE
      BY <1>14, <2>2, <2>3, <2>4, <2>5, <2>6
    <2>8. l + o + 2 <= LOGSIZE
      <3>1. w <= k /\ LOGSIZE \in Nat
        BY <1>14, <2>1, JournalAssumption
      <3> QED BY <1>14, <2>2, <2>7, <3>1
    <2> QED BY <1>10, <2>1, <2>8
  <1> QED BY <1>7, <1>10, <1>19, <1>22, <1>23 DEF Room

\* log_write() takes what it was promised.
LEMMA RoomWrites ==
    ASSUME JInv, Room, NEW p \in Proc, LogWrite(p)
    PROVE  Room'
  <1>1. PICK b : b = Arg(p)[1]
    OBVIOUS
  <1>2. /\ At(p, "log_write") /\ "log_write" \notin Waits /\ Done(p) /\ up' = up
        /\ lh' = IF b \in ToSet(lh) THEN lh ELSE Append(lh, b)
    BY <1>1 DEF LogWrite, Waits
  <1>3. PICK c \in Proc \cup {NONE} : Control(c)
    BY DEF JInv, Roled
  <1>4. PICK s, x, r, H, e : s = todo[p] /\ x = Arg(p) /\ r = Tail(todo[p]) /\ H = Held(p)
                             /\ e = Role(p, c)
    OBVIOUS
  <1>5. Point(s, H, e) /\ Top(s, "log_write", x, r) /\ IsSeq(r)
    BY <1>2, <1>3, <1>4, AtPoint
  <1>6. b \in Homes
    BY <1>1, <1>4, <1>5, LogWritePoint
  <1>7. todo'[p] = r /\ \A q \in Proc : q # p => todo'[q] = todo[q]
    BY <1>2, <1>4, <1>5, BecomesDone DEF JInv
  <1>8. Active' = Active /\ p \in Active
    BY <1>2, LogStep, LogWriteActive DEF JInv
  <1>9. \A q \in Active' : Owes(todo'[q]) \subseteq Owes(todo[q])
    <2>1. Owes(r) \subseteq Owes(s)
      BY <1>5, TailOwes DEF Top
    <2> QED BY <1>4, <1>7, <2>1 DEF Active
  <1>10. CASE b \in ToSet(lh)
    <2>1. lh' = lh
      BY <1>2, <1>10
    <2> QED BY <1>2, <1>8, <1>9, <2>1, RoomKept DEF JInv
  <1>11. CASE b \notin ToSet(lh)
    <2>1. lh \in Seq(Homes) /\ lh' = Append(lh, b)
      BY <1>2, <1>11 DEF JInv, Lists, LogList
    <2>2. /\ Len(lh) \in Nat /\ Len(lh') = Len(lh) + 1
          /\ ToSet(lh) = {lh[i] : i \in 1 .. Len(lh)}
          /\ ToSet(lh') = {lh'[i] : i \in 1 .. Len(lh) + 1}
          /\ \A i \in 1 .. Len(lh) : lh'[i] = lh[i]
          /\ lh'[Len(lh) + 1] = b
      <3>1. PICK g : g = lh'
        OBVIOUS
      <3>2. g \in Seq(Homes) /\ Len(g) = Len(lh) + 1 /\ Len(lh) \in Nat
            /\ (\A i \in 1 .. Len(lh) : g[i] = lh[i]) /\ g[Len(lh) + 1] = b
        BY <1>6, <2>1, <3>1
      <3>3. /\ ToSet(lh) = {lh[i] : i \in 1 .. Len(lh)}
            /\ ToSet(g) = {g[i] : i \in 1 .. Len(lh) + 1}
        BY <2>1, <3>2 DEF ToSet
      <3> QED BY <3>1, <3>2, <3>3
    <2>3. ToSet(lh) \subseteq ToSet(lh') /\ b \in ToSet(lh')
      <3>1. \A i \in 1 .. Len(lh) : i \in 1 .. Len(lh) + 1 /\ lh[i] = lh'[i]
        BY <2>2
      <3>2. Len(lh) + 1 \in 1 .. Len(lh) + 1
        BY <2>2
      <3> QED BY <2>2, <3>1, <3>2
    <2>4. b \in Owes(todo[p])
      <3>1. /\ IsSeq(s) /\ s # <<>> /\ Head(s) = <<"log_write", x>>
        BY <1>5 DEF Top
      <3>2. s[1] = <<"log_write", x>> /\ Len(s) \in Nat \ {0}
        BY <3>1, TailOfStack
      <3>3. 1 \in 1 .. Len(s) /\ s[1][1] = "log_write" /\ s[1][2] = x
        BY <3>2
      <3> QED BY <1>1, <1>4, <1>6, <3>3 DEF Owes
    <2>5. PICK y : y = <<p, b>>
      OBVIOUS
    <2>6. y \in Owed /\ Owed' \subseteq Owed \ {y}
      <3>1. y[1] = p /\ y[2] = b /\ y \in Active \X Homes
        BY <1>6, <1>8, <2>5
      <3>2. y \in Owed
        BY <1>11, <2>4, <3>1 DEF Owed
      <3>3. Owed' \subseteq Owed
        BY <1>8, <1>9, <2>3 DEF Owed
      <3>4. y \notin Owed'
        BY <2>3, <3>1 DEF Owed
      <3> QED BY <3>2, <3>3, <3>4
    <2>7. /\ up /\ IsFiniteSet(Owed) /\ Len(lh) + Cardinality(Owed) + 2 <= LOGSIZE
          /\ \A q \in Active : /\ IsFiniteSet(Owes(todo[q]))
                               /\ Cardinality(Owes(todo[q])) + 2 <= MAXOPBLOCKS
      BY <1>8 DEF Room
    <2>8. /\ IsFiniteSet(Owed') /\ Cardinality(Owed') <= Cardinality(Owed) - 1
          /\ Cardinality(Owed') \in Nat /\ Cardinality(Owed) \in Nat
      <3>1. IsFiniteSet(Owed \ {y}) /\ Cardinality(Owed \ {y}) = Cardinality(Owed) - 1
        BY <2>6, <2>7, FS_RemoveElement
      <3>2. IsFiniteSet(Owed') /\ Cardinality(Owed') <= Cardinality(Owed \ {y})
        BY <2>6, <3>1, FS_Subset
      <3> QED BY <2>7, <3>1, <3>2, FS_CardinalityType
    <2>9. Len(lh') + Cardinality(Owed') + 2 <= LOGSIZE
      BY <2>2, <2>7, <2>8, JournalAssumption
    <2>10. \A q \in Active' : /\ IsFiniteSet(Owes(todo'[q]))
                              /\ Cardinality(Owes(todo'[q])) + 2 <= MAXOPBLOCKS
      <3>1. ASSUME NEW q \in Active'
            PROVE  IsFiniteSet(Owes(todo'[q])) /\ Cardinality(Owes(todo'[q])) + 2 <= MAXOPBLOCKS
        <4>1. /\ IsFiniteSet(Owes(todo'[q])) /\ Cardinality(Owes(todo'[q])) <= Cardinality(Owes(todo[q]))
              /\ Cardinality(Owes(todo'[q])) \in Nat /\ Cardinality(Owes(todo[q])) \in Nat
          BY <1>8, <1>9, <2>7, FS_Subset, FS_CardinalityType
        <4> QED BY <1>8, <2>7, <4>1, JournalAssumption
      <3> QED BY <3>1
    <2> QED BY <1>2, <2>7, <2>8, <2>9, <2>10 DEF Room
  <1> QED BY <1>10, <1>11

\* Whoever commits or recovers, no call is in progress.
LEMMA CommitterAlone ==
    ASSUME JInv, Room, NEW p \in Proc,
           \/ WriteLog(p) \/ CopyToLog(p) \/ InstallTrans(p) \/ CopyHome(p)
           \/ Clear(p) \/ WriteHead(p) \/ ReadHead(p) \/ Up(p) \/ Committed(p)
    PROVE  Active = {}
  <1>1. PICK c \in Proc \cup {NONE} : Control(c)
    BY DEF JInv, Roled
  <1>2. PICK l \in {"write_log", "to_log", "install", "to_home", "clear", "write_head",
                    "read_head", "up", "committed"} : At(p, l)
    BY DEF WriteLog, CopyToLog, InstallTrans, CopyHome, Clear, WriteHead, ReadHead, Up,
           Committed
  <1>3. PICK s, x, r, H, e : s = todo[p] /\ x = Arg(p) /\ r = Tail(todo[p]) /\ H = Held(p)
                             /\ e = Role(p, c)
    OBVIOUS
  <1>4. l \notin Waits
    BY <1>2 DEF Waits
  <1>5. Point(s, H, e) /\ Top(s, l, x, r)
    BY <1>1, <1>2, <1>3, <1>4, AtPoint
  <1>6. e # "call"
    <2>1. CASE l = "write_log"
      BY <1>5, <2>1, WriteLogPoint
    <2>2. CASE l = "to_log"
      BY <1>5, <2>2, ToLogPoint
    <2>3. CASE l = "install"
      BY <1>5, <2>3, InstallPoint
    <2>4. CASE l = "to_home"
      BY <1>5, <2>4, ToHomePoint
    <2>5. CASE l = "clear"
      BY <1>5, <2>5, ClearPoint
    <2>6. CASE l = "write_head"
      BY <1>5, <2>6, WriteHeadPoint
    <2>7. CASE l = "read_head"
      BY <1>5, <2>7, ReadHeadPoint
    <2>8. CASE l \in {"up", "committed"}
      BY <1>5, <2>8, LastPoint
    <2> QED BY <1>2, <2>1, <2>2, <2>3, <2>4, <2>5, <2>6, <2>7, <2>8
  <1>7. c # NONE
    BY <1>3, <1>6, JournalAssumption DEF Role
  <1>8. ~ up \/ committing
    BY <1>1, <1>7 DEF Control, JInv, Inv
  <1>9. CASE ~ up
    BY <1>9 DEF Room
  <1>10. CASE committing
    BY <1>10, ActiveIsFinite DEF JInv, Inv
  <1> QED BY <1>8, <1>9, <1>10

\* One frame of a call gives way to at most one other, which is no log_write().
LEMMA RoomGoesOn ==
    ASSUME JInv, Room, up' = up, lh' = lh, Active' = Active, NEW p \in Proc, todo[p] # <<>>,
           \/ Do(p, <<>>)
           \/ \E l \in {"sleep", "acquire", "iderw"} : \E x : Do(p, << <<l, x>> >>)
    PROVE  Room'
  <1>1. PICK s, r : s = todo[p] /\ r = Tail(todo[p])
    OBVIOUS
  <1>2. IsSeq(s) /\ s # <<>> /\ IsSeq(r)
    <2>1. IsSeq(s) /\ s # <<>>
      BY <1>1 DEF JInv, Inv, Stacks, Shaped
    <2> QED BY <1>1, <2>1, TailOfStack
  <1>3. Owes(r) \subseteq Owes(s)
    BY <1>1, <1>2, TailOwes
  <1>4. Owes(todo'[p]) \subseteq Owes(s) /\ \A q \in Proc : q # p => todo'[q] = todo[q]
    <2>1. CASE Do(p, <<>>)
      <3>1. todo'[p] = r /\ \A q \in Proc : q # p => todo'[q] = todo[q]
        BY <1>1, <1>2, <2>1, Becomes, NoFrames DEF JInv
      <3> QED BY <1>3, <3>1
    <2>2. ASSUME NEW l \in {"sleep", "acquire", "iderw"}, NEW x, Do(p, << <<l, x>> >>)
          PROVE  Owes(todo'[p]) \subseteq Owes(s) /\ \A q \in Proc : q # p => todo'[q] = todo[q]
      <3>1. PICK f : f = <<l, x>>
        OBVIOUS
      <3>2. f[1] # "log_write"
        BY <3>1
      <3>3. todo'[p] = Push(f, r) /\ \A q \in Proc : q # p => todo'[q] = todo[q]
        BY <1>1, <2>2, <3>1, Becomes DEF JInv, Push
      <3>4. Owes(Push(f, r)) = Owes(r)
        BY <1>2, <3>2, PushOwes
      <3> QED BY <1>3, <3>3, <3>4
    <2> QED BY <2>1, <2>2
  <1>5. \A q \in Active' : Owes(todo'[q]) \subseteq Owes(todo[q])
    BY <1>1, <1>4 DEF Active
  <1> QED BY <1>5, RoomKept DEF JInv

\* The call that ends, and those it wakes up, owe nothing.
LEMMA RoomEnds ==
    ASSUME JInv, Room, NEW p \in Proc, EndOp(p)
    PROVE  Room'
  <1>1. Active' = Active \ {p} /\ UNCHANGED <<lh, up>>
    BY EndStep DEF JInv, EndOp
  <1>2. ASSUME NEW q \in Active'
        PROVE  todo'[q] = todo[q]
    <2>1. q \in Proc /\ q # p /\ Ends(todo[q])
      BY <1>1, <1>2 DEF Active
    <2>2. CASE outstanding = 1
      <3>1. Do(p, commit)
        BY <2>2 DEF EndOp
      <3> QED BY <2>1, <3>1, Becomes DEF JInv
    <2>3. CASE outstanding # 1
      <3>1. ~ At(q, "asleep")
        <4>1. SUFFICES ASSUME At(q, "asleep") PROVE FALSE
          OBVIOUS
        <4>2. Shaped(todo[q]) /\ todo[q] # <<>> /\ Head(todo[q])[1] \in Begins
          BY <2>1, <4>1 DEF JInv, Inv, Stacks, At, Begins
        <4> QED BY <2>1, <4>2, AtBeginning
      <3>2. todo' = Woken(p, <<>>)
        BY <2>3 DEF EndOp
      <3> QED BY <2>1, <3>1, <3>2 DEF Woken
    <2> QED BY <2>2, <2>3
  <1>3. \A q \in Active' : Owes(todo'[q]) \subseteq Owes(todo[q])
    BY <1>2
  <1> QED BY <1>1, <1>3, RoomKept DEF JInv

\* Who makes a call, or goes to sleep in begin_op(), is not active yet.
LEMMA RoomWaits ==
    ASSUME JInv, Room, NEW p \in Proc, BeginOpSleeps(p) \/ CallWrites(p) \/ CallReads(p)
    PROVE  Room'
  <1>1. Active' = Active /\ UNCHANGED <<lh, up>>
    BY BeginSleepStep, CallStep DEF JInv, BeginOpSleeps, CallWrites, CallReads, log
  <1>2. p \notin Active
    <2>1. CASE BeginOpSleeps(p)
      <3>1. Shaped(todo[p]) /\ todo[p] # <<>> /\ Head(todo[p])[1] \in Begins
        BY <2>1 DEF JInv, Inv, Stacks, BeginOpSleeps, At, Begins
      <3> QED BY <3>1, AtBeginning DEF Active
    <2>2. CASE CallWrites(p) \/ CallReads(p)
      <3>1. todo[p] = <<>>
        BY <2>2 DEF CallWrites, CallReads
      <3> QED BY <3>1, Plain0, PlainIsShaped DEF Active
    <2> QED BY <2>1, <2>2
  <1>3. \A q \in Proc : q # p => todo'[q] = todo[q]
    <2>1. todo = [q \in Proc |-> todo[q]]
      BY DEF JInv, Inv, Stacks
    <2>2. \E s : todo' = [todo EXCEPT ![p] = s]
      BY DEF BeginOpSleeps, Do, CallWrites, CallReads
    <2> QED BY <2>1, <2>2
  <1>4. \A q \in Active' : Owes(todo'[q]) \subseteq Owes(todo[q])
    BY <1>1, <1>2, <1>3 DEF Active
  <1> QED BY <1>1, <1>4, RoomKept DEF JInv

LEMMA RoomStep ==
    ASSUME JInv, Room, Slack, [Next]_vars
    PROVE  Room'
  <1>0. Inv
    BY DEF JInv
  <1>1. CASE UNCHANGED vars \/ Ideintr
    <2>1. UNCHANGED <<lh, todo, up>>
      BY <1>1 DEF vars, Ideintr, log
    <2>2. Active' = Active
      BY <2>1 DEF Active
    <2>3. \A q \in Active' : Owes(todo'[q]) \subseteq Owes(todo[q])
      BY <2>1
    <2> QED BY <1>0, <2>1, <2>2, <2>3, RoomKept
  <1>2. CASE Crash
    <2>1. Active' = {}
      BY <1>0, <1>2, CrashStep
    <2> QED BY <2>1 DEF Room
  <1>3. ASSUME NEW p \in Proc, Step(p) \/ CallWrites(p) \/ CallReads(p)
        PROVE  Room'
    <2>1. CASE \/ Iderw(p) \/ IderwReturns(p) \/ BgetFinds(p) \/ BgetRecycles(p)
               \/ Acquire(p) \/ Brelse(p)
      <3>1. Active' = Active
        BY <1>0, <2>1, DiskStep, BufferStep
      <3>2. /\ up' = up /\ lh' = lh /\ todo[p] # <<>>
            /\ \/ Do(p, <<>>)
               \/ \E l \in {"sleep", "acquire", "iderw"} : \E x : Do(p, << <<l, x>> >>)
        BY <2>1 DEF Iderw, IderwReturns, BgetFinds, BgetRecycles, Acquire, Brelse, Done, At, log
      <3> QED BY <3>1, <3>2, RoomGoesOn
    <2>2. CASE BeginOp(p)
      BY <2>2, RoomBegins
    <2>3. CASE BeginOpSleeps(p) \/ CallWrites(p) \/ CallReads(p)
      BY <2>3, RoomWaits
    <2>4. CASE LogWrite(p)
      BY <2>4, RoomWrites
    <2>5. CASE EndOp(p)
      BY <2>5, RoomEnds
    <2>6. CASE \/ WriteLog(p) \/ CopyToLog(p) \/ InstallTrans(p) \/ CopyHome(p)
               \/ Clear(p) \/ WriteHead(p) \/ ReadHead(p) \/ Up(p) \/ Committed(p)
      <3>1. Active = {}
        BY <2>6, CommitterAlone
      <3>2. Active' = Active
        BY <1>0, <2>6, LogStep, CommittedStep
      <3> QED BY <3>1, <3>2 DEF Room
    <2> QED BY <1>3, <2>1, <2>2, <2>3, <2>4, <2>5, <2>6 DEF Step
  <1> QED BY <1>1, <1>2, <1>3 DEF Next

\* No process gets to a panic() of log.c, ide.c or brelse().
NoMisuse ==
    \A p \in Proc :
        ~ (LogWritePanics(p) \/ IderwPanics(p) \/ BrelsePanics(p) \/ EndOpPanics(p))

LEMMA WellUsed ==
    ASSUME JInv, Room
    PROVE  NoMisuse
  <1>1. PICK c \in Proc \cup {NONE} : Control(c)
    BY DEF JInv, Roled
  <1>2. SUFFICES ASSUME NEW p \in Proc
                 PROVE  ~ (LogWritePanics(p) \/ IderwPanics(p) \/ BrelsePanics(p) \/ EndOpPanics(p))
    BY DEF NoMisuse
  <1>3. PICK s, x, r, H, e : s = todo[p] /\ x = Arg(p) /\ r = Tail(todo[p]) /\ H = Held(p)
                             /\ e = Role(p, c)
    OBVIOUS
  <1>4. p \in Active => outstanding >= 1 /\ ~ committing /\ outstanding \in Nat
    BY ActiveIsFinite DEF JInv, Inv
  <1>5. ASSUME At(p, "log_write")
        PROVE  ~ LogWritePanics(p)
    <2>1. p \in Active
      BY <1>5, LogWriteActive
    <2>2. Len(lh) + Cardinality(Owed) + 2 <= LOGSIZE /\ IsFiniteSet(Owed)
      BY <2>1 DEF Room
    <2>3. Len(lh) \in Nat /\ Cardinality(Owed) \in Nat
      BY <2>2, FS_CardinalityType DEF JInv, Lists, LogList
    <2>4. ~ (Len(lh) >= LOGSIZE - 1)
      BY <2>2, <2>3, JournalAssumption
    <2>5. "log_write" \notin Waits
      BY DEF Waits
    <2>6. H = {x[1]}
      <3>1. Point(s, H, e) /\ Top(s, "log_write", x, r)
        BY <1>1, <1>3, <1>5, <2>5, AtPoint
      <3> QED BY <3>1, LogWritePoint
    <2>7. cache[x[1]].holder = p
      BY <1>3, <2>6 DEF Held
    <2>8. outstanding >= 1 /\ outstanding \in Nat
      BY <1>4, <2>1
    <2>9. ~ (outstanding < 1)
      BY <2>8
    <2> QED BY <1>3, <2>4, <2>7, <2>9 DEF LogWritePanics
  <1>6. ASSUME At(p, "iderw")
        PROVE  ~ IderwPanics(p)
    <2>1. "iderw" \in Waits
      BY DEF Waits
    <2>2. /\ x \in H
          /\ (x \notin Dirty /\ ~ cache[x].valid) \/ x \in Dirty
      BY <1>1, <1>3, <1>6, <2>1, AtWait
    <2>3. cache[x].holder = p
      BY <1>3, <2>2 DEF Held
    <2>4. ~ Clean(x)
      BY <2>2 DEF Clean, Dirty
    <2> QED BY <1>3, <2>3, <2>4 DEF IderwPanics
  <1>7. ASSUME At(p, "brelse")
        PROVE  ~ BrelsePanics(p)
    <2>1. "brelse" \notin Waits
      BY DEF Waits
    <2>2. Point(s, H, e) /\ Top(s, "brelse", x, r)
      BY <1>1, <1>3, <1>7, <2>1, AtPoint
    <2>3. x \in H
      BY <2>2, BrelsePoint DEF JInv, Lists
    <2> QED BY <1>3, <2>3 DEF Held, BrelsePanics
  <1>8. ASSUME At(p, "end_op")
        PROVE  ~ EndOpPanics(p)
    <2>1. Shaped(todo[p]) /\ todo[p] # <<>> /\ Head(todo[p])[1] = "end_op"
      BY <1>8 DEF JInv, Inv, Stacks, At
    <2>2. p \in Active
      BY <2>1, AtEnd DEF Active
    <2> QED BY <1>4, <2>2 DEF EndOpPanics
  <1> QED BY <1>5, <1>6, <1>7, <1>8
      DEF LogWritePanics, IderwPanics, BrelsePanics, EndOpPanics

\* What begin_op() reserves is enough for calls that write two blocks less
\* than MAXOPBLOCKS, as those of filewrite() do (file.c:130): no log_write() finds the log full or runs outside a transaction (log.c:218),
\* no end_op() a commit (log.c:153), and bwrite(), brelse() and iderw() get
\* only buffers that the process has locked and that need the disk
\* (bio.c:115, bio.c:124, ide.c:145), however many calls run.
THEOREM ReservationSuffices ==
    ASSUME Slack
    PROVE  Spec => []NoMisuse
  <1>1. Init => JInv /\ Room
    <2> SUFFICES ASSUME Init PROVE JInv /\ Room
      OBVIOUS
    <2> QED BY Starts, InitInv DEF Room
  <1>2. JInv /\ Room /\ [Next]_vars => JInv' /\ Room'
    BY AnyStep, RoomStep
  <1>3. JInv /\ Room => NoMisuse
    BY WellUsed
  <1> QED BY <1>1, <1>2, <1>3, PTL DEF Spec

=============================================================================
