----------------------------- MODULE Shell_proofs -----------------------------
(***************************************************************************)
(* The safety of the pipes, the open files and the console under the shell, *)
(* for any commands, any number of processes, files, descriptors and pipes, *)
(* and any sizes of the buffers.  The first part is about the ring of a     *)
(* pipe, the second about the stacks of frames that stand for what programs *)
(* have still to do, the third has a lemma for each step of a process, and *)
(* the last one says of each step that whoever sleeps after it has a reason.*)
(***************************************************************************)
EXTENDS Shell, SequenceTheorems, FiniteSetTheorems, WellFoundedInduction, TLAPS

-----------------------------------------------------------------------------
(* The ring of a pipe is a bounded queue of bytes, whatever its size and    *)
(* wherever its counters wrap around.                                      *)

\* Dividing by PIPESIZE leaves a quotient and a remainder.
LEMMA Division ==
    ASSUME NEW a \in Nat
    PROVE  /\ a % PIPESIZE \in 0 .. PIPESIZE - 1
           /\ \E q \in Nat : a = PIPESIZE * q + (a % PIPESIZE)
  <1>1. PIPESIZE \in Nat /\ PIPESIZE > 0
    BY PipeAssumption
  <1>2. a % PIPESIZE \in 0 .. PIPESIZE - 1 /\ a \div PIPESIZE \in Nat
        /\ a = PIPESIZE * (a \div PIPESIZE) + (a % PIPESIZE)
    BY <1>1
  <1> QED BY <1>2

LEMMA Distributes ==
    ASSUME NEW n \in Int, NEW x \in Int, NEW y \in Int
    PROVE  /\ n * (x - y) = n * x - n * y
           /\ n * (x + y) = n * x + n * y
  OBVIOUS

\* No multiple of PIPESIZE lies strictly between 0 and PIPESIZE.
LEMMA NoMultiple ==
    ASSUME NEW j \in Int
    PROVE  PIPESIZE * j <= 0 \/ PIPESIZE * j >= PIPESIZE
  <1>1. PIPESIZE \in Nat /\ PIPESIZE > 0
    BY PipeAssumption
  <1>2. CASE j <= 0
    BY <1>1, <1>2
  <1>3. CASE j >= 1
    BY <1>1, <1>3
  <1> QED BY <1>2, <1>3

\* A counter that moves on stays a counter.
LEMMA PlusIsCounter ==
    ASSUME NEW c \in 0 .. WRAP - 1, NEW n \in 0 .. WRAP
    PROVE  Plus(c, n) \in 0 .. WRAP - 1
  <1>1. WRAP \in Nat /\ c + n < WRAP + WRAP
    BY PipeAssumption
  <1> QED BY <1>1 DEF Plus

LEMMA PlusPlus ==
    ASSUME NEW c \in 0 .. WRAP - 1, NEW m \in Nat, NEW n \in Nat, m + n <= PIPESIZE
    PROVE  Plus(Plus(c, m), n) = Plus(c, m + n)
  BY PipeAssumption DEF Plus

LEMMA StepsOfPlus ==
    ASSUME NEW c \in 0 .. WRAP - 1, NEW n \in 0 .. PIPESIZE
    PROVE  Steps(c, Plus(c, n)) = n
  BY PipeAssumption DEF Plus, Steps

LEMMA PlusOfSteps ==
    ASSUME NEW a \in 0 .. WRAP - 1, NEW b \in 0 .. WRAP - 1
    PROVE  Steps(a, b) \in 0 .. WRAP - 1 /\ Plus(a, Steps(a, b)) = b
  BY PipeAssumption DEF Plus, Steps

\* Two counters less than PIPESIZE apart are at different places of the ring.
LEMMA PlacesDiffer ==
    ASSUME NEW c \in 0 .. WRAP - 1, NEW d \in 1 .. PIPESIZE - 1
    PROVE  Plus(c, d) % PIPESIZE # c % PIPESIZE
  <1> DEFINE b == Plus(c, d)
  <1>1. /\ PIPESIZE \in Nat /\ PIPESIZE > 0 /\ WRAP \in Nat /\ WRAP > PIPESIZE
        /\ WRAP % PIPESIZE = 0
    BY PipeAssumption
  <1>2. b \in Nat /\ c \in Nat /\ d \in Nat /\ (b = c + d \/ b = c + d - WRAP)
    BY <1>1, PlusIsCounter DEF Plus
  <1>3. PICK qc \in Nat : c = PIPESIZE * qc + (c % PIPESIZE)
    BY <1>2, Division
  <1>4. PICK qb \in Nat : b = PIPESIZE * qb + (b % PIPESIZE)
    BY <1>2, Division
  <1>5. PICK k \in Nat : WRAP = PIPESIZE * k
    <2>1. PICK k \in Nat : WRAP = PIPESIZE * k + (WRAP % PIPESIZE)
      BY <1>1, Division
    <2> QED BY <1>1, <2>1
  <1>6. SUFFICES ASSUME b % PIPESIZE = c % PIPESIZE
                 PROVE  FALSE
    OBVIOUS
  <1> HIDE DEF b
  <1>7. c % PIPESIZE \in Int /\ b % PIPESIZE \in Int
    BY <1>2, Division
  <1>8. CASE b = c + d
    <2>1. d = PIPESIZE * qb - PIPESIZE * qc
      BY <1>2, <1>3, <1>4, <1>6, <1>7, <1>8, <1>1
    <2>2. d = PIPESIZE * (qb - qc) /\ qb - qc \in Int
      BY <2>1, <1>1, Distributes
    <2>3. PIPESIZE * (qb - qc) <= 0 \/ PIPESIZE * (qb - qc) >= PIPESIZE
      BY <2>2, NoMultiple
    <2> QED BY <2>2, <2>3, <1>1, d > 0, d < PIPESIZE
  <1>9. CASE b = c + d - WRAP
    <2>1. d = PIPESIZE * qb - PIPESIZE * qc + PIPESIZE * k
      BY <1>2, <1>3, <1>4, <1>5, <1>6, <1>7, <1>9, <1>1
    <2>2. PIPESIZE * qb - PIPESIZE * qc = PIPESIZE * (qb - qc) /\ qb - qc \in Int
      BY <1>1, Distributes
    <2>3. PIPESIZE * (qb - qc) + PIPESIZE * k = PIPESIZE * (qb - qc + k)
      BY <2>2, <1>1, Distributes
    <2>4. d = PIPESIZE * (qb - qc + k) /\ qb - qc + k \in Int
      BY <2>1, <2>2, <2>3, <1>1
    <2>5. PIPESIZE * (qb - qc + k) <= 0 \/ PIPESIZE * (qb - qc + k) >= PIPESIZE
      BY <2>4, NoMultiple
    <2> QED BY <2>4, <2>5, <1>1, d > 0, d < PIPESIZE
  <1> QED BY <1>2, <1>8, <1>9

\* The number of bytes is that of the steps from nread to nwrite.
LEMMA UsedIsDistance ==
    ASSUME NEW r, Valid(r)
    PROVE  /\ Used(r) \in 0 .. PIPESIZE
           /\ r.nwrite = Plus(r.nread, Used(r))
           /\ IsEmpty(r) <=> Used(r) = 0
           /\ IsFull(r) <=> Used(r) = PIPESIZE
  <1>1. /\ PIPESIZE \in Nat /\ WRAP \in Nat /\ WRAP > PIPESIZE /\ PIPESIZE > 0
        /\ r.nread \in 0 .. WRAP - 1 /\ r.nwrite \in 0 .. WRAP - 1
        /\ Used(r) <= PIPESIZE
    BY PipeAssumption DEF Valid, Ring
  <1>2. Used(r) \in 0 .. PIPESIZE /\ r.nwrite = Plus(r.nread, Used(r))
    <2>1. Used(r) \in 0 .. WRAP - 1 /\ r.nwrite = Plus(r.nread, Used(r))
      BY <1>1, PlusOfSteps DEF Used
    <2>2. Used(r) \in Nat
      BY <2>1, <1>1
    <2> QED BY <2>1, <2>2, <1>1
  <1>3. IsEmpty(r) <=> Used(r) = 0
    BY <1>1 DEF Used, Steps, IsEmpty
  <1>4. IsFull(r) <=> Used(r) = PIPESIZE
    BY <1>1, <1>2, StepsOfPlus DEF Used, IsFull
  <1> QED BY <1>2, <1>3, <1>4

\* A byte written to a ring that is not full comes after those it holds
\* (pipe.c:93).
THEOREM PutAppends ==
    ASSUME NEW r, Valid(r), ~ IsFull(r), NEW c \in Byte
    PROVE  Valid(PutByte(r, c)) /\ Bytes(PutByte(r, c)) = Append(Bytes(r), c)
  <1> DEFINE u == Used(r)
             s == PutByte(r, c)
             at == r.nwrite % PIPESIZE
  <1>1. /\ PIPESIZE \in Nat /\ WRAP \in Nat /\ WRAP > PIPESIZE /\ PIPESIZE > 0
        /\ r.nread \in 0 .. WRAP - 1 /\ r.nwrite \in 0 .. WRAP - 1
        /\ r.data \in [0 .. PIPESIZE - 1 -> Byte] /\ r \in Ring
    BY PipeAssumption DEF Valid, Ring
  <1>2. u \in 0 .. PIPESIZE - 1 /\ r.nwrite = Plus(r.nread, u)
    BY UsedIsDistance, <1>1
  <1>3. at \in 0 .. PIPESIZE - 1
    BY <1>1, Division
  <1>4. /\ s.data = [r.data EXCEPT ![at] = c] /\ s.nread = r.nread
        /\ s.nwrite = Plus(r.nwrite, 1)
    BY <1>1 DEF PutByte, Ring
  <1>5. Plus(r.nwrite, 1) \in 0 .. WRAP - 1
    BY <1>1 DEF Plus
  <1>6. s \in Ring
    BY <1>1, <1>3, <1>5 DEF PutByte, Ring
  <1>7. Used(s) = u + 1
    <2> HIDE DEF s, u
    <2>1. s.nwrite = Plus(r.nread, u + 1)
      BY <1>1, <1>2, <1>4, PlusPlus
    <2> QED BY <2>1, <1>1, <1>2, <1>4, StepsOfPlus DEF Used
  <1>8. Valid(s)
    BY <1>1, <1>2, <1>6, <1>7 DEF Valid
  <1>9. ASSUME NEW i \in 1 .. u
        PROVE  Plus(r.nread, i - 1) % PIPESIZE \in 0 .. PIPESIZE - 1
               /\ Plus(r.nread, i - 1) % PIPESIZE # at
    <2> DEFINE p == Plus(r.nread, i - 1)
               d == u - (i - 1)
    <2>1. i - 1 \in 0 .. WRAP /\ d \in 1 .. PIPESIZE - 1
      BY <1>1, <1>2
    <2>2. p \in 0 .. WRAP - 1
      BY <1>1, <2>1 DEF Plus
    <2>3. Plus(p, d) = r.nwrite
      <3> HIDE DEF u
      <3>1. i - 1 \in Nat /\ d \in Nat /\ (i - 1) + d = u /\ u <= PIPESIZE
        BY <1>1, <1>2, <2>1
      <3> QED BY <3>1, <1>1, <1>2, PlusPlus
    <2>4. Plus(p, d) % PIPESIZE # p % PIPESIZE
      BY <2>1, <2>2, PlacesDiffer
    <2>5. p \in Nat
      BY <2>2, <1>1
    <2> QED BY <2>3, <2>4, <2>5, Division
  <1> HIDE DEF s
  <1>10. ASSUME NEW i \in 1 .. u + 1
         PROVE  s.data[Plus(s.nread, i - 1) % PIPESIZE]
                  = IF i <= u THEN r.data[Plus(r.nread, i - 1) % PIPESIZE] ELSE c
    <2>1. CASE i <= u
      <3>1. i \in 1 .. u
        BY <2>1, <1>2
      <3> QED BY <3>1, <1>4, <1>9, <1>1, <2>1
    <2>2. CASE ~ (i <= u)
      <3>1. i - 1 = u
        BY <2>2, <1>2
      <3>2. Plus(s.nread, i - 1) % PIPESIZE = at
        BY <3>1, <1>2, <1>4
      <3> QED BY <3>2, <1>3, <1>4, <1>1, <2>2
    <2> QED BY <2>1, <2>2
  <1>11. Bytes(s) = [i \in 1 .. u + 1 |->
                       IF i <= u THEN r.data[Plus(r.nread, i - 1) % PIPESIZE] ELSE c]
    BY <1>7, <1>10 DEF Bytes
  <1>12. Bytes(r) = [i \in 1 .. u |-> r.data[Plus(r.nread, i - 1) % PIPESIZE]]
    BY DEF Bytes
  <1>13. Bytes(r) \in Seq(Byte) /\ Len(Bytes(r)) = u
    <2>1. \A i \in 1 .. u : r.data[Plus(r.nread, i - 1) % PIPESIZE] \in Byte
      BY <1>9, <1>1
    <2>2. Bytes(r) \in [1 .. u -> Byte]
      BY <1>12, <2>1
    <2> QED BY <2>2, <1>2, <1>1
  <1>14. Append(Bytes(r), c) = [i \in 1 .. u + 1 |->
                       IF i <= u THEN r.data[Plus(r.nread, i - 1) % PIPESIZE] ELSE c]
    <2> HIDE DEF u
    <2> DEFINE t == [i \in 1 .. u + 1 |-> IF i <= u THEN Bytes(r)[i] ELSE c]
    <2>3. \A i \in 1 .. u + 1 : (IF i <= u THEN Bytes(r)[i] ELSE c) \in Byte
      BY <1>2, <1>13
    <2>4. t \in Seq(Byte) /\ Len(t) = u + 1
      BY <2>3, <1>2
    <2>5. /\ Append(Bytes(r), c) \in Seq(Byte) /\ Len(Append(Bytes(r), c)) = u + 1
          /\ \A i \in 1 .. u : Append(Bytes(r), c)[i] = Bytes(r)[i]
          /\ Append(Bytes(r), c)[u + 1] = c
      BY <1>13, AppendProperties
    <2>6. \A i \in 1 .. u + 1 : Append(Bytes(r), c)[i] = t[i]
      BY <2>5, <1>2
    <2>1. Append(Bytes(r), c) = t
      <3> HIDE DEF t
      <3> QED BY <2>4, <2>5, <2>6, SeqEqual
    <2>2. \A i \in 1 .. u + 1 : i <= u =>
             Bytes(r)[i] = r.data[Plus(r.nread, i - 1) % PIPESIZE]
      BY <1>2, <1>12
    <2> QED BY <2>1, <2>2
  <1> QED BY <1>8, <1>11, <1>14 DEF s

\* What is read from a ring that is not empty is the byte that has been in it
\* for longest (pipe.c:116).
THEOREM TakeIsFirst ==
    ASSUME NEW r, Valid(r), ~ IsEmpty(r)
    PROVE  /\ Valid(DropByte(r))
           /\ Bytes(r) # <<>>
           /\ NextByte(r) = Head(Bytes(r))
           /\ Bytes(DropByte(r)) = Tail(Bytes(r))
  <1> DEFINE u == Used(r)
             s == DropByte(r)
  <1>1. /\ PIPESIZE \in Nat /\ WRAP \in Nat /\ WRAP > PIPESIZE /\ PIPESIZE > 0
        /\ r.nread \in 0 .. WRAP - 1 /\ r.nwrite \in 0 .. WRAP - 1
        /\ r.data \in [0 .. PIPESIZE - 1 -> Byte] /\ r \in Ring
    BY PipeAssumption DEF Valid, Ring
  <1>2. u \in 1 .. PIPESIZE /\ r.nwrite = Plus(r.nread, u)
    BY UsedIsDistance, <1>1
  <1>3. s.data = r.data /\ s.nread = Plus(r.nread, 1) /\ s.nwrite = r.nwrite
    BY <1>1 DEF DropByte, Ring
  <1>4. Plus(r.nread, 1) \in 0 .. WRAP - 1
    BY <1>1 DEF Plus
  <1>5. s \in Ring
    BY <1>1, <1>4 DEF DropByte, Ring
  <1>6. Used(s) = u - 1
    <2> HIDE DEF s, u
    <2>1. u - 1 \in Nat /\ 1 + (u - 1) = u /\ u <= PIPESIZE /\ u - 1 \in 0 .. PIPESIZE
      BY <1>1, <1>2
    <2>2. s.nwrite = Plus(s.nread, u - 1)
      BY <2>1, <1>1, <1>2, <1>3, PlusPlus
    <2> QED BY <2>1, <2>2, <1>3, <1>4, StepsOfPlus DEF Used
  <1>7. Valid(s)
    BY <1>1, <1>2, <1>5, <1>6 DEF Valid
  <1>8. \A i \in 1 .. u : r.data[Plus(r.nread, i - 1) % PIPESIZE] \in Byte
    <2> SUFFICES ASSUME NEW i \in 1 .. u
                 PROVE  r.data[Plus(r.nread, i - 1) % PIPESIZE] \in Byte
      OBVIOUS
    <2>1. Plus(r.nread, i - 1) \in 0 .. WRAP - 1
      <3> HIDE DEF u
      <3>1. i - 1 \in 0 .. WRAP
        BY <1>1, <1>2
      <3> QED BY <3>1, <1>1, PlusIsCounter
    <2>2. Plus(r.nread, i - 1) % PIPESIZE \in 0 .. PIPESIZE - 1
      BY <2>1, <1>1, Division
    <2> QED BY <2>2, <1>1
  <1>9. Bytes(r) = [i \in 1 .. u |-> r.data[Plus(r.nread, i - 1) % PIPESIZE]]
    BY DEF Bytes
  <1>10. Bytes(r) \in Seq(Byte) /\ Len(Bytes(r)) = u
    BY <1>1, <1>2, <1>8, <1>9
  <1>11. Bytes(r) # <<>> /\ Head(Bytes(r)) = NextByte(r)
    <2>1. Bytes(r)[1] = r.data[Plus(r.nread, 0) % PIPESIZE]
      BY <1>2, <1>9
    <2>2. Plus(r.nread, 0) = r.nread
      BY <1>1 DEF Plus
    <2> QED BY <2>1, <2>2, <1>2, <1>10 DEF NextByte
  <1>12. Bytes(s) = [i \in 1 .. u - 1 |-> r.data[Plus(r.nread, i) % PIPESIZE]]
    <2> HIDE DEF s
    <2>1. \A i \in 1 .. u - 1 : Plus(s.nread, i - 1) = Plus(r.nread, i)
      BY <1>1, <1>2, <1>3, PlusPlus
    <2> QED BY <2>1, <1>3, <1>6 DEF Bytes
  <1>13. Tail(Bytes(r)) = [i \in 1 .. u - 1 |-> r.data[Plus(r.nread, i) % PIPESIZE]]
    <2> HIDE DEF u
    <2> DEFINE t == [i \in 1 .. u - 1 |-> Bytes(r)[i + 1]]
    <2>3. \A i \in 1 .. u - 1 : Bytes(r)[i + 1] \in Byte
      BY <1>2, <1>10
    <2>4. t \in Seq(Byte) /\ Len(t) = u - 1
      BY <2>3, <1>2
    <2>5. /\ Tail(Bytes(r)) \in Seq(Byte) /\ Len(Tail(Bytes(r))) = u - 1
          /\ \A i \in 1 .. u - 1 : Tail(Bytes(r))[i] = Bytes(r)[i + 1]
      BY <1>10, <1>11, HeadTailProperties
    <2>1. Tail(Bytes(r)) = t
      <3> HIDE DEF t
      <3>1. \A i \in 1 .. Len(Tail(Bytes(r))) : Tail(Bytes(r))[i] = t[i]
        BY <2>5 DEF t
      <3> QED BY <3>1, <2>4, <2>5, SeqEqual
    <2>2. \A i \in 1 .. u - 1 : Bytes(r)[i + 1] = r.data[Plus(r.nread, i) % PIPESIZE]
      BY <1>2, <1>9
    <2> QED BY <2>1, <2>2
  <1> QED BY <1>7, <1>11, <1>12, <1>13

LEMMA LeastNat ==
    ASSUME NEW T \in SUBSET Nat, T # {}
    PROVE  \E m \in T : \A k \in T : m <= k
  <1>1. PICK m \in T : \A k \in T : ~ (<<k, m>> \in OpToRel(<, Nat))
    BY NatLessThanWellFounded, WFMin
  <1>2. \A k \in T : ~ (k < m)
    BY <1>1 DEF OpToRel
  <1> QED BY <1>2

Place(c, i) == Plus(c, i - 1) % PIPESIZE

LEMMA PlaceIsValid ==
    ASSUME NEW c \in 0 .. WRAP - 1, NEW i \in 1 .. PIPESIZE
    PROVE  /\ Plus(c, i - 1) \in 0 .. WRAP - 1
           /\ Place(c, i) \in 0 .. PIPESIZE - 1
  <1>1. PIPESIZE \in Nat /\ WRAP \in Nat /\ WRAP > PIPESIZE
    BY PipeAssumption
  <1>2. Plus(c, i - 1) \in 0 .. WRAP - 1
    BY <1>1, PlusIsCounter
  <1>3. Plus(c, i - 1) \in Nat
    BY <1>1, <1>2
  <1> QED BY <1>2, <1>3, Division DEF Place

\* No two of the places that follow a counter are the same.
LEMMA PlaceIsOwn ==
    ASSUME NEW c \in 0 .. WRAP - 1, NEW i \in 1 .. PIPESIZE, NEW j \in 1 .. PIPESIZE, i < j
    PROVE  Place(c, i) # Place(c, j)
  <1>1. PIPESIZE \in Nat /\ WRAP \in Nat /\ WRAP > PIPESIZE
    BY PipeAssumption
  <1>2. Plus(c, i - 1) \in 0 .. WRAP - 1 /\ j - i \in 1 .. PIPESIZE - 1
    BY <1>1, PlaceIsValid
  <1>3. Plus(Plus(c, i - 1), j - i) = Plus(c, j - 1)
    <2>1. i - 1 \in Nat /\ j - i \in Nat /\ (i - 1) + (j - i) = j - 1 /\ j - 1 <= PIPESIZE
      BY <1>1
    <2> QED BY <2>1, PlusPlus
  <1> QED BY <1>2, <1>3, PlacesDiffer DEF Place

LEMMA BytesFacts ==
    ASSUME NEW r, Valid(r)
    PROVE  Bytes(r) \in Seq(Byte) /\ Len(Bytes(r)) = Used(r)
  <1>1. /\ PIPESIZE \in Nat /\ WRAP \in Nat /\ WRAP > PIPESIZE /\ r.nread \in 0 .. WRAP - 1
        /\ r.data \in [0 .. PIPESIZE - 1 -> Byte] /\ Used(r) \in 0 .. PIPESIZE
    BY PipeAssumption, UsedIsDistance DEF Valid, Ring
  <1>2. ASSUME NEW i \in 1 .. Used(r)
        PROVE  r.data[Plus(r.nread, i - 1) % PIPESIZE] \in Byte
    <2>1. i \in 1 .. PIPESIZE
      BY <1>1
    <2>2. Plus(r.nread, i - 1) % PIPESIZE \in 0 .. PIPESIZE - 1
      BY <1>1, <2>1, PlaceIsValid DEF Place
    <2> QED BY <1>1, <2>2
  <1>3. Bytes(r) \in [1 .. Used(r) -> Byte]
    BY <1>2 DEF Bytes
  <1> QED BY <1>1, <1>3

\* There is such a thing as the turns of the loop of pipewrite().
LEMMA PutTurns ==
    ASSUME NEW r \in Ring, NEW bs \in Seq(Byte), Len(bs) <= PIPESIZE
    PROVE  \E g : g = [k \in 0 .. Len(bs) |-> IF k = 0 THEN r ELSE PutByte(g[k - 1], bs[k])]
  <1> DEFINE n == Len(bs)
             Byt(k, x) == IF \E i \in 1 .. k : Place(r.nwrite, i) = x
                           THEN bs[CHOOSE i \in 1 .. k : Place(r.nwrite, i) = x] ELSE r.data[x]
             D(k) == [x \in 0 .. PIPESIZE - 1 |-> Byt(k, x)]
             W(k) == [data |-> D(k), nread |-> r.nread, nwrite |-> Plus(r.nwrite, k)]
             g == [k \in 0 .. n |-> W(k)]
  <1>1. /\ PIPESIZE \in Nat /\ WRAP \in Nat /\ WRAP > PIPESIZE /\ PIPESIZE > 0
        /\ r.nread \in 0 .. WRAP - 1 /\ r.nwrite \in 0 .. WRAP - 1
        /\ r.data \in [0 .. PIPESIZE - 1 -> Byte] /\ n \in Nat /\ n <= PIPESIZE
    BY PipeAssumption DEF Ring
  <1>2. W(0) = r
    <2>1. \A x : Byt(0, x) = r.data[x]
      OBVIOUS
    <2>2. D(0) = r.data
      BY <1>1, <2>1
    <2>3. Plus(r.nwrite, 0) = r.nwrite
      BY <1>1 DEF Plus
    <2> HIDE DEF D
    <2> QED BY <2>2, <2>3 DEF Ring
  <1>3. ASSUME NEW k \in 1 .. n PROVE W(k) = PutByte(W(k - 1), bs[k])
    <2>1. k - 1 \in Nat /\ k \in 1 .. PIPESIZE
      BY <1>1
    <2>2. \A i \in 1 .. k, j \in 1 .. k : Place(r.nwrite, i) = Place(r.nwrite, j) => i = j
      <3>1. ASSUME NEW i \in 1 .. k, NEW j \in 1 .. k, i < j
            PROVE  Place(r.nwrite, i) # Place(r.nwrite, j)
        <4>1. i \in 1 .. PIPESIZE /\ j \in 1 .. PIPESIZE
          BY <1>1, <2>1
        <4> QED BY <1>1, <3>1, <4>1, PlaceIsOwn
      <3> QED BY <2>1, <3>1
    <2>3. ASSUME NEW x PROVE Byt(k, x) = IF x = Place(r.nwrite, k) THEN bs[k] ELSE Byt(k - 1, x)
      <3>1. CASE x = Place(r.nwrite, k)
        <4>1. (CHOOSE i \in 1 .. k : Place(r.nwrite, i) = x) = k
          BY <2>1, <2>2, <3>1
        <4>2. k \in 1 .. k
          BY <2>1
        <4>3. \E i \in 1 .. k : Place(r.nwrite, i) = x
          BY <3>1, <4>2
        <4> QED BY <3>1, <4>1, <4>3, Zenon
      <3>2. CASE x # Place(r.nwrite, k)
        <4>1. \A i \in 1 .. k : Place(r.nwrite, i) = x => i \in 1 .. k - 1
          BY <2>1, <3>2
        <4>2. \A i \in 1 .. k - 1 : i \in 1 .. k
          BY <2>1
        <4>3. CASE \E i \in 1 .. k : Place(r.nwrite, i) = x
          <5>1. PICK i \in 1 .. k : Place(r.nwrite, i) = x
            BY <4>3
          <5>2. (CHOOSE j \in 1 .. k : Place(r.nwrite, j) = x) = i
            BY <2>2, <5>1
          <5>3. i \in 1 .. k - 1 /\ \A j \in 1 .. k - 1 : Place(r.nwrite, j) = x => j = i
            BY <2>2, <4>1, <4>2, <5>1
          <5>4. (CHOOSE j \in 1 .. k - 1 : Place(r.nwrite, j) = x) = i
            BY <5>1, <5>3
          <5> QED BY <3>2, <5>1, <5>2, <5>3, <5>4
        <4>4. CASE ~ \E i \in 1 .. k : Place(r.nwrite, i) = x
          BY <3>2, <4>2, <4>4
        <4> QED BY <4>3, <4>4
      <3> QED BY <3>1, <3>2
    <2>4. Place(r.nwrite, k) = Plus(r.nwrite, k - 1) % PIPESIZE
      BY DEF Place
    <2>5. D(k) = [D(k - 1) EXCEPT ![Place(r.nwrite, k)] = bs[k]]
      <3> HIDE DEF Byt
      <3> QED BY <2>3
    <2>6. Plus(r.nwrite, k) = Plus(Plus(r.nwrite, k - 1), 1)
      <3>1. k - 1 \in Nat /\ (k - 1) + 1 = k /\ k <= PIPESIZE
        BY <2>1, <1>1
      <3> QED BY <3>1, <1>1, PlusPlus
    <2> DEFINE w == W(k - 1)
    <2>7. /\ w = [data |-> D(k - 1), nread |-> r.nread, nwrite |-> Plus(r.nwrite, k - 1)]
          /\ W(k) = [data |-> D(k), nread |-> r.nread, nwrite |-> Plus(r.nwrite, k)]
      OBVIOUS
    <2> HIDE DEF D, W, w
    <2>8. PutByte(w, bs[k]) = [data |-> [D(k - 1) EXCEPT ![Place(r.nwrite, k)] = bs[k]],
                               nread |-> r.nread, nwrite |-> Plus(Plus(r.nwrite, k - 1), 1)]
      <3> DEFINE at == w.nwrite % PIPESIZE
                 d == [w.data EXCEPT ![at] = bs[k]]
                 e == Plus(w.nwrite, 1)
      <3>1. PutByte(w, bs[k]) = [[w EXCEPT !.data = d] EXCEPT !.nwrite = e]
        BY DEF PutByte
      <3>2. /\ w.data = D(k - 1) /\ w.nwrite = Plus(r.nwrite, k - 1)
            /\ at = Place(r.nwrite, k)
        BY <2>4, <2>7
      <3>3. d = [D(k - 1) EXCEPT ![Place(r.nwrite, k)] = bs[k]]
            /\ e = Plus(Plus(r.nwrite, k - 1), 1)
        BY <3>2
      <3> HIDE DEF d, e, at
      <3>4. PutByte(w, bs[k]) = [data |-> d, nread |-> r.nread, nwrite |-> e]
        BY <2>7, <3>1
      <3> QED BY <3>3, <3>4
    <2> QED BY <2>5, <2>6, <2>7, <2>8 DEF w
  <1>4. g = [k \in 0 .. n |-> IF k = 0 THEN r ELSE PutByte(g[k - 1], bs[k])]
    <2> HIDE DEF W
    <2>1. \A k \in 0 .. n : k # 0 => k \in 1 .. n /\ k - 1 \in 0 .. n
      BY <1>1
    <2>2. \A k \in 0 .. n : W(k) = IF k = 0 THEN r ELSE PutByte(g[k - 1], bs[k])
      BY <1>2, <1>3, <2>1
    <2> QED BY <2>2
  <1> HIDE DEF g
  <1> QED BY <1>4

LEMMA OneMore ==
    ASSUME NEW b \in Seq(Byte), NEW bs \in Seq(Byte), NEW k \in 1 .. Len(bs)
    PROVE  Append(b \o SubSeq(bs, 1, k - 1), bs[k]) = b \o SubSeq(bs, 1, k)
  <1>1. \A t \in Seq(Byte), c \in Byte : Append(b \o t, c) = b \o Append(t, c)
    OBVIOUS
  <1>2. SubSeq(bs, 1, k - 1) \in Seq(Byte) /\ bs[k] \in Byte
    OBVIOUS
  <1>3. SubSeq(bs, 1, k) = Append(SubSeq(bs, 1, k - 1), bs[k])
    OBVIOUS
  <1> QED BY <1>1, <1>2, <1>3

\* The bytes written to a ring that has room for them come after those it holds
\* (pipe.c:84-94).
THEOREM PutAppendsAll ==
    ASSUME NEW r, Valid(r), NEW bs \in Seq(Byte), Len(bs) <= PIPESIZE - Used(r)
    PROVE  Valid(PutBytes(r, bs)) /\ Bytes(PutBytes(r, bs)) = Bytes(r) \o bs
  <1> DEFINE n == Len(bs)
             G(h) == h = [k \in 0 .. n |-> IF k = 0 THEN r ELSE PutByte(h[k - 1], bs[k])]
             g == CHOOSE h : G(h)
             Right(k) == Valid(g[k]) /\ Bytes(g[k]) = Bytes(r) \o SubSeq(bs, 1, k)
             T == {k \in 0 .. n : ~ Right(k)}
  <1>1. /\ PIPESIZE \in Nat /\ Used(r) \in 0 .. PIPESIZE /\ n \in Nat /\ n <= PIPESIZE
        /\ r \in Ring
    BY PipeAssumption, UsedIsDistance DEF Valid
  <1>2. G(g)
    <2>1. \E h : G(h)
      BY <1>1, PutTurns
    <2> HIDE DEF G
    <2> QED BY <2>1
  <1>3. g[0] = r /\ \A k \in 1 .. n : g[k] = PutByte(g[k - 1], bs[k])
    <2> HIDE DEF g
    <2> QED BY <1>1, <1>2
  <1>4. PutBytes(r, bs) = g[n]
    BY DEF PutBytes
  <1> HIDE DEF g, G
  <1>5. Bytes(r) \in Seq(Byte) /\ Len(Bytes(r)) = Used(r)
    BY BytesFacts
  <1>6. Right(0)
    BY <1>3, <1>5
  <1>7. ASSUME NEW k \in 1 .. n, Right(k - 1) PROVE Right(k)
    <2>1. SubSeq(bs, 1, k - 1) \in Seq(Byte) /\ Len(SubSeq(bs, 1, k - 1)) = k - 1
      BY <1>1
    <2>2. Len(Bytes(g[k - 1])) = Used(r) + k - 1
      <3>1. Len(Bytes(r) \o SubSeq(bs, 1, k - 1)) = Len(Bytes(r)) + (k - 1)
        BY <1>5, <2>1
      <3> QED BY <1>1, <1>5, <1>7, <3>1
    <2>3. Used(g[k - 1]) = Used(r) + k - 1
      BY <1>7, <2>2, BytesFacts
    <2>4. ~ IsFull(g[k - 1])
      <3>1. Used(g[k - 1]) # PIPESIZE
        BY <1>1, <2>3
      <3> QED BY <1>7, <3>1, UsedIsDistance
    <2>5. bs[k] \in Byte
      BY <1>1
    <2>6. Valid(g[k]) /\ Bytes(g[k]) = Append(Bytes(g[k - 1]), bs[k])
      BY <1>3, <1>7, <2>4, <2>5, PutAppends
    <2>7. Append(Bytes(r) \o SubSeq(bs, 1, k - 1), bs[k]) = Bytes(r) \o SubSeq(bs, 1, k)
      <3> QED BY <1>1, <1>5, OneMore
    <2> QED BY <1>7, <2>6, <2>7
  <1> HIDE DEF Right
  <1>8. Right(n)
    <2>1. T = {}
      <3>1. SUFFICES ASSUME T # {} PROVE FALSE
        OBVIOUS
      <3>2. T \in SUBSET Nat
        BY <1>1
      <3>3. PICK m \in T : \A k \in T : m <= k
        BY <3>1, <3>2, LeastNat
      <3>4. m \in 1 .. n /\ m - 1 \in 0 .. n /\ m - 1 \notin T
        BY <1>1, <1>6, <3>3
      <3> QED BY <1>7, <3>3, <3>4
    <2> QED BY <1>1, <2>1
  <1>9. SubSeq(bs, 1, n) = bs
    BY SubSeqFull
  <1> QED BY <1>4, <1>8, <1>9 DEF Right

LEMMA DropTurns ==
    ASSUME NEW r \in Ring, NEW n \in 0 .. PIPESIZE
    PROVE  \E g : g = [k \in 0 .. n |-> IF k = 0 THEN r ELSE DropByte(g[k - 1])]
  <1> DEFINE W(k) == [r EXCEPT !.nread = Plus(r.nread, k)]
             g == [k \in 0 .. n |-> W(k)]
  <1>1. PIPESIZE \in Nat /\ WRAP \in Nat /\ r.nread \in 0 .. WRAP - 1
    BY PipeAssumption DEF Ring
  <1>2. W(0) = r
    <2>1. Plus(r.nread, 0) = r.nread
      BY <1>1 DEF Plus
    <2> QED BY <2>1 DEF Ring
  <1>3. ASSUME NEW k \in 1 .. n PROVE W(k) = DropByte(W(k - 1))
    <2>1. k - 1 \in Nat /\ (k - 1) + 1 = k /\ k <= PIPESIZE
      BY <1>1
    <2>2. Plus(r.nread, k) = Plus(Plus(r.nread, k - 1), 1)
      BY <1>1, <2>1, PlusPlus
    <2> QED BY <2>2 DEF DropByte, Ring
  <1>4. g = [k \in 0 .. n |-> IF k = 0 THEN r ELSE DropByte(g[k - 1])]
    <2> HIDE DEF W
    <2>1. \A k \in 0 .. n : k # 0 => k \in 1 .. n /\ k - 1 \in 0 .. n
      BY <1>1
    <2>2. \A k \in 0 .. n : W(k) = IF k = 0 THEN r ELSE DropByte(g[k - 1])
      BY <1>2, <1>3, <2>1
    <2> QED BY <2>2
  <1> HIDE DEF g
  <1> QED BY <1>4

\* What is read is what the ring has held for longest, and the rest stays in it
\* (pipe.c:113-117).
THEOREM TakesFirst ==
    ASSUME NEW r, Valid(r), NEW n \in 0 .. Used(r)
    PROVE  /\ Valid(DropBytes(r, n))
           /\ Bytes(r) = SubSeq(Bytes(r), 1, n) \o Bytes(DropBytes(r, n))
  <1> DEFINE G(h) == h = [k \in 0 .. n |-> IF k = 0 THEN r ELSE DropByte(h[k - 1])]
             g == CHOOSE h : G(h)
             b == Bytes(r)
             Right(k) == Valid(g[k]) /\ b = SubSeq(b, 1, k) \o Bytes(g[k])
             T == {k \in 0 .. n : ~ Right(k)}
  <1>1. /\ PIPESIZE \in Nat /\ Used(r) \in 0 .. PIPESIZE /\ n \in Nat /\ r \in Ring
        /\ n \in 0 .. PIPESIZE
    <2>1. PIPESIZE \in Nat /\ Used(r) \in 0 .. PIPESIZE /\ r \in Ring
      BY PipeAssumption, UsedIsDistance DEF Valid
    <2> QED BY <2>1
  <1>2. G(g)
    <2>1. \E h : G(h)
      BY <1>1, DropTurns
    <2> HIDE DEF G
    <2> QED BY <2>1
  <1>3. g[0] = r /\ \A k \in 1 .. n : g[k] = DropByte(g[k - 1])
    <2> HIDE DEF g
    <2> QED BY <1>1, <1>2
  <1>4. DropBytes(r, n) = g[n]
    BY DEF DropBytes
  <1> HIDE DEF g, G
  <1>5. b \in Seq(Byte) /\ Len(b) = Used(r)
    BY BytesFacts
  <1> HIDE DEF b
  <1>6. Right(0)
    BY <1>3, <1>5 DEF b
  <1>7. ASSUME NEW k \in 1 .. n, Right(k - 1) PROVE Right(k)
    <2> DEFINE c == Bytes(g[k - 1])
    <2>1. SubSeq(b, 1, k - 1) \in Seq(Byte) /\ Len(SubSeq(b, 1, k - 1)) = k - 1
      BY <1>1, <1>5
    <2>2. c \in Seq(Byte) /\ Len(c) = Used(g[k - 1])
      BY <1>7, BytesFacts
    <2>3. Len(b) = (k - 1) + Len(c)
      BY <1>1, <1>7, <2>1, <2>2
    <2>4. Used(g[k - 1]) # 0
      BY <1>1, <1>5, <2>2, <2>3
    <2>5. ~ IsEmpty(g[k - 1])
      BY <1>7, <2>4, UsedIsDistance
    <2>6. Valid(g[k]) /\ c # <<>> /\ Bytes(g[k]) = Tail(c)
      BY <1>3, <1>7, <2>5, TakeIsFirst
    <2> HIDE DEF c
    <2>7. Head(c) = b[k]
      <3>1. Len(c) >= 1 /\ Head(c) = c[1]
        BY <2>2, <2>6
      <3>2. (SubSeq(b, 1, k - 1) \o c)[k] = c[1]
        BY <1>1, <2>1, <2>2, <3>1
      <3>3. b = SubSeq(b, 1, k - 1) \o c
        BY <1>7 DEF c
      <3> QED BY <3>1, <3>2, <3>3
    <2>8. SubSeq(b, 1, k) = Append(SubSeq(b, 1, k - 1), Head(c))
      <3>1. k \in 1 .. Len(b) /\ b[k] = Head(c)
        BY <1>1, <1>5, <2>7
      <3> QED BY <1>5, <3>1
    <2>9. Append(SubSeq(b, 1, k - 1), Head(c)) \o Tail(c) = SubSeq(b, 1, k - 1) \o c
      BY <2>1, <2>2, <2>6
    <2> QED BY <1>7, <2>6, <2>8, <2>9 DEF c
  <1> HIDE DEF Right
  <1>8. Right(n)
    <2>1. T = {}
      <3>1. SUFFICES ASSUME T # {} PROVE FALSE
        OBVIOUS
      <3>2. T \in SUBSET Nat
        BY <1>1
      <3>3. PICK m \in T : \A k \in T : m <= k
        BY <3>1, <3>2, LeastNat
      <3>4. m \in 1 .. n /\ m - 1 \in 0 .. n /\ m - 1 \notin T
        BY <1>1, <1>6, <3>3
      <3> QED BY <1>7, <3>3, <3>4
    <2> QED BY <1>1, <2>1
  <1> QED BY <1>4, <1>8 DEF Right, b

-----------------------------------------------------------------------------
(* What programs have still to do *)

\* What parsecmd() may make of a line, and what stands in such a command.
Grammar(C) ==
    /\ \A line \in Seq(Byte) : line # <<>> => Parse(line) \in C
    /\ \A c \in C :
         /\ c.type \in {"EXEC", "LIST", "PIPE", "BACK"}
         /\ c.type = "EXEC" /\ c.prog = "echo" => c.args \in Seq(Byte)
         /\ c.type = "EXEC" /\ c.prog = "kill" => c.pid \in Nat
         /\ c.type \in {"LIST", "PIPE"} => c.left \in C /\ c.right \in C
         /\ c.type = "BACK" => c.cmd \in C

\* What a program reads or writes at a time.
Piece == {bs \in Seq(Byte) : Len(bs) <= BUFSIZE}
Count == 1 .. BUFSIZE

PlainLabels == {"init", "init2", "sh", "exit", "wait", "cat", "wc", "pipe"}

\* The frames a forked child may start with, and all frames of a program.
Frame(C) ==
    (PlainLabels \X {0})
    \cup ({"init3", "cat2", "kill"} \X Nat)
    \cup ({"close", "dup"} \X FD)
    \cup ({"getcmd"} \X Seq(Byte))
    \cup ({"runcmd"} \X C)
    \cup ({"read"} \X [fd : FD, n : Count])
    \cup ({"write"} \X [fd : FD, bytes : Piece])

UserFrame(C) ==
    Frame(C) \cup ({"fork"} \X Seq(Frame(C)))
    \cup ({"piped"} \X {c \in C : c.type = "PIPE"})

PipeFile == [ref : Nat, type : {"pipe"}, pipe : PipeId, writable : BOOLEAN]
FileRec  == PipeFile \cup [ref : Nat, type : {"none", "console"}, pipe : {0},
                           writable : BOOLEAN]

\* A read from the console that still wants characters.
Reading == {x \in [n : Count, dst : Seq(Byte)] : Len(x.dst) < x.n}

\* Those of a system call that has slept, or that has still an end to close.
KernelFrame ==
    ({"wait2"} \X {0})
    \cup ({"piperead"} \X [pipe : PipeId, n : Count])
    \cup ({"pipewrite"} \X [pipe : PipeId, bytes : Piece, n : Nat])
    \cup ({"consoleread"} \X Reading)
    \cup ({"pipeclose"} \X PipeFile)

\* The commands of a pipeline are started with the descriptors pipe() has left.
Ordered(todo) ==
    \A k \in 2 .. Len(todo) : todo[k][1] = "piped" => todo[k - 1][1] \in {"pipe", "exit"}

Starts(todo) == todo # <<>> /\ todo[1][1] = "piped"

UserStack(C, todo) == todo \in Seq(UserFrame(C)) /\ Ordered(todo)

\* In user mode, or in a system call of its own.
Well(C, q) ==
    \/ UserStack(C, q.todo) /\ (Starts(q.todo) => Len(q.eax.fds) = 2)
    \/ /\ q.todo # <<>> /\ Head(q.todo) \in KernelFrame
       /\ UserStack(C, Tail(q.todo)) /\ ~ Starts(Tail(q.todo))

Chan == {<<>>, <<"cons", 0, "r">>} \cup ({"pipe"} \X PipeId \X {"nread", "nwrite"})
        \cup ({"wait"} \X (0 .. NPROC) \X {0})

Eax == [ok : BOOLEAN, n : Nat, bytes : Piece, fds : Seq(FD)]

States == {"UNUSED", "RUNNABLE", "FALLING", "SLEEPING", "ZOMBIE"}
Gone   == {"UNUSED", "ZOMBIE"}

Process(C) ==
    [state : States, pid : Nat, parent : 0 .. NPROC, killed : BOOLEAN, chan : Chan,
     ofile : [FD -> 0 .. NFILE], todo : Seq(UserFrame(C) \cup KernelFrame), eax : Eax]

OpenPipe == [open : {TRUE}, ring : Ring, readopen : BOOLEAN, writeopen : BOOLEAN]

\* A slot that is free or a zombie has nothing open and nothing to do.
Idle(q) == q.todo = <<>> /\ \A fd \in FD : q.ofile[fd] = 0

ProcsOK(C, ps) ==
    /\ ps \in [Slot -> Process(C)]
    /\ \A s \in Slot : Well(C, ps[s])
    /\ \A s \in Slot : ps[s].state \in Gone => Idle(ps[s])

FilesOK ==
    /\ ftable \in [File -> FileRec] /\ pipes \in [PipeId -> {FREE} \cup OpenPipe]
    /\ sent \in [PipeId -> Seq(Byte)] /\ got \in [PipeId -> Seq(Byte)]

ConsoleOK ==
    /\ input \in [text : [0 .. INPUT_BUF - 1 -> Byte], r : Nat, w : Nat, e : Nat]
    /\ typing \in Seq(Byte)

Uses(file, i, w) == file.ref > 0 /\ file.type = "pipe" /\ file.pipe = i /\ file.writable = w

InPipe(q) == q.todo # <<>> /\ Head(q.todo)[1] \in {"piperead", "pipewrite"}

\* A process that has gone to sleep at a pipe has it open still.
HeldIn(ps, ft) ==
    \A s \in Slot : InPipe(ps[s]) =>
        \E fd \in FD, w \in BOOLEAN :
            /\ ps[s].ofile[fd] \in File
            /\ Uses(ft[ps[s].ofile[fd]], Head(ps[s].todo)[2].pipe, w)

PipesAreHeld == HeldIn(proc, ftable)

IInv(C) ==
    /\ ProcsOK(C, proc) /\ nextpid \in Nat /\ FilesOK /\ ConsoleOK
    /\ EndsAreCounted /\ PipesAreHeld /\ PipesAreFifo /\ ConsoleCanBeRead

LEMMA SomePieces ==
    /\ BUFSIZE \in Count /\ 1 \in Count /\ Count \subseteq Nat
    /\ Piece \subseteq Seq(Byte) /\ <<>> \in Piece /\ \A c \in Byte : <<c>> \in Piece
  <1>1. BUFSIZE \in Nat /\ BUFSIZE > 0
    BY ShellAssumption
  <1>2. \A c \in Byte : <<c>> \in Seq(Byte) /\ Len(<<c>>) = 1
    OBVIOUS
  <1> QED BY <1>1, <1>2 DEF Count, Piece

LEMMA SomeFDs == 0 \in FD /\ 1 \in FD /\ FD \subseteq Nat
  BY ShellAssumption DEF FD

LEMMA FramesAre ==
    ASSUME NEW C
    PROVE  /\ \A l \in PlainLabels : <<l, 0>> \in Frame(C)
           /\ \A l \in {"init3", "cat2", "kill"}, n \in Nat : <<l, n>> \in Frame(C)
           /\ \A l \in {"close", "dup"}, fd \in FD : <<l, fd>> \in Frame(C)
           /\ \A line \in Seq(Byte) : <<"getcmd", line>> \in Frame(C)
           /\ \A c \in C : <<"runcmd", c>> \in Frame(C)
           /\ \A c \in C : c.type = "PIPE" => <<"piped", c>> \in UserFrame(C)
           /\ \A fd \in FD, n \in Count : <<"read", [fd |-> fd, n |-> n]>> \in Frame(C)
           /\ \A fd \in FD, bs \in Piece : <<"write", [fd |-> fd, bytes |-> bs]>> \in Frame(C)
           /\ \A t \in Seq(Frame(C)) : <<"fork", t>> \in UserFrame(C)
           /\ Frame(C) \subseteq UserFrame(C)
           /\ \A f \in Frame(C) : f[1] # "piped"
  BY DEF Frame, UserFrame, PlainLabels

LEMMA FrameHolds ==
    ASSUME NEW C, NEW f \in UserFrame(C)
    PROVE  /\ f = <<f[1], f[2]>>
           /\ f[1] \in PlainLabels => f[2] = 0
           /\ f[1] \in {"init3", "cat2", "kill"} => f[2] \in Nat
           /\ f[1] \in {"close", "dup"} => f[2] \in FD
           /\ f[1] = "getcmd" => f[2] \in Seq(Byte)
           /\ f[1] \in {"runcmd", "piped"} => f[2] \in C
           /\ f[1] = "piped" => f[2].type = "PIPE"
           /\ f[1] = "read" => f[2] \in [fd : FD, n : Count]
           /\ f[1] = "write" => f[2] \in [fd : FD, bytes : Piece]
           /\ f[1] = "fork" => f[2] \in Seq(Frame(C))
           /\ f[1] \notin {"wait2", "piperead", "pipewrite", "consoleread", "consolewrite",
                           "pipeclose", "none"}
  BY DEF UserFrame, Frame, PlainLabels

\* A list of frames, none of which is of a pipeline.
LEMMA PlainStack ==
    ASSUME NEW C, NEW t \in Seq(UserFrame(C)), \A k \in 1 .. Len(t) : t[k][1] # "piped"
    PROVE  UserStack(C, t) /\ ~ Starts(t)
  <1>1. t # <<>> => 1 \in 1 .. Len(t)
    OBVIOUS
  <1>2. \A k \in 2 .. Len(t) : k \in 1 .. Len(t)
    OBVIOUS
  <1> QED BY <1>1, <1>2 DEF UserStack, Ordered, Starts

LEMMA StackTail ==
    ASSUME NEW C, NEW t, UserStack(C, t), t # <<>>
    PROVE  /\ UserStack(C, Tail(t)) /\ Head(t) \in UserFrame(C) /\ Head(t) = t[1]
           /\ t[1][1] \notin {"pipe", "exit"} => ~ Starts(Tail(t))
  <1>1. t \in Seq(UserFrame(C)) /\ Len(t) \in Nat /\ Len(t) > 0
    BY DEF UserStack
  <1>2. /\ Tail(t) \in Seq(UserFrame(C)) /\ Len(Tail(t)) = Len(t) - 1
        /\ \A k \in 1 .. Len(t) - 1 : Tail(t)[k] = t[k + 1]
    BY <1>1
  <1>3. \A k \in 2 .. Len(t) - 1 : k + 1 \in 2 .. Len(t) /\ k - 1 \in 1 .. Len(t) - 1
                                    /\ (k - 1) + 1 = k /\ (k + 1) - 1 = k /\ k \in 1 .. Len(t) - 1
    BY <1>1
  <1>4. Ordered(Tail(t))
    <2> SUFFICES ASSUME NEW k \in 2 .. Len(t) - 1, Tail(t)[k][1] = "piped"
                 PROVE  Tail(t)[k - 1][1] \in {"pipe", "exit"}
      BY <1>2 DEF Ordered
    <2>1. Tail(t)[k] = t[k + 1] /\ Tail(t)[k - 1] = t[k]
      BY <1>2, <1>3
    <2>2. t[k + 1][1] = "piped" => t[(k + 1) - 1][1] \in {"pipe", "exit"}
      BY <1>3 DEF UserStack, Ordered
    <2> QED BY <1>3, <2>1, <2>2
  <1>5. t[1][1] \notin {"pipe", "exit"} => ~ Starts(Tail(t))
    <2> SUFFICES ASSUME Tail(t) # <<>>, Tail(t)[1][1] = "piped" PROVE t[1][1] \in {"pipe", "exit"}
      BY DEF Starts
    <2>1. Len(Tail(t)) > 0
      BY <1>2
    <2>2. 1 \in 1 .. Len(t) - 1 /\ 2 \in 2 .. Len(t)
      BY <1>1, <1>2, <2>1
    <2>3. Tail(t)[1] = t[2]
      BY <1>2, <2>2
    <2>4. t[2][1] = "piped" => t[2 - 1][1] \in {"pipe", "exit"}
      BY <2>2 DEF UserStack, Ordered
    <2> QED BY <2>3, <2>4
  <1> QED BY <1>1, <1>2, <1>4, <1>5 DEF UserStack

LEMMA StackConcat ==
    ASSUME NEW C, NEW s, UserStack(C, s), NEW t, UserStack(C, t),
           Starts(t) => s # <<>> /\ s[Len(s)][1] \in {"pipe", "exit"}
    PROVE  /\ UserStack(C, s \o t)
           /\ ~ Starts(s) => ~ Starts(s \o t)
  <1>1. s \in Seq(UserFrame(C)) /\ t \in Seq(UserFrame(C)) /\ Len(s) \in Nat /\ Len(t) \in Nat
    BY DEF UserStack
  <1>2. /\ s \o t \in Seq(UserFrame(C)) /\ Len(s \o t) = Len(s) + Len(t)
        /\ \A k \in 1 .. Len(s) : (s \o t)[k] = s[k]
        /\ \A k \in 1 .. Len(t) : (s \o t)[Len(s) + k] = t[k]
    BY <1>1
  <1>3. Ordered(s \o t)
    <2> SUFFICES ASSUME NEW k \in 2 .. Len(s) + Len(t), (s \o t)[k][1] = "piped"
                 PROVE  (s \o t)[k - 1][1] \in {"pipe", "exit"}
      BY <1>2 DEF Ordered
    <2>1. CASE k <= Len(s)
      <3>1. k \in 2 .. Len(s) /\ k \in 1 .. Len(s) /\ k - 1 \in 1 .. Len(s)
        BY <1>1, <2>1
      <3> QED BY <1>2, <3>1 DEF UserStack, Ordered
    <2>2. CASE k = Len(s) + 1
      <3>1. 1 \in 1 .. Len(t) /\ Len(s) \in 1 .. Len(s)
        BY <1>1, <2>2
      <3>2. (s \o t)[k] = t[1] /\ (s \o t)[k - 1] = s[Len(s)]
        <4>1. k - 1 = Len(s)
          BY <1>1, <2>2
        <4> QED BY <1>2, <2>2, <3>1, <4>1
      <3>3. Starts(t)
        BY <3>1, <3>2, <1>1 DEF Starts
      <3> QED BY <3>2, <3>3
    <2>3. CASE k > Len(s) + 1
      <3> DEFINE j == k - Len(s)
      <3>1. j \in 2 .. Len(t) /\ j \in 1 .. Len(t) /\ j - 1 \in 1 .. Len(t)
            /\ Len(s) + j = k /\ Len(s) + (j - 1) = k - 1
        BY <1>1, <2>3
      <3> HIDE DEF j
      <3>2. (s \o t)[Len(s) + j] = t[j] /\ (s \o t)[Len(s) + (j - 1)] = t[j - 1]
        BY <1>2, <3>1
      <3>3. t[j][1] = "piped" => t[j - 1][1] \in {"pipe", "exit"}
        BY <3>1 DEF UserStack, Ordered
      <3> QED BY <3>1, <3>2, <3>3
    <2> QED BY <1>1, <2>1, <2>2, <2>3
  <1>4. ASSUME ~ Starts(s), Starts(s \o t) PROVE FALSE
    <2>1. CASE s = <<>>
      <3>1. s \o t = t
        BY <1>1, <2>1
      <3> QED BY <1>4, <2>1, <3>1
    <2>2. CASE s # <<>>
      <3>1. 1 \in 1 .. Len(s)
        BY <1>1, <2>2
      <3> QED BY <1>2, <1>4, <2>2, <3>1 DEF Starts
    <2> QED BY <2>1, <2>2
  <1> QED BY <1>2, <1>3, <1>4 DEF UserStack

\* Lists of frames without the commands of a pipeline.
Plain(C, t) == t \in Seq(UserFrame(C)) /\ \A k \in 1 .. Len(t) : t[k][1] # "piped"

LEMMA Plain1 ==
    ASSUME NEW C, NEW a \in UserFrame(C), a[1] # "piped"
    PROVE  Plain(C, <<a>>)
  BY DEF Plain

LEMMA PlainBoth ==
    ASSUME NEW C, NEW s, Plain(C, s), NEW t, Plain(C, t)
    PROVE  Plain(C, s \o t)
  <1>1. s \in Seq(UserFrame(C)) /\ t \in Seq(UserFrame(C)) /\ Len(s) \in Nat /\ Len(t) \in Nat
    BY DEF Plain
  <1>2. s \o t \in Seq(UserFrame(C)) /\ Len(s \o t) = Len(s) + Len(t)
        /\ \A k \in 1 .. Len(s) + Len(t) :
              (s \o t)[k] = IF k <= Len(s) THEN s[k] ELSE t[k - Len(s)]
    BY <1>1
  <1>3. \A k \in 1 .. Len(s) + Len(t) :
           IF k <= Len(s) THEN k \in 1 .. Len(s) ELSE k - Len(s) \in 1 .. Len(t)
    BY <1>1
  <1> QED BY <1>2, <1>3 DEF Plain

LEMMA Plain2 ==
    ASSUME NEW C, NEW a \in UserFrame(C), a[1] # "piped",
           NEW b \in UserFrame(C), b[1] # "piped"
    PROVE  Plain(C, <<a, b>>)
  BY DEF Plain

LEMMA Plain3 ==
    ASSUME NEW C, NEW a \in UserFrame(C), a[1] # "piped",
           NEW b \in UserFrame(C), b[1] # "piped", NEW c \in UserFrame(C), c[1] # "piped"
    PROVE  Plain(C, <<a, b, c>>)
  BY DEF Plain

LEMMA Plain6 ==
    ASSUME NEW C, NEW a \in UserFrame(C), a[1] # "piped",
           NEW b \in UserFrame(C), b[1] # "piped", NEW c \in UserFrame(C), c[1] # "piped",
           NEW d \in UserFrame(C), d[1] # "piped", NEW e \in UserFrame(C), e[1] # "piped",
           NEW f \in UserFrame(C), f[1] # "piped"
    PROVE  Plain(C, <<a, b, c, d, e, f>>)
  BY DEF Plain

LEMMA PlainIsStack ==
    ASSUME NEW C, NEW t, Plain(C, t)
    PROVE  UserStack(C, t) /\ ~ Starts(t)
  BY PlainStack DEF Plain

\* The frames the programs are made of.
LEMMA FramesOfPrograms ==
    ASSUME NEW C
    PROVE  /\ \A l \in PlainLabels : <<l, 0>> \in UserFrame(C) /\ Plain(C, << <<l, 0>> >>)
           /\ Plain(C, exit)
           /\ \A fd \in FD, n \in Count :
                 DoRead(fd, n) \in UserFrame(C) /\ DoRead(fd, n)[1] # "piped"
           /\ \A fd \in FD, bs \in Piece :
                 DoWrite(fd, bs) \in UserFrame(C) /\ DoWrite(fd, bs)[1] # "piped"
           /\ \A t \in Seq(Frame(C)) :
                 Forks(t) \in UserFrame(C) /\ Forks(t)[1] # "piped"
  <1>1. \A l \in PlainLabels : <<l, 0>> \in UserFrame(C) /\ <<l, 0>>[1] # "piped"
    BY FramesAre DEF PlainLabels
  <1>2. \A l \in PlainLabels : Plain(C, << <<l, 0>> >>)
    BY <1>1, Plain1
  <1>3. "exit" \in PlainLabels
    BY DEF PlainLabels
  <1>4. Plain(C, exit)
    BY <1>2, <1>3 DEF exit
  <1>5. \A fd \in FD, n \in Count :
           DoRead(fd, n) \in UserFrame(C) /\ DoRead(fd, n)[1] # "piped"
    BY FramesAre DEF DoRead
  <1>6. \A fd \in FD, bs \in Piece :
           DoWrite(fd, bs) \in UserFrame(C) /\ DoWrite(fd, bs)[1] # "piped"
    BY FramesAre DEF DoWrite
  <1>7. \A t \in Seq(Frame(C)) : Forks(t) \in UserFrame(C) /\ Forks(t)[1] # "piped"
    BY FramesAre DEF Forks
  <1> QED BY <1>1, <1>2, <1>4, <1>5, <1>6, <1>7

\* exec() of a program.
LEMMA ProgramIsPlain ==
    ASSUME NEW C, Grammar(C), NEW cmd \in C, cmd.type = "EXEC"
    PROVE  Plain(C, Program(cmd))
  <1>2. DoRead(0, BUFSIZE) \in UserFrame(C) /\ DoRead(0, BUFSIZE)[1] # "piped"
    BY SomePieces, SomeFDs, FramesOfPrograms
  <1>3. /\ Plain(C, << DoRead(0, BUFSIZE), <<"cat", 0>> >>)
        /\ Plain(C, << DoRead(0, BUFSIZE), <<"wc", 0>> >>)
    <2>1. /\ <<"cat", 0>> \in UserFrame(C) /\ <<"cat", 0>>[1] # "piped"
          /\ <<"wc", 0>> \in UserFrame(C) /\ <<"wc", 0>>[1] # "piped"
      BY FramesAre DEF PlainLabels
    <2> QED BY <1>2, <2>1, Plain2
  <1>4. ASSUME cmd.prog = "echo"
        PROVE  Plain(C, [k \in DOMAIN cmd.args |-> DoWrite(1, <<cmd.args[k]>>)] \o exit)
    <2> DEFINE t == [k \in DOMAIN cmd.args |-> DoWrite(1, <<cmd.args[k]>>)]
    <2>1. cmd.args \in Seq(Byte)
      BY <1>4 DEF Grammar
    <2>2. Len(cmd.args) \in Nat /\ DOMAIN cmd.args = 1 .. Len(cmd.args)
          /\ \A k \in DOMAIN cmd.args : <<cmd.args[k]>> \in Piece
      BY <2>1, SomePieces
    <2>3. \A k \in DOMAIN cmd.args : DoWrite(1, <<cmd.args[k]>>) \in UserFrame(C)
                                     /\ DoWrite(1, <<cmd.args[k]>>)[1] # "piped"
      BY <2>2, SomeFDs, FramesOfPrograms
    <2>4. t \in [1 .. Len(cmd.args) -> UserFrame(C)] /\ \A k \in 1 .. Len(cmd.args) : t[k][1] # "piped"
      BY <2>2, <2>3
    <2> HIDE DEF t
    <2>5. t \in Seq(UserFrame(C)) /\ Len(t) = Len(cmd.args)
      BY <2>2, <2>4
    <2>6. Plain(C, t)
      BY <2>4, <2>5 DEF Plain
    <2>7. Plain(C, t \o exit)
      BY <2>6, FramesOfPrograms, PlainBoth
    <2> QED BY <2>7 DEF t
  <1>5. ASSUME cmd.prog = "kill" PROVE Plain(C, << <<"kill", cmd.pid>> >> \o exit)
    <2>1. <<"kill", cmd.pid>> \in UserFrame(C) /\ <<"kill", cmd.pid>>[1] # "piped"
      BY <1>5, FramesAre DEF Grammar
    <2> QED BY <2>1, Plain1, FramesOfPrograms, PlainBoth
  <1> QED BY <1>3, <1>4, <1>5, FramesOfPrograms DEF Program

LEMMA RuncmdIsStack ==
    ASSUME NEW C, Grammar(C), NEW cmd \in C
    PROVE  UserStack(C, Runcmd(cmd)) /\ ~ Starts(Runcmd(cmd))
  <1>1. /\ \A c \in C : <<"runcmd", c>> \in Frame(C) /\ <<"runcmd", c>> \in UserFrame(C)
                        /\ <<"runcmd", c>>[1] # "piped"
        /\ \A c \in C : << <<"runcmd", c>> >> \in Seq(Frame(C))
        /\ <<"wait", 0>> \in UserFrame(C) /\ <<"wait", 0>>[1] # "piped"
    BY FramesAre DEF PlainLabels
  <1>2. \A c \in C : Forks(<< <<"runcmd", c>> >>) \in UserFrame(C)
                     /\ Forks(<< <<"runcmd", c>> >>)[1] # "piped"
    BY <1>1, FramesOfPrograms
  <1>3. CASE cmd.type = "EXEC"
    BY <1>3, ProgramIsPlain, PlainIsStack DEF Runcmd
  <1>4. CASE cmd.type = "LIST"
    <2>1. cmd.left \in C /\ cmd.right \in C
      BY <1>4 DEF Grammar
    <2>2. Plain(C, << Forks(<< <<"runcmd", cmd.left>> >>), <<"wait", 0>>, <<"runcmd", cmd.right>> >>)
      BY <1>1, <1>2, <2>1, Plain3
    <2> QED BY <1>4, <2>2, PlainIsStack DEF Runcmd
  <1>5. CASE cmd.type = "BACK"
    <2>1. cmd.cmd \in C
      BY <1>5 DEF Grammar
    <2>2. Plain(C, << Forks(<< <<"runcmd", cmd.cmd>> >>) >>)
      BY <1>2, <2>1, Plain1
    <2>3. Plain(C, << Forks(<< <<"runcmd", cmd.cmd>> >>) >> \o exit)
      BY <2>2, FramesOfPrograms, PlainBoth
    <2> QED BY <1>5, <2>3, PlainIsStack DEF Runcmd
  <1>6. CASE cmd.type = "PIPE"
    <2> DEFINE a == <<"pipe", 0>>
               b == <<"piped", cmd>>
               t == <<a, b>>
    <2>1. a \in UserFrame(C) /\ b \in UserFrame(C) /\ a[1] = "pipe"
      BY <1>6, FramesAre DEF PlainLabels
    <2> HIDE DEF a, b
    <2>2. t \in Seq(UserFrame(C)) /\ Len(t) = 2 /\ t[1] = a /\ t # <<>>
      BY <2>1
    <2> HIDE DEF t
    <2>3. Ordered(t) /\ ~ Starts(t)
      <3>1. \A k \in 2 .. Len(t) : k - 1 = 1
        BY <2>2
      <3> QED BY <2>1, <2>2, <3>1 DEF Ordered, Starts
    <2> QED BY <1>6, <2>2, <2>3 DEF Runcmd, UserStack, t, a, b
  <1> QED BY <1>3, <1>4, <1>5, <1>6 DEF Grammar

LEMMA PipedIsPlain ==
    ASSUME NEW C, Grammar(C), NEW cmd \in C, cmd.type = "PIPE",
           NEW pp \in Seq(FD), Len(pp) = 2
    PROVE  Plain(C, Piped(cmd, pp))
  <1>1. cmd.left \in C /\ cmd.right \in C
    BY DEF Grammar
  <1>2. pp[1] \in FD /\ pp[2] \in FD /\ 0 \in FD /\ 1 \in FD
    BY SomeFDs
  <1> DEFINE L == << <<"close", 1>>, <<"dup", pp[2]>>, <<"close", pp[1]>>, <<"close", pp[2]>>,
                     <<"runcmd", cmd.left>> >>
             R == << <<"close", 0>>, <<"dup", pp[1]>>, <<"close", pp[1]>>, <<"close", pp[2]>>,
                     <<"runcmd", cmd.right>> >>
  <1>3. \A fd \in FD : <<"close", fd>> \in Frame(C) /\ <<"dup", fd>> \in Frame(C)
    BY FramesAre
  <1>4. \A c \in C : <<"runcmd", c>> \in Frame(C)
    BY FramesAre
  <1>5. L \in Seq(Frame(C)) /\ R \in Seq(Frame(C))
    <2>1. \A S : \A a \in S, b \in S, c \in S, d \in S, e \in S : <<a, b, c, d, e>> \in Seq(S)
      OBVIOUS
    <2>2. /\ <<"close", 0>> \in Frame(C) /\ <<"close", 1>> \in Frame(C)
          /\ <<"close", pp[1]>> \in Frame(C) /\ <<"close", pp[2]>> \in Frame(C)
          /\ <<"dup", pp[1]>> \in Frame(C) /\ <<"dup", pp[2]>> \in Frame(C)
          /\ <<"runcmd", cmd.left>> \in Frame(C) /\ <<"runcmd", cmd.right>> \in Frame(C)
      BY <1>1, <1>2, <1>3, <1>4
    <2> QED BY <2>1, <2>2, Zenon
  <1>6. /\ <<"wait", 0>> \in UserFrame(C) /\ <<"wait", 0>>[1] # "piped"
        /\ \A fd \in FD : <<"close", fd>> \in UserFrame(C) /\ <<"close", fd>>[1] # "piped"
    BY <1>3, FramesAre DEF PlainLabels
  <1> HIDE DEF L, R
  <1>7. Forks(L) \in UserFrame(C) /\ Forks(L)[1] # "piped"
        /\ Forks(R) \in UserFrame(C) /\ Forks(R)[1] # "piped"
    BY <1>5, FramesOfPrograms
  <1>8. Plain(C, << Forks(L), Forks(R), <<"close", pp[1]>>, <<"close", pp[2]>>,
                    <<"wait", 0>>, <<"wait", 0>> >>)
    BY <1>2, <1>6, <1>7, Plain6
  <1>9. Plain(C, << Forks(L), Forks(R), <<"close", pp[1]>>, <<"close", pp[2]>>,
                    <<"wait", 0>>, <<"wait", 0>> >> \o exit)
    BY <1>8, FramesOfPrograms, PlainBoth
  <1> QED BY <1>9 DEF Piped, L, R

\* What a frame of a program stands for is a stack of frames.
LEMMA ExpandedIsStack ==
    ASSUME NEW C, Grammar(C), NEW f \in UserFrame(C), f[1] \in Programs,
           NEW eax \in Eax, f[1] = "piped" => Len(eax.fds) = 2
    PROVE  UserStack(C, Expanded(f[1], f[2], eax)) /\ ~ Starts(Expanded(f[1], f[2], eax))
  <1> DEFINE e == Expanded(f[1], f[2], eax)
  <1>1. BUFSIZE \in Count /\ 0 \in FD /\ 1 \in FD /\ 1 \in Count
    BY SomePieces, SomeFDs
  <1>2. /\ eax.n \in Nat /\ eax.bytes \in Piece /\ eax.bytes \in Seq(Byte) /\ eax.fds \in Seq(FD)
    BY SomePieces DEF Eax
  <1>3. /\ \A l \in PlainLabels : <<l, 0>> \in UserFrame(C) /\ <<l, 0>>[1] # "piped"
        /\ \A n \in Nat : <<"init3", n>> \in UserFrame(C) /\ <<"init3", n>>[1] # "piped"
        /\ \A n \in Nat : <<"cat2", n>> \in UserFrame(C) /\ <<"cat2", n>>[1] # "piped"
        /\ \A line \in Seq(Byte) : <<"getcmd", line>> \in UserFrame(C)
                                   /\ <<"getcmd", line>>[1] # "piped"
    BY FramesAre DEF PlainLabels
  <1>4. /\ <<"sh", 0>> \in UserFrame(C) /\ <<"sh", 0>>[1] # "piped"
        /\ <<"wait", 0>> \in UserFrame(C) /\ <<"wait", 0>>[1] # "piped"
        /\ <<"init2", 0>> \in UserFrame(C) /\ <<"init2", 0>>[1] # "piped"
        /\ <<"cat", 0>> \in UserFrame(C) /\ <<"cat", 0>>[1] # "piped"
        /\ <<"wc", 0>> \in UserFrame(C) /\ <<"wc", 0>>[1] # "piped"
        /\ Plain(C, << <<"init", 0>> >>)
    BY <1>3, FramesOfPrograms DEF PlainLabels
  <1>5. Plain(C, exit)
    BY FramesOfPrograms
  <1>6. /\ DoRead(0, BUFSIZE) \in UserFrame(C) /\ DoRead(0, BUFSIZE)[1] # "piped"
        /\ DoRead(0, 1) \in UserFrame(C) /\ DoRead(0, 1)[1] # "piped"
        /\ \A bs \in Piece : DoWrite(1, bs) \in UserFrame(C) /\ DoWrite(1, bs)[1] # "piped"
    BY <1>1, FramesOfPrograms
  <1>7. Forks(<< <<"sh", 0>> >>) \in UserFrame(C) /\ Forks(<< <<"sh", 0>> >>)[1] # "piped"
    <2>1. <<"sh", 0>> \in Frame(C)
      BY FramesAre DEF PlainLabels
    <2>2. << <<"sh", 0>> >> \in Seq(Frame(C))
      BY <2>1
    <2> QED BY <2>2, FramesOfPrograms
  <1>8. CASE f[1] = "init"
    <2>1. Plain(C, << Forks(<< <<"sh", 0>> >>), <<"init2", 0>> >>)
      BY <1>4, <1>7, Plain2
    <2> QED BY <1>8, <2>1, PlainIsStack DEF Expanded
  <1>9. CASE f[1] = "init2"
    <2>1. Plain(C, << <<"wait", 0>>, <<"init3", eax.n>> >>)
      BY <1>2, <1>3, <1>4, Plain2
    <2> QED BY <1>9, <2>1, PlainIsStack DEF Expanded
  <1>10. CASE f[1] = "init3"
    <2>1. f[2] \in Nat
      BY <1>10, FrameHolds
    <2>2. Plain(C, << <<"wait", 0>>, <<"init3", f[2]>> >>)
      BY <1>3, <1>4, <2>1, Plain2
    <2>3. Plain(C, e)
      BY <1>4, <1>10, <2>2 DEF Expanded
    <2> QED BY <2>3, PlainIsStack
  <1>11. CASE f[1] = "sh"
    <2>1. Plain(C, << DoRead(0, 1), <<"getcmd", <<>> >> >>)
      <3>1. <<>> \in Seq(Byte)
        OBVIOUS
      <3> QED BY <1>3, <1>6, <3>1, Plain2
    <2> QED BY <1>11, <2>1, PlainIsStack DEF Expanded
  <1>12. CASE f[1] = "getcmd"
    <2>1. f[2] \in Seq(Byte)
      BY <1>12, FrameHolds
    <2> DEFINE now == IF AtEnd(eax) THEN f[2] ELSE f[2] \o eax.bytes
    <2>2. now \in Seq(Byte)
      BY <1>2, <2>1
    <2>3. Plain(C, << DoRead(0, 1), <<"getcmd", now>> >>)
      BY <1>3, <1>6, <2>2, Plain2
    <2>4. now # <<>> => Plain(C, << Forks(<< <<"runcmd", Parse(now)>> >>), <<"wait", 0>>, <<"sh", 0>> >>)
      <3>1. SUFFICES ASSUME now # <<>>
                     PROVE  Plain(C, << Forks(<< <<"runcmd", Parse(now)>> >>), <<"wait", 0>>, <<"sh", 0>> >>)
        OBVIOUS
      <3>2. Parse(now) \in C
        BY <2>2, <3>1 DEF Grammar
      <3> DEFINE c == Parse(now)
      <3> HIDE DEF now, c
      <3>3. <<"runcmd", c>> \in Frame(C)
        BY <3>2, FramesAre DEF c
      <3>4. << <<"runcmd", c>> >> \in Seq(Frame(C))
        BY <3>3
      <3>5. Forks(<< <<"runcmd", c>> >>) \in UserFrame(C) /\ Forks(<< <<"runcmd", c>> >>)[1] # "piped"
        BY <3>4, FramesOfPrograms
      <3> QED BY <1>4, <3>5, Plain3 DEF c
    <2> HIDE DEF now
    <2>5. Plain(C, Getcmd(f[2], eax))
      BY <1>5, <2>3, <2>4 DEF Getcmd, now
    <2> QED BY <1>12, <2>5, PlainIsStack DEF Expanded
  <1>13. CASE f[1] = "runcmd"
    <2>1. f[2] \in C
      BY <1>13, FrameHolds
    <2> QED BY <1>13, <2>1, RuncmdIsStack DEF Expanded
  <1>14. CASE f[1] = "piped"
    <2>1. f[2] \in C /\ f[2].type = "PIPE"
      BY <1>14, FrameHolds
    <2>2. Plain(C, Piped(f[2], eax.fds))
      BY <1>2, <1>14, <2>1, PipedIsPlain
    <2> QED BY <1>14, <2>2, PlainIsStack DEF Expanded
  <1>15. CASE f[1] = "cat"
    <2>1. Len(eax.bytes) \in Nat
      BY <1>2
    <2>2. Plain(C, << DoWrite(1, eax.bytes), <<"cat2", Len(eax.bytes)>> >>)
      BY <1>2, <1>3, <1>6, <2>1, Plain2
    <2>3. Plain(C, Cat(eax))
      BY <1>5, <2>2 DEF Cat
    <2> QED BY <1>15, <2>3, PlainIsStack DEF Expanded
  <1>16. CASE f[1] = "cat2"
    <2>1. Plain(C, << DoRead(0, BUFSIZE), <<"cat", 0>> >>)
      BY <1>4, <1>6, Plain2
    <2>2. Plain(C, e)
      BY <1>5, <1>16, <2>1 DEF Expanded
    <2> QED BY <2>2, PlainIsStack
  <1>17. CASE f[1] = "wc"
    <2>1. Plain(C, << DoRead(0, BUFSIZE), <<"wc", 0>> >>)
      BY <1>4, <1>6, Plain2
    <2>2. <<Blank>> \in Piece
      BY SomePieces, PipeAssumption
    <2>3. Plain(C, << DoWrite(1, <<Blank>>) >>)
      BY <1>6, <2>2, Plain1
    <2>4. Plain(C, << DoWrite(1, <<Blank>>) >> \o exit)
      BY <1>5, <2>3, PlainBoth
    <2>5. Plain(C, e)
      BY <1>17, <2>1, <2>4 DEF Expanded
    <2> QED BY <2>5, PlainIsStack
  <1> QED BY <1>8, <1>9, <1>10, <1>11, <1>12, <1>13, <1>14, <1>15, <1>16, <1>17 DEF Programs

\* A process that returns from a system call, or has never made one.
Returned(C, q) ==
    /\ q \in Process(C) /\ UserStack(C, q.todo)
    /\ Starts(q.todo) => Len(q.eax.fds) = 2

LEMMA ComputesOn ==
    ASSUME NEW C, Grammar(C), NEW q, Returned(C, q)
    PROVE  /\ Returned(C, Computes(q))
           /\ \E t \in Seq(UserFrame(C)) : Computes(q) = [q EXCEPT !.todo = t]
  <1>1. CASE ~ (q.todo # <<>> /\ Head(q.todo)[1] \in Programs)
    <2>1. Computes(q) = q
      BY <1>1 DEF Computes
    <2>2. q = [q EXCEPT !.todo = q.todo] /\ q.todo \in Seq(UserFrame(C))
      BY DEF Returned, Process, UserStack
    <2> QED BY <2>1, <2>2
  <1>2. CASE q.todo # <<>> /\ Head(q.todo)[1] \in Programs
    <2> DEFINE f == Head(q.todo)
               e == Expanded(f[1], f[2], q.eax)
               t == e \o Tail(q.todo)
    <2>1. UserStack(C, q.todo) /\ q.eax \in Eax
      BY DEF Returned, Process
    <2>2. /\ UserStack(C, Tail(q.todo)) /\ f \in UserFrame(C) /\ f = q.todo[1]
          /\ ~ Starts(Tail(q.todo))
      <3>1. q.todo[1][1] \notin {"pipe", "exit"} => ~ Starts(Tail(q.todo))
        BY <1>2, <2>1, StackTail
      <3>2. /\ UserStack(C, Tail(q.todo)) /\ f \in UserFrame(C) /\ f = q.todo[1]
        BY <1>2, <2>1, StackTail
      <3> QED BY <1>2, <3>1, <3>2 DEF Programs
    <2>3. f[1] = "piped" => Len(q.eax.fds) = 2
      BY <1>2, <2>2 DEF Starts, Returned
    <2>4. UserStack(C, e) /\ ~ Starts(e)
      BY <1>2, <2>1, <2>2, <2>3, ExpandedIsStack
    <2>5. UserStack(C, t) /\ ~ Starts(t)
      BY <2>2, <2>4, StackConcat
    <2>6. Computes(q) = [q EXCEPT !.todo = t]
      BY <1>2 DEF Computes
    <2> HIDE DEF t
    <2>7. t \in Seq(UserFrame(C)) /\ t \in Seq(UserFrame(C) \cup KernelFrame)
      BY <2>5, SeqMonotonic DEF UserStack
    <2>8. [q EXCEPT !.todo = t] \in Process(C) /\ [q EXCEPT !.todo = t].todo = t
      BY <2>7 DEF Returned, Process
    <2> QED BY <2>5, <2>6, <2>7, <2>8 DEF Returned
  <1> QED BY <1>1, <1>2

LEMMA RunsOn ==
    ASSUME NEW C, Grammar(C), NEW q, Returned(C, q)
    PROVE  /\ Returned(C, Runs(q))
           /\ \E t \in Seq(UserFrame(C)) : Runs(q) = [q EXCEPT !.todo = t]
  <1> DEFINE a == Computes(q)
             b == Computes(a)
             c == Computes(b)
  <1>1. Returned(C, a) /\ \E t \in Seq(UserFrame(C)) : a = [q EXCEPT !.todo = t]
    BY ComputesOn
  <1> HIDE DEF a
  <1>2. Returned(C, b) /\ \E t \in Seq(UserFrame(C)) : b = [a EXCEPT !.todo = t]
    BY <1>1, ComputesOn
  <1> HIDE DEF b
  <1>3. Returned(C, c) /\ \E t \in Seq(UserFrame(C)) : c = [b EXCEPT !.todo = t]
    BY <1>2, ComputesOn
  <1> HIDE DEF c
  <1>4. q \in Process(C)
    BY DEF Returned
  <1>5. \E t \in Seq(UserFrame(C)) : c = [q EXCEPT !.todo = t]
    <2>1. \A x, t, u : x \in Process(C) => [[x EXCEPT !.todo = t] EXCEPT !.todo = u]
                                            = [x EXCEPT !.todo = u]
      BY DEF Process
    <2>2. \E t \in Seq(UserFrame(C)) : b = [q EXCEPT !.todo = t]
      BY <1>1, <1>2, <1>4, <2>1
    <2> QED BY <1>3, <1>4, <2>1, <2>2
  <1> QED BY <1>3, <1>5 DEF Runs, a, b, c

\* A process with a frame on top that is its own to end: everything below is
\* a stack of a program, and does not start with the commands of a pipeline.
LEMMA TailIsStack ==
    ASSUME NEW C, NEW q \in Process(C), Well(C, q), q.todo # <<>>
    PROVE  /\ UserStack(C, Tail(q.todo))
           /\ Head(q.todo)[1] \notin {"pipe", "exit"} => ~ Starts(Tail(q.todo))
           /\ Head(q.todo) \in UserFrame(C) \cup KernelFrame
  <1>1. CASE UserStack(C, q.todo)
    BY <1>1, StackTail
  <1>2. CASE ~ UserStack(C, q.todo)
    BY <1>2 DEF Well
  <1> QED BY <1>1, <1>2

\* The end of a system call.
Resumed(q, eax) == Runs([Does(q, <<>>) EXCEPT !.eax = eax])

GoesOn(q, t, eax) == [q EXCEPT !.todo = t, !.eax = eax]

LEMMA ResumedOn ==
    ASSUME NEW C, Grammar(C), NEW q \in Process(C), Well(C, q), q.todo # <<>>,
           NEW eax \in Eax, Head(q.todo)[1] \notin {"pipe", "exit"} \/ Len(eax.fds) = 2
    PROVE  /\ Returned(C, Resumed(q, eax))
           /\ \E t \in Seq(UserFrame(C)) : Resumed(q, eax) = GoesOn(q, t, eax)
  <1> DEFINE d == [Does(q, <<>>) EXCEPT !.eax = eax]
             t == Tail(q.todo)
  <1>1. UserStack(C, t) /\ (Starts(t) => Len(eax.fds) = 2)
    BY TailIsStack
  <1>2. t \in Seq(UserFrame(C)) /\ t \in Seq(UserFrame(C) \cup KernelFrame)
    BY <1>1, SeqMonotonic DEF UserStack
  <1>3. d = [q EXCEPT !.todo = t, !.eax = eax]
    <2>1. <<>> \o t = t
      BY <1>2
    <2> QED BY <2>1 DEF Does, Process
  <1> HIDE DEF t
  <1>4. d \in Process(C) /\ d.todo = t /\ d.eax = eax
    BY <1>2, <1>3 DEF Process
  <1>5. Returned(C, d)
    BY <1>1, <1>4 DEF Returned
  <1> HIDE DEF d
  <1>6. Returned(C, Runs(d)) /\ \E u \in Seq(UserFrame(C)) : Runs(d) = [d EXCEPT !.todo = u]
    BY <1>5, RunsOn
  <1>7. \E u \in Seq(UserFrame(C)) : Runs(d) = [q EXCEPT !.todo = u, !.eax = eax]
    BY <1>3, <1>6 DEF Process
  <1> QED BY <1>6, <1>7 DEF Resumed, GoesOn, d

-----------------------------------------------------------------------------
(* Processes *)

\* A process that has just ended a system call of its own.
After(C, q, r) ==
    /\ r \in Process(C) /\ Well(C, r) /\ r.todo \in Seq(UserFrame(C))
    /\ r.state = q.state /\ r.ofile = q.ofile /\ r.parent = q.parent

LEMMA ReturnedIsAfter ==
    ASSUME NEW C, NEW q \in Process(C), NEW r, Returned(C, r), NEW t \in Seq(UserFrame(C)),
           NEW eax, r = GoesOn(q, t, eax)
    PROVE  After(C, q, r)
  <1>1. r.todo = t /\ r.state = q.state /\ r.ofile = q.ofile /\ r.parent = q.parent
    BY DEF GoesOn, Process
  <1>2. Well(C, r) /\ r \in Process(C)
    BY DEF Well, Returned
  <1> QED BY <1>1, <1>2 DEF After

LEMMA EndsCall ==
    ASSUME NEW C, Grammar(C), NEW q \in Process(C), Well(C, q), q.todo # <<>>,
           Head(q.todo)[1] \notin {"pipe", "exit"}
    PROVE  /\ \A v \in Nat : After(C, q, Returns(q, v))
           /\ \A bs \in Piece : After(C, q, Reads(q, bs))
           /\ After(C, q, FailsCall(q))
  <1>1. Failed \in Eax
    BY SomePieces DEF Failed, Eax
  <1>2. /\ \A v \in Nat : [Failed EXCEPT !.ok = TRUE, !.n = v] \in Eax
        /\ \A bs \in Piece : [Failed EXCEPT !.ok = TRUE, !.bytes = bs] \in Eax
    BY <1>1 DEF Eax
  <1>3. ASSUME NEW eax \in Eax PROVE After(C, q, Resumed(q, eax))
    <2>1. /\ Returned(C, Resumed(q, eax))
          /\ \E t \in Seq(UserFrame(C)) : Resumed(q, eax) = GoesOn(q, t, eax)
      BY ResumedOn
    <2> QED BY <2>1, ReturnedIsAfter
  <1> QED BY <1>1, <1>2, <1>3 DEF Returns, Reads, FailsCall, Resumed

LEMMA EndsPipe ==
    ASSUME NEW C, Grammar(C), NEW q \in Process(C), Well(C, q), q.todo # <<>>,
           NEW r \in FD, NEW w \in FD
    PROVE  After(C, q, Makes(q, <<r, w>>))
  <1> DEFINE eax == [Failed EXCEPT !.ok = TRUE, !.fds = <<r, w>>]
  <1>1. eax \in Eax /\ Len(eax.fds) = 2
    <2>1. <<r, w>> \in Seq(FD) /\ Len(<<r, w>>) = 2
      OBVIOUS
    <2>2. Failed \in Eax
      BY SomePieces DEF Failed, Eax
    <2>3. \A fds \in Seq(FD) : /\ [Failed EXCEPT !.ok = TRUE, !.fds = fds] \in Eax
                               /\ [Failed EXCEPT !.ok = TRUE, !.fds = fds].fds = fds
      BY <2>2 DEF Eax
    <2> QED BY <2>1, <2>3, Zenon
  <1> HIDE DEF eax
  <1>2. After(C, q, Resumed(q, eax))
    <2>1. /\ Returned(C, Resumed(q, eax))
          /\ \E t \in Seq(UserFrame(C)) : Resumed(q, eax) = GoesOn(q, t, eax)
      BY <1>1, ResumedOn
    <2> QED BY <2>1, ReturnedIsAfter
  <1> QED BY <1>2 DEF Makes, Resumed, eax

\* A frame on top of those below the one that is done.
LEMMA Pushed ==
    ASSUME NEW C, NEW q \in Process(C), Well(C, q), q.todo # <<>>, NEW f,
           \/ f \in KernelFrame /\ Head(q.todo)[1] \notin {"pipe", "exit"}
           \/ f = <<"exit", 0>>
    PROVE  LET t == <<f>> \o Tail(q.todo)
           IN  /\ t \in Seq(UserFrame(C) \cup KernelFrame) /\ t # <<>>
               /\ Head(t) = f /\ Tail(t) = Tail(q.todo)
               /\ \A r : r.todo = t => Well(C, r)
  <1> DEFINE u == Tail(q.todo)
             t == <<f>> \o u
             S == UserFrame(C) \cup KernelFrame
  <1>1. UserStack(C, u) /\ (Head(q.todo)[1] \notin {"pipe", "exit"} => ~ Starts(u))
    BY TailIsStack
  <1>2. <<"exit", 0>> \in UserFrame(C)
    BY FramesOfPrograms DEF PlainLabels
  <1>3. u \in Seq(S) /\ f \in S
    BY <1>1, <1>2, SeqMonotonic DEF UserStack
  <1> HIDE DEF u, S
  <1>4. t \in Seq(S) /\ t # <<>> /\ Head(t) = f /\ Tail(t) = u
    BY <1>3
  <1>5. ASSUME f = <<"exit", 0>>
        PROVE  UserStack(C, t) /\ ~ Starts(t)
    <2>1. Plain(C, <<f>>)
      BY <1>5, FramesOfPrograms DEF PlainLabels
    <2>2. UserStack(C, <<f>>) /\ ~ Starts(<<f>>) /\ <<f>> # <<>> /\ <<f>>[Len(<<f>>)][1] = "exit"
      BY <1>5, <2>1, PlainIsStack
    <2> QED BY <1>1, <2>2, StackConcat
  <1> HIDE DEF t
  <1>6. \A r : r.todo = t => Well(C, r)
    <2>1. CASE f = <<"exit", 0>>
      BY <1>5, <2>1 DEF Well
    <2>2. CASE f \in KernelFrame /\ Head(q.todo)[1] \notin {"pipe", "exit"}
      BY <1>1, <1>4, <2>2 DEF Well
    <2> QED BY <2>1, <2>2
  <1> QED BY <1>4, <1>6 DEF t, u, S

\* A step replaces a process.
LEMMA Replaced ==
    ASSUME NEW C, NEW ps, ProcsOK(C, ps), NEW p \in Slot, NEW r \in Process(C), Well(C, r),
           r.state \in Gone => Idle(r)
    PROVE  ProcsOK(C, [ps EXCEPT ![p] = r])
  BY DEF ProcsOK

\* It may wake others.
LEMMA WokenIs ==
    ASSUME NEW C, NEW ps, ProcsOK(C, ps), NEW chan
    PROVE  /\ ProcsOK(C, Woken(ps, chan))
           /\ \A s \in Slot : /\ Woken(ps, chan)[s].todo = ps[s].todo
                              /\ Woken(ps, chan)[s].ofile = ps[s].ofile
  <1> DEFINE W(s) == IF ps[s].state = "SLEEPING" /\ ps[s].chan = chan
                     THEN [ps[s] EXCEPT !.state = "RUNNABLE", !.chan = <<>>] ELSE ps[s]
  <1>1. ASSUME NEW s \in Slot
        PROVE  /\ W(s) \in Process(C) /\ Well(C, W(s)) /\ (W(s).state \in Gone => Idle(W(s)))
               /\ W(s).todo = ps[s].todo /\ W(s).ofile = ps[s].ofile
    <2>1. ps[s] \in Process(C) /\ Well(C, ps[s]) /\ (ps[s].state \in Gone => Idle(ps[s]))
      BY DEF ProcsOK
    <2>2. CASE ps[s].state = "SLEEPING" /\ ps[s].chan = chan
      <3> DEFINE r == [ps[s] EXCEPT !.state = "RUNNABLE", !.chan = <<>>]
      <3>1. r \in Process(C) /\ r.todo = ps[s].todo /\ r.eax = ps[s].eax /\ r.state = "RUNNABLE"
            /\ r.ofile = ps[s].ofile
        BY <2>1 DEF Process, States, Chan
      <3> HIDE DEF r
      <3>2. Well(C, r)
        BY <2>1, <3>1 DEF Well
      <3> QED BY <2>2, <3>1, <3>2 DEF Gone, r
    <2>3. CASE ~ (ps[s].state = "SLEEPING" /\ ps[s].chan = chan)
      BY <2>1, <2>3
    <2> QED BY <2>2, <2>3
  <1>2. \A s \in Slot : Woken(ps, chan)[s] = W(s)
    BY DEF Woken
  <1>3. Woken(ps, chan) = [s \in Slot |-> W(s)]
    BY DEF Woken
  <1> HIDE DEF W
  <1> QED BY <1>1, <1>2, <1>3 DEF ProcsOK

-----------------------------------------------------------------------------
(* Who has which file open, and which files are for which end of a pipe *)

RefsOf(ps, f) == {d \in Slot \X FD : ps[d[1]].ofile[d[2]] = f}

Closes(q, i, w) ==
    q.todo # <<>> /\ Head(q.todo)[1] = "pipeclose" /\ Head(q.todo)[2].pipe = i
    /\ Head(q.todo)[2].writable = w

UsersOf(ft, i, w)   == {f \in File : Uses(ft[f], i, w)}
ClosersOf(ps, i, w) == {s \in Slot : Closes(ps[s], i, w)}

OpenEnd(pp, i, w) == pp[i] # FREE /\ (IF w THEN pp[i].writeopen ELSE pp[i].readopen)

RefsOK(ps, ft) == \A f \in File : ft[f].ref = Cardinality(RefsOf(ps, f))

OpenOK(ps, ft, pp) ==
    \A i \in PipeId, w \in BOOLEAN :
        Cardinality(UsersOf(ft, i, w)) + Cardinality(ClosersOf(ps, i, w))
            = IF OpenEnd(pp, i, w) THEN 1 ELSE 0

LEMMA EndsAreCountedIs ==
    /\ EndsAreCounted <=> RefsOK(proc, ftable) /\ OpenOK(proc, ftable, pipes)
    /\ EndsAreCounted' <=> RefsOK(proc', ftable') /\ OpenOK(proc', ftable', pipes')
  <1>1. /\ \A f : References(f) = Cardinality(RefsOf(proc, f))
        /\ \A f : References(f)' = Cardinality(RefsOf(proc', f))
    BY DEF References, RefsOf
  <1>2. \A p, i, w : Closes(proc[p], i, w)
                       <=> Label(p) = "pipeclose" /\ Arg(p).pipe = i /\ Arg(p).writable = w
    BY DEF Closes, Label, Arg
  <1>3. \A p, i, w : Closes(proc'[p], i, w)
                       <=> (Label(p) = "pipeclose" /\ Arg(p).pipe = i /\ Arg(p).writable = w)'
    BY DEF Closes, Label, Arg
  <1>4. EndsAreCounted <=> RefsOK(proc, ftable) /\ OpenOK(proc, ftable, pipes)
    BY <1>1, <1>2 DEF EndsAreCounted, RefsOK, OpenOK, UsersOf, Uses, OpenEnd, ClosersOf
  <1>5. EndsAreCounted' <=> RefsOK(proc', ftable') /\ OpenOK(proc', ftable', pipes')
    BY <1>1, <1>3 DEF EndsAreCounted, RefsOK, OpenOK, UsersOf, Uses, OpenEnd, ClosersOf
  <1> QED BY <1>4, <1>5

LEMMA TablesAreFinite ==
    /\ IsFiniteSet(Slot) /\ IsFiniteSet(FD) /\ IsFiniteSet(File) /\ IsFiniteSet(Slot \X FD)
    /\ \A ps, f : IsFiniteSet(RefsOf(ps, f)) /\ Cardinality(RefsOf(ps, f)) \in Nat
    /\ \A ft, i, w : IsFiniteSet(UsersOf(ft, i, w)) /\ Cardinality(UsersOf(ft, i, w)) \in Nat
    /\ \A ps, i, w : IsFiniteSet(ClosersOf(ps, i, w)) /\ Cardinality(ClosersOf(ps, i, w)) \in Nat
  <1>1. NPROC \in Int /\ NFILE \in Int /\ NOFILE - 1 \in Int /\ 0 \in Int /\ 1 \in Int
    BY ShellAssumption
  <1>2. IsFiniteSet(Slot) /\ IsFiniteSet(FD) /\ IsFiniteSet(File)
    BY <1>1, FS_Interval DEF Slot, FD, File
  <1>3. IsFiniteSet(Slot \X FD)
    BY <1>2, FS_Product
  <1>4. \A S, T : IsFiniteSet(S) /\ T \in SUBSET S => IsFiniteSet(T) /\ Cardinality(T) \in Nat
    BY FS_Subset, FS_CardinalityType
  <1>5. /\ \A ps, f : RefsOf(ps, f) \in SUBSET (Slot \X FD)
        /\ \A ft, i, w : UsersOf(ft, i, w) \in SUBSET File
        /\ \A ps, i, w : ClosersOf(ps, i, w) \in SUBSET Slot
    BY DEF RefsOf, UsersOf, ClosersOf
  <1> QED BY <1>2, <1>3, <1>4, <1>5

\* Nothing is opened or closed.
LEMMA SameEnds ==
    ASSUME NEW ps, NEW ft, NEW pp, NEW ps2, NEW ft2, NEW pp2, OpenOK(ps, ft, pp),
           \A f \in File, i \in PipeId, w \in BOOLEAN : Uses(ft2[f], i, w) <=> Uses(ft[f], i, w),
           \A s \in Slot, i \in PipeId, w \in BOOLEAN : Closes(ps2[s], i, w) <=> Closes(ps[s], i, w),
           \A i \in PipeId, w \in BOOLEAN : OpenEnd(pp2, i, w) <=> OpenEnd(pp, i, w)
    PROVE  OpenOK(ps2, ft2, pp2)
  <1>1. \A i \in PipeId, w \in BOOLEAN : /\ UsersOf(ft2, i, w) = UsersOf(ft, i, w)
                                         /\ ClosersOf(ps2, i, w) = ClosersOf(ps, i, w)
    BY DEF UsersOf, ClosersOf
  <1> QED BY <1>1 DEF OpenOK

LEMMA SameRefs ==
    ASSUME NEW ps, NEW ft, NEW ps2, RefsOK(ps, ft),
           \A s \in Slot : \A fd \in FD : ps2[s].ofile[fd] = ps[s].ofile[fd]
    PROVE  RefsOK(ps2, ft)
  <1>1. \A f : RefsOf(ps2, f) = RefsOf(ps, f)
    BY DEF RefsOf
  <1> QED BY <1>1 DEF RefsOK

\* A descriptor that was free is given a file, or one that was in use is freed.
LEMMA RefAdded ==
    ASSUME NEW ps, NEW ps2, NEW p \in Slot, NEW fd \in FD, NEW f \in File,
           ps[p].ofile[fd] = 0, ps2[p].ofile[fd] = f,
           \A s \in Slot : \A d \in FD :
               <<s, d>> # <<p, fd>> => ps2[s].ofile[d] = ps[s].ofile[d]
    PROVE  \A g \in File : Cardinality(RefsOf(ps2, g))
                            = Cardinality(RefsOf(ps, g)) + (IF g = f THEN 1 ELSE 0)
  <1>1. f # 0 /\ 0 \notin File
    BY ShellAssumption DEF File
  <1>2. <<p, fd>> \notin RefsOf(ps, f)
    BY <1>1 DEF RefsOf
  <1>3. RefsOf(ps2, f) = RefsOf(ps, f) \cup {<<p, fd>>}
    <2>1. \A d \in Slot \X FD : d = <<d[1], d[2]>> /\ d[1] \in Slot /\ d[2] \in FD
      OBVIOUS
    <2>2. \A d \in Slot \X FD : d \in RefsOf(ps2, f) <=> d \in RefsOf(ps, f) \/ d = <<p, fd>>
      BY <1>2, <2>1 DEF RefsOf
    <2> QED BY <2>2 DEF RefsOf
  <1>4. Cardinality(RefsOf(ps2, f)) = Cardinality(RefsOf(ps, f)) + 1
    <2>1. IsFiniteSet(RefsOf(ps, f))
      BY TablesAreFinite
    <2>2. \A S, x : IsFiniteSet(S) /\ x \notin S
                     => Cardinality(S \cup {x}) = Cardinality(S) + 1
      BY FS_AddElement
    <2> QED BY <1>2, <1>3, <2>1, <2>2, Zenon
  <1>5. ASSUME NEW g \in File, g # f PROVE RefsOf(ps2, g) = RefsOf(ps, g)
    <2>1. \A d \in Slot \X FD : d = <<d[1], d[2]>> /\ d[1] \in Slot /\ d[2] \in FD
      OBVIOUS
    <2>2. \A d \in Slot \X FD : d \in RefsOf(ps2, g) <=> d \in RefsOf(ps, g)
      BY <1>1, <1>5, <2>1 DEF RefsOf
    <2> QED BY <2>2 DEF RefsOf
  <1> QED BY <1>4, <1>5, TablesAreFinite

LEMMA RefDropped ==
    ASSUME NEW ps, NEW ps2, NEW p \in Slot, NEW fd \in FD, NEW f \in File,
           ps[p].ofile[fd] = f, ps2[p].ofile[fd] = 0,
           \A s \in Slot : \A d \in FD :
               <<s, d>> # <<p, fd>> => ps2[s].ofile[d] = ps[s].ofile[d]
    PROVE  \A g \in File : Cardinality(RefsOf(ps, g))
                            = Cardinality(RefsOf(ps2, g)) + (IF g = f THEN 1 ELSE 0)
  <1>1. \A s \in Slot : \A d \in FD :
           <<s, d>> # <<p, fd>> => ps[s].ofile[d] = ps2[s].ofile[d]
    OBVIOUS
  <1> QED BY <1>1, RefAdded

CopiesOf(q, f) == {fd \in FD : q.ofile[fd] = f}

LEMMA RefsForked ==
    ASSUME NEW ps, NEW ps2, NEW p \in Slot, NEW s \in Slot, p # s,
           \A fd \in FD : ps[s].ofile[fd] = 0 /\ ps2[s].ofile[fd] = ps[p].ofile[fd],
           \A t \in Slot : t # s => \A fd \in FD : ps2[t].ofile[fd] = ps[t].ofile[fd]
    PROVE  \A g \in File : Cardinality(RefsOf(ps2, g))
                = Cardinality(RefsOf(ps, g)) + Cardinality(CopiesOf(ps[p], g))
  <1> SUFFICES ASSUME NEW g \in File
               PROVE  Cardinality(RefsOf(ps2, g))
                       = Cardinality(RefsOf(ps, g)) + Cardinality(CopiesOf(ps[p], g))
    OBVIOUS
  <1> DEFINE A == {fd \in FD : ps[p].ofile[fd] = g}
             B == {s} \X A
             f == [fd \in A |-> <<s, fd>>]
  <1>1. g # 0
    BY ShellAssumption DEF File
  <1>2. RefsOf(ps, g) \cap B = {}
    BY <1>1 DEF RefsOf
  <1>3. RefsOf(ps2, g) = RefsOf(ps, g) \cup B
    <2>1. \A d \in Slot \X FD : d = <<d[1], d[2]>> /\ d[1] \in Slot /\ d[2] \in FD
      OBVIOUS
    <2>2. \A d \in Slot \X FD : d \in B <=> d[1] = s /\ ps[p].ofile[d[2]] = g
      BY <2>1
    <2>3. \A d \in Slot \X FD : ps2[d[1]].ofile[d[2]] = g <=> ps[d[1]].ofile[d[2]] = g \/ d \in B
      BY <1>1, <2>1, <2>2
    <2>4. B \subseteq Slot \X FD
      OBVIOUS
    <2> HIDE DEF B
    <2> QED BY <2>3, <2>4 DEF RefsOf
  <1>4. IsFiniteSet(A)
    BY TablesAreFinite, FS_Subset
  <1>5. f \in Bijection(A, B)
    <2>1. f \in [A -> B]
      OBVIOUS
    <2>2. \A a, b \in A : f[a] = f[b] => a = b
      OBVIOUS
    <2>3. \A t \in B : \E a \in A : f[a] = t
      OBVIOUS
    <2> HIDE DEF f, A, B
    <2> QED BY <2>1, <2>2, <2>3 DEF Bijection, Injection, Surjection, IsInjective
  <1>6. IsFiniteSet(B) /\ Cardinality(B) = Cardinality(A)
    <2>1. ExistsBijection(A, B)
      BY <1>5 DEF ExistsBijection
    <2> HIDE DEF A, B
    <2> QED BY <1>4, <2>1, FS_Bijection
  <1> HIDE DEF A, B
  <1>7. IsFiniteSet(RefsOf(ps, g)) /\ Cardinality(RefsOf(ps, g)) \in Nat
    BY TablesAreFinite
  <1>8. Cardinality(A) \in Nat
    BY <1>4, FS_CardinalityType
  <1>9. Cardinality(RefsOf(ps, g) \cup B)
          = Cardinality(RefsOf(ps, g)) + Cardinality(B) - Cardinality({})
    BY <1>2, <1>6, <1>7, FS_Union
  <1>10. Cardinality({}) = 0
    BY FS_EmptySet
  <1> QED BY <1>3, <1>6, <1>7, <1>8, <1>9, <1>10 DEF A, CopiesOf

\* One element more or less.
LEMMA CountOne ==
    /\ \A S, x : IsFiniteSet(S) /\ x \notin S
                 => IsFiniteSet(S \cup {x}) /\ Cardinality(S \cup {x}) = Cardinality(S) + 1
    /\ \A S, x : IsFiniteSet(S) /\ x \in S
                 => IsFiniteSet(S \ {x}) /\ Cardinality(S \ {x}) = Cardinality(S) - 1
  BY FS_AddElement, FS_RemoveElement

\* The last reference to a file is dropped: its end of a pipe is to be closed.
LEMMA EndToClose ==
    ASSUME NEW ps, NEW ft, NEW pp, NEW ps2, NEW ft2, OpenOK(ps, ft, pp), NEW p \in Slot,
           NEW f \in File, ft[f].ref > 0,
           \A g \in File : g # f => ft2[g] = ft[g],
           ~ (ft2[f].ref > 0),
           \A s \in Slot, i \in PipeId, w \in BOOLEAN :
               s # p => (Closes(ps2[s], i, w) <=> Closes(ps[s], i, w)),
           \A i \in PipeId, w \in BOOLEAN : ~ Closes(ps[p], i, w),
           \A i \in PipeId, w \in BOOLEAN : Closes(ps2[p], i, w) <=> Uses(ft[f], i, w)
    PROVE  OpenOK(ps2, ft2, pp)
  <1> SUFFICES ASSUME NEW i \in PipeId, NEW w \in BOOLEAN
               PROVE  Cardinality(UsersOf(ft2, i, w)) + Cardinality(ClosersOf(ps2, i, w))
                       = Cardinality(UsersOf(ft, i, w)) + Cardinality(ClosersOf(ps, i, w))
    BY DEF OpenOK
  <1>1. ~ Uses(ft2[f], i, w) /\ \A g \in File : g # f => (Uses(ft2[g], i, w) <=> Uses(ft[g], i, w))
    BY DEF Uses
  <1>2. /\ IsFiniteSet(UsersOf(ft, i, w)) /\ IsFiniteSet(ClosersOf(ps, i, w))
        /\ Cardinality(UsersOf(ft, i, w)) \in Nat /\ Cardinality(ClosersOf(ps, i, w)) \in Nat
    BY TablesAreFinite
  <1>3. CASE Uses(ft[f], i, w)
    <2>1. UsersOf(ft2, i, w) = UsersOf(ft, i, w) \ {f} /\ f \in UsersOf(ft, i, w)
      BY <1>1, <1>3 DEF UsersOf
    <2>2. ClosersOf(ps2, i, w) = ClosersOf(ps, i, w) \cup {p} /\ p \notin ClosersOf(ps, i, w)
      BY <1>3 DEF ClosersOf
    <2>3. Cardinality(UsersOf(ft2, i, w)) = Cardinality(UsersOf(ft, i, w)) - 1
      BY <1>2, <2>1, CountOne, Zenon
    <2>4. Cardinality(ClosersOf(ps2, i, w)) = Cardinality(ClosersOf(ps, i, w)) + 1
      BY <1>2, <2>2, CountOne, Zenon
    <2> QED BY <1>2, <2>3, <2>4
  <1>4. CASE ~ Uses(ft[f], i, w)
    <2>1. UsersOf(ft2, i, w) = UsersOf(ft, i, w)
      BY <1>1, <1>4 DEF UsersOf
    <2>2. ClosersOf(ps2, i, w) = ClosersOf(ps, i, w)
      BY <1>4 DEF ClosersOf
    <2> QED BY <2>1, <2>2
  <1> QED BY <1>3, <1>4

\* The end is closed.
LEMMA EndClosed ==
    ASSUME NEW ps, NEW ft, NEW pp, NEW ps2, NEW pp2, OpenOK(ps, ft, pp), NEW p \in Slot,
           NEW i0 \in PipeId, NEW w0 \in BOOLEAN, Closes(ps[p], i0, w0),
           \A s \in Slot, i \in PipeId, w \in BOOLEAN :
               s # p => (Closes(ps2[s], i, w) <=> Closes(ps[s], i, w)),
           \A i \in PipeId, w \in BOOLEAN : ~ Closes(ps2[p], i, w),
           \A i \in PipeId, w \in BOOLEAN :
               OpenEnd(pp2, i, w) <=> OpenEnd(pp, i, w) /\ ~ (i = i0 /\ w = w0)
    PROVE  OpenOK(ps2, ft, pp2)
  <1> SUFFICES ASSUME NEW i \in PipeId, NEW w \in BOOLEAN
               PROVE  Cardinality(UsersOf(ft, i, w)) + Cardinality(ClosersOf(ps2, i, w))
                       = IF OpenEnd(pp2, i, w) THEN 1 ELSE 0
    BY DEF OpenOK
  <1>1. /\ IsFiniteSet(ClosersOf(ps, i, w)) /\ Cardinality(ClosersOf(ps2, i, w)) \in Nat
        /\ Cardinality(UsersOf(ft, i, w)) \in Nat /\ Cardinality(ClosersOf(ps, i, w)) \in Nat
    BY TablesAreFinite
  <1>2. Cardinality(UsersOf(ft, i, w)) + Cardinality(ClosersOf(ps, i, w))
           = IF OpenEnd(pp, i, w) THEN 1 ELSE 0
    BY DEF OpenOK
  <1>3. CASE i = i0 /\ w = w0
    <2>1. ClosersOf(ps2, i, w) = ClosersOf(ps, i, w) \ {p} /\ p \in ClosersOf(ps, i, w)
      BY <1>3 DEF ClosersOf
    <2>2. Cardinality(ClosersOf(ps2, i, w)) = Cardinality(ClosersOf(ps, i, w)) - 1
      BY <1>1, <2>1, CountOne, Zenon
    <2>3. ~ OpenEnd(pp2, i, w)
      BY <1>3
    <2> QED BY <1>1, <1>2, <2>2, <2>3
  <1>4. CASE ~ (i = i0 /\ w = w0)
    <2>1. ~ Closes(ps[p], i, w)
      BY <1>4 DEF Closes
    <2>2. ClosersOf(ps2, i, w) = ClosersOf(ps, i, w)
      BY <2>1 DEF ClosersOf
    <2>3. OpenEnd(pp2, i, w) <=> OpenEnd(pp, i, w)
      BY <1>4
    <2> QED BY <1>2, <2>2, <2>3
  <1> QED BY <1>3, <1>4

\* A pipe is made, with a file for each of its ends.
LEMMA EndsMade ==
    ASSUME NEW ps, NEW ft, NEW pp, NEW ps2, NEW ft2, NEW pp2, OpenOK(ps, ft, pp),
           NEW i0 \in PipeId, pp[i0] = FREE, NEW rf \in File, NEW wf \in File, rf # wf,
           ft[rf].ref = 0, ft[wf].ref = 0,
           \A g \in File \ {rf, wf} : ft2[g] = ft[g],
           \A i \in PipeId, w \in BOOLEAN : Uses(ft2[rf], i, w) <=> i = i0 /\ ~ w,
           \A i \in PipeId, w \in BOOLEAN : Uses(ft2[wf], i, w) <=> i = i0 /\ w,
           \A s \in Slot, i \in PipeId, w \in BOOLEAN : Closes(ps2[s], i, w) <=> Closes(ps[s], i, w),
           \A i \in PipeId, w \in BOOLEAN : OpenEnd(pp2, i, w) <=> OpenEnd(pp, i, w) \/ i = i0
    PROVE  OpenOK(ps2, ft2, pp2)
  <1> SUFFICES ASSUME NEW i \in PipeId, NEW w \in BOOLEAN
               PROVE  Cardinality(UsersOf(ft2, i, w)) + Cardinality(ClosersOf(ps2, i, w))
                       = IF OpenEnd(pp2, i, w) THEN 1 ELSE 0
    BY DEF OpenOK
  <1>1. /\ IsFiniteSet(UsersOf(ft, i, w)) /\ Cardinality(UsersOf(ft2, i, w)) \in Nat
        /\ Cardinality(UsersOf(ft, i, w)) \in Nat /\ Cardinality(ClosersOf(ps, i, w)) \in Nat
    BY TablesAreFinite
  <1>2. Cardinality(UsersOf(ft, i, w)) + Cardinality(ClosersOf(ps, i, w))
           = IF OpenEnd(pp, i, w) THEN 1 ELSE 0
    BY DEF OpenOK
  <1>3. ClosersOf(ps2, i, w) = ClosersOf(ps, i, w)
    BY DEF ClosersOf
  <1>4. ~ Uses(ft[rf], i, w) /\ ~ Uses(ft[wf], i, w)
    BY DEF Uses
  <1>5. CASE i = i0
    <2> DEFINE f == IF w THEN wf ELSE rf
    <2>1. UsersOf(ft2, i, w) = UsersOf(ft, i, w) \cup {f} /\ f \notin UsersOf(ft, i, w)
      BY <1>4, <1>5 DEF UsersOf
    <2> HIDE DEF f
    <2>2. Cardinality(UsersOf(ft2, i, w)) = Cardinality(UsersOf(ft, i, w)) + 1
      BY <1>1, <2>1, CountOne, Zenon
    <2>3. ~ OpenEnd(pp, i, w) /\ OpenEnd(pp2, i, w)
      BY <1>5 DEF OpenEnd
    <2> QED BY <1>1, <1>2, <1>3, <2>2, <2>3
  <1>6. CASE i # i0
    <2>1. UsersOf(ft2, i, w) = UsersOf(ft, i, w)
      BY <1>4, <1>6 DEF UsersOf
    <2>2. OpenEnd(pp2, i, w) <=> OpenEnd(pp, i, w)
      BY <1>6
    <2> QED BY <1>2, <1>3, <2>1, <2>2
  <1> QED BY <1>5, <1>6

-----------------------------------------------------------------------------
(* The steps.  Most leave the files as they are. *)

SameFiles(ps, ps2) ==
    \A s \in Slot :
        /\ \A fd \in FD : ps2[s].ofile[fd] = ps[s].ofile[fd]
        /\ \A i \in PipeId, w \in BOOLEAN : Closes(ps2[s], i, w) <=> Closes(ps[s], i, w)
        /\ InPipe(ps2[s]) => ps2[s].todo = ps[s].todo

LEMMA LeastIsIn ==
    ASSUME NEW S \in SUBSET Nat, S # {}
    PROVE  Min(S) \in S /\ \A x \in S : Min(S) <= x
  <1>1. \E m \in S : \A k \in S : m <= k
    BY LeastNat
  <1> QED BY <1>1 DEF Min

LEMMA UserDoesNotClose ==
    ASSUME NEW C, NEW q, q.todo \in Seq(UserFrame(C))
    PROVE  ~ InPipe(q) /\ \A i, w : ~ Closes(q, i, w)
  <1>1. q.todo # <<>> => Head(q.todo) \in UserFrame(C)
    OBVIOUS
  <1> QED BY <1>1, FrameHolds DEF Closes, InPipe

LEMMA WokenFiles ==
    ASSUME NEW C, NEW ps, ProcsOK(C, ps), NEW chan
    PROVE  ProcsOK(C, Woken(ps, chan)) /\ SameFiles(ps, Woken(ps, chan))
  BY WokenIs DEF SameFiles, Closes

LEMMA SameSame ==
    ASSUME NEW ps, NEW ps2, NEW ps3, SameFiles(ps, ps2), SameFiles(ps2, ps3)
    PROVE  SameFiles(ps, ps3)
  BY DEF SameFiles, InPipe

\* A process that goes on running, and had no end of a pipe to close.
LEMMA ReplacedQuietly ==
    ASSUME NEW C, NEW ps, ProcsOK(C, ps), NEW p \in Slot, NEW r \in Process(C), Well(C, r),
           r.state \in Gone => Idle(r), r.ofile = ps[p].ofile,
           ~ InPipe(r), \A i, w : ~ Closes(ps[p], i, w) /\ ~ Closes(r, i, w)
    PROVE  ProcsOK(C, [ps EXCEPT ![p] = r]) /\ SameFiles(ps, [ps EXCEPT ![p] = r])
  <1>1. ProcsOK(C, [ps EXCEPT ![p] = r])
    BY Replaced
  <1>2. ps \in [Slot -> Process(C)]
    BY DEF ProcsOK
  <1>3. \A s \in Slot : [ps EXCEPT ![p] = r][s] = IF s = p THEN r ELSE ps[s]
    BY <1>2
  <1>4. SameFiles(ps, [ps EXCEPT ![p] = r])
    BY <1>3 DEF SameFiles
  <1> QED BY <1>1, <1>4

LEMMA AfterQuietly ==
    ASSUME NEW C, NEW ps, ProcsOK(C, ps), NEW p \in Slot, NEW r, After(C, ps[p], r),
           ps[p].state \notin Gone, ps[p].todo # <<>>, Head(ps[p].todo)[1] # "pipeclose"
    PROVE  ProcsOK(C, [ps EXCEPT ![p] = r]) /\ SameFiles(ps, [ps EXCEPT ![p] = r])
  <1>1. /\ r \in Process(C) /\ Well(C, r) /\ r.todo \in Seq(UserFrame(C)) /\ r.state \notin Gone
        /\ r.ofile = ps[p].ofile
    BY DEF After
  <1>2. ~ InPipe(r) /\ \A i, w : ~ Closes(ps[p], i, w) /\ ~ Closes(r, i, w)
    BY <1>1, UserDoesNotClose DEF Closes
  <1> QED BY <1>1, <1>2, ReplacedQuietly

\* A file that a descriptor is for is in use.
LEMMA ReferredTo ==
    ASSUME NEW ps, NEW ft, RefsOK(ps, ft), NEW p \in Slot, NEW fd \in FD, NEW f \in File,
           ps[p].ofile[fd] = f
    PROVE  ft[f].ref > 0 /\ ft[f].ref \in Nat
  <1>1. <<p, fd>> \in RefsOf(ps, f)
    BY DEF RefsOf
  <1>2. IsFiniteSet(RefsOf(ps, f)) /\ Cardinality(RefsOf(ps, f)) \in Nat
    BY TablesAreFinite
  <1>3. Cardinality(RefsOf(ps, f)) # 0
    <2>1. \A S : IsFiniteSet(S) => (Cardinality(S) = 0 <=> S = {})
      BY FS_EmptySet
    <2> QED BY <1>1, <1>2, <2>1
  <1> QED BY <1>2, <1>3 DEF RefsOK

LEMMA HeldIs == PipesAreHeld' <=> HeldIn(proc', ftable')
  BY DEF PipesAreHeld, HeldIn, InPipe, Uses

\* A process that sleeps at a pipe keeps it open: neither its descriptors nor
\* the files in use change under it.
LEMMA StillHeld ==
    ASSUME NEW ps, NEW ft, NEW ps2, NEW ft2, HeldIn(ps, ft), RefsOK(ps2, ft2),
           \A s \in Slot : InPipe(ps2[s]) =>
               ps2[s].todo = ps[s].todo /\ \A fd \in FD : ps2[s].ofile[fd] = ps[s].ofile[fd],
           \A f \in File : ft[f].ref > 0 /\ ft2[f].ref > 0 =>
               \A i \in PipeId, w \in BOOLEAN : Uses(ft[f], i, w) => Uses(ft2[f], i, w),
           ft \in [File -> FileRec]
    PROVE  HeldIn(ps2, ft2)
  <1>1. SUFFICES ASSUME NEW s \in Slot, InPipe(ps2[s])
                 PROVE  \E fd \in FD, w \in BOOLEAN :
                            /\ ps2[s].ofile[fd] \in File
                            /\ Uses(ft2[ps2[s].ofile[fd]], Head(ps2[s].todo)[2].pipe, w)
    BY DEF HeldIn
  <1>2. ps2[s].todo = ps[s].todo /\ \A fd \in FD : ps2[s].ofile[fd] = ps[s].ofile[fd]
    BY <1>1
  <1>3. InPipe(ps[s])
    BY <1>1, <1>2 DEF InPipe
  <1>4. PICK fd \in FD, w \in BOOLEAN :
             /\ ps[s].ofile[fd] \in File
             /\ Uses(ft[ps[s].ofile[fd]], Head(ps[s].todo)[2].pipe, w)
    BY <1>3 DEF HeldIn
  <1> DEFINE f == ps[s].ofile[fd]
             j == Head(ps[s].todo)[2].pipe
  <1>5. f \in File /\ Uses(ft[f], j, w) /\ ps2[s].ofile[fd] = f /\ Head(ps2[s].todo)[2].pipe = j
    BY <1>2, <1>4
  <1> HIDE DEF f, j
  <1>6. ft2[f].ref > 0
    BY <1>5, ReferredTo
  <1>7. ft[f].ref > 0 /\ j \in PipeId
    <2>1. ft[f].ref > 0 /\ ft[f].type = "pipe" /\ ft[f].pipe = j
      BY <1>5 DEF Uses
    <2>2. ft[f] \in FileRec
      BY <1>5
    <2> QED BY <2>1, <2>2 DEF FileRec, PipeFile
  <1>8. Uses(ft2[f], j, w)
    BY <1>5, <1>6, <1>7
  <1> QED BY <1>5, <1>8

\* The files stay as they are, and so do the ends of the pipes.
LEMMA QuietStep ==
    ASSUME NEW C, IInv(C), SameFiles(proc, proc'), ftable' = ftable,
           \A i \in PipeId, w \in BOOLEAN : OpenEnd(pipes', i, w) <=> OpenEnd(pipes, i, w)
    PROVE  EndsAreCounted' /\ PipesAreHeld'
  <1>1. RefsOK(proc, ftable) /\ OpenOK(proc, ftable, pipes)
    BY EndsAreCountedIs DEF IInv
  <1>2. RefsOK(proc', ftable')
    BY <1>1, SameRefs DEF SameFiles
  <1>3. OpenOK(proc', ftable', pipes')
    BY <1>1, SameEnds DEF SameFiles
  <1>4. HeldIn(proc', ftable')
    BY <1>2, StillHeld DEF SameFiles, IInv, PipesAreHeld, FilesOK
  <1> QED BY <1>2, <1>3, <1>4, EndsAreCountedIs, HeldIs

LEMMA ProcStep ==
    ASSUME NEW C, IInv(C), ProcsOK(C, proc'), SameFiles(proc, proc'), nextpid' \in Nat,
           UNCHANGED <<ftable, pipes, input, typing, sent, got>>
    PROVE  IInv(C)'
  <1>1. EndsAreCounted' /\ PipesAreHeld'
    BY QuietStep
  <1>2. ProcsOK(C, proc)'
    BY DEF ProcsOK
  <1>3. FilesOK' /\ ConsoleOK' /\ PipesAreFifo' /\ ConsoleCanBeRead'
    BY DEF IInv, FilesOK, ConsoleOK, PipesAreFifo, ConsoleCanBeRead
  <1> QED BY <1>1, <1>2, <1>3 DEF IInv

\* What a process on which a step depends looks like.
LEMMA AtFrame ==
    ASSUME NEW C, IInv(C), NEW p \in Slot, proc[p].todo # <<>>
    PROVE  /\ proc[p] \in Process(C) /\ Well(C, proc[p])
           /\ Label(p) = Head(proc[p].todo)[1] /\ Arg(p) = Head(proc[p].todo)[2]
           /\ Label(p) \in {"close", "dup"} => Arg(p) \in FD
           /\ Label(p) = "kill" => Arg(p) \in Nat
           /\ Label(p) = "fork" => Arg(p) \in Seq(Frame(C))
           /\ Label(p) = "read" => Arg(p) \in [fd : FD, n : Count]
           /\ Label(p) = "write" => Arg(p) \in [fd : FD, bytes : Piece]
           /\ Label(p) = "pipeclose" => Arg(p) \in PipeFile
           /\ Label(p) = "piperead" => Arg(p) \in [pipe : PipeId, n : Count]
           /\ Label(p) = "pipewrite" => Arg(p) \in [pipe : PipeId, bytes : Piece, n : Nat]
           /\ Label(p) = "consoleread" => Arg(p) \in Reading
           /\ Label(p) # "consolewrite"
           /\ Head(proc[p].todo) = <<Label(p), Arg(p)>>
  <1> DEFINE f == Head(proc[p].todo)
  <1>1. proc[p] \in Process(C) /\ Well(C, proc[p])
    BY DEF IInv, ProcsOK
  <1>2. Label(p) = f[1] /\ Arg(p) = f[2]
    BY DEF Label, Arg
  <1>3. f \in UserFrame(C) \/ f \in KernelFrame
    BY <1>1, TailIsStack
  <1> HIDE DEF f
  <1>4. CASE f \in UserFrame(C)
    BY <1>1, <1>2, <1>4, FrameHolds DEF f
  <1>5. CASE f \in KernelFrame
    BY <1>1, <1>2, <1>5 DEF KernelFrame, f
  <1> QED BY <1>3, <1>4, <1>5

\* A process that runs has an own frame on top, or none.
LEMMA Running ==
    ASSUME NEW C, IInv(C), NEW p \in Slot, NEW l, At(p, l), l # "none"
    PROVE  /\ proc[p].todo # <<>> /\ Label(p) = l /\ proc[p].state = "RUNNABLE"
           /\ proc[p].state \notin Gone
  BY DEF At, Label, Gone

LEMMA SleepStep ==
    ASSUME NEW C, IInv(C), NEW p \in Slot, Sleep(p)
    PROVE  IInv(C)'
  <1> DEFINE r == [proc[p] EXCEPT !.state = "SLEEPING"]
  <1>1. ProcsOK(C, proc) /\ proc[p] \in Process(C) /\ Well(C, proc[p]) /\ proc \in [Slot -> Process(C)]
    BY DEF IInv, ProcsOK
  <1>2. /\ r \in Process(C) /\ r.todo = proc[p].todo /\ r.eax = proc[p].eax
        /\ r.ofile = proc[p].ofile /\ r.state = "SLEEPING"
    BY <1>1 DEF Process, States
  <1>3. proc' = [proc EXCEPT ![p] = r]
    BY DEF Sleep, Set
  <1> HIDE DEF r
  <1>4. Well(C, r) /\ (r.state \in Gone => Idle(r))
    BY <1>1, <1>2 DEF Well, Gone
  <1>5. ProcsOK(C, proc')
    BY <1>1, <1>2, <1>3, <1>4, Replaced
  <1>6. \A s \in Slot : proc'[s] = IF s = p THEN r ELSE proc[s]
    BY <1>1, <1>3
  <1>7. SameFiles(proc, proc')
    BY <1>2, <1>6 DEF SameFiles, Closes
  <1> QED BY <1>5, <1>7, ProcStep DEF Sleep, IInv

\* A step of one process that ends a call and changes nothing else.
LEMMA CallEnds ==
    ASSUME NEW C, IInv(C), NEW p \in Slot, NEW r, After(C, proc[p], r), proc[p].todo # <<>>,
           Label(p) # "pipeclose", proc[p].state = "RUNNABLE", Set(p, r), nextpid' \in Nat,
           UNCHANGED <<ftable, pipes, input, typing, sent, got>>
    PROVE  IInv(C)'
  <1>1. ProcsOK(C, proc) /\ proc[p].state \notin Gone /\ Head(proc[p].todo)[1] # "pipeclose"
    BY AtFrame DEF IInv, Gone
  <1>2. ProcsOK(C, proc') /\ SameFiles(proc, proc')
    BY <1>1, AfterQuietly DEF Set
  <1> QED BY <1>2, ProcStep

LEMMA InWaitIs ==
    ASSUME NEW C, IInv(C), NEW p \in Slot, InWait(p)
    PROVE  /\ proc[p].todo # <<>> /\ Label(p) \in {"wait", "wait2"} /\ proc[p].state = "RUNNABLE"
           /\ proc[p] \in Process(C) /\ Well(C, proc[p]) /\ Head(proc[p].todo)[1] = Label(p)
  <1>1. proc[p].todo # <<>> /\ Label(p) \in {"wait", "wait2"} /\ proc[p].state = "RUNNABLE"
    BY Running DEF InWait
  <1> QED BY <1>1, AtFrame

LEMMA FreeIs ==
    ASSUME NEW C
    PROVE  Free \in Process(C) /\ Well(C, Free) /\ Idle(Free) /\ Free.todo = <<>>
           /\ Free.ofile = [fd \in FD |-> 0]
  <1>1. Failed \in Eax /\ 0 \in 0 .. NPROC /\ 0 \in 0 .. NFILE
    BY ShellAssumption, SomePieces DEF Failed, Eax
  <1>2. Free \in Process(C) /\ Free.todo = <<>> /\ Free.ofile = [fd \in FD |-> 0]
    <2> DEFINE none == [fd \in FD |-> 0]
               Made(e, f, g, h) ==
                 [state |-> "UNUSED", pid |-> 0, parent |-> 0, killed |-> FALSE,
                  chan |-> e, ofile |-> f, todo |-> g, eax |-> h]
    <2>1. \A e \in Chan, f \in [FD -> 0 .. NFILE], g \in Seq(UserFrame(C) \cup KernelFrame),
             h \in Eax : Made(e, f, g, h) \in Process(C)
      BY <1>1 DEF Process, States
    <2>2. \A e, f, g, h : Made(e, f, g, h).todo = g /\ Made(e, f, g, h).ofile = f
      OBVIOUS
    <2>3. Free = Made(<<>>, none, <<>>, Failed)
      BY DEF Free
    <2>4. <<>> \in Chan
      BY DEF Chan
    <2>5. none \in [FD -> 0 .. NFILE]
      BY <1>1
    <2>6. <<>> \in Seq(UserFrame(C) \cup KernelFrame)
      OBVIOUS
    <2> HIDE DEF Made, none
    <2>7. Free \in Process(C)
      BY <1>1, <2>1, <2>3, <2>4, <2>5, <2>6, Zenon
    <2>8. Free.todo = <<>> /\ Free.ofile = none
      BY <2>2, <2>3
    <2> QED BY <2>7, <2>8 DEF none
  <1>3. Well(C, Free)
    <2>1. <<>> \in Seq(UserFrame(C)) /\ Len(<<>>) = 0
      OBVIOUS
    <2>2. UserStack(C, <<>>) /\ ~ Starts(<<>>)
      BY <2>1 DEF UserStack, Ordered, Starts
    <2> QED BY <1>2, <2>2 DEF Well
  <1> QED BY <1>2, <1>3 DEF Idle

LEMMA WaitReapsStep ==
    ASSUME NEW C, Grammar(C), IInv(C), NEW p \in Slot, WaitReaps(p)
    PROVE  IInv(C)'
  <1> DEFINE s == Min(Zombies(p))
             r == Returns(proc[p], proc[s].pid)
             ps == [proc EXCEPT ![p] = r]
  <1>1. /\ proc[p].todo # <<>> /\ Label(p) \in {"wait", "wait2"} /\ proc[p].state = "RUNNABLE"
        /\ proc[p] \in Process(C) /\ Well(C, proc[p]) /\ Head(proc[p].todo)[1] = Label(p)
    BY InWaitIs DEF WaitReaps
  <1>2. s \in Slot /\ proc[s].state = "ZOMBIE" /\ s # p
    <2>1. Zombies(p) \in SUBSET Nat /\ Zombies(p) # {}
      BY DEF WaitReaps, Zombies, Children, Slot
    <2>2. s \in Zombies(p)
      BY <2>1, LeastIsIn
    <2> QED BY <1>1, <2>2 DEF Zombies, Children
  <1>3. ProcsOK(C, proc) /\ proc[s] \in Process(C) /\ Idle(proc[s]) /\ proc \in [Slot -> Process(C)]
    BY <1>2 DEF IInv, ProcsOK, Gone
  <1>4. After(C, proc[p], r)
    <2>1. proc[s].pid \in Nat
      BY <1>3 DEF Process
    <2> QED BY <1>1, <2>1, EndsCall
  <1>5. proc' = [ps EXCEPT ![s] = Free]
    BY DEF WaitReaps
  <1> HIDE DEF r, s
  <1>6. ProcsOK(C, ps) /\ SameFiles(proc, ps)
    BY <1>1, <1>3, <1>4, AfterQuietly DEF Gone
  <1>7. ps[s] = proc[s]
    BY <1>2, <1>3
  <1> HIDE DEF ps
  <1>8. ProcsOK(C, proc') /\ \A t \in Slot : proc'[t] = IF t = s THEN Free ELSE ps[t]
    <2>1. ps \in [Slot -> Process(C)]
      BY <1>6 DEF ProcsOK
    <2>2. ProcsOK(C, proc')
      BY <1>2, <1>5, <1>6, FreeIs, Replaced
    <2> QED BY <1>5, <2>1, <2>2
  <1>9. SameFiles(ps, proc')
    <2>1. \A fd \in FD : Free.ofile[fd] = 0 /\ proc[s].ofile[fd] = 0
      BY <1>3, FreeIs DEF Idle
    <2>2. \A i, w : ~ Closes(Free, i, w) /\ ~ Closes(proc[s], i, w)
      BY <1>3, FreeIs DEF Idle, Closes
    <2> QED BY <1>7, <1>8, <2>1, <2>2, FreeIs DEF SameFiles, InPipe
  <1>10. SameFiles(proc, proc')
    BY <1>6, <1>9, SameSame
  <1> QED BY <1>8, <1>10, ProcStep DEF WaitReaps, IInv

LEMMA WaitFailsStep ==
    ASSUME NEW C, Grammar(C), IInv(C), NEW p \in Slot, WaitFails(p)
    PROVE  IInv(C)'
  <1>1. /\ proc[p].todo # <<>> /\ Label(p) \in {"wait", "wait2"} /\ proc[p].state = "RUNNABLE"
        /\ proc[p] \in Process(C) /\ Well(C, proc[p]) /\ Head(proc[p].todo)[1] = Label(p)
    BY InWaitIs DEF WaitFails
  <1>2. After(C, proc[p], FailsCall(proc[p]))
    BY <1>1, EndsCall
  <1> QED BY <1>1, <1>2, CallEnds DEF WaitFails, IInv

\* A process puts a frame in the place of the one it has done, and may be
\* about to sleep.
LEMMA PushedQuietly ==
    ASSUME NEW C, NEW ps, ProcsOK(C, ps), NEW p \in Slot, ps[p].todo # <<>>, NEW f, NEW r,
           Head(ps[p].todo)[1] # "pipeclose", f[1] \notin {"pipeclose", "piperead", "pipewrite"},
           \/ f \in KernelFrame /\ Head(ps[p].todo)[1] \notin {"pipe", "exit"}
           \/ f = <<"exit", 0>>,
           NEW state \in States \ Gone, NEW chan \in Chan,
           r = [ps[p] EXCEPT !.todo = <<f>> \o Tail(ps[p].todo), !.state = state, !.chan = chan]
    PROVE  ProcsOK(C, [ps EXCEPT ![p] = r]) /\ SameFiles(ps, [ps EXCEPT ![p] = r])
  <1> DEFINE t == <<f>> \o Tail(ps[p].todo)
  <1>1. ps[p] \in Process(C) /\ Well(C, ps[p])
    BY DEF ProcsOK
  <1>2. /\ t \in Seq(UserFrame(C) \cup KernelFrame) /\ t # <<>> /\ Head(t) = f
        /\ \A x : x.todo = t => Well(C, x)
    BY <1>1, Pushed
  <1> HIDE DEF t
  <1>3. r = [ps[p] EXCEPT !.todo = t, !.state = state, !.chan = chan]
    BY DEF t
  <1>4. r \in Process(C) /\ r.todo = t /\ r.ofile = ps[p].ofile /\ r.state = state
    BY <1>1, <1>2, <1>3 DEF Process
  <1>5. ~ InPipe(r) /\ \A i, w : ~ Closes(ps[p], i, w) /\ ~ Closes(r, i, w)
    BY <1>2, <1>4 DEF Closes, InPipe
  <1> QED BY <1>2, <1>4, <1>5, ReplacedQuietly

LEMMA WaitSleepsStep ==
    ASSUME NEW C, Grammar(C), IInv(C), NEW p \in Slot, WaitSleeps(p)
    PROVE  IInv(C)'
  <1> DEFINE f == <<"wait2", 0>>
             r == [proc[p] EXCEPT !.todo = <<f>> \o Tail(proc[p].todo), !.state = "SLEEPING",
                                  !.chan = WaitChan(p)]
  <1>1. /\ proc[p].todo # <<>> /\ Label(p) \in {"wait", "wait2"} /\ proc[p].state = "RUNNABLE"
        /\ proc[p] \in Process(C) /\ Well(C, proc[p]) /\ Head(proc[p].todo)[1] = Label(p)
    BY InWaitIs DEF WaitSleeps
  <1>2. ProcsOK(C, proc)
    BY DEF IInv
  <1>3. f \in KernelFrame /\ f[1] = "wait2"
    BY DEF KernelFrame
  <1>4. "SLEEPING" \in States \ Gone /\ WaitChan(p) \in Chan
    BY ShellAssumption DEF States, Gone, WaitChan, Chan, Slot
  <1>5. proc' = [proc EXCEPT ![p] = r]
    BY <1>1 DEF WaitSleeps, Set, Does, Process
  <1> HIDE DEF f
  <1>6. ProcsOK(C, [proc EXCEPT ![p] = r]) /\ SameFiles(proc, [proc EXCEPT ![p] = r])
    BY <1>1, <1>2, <1>3, <1>4, PushedQuietly
  <1> HIDE DEF r
  <1> QED BY <1>5, <1>6, ProcStep DEF WaitSleeps, IInv

\* fork() or pipe() has failed, and the program exits.
LEMMA GivesUp ==
    ASSUME NEW C, IInv(C), NEW p \in Slot, NEW l, l \in {"fork", "pipe"}, At(p, l),
           Set(p, Does(proc[p], << <<"exit", 0>> >>)),
           UNCHANGED <<nextpid, ftable, pipes, input, typing, sent, got>>
    PROVE  IInv(C)'
  <1> DEFINE f == <<"exit", 0>>
             r == [proc[p] EXCEPT !.todo = <<f>> \o Tail(proc[p].todo), !.state = "RUNNABLE",
                                  !.chan = proc[p].chan]
  <1>1. /\ proc[p].todo # <<>> /\ Label(p) = l /\ proc[p].state = "RUNNABLE"
        /\ proc[p] \in Process(C) /\ Head(proc[p].todo)[1] = l
    <2>1. proc[p].todo # <<>> /\ Label(p) = l /\ proc[p].state = "RUNNABLE"
      BY Running
    <2> QED BY <2>1, AtFrame
  <1>2. ProcsOK(C, proc)
    BY DEF IInv
  <1>3. "RUNNABLE" \in States \ Gone /\ proc[p].chan \in Chan
    BY <1>1 DEF States, Gone, Process
  <1>4. proc' = [proc EXCEPT ![p] = r]
    BY <1>1 DEF Set, Does, Process
  <1>5. f = <<"exit", 0>> /\ f[1] = "exit"
    OBVIOUS
  <1> HIDE DEF f
  <1>6. ProcsOK(C, [proc EXCEPT ![p] = r]) /\ SameFiles(proc, [proc EXCEPT ![p] = r])
    BY <1>1, <1>2, <1>3, <1>5, PushedQuietly
  <1> HIDE DEF r
  <1> QED BY <1>4, <1>6, ProcStep DEF IInv

LEMMA ForkFailsStep ==
    ASSUME NEW C, IInv(C), NEW p \in Slot, ForkFails(p)
    PROVE  IInv(C)'
  BY GivesUp DEF ForkFails

LEMMA PipeFailsStep ==
    ASSUME NEW C, IInv(C), NEW p \in Slot, PipeFails(p)
    PROVE  IInv(C)'
  BY GivesUp DEF PipeFails

\* The process that is killed is the same but for its state.
LEMMA KilledIs ==
    ASSUME NEW C, NEW q \in Process(C), Well(C, q), q.state \in Gone => Idle(q)
    PROVE  /\ Killed(q) \in Process(C) /\ Well(C, Killed(q))
           /\ Killed(q).state \in Gone => Idle(Killed(q))
           /\ Killed(q).todo = q.todo /\ Killed(q).ofile = q.ofile
           /\ q.state = "RUNNABLE" => Killed(q).state = "RUNNABLE"
  <1> DEFINE r == Killed(q)
  <1>1. <<>> \in Chan
    BY DEF Chan
  <1>2. /\ r \in Process(C) /\ r.todo = q.todo /\ r.ofile = q.ofile /\ r.eax = q.eax
        /\ r.state = IF q.state = "SLEEPING" THEN "RUNNABLE" ELSE q.state
    BY <1>1 DEF Killed, Process, States
  <1> HIDE DEF r
  <1>3. Well(C, r)
    BY <1>2 DEF Well
  <1>4. r.state \in Gone => Idle(r)
    BY <1>2 DEF Gone, Idle
  <1> QED BY <1>2, <1>3, <1>4 DEF r

LEMMA KillStep ==
    ASSUME NEW C, Grammar(C), IInv(C), NEW p \in Slot, Kill(p)
    PROVE  IInv(C)'
  <1> DEFINE found == {s \in Slot : proc[s].pid = Arg(p)}
             k == Min(found)
             after == IF found = {} THEN proc ELSE [proc EXCEPT ![k] = Killed(@)]
             r == IF found = {} THEN FailsCall(after[p]) ELSE Returns(after[p], 0)
  <1>1. /\ proc[p].todo # <<>> /\ Label(p) = "kill" /\ proc[p].state = "RUNNABLE"
        /\ Head(proc[p].todo)[1] = "kill"
    BY Running, AtFrame DEF Kill
  <1>2. ProcsOK(C, proc) /\ proc \in [Slot -> Process(C)]
    BY DEF IInv, ProcsOK
  <1>3. /\ ProcsOK(C, after) /\ SameFiles(proc, after)
        /\ after[p].todo = proc[p].todo /\ after[p].state = "RUNNABLE"
    <2>1. CASE found = {}
      BY <1>1, <1>2, <2>1 DEF SameFiles
    <2>2. CASE found # {}
      <3>1. k \in Slot
        <4>1. found \in SUBSET Nat /\ found \in SUBSET Slot
          BY DEF Slot
        <4> HIDE DEF found
        <4> QED BY <2>2, <4>1, LeastIsIn
      <3> HIDE DEF found, k
      <3>2. proc[k] \in Process(C) /\ Well(C, proc[k]) /\ (proc[k].state \in Gone => Idle(proc[k]))
        BY <1>2, <3>1 DEF ProcsOK
      <3>3. /\ Killed(proc[k]) \in Process(C) /\ Well(C, Killed(proc[k]))
            /\ Killed(proc[k]).state \in Gone => Idle(Killed(proc[k]))
            /\ Killed(proc[k]).todo = proc[k].todo /\ Killed(proc[k]).ofile = proc[k].ofile
            /\ proc[k].state = "RUNNABLE" => Killed(proc[k]).state = "RUNNABLE"
        BY <3>2, KilledIs
      <3>4. after = [proc EXCEPT ![k] = Killed(proc[k])]
        BY <1>2, <2>2, <3>1
      <3>5. ProcsOK(C, after)
        BY <1>2, <3>1, <3>3, <3>4, Replaced
      <3>6. \A s \in Slot : after[s] = IF s = k THEN Killed(proc[k]) ELSE proc[s]
        BY <1>2, <3>1, <3>4
      <3> HIDE DEF after
      <3>7. SameFiles(proc, after)
        BY <3>3, <3>6 DEF SameFiles, Closes
      <3>8. after[p].todo = proc[p].todo /\ after[p].state = "RUNNABLE"
        BY <1>1, <3>3, <3>6
      <3> QED BY <3>5, <3>7, <3>8
    <2> QED BY <2>1, <2>2
  <1>4. proc' = [after EXCEPT ![p] = r]
    <2>1. proc' = [after EXCEPT ![p] = IF found = {} THEN FailsCall(@) ELSE Returns(@, 0)]
      BY DEF Kill
    <2> HIDE DEF found, after
    <2> QED BY <2>1
  <1> HIDE DEF after, found
  <1>5. after[p] \in Process(C) /\ Well(C, after[p])
    BY <1>3 DEF ProcsOK
  <1>6. After(C, after[p], r)
    <2>1. After(C, after[p], FailsCall(after[p])) /\ After(C, after[p], Returns(after[p], 0))
      BY <1>1, <1>3, <1>5, EndsCall
    <2> QED BY <2>1
  <1> HIDE DEF r
  <1>7. ProcsOK(C, proc') /\ SameFiles(after, proc')
    BY <1>1, <1>3, <1>4, <1>6, AfterQuietly DEF Gone
  <1>8. SameFiles(proc, proc')
    BY <1>3, <1>7, SameSame
  <1> QED BY <1>7, <1>8, ProcStep DEF Kill, IInv

LEMMA KilledExitsStep ==
    ASSUME NEW C, IInv(C), NEW p \in Slot, KilledExits(p)
    PROVE  IInv(C)'
  <1> DEFINE t == << <<"exit", 0>> >>
             r == [proc[p] EXCEPT !.todo = t]
  <1>1. ProcsOK(C, proc) /\ proc[p] \in Process(C) /\ proc[p].state = "RUNNABLE"
    BY DEF IInv, ProcsOK, KilledExits
  <1>2. UserStack(C, t) /\ ~ Starts(t) /\ t \in Seq(UserFrame(C))
    BY FramesOfPrograms, PlainIsStack DEF PlainLabels, Plain
  <1>3. t \in Seq(UserFrame(C) \cup KernelFrame)
    BY <1>2, SeqMonotonic
  <1> HIDE DEF t
  <1>4. r \in Process(C) /\ r.todo = t /\ r.state = "RUNNABLE" /\ r.ofile = proc[p].ofile
    BY <1>1, <1>3 DEF Process
  <1>5. proc' = [proc EXCEPT ![p] = r]
    BY DEF KilledExits, Set, t
  <1>6. ~ InPipe(r) /\ \A i, w : ~ Closes(proc[p], i, w) /\ ~ Closes(r, i, w)
    <2>1. \A i, w : ~ Closes(proc[p], i, w)
      BY DEF KilledExits, Label, InKernel, Closes
    <2> QED BY <1>2, <1>4, <2>1, UserDoesNotClose
  <1>7. Well(C, r) /\ r.state \notin Gone
    BY <1>2, <1>4 DEF Well, Gone
  <1> HIDE DEF r
  <1>8. ProcsOK(C, proc') /\ SameFiles(proc, proc')
    BY <1>1, <1>4, <1>5, <1>6, <1>7, ReplacedQuietly
  <1> QED BY <1>8, ProcStep DEF KilledExits, IInv

LEMMA ExitStep ==
    ASSUME NEW C, IInv(C), NEW p \in Slot, Exit(p)
    PROVE  IInv(C)'
  <1> DEFINE A(s) == IF proc[s].parent = p THEN [proc[s] EXCEPT !.parent = init] ELSE proc[s]
             adopted == [s \in Slot |-> A(s)]
             gone == [adopted EXCEPT ![p].state = "ZOMBIE", ![p].todo = <<>>]
             told == Woken(gone, WaitChan(proc[p].parent))
  <1>1. /\ proc[p].todo # <<>> /\ Label(p) = "exit" /\ Open(p) = {}
    BY Running DEF Exit
  <1>2. ProcsOK(C, proc)
    BY DEF IInv
  <1>3. ASSUME NEW s \in Slot
        PROVE  /\ A(s) \in Process(C) /\ A(s).todo = proc[s].todo /\ A(s).ofile = proc[s].ofile
               /\ A(s).state = proc[s].state /\ A(s).eax = proc[s].eax
               /\ Well(C, A(s)) /\ (A(s).state \in Gone => Idle(A(s)))
    <2>1. proc[s] \in Process(C) /\ Well(C, proc[s]) /\ (proc[s].state \in Gone => Idle(proc[s]))
      BY <1>2 DEF ProcsOK
    <2>2. init \in 0 .. NPROC
      BY ShellAssumption DEF init
    <2>3. /\ A(s) \in Process(C) /\ A(s).todo = proc[s].todo /\ A(s).ofile = proc[s].ofile
          /\ A(s).state = proc[s].state /\ A(s).eax = proc[s].eax
      BY <2>1, <2>2 DEF Process
    <2> HIDE DEF A
    <2> QED BY <2>1, <2>3 DEF Well, Idle
  <1> HIDE DEF A
  <1>4. ProcsOK(C, adopted) /\ \A s \in Slot : adopted[s] = A(s)
    BY <1>3 DEF ProcsOK
  <1>5. SameFiles(proc, adopted)
    BY <1>3, <1>4 DEF SameFiles, Closes
  <1> DEFINE r == [adopted[p] EXCEPT !.state = "ZOMBIE", !.todo = <<>>]
  <1>6. r \in Process(C) /\ r.todo = <<>> /\ r.ofile = adopted[p].ofile /\ Well(C, r) /\ Idle(r)
    <2>1. adopted[p] \in Process(C) /\ adopted[p].ofile = proc[p].ofile
      BY <1>3, <1>4
    <2>2. <<>> \in Seq(UserFrame(C) \cup KernelFrame) /\ "ZOMBIE" \in States
      BY DEF States
    <2>3. r \in Process(C) /\ r.todo = <<>> /\ r.ofile = adopted[p].ofile
      BY <2>1, <2>2 DEF Process
    <2> HIDE DEF r
    <2>4. \A fd \in FD : proc[p].ofile[fd] = 0
      BY <1>1 DEF Open
    <2>5. Well(C, Free) /\ Free.todo = <<>>
      BY FreeIs
    <2>6. <<>> \in Seq(UserFrame(C)) /\ Len(<<>>) = 0
      OBVIOUS
    <2>7. Well(C, r)
      BY <2>3, <2>6 DEF Well, UserStack, Ordered, Starts
    <2> QED BY <2>1, <2>3, <2>4, <2>7 DEF Idle
  <1>7. gone = [adopted EXCEPT ![p] = r]
    BY <1>4 DEF ProcsOK
  <1>8. ProcsOK(C, gone) /\ SameFiles(adopted, gone)
    <2>1. ~ InPipe(r) /\ \A i, w : ~ Closes(adopted[p], i, w) /\ ~ Closes(r, i, w)
      BY <1>1, <1>3, <1>4, <1>6, AtFrame DEF Closes, InPipe
    <2> HIDE DEF gone, r, adopted
    <2> QED BY <1>4, <1>6, <1>7, <2>1, ReplacedQuietly
  <1> HIDE DEF gone, adopted
  <1>9. ProcsOK(C, told) /\ SameFiles(gone, told)
    BY <1>8, WokenFiles
  <1> HIDE DEF told
  <1>10. ProcsOK(C, Woken(told, WaitChan(init))) /\ SameFiles(told, Woken(told, WaitChan(init)))
    BY <1>9, WokenFiles
  <1>11. proc' = told \/ proc' = Woken(told, WaitChan(init))
    BY DEF Exit, told, gone, adopted, A
  <1>12. SameFiles(proc, told)
    BY <1>5, <1>8, <1>9, SameSame
  <1>13. SameFiles(proc, Woken(told, WaitChan(init)))
    BY <1>10, <1>12, SameSame
  <1>14. ProcsOK(C, proc') /\ SameFiles(proc, proc')
    BY <1>9, <1>10, <1>11, <1>12, <1>13
  <1> QED BY <1>14, ProcStep DEF Exit, IInv

LEMMA FileRecIs ==
    ASSUME NEW file \in FileRec, NEW n \in Nat
    PROVE  /\ [file EXCEPT !.ref = n] \in FileRec /\ [file EXCEPT !.ref = n].ref = n
           /\ [file EXCEPT !.ref = n].type = file.type /\ [file EXCEPT !.ref = n].pipe = file.pipe
           /\ [file EXCEPT !.ref = n].writable = file.writable
           /\ file.ref \in Nat
  <1>1. CASE file \in PipeFile
    BY <1>1 DEF FileRec, PipeFile
  <1>2. CASE file \in [ref : Nat, type : {"none", "console"}, pipe : {0}, writable : BOOLEAN]
    BY <1>2 DEF FileRec
  <1> QED BY <1>1, <1>2 DEF FileRec

ChildOf(q, p, pid, ofile, todo) ==
    [q EXCEPT !.state = "RUNNABLE", !.pid = pid, !.parent = p, !.ofile = ofile, !.todo = todo]

\* The child that runs on with what stands after fork() in the program.
LEMMA ForkedChild ==
    ASSUME NEW C, Grammar(C), IInv(C), NEW p \in Slot, At(p, "fork"), NEW s \in Slot,
           NEW pid \in Nat, NEW c, c = Runs(ChildOf(proc[s], p, pid, proc[p].ofile, Arg(p)))
    PROVE  /\ c \in Process(C) /\ Well(C, c) /\ c.todo \in Seq(UserFrame(C))
           /\ c.state = "RUNNABLE" /\ c.ofile = proc[p].ofile /\ c.parent = p
  <1> DEFINE child == ChildOf(proc[s], p, pid, proc[p].ofile, Arg(p))
  <1>1. proc[p].todo # <<>> /\ Label(p) = "fork" /\ proc[p] \in Process(C) /\ proc[s] \in Process(C)
    BY Running DEF IInv, ProcsOK
  <1>2. Arg(p) \in Seq(UserFrame(C)) /\ \A k \in 1 .. Len(Arg(p)) : Arg(p)[k][1] # "piped"
    <2>1. Frame(C) \subseteq UserFrame(C) /\ \A f \in Frame(C) : f[1] # "piped"
      BY FramesAre
    <2>2. Arg(p) \in Seq(Frame(C))
      BY <1>1, AtFrame
    <2>3. Arg(p) \in Seq(UserFrame(C))
      BY <2>1, <2>2, SeqMonotonic
    <2> QED BY <2>1, <2>2, <2>3
  <1>3. UserStack(C, Arg(p)) /\ ~ Starts(Arg(p))
    BY <1>2, PlainStack
  <1>4. Arg(p) \in Seq(UserFrame(C) \cup KernelFrame)
    BY <1>2, SeqMonotonic
  <1>5. p \in 0 .. NPROC /\ proc[p].ofile \in [FD -> 0 .. NFILE]
    <2>1. p \in 0 .. NPROC
      BY ShellAssumption DEF Slot
    <2> QED BY <1>1, <2>1 DEF Process
  <1>6. /\ child \in Process(C) /\ child.ofile = proc[p].ofile /\ child.state = "RUNNABLE"
        /\ child.todo = Arg(p) /\ child.parent = p
    BY <1>1, <1>4, <1>5 DEF Process, States, ChildOf
  <1> HIDE DEF child
  <1>7. Returned(C, child)
    BY <1>3, <1>6 DEF Returned
  <1>8. Returned(C, c) /\ \E t \in Seq(UserFrame(C)) : c = [child EXCEPT !.todo = t]
    BY <1>7, RunsOn DEF child
  <1>9. PICK t \in Seq(UserFrame(C)) : c = [child EXCEPT !.todo = t]
    BY <1>8
  <1>10. c.todo = t /\ c.state = "RUNNABLE" /\ c.ofile = proc[p].ofile /\ c.parent = p
    BY <1>6, <1>9 DEF Process
  <1>11. Well(C, c) /\ c \in Process(C)
    BY <1>8 DEF Returned, Well
  <1> QED BY <1>10, <1>11

LEMMA ForkStep ==
    ASSUME NEW C, Grammar(C), IInv(C), NEW p \in Slot, Fork(p)
    PROVE  IInv(C)'
  <1> DEFINE s == Min(Unused)
             child == [proc[s] EXCEPT !.state = "RUNNABLE", !.pid = nextpid, !.parent = p,
                                      !.ofile = proc[p].ofile, !.todo = Arg(p)]
             r == Returns(proc[p], nextpid)
             c == Runs(child)
             ps == [proc EXCEPT ![p] = r]
             copies(g) == CopiesOf(proc[p], g)
  <1>1. /\ proc[p].todo # <<>> /\ Label(p) = "fork" /\ proc[p].state = "RUNNABLE"
        /\ proc[p] \in Process(C) /\ Well(C, proc[p]) /\ Head(proc[p].todo)[1] = "fork"
        /\ Arg(p) \in Seq(Frame(C))
    BY Running, AtFrame DEF Fork
  <1>2. ProcsOK(C, proc) /\ proc \in [Slot -> Process(C)] /\ nextpid \in Nat
    BY DEF IInv, ProcsOK
  <1>3. s \in Slot /\ proc[s].state = "UNUSED" /\ s # p
    <2>1. Unused \in SUBSET Nat /\ Unused # {}
      BY DEF Fork, Unused, Slot
    <2>2. s \in Unused
      BY <2>1, LeastIsIn
    <2> QED BY <1>1, <2>2 DEF Unused
  <1>4. proc[s] \in Process(C) /\ Idle(proc[s])
    BY <1>2, <1>3 DEF ProcsOK, Gone
  <1>5. proc' = [ps EXCEPT ![s] = c]
    BY DEF Fork
  <1> HIDE DEF s
  <1>6. After(C, proc[p], r)
    BY <1>1, <1>2, EndsCall
  <1>8. /\ c \in Process(C) /\ Well(C, c) /\ c.todo \in Seq(UserFrame(C))
        /\ c.state = "RUNNABLE" /\ c.ofile = proc[p].ofile
    <2>1. At(p, "fork")
      BY DEF Fork
    <2>2. c = Runs(ChildOf(proc[s], p, nextpid, proc[p].ofile, Arg(p)))
      BY DEF ChildOf
    <2> HIDE DEF c
    <2>3. s \in Slot /\ nextpid \in Nat
      BY <1>2, <1>3
    <2> QED BY <2>1, <2>2, <2>3, ForkedChild
  <1> HIDE DEF child, r
  <1> HIDE DEF c
  <1>9. ProcsOK(C, ps) /\ SameFiles(proc, ps)
    BY <1>1, <1>2, <1>6, AfterQuietly DEF Gone
  <1>10. ps[s] = proc[s] /\ ps[p] = r
    BY <1>2, <1>3
  <1> HIDE DEF ps
  <1>11. ProcsOK(C, proc')
    BY <1>3, <1>5, <1>8, <1>9, Replaced DEF Gone
  <1>12. \A t \in Slot : proc'[t] = IF t = s THEN c ELSE ps[t]
    <2>1. ps \in [Slot -> Process(C)]
      BY <1>9 DEF ProcsOK
    <2> QED BY <1>3, <1>5, <2>1
  <1>13. RefsOK(proc, ftable) /\ OpenOK(proc, ftable, pipes) /\ ftable \in [File -> FileRec]
    BY EndsAreCountedIs DEF IInv, FilesOK
  <1>14. \A g \in File : Cardinality(copies(g)) \in Nat /\ IsFiniteSet(copies(g))
    BY TablesAreFinite, FS_Subset, FS_CardinalityType DEF CopiesOf
  <1>15. \A g \in File : Cardinality(RefsOf(proc', g)) = Cardinality(RefsOf(ps, g)) + Cardinality(copies(g))
    <2>1. ps[p].ofile = proc[p].ofile
      BY <1>6, <1>10 DEF After
    <2>2. \A fd \in FD : ps[s].ofile[fd] = 0 /\ proc'[s].ofile[fd] = ps[p].ofile[fd]
      BY <1>3, <1>4, <1>8, <1>10, <1>12, <2>1 DEF Idle
    <2>3. \A t \in Slot : t # s => \A fd \in FD : proc'[t].ofile[fd] = ps[t].ofile[fd]
      BY <1>12
    <2>4. \A g \in File : Cardinality(RefsOf(proc', g))
                             = Cardinality(RefsOf(ps, g)) + Cardinality(CopiesOf(ps[p], g))
      BY <1>3, <2>2, <2>3, RefsForked
    <2> QED BY <2>1, <2>4 DEF CopiesOf
  <1>16. \A g \in File : Cardinality(RefsOf(ps, g)) = ftable[g].ref
    <2>1. \A t \in Slot : \A fd \in FD : ps[t].ofile[fd] = proc[t].ofile[fd]
      BY <1>9 DEF SameFiles
    <2>2. RefsOK(ps, ftable)
      BY <1>13, <2>1, SameRefs
    <2> QED BY <2>2 DEF RefsOK
  <1>17. ASSUME NEW g \in File
         PROVE  /\ ftable'[g] \in FileRec /\ ftable'[g].ref = ftable[g].ref + Cardinality(copies(g))
                /\ \A i, w : Uses(ftable'[g], i, w) <=> Uses(ftable[g], i, w)
    <2> DEFINE n == ftable[g].ref + Cardinality(copies(g))
    <2>1. ftable[g] \in FileRec /\ ftable[g].ref \in Nat
      BY <1>13, FileRecIs
    <2>2. ftable'[g] = [ftable[g] EXCEPT !.ref = n]
      BY DEF Fork, CopiesOf
    <2>3. n \in Nat
      BY <1>14, <2>1
    <2>4. n > 0 <=> ftable[g].ref > 0
      <3>1. CASE copies(g) = {}
        <4>1. Cardinality(copies(g)) = 0
          BY <3>1, FS_EmptySet
        <4> QED BY <2>1, <4>1
      <3>2. CASE copies(g) # {}
        <4>1. ftable[g].ref > 0
          BY <1>13, <3>2, ReferredTo DEF CopiesOf
        <4> QED BY <1>14, <2>1, <4>1
      <3> QED BY <3>1, <3>2
    <2>5. /\ ftable'[g] \in FileRec /\ ftable'[g].ref = n /\ ftable'[g].type = ftable[g].type
          /\ ftable'[g].pipe = ftable[g].pipe /\ ftable'[g].writable = ftable[g].writable
      BY <2>1, <2>2, <2>3, FileRecIs
    <2> QED BY <2>4, <2>5 DEF Uses
  <1>18. ftable' \in [File -> FileRec]
    <2>1. ftable' = [g \in File |-> ftable'[g]]
      BY DEF Fork
    <2> QED BY <1>17, <2>1
  <1>19. RefsOK(proc', ftable')
    BY <1>15, <1>16, <1>17 DEF RefsOK
  <1>20. OpenOK(proc', ftable', pipes')
    <2>1. \A t \in Slot, i \in PipeId, w \in BOOLEAN :
             Closes(proc'[t], i, w) <=> Closes(proc[t], i, w)
      <3>1. \A i, w : ~ Closes(c, i, w) /\ ~ Closes(proc[s], i, w)
        BY <1>4, <1>8, UserDoesNotClose DEF Idle, Closes
      <3> QED BY <1>9, <1>10, <1>12, <3>1 DEF SameFiles
    <2>2. pipes' = pipes
      BY DEF Fork
    <2> QED BY <1>13, <1>17, <2>1, <2>2, SameEnds
  <1>21. EndsAreCounted'
    BY <1>19, <1>20, EndsAreCountedIs
  <1>24. PipesAreHeld'
    <2>1. \A t \in Slot : InPipe(proc'[t]) =>
             proc'[t].todo = proc[t].todo /\ \A fd \in FD : proc'[t].ofile[fd] = proc[t].ofile[fd]
      <3>1. ~ InPipe(c)
        BY <1>8, UserDoesNotClose
      <3> QED BY <1>9, <1>12, <3>1 DEF SameFiles
    <2>2. HeldIn(proc, ftable)
      BY DEF IInv, PipesAreHeld
    <2>3. HeldIn(proc', ftable')
      BY <1>13, <1>17, <1>19, <2>1, <2>2, StillHeld
    <2> QED BY <2>3, HeldIs
  <1>22. ProcsOK(C, proc)' /\ nextpid' \in Nat
    BY <1>2, <1>11 DEF Fork, ProcsOK
  <1>23. FilesOK' /\ ConsoleOK' /\ PipesAreFifo' /\ ConsoleCanBeRead'
    BY <1>18 DEF Fork, IInv, FilesOK, ConsoleOK, PipesAreFifo, ConsoleCanBeRead
  <1> QED BY <1>21, <1>22, <1>23, <1>24 DEF IInv

LEMMA DupStep ==
    ASSUME NEW C, Grammar(C), IInv(C), NEW p \in Slot, Dup(p)
    PROVE  IInv(C)'
  <1> DEFINE f  == proc[p].ofile[Arg(p)]
             fd == Min(FreeFDs(p))
             r0 == Returns(proc[p], fd)
             r  == [r0 EXCEPT !.ofile[fd] = f]
  <1>1. /\ proc[p].todo # <<>> /\ Label(p) = "dup" /\ proc[p].state = "RUNNABLE"
        /\ proc[p] \in Process(C) /\ Well(C, proc[p]) /\ Head(proc[p].todo)[1] = "dup"
        /\ Arg(p) \in FD
    BY Running, AtFrame DEF Dup
  <1>2. CASE f = 0 \/ FreeFDs(p) = {}
    <2>1. After(C, proc[p], FailsCall(proc[p]))
      BY <1>1, EndsCall
    <2>2. Set(p, FailsCall(proc[p])) /\ UNCHANGED ftable
      BY <1>2 DEF Dup
    <2> QED BY <1>1, <2>1, <2>2, CallEnds DEF Dup, IInv
  <1>3. CASE ~ (f = 0 \/ FreeFDs(p) = {})
    <2>1. Set(p, r) /\ ftable' = [ftable EXCEPT ![f].ref = @ + 1]
      BY <1>3 DEF Dup
    <2>2. fd \in FD /\ proc[p].ofile[fd] = 0
      <3>1. FreeFDs(p) \in SUBSET Nat /\ FreeFDs(p) # {}
        BY <1>3, SomeFDs DEF FreeFDs
      <3>2. fd \in FreeFDs(p)
        BY <3>1, LeastIsIn
      <3> QED BY <3>2 DEF FreeFDs
    <2>3. proc[p].ofile \in [FD -> 0 .. NFILE] /\ f \in File
      BY <1>1, <1>3, ShellAssumption DEF Process, File
    <2> HIDE DEF f, fd
    <2>4. After(C, proc[p], r0)
      <3>1. fd \in Nat
        BY <2>2, SomeFDs
      <3> QED BY <1>1, <3>1, EndsCall
    <2> HIDE DEF r0
    <2>5. /\ r \in Process(C) /\ r.ofile = [proc[p].ofile EXCEPT ![fd] = f]
          /\ r.todo = r0.todo /\ r.eax = r0.eax /\ r.state = "RUNNABLE"
      <3>1. r0 \in Process(C) /\ r0.ofile = proc[p].ofile /\ r0.state = "RUNNABLE" /\ f \in 0 .. NFILE
        BY <1>1, <2>3, <2>4, ShellAssumption DEF After, File
      <3> QED BY <2>2, <2>3, <3>1 DEF Process
    <2> HIDE DEF r
    <2>6. Well(C, r) /\ r.todo \in Seq(UserFrame(C)) /\ r.state \notin Gone
      BY <2>4, <2>5 DEF After, Well, Gone
    <2>7. ProcsOK(C, proc) /\ proc \in [Slot -> Process(C)] /\ proc' = [proc EXCEPT ![p] = r]
      BY <2>1 DEF IInv, ProcsOK, Set
    <2>8. ProcsOK(C, proc')
      BY <2>5, <2>6, <2>7, Replaced
    <2>9. \A s \in Slot : proc'[s] = IF s = p THEN r ELSE proc[s]
      BY <2>7
    <2>10. RefsOK(proc, ftable) /\ OpenOK(proc, ftable, pipes) /\ ftable \in [File -> FileRec]
      BY EndsAreCountedIs DEF IInv, FilesOK
    <2>11. ftable[f].ref > 0 /\ ftable[f].ref \in Nat /\ ftable[f] \in FileRec
      BY <1>1, <2>3, <2>10, ReferredTo DEF f
    <2>12. /\ ftable'[f] = [ftable[f] EXCEPT !.ref = ftable[f].ref + 1]
           /\ \A g \in File : g # f => ftable'[g] = ftable[g]
      BY <2>1, <2>3, <2>10
    <2>13. /\ ftable'[f] \in FileRec /\ ftable'[f].ref = ftable[f].ref + 1
           /\ \A i, w : Uses(ftable'[f], i, w) <=> Uses(ftable[f], i, w)
      <3>1. ftable[f].ref + 1 \in Nat /\ ftable[f].ref + 1 > 0
        BY <2>11
      <3> QED BY <2>11, <2>12, <3>1, FileRecIs DEF Uses
    <2>14. ftable' \in [File -> FileRec]
      <3>1. ftable' = [ftable EXCEPT ![f] = ftable'[f]]
        BY <2>1, <2>3, <2>10, <2>12
      <3> QED BY <2>10, <2>13, <3>1
    <2>15. RefsOK(proc', ftable')
      <3>1. proc'[p].ofile[fd] = f /\ \A s \in Slot : \A d \in FD :
               <<s, d>> # <<p, fd>> => proc'[s].ofile[d] = proc[s].ofile[d]
        BY <2>2, <2>3, <2>5, <2>9
      <3>2. \A g \in File : Cardinality(RefsOf(proc', g))
                             = Cardinality(RefsOf(proc, g)) + (IF g = f THEN 1 ELSE 0)
        BY <2>2, <2>3, <3>1, RefAdded
      <3>3. \A g \in File : Cardinality(RefsOf(proc, g)) \in Nat
        BY TablesAreFinite
      <3>4. SUFFICES ASSUME NEW g \in File PROVE ftable'[g].ref = Cardinality(RefsOf(proc', g))
        BY DEF RefsOK
      <3>5. ftable[g].ref = Cardinality(RefsOf(proc, g))
        BY <2>10 DEF RefsOK
      <3>6. Cardinality(RefsOf(proc', g)) = Cardinality(RefsOf(proc, g)) + (IF g = f THEN 1 ELSE 0)
        BY <3>2
      <3>7. Cardinality(RefsOf(proc, g)) \in Nat
        BY <3>3
      <3>8. CASE g = f
        BY <2>13, <3>5, <3>6, <3>7, <3>8
      <3>9. CASE g # f
        BY <2>12, <3>5, <3>6, <3>7, <3>9
      <3> QED BY <3>8, <3>9
    <2>16. OpenOK(proc', ftable', pipes')
      <3>1. \A s \in Slot, i \in PipeId, w \in BOOLEAN :
               Closes(proc'[s], i, w) <=> Closes(proc[s], i, w)
        <4>1. \A i, w : ~ Closes(r, i, w) /\ ~ Closes(proc[p], i, w)
          BY <1>1, <2>6, UserDoesNotClose DEF Closes
        <4> QED BY <2>9, <4>1
      <3>2. pipes' = pipes
        BY DEF Dup
      <3>3. \A g \in File, i \in PipeId, w \in BOOLEAN : Uses(ftable'[g], i, w) <=> Uses(ftable[g], i, w)
        BY <2>12, <2>13
      <3> QED BY <2>10, <3>1, <3>2, <3>3, SameEnds
    <2>17. EndsAreCounted'
      BY <2>15, <2>16, EndsAreCountedIs
    <2>20. PipesAreHeld'
      <3>1. \A s \in Slot : InPipe(proc'[s]) =>
               proc'[s].todo = proc[s].todo /\ \A d \in FD : proc'[s].ofile[d] = proc[s].ofile[d]
        BY <2>6, <2>9, UserDoesNotClose
      <3>2. \A g \in File, i \in PipeId, w \in BOOLEAN : Uses(ftable[g], i, w) => Uses(ftable'[g], i, w)
        BY <2>12, <2>13
      <3>3. HeldIn(proc, ftable)
        BY DEF IInv, PipesAreHeld
      <3>4. HeldIn(proc', ftable')
        BY <2>10, <2>15, <3>1, <3>2, <3>3, StillHeld
      <3> QED BY <3>4, HeldIs
    <2>18. ProcsOK(C, proc)' /\ nextpid' \in Nat
      BY <2>8 DEF Dup, ProcsOK, IInv
    <2>19. FilesOK' /\ ConsoleOK' /\ PipesAreFifo' /\ ConsoleCanBeRead'
      BY <2>14 DEF Dup, IInv, FilesOK, ConsoleOK, PipesAreFifo, ConsoleCanBeRead
    <2> QED BY <2>17, <2>18, <2>19, <2>20 DEF IInv
  <1> QED BY <1>2, <1>3

\* A descriptor is closed, by close() or by exit().
LEMMA FilecloseStep ==
    ASSUME NEW C, Grammar(C), IInv(C), NEW p \in Slot, NEW fd \in FD, NEW rest,
           proc[p].ofile[fd] # 0, proc[p].state = "RUNNABLE", Label(p) # "pipeclose",
           UserStack(C, rest), ~ Starts(rest), Fileclose(p, fd, rest),
           UNCHANGED <<nextpid, pipes, input, typing, sent, got>>
    PROVE  IInv(C)'
  <1> DEFINE f == proc[p].ofile[fd]
             q == [proc[p] EXCEPT !.ofile[fd] = 0, !.todo = rest]
             c == [q EXCEPT !.todo = << <<"pipeclose", ftable[f]>> >> \o @]
  <1>1. ProcsOK(C, proc) /\ proc \in [Slot -> Process(C)] /\ proc[p] \in Process(C)
    BY DEF IInv, ProcsOK
  <1>2. proc[p].ofile \in [FD -> 0 .. NFILE] /\ f \in File
    BY <1>1, ShellAssumption DEF Process, File
  <1>3. RefsOK(proc, ftable) /\ OpenOK(proc, ftable, pipes) /\ ftable \in [File -> FileRec]
    BY EndsAreCountedIs DEF IInv, FilesOK
  <1>4. ftable[f].ref > 0 /\ ftable[f].ref \in Nat /\ ftable[f] \in FileRec
    BY <1>2, <1>3, ReferredTo
  <1>5. /\ q \in Process(C) /\ q.todo = rest /\ q.state = "RUNNABLE"
        /\ q.ofile = [proc[p].ofile EXCEPT ![fd] = 0]
    <2>1. rest \in Seq(UserFrame(C) \cup KernelFrame) /\ 0 \in 0 .. NFILE
      BY SeqMonotonic, ShellAssumption DEF UserStack
    <2> QED BY <1>1, <1>2, <2>1 DEF Process
  <1>6. Returned(C, q)
    BY <1>5 DEF Returned
  <1>7. \A s \in Slot : \A i, w : s = p => ~ Closes(proc[s], i, w)
    BY DEF Closes, Label
  <1>8. Fileclose(p, fd, rest) <=>
          IF ftable[f].ref > 1
          THEN Set(p, Runs(q)) /\ ftable' = [ftable EXCEPT ![f].ref = @ - 1]
          ELSE /\ ftable' = [ftable EXCEPT ![f] = NoFile]
               /\ Set(p, IF ftable[f].type = "pipe" THEN c ELSE Runs(q))
    BY DEF Fileclose
  <1> HIDE DEF q, f
  <1>9. /\ Runs(q) \in Process(C) /\ Well(C, Runs(q)) /\ Runs(q).state = "RUNNABLE"
        /\ Runs(q).ofile = q.ofile /\ ~ InPipe(Runs(q)) /\ \A i, w : ~ Closes(Runs(q), i, w)
    <2>1. Returned(C, Runs(q)) /\ \E t \in Seq(UserFrame(C)) : Runs(q) = [q EXCEPT !.todo = t]
      BY <1>6, RunsOn
    <2>2. Runs(q).state = "RUNNABLE" /\ Runs(q).ofile = q.ofile
      BY <1>5, <2>1 DEF Process
    <2>3. Runs(q) \in Process(C) /\ Well(C, Runs(q)) /\ Runs(q).todo \in Seq(UserFrame(C))
      BY <2>1 DEF Returned, Well, UserStack
    <2> QED BY <2>2, <2>3, UserDoesNotClose
  <1>10. ASSUME ftable[f].type = "pipe"
         PROVE  /\ c \in Process(C) /\ Well(C, c) /\ c.state = "RUNNABLE" /\ c.ofile = q.ofile
                /\ ~ InPipe(c)
                /\ \A i, w : Closes(c, i, w) <=> Uses(ftable[f], i, w)
    <2> DEFINE h == <<"pipeclose", ftable[f]>>
               t == <<h>> \o rest
    <2>1. ftable[f] \in PipeFile
      BY <1>4, <1>10 DEF FileRec, PipeFile
    <2>2. h \in KernelFrame /\ h[1] = "pipeclose" /\ h[2] = ftable[f]
      BY <2>1 DEF KernelFrame
    <2> HIDE DEF h
    <2>3. rest \in Seq(UserFrame(C) \cup KernelFrame)
      BY SeqMonotonic DEF UserStack
    <2>4. t \in Seq(UserFrame(C) \cup KernelFrame) /\ t # <<>> /\ Head(t) = h /\ Tail(t) = rest
      BY <2>2, <2>3
    <2> HIDE DEF t
    <2>5. c = [q EXCEPT !.todo = t]
      BY <1>5 DEF t, h
    <2>6. c \in Process(C) /\ c.todo = t /\ c.state = "RUNNABLE" /\ c.ofile = q.ofile
      BY <1>5, <2>4, <2>5 DEF Process
    <2> HIDE DEF c
    <2>7. Well(C, c)
      BY <2>2, <2>4, <2>6 DEF Well
    <2>8. \A i, w : Closes(c, i, w) <=> Uses(ftable[f], i, w)
      BY <1>4, <1>10, <2>2, <2>4, <2>6 DEF Closes, Uses
    <2>9. ~ InPipe(c)
      BY <2>2, <2>4, <2>6 DEF InPipe
    <2> QED BY <2>6, <2>7, <2>8, <2>9
  <1> HIDE DEF c
  <1>11. \E r : /\ Set(p, r) /\ r \in Process(C) /\ Well(C, r) /\ r.state = "RUNNABLE"
                /\ r.ofile = q.ofile /\ ~ InPipe(r)
                /\ ftable[f].ref > 1 => \A i, w : ~ Closes(r, i, w)
                /\ ~ (ftable[f].ref > 1) => \A i, w : Closes(r, i, w) <=> Uses(ftable[f], i, w)
    <2>1. CASE ftable[f].ref > 1
      BY <1>8, <1>9, <2>1
    <2>2. CASE ~ (ftable[f].ref > 1) /\ ftable[f].type = "pipe"
      BY <1>8, <1>10, <2>2
    <2>3. CASE ~ (ftable[f].ref > 1) /\ ftable[f].type # "pipe"
      BY <1>8, <1>9, <2>3 DEF Uses
    <2> QED BY <2>1, <2>2, <2>3
  <1>12. PICK r : /\ Set(p, r) /\ r \in Process(C) /\ Well(C, r) /\ r.state = "RUNNABLE"
                  /\ r.ofile = q.ofile /\ ~ InPipe(r)
                  /\ ftable[f].ref > 1 => \A i, w : ~ Closes(r, i, w)
                  /\ ~ (ftable[f].ref > 1) => \A i, w : Closes(r, i, w) <=> Uses(ftable[f], i, w)
    BY <1>11
  <1>13. ProcsOK(C, proc') /\ \A s \in Slot : proc'[s] = IF s = p THEN r ELSE proc[s]
    <2>1. proc' = [proc EXCEPT ![p] = r]
      BY <1>12 DEF Set
    <2> QED BY <1>1, <1>12, <2>1, Replaced DEF Gone
  <1>14. \A g \in File : Cardinality(RefsOf(proc, g))
                          = Cardinality(RefsOf(proc', g)) + (IF g = f THEN 1 ELSE 0)
    <2>1. /\ proc'[p].ofile[fd] = 0
          /\ \A s \in Slot : \A d \in FD : <<s, d>> # <<p, fd>> => proc'[s].ofile[d] = proc[s].ofile[d]
      BY <1>2, <1>5, <1>12, <1>13
    <2>2. proc[p].ofile[fd] = f
      BY DEF f
    <2>3. f \in File
      BY <1>2
    <2> DEFINE ps == proc
               ps2 == proc'
    <2>4. /\ ps[p].ofile[fd] = f /\ ps2[p].ofile[fd] = 0
          /\ \A s \in Slot : \A d \in FD : <<s, d>> # <<p, fd>> => ps2[s].ofile[d] = ps[s].ofile[d]
      BY <2>1, <2>2
    <2> HIDE DEF ps, ps2
    <2>5. \A g \in File : Cardinality(RefsOf(ps, g))
                           = Cardinality(RefsOf(ps2, g)) + (IF g = f THEN 1 ELSE 0)
      BY <2>3, <2>4, RefDropped
    <2> QED BY <2>5 DEF ps, ps2
  <1>15. /\ ftable'[f].ref = ftable[f].ref - 1 /\ ftable' \in [File -> FileRec]
         /\ \A g \in File : g # f => ftable'[g] = ftable[g]
         /\ ftable[f].ref > 1 => \A i, w : Uses(ftable'[f], i, w) <=> Uses(ftable[f], i, w)
    <2>1. CASE ftable[f].ref > 1
      <3>1. ftable' = [ftable EXCEPT ![f] = [ftable[f] EXCEPT !.ref = ftable[f].ref - 1]]
        BY <1>3, <1>8, <2>1
      <3>2. ftable[f].ref - 1 \in Nat /\ ftable[f].ref - 1 > 0
        BY <1>4, <2>1
      <3>3. ftable'[f] = [ftable[f] EXCEPT !.ref = ftable[f].ref - 1]
        BY <1>2, <1>3, <3>1
      <3>4. /\ ftable'[f] \in FileRec /\ ftable'[f].ref = ftable[f].ref - 1
            /\ ftable'[f].type = ftable[f].type /\ ftable'[f].pipe = ftable[f].pipe
            /\ ftable'[f].writable = ftable[f].writable
        BY <1>4, <3>2, <3>3, FileRecIs
      <3>5. ftable' \in [File -> FileRec] /\ \A g \in File : g # f => ftable'[g] = ftable[g]
        BY <1>2, <1>3, <3>1, <3>3, <3>4
      <3> QED BY <1>4, <3>2, <3>4, <3>5 DEF Uses
    <2>2. CASE ~ (ftable[f].ref > 1)
      <3>1. ftable' = [ftable EXCEPT ![f] = NoFile] /\ ftable[f].ref = 1
        BY <1>4, <1>8, <2>2
      <3>2. NoFile \in FileRec /\ NoFile.ref = 0
        BY DEF NoFile, FileRec
      <3> QED BY <1>2, <1>3, <2>2, <3>1, <3>2
    <2> QED BY <2>1, <2>2
  <1>16. RefsOK(proc', ftable')
    <2>1. \A g \in File : Cardinality(RefsOf(proc', g)) \in Nat
      BY TablesAreFinite
    <2> QED BY <1>3, <1>14, <1>15, <2>1 DEF RefsOK
  <1>17. OpenOK(proc', ftable', pipes')
    <2>1. pipes' = pipes
      OBVIOUS
    <2>2. CASE ftable[f].ref > 1
      <3>1. \A s \in Slot, i \in PipeId, w \in BOOLEAN :
               Closes(proc'[s], i, w) <=> Closes(proc[s], i, w)
        BY <1>7, <1>12, <1>13, <2>2
      <3>2. \A g \in File, i \in PipeId, w \in BOOLEAN : Uses(ftable'[g], i, w) <=> Uses(ftable[g], i, w)
        BY <1>15, <2>2
      <3> QED BY <1>3, <2>1, <3>1, <3>2, SameEnds
    <2>3. CASE ~ (ftable[f].ref > 1)
      <3>1. ~ (ftable'[f].ref > 0)
        BY <1>4, <1>15, <2>3
      <3>2. \A s \in Slot, i \in PipeId, w \in BOOLEAN :
               s # p => (Closes(proc'[s], i, w) <=> Closes(proc[s], i, w))
        BY <1>13
      <3>3. \A i \in PipeId, w \in BOOLEAN : ~ Closes(proc[p], i, w)
        BY <1>7
      <3>4. \A i \in PipeId, w \in BOOLEAN : Closes(proc'[p], i, w) <=> Uses(ftable[f], i, w)
        BY <1>12, <1>13, <2>3
      <3>5. OpenOK(proc', ftable', pipes)
        BY <1>2, <1>3, <1>4, <1>15, <3>1, <3>2, <3>3, <3>4, EndToClose
      <3> QED BY <2>1, <3>5
    <2> QED BY <2>2, <2>3
  <1>18. EndsAreCounted'
    BY <1>16, <1>17, EndsAreCountedIs
  <1>21. PipesAreHeld'
    <2>1. \A s \in Slot : InPipe(proc'[s]) =>
             proc'[s].todo = proc[s].todo /\ \A d \in FD : proc'[s].ofile[d] = proc[s].ofile[d]
      BY <1>12, <1>13
    <2>2. \A g \in File : ftable[g].ref > 0 /\ ftable'[g].ref > 0 =>
             \A i \in PipeId, w \in BOOLEAN : Uses(ftable[g], i, w) => Uses(ftable'[g], i, w)
      BY <1>4, <1>15
    <2>3. HeldIn(proc, ftable)
      BY DEF IInv, PipesAreHeld
    <2>4. HeldIn(proc', ftable')
      BY <1>3, <1>16, <2>1, <2>2, <2>3, StillHeld
    <2> QED BY <2>4, HeldIs
  <1>19. ProcsOK(C, proc)' /\ nextpid' \in Nat
    BY <1>13 DEF ProcsOK, IInv
  <1>20. FilesOK' /\ ConsoleOK' /\ PipesAreFifo' /\ ConsoleCanBeRead'
    BY <1>15 DEF IInv, FilesOK, ConsoleOK, PipesAreFifo, ConsoleCanBeRead
  <1> QED BY <1>18, <1>19, <1>20, <1>21 DEF IInv

LEMMA CloseStep ==
    ASSUME NEW C, Grammar(C), IInv(C), NEW p \in Slot, Close(p)
    PROVE  IInv(C)'
  <1>1. /\ proc[p].todo # <<>> /\ Label(p) = "close" /\ proc[p].state = "RUNNABLE"
        /\ proc[p] \in Process(C) /\ Well(C, proc[p]) /\ Head(proc[p].todo)[1] = "close"
        /\ Arg(p) \in FD
    BY Running, AtFrame DEF Close
  <1>2. CASE proc[p].ofile[Arg(p)] = 0
    <2>1. After(C, proc[p], FailsCall(proc[p]))
      BY <1>1, EndsCall
    <2>2. Set(p, FailsCall(proc[p])) /\ UNCHANGED ftable
      BY <1>2 DEF Close
    <2> QED BY <1>1, <2>1, <2>2, CallEnds DEF Close, IInv
  <1>3. CASE proc[p].ofile[Arg(p)] # 0
    <2>1. UserStack(C, Tail(proc[p].todo)) /\ ~ Starts(Tail(proc[p].todo))
      BY <1>1, TailIsStack
    <2>2. Fileclose(p, Arg(p), Tail(proc[p].todo))
      BY <1>3 DEF Close
    <2> QED BY <1>1, <1>3, <2>1, <2>2, FilecloseStep DEF Close
  <1> QED BY <1>2, <1>3

LEMMA ExitClosesStep ==
    ASSUME NEW C, Grammar(C), IInv(C), NEW p \in Slot, ExitCloses(p)
    PROVE  IInv(C)'
  <1> DEFINE fd == Min(Open(p))
  <1>1. /\ proc[p].todo # <<>> /\ Label(p) = "exit" /\ proc[p].state = "RUNNABLE"
        /\ proc[p] \in Process(C) /\ Well(C, proc[p]) /\ Head(proc[p].todo)[1] = "exit"
        /\ Head(proc[p].todo) = <<Label(p), Arg(p)>>
    BY Running, AtFrame DEF ExitCloses
  <1>2. fd \in FD /\ proc[p].ofile[fd] # 0
    <2>1. Open(p) \in SUBSET Nat /\ Open(p) # {}
      BY SomeFDs DEF ExitCloses, Open
    <2>2. fd \in Open(p)
      BY <2>1, LeastIsIn
    <2> QED BY <2>2 DEF Open
  <1>3. UserStack(C, proc[p].todo)
    <2>1. Head(proc[p].todo) \notin KernelFrame
      BY <1>1 DEF KernelFrame
    <2> QED BY <1>1, <2>1 DEF Well
  <1>4. ~ Starts(proc[p].todo)
    BY <1>1, <1>3, StackTail DEF Starts
  <1>5. Fileclose(p, fd, proc[p].todo)
    BY DEF ExitCloses
  <1> HIDE DEF fd
  <1> QED BY <1>1, <1>2, <1>3, <1>4, <1>5, FilecloseStep DEF ExitCloses

\* What a process that calls read() or write() goes on with, or has gone on with
\* before it slept.
LEMMA CalledIs ==
    ASSUME NEW C, IInv(C), NEW p \in Slot, NEW name, Calls(p, name),
           name \in {"piperead", "pipewrite", "consoleread", "consolewrite"}
    PROVE  /\ proc[p].todo # <<>> /\ proc[p].state = "RUNNABLE" /\ proc[p].state \notin Gone
           /\ Head(proc[p].todo)[1] \notin {"pipe", "exit", "pipeclose"}
           /\ Called(p) = <<name, With(p)>>
           /\ name = "piperead" => With(p) \in [pipe : PipeId, n : Count]
           /\ name = "pipewrite" => With(p) \in [pipe : PipeId, bytes : Piece, n : Nat]
           /\ name = "consoleread" => With(p) \in Reading
           /\ name = "consolewrite" => With(p) \in Nat
  <1> DEFINE arg == Head(proc[p].todo)[2]
             f == proc[p].ofile[arg.fd]
             file == IF f = 0 THEN NoFile ELSE ftable[f]
  <1>1. proc[p].todo # <<>> /\ proc[p].state = "RUNNABLE" /\ proc[p].state \notin Gone
        /\ Called(p)[1] = name
    BY DEF Calls, Gone
  <1>2. /\ proc[p] \in Process(C) /\ Label(p) = Head(proc[p].todo)[1] /\ Arg(p) = arg
        /\ Label(p) = "read" => arg \in [fd : FD, n : Count]
        /\ Label(p) = "write" => arg \in [fd : FD, bytes : Piece]
        /\ Label(p) = "piperead" => arg \in [pipe : PipeId, n : Count]
        /\ Label(p) = "pipewrite" => arg \in [pipe : PipeId, bytes : Piece, n : Nat]
        /\ Label(p) = "consoleread" => arg \in Reading
        /\ Label(p) # "consolewrite"
        /\ Head(proc[p].todo) = <<Label(p), arg>>
    BY <1>1, AtFrame
  <1>3. Label(p) \in {"read", "write"} /\ file.type = "pipe" => file.pipe \in PipeId
    <2>1. SUFFICES ASSUME Label(p) \in {"read", "write"}, file.type = "pipe"
                   PROVE  file.pipe \in PipeId
      OBVIOUS
    <2>2. arg.fd \in FD /\ proc[p].ofile \in [FD -> 0 .. NFILE]
      BY <1>2, <2>1 DEF Process
    <2>3. f # 0
      BY <2>1 DEF NoFile
    <2>4. f \in File
      BY <2>2, <2>3, ShellAssumption DEF File
    <2>5. ftable[f] \in FileRec /\ ftable[f].type = "pipe" /\ file = ftable[f]
      BY <2>1, <2>3, <2>4 DEF IInv, FilesOK
    <2> HIDE DEF f, arg, file
    <2> QED BY <2>5 DEF FileRec, PipeFile
  <1>4. CASE Label(p) = "read" /\ file.type = "pipe"
    <2>1. Called(p) = <<"piperead", [pipe |-> file.pipe, n |-> arg.n]>>
      BY <1>4 DEF Called
    <2> HIDE DEF file, arg
    <2> QED BY <1>1, <1>2, <1>3, <1>4, <2>1 DEF With
  <1>5. CASE Label(p) = "read" /\ file.type = "console"
    <2>1. Called(p) = <<"consoleread", [n |-> arg.n, dst |-> <<>>]>>
      BY <1>5 DEF Called
    <2> DEFINE x == [n |-> arg.n, dst |-> <<>>]
    <2>2. x \in Reading
      <3>1. arg.n \in Count /\ <<>> \in Seq(Byte) /\ Len(<<>>) = 0
        BY <1>2, <1>5
      <3>2. arg.n > 0
        BY <3>1 DEF Count
      <3> HIDE DEF arg
      <3> QED BY <3>1, <3>2 DEF Reading
    <2>3. Called(p) = <<"consoleread", x>>
      BY <2>1
    <2> HIDE DEF file, arg, x
    <2> QED BY <1>1, <1>2, <1>5, <2>2, <2>3 DEF With
  <1>6. CASE Label(p) = "write" /\ file.type = "pipe"
    <2>1. Called(p) = <<"pipewrite", [pipe |-> file.pipe, bytes |-> arg.bytes, n |-> Len(arg.bytes)]>>
      BY <1>6 DEF Called
    <2>2. Len(arg.bytes) \in Nat
      BY <1>2, <1>6, SomePieces
    <2> HIDE DEF file, arg
    <2> QED BY <1>1, <1>2, <1>3, <1>6, <2>1, <2>2 DEF With
  <1>7. CASE Label(p) = "write" /\ file.type = "console"
    <2>1. Called(p) = <<"consolewrite", Len(arg.bytes)>>
      BY <1>7 DEF Called
    <2>2. Len(arg.bytes) \in Nat
      BY <1>2, <1>7, SomePieces
    <2> HIDE DEF file, arg
    <2> QED BY <1>1, <1>2, <1>7, <2>1, <2>2 DEF With
  <1>8. CASE /\ ~ (Label(p) = "read" /\ file.type \in {"pipe", "console"})
             /\ ~ (Label(p) = "write" /\ file.type \in {"pipe", "console"})
    <2>1. Called(p) = Head(proc[p].todo)
      BY <1>8 DEF Called
    <2> HIDE DEF file, arg
    <2> QED BY <1>1, <1>2, <2>1 DEF With
  <1> QED BY <1>4, <1>5, <1>6, <1>7, <1>8

\* A pipe with an end that is still to be closed has not been freed.
LEMMA ClosingIsOpen ==
    ASSUME NEW ps, NEW ft, NEW pp, OpenOK(ps, ft, pp), NEW p \in Slot,
           NEW i \in PipeId, NEW w \in BOOLEAN, Closes(ps[p], i, w)
    PROVE  OpenEnd(pp, i, w)
  <1>1. p \in ClosersOf(ps, i, w)
    BY DEF ClosersOf
  <1>2. /\ IsFiniteSet(ClosersOf(ps, i, w)) /\ Cardinality(ClosersOf(ps, i, w)) \in Nat
        /\ Cardinality(UsersOf(ft, i, w)) \in Nat
    BY TablesAreFinite
  <1>3. Cardinality(ClosersOf(ps, i, w)) # 0
    <2>1. \A S : IsFiniteSet(S) => (Cardinality(S) = 0 <=> S = {})
      BY FS_EmptySet
    <2> QED BY <1>1, <1>2, <2>1
  <1>4. Cardinality(UsersOf(ft, i, w)) + Cardinality(ClosersOf(ps, i, w))
           = IF OpenEnd(pp, i, w) THEN 1 ELSE 0
    BY DEF OpenOK
  <1> QED BY <1>2, <1>3, <1>4

LEMMA OpenIsNotFree == \A q \in OpenPipe : q # FREE
  <1>1. \A q \in OpenPipe : q.open = TRUE
    BY DEF OpenPipe
  <1>2. FREE.open = FALSE
    BY DEF FREE
  <1> QED BY <1>1, <1>2

LEMMA PipecloseStep ==
    ASSUME NEW C, Grammar(C), IInv(C), NEW p \in Slot, Pipeclose(p)
    PROVE  IInv(C)'
  <1> DEFINE i == Arg(p).pipe
             w == Arg(p).writable
             closed == IF w THEN [pipes[i] EXCEPT !.writeopen = FALSE]
                       ELSE [pipes[i] EXCEPT !.readopen = FALSE]
             r == Returns(proc[p], 0)
             ps == [proc EXCEPT ![p] = r]
             chan == IF w THEN ReadChan(i) ELSE WriteChan(i)
  <1>1. /\ proc[p].todo # <<>> /\ Label(p) = "pipeclose" /\ proc[p].state = "RUNNABLE"
        /\ proc[p] \in Process(C) /\ Well(C, proc[p]) /\ Head(proc[p].todo)[1] = "pipeclose"
        /\ Arg(p) \in PipeFile /\ Arg(p) = Head(proc[p].todo)[2]
    BY Running, AtFrame DEF Pipeclose
  <1>2. i \in PipeId /\ w \in BOOLEAN
    BY <1>1 DEF PipeFile
  <1>3. Closes(proc[p], i, w)
    BY <1>1 DEF Closes
  <1>4. ProcsOK(C, proc) /\ proc \in [Slot -> Process(C)]
    BY DEF IInv, ProcsOK
  <1>5. /\ RefsOK(proc, ftable) /\ OpenOK(proc, ftable, pipes)
        /\ pipes \in [PipeId -> {FREE} \cup OpenPipe]
    BY EndsAreCountedIs DEF IInv, FilesOK
  <1>6. pipes[i] \in OpenPipe
    <2>1. OpenEnd(pipes, i, w)
      BY <1>2, <1>3, <1>5, ClosingIsOpen
    <2>2. pipes[i] # FREE
      BY <2>1 DEF OpenEnd
    <2>3. pipes[i] \in {FREE} \cup OpenPipe
      BY <1>2, <1>5
    <2> QED BY <2>2, <2>3
  <1>7. After(C, proc[p], r)
    BY <1>1, EndsCall
  <1>8. /\ pipes' = [pipes EXCEPT ![i] = IF closed.readopen \/ closed.writeopen
                                         THEN closed ELSE FREE]
        /\ proc' = Woken(ps, chan)
    BY DEF Pipeclose
  <1> HIDE DEF i, w, r, chan
  <1>9. /\ closed \in OpenPipe /\ closed.ring = pipes[i].ring
        /\ closed.writeopen = IF w THEN FALSE ELSE pipes[i].writeopen
        /\ closed.readopen = IF w THEN pipes[i].readopen ELSE FALSE
    BY <1>2, <1>6 DEF OpenPipe
  <1> HIDE DEF closed
  <1>10. ProcsOK(C, ps) /\ \A s \in Slot : ps[s] = IF s = p THEN r ELSE proc[s]
    <2>1. r \in Process(C) /\ Well(C, r) /\ r.state \notin Gone
      BY <1>1, <1>7 DEF After, Gone
    <2> QED BY <1>4, <2>1, Replaced
  <1>11. r.ofile = proc[p].ofile /\ ~ InPipe(r) /\ \A j, v : ~ Closes(r, j, v)
    BY <1>7, UserDoesNotClose DEF After
  <1> HIDE DEF ps
  <1>12. ProcsOK(C, proc') /\ SameFiles(ps, proc')
    BY <1>8, <1>10, WokenFiles
  <1>13. RefsOK(proc', ftable')
    <2>1. \A s \in Slot : \A fd \in FD : proc'[s].ofile[fd] = proc[s].ofile[fd]
      BY <1>10, <1>11, <1>12 DEF SameFiles
    <2>2. ftable' = ftable
      BY DEF Pipeclose
    <2>3. RefsOK(proc', ftable)
      BY <1>5, <2>1, SameRefs
    <2> QED BY <2>2, <2>3
  <1>14. /\ pipes'[i] = IF closed.readopen \/ closed.writeopen THEN closed ELSE FREE
         /\ \A j \in PipeId : j # i => pipes'[j] = pipes[j]
    BY <1>2, <1>5, <1>8
  <1>15. \A j \in PipeId, v \in BOOLEAN :
            OpenEnd(pipes', j, v) <=> OpenEnd(pipes, j, v) /\ ~ (j = i /\ v = w)
    <2>1. SUFFICES ASSUME NEW j \in PipeId, NEW v \in BOOLEAN
                   PROVE  OpenEnd(pipes', j, v) <=> OpenEnd(pipes, j, v) /\ ~ (j = i /\ v = w)
      OBVIOUS
    <2>2. CASE j # i
      BY <1>14, <2>2 DEF OpenEnd
    <2>3. CASE j = i
      <3>1. closed # FREE /\ pipes[i] # FREE
        BY <1>6, <1>9, OpenIsNotFree
      <3>2. OpenEnd(pipes', i, v) <=> IF v THEN closed.writeopen ELSE closed.readopen
        BY <1>9, <1>14, <3>1 DEF OpenEnd, OpenPipe
      <3>3. OpenEnd(pipes, i, v) <=> IF v THEN pipes[i].writeopen ELSE pipes[i].readopen
        BY <3>1 DEF OpenEnd
      <3> QED BY <1>2, <1>9, <2>3, <3>2, <3>3
    <2> QED BY <2>2, <2>3
  <1>16. OpenOK(proc', ftable', pipes')
    <2>1. \A s \in Slot, j \in PipeId, v \in BOOLEAN :
             s # p => (Closes(proc'[s], j, v) <=> Closes(proc[s], j, v))
      BY <1>10, <1>12 DEF SameFiles
    <2>2. \A j \in PipeId, v \in BOOLEAN : ~ Closes(proc'[p], j, v)
      BY <1>10, <1>11, <1>12 DEF SameFiles
    <2>3. ftable' = ftable
      BY DEF Pipeclose
    <2>4. OpenOK(proc', ftable, pipes')
      BY <1>2, <1>3, <1>5, <1>15, <2>1, <2>2, EndClosed
    <2> QED BY <2>3, <2>4
  <1>17. EndsAreCounted'
    BY <1>13, <1>16, EndsAreCountedIs
  <1>22. PipesAreHeld'
    <2>1. \A s \in Slot : InPipe(proc'[s]) =>
             proc'[s].todo = proc[s].todo /\ \A d \in FD : proc'[s].ofile[d] = proc[s].ofile[d]
      BY <1>10, <1>11, <1>12 DEF SameFiles, InPipe
    <2>2. HeldIn(proc, ftable) /\ ftable \in [File -> FileRec] /\ ftable' = ftable
      BY DEF IInv, FilesOK, PipesAreHeld, Pipeclose
    <2>3. HeldIn(proc', ftable')
      BY <1>13, <2>1, <2>2, StillHeld
    <2> QED BY <2>3, HeldIs
  <1>18. pipes' \in [PipeId -> {FREE} \cup OpenPipe]
    BY <1>2, <1>5, <1>8, <1>9
  <1>19. PipesAreFifo'
    <2>1. \A j \in PipeId : pipes'[j] # FREE => pipes[j] # FREE /\ pipes'[j].ring = pipes[j].ring
      BY <1>6, <1>9, <1>14, OpenIsNotFree
    <2>2. sent' = sent /\ got' = got
      BY DEF Pipeclose
    <2> QED BY <2>1, <2>2 DEF IInv, PipesAreFifo
  <1>20. ProcsOK(C, proc)' /\ nextpid' \in Nat
    BY <1>12 DEF Pipeclose, ProcsOK, IInv
  <1>21. FilesOK' /\ ConsoleOK' /\ ConsoleCanBeRead'
    BY <1>18 DEF Pipeclose, IInv, FilesOK, ConsoleOK, ConsoleCanBeRead
  <1> QED BY <1>17, <1>19, <1>20, <1>21, <1>22 DEF IInv

\* The two least elements of a set that has two.
LEMMA TwoLeast ==
    ASSUME NEW S \in SUBSET Nat, IsFiniteSet(S), Cardinality(S) > 1
    PROVE  Min(S) \in S /\ Min(S \ {Min(S)}) \in S /\ Min(S \ {Min(S)}) # Min(S)
  <1> DEFINE m == Min(S)
             T == S \ {m}
  <1>1. S # {}
    BY FS_EmptySet
  <1>2. m \in S
    BY <1>1, LeastIsIn
  <1> HIDE DEF m
  <1>3. Cardinality(T) = Cardinality(S) - 1 /\ IsFiniteSet(T)
    BY <1>2, CountOne, Zenon
  <1>4. Cardinality(S) \in Nat
    BY FS_CardinalityType
  <1>5. T # {}
    <2>1. Cardinality(T) # 0
      BY <1>3, <1>4
    <2> QED BY <2>1, FS_EmptySet
  <1>6. T \in SUBSET Nat
    OBVIOUS
  <1>7. Min(T) \in T
    BY <1>5, <1>6, LeastIsIn
  <1> QED BY <1>2, <1>7 DEF m

LEMMA NewRingIs == Valid(NewRing) /\ Bytes(NewRing) = <<>>
  <1>1. NewRing \in Ring /\ NewRing.nread = 0 /\ NewRing.nwrite = 0
    BY PipeAssumption DEF NewRing, Ring
  <1>2. Used(NewRing) = 0 /\ PIPESIZE \in Nat
    BY <1>1, PipeAssumption DEF Used, Steps
  <1>3. Valid(NewRing)
    BY <1>1, <1>2 DEF Valid
  <1>4. Bytes(NewRing) \in Seq(Byte) /\ Len(Bytes(NewRing)) = 0
    BY <1>2, <1>3, BytesFacts
  <1> QED BY <1>3, <1>4

\* A file goes into a free entry of the table of a process, and nothing else does.
Added(ps, ps2, p, fd, f) ==
    /\ ps[p].ofile[fd] = 0 /\ ps2[p].ofile[fd] = f
    /\ \A s \in Slot : \A d \in FD :
          <<s, d>> # <<p, fd>> => ps2[s].ofile[d] = ps[s].ofile[d]

LEMMA OneAdded ==
    ASSUME NEW ps, NEW ps2, NEW p \in Slot, NEW fd \in FD, NEW f \in File,
           Added(ps, ps2, p, fd, f)
    PROVE  \A g \in File : Cardinality(RefsOf(ps2, g))
                            = Cardinality(RefsOf(ps, g)) + (IF g = f THEN 1 ELSE 0)
  BY RefAdded DEF Added

\* pipe() puts two files into the table of a process.
LEMMA RefsAdded ==
    ASSUME NEW old, NEW new, NEW p \in Slot, NEW r \in FD, NEW w \in FD, r # w,
           NEW f1 \in File, NEW f2 \in File,
           old[p].ofile \in [FD -> 0 .. NFILE], old[p].ofile[r] = 0, old[p].ofile[w] = 0,
           new[p].ofile[r] = f1, new[p].ofile[w] = f2,
           \A d \in FD \ {r, w} : new[p].ofile[d] = old[p].ofile[d],
           \A s \in Slot : s # p => new[s] = old[s]
    PROVE  \A g \in File : Cardinality(RefsOf(new, g))
                            = Cardinality(RefsOf(old, g)) + (IF g = f1 THEN 1 ELSE 0)
                              + (IF g = f2 THEN 1 ELSE 0)
  <1>1. PICK mid : /\ mid[p].ofile = [old[p].ofile EXCEPT ![r] = f1]
                   /\ \A s \in Slot : s # p => mid[s] = old[s]
    <2> DEFINE mid == [s \in Slot |-> IF s = p THEN [ofile |-> [old[p].ofile EXCEPT ![r] = f1]]
                                     ELSE old[s]]
    <2>1. /\ mid[p].ofile = [old[p].ofile EXCEPT ![r] = f1]
          /\ \A s \in Slot : s # p => mid[s] = old[s]
      OBVIOUS
    <2> HIDE DEF mid
    <2> QED BY <2>1
  <1>2. Added(old, mid, p, r, f1)
    BY <1>1 DEF Added
  <1>3. Added(mid, new, p, w, f2)
    BY <1>1 DEF Added
  <1>4. \A g \in File : Cardinality(RefsOf(mid, g))
                         = Cardinality(RefsOf(old, g)) + (IF g = f1 THEN 1 ELSE 0)
    BY <1>2, OneAdded
  <1>5. \A g \in File : Cardinality(RefsOf(new, g))
                         = Cardinality(RefsOf(mid, g)) + (IF g = f2 THEN 1 ELSE 0)
    BY <1>3, OneAdded
  <1> QED BY <1>4, <1>5

LEMMA MakePipeStep ==
    ASSUME NEW C, Grammar(C), IInv(C), NEW p \in Slot, MakePipe(p)
    PROVE  IInv(C)'
  <1> DEFINE at == Min(FreePipes)
             rf == Min(FreeFiles)     wf == Min(FreeFiles \ {rf})
             rd == Min(FreeFDs(p))    wd == Min(FreeFDs(p) \ {rd})
             made == [open |-> TRUE, ring |-> NewRing, readopen |-> TRUE, writeopen |-> TRUE]
             rfile == [ref |-> 1, type |-> "pipe", pipe |-> at, writable |-> FALSE]
             wfile == [ref |-> 1, type |-> "pipe", pipe |-> at, writable |-> TRUE]
             q0 == Makes(proc[p], <<rd, wd>>)
             q  == [q0 EXCEPT !.ofile[rd] = rf, !.ofile[wd] = wf]
  <1>1. /\ proc[p].todo # <<>> /\ Label(p) = "pipe" /\ proc[p].state = "RUNNABLE"
        /\ proc[p] \in Process(C) /\ Well(C, proc[p]) /\ Head(proc[p].todo)[1] = "pipe"
    BY Running, AtFrame DEF MakePipe
  <1>2. CanPipe(p)
    BY DEF MakePipe
  <1>3. at \in PipeId /\ pipes[at] = FREE
    <2>1. FreePipes \in SUBSET Nat /\ FreePipes # {}
      BY <1>2, ShellAssumption DEF CanPipe, FreePipes, PipeId
    <2>2. at \in FreePipes
      BY <2>1, LeastIsIn
    <2> QED BY <2>2 DEF FreePipes
  <1>4. rf \in File /\ wf \in File /\ rf # wf /\ ftable[rf].ref = 0 /\ ftable[wf].ref = 0
    <2>1. FreeFiles \in SUBSET Nat /\ FreeFiles \in SUBSET File /\ Cardinality(FreeFiles) > 1
      BY <1>2, ShellAssumption DEF CanPipe, FreeFiles, File
    <2>2. IsFiniteSet(FreeFiles)
      BY <2>1, TablesAreFinite, FS_Subset
    <2>3. rf \in FreeFiles /\ wf \in FreeFiles /\ rf # wf
      BY <2>1, <2>2, TwoLeast
    <2> QED BY <2>3 DEF FreeFiles
  <1>5. rd \in FD /\ wd \in FD /\ rd # wd /\ proc[p].ofile[rd] = 0 /\ proc[p].ofile[wd] = 0
    <2>1. FreeFDs(p) \in SUBSET Nat /\ FreeFDs(p) \in SUBSET FD /\ Cardinality(FreeFDs(p)) > 1
      BY <1>2, SomeFDs DEF CanPipe, FreeFDs
    <2>2. IsFiniteSet(FreeFDs(p))
      BY <2>1, TablesAreFinite, FS_Subset
    <2>3. rd \in FreeFDs(p) /\ wd \in FreeFDs(p) /\ rd # wd
      BY <2>1, <2>2, TwoLeast
    <2> QED BY <2>3 DEF FreeFDs
  <1>6. /\ pipes' = [pipes EXCEPT ![at] = made]
        /\ ftable' = [ftable EXCEPT ![rf] = rfile, ![wf] = wfile]
        /\ proc' = [proc EXCEPT ![p] = q]
        /\ sent' = [sent EXCEPT ![at] = <<>>] /\ got' = [got EXCEPT ![at] = <<>>]
    BY DEF MakePipe, Set
  <1> HIDE DEF at, rf, wf, rd, wd
  <1>7. After(C, proc[p], q0)
    BY <1>1, <1>5, EndsPipe
  <1> HIDE DEF q0
  <1>8. /\ q \in Process(C) /\ q.todo = q0.todo /\ q.eax = q0.eax /\ q.state = "RUNNABLE"
        /\ q.ofile = [proc[p].ofile EXCEPT ![rd] = rf, ![wd] = wf]
    <2>1. q0 \in Process(C) /\ q0.ofile = proc[p].ofile /\ q0.state = "RUNNABLE"
          /\ rf \in 0 .. NFILE /\ wf \in 0 .. NFILE
      BY <1>1, <1>4, <1>7, ShellAssumption DEF After, File
    <2> QED BY <1>5, <2>1 DEF Process
  <1> HIDE DEF q
  <1>9. Well(C, q) /\ q.state \notin Gone /\ \A j, v : ~ Closes(q, j, v)
    <2>1. q.todo \in Seq(UserFrame(C))
      BY <1>7, <1>8 DEF After
    <2> QED BY <1>7, <1>8, <2>1, UserDoesNotClose DEF After, Well, Gone
  <1>10. /\ ProcsOK(C, proc) /\ proc \in [Slot -> Process(C)]
         /\ RefsOK(proc, ftable) /\ OpenOK(proc, ftable, pipes) /\ ftable \in [File -> FileRec]
         /\ pipes \in [PipeId -> {FREE} \cup OpenPipe]
    BY EndsAreCountedIs DEF IInv, ProcsOK, FilesOK
  <1>11. ProcsOK(C, proc') /\ \A s \in Slot : proc'[s] = IF s = p THEN q ELSE proc[s]
    BY <1>6, <1>8, <1>9, <1>10, Replaced
  <1>12. rfile \in FileRec /\ wfile \in FileRec
    BY <1>3 DEF FileRec, PipeFile
  <1>13. /\ \A j \in PipeId, v \in BOOLEAN : Uses(rfile, j, v) <=> j = at /\ ~ v
         /\ \A j \in PipeId, v \in BOOLEAN : Uses(wfile, j, v) <=> j = at /\ v
         /\ rfile.ref = 1 /\ wfile.ref = 1
    <2>1. /\ rfile.ref = 1 /\ rfile.type = "pipe" /\ rfile.pipe = at /\ rfile.writable = FALSE /\ rfile.writable # TRUE
          /\ wfile.ref = 1 /\ wfile.type = "pipe" /\ wfile.pipe = at /\ wfile.writable = TRUE /\ wfile.writable # FALSE
      OBVIOUS
    <2> HIDE DEF rfile, wfile
    <2>4. rfile.ref > 0 /\ wfile.ref > 0
      BY <2>1
    <2>2. ASSUME NEW j \in PipeId, NEW v \in BOOLEAN
          PROVE  Uses(rfile, j, v) <=> j = at /\ ~ v
      <3>1. CASE v = TRUE
        BY <2>1, <2>4, <3>1, Zenon DEF Uses
      <3>2. CASE v = FALSE
        BY <2>1, <2>4, <3>2, Zenon DEF Uses
      <3> QED BY <3>1, <3>2
    <2>3. ASSUME NEW j \in PipeId, NEW v \in BOOLEAN
          PROVE  Uses(wfile, j, v) <=> j = at /\ v
      <3>1. CASE v = TRUE
        BY <2>1, <2>4, <3>1, Zenon DEF Uses
      <3>2. CASE v = FALSE
        BY <2>1, <2>4, <3>2, Zenon DEF Uses
      <3> QED BY <3>1, <3>2
    <2> QED BY <2>1, <2>2, <2>3
  <1> HIDE DEF rfile, wfile
  <1>14. /\ ftable' \in [File -> FileRec] /\ ftable'[rf] = rfile /\ ftable'[wf] = wfile
         /\ \A g \in File \ {rf, wf} : ftable'[g] = ftable[g]
    BY <1>4, <1>6, <1>10, <1>12
  <1>15. RefsOK(proc', ftable')
    <2>1. proc[p].ofile \in [FD -> 0 .. NFILE]
      BY <1>1 DEF Process
    <2>2. /\ proc'[p].ofile[rd] = rf /\ proc'[p].ofile[wd] = wf
          /\ \A d \in FD \ {rd, wd} : proc'[p].ofile[d] = proc[p].ofile[d]
          /\ \A s \in Slot : s # p => proc'[s] = proc[s]
      BY <1>4, <1>5, <1>8, <1>11, <2>1
    <2>3. \A g \in File : Cardinality(RefsOf(proc', g))
                           = Cardinality(RefsOf(proc, g)) + (IF g = rf THEN 1 ELSE 0)
                             + (IF g = wf THEN 1 ELSE 0)
      <3>1. rd \in FD /\ wd \in FD /\ rd # wd /\ rf \in File /\ wf \in File
        BY <1>4, <1>5
      <3>2. proc[p].ofile[rd] = 0 /\ proc[p].ofile[wd] = 0
        BY <1>5
      <3> HIDE DEF rfile, wfile
      <3> QED BY <2>1, <2>2, <3>1, <3>2, RefsAdded, SMTT(60)
    <2>4. SUFFICES ASSUME NEW g \in File PROVE ftable'[g].ref = Cardinality(RefsOf(proc', g))
      BY DEF RefsOK
    <2>5. /\ Cardinality(RefsOf(proc', g)) = Cardinality(RefsOf(proc, g))
                + (IF g = rf THEN 1 ELSE 0) + (IF g = wf THEN 1 ELSE 0)
          /\ Cardinality(RefsOf(proc, g)) = ftable[g].ref
          /\ Cardinality(RefsOf(proc, g)) \in Nat
      BY <1>10, <2>3, TablesAreFinite DEF RefsOK
    <2>6. CASE g = rf
      BY <1>4, <1>13, <1>14, <2>5, <2>6
    <2>7. CASE g = wf
      BY <1>4, <1>13, <1>14, <2>5, <2>7
    <2>8. CASE g \notin {rf, wf}
      BY <1>14, <2>5, <2>8
    <2> QED BY <2>6, <2>7, <2>8
  <1>16. made \in OpenPipe /\ made # FREE /\ made.ring = NewRing
    <2>1. made \in OpenPipe /\ made.ring = NewRing
      BY NewRingIs DEF OpenPipe, Valid
    <2> QED BY <2>1, OpenIsNotFree
  <1>17. \A v \in BOOLEAN : IF v THEN made.writeopen ELSE made.readopen
    OBVIOUS
  <1> HIDE DEF made
  <1>18. pipes' \in [PipeId -> {FREE} \cup OpenPipe] /\ pipes'[at] = made
         /\ \A j \in PipeId : j # at => pipes'[j] = pipes[j]
    BY <1>3, <1>6, <1>10, <1>16
  <1>19. OpenOK(proc', ftable', pipes')
    <2>1. \A s \in Slot, j \in PipeId, v \in BOOLEAN :
             Closes(proc'[s], j, v) <=> Closes(proc[s], j, v)
      <3>1. \A j, v : ~ Closes(proc[p], j, v)
        BY <1>1 DEF Closes
      <3> QED BY <1>9, <1>11, <3>1
    <2>2. \A j \in PipeId, v \in BOOLEAN : OpenEnd(pipes', j, v) <=> OpenEnd(pipes, j, v) \/ j = at
      BY <1>16, <1>17, <1>18 DEF OpenEnd
    <2>3. /\ \A j \in PipeId, v \in BOOLEAN : Uses(ftable'[rf], j, v) <=> j = at /\ ~ v
          /\ \A j \in PipeId, v \in BOOLEAN : Uses(ftable'[wf], j, v) <=> j = at /\ v
      BY <1>13, <1>14
    <2> QED BY <1>3, <1>4, <1>10, <1>14, <2>1, <2>2, <2>3, EndsMade
  <1>20. EndsAreCounted'
    BY <1>15, <1>19, EndsAreCountedIs
  <1>21. PipesAreFifo' /\ sent' \in [PipeId -> Seq(Byte)] /\ got' \in [PipeId -> Seq(Byte)]
    <2>1. sent \in [PipeId -> Seq(Byte)] /\ got \in [PipeId -> Seq(Byte)]
      BY DEF IInv, FilesOK
    <2>2. <<>> \in Seq(Byte) /\ <<>> = <<>> \o <<>>
      OBVIOUS
    <2>3. /\ sent' \in [PipeId -> Seq(Byte)] /\ got' \in [PipeId -> Seq(Byte)]
          /\ sent'[at] = <<>> /\ got'[at] = <<>>
          /\ \A j \in PipeId : j # at => sent'[j] = sent[j] /\ got'[j] = got[j]
      BY <1>3, <1>6, <2>1, <2>2
    <2>4. Valid(pipes'[at].ring) /\ sent'[at] = got'[at] \o Bytes(pipes'[at].ring)
      BY <1>16, <1>18, <2>2, <2>3, NewRingIs
    <2>5. \A j \in PipeId : j # at /\ pipes'[j] # FREE =>
             Valid(pipes'[j].ring) /\ sent'[j] = got'[j] \o Bytes(pipes'[j].ring)
      BY <1>18, <2>3 DEF IInv, PipesAreFifo
    <2> QED BY <2>3, <2>4, <2>5 DEF PipesAreFifo
  <1>24. PipesAreHeld'
    <2>1. ~ InPipe(q)
      <3>1. q.todo \in Seq(UserFrame(C))
        BY <1>7, <1>8 DEF After
      <3> QED BY <3>1, UserDoesNotClose
    <2>2. \A s \in Slot : InPipe(proc'[s]) =>
             proc'[s].todo = proc[s].todo /\ \A d \in FD : proc'[s].ofile[d] = proc[s].ofile[d]
      BY <1>11, <2>1
    <2>3. \A g \in File : ftable[g].ref > 0 /\ ftable'[g].ref > 0 =>
             \A j \in PipeId, v \in BOOLEAN : Uses(ftable[g], j, v) => Uses(ftable'[g], j, v)
      BY <1>4, <1>14
    <2>4. HeldIn(proc, ftable)
      BY DEF IInv, PipesAreHeld
    <2>5. HeldIn(proc', ftable')
      BY <1>10, <1>15, <2>2, <2>3, <2>4, StillHeld
    <2> QED BY <2>5, HeldIs
  <1>22. ProcsOK(C, proc)' /\ nextpid' \in Nat
    BY <1>11 DEF MakePipe, ProcsOK, IInv
  <1>23. FilesOK' /\ ConsoleOK' /\ ConsoleCanBeRead'
    BY <1>14, <1>18, <1>21 DEF MakePipe, IInv, FilesOK, ConsoleOK, ConsoleCanBeRead
  <1> QED BY <1>20, <1>21, <1>22, <1>23, <1>24 DEF IInv

\* A pipe of which a file in use is an end has not been freed.
LEMMA UsedIsOpen ==
    ASSUME NEW ps, NEW ft, NEW pp, OpenOK(ps, ft, pp), NEW f \in File,
           NEW i \in PipeId, NEW w \in BOOLEAN, Uses(ft[f], i, w)
    PROVE  OpenEnd(pp, i, w)
  <1>1. f \in UsersOf(ft, i, w)
    BY DEF UsersOf
  <1>2. /\ IsFiniteSet(UsersOf(ft, i, w)) /\ Cardinality(UsersOf(ft, i, w)) \in Nat
        /\ Cardinality(ClosersOf(ps, i, w)) \in Nat
    BY TablesAreFinite
  <1>3. Cardinality(UsersOf(ft, i, w)) # 0
    <2>1. \A S : IsFiniteSet(S) => (Cardinality(S) = 0 <=> S = {})
      BY FS_EmptySet
    <2> QED BY <1>1, <1>2, <2>1
  <1>4. Cardinality(UsersOf(ft, i, w)) + Cardinality(ClosersOf(ps, i, w))
           = IF OpenEnd(pp, i, w) THEN 1 ELSE 0
    BY DEF OpenOK
  <1> QED BY <1>2, <1>3, <1>4

\* A process that reads or writes a pipe, or goes on with it after it has slept,
\* has it open: it has not been freed.
LEMMA PipeIsThere ==
    ASSUME NEW C, IInv(C), NEW p \in Slot, NEW name, Calls(p, name),
           name \in {"piperead", "pipewrite"}
    PROVE  /\ With(p).pipe \in PipeId /\ pipes[With(p).pipe] \in OpenPipe
           /\ \E fd \in FD, w \in BOOLEAN :
                 proc[p].ofile[fd] \in File /\ Uses(ftable[proc[p].ofile[fd]], With(p).pipe, w)
  <1> DEFINE arg == Head(proc[p].todo)[2]
             f == proc[p].ofile[arg.fd]
             file == IF f = 0 THEN NoFile ELSE ftable[f]
             i == With(p).pipe
  <1>1. /\ proc[p].todo # <<>> /\ Called(p) = <<name, With(p)>> /\ i \in PipeId
    BY CalledIs
  <1>2. /\ proc[p] \in Process(C) /\ Label(p) = Head(proc[p].todo)[1]
        /\ Label(p) = "read" => arg \in [fd : FD, n : Count]
        /\ Label(p) = "write" => arg \in [fd : FD, bytes : Piece]
        /\ Head(proc[p].todo) = <<Label(p), arg>>
    BY <1>1, AtFrame
  <1>3. \E fd \in FD, w \in BOOLEAN :
            proc[p].ofile[fd] \in File /\ Uses(ftable[proc[p].ofile[fd]], i, w)
    <2>1. CASE InPipe(proc[p])
      <3>1. Label(p) \in {"piperead", "pipewrite"}
        BY <1>2, <2>1 DEF InPipe
      <3>2. Called(p) = Head(proc[p].todo)
        BY <3>1 DEF Called
      <3>3. With(p) = arg
        BY <1>1, <1>2, <3>2 DEF With
      <3> QED BY <2>1, <3>3 DEF IInv, PipesAreHeld, HeldIn
    <2>2. CASE ~ InPipe(proc[p])
      <3>1. Label(p) = name => InPipe(proc[p])
        BY <1>1, <1>2 DEF InPipe
      <3>2. Label(p) \in {"read", "write"} /\ file.type = "pipe" /\ With(p).pipe = file.pipe
        <4>1. CASE Label(p) = "read" /\ file.type = "pipe"
          <5>1. Called(p) = <<"piperead", [pipe |-> file.pipe, n |-> arg.n]>>
            BY <4>1 DEF Called
          <5> HIDE DEF file, arg
          <5> QED BY <4>1, <5>1 DEF With
        <4>2. CASE Label(p) = "write" /\ file.type = "pipe"
          <5>1. Called(p) = <<"pipewrite", [pipe |-> file.pipe, bytes |-> arg.bytes, n |-> Len(arg.bytes)]>>
            BY <4>2 DEF Called
          <5> HIDE DEF file, arg
          <5> QED BY <4>2, <5>1 DEF With
        <4>3. CASE Label(p) = "read" /\ file.type = "console"
          <5>1. Called(p) = <<"consoleread", [n |-> arg.n, dst |-> <<>>]>>
            BY <4>3 DEF Called
          <5> HIDE DEF file, arg
          <5> QED BY <1>1, <5>1
        <4>4. CASE Label(p) = "write" /\ file.type = "console"
          <5>1. Called(p) = <<"consolewrite", Len(arg.bytes)>>
            BY <4>4 DEF Called
          <5> HIDE DEF file, arg
          <5> QED BY <1>1, <5>1
        <4>5. CASE /\ ~ (Label(p) = "read" /\ file.type \in {"pipe", "console"})
                   /\ ~ (Label(p) = "write" /\ file.type \in {"pipe", "console"})
          <5>1. Called(p) = Head(proc[p].todo)
            BY <4>5 DEF Called
          <5> HIDE DEF file, arg
          <5> QED BY <1>1, <1>2, <2>2, <3>1, <5>1
        <4> QED BY <4>1, <4>2, <4>3, <4>4, <4>5
      <3>3. arg.fd \in FD /\ proc[p].ofile \in [FD -> 0 .. NFILE]
        BY <1>2, <3>2 DEF Process
      <3>4. f # 0
        BY <3>2 DEF NoFile
      <3>5. f \in File
        BY <3>3, <3>4, ShellAssumption DEF File
      <3>6. file = ftable[f] /\ ftable[f] \in FileRec /\ ftable[f].type = "pipe" /\ ftable[f].pipe = i
        BY <3>2, <3>4, <3>5 DEF IInv, FilesOK
      <3>7. ftable[f].ref > 0
        <4>1. RefsOK(proc, ftable)
          BY EndsAreCountedIs DEF IInv
        <4>2. arg.fd \in FD /\ f \in File /\ proc[p].ofile[arg.fd] = f
          BY <3>3, <3>5
        <4> HIDE DEF f, arg
        <4> QED BY <4>1, <4>2, ReferredTo
      <3>8. ftable[f].writable \in BOOLEAN
        BY <3>6 DEF FileRec, PipeFile
      <3>9. Uses(ftable[f], i, ftable[f].writable)
        BY <3>6, <3>7 DEF Uses
      <3> HIDE DEF i
      <3> QED BY <3>3, <3>5, <3>8, <3>9
    <2> QED BY <2>1, <2>2
  <1> HIDE DEF i, f, arg, file
  <1>4. PICK fd \in FD, w \in BOOLEAN :
            proc[p].ofile[fd] \in File /\ Uses(ftable[proc[p].ofile[fd]], i, w)
    BY <1>3
  <1>5. OpenEnd(pipes, i, w)
    <2>1. OpenOK(proc, ftable, pipes)
      BY EndsAreCountedIs DEF IInv
    <2> QED BY <1>1, <1>4, <2>1, UsedIsOpen
  <1>6. pipes[i] \in OpenPipe
    <2>1. pipes[i] \in {FREE} \cup OpenPipe
      BY <1>1 DEF IInv, FilesOK
    <2> QED BY <1>5, <2>1 DEF OpenEnd
  <1> QED BY <1>1, <1>3, <1>6 DEF i

\* The descriptors, and the ends that are still to be closed, stay as they are.
SameOpen(ps, ps2) ==
    \A s \in Slot :
        /\ \A fd \in FD : ps2[s].ofile[fd] = ps[s].ofile[fd]
        /\ \A i \in PipeId, w \in BOOLEAN : Closes(ps2[s], i, w) <=> Closes(ps[s], i, w)

LEMMA SameHeld ==
    ASSUME NEW ps, NEW ps2, NEW ft, HeldIn(ps, ft), SameFiles(ps, ps2)
    PROVE  HeldIn(ps2, ft) /\ SameOpen(ps, ps2)
  <1>1. SameOpen(ps, ps2)
    BY DEF SameOpen, SameFiles
  <1>2. SUFFICES ASSUME NEW s \in Slot, InPipe(ps2[s])
                 PROVE  \E fd \in FD, w \in BOOLEAN :
                            /\ ps2[s].ofile[fd] \in File
                            /\ Uses(ft[ps2[s].ofile[fd]], Head(ps2[s].todo)[2].pipe, w)
    BY <1>1 DEF HeldIn
  <1>3. ps2[s].todo = ps[s].todo /\ \A fd \in FD : ps2[s].ofile[fd] = ps[s].ofile[fd]
    BY <1>2 DEF SameFiles
  <1>4. InPipe(ps[s])
    BY <1>2, <1>3 DEF InPipe
  <1>5. PICK fd \in FD, w \in BOOLEAN :
             ps[s].ofile[fd] \in File /\ Uses(ft[ps[s].ofile[fd]], Head(ps[s].todo)[2].pipe, w)
    BY <1>4 DEF HeldIn
  <1>6. ps2[s].ofile[fd] = ps[s].ofile[fd] /\ Head(ps2[s].todo)[2].pipe = Head(ps[s].todo)[2].pipe
    BY <1>3
  <1> QED BY <1>5, <1>6, Zenon

LEMMA EndsKept ==
    ASSUME NEW ps, NEW ft, NEW pp, NEW ps2, NEW pp2, OpenOK(ps, ft, pp), SameOpen(ps, ps2),
           \A j \in PipeId, w \in BOOLEAN : OpenEnd(pp2, j, w) <=> OpenEnd(pp, j, w)
    PROVE  OpenOK(ps2, ft, pp2)
  <1>1. \A s \in Slot, j \in PipeId, w \in BOOLEAN : Closes(ps2[s], j, w) <=> Closes(ps[s], j, w)
    BY DEF SameOpen
  <1> QED BY <1>1, SameEnds

\* A step that changes what processes do and the bytes of one pipe.
LEMMA RingStep ==
    ASSUME NEW C, IInv(C), ProcsOK(C, proc'), SameOpen(proc, proc'), HeldIn(proc', ftable),
           NEW i \in PipeId, pipes[i] \in OpenPipe, NEW ring, Valid(ring),
           pipes' = [pipes EXCEPT ![i].ring = ring],
           sent' \in [PipeId -> Seq(Byte)], got' \in [PipeId -> Seq(Byte)],
           sent'[i] = got'[i] \o Bytes(ring),
           \A j \in PipeId : j # i => sent'[j] = sent[j] /\ got'[j] = got[j],
           UNCHANGED <<nextpid, ftable, input, typing>>
    PROVE  IInv(C)'
  <1> DEFINE new == [pipes[i] EXCEPT !.ring = ring]
  <1>1. pipes \in [PipeId -> {FREE} \cup OpenPipe]
    BY DEF IInv, FilesOK
  <1>2. ring \in Ring
    BY DEF Valid
  <1>3. /\ new \in OpenPipe /\ new.ring = ring /\ new.readopen = pipes[i].readopen
        /\ new.writeopen = pipes[i].writeopen
    BY <1>2 DEF OpenPipe
  <1>4. pipes' = [pipes EXCEPT ![i] = new]
    BY <1>1
  <1> HIDE DEF new
  <1>5. pipes' \in [PipeId -> {FREE} \cup OpenPipe] /\ pipes'[i] = new
        /\ \A j \in PipeId : j # i => pipes'[j] = pipes[j]
    BY <1>1, <1>3, <1>4
  <1>6. new # FREE /\ pipes[i] # FREE
    BY <1>3, OpenIsNotFree
  <1>7. \A j \in PipeId, w \in BOOLEAN : OpenEnd(pipes', j, w) <=> OpenEnd(pipes, j, w)
    <2>1. SUFFICES ASSUME NEW j \in PipeId, NEW w \in BOOLEAN
                   PROVE  OpenEnd(pipes', j, w) <=> OpenEnd(pipes, j, w)
      OBVIOUS
    <2>2. CASE j # i
      BY <1>5, <2>2 DEF OpenEnd
    <2>3. CASE j = i
      BY <1>3, <1>5, <1>6, <2>3 DEF OpenEnd
    <2> QED BY <2>2, <2>3
  <1>8. EndsAreCounted'
    <2>1. RefsOK(proc, ftable) /\ OpenOK(proc, ftable, pipes)
      BY EndsAreCountedIs DEF IInv
    <2>2. RefsOK(proc', ftable)
      BY <2>1, SameRefs DEF SameOpen
    <2>3. OpenOK(proc', ftable, pipes')
      BY <1>7, <2>1, EndsKept
    <2>4. ftable' = ftable
      OBVIOUS
    <2> QED BY <2>2, <2>3, <2>4, EndsAreCountedIs
  <1>9. PipesAreHeld'
    <2>1. HeldIn(proc', ftable')
      OBVIOUS
    <2> QED BY <2>1, HeldIs
  <1>10. PipesAreFifo'
    <2>1. Valid(pipes'[i].ring) /\ sent'[i] = got'[i] \o Bytes(pipes'[i].ring)
      BY <1>3, <1>5
    <2>2. \A j \in PipeId : j # i /\ pipes'[j] # FREE =>
             Valid(pipes'[j].ring) /\ sent'[j] = got'[j] \o Bytes(pipes'[j].ring)
      BY <1>5 DEF IInv, PipesAreFifo
    <2> QED BY <2>1, <2>2 DEF PipesAreFifo
  <1>11. ProcsOK(C, proc)' /\ nextpid' \in Nat
    BY DEF ProcsOK, IInv
  <1>12. FilesOK' /\ ConsoleOK' /\ ConsoleCanBeRead'
    BY <1>5 DEF IInv, FilesOK, ConsoleOK, ConsoleCanBeRead
  <1> QED BY <1>8, <1>9, <1>10, <1>11, <1>12 DEF IInv

\* A step that changes what processes do, and no pipe.
LEMMA HeldStep ==
    ASSUME NEW C, IInv(C), ProcsOK(C, proc'), SameOpen(proc, proc'), HeldIn(proc', ftable),
           UNCHANGED <<nextpid, ftable, pipes, input, typing, sent, got>>
    PROVE  IInv(C)'
  <1>1. EndsAreCounted'
    <2>1. RefsOK(proc, ftable) /\ OpenOK(proc, ftable, pipes)
      BY EndsAreCountedIs DEF IInv
    <2>2. RefsOK(proc', ftable)
      BY <2>1, SameRefs DEF SameOpen
    <2>3. OpenOK(proc', ftable, pipes)
      BY <2>1, SameEnds DEF SameOpen
    <2>4. ftable' = ftable /\ pipes' = pipes
      OBVIOUS
    <2> QED BY <2>2, <2>3, <2>4, EndsAreCountedIs
  <1>2. PipesAreHeld'
    <2>1. HeldIn(proc', ftable')
      OBVIOUS
    <2> QED BY <2>1, HeldIs
  <1>3. ProcsOK(C, proc)' /\ nextpid' \in Nat
    BY DEF ProcsOK, IInv
  <1>4. FilesOK' /\ ConsoleOK' /\ PipesAreFifo' /\ ConsoleCanBeRead'
    BY DEF IInv, FilesOK, ConsoleOK, PipesAreFifo, ConsoleCanBeRead
  <1> QED BY <1>1, <1>2, <1>3, <1>4 DEF IInv

\* A process is about to sleep at a pipe it has open.
LEMMA FallsAtPipe ==
    ASSUME NEW C, IInv(C), NEW p \in Slot, NEW name, Calls(p, name),
           name \in {"piperead", "pipewrite"}, NEW x, <<name, x>> \in KernelFrame,
           x.pipe = With(p).pipe, NEW chan \in Chan, NEW ps,
           ps = [proc EXCEPT ![p] = Falls(proc[p], << <<name, x>> >>, chan)]
    PROVE  ProcsOK(C, ps) /\ SameOpen(proc, ps) /\ HeldIn(ps, ftable)
  <1> DEFINE f == <<name, x>>
             t == <<f>> \o Tail(proc[p].todo)
             r == Falls(proc[p], <<f>>, chan)
  <1>1. /\ proc[p].todo # <<>> /\ Head(proc[p].todo)[1] \notin {"pipe", "exit", "pipeclose"}
    BY CalledIs
  <1>2. ProcsOK(C, proc) /\ proc[p] \in Process(C) /\ Well(C, proc[p]) /\ proc \in [Slot -> Process(C)]
    BY DEF IInv, ProcsOK
  <1>3. /\ t \in Seq(UserFrame(C) \cup KernelFrame) /\ t # <<>> /\ Head(t) = f
        /\ \A y : y.todo = t => Well(C, y)
    BY <1>1, <1>2, Pushed
  <1>4. f[1] = name /\ f[2] = x
    OBVIOUS
  <1>5. r = [[proc[p] EXCEPT !.todo = t] EXCEPT !.state = "FALLING", !.chan = chan]
    BY DEF Falls, Does
  <1> HIDE DEF t, f
  <1>6. r \in Process(C) /\ r.todo = t /\ r.ofile = proc[p].ofile /\ r.state = "FALLING"
    BY <1>2, <1>3, <1>5 DEF Process, States
  <1>7. ps = [proc EXCEPT ![p] = r]
    BY DEF f
  <1> HIDE DEF r
  <1>8. Well(C, r) /\ r.state \notin Gone
    BY <1>3, <1>6 DEF Gone
  <1>9. ProcsOK(C, ps)
    <2>1. r \in Process(C) /\ Well(C, r) /\ (r.state \in Gone => Idle(r)) /\ ProcsOK(C, proc)
      BY <1>2, <1>6, <1>8
    <2>2. ProcsOK(C, [proc EXCEPT ![p] = r])
      BY <2>1, Replaced
    <2> QED BY <1>7, <2>2
  <1>10. \A s \in Slot : ps[s] = IF s = p THEN r ELSE proc[s]
    BY <1>2, <1>7
  <1>11. \A i, w : ~ Closes(proc[p], i, w) /\ ~ Closes(r, i, w)
    BY <1>1, <1>3, <1>4, <1>6 DEF Closes
  <1>12. SameOpen(proc, ps)
    BY <1>6, <1>10, <1>11 DEF SameOpen
  <1>13. HeldIn(ps, ftable)
    <2>1. SUFFICES ASSUME NEW s \in Slot, InPipe(ps[s])
                   PROVE  \E fd \in FD, w \in BOOLEAN :
                              /\ ps[s].ofile[fd] \in File
                              /\ Uses(ftable[ps[s].ofile[fd]], Head(ps[s].todo)[2].pipe, w)
      BY DEF HeldIn
    <2>2. CASE s = p
      <3>1. PICK fd \in FD, w \in BOOLEAN :
               proc[p].ofile[fd] \in File /\ Uses(ftable[proc[p].ofile[fd]], With(p).pipe, w)
        BY PipeIsThere
      <3>2. ps[s].ofile[fd] = proc[p].ofile[fd] /\ Head(ps[s].todo)[2].pipe = With(p).pipe
        BY <1>3, <1>4, <1>6, <1>10, <2>2
      <3> QED BY <3>1, <3>2, Zenon
    <2>3. CASE s # p
      <3>1. ps[s] = proc[s] /\ InPipe(proc[s])
        BY <1>10, <2>1, <2>3
      <3>2. PICK fd \in FD, w \in BOOLEAN :
               proc[s].ofile[fd] \in File
               /\ Uses(ftable[proc[s].ofile[fd]], Head(proc[s].todo)[2].pipe, w)
        BY <3>1 DEF IInv, PipesAreHeld, HeldIn
      <3> QED BY <3>1, <3>2, Zenon
    <2> QED BY <2>2, <2>3
  <1> QED BY <1>9, <1>12, <1>13

LEMMA LesserOfTwo ==
    ASSUME NEW a \in Nat, NEW b \in Nat
    PROVE  Min({a, b}) \in Nat /\ Min({a, b}) <= a /\ Min({a, b}) <= b
  <1>1. {a, b} \in SUBSET Nat /\ {a, b} # {}
    OBVIOUS
  <1>2. Min({a, b}) \in {a, b} /\ \A x \in {a, b} : Min({a, b}) <= x
    BY <1>1, LeastIsIn
  <1> QED BY <1>2

LEMMA PipeChans ==
    ASSUME NEW i \in PipeId
    PROVE  ReadChan(i) \in Chan /\ WriteChan(i) \in Chan
  BY DEF Chan, ReadChan, WriteChan

\* The process that calls, and what a call it ends leaves of the others.
LEMMA CallerEnds ==
    ASSUME NEW C, IInv(C), NEW p \in Slot, NEW name, Calls(p, name),
           name \in {"piperead", "pipewrite", "consoleread", "consolewrite"},
           NEW r, After(C, proc[p], r), NEW ps, ps = [proc EXCEPT ![p] = r]
    PROVE  ProcsOK(C, ps) /\ SameFiles(proc, ps) /\ HeldIn(ps, ftable) /\ SameOpen(proc, ps)
  <1>1. /\ proc[p].todo # <<>> /\ proc[p].state \notin Gone
        /\ Head(proc[p].todo)[1] # "pipeclose" /\ ProcsOK(C, proc)
    BY CalledIs DEF IInv
  <1>2. ProcsOK(C, ps) /\ SameFiles(proc, ps)
    BY <1>1, AfterQuietly
  <1>3. HeldIn(proc, ftable)
    BY DEF IInv, PipesAreHeld
  <1> QED BY <1>2, <1>3, SameHeld

\* A call may end in these ways.
LEMMA CallerAfter ==
    ASSUME NEW C, Grammar(C), IInv(C), NEW p \in Slot, NEW name, Calls(p, name),
           name \in {"piperead", "pipewrite", "consoleread", "consolewrite"}
    PROVE  /\ \A v \in Nat : After(C, proc[p], Returns(proc[p], v))
           /\ \A bs \in Piece : After(C, proc[p], Reads(proc[p], bs))
           /\ After(C, proc[p], FailsCall(proc[p]))
  <1>1. proc[p].todo # <<>> /\ Head(proc[p].todo)[1] \notin {"pipe", "exit"}
    BY CalledIs
  <1>2. proc[p] \in Process(C) /\ Well(C, proc[p])
    BY DEF IInv, ProcsOK
  <1> QED BY <1>1, <1>2, EndsCall

LEMMA WokenToo ==
    ASSUME NEW C, NEW ps, ProcsOK(C, ps), SameOpen(proc, ps), HeldIn(ps, ftable), NEW chan
    PROVE  /\ ProcsOK(C, Woken(ps, chan)) /\ SameOpen(proc, Woken(ps, chan))
           /\ HeldIn(Woken(ps, chan), ftable)
  <1>1. ProcsOK(C, Woken(ps, chan)) /\ SameFiles(ps, Woken(ps, chan))
    BY WokenFiles
  <1>2. HeldIn(Woken(ps, chan), ftable) /\ SameOpen(ps, Woken(ps, chan))
    BY <1>1, SameHeld
  <1>3. SameOpen(proc, Woken(ps, chan))
    BY <1>2 DEF SameOpen
  <1> QED BY <1>1, <1>2, <1>3

LEMMA ConsolewriteStep ==
    ASSUME NEW C, Grammar(C), IInv(C), NEW p \in Slot, Consolewrite(p)
    PROVE  IInv(C)'
  <1>1. Calls(p, "consolewrite") /\ With(p) \in Nat
    BY CalledIs DEF Consolewrite
  <1>2. After(C, proc[p], Returns(proc[p], With(p)))
    BY <1>1, CallerAfter
  <1>3. proc' = [proc EXCEPT ![p] = Returns(proc[p], With(p))]
    BY DEF Consolewrite, Set
  <1>4. ProcsOK(C, proc') /\ HeldIn(proc', ftable) /\ SameOpen(proc, proc')
    BY <1>1, <1>2, <1>3, CallerEnds
  <1> QED BY <1>4, HeldStep DEF Consolewrite

LEMMA PipereadWaitsStep ==
    ASSUME NEW C, Grammar(C), IInv(C), NEW p \in Slot, PipereadWaits(p)
    PROVE  IInv(C)'
  <1>1. /\ Calls(p, "piperead") /\ Called(p) = <<"piperead", With(p)>>
        /\ With(p) \in [pipe : PipeId, n : Count]
    BY CalledIs DEF PipereadWaits
  <1> DEFINE r == Falls(proc[p], << <<"piperead", With(p)>> >>, ReadChan(With(p).pipe))
  <1>2. proc' = [proc EXCEPT ![p] = IF proc[p].killed THEN FailsCall(proc[p]) ELSE r]
    BY <1>1 DEF PipereadWaits, Set
  <1>3. ProcsOK(C, proc') /\ HeldIn(proc', ftable) /\ SameOpen(proc, proc')
    <2>1. CASE proc[p].killed
      <3>1. After(C, proc[p], FailsCall(proc[p]))
        BY <1>1, CallerAfter
      <3>2. proc' = [proc EXCEPT ![p] = FailsCall(proc[p])]
        BY <1>2, <2>1
      <3> QED BY <1>1, <3>1, <3>2, CallerEnds
    <2>2. CASE ~ proc[p].killed
      <3>1. <<"piperead", With(p)>> \in KernelFrame
        BY <1>1 DEF KernelFrame
      <3>2. ReadChan(With(p).pipe) \in Chan
        BY <1>1, PipeChans
      <3>3. proc' = [proc EXCEPT ![p] = r]
        BY <1>2, <2>2
      <3> QED BY <1>1, <3>1, <3>2, <3>3, FallsAtPipe
    <2> QED BY <2>1, <2>2
  <1> QED BY <1>3, HeldStep DEF PipereadWaits

LEMMA PipereadStep ==
    ASSUME NEW C, Grammar(C), IInv(C), NEW p \in Slot, Piperead(p)
    PROVE  IInv(C)'
  <1> DEFINE i == With(p).pipe
             ring == pipes[i].ring
             n == Min({Used(ring), With(p).n})
             bs == SubSeq(Bytes(ring), 1, n)
             rest == DropBytes(ring, n)
             ps == [proc EXCEPT ![p] = Reads(proc[p], bs)]
  <1>1. Calls(p, "piperead") /\ With(p) \in [pipe : PipeId, n : Count]
    BY CalledIs DEF Piperead
  <1>2. i \in PipeId /\ pipes[i] \in OpenPipe
    BY <1>1, PipeIsThere
  <1>3. /\ pipes' = [pipes EXCEPT ![i].ring = rest]
        /\ proc' = Woken(ps, WriteChan(i))
        /\ got' = [got EXCEPT ![i] = got[i] \o bs]
        /\ UNCHANGED <<nextpid, ftable, input, typing, sent>>
    BY DEF Piperead
  <1>4. Valid(ring) /\ sent[i] = got[i] \o Bytes(ring)
    BY <1>2, OpenIsNotFree DEF IInv, PipesAreFifo
  <1>5. With(p).n \in Nat /\ With(p).n <= BUFSIZE
    BY <1>1, ShellAssumption DEF Count
  <1> HIDE DEF i, ring
  <1>6. Used(ring) \in Nat
    BY <1>4, UsedIsDistance, PipeAssumption
  <1>7. n \in 0 .. Used(ring) /\ n <= BUFSIZE
    BY <1>5, <1>6, LesserOfTwo, ShellAssumption
  <1> HIDE DEF n
  <1>8. Valid(rest) /\ Bytes(ring) = bs \o Bytes(rest)
    BY <1>4, <1>7, TakesFirst
  <1>9. bs \in Piece /\ bs \in Seq(Byte) /\ Bytes(rest) \in Seq(Byte)
    <2>1. Bytes(ring) \in Seq(Byte) /\ Len(Bytes(ring)) = Used(ring)
      BY <1>4, BytesFacts
    <2>2. bs \in Seq(Byte) /\ Len(bs) = n
      BY <1>6, <1>7, <2>1
    <2> QED BY <1>7, <1>8, <2>2, BytesFacts DEF Piece
  <1> HIDE DEF bs, rest
  <1>10. After(C, proc[p], Reads(proc[p], bs))
    BY <1>1, <1>9, CallerAfter
  <1>11. ProcsOK(C, ps) /\ HeldIn(ps, ftable) /\ SameOpen(proc, ps)
    BY <1>1, <1>10, CallerEnds
  <1> HIDE DEF ps
  <1>12. ProcsOK(C, proc') /\ HeldIn(proc', ftable) /\ SameOpen(proc, proc')
    BY <1>3, <1>11, WokenToo
  <1>13. sent \in [PipeId -> Seq(Byte)] /\ got \in [PipeId -> Seq(Byte)]
    BY DEF IInv, FilesOK
  <1>14. /\ got' \in [PipeId -> Seq(Byte)] /\ got'[i] = got[i] \o bs
         /\ \A j \in PipeId : j # i => got'[j] = got[j]
    <2>1. got[i] \o bs \in Seq(Byte)
      BY <1>2, <1>9, <1>13
    <2> QED BY <1>2, <1>3, <1>13, <2>1
  <1>15. sent[i] = got'[i] \o Bytes(rest)
    <2>1. got[i] \in Seq(Byte)
      BY <1>2, <1>13
    <2>2. (got[i] \o bs) \o Bytes(rest) = got[i] \o (bs \o Bytes(rest))
      <3> DEFINE a == got[i]   b == Bytes(rest)
      <3>1. a \in Seq(Byte) /\ b \in Seq(Byte)
        BY <1>9, <2>1
      <3> HIDE DEF a, b
      <3>2. (a \o bs) \o b = a \o (bs \o b)
        BY <1>9, <3>1
      <3> QED BY <3>2 DEF a, b
    <2> QED BY <1>4, <1>8, <1>14, <2>2
  <1>16. sent' = sent
    BY <1>3
  <1>17. /\ sent' \in [PipeId -> Seq(Byte)] /\ sent'[i] = got'[i] \o Bytes(rest)
         /\ \A j \in PipeId : j # i => sent'[j] = sent[j] /\ got'[j] = got[j]
    BY <1>13, <1>14, <1>15, <1>16
  <1> QED BY <1>2, <1>3, <1>8, <1>12, <1>14, <1>17, RingStep

LEMMA PipewriteStep ==
    ASSUME NEW C, Grammar(C), IInv(C), NEW p \in Slot, Pipewrite(p)
    PROVE  IInv(C)'
  <1> DEFINE i == With(p).pipe
             bs == With(p).bytes
             ring == pipes[i].ring
             room == Min({Len(bs), PIPESIZE - Used(ring)})
             now == SubSeq(bs, 1, room)
             left == SubSeq(bs, room + 1, Len(bs))
             more == [With(p) EXCEPT !.bytes = left]
             gone == Returns(proc[p], With(p).n)
             failed == FailsCall(proc[p])
             waits == Falls(proc[p], << <<"pipewrite", more>> >>, WriteChan(i))
             me == IF left = <<>> THEN gone
                   ELSE IF ~ pipes[i].readopen \/ proc[p].killed THEN failed ELSE waits
             full == PutBytes(ring, now)
             ps == [proc EXCEPT ![p] = me]
  <1>1. /\ Calls(p, "pipewrite") /\ With(p) \in [pipe : PipeId, bytes : Piece, n : Nat]
    BY CalledIs DEF Pipewrite
  <1>2. i \in PipeId /\ pipes[i] \in OpenPipe
    BY <1>1, PipeIsThere
  <1>3. /\ pipes' = [pipes EXCEPT ![i].ring = full]
        /\ proc' = ps \/ proc' = Woken(ps, ReadChan(i))
        /\ sent' = [sent EXCEPT ![i] = sent[i] \o now]
        /\ UNCHANGED <<nextpid, ftable, input, typing, got>>
    BY DEF Pipewrite
  <1>4. Valid(ring) /\ sent[i] = got[i] \o Bytes(ring)
    BY <1>2, OpenIsNotFree DEF IInv, PipesAreFifo
  <1>5. bs \in Seq(Byte) /\ Len(bs) \in Nat /\ Len(bs) <= BUFSIZE /\ With(p).n \in Nat
    BY <1>1 DEF Piece
  <1> DEFINE space == PIPESIZE - Used(ring)
  <1> HIDE DEF i, ring, bs
  <1>6. space \in Nat
    BY <1>4, UsedIsDistance, PipeAssumption
  <1>7. room \in 0 .. Len(bs) /\ room <= space
    <2> HIDE DEF space
    <2>1. Min({Len(bs), space}) \in Nat /\ Min({Len(bs), space}) <= Len(bs)
          /\ Min({Len(bs), space}) <= space
      BY <1>5, <1>6, LesserOfTwo
    <2> QED BY <1>5, <2>1 DEF space
  <1> HIDE DEF room
  <1>8. now \in Seq(Byte) /\ Len(now) = room /\ left \in Piece
    <2>1. left \in Seq(Byte) /\ Len(left) = Len(bs) - room
      BY <1>5, <1>7
    <2> QED BY <1>5, <1>7, <2>1, ShellAssumption DEF Piece
  <1> HIDE DEF now, left
  <1>9. Valid(full) /\ Bytes(full) = Bytes(ring) \o now
    BY <1>4, <1>7, <1>8, PutAppendsAll
  <1> HIDE DEF full
  <1>10. <<"pipewrite", more>> \in KernelFrame /\ more.pipe = i
    <2>1. more \in [pipe : PipeId, bytes : Piece, n : Nat] /\ more.pipe = i
      BY <1>1, <1>8 DEF i
    <2> HIDE DEF more
    <2> QED BY <2>1 DEF KernelFrame
  <1> HIDE DEF more
  <1>11. ProcsOK(C, ps) /\ HeldIn(ps, ftable) /\ SameOpen(proc, ps)
    <2>1. CASE me = gone
      <3>1. After(C, proc[p], gone)
        BY <1>1, <1>5, CallerAfter
      <3>2. ps = [proc EXCEPT ![p] = gone]
        BY <2>1
      <3> HIDE DEF ps, me, gone
      <3> QED BY <1>1, <3>1, <3>2, CallerEnds
    <2>2. CASE me = failed
      <3>1. After(C, proc[p], failed)
        BY <1>1, CallerAfter
      <3>2. ps = [proc EXCEPT ![p] = failed]
        BY <2>2
      <3> HIDE DEF ps, me, failed
      <3> QED BY <1>1, <3>1, <3>2, CallerEnds
    <2>3. CASE me = waits
      <3>1. WriteChan(i) \in Chan
        BY <1>2, PipeChans
      <3>2. ps = [proc EXCEPT ![p] = Falls(proc[p], << <<"pipewrite", more>> >>, WriteChan(i))]
        BY <2>3
      <3>3. more.pipe = With(p).pipe
        BY <1>10 DEF i
      <3> HIDE DEF ps, me
      <3> QED BY <1>1, <1>10, <3>1, <3>2, <3>3, FallsAtPipe
    <2> HIDE DEF gone, failed, waits
    <2> QED BY <2>1, <2>2, <2>3
  <1> HIDE DEF ps, me
  <1>12. ProcsOK(C, proc') /\ HeldIn(proc', ftable) /\ SameOpen(proc, proc')
    <2>1. ProcsOK(C, Woken(ps, ReadChan(i))) /\ HeldIn(Woken(ps, ReadChan(i)), ftable)
          /\ SameOpen(proc, Woken(ps, ReadChan(i)))
      BY <1>11, WokenToo
    <2> QED BY <1>3, <1>11, <2>1
  <1>13. sent \in [PipeId -> Seq(Byte)] /\ got \in [PipeId -> Seq(Byte)]
    BY DEF IInv, FilesOK
  <1>14. /\ sent' \in [PipeId -> Seq(Byte)] /\ sent'[i] = sent[i] \o now
         /\ \A j \in PipeId : j # i => sent'[j] = sent[j]
    <2>1. sent[i] \o now \in Seq(Byte)
      BY <1>2, <1>8, <1>13
    <2> QED BY <1>2, <1>3, <1>13, <2>1
  <1>15. sent'[i] = got[i] \o Bytes(full)
    <2> DEFINE a == got[i]   b == Bytes(ring)
    <2>1. a \in Seq(Byte) /\ b \in Seq(Byte)
      BY <1>2, <1>4, <1>13, BytesFacts
    <2>2. sent'[i] = (a \o b) \o now /\ Bytes(full) = b \o now
      BY <1>4, <1>9, <1>14
    <2> HIDE DEF a, b
    <2>3. (a \o b) \o now = a \o (b \o now)
      BY <1>8, <2>1
    <2>4. sent'[i] = a \o Bytes(full)
      BY <2>2, <2>3
    <2> QED BY <2>4 DEF a
  <1>16. got' = got
    BY <1>3
  <1>17. /\ got' \in [PipeId -> Seq(Byte)] /\ sent'[i] = got'[i] \o Bytes(full)
         /\ \A j \in PipeId : j # i => sent'[j] = sent[j] /\ got'[j] = got[j]
    BY <1>13, <1>14, <1>15, <1>16
  <1> QED BY <1>2, <1>3, <1>9, <1>12, <1>14, <1>17, RingStep

InOrder(r, w, e) ==
    /\ r <= w /\ w <= e /\ e <= r + INPUT_BUF
    /\ e = r + INPUT_BUF => r < w

LEMMA InOrderIs ==
    /\ ConsoleCanBeRead <=> InOrder(input.r, input.w, input.e)
    /\ ConsoleCanBeRead' <=> InOrder(input'.r, input'.w, input'.e)
  BY DEF ConsoleCanBeRead, InOrder

\* Characters are read, erased, or put in.
LEMMA Indices ==
    ASSUME NEW r \in Nat, NEW w \in Nat, NEW e \in Nat, InOrder(r, w, e)
    PROVE  /\ \A d \in 0 .. w - r : InOrder(r + d, w, e)
           /\ \A k \in w .. e : InOrder(r, w, k)
           /\ e - r < INPUT_BUF =>
                 /\ InOrder(r, e + 1, e + 1)
                 /\ e + 1 # r + INPUT_BUF => InOrder(r, w, e + 1)
  BY ShellAssumption DEF InOrder

LEMMA ConsoleStep ==
    ASSUME NEW C, IInv(C), ProcsOK(C, proc'), SameFiles(proc, proc'), ConsoleOK',
           ConsoleCanBeRead', UNCHANGED <<nextpid, ftable, pipes, sent, got>>
    PROVE  IInv(C)'
  <1>1. EndsAreCounted' /\ PipesAreHeld'
    <2>1. \A i \in PipeId, w \in BOOLEAN : OpenEnd(pipes', i, w) <=> OpenEnd(pipes, i, w)
      OBVIOUS
    <2> QED BY <2>1, QuietStep
  <1>2. ProcsOK(C, proc)' /\ nextpid' \in Nat
    BY DEF ProcsOK, IInv
  <1>3. FilesOK' /\ PipesAreFifo'
    BY DEF IInv, FilesOK, PipesAreFifo
  <1> QED BY <1>1, <1>2, <1>3 DEF IInv

\* The console's buffer before a step.
LEMMA ConsoleIs ==
    ASSUME NEW C, IInv(C)
    PROVE  /\ input \in [text : [0 .. INPUT_BUF - 1 -> Byte], r : Nat, w : Nat, e : Nat]
           /\ input.r \in Nat /\ input.w \in Nat /\ input.e \in Nat
           /\ input.text \in [0 .. INPUT_BUF - 1 -> Byte]
           /\ typing \in Seq(Byte) /\ ConsoleCanBeRead
           /\ \A k \in Nat : CharAt(k) \in Byte
  <1>1. /\ input \in [text : [0 .. INPUT_BUF - 1 -> Byte], r : Nat, w : Nat, e : Nat]
        /\ typing \in Seq(Byte) /\ ConsoleCanBeRead
    BY DEF IInv, ConsoleOK
  <1>2. \A k \in Nat : k % INPUT_BUF \in 0 .. INPUT_BUF - 1
    BY ShellAssumption
  <1> QED BY <1>1, <1>2 DEF CharAt

LEMMA ConsolereadStep ==
    ASSUME NEW C, Grammar(C), IInv(C), NEW p \in Slot, Consoleread(p)
    PROVE  IInv(C)'
  <1> DEFINE n == With(p).n
             dst == With(p).dst
             text == [k \in 1 .. input.w - input.r |-> CharAt(input.r + k - 1)]
             stops == {k \in DOMAIN text : IsEnd(text[k]) \/ Len(dst) + k = n}
             at == Min(stops)
             eof == text[at] = "^D"
             line == dst \o SubSeq(text, 1, IF eof THEN at - 1 ELSE at)
             took == IF eof /\ line # <<>> THEN at - 1 ELSE at
             all == dst \o text
             f == <<"consoleread", [n |-> n, dst |-> all]>>
             waits == Falls(proc[p], <<f>>, ConsChan)
  <1>1. Calls(p, "consoleread") /\ With(p) \in Reading
    BY CalledIs DEF Consoleread
  <1>2. /\ input \in [text : [0 .. INPUT_BUF - 1 -> Byte], r : Nat, w : Nat, e : Nat]
        /\ input.r \in Nat /\ input.w \in Nat /\ input.e \in Nat
        /\ typing \in Seq(Byte) /\ ConsoleCanBeRead /\ \A k \in Nat : CharAt(k) \in Byte
    BY ConsoleIs
  <1>3. input.w - input.r \in Nat
    BY <1>2 DEF ConsoleCanBeRead
  <1>4. text \in Seq(Byte) /\ Len(text) = input.w - input.r /\ DOMAIN text = 1 .. input.w - input.r
    <2>1. \A k \in 1 .. input.w - input.r : input.r + k - 1 \in Nat
      BY <1>2, <1>3
    <2>2. \A k \in 1 .. input.w - input.r : CharAt(input.r + k - 1) \in Byte
      BY <1>2, <2>1
    <2>3. text \in [1 .. input.w - input.r -> Byte]
      BY <2>2
    <2> HIDE DEF text
    <2> QED BY <1>3, <2>3
  <1>5. dst \in Seq(Byte) /\ n \in Count /\ n \in Nat /\ n <= BUFSIZE
        /\ Len(dst) \in Nat /\ Len(dst) < n
    BY <1>1, ShellAssumption DEF Reading, Count
  <1>6. IF stops # {}
        THEN Set(p, Reads(proc[p], line)) /\ input' = [input EXCEPT !.r = @ + took]
        ELSE /\ Set(p, IF proc[p].killed THEN FailsCall(proc[p]) ELSE waits)
             /\ input' = [input EXCEPT !.r = input.w]
    BY DEF Consoleread
  <1>7. stops # {} => at \in 1 .. input.w - input.r
    <2>1. stops \in SUBSET Nat
      BY <1>3, <1>4
    <2>2. stops \subseteq 1 .. input.w - input.r
      BY <1>4
    <2> HIDE DEF stops
    <2> QED BY <2>1, <2>2, LeastIsIn
  <1> DEFINE L == input.w - input.r
             last == n - Len(dst)
  <1>16. last <= L => last \in stops
    <2>1. last \in Nat /\ last > 0 /\ Len(dst) + last = n
      BY <1>5
    <2> HIDE DEF n, dst, last
    <2> QED BY <1>3, <1>4, <2>1
  <1>17. stops # {} => Len(dst) + at <= n
    <2>1. stops \in SUBSET Nat
      BY <1>3, <1>4
    <2>2. stops # {} => at \in stops /\ \A k \in stops : at <= k
      <3> HIDE DEF stops
      <3> QED BY <2>1, LeastIsIn
    <2> HIDE DEF stops, at, n, dst, text
    <2>3. stops # {} /\ ~ (Len(dst) + at <= n) => last <= L
      BY <1>3, <1>5, <1>7
    <2> QED BY <1>5, <1>7, <1>16, <2>2, <2>3
  <1>18. stops = {} => Len(dst) + L < n
    <2> HIDE DEF stops, n, dst
    <2> QED BY <1>3, <1>5, <1>16
  <1> HIDE DEF n, dst, text, stops, at, eof, L, last
  <1>8. stops # {} => line \in Piece /\ took \in 0 .. input.w - input.r
    <2>1. SUFFICES ASSUME stops # {} PROVE line \in Piece /\ took \in 0 .. input.w - input.r
      OBVIOUS
    <2>2. at \in 1 .. input.w - input.r /\ took \in 0 .. input.w - input.r
      BY <1>3, <1>7, <2>1
    <2>3. /\ SubSeq(text, 1, at) \in Seq(Byte) /\ SubSeq(text, 1, at - 1) \in Seq(Byte)
          /\ Len(SubSeq(text, 1, at)) = at /\ Len(SubSeq(text, 1, at - 1)) = at - 1
      BY <1>3, <1>4, <2>2
    <2>4. line \in Piece
      <3> DEFINE s == SubSeq(text, 1, IF eof THEN at - 1 ELSE at)
      <3>1. s \in Seq(Byte) /\ Len(s) \in Nat /\ Len(s) <= at
        BY <2>2, <2>3
      <3> HIDE DEF s
      <3>2. dst \o s \in Seq(Byte) /\ Len(dst \o s) = Len(dst) + Len(s)
        BY <1>5, <3>1
      <3>3. Len(dst) + Len(s) <= BUFSIZE
        BY <1>5, <1>7, <1>17, <2>1, <3>1, ShellAssumption
      <3>4. line = dst \o s
        BY DEF s
      <3> QED BY <3>2, <3>3, <3>4 DEF Piece
    <2> QED BY <2>2, <2>4
  <1>9. all \in Seq(Byte) /\ Len(all) = Len(dst) + L
    BY <1>4, <1>5 DEF L
  <1> HIDE DEF line, took, all
  <1>10. ProcsOK(C, proc') /\ SameFiles(proc, proc')
    <2>1. CASE stops # {}
      <3>1. After(C, proc[p], Reads(proc[p], line))
        BY <1>1, <1>8, <2>1, CallerAfter
      <3>2. proc' = [proc EXCEPT ![p] = Reads(proc[p], line)]
        BY <1>6, <2>1 DEF Set
      <3> QED BY <1>1, <3>1, <3>2, CallerEnds
    <2>2. CASE stops = {} /\ proc[p].killed
      <3>1. After(C, proc[p], FailsCall(proc[p]))
        BY <1>1, CallerAfter
      <3>2. proc' = [proc EXCEPT ![p] = FailsCall(proc[p])]
        BY <1>6, <2>2 DEF Set
      <3> QED BY <1>1, <3>1, <3>2, CallerEnds
    <2>3. CASE stops = {} /\ ~ proc[p].killed
      <3> DEFINE r == [proc[p] EXCEPT !.todo = <<f>> \o Tail(proc[p].todo), !.state = "FALLING",
                                      !.chan = ConsChan]
      <3>1. proc' = [proc EXCEPT ![p] = waits]
        BY <1>6, <2>3 DEF Set
      <3>2. f \in KernelFrame /\ f[1] = "consoleread"
        <4>1. [n |-> n, dst |-> all] \in Reading
          BY <1>5, <1>9, <1>18, <2>3 DEF Reading
        <4> QED BY <4>1 DEF KernelFrame
      <3>3. "FALLING" \in States \ Gone /\ ConsChan \in Chan
        BY DEF States, Gone, ConsChan, Chan
      <3>4. /\ ProcsOK(C, proc) /\ proc[p].todo # <<>>
            /\ Head(proc[p].todo)[1] \notin {"pipe", "exit", "pipeclose"}
        BY <1>1, CalledIs DEF IInv
      <3> HIDE DEF f
      <3>5. waits = r
        BY DEF Falls, Does
      <3>6. ProcsOK(C, [proc EXCEPT ![p] = r]) /\ SameFiles(proc, [proc EXCEPT ![p] = r])
        BY <3>2, <3>3, <3>4, PushedQuietly
      <3> HIDE DEF r, waits
      <3> QED BY <3>1, <3>5, <3>6
    <2> QED BY <2>1, <2>2, <2>3
  <1>11. \E d \in 0 .. input.w - input.r :
            /\ input' = [input EXCEPT !.r = input.r + d]
    <2>1. CASE stops # {}
      BY <1>6, <1>8, <2>1
    <2>2. CASE stops = {}
      <3>1. input' = [input EXCEPT !.r = input.w]
        BY <1>6, <2>2
      <3>2. input.w = input.r + (input.w - input.r)
        BY <1>2
      <3> QED BY <1>3, <3>1, <3>2
    <2> QED BY <2>1, <2>2
  <1>12. PICK d \in 0 .. input.w - input.r : input' = [input EXCEPT !.r = input.r + d]
    BY <1>11
  <1>13. /\ input' \in [text : [0 .. INPUT_BUF - 1 -> Byte], r : Nat, w : Nat, e : Nat]
         /\ input'.r = input.r + d /\ input'.w = input.w /\ input'.e = input.e
    BY <1>2, <1>3, <1>12
  <1>14. ConsoleCanBeRead'
    <2>1. InOrder(input.r, input.w, input.e)
      BY <1>2, InOrderIs
    <2>2. InOrder(input.r + d, input.w, input.e)
      BY <1>2, <2>1, Indices
    <2> QED BY <1>13, <2>2, InOrderIs
  <1>15. ConsoleOK'
    BY <1>2, <1>13 DEF Consoleread, ConsoleOK
  <1> QED BY <1>10, <1>14, <1>15, ConsoleStep DEF Consoleread

LEMMA GreatestIsIn ==
    ASSUME NEW m \in Int, NEW n \in Int, NEW S \in SUBSET (m .. n), S # {}
    PROVE  Max(S) \in S
  <1> DEFINE T == {n - k : k \in S}
  <1>1. T \in SUBSET Nat /\ T # {}
    OBVIOUS
  <1>2. PICK t \in T : \A u \in T : t <= u
    BY <1>1, LeastNat
  <1>3. \E x \in S : \A y \in S : x >= y
    <2>1. PICK x \in S : t = n - x
      BY <1>2
    <2>2. ASSUME NEW y \in S PROVE x >= y
      <3>1. n - x <= n - y
        BY <1>2, <2>1
      <3> QED BY <2>1, <3>1
    <2> QED BY <2>2
  <1> QED BY <1>3 DEF Max

LEMMA ConsoleintrStep ==
    ASSUME NEW C, IInv(C), Consoleintr
    PROVE  IInv(C)'
  <1> DEFINE c == Head(typing)
             ends == {k \in input.w .. input.e - 1 : CharAt(k) = "\n"}
             last == Completes(c)
  <1>1. /\ input \in [text : [0 .. INPUT_BUF - 1 -> Byte], r : Nat, w : Nat, e : Nat]
        /\ input.r \in Nat /\ input.w \in Nat /\ input.e \in Nat
        /\ input.text \in [0 .. INPUT_BUF - 1 -> Byte]
        /\ typing \in Seq(Byte) /\ ConsoleCanBeRead
    BY ConsoleIs
  <1>2. ProcsOK(C, proc)
    BY DEF IInv
  <1>3. c \in Byte /\ typing' = Tail(typing) /\ typing' \in Seq(Byte)
    BY <1>1 DEF Consoleintr
  <1>4. \/ /\ input' = [input EXCEPT !.e = IF ends = {} THEN input.w ELSE Max(ends) + 1]
           /\ UNCHANGED proc
        \/ /\ input' = [input EXCEPT !.e = IF @ # input.w THEN @ - 1 ELSE @]
           /\ UNCHANGED proc
        \/ UNCHANGED <<input, proc>>
        \/ /\ ~ (input.e - input.r >= INPUT_BUF)
           /\ input' = [input EXCEPT !.text[input.e % INPUT_BUF] = c, !.e = @ + 1,
                                     !.w = IF last THEN input.e + 1 ELSE @]
           /\ proc' = IF last THEN Woken(proc, ConsChan) ELSE proc
    BY DEF Consoleintr
  <1>5. ends # {} => Max(ends) \in input.w .. input.e - 1
    <2>1. ends \in SUBSET (input.w .. input.e - 1) /\ input.w \in Int /\ input.e - 1 \in Int
      BY <1>1
    <2> HIDE DEF ends
    <2> QED BY <2>1, GreatestIsIn
  <1> HIDE DEF c, ends, last
  <1>6. ProcsOK(C, proc') /\ SameFiles(proc, proc')
    <2>1. SameFiles(proc, proc)
      BY DEF SameFiles
    <2>2. ProcsOK(C, Woken(proc, ConsChan)) /\ SameFiles(proc, Woken(proc, ConsChan))
      BY <1>2, WokenFiles
    <2>3. proc' = proc \/ proc' = Woken(proc, ConsChan)
      BY <1>4
    <2> QED BY <1>2, <2>1, <2>2, <2>3
  <1>7. /\ input' \in [text : [0 .. INPUT_BUF - 1 -> Byte], r : Nat, w : Nat, e : Nat]
        /\ ConsoleCanBeRead'
    <2>1. InOrder(input.r, input.w, input.e) /\ input.r <= input.w /\ input.w <= input.e
      BY <1>1, InOrderIs DEF ConsoleCanBeRead
    <2>2. ASSUME NEW k \in input.w .. input.e, input' = [input EXCEPT !.e = k]
          PROVE  /\ input' \in [text : [0 .. INPUT_BUF - 1 -> Byte], r : Nat, w : Nat, e : Nat]
                 /\ ConsoleCanBeRead'
      <3>1. /\ input' \in [text : [0 .. INPUT_BUF - 1 -> Byte], r : Nat, w : Nat, e : Nat]
            /\ input'.r = input.r /\ input'.w = input.w /\ input'.e = k
        BY <1>1, <2>2
      <3>2. InOrder(input.r, input.w, k)
        BY <1>1, <2>1, Indices
      <3> QED BY <3>1, <3>2, InOrderIs
    <2>5. CASE input' = [input EXCEPT !.e = IF ends = {} THEN input.w ELSE Max(ends) + 1]
      <3> DEFINE k == IF ends = {} THEN input.w ELSE Max(ends) + 1
      <3>1. k \in input.w .. input.e
        BY <1>1, <1>5, <2>1
      <3>2. input' = [input EXCEPT !.e = k]
        BY <2>5
      <3> HIDE DEF k
      <3> QED BY <2>2, <3>1, <3>2
    <2>6. CASE input' = [input EXCEPT !.e = IF @ # input.w THEN @ - 1 ELSE @]
      <3> DEFINE k == IF input.e # input.w THEN input.e - 1 ELSE input.e
      <3>1. k \in input.w .. input.e
        BY <1>1, <2>1
      <3>2. input' = [input EXCEPT !.e = k]
        BY <2>6
      <3> HIDE DEF k
      <3> QED BY <2>2, <3>1, <3>2
    <2>3. CASE UNCHANGED input
      BY <1>1, <2>3 DEF ConsoleCanBeRead
    <2>4. CASE /\ ~ (input.e - input.r >= INPUT_BUF)
               /\ input' = [input EXCEPT !.text[input.e % INPUT_BUF] = c, !.e = @ + 1,
                                         !.w = IF last THEN input.e + 1 ELSE @]
      <3>1. input.e % INPUT_BUF \in 0 .. INPUT_BUF - 1
        BY <1>1, ShellAssumption
      <3>2. [input.text EXCEPT ![input.e % INPUT_BUF] = c] \in [0 .. INPUT_BUF - 1 -> Byte]
        BY <1>1, <1>3
      <3> DEFINE text == [input.text EXCEPT ![input.e % INPUT_BUF] = c]
                 w == IF last THEN input.e + 1 ELSE input.w
      <3>3. text \in [0 .. INPUT_BUF - 1 -> Byte] /\ w \in Nat /\ input.e + 1 \in Nat
        BY <1>1, <3>2
      <3>4. input' = [[[input EXCEPT !.text = text] EXCEPT !.e = input.e + 1] EXCEPT !.w = w]
        BY <1>1, <2>4
      <3> HIDE DEF text, w
      <3>5. /\ input' \in [text : [0 .. INPUT_BUF - 1 -> Byte], r : Nat, w : Nat, e : Nat]
            /\ input'.r = input.r /\ input'.w = w /\ input'.e = input.e + 1
        BY <1>1, <3>3, <3>4
      <3>6. input.e + 1 = input.r + INPUT_BUF => last
        BY DEF last, Completes
      <3>7. input.e - input.r < INPUT_BUF
        BY <1>1, <2>4, ShellAssumption
      <3>8. /\ InOrder(input.r, input.e + 1, input.e + 1)
            /\ input.e + 1 # input.r + INPUT_BUF => InOrder(input.r, input.w, input.e + 1)
        BY <1>1, <2>1, <3>7, Indices
      <3>9. InOrder(input.r, w, input.e + 1)
        BY <3>6, <3>8 DEF w
      <3> QED BY <3>5, <3>9, InOrderIs
    <2> QED BY <1>4, <2>3, <2>4, <2>5, <2>6
  <1>8. ConsoleOK'
    BY <1>3, <1>7 DEF ConsoleOK
  <1> QED BY <1>6, <1>7, <1>8, ConsoleStep DEF Consoleintr

LEMMA InitHolds ==
    ASSUME NEW C, Grammar(C), Init
    PROVE  IInv(C)
  <1> DEFINE first == << <<"fork", << <<"sh", 0>> >> >>, <<"init2", 0>> >>
             fds == [fd \in FD |-> IF fd < 3 THEN 1 ELSE 0]
             q == [Free EXCEPT !.state = "RUNNABLE", !.pid = 1, !.ofile = fds, !.todo = first]
             console == [NoFile EXCEPT !.ref = 3, !.type = "console"]
  <1>1. Plain(C, first) /\ first # <<>> /\ Head(first)[1] = "fork"
    <2>1. <<"sh", 0>> \in Frame(C)
      BY FramesAre DEF PlainLabels
    <2>2. << <<"sh", 0>> >> \in Seq(Frame(C))
      BY <2>1
    <2>3. <<"fork", << <<"sh", 0>> >> >> \in UserFrame(C)
      BY <2>2, FramesAre
    <2>4. <<"init2", 0>> \in UserFrame(C)
      BY FramesOfPrograms DEF PlainLabels
    <2> DEFINE a == <<"fork", << <<"sh", 0>> >> >>   b == <<"init2", 0>>
    <2>5. a \in UserFrame(C) /\ a[1] = "fork" /\ b \in UserFrame(C) /\ b[1] = "init2"
      BY <2>3, <2>4
    <2>6. first = <<a, b>>
      OBVIOUS
    <2> HIDE DEF a, b, first
    <2>7. Plain(C, <<a, b>>)
      BY <2>5, Plain2
    <2>8. <<a, b>> # <<>> /\ Head(<<a, b>>) = a
      OBVIOUS
    <2> QED BY <2>5, <2>6, <2>7, <2>8
  <1> HIDE DEF first
  <1>2. UserStack(C, first) /\ ~ Starts(first) /\ first \in Seq(UserFrame(C))
        /\ first \in Seq(UserFrame(C) \cup KernelFrame)
    <2>1. UserStack(C, first) /\ ~ Starts(first) /\ first \in Seq(UserFrame(C))
      BY <1>1, PlainIsStack DEF Plain
    <2> QED BY <2>1, SeqMonotonic
  <1>3. fds \in [FD -> 0 .. NFILE]
    BY ShellAssumption
  <1>4. /\ proc = [s \in Slot |-> IF s = init THEN q ELSE Free]
        /\ ftable = [f \in File |-> IF f = 1 THEN console ELSE NoFile]
        /\ pipes = [i \in PipeId |-> FREE]
    BY DEF Init, first
  <1> HIDE DEF fds
  <1>5. q \in Process(C) /\ q.state = "RUNNABLE" /\ q.ofile = fds /\ q.todo = first
    <2>1. Free \in Process(C)
      BY FreeIs
    <2> QED BY <1>2, <1>3, <2>1 DEF Process, States
  <1> HIDE DEF q
  <1>6. init \in Slot /\ 1 \in File
    BY ShellAssumption DEF init, Slot, File
  <1>7. proc[init] = q /\ \A s \in Slot : s # init => proc[s] = Free
    BY <1>4, <1>6
  <1>8. Free \in Process(C) /\ Well(C, Free) /\ Idle(Free) /\ Free.todo = <<>>
        /\ \A fd \in FD : Free.ofile[fd] = 0
    BY FreeIs
  <1>9. ProcsOK(C, proc)
    <2>1. proc \in [Slot -> Process(C)]
      BY <1>4, <1>5, <1>8
    <2>2. Well(C, q) /\ q.state \notin Gone
      BY <1>2, <1>5 DEF Well, Gone
    <2> QED BY <1>7, <1>8, <2>1, <2>2 DEF ProcsOK
  <1>10. \A s \in Slot : ~ InPipe(proc[s]) /\ \A i, w : ~ Closes(proc[s], i, w)
    <2>1. ~ InPipe(q) /\ \A i, w : ~ Closes(q, i, w)
      BY <1>2, <1>5, UserDoesNotClose
    <2>2. ~ InPipe(Free) /\ \A i, w : ~ Closes(Free, i, w)
      BY <1>8 DEF InPipe, Closes
    <2> QED BY <1>7, <2>1, <2>2
  <1>11. /\ console \in FileRec /\ console.ref = 3 /\ console.type = "console"
         /\ NoFile \in FileRec /\ NoFile.ref = 0
    BY DEF NoFile, FileRec
  <1> HIDE DEF console
  <1>12. /\ ftable \in [File -> FileRec] /\ ftable[1] = console
         /\ \A f \in File : f # 1 => ftable[f] = NoFile
    BY <1>4, <1>6, <1>11
  <1>13. \A f \in File : \A i, w : ~ Uses(ftable[f], i, w)
    BY <1>11, <1>12 DEF Uses
  <1>14. RefsOK(proc, ftable)
    <2>1. \A s \in Slot, fd \in FD : proc[s].ofile[fd] = IF s = init /\ fd < 3 THEN 1 ELSE 0
      BY <1>5, <1>7, <1>8 DEF fds
    <2>2. 0 \in FD /\ 1 \in FD /\ 2 \in FD
      BY ShellAssumption DEF FD
    <2>3. RefsOf(proc, 1) = {<<init, 0>>, <<init, 1>>, <<init, 2>>}
      <3>1. \A d \in Slot \X FD : d = <<d[1], d[2]>> /\ d[1] \in Slot /\ d[2] \in FD
        OBVIOUS
      <3>2. \A d \in Slot \X FD : d \in RefsOf(proc, 1) <=> d[1] = init /\ d[2] < 3
        BY <2>1, <3>1 DEF RefsOf
      <3>3. \A fd \in FD : fd < 3 <=> fd = 0 \/ fd = 1 \/ fd = 2
        BY ShellAssumption DEF FD
      <3>4. \A d \in Slot \X FD : d \in RefsOf(proc, 1) <=>
               d = <<init, 0>> \/ d = <<init, 1>> \/ d = <<init, 2>>
        BY <3>1, <3>2, <3>3
      <3>5. /\ <<init, 0>> \in Slot \X FD /\ <<init, 1>> \in Slot \X FD
            /\ <<init, 2>> \in Slot \X FD
        BY <1>6, <2>2
      <3>6. RefsOf(proc, 1) \subseteq Slot \X FD
        BY DEF RefsOf
      <3> QED BY <3>4, <3>5, <3>6
    <2>4. Cardinality({<<init, 0>>, <<init, 1>>, <<init, 2>>}) = 3
      <3> DEFINE a == <<init, 0>>   b == <<init, 1>>   c == <<init, 2>>
      <3>1. a # b /\ b # c /\ a # c
        OBVIOUS
      <3> HIDE DEF a, b, c
      <3>2. IsFiniteSet({a}) /\ Cardinality({a}) = 1
        BY FS_Singleton
      <3>3. IsFiniteSet({a} \cup {b}) /\ Cardinality({a} \cup {b}) = 2
        <4>1. b \notin {a}
          BY <3>1
        <4> QED BY <3>2, <4>1, CountOne
      <3>4. Cardinality(({a} \cup {b}) \cup {c}) = 3
        <4>1. c \notin {a} \cup {b}
          BY <3>1
        <4> QED BY <3>3, <4>1, CountOne
      <3>5. ({a} \cup {b}) \cup {c} = {a, b, c}
        OBVIOUS
      <3> QED BY <3>4, <3>5 DEF a, b, c
    <2>5. ASSUME NEW f \in File, f # 1 PROVE RefsOf(proc, f) = {}
      <3>1. f # 0 /\ f # 1
        BY <2>5, ShellAssumption DEF File
      <3> QED BY <2>1, <3>1 DEF RefsOf
    <2>6. Cardinality({}) = 0
      BY FS_EmptySet
    <2>7. SUFFICES ASSUME NEW f \in File PROVE ftable[f].ref = Cardinality(RefsOf(proc, f))
      BY DEF RefsOK
    <2>8. CASE f = 1
      BY <1>11, <1>12, <2>3, <2>4, <2>8
    <2>9. CASE f # 1
      <3>1. RefsOf(proc, f) = {}
        BY <2>5, <2>9
      <3> QED BY <1>11, <1>12, <2>6, <2>9, <3>1
    <2> QED BY <2>8, <2>9
  <1>15. OpenOK(proc, ftable, pipes)
    <2>1. SUFFICES ASSUME NEW i \in PipeId, NEW w \in BOOLEAN
                   PROVE  Cardinality(UsersOf(ftable, i, w)) + Cardinality(ClosersOf(proc, i, w))
                             = IF OpenEnd(pipes, i, w) THEN 1 ELSE 0
      BY DEF OpenOK
    <2>2. UsersOf(ftable, i, w) = {} /\ ClosersOf(proc, i, w) = {}
      BY <1>10, <1>13 DEF UsersOf, ClosersOf
    <2>3. ~ OpenEnd(pipes, i, w)
      BY <1>4 DEF OpenEnd
    <2>4. Cardinality({}) = 0
      BY FS_EmptySet
    <2> QED BY <2>2, <2>3, <2>4
  <1>16. EndsAreCounted /\ PipesAreHeld
    BY <1>10, <1>14, <1>15, EndsAreCountedIs DEF PipesAreHeld, HeldIn
  <1>17. FilesOK
    <2>1. <<>> \in Seq(Byte)
      OBVIOUS
    <2>2. sent \in [PipeId -> Seq(Byte)] /\ got \in [PipeId -> Seq(Byte)]
      BY <2>1 DEF Init
    <2>3. pipes \in [PipeId -> {FREE} \cup OpenPipe]
      BY <1>4
    <2> QED BY <1>12, <2>2, <2>3 DEF FilesOK
  <1>18. PipesAreFifo
    BY <1>4 DEF PipesAreFifo
  <1>19. ConsoleOK /\ ConsoleCanBeRead
    <2>1. typing \in Seq(Byte)
      BY ShellAssumption DEF Init
    <2>2. /\ input \in [text : [0 .. INPUT_BUF - 1 -> Byte], r : Nat, w : Nat, e : Nat]
          /\ input.r = 0 /\ input.w = 0 /\ input.e = 0
      BY PipeAssumption DEF Init
    <2> QED BY <2>1, <2>2, ShellAssumption DEF ConsoleOK, ConsoleCanBeRead
  <1>20. nextpid \in Nat
    BY DEF Init
  <1> QED BY <1>9, <1>16, <1>17, <1>18, <1>19, <1>20 DEF IInv

LEMMA StepHolds ==
    ASSUME NEW C, Grammar(C), IInv(C), NEW p \in Slot, Step(p)
    PROVE  IInv(C)'
  <1>1. CASE Sleep(p)
    BY <1>1, SleepStep
  <1>2. CASE WaitReaps(p) \/ WaitFails(p) \/ WaitSleeps(p)
    BY <1>2, WaitReapsStep, WaitFailsStep, WaitSleepsStep
  <1>3. CASE Fork(p) \/ ForkFails(p)
    BY <1>3, ForkStep, ForkFailsStep
  <1>4. CASE Kill(p) \/ KilledExits(p) \/ ExitCloses(p) \/ Exit(p)
    BY <1>4, KillStep, KilledExitsStep, ExitClosesStep, ExitStep
  <1>5. CASE MakePipe(p) \/ PipeFails(p) \/ Dup(p) \/ Close(p) \/ Pipeclose(p)
    BY <1>5, MakePipeStep, PipeFailsStep, DupStep, CloseStep, PipecloseStep
  <1>6. CASE Pipewrite(p) \/ PipereadWaits(p) \/ Piperead(p)
    BY <1>6, PipewriteStep, PipereadWaitsStep, PipereadStep
  <1>7. CASE Consoleread(p) \/ Consolewrite(p)
    BY <1>7, ConsolereadStep, ConsolewriteStep
  <1> QED BY <1>1, <1>2, <1>3, <1>4, <1>5, <1>6, <1>7 DEF Step

LEMMA Stutters ==
    ASSUME NEW C, IInv(C), UNCHANGED vars
    PROVE  IInv(C)'
  <1>1. UNCHANGED <<proc, nextpid, ftable, pipes, input, typing, sent, got>>
    BY DEF vars
  <1>2. ProcsOK(C, proc') /\ SameFiles(proc, proc') /\ nextpid' \in Nat
    BY <1>1 DEF IInv, SameFiles
  <1> QED BY <1>1, <1>2, ProcStep

LEMMA NextHolds ==
    ASSUME NEW C, Grammar(C), IInv(C), [Next]_vars
    PROVE  IInv(C)'
  <1>1. CASE Next
    BY <1>1, StepHolds, ConsoleintrStep DEF Next
  <1>2. CASE UNCHANGED vars
    BY <1>2, Stutters
  <1> QED BY <1>1, <1>2

\* What is read from a pipe is what was written to it, in order and no byte
\* twice, and its ring never holds more than PIPESIZE bytes (pipe.c:84-94 and
\* 113-117), for any commands, processes, pipes and sizes.
THEOREM PipesFifo ==
    ASSUME NEW Command, Grammar(Command)
    PROVE  Spec => []PipesAreFifo
  <1>1. Init => IInv(Command)
    BY InitHolds
  <1>2. IInv(Command) /\ [Next]_vars => IInv(Command)'
    BY NextHolds
  <1>3. IInv(Command) => PipesAreFifo
    BY DEF IInv
  <1> QED BY <1>1, <1>2, <1>3, PTL DEF Spec

LEMMA HeldIsThere ==
    ASSUME NEW C, IInv(C)
    PROVE  PipesInUse
  <1>1. SUFFICES ASSUME NEW p \in Slot, Label(p) \in {"piperead", "pipewrite"}
                 PROVE  pipes[Arg(p).pipe] # FREE
    BY DEF PipesInUse
  <1>2. proc[p].todo # <<>>
    BY <1>1 DEF Label
  <1>3. InPipe(proc[p]) /\ Arg(p).pipe \in PipeId /\ Arg(p) = Head(proc[p].todo)[2]
    BY <1>1, <1>2, AtFrame DEF InPipe
  <1>4. PICK fd \in FD, w \in BOOLEAN :
            proc[p].ofile[fd] \in File /\ Uses(ftable[proc[p].ofile[fd]], Arg(p).pipe, w)
    BY <1>3 DEF IInv, PipesAreHeld, HeldIn
  <1>5. OpenOK(proc, ftable, pipes)
    BY EndsAreCountedIs DEF IInv
  <1>6. OpenEnd(pipes, Arg(p).pipe, w)
    BY <1>3, <1>4, <1>5, UsedIsOpen
  <1> QED BY <1>6 DEF OpenEnd

\* Every open file is counted once for each descriptor, an end of a pipe is open as
\* long as a file in use, or a process that still has to close it, is one, and no
\* pipe is freed under a process that sleeps in it: fork(), dup(), close() and
\* exit() lose no reference (file.c:38-85, pipe.c:60-76).
THEOREM EndsOpen ==
    ASSUME NEW Command, Grammar(Command)
    PROVE  Spec => []EndsAreOpen
  <1>1. Init => IInv(Command)
    BY InitHolds
  <1>2. IInv(Command) /\ [Next]_vars => IInv(Command)'
    BY NextHolds
  <1>3. IInv(Command) => EndsAreOpen
    BY HeldIsThere DEF IInv, EndsAreOpen
  <1> QED BY <1>1, <1>2, <1>3, PTL DEF Spec

\* The console's indices stay in order, and a full buffer has a line for the
\* readers, whatever is typed and wherever the buffer wraps (console.c:196-230).
THEOREM ConsoleIsReadable ==
    ASSUME NEW Command, Grammar(Command)
    PROVE  Spec => []ConsoleCanBeRead
  <1>1. Init => IInv(Command)
    BY InitHolds
  <1>2. IInv(Command) /\ [Next]_vars => IInv(Command)'
    BY NextHolds
  <1>3. IInv(Command) => ConsoleCanBeRead
    BY DEF IInv
  <1> QED BY <1>1, <1>2, <1>3, PTL DEF Spec

-----------------------------------------------------------------------------
(* No wakeup is lost: whoever sleeps, or holds the lock and is about to,    *)
(* has found a reason that is still true, and sleeps where the one who ends *)
(* it looks.                                                                *)

Asleep(q) == q.state \in {"FALLING", "SLEEPING"}
Doing(q)  == Head(q.todo)[1]
PipeOf(q) == Head(q.todo)[2].pipe

ReadsEmpty(q, pp) ==
    /\ Doing(q) = "piperead" /\ q.chan = ReadChan(PipeOf(q))
    /\ IsEmpty(pp[PipeOf(q)].ring) /\ pp[PipeOf(q)].writeopen

WritesFull(q, pp) ==
    /\ Doing(q) = "pipewrite" /\ q.chan = WriteChan(PipeOf(q))
    /\ IsFull(pp[PipeOf(q)].ring) /\ pp[PipeOf(q)].readopen

WantsLine(q, inp) == Doing(q) = "consoleread" /\ q.chan = ConsChan /\ inp.r = inp.w

Why(q, pp, inp) == ReadsEmpty(q, pp) \/ WritesFull(q, pp) \/ WantsLine(q, inp)

\* A parent has a child, and none that is a zombie.
WaitsForChild(ps, s) ==
    /\ ps[s].state = "SLEEPING" /\ Doing(ps[s]) = "wait2" /\ ps[s].chan = WaitChan(s)
    /\ ~ ps[s].killed
    /\ \E c \in Slot : ps[c].parent = s
    /\ \A c \in Slot : ps[c].parent = s => ps[c].state # "ZOMBIE"

ReasonsIn(ps, pp, inp) ==
    \A s \in Slot : Asleep(ps[s]) =>
        ps[s].todo # <<>> /\ (Why(ps[s], pp, inp) \/ WaitsForChild(ps, s))

\* A free slot is nobody's child, nobody is its own, and init is never reaped.
FamilyIn(ps) ==
    /\ \A s \in Slot : (ps[s].state = "UNUSED" => ps[s].parent = 0) /\ ps[s].parent # s
    /\ ps[init].state # "UNUSED" /\ ps[init].parent = 0

Awaited(ps, pp, inp) == ReasonsIn(ps, pp, inp) /\ FamilyIn(ps)

WakeInv(C) == IInv(C) /\ Awaited(proc, pipes, input)

\* It sleeps on, or goes to sleep.
Rests(q, r) ==
    /\ Asleep(q) /\ r.chan = q.chan /\ r.todo = q.todo
    /\ q.state = "SLEEPING" => r.state = "SLEEPING" /\ r.killed = q.killed

\* It has the same parent, and has not died meanwhile.
Kin(q, r) == r.parent = q.parent /\ \A st \in Gone : r.state = st => q.state = st

Kept(ps, ps2) ==
    \A s \in Slot : Kin(ps[s], ps2[s]) /\ (Asleep(ps2[s]) => Rests(ps[s], ps2[s]))

\* A parent that waits still has a child, and none that it should have found.
SameKids(ps, ps2, s) ==
    /\ (\E c \in Slot : ps[c].parent = s) => \E c \in Slot : ps2[c].parent = s
    /\ \A c \in Slot : ps2[c].parent = s /\ ps2[c].state = "ZOMBIE" =>
                          ps[c].parent = s /\ ps[c].state = "ZOMBIE"

LEMMA KinKids ==
    ASSUME NEW ps, NEW ps2, \A c \in Slot : Kin(ps[c], ps2[c]), NEW s
    PROVE  SameKids(ps, ps2, s)
  BY DEF SameKids, Kin, Gone

LEMMA KinFamily ==
    ASSUME NEW ps, NEW ps2, \A c \in Slot : Kin(ps[c], ps2[c]), FamilyIn(ps)
    PROVE  FamilyIn(ps2)
  <1>1. init \in Slot
    BY ShellAssumption DEF init, Slot
  <1> QED BY <1>1 DEF FamilyIn, Kin, Gone

\* What a reason depends on.
LEMMA WhyIs ==
    ASSUME NEW q, NEW r, r.todo = q.todo, r.chan = q.chan, NEW pp, NEW inp
    PROVE  Why(r, pp, inp) <=> Why(q, pp, inp)
  BY DEF Why, ReadsEmpty, WritesFull, WantsLine, Doing, PipeOf

\* Who sleeps either did so before, for a reason that has stayed, or has found
\* one in this step.
LEMMA ReasonsKept ==
    ASSUME NEW ps, NEW pp, NEW inp, ReasonsIn(ps, pp, inp), NEW ps2, NEW pp2, NEW inp2,
           \A s \in Slot : Asleep(ps2[s]) =>
               \/ /\ Rests(ps[s], ps2[s]) /\ SameKids(ps, ps2, s)
                  /\ Why(ps[s], pp, inp) => Why(ps[s], pp2, inp2)
               \/ ps2[s].todo # <<>> /\ (Why(ps2[s], pp2, inp2) \/ WaitsForChild(ps2, s))
    PROVE  ReasonsIn(ps2, pp2, inp2)
  <1>1. SUFFICES ASSUME NEW s \in Slot, Asleep(ps2[s]), Rests(ps[s], ps2[s]), SameKids(ps, ps2, s),
                        Why(ps[s], pp, inp) => Why(ps[s], pp2, inp2)
                 PROVE  ps2[s].todo # <<>> /\ (Why(ps2[s], pp2, inp2) \/ WaitsForChild(ps2, s))
    BY DEF ReasonsIn
  <1>2. ps[s].todo # <<>> /\ (Why(ps[s], pp, inp) \/ WaitsForChild(ps, s))
    BY <1>1 DEF ReasonsIn, Rests
  <1>3. ps2[s].todo = ps[s].todo /\ ps2[s].chan = ps[s].chan
    BY <1>1 DEF Rests
  <1>4. CASE Why(ps[s], pp, inp)
    BY <1>1, <1>2, <1>3, <1>4, WhyIs
  <1>5. CASE WaitsForChild(ps, s)
    <2>1. /\ ps2[s].state = "SLEEPING" /\ ~ ps2[s].killed /\ Doing(ps2[s]) = "wait2"
          /\ ps2[s].chan = WaitChan(s)
      BY <1>1, <1>3, <1>5 DEF WaitsForChild, Rests, Doing
    <2>2. /\ \E c \in Slot : ps2[c].parent = s
          /\ \A c \in Slot : ps2[c].parent = s => ps2[c].state # "ZOMBIE"
      BY <1>1, <1>5 DEF WaitsForChild, SameKids
    <2> QED BY <1>2, <1>3, <2>1, <2>2 DEF WaitsForChild
  <1> QED BY <1>2, <1>4, <1>5

LEMMA KeptReasons ==
    ASSUME NEW ps, NEW pp, NEW inp, Awaited(ps, pp, inp), NEW ps2, NEW pp2, NEW inp2,
           Kept(ps, ps2),
           \A s \in Slot : Asleep(ps2[s]) /\ Why(ps[s], pp, inp) => Why(ps[s], pp2, inp2)
    PROVE  Awaited(ps2, pp2, inp2)
  <1>1. \A c \in Slot : Kin(ps[c], ps2[c])
    BY DEF Kept
  <1>2. \A s \in Slot : SameKids(ps, ps2, s)
    BY <1>1, KinKids
  <1>3. ReasonsIn(ps2, pp2, inp2)
    BY <1>2, ReasonsKept DEF Kept, Awaited
  <1> QED BY <1>1, <1>3, KinFamily DEF Awaited

LEMMA KeptKept ==
    ASSUME NEW ps, NEW ps2, NEW ps3, Kept(ps, ps2), Kept(ps2, ps3)
    PROVE  Kept(ps, ps3)
  BY DEF Kept, Kin, Rests, Gone

LEMMA KeptWoken ==
    ASSUME NEW C, NEW ps \in [Slot -> Process(C)], NEW chan
    PROVE  Kept(ps, Woken(ps, chan))
  <1>1. SUFFICES ASSUME NEW s \in Slot
                 PROVE  /\ Kin(ps[s], Woken(ps, chan)[s])
                        /\ Asleep(Woken(ps, chan)[s]) => Rests(ps[s], Woken(ps, chan)[s])
    BY DEF Kept
  <1>2. CASE ps[s].state = "SLEEPING" /\ ps[s].chan = chan
    <2> DEFINE r == [ps[s] EXCEPT !.state = "RUNNABLE", !.chan = <<>>]
    <2>1. Woken(ps, chan)[s] = r
      BY <1>2 DEF Woken
    <2>2. r.state = "RUNNABLE" /\ r.parent = ps[s].parent
      BY DEF Process
    <2> HIDE DEF r
    <2> QED BY <2>1, <2>2 DEF Kin, Asleep, Gone
  <1>3. CASE ~ (ps[s].state = "SLEEPING" /\ ps[s].chan = chan)
    <2>1. Woken(ps, chan)[s] = ps[s]
      BY <1>3 DEF Woken
    <2> QED BY <2>1 DEF Kin, Rests
  <1> QED BY <1>2, <1>3

LEMMA WokenLeaves ==
    ASSUME NEW C, NEW ps \in [Slot -> Process(C)], NEW chan, NEW s \in Slot
    PROVE  LET q == Woken(ps, chan)[s]
           IN  /\ q.parent = ps[s].parent
               /\ \A st \in Gone : q.state = st <=> ps[s].state = st
               /\ Asleep(q) => q = ps[s] /\ ~ (q.state = "SLEEPING" /\ q.chan = chan)
  <1>1. CASE ps[s].state = "SLEEPING" /\ ps[s].chan = chan
    <2> DEFINE r == [ps[s] EXCEPT !.state = "RUNNABLE", !.chan = <<>>]
    <2>1. Woken(ps, chan)[s] = r
      BY <1>1 DEF Woken
    <2>2. r.state = "RUNNABLE" /\ r.parent = ps[s].parent
      BY DEF Process
    <2> HIDE DEF r
    <2> QED BY <1>1, <2>1, <2>2 DEF Asleep, Gone
  <1>2. CASE ~ (ps[s].state = "SLEEPING" /\ ps[s].chan = chan)
    <2>1. Woken(ps, chan)[s] = ps[s]
      BY <1>2 DEF Woken
    <2> QED BY <1>2, <2>1
  <1> QED BY <1>1, <1>2

LEMMA WokenTyped ==
    ASSUME NEW C, NEW ps \in [Slot -> Process(C)], NEW chan
    PROVE  Woken(ps, chan) \in [Slot -> Process(C)]
  <1>1. ASSUME NEW s \in Slot
        PROVE  [ps[s] EXCEPT !.state = "RUNNABLE", !.chan = <<>>] \in Process(C)
    <2>1. ps[s] \in Process(C) /\ "RUNNABLE" \in States /\ <<>> \in Chan
      BY DEF States, Chan
    <2> HIDE DEF Chan, States
    <2> QED BY <2>1 DEF Process
  <1> QED BY <1>1, Zenon DEF Woken

LEMMA KeptRuns ==
    ASSUME NEW C, NEW ps \in [Slot -> Process(C)], NEW p \in Slot, NEW r,
           r.state = "RUNNABLE", r.parent = ps[p].parent
    PROVE  Kept(ps, [ps EXCEPT ![p] = r])
  <1>1. \A s \in Slot : [ps EXCEPT ![p] = r][s] = IF s = p THEN r ELSE ps[s]
    OBVIOUS
  <1>2. ASSUME NEW s \in Slot, s # p PROVE [ps EXCEPT ![p] = r][s] = ps[s]
    BY <1>1, <1>2
  <1>3. [ps EXCEPT ![p] = r][p] = r
    BY <1>1
  <1>4. ASSUME NEW q PROVE Kin(q, q) /\ (Asleep(q) => Rests(q, q))
    BY DEF Kin, Rests
  <1>5. Kin(ps[p], r) /\ ~ Asleep(r)
    BY DEF Kin, Asleep, Gone
  <1> QED BY <1>2, <1>3, <1>4, <1>5, Zenon DEF Kept

LEMMA AwaitedIs == Awaited(proc, pipes, input)' <=> Awaited(proc', pipes', input')
  BY DEF Awaited, ReasonsIn, FamilyIn, Asleep, Why, ReadsEmpty, WritesFull, WantsLine,
         WaitsForChild, Doing, PipeOf

\* A step that ends no sleeper's reason.
LEMMA QuietReasons ==
    ASSUME NEW C, WakeInv(C), Kept(proc, proc'), UNCHANGED <<pipes, input>>
    PROVE  Awaited(proc, pipes, input)'
  <1>1. Awaited(proc, pipes, input)
    BY DEF WakeInv
  <1>2. Awaited(proc', pipes', input')
    BY <1>1, KeptReasons
  <1> QED BY <1>2, AwaitedIs

LEMMA RunsOnReasons ==
    ASSUME NEW C, WakeInv(C), NEW p \in Slot, NEW r, r.state = "RUNNABLE",
           r.parent = proc[p].parent, Set(p, r), UNCHANGED <<pipes, input>>
    PROVE  Awaited(proc, pipes, input)'
  <1>1. proc \in [Slot -> Process(C)]
    BY DEF WakeInv, IInv, ProcsOK
  <1>2. Kept(proc, proc')
    BY <1>1, KeptRuns DEF Set
  <1> QED BY <1>2, QuietReasons

LEMMA WakeTypes ==
    ASSUME NEW C, WakeInv(C)
    PROVE  /\ IInv(C) /\ ProcsOK(C, proc) /\ proc \in [Slot -> Process(C)]
           /\ Awaited(proc, pipes, input)
           /\ \A s \in Slot : proc[s] \in Process(C)
  BY DEF WakeInv, IInv, ProcsOK

\* A call that ends leaves a process that runs.
LEMMA CallReasons ==
    ASSUME NEW C, WakeInv(C), NEW p \in Slot, NEW r, After(C, proc[p], r),
           proc[p].state = "RUNNABLE", Set(p, r), UNCHANGED <<pipes, input>>
    PROVE  Awaited(proc, pipes, input)'
  <1>1. r.state = "RUNNABLE" /\ r.parent = proc[p].parent
    BY DEF After
  <1> QED BY <1>1, RunsOnReasons

LEMMA SleepReasons ==
    ASSUME NEW C, WakeInv(C), NEW p \in Slot, Sleep(p)
    PROVE  Awaited(proc, pipes, input)'
  <1> DEFINE r == [proc[p] EXCEPT !.state = "SLEEPING"]
  <1>1. proc \in [Slot -> Process(C)] /\ proc[p] \in Process(C) /\ proc[p].state = "FALLING"
    BY WakeTypes DEF Sleep
  <1>2. /\ r.state = "SLEEPING" /\ r.parent = proc[p].parent /\ r.chan = proc[p].chan
        /\ r.todo = proc[p].todo
    BY <1>1 DEF Process
  <1>3. proc' = [proc EXCEPT ![p] = r]
    BY DEF Sleep, Set
  <1> HIDE DEF r
  <1>4. \A s \in Slot : proc'[s] = IF s = p THEN r ELSE proc[s]
    BY <1>1, <1>3
  <1>5. Kin(proc[p], r) /\ Rests(proc[p], r)
    BY <1>1, <1>2 DEF Kin, Rests, Asleep, Gone
  <1>6. Kept(proc, proc')
    BY <1>4, <1>5 DEF Kept, Kin, Rests
  <1> QED BY <1>6, QuietReasons DEF Sleep

LEMMA WaitFailsReasons ==
    ASSUME NEW C, Grammar(C), WakeInv(C), NEW p \in Slot, WaitFails(p)
    PROVE  Awaited(proc, pipes, input)'
  <1>1. /\ proc[p].todo # <<>> /\ Label(p) \in {"wait", "wait2"} /\ proc[p].state = "RUNNABLE"
        /\ proc[p] \in Process(C) /\ Well(C, proc[p]) /\ Head(proc[p].todo)[1] = Label(p)
    BY InWaitIs DEF WaitFails, WakeInv
  <1>2. After(C, proc[p], FailsCall(proc[p]))
    BY <1>1, EndsCall
  <1> QED BY <1>1, <1>2, CallReasons DEF WaitFails

LEMMA GivesUpReasons ==
    ASSUME NEW C, WakeInv(C), NEW p \in Slot, ForkFails(p) \/ PipeFails(p)
    PROVE  Awaited(proc, pipes, input)'
  <1> DEFINE r == Does(proc[p], << <<"exit", 0>> >>)
  <1>1. proc[p] \in Process(C) /\ proc[p].state = "RUNNABLE"
    BY WakeTypes DEF ForkFails, PipeFails, At
  <1>2. r.state = "RUNNABLE" /\ r.parent = proc[p].parent
    BY <1>1 DEF Does, Process
  <1> HIDE DEF r
  <1> QED BY <1>2, RunsOnReasons DEF ForkFails, PipeFails, r

LEMMA KilledExitsReasons ==
    ASSUME NEW C, WakeInv(C), NEW p \in Slot, KilledExits(p)
    PROVE  Awaited(proc, pipes, input)'
  <1> DEFINE r == [proc[p] EXCEPT !.todo = << <<"exit", 0>> >>]
  <1>1. proc[p] \in Process(C) /\ proc[p].state = "RUNNABLE"
    BY WakeTypes DEF KilledExits
  <1>2. r.state = "RUNNABLE" /\ r.parent = proc[p].parent
    BY <1>1 DEF Process
  <1> HIDE DEF r
  <1> QED BY <1>2, RunsOnReasons DEF KilledExits, r

LEMMA DupReasons ==
    ASSUME NEW C, Grammar(C), WakeInv(C), NEW p \in Slot, Dup(p)
    PROVE  Awaited(proc, pipes, input)'
  <1> DEFINE f  == proc[p].ofile[Arg(p)]
             fd == Min(FreeFDs(p))
             r0 == Returns(proc[p], fd)
             r  == [r0 EXCEPT !.ofile[fd] = f]
  <1>1. /\ proc[p].todo # <<>> /\ proc[p].state = "RUNNABLE"
        /\ proc[p] \in Process(C) /\ Well(C, proc[p]) /\ Head(proc[p].todo)[1] = "dup"
    BY Running, AtFrame DEF Dup, WakeInv
  <1>2. CASE f = 0 \/ FreeFDs(p) = {}
    <2>1. After(C, proc[p], FailsCall(proc[p]))
      BY <1>1, EndsCall
    <2>2. Set(p, FailsCall(proc[p]))
      BY <1>2 DEF Dup
    <2> QED BY <1>1, <2>1, <2>2, CallReasons DEF Dup
  <1>3. CASE ~ (f = 0 \/ FreeFDs(p) = {})
    <2>1. Set(p, r)
      BY <1>3 DEF Dup
    <2>2. fd \in Nat
      <3>1. FreeFDs(p) \in SUBSET Nat /\ FreeFDs(p) # {}
        BY <1>3, SomeFDs DEF FreeFDs
      <3> QED BY <3>1, LeastIsIn
    <2> HIDE DEF f, fd
    <2>3. After(C, proc[p], r0)
      BY <1>1, <2>2, EndsCall
    <2> HIDE DEF r0
    <2>4. r.state = "RUNNABLE" /\ r.parent = proc[p].parent
      BY <1>1, <2>3 DEF After, Process
    <2> HIDE DEF r
    <2> QED BY <2>1, <2>4, RunsOnReasons DEF Dup
  <1> QED BY <1>2, <1>3

LEMMA FilecloseReasons ==
    ASSUME NEW C, Grammar(C), WakeInv(C), NEW p \in Slot, NEW fd \in FD, NEW rest,
           proc[p].state = "RUNNABLE", UserStack(C, rest), ~ Starts(rest),
           Fileclose(p, fd, rest), UNCHANGED <<pipes, input>>
    PROVE  Awaited(proc, pipes, input)'
  <1> DEFINE f == proc[p].ofile[fd]
             q == [proc[p] EXCEPT !.ofile[fd] = 0, !.todo = rest]
             c == [q EXCEPT !.todo = << <<"pipeclose", ftable[f]>> >> \o @]
  <1>1. proc[p] \in Process(C) /\ proc[p].ofile \in [FD -> 0 .. NFILE]
    BY WakeTypes DEF Process
  <1>2. /\ q \in Process(C) /\ q.todo = rest /\ q.state = "RUNNABLE" /\ q.parent = proc[p].parent
    <2>1. rest \in Seq(UserFrame(C) \cup KernelFrame) /\ 0 \in 0 .. NFILE
      BY SeqMonotonic, ShellAssumption DEF UserStack
    <2> QED BY <1>1, <2>1 DEF Process
  <1>3. Set(p, Runs(q)) \/ Set(p, c)
    BY DEF Fileclose
  <1> HIDE DEF q, f
  <1>4. Runs(q).state = "RUNNABLE" /\ Runs(q).parent = proc[p].parent
    <2>1. Returned(C, q)
      BY <1>2 DEF Returned
    <2>2. \E t \in Seq(UserFrame(C)) : Runs(q) = [q EXCEPT !.todo = t]
      BY <2>1, RunsOn
    <2> QED BY <1>2, <2>2 DEF Process
  <1>5. c.state = "RUNNABLE" /\ c.parent = proc[p].parent
    BY <1>2 DEF Process
  <1> HIDE DEF c
  <1> QED BY <1>3, <1>4, <1>5, RunsOnReasons

LEMMA CloseReasons ==
    ASSUME NEW C, Grammar(C), WakeInv(C), NEW p \in Slot, Close(p)
    PROVE  Awaited(proc, pipes, input)'
  <1>1. /\ proc[p].todo # <<>> /\ proc[p].state = "RUNNABLE"
        /\ proc[p] \in Process(C) /\ Well(C, proc[p]) /\ Head(proc[p].todo)[1] = "close"
        /\ Arg(p) \in FD
    BY Running, AtFrame DEF Close, WakeInv
  <1>2. CASE proc[p].ofile[Arg(p)] = 0
    <2>1. After(C, proc[p], FailsCall(proc[p]))
      BY <1>1, EndsCall
    <2> QED BY <1>1, <1>2, <2>1, CallReasons DEF Close
  <1>3. CASE proc[p].ofile[Arg(p)] # 0
    <2>1. UserStack(C, Tail(proc[p].todo)) /\ ~ Starts(Tail(proc[p].todo))
      BY <1>1, TailIsStack
    <2> QED BY <1>1, <1>3, <2>1, FilecloseReasons DEF Close
  <1> QED BY <1>2, <1>3

LEMMA ExitClosesReasons ==
    ASSUME NEW C, Grammar(C), WakeInv(C), NEW p \in Slot, ExitCloses(p)
    PROVE  Awaited(proc, pipes, input)'
  <1> DEFINE fd == Min(Open(p))
  <1>1. /\ proc[p].todo # <<>> /\ Label(p) = "exit" /\ proc[p].state = "RUNNABLE"
        /\ proc[p] \in Process(C) /\ Well(C, proc[p]) /\ Head(proc[p].todo)[1] = "exit"
        /\ Head(proc[p].todo) = <<Label(p), Arg(p)>>
    BY Running, AtFrame DEF ExitCloses, WakeInv
  <1>2. fd \in FD
    <2>1. Open(p) \in SUBSET Nat /\ Open(p) # {}
      BY SomeFDs DEF ExitCloses, Open
    <2>2. fd \in Open(p)
      BY <2>1, LeastIsIn
    <2> QED BY <2>2 DEF Open
  <1>3. UserStack(C, proc[p].todo)
    <2>1. Head(proc[p].todo) \notin KernelFrame
      BY <1>1 DEF KernelFrame
    <2> QED BY <1>1, <2>1 DEF Well
  <1>4. ~ Starts(proc[p].todo)
    BY <1>1, <1>3, StackTail DEF Starts
  <1>5. Fileclose(p, fd, proc[p].todo)
    BY DEF ExitCloses
  <1> HIDE DEF fd
  <1> QED BY <1>1, <1>2, <1>3, <1>4, <1>5, FilecloseReasons DEF ExitCloses

\* A process that was about to sleep goes on to, killed or not.
LEMMA KillReasons ==
    ASSUME NEW C, Grammar(C), WakeInv(C), NEW p \in Slot, Kill(p)
    PROVE  Awaited(proc, pipes, input)'
  <1> DEFINE found == {s \in Slot : proc[s].pid = Arg(p)}
             k == Min(found)
             after == IF found = {} THEN proc ELSE [proc EXCEPT ![k] = Killed(@)]
             r == IF found = {} THEN FailsCall(after[p]) ELSE Returns(after[p], 0)
  <1>1. /\ proc[p].todo # <<>> /\ proc[p].state = "RUNNABLE" /\ Head(proc[p].todo)[1] = "kill"
    BY Running, AtFrame DEF Kill, WakeInv
  <1>2. ProcsOK(C, proc) /\ proc \in [Slot -> Process(C)]
    BY WakeTypes
  <1>3. /\ Kept(proc, after) /\ ProcsOK(C, after)
        /\ after[p].todo = proc[p].todo /\ after[p].state = "RUNNABLE"
    <2>1. CASE found = {}
      <3>1. after = proc
        BY <2>1
      <3> HIDE DEF after
      <3> QED BY <1>1, <1>2, <3>1 DEF Kept, Kin, Rests
    <2>2. CASE found # {}
      <3>1. k \in Slot
        <4>1. found \in SUBSET Nat /\ found \in SUBSET Slot
          BY DEF Slot
        <4> HIDE DEF found
        <4> QED BY <2>2, <4>1, LeastIsIn
      <3> HIDE DEF found, k
      <3>2. proc[k] \in Process(C) /\ Well(C, proc[k]) /\ (proc[k].state \in Gone => Idle(proc[k]))
        BY <1>2, <3>1 DEF ProcsOK
      <3> DEFINE v == Killed(proc[k])
      <3>3. /\ v \in Process(C) /\ Well(C, v) /\ (v.state \in Gone => Idle(v))
            /\ v.todo = proc[k].todo
        BY <3>2, KilledIs
      <3>4. /\ v.state = IF proc[k].state = "SLEEPING" THEN "RUNNABLE" ELSE proc[k].state
            /\ v.parent = proc[k].parent
            /\ proc[k].state # "SLEEPING" => v.chan = proc[k].chan
        BY <3>2 DEF Killed, Process
      <3>5. after = [proc EXCEPT ![k] = v]
        BY <1>2, <2>2, <3>1
      <3> HIDE DEF v
      <3>6. ProcsOK(C, after)
        BY <1>2, <3>1, <3>3, <3>5, Replaced
      <3>7. \A s \in Slot : after[s] = IF s = k THEN v ELSE proc[s]
        BY <1>2, <3>1, <3>5
      <3> HIDE DEF after
      <3>8. Kin(proc[k], v) /\ (Asleep(v) => Rests(proc[k], v))
        BY <3>3, <3>4 DEF Kin, Rests, Asleep, Gone
      <3>9. Kept(proc, after)
        BY <3>7, <3>8 DEF Kept, Kin, Rests
      <3>10. after[p].todo = proc[p].todo /\ after[p].state = "RUNNABLE"
        BY <1>1, <3>3, <3>4, <3>7
      <3> QED BY <3>6, <3>9, <3>10
    <2> QED BY <2>1, <2>2
  <1>4. proc' = [after EXCEPT ![p] = r]
    <2>1. proc' = [after EXCEPT ![p] = IF found = {} THEN FailsCall(@) ELSE Returns(@, 0)]
      BY DEF Kill
    <2> HIDE DEF found, after
    <2> QED BY <2>1
  <1> HIDE DEF after, found
  <1>5. after[p] \in Process(C) /\ Well(C, after[p]) /\ after \in [Slot -> Process(C)]
    BY <1>3 DEF ProcsOK
  <1>6. r.state = "RUNNABLE" /\ r.parent = after[p].parent
    <2>1. After(C, after[p], FailsCall(after[p])) /\ After(C, after[p], Returns(after[p], 0))
      BY <1>1, <1>3, <1>5, EndsCall
    <2> QED BY <1>3, <2>1 DEF After
  <1> HIDE DEF r
  <1>7. Kept(after, proc')
    BY <1>4, <1>5, <1>6, KeptRuns
  <1>8. Kept(proc, proc')
    BY <1>3, <1>7, KeptKept
  <1> QED BY <1>8, QuietReasons DEF Kill

\* The slot that is freed was the child of no one else, and is nobody's now.
LEMMA WaitReapsReasons ==
    ASSUME NEW C, Grammar(C), WakeInv(C), NEW p \in Slot, WaitReaps(p)
    PROVE  Awaited(proc, pipes, input)'
  <1> DEFINE z == Min(Zombies(p))
             r == Returns(proc[p], proc[z].pid)
             ps == [proc EXCEPT ![p] = r]
  <1>1. /\ proc[p].todo # <<>> /\ Label(p) \in {"wait", "wait2"} /\ proc[p].state = "RUNNABLE"
        /\ proc[p] \in Process(C) /\ Well(C, proc[p]) /\ Head(proc[p].todo)[1] = Label(p)
    BY InWaitIs DEF WaitReaps, WakeInv
  <1>2. z \in Slot /\ proc[z].state = "ZOMBIE" /\ proc[z].parent = p /\ z # p
    <2>1. Zombies(p) \in SUBSET Nat /\ Zombies(p) # {}
      BY DEF WaitReaps, Zombies, Children, Slot
    <2>2. z \in Zombies(p)
      BY <2>1, LeastIsIn
    <2> QED BY <1>1, <2>2 DEF Zombies, Children
  <1>3. proc \in [Slot -> Process(C)] /\ Awaited(proc, pipes, input)
    BY WakeTypes
  <1>4. r.state = "RUNNABLE" /\ r.parent = proc[p].parent
    <2>1. proc[z].pid \in Nat
      BY <1>2, <1>3 DEF Process
    <2>2. After(C, proc[p], r)
      BY <1>1, <2>1, EndsCall
    <2> QED BY <1>1, <2>2 DEF After
  <1>5. proc' = [ps EXCEPT ![z] = Free]
    BY DEF WaitReaps
  <1> HIDE DEF z, r
  <1>6. Kept(proc, ps)
    BY <1>3, <1>4, KeptRuns
  <1>7. Awaited(ps, pipes, input)
    BY <1>3, <1>6, KeptReasons
  <1>8. \A s \in Slot : proc'[s] = IF s = z THEN Free ELSE ps[s]
    BY <1>3, <1>5
  <1>9. Free.state = "UNUSED" /\ Free.parent = 0
    BY DEF Free
  <1>10. ps[z].state = "ZOMBIE" /\ ps[z].parent = p /\ ps[p].state = "RUNNABLE"
    BY <1>2, <1>3, <1>4
  <1>11. FamilyIn(proc')
    <2>1. init \in Slot /\ p # 0
      BY ShellAssumption DEF init, Slot
    <2>2. z # init
      BY <1>7, <1>10, <2>1 DEF Awaited, FamilyIn
    <2> HIDE DEF ps
    <2> QED BY <1>7, <1>8, <1>9, <2>1, <2>2 DEF Awaited, FamilyIn, Slot
  <1>12. \A s \in Slot : Asleep(proc'[s]) => Rests(ps[s], proc'[s]) /\ SameKids(ps, proc', s)
    <2>1. SUFFICES ASSUME NEW s \in Slot, Asleep(proc'[s])
                   PROVE  Rests(ps[s], proc'[s]) /\ SameKids(ps, proc', s)
      OBVIOUS
    <2>2. s # z /\ proc'[s] = ps[s]
      BY <1>8, <1>9, <2>1 DEF Asleep
    <2>3. s # p
      BY <1>10, <2>1, <2>2 DEF Asleep
    <2>4. \A c \in Slot : proc'[c].parent = s <=> ps[c].parent = s
      <3>1. s # 0
        BY DEF Slot
      <3> QED BY <1>8, <1>9, <1>10, <2>3, <3>1
    <2>5. \A c \in Slot : proc'[c].state = "ZOMBIE" => ps[c].state = "ZOMBIE"
      BY <1>8, <1>9
    <2> HIDE DEF ps
    <2> QED BY <2>1, <2>2, <2>4, <2>5, Zenon DEF Rests, SameKids
  <1> HIDE DEF ps
  <1>13. ReasonsIn(proc', pipes, input)
    BY <1>7, <1>12, ReasonsKept DEF Awaited
  <1>14. pipes' = pipes /\ input' = input
    BY DEF WaitReaps
  <1> QED BY <1>11, <1>13, <1>14, AwaitedIs DEF Awaited

LEMMA WaitSleepsReasons ==
    ASSUME NEW C, Grammar(C), WakeInv(C), NEW p \in Slot, WaitSleeps(p)
    PROVE  Awaited(proc, pipes, input)'
  <1> DEFINE f == <<"wait2", 0>>
             t == <<f>> \o Tail(proc[p].todo)
             r == [proc[p] EXCEPT !.todo = t, !.state = "SLEEPING", !.chan = WaitChan(p)]
  <1>1. /\ proc[p].todo # <<>> /\ proc[p].state = "RUNNABLE" /\ proc[p] \in Process(C)
        /\ Label(p) \in {"wait", "wait2"} /\ Head(proc[p].todo)[1] = Label(p) /\ Well(C, proc[p])
    BY InWaitIs DEF WaitSleeps, WakeInv
  <1>2. proc \in [Slot -> Process(C)] /\ Awaited(proc, pipes, input)
    BY WakeTypes
  <1>3. t # <<>> /\ Head(t) = f
    <2>1. f \in KernelFrame
      BY DEF KernelFrame
    <2> HIDE DEF f
    <2> QED BY <1>1, <2>1, Pushed
  <1>4. proc' = [proc EXCEPT ![p] = r]
    BY <1>1 DEF WaitSleeps, Set, Does, Process
  <1>5. f[1] = "wait2"
    OBVIOUS
  <1> HIDE DEF t, f
  <1>6. /\ r.state = "SLEEPING" /\ r.parent = proc[p].parent /\ r.chan = WaitChan(p) /\ r.todo = t
        /\ r.killed = proc[p].killed
    BY <1>1 DEF Process
  <1> HIDE DEF r
  <1>7. \A s \in Slot : proc'[s] = IF s = p THEN r ELSE proc[s]
    BY <1>2, <1>4
  <1>8. \A s \in Slot : Kin(proc[s], proc'[s])
    BY <1>6, <1>7 DEF Kin, Gone
  <1>9. WaitsForChild(proc', p) /\ proc'[p].todo # <<>>
    <2>1. proc'[p] = r
      BY <1>7
    <2>2. ~ proc[p].killed /\ Children(p) # {} /\ Zombies(p) = {}
      BY DEF WaitSleeps
    <2>3. \E c \in Slot : proc[c].parent = p
      BY <2>2 DEF Children
    <2>4. \A c \in Slot : proc[c].parent = p => proc[c].state # "ZOMBIE"
      BY <2>2 DEF Children, Zombies
    <2>5. /\ \E c \in Slot : proc'[c].parent = p
          /\ \A c \in Slot : proc'[c].parent = p => proc'[c].state # "ZOMBIE"
      BY <1>8, <2>3, <2>4 DEF Kin, Gone
    <2>6. Doing(r) = "wait2" /\ r.todo # <<>>
      BY <1>3, <1>5, <1>6 DEF Doing
    <2> QED BY <1>6, <2>1, <2>2, <2>5, <2>6 DEF WaitsForChild
  <1>10. \A s \in Slot : s # p /\ Asleep(proc'[s]) => Rests(proc[s], proc'[s])
    BY <1>7 DEF Rests
  <1>11. \A s \in Slot : SameKids(proc, proc', s)
    BY <1>8, KinKids
  <1>12. ReasonsIn(proc', pipes, input)
    <2>1. \A s \in Slot : Asleep(proc'[s]) =>
             \/ /\ Rests(proc[s], proc'[s]) /\ SameKids(proc, proc', s)
                /\ Why(proc[s], pipes, input) => Why(proc[s], pipes, input)
             \/ proc'[s].todo # <<>> /\ (Why(proc'[s], pipes, input) \/ WaitsForChild(proc', s))
      BY <1>9, <1>10, <1>11, Zenon
    <2> QED BY <1>2, <2>1, ReasonsKept DEF Awaited
  <1>13. FamilyIn(proc')
    BY <1>2, <1>8, KinFamily DEF Awaited
  <1>14. pipes' = pipes /\ input' = input
    BY DEF WaitSleeps
  <1> QED BY <1>12, <1>13, <1>14, AwaitedIs DEF Awaited

\* The slot that is taken was nobody's child.
LEMMA ForkReasons ==
    ASSUME NEW C, Grammar(C), WakeInv(C), NEW p \in Slot, Fork(p)
    PROVE  Awaited(proc, pipes, input)'
  <1> DEFINE s == Min(Unused)
             child == [proc[s] EXCEPT !.state = "RUNNABLE", !.pid = nextpid, !.parent = p,
                                      !.ofile = proc[p].ofile, !.todo = Arg(p)]
             r == Returns(proc[p], nextpid)
             c == Runs(child)
             ps == [proc EXCEPT ![p] = r]
  <1>1. /\ proc[p].todo # <<>> /\ proc[p].state = "RUNNABLE" /\ At(p, "fork")
        /\ proc[p] \in Process(C) /\ Well(C, proc[p]) /\ Head(proc[p].todo)[1] = "fork"
    BY Running, AtFrame DEF Fork, WakeInv
  <1>2. proc \in [Slot -> Process(C)] /\ Awaited(proc, pipes, input) /\ IInv(C) /\ nextpid \in Nat
    BY WakeTypes DEF IInv
  <1>3. s \in Slot /\ proc[s].state = "UNUSED" /\ s # p
    <2>1. Unused \in SUBSET Nat /\ Unused # {}
      BY DEF Fork, Unused, Slot
    <2>2. s \in Unused
      BY <2>1, LeastIsIn
    <2> QED BY <1>1, <2>2 DEF Unused
  <1>4. proc' = [ps EXCEPT ![s] = c]
    BY DEF Fork
  <1> HIDE DEF s
  <1>5. r.state = "RUNNABLE" /\ r.parent = proc[p].parent
    <2>1. After(C, proc[p], r)
      BY <1>1, <1>2, EndsCall
    <2> QED BY <1>1, <2>1 DEF After
  <1> HIDE DEF r
  <1>6. c.state = "RUNNABLE" /\ c.parent = p
    <2>1. c = Runs(ChildOf(proc[s], p, nextpid, proc[p].ofile, Arg(p)))
      BY DEF ChildOf
    <2> HIDE DEF c
    <2> QED BY <1>1, <1>2, <1>3, <2>1, ForkedChild
  <1> HIDE DEF c
  <1>7. Kept(proc, ps)
    BY <1>2, <1>5, KeptRuns
  <1>8. Awaited(ps, pipes, input)
    BY <1>2, <1>7, KeptReasons
  <1>9. \A t \in Slot : proc'[t] = IF t = s THEN c ELSE ps[t]
    BY <1>2, <1>4
  <1>10. ps[s].state = "UNUSED" /\ ps[s].parent = 0
    <2>1. ps[s] = proc[s]
      BY <1>2, <1>3
    <2> QED BY <1>2, <1>3, <2>1 DEF Awaited, FamilyIn
  <1> HIDE DEF ps
  <1>11. FamilyIn(proc')
    <2>1. init \in Slot
      BY ShellAssumption DEF init, Slot
    <2>2. s # init
      BY <1>8, <1>10 DEF Awaited, FamilyIn
    <2> QED BY <1>3, <1>6, <1>8, <1>9, <2>1, <2>2 DEF Awaited, FamilyIn
  <1>12. \A t \in Slot : Asleep(proc'[t]) => Rests(ps[t], proc'[t]) /\ SameKids(ps, proc', t)
    <2>1. SUFFICES ASSUME NEW t \in Slot, Asleep(proc'[t])
                   PROVE  Rests(ps[t], proc'[t]) /\ SameKids(ps, proc', t)
      OBVIOUS
    <2>2. t # s /\ proc'[t] = ps[t]
      BY <1>6, <1>9, <2>1 DEF Asleep
    <2>3. t # 0
      BY DEF Slot
    <2>4. \A k \in Slot : ps[k].parent = t => proc'[k].parent = t
      BY <1>9, <1>10, <2>3
    <2>5. \A k \in Slot : proc'[k].state = "ZOMBIE" => proc'[k] = ps[k]
      BY <1>6, <1>9
    <2> QED BY <2>1, <2>2, <2>4, <2>5, Zenon DEF Rests, SameKids
  <1>13. ReasonsIn(proc', pipes, input)
    BY <1>8, <1>12, ReasonsKept DEF Awaited
  <1>14. pipes' = pipes /\ input' = input
    BY DEF Fork
  <1> QED BY <1>11, <1>13, <1>14, AwaitedIs DEF Awaited

LEMMA ConsolewriteReasons ==
    ASSUME NEW C, Grammar(C), WakeInv(C), NEW p \in Slot, Consolewrite(p)
    PROVE  Awaited(proc, pipes, input)'
  <1>1. IInv(C) /\ Calls(p, "consolewrite") /\ With(p) \in Nat /\ proc[p].state = "RUNNABLE"
    BY WakeTypes, CalledIs DEF Consolewrite
  <1>2. After(C, proc[p], Returns(proc[p], With(p)))
    BY <1>1, CallerAfter
  <1> QED BY <1>1, <1>2, CallReasons DEF Consolewrite

\* What exit() leaves of the others: its children are init's, and its parent and
\* init are not asleep in wait() when they have something to find there.
LEMMA ExitLeaves ==
    ASSUME NEW C, WakeInv(C), NEW p \in Slot, Exit(p), NEW s \in Slot
    PROVE  /\ proc'[s].parent = IF proc[s].parent = p THEN init ELSE proc[s].parent
           /\ s # p => \A st \in Gone : proc'[s].state = st => proc[s].state = st
           /\ proc'[p].state = "ZOMBIE"
           /\ Asleep(proc'[s]) =>
                 /\ s # p /\ Rests(proc[s], proc'[s])
                 /\ proc'[s].state = "SLEEPING" /\ proc'[s].chan = WaitChan(s) =>
                       s # proc[p].parent /\ (Zombies(p) # {} => s # init)
  <1> DEFINE A(t) == IF proc[t].parent = p THEN [proc[t] EXCEPT !.parent = init] ELSE proc[t]
             adopted == [t \in Slot |-> A(t)]
             r == [adopted[p] EXCEPT !.state = "ZOMBIE", !.todo = <<>>]
             gone == [adopted EXCEPT ![p] = r]
             told == Woken(gone, WaitChan(proc[p].parent))
             again == Woken(told, WaitChan(init))
  <1>1. proc \in [Slot -> Process(C)]
    BY WakeTypes
  <1>2. ASSUME NEW t \in Slot
        PROVE  /\ A(t) \in Process(C) /\ A(t).todo = proc[t].todo /\ A(t).chan = proc[t].chan
               /\ A(t).state = proc[t].state /\ A(t).killed = proc[t].killed
               /\ A(t).parent = IF proc[t].parent = p THEN init ELSE proc[t].parent
    <2>1. init \in 0 .. NPROC
      BY ShellAssumption DEF init
    <2> QED BY <1>1, <2>1 DEF Process
  <1> HIDE DEF A
  <1>3. adopted \in [Slot -> Process(C)] /\ \A t \in Slot : adopted[t] = A(t)
    BY <1>2
  <1>4. proc' = IF Zombies(p) # {} THEN again ELSE told
    BY DEF Exit, A
  <1>5. r \in Process(C) /\ r.state = "ZOMBIE" /\ r.parent = A(p).parent
    <2>1. <<>> \in Seq(UserFrame(C) \cup KernelFrame) /\ "ZOMBIE" \in States
      BY DEF States
    <2>2. adopted[p] \in Process(C) /\ adopted[p] = A(p)
      BY <1>3
    <2> HIDE DEF adopted
    <2> QED BY <2>1, <2>2 DEF Process
  <1> HIDE DEF adopted, r
  <1>6. gone \in [Slot -> Process(C)] /\ \A t \in Slot : gone[t] = IF t = p THEN r ELSE A(t)
    BY <1>3, <1>5
  <1> HIDE DEF gone
  <1>7. told \in [Slot -> Process(C)]
    BY <1>6, WokenTyped
  <1>8. /\ told[s].parent = gone[s].parent
        /\ \A st \in Gone : told[s].state = st <=> gone[s].state = st
        /\ \A st \in Gone : told[p].state = st <=> gone[p].state = st
        /\ Asleep(told[s]) => told[s] = gone[s]
                              /\ ~ (told[s].state = "SLEEPING" /\ told[s].chan = WaitChan(proc[p].parent))
    BY <1>6, WokenLeaves
  <1> HIDE DEF told
  <1>9. /\ again[s].parent = told[s].parent
        /\ \A st \in Gone : again[s].state = st <=> told[s].state = st
        /\ \A st \in Gone : again[p].state = st <=> told[p].state = st
        /\ Asleep(again[s]) => again[s] = told[s]
                               /\ ~ (again[s].state = "SLEEPING" /\ again[s].chan = WaitChan(init))
    BY <1>7, WokenLeaves
  <1> HIDE DEF again
  <1>10. /\ proc'[s].parent = gone[s].parent
         /\ \A st \in Gone : proc'[s].state = st <=> gone[s].state = st
         /\ \A st \in Gone : proc'[p].state = st <=> gone[p].state = st
         /\ Asleep(proc'[s]) =>
               /\ proc'[s] = gone[s]
               /\ proc'[s].state = "SLEEPING" =>
                     /\ proc'[s].chan # WaitChan(proc[p].parent)
                     /\ Zombies(p) # {} => proc'[s].chan # WaitChan(init)
    BY <1>4, <1>8, <1>9
  <1>11. /\ gone[s].parent = A(s).parent /\ gone[p].state = "ZOMBIE"
         /\ s # p => gone[s] = A(s)
    BY <1>5, <1>6
  <1>12. Asleep(proc'[s]) => s # p
    BY <1>10, <1>11 DEF Asleep
  <1> QED BY <1>2, <1>10, <1>11, <1>12 DEF Rests, Asleep, Gone

LEMMA ExitReasons ==
    ASSUME NEW C, WakeInv(C), NEW p \in Slot, Exit(p)
    PROVE  Awaited(proc, pipes, input)'
  <1>1. Awaited(proc, pipes, input) /\ pipes' = pipes /\ input' = input
    BY WakeTypes DEF Exit
  <1>2. init \in Slot /\ p # 0 /\ \A s \in Slot : s # 0
    BY ShellAssumption DEF init, Slot
  <1>3. FamilyIn(proc')
    <2>1. \A s \in Slot : proc'[s].parent = IF proc[s].parent = p THEN init ELSE proc[s].parent
      BY ExitLeaves
    <2>2. \A s \in Slot : proc'[s].state = "UNUSED" => proc[s].state = "UNUSED" /\ s # p
      BY ExitLeaves DEF Gone
    <2> QED BY <1>1, <1>2, <2>1, <2>2 DEF Awaited, FamilyIn
  <1>4. ASSUME NEW s \in Slot, Asleep(proc'[s])
        PROVE  proc'[s].todo # <<>> /\ (Why(proc'[s], pipes, input) \/ WaitsForChild(proc', s))
    <2>1. /\ s # p /\ Rests(proc[s], proc'[s])
          /\ proc'[s].state = "SLEEPING" /\ proc'[s].chan = WaitChan(s) =>
                s # proc[p].parent /\ (Zombies(p) # {} => s # init)
      BY <1>4, ExitLeaves
    <2>2. proc[s].todo # <<>> /\ (Why(proc[s], pipes, input) \/ WaitsForChild(proc, s))
      BY <1>1, <2>1 DEF Awaited, ReasonsIn, Rests
    <2>3. CASE Why(proc[s], pipes, input)
      BY <2>1, <2>2, <2>3, WhyIs DEF Rests
    <2>4. CASE WaitsForChild(proc, s)
      <3>1. /\ proc'[s].state = "SLEEPING" /\ ~ proc'[s].killed /\ Doing(proc'[s]) = "wait2"
            /\ proc'[s].chan = WaitChan(s)
        BY <2>1, <2>4 DEF WaitsForChild, Rests, Doing
      <3>2. s # proc[p].parent /\ (Zombies(p) # {} => s # init)
        BY <2>1, <3>1
      <3>3. \E c \in Slot : proc'[c].parent = s
        <4>1. PICK c \in Slot : proc[c].parent = s
          BY <2>4 DEF WaitsForChild
        <4>2. proc'[c].parent = s
          BY <2>1, <4>1, ExitLeaves
        <4> QED BY <4>2
      <3>4. ASSUME NEW c \in Slot, proc'[c].parent = s, proc'[c].state = "ZOMBIE"
            PROVE  FALSE
        <4>1. proc'[c].parent = IF proc[c].parent = p THEN init ELSE proc[c].parent
          BY ExitLeaves
        <4>2. c # p
          <5>1. proc[p].parent # p
            BY <1>1 DEF Awaited, FamilyIn
          <5> QED BY <3>2, <3>4, <4>1, <5>1
        <4>3. proc[c].state = "ZOMBIE"
          BY <3>4, <4>2, ExitLeaves DEF Gone
        <4>4. CASE proc[c].parent = p
          BY <3>2, <3>4, <4>1, <4>3, <4>4 DEF Zombies, Children
        <4>5. CASE proc[c].parent # p
          BY <2>4, <3>4, <4>1, <4>3, <4>5 DEF WaitsForChild
        <4> QED BY <4>4, <4>5
      <3> QED BY <2>1, <2>2, <3>1, <3>3, <3>4 DEF WaitsForChild, Rests
    <2> QED BY <2>2, <2>3, <2>4
  <1>5. ReasonsIn(proc', pipes, input)
    BY <1>4 DEF ReasonsIn
  <1> QED BY <1>1, <1>3, <1>5, AwaitedIs DEF Awaited

LEMMA PipeChansDiffer ==
    ASSUME NEW i, NEW j
    PROVE  /\ ReadChan(i) # WriteChan(j) /\ ReadChan(i) # ConsChan /\ WriteChan(i) # ConsChan
           /\ LockOf(ReadChan(i)) = PipeLock(i) /\ LockOf(WriteChan(i)) = PipeLock(i)
           /\ LockOf(ConsChan) = ConsLock
           /\ ReadChan(i) = ReadChan(j) => i = j
           /\ WriteChan(i) = WriteChan(j) => i = j
  BY DEF ReadChan, WriteChan, ConsChan, LockOf, PipeLock, ConsLock

\* Whoever sleeps at a pipe sleeps at one that is there.
LEMMA SleeperPipe ==
    ASSUME NEW C, IInv(C), NEW s \in Slot, proc[s].todo # <<>>,
           Doing(proc[s]) \in {"piperead", "pipewrite"}
    PROVE  PipeOf(proc[s]) \in PipeId /\ pipes[PipeOf(proc[s])] # FREE
  <1>1. Label(s) = Doing(proc[s]) /\ PipeOf(proc[s]) = Arg(s).pipe
    BY DEF Label, Doing, PipeOf, Arg
  <1>2. Arg(s).pipe \in PipeId
    BY <1>1, AtFrame
  <1>3. PipesInUse
    BY HeldIsThere
  <1> QED BY <1>1, <1>2, <1>3 DEF PipesInUse

\* A pipe changes: who sleeps at it needs a reason there, the others keep theirs.
LEMMA PipeWhy ==
    ASSUME NEW C, WakeInv(C), NEW s \in Slot, Asleep(proc[s]), Why(proc[s], pipes, input),
           NEW i \in PipeId, NEW new, pipes' = [pipes EXCEPT ![i] = new], input' = input,
           ReadsEmpty(proc[s], pipes) /\ PipeOf(proc[s]) = i => IsEmpty(new.ring) /\ new.writeopen,
           WritesFull(proc[s], pipes) /\ PipeOf(proc[s]) = i => IsFull(new.ring) /\ new.readopen
    PROVE  Why(proc[s], pipes', input')
  <1>1. IInv(C) /\ Awaited(proc, pipes, input) /\ pipes \in [PipeId -> {FREE} \cup OpenPipe]
    BY WakeTypes DEF IInv, FilesOK
  <1>2. proc[s].todo # <<>>
    BY <1>1 DEF Awaited, ReasonsIn
  <1>3. \A j \in PipeId : pipes'[j] = IF j = i THEN new ELSE pipes[j]
    BY <1>1
  <1>4. CASE ReadsEmpty(proc[s], pipes)
    <2>1. PipeOf(proc[s]) \in PipeId
      BY <1>1, <1>2, <1>4, SleeperPipe DEF ReadsEmpty
    <2>2. ReadsEmpty(proc[s], pipes')
      BY <1>3, <1>4, <2>1 DEF ReadsEmpty
    <2> QED BY <2>2 DEF Why
  <1>5. CASE WritesFull(proc[s], pipes)
    <2>1. PipeOf(proc[s]) \in PipeId
      BY <1>1, <1>2, <1>5, SleeperPipe DEF WritesFull
    <2>2. WritesFull(proc[s], pipes')
      BY <1>3, <1>5, <2>1 DEF WritesFull
    <2> QED BY <2>2 DEF Why
  <1>6. CASE WantsLine(proc[s], input)
    BY <1>6 DEF Why
  <1> QED BY <1>4, <1>5, <1>6 DEF Why

\* Nobody but the caller can be about to sleep: wakeup() finds all who wait.
LEMMA NoneLeft ==
    ASSUME NEW C, NEW p, NEW chan, IsFree(LockOf(chan)), NEW ps \in [Slot -> Process(C)],
           \A s \in Slot : s # p => ps[s] = proc[s],
           NEW s \in Slot, s # p, Asleep(Woken(ps, chan)[s])
    PROVE  Woken(ps, chan)[s] = proc[s] /\ Asleep(proc[s]) /\ proc[s].chan # chan
  <1>1. Woken(ps, chan)[s] = ps[s] /\ ~ (ps[s].state = "SLEEPING" /\ ps[s].chan = chan)
    BY WokenLeaves
  <1>2. proc[s].state = "FALLING" => LockOf(proc[s].chan) # LockOf(chan)
    BY DEF IsFree
  <1> QED BY <1>1, <1>2 DEF Asleep

\* The caller goes to sleep, and has found its reason.
LEMMA FallsReasons ==
    ASSUME NEW C, WakeInv(C), NEW p \in Slot, \A s \in Slot : Kin(proc[s], proc'[s]),
           proc'[p].todo # <<>>, Why(proc'[p], pipes', input'),
           \A s \in Slot : s # p /\ Asleep(proc'[s]) =>
               Rests(proc[s], proc'[s]) /\ (Why(proc[s], pipes, input) => Why(proc[s], pipes', input'))
    PROVE  Awaited(proc, pipes, input)'
  <1>1. Awaited(proc, pipes, input)
    BY WakeTypes
  <1>2. \A s \in Slot : SameKids(proc, proc', s)
    BY KinKids
  <1>3. \A s \in Slot : Asleep(proc'[s]) =>
           \/ /\ Rests(proc[s], proc'[s]) /\ SameKids(proc, proc', s)
              /\ Why(proc[s], pipes, input) => Why(proc[s], pipes', input')
           \/ proc'[s].todo # <<>> /\ (Why(proc'[s], pipes', input') \/ WaitsForChild(proc', s))
    BY <1>2, Zenon
  <1>4. ReasonsIn(proc', pipes', input')
    BY <1>1, <1>3, ReasonsKept DEF Awaited
  <1>5. FamilyIn(proc')
    BY <1>1, KinFamily DEF Awaited
  <1> QED BY <1>4, <1>5, AwaitedIs DEF Awaited

\* The caller runs on.
LEMMA RunsReasons ==
    ASSUME NEW C, WakeInv(C), NEW p \in Slot, Kept(proc, proc'), ~ Asleep(proc'[p]),
           \A s \in Slot : s # p /\ Asleep(proc'[s]) /\ Asleep(proc[s]) /\ Why(proc[s], pipes, input) =>
               Why(proc[s], pipes', input')
    PROVE  Awaited(proc, pipes, input)'
  <1>1. Awaited(proc, pipes, input)
    BY WakeTypes
  <1>2. \A s \in Slot : Asleep(proc'[s]) => s # p /\ Asleep(proc[s])
    BY DEF Kept, Rests
  <1>3. Awaited(proc', pipes', input')
    BY <1>1, <1>2, KeptReasons
  <1> QED BY <1>3, AwaitedIs

\* No one sleeps at the pipe that is made.
LEMMA MakePipeReasons ==
    ASSUME NEW C, Grammar(C), WakeInv(C), NEW p \in Slot, MakePipe(p)
    PROVE  Awaited(proc, pipes, input)'
  <1> DEFINE i == Min(FreePipes)
             new == [open |-> TRUE, ring |-> NewRing, readopen |-> TRUE, writeopen |-> TRUE]
             rf == Min(FreeFiles)    wf == Min(FreeFiles \ {rf})
             d == Min(FreeFDs(p))    e == Min(FreeFDs(p) \ {d})
             r0 == Makes(proc[p], <<d, e>>)
             r1 == [r0 EXCEPT !.ofile[d] = rf]
             r2 == [r1 EXCEPT !.ofile[e] = wf]
  <1>1. /\ proc[p].todo # <<>> /\ proc[p].state = "RUNNABLE" /\ IInv(C)
        /\ proc \in [Slot -> Process(C)] /\ proc[p] \in Process(C) /\ Well(C, proc[p])
    BY WakeTypes, Running DEF MakePipe, IInv, ProcsOK
  <1>2. CanPipe(p)
    BY DEF MakePipe
  <1>3. i \in PipeId /\ pipes[i] = FREE
    <2>1. FreePipes \in SUBSET Nat /\ FreePipes # {}
      BY <1>2 DEF CanPipe, FreePipes, PipeId
    <2>2. i \in FreePipes
      BY <2>1, LeastIsIn
    <2> QED BY <2>2 DEF FreePipes
  <1>4. d \in FD /\ e \in FD
    <2>1. FreeFDs(p) \in SUBSET Nat /\ IsFiniteSet(FreeFDs(p)) /\ Cardinality(FreeFDs(p)) > 1
      BY <1>2, SomeFDs, TablesAreFinite, FS_Subset DEF CanPipe, FreeFDs
    <2>2. d \in FreeFDs(p) /\ e \in FreeFDs(p)
      BY <2>1, TwoLeast
    <2> QED BY <2>2 DEF FreeFDs
  <1>5. pipes' = [pipes EXCEPT ![i] = new] /\ Set(p, r2) /\ input' = input
    BY DEF MakePipe
  <1> HIDE DEF i, new, d, e, rf, wf
  <1>6. After(C, proc[p], r0)
    BY <1>1, <1>4, EndsPipe
  <1> HIDE DEF r0
  <1>7. r2.state = "RUNNABLE" /\ r2.parent = proc[p].parent
    BY <1>1, <1>6 DEF After, Process
  <1> HIDE DEF r1, r2
  <1>8. Kept(proc, proc')
    BY <1>1, <1>5, <1>7, KeptRuns DEF Set
  <1>9. ~ Asleep(proc'[p])
    BY <1>1, <1>5, <1>7 DEF Set, Asleep
  <1>10. ASSUME NEW s \in Slot, Asleep(proc[s]), Why(proc[s], pipes, input)
         PROVE  Why(proc[s], pipes', input')
    <2>1. proc[s].todo # <<>>
      BY <1>10, WakeTypes DEF Awaited, ReasonsIn
    <2>2. Doing(proc[s]) \in {"piperead", "pipewrite"} => PipeOf(proc[s]) # i
      BY <1>1, <1>3, <2>1, SleeperPipe
    <2>3. /\ ~ (ReadsEmpty(proc[s], pipes) /\ PipeOf(proc[s]) = i)
          /\ ~ (WritesFull(proc[s], pipes) /\ PipeOf(proc[s]) = i)
      BY <2>2 DEF ReadsEmpty, WritesFull
    <2> QED BY <1>3, <1>5, <1>10, <2>3, PipeWhy
  <1> QED BY <1>8, <1>9, <1>10, RunsReasons

\* Closing an end leaves asleep who waits at the other pipes, or at the same one
\* for what the other end is still open for.
LEMMA PipecloseReasons ==
    ASSUME NEW C, Grammar(C), WakeInv(C), NEW p \in Slot, Pipeclose(p)
    PROVE  Awaited(proc, pipes, input)'
  <1> DEFINE i == Arg(p).pipe
             w == Arg(p).writable
             closed == IF w THEN [pipes[i] EXCEPT !.writeopen = FALSE]
                       ELSE [pipes[i] EXCEPT !.readopen = FALSE]
             new == IF closed.readopen \/ closed.writeopen THEN closed ELSE FREE
             r == Returns(proc[p], 0)
             ps == [proc EXCEPT ![p] = r]
             chan == IF w THEN ReadChan(i) ELSE WriteChan(i)
  <1>1. /\ proc[p].todo # <<>> /\ Label(p) = "pipeclose" /\ proc[p].state = "RUNNABLE"
        /\ proc[p] \in Process(C) /\ Well(C, proc[p]) /\ Head(proc[p].todo)[1] = "pipeclose"
        /\ Arg(p) \in PipeFile /\ Arg(p) = Head(proc[p].todo)[2] /\ IInv(C)
        /\ proc \in [Slot -> Process(C)]
    BY WakeTypes, Running, AtFrame DEF Pipeclose
  <1>2. i \in PipeId /\ w \in BOOLEAN
    BY <1>1 DEF PipeFile
  <1>3. pipes[i] \in OpenPipe
    <2>1. Closes(proc[p], i, w)
      BY <1>1 DEF Closes
    <2>2. OpenOK(proc, ftable, pipes) /\ pipes \in [PipeId -> {FREE} \cup OpenPipe]
      BY <1>1, EndsAreCountedIs DEF IInv, FilesOK
    <2>3. OpenEnd(pipes, i, w)
      BY <1>2, <2>1, <2>2, ClosingIsOpen
    <2> QED BY <1>2, <2>2, <2>3 DEF OpenEnd
  <1>4. r.state = "RUNNABLE" /\ r.parent = proc[p].parent /\ r \in Process(C)
    <2>1. After(C, proc[p], r)
      BY <1>1, EndsCall
    <2> QED BY <1>1, <2>1 DEF After
  <1>5. /\ pipes' = [pipes EXCEPT ![i] = new] /\ input' = input
        /\ proc' = Woken(ps, chan) /\ IsFree(PipeLock(i))
    BY DEF Pipeclose
  <1>6. IsFree(LockOf(chan))
    BY <1>5, PipeChansDiffer
  <1> HIDE DEF i, w, r
  <1>7. /\ closed.ring = pipes[i].ring
        /\ closed.writeopen = IF w THEN FALSE ELSE pipes[i].writeopen
        /\ closed.readopen = IF w THEN pipes[i].readopen ELSE FALSE
    BY <1>2, <1>3 DEF OpenPipe
  <1> HIDE DEF closed
  <1>8. Kept(proc, ps) /\ ps \in [Slot -> Process(C)] /\ ps[p] = r
        /\ \A s \in Slot : s # p => ps[s] = proc[s]
    BY <1>1, <1>4, KeptRuns
  <1> HIDE DEF ps, chan
  <1>9. Kept(proc, proc')
    BY <1>5, <1>8, KeptWoken, KeptKept
  <1>10. ~ Asleep(proc'[p])
    BY <1>4, <1>5, <1>8, WokenLeaves DEF Asleep
  <1>11. ASSUME NEW s \in Slot, s # p, Asleep(proc'[s]), Asleep(proc[s]), Why(proc[s], pipes, input)
         PROVE  Why(proc[s], pipes', input')
    <2>1. proc[s].chan # chan
      BY <1>5, <1>6, <1>8, <1>11, NoneLeft
    <2>2. ReadsEmpty(proc[s], pipes) /\ PipeOf(proc[s]) = i => IsEmpty(new.ring) /\ new.writeopen
      <3>1. SUFFICES ASSUME ReadsEmpty(proc[s], pipes), PipeOf(proc[s]) = i
                     PROVE  IsEmpty(new.ring) /\ new.writeopen
        OBVIOUS
      <3>2. proc[s].chan = ReadChan(i) /\ IsEmpty(pipes[i].ring) /\ pipes[i].writeopen
        BY <3>1 DEF ReadsEmpty
      <3>3. ~ w
        BY <2>1, <3>2 DEF chan
      <3> QED BY <1>7, <3>2, <3>3
    <2>3. WritesFull(proc[s], pipes) /\ PipeOf(proc[s]) = i => IsFull(new.ring) /\ new.readopen
      <3>1. SUFFICES ASSUME WritesFull(proc[s], pipes), PipeOf(proc[s]) = i
                     PROVE  IsFull(new.ring) /\ new.readopen
        OBVIOUS
      <3>2. proc[s].chan = WriteChan(i) /\ IsFull(pipes[i].ring) /\ pipes[i].readopen
        BY <3>1 DEF WritesFull
      <3>3. w
        BY <2>1, <3>2 DEF chan
      <3> QED BY <1>7, <3>2, <3>3
    <2> HIDE DEF new
    <2> QED BY <1>2, <1>5, <1>11, <2>2, <2>3, PipeWhy
  <1> QED BY <1>9, <1>10, <1>11, RunsReasons

LEMMA PipereadWaitsReasons ==
    ASSUME NEW C, Grammar(C), WakeInv(C), NEW p \in Slot, PipereadWaits(p)
    PROVE  Awaited(proc, pipes, input)'
  <1>1. /\ IInv(C) /\ Calls(p, "piperead") /\ proc[p].state = "RUNNABLE" /\ proc[p].todo # <<>>
        /\ Called(p) = <<"piperead", With(p)>> /\ With(p) \in [pipe : PipeId, n : Count]
        /\ Head(proc[p].todo)[1] \notin {"pipe", "exit", "pipeclose"}
    BY WakeTypes, CalledIs DEF PipereadWaits
  <1> DEFINE i == With(p).pipe
             f == <<"piperead", With(p)>>
             t == <<f>> \o Tail(proc[p].todo)
             r == Falls(proc[p], <<f>>, ReadChan(i))
  <1>2. proc \in [Slot -> Process(C)] /\ proc[p] \in Process(C) /\ Well(C, proc[p])
    BY <1>1, WakeTypes DEF ProcsOK
  <1>3. CASE proc[p].killed
    <2>1. After(C, proc[p], FailsCall(proc[p]))
      BY <1>1, CallerAfter
    <2>2. Set(p, FailsCall(proc[p]))
      BY <1>3 DEF PipereadWaits
    <2> QED BY <1>1, <2>1, <2>2, CallReasons DEF PipereadWaits
  <1>4. CASE ~ proc[p].killed
    <2>1. proc' = [proc EXCEPT ![p] = r] /\ pipes' = pipes /\ input' = input
      BY <1>1, <1>4 DEF PipereadWaits, Set
    <2>2. IsEmpty(pipes[i].ring) /\ pipes[i].writeopen
      BY DEF PipereadWaits
    <2>3. f \in KernelFrame /\ f[1] = "piperead" /\ f[2].pipe = i
      BY <1>1 DEF KernelFrame
    <2> HIDE DEF f, i
    <2>4. t # <<>> /\ Head(t) = f
      BY <1>1, <1>2, <2>3, Pushed
    <2>5. r = [[proc[p] EXCEPT !.todo = t] EXCEPT !.state = "FALLING", !.chan = ReadChan(i)]
      BY DEF Falls, Does
    <2> HIDE DEF t
    <2>6. r.todo = t /\ r.state = "FALLING" /\ r.chan = ReadChan(i) /\ r.parent = proc[p].parent
      BY <1>2, <2>5 DEF Process
    <2> HIDE DEF r
    <2>7. \A s \in Slot : proc'[s] = IF s = p THEN r ELSE proc[s]
      BY <1>2, <2>1
    <2>8. \A s \in Slot : Kin(proc[s], proc'[s])
      BY <2>6, <2>7 DEF Kin, Gone
    <2>9. proc'[p].todo # <<>> /\ Why(proc'[p], pipes', input')
      BY <2>1, <2>2, <2>3, <2>4, <2>6, <2>7 DEF Why, ReadsEmpty, Doing, PipeOf
    <2>10. \A s \in Slot : s # p /\ Asleep(proc'[s]) =>
              Rests(proc[s], proc'[s]) /\ (Why(proc[s], pipes, input) => Why(proc[s], pipes', input'))
      BY <2>1, <2>7 DEF Rests
    <2> QED BY <2>8, <2>9, <2>10, FallsReasons
  <1> QED BY <1>3, <1>4

\* No one who reads is asleep at a pipe with something in it, and no one who
\* writes is left so.
LEMMA PipereadReasons ==
    ASSUME NEW C, Grammar(C), WakeInv(C), NEW p \in Slot, Piperead(p)
    PROVE  Awaited(proc, pipes, input)'
  <1> DEFINE i == With(p).pipe
             ring == pipes[i].ring
             n == Min({Used(ring), With(p).n})
             bs == SubSeq(Bytes(ring), 1, n)
             new == [pipes[i] EXCEPT !.ring = DropBytes(ring, n)]
             r == Reads(proc[p], bs)
             ps == [proc EXCEPT ![p] = r]
  <1>1. /\ IInv(C) /\ Calls(p, "piperead") /\ proc[p].state = "RUNNABLE"
        /\ With(p) \in [pipe : PipeId, n : Count] /\ proc \in [Slot -> Process(C)]
    BY WakeTypes, CalledIs DEF Piperead
  <1>2. i \in PipeId /\ pipes[i] \in OpenPipe
    BY <1>1, PipeIsThere
  <1>3. /\ pipes' = [pipes EXCEPT ![i] = new] /\ input' = input /\ proc' = Woken(ps, WriteChan(i))
        /\ IsFree(PipeLock(i)) /\ ~ (IsEmpty(ring) /\ pipes[i].writeopen)
    BY DEF Piperead
  <1>4. bs \in Piece
    <2>1. Valid(ring)
      BY <1>1, <1>2, OpenIsNotFree DEF IInv, PipesAreFifo
    <2>2. With(p).n \in Nat /\ With(p).n <= BUFSIZE
      BY <1>1, ShellAssumption DEF Count
    <2> HIDE DEF i, ring
    <2>3. Used(ring) \in Nat
      BY <2>1, UsedIsDistance, PipeAssumption
    <2>4. n \in 0 .. Used(ring) /\ n <= BUFSIZE
      BY <2>2, <2>3, LesserOfTwo, ShellAssumption
    <2> HIDE DEF n
    <2>5. Bytes(ring) \in Seq(Byte) /\ Len(Bytes(ring)) = Used(ring)
      BY <2>1, BytesFacts
    <2>6. bs \in Seq(Byte) /\ Len(bs) = n
      BY <2>3, <2>4, <2>5
    <2> QED BY <2>4, <2>6 DEF Piece
  <1> HIDE DEF bs, n
  <1>5. r.state = "RUNNABLE" /\ r.parent = proc[p].parent /\ r \in Process(C)
    <2>1. After(C, proc[p], r)
      BY <1>1, <1>4, CallerAfter
    <2> QED BY <1>1, <2>1 DEF After
  <1>6. IsFree(LockOf(WriteChan(i)))
    BY <1>3, PipeChansDiffer
  <1> HIDE DEF i, r, new
  <1>7. Kept(proc, ps) /\ ps \in [Slot -> Process(C)] /\ ps[p] = r
        /\ \A s \in Slot : s # p => ps[s] = proc[s]
    BY <1>1, <1>5, KeptRuns
  <1> HIDE DEF ps
  <1>8. Kept(proc, proc')
    BY <1>3, <1>7, KeptWoken, KeptKept
  <1>9. ~ Asleep(proc'[p])
    BY <1>3, <1>5, <1>7, WokenLeaves DEF Asleep
  <1>10. ASSUME NEW s \in Slot, s # p, Asleep(proc'[s]), Asleep(proc[s]), Why(proc[s], pipes, input)
         PROVE  Why(proc[s], pipes', input')
    <2>1. proc[s].chan # WriteChan(i)
      BY <1>3, <1>6, <1>7, <1>10, NoneLeft
    <2>2. /\ ~ (ReadsEmpty(proc[s], pipes) /\ PipeOf(proc[s]) = i)
          /\ ~ (WritesFull(proc[s], pipes) /\ PipeOf(proc[s]) = i)
      BY <1>3, <2>1 DEF ReadsEmpty, WritesFull
    <2> QED BY <1>2, <1>3, <1>10, <2>2, PipeWhy
  <1> QED BY <1>8, <1>9, <1>10, RunsReasons

LEMMA LessIsOne ==
    ASSUME NEW a \in Nat, NEW b \in Nat
    PROVE  Min({a, b}) = a \/ Min({a, b}) = b
  <1>1. {a, b} \in SUBSET Nat /\ {a, b} # {}
    OBVIOUS
  <1>2. Min({a, b}) \in {a, b}
    BY <1>1, LeastIsIn
  <1> QED BY <1>2

\* What pipewrite() does to the ring: it writes all there is, or fills the ring;
\* a full ring stays full, and all of a piece fits into an empty one.
LEMMA Fills ==
    ASSUME NEW ring, Valid(ring), NEW bs \in Seq(Byte),
           NEW room \in 0 .. Len(bs), room <= PIPESIZE - Used(ring),
           room = Len(bs) \/ room = PIPESIZE - Used(ring)
    PROVE  LET full == PutBytes(ring, SubSeq(bs, 1, room))
               left == SubSeq(bs, room + 1, Len(bs))
           IN  /\ left \in Seq(Byte) /\ Len(left) <= Len(bs)
               /\ IsFull(ring) => IsFull(full)
               /\ left # <<>> => IsFull(full)
               /\ IsEmpty(ring) /\ Len(bs) <= PIPESIZE => left = <<>>
  <1> DEFINE now == SubSeq(bs, 1, room)
             full == PutBytes(ring, now)
             left == SubSeq(bs, room + 1, Len(bs))
             space == PIPESIZE - Used(ring)
  <1>1. /\ Used(ring) \in Nat /\ space \in Nat /\ PIPESIZE \in Nat
        /\ IsEmpty(ring) <=> Used(ring) = 0
        /\ IsFull(ring) <=> Used(ring) = PIPESIZE
    BY UsedIsDistance, PipeAssumption
  <1>2. room \in Nat /\ room <= Len(bs)
    OBVIOUS
  <1>3. now \in Seq(Byte) /\ Len(now) = room /\ left \in Seq(Byte) /\ Len(left) = Len(bs) - room
    <2> HIDE DEF space
    <2>1. Len(bs) \in Nat
      OBVIOUS
    <2>2. now \in Seq(Byte) /\ Len(now) = room
      BY <1>2, <2>1
    <2>3. left \in Seq(Byte) /\ Len(left) = Len(bs) - room
      BY <1>2, <2>1
    <2> QED BY <2>2, <2>3
  <1> HIDE DEF now, left
  <1>4. Valid(full) /\ Bytes(full) = Bytes(ring) \o now
    BY <1>1, <1>2, <1>3, PutAppendsAll
  <1> HIDE DEF full
  <1>5. Used(full) = Used(ring) + room
    <2> DEFINE a == Bytes(ring)
    <2>1. a \in Seq(Byte) /\ Len(a) = Used(ring) /\ Len(Bytes(full)) = Used(full)
      BY <1>4, BytesFacts
    <2> HIDE DEF a
    <2>2. Len(a \o now) = Len(a) + Len(now)
      <3>1. \A x, y \in Seq(Byte) : Len(x \o y) = Len(x) + Len(y)
        OBVIOUS
      <3> QED BY <1>3, <2>1, <3>1
    <2> QED BY <1>3, <1>4, <2>1, <2>2 DEF a
  <1>6. IsFull(full) <=> Used(full) = PIPESIZE
    BY <1>4, UsedIsDistance
  <1>7. left = <<>> <=> Len(left) = 0
    BY <1>3
  <1>8. Len(bs) \in Nat
    OBVIOUS
  <1>9. Len(left) <= Len(bs)
    BY <1>2, <1>3, <1>8
  <1>10. IsFull(ring) => IsFull(full)
    BY <1>1, <1>2, <1>5, <1>6
  <1>11. left # <<>> => IsFull(full)
    BY <1>1, <1>2, <1>3, <1>5, <1>6, <1>7, <1>8
  <1>12. IsEmpty(ring) /\ Len(bs) <= PIPESIZE => left = <<>>
    BY <1>1, <1>2, <1>3, <1>7, <1>8
  <1> QED BY <1>3, <1>9, <1>10, <1>11, <1>12 DEF full, left, now

\* pipewrite() may return without a wakeup (pipe.c:86-89), but then it has put
\* nothing into an empty ring: a piece that fits is written whole.
LEMMA PipewriteReasons ==
    ASSUME NEW C, Grammar(C), BUFSIZE <= PIPESIZE, WakeInv(C), NEW p \in Slot, Pipewrite(p)
    PROVE  Awaited(proc, pipes, input)'
  <1> DEFINE i == With(p).pipe
             bs == With(p).bytes
             ring == pipes[i].ring
             room == Min({Len(bs), PIPESIZE - Used(ring)})
             now == SubSeq(bs, 1, room)
             left == SubSeq(bs, room + 1, Len(bs))
             more == [With(p) EXCEPT !.bytes = left]
             f == <<"pipewrite", more>>
             t == <<f>> \o Tail(proc[p].todo)
             gives == Returns(proc[p], With(p).n)
             fails == FailsCall(proc[p])
             waits == Falls(proc[p], <<f>>, WriteChan(i))
             stops == ~ pipes[i].readopen \/ proc[p].killed
             r == IF left = <<>> THEN gives ELSE IF stops THEN fails ELSE waits
             quiet == left # <<>> /\ stops
             full == PutBytes(ring, now)
             new == [pipes[i] EXCEPT !.ring = full]
             ps == [proc EXCEPT ![p] = r]
  <1>1. /\ IInv(C) /\ Calls(p, "pipewrite") /\ proc[p].state = "RUNNABLE" /\ proc[p].todo # <<>>
        /\ With(p) \in [pipe : PipeId, bytes : Piece, n : Nat]
        /\ Head(proc[p].todo)[1] \notin {"pipe", "exit", "pipeclose"}
        /\ proc \in [Slot -> Process(C)] /\ proc[p] \in Process(C) /\ Well(C, proc[p])
    BY WakeTypes, CalledIs DEF Pipewrite, ProcsOK
  <1>2. i \in PipeId /\ pipes[i] \in OpenPipe
    BY <1>1, PipeIsThere
  <1>3. /\ pipes' = [pipes EXCEPT ![i] = new] /\ input' = input /\ IsFree(PipeLock(i))
        /\ proc' = IF quiet THEN ps ELSE Woken(ps, ReadChan(i))
    BY DEF Pipewrite
  <1>4. Valid(ring)
    BY <1>1, <1>2, OpenIsNotFree DEF IInv, PipesAreFifo
  <1>5. bs \in Seq(Byte) /\ Len(bs) \in Nat /\ Len(bs) <= BUFSIZE /\ With(p).n \in Nat
    BY <1>1 DEF Piece
  <1>6. Len(bs) <= PIPESIZE
    BY <1>5, ShellAssumption, PipeAssumption
  <1> HIDE DEF i, bs, ring
  <1>7. /\ left \in Seq(Byte) /\ Len(left) <= Len(bs)
        /\ IsFull(ring) => IsFull(full)
        /\ left # <<>> => IsFull(full)
        /\ IsEmpty(ring) => left = <<>>
    <2> DEFINE space == PIPESIZE - Used(ring)
    <2>1. space \in Nat
      BY <1>4, UsedIsDistance, PipeAssumption
    <2>2. /\ room \in 0 .. Len(bs) /\ room <= space
          /\ room = Len(bs) \/ room = space
      <3> HIDE DEF space
      <3>1. /\ Min({Len(bs), space}) \in Nat /\ Min({Len(bs), space}) <= Len(bs)
            /\ Min({Len(bs), space}) <= space
            /\ Min({Len(bs), space}) = Len(bs) \/ Min({Len(bs), space}) = space
        BY <1>5, <2>1, LesserOfTwo, LessIsOne
      <3>2. room = Min({Len(bs), space})
        BY DEF space
      <3> HIDE DEF room
      <3> QED BY <1>5, <3>1, <3>2
    <2> HIDE DEF room
    <2> QED BY <1>4, <1>5, <1>6, <2>2, Fills
  <1> HIDE DEF room, now, left, full
  <1>8. new.ring = full /\ new.readopen = pipes[i].readopen
    BY <1>2 DEF OpenPipe
  <1> HIDE DEF new
  <1>9. <<"pipewrite", more>> \in KernelFrame /\ more.pipe = i /\ f[1] = "pipewrite" /\ f[2] = more
    <2>1. left \in Piece
      <3>1. Len(left) \in Nat
        BY <1>7
      <3> QED BY <1>5, <1>7, <3>1, ShellAssumption DEF Piece
    <2>2. more \in [pipe : PipeId, bytes : Piece, n : Nat] /\ more.pipe = i
      BY <1>1, <2>1 DEF i
    <2> HIDE DEF more
    <2> QED BY <2>2 DEF KernelFrame
  <1> HIDE DEF more
  <1>10. /\ gives.state = "RUNNABLE" /\ gives.parent = proc[p].parent /\ gives \in Process(C)
         /\ fails.state = "RUNNABLE" /\ fails.parent = proc[p].parent /\ fails \in Process(C)
    <2>1. After(C, proc[p], gives) /\ After(C, proc[p], fails)
      BY <1>1, <1>5, CallerAfter
    <2> QED BY <1>1, <2>1 DEF After
  <1> HIDE DEF gives, fails, f
  <1>11. /\ t # <<>> /\ Head(t) = f /\ t \in Seq(UserFrame(C) \cup KernelFrame)
    BY <1>1, <1>9, Pushed DEF f
  <1>12. waits = [[proc[p] EXCEPT !.todo = t] EXCEPT !.state = "FALLING", !.chan = WriteChan(i)]
    BY DEF Falls, Does
  <1> HIDE DEF t
  <1>13. /\ waits.todo = t /\ waits.state = "FALLING" /\ waits.chan = WriteChan(i)
         /\ waits.parent = proc[p].parent /\ waits \in Process(C)
    <2>1. WriteChan(i) \in Chan /\ "FALLING" \in States
      BY <1>2, PipeChans DEF States
    <2> QED BY <1>1, <1>11, <1>12, <2>1 DEF Process
  <1> HIDE DEF waits
  <1>14. r \in Process(C) /\ r.parent = proc[p].parent /\ r.state \in {"RUNNABLE", "FALLING"}
    BY <1>10, <1>13
  <1>15. r.state = "FALLING" => r = waits /\ ~ stops /\ left # <<>>
    BY <1>10
  <1> HIDE DEF r
  <1>16. /\ ps \in [Slot -> Process(C)] /\ ps[p] = r /\ \A s \in Slot : s # p => ps[s] = proc[s]
    BY <1>1, <1>14
  <1> HIDE DEF ps
  <1>17. \A s \in Slot : Kin(proc[s], ps[s])
    BY <1>14, <1>16 DEF Kin, Gone
  <1>18. \A s \in Slot : Kin(proc[s], proc'[s])
    <2>1. Kept(ps, Woken(ps, ReadChan(i)))
      BY <1>16, KeptWoken
    <2>2. \A s \in Slot : Kin(ps[s], proc'[s])
      BY <1>3, <2>1 DEF Kept, Kin
    <2> QED BY <1>17, <2>2 DEF Kin, Gone
  <1>19. \A s \in Slot : Asleep(proc'[s]) => proc'[s] = ps[s]
    BY <1>3, <1>16, WokenLeaves
  <1>20. ASSUME NEW s \in Slot, s # p, Asleep(proc'[s])
         PROVE  Rests(proc[s], proc'[s]) /\ (Why(proc[s], pipes, input) => Why(proc[s], pipes', input'))
    <2>1. proc'[s] = proc[s] /\ Asleep(proc[s])
      BY <1>16, <1>19, <1>20
    <2>2. ASSUME ReadsEmpty(proc[s], pipes), PipeOf(proc[s]) = i PROVE FALSE
      <3>1. proc[s].chan = ReadChan(i) /\ IsEmpty(ring)
        BY <2>2 DEF ReadsEmpty, ring
      <3>2. ~ quiet
        BY <1>7, <3>1
      <3>3. proc' = Woken(ps, ReadChan(i))
        BY <1>3, <3>2
      <3>4. IsFree(LockOf(ReadChan(i)))
        BY <1>3, PipeChansDiffer
      <3> QED BY <1>16, <1>20, <3>1, <3>3, <3>4, NoneLeft
    <2>3. WritesFull(proc[s], pipes) /\ PipeOf(proc[s]) = i => IsFull(new.ring) /\ new.readopen
      BY <1>7, <1>8 DEF WritesFull, ring
    <2>4. Why(proc[s], pipes, input) => Why(proc[s], pipes', input')
      BY <1>2, <1>3, <2>1, <2>2, <2>3, PipeWhy
    <2> QED BY <2>1, <2>4 DEF Rests
  <1>21. CASE r.state = "RUNNABLE"
    <2>1. ~ Asleep(proc'[p])
      BY <1>16, <1>19, <1>21 DEF Asleep
    <2>2. Kept(proc, proc')
      BY <1>18, <1>20, <2>1 DEF Kept
    <2> QED BY <1>20, <2>1, <2>2, RunsReasons
  <1>22. CASE r.state = "FALLING"
    <2>1. r = waits /\ ~ stops /\ left # <<>>
      BY <1>15, <1>22
    <2>2. proc'[p] = waits
      <3>1. Woken(ps, ReadChan(i))[p] = ps[p]
        BY <1>16, <1>22 DEF Woken
      <3> QED BY <1>3, <1>16, <2>1, <3>1
    <2>3. pipes'[i] = new
      <3>1. pipes \in [PipeId -> {FREE} \cup OpenPipe]
        BY <1>1 DEF IInv, FilesOK
      <3> QED BY <1>2, <1>3, <3>1
    <2>4. IsFull(pipes'[i].ring) /\ pipes'[i].readopen
      BY <1>7, <1>8, <2>1, <2>3
    <2>5. waits.todo # <<>> /\ Doing(waits) = "pipewrite" /\ PipeOf(waits) = i
      BY <1>9, <1>11, <1>13 DEF Doing, PipeOf
    <2>6. proc'[p].todo # <<>> /\ Why(proc'[p], pipes', input')
      BY <1>13, <2>2, <2>4, <2>5 DEF Why, WritesFull
    <2> QED BY <1>18, <1>20, <2>6, FallsReasons
  <1> QED BY <1>14, <1>21, <1>22

\* What a process computes changes nothing but what it has still to do.
LEMMA ComputesSame ==
    ASSUME NEW q, NEW x \in DOMAIN q, x # "todo"
    PROVE  x \in DOMAIN Computes(q) /\ Computes(q)[x] = q[x]
  BY DEF Computes

LEMMA ReadsSame ==
    ASSUME NEW C, NEW q \in Process(C), NEW bs
    PROVE  Reads(q, bs).state = q.state /\ Reads(q, bs).parent = q.parent
  <1> DEFINE d == Does(q, <<>>)
             e == [d EXCEPT !.eax = [Failed EXCEPT !.ok = TRUE, !.bytes = bs]]
  <1>1. ASSUME NEW x \in {"state", "parent"}
        PROVE  Reads(q, bs)[x] = q[x]
    <2>1. x \in DOMAIN q
      BY DEF Process
    <2>2. x \in DOMAIN d /\ d[x] = q[x]
      BY <2>1 DEF Does
    <2> HIDE DEF d
    <2>3. x \in DOMAIN e /\ e[x] = q[x]
      BY <2>2
    <2> HIDE DEF e
    <2>4. x \in DOMAIN Computes(e) /\ Computes(e)[x] = q[x]
      BY <2>3, ComputesSame
    <2>5. x \in DOMAIN Computes(Computes(e)) /\ Computes(Computes(e))[x] = q[x]
      BY <2>4, ComputesSame
    <2>6. Computes(Computes(Computes(e)))[x] = q[x]
      BY <2>5, ComputesSame
    <2> QED BY <2>6 DEF Reads, Runs, e, d
  <1> QED BY <1>1

\* A reader that returns has found a character: no one else waits for one.
LEMMA ConsolereadReasons ==
    ASSUME NEW C, Grammar(C), WakeInv(C), NEW p \in Slot, Consoleread(p)
    PROVE  Awaited(proc, pipes, input)'
  <1> DEFINE n == With(p).n
             dst == With(p).dst
             text == [k \in 1 .. input.w - input.r |-> CharAt(input.r + k - 1)]
             stops == {k \in DOMAIN text : IsEnd(text[k]) \/ Len(dst) + k = n}
             at == Min(stops)
             eof == text[at] = "^D"
             line == dst \o SubSeq(text, 1, IF eof THEN at - 1 ELSE at)
             took == IF eof /\ line # <<>> THEN at - 1 ELSE at
             all == dst \o text
             x == [n |-> n, dst |-> all]
             f == <<"consoleread", x>>
             t == <<f>> \o Tail(proc[p].todo)
             waits == Falls(proc[p], <<f>>, ConsChan)
  <1>1. /\ IInv(C) /\ Calls(p, "consoleread") /\ proc[p].state = "RUNNABLE" /\ proc[p].todo # <<>>
        /\ Head(proc[p].todo)[1] \notin {"pipe", "exit", "pipeclose"}
        /\ proc \in [Slot -> Process(C)] /\ proc[p] \in Process(C) /\ Well(C, proc[p])
    BY WakeTypes, CalledIs DEF Consoleread, ProcsOK
  <1>2. IF stops # {}
        THEN Set(p, Reads(proc[p], line)) /\ input' = [input EXCEPT !.r = @ + took]
        ELSE /\ Set(p, IF proc[p].killed THEN FailsCall(proc[p]) ELSE waits)
             /\ input' = [input EXCEPT !.r = input.w]
    BY DEF Consoleread
  <1>3. pipes' = pipes /\ IsFree(ConsLock)
    BY DEF Consoleread
  <1>4. stops # {} => input.r # input.w
    <2>1. input.r \in Nat /\ input.w \in Nat
      BY <1>1, ConsoleIs
    <2>2. stops # {} => 1 .. input.w - input.r # {}
      OBVIOUS
    <2> QED BY <2>1, <2>2
  <1>5. input \in [text : [0 .. INPUT_BUF - 1 -> Byte], r : Nat, w : Nat, e : Nat]
    BY <1>1, ConsoleIs
  <1>6. stops = {} => input'.r = input'.w
    BY <1>2, <1>5
  <1> HIDE DEF stops, line, took, x
  <1>7. ASSUME NEW s \in Slot, Why(proc[s], pipes, input) PROVE Why(proc[s], pipes', input')
    <2>1. CASE WantsLine(proc[s], input)
      <3>1. stops = {}
        BY <1>4, <2>1 DEF WantsLine
      <3> QED BY <1>6, <2>1, <3>1 DEF WantsLine, Why
    <2>2. CASE ~ WantsLine(proc[s], input)
      BY <1>3, <1>7, <2>2 DEF Why
    <2> QED BY <2>1, <2>2
  <1>8. ASSUME NEW r, r.state = "RUNNABLE", r.parent = proc[p].parent, Set(p, r)
        PROVE  Awaited(proc, pipes, input)'
    <2>1. Kept(proc, proc')
      BY <1>1, <1>8, KeptRuns DEF Set
    <2>2. ~ Asleep(proc'[p])
      BY <1>1, <1>8 DEF Set, Asleep
    <2> QED BY <1>7, <2>1, <2>2, RunsReasons
  <1>9. CASE stops # {}
    <2>1. Set(p, Reads(proc[p], line))
      BY <1>2, <1>9
    <2> QED BY <1>1, <1>8, <2>1, ReadsSame
  <1>10. CASE stops = {} /\ proc[p].killed
    <2>1. After(C, proc[p], FailsCall(proc[p]))
      BY <1>1, CallerAfter
    <2>2. Set(p, FailsCall(proc[p]))
      BY <1>2, <1>10
    <2> QED BY <1>1, <1>8, <2>1, <2>2 DEF After
  <1>11. CASE stops = {} /\ ~ proc[p].killed
    <2>1. proc' = [proc EXCEPT ![p] = waits]
      BY <1>2, <1>11 DEF Set
    <2>2. f[1] = "consoleread"
      OBVIOUS
    <2>3. t # <<>> /\ Head(t) = f
      BY DEF f
    <2>4. waits = [[proc[p] EXCEPT !.todo = t] EXCEPT !.state = "FALLING", !.chan = ConsChan]
      BY DEF Falls, Does
    <2> HIDE DEF f, t
    <2>5. /\ waits.todo = t /\ waits.state = "FALLING" /\ waits.chan = ConsChan
          /\ waits.parent = proc[p].parent
      BY <1>1, <2>4 DEF Process
    <2> HIDE DEF waits
    <2>6. \A s \in Slot : proc'[s] = IF s = p THEN waits ELSE proc[s]
      BY <1>1, <2>1
    <2>7. \A s \in Slot : Kin(proc[s], proc'[s])
      BY <2>5, <2>6 DEF Kin, Gone
    <2>8. proc'[p].todo # <<>> /\ Why(proc'[p], pipes', input')
      BY <1>6, <1>11, <2>2, <2>3, <2>5, <2>6 DEF Why, WantsLine, Doing
    <2>9. \A s \in Slot : s # p /\ Asleep(proc'[s]) =>
             Rests(proc[s], proc'[s]) /\ (Why(proc[s], pipes, input) => Why(proc[s], pipes', input'))
      BY <1>7, <2>6 DEF Rests
    <2> QED BY <2>7, <2>8, <2>9, FallsReasons
  <1> QED BY <1>9, <1>10, <1>11

\* The end of a line wakes every reader; other keys are not for them.
LEMMA ConsoleintrReasons ==
    ASSUME NEW C, WakeInv(C), Consoleintr
    PROVE  Awaited(proc, pipes, input)'
  <1> DEFINE c == Head(typing)
             ends == {k \in input.w .. input.e - 1 : CharAt(k) = "\n"}
             last == Completes(c)
  <1>1. /\ IInv(C) /\ Awaited(proc, pipes, input) /\ proc \in [Slot -> Process(C)]
        /\ input \in [text : [0 .. INPUT_BUF - 1 -> Byte], r : Nat, w : Nat, e : Nat]
    BY WakeTypes, ConsoleIs
  <1>2. pipes' = pipes /\ IsFree(ConsLock)
    BY DEF Consoleintr
  <1>3. \/ /\ input' = [input EXCEPT !.e = IF ends = {} THEN input.w ELSE Max(ends) + 1]
           /\ UNCHANGED proc
        \/ /\ input' = [input EXCEPT !.e = IF @ # input.w THEN @ - 1 ELSE @]
           /\ UNCHANGED proc
        \/ UNCHANGED <<input, proc>>
        \/ /\ input' = [input EXCEPT !.text[input.e % INPUT_BUF] = c, !.e = @ + 1,
                                     !.w = IF last THEN input.e + 1 ELSE @]
           /\ proc' = IF last THEN Woken(proc, ConsChan) ELSE proc
    BY DEF Consoleintr
  <1> HIDE DEF c, ends, last
  <1>4. \/ input'.r = input.r /\ input'.w = input.w /\ proc' = proc
        \/ proc' = Woken(proc, ConsChan)
    BY <1>1, <1>3
  <1>5. Kept(proc, proc')
    <2>1. Kept(proc, proc)
      BY DEF Kept, Kin, Rests
    <2>2. Kept(proc, Woken(proc, ConsChan))
      BY <1>1, KeptWoken
    <2> QED BY <1>4, <2>1, <2>2
  <1>6. ASSUME NEW s \in Slot, Asleep(proc'[s]), Why(proc[s], pipes, input)
        PROVE  Why(proc[s], pipes', input')
    <2>1. CASE ~ WantsLine(proc[s], input)
      BY <1>2, <1>6, <2>1 DEF Why
    <2>2. CASE WantsLine(proc[s], input)
      <3>1. CASE input'.r = input.r /\ input'.w = input.w
        BY <2>2, <3>1 DEF WantsLine, Why
      <3>2. CASE proc' = Woken(proc, ConsChan)
        <4>1. proc[s] = proc'[s] /\ ~ (proc[s].state = "SLEEPING" /\ proc[s].chan = ConsChan)
          BY <1>1, <1>6, <3>2, WokenLeaves
        <4>2. proc[s].state = "FALLING" => proc[s].chan # ConsChan
          BY <1>2, PipeChansDiffer DEF IsFree
        <4> QED BY <1>6, <2>2, <4>1, <4>2 DEF WantsLine, Asleep
      <3> QED BY <1>4, <3>1, <3>2
    <2> QED BY <2>1, <2>2
  <1>7. Awaited(proc', pipes', input')
    BY <1>1, <1>5, <1>6, KeptReasons
  <1> QED BY <1>7, AwaitedIs

LEMMA StepReasons ==
    ASSUME NEW C, Grammar(C), BUFSIZE <= PIPESIZE, WakeInv(C), NEW p \in Slot, Step(p)
    PROVE  Awaited(proc, pipes, input)'
  <1>1. CASE Sleep(p)
    BY <1>1, SleepReasons
  <1>2. CASE WaitReaps(p) \/ WaitFails(p) \/ WaitSleeps(p)
    BY <1>2, WaitReapsReasons, WaitFailsReasons, WaitSleepsReasons
  <1>3. CASE Fork(p) \/ ForkFails(p) \/ PipeFails(p)
    BY <1>3, ForkReasons, GivesUpReasons
  <1>4. CASE Kill(p) \/ KilledExits(p) \/ ExitCloses(p) \/ Exit(p)
    BY <1>4, KillReasons, KilledExitsReasons, ExitClosesReasons, ExitReasons
  <1>5. CASE MakePipe(p) \/ Dup(p) \/ Close(p) \/ Pipeclose(p)
    BY <1>5, MakePipeReasons, DupReasons, CloseReasons, PipecloseReasons
  <1>6. CASE Pipewrite(p) \/ PipereadWaits(p) \/ Piperead(p)
    BY <1>6, PipewriteReasons, PipereadWaitsReasons, PipereadReasons
  <1>7. CASE Consoleread(p) \/ Consolewrite(p)
    BY <1>7, ConsolereadReasons, ConsolewriteReasons
  <1> QED BY <1>1, <1>2, <1>3, <1>4, <1>5, <1>6, <1>7 DEF Step

LEMMA NextWakes ==
    ASSUME NEW C, Grammar(C), BUFSIZE <= PIPESIZE, WakeInv(C), [Next]_vars
    PROVE  WakeInv(C)'
  <1>1. IInv(C)'
    BY NextHolds DEF WakeInv
  <1>2. Awaited(proc, pipes, input)'
    <2>1. CASE Next
      BY <2>1, StepReasons, ConsoleintrReasons DEF Next
    <2>2. CASE UNCHANGED vars
      <3>1. proc' = proc /\ pipes' = pipes /\ input' = input
        BY <2>2 DEF vars
      <3> QED BY <3>1, AwaitedIs DEF WakeInv
    <2> QED BY <2>1, <2>2
  <1> QED BY <1>1, <1>2 DEF WakeInv

LEMMA InitWakes ==
    ASSUME NEW C, Grammar(C), Init
    PROVE  WakeInv(C)
  <1>1. IInv(C)
    BY InitHolds
  <1>2. init \in Slot /\ \A s \in Slot : s # 0
    BY ShellAssumption DEF init, Slot
  <1>3. Free.state = "UNUSED" /\ Free.parent = 0
    BY DEF Free
  <1>4. proc[init].state = "RUNNABLE" /\ proc[init].parent = 0
    BY <1>2, <1>3 DEF Init, Free
  <1>5. \A s \in Slot : s # init => proc[s] = Free
    BY DEF Init
  <1>6. FamilyIn(proc)
    BY <1>2, <1>3, <1>4, <1>5 DEF FamilyIn
  <1>7. ReasonsIn(proc, pipes, input)
    BY <1>3, <1>4, <1>5 DEF ReasonsIn, Asleep
  <1> QED BY <1>1, <1>6, <1>7 DEF WakeInv, Awaited

LEMMA AwakeIs ==
    ASSUME NEW C, WakeInv(C)
    PROVE  SleepersHaveReason
  <1>1. SUFFICES ASSUME NEW p \in Slot, proc[p].state = "SLEEPING"
                 PROVE  /\ Label(p) = "piperead" =>
                              IsEmpty(pipes[Arg(p).pipe].ring) /\ pipes[Arg(p).pipe].writeopen
                        /\ Label(p) = "pipewrite" =>
                              IsFull(pipes[Arg(p).pipe].ring) /\ pipes[Arg(p).pipe].readopen
                        /\ Label(p) = "consoleread" => input.r = input.w
                        /\ Label(p) = "wait2" =>
                              /\ Children(p) # {} /\ ~ proc[p].killed
                              /\ \A s \in Children(p) : proc[s].state # "ZOMBIE"
                        /\ Label(p) \in {"piperead", "pipewrite", "consoleread", "wait2"}
    BY DEF SleepersHaveReason
  <1>2. proc[p].todo # <<>> /\ (Why(proc[p], pipes, input) \/ WaitsForChild(proc, p))
    BY <1>1 DEF WakeInv, Awaited, ReasonsIn, Asleep
  <1>3. Label(p) = Doing(proc[p]) /\ Arg(p).pipe = PipeOf(proc[p])
    BY <1>2 DEF Label, Arg, Doing, PipeOf
  <1>4. WaitsForChild(proc, p) =>
           /\ Children(p) # {} /\ ~ proc[p].killed
           /\ \A s \in Children(p) : proc[s].state # "ZOMBIE"
    BY DEF WaitsForChild, Children
  <1> QED BY <1>2, <1>3, <1>4 DEF Why, ReadsEmpty, WritesFull, WantsLine, WaitsForChild

\* No wakeup is lost: whoever sleeps at a pipe, for a line or in wait() has still a
\* reason to, for any commands and processes, when a piece fits into a pipe, as cat
\* and wc with their 512 bytes make it (pipe.c:85-92 and 106-112, console.c:245-252,
\* proc.c:303-310; cat.c:5, wc.c:5).
THEOREM NoWakeupIsLost ==
    ASSUME NEW Command, Grammar(Command), BUFSIZE <= PIPESIZE
    PROVE  Spec => []SleepersHaveReason
  <1>1. Init => WakeInv(Command)
    BY InitWakes
  <1>2. WakeInv(Command) /\ [Next]_vars => WakeInv(Command)'
    BY NextWakes
  <1>3. WakeInv(Command) => SleepersHaveReason
    BY AwakeIs
  <1> QED BY <1>1, <1>2, <1>3, PTL DEF Spec
==============================================================================
