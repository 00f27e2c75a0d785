-------------------------- MODULE BlockPath_proofs --------------------------
(***************************************************************************)
(* bmap() gives every block of a file a place of its own, for every number  *)
(* of addresses in an inode and in a table.                                *)
(***************************************************************************)
EXTENDS BlockPath, Sequences, TLAPS

LEMMA Sizes ==
    /\ NDIRECT \in Nat /\ NDIRECT > 0
    /\ NINDIRECT \in Nat /\ NINDIRECT > 0
    /\ DOUBLE \in Nat /\ DOUBLE > 0
    /\ TRIPLE \in Nat /\ MAXFILE \in Nat
  <1>1. NDIRECT \in Nat /\ NDIRECT > 0 /\ NINDIRECT \in Nat /\ NINDIRECT > 0
    BY PathAssumption
  <1>2. DOUBLE \in Nat /\ DOUBLE > 0
    BY <1>1 DEF DOUBLE
  <1>3. TRIPLE \in Nat
    BY <1>1, <1>2 DEF TRIPLE
  <1> QED BY <1>1, <1>2, <1>3 DEF MAXFILE

\* A number is told by its quotient and its remainder.
LEMMA Division ==
    ASSUME NEW a \in Nat, NEW d \in Nat, d > 0
    PROVE  /\ a % d \in 0 .. d - 1
           /\ a \div d \in Nat
           /\ a = d * (a \div d) + (a % d)
  <1>1. a % d \in 0 .. d - 1 /\ a \div d \in Nat
        /\ a = d * (a \div d) + (a % d)
    OBVIOUS
  <1> QED BY <1>1

\* The quotient of a number below d * m is below m.
LEMMA QuotientBelow ==
    ASSUME NEW d \in Nat, d > 0, NEW m \in Nat, NEW a \in 0 .. d * m - 1
    PROVE  a \div d \in 0 .. m - 1
  <1> DEFINE q == a \div d
  <1>1. a \in Nat /\ d * m \in Nat /\ a < d * m
    OBVIOUS
  <1>2. q \in Nat /\ a % d \in Nat /\ a = d * q + (a % d)
    BY <1>1, Division
  <1>3. SUFFICES ASSUME q >= m PROVE FALSE
    BY <1>2
  <1> HIDE DEF q
  <1>4. PICK k \in Nat : q = m + k
    <2>1. q - m \in Nat /\ q = m + (q - m)
      BY <1>2, <1>3
    <2> QED BY <2>1
  <1>5. d * q = d * m + d * k /\ d * k \in Nat
    BY <1>4
  <1>6. d * q \in Nat
    BY <1>2
  <1> QED BY <1>1, <1>2, <1>5, <1>6

\* The four levels: what bmap() finds for a block of each.
Direct(bn) == bn \in 0 .. NDIRECT - 1
Single(bn) == bn - NDIRECT \in 0 .. NINDIRECT - 1
Double(bn) == bn - NDIRECT - NINDIRECT \in 0 .. DOUBLE - 1
Triple(bn) == bn - NDIRECT - NINDIRECT - DOUBLE \in 0 .. TRIPLE - 1

LEMMA Levels ==
    ASSUME NEW bn \in 0 .. MAXFILE - 1
    PROVE  Direct(bn) \/ Single(bn) \/ Double(bn) \/ Triple(bn)
  BY Sizes DEF Direct, Single, Double, Triple, MAXFILE

LEMMA DirectPath ==
    ASSUME NEW bn \in Nat, Direct(bn)
    PROVE  PathOf(bn) = <<bn>>
  <1>1. bn < NDIRECT
    BY Sizes DEF Direct
  <1>2. bn - NDIRECT \notin 0 .. NINDIRECT - 1
        /\ bn - NDIRECT - NINDIRECT \notin 0 .. DOUBLE - 1
        /\ ~ (bn - NDIRECT - NINDIRECT - DOUBLE >= 0)
    BY <1>1, Sizes
  <1> QED BY <1>1, <1>2 DEF PathOf

LEMMA SinglePath ==
    ASSUME NEW bn \in Nat, Single(bn)
    PROVE  PathOf(bn) = <<NDIRECT, bn - NDIRECT>>
  <1>1. bn - NDIRECT \in 0 .. NINDIRECT - 1
    BY DEF Single
  <1>2. ~ (bn < NDIRECT)
        /\ bn - NDIRECT - NINDIRECT \notin 0 .. DOUBLE - 1
        /\ ~ (bn - NDIRECT - NINDIRECT - DOUBLE >= 0)
    BY <1>1, Sizes
  <1> QED BY <1>1, <1>2 DEF PathOf

LEMMA DoublePath ==
    ASSUME NEW bn \in Nat, Double(bn)
    PROVE  LET d == bn - NDIRECT - NINDIRECT
           IN  /\ PathOf(bn) = <<NDIRECT + 1, d \div NINDIRECT, d % NINDIRECT>>
               /\ d \div NINDIRECT \in 0 .. NINDIRECT - 1
               /\ d % NINDIRECT \in 0 .. NINDIRECT - 1
               /\ d = NINDIRECT * (d \div NINDIRECT) + (d % NINDIRECT)
  <1> DEFINE d == bn - NDIRECT - NINDIRECT
  <1>1. d \in 0 .. NINDIRECT * NINDIRECT - 1 /\ d \in 0 .. DOUBLE - 1
    BY DEF Double, DOUBLE
  <1>2. ~ (bn < NDIRECT) /\ bn - NDIRECT \notin 0 .. NINDIRECT - 1
        /\ ~ (d - DOUBLE >= 0)
    BY <1>1, Sizes
  <1>3. PathOf(bn) = <<NDIRECT + 1, d \div NINDIRECT, d % NINDIRECT>>
    BY <1>1, <1>2 DEF PathOf
  <1>4. d \div NINDIRECT \in 0 .. NINDIRECT - 1
    BY <1>1, Sizes, QuotientBelow
  <1>5. d \in Nat
    BY <1>1, Sizes
  <1> HIDE DEF d
  <1>6. d % NINDIRECT \in 0 .. NINDIRECT - 1
        /\ d = NINDIRECT * (d \div NINDIRECT) + (d % NINDIRECT)
    BY <1>5, Sizes, Division
  <1> QED BY <1>3, <1>4, <1>6 DEF d

LEMMA TriplePath ==
    ASSUME NEW bn \in Nat, Triple(bn)
    PROVE  LET t == bn - NDIRECT - NINDIRECT - DOUBLE
               r == t % DOUBLE
           IN  /\ PathOf(bn) = <<NDIRECT + 2, t \div DOUBLE, r \div NINDIRECT,
                                 r % NINDIRECT>>
               /\ t \div DOUBLE \in 0 .. NINDIRECT - 1
               /\ r \div NINDIRECT \in 0 .. NINDIRECT - 1
               /\ r % NINDIRECT \in 0 .. NINDIRECT - 1
               /\ t = DOUBLE * (t \div DOUBLE) + r
               /\ r = NINDIRECT * (r \div NINDIRECT) + (r % NINDIRECT)
  <1> DEFINE t == bn - NDIRECT - NINDIRECT - DOUBLE
             r == t % DOUBLE
  <1>1. t \in 0 .. DOUBLE * NINDIRECT - 1
    BY DEF Triple, TRIPLE
  <1>2. t \in Nat
    BY <1>1, Sizes
  <1>3. ~ (bn < NDIRECT) /\ bn - NDIRECT \notin 0 .. NINDIRECT - 1
        /\ bn - NDIRECT - NINDIRECT \notin 0 .. DOUBLE - 1 /\ t >= 0
    BY <1>2, Sizes
  <1>4. PathOf(bn) = <<NDIRECT + 2, t \div DOUBLE, r \div NINDIRECT, r % NINDIRECT>>
    BY <1>3 DEF PathOf
  <1>5. t \div DOUBLE \in 0 .. NINDIRECT - 1
    BY <1>1, Sizes, QuotientBelow
  <1> HIDE DEF t
  <1>6. r \in 0 .. DOUBLE - 1 /\ t = DOUBLE * (t \div DOUBLE) + r
    BY <1>2, Sizes, Division
  <1> HIDE DEF r
  <1>7. r \in 0 .. NINDIRECT * NINDIRECT - 1 /\ r \in Nat
    BY <1>6, Sizes DEF DOUBLE
  <1>8. r \div NINDIRECT \in 0 .. NINDIRECT - 1
    BY <1>7, Sizes, QuotientBelow
  <1>9. r % NINDIRECT \in 0 .. NINDIRECT - 1
        /\ r = NINDIRECT * (r \div NINDIRECT) + (r % NINDIRECT)
    BY <1>7, Sizes, Division
  <1> QED BY <1>4, <1>5, <1>6, <1>8, <1>9 DEF t, r
-----------------------------------------------------------------------------
(* Theorems *)

\* bmap() stays within the inode and within every table it goes through, for
\* each block a file may have (fs.c:373-457).
THEOREM PathIsValid ==
    ASSUME NEW bn \in 0 .. MAXFILE - 1
    PROVE  /\ PathOf(bn) \in Seq(Nat) /\ Len(PathOf(bn)) \in 1 .. 4
           /\ PathOf(bn)[1] \in 0 .. NDIRECT + 2
           /\ \A k \in 2 .. Len(PathOf(bn)) : PathOf(bn)[k] \in 0 .. NINDIRECT - 1
  <1>0. bn \in Nat
    BY Sizes
  <1>1. CASE Direct(bn)
    <2>1. PathOf(bn) = <<bn>> /\ bn \in 0 .. NDIRECT - 1
      BY <1>0, <1>1, DirectPath DEF Direct
    <2> QED BY <2>1, Sizes
  <1>2. CASE Single(bn)
    <2>1. PathOf(bn) = <<NDIRECT, bn - NDIRECT>> /\ bn - NDIRECT \in 0 .. NINDIRECT - 1
      BY <1>0, <1>2, SinglePath DEF Single
    <2> QED BY <2>1, Sizes
  <1>3. CASE Double(bn)
    <2>1. PICK i \in 0 .. NINDIRECT - 1, j \in 0 .. NINDIRECT - 1 :
            PathOf(bn) = <<NDIRECT + 1, i, j>>
      BY <1>0, <1>3, DoublePath
    <2> QED BY <2>1, Sizes
  <1>4. CASE Triple(bn)
    <2>1. PICK i \in 0 .. NINDIRECT - 1, j \in 0 .. NINDIRECT - 1, l \in 0 .. NINDIRECT - 1 :
            PathOf(bn) = <<NDIRECT + 2, i, j, l>>
      BY <1>0, <1>4, TriplePath
    <2> QED BY <2>1, Sizes
  <1> QED BY <1>1, <1>2, <1>3, <1>4, Levels

\* The path of block a is the beginning of the path of block b.
Leads(a, b) ==
    \A k \in 1 .. Len(PathOf(a)) : k <= Len(PathOf(b)) /\ PathOf(b)[k] = PathOf(a)[k]

\* The first index tells the level.
LEMMA SameLevel ==
    ASSUME NEW a \in 0 .. MAXFILE - 1, NEW b \in 0 .. MAXFILE - 1, Leads(a, b)
    PROVE  \/ Direct(a) /\ Direct(b)
           \/ Single(a) /\ Single(b)
           \/ Double(a) /\ Double(b)
           \/ Triple(a) /\ Triple(b)
  <1> DEFINE First(bn) == PathOf(bn)[1]
  <1>1. First(a) = First(b)
    <2>1. Len(PathOf(a)) \in 1 .. 4
      BY PathIsValid
    <2>2. 1 \in 1 .. Len(PathOf(a))
      BY <2>1
    <2> QED BY <2>2 DEF Leads
  <1>2. \A bn \in 0 .. MAXFILE - 1 :
            /\ Direct(bn) => First(bn) \in 0 .. NDIRECT - 1
            /\ Single(bn) => First(bn) = NDIRECT
            /\ Double(bn) => First(bn) = NDIRECT + 1
            /\ Triple(bn) => First(bn) = NDIRECT + 2
    <2> TAKE bn \in 0 .. MAXFILE - 1
    <2>0. bn \in Nat
      BY Sizes
    <2>1. ASSUME Direct(bn) PROVE First(bn) \in 0 .. NDIRECT - 1
      BY <2>0, <2>1, DirectPath DEF Direct
    <2>2. ASSUME Single(bn) PROVE First(bn) = NDIRECT
      BY <2>0, <2>2, SinglePath
    <2>3. ASSUME Double(bn) PROVE First(bn) = NDIRECT + 1
      BY <2>0, <2>3, DoublePath
    <2>4. ASSUME Triple(bn) PROVE First(bn) = NDIRECT + 2
      BY <2>0, <2>4, TriplePath
    <2> QED BY <2>1, <2>2, <2>3, <2>4
  <1> HIDE DEF First
  <1> QED BY <1>1, <1>2, Levels, Sizes

\* Two blocks of a file never have the same place, and no block lies where a
\* table on the way to another does: what bmap() allocates for one is never
\* found for another (fs.c:373-457).
THEOREM PathsDiffer ==
    ASSUME NEW a \in 0 .. MAXFILE - 1, NEW b \in 0 .. MAXFILE - 1, Leads(a, b)
    PROVE  a = b
  <1>0. a \in Nat /\ b \in Nat
    BY Sizes
  <1>1. CASE Direct(a) /\ Direct(b)
    <2>1. PathOf(a) = <<a>> /\ PathOf(b) = <<b>>
      BY <1>0, <1>1, DirectPath
    <2> QED BY <2>1 DEF Leads
  <1>2. CASE Single(a) /\ Single(b)
    <2>1. PathOf(a) = <<NDIRECT, a - NDIRECT>> /\ PathOf(b) = <<NDIRECT, b - NDIRECT>>
      BY <1>0, <1>2, SinglePath
    <2>2. 2 \in 1 .. Len(PathOf(a)) /\ PathOf(a)[2] = a - NDIRECT /\ PathOf(b)[2] = b - NDIRECT
      BY <2>1
    <2>3. a - NDIRECT = b - NDIRECT
      BY <2>2 DEF Leads
    <2> QED BY <1>0, <2>3, Sizes
  <1>3. CASE Double(a) /\ Double(b)
    <2> DEFINE d(bn) == bn - NDIRECT - NINDIRECT
    <2>1. \A bn \in {a, b} :
            /\ Len(PathOf(bn)) = 3
            /\ PathOf(bn)[2] = d(bn) \div NINDIRECT /\ PathOf(bn)[3] = d(bn) % NINDIRECT
            /\ d(bn) = NINDIRECT * (d(bn) \div NINDIRECT) + (d(bn) % NINDIRECT)
      BY <1>0, <1>3, DoublePath
    <2>2. PathOf(a)[2] = PathOf(b)[2] /\ PathOf(a)[3] = PathOf(b)[3]
      <3>1. Len(PathOf(a)) = 3
        BY <2>1
      <3>2. 2 \in 1 .. Len(PathOf(a)) /\ 3 \in 1 .. Len(PathOf(a))
        BY <3>1
      <3> QED BY <3>2 DEF Leads
    <2>3. d(a) = d(b)
      BY <2>1, <2>2
    <2> QED BY <1>0, <2>3, Sizes
  <1>4. CASE Triple(a) /\ Triple(b)
    <2> DEFINE t(bn) == bn - NDIRECT - NINDIRECT - DOUBLE
               r(bn) == t(bn) % DOUBLE
    <2>1. \A bn \in {a, b} :
            /\ Len(PathOf(bn)) = 4
            /\ PathOf(bn)[2] = t(bn) \div DOUBLE
            /\ PathOf(bn)[3] = r(bn) \div NINDIRECT /\ PathOf(bn)[4] = r(bn) % NINDIRECT
            /\ t(bn) = DOUBLE * (t(bn) \div DOUBLE) + r(bn)
            /\ r(bn) = NINDIRECT * (r(bn) \div NINDIRECT) + (r(bn) % NINDIRECT)
      BY <1>0, <1>4, TriplePath
    <2>2. /\ PathOf(a)[2] = PathOf(b)[2] /\ PathOf(a)[3] = PathOf(b)[3]
          /\ PathOf(a)[4] = PathOf(b)[4]
      <3>1. Len(PathOf(a)) = 4
        BY <2>1
      <3>2. 2 \in 1 .. Len(PathOf(a)) /\ 3 \in 1 .. Len(PathOf(a)) /\ 4 \in 1 .. Len(PathOf(a))
        BY <3>1
      <3> QED BY <3>2 DEF Leads
    <2>3. r(a) = r(b)
      BY <2>1, <2>2
    <2> HIDE DEF r
    <2>4. t(a) = t(b)
      BY <2>1, <2>2, <2>3
    <2> QED BY <1>0, <2>4, Sizes
  <1> QED BY <1>1, <1>2, <1>3, <1>4, SameLevel
=============================================================================
