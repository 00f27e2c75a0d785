----------------------------- MODULE ListLemmas -----------------------------
(***************************************************************************)
(* What the operations on lists do to the elements of a list, to its order *)
(* and to its having no element twice.                                     *)
(***************************************************************************)
EXTENDS Integers, Sequences, SequencesExt, TLAPS

LEMMA Elements ==
    ASSUME NEW S, NEW q \in Seq(S), NEW x
    PROVE  /\ x \in ToSet(q) <=> \E i \in 1 .. Len(q) : q[i] = x
           /\ ToSet(q) \subseteq S
<1>1. DOMAIN q = 1 .. Len(q)
  OBVIOUS
<1>2. \A i \in 1 .. Len(q) : q[i] \in S
  OBVIOUS
<1> QED BY <1>1, <1>2 DEF ToSet

LEMMA Injective ==
    ASSUME NEW S, NEW q \in Seq(S)
    PROVE  IsInjective(q) <=> \A i, j \in 1 .. Len(q) : q[i] = q[j] => i = j
<1>1. DOMAIN q = 1 .. Len(q)
  OBVIOUS
<1> QED BY <1>1 DEF IsInjective

LEMMA ConcatFacts ==
    ASSUME NEW S, NEW p \in Seq(S), NEW q \in Seq(S)
    PROVE  /\ p \o q \in Seq(S)
           /\ Len(p \o q) = Len(p) + Len(q)
           /\ \A j \in 1 .. Len(p) + Len(q) :
                (p \o q)[j] = IF j <= Len(p) THEN p[j] ELSE q[j - Len(p)]
  OBVIOUS

\* The element e comes to stand at place i, the others keep their order.
LEMMA InsertionFacts ==
    ASSUME NEW S, NEW q \in Seq(S), NEW e \in S, NEW r \in Seq(S),
           NEW i \in 1 .. Len(q) + 1,
           Len(r) = Len(q) + 1,
           \A j \in 1 .. Len(r) :
               r[j] = IF j < i THEN q[j] ELSE IF j = i THEN e ELSE q[j - 1]
    PROVE  /\ ToSet(r) = ToSet(q) \cup {e}
           /\ IsInjective(q) /\ e \notin ToSet(q) => IsInjective(r)
<1>1. \A x \in ToSet(r) : x \in ToSet(q) \cup {e}
  <2> TAKE x \in ToSet(r)
  <2>1. PICK j \in 1 .. Len(r) : r[j] = x
    BY Elements
  <2>2. CASE j < i
    BY <2>1, <2>2, Elements
  <2>3. CASE j = i
    BY <2>1, <2>3
  <2>4. CASE j > i
    <3>1. j - 1 \in 1 .. Len(q) /\ q[j - 1] = x
      BY <2>1, <2>4
    <3> QED BY <3>1, Elements
  <2> QED BY <2>2, <2>3, <2>4
<1>2. \A x \in ToSet(q) : x \in ToSet(r)
  <2> TAKE x \in ToSet(q)
  <2>1. PICK j \in 1 .. Len(q) : q[j] = x
    BY Elements
  <2>2. \E k \in 1 .. Len(r) : r[k] = x
    <3>1. CASE j < i
      <4>1. j \in 1 .. Len(r) /\ r[j] = x
        BY <2>1, <3>1
      <4> QED BY <4>1
    <3>2. CASE j >= i
      <4>1. j + 1 \in 1 .. Len(r) /\ r[j + 1] = x
        BY <2>1, <3>2
      <4> QED BY <4>1
    <3> QED BY <3>1, <3>2
  <2> QED BY <2>2, Elements
<1>3. e \in ToSet(r)
  BY Elements
<1>4. ASSUME IsInjective(q), e \notin ToSet(q) PROVE IsInjective(r)
  <2>1. \A j \in 1 .. Len(q) : q[j] # e
    BY <1>4, Elements
  <2>2. \A j, k \in 1 .. Len(q) : q[j] = q[k] => j = k
    BY <1>4, Injective
  <2>3. ASSUME NEW j \in 1 .. Len(r), NEW k \in 1 .. Len(r), r[j] = r[k], j < k
        PROVE FALSE
    <3>1. CASE k < i
      BY <2>2, <2>3, <3>1
    <3>2. CASE k = i
      BY <2>1, <2>3, <3>2
    <3>3. CASE k > i /\ j < i
      <4>1. k - 1 \in 1 .. Len(q) /\ j \in 1 .. Len(q) /\ q[k - 1] = q[j]
        BY <2>3, <3>3
      <4> QED BY <4>1, <2>2, <3>3
    <3>4. CASE k > i /\ j = i
      <4>1. k - 1 \in 1 .. Len(q) /\ q[k - 1] = e
        BY <2>3, <3>4
      <4> QED BY <4>1, <2>1
    <3>5. CASE k > i /\ j > i
      <4>1. k - 1 \in 1 .. Len(q) /\ j - 1 \in 1 .. Len(q) /\ q[k - 1] = q[j - 1]
        BY <2>3, <3>5
      <4>2. k - 1 = j - 1
        BY <4>1, <2>2
      <4> QED BY <4>2, <2>3
    <3> QED BY <3>1, <3>2, <3>3, <3>4, <3>5
  <2>4. ASSUME NEW j \in 1 .. Len(r), NEW k \in 1 .. Len(r), r[j] = r[k]
        PROVE j = k
    <3>1. CASE j < k
      BY <2>3, <2>4, <3>1
    <3>2. CASE k < j
      BY <2>3, <2>4, <3>2
    <3>3. j \in Int /\ k \in Int
      OBVIOUS
    <3> QED BY <3>1, <3>2, <3>3
  <2> QED BY <2>4, Injective
<1> QED BY <1>1, <1>2, <1>3, <1>4

LEMMA ConsFacts ==
    ASSUME NEW S, NEW q \in Seq(S), NEW e \in S
    PROVE  /\ <<e>> \o q \in Seq(S)
           /\ Len(<<e>> \o q) = 1 + Len(q)
           /\ ToSet(<<e>> \o q) = ToSet(q) \cup {e}
           /\ IsInjective(q) /\ e \notin ToSet(q) => IsInjective(<<e>> \o q)
<1> DEFINE r == <<e>> \o q
<1>1. r \in Seq(S) /\ Len(r) = Len(q) + 1
  OBVIOUS
<1>2. \A j \in 1 .. Len(r) : r[j] = IF j = 1 THEN e ELSE q[j - 1]
  OBVIOUS
<1>3. 1 \in 1 .. Len(q) + 1
  OBVIOUS
<1> HIDE DEF r
<1>4. \A j \in 1 .. Len(r) :
         r[j] = IF j < 1 THEN q[j] ELSE IF j = 1 THEN e ELSE q[j - 1]
  BY <1>2
<1>5. /\ ToSet(r) = ToSet(q) \cup {e}
      /\ IsInjective(q) /\ e \notin ToSet(q) => IsInjective(r)
  BY <1>1, <1>3, <1>4, InsertionFacts
<1> QED BY <1>1, <1>5 DEF r

LEMMA AppendFacts ==
    ASSUME NEW S, NEW q \in Seq(S), NEW e \in S
    PROVE  /\ Append(q, e) \in Seq(S)
           /\ ToSet(Append(q, e)) = ToSet(q) \cup {e}
           /\ IsInjective(q) /\ e \notin ToSet(q) => IsInjective(Append(q, e))
<1> DEFINE r == Append(q, e)
           n == Len(q) + 1
<1>1. r \in Seq(S) /\ Len(r) = Len(q) + 1
  OBVIOUS
<1>2. \A j \in 1 .. Len(r) :
         r[j] = IF j < n THEN q[j] ELSE IF j = n THEN e ELSE q[j - 1]
  OBVIOUS
<1>3. n \in 1 .. Len(q) + 1
  OBVIOUS
<1> HIDE DEF r, n
<1>4. /\ ToSet(r) = ToSet(q) \cup {e}
      /\ IsInjective(q) /\ e \notin ToSet(q) => IsInjective(r)
  BY <1>1, <1>2, <1>3, InsertionFacts DEF n
<1> QED BY <1>1, <1>4 DEF r

LEMMA InsertAtElements ==
    ASSUME NEW S, NEW q \in Seq(S), NEW e \in S, NEW i \in 1 .. Len(q) + 1
    PROVE  LET r == InsertAt(q, i, e)
           IN  /\ r \in Seq(S) /\ Len(r) = Len(q) + 1
               /\ \A j \in 1 .. Len(r) :
                    r[j] = IF j < i THEN q[j] ELSE IF j = i THEN e ELSE q[j - 1]
<1> DEFINE r == InsertAt(q, i, e)
           a == SubSeq(q, 1, i - 1)
           b == SubSeq(q, i, Len(q))
<1>1. a \in Seq(S) /\ Len(a) = i - 1 /\ \A j \in 1 .. i - 1 : a[j] = q[j]
  OBVIOUS
<1>2. /\ b \in Seq(S) /\ Len(b) = Len(q) + 1 - i
      /\ \A j \in 1 .. Len(q) + 1 - i : b[j] = q[i + j - 1]
  OBVIOUS
<1>3. r = a \o <<e>> \o b
  BY DEF InsertAt
<1> HIDE DEF a, b
<1>4. r \in Seq(S) /\ Len(r) = Len(q) + 1
  <2> DEFINE c == <<e>> \o b
  <2>1. c \in Seq(S) /\ Len(c) = 1 + Len(b)
    BY <1>2, ConsFacts
  <2>4. r = a \o c
    BY <1>1, <1>2, <1>3
  <2> HIDE DEF c
  <2>2. a \o c \in Seq(S) /\ Len(a \o c) = Len(a) + Len(c)
    BY <1>1, <2>1, ConcatFacts
  <2>3. Len(a \o c) = Len(a) + 1 + Len(b)
    BY <1>1, <1>2, <2>1, <2>2
  <2> QED BY <1>1, <1>2, <2>2, <2>3, <2>4
<1>5. \A j \in 1 .. Len(r) :
         r[j] = IF j < i THEN q[j] ELSE IF j = i THEN e ELSE q[j - 1]
  <2> TAKE j \in 1 .. Len(r)
  <2>1. CASE j < i
    BY <1>1, <1>2, <1>3, <1>4, <2>1
  <2>2. CASE j = i
    BY <1>1, <1>2, <1>3, <1>4, <2>2
  <2>3. CASE j > i
    <3>1. j - i \in 1 .. Len(q) + 1 - i /\ b[j - i] = q[j - 1]
      BY <1>2, <1>4, <2>3
    <3>2. r[j] = b[j - i]
      BY <1>1, <1>2, <1>3, <1>4, <2>3
    <3> QED BY <3>1, <3>2, <2>3
  <2> QED BY <2>1, <2>2, <2>3
<1> HIDE DEF r
<1> QED BY <1>4, <1>5 DEF r

LEMMA InsertAtFacts ==
    ASSUME NEW S, NEW q \in Seq(S), NEW e \in S, NEW i \in 1 .. Len(q) + 1
    PROVE  /\ InsertAt(q, i, e) \in Seq(S)
           /\ ToSet(InsertAt(q, i, e)) = ToSet(q) \cup {e}
           /\ IsInjective(q) /\ e \notin ToSet(q) => IsInjective(InsertAt(q, i, e))
<1> DEFINE r == InsertAt(q, i, e)
<1>1. /\ r \in Seq(S) /\ Len(r) = Len(q) + 1
      /\ \A j \in 1 .. Len(r) :
           r[j] = IF j < i THEN q[j] ELSE IF j = i THEN e ELSE q[j - 1]
  BY InsertAtElements
<1> HIDE DEF r
<1>2. /\ ToSet(r) = ToSet(q) \cup {e}
      /\ IsInjective(q) /\ e \notin ToSet(q) => IsInjective(r)
  BY <1>1, InsertionFacts
<1> QED BY <1>1, <1>2 DEF r

\* What stands in r stands in q too, in the same order.
KeepsOrder(r, q) ==
    \A j, k \in 1 .. Len(r) : j < k =>
        \E m, n \in 1 .. Len(q) : m < n /\ r[j] = q[m] /\ r[k] = q[n]

\* Taking away the element at place i; taking away the tail is i = Len(q).
LEMMA RemoveAtFacts ==
    ASSUME NEW S, NEW q \in Seq(S), NEW i \in 1 .. Len(q), IsInjective(q)
    PROVE  /\ RemoveAt(q, i) \in Seq(S)
           /\ ToSet(RemoveAt(q, i)) = ToSet(q) \ {q[i]}
           /\ IsInjective(RemoveAt(q, i))
           /\ KeepsOrder(RemoveAt(q, i), q)
<1> DEFINE r == RemoveAt(q, i)
           a == SubSeq(q, 1, i - 1)
           b == SubSeq(q, i + 1, Len(q))
<1>1. a \in Seq(S) /\ Len(a) = i - 1 /\ \A j \in 1 .. i - 1 : a[j] = q[j]
  OBVIOUS
<1>2. /\ b \in Seq(S) /\ Len(b) = Len(q) - i
      /\ \A j \in 1 .. Len(q) - i : b[j] = q[i + j]
  OBVIOUS
<1>3. r = a \o b
  BY DEF RemoveAt
<1> HIDE DEF a, b
<1>4. r \in Seq(S) /\ Len(r) = Len(q) - 1
  BY <1>1, <1>2, <1>3
<1>5. \A j \in 1 .. Len(r) : r[j] = IF j < i THEN q[j] ELSE q[j + 1]
  <2> TAKE j \in 1 .. Len(r)
  <2>1. CASE j < i
    BY <1>1, <1>2, <1>3, <1>4, <2>1
  <2>2. CASE j >= i
    <3> DEFINE k == j + 1 - i
    <3>3. k \in 1 .. Len(q) - i /\ i + k = j + 1
      BY <1>4, <2>2
    <3> HIDE DEF k
    <3>4. b[k] = q[j + 1]
      BY <1>2, <3>3
    <3>1. j + 1 - i \in 1 .. Len(q) - i /\ b[j + 1 - i] = q[j + 1]
      BY <3>3, <3>4 DEF k
    <3>2. r[j] = b[j + 1 - i]
      BY <1>1, <1>2, <1>3, <1>4, <2>2
    <3> QED BY <3>1, <3>2, <2>2
  <2> QED BY <2>1, <2>2
<1> HIDE DEF r
<1>6. \A j, k \in 1 .. Len(q) : q[j] = q[k] => j = k
  BY Injective
<1>7. IsInjective(r)
  BY <1>4, <1>5, <1>6, Injective
<1>8. \A x \in ToSet(r) : x \in ToSet(q) \ {q[i]}
  <2> TAKE x \in ToSet(r)
  <2>1. PICK j \in 1 .. Len(r) : r[j] = x
    BY <1>4, Elements
  <2>2. PICK k \in 1 .. Len(q) : k # i /\ q[k] = x
    BY <2>1, <1>4, <1>5
  <2> QED BY <2>2, <1>6, Elements
<1>9. \A x \in ToSet(q) \ {q[i]} : x \in ToSet(r)
  <2> TAKE x \in ToSet(q) \ {q[i]}
  <2>1. PICK k \in 1 .. Len(q) : q[k] = x
    BY Elements
  <2>2. \E j \in 1 .. Len(r) : r[j] = x
    <3>1. CASE k < i
      <4>1. k \in 1 .. Len(r) /\ r[k] = x
        BY <2>1, <3>1, <1>4, <1>5
      <4> QED BY <4>1
    <3>2. CASE k > i
      <4>1. k - 1 \in 1 .. Len(r) /\ r[k - 1] = x
        BY <2>1, <3>2, <1>4, <1>5
      <4> QED BY <4>1
    <3> QED BY <2>1, <3>1, <3>2
  <2> QED BY <2>2, <1>4, Elements
<1>10. KeepsOrder(r, q)
  <2> SUFFICES ASSUME NEW j \in 1 .. Len(r), NEW k \in 1 .. Len(r), j < k
               PROVE  \E m, n \in 1 .. Len(q) : m < n /\ r[j] = q[m] /\ r[k] = q[n]
    BY DEF KeepsOrder
  <2> DEFINE m == IF j < i THEN j ELSE j + 1
             n == IF k < i THEN k ELSE k + 1
  <2>1. m \in 1 .. Len(q) /\ n \in 1 .. Len(q) /\ m < n
    BY <1>4
  <2>2. r[j] = q[m] /\ r[k] = q[n]
    BY <1>5
  <2> QED BY <2>1, <2>2
<1> QED BY <1>4, <1>7, <1>8, <1>9, <1>10 DEF r

LEMMA ConcatElements ==
    ASSUME NEW S, NEW p \in Seq(S), NEW q \in Seq(S)
    PROVE  /\ ToSet(p \o q) = ToSet(p) \cup ToSet(q)
           /\ IsInjective(p) /\ IsInjective(q) /\ ToSet(p) \cap ToSet(q) = {}
                => IsInjective(p \o q)
<1> DEFINE r == p \o q
<1>1. /\ r \in Seq(S) /\ Len(r) = Len(p) + Len(q)
      /\ \A j \in 1 .. Len(r) : r[j] = IF j <= Len(p) THEN p[j] ELSE q[j - Len(p)]
  BY ConcatFacts
<1>2. Len(p) \in Nat /\ Len(q) \in Nat
  OBVIOUS
<1> HIDE DEF r
<1>3. \A x \in ToSet(r) : x \in ToSet(p) \cup ToSet(q)
  <2> TAKE x \in ToSet(r)
  <2>1. PICK j \in 1 .. Len(r) : r[j] = x
    BY <1>1, Elements
  <2>2. CASE j <= Len(p)
    BY <1>1, <1>2, <2>1, <2>2, Elements
  <2>3. CASE j > Len(p)
    <3>1. j - Len(p) \in 1 .. Len(q) /\ q[j - Len(p)] = x
      BY <1>1, <1>2, <2>1, <2>3
    <3> QED BY <3>1, Elements
  <2> QED BY <1>2, <2>2, <2>3
<1>4. \A x \in ToSet(p) : x \in ToSet(r)
  <2> TAKE x \in ToSet(p)
  <2>1. PICK k \in 1 .. Len(p) : p[k] = x
    BY Elements
  <2>2. k \in 1 .. Len(r) /\ r[k] = x
    BY <1>1, <1>2, <2>1
  <2> QED BY <1>1, <2>2, Elements
<1>5. \A x \in ToSet(q) : x \in ToSet(r)
  <2> TAKE x \in ToSet(q)
  <2>1. PICK k \in 1 .. Len(q) : q[k] = x
    BY Elements
  <2> DEFINE n == Len(p) + k
  <2>3. n \in 1 .. Len(r) /\ ~ (n <= Len(p)) /\ n - Len(p) = k
    BY <1>1, <1>2
  <2> HIDE DEF n
  <2>2. n \in 1 .. Len(r) /\ r[n] = x
    BY <1>1, <2>1, <2>3
  <2> QED BY <1>1, <2>2, Elements
<1>6. ASSUME IsInjective(p), IsInjective(q), ToSet(p) \cap ToSet(q) = {}
      PROVE  IsInjective(r)
  <2>1. /\ \A j, k \in 1 .. Len(p) : p[j] = p[k] => j = k
        /\ \A j, k \in 1 .. Len(q) : q[j] = q[k] => j = k
    BY <1>6, Injective
  <2>2. \A j \in 1 .. Len(p), k \in 1 .. Len(q) : p[j] # q[k]
    BY <1>6, Elements
  <2>3. ASSUME NEW j \in 1 .. Len(r), NEW k \in 1 .. Len(r), r[j] = r[k]
        PROVE j = k
    <3>1. CASE j <= Len(p) /\ k <= Len(p)
      BY <1>1, <1>2, <2>1, <2>3, <3>1
    <3>2. CASE j > Len(p) /\ k > Len(p)
      <4>1. /\ j - Len(p) \in 1 .. Len(q) /\ k - Len(p) \in 1 .. Len(q)
            /\ q[j - Len(p)] = q[k - Len(p)]
        BY <1>1, <1>2, <2>3, <3>2
      <4>2. j - Len(p) = k - Len(p)
        BY <2>1, <4>1
      <4> QED BY <1>1, <1>2, <4>2
    <3>3. CASE j <= Len(p) /\ k > Len(p)
      <4>1. k - Len(p) \in 1 .. Len(q) /\ p[j] = q[k - Len(p)] /\ j \in 1 .. Len(p)
        BY <1>1, <1>2, <2>3, <3>3
      <4> QED BY <2>2, <4>1
    <3>4. CASE j > Len(p) /\ k <= Len(p)
      <4>1. j - Len(p) \in 1 .. Len(q) /\ p[k] = q[j - Len(p)] /\ k \in 1 .. Len(p)
        BY <1>1, <1>2, <2>3, <3>4
      <4> QED BY <2>2, <4>1
    <3> QED BY <1>1, <1>2, <3>1, <3>2, <3>3, <3>4
  <2> QED BY <1>1, <2>3, Injective
<1> QED BY <1>3, <1>4, <1>5, <1>6 DEF r

LEMMA FrontFacts ==
    ASSUME NEW S, NEW q \in Seq(S), q # <<>>, IsInjective(q)
    PROVE  /\ Last(q) \in ToSet(q)
           /\ Front(q) \in Seq(S)
           /\ ToSet(Front(q)) = ToSet(q) \ {Last(q)}
           /\ IsInjective(Front(q))
           /\ KeepsOrder(Front(q), q)
<1> DEFINE n == Len(q)
<1>1. n \in 1 .. n
  OBVIOUS
<1>2. Last(q) = q[n] /\ Last(q) \in ToSet(q)
  BY <1>1, Elements DEF Last
<1>3. Front(q) = RemoveAt(q, n)
  <2>1. SubSeq(q, n + 1, n) = <<>>
    OBVIOUS
  <2>2. SubSeq(q, 1, n - 1) \in Seq(S)
    BY <1>1
  <2>3. \A f \in Seq(S) : f \o <<>> = f
    OBVIOUS
  <2> QED BY <2>1, <2>2, <2>3 DEF Front, RemoveAt
<1> HIDE DEF n
<1>4. n \in 1 .. Len(q)
  BY <1>1 DEF n
<1> QED BY <1>2, <1>3, <1>4, RemoveAtFacts
=============================================================================
