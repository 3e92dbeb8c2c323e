--------------------------- MODULE SequenceLemmas ---------------------------
(***************************************************************************)
(* What the components' proofs need of the community modules' recursive    *)
(* functions: FlattenSeq, and sums by FoldLeft.  Such a function is the    *)
(* CHOOSE of a function that satisfies its equation; the lemmas show by    *)
(* induction that there is one, and what it is for a longer sequence.      *)
(***************************************************************************)
EXTENDS Naturals, Sequences, SequencesExt, TLAPS, SequenceTheorems, WellFoundedInduction

\* A set of naturals that has an element has a least one.
LEMMA MinLeast ==
  ASSUME NEW S \in SUBSET Nat, S # {}
  PROVE  \E x \in S : \A y \in S : x <= y
<1> DEFINE R == OpToRel(<, Nat)
<1>1. IsWellFoundedOn(R, Nat)
  BY NatLessThanWellFounded
<1>2. \A x, y \in Nat : y < x => <<y, x>> \in R
  BY Zenon DEF OpToRel
<1> HIDE DEF R
<1>3. PICK x \in S : \A y \in S : ~ (<<y, x>> \in R)
  BY <1>1, WFMin
<1>4. \A y \in S : ~ (y < x)
  BY <1>2, <1>3, Zenon
<1>5. \A y \in S : x <= y
  BY <1>4
<1> QED
  BY <1>5

\* Induction over the naturals, for the set of those that have a property.
LEMMA SetInduction ==
  ASSUME NEW T, 0 \in T, \A n \in Nat : n \in T => n + 1 \in T
  PROVE  Nat \subseteq T
<1> DEFINE S == {n \in Nat : n \notin T}
<1>1. SUFFICES ASSUME S # {} PROVE FALSE
  OBVIOUS
<1>2. PICK x \in S : \A y \in S : x <= y
  BY <1>1, MinLeast
<1>3. x \in Nat /\ x # 0 /\ x - 1 \in Nat /\ ~(x <= x - 1) /\ (x - 1) + 1 = x
  OBVIOUS
<1>4. x - 1 \in S
  BY <1>3
<1> QED
  BY <1>2, <1>3, <1>4

\* Induction over sequences, for the set of those that have a property.
LEMMA SeqInduction ==
  ASSUME NEW S, NEW T, <<>> \in T, \A s \in Seq(S) : s \in T => \A x \in S : Append(s, x) \in T
  PROVE  Seq(S) \subseteq T
<1> DEFINE N == {n \in Nat : \A s \in Seq(S) : Len(s) = n => s \in T}
<1>1. 0 \in N
  <2>1. \A s \in Seq(S) : Len(s) = 0 => s = <<>>
    OBVIOUS
  <2> QED
    BY <2>1
<1>2. ASSUME NEW n \in Nat, n \in N PROVE n + 1 \in N
  <2>1. SUFFICES ASSUME NEW s \in Seq(S), Len(s) = n + 1 PROVE s \in T
    OBVIOUS
  <2> DEFINE f == SubSeq(s, 1, n)
  <2>2. f \in Seq(S) /\ Len(f) = n /\ \A i \in 1..n : f[i] = s[i]
    BY <2>1
  <2>3. n + 1 \in 1..Len(s) /\ s[n + 1] \in S
    BY <2>1
  <2> HIDE DEF f
  <2>4. Append(f, s[n + 1]) = s
    <3> DEFINE g == Append(f, s[n + 1])
    <3>1. g \in Seq(S) /\ Len(g) = Len(s)
      BY <2>1, <2>2, <2>3
    <3>2. ASSUME NEW i \in 1..Len(s) PROVE g[i] = s[i]
      <4>1. CASE i = n + 1
        BY <2>2, <4>1
      <4>2. CASE i # n + 1
        <5>1. i \in 1..n
          BY <2>1, <4>2
        <5> QED
          BY <2>2, <5>1
      <4> QED
        BY <4>1, <4>2
    <3> HIDE DEF g
    <3>3. g = s
      BY <3>1, <3>2, SeqEqual
    <3> QED
      BY <3>3 DEF g
  <2>5. f \in T
    BY <1>2, <2>2
  <2> QED
    BY <2>2, <2>3, <2>4, <2>5
<1> HIDE DEF N
<1>3. Nat \subseteq N
  BY <1>1, <1>2, SetInduction
<1> QED
  BY <1>3 DEF N

\* The recursive function of FlattenSeq, up to the n-th sequence.
FlatTo(q, n, f) == f = [i \in 1..n |-> IF i = 1 THEN q[i] ELSE f[i - 1] \o q[i]]

\* What such a function is at a place.
LEMMA FlatAt ==
  ASSUME NEW q, NEW n, NEW f, FlatTo(q, n, f), NEW i \in 1..n
  PROVE  f[i] = IF i = 1 THEN q[i] ELSE f[i - 1] \o q[i]
BY DEF FlatTo

\* It exists for any number of sequences.
LEMMA FlatToExists ==
  ASSUME NEW q, NEW n \in Nat
  PROVE  \E f : FlatTo(q, n, f)
<1> DEFINE T == {m \in Nat : \E f : FlatTo(q, m, f)}
<1>1. 0 \in T
  <2> DEFINE g == [i \in 1..0 |-> {}]
  <2>1. \A f : [i \in 1..0 |-> IF i = 1 THEN q[i] ELSE f[i - 1] \o q[i]] = g
    OBVIOUS
  <2>2. FlatTo(q, 0, g)
    BY <2>1 DEF FlatTo
  <2> QED
    BY <2>2
<1>2. ASSUME NEW m \in Nat, m \in T PROVE m + 1 \in T
  <2>1. PICK f : FlatTo(q, m, f)
    BY <1>2
  <2> DEFINE g == [i \in 1..(m + 1) |-> IF i = m + 1 THEN IF i = 1 THEN q[i] ELSE f[m] \o q[i] ELSE f[i]]
             h == [i \in 1..(m + 1) |-> IF i = 1 THEN q[i] ELSE g[i - 1] \o q[i]]
  <2>2. ASSUME NEW i \in 1..(m + 1) PROVE g[i] = h[i]
    <3>1. CASE i = m + 1
      <4>1. i # 1 => i - 1 = m /\ m \in 1..(m + 1) /\ m # m + 1
        BY <3>1
      <4> QED
        BY <3>1, <4>1
    <3>2. CASE i # m + 1
      <4>1. i \in 1..m /\ (i # 1 => i - 1 \in 1..m /\ i - 1 \in 1..(m + 1) /\ i - 1 # m + 1)
        BY <3>2
      <4>2. f[i] = IF i = 1 THEN q[i] ELSE f[i - 1] \o q[i]
        BY <2>1, <4>1, FlatAt
      <4> QED
        BY <3>2, <4>1, <4>2
    <3> QED
      BY <3>1, <3>2
  <2>3. g = h
    BY <2>2
  <2>4. FlatTo(q, m + 1, g)
    BY <2>3 DEF FlatTo
  <2> QED
    BY <2>4
<1> HIDE DEF T
<1>3. Nat \subseteq T
  BY <1>1, <1>2, SetInduction
<1> QED
  BY <1>3 DEF T

\* FlattenSeq takes the function it means.
LEMMA FlattenDef ==
  ASSUME NEW q, Len(q) \in Nat \ {0}
  PROVE  \E f : FlatTo(q, Len(q), f) /\ FlattenSeq(q) = f[Len(q)]
<1> DEFINE g == CHOOSE f : FlatTo(q, Len(q), f)
<1>1. FlatTo(q, Len(q), g)
  BY FlatToExists
<1>2. FlattenSeq(q) = g[Len(q)]
  BY DEF FlattenSeq, FlatTo
<1> QED
  BY <1>1, <1>2

\* Two such functions agree where both are defined.
LEMMA FlatToAgree ==
  ASSUME NEW q, NEW r, NEW n \in Nat, NEW f, NEW g, NEW m \in Nat, n <= m,
         FlatTo(q, n, f), FlatTo(r, m, g), \A i \in 1..n : q[i] = r[i]
  PROVE  \A i \in 1..n : f[i] = g[i]
<1> DEFINE T == {k \in Nat : k \in 1..n => f[k] = g[k]}
<1>1. 0 \in T
  OBVIOUS
<1>2. ASSUME NEW k \in Nat, k \in T PROVE k + 1 \in T
  <2>1. SUFFICES ASSUME k + 1 \in 1..n PROVE f[k + 1] = g[k + 1]
    OBVIOUS
  <2>2. k + 1 \in 1..m /\ (k + 1) - 1 = k
    BY <2>1
  <2> DEFINE j == k + 1
  <2>3. f[j] = IF j = 1 THEN q[j] ELSE f[j - 1] \o q[j]
    BY <2>1, FlatAt
  <2>4. g[j] = IF j = 1 THEN r[j] ELSE g[j - 1] \o r[j]
    BY <2>2, FlatAt
  <2>5. k + 1 # 1 => k \in 1..n
    BY <2>1
  <2> QED
    BY <1>2, <2>1, <2>3, <2>4, <2>5
<1> HIDE DEF T
<1>3. Nat \subseteq T
  BY <1>1, <1>2, SetInduction
<1> QED
  BY <1>3 DEF T

\* FlattenSeq keeps the type of its elements.
LEMMA FlattenType ==
  ASSUME NEW S, NEW q \in Seq(Seq(S))
  PROVE  FlattenSeq(q) \in Seq(S)
<1>1. CASE Len(q) = 0
  BY <1>1 DEF FlattenSeq
<1>2. CASE Len(q) # 0
  <2>1. PICK f : FlatTo(q, Len(q), f) /\ FlattenSeq(q) = f[Len(q)]
    BY <1>2, FlattenDef
  <2> DEFINE T == {k \in Nat : k \in 1..Len(q) => f[k] \in Seq(S)}
  <2>2. 0 \in T
    OBVIOUS
  <2>3. ASSUME NEW k \in Nat, k \in T PROVE k + 1 \in T
    <3>1. SUFFICES ASSUME k + 1 \in 1..Len(q) PROVE f[k + 1] \in Seq(S)
      OBVIOUS
    <3>2. f[k + 1] = IF k + 1 = 1 THEN q[k + 1] ELSE f[k] \o q[k + 1]
      <4>1. (k + 1) - 1 = k
        OBVIOUS
      <4>2. f[k + 1] = IF k + 1 = 1 THEN q[k + 1] ELSE f[(k + 1) - 1] \o q[k + 1]
        BY <2>1, <3>1, FlatAt
      <4> QED
        BY <4>1, <4>2
    <3>3. q[k + 1] \in Seq(S)
      BY <3>1
    <3>4. k + 1 # 1 => f[k] \in Seq(S)
      BY <2>3, <3>1
    <3> QED
      BY <3>2, <3>3, <3>4
  <2> HIDE DEF T
  <2>4. Nat \subseteq T
    BY <2>2, <2>3, SetInduction
  <2> QED
    BY <1>2, <2>1, <2>4 DEF T
<1> QED
  BY <1>1, <1>2

\* One sequence more.
LEMMA FlattenAppend ==
  ASSUME NEW S, NEW q \in Seq(Seq(S)), NEW c \in Seq(S)
  PROVE  FlattenSeq(Append(q, c)) = FlattenSeq(q) \o c
<1> DEFINE r == Append(q, c)
           n == Len(q)
           m == Len(r)
<1>1. /\ r \in Seq(Seq(S)) /\ m = n + 1 /\ n \in Nat /\ m \in Nat \ {0} /\ n <= m
      /\ r[m] = c /\ \A i \in 1..n : q[i] = r[i]
  OBVIOUS
<1>2. n = 0 => q = <<>>
  OBVIOUS
<1>3. PICK g : FlatTo(r, m, g) /\ FlattenSeq(r) = g[m]
  BY <1>1, FlattenDef
<1> HIDE DEF r, n, m
<1>4. g[m] = IF m = 1 THEN r[m] ELSE g[m - 1] \o r[m]
  <2>1. m \in 1..m
    BY <1>1
  <2> QED
    BY <1>3, <2>1, FlatAt
<1>5. CASE n = 0
  <2>1. FlattenSeq(q) = <<>>
    BY <1>2, <1>5 DEF FlattenSeq
  <2>2. FlattenSeq(r) = c
    <3>1. m = 1 /\ r[m] = c
      BY <1>1, <1>5
    <3> QED
      BY <1>3, <1>4, <3>1
  <2> QED
    BY <2>1, <2>2 DEF r
<1>6. CASE n # 0
  <2>1. PICK f : FlatTo(q, n, f) /\ FlattenSeq(q) = f[n]
    BY <1>1, <1>6, FlattenDef DEF n
  <2>2. \A i \in 1..n : f[i] = g[i]
    <3>1. n \in Nat /\ m \in Nat /\ n <= m /\ \A i \in 1..n : q[i] = r[i]
      BY <1>1
    <3> QED
      <4>1. FlatTo(q, n, f) /\ FlatTo(r, m, g)
        BY <1>3, <2>1
      <4> QED
        BY <3>1, <4>1, FlatToAgree
  <2>3. n \in 1..n /\ m - 1 = n /\ m # 1
    BY <1>1, <1>6
  <2>4. FlattenSeq(r) = f[n] \o c
    BY <1>1, <1>3, <1>4, <2>2, <2>3
  <2> QED
    BY <2>1, <2>4 DEF r
<1> QED
  BY <1>5, <1>6

\* The sequences before and from the k-th on.
LEMMA FlattenSplit ==
  ASSUME NEW S, NEW q \in Seq(Seq(S)), NEW k \in 0..Len(q)
  PROVE  FlattenSeq(SubSeq(q, 1, k)) \o FlattenSeq(SubSeq(q, k + 1, Len(q))) = FlattenSeq(q)
<1> DEFINE n == Len(q)
           F(i, j) == FlattenSeq(SubSeq(q, i, j))
           T == {j \in Nat : k + j \in k..n => F(1, k) \o F(k + 1, k + j) = F(1, k + j)}
<1>1. n \in Nat /\ k \in Nat /\ k <= n
  OBVIOUS
<1>2. \A i \in 1..(n + 1), j \in 0..n : SubSeq(q, i, j) \in Seq(Seq(S))
  OBVIOUS
<1>3. \A i \in 1..(n + 1), j \in 0..n : F(i, j) \in Seq(S)
  BY <1>2, FlattenType
<1>4. 0 \in T
  <2>1. SubSeq(q, k + 1, k) = <<>> /\ k + 0 = k
    BY <1>1
  <2>2. F(k + 1, k) = <<>>
    BY <2>1 DEF FlattenSeq
  <2>3. F(1, k) \in Seq(S)
    BY <1>1, <1>3
  <2> QED
    BY <2>1, <2>2, <2>3
<1>5. ASSUME NEW j \in Nat, j \in T PROVE j + 1 \in T
  <2>1. SUFFICES ASSUME k + (j + 1) \in k..n PROVE F(1, k) \o F(k + 1, k + (j + 1)) = F(1, k + (j + 1))
    OBVIOUS
  <2> DEFINE x == k + j
  <2>2. x + 1 = k + (j + 1) /\ x \in 0..n /\ x + 1 \in 1..n /\ k + j \in k..n
    BY <1>1, <2>1
  <2>3. /\ SubSeq(q, 1, x + 1) = Append(SubSeq(q, 1, x), q[x + 1])
        /\ SubSeq(q, k + 1, x + 1) = Append(SubSeq(q, k + 1, x), q[x + 1])
        /\ q[x + 1] \in Seq(S)
    <3>1. x + 1 \in 1..Len(q) /\ 1 \in 1..Len(q) /\ k + 1 \in 1..Len(q) /\ x + 1 \in (k + 1)..Len(q) /\ (x + 1) - 1 = x
      BY <1>1, <2>2
    <3>2. q[x + 1] \in Seq(S)
      BY <3>1
    <3> HIDE DEF x
    <3>3. ASSUME NEW i \in 1..Len(q), x + 1 \in i..Len(q)
          PROVE  SubSeq(q, i, x + 1) = Append(SubSeq(q, i, x), q[x + 1])
      <4>1. SubSeq(q, i, x + 1) = SubSeq(q, i, x) \o <<q[x + 1]>>
        BY <3>1, <3>3, SubSeqRecursiveSecond
      <4>2. SubSeq(q, i, x) \in Seq(Seq(S))
        BY <3>1, <3>3
      <4> QED
        BY <3>2, <4>1, <4>2, AppendIsConcat
    <3> QED
      BY <3>1, <3>2, <3>3
  <2>8. k + 1 \in 1..(n + 1) /\ 1 \in 1..(n + 1) /\ k \in 0..n
    BY <1>1
  <2>9. SubSeq(q, 1, x) \in Seq(Seq(S)) /\ SubSeq(q, k + 1, x) \in Seq(Seq(S))
    BY <1>2, <2>2, <2>8
  <2>4. /\ F(1, x + 1) = F(1, x) \o q[x + 1]
        /\ F(k + 1, x + 1) = F(k + 1, x) \o q[x + 1]
    BY <2>3, <2>9, FlattenAppend
  <2>5. F(1, k) \o F(k + 1, x) = F(1, x)
    BY <1>5, <2>2
  <2>6. F(1, k) \in Seq(S) /\ F(k + 1, x) \in Seq(S)
    BY <1>3, <2>2, <2>8
  <2> DEFINE a == F(1, k)
             b == F(k + 1, x)
             c == q[x + 1]
  <2>7. a \in Seq(S) /\ b \in Seq(S) /\ c \in Seq(S)
    BY <2>3, <2>6
  <2> HIDE DEF a, b, c
  <2>10. (a \o b) \o c = a \o (b \o c)
    BY <2>7, ConcatAssociative
  <2> HIDE DEF F, x
  <2> QED
    BY <2>2, <2>4, <2>5, <2>10 DEF a, b, c
<1> HIDE DEF T
<1>6. Nat \subseteq T
  BY <1>4, <1>5, SetInduction
<1>7. F(1, k) \o F(k + 1, k + (n - k)) = F(1, k + (n - k))
  <2>1. n - k \in Nat /\ k + (n - k) \in k..n
    BY <1>1
  <2> HIDE DEF F, n
  <2> QED
    BY <1>6, <2>1 DEF T
<1>8. k + (n - k) = n /\ SubSeq(q, 1, n) = q
  BY <1>1
<1> QED
  BY <1>7, <1>8

\* The first sequence and the others.
LEMMA FlattenHead ==
  ASSUME NEW S, NEW q \in Seq(Seq(S)), q # <<>>
  PROVE  FlattenSeq(q) = Head(q) \o FlattenSeq(Tail(q))
<1> DEFINE h == SubSeq(q, 1, 1)
<1>1. Len(q) \in Nat /\ Len(q) # 0 /\ 1 \in 0..Len(q) /\ Head(q) \in Seq(S)
  OBVIOUS
<1>2. FlattenSeq(h) \o FlattenSeq(SubSeq(q, 1 + 1, Len(q))) = FlattenSeq(q)
  BY <1>1, FlattenSplit
<1>3. SubSeq(q, 1 + 1, Len(q)) = Tail(q)
  BY <1>1
<1>4. h = Append(<<>>, Head(q)) /\ <<>> \in Seq(Seq(S))
  <2> DEFINE g == Append(<<>>, q[1])
  <2>1. h \in Seq(Seq(S)) /\ Len(h) = 1 /\ h[1] = q[1]
    BY <1>1
  <2>2. g \in Seq(Seq(S)) /\ Len(g) = 1 /\ g[1] = q[1]
    BY <1>1
  <2> HIDE DEF g, h
  <2>3. \A i \in 1..Len(h) : h[i] = g[i]
    BY <2>1, <2>2
  <2>4. h = g
    BY <2>1, <2>2, <2>3, SeqEqual
  <2> QED
    BY <1>1, <2>4 DEF g
<1> HIDE DEF h
<1>5. FlattenSeq(h) = FlattenSeq(<<>>) \o Head(q)
  BY <1>1, <1>4, FlattenAppend
<1>6. FlattenSeq(<<>>) = <<>>
  BY DEF FlattenSeq
<1>7. <<>> \o Head(q) = Head(q)
  BY <1>1
<1> QED
  BY <1>2, <1>3, <1>5, <1>6, <1>7

\* Max is the greatest element of a set of naturals that is bounded.
LEMMA MaxGreatest ==
  ASSUME NEW n \in Nat, NEW S \in SUBSET (1..n), S # {}
  PROVE  Max(S) \in S /\ \A y \in S : Max(S) >= y
<1> DEFINE T == {m \in Nat : \A R \in SUBSET (1..m) : R # {} => \E x \in R : \A y \in R : x >= y}
<1>1. 0 \in T
  <2>1. 1..0 = {}
    OBVIOUS
  <2> QED
    BY <2>1
<1>2. ASSUME NEW m \in Nat, m \in T PROVE m + 1 \in T
  <2>1. SUFFICES ASSUME NEW R \in SUBSET (1..(m + 1)), R # {} PROVE \E x \in R : \A y \in R : x >= y
    OBVIOUS
  <2>2. CASE m + 1 \in R
    BY <2>2
  <2>3. CASE m + 1 \notin R
    <3>1. R \in SUBSET (1..m)
      BY <2>3
    <3> QED
      BY <1>2, <2>1, <3>1
  <2> QED
    BY <2>2, <2>3
<1> HIDE DEF T
<1>3. n \in T
  BY <1>1, <1>2, SetInduction
<1>4. \E x \in S : \A y \in S : x >= y
  BY <1>3 DEF T
<1> QED
  BY <1>4 DEF Max

\* The recursive function of the sum of L, over the sets of the first n places.
SumTo(L, n, h) ==
  h = [s \in SUBSET (1..n) |-> IF s = {} THEN 0 ELSE h[s \ {Max(s)}] + L[Max(s)]]

\* What such a function is at a set of places.
LEMMA SumAt ==
  ASSUME NEW L, NEW n, NEW h, SumTo(L, n, h), NEW s \in SUBSET (1..n)
  PROVE  h[s] = IF s = {} THEN 0 ELSE h[s \ {Max(s)}] + L[Max(s)]
BY DEF SumTo

\* It exists for any number of places.
LEMMA SumToExists ==
  ASSUME NEW L, NEW n \in Nat
  PROVE  \E h : SumTo(L, n, h)
<1> DEFINE T == {m \in Nat : \E h : SumTo(L, m, h)}
<1>1. 0 \in T
  <2> DEFINE g == [s \in SUBSET (1..0) |-> 0]
  <2>1. \A h : [s \in SUBSET (1..0) |-> IF s = {} THEN 0 ELSE h[s \ {Max(s)}] + L[Max(s)]] = g
    OBVIOUS
  <2>2. SumTo(L, 0, g)
    BY <2>1 DEF SumTo
  <2> QED
    BY <2>2
<1>2. ASSUME NEW m \in Nat, m \in T PROVE m + 1 \in T
  <2>1. PICK f : SumTo(L, m, f)
    BY <1>2
  <2> DEFINE p == m + 1
  <2>5. p \in Nat /\ 1..m = (1..p) \ {p} /\ \A y \in 1..p : y <= p /\ y \in Int
    OBVIOUS
  <2> HIDE DEF p
  <2> DEFINE g == [s \in SUBSET (1..p) |-> IF p \in s THEN f[s \ {p}] + L[p] ELSE f[s]]
             h == [s \in SUBSET (1..p) |-> IF s = {} THEN 0 ELSE g[s \ {Max(s)}] + L[Max(s)]]
  <2>2. ASSUME NEW s \in SUBSET (1..p) PROVE g[s] = h[s]
    <3>1. CASE p \in s
      <4>1. Max(s) = p
        <5>1. Max(s) \in s /\ \A y \in s : Max(s) >= y
          BY <2>5, <3>1, MaxGreatest
        <5>2. Max(s) >= p /\ Max(s) \in 1..p
          BY <3>1, <5>1
        <5> QED
          BY <2>5, <5>2
      <4>2. s \ {p} \in SUBSET (1..p) /\ p \notin s \ {p}
        OBVIOUS
      <4>3. g[s \ {p}] = f[s \ {p}]
        BY <4>2
      <4> QED
        BY <3>1, <4>1, <4>3
    <3>2. CASE p \notin s
      <4>1. s \in SUBSET (1..m)
        BY <2>5, <3>2
      <4>2. f[s] = IF s = {} THEN 0 ELSE f[s \ {Max(s)}] + L[Max(s)]
        BY <2>1, <4>1, SumAt
      <4>3. s \ {Max(s)} \in SUBSET (1..p) /\ p \notin s \ {Max(s)}
        BY <3>2
      <4>4. g[s \ {Max(s)}] = f[s \ {Max(s)}] /\ g[s] = f[s]
        BY <3>2, <4>3
      <4> QED
        BY <4>2, <4>4
    <3> QED
      BY <3>1, <3>2
  <2>3. g = h
    BY <2>2
  <2>4. SumTo(L, p, g)
    BY <2>3 DEF SumTo
  <2> QED
    BY <2>4 DEF p
<1> HIDE DEF T
<1>3. Nat \subseteq T
  BY <1>1, <1>2, SetInduction
<1> QED
  BY <1>3 DEF T

\* Over the first places it adds one after the other.
LEMMA SumSegment ==
  ASSUME NEW L, NEW n \in Nat, NEW h, SumTo(L, n, h), NEW k \in Nat, k + 1 <= n
  PROVE  h[1..(k + 1)] = h[1..k] + L[k + 1]
<1> DEFINE s == 1..(k + 1)
<1>1. s \in SUBSET (1..n) /\ s # {} /\ k + 1 \in s
  OBVIOUS
<1>2. Max(s) \in s /\ \A y \in s : Max(s) >= y
  BY <1>1, MaxGreatest
<1>3. Max(s) = k + 1
  BY <1>1, <1>2
<1>4. s \ {k + 1} = 1..k
  OBVIOUS
<1> HIDE DEF s
<1>5. h[s] = h[s \ {Max(s)}] + L[Max(s)]
  BY <1>1, SumAt
<1> QED
  BY <1>3, <1>4, <1>5 DEF s

\* L and M are the same at the first n places.
SameTo(L, M, n) == \A i \in 1..n : L[i] = M[i]

\* Two such functions agree on the first places where both are defined.
LEMMA SumAgree ==
  ASSUME NEW L, NEW M, NEW n \in Nat, NEW m \in Nat, n <= m, NEW f, NEW g,
         SumTo(L, n, f), SumTo(M, m, g), SameTo(L, M, n)
  PROVE  \A k \in 0..n : f[1..k] = g[1..k]
<1> DEFINE T == {k \in Nat : k <= n => f[1..k] = g[1..k]}
<1>1. 0 \in T
  <2>1. {} \in SUBSET (1..n) /\ {} \in SUBSET (1..m) /\ 1..0 = {}
    OBVIOUS
  <2>2. f[{}] = 0 /\ g[{}] = 0
    BY <2>1, SumAt
  <2> QED
    BY <2>1, <2>2
<1>2. ASSUME NEW k \in Nat, k \in T PROVE k + 1 \in T
  <2>1. SUFFICES ASSUME k + 1 <= n PROVE f[1..(k + 1)] = g[1..(k + 1)]
    OBVIOUS
  <2>2. f[1..k] = g[1..k] /\ L[k + 1] = M[k + 1] /\ k + 1 <= m
    BY <1>2, <2>1 DEF SameTo
  <2>3. f[1..(k + 1)] = f[1..k] + L[k + 1]
    BY <2>1, SumSegment
  <2>4. g[1..(k + 1)] = g[1..k] + M[k + 1]
    BY <2>2, SumSegment
  <2> QED
    BY <2>2, <2>3, <2>4
<1> HIDE DEF T
<1>3. Nat \subseteq T
  BY <1>1, <1>2, SetInduction
<1> QED
  BY <1>3 DEF T
=============================================================================
