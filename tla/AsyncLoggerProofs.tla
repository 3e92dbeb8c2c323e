-------------------------- MODULE AsyncLoggerProofs -------------------------
(***************************************************************************)
(* The asynchronous logger, for any threads, message lengths, capacity and *)
(* failing system calls.  First the null buffer: the pointers of a line are*)
(* empty for a while, between the push of a filled buffer into the queue   *)
(* and the next call that gets a standby one.  The proof shows that this   *)
(* gap is closed before anyone looks, as long as no thread logs while the  *)
(* background thread works on its line.  Then the order: what a thread     *)
(* logged is spread over five places, and each step moves the border of two*)
(* neighbours only.                                                        *)
(***************************************************************************)
EXTENDS AsyncLogger, SequenceLemmas

\* What Only flattens.
Singles(s, S) == [i \in DOMAIN s |-> IF s[i] \in S THEN <<s[i]>> ELSE <<>>]

\* Only keeps the type of the elements.
LEMMA OnlyType ==
  ASSUME NEW A, NEW S, NEW s \in Seq(A)
  PROVE  /\ Singles(s, S) \in Seq(Seq(A)) /\ Len(Singles(s, S)) = Len(s)
         /\ \A i \in 1..Len(s) : Singles(s, S)[i] = IF s[i] \in S THEN <<s[i]>> ELSE <<>>
         /\ Only(s, S) = FlattenSeq(Singles(s, S)) /\ Only(s, S) \in Seq(A)
<1>1. DOMAIN s = 1..Len(s) /\ Len(s) \in Nat
  OBVIOUS
<1>2. ASSUME NEW i \in 1..Len(s) PROVE (IF s[i] \in S THEN <<s[i]>> ELSE <<>>) \in Seq(A)
  <2>1. s[i] \in A
    OBVIOUS
  <2> QED
    BY <2>1
<1>3. /\ Singles(s, S) \in Seq(Seq(A)) /\ Len(Singles(s, S)) = Len(s)
      /\ \A i \in 1..Len(s) : Singles(s, S)[i] = IF s[i] \in S THEN <<s[i]>> ELSE <<>>
  BY <1>1, <1>2 DEF Singles
<1>4. Only(s, S) = FlattenSeq(Singles(s, S))
  BY DEF Only, Singles
<1>5. FlattenSeq(Singles(s, S)) \in Seq(A)
  BY <1>3, FlattenType
<1> QED
  BY <1>3, <1>4, <1>5

\* Only takes the elements one by one.
LEMMA OnlyAppend ==
  ASSUME NEW A, NEW S, NEW s \in Seq(A), NEW m \in A
  PROVE  Only(Append(s, m), S) = IF m \in S THEN Append(Only(s, S), m) ELSE Only(s, S)
<1> DEFINE p == Singles(s, S)
           c == IF m \in S THEN <<m>> ELSE <<>>
           r == Append(s, m)
           q == Singles(r, S)
<1>1. p \in Seq(Seq(A)) /\ Len(p) = Len(s) /\ \A i \in 1..Len(s) : p[i] = IF s[i] \in S THEN <<s[i]>> ELSE <<>>
  BY OnlyType
<1>2. c \in Seq(A)
  OBVIOUS
<1>3. /\ r \in Seq(A) /\ Len(r) = Len(s) + 1 /\ r[Len(s) + 1] = m
      /\ \A i \in 1..Len(s) : r[i] = s[i]
  OBVIOUS
<1>4. q \in Seq(Seq(A)) /\ Len(q) = Len(r) /\ \A i \in 1..Len(r) : q[i] = IF r[i] \in S THEN <<r[i]>> ELSE <<>>
  <2> HIDE DEF r
  <2> QED
    BY <1>3, OnlyType
<1>5. Only(s, S) = FlattenSeq(p) /\ Only(r, S) = FlattenSeq(q)
  BY DEF Only, Singles
<1> HIDE DEF p, q, c, r
<1>6. q = Append(p, c)
  <2> DEFINE g == Append(p, c)
  <2>a. Len(s) \in Nat /\ Len(p) = Len(s) /\ Len(q) = Len(s) + 1
    BY <1>1, <1>3, <1>4
  <2>b. p \in Seq(Seq(A)) /\ c \in Seq(A)
    BY <1>1, <1>2 DEF c
  <2>c. g \in Seq(Seq(A)) /\ Len(g) = Len(p) + 1
    BY <2>b
  <2>1. g \in Seq(Seq(A)) /\ Len(g) = Len(q) /\ Len(s) \in Nat
    BY <2>a, <2>c
  <2>2. ASSUME NEW i \in 1..Len(q) PROVE g[i] = q[i]
    <3>1. CASE i = Len(s) + 1
      <4>1. q[i] = c
        BY <1>3, <1>4, <3>1 DEF c
      <4>2. g[i] = c
        BY <1>1, <1>2, <3>1
      <4> QED
        BY <4>1, <4>2
    <3>2. CASE i # Len(s) + 1
      <4>1. i \in 1..Len(s)
        BY <1>3, <1>4, <2>1, <3>2
      <4>2. g[i] = p[i]
        BY <1>1, <1>2, <4>1
      <4>3. i \in 1..Len(r) /\ r[i] = s[i]
        BY <1>3, <1>4, <4>1
      <4> QED
        BY <1>1, <1>4, <4>1, <4>2, <4>3
    <3> QED
      BY <3>1, <3>2
  <2> HIDE DEF g
  <2>3. g = q
    BY <1>4, <2>1, <2>2, SeqEqual
  <2> QED
    BY <2>3 DEF g
<1>7. FlattenSeq(p) \in Seq(A)
  BY <1>1, FlattenType
<1>8. FlattenSeq(q) = FlattenSeq(p) \o c
  BY <1>1, <1>2, <1>6, FlattenAppend
<1> DEFINE f == FlattenSeq(p)
<1>9. f \o c = IF m \in S THEN Append(f, m) ELSE f
  <2> HIDE DEF f
  <2>1. f \in Seq(A)
    BY <1>7 DEF f
  <2>2. CASE m \in S
    <3>1. f \o <<m>> = Append(f, m)
      BY <2>1
    <3> QED
      BY <2>2, <3>1 DEF c
  <2>3. CASE m \notin S
    BY <2>1, <2>3 DEF c
  <2> QED
    BY <2>2, <2>3
<1> QED
  BY <1>5, <1>7, <1>8, <1>9 DEF r

\* There is nothing to keep of an empty sequence.
LEMMA OnlyEmpty == \A S : Only(<<>>, S) = <<>>
<1>1. SUFFICES ASSUME NEW S PROVE Only(<<>>, S) = <<>>
  OBVIOUS
<1>2. [i \in DOMAIN <<>> |-> IF <<>>[i] \in S THEN <<<<>>[i]>> ELSE <<>>] = <<>>
  OBVIOUS
<1>3. FlattenSeq(<<>>) = <<>>
  BY DEF FlattenSeq
<1> QED
  BY <1>2, <1>3 DEF Only

\* Only is the same for sets that agree on the elements.
LEMMA OnlySame ==
  ASSUME NEW s, NEW S, NEW R, \A i \in DOMAIN s : s[i] \in S <=> s[i] \in R
  PROVE  Only(s, S) = Only(s, R)
<1>1. [i \in DOMAIN s |-> IF s[i] \in S THEN <<s[i]>> ELSE <<>>] = [i \in DOMAIN s |-> IF s[i] \in R THEN <<s[i]>> ELSE <<>>]
  OBVIOUS
<1> QED
  BY <1>1 DEF Only

\* Only takes the parts of a sequence one after the other.
LEMMA OnlyConcat ==
  ASSUME NEW A, NEW S, NEW s \in Seq(A), NEW r \in Seq(A)
  PROVE  Only(s \o r, S) = Only(s, S) \o Only(r, S)
<1> DEFINE T == {x \in Seq(A) : Only(s \o x, S) = Only(s, S) \o Only(x, S)}
<1>1. <<>> \in T
  <2>1. s \o <<>> = s /\ Only(<<>>, S) = <<>>
    BY OnlyEmpty
  <2>2. Only(s, S) \in Seq(A)
    BY OnlyType
  <2> DEFINE o == Only(s, S)
  <2>3. o \o <<>> = o
    <3> HIDE DEF o
    <3> QED
      BY <2>2 DEF o
  <2>4. Only(s \o <<>>, S) = Only(s, S) \o Only(<<>>, S)
    BY <2>1, <2>3
  <2>5. <<>> \in Seq(A)
    OBVIOUS
  <2> QED
    BY <2>4, <2>5
<1>2. ASSUME NEW x \in Seq(A), x \in T, NEW m \in A PROVE Append(x, m) \in T
  <2> DEFINE o == Only(s, S)
             p == Only(x, S)
             y == s \o x
  <2>1. o \in Seq(A) /\ p \in Seq(A) /\ y \in Seq(A)
    BY OnlyType
  <2>2. s \o Append(x, m) = Append(y, m)
    BY <1>2
  <2>3. Only(y, S) = o \o p
    BY <1>2
  <2>4. Only(Append(y, m), S) = IF m \in S THEN Append(Only(y, S), m) ELSE Only(y, S)
    <3> HIDE DEF y
    <3>1. y \in Seq(A)
      BY <2>1
    <3> QED
      BY <3>1, OnlyAppend
  <2>5. Only(Append(x, m), S) = IF m \in S THEN Append(p, m) ELSE p
    BY OnlyAppend
  <2>6. o \o Append(p, m) = Append(o \o p, m)
    <3> HIDE DEF o, p
    <3> QED
      BY <2>1
  <2>7. Append(x, m) \in Seq(A)
    OBVIOUS
  <2>8. Only(s \o Append(x, m), S) = o \o Only(Append(x, m), S)
    <3> HIDE DEF o, p, y
    <3> QED
      BY <2>2, <2>3, <2>4, <2>5, <2>6
  <2> QED
    BY <2>7, <2>8
<1> HIDE DEF T
<1>3. Seq(A) \subseteq T
  BY <1>1, <1>2, SeqInduction
<1> QED
  BY <1>3 DEF T

\* None of the elements.
LEMMA OnlyNone ==
  ASSUME NEW A, NEW S, NEW s \in Seq(A), \A i \in DOMAIN s : s[i] \notin S
  PROVE  Only(s, S) = <<>>
<1> DEFINE T == {x \in Seq(A) : Only(x, {}) = <<>>}
<1>1. <<>> \in T
  BY OnlyEmpty
<1>2. ASSUME NEW x \in Seq(A), x \in T, NEW m \in A PROVE Append(x, m) \in T
  <2>1. Only(Append(x, m), {}) = IF m \in {} THEN Append(Only(x, {}), m) ELSE Only(x, {})
    BY OnlyAppend
  <2> QED
    BY <1>2, <2>1
<1> HIDE DEF T
<1>3. Seq(A) \subseteq T
  BY <1>1, <1>2, SeqInduction
<1>4. Only(s, {}) = <<>>
  BY <1>3 DEF T
<1>5. Only(s, S) = Only(s, {})
  BY OnlySame
<1> QED
  BY <1>4, <1>5

\* The last element is kept or not; it is nowhere else.
LEMMA OnlyLast ==
  ASSUME NEW A, NEW S, NEW s \in Seq(A), s # <<>>, NEW m, m = s[Len(s)],
         \A i \in 1..Len(s) : s[i] = m => i = Len(s)
  PROVE  Only(s, S) = IF m \in S THEN Append(Only(s, S \ {m}), m) ELSE Only(s, S \ {m})
<1> DEFINE n == Len(s) - 1
           f == SubSeq(s, 1, n)
<1>0. Len(s) \in Nat /\ Len(s) # 0
  OBVIOUS
<1>1. n \in Nat /\ Len(s) = n + 1 /\ Len(s) \in 1..Len(s) /\ m \in A
  <2>1. n \in Nat /\ Len(s) = n + 1 /\ Len(s) \in 1..Len(s)
    BY <1>0
  <2>2. \A i \in 1..Len(s) : s[i] \in A
    OBVIOUS
  <2> QED
    BY <2>1, <2>2
<1> HIDE DEF n
<1>2. f \in Seq(A) /\ Len(f) = n /\ \A i \in 1..n : f[i] = s[i]
  BY <1>1
<1>3. s = Append(f, m)
  <2> DEFINE g == Append(f, m)
  <2>1. g \in Seq(A) /\ Len(g) = Len(s)
    BY <1>1, <1>2
  <2>2. ASSUME NEW i \in 1..Len(s) PROVE g[i] = s[i]
    <3>1. CASE i = n + 1
      BY <1>1, <1>2, <3>1
    <3>2. CASE i # n + 1
      <4>1. i \in 1..n
        BY <1>1, <3>2
      <4> QED
        BY <1>2, <4>1
    <3> QED
      BY <3>1, <3>2
  <2> HIDE DEF g, f
  <2>3. g = s
    BY <2>1, <2>2, SeqEqual
  <2> QED
    BY <2>3 DEF g
<1> HIDE DEF f
<1>a. \A R : \A g \in Seq(A), x \in A : Only(Append(g, x), R) = IF x \in R THEN Append(Only(g, R), x) ELSE Only(g, R)
  BY OnlyAppend
<1>b. f \in Seq(A) /\ m \in A
  BY <1>1, <1>2
<1>4. Only(s, S) = IF m \in S THEN Append(Only(f, S), m) ELSE Only(f, S)
  <2>1. Only(Append(f, m), S) = IF m \in S THEN Append(Only(f, S), m) ELSE Only(f, S)
    BY <1>a, <1>b, Zenon
  <2> QED
    BY <1>3, <2>1, Zenon
<1>5. Only(s, S \ {m}) = Only(f, S \ {m})
  <2>1. Only(Append(f, m), S \ {m}) = IF m \in S \ {m} THEN Append(Only(f, S \ {m}), m) ELSE Only(f, S \ {m})
    BY <1>a, <1>b
  <2> QED
    BY <1>3, <2>1
<1>6. Only(f, S) = Only(f, S \ {m})
  <2>1. ASSUME NEW i \in DOMAIN f PROVE f[i] # m
    <3>1. i \in 1..n /\ i \in 1..Len(s) /\ i # Len(s)
      BY <1>1, <1>2
    <3> QED
      BY <1>2, <3>1
  <2> QED
    BY <2>1, OnlySame
<1> QED
  BY <1>4, <1>5, <1>6

\* Bytes is the sum of the lengths.
LEMMA BytesSum ==
  ASSUME NEW A, NEW s \in Seq(A)
  PROVE  \E h : SumTo([i \in 1..Len(s) |-> s[i].z], Len(s), h) /\ Bytes(s) = h[1..Len(s)]
<1> DEFINE L == [i \in 1..Len(s) |-> s[i].z]
           n == Len(s)
           g == CHOOSE h : SumTo(L, n, h)
<1>1. n \in Nat /\ DOMAIN s = 1..n
  OBVIOUS
<1>2. SumTo(L, n, g)
  BY <1>1, SumToExists
<1>3. \A h : [x \in SUBSET (1..n) |-> IF x = {} THEN 0 ELSE h[x \ {Max(x)}] + s[Max(x)].z]
           = [x \in SUBSET (1..n) |-> IF x = {} THEN 0 ELSE h[x \ {Max(x)}] + L[Max(x)]]
  <2>1. ASSUME NEW x \in SUBSET (1..n), x # {} PROVE L[Max(x)] = s[Max(x)].z
    <3>1. Max(x) \in 1..n
      BY <1>1, <2>1, MaxGreatest
    <3> QED
      BY <3>1
  <2> HIDE DEF L
  <2> QED
    BY <2>1
<1>4. Bytes(s) = g[1..n]
  <2> DEFINE it(D) == CHOOSE h : h = [x \in SUBSET D |-> IF x = {} THEN 0 ELSE h[x \ {Max(x)}] + s[Max(x)].z]
  <2>1. Bytes(s) = it(DOMAIN s)[DOMAIN s]
    BY DEF Bytes, FoldLeft, MapThenFoldSet, Max
  <2>2. g = it(1..n)
    <3>1. \A h : SumTo(L, n, h) <=> h = [x \in SUBSET (1..n) |-> IF x = {} THEN 0 ELSE h[x \ {Max(x)}] + s[Max(x)].z]
      <4> HIDE DEF L
      <4> QED
        BY <1>3 DEF SumTo
    <3> HIDE DEF L
    <3> QED
      BY <3>1
  <2> HIDE DEF it, g
  <2> QED
    BY <1>1, <2>1, <2>2
<1> HIDE DEF g
<1> QED
  BY <1>2, <1>4

\* One message more.
LEMMA BytesAppend ==
  ASSUME NEW A, NEW s \in Seq(A), NEW m \in A
  PROVE  Bytes(Append(s, m)) = Bytes(s) + m.z
<1> DEFINE r == Append(s, m)
           n == Len(s)
           k == Len(r)
           L == [i \in 1..n |-> s[i].z]
           M == [i \in 1..k |-> r[i].z]
<1>1. /\ r \in Seq(A) /\ n \in Nat /\ k \in Nat /\ k = n + 1 /\ n <= k /\ n + 1 <= k
      /\ r[n + 1] = m /\ \A i \in 1..n : r[i] = s[i]
  OBVIOUS
<1> HIDE DEF r
<1>2. PICK f : SumTo(L, n, f) /\ Bytes(s) = f[1..n]
  BY BytesSum
<1>3. PICK g : SumTo(M, k, g) /\ Bytes(r) = g[1..k]
  BY <1>1, BytesSum
<1> HIDE DEF n, k
<1>4. (\A i \in 1..n : L[i] = M[i]) /\ M[n + 1] = m.z
  BY <1>1
<1> HIDE DEF L, M
<1>5. \A i \in 0..n : f[1..i] = g[1..i]
  <2>1. SumTo(L, n, f) /\ SumTo(M, k, g) /\ n \in Nat /\ k \in Nat /\ n <= k
    BY <1>1, <1>2, <1>3
  <2>2. SameTo(L, M, n)
    BY <1>4 DEF SameTo
  <2> QED
    BY <2>1, <2>2, SumAgree
<1>6. g[1..(n + 1)] = g[1..n] + M[n + 1]
  BY <1>1, <1>3, SumSegment
<1>7. n \in 0..n
  BY <1>1
<1>8. g[1..k] = f[1..n] + m.z
  BY <1>1, <1>4, <1>5, <1>6, <1>7
<1> QED
  BY <1>2, <1>3, <1>8 DEF r

\* An empty buffer has no bytes.
LEMMA BytesEmpty == Bytes(<<>>) = 0
<1>1. <<>> \in Seq({}) /\ Len(<<>>) = 0 /\ 1..0 = {} /\ {} \in SUBSET (1..0)
  OBVIOUS
<1>2. PICK h : SumTo([i \in 1..Len(<<>>) |-> <<>>[i].z], Len(<<>>), h) /\ Bytes(<<>>) = h[1..Len(<<>>)]
  BY <1>1, BytesSum
<1> DEFINE L == [i \in 1..Len(<<>>) |-> <<>>[i].z]
<1>3. SumTo(L, 0, h) /\ Bytes(<<>>) = h[{}]
  BY <1>1, <1>2
<1> HIDE DEF L
<1>4. h[{}] = 0
  BY <1>1, <1>3, SumAt
<1> QED
  BY <1>3, <1>4

\* The length of a buffer is a number.
LEMMA BytesNat ==
  ASSUME NEW A, \A m \in A : m.z \in Nat, NEW s \in Seq(A)
  PROVE  Bytes(s) \in Nat
<1> DEFINE T == {x \in Seq(A) : Bytes(x) \in Nat}
<1>1. <<>> \in T
  BY BytesEmpty
<1>2. ASSUME NEW x \in Seq(A), x \in T, NEW m \in A PROVE Append(x, m) \in T
  <2>1. Bytes(Append(x, m)) = Bytes(x) + m.z
    BY BytesAppend
  <2>2. m.z \in Nat /\ Bytes(x) \in Nat /\ Append(x, m) \in Seq(A)
    BY <1>2
  <2> QED
    BY <2>1, <2>2
<1> HIDE DEF T
<1>3. Seq(A) \subseteq T
  BY <1>1, <1>2, SeqInduction
<1> QED
  BY <1>3 DEF T

-----------------------------------------------------------------------------
(* The places of a message *)

\* Messages count from one; a buffer holds messages, a pointer may be empty.
Msg == [t : Threads, n : Nat \ {0}, z : Sizes]
Buffer == Seq(Msg)
Pointer == Buffer \cup {Null}

\* What pointers may point to: messages, or the place of an empty pointer.
Cell == Msg \cup {NoMsg}

\* All there is of thread t: on disk d, in the hand h of the background thread,
\* in the queue f, in the standby buffer y and in the work buffer x.
Chain(d, h, f, y, x, t) == Only(d \o h \o FlattenSeq(f) \o y \o x, MessagesOf(t))

\* The same, part by part.
Parts(d, h, g, y, x) == (((d \o h) \o g) \o y) \o x

\* Buffers and pointers are sequences of cells, and of an empty pointer no
\* message is kept.
LEMMA PointerCells ==
  /\ Buffer \subseteq Seq(Cell) /\ Pointer \subseteq Seq(Cell) /\ <<>> \in Buffer
  /\ \A f \in Seq(Buffer) : FlattenSeq(f) \in Buffer
  /\ \A S : Only(<<>>, S) = <<>>
  /\ \A t \in Threads : Only(Null, MessagesOf(t)) = <<>>
<1>1. Buffer \subseteq Seq(Cell)
  BY SeqMonotonic DEF Buffer, Cell
<1>2. Null \in Seq(Cell)
  BY DEF Null, Cell
<1>3. ASSUME NEW f \in Seq(Buffer) PROVE FlattenSeq(f) \in Buffer
  BY FlattenType DEF Buffer
<1>4. ASSUME NEW t \in Threads PROVE Only(Null, MessagesOf(t)) = <<>>
  <2>1. \A i \in DOMAIN Null : Null[i] \notin MessagesOf(t)
    BY DEF Null, NoMsg, MessagesOf
  <2> QED
    BY <1>2, <2>1, OnlyNone
<1>5. <<>> \in Buffer
  BY DEF Buffer
<1> QED
  BY <1>1, <1>2, <1>3, <1>4, <1>5, OnlyEmpty DEF Pointer

\* The messages of a thread, place by place: on the disk, in the hand of the
\* background thread, queued, in the standby buffer and in the one in use.
LEMMA ChainParts ==
  ASSUME NEW t \in Threads, NEW d \in Buffer, NEW h \in Buffer, NEW f \in Seq(Buffer),
         NEW y \in Pointer, NEW x \in Pointer
  PROVE  LET M == MessagesOf(t)
         IN /\ Chain(d, h, f, y, x, t)
                 = Parts(Only(d, M), Only(h, M), Only(FlattenSeq(f), M), Only(y, M), Only(x, M))
            /\ Only(d, M) \in Seq(Cell) /\ Only(h, M) \in Seq(Cell) /\ Only(FlattenSeq(f), M) \in Seq(Cell)
            /\ Only(y, M) \in Seq(Cell) /\ Only(x, M) \in Seq(Cell)
<1> DEFINE M == MessagesOf(t)
           g == FlattenSeq(f)
           dh == d \o h
           dhg == dh \o g
           dhgy == dhg \o y
<1>1. d \in Seq(Cell) /\ h \in Seq(Cell) /\ g \in Seq(Cell) /\ y \in Seq(Cell) /\ x \in Seq(Cell)
  BY PointerCells
<1> HIDE DEF g
<1>2. dh \in Seq(Cell)
  BY <1>1
<1> HIDE DEF dh
<1>3. dhg \in Seq(Cell)
  BY <1>1, <1>2
<1> HIDE DEF dhg
<1>4. dhgy \in Seq(Cell)
  BY <1>1, <1>3
<1> HIDE DEF dhgy
<1>c. \A u, v \in Seq(Cell) : Only(u \o v, M) = Only(u, M) \o Only(v, M)
  BY OnlyConcat
<1>5. Only(dh, M) = Only(d, M) \o Only(h, M)
  BY <1>1, <1>c DEF dh
<1>6. Only(dhg, M) = Only(dh, M) \o Only(g, M)
  BY <1>1, <1>2, <1>c DEF dhg
<1>7. Only(dhgy, M) = Only(dhg, M) \o Only(y, M)
  BY <1>1, <1>3, <1>c DEF dhgy
<1>8. Only(dhgy \o x, M) = Only(dhgy, M) \o Only(x, M)
  BY <1>1, <1>4, <1>c
<1>9. Chain(d, h, f, y, x, t) = Only(dhgy \o x, M)
  BY DEF Chain, dhgy, dhg, dh, g
<1>10. \A u \in Seq(Cell) : Only(u, M) \in Seq(Cell)
  BY OnlyType
<1>11. /\ Only(d, M) \in Seq(Cell) /\ Only(h, M) \in Seq(Cell) /\ Only(g, M) \in Seq(Cell)
       /\ Only(y, M) \in Seq(Cell) /\ Only(x, M) \in Seq(Cell)
  BY <1>1, <1>10
<1>12. Chain(d, h, f, y, x, t) = Parts(Only(d, M), Only(h, M), Only(g, M), Only(y, M), Only(x, M))
  BY <1>5, <1>6, <1>7, <1>8, <1>9 DEF Parts
<1> QED
  BY <1>11, <1>12 DEF g

\* Concatenation of sequences over C is associative.
Associates(C) == \A u, v, w \in Seq(C) : (u \o v) \o w = u \o (v \o w)

\* Concatenation is associative.
LEMMA Joined == \A C : Associates(C)
<1>1. ASSUME NEW C, NEW u \in Seq(C), NEW v \in Seq(C), NEW w \in Seq(C) PROVE (u \o v) \o w = u \o (v \o w)
  OBVIOUS
<1> QED
  BY <1>1 DEF Associates

\* What may be moved between the parts.
LEMMA PartsMove ==
  ASSUME NEW C, NEW d \in Seq(C), NEW h \in Seq(C), NEW g \in Seq(C), NEW y \in Seq(C), NEW x \in Seq(C)
  PROVE  /\ Parts(d, h, g, <<>>, x) = Parts(d, h, g, x, <<>>)
         /\ Parts(d, h, g \o y, <<>>, x) = Parts(d, h, g, y, x)
         /\ Parts(d, <<>>, h \o g, y, x) = Parts(d, h, g, y, x)
         /\ Parts(d \o h, <<>>, g, y, x) = Parts(d, h, g, y, x)
<1>1. Associates(C)
  BY Joined
<1>2. ASSUME NEW u \in Seq(C) PROVE u \o <<>> = u
  OBVIOUS
<1>3. ASSUME NEW u \in Seq(C), NEW v \in Seq(C) PROVE u \o v \in Seq(C)
  OBVIOUS
<1> DEFINE e == d \o h
           k == e \o g
<1>e. e \in Seq(C) /\ h \o g \in Seq(C) /\ g \o y \in Seq(C) /\ e \o <<>> = e /\ d \o <<>> = d
  BY <1>3, <1>2
<1>f. e \o g = d \o (h \o g)
  BY <1>1, Zenon DEF Associates
<1> HIDE DEF e
<1>k. k \in Seq(C) /\ e \o (g \o y) = k \o y
  <2>1. k \in Seq(C)
    BY <1>e, <1>3, Zenon
  <2>2. (e \o g) \o y = e \o (g \o y)
    <3>1. e \in Seq(C)
      BY <1>e, Zenon
    <3> QED
      BY <1>1, <3>1, Zenon DEF Associates
  <2> QED
    BY <2>1, <2>2, Zenon
<1> HIDE DEF k
<1>a. k \o y \in Seq(C) /\ k \o x \in Seq(C) /\ k \o <<>> = k
  BY <1>k, <1>3, <1>2
<1>b. (k \o x) \o <<>> = k \o x /\ (k \o y) \o <<>> = k \o y
  BY <1>a, <1>2
<1>4. Parts(d, h, g, <<>>, x) = Parts(d, h, g, x, <<>>)
  BY <1>a, <1>b, Zenon DEF Parts, k, e
<1>5. Parts(d, h, g \o y, <<>>, x) = Parts(d, h, g, y, x)
  <2>2. (e \o (g \o y)) \o <<>> = k \o y
    BY <1>b, <1>k
  <2> QED
    BY <2>2, Zenon DEF Parts, e, k
<1>6. Parts(d, <<>>, h \o g, y, x) = Parts(d, h, g, y, x)
  <2>1. (d \o <<>>) \o (h \o g) = k
    BY <1>e, <1>f DEF k
  <2> QED
    BY <2>1, Zenon DEF Parts, k, e
<1>7. Parts(d \o h, <<>>, g, y, x) = Parts(d, h, g, y, x)
  BY <1>e, Zenon DEF Parts, e
<1> QED
  BY <1>4, <1>5, <1>6, <1>7

\* A standby buffer in the place of an empty pointer holds nothing either.
LEMMA ChainFetch ==
  ASSUME NEW t \in Threads, NEW d \in Buffer, NEW h \in Buffer, NEW f \in Seq(Buffer), NEW x \in Pointer
  PROVE  Chain(d, h, f, Null, x, t) = Chain(d, h, f, <<>>, x, t)
<1>1. Null \in Pointer /\ <<>> \in Pointer
  BY PointerCells DEF Pointer
<1> QED
  BY <1>1, ChainParts, PointerCells

\* Swapping with an empty standby buffer keeps the order.
LEMMA ChainSwap ==
  ASSUME NEW t \in Threads, NEW d \in Buffer, NEW h \in Buffer, NEW f \in Seq(Buffer), NEW x \in Pointer
  PROVE  Chain(d, h, f, x, <<>>, t) = Chain(d, h, f, <<>>, x, t)
<1> DEFINE M == MessagesOf(t)
<1>1. <<>> \in Pointer /\ Only(<<>>, M) = <<>>
  BY PointerCells DEF Pointer
<1>2. Chain(d, h, f, x, <<>>, t) = Parts(Only(d, M), Only(h, M), Only(FlattenSeq(f), M), Only(x, M), Only(<<>>, M))
  BY <1>1, ChainParts
<1>3. /\ Chain(d, h, f, <<>>, x, t) = Parts(Only(d, M), Only(h, M), Only(FlattenSeq(f), M), Only(<<>>, M), Only(x, M))
      /\ Only(d, M) \in Seq(Cell) /\ Only(h, M) \in Seq(Cell) /\ Only(FlattenSeq(f), M) \in Seq(Cell)
      /\ Only(x, M) \in Seq(Cell)
  BY <1>1, ChainParts
<1> QED
  BY <1>1, <1>2, <1>3, PartsMove

\* A standby buffer that is queued is behind what was queued before it.
LEMMA ChainQueue ==
  ASSUME NEW t \in Threads, NEW d \in Buffer, NEW h \in Buffer, NEW f \in Seq(Buffer), NEW y \in Buffer, NEW x \in Pointer
  PROVE  Chain(d, h, Append(f, y), Null, x, t) = Chain(d, h, f, y, x, t)
<1> DEFINE M == MessagesOf(t)
           F == Append(f, y)
           g == FlattenSeq(f)
<1>1. Null \in Pointer /\ Only(Null, M) = <<>> /\ y \in Pointer /\ g \in Buffer
  BY PointerCells DEF Pointer
<1>2. F \in Seq(Buffer)
  OBVIOUS
<1>3. FlattenSeq(F) = g \o y
  BY FlattenAppend DEF Buffer
<1>4. Only(g \o y, M) = Only(g, M) \o Only(y, M)
  <2>1. g \in Seq(Cell) /\ y \in Seq(Cell)
    BY <1>1, PointerCells
  <2> QED
    BY <2>1, OnlyConcat
<1> HIDE DEF F
<1>5. Chain(d, h, F, Null, x, t) = Parts(Only(d, M), Only(h, M), Only(FlattenSeq(F), M), Only(Null, M), Only(x, M))
  BY <1>1, <1>2, ChainParts
<1>6. /\ Chain(d, h, f, y, x, t) = Parts(Only(d, M), Only(h, M), Only(g, M), Only(y, M), Only(x, M))
      /\ Only(d, M) \in Seq(Cell) /\ Only(h, M) \in Seq(Cell) /\ Only(g, M) \in Seq(Cell)
      /\ Only(y, M) \in Seq(Cell) /\ Only(x, M) \in Seq(Cell)
  BY <1>1, ChainParts
<1> HIDE DEF g
<1>7. Parts(Only(d, M), Only(h, M), Only(g, M) \o Only(y, M), <<>>, Only(x, M))
        = Parts(Only(d, M), Only(h, M), Only(g, M), Only(y, M), Only(x, M))
  BY <1>6, PartsMove
<1>8. Chain(d, h, F, Null, x, t) = Chain(d, h, f, y, x, t)
  BY <1>1, <1>3, <1>4, <1>5, <1>6, <1>7
<1> QED
  BY <1>8 DEF F

\* A buffer of another thread has nothing of t.
LEMMA ChainOther ==
  ASSUME NEW t \in Threads, NEW d \in Buffer, NEW h \in Buffer, NEW f \in Seq(Buffer), NEW y \in Pointer,
         NEW x \in Pointer, NEW u \in Threads, u # t, NEW z \in Seq(MessagesOf(u)), z \in Buffer
  PROVE  Chain(d, h, Append(f, z), y, x, t) = Chain(d, h, f, y, x, t)
<1> DEFINE M == MessagesOf(t)
           F == Append(f, z)
           g == FlattenSeq(f)
<1>1. F \in Seq(Buffer) /\ g \in Buffer
  BY PointerCells
<1>2. FlattenSeq(F) = g \o z
  BY FlattenAppend DEF Buffer
<1>3. Only(z, M) = <<>>
  <2>1. \A i \in DOMAIN z : z[i] \in MessagesOf(u)
    OBVIOUS
  <2>2. \A m \in MessagesOf(u) : m \notin M
    BY DEF MessagesOf
  <2>3. \A i \in DOMAIN z : z[i] \notin M
    BY <2>1, <2>2
  <2> HIDE DEF M
  <2> QED
    BY <2>3, OnlyNone
<1>4. Only(g \o z, M) = Only(g, M)
  <2>1. g \in Seq(Cell) /\ z \in Seq(Cell)
    BY <1>1, PointerCells
  <2>2. Only(g \o z, M) = Only(g, M) \o Only(z, M)
    BY <2>1, OnlyConcat
  <2>3. Only(g, M) \in Seq(Cell)
    BY <2>1, OnlyType
  <2> DEFINE o == Only(g, M)
  <2>4. o \o <<>> = o
    <3> HIDE DEF o
    <3> QED
      BY <2>3 DEF o
  <2> QED
    BY <1>3, <2>2, <2>4
<1> HIDE DEF F
<1>5. Chain(d, h, F, y, x, t) = Parts(Only(d, M), Only(h, M), Only(FlattenSeq(F), M), Only(y, M), Only(x, M))
  BY <1>1, ChainParts
<1>6. Chain(d, h, f, y, x, t) = Parts(Only(d, M), Only(h, M), Only(g, M), Only(y, M), Only(x, M))
  BY ChainParts
<1>7. Chain(d, h, F, y, x, t) = Chain(d, h, f, y, x, t)
  BY <1>2, <1>4, <1>5, <1>6
<1> QED
  BY <1>7 DEF F

\* The oldest buffer of the queue is the next for the file.
LEMMA ChainPop ==
  ASSUME NEW t \in Threads, NEW d \in Buffer, NEW f \in Seq(Buffer), f # <<>>, NEW y \in Pointer, NEW x \in Pointer
  PROVE  Chain(d, Head(f), Tail(f), y, x, t) = Chain(d, <<>>, f, y, x, t)
<1> DEFINE M == MessagesOf(t)
           h == Head(f)
           F == Tail(f)
           g == FlattenSeq(F)
<1>1. h \in Buffer /\ F \in Seq(Buffer)
  OBVIOUS
<1>2. FlattenSeq(f) = h \o g
  BY FlattenHead DEF Buffer
<1> HIDE DEF h, F
<1>3. g \in Buffer /\ <<>> \in Buffer /\ Only(<<>>, M) = <<>>
  BY <1>1, PointerCells
<1>4. Only(h \o g, M) = Only(h, M) \o Only(g, M)
  <2>1. g \in Seq(Cell) /\ h \in Seq(Cell)
    BY <1>1, <1>3, PointerCells
  <2> QED
    BY <2>1, OnlyConcat
<1>5. /\ Chain(d, h, F, y, x, t) = Parts(Only(d, M), Only(h, M), Only(g, M), Only(y, M), Only(x, M))
      /\ Only(d, M) \in Seq(Cell) /\ Only(h, M) \in Seq(Cell) /\ Only(g, M) \in Seq(Cell)
      /\ Only(y, M) \in Seq(Cell) /\ Only(x, M) \in Seq(Cell)
  BY <1>1, ChainParts
<1>6. Chain(d, <<>>, f, y, x, t) = Parts(Only(d, M), Only(<<>>, M), Only(FlattenSeq(f), M), Only(y, M), Only(x, M))
  BY <1>3, ChainParts
<1> HIDE DEF g
<1>7. Parts(Only(d, M), <<>>, Only(h, M) \o Only(g, M), Only(y, M), Only(x, M))
        = Parts(Only(d, M), Only(h, M), Only(g, M), Only(y, M), Only(x, M))
  BY <1>5, PartsMove
<1>8. Chain(d, h, F, y, x, t) = Chain(d, <<>>, f, y, x, t)
  BY <1>2, <1>3, <1>4, <1>5, <1>6, <1>7
<1> QED
  BY <1>8 DEF h, F

\* What the background thread writes goes behind what is on the disk.
LEMMA ChainArchive ==
  ASSUME NEW t \in Threads, NEW d \in Buffer, NEW h \in Buffer, NEW f \in Seq(Buffer), NEW y \in Pointer, NEW x \in Pointer
  PROVE  Chain(d \o h, <<>>, f, y, x, t) = Chain(d, h, f, y, x, t)
<1> DEFINE M == MessagesOf(t)
           g == FlattenSeq(f)
           e == d \o h
<1>1. <<>> \in Buffer /\ e \in Buffer /\ Only(<<>>, M) = <<>>
  BY PointerCells DEF Buffer
<1>2. Only(e, M) = Only(d, M) \o Only(h, M)
  <2>1. d \in Seq(Cell) /\ h \in Seq(Cell)
    BY PointerCells
  <2> QED
    BY <2>1, OnlyConcat
<1> HIDE DEF e
<1>3. Chain(e, <<>>, f, y, x, t) = Parts(Only(e, M), Only(<<>>, M), Only(g, M), Only(y, M), Only(x, M))
  BY <1>1, ChainParts
<1>4. /\ Chain(d, h, f, y, x, t) = Parts(Only(d, M), Only(h, M), Only(g, M), Only(y, M), Only(x, M))
      /\ Only(d, M) \in Seq(Cell) /\ Only(h, M) \in Seq(Cell) /\ Only(g, M) \in Seq(Cell)
      /\ Only(y, M) \in Seq(Cell) /\ Only(x, M) \in Seq(Cell)
  BY ChainParts
<1> HIDE DEF g
<1>5. Parts(Only(d, M) \o Only(h, M), <<>>, Only(g, M), Only(y, M), Only(x, M))
        = Parts(Only(d, M), Only(h, M), Only(g, M), Only(y, M), Only(x, M))
  BY <1>4, PartsMove
<1>6. Chain(e, <<>>, f, y, x, t) = Chain(d, h, f, y, x, t)
  BY <1>1, <1>2, <1>3, <1>4, <1>5
<1> QED
  BY <1>6 DEF e

\* A message that is stored is the newest.
LEMMA ChainStore ==
  ASSUME NEW t \in Threads, NEW d \in Buffer, NEW h \in Buffer, NEW f \in Seq(Buffer), NEW y \in Pointer,
         NEW x \in Buffer, NEW m \in MessagesOf(t), m \in Msg
  PROVE  Chain(d, h, f, y, Append(x, m), t) = Append(Chain(d, h, f, y, x, t), m)
<1> DEFINE M == MessagesOf(t)
           g == FlattenSeq(f)
           X == Append(x, m)
<1>a. Append(x, m) \in Seq(Msg)
  BY AppendProperties DEF Buffer
<1>1. X \in Pointer /\ x \in Pointer /\ m \in Cell
  BY <1>a, Zenon DEF Pointer, Buffer, Cell
<1>2. Only(X, M) = Append(Only(x, M), m)
  <2>1. x \in Seq(Cell)
    BY <1>1, PointerCells
  <2>2. Only(Append(x, m), M) = IF m \in M THEN Append(Only(x, M), m) ELSE Only(x, M)
    BY <1>1, <2>1, OnlyAppend
  <2> QED
    BY <2>2
<1> HIDE DEF X
<1>3. Chain(d, h, f, y, X, t) = Parts(Only(d, M), Only(h, M), Only(g, M), Only(y, M), Only(X, M))
  BY <1>1, ChainParts
<1>4. /\ Chain(d, h, f, y, x, t) = Parts(Only(d, M), Only(h, M), Only(g, M), Only(y, M), Only(x, M))
      /\ Only(d, M) \in Seq(Cell) /\ Only(h, M) \in Seq(Cell) /\ Only(g, M) \in Seq(Cell)
      /\ Only(y, M) \in Seq(Cell) /\ Only(x, M) \in Seq(Cell)
  BY <1>1, ChainParts
<1> HIDE DEF g
<1>5. Parts(Only(d, M), Only(h, M), Only(g, M), Only(y, M), Append(Only(x, M), m))
        = Append(Parts(Only(d, M), Only(h, M), Only(g, M), Only(y, M), Only(x, M)), m)
  <2> HIDE DEF M
  <2> DEFINE D == Only(d, M)
             H == Only(h, M)
             G == Only(g, M)
             Y == Only(y, M)
             Z == Only(x, M)
  <2>1. D \in Seq(Cell) /\ H \in Seq(Cell) /\ G \in Seq(Cell) /\ Y \in Seq(Cell) /\ Z \in Seq(Cell)
    BY <1>4
  <2> HIDE DEF D, H, G, Y, Z
  <2>2. Parts(D, H, G, Y, Append(Z, m)) = Append(Parts(D, H, G, Y, Z), m)
    <3> DEFINE P == ((D \o H) \o G) \o Y
    <3>1. P \in Seq(Cell)
      BY <2>1
    <3>2. m \in Cell
      BY <1>1
    <3> HIDE DEF P
    <3>3. P \o Append(Z, m) = Append(P \o Z, m)
      BY <2>1, <3>1, <3>2
    <3> QED
      BY <3>3 DEF Parts, P
  <2> QED
    BY <2>2 DEF D, H, G, Y, Z
<1>6. Chain(d, h, f, y, X, t) = Append(Chain(d, h, f, y, x, t), m)
  BY <1>2, <1>3, <1>4, <1>5
<1> QED
  BY <1>6 DEF X

-----------------------------------------------------------------------------
(* Null pointers *)

\* The steps of pushToBuffer that come after the standby buffer was fetched.
Holding == {"swap", "store", "queue"}

\* What holds whatever races: pointers are buffers of messages or null, and
\* the background thread is in a line exactly from its visit to its push.
Shape ==
  /\ a \in [Threads -> Pointer] /\ b \in [Threads -> Pointer]
  /\ writer \in [Threads -> [pc : {"idle", "push", "empty", "swap", "store", "queue"},
                             msg : Msg \cup {NoMsg}]]
  /\ \A t \in Threads : writer[t].pc # "idle" => writer[t].msg \in Msg
  /\ back \in [pc : {"top", "visit", "swap", "queue", "wait", "archive", "recycle"},
               line : Threads \cup {"none"}, buffer : Pointer]
  /\ back.pc \in {"swap", "queue"} => back.line \in Threads
  /\ lines \subseteq Threads /\ todo \subseteq Threads
  /\ filled \in Seq(Pointer)
  /\ logged \in [Threads -> Seq(Msg)]
  /\ raced \in BOOLEAN /\ crashed \in BOOLEAN

\* Thread t finds a buffer wherever pushToBuffer follows a pointer.
WriterInv(t) ==
  /\ a[t] \in Buffer
  /\ writer[t].pc \in Holding => b[t] \in Buffer

\* In the line the background thread works on nobody logs, and the standby
\* pointer is a buffer until it is pushed.
LineInv ==
  back.pc \in {"swap", "queue"} =>
    writer[back.line].pc = "idle" /\ b[back.line] \in Buffer

\* Without a race nothing is null where it is used, and only buffers are queued.
NullInv ==
  ~raced => ~crashed /\ (\A t \in Threads : WriterInv(t)) /\ LineInv /\ filled \in Seq(Buffer)

\* The inductive invariant.
LoggerInv == Shape /\ NullInv

\* A buffer of messages is never the null pointer: messages count from one.
LEMMA BufferNotNull == Null \notin Buffer
<1>1. SUFFICES ASSUME <<NoMsg>> \in Seq(Msg) PROVE FALSE
  BY DEF Null, Buffer
<1>2. <<NoMsg>>[1] \in Msg
  BY <1>1
<1>3. NoMsg \in Msg
  BY <1>2
<1>4. NoMsg.n = 0
  BY DEF NoMsg
<1> QED BY <1>3, <1>4 DEF Msg

\* LoggerBuffer::push keeps a buffer of messages one, whether the message fits or not.
LEMMA StoredIsBuffer ==
  ASSUME NEW s \in Buffer, NEW m \in Msg
  PROVE  Stored(s, m) \in Buffer
<1>1. Append(s, m) \in Buffer
  BY DEF Buffer
<1> QED BY <1>1 DEF Stored

\* The same of a message put into a queue of pointers, of buffers or of messages.
LEMMA AppendStays ==
  ASSUME NEW S, NEW q \in Seq(S), NEW x \in S
  PROVE  Append(q, x) \in Seq(S)
  OBVIOUS

\* The logger starts with two buffers in each line and nothing in the queue.
LEMMA InitLogger == Init => LoggerInv
<1> SUFFICES ASSUME Init PROVE LoggerInv
  OBVIOUS
<1>1. <<>> \in Buffer /\ <<>> \in Seq(Msg) /\ <<>> \in Seq(Pointer) /\ <<>> \in Pointer
  BY DEF Buffer, Pointer
<1>2. Shape
  BY <1>1 DEF Init, Shape
<1>3. NullInv
  BY <1>1 DEF Init, NullInv, WriterInv, LineInv, Holding, Buffer
<1> QED BY <1>2, <1>3 DEF LoggerInv

\* A thread that logs finds a work buffer.  It enters its line only when the
\* background thread is not there, or there is a race from then on.
LEMMA LogStep ==
  ASSUME LoggerInv, NEW t \in Threads, NEW z \in Sizes, Log(t, z)
  PROVE  LoggerInv'
<1> DEFINE m == [t |-> t, n |-> Len(logged[t]) + 1, z |-> z]
<1>0. logged[t] \in Seq(Msg)
  BY DEF LoggerInv, Shape
<1>1. m \in Msg /\ logged' = [logged EXCEPT ![t] = Append(logged[t], m)]
  <2>1. Len(logged[t]) + 1 \in Nat \ {0}
    BY <1>0
  <2>2. m \in Msg
    BY <2>1 DEF Msg
  <2>3. logged' = [logged EXCEPT ![t] = Append(logged[t], m)]
    BY DEF Log
  <2> QED BY <2>2, <2>3
<1>2. writer' = [writer EXCEPT ![t] = [pc |-> "push", msg |-> m]]
  BY DEF Log
<1> HIDE DEF m
<1>3. Append(logged[t], m) \in Seq(Msg)
  BY <1>1, AppendStays DEF LoggerInv, Shape
<1>4. logged' \in [Threads -> Seq(Msg)]
  BY <1>1, <1>3 DEF LoggerInv, Shape
<1>5. writer' \in [Threads -> [pc : {"idle", "push", "empty", "swap", "store", "queue"},
                               msg : Msg \cup {NoMsg}]]
  BY <1>1, <1>2 DEF LoggerInv, Shape
<1>6. \A u \in Threads : writer'[u].pc # "idle" => writer'[u].msg \in Msg
  BY <1>1, <1>2 DEF LoggerInv, Shape
<1>7. Shape'
  BY <1>4, <1>5, <1>6 DEF LoggerInv, Shape, Log
<1>8. ASSUME ~raced' PROVE ~crashed' /\ (\A u \in Threads : WriterInv(u)') /\ LineInv' /\ filled' \in Seq(Buffer)
  <2>1. ~raced /\ back.line # t
    BY <1>8 DEF Log
  <2>2. a' = a /\ b' = b /\ back' = back /\ filled' = filled /\ crashed' = crashed
    BY DEF Log
  <2>3. \A u \in Threads : WriterInv(u)'
    BY <1>2, <2>1, <2>2 DEF LoggerInv, Shape, NullInv, WriterInv, Holding
  <2>4. LineInv'
    BY <1>2, <2>1, <2>2 DEF LoggerInv, Shape, NullInv, LineInv
  <2> QED BY <2>1, <2>2, <2>3, <2>4 DEF LoggerInv, NullInv
<1> QED BY <1>7, <1>8 DEF LoggerInv, NullInv

\* What every step of pushToBuffer on thread t shares: it moves the thread on
\* and touches no other line.  If the step leaves the pointers of its line as
\* the new place needs them, the invariant goes on to hold.
LEMMA WriterMoves ==
  ASSUME LoggerInv, NEW t \in Threads, writer[t].pc # "idle",
         NEW pc \in {"idle", "empty", "swap", "store", "queue"}, NEW x, NEW y,
         writer' = [writer EXCEPT ![t].pc = pc],
         a' = [a EXCEPT ![t] = x], b' = [b EXCEPT ![t] = y],
         x \in Pointer, y \in Pointer, filled' \in Seq(Pointer),
         UNCHANGED <<back, todo, lines, logged, raced, crashed>>,
         ~raced => x \in Buffer /\ (pc \in Holding => y \in Buffer) /\ filled' \in Seq(Buffer)
  PROVE  LoggerInv'
<1>1. a' \in [Threads -> Pointer] /\ b' \in [Threads -> Pointer]
  BY DEF LoggerInv, Shape
<1>2. writer' \in [Threads -> [pc : {"idle", "push", "empty", "swap", "store", "queue"},
                               msg : Msg \cup {NoMsg}]]
  BY DEF LoggerInv, Shape
<1>3. \A u \in Threads : writer'[u].pc # "idle" => writer'[u].msg \in Msg
  BY DEF LoggerInv, Shape
<1>4. Shape'
  BY <1>1, <1>2, <1>3 DEF LoggerInv, Shape
<1>5. ASSUME ~raced' PROVE ~crashed' /\ (\A u \in Threads : WriterInv(u)') /\ LineInv' /\ filled' \in Seq(Buffer)
  <2>1. ~raced /\ ~crashed' /\ (\A u \in Threads : WriterInv(u)) /\ LineInv
    BY <1>5 DEF LoggerInv, NullInv
  <2>2. \A u \in Threads : WriterInv(u)'
    BY <2>1 DEF LoggerInv, Shape, WriterInv
  <2>3. LineInv'
    BY <2>1 DEF LoggerInv, Shape, LineInv
  <2> QED BY <2>1, <2>2, <2>3
<1> QED BY <1>4, <1>5 DEF LoggerInv, NullInv

\* The first push crashes only on a null work buffer, which takes a race.
LEMMA WriterPushStep ==
  ASSUME LoggerInv, NEW t \in Threads, WriterPush(t)
  PROVE  LoggerInv'
<1>1. CASE a[t] = Null /\ crashed' = TRUE /\ UNCHANGED <<a, writer>>
  <2>1. raced
    BY <1>1, BufferNotNull DEF LoggerInv, NullInv, WriterInv
  <2>2. UNCHANGED <<a, b, writer, back, todo, lines, filled, logged, raced>> /\ crashed' = TRUE
    BY <1>1 DEF WriterPush
  <2>3. Shape'
    BY <2>2 DEF LoggerInv, Shape
  <2> QED BY <2>1, <2>2, <2>3 DEF LoggerInv, NullInv
<1>2. CASE /\ a[t] # Null /\ a' = [a EXCEPT ![t] = Stored(a[t], writer[t].msg)]
           /\ Goto(t, IF Fits(a[t], writer[t].msg) THEN "idle" ELSE "empty")
           /\ UNCHANGED crashed
  <2>1. a[t] \in Buffer /\ writer[t].msg \in Msg
    BY <1>2 DEF LoggerInv, Shape, Pointer, WriterPush, At
  <2>2. Stored(a[t], writer[t].msg) \in Buffer
    BY <2>1, StoredIsBuffer
  <2>3. PICK pc \in {"idle", "empty"} : writer' = [writer EXCEPT ![t].pc = pc]
    BY <1>2 DEF Goto
  <2>4. b' = [b EXCEPT ![t] = b[t]] /\ b[t] \in Pointer
    BY DEF WriterPush, LoggerInv, Shape
  <2>5. filled' = filled /\ filled \in Seq(Pointer) /\ (~raced => filled \in Seq(Buffer))
    BY DEF WriterPush, LoggerInv, Shape, NullInv
  <2>6. UNCHANGED <<back, todo, lines, logged, raced, crashed>> /\ writer[t].pc # "idle"
    BY <1>2 DEF WriterPush, At
  <2>7. pc \notin Holding
    BY <2>3 DEF Holding
  <2> QED BY <1>2, <2>2, <2>3, <2>4, <2>5, <2>6, <2>7, WriterMoves DEF Pointer
<1> QED BY <1>1, <1>2 DEF WriterPush

\* The thread holds a standby buffer from here on.
LEMMA WriterGetEmptyStep ==
  ASSUME LoggerInv, NEW t \in Threads, WriterGetEmpty(t)
  PROVE  LoggerInv'
<1> DEFINE y == IF b[t] = Null THEN <<>> ELSE b[t]
<1>1. b' = [b EXCEPT ![t] = y] /\ y \in Buffer
  <2>1. <<>> \in Buffer /\ b[t] \in Pointer
    BY DEF Buffer, LoggerInv, Shape
  <2> QED BY <2>1 DEF WriterGetEmpty, GetEmptyBuffer, Pointer
<1> HIDE DEF y
<1>2. writer' = [writer EXCEPT ![t].pc = "swap"] /\ writer[t].pc # "idle"
  BY DEF WriterGetEmpty, Goto, At
<1>3. a' = [a EXCEPT ![t] = a[t]] /\ a[t] \in Pointer /\ (~raced => a[t] \in Buffer)
  BY DEF WriterGetEmpty, LoggerInv, Shape, NullInv, WriterInv
<1>4. filled' = filled /\ filled \in Seq(Pointer) /\ (~raced => filled \in Seq(Buffer))
  BY DEF WriterGetEmpty, LoggerInv, Shape, NullInv
<1>5. UNCHANGED <<back, todo, lines, logged, raced, crashed>>
  BY DEF WriterGetEmpty
<1> QED BY <1>1, <1>2, <1>3, <1>4, <1>5, WriterMoves DEF Pointer

\* The swap puts the standby buffer in place of the full one.
LEMMA WriterSwapStep ==
  ASSUME LoggerInv, NEW t \in Threads, WriterSwap(t)
  PROVE  LoggerInv'
<1>1. a' = [a EXCEPT ![t] = b[t]] /\ b' = [b EXCEPT ![t] = a[t]]
  BY DEF WriterSwap, Swap
<1>2. writer' = [writer EXCEPT ![t].pc = "store"] /\ writer[t].pc = "swap"
  BY DEF WriterSwap, Goto, At
<1>3. a[t] \in Pointer /\ b[t] \in Pointer
  BY DEF LoggerInv, Shape
<1>4. ~raced => a[t] \in Buffer /\ b[t] \in Buffer
  BY <1>2 DEF LoggerInv, NullInv, WriterInv, Holding
<1>5. filled' = filled /\ filled \in Seq(Pointer) /\ (~raced => filled \in Seq(Buffer))
  BY DEF WriterSwap, LoggerInv, Shape, NullInv
<1>6. UNCHANGED <<back, todo, lines, logged, raced, crashed>>
  BY DEF WriterSwap
<1> QED BY <1>1, <1>2, <1>3, <1>4, <1>5, <1>6, WriterMoves

\* The second push meets the buffer that was fetched and swapped in.
LEMMA WriterStoreStep ==
  ASSUME LoggerInv, NEW t \in Threads, WriterStore(t)
  PROVE  LoggerInv'
<1>0. writer' = [writer EXCEPT ![t].pc = "queue"] /\ writer[t].pc = "store"
  BY DEF WriterStore, Goto, At
<1>1. CASE a[t] = Null
  <2>1. raced
    BY <1>1, BufferNotNull DEF LoggerInv, NullInv, WriterInv
  <2>2. UNCHANGED <<a, b, back, todo, lines, filled, logged, raced>> /\ crashed' = TRUE
    BY <1>1 DEF WriterStore
  <2>3. writer' \in [Threads -> [pc : {"idle", "push", "empty", "swap", "store", "queue"},
                                 msg : Msg \cup {NoMsg}]]
    BY <1>0 DEF LoggerInv, Shape
  <2>4. \A u \in Threads : writer'[u].pc # "idle" => writer'[u].msg \in Msg
    BY <1>0 DEF LoggerInv, Shape
  <2>5. Shape'
    BY <2>2, <2>3, <2>4 DEF LoggerInv, Shape
  <2> QED BY <2>1, <2>2, <2>5 DEF LoggerInv, NullInv
<1>2. CASE a[t] # Null
  <2>1. a[t] \in Buffer /\ writer[t].msg \in Msg
    BY <1>0, <1>2 DEF LoggerInv, Shape, Pointer
  <2>2. Stored(a[t], writer[t].msg) \in Buffer
    BY <2>1, StoredIsBuffer
  <2>3. a' = [a EXCEPT ![t] = Stored(a[t], writer[t].msg)]
    BY <1>2 DEF WriterStore
  <2>4. b' = [b EXCEPT ![t] = b[t]] /\ b[t] \in Pointer
    BY DEF WriterStore, LoggerInv, Shape
  <2>5. ~raced => b[t] \in Buffer
    BY <1>0 DEF LoggerInv, NullInv, WriterInv, Holding
  <2>6. filled' = filled /\ filled \in Seq(Pointer) /\ (~raced => filled \in Seq(Buffer))
    BY DEF WriterStore, LoggerInv, Shape, NullInv
  <2>7. UNCHANGED <<back, todo, lines, logged, raced, crashed>>
    BY <1>2 DEF WriterStore
  <2> QED BY <1>0, <2>2, <2>3, <2>4, <2>5, <2>6, <2>7, WriterMoves DEF Pointer
<1> QED BY <1>1, <1>2

\* The full buffer goes into the queue; what is left null is the standby
\* pointer, and the thread is out of the line.
LEMMA WriterQueueStep ==
  ASSUME LoggerInv, NEW t \in Threads, WriterQueue(t)
  PROVE  LoggerInv'
<1>1. writer' = [writer EXCEPT ![t].pc = "idle"] /\ writer[t].pc = "queue"
  BY DEF WriterQueue, Goto, At
<1>2. b' = [b EXCEPT ![t] = Null] /\ filled' = Append(filled, b[t])
  BY DEF WriterQueue, PushFilled
<1>3. a' = [a EXCEPT ![t] = a[t]] /\ a[t] \in Pointer /\ (~raced => a[t] \in Buffer)
  BY DEF WriterQueue, LoggerInv, Shape, NullInv, WriterInv
<1>4. filled' \in Seq(Pointer)
  BY <1>2, AppendStays DEF LoggerInv, Shape
<1>5. ASSUME ~raced PROVE filled' \in Seq(Buffer)
  <2>1. filled \in Seq(Buffer) /\ b[t] \in Buffer
    BY <1>1, <1>5 DEF LoggerInv, NullInv, WriterInv, Holding
  <2> QED BY <1>2, <2>1, AppendStays
<1>6. UNCHANGED <<back, todo, lines, logged, raced, crashed>>
  BY DEF WriterQueue
<1>7. Null \in Pointer /\ "idle" \notin Holding
  BY DEF Pointer, Holding
<1> QED BY <1>1, <1>2, <1>3, <1>4, <1>5, <1>6, <1>7, WriterMoves

\* The background thread enters a line.  A thread inside it makes a race.
LEMMA VisitLineStep ==
  ASSUME LoggerInv, NEW t \in Threads, VisitLine(t)
  PROVE  LoggerInv'
<1> DEFINE y == IF b[t] = Null THEN <<>> ELSE b[t]
<1>1. b' = [b EXCEPT ![t] = y] /\ y \in Buffer
  <2>1. <<>> \in Buffer /\ b[t] \in Pointer
    BY DEF Buffer, LoggerInv, Shape
  <2> QED BY <2>1 DEF VisitLine, GetEmptyBuffer, Pointer
<1> HIDE DEF y
<1>2. back' = [back EXCEPT !.pc = "swap", !.line = t]
  BY DEF VisitLine
<1>3. UNCHANGED <<a, writer, lines, logged, filled, crashed>> /\ todo' \subseteq todo
  BY DEF VisitLine
<1>4. raced' = (raced \/ writer[t].pc # "idle")
  BY DEF VisitLine
<1>5. b' \in [Threads -> Pointer]
  BY <1>1 DEF LoggerInv, Shape, Pointer
<1>6. back'.pc = "swap" /\ back'.line = t
  BY <1>2 DEF LoggerInv, Shape
<1>7. back' \in [pc : {"top", "visit", "swap", "queue", "wait", "archive", "recycle"},
                 line : Threads \cup {"none"}, buffer : Pointer]
  BY <1>2 DEF LoggerInv, Shape
<1>8. Shape'
  BY <1>3, <1>4, <1>5, <1>6, <1>7 DEF LoggerInv, Shape
<1>9. ASSUME ~raced' PROVE ~crashed' /\ (\A u \in Threads : WriterInv(u)') /\ LineInv' /\ filled' \in Seq(Buffer)
  <2>1. ~raced /\ writer[t].pc = "idle"
    BY <1>4, <1>9
  <2>2. ~crashed /\ (\A u \in Threads : WriterInv(u)) /\ filled \in Seq(Buffer)
    BY <2>1 DEF LoggerInv, NullInv
  <2>3. \A u \in Threads : WriterInv(u)'
    BY <1>1, <1>3, <2>2 DEF WriterInv, LoggerInv, Shape
  <2>4. LineInv'
    BY <1>1, <1>3, <1>6, <2>1 DEF LineInv, LoggerInv, Shape
  <2> QED BY <1>3, <2>2, <2>3, <2>4
<1> QED BY <1>8, <1>9 DEF LoggerInv, NullInv

\* The background thread swaps two buffers of a line nobody else is in.
LEMMA LineSwapStep ==
  ASSUME LoggerInv, LineSwap
  PROVE  LoggerInv'
<1>1. PICK t \in Threads : t = back.line
  BY DEF LineSwap, BackAt, LoggerInv, Shape
<1>2. a' = [a EXCEPT ![t] = b[t]] /\ b' = [b EXCEPT ![t] = a[t]]
  BY <1>1 DEF LineSwap, Swap
<1>3. back' = [back EXCEPT !.pc = "queue"] /\ back.pc = "swap"
  BY DEF LineSwap, BackTo, BackAt
<1>4. UNCHANGED <<writer, lines, logged, todo, filled, raced, crashed>>
  BY DEF LineSwap
<1>5. a' \in [Threads -> Pointer] /\ b' \in [Threads -> Pointer]
  BY <1>2 DEF LoggerInv, Shape
<1>6. back'.pc = "queue" /\ back'.line = t
  BY <1>1, <1>3 DEF LoggerInv, Shape
<1>7. back' \in [pc : {"top", "visit", "swap", "queue", "wait", "archive", "recycle"},
                 line : Threads \cup {"none"}, buffer : Pointer]
  BY <1>3 DEF LoggerInv, Shape
<1>8. Shape'
  BY <1>4, <1>5, <1>6, <1>7 DEF LoggerInv, Shape
<1>9. ASSUME ~raced PROVE ~crashed' /\ (\A u \in Threads : WriterInv(u)') /\ LineInv' /\ filled' \in Seq(Buffer)
  <2>1. ~crashed /\ (\A u \in Threads : WriterInv(u)) /\ filled \in Seq(Buffer)
    BY <1>9 DEF LoggerInv, NullInv
  <2>2. writer[t].pc = "idle" /\ a[t] \in Buffer /\ b[t] \in Buffer
    BY <1>1, <1>3, <1>9, <2>1 DEF LoggerInv, NullInv, LineInv, WriterInv
  <2>3. \A u \in Threads : WriterInv(u)'
    BY <1>2, <1>4, <2>1, <2>2 DEF WriterInv, LoggerInv, Shape
  <2>4. LineInv'
    BY <1>2, <1>4, <1>6, <2>2 DEF LineInv, LoggerInv, Shape
  <2> QED BY <1>4, <2>1, <2>3, <2>4
<1> QED BY <1>4, <1>8, <1>9 DEF LoggerInv, NullInv

\* The background thread queues a buffer and leaves the line, whose standby
\* pointer is null.
LEMMA LineQueueStep ==
  ASSUME LoggerInv, LineQueue
  PROVE  LoggerInv'
<1>1. PICK t \in Threads : t = back.line
  BY DEF LineQueue, BackAt, LoggerInv, Shape
<1>2. b' = [b EXCEPT ![t] = Null] /\ filled' = Append(filled, b[t])
  BY <1>1 DEF LineQueue, PushFilled
<1>3. back' = [back EXCEPT !.pc = "visit", !.line = "none"] /\ back.pc = "queue"
  BY DEF LineQueue, BackAt
<1>4. UNCHANGED <<a, writer, lines, logged, todo, raced, crashed>>
  BY DEF LineQueue
<1>5. b' \in [Threads -> Pointer]
  BY <1>2 DEF LoggerInv, Shape, Pointer
<1>6. back'.pc = "visit"
  BY <1>3 DEF LoggerInv, Shape
<1>7. back' \in [pc : {"top", "visit", "swap", "queue", "wait", "archive", "recycle"},
                 line : Threads \cup {"none"}, buffer : Pointer]
  BY <1>3 DEF LoggerInv, Shape
<1>8. filled' \in Seq(Pointer)
  BY <1>2, AppendStays DEF LoggerInv, Shape
<1>9. Shape'
  BY <1>4, <1>5, <1>6, <1>7, <1>8 DEF LoggerInv, Shape
<1>10. ASSUME ~raced PROVE ~crashed' /\ (\A u \in Threads : WriterInv(u)') /\ LineInv' /\ filled' \in Seq(Buffer)
  <2>1. ~crashed /\ (\A u \in Threads : WriterInv(u)) /\ filled \in Seq(Buffer)
    BY <1>10 DEF LoggerInv, NullInv
  <2>2. writer[t].pc = "idle" /\ b[t] \in Buffer
    BY <1>1, <1>3, <1>10 DEF LoggerInv, NullInv, LineInv
  <2>3. \A u \in Threads : WriterInv(u)'
    BY <1>2, <1>4, <2>1, <2>2 DEF WriterInv, LoggerInv, Shape, Holding
  <2>4. LineInv'
    BY <1>6 DEF LineInv
  <2>5. filled' \in Seq(Buffer)
    BY <1>2, <2>1, <2>2, AppendStays
  <2> QED BY <1>4, <2>1, <2>3, <2>4, <2>5
<1> QED BY <1>4, <1>9, <1>10 DEF LoggerInv, NullInv

\* A step of the background thread outside the lines: the pointers stay, and
\* the queue loses its head or stays.
LEMMA BackMoves ==
  ASSUME LoggerInv, NEW pc \in {"top", "visit", "wait", "archive", "recycle"}, NEW buffer \in Pointer,
         back' = [back EXCEPT !.pc = pc, !.buffer = buffer],
         UNCHANGED <<a, b, writer, lines, logged, raced>>,
         todo' \subseteq Threads, filled' \in Seq(Pointer), crashed' \in BOOLEAN,
         ~raced => filled' \in Seq(Buffer) /\ ~crashed'
  PROVE  LoggerInv'
<1>1. back'.pc = pc
  BY DEF LoggerInv, Shape
<1>2. back' \in [pc : {"top", "visit", "swap", "queue", "wait", "archive", "recycle"},
                 line : Threads \cup {"none"}, buffer : Pointer]
  BY DEF LoggerInv, Shape
<1>3. Shape'
  BY <1>1, <1>2 DEF LoggerInv, Shape
<1>4. LineInv'
  BY <1>1 DEF LineInv
<1>5. ASSUME ~raced PROVE \A u \in Threads : WriterInv(u)'
  BY <1>5 DEF LoggerInv, NullInv, WriterInv
<1> QED BY <1>3, <1>4, <1>5 DEF LoggerInv, NullInv

\* The background thread takes the head of the queue, which is a buffer
\* unless there was a race.
LEMMA WaitAndPopStep ==
  ASSUME LoggerInv, WaitAndPop
  PROVE  LoggerInv'
<1> DEFINE buffer == IF filled = <<>> THEN <<>> ELSE Head(filled)
<1>1. back' = [back EXCEPT !.pc = "archive", !.buffer = buffer]
  BY DEF WaitAndPop
<1>2. buffer \in Pointer
  <2>1. <<>> \in Pointer
    BY DEF Pointer, Buffer
  <2> QED BY <2>1 DEF LoggerInv, Shape
<1>3. filled' \in Seq(Pointer)
  BY DEF WaitAndPop, LoggerInv, Shape
<1>4. ASSUME ~raced PROVE filled' \in Seq(Buffer) /\ ~crashed'
  <2>1. filled \in Seq(Buffer)
    BY <1>4 DEF LoggerInv, NullInv
  <2>2. filled # <<>> => Head(filled) \in Buffer
    BY <2>1
  <2>3. ~crashed'
    BY <2>2, BufferNotNull DEF WaitAndPop
  <2> QED BY <2>1, <2>3 DEF WaitAndPop
<1>5. UNCHANGED <<a, b, writer, lines, logged, raced>> /\ todo' = todo /\ crashed' \in BOOLEAN
  BY DEF WaitAndPop, lineVars
<1>6. todo' \subseteq Threads
  BY <1>5 DEF LoggerInv, Shape
<1> HIDE DEF buffer
<1> QED BY <1>1, <1>2, <1>3, <1>4, <1>5, <1>6, BackMoves

\* The rest of the background thread's work leaves lines and queue alone.
LEMMA FileStep ==
  ASSUME LoggerInv, Top \/ ResetTimeout \/ Archive \/ CreateFileFails \/ Recycle
  PROVE  LoggerInv'
<1>1. back \in [pc : {"top", "visit", "swap", "queue", "wait", "archive", "recycle"},
                line : Threads \cup {"none"}, buffer : Pointer] /\ <<>> \in Pointer
  BY DEF LoggerInv, Shape, Pointer, Buffer
<1>2. \E pc \in {"top", "visit", "wait", "archive", "recycle"}, buffer \in Pointer :
        back' = [back EXCEPT !.pc = pc, !.buffer = buffer]
  <2>1. CASE Top
    <3>1. back' = [back EXCEPT !.pc = "visit"] \/ back' = [back EXCEPT !.pc = "wait"]
      BY <2>1 DEF Top, BackTo
    <3>2. back' = [back EXCEPT !.pc = "visit", !.buffer = back.buffer] \/ back' = [back EXCEPT !.pc = "wait", !.buffer = back.buffer]
      BY <1>1, <3>1
    <3> QED BY <1>1, <3>2
  <2>2. CASE ResetTimeout
    <3>1. back' = [back EXCEPT !.pc = "wait", !.buffer = back.buffer]
      BY <1>1, <2>2 DEF ResetTimeout, BackTo
    <3> QED BY <1>1, <3>1
  <2>3. CASE Archive
    <3>1. back' = [back EXCEPT !.pc = "recycle", !.buffer = back.buffer]
      BY <1>1, <2>3 DEF Archive, BackTo
    <3> QED BY <1>1, <3>1
  <2>4. CASE CreateFileFails \/ Recycle
    <3>1. back' = [back EXCEPT !.pc = "top", !.buffer = <<>>]
      BY <2>4 DEF CreateFileFails, Recycle
    <3> QED BY <1>1, <3>1
  <2> QED BY <2>1, <2>2, <2>3, <2>4
<1>3. UNCHANGED <<a, b, writer, lines, logged, raced, filled, crashed>>
  BY DEF Top, ResetTimeout, Archive, CreateFileFails, Recycle, lineVars
<1>4. todo' \subseteq Threads
  BY DEF Top, ResetTimeout, Archive, CreateFileFails, Recycle, LoggerInv, Shape
<1>5. filled' \in Seq(Pointer) /\ crashed' \in BOOLEAN
  BY <1>3 DEF LoggerInv, Shape
<1>6. ~raced => filled' \in Seq(Buffer) /\ ~crashed'
  BY <1>3 DEF LoggerInv, NullInv
<1> QED BY <1>2, <1>3, <1>4, <1>5, <1>6, BackMoves

\* The timer, stop and stuttering touch nothing the invariant speaks of.
LEMMA OtherStep ==
  ASSUME LoggerInv, TimeoutNotify \/ Stop \/ UNCHANGED vars
  PROVE  LoggerInv'
<1>1. UNCHANGED <<a, b, writer, back, todo, lines, filled, logged, raced, crashed>>
  BY DEF TimeoutNotify, Stop, vars, lineVars
<1> QED BY <1>1 DEF LoggerInv, Shape, NullInv, WriterInv, LineInv

\* Every step keeps the invariant.
LEMMA LoggerStep ==
  LoggerInv /\ [Next]_vars => LoggerInv'
<1> SUFFICES ASSUME LoggerInv, [Next]_vars PROVE LoggerInv'
  OBVIOUS
<1>1. CASE \E t \in Threads : (\E z \in Sizes : Log(t, z)) \/ WriterStep(t)
  BY <1>1, LogStep, WriterPushStep, WriterGetEmptyStep, WriterSwapStep, WriterStoreStep, WriterQueueStep
     DEF WriterStep
<1>2. CASE BackStep
  BY <1>2, VisitLineStep, LineSwapStep, LineQueueStep, WaitAndPopStep, FileStep DEF BackStep
<1>3. CASE TimeoutNotify \/ Stop \/ UNCHANGED vars
  BY <1>3, OtherStep
<1> QED BY <1>1, <1>2, <1>3 DEF Next

\* For any threads, message lengths, capacity and failing system calls, the
\* logger follows a null buffer pointer only after a thread logged while the
\* background thread was in the same line, or the other way round
\* (LoggerLine::pushToBuffer and pushToQueue share the two pointers unlocked).
THEOREM NullNeedsRace == Spec => []CrashNeedsRace
<1>1. Init => LoggerInv
  BY InitLogger
<1>2. LoggerInv /\ [Next]_vars => LoggerInv'
  BY LoggerStep
<1>3. LoggerInv => CrashNeedsRace
  BY DEF LoggerInv, NullInv, CrashNeedsRace
<1> QED BY <1>1, <1>2, <1>3, PTL DEF Spec

-----------------------------------------------------------------------------
(* Sizes and hands *)

\* The steps of pushToBuffer in which the thread holds its message.
Hands == {"push", "empty", "swap", "store"}

\* The messages of t that a buffer takes.
Fitting(t) == {m \in MessagesOf(t) : m.z < Capacity}

\* What the background thread is about to write.
Hand == IF back.pc = "archive" THEN back.buffer ELSE <<>>

\* The background thread is in the line of t, with the full buffer in the standby pointer.
InLine(t) == back.pc = "queue" /\ back.line = t

\* A buffer leaves a byte free.
Sized(x) == x # Null => Bytes(x) < Capacity
SizeInv == \A t \in Threads : Sized(a[t]) /\ Sized(b[t])

\* A thread counts its messages and holds the newest.
HandsInv(t) ==
  /\ logged[t] \in Seq(MessagesOf(t))
  /\ \A i \in 1..Len(logged[t]) : logged[t][i].n = i
  /\ writer[t].pc \in Hands => logged[t] # <<>> /\ writer[t].msg = logged[t][Len(logged[t])]

\* The standby buffer is empty unless it was just swapped with a full one.
Standby(t) ==
  /\ writer[t].pc \in {"idle", "push", "empty"} /\ ~InLine(t) => b[t] \in {<<>>, Null}
  /\ writer[t].pc = "swap" => b[t] = <<>>
  /\ writer[t].pc = "store" => a[t] = <<>>

\* A line holds messages of its thread, in order.
OwnLine(t) ==
  /\ a[t] \in Seq(MessagesOf(t)) /\ b[t] \in Seq(MessagesOf(t)) \cup {Null}
  /\ Standby(t)
  /\ Everywhere(t) = Accepted(t)

\* Until something fails, is stopped or races, every line keeps its order, the
\* log file is open and only messages are written to it.
OrderInv ==
  Undisturbed => /\ opened /\ disk \in Buffer /\ Hand \in Buffer
                 /\ \A t \in Threads : OwnLine(t)

\* The inductive invariant of the order, beside LoggerInv.
OnceInv == faults \in Nat /\ SizeInv /\ (\A t \in Threads : HandsInv(t)) /\ OrderInv

\* What the messages of a thread and their lengths are.
LEMMA MessageFacts ==
  /\ \A t \in Threads : MessagesOf(t) \subseteq Msg /\ Seq(MessagesOf(t)) \subseteq Buffer
  /\ \A m \in Msg : m.z \in Nat /\ m.n \in Nat
  /\ \A s \in Buffer : Bytes(s) \in Nat
  /\ Bytes(<<>>) = 0 /\ Capacity \in Nat \ {0}
<1>1. ASSUME NEW t \in Threads PROVE MessagesOf(t) \subseteq Msg /\ Seq(MessagesOf(t)) \subseteq Buffer
  <2>1. MessagesOf(t) \subseteq Msg
    BY DEF MessagesOf, Msg
  <2> QED
    BY <2>1, SeqMonotonic DEF Buffer
<1>2. \A m \in Msg : m.z \in Nat /\ m.n \in Nat
  BY LoggerAssumption DEF Msg
<1>3. ASSUME NEW s \in Buffer PROVE Bytes(s) \in Nat
  BY <1>2, BytesNat DEF Buffer
<1> QED
  BY <1>1, <1>2, <1>3, BytesEmpty, LoggerAssumption

\* Storing keeps a byte free.
LEMMA StoredSized ==
  ASSUME NEW s \in Buffer, NEW m \in Msg, Bytes(s) < Capacity
  PROVE  /\ Sized(Stored(s, m))
         /\ Fits(s, m) => m.z < Capacity
         /\ Fits(<<>>, m) <=> m.z < Capacity
<1>1. Bytes(s) \in Nat /\ m.z \in Nat /\ Bytes(<<>>) = 0 /\ Capacity \in Nat
  BY MessageFacts
<1>2. Bytes(Append(s, m)) = Bytes(s) + m.z
  BY BytesAppend DEF Buffer
<1>3. CASE Fits(s, m)
  <2>1. Bytes(s) + m.z < Capacity
    BY <1>1, <1>3 DEF Fits
  <2> QED
    BY <1>1, <1>2, <1>3, <2>1 DEF Stored, Sized, Fits
<1>4. CASE ~Fits(s, m)
  BY <1>1, <1>4 DEF Stored, Sized, Fits
<1> QED
  BY <1>3, <1>4

\* The empty pointer is a buffer with nothing in it, or none.
LEMMA SizedEmpty == Sized(<<>>) /\ Sized(Null)
  BY MessageFacts DEF Sized

-----------------------------------------------------------------------------
\* No step fills a buffer to the last byte (LoggerBuffer::push).
LEMMA SizeStep ==
  ASSUME LoggerInv, SizeInv, [Next]_vars
  PROVE  SizeInv'
<1>0. /\ a \in [Threads -> Pointer] /\ b \in [Threads -> Pointer]
      /\ \A t \in Threads : Sized(a[t]) /\ Sized(b[t])
  BY DEF LoggerInv, Shape, SizeInv
<1>1. SUFFICES ASSUME NEW u \in Threads PROVE Sized(a'[u]) /\ Sized(b'[u])
  BY DEF SizeInv, Sized
<1>2. ASSUME NEW t \in Threads, writer[t].pc # "idle", a[t] # Null, a' = [a EXCEPT ![t] = Stored(@, writer[t].msg)], b' = b
      PROVE  Sized(a'[u]) /\ Sized(b'[u])
  <2>1. a[t] \in Buffer /\ Bytes(a[t]) < Capacity /\ writer[t].msg \in Msg
    BY <1>0, <1>2 DEF Pointer, Sized, LoggerInv, Shape
  <2>2. Sized(Stored(a[t], writer[t].msg))
    BY <2>1, StoredSized
  <2>3. a'[u] = (IF u = t THEN Stored(a[t], writer[t].msg) ELSE a[u]) /\ b'[u] = b[u]
    BY <1>0, <1>2
  <2> QED
    BY <1>0, <2>2, <2>3
<1>3. ASSUME NEW t \in Threads, GetEmptyBuffer(t), a' = a PROVE Sized(a'[u]) /\ Sized(b'[u])
  BY <1>0, <1>3, SizedEmpty DEF GetEmptyBuffer
<1>4. ASSUME NEW t \in Threads, Swap(t) PROVE Sized(a'[u]) /\ Sized(b'[u])
  BY <1>0, <1>4 DEF Swap
<1>5. ASSUME NEW t \in Threads, PushFilled(t), a' = a PROVE Sized(a'[u]) /\ Sized(b'[u])
  BY <1>0, <1>5, SizedEmpty DEF PushFilled
<1>6. ASSUME UNCHANGED <<a, b>> PROVE Sized(a'[u]) /\ Sized(b'[u])
  BY <1>0, <1>6
<1>7. CASE \E t \in Threads : \E z \in Sizes : Log(t, z)
  BY <1>6, <1>7 DEF Log
<1>8. ASSUME NEW t \in Threads, WriterStep(t) PROVE Sized(a'[u]) /\ Sized(b'[u])
  <2>1. CASE WriterPush(t)
    BY <2>1, <1>2, <1>6 DEF WriterPush, At
  <2>2. CASE WriterGetEmpty(t)
    BY <2>2, <1>3 DEF WriterGetEmpty
  <2>3. CASE WriterSwap(t)
    BY <2>3, <1>4 DEF WriterSwap
  <2>4. CASE WriterStore(t)
    BY <2>4, <1>2, <1>6 DEF WriterStore, At
  <2>5. CASE WriterQueue(t)
    BY <2>5, <1>5 DEF WriterQueue
  <2> QED
    BY <1>8, <2>1, <2>2, <2>3, <2>4, <2>5 DEF WriterStep
<1>9. CASE BackStep
  <2>1. CASE \E t \in Threads : VisitLine(t)
    BY <2>1, <1>3 DEF VisitLine
  <2>2. CASE LineSwap
    <3>1. back.line \in Threads
      BY <2>2 DEF LineSwap, BackAt, LoggerInv, Shape
    <3> QED
      BY <2>2, <3>1, <1>4 DEF LineSwap
  <2>3. CASE LineQueue
    <3>1. back.line \in Threads
      BY <2>3 DEF LineQueue, BackAt, LoggerInv, Shape
    <3> QED
      BY <2>3, <3>1, <1>5 DEF LineQueue
  <2>4. CASE Top \/ ResetTimeout \/ WaitAndPop \/ Archive \/ CreateFileFails \/ Recycle
    BY <2>4, <1>6 DEF Top, ResetTimeout, WaitAndPop, Archive, CreateFileFails, Recycle, lineVars
  <2> QED
    BY <1>9, <2>1, <2>2, <2>3, <2>4 DEF BackStep
<1>10. CASE TimeoutNotify \/ Stop \/ UNCHANGED vars
  BY <1>6, <1>10 DEF TimeoutNotify, Stop, vars, lineVars
<1> QED
  BY <1>7, <1>8, <1>9, <1>10 DEF Next

\* Every step of pushToBuffer keeps the message it was called with.
LEMMA HandsStep ==
  ASSUME LoggerInv, \A t \in Threads : HandsInv(t), [Next]_vars
  PROVE  \A t \in Threads : HandsInv(t)'
<1>0. SUFFICES ASSUME NEW u \in Threads PROVE HandsInv(u)'
  OBVIOUS
<1>a. HandsInv(u) /\ writer \in [Threads -> [pc : {"idle", "push", "empty", "swap", "store", "queue"}, msg : Msg \cup {NoMsg}]]
      /\ logged \in [Threads -> Seq(Msg)]
  BY DEF LoggerInv, Shape
<1>1. ASSUME UNCHANGED <<writer, logged>> PROVE HandsInv(u)'
  BY <1>1, <1>a DEF HandsInv
<1>2. ASSUME NEW t \in Threads, NEW pc, Goto(t, pc), pc \in Hands => writer[t].pc \in Hands, logged' = logged
      PROVE  HandsInv(u)'
  <2>1. writer'[u].msg = writer[u].msg /\ (writer'[u].pc \in Hands => writer[u].pc \in Hands)
    BY <1>2, <1>a DEF Goto
  <2> QED
    BY <1>2, <2>1, <1>a DEF HandsInv
<1>3. ASSUME NEW t \in Threads, NEW z \in Sizes, Log(t, z) PROVE HandsInv(u)'
  <2> DEFINE m == [t |-> t, n |-> Len(logged[t]) + 1, z |-> z]
  <2>1. logged' = [logged EXCEPT ![t] = Append(logged[t], m)] /\ writer' = [writer EXCEPT ![t] = [pc |-> "push", msg |-> m]]
    BY <1>3 DEF Log
  <2>2. CASE u # t
    <3>1. logged'[u] = logged[u] /\ writer'[u] = writer[u]
      BY <2>1, <2>2, <1>a
    <3> QED
      BY <3>1, <1>a DEF HandsInv
  <2>3. CASE u = t
    <3>1. logged[t] \in Seq(MessagesOf(t)) /\ \A i \in 1..Len(logged[t]) : logged[t][i].n = i
      BY <2>3, <1>a DEF HandsInv
    <3>2. Len(logged[t]) + 1 \in Nat \ {0}
      BY <3>1
    <3>3. m \in MessagesOf(t) /\ m.n = Len(logged[t]) + 1
      BY <3>2 DEF MessagesOf
    <3>4. logged'[t] = Append(logged[t], m) /\ writer'[t] = [pc |-> "push", msg |-> m]
      BY <2>1, <1>a
    <3> HIDE DEF m
    <3> DEFINE s == logged[t]
               r == Append(s, m)
    <3>5. r \in Seq(MessagesOf(t)) /\ r # <<>> /\ Len(r) = Len(s) + 1 /\ Len(s) \in Nat
      BY <3>1, <3>3
    <3>6. \A i \in 1..Len(r) : r[i] = IF i = Len(r) THEN m ELSE s[i]
      BY <3>1, <3>3
    <3> HIDE DEF r, s
    <3>7. \A i \in 1..Len(r) : r[i].n = i
      BY <3>1, <3>3, <3>5, <3>6 DEF s
    <3>8. r[Len(r)] = m
      BY <3>5, <3>6
    <3>9. logged'[t] = r /\ writer'[t].msg = m
      BY <3>4 DEF r, s
    <3> QED
      BY <2>3, <3>5, <3>7, <3>8, <3>9 DEF HandsInv
  <2> QED
    BY <2>2, <2>3
<1>4. ASSUME NEW t \in Threads, WriterStep(t) PROVE HandsInv(u)'
  <2>1. CASE WriterPush(t)
    <3>1. logged' = logged /\ (UNCHANGED writer \/ Goto(t, "idle") \/ Goto(t, "empty")) /\ writer[t].pc \in Hands
      BY <2>1 DEF WriterPush, At, Hands
    <3> QED
      BY <3>1, <1>1, <1>2
  <2>2. CASE WriterGetEmpty(t)
    BY <2>2, <1>2 DEF WriterGetEmpty, At, Hands
  <2>3. CASE WriterSwap(t)
    BY <2>3, <1>2 DEF WriterSwap, At, Hands
  <2>4. CASE WriterStore(t)
    BY <2>4, <1>2 DEF WriterStore, At, Hands
  <2>5. CASE WriterQueue(t)
    BY <2>5, <1>2 DEF WriterQueue, At, Hands
  <2> QED
    BY <1>4, <2>1, <2>2, <2>3, <2>4, <2>5 DEF WriterStep
<1>5. CASE BackStep
  <2>1. CASE \E t \in Threads : VisitLine(t)
    BY <2>1, <1>1 DEF VisitLine
  <2>2. CASE LineSwap \/ LineQueue
    BY <2>2, <1>1 DEF LineSwap, LineQueue
  <2>3. CASE Top \/ ResetTimeout \/ WaitAndPop \/ Archive \/ CreateFileFails \/ Recycle
    BY <2>3, <1>1 DEF Top, ResetTimeout, WaitAndPop, Archive, CreateFileFails, Recycle, lineVars
  <2> QED
    BY <1>5, <2>1, <2>2, <2>3 DEF BackStep
<1>6. CASE TimeoutNotify \/ Stop \/ UNCHANGED vars
  BY <1>6, <1>1 DEF TimeoutNotify, Stop, vars, lineVars
<1>7. CASE \E t \in Threads : (\E z \in Sizes : Log(t, z)) \/ WriterStep(t)
  <2>1. PICK t \in Threads : (\E z \in Sizes : Log(t, z)) \/ WriterStep(t)
    BY <1>7
  <2> QED
    BY <2>1, <1>3, <1>4
<1> QED
  BY <1>5, <1>6, <1>7 DEF Next

\* Failures are counted, a race is never forgotten, and the logger is not started again.
LEMMA UndisturbedBefore ==
  ASSUME faults \in Nat, [Next]_vars
  PROVE  faults' \in Nat /\ (Undisturbed' => Undisturbed /\ faults' = faults)
<1>1. ASSUME UNCHANGED <<faults, running, raced>> PROVE faults' \in Nat /\ (Undisturbed' => Undisturbed /\ faults' = faults)
  BY <1>1 DEF Undisturbed
<1>a. ASSUME UNCHANGED <<faults, running>>, raced => raced' PROVE faults' \in Nat /\ (Undisturbed' => Undisturbed /\ faults' = faults)
  BY <1>a DEF Undisturbed
<1>2. CASE \E t \in Threads : \E z \in Sizes : Log(t, z)
  <2>1. PICK t \in Threads, z \in Sizes : Log(t, z)
    BY <1>2
  <2>2. raced' = (raced \/ back.line = t \/ (t \notin lines /\ todo # {})) /\ UNCHANGED <<faults, running>>
    BY <2>1 DEF Log
  <2>3. raced => raced'
    BY <2>2, Zenon
  <2> QED
    BY <1>a, <2>2, <2>3
<1>3. CASE \E t \in Threads : WriterStep(t)
  BY <1>3, <1>1 DEF WriterStep, WriterPush, WriterGetEmpty, WriterSwap, WriterStore, WriterQueue
<1>4. CASE \E t \in Threads : VisitLine(t)
  <2>1. PICK t \in Threads : VisitLine(t)
    BY <1>4
  <2>2. raced' = (raced \/ writer[t].pc # "idle") /\ UNCHANGED <<faults, running>>
    BY <2>1 DEF VisitLine
  <2>3. raced => raced'
    BY <2>2, Zenon
  <2> QED
    BY <1>a, <2>2, <2>3
<1>5. CASE Archive
  <2>1. raced' = raced /\ running' = running /\ (faults' = faults \/ faults' = faults + 1)
    BY <1>5 DEF Archive, Write
  <2> QED
    BY <2>1 DEF Undisturbed
<1>6. CASE CreateFileFails
  BY <1>6 DEF CreateFileFails, Undisturbed
<1>7. CASE Top \/ LineSwap \/ LineQueue \/ ResetTimeout \/ WaitAndPop \/ Recycle \/ TimeoutNotify \/ UNCHANGED vars
  BY <1>7, <1>1 DEF Top, LineSwap, LineQueue, ResetTimeout, WaitAndPop, Recycle, TimeoutNotify, vars
<1>8. CASE Stop
  BY <1>8 DEF Stop, Undisturbed
<1> QED
  BY <1>2, <1>3, <1>4, <1>5, <1>6, <1>7, <1>8 DEF Next, BackStep

\* Everywhere is the chain of the places a message may be in.
LEMMA Spread == \A t : /\ Everywhere(t) = Chain(disk, Hand, filled, b[t], a[t], t)
                       /\ Everywhere(t)' = Chain(disk', Hand', filled', b'[t], a'[t], t)
  BY DEF Everywhere, Chain, Hand

\* What the invariants say of each line while nothing went wrong.
LEMMA OrderFacts ==
  ASSUME LoggerInv, OnceInv, Undisturbed
  PROVE  /\ ~crashed /\ filled \in Seq(Buffer) /\ opened /\ disk \in Buffer /\ Hand \in Buffer /\ LineInv
         /\ \A t \in Threads : /\ WriterInv(t) /\ HandsInv(t) /\ OwnLine(t)
                               /\ a[t] \in Seq(MessagesOf(t)) /\ a[t] \in Buffer /\ a[t] \in Pointer
                               /\ b[t] \in Seq(MessagesOf(t)) \cup {Null} /\ b[t] \in Pointer
                               /\ Standby(t)
<1>1. ~raced
  BY DEF Undisturbed
<1>2. ~crashed /\ (\A t \in Threads : WriterInv(t)) /\ LineInv /\ filled \in Seq(Buffer)
  BY <1>1 DEF LoggerInv, NullInv
<1>3. opened /\ disk \in Buffer /\ Hand \in Buffer /\ (\A t \in Threads : HandsInv(t) /\ OwnLine(t))
  BY DEF OnceInv, OrderInv
<1>4. ASSUME NEW t \in Threads
      PROVE  /\ a[t] \in Seq(MessagesOf(t)) /\ a[t] \in Buffer /\ a[t] \in Pointer
             /\ b[t] \in Seq(MessagesOf(t)) \cup {Null} /\ b[t] \in Pointer /\ Standby(t)
  <2>1. a[t] \in Seq(MessagesOf(t)) /\ b[t] \in Seq(MessagesOf(t)) \cup {Null} /\ Standby(t)
    BY <1>3 DEF OwnLine
  <2>2. a[t] \in Pointer /\ b[t] \in Pointer
    BY DEF LoggerInv, Shape
  <2>3. a[t] \in Buffer
    BY <1>2 DEF WriterInv
  <2> QED
    BY <2>1, <2>2, <2>3
<1> QED
  BY <1>2, <1>3, <1>4

\* What a thread logged is accepted the same as long as its message stays in its hands.
LEMMA SameAccepted ==
  ASSUME NEW u, logged'[u] = logged[u], writer'[u].msg = writer[u].msg,
         writer'[u].pc \in Hands <=> writer[u].pc \in Hands
  PROVE  Accepted(u)' = Accepted(u)
<1>1. InHands(u)' = InHands(u)
  BY DEF InHands, Hands
<1> QED
  BY <1>1 DEF Accepted

\* Other lines stay as they are when a thread or the background thread works on one.
LEMMA OthersKept ==
  ASSUME LoggerInv, OnceInv, Undisturbed, NEW t \in Threads, NEW u \in Threads, u # t,
         a'[u] = a[u], b'[u] = b[u], writer'[u] = writer[u], logged'[u] = logged[u],
         disk' = disk, Hand' = Hand, InLine(u)' <=> InLine(u),
         filled' = filled \/ (filled' = Append(filled, b[t]) /\ b[t] \in Seq(MessagesOf(t)))
  PROVE  OwnLine(u)'
<1>1. /\ filled \in Seq(Buffer) /\ disk \in Buffer /\ Hand \in Buffer /\ OwnLine(u)
      /\ a[u] \in Pointer /\ b[u] \in Pointer
  BY OrderFacts
<1>2. Accepted(u)' = Accepted(u)
  BY SameAccepted
<1>3. Chain(disk, Hand, filled', b[u], a[u], u) = Chain(disk, Hand, filled, b[u], a[u], u)
  <2>1. CASE filled' = filled
    BY <2>1
  <2>2. CASE filled' = Append(filled, b[t]) /\ b[t] \in Seq(MessagesOf(t))
    <3>1. b[t] \in Buffer
      BY <2>2, MessageFacts
    <3> DEFINE z == b[t]
    <3>2. z \in Seq(MessagesOf(t)) /\ z \in Buffer
      BY <2>2, <3>1
    <3>3. filled' = Append(filled, z)
      BY <2>2
    <3> HIDE DEF z
    <3>4. Chain(disk, Hand, Append(filled, z), b[u], a[u], u) = Chain(disk, Hand, filled, b[u], a[u], u)
      BY <1>1, <3>2, ChainOther
    <3> QED
      BY <3>3, <3>4
  <2> QED
    BY <2>1, <2>2
<1>4. Everywhere(u)' = Everywhere(u)
  BY <1>3, Spread
<1>5. Standby(u)'
  BY <1>1 DEF Standby, OwnLine
<1> QED
  BY <1>1, <1>2, <1>4, <1>5 DEF OwnLine

\* A message that comes to rest is the newest of what was accepted.
LEMMA HandsOver ==
  ASSUME NEW t \in Threads, HandsInv(t), writer[t].pc \in Hands, writer'[t].pc \notin Hands, logged'[t] = logged[t]
  PROVE  LET m == writer[t].msg
         IN /\ Accepted(t)' = IF m.z < Capacity THEN Append(Accepted(t), m) ELSE Accepted(t)
            /\ m \in MessagesOf(t)
<1> DEFINE m == writer[t].msg
           s == logged[t]
           F == Fitting(t)
<1>1. s \in Seq(MessagesOf(t)) /\ s # <<>> /\ m = s[Len(s)] /\ \A i \in 1..Len(s) : s[i].n = i
  BY DEF HandsInv
<1>2. Accepted(t) = Only(s, F \ {m})
  BY DEF Accepted, InHands, Fitting, Hands
<1>3. Accepted(t)' = Only(s, F)
  <2>1. InHands(t)' = {}
    BY DEF InHands, Hands
  <2>2. Accepted(t)' = Only(s, F \ {})
    BY <2>1 DEF Accepted, Fitting
  <2>3. F \ {} = F
    OBVIOUS
  <2> QED
    BY <2>2, <2>3
<1> HIDE DEF m, s, F
<1>4. Len(s) \in 1..Len(s)
  BY <1>1
<1>5. m \in MessagesOf(t)
  BY <1>1, <1>4
<1>6. \A i \in 1..Len(s) : s[i] = m => i = Len(s)
  BY <1>1, <1>4
<1>7. Only(s, F) = IF m \in F THEN Append(Only(s, F \ {m}), m) ELSE Only(s, F \ {m})
  BY <1>1, <1>6, OnlyLast
<1>8. m \in F <=> m.z < Capacity
  BY <1>5 DEF F, Fitting
<1> QED
  BY <1>2, <1>3, <1>5, <1>7, <1>8 DEF m

-----------------------------------------------------------------------------
\* The next message waits in the hands of its thread.
LEMMA LogOrder ==
  ASSUME LoggerInv, OnceInv, Undisturbed, NEW t \in Threads, NEW z \in Sizes, Log(t, z)
  PROVE  \A u \in Threads : OwnLine(u)'
<1> DEFINE m == [t |-> t, n |-> Len(logged[t]) + 1, z |-> z]
           s == logged[t]
           F == Fitting(t)
<1>0. logged \in [Threads -> Seq(Msg)] /\ DOMAIN writer = Threads
  BY DEF LoggerInv, Shape
<1>1. /\ logged' = [logged EXCEPT ![t] = Append(s, m)] /\ writer' = [writer EXCEPT ![t] = [pc |-> "push", msg |-> m]]
      /\ UNCHANGED <<a, b, back, filled, disk>> /\ writer[t].pc = "idle"
  BY DEF Log, fileVars, At
<1>2. Hand' = Hand /\ \A u \in Threads : InLine(u)' <=> InLine(u)
  BY <1>1 DEF Hand, InLine
<1>3. ASSUME NEW u \in Threads, u # t PROVE OwnLine(u)'
  <2>1. a'[u] = a[u] /\ b'[u] = b[u] /\ writer'[u] = writer[u] /\ logged'[u] = logged[u] /\ filled' = filled /\ disk' = disk
    BY <1>0, <1>1, <1>3
  <2> QED
    BY <1>2, <1>3, <2>1, OthersKept
<1>4. OwnLine(t)'
  <2>1. s \in Seq(MessagesOf(t)) /\ (\A i \in 1..Len(s) : s[i].n = i) /\ OwnLine(t)
    BY OrderFacts DEF HandsInv
  <2>2. m.n = Len(s) + 1 /\ Len(s) \in Nat
    BY <2>1
  <2>3. m \in MessagesOf(t)
    BY <2>2 DEF MessagesOf
  <2>4. logged'[t] = Append(s, m) /\ writer'[t].pc = "push" /\ writer'[t].msg = m
    BY <1>0, <1>1
  <2>5. Accepted(t) = Only(s, F \ {})
    BY <1>1 DEF Accepted, InHands, Fitting
  <2>6. Accepted(t)' = Only(Append(s, m), F \ {m})
    <3>1. InHands(t)' = {m}
      BY <2>4 DEF InHands
    <3> QED
      BY <2>4, <3>1 DEF Accepted, Fitting
  <2> HIDE DEF m, s, F
  <2>7. Only(Append(s, m), F \ {m}) = Only(s, F \ {m})
    <3> DEFINE R == F \ {m}
    <3>1. m \notin R
      OBVIOUS
    <3> HIDE DEF R
    <3>2. Only(Append(s, m), R) = IF m \in R THEN Append(Only(s, R), m) ELSE Only(s, R)
      BY <2>1, <2>3, OnlyAppend
    <3> QED
      BY <3>1, <3>2 DEF R
  <2>8. Only(s, F \ {m}) = Only(s, F \ {})
    <3>1. \A i \in DOMAIN s : s[i] # m
      BY <2>1, <2>2
    <3>2. \A i \in DOMAIN s : s[i] \in F \ {m} <=> s[i] \in F \ {}
      BY <3>1
    <3> DEFINE R == F \ {m}
               Q == F \ {}
    <3> HIDE DEF R, Q
    <3>3. \A i \in DOMAIN s : s[i] \in R <=> s[i] \in Q
      BY <3>2 DEF R, Q
    <3>4. Only(s, R) = Only(s, Q)
      BY <3>3, OnlySame
    <3> QED
      BY <3>4 DEF R, Q
  <2>9. Accepted(t)' = Accepted(t)
    BY <2>5, <2>6, <2>7, <2>8
  <2>10. Everywhere(t)' = Everywhere(t)
    BY <1>1, <1>2, Spread
  <2>11. Standby(t)'
    BY <1>1, <1>2, <2>1, <2>4 DEF Standby, OwnLine
  <2> QED
    BY <1>1, <2>1, <2>9, <2>10, <2>11 DEF OwnLine
<1> QED
  BY <1>3, <1>4

-----------------------------------------------------------------------------
(* The order of the messages, action by action *)

\* A step of pushToBuffer leaves the other lines alone.
LEMMA WriterOthers ==
  ASSUME LoggerInv, OnceInv, Undisturbed, NEW t \in Threads, NEW x, NEW y, NEW pc,
         a' = [a EXCEPT ![t] = x], b' = [b EXCEPT ![t] = y], Goto(t, pc),
         UNCHANGED <<logged, back, disk>>,
         filled' = filled \/ (filled' = Append(filled, b[t]) /\ b[t] \in Seq(MessagesOf(t)))
  PROVE  /\ \A u \in Threads : u # t => OwnLine(u)'
         /\ a'[t] = x /\ b'[t] = y /\ writer'[t].pc = pc /\ writer'[t].msg = writer[t].msg
         /\ Hand' = Hand /\ InLine(t)' = InLine(t)
         /\ logged'[t] = logged[t]
<1>0. /\ DOMAIN a = Threads /\ DOMAIN b = Threads
      /\ writer \in [Threads -> [pc : {"idle", "push", "empty", "swap", "store", "queue"}, msg : Msg \cup {NoMsg}]]
  BY DEF LoggerInv, Shape
<1>1. Hand' = Hand /\ \A u : InLine(u)' = InLine(u)
  BY DEF Hand, InLine
<1>2. ASSUME NEW u \in Threads, u # t PROVE OwnLine(u)'
  <2>1. a'[u] = a[u] /\ b'[u] = b[u] /\ writer'[u] = writer[u] /\ logged'[u] = logged[u] /\ disk' = disk
    BY <1>0, <1>2 DEF Goto
  <2>2. InLine(u)' <=> InLine(u)
    BY <1>1
  <2> QED
    BY <1>1, <1>2, <2>1, <2>2, OthersKept
<1>3. a'[t] = x /\ b'[t] = y /\ writer'[t].pc = pc /\ writer'[t].msg = writer[t].msg
  BY <1>0 DEF Goto
<1> QED
  BY <1>1, <1>2, <1>3

\* A message that is stored in the work buffer is the newest of all.
LEMMA WriterPushOrder ==
  ASSUME LoggerInv, OnceInv, Undisturbed, NEW t \in Threads, WriterPush(t)
  PROVE  \A u \in Threads : OwnLine(u)'
<1> DEFINE m == writer[t].msg
           x == Stored(a[t], m)
           pc == IF Fits(a[t], m) THEN "idle" ELSE "empty"
<1>1. /\ a[t] \in Buffer /\ a[t] # Null /\ writer[t].pc = "push" /\ a[t] \in Seq(MessagesOf(t)) /\ HandsInv(t) /\ OwnLine(t)
      /\ filled \in Seq(Buffer) /\ disk \in Buffer /\ Hand \in Buffer /\ b[t] \in Pointer /\ Standby(t)
  BY OrderFacts, BufferNotNull DEF WriterPush, At
<1>2. /\ a' = [a EXCEPT ![t] = x] /\ Goto(t, pc) /\ b' = [b EXCEPT ![t] = b[t]]
      /\ UNCHANGED <<logged, back, disk>> /\ filled' = filled
  <2>1. b' = b /\ DOMAIN b = Threads /\ b = [b EXCEPT ![t] = b[t]]
    BY DEF WriterPush, LoggerInv, Shape
  <2> QED
    BY <1>1, <2>1 DEF WriterPush, fileVars
<1>3. /\ \A u \in Threads : u # t => OwnLine(u)'
      /\ a'[t] = x /\ b'[t] = b[t] /\ writer'[t].pc = pc /\ writer'[t].msg = writer[t].msg
      /\ Hand' = Hand /\ InLine(t)' = InLine(t) /\ logged'[t] = logged[t]
  <2> HIDE DEF x, pc
  <2> QED
    BY <1>2, WriterOthers
<1>4. m \in MessagesOf(t) /\ m \in Msg
  <2>1. m = logged[t][Len(logged[t])] /\ logged[t] # <<>> /\ logged[t] \in Seq(MessagesOf(t))
    BY <1>1 DEF HandsInv, Hands
  <2>2. m \in MessagesOf(t)
    BY <2>1
  <2> QED
    BY <2>2, MessageFacts
<1>5. Standby(t)'
  BY <1>1, <1>3 DEF Standby
<1>6. CASE Fits(a[t], m)
  <2>1. m.z < Capacity
    <3>1. Bytes(a[t]) < Capacity
      BY <1>1 DEF OnceInv, SizeInv, Sized
    <3> QED
      BY <1>1, <1>4, <1>6, <3>1, StoredSized
  <2>2. x = Append(a[t], m) /\ pc = "idle"
    BY <1>6 DEF Stored
  <2>3. Accepted(t)' = Append(Accepted(t), m)
    <3>1. writer[t].pc \in Hands /\ writer'[t].pc \notin Hands
      BY <1>1, <1>3, <2>2 DEF Hands
    <3> QED
      BY <1>1, <1>3, <2>1, <3>1, HandsOver
  <2>4. Chain(disk, Hand, filled, b[t], Append(a[t], m), t) = Append(Chain(disk, Hand, filled, b[t], a[t], t), m)
    <3> DEFINE y == b[t]
               w == a[t]
               d == disk
               h == Hand
               f == filled
               k == m
    <3>1. y \in Pointer /\ w \in Buffer /\ d \in Buffer /\ h \in Buffer /\ f \in Seq(Buffer) /\ k \in MessagesOf(t) /\ k \in Msg
      BY <1>1, <1>4
    <3> HIDE DEF y, w, d, h, f, k
    <3>2. Chain(d, h, f, y, Append(w, k), t) = Append(Chain(d, h, f, y, w, t), k)
      BY <3>1, ChainStore
    <3> QED
      BY <3>2 DEF y, w, d, h, f, k
  <2>5. Everywhere(t)' = Append(Everywhere(t), m)
    BY <1>2, <1>3, <2>2, <2>4, Spread
  <2>6. x \in Seq(MessagesOf(t))
    BY <1>1, <1>4, <2>2
  <2>7. OwnLine(t)'
    BY <1>1, <1>3, <1>5, <2>3, <2>5, <2>6 DEF OwnLine
  <2> QED
    BY <1>3, <2>7
<1>7. CASE ~Fits(a[t], m)
  <2>1. x = a[t] /\ pc = "empty"
    BY <1>7 DEF Stored
  <2>2. Accepted(t)' = Accepted(t)
    <3>1. writer[t].pc \in Hands /\ writer'[t].pc \in Hands
      BY <1>1, <1>3, <2>1 DEF Hands
    <3> QED
      BY <1>3, <3>1, SameAccepted
  <2>3. Everywhere(t)' = Everywhere(t)
    BY <1>2, <1>3, <2>1, Spread
  <2>4. OwnLine(t)'
    BY <1>1, <1>3, <1>5, <2>1, <2>2, <2>3 DEF OwnLine
  <2> QED
    BY <1>3, <2>4
<1> QED
  BY <1>6, <1>7

\* The standby buffer that is fetched is empty.
LEMMA WriterGetEmptyOrder ==
  ASSUME LoggerInv, OnceInv, Undisturbed, NEW t \in Threads, WriterGetEmpty(t)
  PROVE  \A u \in Threads : OwnLine(u)'
<1>1. /\ writer[t].pc = "empty" /\ a[t] \in Seq(MessagesOf(t)) /\ OwnLine(t) /\ a[t] \in Pointer
      /\ filled \in Seq(Buffer) /\ disk \in Buffer /\ Hand \in Buffer /\ LineInv /\ Standby(t)
  BY OrderFacts DEF WriterGetEmpty, At
<1>2. ~InLine(t)
  BY <1>1 DEF LineInv, InLine
<1>3. b[t] \in {<<>>, Null}
  BY <1>1, <1>2 DEF Standby
<1>4. /\ b' = [b EXCEPT ![t] = <<>>] /\ Goto(t, "swap") /\ a' = [a EXCEPT ![t] = a[t]]
      /\ UNCHANGED <<logged, back, disk>> /\ filled' = filled
  <2>1. a' = a /\ DOMAIN a = Threads /\ a = [a EXCEPT ![t] = a[t]]
    BY DEF WriterGetEmpty, LoggerInv, Shape
  <2>2. b' = [b EXCEPT ![t] = IF b[t] = Null THEN <<>> ELSE b[t]]
    BY DEF WriterGetEmpty, GetEmptyBuffer
  <2>3. (IF b[t] = Null THEN <<>> ELSE b[t]) = <<>>
    BY <1>3
  <2> QED
    BY <2>1, <2>2, <2>3 DEF WriterGetEmpty, fileVars
<1>5. /\ \A u \in Threads : u # t => OwnLine(u)'
      /\ a'[t] = a[t] /\ b'[t] = <<>> /\ writer'[t].pc = "swap" /\ writer'[t].msg = writer[t].msg
      /\ Hand' = Hand /\ InLine(t)' = InLine(t) /\ logged'[t] = logged[t]
  BY <1>4, WriterOthers
<1>6. Accepted(t)' = Accepted(t)
  <2>1. writer[t].pc \in Hands /\ writer'[t].pc \in Hands
    BY <1>1, <1>5 DEF Hands
  <2> QED
    BY <1>5, <2>1, SameAccepted
<1>7. Chain(disk, Hand, filled, Null, a[t], t) = Chain(disk, Hand, filled, <<>>, a[t], t)
  BY <1>1, ChainFetch
<1>8. Everywhere(t)' = Everywhere(t)
  BY <1>3, <1>4, <1>5, <1>7, Spread
<1>9. Standby(t)' /\ <<>> \in Seq(MessagesOf(t))
  BY <1>5 DEF Standby
<1>10. OwnLine(t)'
  BY <1>1, <1>5, <1>6, <1>8, <1>9 DEF OwnLine
<1> QED
  BY <1>5, <1>10

\* The empty standby buffer takes the place of the full one.
LEMMA WriterSwapOrder ==
  ASSUME LoggerInv, OnceInv, Undisturbed, NEW t \in Threads, WriterSwap(t)
  PROVE  \A u \in Threads : OwnLine(u)'
<1>1. /\ writer[t].pc = "swap" /\ a[t] \in Seq(MessagesOf(t)) /\ OwnLine(t) /\ a[t] \in Pointer
      /\ filled \in Seq(Buffer) /\ disk \in Buffer /\ Hand \in Buffer /\ Standby(t)
  BY OrderFacts DEF WriterSwap, At
<1>2. b[t] = <<>>
  BY <1>1 DEF Standby
<1>4. /\ a' = [a EXCEPT ![t] = <<>>] /\ b' = [b EXCEPT ![t] = a[t]] /\ Goto(t, "store")
      /\ UNCHANGED <<logged, back, disk>> /\ filled' = filled
  BY <1>2 DEF WriterSwap, Swap, fileVars
<1>5. /\ \A u \in Threads : u # t => OwnLine(u)'
      /\ a'[t] = <<>> /\ b'[t] = a[t] /\ writer'[t].pc = "store" /\ writer'[t].msg = writer[t].msg
      /\ Hand' = Hand /\ InLine(t)' = InLine(t) /\ logged'[t] = logged[t]
  BY <1>4, WriterOthers
<1>6. Accepted(t)' = Accepted(t)
  <2>1. writer[t].pc \in Hands /\ writer'[t].pc \in Hands
    BY <1>1, <1>5 DEF Hands
  <2> QED
    BY <1>5, <2>1, SameAccepted
<1>7. Chain(disk, Hand, filled, a[t], <<>>, t) = Chain(disk, Hand, filled, <<>>, a[t], t)
  BY <1>1, ChainSwap
<1>8. Everywhere(t)' = Everywhere(t)
  BY <1>2, <1>4, <1>5, <1>7, Spread
<1>9. Standby(t)' /\ <<>> \in Seq(MessagesOf(t))
  BY <1>5 DEF Standby
<1>10. OwnLine(t)'
  BY <1>1, <1>5, <1>6, <1>8, <1>9 DEF OwnLine
<1> QED
  BY <1>5, <1>10

\* The message comes into the buffer swapped in, or is too long for every buffer.
LEMMA WriterStoreOrder ==
  ASSUME LoggerInv, OnceInv, Undisturbed, NEW t \in Threads, WriterStore(t)
  PROVE  \A u \in Threads : OwnLine(u)'
<1> DEFINE m == writer[t].msg
           x == Stored(a[t], m)
<1>1. /\ a[t] \in Buffer /\ a[t] # Null /\ writer[t].pc = "store" /\ HandsInv(t) /\ OwnLine(t)
      /\ filled \in Seq(Buffer) /\ disk \in Buffer /\ Hand \in Buffer /\ b[t] \in Pointer /\ Standby(t)
  BY OrderFacts, BufferNotNull DEF WriterStore, At
<1>a. a[t] = <<>>
  BY <1>1 DEF Standby
<1>2. /\ a' = [a EXCEPT ![t] = x] /\ Goto(t, "queue") /\ b' = [b EXCEPT ![t] = b[t]]
      /\ UNCHANGED <<logged, back, disk>> /\ filled' = filled
  <2>1. b' = b /\ DOMAIN b = Threads /\ b = [b EXCEPT ![t] = b[t]]
    BY DEF WriterStore, LoggerInv, Shape
  <2> QED
    BY <1>1, <2>1 DEF WriterStore, fileVars
<1>3. /\ \A u \in Threads : u # t => OwnLine(u)'
      /\ a'[t] = x /\ b'[t] = b[t] /\ writer'[t].pc = "queue" /\ writer'[t].msg = writer[t].msg
      /\ Hand' = Hand /\ InLine(t)' = InLine(t) /\ logged'[t] = logged[t]
  <2> HIDE DEF x
  <2> QED
    BY <1>2, WriterOthers
<1>4. /\ Accepted(t)' = IF m.z < Capacity THEN Append(Accepted(t), m) ELSE Accepted(t)
      /\ m \in MessagesOf(t)
  <2>1. writer[t].pc \in Hands /\ writer'[t].pc \notin Hands
    BY <1>1, <1>3 DEF Hands
  <2> QED
    BY <1>1, <1>3, <2>1, HandsOver
<1>b. m \in Msg
  BY <1>4, MessageFacts
<1>5. Standby(t)'
  BY <1>3 DEF Standby
<1>6. Fits(a[t], m) <=> m.z < Capacity
  <2>1. Bytes(a[t]) < Capacity
    BY <1>1 DEF OnceInv, SizeInv, Sized
  <2> QED
    BY <1>1, <1>a, <1>b, <2>1, StoredSized
<1>7. CASE Fits(a[t], m)
  <2>2. x = Append(a[t], m)
    BY <1>7 DEF Stored
  <2>4. Chain(disk, Hand, filled, b[t], Append(a[t], m), t) = Append(Chain(disk, Hand, filled, b[t], a[t], t), m)
    <3> DEFINE y == b[t]
               w == a[t]
               d == disk
               h == Hand
               f == filled
               k == m
    <3>1. y \in Pointer /\ w \in Buffer /\ d \in Buffer /\ h \in Buffer /\ f \in Seq(Buffer) /\ k \in MessagesOf(t) /\ k \in Msg
      BY <1>1, <1>4, <1>b
    <3> HIDE DEF y, w, d, h, f, k
    <3>2. Chain(d, h, f, y, Append(w, k), t) = Append(Chain(d, h, f, y, w, t), k)
      BY <3>1, ChainStore
    <3> QED
      BY <3>2 DEF y, w, d, h, f, k
  <2>5. Everywhere(t)' = Append(Everywhere(t), m)
    BY <1>2, <1>3, <2>2, <2>4, Spread
  <2>6. x \in Seq(MessagesOf(t))
    BY <1>1, <1>4, <2>2 DEF OwnLine
  <2>7. OwnLine(t)'
    BY <1>1, <1>3, <1>4, <1>5, <1>6, <1>7, <2>5, <2>6 DEF OwnLine
  <2> QED
    BY <1>3, <2>7
<1>8. CASE ~Fits(a[t], m)
  <2>1. x = a[t]
    BY <1>8 DEF Stored
  <2>3. Everywhere(t)' = Everywhere(t)
    BY <1>2, <1>3, <2>1, Spread
  <2>4. OwnLine(t)'
    BY <1>1, <1>3, <1>4, <1>5, <1>6, <1>8, <2>1, <2>3 DEF OwnLine
  <2> QED
    BY <1>3, <2>4
<1> QED
  BY <1>7, <1>8

\* The full buffer goes behind what is queued and stays before the work buffer.
LEMMA WriterQueueOrder ==
  ASSUME LoggerInv, OnceInv, Undisturbed, NEW t \in Threads, WriterQueue(t)
  PROVE  \A u \in Threads : OwnLine(u)'
<1>1. /\ writer[t].pc = "queue" /\ OwnLine(t) /\ a[t] \in Pointer /\ a[t] \in Seq(MessagesOf(t))
      /\ filled \in Seq(Buffer) /\ disk \in Buffer /\ Hand \in Buffer /\ WriterInv(t) /\ b[t] \in Seq(MessagesOf(t)) \cup {Null}
  BY OrderFacts DEF WriterQueue, At
<1>2. b[t] \in Buffer /\ b[t] \in Seq(MessagesOf(t))
  BY <1>1, BufferNotNull DEF WriterInv, Holding
<1>4. /\ b' = [b EXCEPT ![t] = Null] /\ Goto(t, "idle") /\ a' = [a EXCEPT ![t] = a[t]]
      /\ UNCHANGED <<logged, back, disk>> /\ filled' = Append(filled, b[t])
  <2>1. a' = a /\ DOMAIN a = Threads /\ a = [a EXCEPT ![t] = a[t]]
    BY DEF WriterQueue, LoggerInv, Shape
  <2> QED
    BY <2>1 DEF WriterQueue, PushFilled, fileVars
<1>5. /\ \A u \in Threads : u # t => OwnLine(u)'
      /\ a'[t] = a[t] /\ b'[t] = Null /\ writer'[t].pc = "idle" /\ writer'[t].msg = writer[t].msg
      /\ Hand' = Hand /\ InLine(t)' = InLine(t) /\ logged'[t] = logged[t]
  BY <1>2, <1>4, WriterOthers
<1>6. Accepted(t)' = Accepted(t)
  <2>1. writer[t].pc \notin Hands /\ writer'[t].pc \notin Hands
    BY <1>1, <1>5 DEF Hands
  <2> QED
    BY <1>5, <2>1, SameAccepted
<1>7. Chain(disk, Hand, Append(filled, b[t]), Null, a[t], t) = Chain(disk, Hand, filled, b[t], a[t], t)
  BY <1>1, <1>2, ChainQueue
<1>8. Everywhere(t)' = Everywhere(t)
  BY <1>4, <1>5, <1>7, Spread
<1>9. Standby(t)'
  BY <1>5 DEF Standby
<1>10. OwnLine(t)'
  BY <1>1, <1>5, <1>6, <1>8, <1>9 DEF OwnLine
<1> QED
  BY <1>5, <1>10

\* What a step of the background thread in the line of t does to the others.
LEMMA LineOthers ==
  ASSUME LoggerInv, OnceInv, Undisturbed, NEW t \in Threads, NEW x, NEW y,
         a' = [a EXCEPT ![t] = x], b' = [b EXCEPT ![t] = y],
         UNCHANGED <<writer, logged, disk>>,
         back.pc # "archive", back'.pc # "archive",
         \A u \in Threads : u # t => ~InLine(u) /\ ~InLine(u)',
         filled' = filled \/ (filled' = Append(filled, b[t]) /\ b[t] \in Seq(MessagesOf(t)))
  PROVE  /\ \A u \in Threads : u # t => OwnLine(u)'
         /\ a'[t] = x /\ b'[t] = y /\ Hand' = Hand /\ Hand = <<>> /\ Accepted(t)' = Accepted(t)
<1>0. DOMAIN a = Threads /\ DOMAIN b = Threads
  BY DEF LoggerInv, Shape
<1>1. Hand' = <<>> /\ Hand = <<>>
  BY DEF Hand
<1>2. ASSUME NEW u \in Threads, u # t PROVE OwnLine(u)'
  <2>1. a'[u] = a[u] /\ b'[u] = b[u] /\ writer'[u] = writer[u] /\ logged'[u] = logged[u] /\ disk' = disk
    BY <1>0, <1>2
  <2>2. InLine(u)' <=> InLine(u)
    BY <1>2
  <2>3. Hand' = Hand
    BY <1>1
  <2> QED
    BY <1>2, <2>1, <2>2, <2>3, OthersKept
<1>3. a'[t] = x /\ b'[t] = y
  BY <1>0
<1>4. Accepted(t)' = Accepted(t)
  BY SameAccepted
<1> QED
  BY <1>1, <1>2, <1>3, <1>4

\* The background thread meets a line whose standby buffer is empty.
LEMMA VisitLineOrder ==
  ASSUME LoggerInv, OnceInv, Undisturbed, Undisturbed', NEW t \in Threads, VisitLine(t)
  PROVE  (\A u \in Threads : OwnLine(u)') /\ Hand' = <<>>
<1>0. back.pc = "visit" /\ back \in [pc : {"top", "visit", "swap", "queue", "wait", "archive", "recycle"},
                                     line : Threads \cup {"none"}, buffer : Pointer]
  BY DEF VisitLine, BackAt, LoggerInv, Shape
<1>1. /\ a[t] \in Seq(MessagesOf(t)) /\ OwnLine(t) /\ a[t] \in Pointer
      /\ filled \in Seq(Buffer) /\ disk \in Buffer /\ Hand \in Buffer /\ Standby(t)
  BY OrderFacts
<1>2. writer[t].pc = "idle"
  <2>1. raced' = (raced \/ writer[t].pc # "idle") /\ ~raced'
    BY DEF VisitLine, Undisturbed
  <2> QED
    BY <2>1, Zenon
<1>3. b[t] \in {<<>>, Null}
  BY <1>0, <1>1, <1>2 DEF Standby, InLine
<1>4. /\ b' = [b EXCEPT ![t] = <<>>] /\ a' = [a EXCEPT ![t] = a[t]]
      /\ UNCHANGED <<writer, logged, disk>> /\ filled' = filled
  <2>1. a' = a /\ DOMAIN a = Threads /\ a = [a EXCEPT ![t] = a[t]]
    BY DEF VisitLine, LoggerInv, Shape
  <2>2. b' = [b EXCEPT ![t] = IF b[t] = Null THEN <<>> ELSE b[t]]
    BY DEF VisitLine, GetEmptyBuffer
  <2>3. (IF b[t] = Null THEN <<>> ELSE b[t]) = <<>>
    BY <1>3
  <2> QED
    BY <2>1, <2>2, <2>3 DEF VisitLine, fileVars
<1>5. back'.pc = "swap"
  BY <1>0 DEF VisitLine
<1>6. \A u \in Threads : ~InLine(u) /\ ~InLine(u)'
  BY <1>0, <1>5 DEF InLine
<1>7. /\ \A u \in Threads : u # t => OwnLine(u)'
      /\ a'[t] = a[t] /\ b'[t] = <<>> /\ Hand' = Hand /\ Hand = <<>> /\ Accepted(t)' = Accepted(t)
  BY <1>0, <1>4, <1>5, <1>6, LineOthers
<1>8. Chain(disk, Hand, filled, Null, a[t], t) = Chain(disk, Hand, filled, <<>>, a[t], t)
  BY <1>1, ChainFetch
<1>9. Everywhere(t)' = Everywhere(t)
  BY <1>3, <1>4, <1>7, <1>8, Spread
<1>10. Standby(t)' /\ <<>> \in Seq(MessagesOf(t))
  BY <1>2, <1>4, <1>7 DEF Standby
<1>11. OwnLine(t)'
  BY <1>1, <1>7, <1>9, <1>10 DEF OwnLine
<1> QED
  BY <1>7, <1>11

\* It swaps the empty buffer with the one in use.
LEMMA LineSwapOrder ==
  ASSUME LoggerInv, OnceInv, Undisturbed, LineSwap
  PROVE  (\A u \in Threads : OwnLine(u)') /\ Hand' = <<>>
<1>0. back.pc = "swap" /\ back \in [pc : {"top", "visit", "swap", "queue", "wait", "archive", "recycle"},
                                    line : Threads \cup {"none"}, buffer : Pointer]
  BY DEF LineSwap, BackAt, LoggerInv, Shape
<1>t. PICK t \in Threads : t = back.line
  BY <1>0 DEF LoggerInv, Shape
<1>1. /\ a[t] \in Seq(MessagesOf(t)) /\ OwnLine(t) /\ a[t] \in Pointer
      /\ filled \in Seq(Buffer) /\ disk \in Buffer /\ Hand \in Buffer /\ Standby(t) /\ LineInv
  BY OrderFacts
<1>2. writer[t].pc = "idle" /\ b[t] \in Buffer
  BY <1>0, <1>t, <1>1 DEF LineInv
<1>3. b[t] = <<>>
  BY <1>0, <1>1, <1>2, BufferNotNull DEF Standby, InLine
<1>4. /\ b' = [b EXCEPT ![t] = a[t]] /\ a' = [a EXCEPT ![t] = <<>>]
      /\ UNCHANGED <<writer, logged, disk>> /\ filled' = filled
  <2>1. a' = [a EXCEPT ![t] = b[t]] /\ b' = [b EXCEPT ![t] = a[t]]
    BY <1>t DEF LineSwap, Swap
  <2> QED
    BY <1>3, <2>1 DEF LineSwap, fileVars
<1>5. back'.pc = "queue" /\ back'.line = t
  BY <1>0, <1>t DEF LineSwap, BackTo
<1>6. \A u \in Threads : u # t => ~InLine(u) /\ ~InLine(u)'
  BY <1>0, <1>5 DEF InLine
<1>7. /\ \A u \in Threads : u # t => OwnLine(u)'
      /\ a'[t] = <<>> /\ b'[t] = a[t] /\ Hand' = Hand /\ Hand = <<>> /\ Accepted(t)' = Accepted(t)
  <2> DEFINE x == <<>>
             y == a[t]
  <2>1. a' = [a EXCEPT ![t] = x] /\ b' = [b EXCEPT ![t] = y] /\ back.pc # "archive" /\ back'.pc # "archive"
    BY <1>0, <1>4, <1>5
  <2>2. UNCHANGED <<writer, logged, disk>> /\ filled' = filled
    BY <1>4
  <2> HIDE DEF x, y
  <2>3. /\ \A u \in Threads : u # t => OwnLine(u)'
        /\ a'[t] = x /\ b'[t] = y /\ Hand' = Hand /\ Hand = <<>> /\ Accepted(t)' = Accepted(t)
    BY <1>6, <2>1, <2>2, LineOthers
  <2> QED
    BY <2>3 DEF x, y
<1>8. Chain(disk, Hand, filled, a[t], <<>>, t) = Chain(disk, Hand, filled, <<>>, a[t], t)
  BY <1>1, ChainSwap
<1>9. Everywhere(t)' = Everywhere(t)
  BY <1>3, <1>4, <1>7, <1>8, Spread
<1>10. Standby(t)' /\ <<>> \in Seq(MessagesOf(t))
  BY <1>2, <1>4, <1>5, <1>7 DEF Standby, InLine
<1>11. OwnLine(t)'
  BY <1>1, <1>7, <1>9, <1>10 DEF OwnLine
<1> QED
  BY <1>7, <1>11

\* It queues the buffer behind the earlier ones.
LEMMA LineQueueOrder ==
  ASSUME LoggerInv, OnceInv, Undisturbed, LineQueue
  PROVE  (\A u \in Threads : OwnLine(u)') /\ Hand' = <<>>
<1>0. back.pc = "queue" /\ back \in [pc : {"top", "visit", "swap", "queue", "wait", "archive", "recycle"},
                                     line : Threads \cup {"none"}, buffer : Pointer]
  BY DEF LineQueue, BackAt, LoggerInv, Shape
<1>t. PICK t \in Threads : t = back.line
  BY <1>0 DEF LoggerInv, Shape
<1>1. /\ a[t] \in Seq(MessagesOf(t)) /\ OwnLine(t) /\ a[t] \in Pointer /\ b[t] \in Seq(MessagesOf(t)) \cup {Null}
      /\ filled \in Seq(Buffer) /\ disk \in Buffer /\ Hand \in Buffer /\ LineInv
  BY OrderFacts
<1>2. writer[t].pc = "idle" /\ b[t] \in Buffer
  BY <1>0, <1>t, <1>1 DEF LineInv
<1>3. b[t] \in Seq(MessagesOf(t))
  BY <1>1, <1>2, BufferNotNull
<1>4. /\ b' = [b EXCEPT ![t] = Null] /\ a' = [a EXCEPT ![t] = a[t]]
      /\ UNCHANGED <<writer, logged, disk>> /\ filled' = Append(filled, b[t])
  <2>1. a' = a /\ DOMAIN a = Threads /\ a = [a EXCEPT ![t] = a[t]]
    BY DEF LineQueue, LoggerInv, Shape
  <2> QED
    BY <1>t, <2>1 DEF LineQueue, PushFilled, fileVars
<1>5. back'.pc = "visit"
  BY <1>0 DEF LineQueue
<1>6. \A u \in Threads : u # t => ~InLine(u) /\ ~InLine(u)'
  BY <1>t, <1>5 DEF InLine
<1>7. /\ \A u \in Threads : u # t => OwnLine(u)'
      /\ a'[t] = a[t] /\ b'[t] = Null /\ Hand' = Hand /\ Hand = <<>> /\ Accepted(t)' = Accepted(t)
  BY <1>0, <1>3, <1>4, <1>5, <1>6, LineOthers
<1>8. Chain(disk, Hand, Append(filled, b[t]), Null, a[t], t) = Chain(disk, Hand, filled, b[t], a[t], t)
  BY <1>1, <1>2, ChainQueue
<1>9. Everywhere(t)' = Everywhere(t)
  BY <1>4, <1>7, <1>8, Spread
<1>10. Standby(t)'
  BY <1>2, <1>4, <1>7 DEF Standby
<1>11. OwnLine(t)'
  BY <1>1, <1>7, <1>9, <1>10 DEF OwnLine
<1> QED
  BY <1>7, <1>11

\* All lines stay as they are when the background thread works on the queue and the file.
LEMMA LinesStay ==
  ASSUME LoggerInv, OnceInv, Undisturbed, UNCHANGED <<a, b, writer, logged>>, back.pc # "queue", back'.pc # "queue",
         \A t \in Threads : Everywhere(t)' = Everywhere(t)
  PROVE  \A t \in Threads : OwnLine(t)'
<1>1. SUFFICES ASSUME NEW t \in Threads PROVE OwnLine(t)'
  OBVIOUS
<1>2. OwnLine(t)
  BY OrderFacts
<1>3. Accepted(t)' = Accepted(t)
  BY SameAccepted
<1>4. Standby(t)'
  BY <1>2 DEF OwnLine, Standby, InLine
<1> QED
  BY <1>2, <1>3, <1>4 DEF OwnLine

\* The oldest buffer comes into the hand of the background thread.
LEMMA WaitAndPopOrder ==
  ASSUME LoggerInv, OnceInv, Undisturbed, WaitAndPop
  PROVE  (\A u \in Threads : OwnLine(u)') /\ Hand' \in Buffer
<1>0. back.pc = "wait" /\ back \in [pc : {"top", "visit", "swap", "queue", "wait", "archive", "recycle"},
                                    line : Threads \cup {"none"}, buffer : Pointer]
  BY DEF WaitAndPop, BackAt, LoggerInv, Shape
<1>1. /\ filled \in Seq(Buffer) /\ disk \in Buffer
      /\ \A t \in Threads : a[t] \in Pointer /\ b[t] \in Pointer
  BY OrderFacts
<1>2. Hand = <<>> /\ back'.pc = "archive" /\ Hand' = IF filled = <<>> THEN <<>> ELSE Head(filled)
  BY <1>0 DEF Hand, WaitAndPop
<1>3. /\ UNCHANGED <<a, b, writer, logged, disk>>
      /\ filled' = IF filled = <<>> THEN <<>> ELSE Tail(filled)
  BY DEF WaitAndPop, lineVars, fileVars
<1>4. ASSUME NEW t \in Threads PROVE Everywhere(t)' = Everywhere(t)
  <2>1. CASE filled = <<>>
    BY <1>2, <1>3, <2>1, Spread
  <2>2. CASE filled # <<>>
    <3> DEFINE y == b[t]
               x == a[t]
    <3>1. y \in Pointer /\ x \in Pointer
      BY <1>1
    <3> HIDE DEF x, y
    <3>2. Chain(disk, Head(filled), Tail(filled), y, x, t) = Chain(disk, <<>>, filled, y, x, t)
      BY <1>1, <2>2, <3>1, ChainPop
    <3> QED
      BY <1>2, <1>3, <2>2, <3>2, Spread DEF x, y
  <2> QED
    BY <2>1, <2>2
<1>5. Hand' \in Buffer
  BY <1>1, <1>2, PointerCells
<1> QED
  BY <1>0, <1>2, <1>3, <1>4, <1>5, LinesStay

\* It writes all of it, once.
LEMMA ArchiveOrder ==
  ASSUME LoggerInv, OnceInv, Undisturbed, Undisturbed', faults' = faults, Archive
  PROVE  (\A u \in Threads : OwnLine(u)') /\ Hand' = <<>> /\ disk' \in Buffer /\ opened'
<1>0. back.pc = "archive" /\ back \in [pc : {"top", "visit", "swap", "queue", "wait", "archive", "recycle"},
                                       line : Threads \cup {"none"}, buffer : Pointer]
  BY DEF Archive, BackAt, LoggerInv, Shape
<1>1. /\ filled \in Seq(Buffer) /\ disk \in Buffer /\ Hand \in Buffer /\ opened
      /\ \A t \in Threads : a[t] \in Pointer /\ b[t] \in Pointer
  BY OrderFacts
<1>2. Hand = back.buffer /\ back'.pc = "recycle" /\ Hand' = <<>>
  BY <1>0 DEF Hand, Archive, BackTo
<1>3. UNCHANGED <<a, b, writer, logged, filled>>
  BY DEF Archive, lineVars
<1>4. running /\ faults \in Nat
  BY DEF Undisturbed, OnceInv
<1>5. disk' = disk \o Hand /\ opened'
  <2>1. ASSUME NEW fd, fd, NEW from, Write(fd, from) PROVE disk' = disk \o Hand
    <3>1. faults' # faults + 1
      BY <1>4
    <3> QED
      BY <1>2, <1>4, <2>1, <3>1 DEF Write
  <2>2. CASE Write(opened, size) /\ UNCHANGED opened
    BY <1>1, <2>1, <2>2
  <2>3. CASE opened' = TRUE /\ Write(TRUE, 0)
    BY <2>1, <2>3
  <2> QED
    BY <2>2, <2>3 DEF Archive
<1>6. ASSUME NEW t \in Threads PROVE Everywhere(t)' = Everywhere(t)
  <2> DEFINE y == b[t]
             x == a[t]
             h == Hand
             f == filled
             d == disk
  <2>1. y \in Pointer /\ x \in Pointer /\ h \in Buffer /\ f \in Seq(Buffer) /\ d \in Buffer
    BY <1>1
  <2> HIDE DEF x, y, h, f, d
  <2>2. Chain(d \o h, <<>>, f, y, x, t) = Chain(d, h, f, y, x, t)
    BY <2>1, ChainArchive
  <2> QED
    BY <1>2, <1>3, <1>5, <2>2, Spread DEF x, y, h, f, d
<1>7. disk' \in Buffer
  BY <1>1, <1>5 DEF Buffer
<1>8. \A u \in Threads : OwnLine(u)'
  BY <1>0, <1>2, <1>3, <1>6, LinesStay
<1> QED
  BY <1>2, <1>5, <1>7, <1>8

\* The other steps move nothing.
LEMMA NothingMoves ==
  ASSUME LoggerInv, OnceInv, Undisturbed, Top \/ ResetTimeout \/ Recycle
  PROVE  (\A u \in Threads : OwnLine(u)') /\ Hand' \in Buffer
<1>0. back \in [pc : {"top", "visit", "swap", "queue", "wait", "archive", "recycle"},
                line : Threads \cup {"none"}, buffer : Pointer]
  BY DEF LoggerInv, Shape
<1>1. back.pc \in {"top", "visit", "recycle"} /\ UNCHANGED <<a, b, writer, logged, filled, disk>>
  BY DEF Top, ResetTimeout, Recycle, BackAt, lineVars, fileVars
<1>2. back'.pc \in {"visit", "wait", "top"}
  BY <1>0 DEF Top, ResetTimeout, Recycle, BackTo
<1>3. Hand' = <<>> /\ Hand = <<>>
  BY <1>1, <1>2 DEF Hand
<1>4. \A t \in Threads : Everywhere(t)' = Everywhere(t)
  BY <1>1, <1>3, Spread
<1>5. \A u \in Threads : OwnLine(u)'
  BY <1>1, <1>2, <1>4, LinesStay
<1> QED
  BY <1>3, <1>5, PointerCells

\* Every step keeps every line in order while nothing goes wrong.
LEMMA OrderStep ==
  ASSUME LoggerInv, OnceInv, [Next]_vars, Undisturbed'
  PROVE  opened' /\ disk' \in Buffer /\ Hand' \in Buffer /\ (\A u \in Threads : OwnLine(u)')
<1>0. Undisturbed /\ faults' = faults
  BY UndisturbedBefore DEF OnceInv
<1>1. opened /\ disk \in Buffer /\ Hand \in Buffer /\ <<>> \in Buffer
  BY <1>0, OrderFacts, PointerCells
<1>2. CASE \E t \in Threads : (\E z \in Sizes : Log(t, z)) \/ WriterStep(t)
  <2>1. PICK t \in Threads : (\E z \in Sizes : Log(t, z)) \/ WriterStep(t)
    BY <1>2
  <2>2. \A u \in Threads : OwnLine(u)'
    BY <1>0, <2>1, LogOrder, WriterPushOrder, WriterGetEmptyOrder, WriterSwapOrder, WriterStoreOrder, WriterQueueOrder DEF WriterStep
  <2>3. UNCHANGED <<opened, disk, back>>
    BY <2>1 DEF Log, WriterStep, WriterPush, WriterGetEmpty, WriterSwap, WriterStore, WriterQueue, fileVars
  <2> QED
    BY <1>1, <2>2, <2>3 DEF Hand
<1>3. CASE \E t \in Threads : VisitLine(t)
  <2>1. UNCHANGED <<opened, disk>>
    BY <1>3 DEF VisitLine, fileVars
  <2>2. (\A u \in Threads : OwnLine(u)') /\ Hand' = <<>>
    BY <1>0, <1>3, VisitLineOrder
  <2> QED
    BY <1>1, <2>1, <2>2
<1>4. CASE LineSwap \/ LineQueue
  <2>1. UNCHANGED <<opened, disk>>
    BY <1>4 DEF LineSwap, LineQueue, fileVars
  <2>2. (\A u \in Threads : OwnLine(u)') /\ Hand' = <<>>
    BY <1>0, <1>4, LineSwapOrder, LineQueueOrder
  <2> QED
    BY <1>1, <2>1, <2>2
<1>5. CASE WaitAndPop \/ Top \/ ResetTimeout \/ Recycle
  <2>1. UNCHANGED <<opened, disk>>
    BY <1>5 DEF WaitAndPop, Top, ResetTimeout, Recycle, fileVars
  <2>2. (\A u \in Threads : OwnLine(u)') /\ Hand' \in Buffer
    BY <1>0, <1>5, WaitAndPopOrder, NothingMoves
  <2> QED
    BY <1>1, <2>1, <2>2
<1>6. CASE Archive
  BY <1>0, <1>1, <1>6, ArchiveOrder
<1>7. CASE CreateFileFails
  BY <1>0, <1>7 DEF CreateFileFails, OnceInv
<1>8. CASE Stop
  BY <1>8 DEF Stop, Undisturbed
<1>9. CASE TimeoutNotify \/ UNCHANGED vars
  <2>1. UNCHANGED <<a, b, writer, logged, filled, disk, opened, back>>
    BY <1>9 DEF TimeoutNotify, vars, lineVars, fileVars
  <2>2. \A t \in Threads : OwnLine(t)
    BY <1>0, OrderFacts
  <2>3. ASSUME NEW t \in Threads PROVE OwnLine(t)'
    BY <2>1, <2>2 DEF OwnLine, Standby, InLine, Everywhere, Accepted, InHands
  <2> QED
    BY <1>1, <2>1, <2>3 DEF Hand
<1> QED
  BY <1>2, <1>3, <1>4, <1>5, <1>6, <1>7, <1>8, <1>9 DEF Next, BackStep

\* Nothing was logged yet.
LEMMA InitOnce == Init => OnceInv
<1> SUFFICES ASSUME Init PROVE OnceInv
  OBVIOUS
<1>1. SizeInv
  BY SizedEmpty DEF Init, SizeInv
<1>2. ASSUME NEW t \in Threads PROVE HandsInv(t)
  BY DEF Init, HandsInv, Hands
<1>3. ASSUME NEW t \in Threads PROVE OwnLine(t)
  <2>1. logged[t] = <<>> /\ a[t] = <<>> /\ b[t] = <<>> /\ writer[t].pc = "idle" /\ back.pc = "top" /\ filled = <<>> /\ disk = <<>>
    BY DEF Init
  <2>2. Accepted(t) = <<>>
    BY <2>1, OnlyEmpty DEF Accepted
  <2>3. <<>> \o <<>> \o FlattenSeq(<<>>) \o <<>> \o <<>> = <<>>
    <3>1. FlattenSeq(<<>>) = <<>>
      BY DEF FlattenSeq
    <3> QED
      BY <3>1
  <2>4. Everywhere(t) = <<>>
    BY <2>1, <2>3, OnlyEmpty DEF Everywhere
  <2>5. Standby(t)
    BY <2>1 DEF Standby
  <2> QED
    BY <2>1, <2>2, <2>4, <2>5 DEF OwnLine
<1>4. faults \in Nat /\ opened /\ disk \in Buffer /\ Hand \in Buffer
  BY PointerCells DEF Init, Hand
<1> QED
  BY <1>1, <1>2, <1>3, <1>4 DEF OnceInv, OrderInv

\* For any threads, message lengths and capacity: a buffer always keeps a byte
\* free, and until a system call fails, the logger is stopped or a thread and the
\* background thread meet in a line, every message a thread logged that fits a
\* buffer is in exactly one place on its way to the disk, behind the earlier ones
\* of that thread (pushToBuffer, pushToQueue and the background thread's loop).
THEOREM WrittenOnce == Spec => []LoggedOnce
<1>1. Init => LoggerInv /\ OnceInv
  BY InitLogger, InitOnce
<1>2. LoggerInv /\ OnceInv /\ [Next]_vars => LoggerInv' /\ OnceInv'
  <2> SUFFICES ASSUME LoggerInv, OnceInv, [Next]_vars PROVE LoggerInv' /\ OnceInv'
    OBVIOUS
  <2>1. LoggerInv'
    BY LoggerStep
  <2>2. SizeInv'
    BY SizeStep DEF OnceInv
  <2>3. \A t \in Threads : HandsInv(t)'
    BY HandsStep DEF OnceInv
  <2>4. OrderInv'
    BY OrderStep DEF OrderInv
  <2>5. faults' \in Nat
    BY UndisturbedBefore DEF OnceInv
  <2> QED
    BY <2>1, <2>2, <2>3, <2>4, <2>5 DEF OnceInv
<1>3. OnceInv => LoggedOnce
  BY DEF OnceInv, SizeInv, Sized, OrderInv, OwnLine, LoggedOnce
<1> QED
  BY <1>1, <1>2, <1>3, PTL DEF Spec
=============================================================================
