---------------------------- MODULE MessageProofs ---------------------------
(***************************************************************************)
(* Messages as bytes: the properties of ConnectionIO, for every stream of  *)
(* messages, every way to cut it into chunks and every interleaving of the *)
(* threads that write, and those of MessageCodec, for all names, strings and*)
(* vectors.                                                                *)
(* The input is followed through the places of its bytes: what was handled,*)
(* what tryGet put aside and what is queued are three runs of the stream,  *)
(* one behind the other.  The output is followed through the pieces that   *)
(* wait: each continues the wire or begins a message.  The codec is followed*)
(* through its folds: where the cursor and the index of a read are when k  *)
(* members were popped, and that the lengths an object has not read yet are*)
(* those of whole counts.                                                  *)
(***************************************************************************)
EXTENDS ConnectionIO, MessageCodec, SequenceLemmas

-----------------------------------------------------------------------------
(* The output *)

\* A byte on the wire.
WireBytes == [who : {"loop", "put"}, n : Nat, byte : 1..Size]

\* The event loop holds a piece, to write it or to put back what is left of it.
Rests == {"writeRest", "directRest", "flushRest"}
Holders == {"write", "direct", "flush"} \cup Rests
Held == loop.pc \in Holders

\* What is still to be written, in order: the piece the event loop holds, the queue.
Waiting == (IF Held THEN <<loop.item>> ELSE <<>>) \o queue

\* The last byte b on the wire and the first waiting piece p fit together.
Fits(b, p) ==
  IF p.from = 1 THEN b.byte = Size
  ELSE b.who = p.who /\ b.n = p.n /\ b.byte = p.from - 1

\* The wire w can be cut into messages so far; numbers of a sender never go back.
Whole(w) ==
  /\ \A i \in 2..Len(w) : Fits(w[i - 1], [who |-> w[i].who, n |-> w[i].n, from |-> w[i].byte])
  /\ Len(w) > 0 => w[1].byte = 1
  /\ \A i \in 1..Len(w), j \in 1..Len(w) : j < i /\ w[j].who = w[i].who => w[j].n <= w[i].n

\* The waiting pieces q continue the wire w: only the first may be a rest.
Joins(w, q) ==
  /\ Len(w) = 0 /\ Len(q) > 0 => q[1].from = 1
  /\ Len(w) > 0 /\ Len(q) > 0 => Fits(w[Len(w)], q[1])
  /\ Len(w) > 0 /\ Len(q) = 0 => w[Len(w)].byte = Size
  /\ \A i \in 2..Len(q) : q[i].from = 1

\* Numbers of a sender go on upwards from the wire to the waiting pieces.
Ordered(w, q) ==
  /\ \A i \in 1..Len(w), j \in 1..Len(q) : w[i].who = q[j].who => w[i].n <= q[j].n
  /\ \A i \in 1..Len(q), j \in 1..Len(q) : i < j /\ q[i].who = q[j].who => q[i].n <= q[j].n

\* The wire is whole so far and what waits goes on with it.
Continues(w, q) == Whole(w) /\ Joins(w, q) /\ Ordered(w, q)

\* No number on the wire w or in the pieces q is larger than its sender's count in c.
CountedBy(c, w, q) ==
  /\ \A i \in 1..Len(w) : w[i].n <= c[w[i].who]
  /\ \A i \in 1..Len(q) : q[i].n <= c[q[i].who]
Numbered(w, q) == CountedBy(count, w, q)

\* The inductive invariant of the output: nothing was spoilt, or the wire and
\* what waits to be written make a stream of whole messages.
OutInv ==
  /\ Out!TypeOK
  /\ queue \in Seq(Out!Pieces)
  /\ ~spoilt => Continues(wire, Waiting) /\ Numbered(wire, Waiting)

\* A message put behind everything, with its sender's highest number, continues
\* the wire (IOBuffer::append).
LEMMA AppendContinues ==
  ASSUME NEW w \in Seq(WireBytes), NEW q \in Seq(Out!Pieces), NEW m \in Out!Pieces,
         Continues(w, q), m.from = 1,
         \A i \in 1..Len(w) : w[i].who = m.who => w[i].n <= m.n,
         \A i \in 1..Len(q) : q[i].who = m.who => q[i].n <= m.n
  PROVE  Continues(w, Append(q, m))
<1> DEFINE r == Append(q, m)
<1>1. r \in Seq(Out!Pieces) /\ r # <<>> /\ Len(r) = Len(q) + 1
  BY AppendProperties
<1>2. \A i \in 1..Len(q) : r[i] = q[i]
  OBVIOUS
<1>3. r[Len(q) + 1] = m
  OBVIOUS
<1>4. Len(q) \in Nat
  OBVIOUS
<1> HIDE DEF r
<1>5. Joins(w, r)
  BY <1>1, <1>2, <1>3, <1>4 DEF Continues, Joins, Fits
<1>6. \A i \in 1..Len(r) : i \in 1..Len(q) \/ i = Len(q) + 1
  BY <1>1, <1>4
<1>7. ASSUME NEW i \in 1..Len(w), NEW j \in 1..Len(r), w[i].who = r[j].who
      PROVE  w[i].n <= r[j].n
  BY <1>2, <1>3, <1>6, <1>7 DEF Continues, Ordered
<1>8. ASSUME NEW i \in 1..Len(r), NEW j \in 1..Len(r), i < j, r[i].who = r[j].who
      PROVE  r[i].n <= r[j].n
  <2>1. i \in 1..Len(q)
    BY <1>1, <1>4, <1>8
  <2> QED
    BY <1>2, <1>3, <1>6, <1>8, <2>1 DEF Continues, Ordered
<1> QED
  BY <1>5, <1>7, <1>8 DEF Continues, Ordered, r

\* k bytes of a piece (IOBuffer::write).
LEMMA TakenBytes ==
  ASSUME NEW p \in Out!Pieces, NEW k \in 1..Out!Left(p), Size \in Nat \ {0}
  PROVE  /\ Out!Taken(p, k) \in Seq(WireBytes) /\ Len(Out!Taken(p, k)) = k
         /\ \A i \in 1..k : Out!Taken(p, k)[i] = [who |-> p.who, n |-> p.n, byte |-> p.from + i - 1]
         /\ p.from \in 1..Size /\ p.n \in Nat /\ k \in Nat \ {0} /\ p.from + k - 1 <= Size
<1>1. p.from \in 1..Size /\ p.n \in Nat /\ p.who \in {"loop", "put"} /\ k \in Nat \ {0} /\ p.from + k - 1 <= Size
  BY DEF Out!Pieces, Out!Left
<1>2. \A i \in 1..k : [who |-> p.who, n |-> p.n, byte |-> p.from + i - 1] \in WireBytes
  BY <1>1 DEF WireBytes
<1> QED
  BY <1>1, <1>2 DEF Out!Taken

\* k bytes of the first waiting piece follow what is on the wire, what is left
\* of it is first again (IOBuffer::write).
LEMMA WriteContinues ==
  ASSUME NEW w \in Seq(WireBytes), NEW q \in Seq(Out!Pieces), NEW p \in Out!Pieces,
         NEW k \in 1..Out!Left(p), Size \in Nat \ {0}, Continues(w, <<p>> \o q)
  PROVE  /\ k < Out!Left(p) => Continues(w \o Out!Taken(p, k), <<[p EXCEPT !.from = @ + k]>> \o q)
         /\ k = Out!Left(p) => Continues(w \o Out!Taken(p, k), q)
<1> DEFINE t == Out!Taken(p, k)
           pq == <<p>> \o q
           v == w \o t
<1>1. /\ t \in Seq(WireBytes) /\ Len(t) = k
      /\ \A i \in 1..k : t[i] = [who |-> p.who, n |-> p.n, byte |-> p.from + i - 1]
      /\ p.from \in 1..Size /\ p.n \in Nat /\ k \in Nat \ {0} /\ p.from + k - 1 <= Size
  BY TakenBytes
<1>0. p.from \in Nat /\ p.from > 0 /\ k \in Nat /\ k > 0 /\ p.n \in Nat /\ p.from + k - 1 <= Size /\ Size \in Nat
  BY <1>1
<1>2. /\ pq \in Seq(Out!Pieces) /\ Len(pq) = Len(q) + 1 /\ pq[1] = p /\ pq # <<>>
      /\ \A i \in 1..Len(q) : pq[i + 1] = q[i]
  OBVIOUS
<1>3. /\ v \in Seq(WireBytes) /\ Len(v) = Len(w) + k
      /\ \A i \in 1..Len(w) : v[i] = w[i]
      /\ \A i \in 1..k : v[Len(w) + i] = [who |-> p.who, n |-> p.n, byte |-> p.from + i - 1]
  <2> HIDE DEF t
  <2>1. /\ v \in Seq(WireBytes) /\ Len(v) = Len(w) + Len(t)
        /\ \A i \in 1..(Len(w) + Len(t)) : v[i] = IF i <= Len(w) THEN w[i] ELSE t[i - Len(w)]
    BY <1>1, ConcatProperties
  <2> HIDE DEF v
  <2>2. \A i \in 1..Len(w) : i \in 1..(Len(w) + Len(t)) /\ i <= Len(w)
    BY <1>1
  <2>3. ASSUME NEW i \in 1..k PROVE v[Len(w) + i] = t[i]
    <3>1. Len(w) + i \in 1..(Len(w) + Len(t)) /\ ~(Len(w) + i <= Len(w)) /\ (Len(w) + i) - Len(w) = i
      BY <1>1
    <3> QED
      BY <2>1, <3>1
  <2> QED
    BY <1>1, <2>1, <2>2, <2>3
<1>4. Len(w) \in Nat /\ Len(q) \in Nat
  OBVIOUS
<1>5. Whole(w) /\ Joins(w, pq) /\ Ordered(w, pq)
  BY DEF Continues
<1>6. \A i \in 1..Len(v) : i \in 1..Len(w) \/ \E x \in 1..k : i = Len(w) + x
  <2> HIDE DEF v
  <2>1. SUFFICES ASSUME NEW i \in 1..Len(v), i \notin 1..Len(w) PROVE \E x \in 1..k : i = Len(w) + x
    OBVIOUS
  <2>2. i - Len(w) \in 1..k /\ i = Len(w) + (i - Len(w))
    BY <1>1, <1>3, <1>4, <2>1
  <2> QED
    BY <2>2
<1> HIDE DEF v, t, pq
<1>11. ASSUME NEW i, \E x \in 1..k : i = Len(w) + x PROVE v[i].who = p.who /\ v[i].n = p.n
  <2>1. PICK x \in 1..k : i = Len(w) + x
    BY <1>11
  <2>2. v[i] = [who |-> p.who, n |-> p.n, byte |-> p.from + x - 1]
    BY <1>3, <2>1
  <2> QED
    BY <2>2
\* The bytes taken continue the wire.
<1>7. Whole(v)
  <2>1. ASSUME NEW i \in 2..Len(v)
        PROVE  Fits(v[i - 1], [who |-> v[i].who, n |-> v[i].n, from |-> v[i].byte])
    <3>1. CASE i \in 1..Len(w)
      <4>1. i \in 2..Len(w) /\ i - 1 \in 1..Len(w)
        BY <1>4, <3>1
      <4> QED
        BY <1>3, <1>5, <3>1, <4>1 DEF Whole
    <3>2. CASE i = Len(w) + 1
      <4>1. Len(w) > 0 /\ i - 1 = Len(w) /\ Len(w) \in 1..Len(w)
        BY <1>4, <3>2
      <4>2. v[i - 1] = w[Len(w)] /\ v[i] = [who |-> p.who, n |-> p.n, byte |-> p.from]
        <5>1. v[Len(w) + 1] = [who |-> p.who, n |-> p.n, byte |-> p.from + 1 - 1] /\ p.from + 1 - 1 = p.from
          <6>1. 1 \in 1..k /\ p.from + 1 - 1 = p.from
            BY <1>0
          <6> QED
            BY <1>3, <6>1
        <5> QED
          BY <1>3, <3>2, <4>1, <5>1
      <4>3. Fits(w[Len(w)], p)
        BY <1>2, <1>4, <1>5, <4>1 DEF Joins
      <4> QED
        BY <4>2, <4>3 DEF Fits
    <3>3. ASSUME NEW x \in 2..k, i = Len(w) + x
          PROVE  Fits(v[i - 1], [who |-> v[i].who, n |-> v[i].n, from |-> v[i].byte])
      <4>1. x \in 1..k /\ x - 1 \in 1..k /\ i - 1 = Len(w) + (x - 1)
        BY <1>1, <1>4, <3>3
      <4>2. /\ v[i - 1] = [who |-> p.who, n |-> p.n, byte |-> p.from + (x - 1) - 1]
            /\ v[i] = [who |-> p.who, n |-> p.n, byte |-> p.from + x - 1]
        BY <1>3, <3>3, <4>1
      <4>3. p.from + x - 1 # 1 /\ p.from + (x - 1) - 1 = (p.from + x - 1) - 1
        <5>1. \A a \in Nat, b \in Nat : a > 0 /\ b >= 2 => a + b - 1 # 1 /\ a + (b - 1) - 1 = (a + b - 1) - 1
          OBVIOUS
        <5>2. x \in Nat /\ x >= 2
          BY <1>0
        <5> QED
          BY <1>0, <5>1, <5>2
      <4> QED
        BY <4>2, <4>3 DEF Fits
    <3>4. i \in 1..Len(w) \/ i = Len(w) + 1 \/ \E x \in 2..k : i = Len(w) + x
      <4>1. i \in 1..Len(v)
        BY <1>1, <1>3, <1>4
      <4>2. CASE i \in 1..Len(w)
        BY <4>2
      <4>3. ASSUME NEW x \in 1..k, i = Len(w) + x PROVE i = Len(w) + 1 \/ x \in 2..k
        BY <1>1, <1>4, <4>3
      <4> QED
        BY <1>6, <4>1, <4>2, <4>3
    <3> QED
      BY <3>1, <3>2, <3>3, <3>4
  <2>2. v[1].byte = 1
    <3>1. CASE Len(w) > 0
      BY <1>3, <1>4, <1>5, <3>1 DEF Whole
    <3>2. CASE Len(w) = 0
      <4>1. p.from = 1
        BY <1>2, <1>4, <1>5, <3>2 DEF Joins
      <4>2. v[1] = v[Len(w) + 1] /\ 1 \in 1..k /\ p.from + 1 - 1 = 1
        BY <1>1, <3>2, <4>1
      <4>3. v[Len(w) + 1] = [who |-> p.who, n |-> p.n, byte |-> p.from + 1 - 1]
        BY <1>3, <4>2
      <4> QED
        BY <4>2, <4>3
    <3> QED
      BY <1>4, <3>1, <3>2
  <2>3. ASSUME NEW i \in 1..Len(v), NEW j \in 1..Len(v), j < i, v[j].who = v[i].who
        PROVE  v[j].n <= v[i].n
    <3>1. CASE i \in 1..Len(w)
      <4>1. j \in 1..Len(w)
        BY <1>4, <2>3, <3>1
      <4> QED
        BY <1>3, <1>5, <2>3, <3>1, <4>1 DEF Whole
    <3>2. CASE \E x \in 1..k : i = Len(w) + x
      <4>1. v[i].who = p.who /\ v[i].n = p.n
        BY <1>11, <3>2
      <4>2. CASE j \in 1..Len(w)
        <5>1. v[j] = w[j] /\ 1 \in 1..Len(pq) /\ pq[1] = p
          BY <1>2, <1>3, <1>4, <4>2
        <5> QED
          BY <1>5, <2>3, <4>1, <4>2, <5>1 DEF Ordered
      <4>3. CASE \E x \in 1..k : j = Len(w) + x
        <5>1. v[j].n = p.n
          BY <1>11, <4>3
        <5> QED
          BY <1>1, <4>1, <5>1
      <4> QED
        BY <1>6, <4>2, <4>3
    <3> QED
      BY <1>6, <3>1, <3>2
  <2> QED
    BY <2>1, <2>2, <2>3 DEF Whole
<1>8. /\ v[Len(v)] = [who |-> p.who, n |-> p.n, byte |-> p.from + k - 1] /\ Len(v) > 0
      /\ \A i \in 1..Len(v) : v[i].who = p.who => v[i].n <= p.n
  <2>1. k \in 1..k /\ Len(v) = Len(w) + k /\ Len(v) > 0
    BY <1>1, <1>3, <1>4
  <2>2. ASSUME NEW i \in 1..Len(v), v[i].who = p.who PROVE v[i].n <= p.n
    <3>1. CASE i \in 1..Len(w)
      <4>1. v[i] = w[i] /\ 1 \in 1..Len(pq) /\ pq[1] = p
        BY <1>2, <1>3, <1>4, <3>1
      <4> QED
        BY <1>5, <2>2, <3>1, <4>1 DEF Ordered
    <3>2. CASE \E x \in 1..k : i = Len(w) + x
      <4>1. v[i].n = p.n
        BY <1>11, <3>2
      <4> QED
        BY <1>1, <4>1
    <3> QED
      BY <1>6, <3>1, <3>2
  <2> QED
    BY <1>3, <2>1, <2>2
\* Numbers go on from v to the pieces behind p.
<1>9. ASSUME NEW i \in 1..Len(q)
      PROVE  i + 1 \in 2..Len(pq) /\ pq[i + 1] = q[i] /\ q[i].from = 1
  <2>1. i + 1 \in 2..Len(pq)
    BY <1>2, <1>4
  <2> QED
    BY <1>2, <1>5, <2>1 DEF Joins
<1>10. ASSUME NEW i \in 1..Len(v), NEW j \in 1..Len(q), v[i].who = q[j].who PROVE v[i].n <= q[j].n
  <2>1. j + 1 \in 1..Len(pq) /\ pq[j + 1] = q[j] /\ 1 < j + 1 /\ 1 \in 1..Len(pq)
    BY <1>2, <1>4, <1>9
  <2>2. CASE i \in 1..Len(w)
    BY <1>3, <1>5, <1>10, <2>1, <2>2 DEF Ordered
  <2>3. CASE \E x \in 1..k : i = Len(w) + x
    <3>1. v[i].n = p.n /\ v[i].who = p.who
      BY <1>11, <2>3
    <3> QED
      BY <1>2, <1>5, <1>10, <2>1, <3>1 DEF Ordered
  <2> QED
    BY <1>6, <2>2, <2>3
<1>12. ASSUME NEW i \in 1..Len(q), NEW j \in 1..Len(q), i < j, q[i].who = q[j].who PROVE q[i].n <= q[j].n
  <2>1. i + 1 \in 1..Len(pq) /\ j + 1 \in 1..Len(pq) /\ i + 1 < j + 1
    BY <1>2, <1>4, <1>12
  <2> QED
    BY <1>5, <1>9, <1>12, <2>1 DEF Ordered
<1>13. ASSUME k = Out!Left(p) PROVE Continues(v, q)
  <2>1. p.from + k - 1 = Size
    BY <1>0, <1>13 DEF Out!Left
  <2>2. Joins(v, q)
    <3>1. Len(q) > 0 => 1 \in 1..Len(q)
      BY <1>4
    <3>2. \A i \in 2..Len(q) : i \in 1..Len(q)
      BY <1>4
    <3> QED
      BY <1>8, <1>9, <2>1, <3>1, <3>2 DEF Joins, Fits
  <2> QED
    BY <1>7, <1>10, <1>12, <2>2 DEF Continues, Ordered
<1> DEFINE m == [p EXCEPT !.from = @ + k]
           r == <<m>> \o q
<1>14. ASSUME k < Out!Left(p) PROVE Continues(v, r)
  <2>1. p.from + k \in 1..Size /\ p.from + k # 1 /\ p.from + k - 1 = (p.from + k) - 1
    BY <1>0, <1>14 DEF Out!Left
  <2>2. m.from = p.from + k /\ m.who = p.who /\ m.n = p.n
    BY DEF Out!Pieces
  <2> HIDE DEF m
  <2>3. Len(r) = Len(q) + 1 /\ r[1] = m /\ \A i \in 2..Len(r) : i - 1 \in 1..Len(q) /\ r[i] = q[i - 1]
    OBVIOUS
  <2> HIDE DEF r
  <2>4. \A i \in 1..Len(r) : i = 1 \/ i \in 2..Len(r)
    BY <1>4, <2>3
  <2>5. Joins(v, r)
    <3>1. Len(r) > 0 /\ Len(v) > 0 /\ Fits(v[Len(v)], r[1])
      BY <1>4, <1>8, <2>1, <2>2, <2>3 DEF Fits
    <3>2. \A i \in 2..Len(r) : r[i].from = 1
      BY <1>9, <2>3
    <3>3. Len(v) \in Nat /\ Len(r) \in Nat
      BY <1>3, <1>4, <1>1, <2>3
    <3> QED
      BY <3>1, <3>2, <3>3 DEF Joins
  <2>6. ASSUME NEW i \in 1..Len(v), NEW j \in 1..Len(r), v[i].who = r[j].who PROVE v[i].n <= r[j].n
    <3>1. CASE j = 1
      BY <1>8, <2>2, <2>3, <2>6, <3>1
    <3>2. CASE j \in 2..Len(r)
      BY <1>10, <2>3, <2>6, <3>2
    <3> QED
      BY <2>4, <3>1, <3>2
  <2>7. ASSUME NEW i \in 1..Len(r), NEW j \in 1..Len(r), i < j, r[i].who = r[j].who PROVE r[i].n <= r[j].n
    <3>1. j \in 2..Len(r)
      BY <1>4, <2>3, <2>7
    <3>2. CASE i = 1
      <4>1. j - 1 \in 1..Len(q) /\ r[j] = q[j - 1] /\ r[i] = m
        BY <2>3, <3>1, <3>2
      <4>2. v[Len(v)].who = p.who /\ v[Len(v)].n = p.n /\ Len(v) \in 1..Len(v)
        <5>1. Len(v) \in Nat
          BY <1>1, <1>3, <1>4
        <5> QED
          BY <1>8, <5>1
      <4> QED
        BY <1>10, <2>2, <2>7, <4>1, <4>2
    <3>3. CASE i \in 2..Len(r)
      <4>1. i - 1 \in 1..Len(q) /\ j - 1 \in 1..Len(q) /\ i - 1 < j - 1 /\ r[i] = q[i - 1] /\ r[j] = q[j - 1]
        BY <2>3, <2>7, <3>1, <3>3
      <4> QED
        BY <1>12, <2>7, <4>1
    <3> QED
      BY <2>4, <3>2, <3>3
  <2> QED
    BY <1>7, <2>5, <2>6, <2>7 DEF Continues, Ordered
<1> QED
  BY <1>13, <1>14 DEF v, t

\* The highest number of its sender may be appended (send, putToBuffer).
LEMMA AppendKeeps ==
  ASSUME NEW w \in Seq(WireBytes), NEW q \in Seq(Out!Pieces), NEW m \in Out!Pieces, NEW c,
         Continues(w, q), CountedBy(c, w, q), m.from = 1, m.n = c[m.who]
  PROVE  Continues(w, Append(q, m)) /\ CountedBy(c, w, Append(q, m))
<1>1. Continues(w, Append(q, m))
  BY AppendContinues DEF CountedBy
<1>2. m.n <= c[m.who]
  BY DEF Out!Pieces
<1> DEFINE r == Append(q, m)
<1>3. Len(q) \in Nat /\ Len(r) = Len(q) + 1 /\ r[Len(q) + 1] = m /\ \A i \in 1..Len(q) : r[i] = q[i]
  OBVIOUS
<1> HIDE DEF r
<1>4. \A i \in 1..Len(r) : i \in 1..Len(q) \/ i = Len(q) + 1
  BY <1>3
<1>5. CountedBy(c, w, r)
  BY <1>2, <1>3, <1>4 DEF CountedBy
<1> QED
  BY <1>1, <1>5 DEF r

\* Counts only grow.
LEMMA CountedLater ==
  ASSUME NEW w \in Seq(WireBytes), NEW q \in Seq(Out!Pieces), NEW c, NEW d, CountedBy(c, w, q),
         \A x \in {"loop", "put"} : c[x] <= d[x] /\ c[x] \in Nat /\ d[x] \in Nat
  PROVE  CountedBy(d, w, q)
<1>1. ASSUME NEW i \in 1..Len(w) PROVE w[i].n <= d[w[i].who]
  <2>1. w[i] \in WireBytes
    OBVIOUS
  <2>2. w[i].n \in Nat /\ w[i].who \in {"loop", "put"}
    BY <2>1 DEF WireBytes
  <2>3. w[i].n <= c[w[i].who]
    BY DEF CountedBy
  <2> DEFINE n == w[i].n
             x == w[i].who
  <2>4. n \in Nat /\ x \in {"loop", "put"} /\ n <= c[x]
    BY <2>2, <2>3
  <2> HIDE DEF n, x
  <2>5. n <= d[x]
    BY <2>4
  <2> QED
    BY <2>5 DEF n, x
<1>2. ASSUME NEW i \in 1..Len(q) PROVE q[i].n <= d[q[i].who]
  <2>1. q[i] \in Out!Pieces
    OBVIOUS
  <2>2. q[i].n \in Nat /\ q[i].who \in {"loop", "put"}
    BY <2>1 DEF Out!Pieces
  <2>3. q[i].n <= c[q[i].who]
    BY DEF CountedBy
  <2> DEFINE n == q[i].n
             x == q[i].who
  <2>4. n \in Nat /\ x \in {"loop", "put"} /\ n <= c[x]
    BY <2>2, <2>3
  <2> HIDE DEF n, x
  <2>5. n <= d[x]
    BY <2>4
  <2> QED
    BY <2>5 DEF n, x
<1> QED
  BY <1>1, <1>2 DEF CountedBy

\* What was counted stays so when a piece is cut in two (IOBuffer::write).
LEMMA CountedParts ==
  ASSUME NEW w \in Seq(WireBytes), NEW q \in Seq(Out!Pieces), NEW p \in Out!Pieces,
         NEW k \in 1..Out!Left(p), Size \in Nat \ {0}, NEW c, CountedBy(c, w, <<p>> \o q)
  PROVE  /\ CountedBy(c, w \o Out!Taken(p, k), q)
         /\ CountedBy(c, w \o Out!Taken(p, k), <<[p EXCEPT !.from = @ + k]>> \o q)
<1> DEFINE t == Out!Taken(p, k)
           m == [p EXCEPT !.from = @ + k]
           pq == <<p>> \o q
           mq == <<m>> \o q
           v == w \o t
<1>1. /\ t \in Seq(WireBytes) /\ Len(t) = k /\ k \in Nat \ {0}
      /\ \A x \in 1..k : t[x] = [who |-> p.who, n |-> p.n, byte |-> p.from + x - 1]
  BY TakenBytes
<1>2. m.n = p.n /\ m.who = p.who
  BY DEF Out!Pieces
<1> HIDE DEF m, t
<1>3. \A x \in 1..k : t[x].who = p.who /\ t[x].n = p.n
  BY <1>1
<1>4. /\ Len(pq) = Len(q) + 1 /\ pq[1] = p /\ Len(q) \in Nat
      /\ \A i \in 1..Len(q) : pq[i + 1] = q[i] /\ i + 1 \in 1..Len(pq)
  OBVIOUS
<1>5. Len(mq) = Len(q) + 1 /\ mq[1] = m /\ \A i \in 1..Len(mq) : i # 1 => i - 1 \in 1..Len(q) /\ mq[i] = q[i - 1]
  OBVIOUS
<1>6. /\ Len(v) = Len(w) + k /\ Len(w) \in Nat
      /\ \A i \in 1..(Len(w) + k) : v[i] = IF i <= Len(w) THEN w[i] ELSE t[i - Len(w)]
  <2>1. Len(w \o t) = Len(w) + k
    BY <1>1, ConcatProperties
  <2>2. \A i \in 1..(Len(w) + k) : (w \o t)[i] = IF i <= Len(w) THEN w[i] ELSE t[i - Len(w)]
    BY <1>1, ConcatProperties
  <2> QED
    BY <2>1, <2>2
<1> HIDE DEF pq, mq, v
<1>7. p.n <= c[p.who] /\ \A i \in 1..Len(q) : q[i].n <= c[q[i].who]
  <2>1. 1 \in 1..Len(pq)
    BY <1>4
  <2> QED
    BY <1>4, <2>1 DEF CountedBy, pq
<1>8. ASSUME NEW i \in 1..Len(v) PROVE v[i].n <= c[v[i].who]
  <2>1. CASE i <= Len(w)
    BY <1>6, <2>1 DEF CountedBy
  <2>2. CASE ~(i <= Len(w))
    <3>1. i - Len(w) \in 1..k /\ v[i] = t[i - Len(w)]
      BY <1>1, <1>6, <2>2
    <3> QED
      BY <1>3, <1>7, <3>1
  <2> QED
    BY <2>1, <2>2
<1>9. ASSUME NEW i \in 1..Len(mq) PROVE mq[i].n <= c[mq[i].who]
  BY <1>2, <1>5, <1>7
<1> QED
  BY <1>7, <1>8, <1>9 DEF CountedBy, v, mq, m, t

\* The pcs are strings of their own.
LEMMA HoldersApart == Holders \cap {"idle", "disable", "update", "ctl", "queue", "enable"} = {} /\ Holders \subseteq Out!LoopPcs
  BY DEF Holders, Rests, Out!LoopPcs

\* A write of the piece the event loop holds keeps the stream whole, whether it is
\* taken, cut short or refused (IOBuffer::write).
LEMMA WriteKeeps ==
  ASSUME OutInv, NEW pc \in Holders, NEW rest \in Rests, NEW next \in {"idle", "queue"},
         Out!WriteAt(pc, rest, next)
  PROVE  OutInv'
<1>1. /\ queue \in Seq(Out!Pieces) /\ wire \in Seq(WireBytes) /\ spoilt \in BOOLEAN
      /\ loop \in [pc : Out!LoopPcs, item : Out!Pieces, want : BOOLEAN] /\ Size \in Nat \ {0}
  BY OutputAssumption DEF OutInv, Out!TypeOK, WireBytes
<1>2. loop.pc = pc /\ UNCHANGED <<queue, events, epoll, put, count, raced>>
  BY DEF Out!WriteAt
<1>3. rest \in Holders /\ next \notin Holders /\ next \in Out!LoopPcs /\ rest \in Out!LoopPcs
  BY HoldersApart DEF Holders, Rests, Out!LoopPcs
<1>4. Waiting = <<loop.item>> \o queue
  BY <1>2 DEF Waiting, Held
<1>5. ASSUME wire' \in Seq(WireBytes), spoilt' \in BOOLEAN,
             loop' \in [pc : Out!LoopPcs, item : Out!Pieces, want : BOOLEAN]
      PROVE  Out!TypeOK'
  BY <1>2, <1>5 DEF OutInv, Out!TypeOK, WireBytes
<1>6. loop' = [loop EXCEPT !.pc = next] =>
        loop' \in [pc : Out!LoopPcs, item : Out!Pieces, want : BOOLEAN] /\ loop'.pc = next
  BY <1>1, <1>3
<1>7. CASE spoilt' = TRUE /\ Out!LoopAt(next) /\ UNCHANGED wire
  <2>1. Out!TypeOK'
    BY <1>1, <1>5, <1>6, <1>7 DEF Out!LoopAt
  <2> QED
    BY <1>1, <1>2, <1>7, <2>1 DEF OutInv
<1>8. ASSUME NEW k \in 1..Out!Left(loop.item),
             /\ wire' = wire \o Out!Taken(loop.item, k)
             /\ IF k = Out!Left(loop.item) THEN Out!LoopAt(next)
                ELSE Out!Holding(rest, [loop.item EXCEPT !.from = @ + k])
             /\ UNCHANGED spoilt
      PROVE  OutInv'
  <2> DEFINE p == loop.item
             m == [p EXCEPT !.from = @ + k]
             v == wire \o Out!Taken(p, k)
  <2>1. p \in Out!Pieces
    BY <1>1
  <2>2. Out!Taken(p, k) \in Seq(WireBytes) /\ p.from \in 1..Size /\ k \in Nat \ {0} /\ p.from + k - 1 <= Size
    BY <1>1, <2>1, TakenBytes
  <2>3. v \in Seq(WireBytes) /\ wire' = v
    BY <1>1, <1>8, <2>2
  <2>4. ~spoilt => Continues(wire, <<p>> \o queue) /\ CountedBy(count, wire, <<p>> \o queue)
    BY <1>4 DEF OutInv, Numbered
  <2>5. CASE k = Out!Left(p)
    <3>1. loop' = [loop EXCEPT !.pc = next]
      BY <1>8, <2>5 DEF Out!LoopAt
    <3>2. Out!TypeOK'
      BY <1>1, <1>5, <1>6, <1>8, <2>3, <3>1
    <3>3. Waiting' = queue
      BY <1>1, <1>2, <1>3, <1>6, <3>1 DEF Waiting, Held
    <3>4. ~spoilt => Continues(v, queue) /\ CountedBy(count, v, queue)
      BY <1>1, <2>1, <2>4, <2>5, WriteContinues, CountedParts
    <3> HIDE DEF v
    <3> QED
      BY <1>1, <1>2, <1>8, <2>3, <3>2, <3>3, <3>4 DEF OutInv, Numbered
  <2>6. CASE ~(k = Out!Left(p))
    <3>1. k < Out!Left(p)
      <4>1. Out!Left(p) \in Int
        BY <1>1, <2>2 DEF Out!Left
      <4>2. k \in 1..Out!Left(p)
        OBVIOUS
      <4> HIDE DEF p
      <4> QED
        BY <2>6, <4>1, <4>2
    <3>2. p.from + k \in 1..Size
      BY <1>1, <2>2, <3>1 DEF Out!Left
    <3>3. m \in Out!Pieces
      BY <2>1, <3>2 DEF Out!Pieces
    <3>4. ~spoilt => Continues(v, <<m>> \o queue) /\ CountedBy(count, v, <<m>> \o queue)
      BY <1>1, <2>1, <2>4, <3>1, WriteContinues, CountedParts
    <3>5. loop' = [loop EXCEPT !.pc = rest, !.item = m]
      BY <1>8, <2>6 DEF Out!Holding
    <3> HIDE DEF m, v, p
    <3>6. loop' \in [pc : Out!LoopPcs, item : Out!Pieces, want : BOOLEAN] /\ loop'.pc = rest /\ loop'.item = m
      BY <1>1, <1>3, <3>3, <3>5
    <3>7. Out!TypeOK'
      BY <1>1, <1>5, <1>8, <2>3, <3>6
    <3>8. Waiting' = <<m>> \o queue
      BY <1>2, <1>3, <3>6 DEF Waiting, Held
    <3> QED
      BY <1>1, <1>2, <1>8, <2>3, <3>4, <3>7, <3>8 DEF OutInv, Numbered
  <2> QED
    BY <2>5, <2>6
<1> QED
  BY <1>7, <1>8 DEF Out!WriteAt

\* What is left of a piece is put back: it is first again if nothing was queued.
LEMMA RestKeeps ==
  ASSUME OutInv, NEW pc \in Rests, NEW next \in {"idle", "enable", "queue"}, Out!PutRest(pc, next)
  PROVE  OutInv'
<1>1. /\ queue \in Seq(Out!Pieces) /\ wire \in Seq(WireBytes) /\ spoilt \in BOOLEAN
      /\ loop \in [pc : Out!LoopPcs, item : Out!Pieces, want : BOOLEAN]
  BY DEF OutInv, Out!TypeOK, WireBytes
<1>2. /\ loop.pc = pc /\ queue' = Append(queue, loop.item) /\ spoilt' = (spoilt \/ queue # <<>>)
      /\ loop' = [loop EXCEPT !.pc = next] /\ UNCHANGED <<events, epoll, put, count, wire, raced>>
  BY DEF Out!PutRest, Out!LoopAt
<1>3. pc \in Holders /\ next \notin Holders /\ next \in Out!LoopPcs
  BY DEF Holders, Rests, Out!LoopPcs
<1>4. loop' \in [pc : Out!LoopPcs, item : Out!Pieces, want : BOOLEAN] /\ loop'.pc = next
  BY <1>1, <1>2, <1>3
<1>5. queue' \in Seq(Out!Pieces) /\ spoilt' \in BOOLEAN
  BY <1>1, <1>2
<1>6. Out!TypeOK'
  <2>1. \A i \in DOMAIN queue' : queue'[i] \in Out!Pieces
    BY <1>5
  <2> QED
    BY <1>2, <1>4, <1>5, <2>1 DEF OutInv, Out!TypeOK
<1>7. ASSUME ~spoilt' PROVE Waiting' = Waiting
  <2>1. queue = <<>>
    BY <1>2, <1>7
  <2>2. Waiting = <<loop.item>> /\ queue' = <<loop.item>>
    BY <1>1, <1>2, <1>3, <2>1 DEF Waiting, Held
  <2>3. Waiting' = <<>> \o queue'
    BY <1>3, <1>4 DEF Waiting, Held
  <2>4. <<>> \o queue' = queue'
    BY <1>5
  <2> QED
    BY <2>2, <2>3, <2>4
<1> QED
  BY <1>1, <1>2, <1>5, <1>6, <1>7 DEF OutInv, Numbered

\* A connection begins with nothing queued and nothing written.
LEMMA OutInit == Out!Init => OutInv
<1>1. SUFFICES ASSUME Out!Init PROVE OutInv
  OBVIOUS
<1>2. queue = <<>> /\ wire = <<>> /\ loop.pc = "idle"
  BY <1>1 DEF Out!Init
<1>3. Waiting = <<>>
  BY <1>2, HoldersApart DEF Waiting, Held
<1>4. Out!TypeOK
  <2>1. Out!NoPiece \in Out!Pieces
    BY OutputAssumption DEF Out!Pieces, Out!NoPiece, Out!Piece
  <2>2. 0 \in 0..LoopMsgs /\ 0 \in 0..PutMsgs
    BY OutputAssumption
  <2>3. wire \in Seq([who : {"loop", "put"}, n : Nat, byte : 1..Size])
    BY <1>2
  <2>4. \A i \in DOMAIN queue : queue[i] \in Out!Pieces
    BY <1>2
  <2>5. loop = [pc |-> "idle", item |-> Out!NoPiece, want |-> FALSE] /\ count = [loop |-> 0, put |-> 0]
    BY <1>1 DEF Out!Init
  <2>6. /\ loop \in [pc : Out!LoopPcs, item : Out!Pieces, want : BOOLEAN]
        /\ count \in [loop : 0..LoopMsgs, put : 0..PutMsgs]
    BY <2>1, <2>2, <2>5 DEF Out!LoopPcs
  <2>7. /\ put \in [pc : {"idle", "enable", "update", "ctl"}, want : BOOLEAN]
        /\ events \in BOOLEAN /\ epoll \in BOOLEAN /\ spoilt \in BOOLEAN /\ raced \in BOOLEAN
    BY <1>1 DEF Out!Init
  <2> QED
    BY <2>3, <2>4, <2>6, <2>7 DEF Out!TypeOK
<1>5. Continues(<<>>, <<>>) /\ Numbered(<<>>, <<>>)
  BY DEF Continues, Whole, Joins, Ordered, Numbered, CountedBy
<1> QED
  BY <1>2, <1>3, <1>4, <1>5 DEF OutInv

\* The event loop takes the first piece out of the queue and holds it: what
\* waits is the same (writeFunc, send).
LEMMA TakeKeeps ==
  ASSUME NEW q \in Seq(Out!Pieces), q # <<>>
  PROVE  Head(q) \in Out!Pieces /\ Tail(q) \in Seq(Out!Pieces) /\ <<Head(q)>> \o Tail(q) = q
<1>1. Head(q) \in Out!Pieces /\ Tail(q) \in Seq(Out!Pieces)
  OBVIOUS
<1>2. Len(<<Head(q)>> \o Tail(q)) = Len(q) /\ <<Head(q)>> \o Tail(q) \in Seq(Out!Pieces)
  BY <1>1
<1>3. \A i \in 1..Len(q) : (<<Head(q)>> \o Tail(q))[i] = q[i]
  OBVIOUS
<1> QED
  BY <1>1, <1>2, <1>3, SeqEqual

\* A step that changes neither the queue, the wire nor the piece that is held.
LEMMA QuietKeeps ==
  ASSUME OutInv, UNCHANGED <<queue, wire, spoilt, count>>, Out!TypeOK',
         loop' = loop \/ (~Held /\ ~Held')
  PROVE  OutInv'
<1>1. Waiting' = Waiting
  BY DEF Waiting, Held
<1> QED
  BY <1>1 DEF OutInv, Numbered

\* Every step of the two threads keeps the stream whole.
LEMMA OutStep == OutInv /\ [Out!Next]_outVars => OutInv'
<1> SUFFICES ASSUME OutInv, [Out!Next]_outVars PROVE OutInv'
  OBVIOUS
<1>0. /\ queue \in Seq(Out!Pieces) /\ wire \in Seq(WireBytes) /\ spoilt \in BOOLEAN
      /\ events \in BOOLEAN /\ epoll \in BOOLEAN /\ raced \in BOOLEAN
      /\ loop \in [pc : Out!LoopPcs, item : Out!Pieces, want : BOOLEAN]
      /\ put \in [pc : {"idle", "enable", "update", "ctl"}, want : BOOLEAN]
      /\ count \in [loop : 0..LoopMsgs, put : 0..PutMsgs]
      /\ LoopMsgs \in Nat /\ PutMsgs \in Nat /\ Size \in Nat \ {0}
  BY OutputAssumption DEF OutInv, Out!TypeOK, WireBytes
<1>a. \A q \in Seq(Out!Pieces) : \A i \in DOMAIN q : q[i] \in Out!Pieces
  OBVIOUS
<1>b. \A w : w \in Seq(WireBytes) => w \in Seq([who : {"loop", "put"}, n : Nat, byte : 1..Size])
  BY DEF WireBytes
<1>c. /\ {"idle", "write", "disable", "update", "ctl", "direct", "flush", "queue", "enable"} \subseteq Out!LoopPcs
      /\ {"write", "direct", "flush"} \subseteq Holders
      /\ \A x \in {"idle", "disable", "update", "ctl", "queue", "enable"} : x \notin Holders
  BY HoldersApart DEF Out!LoopPcs, Holders
<1>1. CASE Out!WriteFuncGet
  <2>1. CASE queue = <<>>
    <3>1. loop' = [loop EXCEPT !.pc = "disable"] /\ loop.pc = "idle" /\ UNCHANGED <<queue, events, epoll, put, count, wire, spoilt>>
      BY <1>1, <2>1 DEF Out!WriteFuncGet, Out!LoopAt
    <3>2. raced' \in BOOLEAN
      BY <1>0, <1>1 DEF Out!WriteFuncGet
    <3>3. Out!TypeOK'
      BY <1>0, <1>a, <1>b, <1>c, <3>1, <3>2 DEF Out!TypeOK
    <3> QED
      BY <1>0, <1>c, <3>1, <3>3, QuietKeeps DEF Held
  <2>2. CASE queue # <<>>
    <3>1. /\ loop' = [loop EXCEPT !.pc = "write", !.item = Head(queue)] /\ loop.pc = "idle"
          /\ queue' = Tail(queue) /\ UNCHANGED <<events, epoll, put, count, wire, spoilt>>
      BY <1>1, <2>2 DEF Out!WriteFuncGet, Out!Holding
    <3>2. raced' \in BOOLEAN
      BY <1>0, <1>1 DEF Out!WriteFuncGet
    <3>3. Head(queue) \in Out!Pieces /\ Tail(queue) \in Seq(Out!Pieces) /\ <<Head(queue)>> \o Tail(queue) = queue
      BY <1>0, <2>2, TakeKeeps
    <3>4. Out!TypeOK'
      BY <1>0, <1>a, <1>b, <1>c, <3>1, <3>2, <3>3 DEF Out!TypeOK
    <3>5. Waiting = queue /\ Waiting' = queue
      BY <1>0, <1>c, <3>1, <3>3 DEF Waiting, Held
    <3> QED
      BY <3>1, <3>3, <3>4, <3>5 DEF OutInv, Numbered
  <2> QED
    BY <2>1, <2>2
<1>2. CASE Out!WriteFuncWrite \/ Out!WriteFuncRest
  <2>1. CASE Out!WriteFuncWrite
    BY <2>1, WriteKeeps DEF Out!WriteFuncWrite, Holders, Rests
  <2>2. CASE Out!WriteFuncRest
    BY <2>2, RestKeeps DEF Out!WriteFuncRest, Rests
  <2> QED
    BY <1>2, <2>1, <2>2
<1>3. CASE Out!Disable
  <2>1. /\ loop' = [loop EXCEPT !.pc = "update"] /\ loop.pc \in {"disable", "update", "ctl", "enable"}
        /\ UNCHANGED <<queue, put, count, wire, spoilt, raced>>
        /\ events' \in BOOLEAN /\ epoll' \in BOOLEAN
    BY <1>0, <1>3 DEF Out!Disable, Out!LoopAt
  <2>2. Out!TypeOK'
    BY <1>0, <1>a, <1>b, <1>c, <2>1 DEF Out!TypeOK
  <2> QED
    BY <1>0, <1>c, <2>1, <2>2, QuietKeeps DEF Held
<1>4. CASE Out!LoopUpdate
  <2>1. /\ loop' = [loop EXCEPT !.pc = "ctl", !.want = events] /\ loop.pc \in {"disable", "update", "ctl", "enable"}
        /\ UNCHANGED <<queue, put, count, wire, spoilt, raced>>
        /\ events' \in BOOLEAN /\ epoll' \in BOOLEAN
    BY <1>0, <1>4 DEF Out!LoopUpdate, Out!LoopAt
  <2>2. Out!TypeOK'
    BY <1>0, <1>a, <1>b, <1>c, <2>1 DEF Out!TypeOK
  <2> QED
    BY <1>0, <1>c, <2>1, <2>2, QuietKeeps DEF Held
<1>5. CASE Out!LoopCtl
  <2>1. /\ loop' = [loop EXCEPT !.pc = "idle"] /\ loop.pc \in {"disable", "update", "ctl", "enable"}
        /\ UNCHANGED <<queue, put, count, wire, spoilt, raced>>
        /\ events' \in BOOLEAN /\ epoll' \in BOOLEAN
    BY <1>0, <1>5 DEF Out!LoopCtl, Out!LoopAt
  <2>2. Out!TypeOK'
    BY <1>0, <1>a, <1>b, <1>c, <2>1 DEF Out!TypeOK
  <2> QED
    BY <1>0, <1>c, <2>1, <2>2, QuietKeeps DEF Held
<1>6. CASE Out!SendGet
  <2>1. /\ loop.pc = "idle" /\ count' = [count EXCEPT !.loop = count.loop + 1] /\ count.loop < LoopMsgs
        /\ UNCHANGED <<events, epoll, put, wire, spoilt, raced>>
    BY <1>6 DEF Out!SendGet
  <2>2. count' \in [loop : 0..LoopMsgs, put : 0..PutMsgs] /\ count'.loop = count.loop + 1 /\ count'.put = count.put
    BY <1>0, <2>1
  <2>3. \A x \in {"loop", "put"} : count[x] <= count'[x] /\ count[x] \in Nat /\ count'[x] \in Nat
    BY <1>0, <2>2
  <2>4. Waiting = queue
    BY <1>0, <1>c, <2>1 DEF Waiting, Held
  <2>5. ~spoilt => Continues(wire, queue) /\ CountedBy(count', wire, queue)
    <3>1. ~spoilt => Continues(wire, queue) /\ Numbered(wire, queue)
      BY <2>4 DEF OutInv
    <3> QED
      BY <1>0, <2>3, <3>1, CountedLater DEF Numbered
  <2>6. CASE queue = <<>>
    <3> DEFINE m == Out!Piece("loop", count.loop + 1)
    <3>1. loop' = [loop EXCEPT !.pc = "direct", !.item = m] /\ queue' = queue
      BY <1>6, <2>6 DEF Out!SendGet, Out!Holding
    <3>2. m \in Out!Pieces /\ m.from = 1 /\ m.n = count'[m.who]
      BY <1>0, <2>2 DEF Out!Piece, Out!Pieces
    <3> HIDE DEF m
    <3>3. Out!TypeOK'
      BY <1>0, <1>a, <1>b, <1>c, <2>1, <2>2, <3>1, <3>2 DEF Out!TypeOK
    <3>4. Waiting' = Append(queue, m)
      BY <1>0, <1>c, <2>6, <3>1, <3>2 DEF Waiting, Held
    <3>5. ~spoilt => Continues(wire, Append(queue, m)) /\ CountedBy(count', wire, Append(queue, m))
      BY <1>0, <2>5, <3>2, AppendKeeps
    <3> QED
      BY <1>0, <2>1, <3>1, <3>3, <3>4, <3>5 DEF OutInv, Numbered
  <2>7. CASE queue # <<>>
    <3>1. loop' = [loop EXCEPT !.pc = "flush", !.item = Head(queue)] /\ queue' = Tail(queue)
      BY <1>6, <2>7 DEF Out!SendGet, Out!Holding
    <3>2. Head(queue) \in Out!Pieces /\ Tail(queue) \in Seq(Out!Pieces) /\ <<Head(queue)>> \o Tail(queue) = queue
      BY <1>0, <2>7, TakeKeeps
    <3>3. Out!TypeOK'
      BY <1>0, <1>a, <1>b, <1>c, <2>1, <2>2, <3>1, <3>2 DEF Out!TypeOK
    <3>4. Waiting' = queue
      BY <1>0, <1>c, <3>1, <3>2 DEF Waiting, Held
    <3> QED
      BY <2>1, <2>5, <3>1, <3>2, <3>3, <3>4 DEF OutInv, Numbered
  <2> QED
    BY <2>6, <2>7
<1>7. CASE Out!SendDirect \/ Out!SendDirectRest \/ Out!SendFlush \/ Out!SendFlushRest
  <2>1. CASE Out!SendDirect
    BY <2>1, WriteKeeps DEF Out!SendDirect, Holders, Rests
  <2>2. CASE Out!SendDirectRest
    BY <2>2, RestKeeps DEF Out!SendDirectRest, Rests
  <2>3. CASE Out!SendFlush
    BY <2>3, WriteKeeps DEF Out!SendFlush, Holders, Rests
  <2>4. CASE Out!SendFlushRest
    BY <2>4, RestKeeps DEF Out!SendFlushRest, Rests
  <2> QED
    BY <1>7, <2>1, <2>2, <2>3, <2>4
<1>8. CASE Out!SendQueue
  <2> DEFINE m == Out!Piece("loop", count.loop)
  <2>1. /\ loop.pc = "queue" /\ queue' = Append(queue, m) /\ loop' = [loop EXCEPT !.pc = "enable"]
        /\ UNCHANGED <<events, epoll, put, count, wire, spoilt, raced>>
    BY <1>8 DEF Out!SendQueue, Out!LoopAt
  <2>2. m \in Out!Pieces /\ m.from = 1 /\ m.n = count[m.who]
    BY <1>0 DEF Out!Piece, Out!Pieces
  <2> HIDE DEF m
  <2>3. queue' \in Seq(Out!Pieces)
    BY <1>0, <2>1, <2>2
  <2>4. loop' \in [pc : Out!LoopPcs, item : Out!Pieces, want : BOOLEAN] /\ loop'.pc = "enable"
    BY <1>0, <1>c, <2>1
  <2>5. Out!TypeOK'
    BY <1>0, <1>a, <1>b, <1>c, <2>1, <2>3, <2>4 DEF Out!TypeOK
  <2>6. Waiting = queue /\ Waiting' = queue'
    BY <1>0, <1>c, <2>1, <2>3, <2>4 DEF Waiting, Held
  <2>7. ~spoilt => Continues(wire, Append(queue, m)) /\ CountedBy(count, wire, Append(queue, m))
    <3>1. ~spoilt => Continues(wire, queue) /\ CountedBy(count, wire, queue)
      BY <2>6 DEF OutInv, Numbered
    <3> QED
      BY <1>0, <2>2, <3>1, AppendKeeps
  <2> QED
    BY <2>1, <2>3, <2>5, <2>6, <2>7 DEF OutInv, Numbered
<1>9. CASE Out!SendEnable
  <2>1. /\ loop' = [loop EXCEPT !.pc = "update"] /\ loop.pc \in {"disable", "update", "ctl", "enable"}
        /\ UNCHANGED <<queue, put, count, wire, spoilt, raced>>
        /\ events' \in BOOLEAN /\ epoll' \in BOOLEAN
    BY <1>0, <1>9 DEF Out!SendEnable, Out!LoopAt
  <2>2. Out!TypeOK'
    BY <1>0, <1>a, <1>b, <1>c, <2>1 DEF Out!TypeOK
  <2> QED
    BY <1>0, <1>c, <2>1, <2>2, QuietKeeps DEF Held
<1>10. CASE Out!PutQueue
  <2> DEFINE m == Out!Piece("put", count.put + 1)
  <2>1. /\ count' = [count EXCEPT !.put = count.put + 1] /\ count.put < PutMsgs
        /\ queue' = Append(queue, m) /\ put' = [put EXCEPT !.pc = "enable"]
        /\ UNCHANGED <<events, epoll, loop, wire, spoilt>> /\ raced' \in BOOLEAN
    BY <1>0, <1>10 DEF Out!PutQueue, Out!PutStepAt
  <2>2. count' \in [loop : 0..LoopMsgs, put : 0..PutMsgs] /\ count'.put = count.put + 1 /\ count'.loop = count.loop
    <3>1. count.put + 1 \in 0..PutMsgs
      BY <1>0, <2>1
    <3> QED
      BY <1>0, <2>1, <3>1
  <2>3. \A x \in {"loop", "put"} : count[x] <= count'[x] /\ count[x] \in Nat /\ count'[x] \in Nat
    BY <1>0, <2>2
  <2>4. m \in Out!Pieces /\ m.from = 1 /\ m.n = count'[m.who]
    <3>1. m = [who |-> "put", n |-> count.put + 1, from |-> 1]
      BY DEF Out!Piece
    <3>2. count.put + 1 \in Nat /\ 1 \in 1..Size
      BY <1>0
    <3> HIDE DEF m
    <3> QED
      BY <2>2, <3>1, <3>2 DEF Out!Pieces
  <2> HIDE DEF m
  <2>5. queue' \in Seq(Out!Pieces)
    BY <1>0, <2>1, <2>4
  <2>6. Out!TypeOK'
    BY <1>0, <1>a, <1>b, <2>1, <2>2, <2>5 DEF Out!TypeOK
  <2>7. Waiting \in Seq(Out!Pieces) /\ Waiting' = Append(Waiting, m)
    <3> DEFINE h == IF Held THEN <<loop.item>> ELSE <<>>
    <3>1. h \in Seq(Out!Pieces)
      BY <1>0
    <3>2. Waiting = h \o queue /\ Waiting' = h \o Append(queue, m)
      BY <2>1 DEF Waiting, Held
    <3> HIDE DEF h
    <3>3. h \o queue \in Seq(Out!Pieces)
      BY <1>0, <3>1
    <3>4. h \o Append(queue, m) = Append(h \o queue, m)
      BY <1>0, <2>4, <3>1, <3>3, AppendIsConcat, ConcatAssociative
    <3> QED
      BY <3>2, <3>3, <3>4
  <2>8. ~spoilt => Continues(wire, Waiting) /\ CountedBy(count', wire, Waiting)
    <3>1. ~spoilt => Continues(wire, Waiting) /\ CountedBy(count, wire, Waiting)
      BY DEF OutInv, Numbered
    <3> QED
      BY <1>0, <2>3, <2>7, <3>1, CountedLater
  <2>9. ~spoilt => Continues(wire, Append(Waiting, m)) /\ CountedBy(count', wire, Append(Waiting, m))
    BY <1>0, <2>4, <2>7, <2>8, AppendKeeps
  <2> QED
    BY <2>1, <2>5, <2>6, <2>7, <2>9 DEF OutInv, Numbered
<1>11. CASE Out!PutEnable
  <2>1. /\ loop' = loop /\ UNCHANGED <<queue, count, wire, spoilt>>
        /\ events' \in BOOLEAN /\ epoll' \in BOOLEAN /\ raced' \in BOOLEAN
        /\ put' \in [pc : {"idle", "enable", "update", "ctl"}, want : BOOLEAN]
    BY <1>0, <1>11 DEF Out!PutEnable, Out!PutStepAt
  <2>2. Out!TypeOK'
    BY <1>0, <1>a, <1>b, <2>1 DEF Out!TypeOK
  <2> QED
    BY <2>1, <2>2, QuietKeeps
<1>12. CASE Out!PutUpdate
  <2>1. /\ loop' = loop /\ UNCHANGED <<queue, count, wire, spoilt>>
        /\ events' \in BOOLEAN /\ epoll' \in BOOLEAN /\ raced' \in BOOLEAN
        /\ put' \in [pc : {"idle", "enable", "update", "ctl"}, want : BOOLEAN]
    BY <1>0, <1>12 DEF Out!PutUpdate, Out!PutStepAt
  <2>2. Out!TypeOK'
    BY <1>0, <1>a, <1>b, <2>1 DEF Out!TypeOK
  <2> QED
    BY <2>1, <2>2, QuietKeeps
<1>13. CASE Out!PutCtl
  <2>1. /\ loop' = loop /\ UNCHANGED <<queue, count, wire, spoilt>>
        /\ events' \in BOOLEAN /\ epoll' \in BOOLEAN /\ raced' \in BOOLEAN
        /\ put' \in [pc : {"idle", "enable", "update", "ctl"}, want : BOOLEAN]
    BY <1>0, <1>13 DEF Out!PutCtl, Out!PutStepAt
  <2>2. Out!TypeOK'
    BY <1>0, <1>a, <1>b, <2>1 DEF Out!TypeOK
  <2> QED
    BY <2>1, <2>2, QuietKeeps
<1>14. CASE UNCHANGED outVars
  <2>1. Out!TypeOK'
    BY <1>14, <1>0, <1>a, <1>b DEF outVars, Out!TypeOK
  <2> QED
    BY <1>14, <2>1, QuietKeeps DEF outVars
<1> QED
  BY <1>1, <1>2, <1>3, <1>4, <1>5, <1>6, <1>7, <1>8, <1>9, <1>10, <1>11, <1>12, <1>13, <1>14
  DEF Out!Next, Out!LoopStep, Out!PutStep

\* Whatever the connection does is a step of its output or leaves it alone.
LEMMA OutOfNext == [Next]_vars => [Out!Next]_outVars
BY DEF Next, vars, SetMessageFunc, Read, Reply, LoopStep, PutStep, Out!Next

\* The wire of OutInv is one that the peer can cut into messages.
LEMMA OutIsWhole == OutInv => WholeMessages
<1>1. SUFFICES ASSUME OutInv, ~spoilt, NEW i \in DOMAIN wire
               PROVE  /\ IF wire[i].byte = 1 THEN i = 1 \/ wire[i - 1].byte = Size
                         ELSE i > 1 /\ wire[i - 1] = [wire[i] EXCEPT !.byte = @ - 1]
                      /\ \A j \in 1..(i - 1) : wire[j].who = wire[i].who => wire[j].n <= wire[i].n
  BY DEF WholeMessages, Out!WholeMessages
<1>2. wire \in Seq(WireBytes) /\ Whole(wire)
  BY <1>1 DEF OutInv, Out!TypeOK, WireBytes, Continues
<1>3. i \in 1..Len(wire) /\ Len(wire) \in Nat /\ \A j \in 1..Len(wire) : wire[j] \in WireBytes
  BY <1>2
<1>4. \A j \in 1..(i - 1) : j \in 1..Len(wire) /\ j < i
  BY <1>3
<1>5. \A j \in 1..(i - 1) : wire[j].who = wire[i].who => wire[j].n <= wire[i].n
  BY <1>2, <1>3, <1>4 DEF Whole
<1>6. CASE i = 1
  BY <1>2, <1>3, <1>5, <1>6 DEF Whole
<1>7. CASE i # 1
  <2>1. i \in 2..Len(wire) /\ i - 1 \in 1..Len(wire) /\ i > 1
    BY <1>3, <1>7
  <2>2. Fits(wire[i - 1], [who |-> wire[i].who, n |-> wire[i].n, from |-> wire[i].byte])
    BY <1>2, <2>1 DEF Whole
  <2>3. CASE wire[i].byte = 1
    BY <1>5, <2>2, <2>3 DEF Fits
  <2>4. CASE wire[i].byte # 1
    <3>1. wire[i - 1] = [wire[i] EXCEPT !.byte = wire[i].byte - 1]
      BY <1>3, <2>1, <2>2, <2>4 DEF Fits, WireBytes
    <3> QED
      BY <1>5, <2>1, <2>4, <3>1
  <2> QED
    BY <2>3, <2>4
<1> QED
  BY <1>6, <1>7

\* However send, putToBuffer and writeFunc interleave and however much the socket
\* takes at a time, the peer can cut what it receives into messages again and
\* every sender's messages arrive in order, until a write is refused or cut short
\* in front of others (TcpConnection.h, IOBuffer.h).
THEOREM RepliesWhole == Spec => []WholeMessages
<1>1. Init => OutInv
  BY OutInit DEF Init
<1>2. OutInv /\ [Next]_vars => OutInv'
  BY OutStep, OutOfNext
<1>3. OutInv => WholeMessages
  BY OutIsWhole
<1> QED
  BY <1>1, <1>2, <1>3, PTL DEF Spec

-----------------------------------------------------------------------------
(* The input *)

\* LastByte adds the lengths of the messages up to m.
LEMMA LastByteSum ==
  ASSUME NEW m \in 0..Len(Lengths)
  PROVE  \E h : SumTo(SubSeq(Lengths, 1, m), m, h) /\ In!LastByte(m) = h[1..m]
<1> DEFINE L == SubSeq(Lengths, 1, m)
           g == CHOOSE h : SumTo(L, m, h)
<1>1. m \in Nat /\ DOMAIN L = 1..m
  BY FramingAssumption
<1>2. SumTo(L, m, g)
  BY <1>1, SumToExists
<1>3. In!LastByte(m) = g[1..m]
  <2> DEFINE it(D) == CHOOSE h : h = [s \in SUBSET D |-> IF s = {} THEN 0 ELSE h[s \ {Max(s)}] + L[Max(s)]]
  <2>1. In!LastByte(m) = it(DOMAIN L)[DOMAIN L]
    BY DEF In!LastByte, In!FoldLeft, In!MapThenFoldSet, In!Max, Max
  <2>2. g = it(1..m)
    BY DEF SumTo
  <2> HIDE DEF it, g
  <2> QED
    BY <1>1, <2>1, <2>2
<1> QED
  BY <1>2, <1>3

\* The client's messages lie one behind the other in its stream.
LEMMA LastByteNext ==
  /\ In!LastByte(0) = 0
  /\ \A m \in Nat : m < Len(Lengths) => In!LastByte(m + 1) = In!LastByte(m) + Lengths[m + 1]
<1>0. Lengths \in Seq(Nat) /\ Len(Lengths) \in Nat
  BY FramingAssumption
<1>1. In!LastByte(0) = 0
  <2>1. PICK h : SumTo(SubSeq(Lengths, 1, 0), 0, h) /\ In!LastByte(0) = h[1..0]
    BY <1>0, LastByteSum
  <2>2. h[{}] = 0 /\ 1..0 = {}
    BY <2>1, SumAt
  <2> QED
    BY <2>1, <2>2
<1>2. ASSUME NEW m \in Nat, m < Len(Lengths) PROVE In!LastByte(m + 1) = In!LastByte(m) + Lengths[m + 1]
  <2> DEFINE p == m + 1
             L == SubSeq(Lengths, 1, m)
             M == SubSeq(Lengths, 1, p)
  <2>1. m \in 0..Len(Lengths) /\ p \in 0..Len(Lengths) /\ p \in Nat /\ m <= p /\ m + 1 <= p
    BY <1>0, <1>2
  <2>2. SameTo(L, M, m)
    BY <1>0, <1>2 DEF SameTo
  <2>3. M[m + 1] = Lengths[m + 1]
    BY <1>0, <1>2
  <2> HIDE DEF L, M
  <2>4. PICK f : SumTo(L, m, f) /\ In!LastByte(m) = f[1..m]
    BY <2>1, LastByteSum DEF L
  <2>5. PICK g : SumTo(M, p, g) /\ In!LastByte(p) = g[1..p]
    BY <2>1, LastByteSum DEF M
  <2>6. g[1..(m + 1)] = g[1..m] + M[m + 1]
    BY <2>1, <2>5, SumSegment
  <2> HIDE DEF p
  <2>7. \A k \in 0..m : f[1..k] = g[1..k]
    <3>1. SumTo(L, m, f) /\ SumTo(M, p, g) /\ m \in Nat /\ p \in Nat /\ m <= p
      BY <2>1, <2>4, <2>5
    <3> QED
      BY <2>2, <3>1, SumAgree
  <2>8. m \in 0..m
    OBVIOUS
  <2> QED
    BY <2>3, <2>4, <2>5, <2>6, <2>7, <2>8 DEF p
<1> QED
  BY <1>1, <1>2

\* MessageFraming's FlattenSeq is the library's.
LEMMA SameFlatten == \A q : In!FlattenSeq(q) = FlattenSeq(q)
BY DEF In!FlattenSeq, FlattenSeq

\* Where the m-th message of the stream ends.
End(m) == In!LastByte(m)

\* The messages of the stream do not overlap.
LEMMA LastByteGrows ==
  /\ \A m \in 0..Len(Lengths) : End(m) \in Nat
  /\ \A i, j \in 0..Len(Lengths) : i < j => End(i) + Prefix <= End(j)
<1>0. Lengths \in Seq(Nat) /\ Len(Lengths) \in Nat /\ Prefix \in Nat \ {0}
  BY FramingAssumption
<1>1. \A m \in Nat : m < Len(Lengths) => /\ Lengths[m + 1] \in Nat /\ Lengths[m + 1] >= Prefix
                                         /\ End(m + 1) = End(m) + Lengths[m + 1]
  <2>1. ASSUME NEW m \in Nat, m < Len(Lengths) PROVE m + 1 \in DOMAIN Lengths
    BY <1>0, <2>1
  <2> QED
    BY <1>0, <2>1, FramingAssumption, LastByteNext DEF End
<1> DEFINE T == {j \in Nat : j <= Len(Lengths) =>
                   End(j) \in Nat /\ \A i \in 0..(j - 1) : End(i) \in Nat /\ End(i) + Prefix <= End(j)}
<1>2. 0 \in T
  BY LastByteNext DEF End
<1>3. ASSUME NEW j \in Nat, j \in T PROVE j + 1 \in T
  <2>1. SUFFICES ASSUME j + 1 <= Len(Lengths)
                 PROVE  /\ End(j + 1) \in Nat
                        /\ \A i \in 0..((j + 1) - 1) : End(i) \in Nat /\ End(i) + Prefix <= End(j + 1)
    OBVIOUS
  <2>2. /\ End(j) \in Nat /\ \A i \in 0..(j - 1) : End(i) \in Nat /\ End(i) + Prefix <= End(j)
        /\ Lengths[j + 1] \in Nat /\ Lengths[j + 1] >= Prefix /\ End(j + 1) = End(j) + Lengths[j + 1]
    BY <1>0, <1>1, <1>3, <2>1
  <2>3. End(j + 1) \in Nat /\ End(j) + Prefix <= End(j + 1)
    BY <1>0, <2>2
  <2>4. ASSUME NEW i \in 0..((j + 1) - 1) PROVE End(i) \in Nat /\ End(i) + Prefix <= End(j + 1)
    <3>1. CASE i = j
      BY <2>2, <2>3, <3>1
    <3>2. CASE i # j
      <4>1. i \in 0..(j - 1)
        BY <3>2
      <4>2. End(i) + Prefix <= End(j) /\ End(j) <= End(j + 1)
        BY <1>0, <2>2, <2>3, <4>1
      <4>3. End(i) \in Nat
        BY <2>2, <4>1
      <4> QED
        BY <1>0, <2>2, <2>3, <4>2, <4>3
    <3> QED
      BY <3>1, <3>2
  <2> QED
    BY <2>3, <2>4
<1> HIDE DEF T
<1>4. Nat \subseteq T
  BY <1>2, <1>3, SetInduction
<1> QED
  BY <1>0, <1>4 DEF T

\* The bytes after place a up to place b of the stream.
Run(a, b) == [i \in 1..(b - a) |-> a + i]

\* The bytes the client sends are runs.
LEMMA RunIsBytes ==
  ASSUME NEW a \in Nat, NEW b \in Nat
  PROVE  In!Bytes(a + 1, b) = Run(a, b)
BY DEF In!Bytes, Run

\* What a run holds.
LEMMA RunFacts ==
  ASSUME NEW a \in Nat, NEW b \in Nat, a <= b
  PROVE  /\ Run(a, b) \in Seq(1..b) /\ Len(Run(a, b)) = b - a
         /\ \A i \in 1..(b - a) : Run(a, b)[i] = a + i
BY DEF Run

\* Two runs that meet are one.
LEMMA RunJoin ==
  ASSUME NEW a \in Nat, NEW b \in Nat, NEW c \in Nat, a <= b, b <= c
  PROVE  Run(a, b) \o Run(b, c) = Run(a, c)
<1> DEFINE s == Run(a, b)
           t == Run(b, c)
           u == Run(a, c)
<1>1. /\ s \in Seq(Nat) /\ Len(s) = b - a /\ \A i \in 1..(b - a) : s[i] = a + i
      /\ t \in Seq(Nat) /\ Len(t) = c - b /\ \A i \in 1..(c - b) : t[i] = b + i
      /\ u \in Seq(Nat) /\ Len(u) = c - a /\ \A i \in 1..(c - a) : u[i] = a + i
  BY DEF Run
<1> HIDE DEF s, t, u
<1>2. /\ s \o t \in Seq(Nat) /\ Len(s \o t) = c - a
      /\ \A i \in 1..(c - a) : (s \o t)[i] = IF i <= b - a THEN s[i] ELSE t[i - (b - a)]
  <2>1. /\ s \o t \in Seq(Nat) /\ Len(s \o t) = Len(s) + Len(t)
        /\ \A i \in 1..(Len(s) + Len(t)) : (s \o t)[i] = IF i <= Len(s) THEN s[i] ELSE t[i - Len(s)]
    BY <1>1, ConcatProperties
  <2>2. Len(s) = b - a /\ Len(t) = c - b /\ Len(s) + Len(t) = c - a
    BY <1>1
  <2> QED
    BY <2>1, <2>2
<1>3. ASSUME NEW i \in 1..Len(u) PROVE (s \o t)[i] = u[i]
  <2>1. CASE i <= b - a
    BY <1>1, <1>2, <2>1
  <2>2. CASE i > b - a
    <3>1. i - (b - a) \in 1..(c - b) /\ b + (i - (b - a)) = a + i /\ i \in 1..(c - a)
      BY <1>1, <2>2
    <3> DEFINE w == s \o t
               d == i - (b - a)
    <3>2. \A j \in 1..(c - a) : w[j] = IF j <= b - a THEN s[j] ELSE t[j - (b - a)]
      BY <1>2, Zenon
    <3>3. d \in 1..(c - b) /\ b + d = a + i /\ w[i] = t[d]
      <4> HIDE DEF w
      <4>1. i \in 1..(c - a) /\ ~(i <= b - a)
        BY <1>1, <2>2, <3>1
      <4>2. w[i] = t[i - (b - a)]
        BY <3>2, <4>1, Zenon
      <4> QED
        BY <3>1, <4>2, Zenon DEF d
    <3> HIDE DEF d
    <3>4. t[d] = a + i
      BY <1>1, <3>3
    <3>5. u[i] = a + i
      BY <1>1, <3>1
    <3> QED
      BY <3>3, <3>4, <3>5, Zenon
  <2>3. i <= b - a \/ i > b - a
    BY <1>1
  <2> QED
    BY <2>1, <2>2, <2>3
<1>4. Len(s \o t) = Len(u)
  BY <1>1, <1>2
<1>5. s \o t = u
  BY <1>1, <1>2, <1>3, <1>4, SeqEqual
<1> QED
  BY <1>5 DEF s, t, u

\* Whatever a run is cut into are runs.
LEMMA RunCut ==
  ASSUME NEW a \in Nat, NEW c \in Nat, a <= c, NEW s \in Seq(Nat), NEW t \in Seq(Nat), s \o t = Run(a, c)
  PROVE  /\ Len(s) + Len(t) = c - a
         /\ s = Run(a, a + Len(s)) /\ t = Run(a + Len(s), c)
<1>1. /\ Len(s \o t) = Len(s) + Len(t)
      /\ \A i \in 1..(Len(s) + Len(t)) : (s \o t)[i] = IF i <= Len(s) THEN s[i] ELSE t[i - Len(s)]
      /\ Len(s) \in Nat /\ Len(t) \in Nat
  BY ConcatProperties
<1>2. Len(Run(a, c)) = c - a /\ \A i \in 1..(c - a) : Run(a, c)[i] = a + i
  BY RunFacts
<1> DEFINE b == a + Len(s)
<1>3. Len(s) + Len(t) = c - a /\ b \in Nat /\ a <= b /\ b <= c /\ b - a = Len(s) /\ c - b = Len(t)
  <2>1. Len(s) + Len(t) = c - a /\ Len(s) \in Nat /\ Len(t) \in Nat
    BY <1>1, <1>2
  <2> QED
    BY <2>1
<1>4. /\ Run(a, b) \in Seq(Nat) /\ Len(Run(a, b)) = Len(s) /\ \A i \in 1..Len(s) : Run(a, b)[i] = a + i
      /\ Run(b, c) \in Seq(Nat) /\ Len(Run(b, c)) = Len(t) /\ \A i \in 1..Len(t) : Run(b, c)[i] = b + i
  <2> HIDE DEF b
  <2> QED
    BY <1>3 DEF Run
<1>5. ASSUME NEW i \in 1..Len(s) PROVE s[i] = Run(a, b)[i]
  <2>1. i \in 1..(c - a) /\ i \in 1..(Len(s) + Len(t)) /\ i <= Len(s)
    BY <1>1, <1>3
  <2>2. s[i] = a + i
    BY <1>1, <1>2, <2>1
  <2> QED
    BY <1>4, <2>2
<1>6. ASSUME NEW i \in 1..Len(t) PROVE t[i] = Run(b, c)[i]
  <2> DEFINE j == Len(s) + i
  <2>1. j \in 1..(c - a) /\ j \in 1..(Len(s) + Len(t)) /\ ~(j <= Len(s)) /\ j - Len(s) = i /\ a + j = b + i
    BY <1>1, <1>3
  <2> HIDE DEF j, b
  <2>2. t[i] = a + j
    BY <1>1, <1>2, <2>1
  <2> QED
    BY <1>4, <2>1, <2>2
<1> HIDE DEF b
<1>7. s = Run(a, b)
  BY <1>4, <1>5, SeqEqual
<1>8. t = Run(b, c)
  BY <1>4, <1>6, SeqEqual
<1> QED
  BY <1>3, <1>7, <1>8 DEF b

\* The first bytes of a run, and the others.
LEMMA RunSub ==
  ASSUME NEW a \in Nat, NEW b \in Nat, a <= b, NEW l \in Nat, l <= b - a
  PROVE  /\ SubSeq(Run(a, b), 1, l) = Run(a, a + l)
         /\ SubSeq(Run(a, b), l + 1, b - a) = Run(a + l, b)
BY DEF Run

\* The chunks a client's stream may come in.
Stream == 1..In!StreamLen
Chunks == Seq(Stream) \ {<<>>}

\* Taking k chunks moves the border between the buffer and the queue only.
LEMMA WithKeeps ==
  ASSUME NEW inc \in Seq(Stream), NEW q \in Seq(Chunks), NEW k \in 0..Len(q)
  PROVE  /\ In!With(inc, q, k) \in Seq(Stream)
         /\ SubSeq(q, k + 1, Len(q)) \in Seq(Chunks)
         /\ FlattenSeq(SubSeq(q, k + 1, Len(q))) \in Seq(Stream)
         /\ In!With(inc, q, k) \o FlattenSeq(SubSeq(q, k + 1, Len(q))) = inc \o FlattenSeq(q)
<1> DEFINE p == SubSeq(q, 1, k)
           r == SubSeq(q, k + 1, Len(q))
           fp == FlattenSeq(p)
           fr == FlattenSeq(r)
<1>1. q \in Seq(Seq(Stream))
  BY SeqMonotonic DEF Chunks
<1>2. r \in Seq(Chunks) /\ p \in Seq(Seq(Stream)) /\ r \in Seq(Seq(Stream))
  BY <1>1
<1>3. fp \o fr = FlattenSeq(q)
  BY <1>1, FlattenSplit
<1>4. fp \in Seq(Stream) /\ fr \in Seq(Stream)
  BY <1>2, FlattenType
<1>5. In!With(inc, q, k) = inc \o fp
  BY SameFlatten DEF In!With
<1> HIDE DEF p, r, fp, fr
<1>6. (inc \o fp) \o fr = inc \o (fp \o fr)
  BY <1>4, ConcatAssociative
<1>7. inc \o fp \in Seq(Stream)
  BY <1>4
<1> QED
  BY <1>2, <1>3, <1>4, <1>5, <1>6, <1>7 DEF r, fr

\* How tryGet may end: exactly the buffer, enough bytes after k more chunks, or
\* everything there is and nothing got (TcpConnection::tryGet).
LEMMA TryGetCases ==
  ASSUME NEW inc \in Seq(Stream), NEW q \in Seq(Chunks), NEW len \in Nat, NEW take
  PROVE  LET t == In!TryGet(len, take, inc, q)
         IN \/ Len(inc) = len /\ t = [res |-> inc, inc |-> <<>>, q |-> q]
            \/ \E k \in 0..Len(q) :
                 /\ Len(inc) # len /\ len <= Len(In!With(inc, q, k))
                 /\ t = In!Result(In!With(inc, q, k), len, take, SubSeq(q, k + 1, Len(q)))
            \/ /\ Len(In!With(inc, q, Len(q))) < len
               /\ t = [res |-> <<>>, inc |-> In!With(inc, q, Len(q)), q |-> <<>>]
<1> DEFINE enough == {x \in 1..Len(q) : Len(In!With(inc, q, x)) >= len}
           k == CHOOSE x \in enough : \A y \in enough : x <= y
           t == In!TryGet(len, take, inc, q)
<1>0. \A x \in 0..Len(q) : Len(In!With(inc, q, x)) \in Nat
  BY WithKeeps
<1>6. In!With(inc, q, 0) = inc
  <2>1. SubSeq(q, 1, 0) = <<>>
    OBVIOUS
  <2>2. FlattenSeq(<<>>) = <<>>
    BY DEF FlattenSeq
  <2>3. In!With(inc, q, 0) = inc \o <<>>
    BY <2>1, <2>2, SameFlatten DEF In!With
  <2> QED
    BY <2>3
<1>1. CASE Len(inc) = len
  BY <1>1 DEF In!TryGet
<1>2. CASE Len(inc) > len
  <2>1. t = In!Result(inc, len, take, q) /\ Len(inc) # len
    BY <1>2 DEF In!TryGet
  <2>2. SubSeq(q, 0 + 1, Len(q)) = q /\ 0 \in 0..Len(q)
    OBVIOUS
  <2>3. In!With(inc, q, 0) = inc
    BY <1>6
  <2>4. len <= Len(inc)
    BY <1>2
  <2> HIDE DEF t
  <2> QED
    BY <2>1, <2>2, <2>3, <2>4 DEF t
<1>3. CASE Len(inc) < len /\ enough # {}
  <2>1. k \in enough
    <3>1. enough \in SUBSET Nat
      OBVIOUS
    <3> HIDE DEF enough
    <3>2. \E x \in enough : \A y \in enough : x <= y
      BY <1>3, <3>1, MinLeast
    <3> QED
      BY <3>2
  <2>2. t = In!Result(In!With(inc, q, k), len, take, SubSeq(q, k + 1, Len(q)))
    BY <1>3 DEF In!TryGet
  <2> HIDE DEF k, t
  <2>3. k \in 0..Len(q) /\ len <= Len(In!With(inc, q, k)) /\ Len(inc) # len
    BY <1>0, <1>3, <2>1
  <2> QED
    BY <2>2, <2>3 DEF t
<1>4. CASE Len(inc) < len /\ enough = {}
  <2>1. t = [res |-> <<>>, inc |-> In!With(inc, q, Len(q)), q |-> <<>>]
    BY <1>4 DEF In!TryGet
  <2>2. Len(In!With(inc, q, Len(q))) < len
    <3>1. CASE Len(q) = 0
      BY <1>4, <1>6, <3>1
    <3>2. CASE Len(q) # 0
      <4>1. Len(q) \in 1..Len(q) /\ Len(q) \in 0..Len(q)
        BY <3>2
      <4> QED
        BY <1>0, <1>4, <4>1
    <3> QED
      BY <3>1, <3>2
  <2> HIDE DEF t
  <2> QED
    BY <2>1, <2>2 DEF t
<1>5. Len(inc) \in Nat
  OBVIOUS
<1> QED
  BY <1>1, <1>2, <1>3, <1>4, <1>5

\* What tryGet leaves in the buffer and in the queue are bytes of the stream.
LEMMA TryGetType ==
  ASSUME NEW inc \in Seq(Stream), NEW q \in Seq(Chunks), NEW len \in Nat, NEW take \in BOOLEAN
  PROVE  LET t == In!TryGet(len, take, inc, q)
         IN t.res \in Seq(Stream) /\ t.inc \in Seq(Stream) /\ t.q \in Seq(Chunks)
<1> DEFINE t == In!TryGet(len, take, inc, q)
           good(u) == u.res \in Seq(Stream) /\ u.inc \in Seq(Stream) /\ u.q \in Seq(Chunks)
<1>0. <<>> \in Seq(Stream) /\ <<>> \in Seq(Chunks)
  OBVIOUS
<1>1. ASSUME t = [res |-> inc, inc |-> <<>>, q |-> q] PROVE good(t)
  <2> HIDE DEF t
  <2> QED
    BY <1>0, <1>1
<1>2. ASSUME NEW k \in 0..Len(q), len <= Len(In!With(inc, q, k)),
             t = In!Result(In!With(inc, q, k), len, take, SubSeq(q, k + 1, Len(q)))
      PROVE  good(t)
  <2> DEFINE all == In!With(inc, q, k)
             rest == SubSeq(q, k + 1, Len(q))
  <2>1. all \in Seq(Stream) /\ rest \in Seq(Chunks)
    BY WithKeeps
  <2>2. t = In!Result(all, len, take, rest) /\ len <= Len(all)
    BY <1>2
  <2> HIDE DEF t, all, rest
  <2>3. SubSeq(all, 1, len) \in Seq(Stream) /\ SubSeq(all, len + 1, Len(all)) \in Seq(Stream)
    BY <2>1, <2>2
  <2>4. /\ t.res = SubSeq(all, 1, len) /\ t.q = rest
        /\ t.inc = IF take THEN SubSeq(all, len + 1, Len(all)) ELSE all
    BY <2>2 DEF In!Result
  <2> QED
    BY <2>1, <2>3, <2>4
<1>3. ASSUME t = [res |-> <<>>, inc |-> In!With(inc, q, Len(q)), q |-> <<>>] PROVE good(t)
  <2>1. In!With(inc, q, Len(q)) \in Seq(Stream)
    <3>1. Len(q) \in 0..Len(q)
      OBVIOUS
    <3> QED
      BY <3>1, WithKeeps
  <2> HIDE DEF t
  <2> QED
    BY <1>0, <1>3, <2>1
<1>4. good(t)
  <2> HIDE DEF good
  <2> QED
    BY <1>1, <1>2, <1>3, TryGetCases
<1> QED
  BY <1>4

\* The answer t to a call for len bytes, of the run from a to b that is there.
Cuts(t, len, take, a, b) ==
  /\ b - a < len => t.res = <<>> /\ t.inc \o FlattenSeq(t.q) = Run(a, b)
  /\ b - a >= len => /\ t.res = Run(a, a + len)
                     /\ t.inc \o FlattenSeq(t.q) = Run(IF take THEN a + len ELSE a, b)

\* tryGet cuts exactly len bytes off the front of what is buffered and queued, or
\* none if there are fewer, and loses none (TcpConnection::tryGet, IOBuffer).
LEMMA TryGetCuts ==
  ASSUME NEW inc \in Seq(Stream), NEW q \in Seq(Chunks), NEW len \in Nat \ {0}, NEW take \in BOOLEAN,
         NEW a \in Nat, NEW b \in Nat, a <= b, inc \o FlattenSeq(q) = Run(a, b),
         take \/ Len(inc) # len
  PROVE  Cuts(In!TryGet(len, take, inc, q), len, take, a, b)
<1> DEFINE t == In!TryGet(len, take, inc, q)
           good(u) == /\ b - a < len => u.res = <<>> /\ u.inc \o FlattenSeq(u.q) = Run(a, b)
                      /\ b - a >= len => /\ u.res = Run(a, a + len)
                                         /\ u.inc \o FlattenSeq(u.q) = Run(IF take THEN a + len ELSE a, b)
<1>0. Seq(Stream) \subseteq Seq(Nat)
  <2>1. Stream \subseteq Nat
    BY DEF Stream
  <2> QED
    BY <2>1, SeqMonotonic
<1>c. \A u, v \in Seq(Nat) : u \o v = Run(a, b) =>
         /\ Len(u) + Len(v) = b - a
         /\ u = Run(a, a + Len(u)) /\ v = Run(a + Len(u), b)
  BY RunCut
<1>1. ASSUME NEW k \in 0..Len(q)
      PROVE  LET all == In!With(inc, q, k)
                 rest == FlattenSeq(SubSeq(q, k + 1, Len(q)))
             IN /\ all \in Seq(Stream) /\ rest \in Seq(Stream)
                /\ all \o rest = Run(a, b)
                /\ Len(all) + Len(rest) = b - a
                /\ all = Run(a, a + Len(all)) /\ rest = Run(a + Len(all), b)
  <2> DEFINE all == In!With(inc, q, k)
             rest == FlattenSeq(SubSeq(q, k + 1, Len(q)))
  <2>1. all \in Seq(Stream) /\ rest \in Seq(Stream) /\ all \o rest = Run(a, b)
    BY WithKeeps
  <2> HIDE DEF all, rest
  <2>2. all \in Seq(Nat) /\ rest \in Seq(Nat)
    BY <1>0, <2>1
  <2>3. /\ Len(all) + Len(rest) = b - a
        /\ all = Run(a, a + Len(all)) /\ rest = Run(a + Len(all), b)
    BY <1>c, <2>1, <2>2
  <2> QED
    BY <2>1, <2>3 DEF all, rest
<1>2. ASSUME Len(inc) = len, t = [res |-> inc, inc |-> <<>>, q |-> q] PROVE good(t)
  <2> DEFINE rest == FlattenSeq(q)
  <2>0. take
    BY <1>2
  <2>1. rest \in Seq(Stream)
    <3>1. q \in Seq(Seq(Stream))
      BY SeqMonotonic DEF Chunks
    <3> QED
      BY <3>1, FlattenType
  <2>2. inc \in Seq(Nat) /\ rest \in Seq(Nat) /\ inc \o rest = Run(a, b)
    BY <1>0, <2>1
  <2>3. t.res = inc /\ t.inc = <<>> /\ t.q = q
    <3> HIDE DEF t
    <3> QED
      BY <1>2
  <2> HIDE DEF t, rest
  <2>4. Len(inc) + Len(rest) = b - a /\ inc = Run(a, a + Len(inc)) /\ rest = Run(a + Len(inc), b)
    BY <1>c, <2>2
  <2>5. Len(rest) \in Nat
    BY <2>1
  <2>6. b - a >= len
    BY <1>2, <2>4, <2>5
  <2>7. <<>> \o rest = rest
    BY <2>1
  <2>8. t.inc \o FlattenSeq(t.q) = rest
    BY <2>3, <2>7 DEF rest
  <2>9. inc = Run(a, a + len) /\ rest = Run(a + len, b)
    BY <1>2, <2>4
  <2> QED
    BY <2>0, <2>3, <2>6, <2>8, <2>9
<1>3. ASSUME NEW k \in 0..Len(q), Len(inc) # len, len <= Len(In!With(inc, q, k)),
             t = In!Result(In!With(inc, q, k), len, take, SubSeq(q, k + 1, Len(q)))
      PROVE  good(t)
  <2> DEFINE all == In!With(inc, q, k)
             qr == SubSeq(q, k + 1, Len(q))
             rest == FlattenSeq(qr)
             n == Len(all)
  <2>1. /\ all \in Seq(Stream) /\ rest \in Seq(Stream) /\ all \o rest = Run(a, b)
        /\ n + Len(rest) = b - a /\ all = Run(a, a + n) /\ rest = Run(a + n, b)
    BY <1>1
  <2>2. t = In!Result(all, len, take, qr) /\ len <= n
    BY <1>3
  <2>3. n \in Nat /\ Len(rest) \in Nat
    BY <2>1
  <2> HIDE DEF t, all, qr, n
  <2>4. /\ t.res = SubSeq(all, 1, len) /\ t.q = qr
        /\ t.inc = IF take THEN SubSeq(all, len + 1, n) ELSE all
    BY <2>2 DEF In!Result, n
  <2> HIDE DEF rest
  <2>5. b - a >= len /\ a + n <= b /\ a + n \in Nat /\ (a + n) - a = n /\ a + len \in Nat /\ a + len <= a + n
    BY <2>1, <2>2, <2>3
  <2>6. SubSeq(all, 1, len) = Run(a, a + len) /\ SubSeq(all, len + 1, n) = Run(a + len, a + n)
    <3> DEFINE c == a + n
    <3>1. c \in Nat /\ a <= c /\ len <= c - a /\ c - a = n
      BY <2>2, <2>3
    <3> HIDE DEF c
    <3>2. /\ SubSeq(Run(a, c), 1, len) = Run(a, a + len)
          /\ SubSeq(Run(a, c), len + 1, c - a) = Run(a + len, c)
      BY <3>1, RunSub
    <3>3. all = Run(a, c)
      BY <2>1 DEF c
    <3>4. SubSeq(Run(a, c), len + 1, n) = Run(a + len, c)
      BY <3>1, <3>2
    <3> QED
      BY <3>2, <3>3, <3>4 DEF c
  <2>7. Run(a + len, a + n) \o Run(a + n, b) = Run(a + len, b)
    <3> DEFINE c == a + n
               d == a + len
    <3>1. c \in Nat /\ d \in Nat /\ d <= c /\ c <= b
      BY <2>5
    <3> HIDE DEF c, d
    <3>2. Run(d, c) \o Run(c, b) = Run(d, b)
      BY <3>1, RunJoin
    <3> QED
      BY <3>2 DEF c, d
  <2>8. t.inc \o rest = Run(IF take THEN a + len ELSE a, b)
    BY <2>1, <2>4, <2>6, <2>7
  <2>9. t.inc \o FlattenSeq(t.q) = Run(IF take THEN a + len ELSE a, b)
    BY <2>4, <2>8 DEF rest
  <2>10. t.res = Run(a, a + len) /\ ~(b - a < len)
    BY <2>4, <2>5, <2>6
  <2> QED
    BY <2>9, <2>10
<1>4. ASSUME Len(In!With(inc, q, Len(q))) < len,
             t = [res |-> <<>>, inc |-> In!With(inc, q, Len(q)), q |-> <<>>]
      PROVE  good(t)
  <2> DEFINE all == In!With(inc, q, Len(q))
             rest == FlattenSeq(SubSeq(q, Len(q) + 1, Len(q)))
  <2>1. all \in Seq(Stream) /\ all \o rest = Run(a, b) /\ Len(all) + Len(rest) = b - a
    <3>1. Len(q) \in 0..Len(q)
      OBVIOUS
    <3> QED
      BY <1>1, <3>1
  <2>2. FlattenSeq(<<>>) = <<>> /\ SubSeq(q, Len(q) + 1, Len(q)) = <<>>
    <3>1. FlattenSeq(<<>>) = <<>>
      BY DEF FlattenSeq
    <3>2. SubSeq(q, Len(q) + 1, Len(q)) = <<>>
      OBVIOUS
    <3> QED
      BY <3>1, <3>2
  <2>3. rest = <<>>
    BY <2>2
  <2> HIDE DEF t, all, rest
  <2>4. b - a < len
    BY <1>4, <2>1, <2>3 DEF all
  <2>5. t.res = <<>> /\ t.inc = all /\ t.q = <<>>
    BY <1>4 DEF all
  <2> QED
    BY <2>1, <2>2, <2>3, <2>4, <2>5
<1>5. good(t)
  <2> HIDE DEF good
  <2> QED
    BY <1>2, <1>3, <1>4, TryGetCases
<1> QED
  BY <1>5 DEF Cuts

\* What is handled, buffered and queued when p bytes were read.
Cut(p, inc, q, hd) ==
  /\ Len(hd) <= Len(Lengths)
  /\ \A k \in DOMAIN hd : hd[k] = In!Message(k)
  /\ FlattenSeq(hd) = Run(0, End(Len(hd)))
  /\ End(Len(hd)) <= p
  /\ inc \o FlattenSeq(q) = Run(End(Len(hd)), p)

\* A message of the stream, and its length in front of it, as runs of bytes.
LEMMA MessageRun ==
  ASSUME NEW h \in Nat, h < Len(Lengths)
  PROVE  /\ In!Message(h + 1) = Run(End(h), End(h + 1))
         /\ In!Bytes(In!FirstByte(h + 1), In!FirstByte(h + 1) + Prefix - 1) = Run(End(h), End(h) + Prefix)
         /\ End(h) \in Nat /\ End(h + 1) \in Nat /\ End(h + 1) = End(h) + Lengths[h + 1]
         /\ Lengths[h + 1] \in Nat /\ Lengths[h + 1] >= Prefix /\ End(h + 1) <= In!StreamLen
<1> DEFINE m == h + 1
<1>1. Lengths \in Seq(Nat) /\ Len(Lengths) \in Nat /\ Prefix \in Nat \ {0}
  BY FramingAssumption
<1>2. m \in DOMAIN Lengths /\ m \in 0..Len(Lengths) /\ h \in 0..Len(Lengths) /\ m - 1 = h
  BY <1>1
<1>3. End(m) = End(h) + Lengths[m] /\ Lengths[m] \in Nat /\ Lengths[m] >= Prefix
  BY <1>1, <1>2, FramingAssumption, LastByteNext DEF End
<1>4. End(h) \in Nat /\ End(m) \in Nat
  BY <1>2, LastByteGrows
<1>5. End(m) <= In!StreamLen
  <2>1. In!StreamLen = End(Len(Lengths)) /\ Len(Lengths) \in 0..Len(Lengths)
    BY <1>1 DEF In!StreamLen, End
  <2>2. CASE m = Len(Lengths)
    BY <1>4, <2>1, <2>2
  <2>3. CASE m < Len(Lengths)
    <3>1. End(m) + Prefix <= End(Len(Lengths)) /\ End(Len(Lengths)) \in Nat
      BY <1>2, <2>1, <2>3, LastByteGrows
    <3> QED
      BY <1>1, <1>4, <2>1, <3>1
  <2> QED
    BY <1>1, <1>2, <2>2, <2>3
<1>6. In!FirstByte(m) = End(h) + 1
  BY <1>2 DEF In!FirstByte, End
<1>7. In!Message(m) = In!Bytes(End(h) + 1, End(m))
  BY <1>6 DEF In!Message, End
<1>8. In!FirstByte(m) + Prefix - 1 = End(h) + Prefix
  <2> HIDE DEF m
  <2> QED
    BY <1>1, <1>4, <1>6
<1>9. In!Bytes(In!FirstByte(m), In!FirstByte(m) + Prefix - 1) = In!Bytes(End(h) + 1, End(h) + Prefix)
  BY <1>6, <1>8
<1> HIDE DEF m
<1>10. In!Bytes(End(h) + 1, End(m)) = Run(End(h), End(m))
  BY <1>4, RunIsBytes
<1>11. In!Bytes(End(h) + 1, End(h) + Prefix) = Run(End(h), End(h) + Prefix)
  BY <1>1, <1>4, RunIsBytes
<1> QED
  BY <1>3, <1>4, <1>5, <1>7, <1>9, <1>10, <1>11 DEF m

\* The bytes in front of a message hold its length and no other's (messageFunc).
LEMMA PrefixTells ==
  ASSUME NEW h \in Nat, h < Len(Lengths)
  PROVE  In!LengthsIn(Run(End(h), End(h) + Prefix)) = {Lengths[h + 1]}
<1> DEFINE r == Run(End(h), End(h) + Prefix)
           ms == {m \in DOMAIN Lengths : r = In!Bytes(In!FirstByte(m), In!FirstByte(m) + Prefix - 1)}
<1>1. Lengths \in Seq(Nat) /\ Len(Lengths) \in Nat /\ Prefix \in Nat \ {0}
  BY FramingAssumption
<1>2. h + 1 \in ms
  BY <1>1, MessageRun
<1>3. ASSUME NEW m \in ms PROVE m = h + 1
  <2> DEFINE g == m - 1
  <2>1. g \in Nat /\ g < Len(Lengths) /\ g + 1 = m
    BY <1>1
  <2>2. End(g) \in Nat /\ End(h) \in Nat
    BY <2>1, MessageRun
  <2>3. Run(End(g), End(g) + Prefix) = Run(End(h), End(h) + Prefix)
    BY <2>1, MessageRun
  <2>4. \A x \in Nat : Run(x, x + Prefix)[1] = x + 1
    BY <1>1 DEF Run
  <2> HIDE DEF g
  <2>5. End(g) = End(h)
    <3>1. End(g) + 1 = End(h) + 1
      BY <2>2, <2>3, <2>4
    <3> QED
      BY <2>2, <3>1
  <2>6. ~(g < h) /\ ~(h < g)
    <3>1. g \in 0..Len(Lengths) /\ h \in 0..Len(Lengths)
      BY <1>1, <2>1
    <3>2. ~(End(g) + Prefix <= End(h)) /\ ~(End(h) + Prefix <= End(g))
      BY <1>1, <2>2, <2>5
    <3> QED
      BY <3>1, <3>2, LastByteGrows
  <2> QED
    BY <2>1, <2>6
<1>4. ms = {h + 1}
  BY <1>2, <1>3
<1>5. In!LengthsIn(r) = IF ms = {} THEN WrongLens ELSE {Lengths[m] : m \in ms}
  BY DEF In!LengthsIn
<1> HIDE DEF ms, r
<1>6. In!LengthsIn(r) = {Lengths[h + 1]}
  BY <1>4, <1>5
<1> QED
  BY <1>6 DEF r

\* A complete message is there, or its length is, or not even that.
LEMMA FirstGet ==
  ASSUME NEW p \in 0..In!StreamLen, NEW inc \in Seq(Stream), NEW q \in Seq(Chunks),
         NEW hd \in Seq(Seq(Stream)), Cut(p, inc, q, hd), Len(inc) # Prefix
  PROVE  LET t == In!TryGet(Prefix, FALSE, inc, q)
             h == Len(hd)
         IN /\ t.inc \in Seq(Stream) /\ t.q \in Seq(Chunks)
            /\ t.inc \o FlattenSeq(t.q) = Run(End(h), p)
            /\ \/ t.res = <<>> /\ (h = Len(Lengths) \/ End(h + 1) > p)
               \/ t.res # <<>> /\ h < Len(Lengths) /\ In!LengthsIn(t.res) = {Lengths[h + 1]}
<1> DEFINE t == In!TryGet(Prefix, FALSE, inc, q)
           h == Len(hd)
<1>1. Lengths \in Seq(Nat) /\ Len(Lengths) \in Nat /\ Prefix \in Nat \ {0}
  BY FramingAssumption
<1>2. h \in Nat /\ h <= Len(Lengths) /\ End(h) <= p /\ inc \o FlattenSeq(q) = Run(End(h), p)
  BY DEF Cut
<1>3. End(h) \in Nat /\ p \in Nat /\ In!StreamLen \in Nat /\ p <= In!StreamLen /\ In!StreamLen = End(Len(Lengths))
  <2>1. h \in 0..Len(Lengths) /\ Len(Lengths) \in 0..Len(Lengths)
    BY <1>1, <1>2
  <2>2. End(h) \in Nat /\ End(Len(Lengths)) \in Nat
    BY <2>1, LastByteGrows
  <2>3. In!StreamLen = End(Len(Lengths))
    BY DEF In!StreamLen, End
  <2> QED
    BY <2>2, <2>3
<1>4. /\ p - End(h) < Prefix => t.res = <<>> /\ t.inc \o FlattenSeq(t.q) = Run(End(h), p)
      /\ p - End(h) >= Prefix => t.res = Run(End(h), End(h) + Prefix) /\ t.inc \o FlattenSeq(t.q) = Run(End(h), p)
  <2> DEFINE a == End(h)
  <2>1. a \in Nat /\ p \in Nat /\ a <= p /\ inc \o FlattenSeq(q) = Run(a, p)
    BY <1>2, <1>3
  <2> HIDE DEF a
  <2>2. Cuts(t, Prefix, FALSE, a, p)
    <3>1. FALSE \/ Len(inc) # Prefix
      OBVIOUS
    <3> QED
      BY <1>1, <2>1, <3>1, TryGetCuts
  <2> HIDE DEF t
  <2> QED
    BY <2>2 DEF a, Cuts
<1>5. t.inc \in Seq(Stream) /\ t.q \in Seq(Chunks)
  BY <1>1, TryGetType
<1> HIDE DEF t
<1>6. CASE p - End(h) < Prefix
  <2>1. ASSUME h < Len(Lengths) PROVE End(h + 1) > p
    <3>1. End(h + 1) = End(h) + Lengths[h + 1] /\ Lengths[h + 1] \in Nat /\ Lengths[h + 1] >= Prefix
      BY <1>2, <2>1, MessageRun
    <3> QED
      BY <1>1, <1>3, <1>6, <3>1
  <2>2. h = Len(Lengths) \/ h < Len(Lengths)
    BY <1>1, <1>2
  <2> QED
    BY <1>4, <1>5, <1>6, <2>1, <2>2 DEF t
<1>7. CASE p - End(h) >= Prefix
  <2>1. h < Len(Lengths)
    <3>1. h # Len(Lengths)
      BY <1>1, <1>3, <1>7
    <3> QED
      BY <1>1, <1>2, <3>1
  <2>2. t.res = Run(End(h), End(h) + Prefix)
    BY <1>4, <1>7
  <2>3. t.res # <<>>
    <3>1. Len(Run(End(h), End(h) + Prefix)) = Prefix
      BY <1>1, <1>3 DEF Run
    <3> QED
      BY <1>1, <2>2, <3>1
  <2>4. In!LengthsIn(t.res) = {Lengths[h + 1]}
    BY <1>2, <2>1, <2>2, PrefixTells
  <2> QED
    BY <1>4, <1>5, <1>7, <2>1, <2>3, <2>4 DEF t
<1>8. p - End(h) < Prefix \/ p - End(h) >= Prefix
  BY <1>1, <1>3
<1> QED
  BY <1>6, <1>7, <1>8

\* With the length known, the message is cut off if all of it is there, and
\* every byte stays where it was otherwise (the second tryGet of messageFunc).
LEMMA SecondGet ==
  ASSUME NEW p \in 0..In!StreamLen, NEW inc \in Seq(Stream), NEW q \in Seq(Chunks),
         NEW hd \in Seq(Seq(Stream)), NEW old, NEW oldq, Cut(p, old, oldq, hd),
         Len(hd) < Len(Lengths), inc \o FlattenSeq(q) = Run(End(Len(hd)), p)
  PROVE  LET t == In!TryGet(Lengths[Len(hd) + 1], TRUE, inc, q)
         IN /\ t.inc \in Seq(Stream) /\ t.q \in Seq(Chunks) /\ t.res \in Seq(Stream)
            /\ \/ t.res = <<>> /\ End(Len(hd) + 1) > p /\ Cut(p, t.inc, t.q, hd)
               \/ t.res # <<>> /\ Cut(p, t.inc, t.q, Append(hd, t.res))
<1> DEFINE h == Len(hd)
           m == h + 1
           a == End(h)
           c == End(m)
           len == Lengths[m]
           t == In!TryGet(len, TRUE, inc, q)
<1>1. h \in Nat /\ h < Len(Lengths) /\ m = h + 1
  OBVIOUS
<1>2. /\ In!Message(m) = Run(a, c) /\ a \in Nat /\ c \in Nat /\ c = a + len
      /\ len \in Nat /\ len >= Prefix /\ c <= In!StreamLen
  BY <1>1, MessageRun
<1>3. Prefix \in Nat \ {0} /\ Len(Lengths) \in Nat
  BY FramingAssumption
<1>4. len \in Nat \ {0}
  <2> HIDE DEF len
  <2> QED
    BY <1>2, <1>3
<1>5. a <= p /\ (\A k \in DOMAIN hd : hd[k] = In!Message(k)) /\ FlattenSeq(hd) = Run(0, a)
  BY DEF Cut
<1>6. inc \o FlattenSeq(q) = Run(a, p)
  OBVIOUS
<1>7. t.res \in Seq(Stream) /\ t.inc \in Seq(Stream) /\ t.q \in Seq(Chunks)
  BY <1>4, TryGetType
<1>8. p \in Nat
  BY <1>2
<1>m. h \in Nat /\ m \in Nat /\ m <= Len(Lengths) /\ Len(hd) = h
  BY <1>1, <1>3
<1> HIDE DEF a, c, len, t
<1>9. Cuts(t, len, TRUE, a, p)
  <2>1. TRUE \/ Len(inc) # len
    OBVIOUS
  <2>2. a \in Nat /\ a <= p
    BY <1>2, <1>5
  <2>3. Cuts(In!TryGet(len, TRUE, inc, q), len, TRUE, a, p)
    BY <1>4, <1>6, <1>8, <2>1, <2>2, TryGetCuts
  <2> QED
    BY <2>3 DEF t
<1>10. CASE p - a < len
  <2>1. t.res = <<>> /\ t.inc \o FlattenSeq(t.q) = Run(a, p)
    BY <1>9, <1>10 DEF Cuts
  <2>2. c > p
    BY <1>2, <1>8, <1>10
  <2>3. Cut(p, t.inc, t.q, hd)
    BY <1>1, <1>3, <1>5, <2>1 DEF Cut, a
  <2> QED
    BY <1>7, <2>1, <2>2, <2>3 DEF t, len, c
<1>11. CASE p - a >= len
  <2> DEFINE new == Append(hd, t.res)
  <2>1. t.res = Run(a, c) /\ t.inc \o FlattenSeq(t.q) = Run(c, p)
    BY <1>2, <1>9, <1>11 DEF Cuts
  <2>2. c <= p /\ a <= c
    BY <1>2, <1>8, <1>11
  <2>3. Len(new) = m /\ new[m] = In!Message(m) /\ DOMAIN new = 1..m
    BY <1>2, <2>1
  <2>4. ASSUME NEW k \in 1..m PROVE new[k] = In!Message(k)
    <3>1. CASE k = m
      BY <2>3, <3>1
    <3>2. CASE k # m
      <4>1. k \in DOMAIN hd /\ k \in 1..Len(hd)
        BY <1>1, <3>2
      <4>2. new[k] = hd[k]
        BY <4>1
      <4> QED
        BY <1>5, <4>1, <4>2
    <3> QED
      BY <3>1, <3>2
  <2>5. FlattenSeq(new) = FlattenSeq(hd) \o t.res
    BY <1>7, FlattenAppend
  <2>6. Run(0, a) \o Run(a, c) = Run(0, c)
    <3>1. 0 \in Nat /\ 0 <= a
      BY <1>2
    <3> QED
      BY <1>2, <2>2, <3>1, RunJoin
  <2>7. FlattenSeq(new) = Run(0, c)
    BY <1>5, <2>1, <2>5, <2>6
  <2>8. t.res # <<>>
    <3>1. Len(t.res) = c - a
      BY <1>2, <2>1, <2>2, RunFacts
    <3> QED
      BY <1>2, <1>4, <3>1
  <2> HIDE DEF new, m
  <2>9. Cut(p, t.inc, t.q, new)
    <3>1. End(Len(new)) = c
      BY <2>3 DEF c
    <3> QED
      BY <1>m, <2>1, <2>2, <2>3, <2>4, <2>7, <3>1 DEF Cut
  <2> QED
    BY <1>7, <2>8, <2>9 DEF t, len, c, new, m
<1>12. p - a < len \/ p - a >= len
  BY <1>2, <1>8
<1> QED
  BY <1>10, <1>11, <1>12

\* What messageFunc does with the queue q when p bytes were read.
LEMMA MessageFuncCuts ==
  ASSUME NEW p \in 0..In!StreamLen, incomplete \in Seq(Stream), NEW q \in Seq(Chunks),
         handled \in Seq(Seq(Stream)), Cut(p, incomplete, q, handled), Len(incomplete) # Prefix,
         In!MessageFunc(q)
  PROVE  /\ Cut(p, incomplete', input', handled')
         /\ \/ Len(handled') = Len(handled) + 1
            \/ Len(handled) = Len(Lengths)
            \/ End(Len(handled) + 1) > p
<1> DEFINE h == Len(handled)
           t1 == In!TryGet(Prefix, FALSE, incomplete, q)
           t2 == In!TryGet(Lengths[h + 1], TRUE, t1.inc, t1.q)
<1>1. /\ t1.inc \in Seq(Stream) /\ t1.q \in Seq(Chunks)
      /\ t1.inc \o FlattenSeq(t1.q) = Run(End(h), p)
  BY FirstGet
<1>2. \/ t1.res = <<>> /\ (h = Len(Lengths) \/ End(h + 1) > p)
      \/ t1.res # <<>> /\ h < Len(Lengths) /\ In!LengthsIn(t1.res) = {Lengths[h + 1]}
  BY FirstGet
<1>3. CASE t1.res = <<>>
  <2>1. incomplete' = t1.inc /\ input' = t1.q /\ handled' = handled
    BY <1>3 DEF In!MessageFunc
  <2>2. h = Len(Lengths) \/ End(h + 1) > p
    BY <1>2, <1>3
  <2> HIDE DEF t1
  <2>3. Cut(p, t1.inc, t1.q, handled)
    BY <1>1 DEF Cut
  <2> QED
    BY <2>1, <2>2, <2>3
<1>4. CASE t1.res # <<>>
  <2>1. h < Len(Lengths) /\ In!LengthsIn(t1.res) = {Lengths[h + 1]}
    BY <1>2, <1>4
  <2>2. h \in Nat
    OBVIOUS
  <2>3. Lengths[h + 1] \in Nat /\ ~(Lengths[h + 1] < Prefix)
    <3>1. Lengths[h + 1] \in Nat /\ Lengths[h + 1] >= Prefix
      BY <2>1, <2>2, MessageRun
    <3> QED
      BY <3>1, FramingAssumption
  <2>4. /\ incomplete' = t2.inc /\ input' = t2.q
        /\ handled' = IF t2.res = <<>> THEN handled ELSE Append(handled, t2.res)
    <3>1. \E len \in In!LengthsIn(t1.res) :
            LET t == In!TryGet(len, TRUE, t1.inc, t1.q)
            IN IF len < Prefix THEN incomplete' = t1.inc /\ input' = t1.q /\ UNCHANGED handled
               ELSE /\ incomplete' = t.inc /\ input' = t.q
                    /\ handled' = IF t.res = <<>> THEN handled ELSE Append(handled, t.res)
      BY <1>4 DEF In!MessageFunc
    <3> HIDE DEF t1
    <3> QED
      BY <2>1, <2>3, <3>1
  <2>5. /\ t2.inc \in Seq(Stream) /\ t2.q \in Seq(Chunks) /\ t2.res \in Seq(Stream)
        /\ \/ t2.res = <<>> /\ End(h + 1) > p /\ Cut(p, t2.inc, t2.q, handled)
           \/ t2.res # <<>> /\ Cut(p, t2.inc, t2.q, Append(handled, t2.res))
    <3> HIDE DEF t1
    <3> QED
      BY <1>1, <2>1, SecondGet
  <2> HIDE DEF t2
  <2>6. CASE t2.res = <<>>
    BY <2>4, <2>5, <2>6
  <2>7. CASE t2.res # <<>>
    <3>1. handled' = Append(handled, t2.res) /\ Cut(p, incomplete', input', handled')
      BY <2>4, <2>5, <2>7
    <3>2. Len(handled') = h + 1
      BY <3>1
    <3> QED
      BY <3>1, <3>2
  <2> QED
    BY <2>6, <2>7
<1> QED
  BY <1>3, <1>4

\* What a connection has read is in its places, and nothing was cut wrongly
\* unless messageFunc found a bare length.
FrameInv ==
  /\ pos \in 0..In!StreamLen
  /\ input \in Seq(Chunks)
  /\ incomplete \in Seq(Stream)
  /\ funcSet \in BOOLEAN /\ bare \in BOOLEAN
  /\ handled \in Seq(Seq(Stream))
  /\ ~bare => Cut(pos, incomplete, input, handled)

\* Whatever length the bytes are taken for, the buffers hold bytes of the stream.
LEMMA MessageFuncTypes ==
  ASSUME incomplete \in Seq(Stream), NEW q \in Seq(Chunks), handled \in Seq(Seq(Stream)),
         In!MessageFunc(q)
  PROVE  incomplete' \in Seq(Stream) /\ input' \in Seq(Chunks) /\ handled' \in Seq(Seq(Stream))
<1> DEFINE t1 == In!TryGet(Prefix, FALSE, incomplete, q)
<1>0. Prefix \in Nat /\ FALSE \in BOOLEAN /\ TRUE \in BOOLEAN
  BY FramingAssumption
<1>1. t1.inc \in Seq(Stream) /\ t1.q \in Seq(Chunks)
  BY <1>0, TryGetType
<1>2. CASE t1.res = <<>>
  <2>1. incomplete' = t1.inc /\ input' = t1.q /\ handled' = handled
    BY <1>2 DEF In!MessageFunc
  <2> HIDE DEF t1
  <2> QED
    BY <1>1, <2>1
<1>3. CASE t1.res # <<>>
  <2>1. PICK len \in In!LengthsIn(t1.res) :
          LET t == In!TryGet(len, TRUE, t1.inc, t1.q)
          IN IF len < Prefix THEN incomplete' = t1.inc /\ input' = t1.q /\ UNCHANGED handled
             ELSE /\ incomplete' = t.inc /\ input' = t.q
                  /\ handled' = IF t.res = <<>> THEN handled ELSE Append(handled, t.res)
    BY <1>3 DEF In!MessageFunc
  <2>2. len \in Nat
    <3> HIDE DEF t1
    <3>1. WrongLens \subseteq Nat /\ \A m \in DOMAIN Lengths : Lengths[m] \in Nat
      BY FramingAssumption
    <3> QED
      BY <2>1, <3>1 DEF In!LengthsIn
  <2> HIDE DEF t1
  <2> DEFINE t == In!TryGet(len, TRUE, t1.inc, t1.q)
  <2>3. t.res \in Seq(Stream) /\ t.inc \in Seq(Stream) /\ t.q \in Seq(Chunks)
    BY <1>0, <1>1, <2>2, TryGetType
  <2>4. \/ incomplete' = t1.inc /\ input' = t1.q /\ handled' = handled
        \/ incomplete' = t.inc /\ input' = t.q /\ (handled' = handled \/ handled' = Append(handled, t.res))
    BY <2>1
  <2> HIDE DEF t
  <2>5. Append(handled, t.res) \in Seq(Seq(Stream))
    BY <2>3
  <2> QED
    BY <1>1, <2>3, <2>4, <2>5
<1> QED
  BY <1>2, <1>3

\* The stream ends with the last message.
LEMMA StreamIsLast == In!StreamLen \in Nat /\ In!StreamLen = End(Len(Lengths))
<1>1. Len(Lengths) \in 0..Len(Lengths)
  BY FramingAssumption
<1>2. End(Len(Lengths)) \in Nat
  BY <1>1, LastByteGrows
<1> QED
  BY <1>2 DEF In!StreamLen, End

\* The chunk that a read takes goes behind what is queued (IOBuffer::read).
LEMMA ChunkQueued ==
  ASSUME FrameInv, NEW n \in 1..MaxRead, pos + n <= In!StreamLen
  PROVE  LET q == Append(input, In!Bytes(pos + 1, pos + n))
         IN /\ q \in Seq(Chunks) /\ pos + n \in 0..In!StreamLen
            /\ ~bare => Cut(pos + n, incomplete, q, handled)
<1> DEFINE c == In!Bytes(pos + 1, pos + n)
           q == Append(input, c)
           e == pos + n
<1>1. /\ pos \in Nat /\ n \in Nat /\ n >= 1 /\ e \in Nat /\ pos <= e /\ e <= In!StreamLen
      /\ In!StreamLen \in Nat
  BY StreamIsLast, FramingAssumption DEF FrameInv
<1>2. c = Run(pos, e)
  BY <1>1, RunIsBytes
<1>3. c \in Chunks
  <2>1. Run(pos, e) \in Seq(1..e) /\ Len(Run(pos, e)) = e - pos
    <3> HIDE DEF e
    <3> QED
      BY <1>1, RunFacts
  <2>2. 1..e \subseteq Stream
    BY <1>1 DEF Stream
  <2> HIDE DEF e
  <2>3. Run(pos, e) \in Seq(Stream)
    BY <2>1, <2>2, SeqMonotonic
  <2>4. Run(pos, e) # <<>>
    <3>1. e - pos # 0
      BY <1>1 DEF e
    <3> QED
      BY <2>1, <3>1
  <2> HIDE DEF c
  <2> QED
    BY <1>2, <2>3, <2>4 DEF Chunks
<1>4. q \in Seq(Chunks)
  <2> HIDE DEF c
  <2> QED
    BY <1>3 DEF FrameInv
<1>5. ASSUME ~bare PROVE Cut(e, incomplete, q, handled)
  <2> DEFINE a == End(Len(handled))
             f == FlattenSeq(input)
  <2>1. /\ Len(handled) <= Len(Lengths) /\ \A k \in DOMAIN handled : handled[k] = In!Message(k)
        /\ FlattenSeq(handled) = Run(0, a)
    BY <1>5 DEF FrameInv, Cut
  <2>2. a <= pos /\ incomplete \o f = Run(a, pos)
    BY <1>5 DEF FrameInv, Cut
  <2>3. a \in Nat
    <3>1. Len(handled) \in 0..Len(Lengths)
      BY <2>1, FramingAssumption DEF FrameInv
    <3> QED
      BY <3>1, LastByteGrows
  <2>4. input \in Seq(Seq(Stream)) /\ c \in Seq(Stream) /\ incomplete \in Seq(Stream)
    <3> HIDE DEF c
    <3>1. Chunks \subseteq Seq(Stream)
      BY DEF Chunks
    <3>2. input \in Seq(Chunks) /\ incomplete \in Seq(Stream)
      BY DEF FrameInv
    <3>3. input \in Seq(Seq(Stream))
      BY <3>1, <3>2, SeqMonotonic
    <3> QED
      BY <1>3, <3>1, <3>2, <3>3
  <2>5. f \in Seq(Stream)
    BY <2>4, FlattenType
  <2> HIDE DEF c
  <2>6. FlattenSeq(q) = f \o c
    BY <2>4, FlattenAppend
  <2> HIDE DEF f, a, q, e
  <2>7. incomplete \o (f \o c) = (incomplete \o f) \o c
    <3>1. \A x, y, z \in Seq(Stream) : (x \o y) \o z = x \o (y \o z)
      BY ConcatAssociative
    <3> QED
      BY <2>4, <2>5, <3>1
  <2>8. Run(a, pos) \o Run(pos, e) = Run(a, e)
    BY <1>1, <2>2, <2>3, RunJoin
  <2>9. incomplete \o FlattenSeq(q) = Run(a, e)
    BY <1>2, <2>2, <2>6, <2>7, <2>8
  <2>10. a <= e
    BY <1>1, <2>2, <2>3
  <2> QED
    BY <2>1, <2>9, <2>10 DEF Cut, a
<1>6. e \in 0..In!StreamLen
  BY <1>1
<1> QED
  BY <1>4, <1>5, <1>6

\* One read: the invariant holds again, and a complete message was handled.
LEMMA ReadKeeps ==
  ASSUME FrameInv, NEW n \in 1..MaxRead, In!ReadFunc(n)
  PROVE  /\ FrameInv'
         /\ funcSet /\ ~bare' => \/ Len(handled') = Len(handled) + 1
                                 \/ Len(handled) = Len(Lengths)
                                 \/ End(Len(handled) + 1) > pos'
<1> DEFINE q == Append(input, In!Bytes(pos + 1, pos + n))
<1>1. pos + n <= In!StreamLen /\ pos' = pos + n /\ funcSet' = funcSet
  BY DEF In!ReadFunc
<1>2. /\ q \in Seq(Chunks) /\ pos' \in 0..In!StreamLen
      /\ ~bare => Cut(pos', incomplete, q, handled)
  BY <1>1, ChunkQueued
<1>3. incomplete \in Seq(Stream) /\ handled \in Seq(Seq(Stream)) /\ funcSet \in BOOLEAN /\ bare \in BOOLEAN
  BY DEF FrameInv
<1>4. CASE ~funcSet
  <2>1. input' = q /\ incomplete' = incomplete /\ handled' = handled /\ bare' = bare
    BY <1>4 DEF In!ReadFunc
  <2> HIDE DEF q
  <2> QED
    BY <1>1, <1>2, <1>3, <1>4, <2>1 DEF FrameInv, Cut, End
<1>5. CASE funcSet
  <2>1. In!MessageFunc(q) /\ bare' = (bare \/ Len(incomplete) = Prefix)
    BY <1>5 DEF In!ReadFunc
  <2> HIDE DEF q
  <2>2. incomplete' \in Seq(Stream) /\ input' \in Seq(Chunks) /\ handled' \in Seq(Seq(Stream))
    BY <1>2, <1>3, <2>1, MessageFuncTypes
  <2>3. ASSUME ~bare'
        PROVE  /\ Cut(pos', incomplete', input', handled')
               /\ \/ Len(handled') = Len(handled) + 1
                  \/ Len(handled) = Len(Lengths)
                  \/ End(Len(handled) + 1) > pos'
    <3>1. ~bare /\ Len(incomplete) # Prefix
      BY <2>1, <2>3
    <3>2. PICK p \in 0..In!StreamLen : p = pos'
      BY <1>2
    <3>3. Cut(p, incomplete, q, handled)
      BY <1>2, <3>1, <3>2
    <3> QED
      BY <1>2, <1>3, <2>1, <3>1, <3>2, <3>3, MessageFuncCuts
  <2>4. FrameInv'
    <3>1. pos' \in 0..In!StreamLen /\ funcSet' \in BOOLEAN /\ bare' \in BOOLEAN
      BY <1>1, <1>2, <1>3, <2>1
    <3>2. ~bare' => Cut(pos', incomplete', input', handled')
      BY <2>3
    <3> QED
      BY <2>2, <3>1, <3>2 DEF FrameInv, Cut, End
  <2> QED
    BY <2>3, <2>4
<1> QED
  BY <1>3, <1>4, <1>5

\* A connection begins with nothing read.
LEMMA FrameInit == In!Init => FrameInv
<1>1. SUFFICES ASSUME In!Init PROVE FrameInv
  OBVIOUS
<1>2. /\ pos = 0 /\ input = <<>> /\ incomplete = <<>> /\ funcSet = FALSE /\ handled = <<>> /\ bare = FALSE
  BY <1>1 DEF In!Init
<1>3. pos \in 0..In!StreamLen
  BY <1>2, StreamIsLast
<1>4. input \in Seq(Chunks) /\ incomplete \in Seq(Stream) /\ handled \in Seq(Seq(Stream))
  BY <1>2
<1>5. End(0) = 0 /\ Len(handled) = 0 /\ DOMAIN handled = {} /\ 0 <= Len(Lengths)
  BY <1>2, LastByteNext, FramingAssumption DEF End
<1>6. FlattenSeq(<<>>) = <<>>
  BY DEF FlattenSeq
<1>7. Run(0, 0) = <<>> /\ <<>> \o <<>> = <<>>
  BY DEF Run
<1>8. Cut(pos, incomplete, input, handled)
  BY <1>2, <1>5, <1>6, <1>7 DEF Cut
<1> QED
  BY <1>2, <1>3, <1>4, <1>8 DEF FrameInv

\* Every step of the connection leaves the bytes it has read in their places.
LEMMA FrameStep == FrameInv /\ [Next]_vars => FrameInv'
<1> SUFFICES ASSUME FrameInv, [Next]_vars PROVE FrameInv'
  OBVIOUS
<1>1. ASSUME UNCHANGED inVars PROVE FrameInv'
  BY <1>1 DEF inVars, FrameInv, Cut, End
<1>2. CASE SetMessageFunc
  <2>1. UNCHANGED <<pos, input, incomplete, handled, bare>> /\ funcSet' = TRUE
    BY <1>2 DEF SetMessageFunc, In!SetMessageFunc
  <2> QED
    BY <2>1 DEF FrameInv, Cut, End
<1>3. ASSUME NEW n \in 1..MaxRead, Read(n) PROVE FrameInv'
  BY <1>3, ReadKeeps DEF Read
<1> QED
  BY <1>1, <1>2, <1>3 DEF Next, vars, Reply, LoopStep, PutStep

\* Bytes in their places are not lost, and messages cut from them are whole.
LEMMA FrameIsWhole == FrameInv => In!TypeOK /\ In!NoByteLost /\ In!WholeUnlessBare
<1> SUFFICES ASSUME FrameInv PROVE In!TypeOK /\ In!NoByteLost /\ In!WholeUnlessBare
  OBVIOUS
<1>1. In!TypeOK
  <2>1. \A i \in DOMAIN input : input[i] \in Seq(Stream) /\ input[i] # <<>>
    BY DEF FrameInv, Chunks
  <2>2. \A i \in DOMAIN handled : handled[i] \in Seq(Stream)
    BY DEF FrameInv
  <2> QED
    BY <2>1, <2>2 DEF In!TypeOK, FrameInv, Stream
<1>2. ASSUME ~bare PROVE FlattenSeq(handled) \o incomplete \o FlattenSeq(input) = In!Bytes(1, pos)
  <2> DEFINE a == End(Len(handled))
             f == FlattenSeq(input)
             g == FlattenSeq(handled)
  <2>1. g = Run(0, a) /\ a <= pos /\ incomplete \o f = Run(a, pos)
    BY <1>2 DEF FrameInv, Cut
  <2>2. a \in Nat /\ pos \in Nat
    <3>1. Len(handled) \in 0..Len(Lengths)
      BY <1>2, FramingAssumption DEF FrameInv, Cut
    <3> QED
      BY <3>1, LastByteGrows DEF FrameInv
  <2>3. f \in Seq(Stream) /\ g \in Seq(Stream) /\ incomplete \in Seq(Stream)
    <3>1. Chunks \subseteq Seq(Stream)
      BY DEF Chunks
    <3>2. input \in Seq(Seq(Stream)) /\ handled \in Seq(Seq(Stream)) /\ incomplete \in Seq(Stream)
      BY <3>1, SeqMonotonic DEF FrameInv
    <3> QED
      BY <3>2, FlattenType
  <2> HIDE DEF a, f, g
  <2>4. (g \o incomplete) \o f = g \o (incomplete \o f)
    BY <2>3, ConcatAssociative
  <2>5. Run(0, a) \o Run(a, pos) = Run(0, pos)
    <3>1. 0 \in Nat /\ 0 <= a
      BY <2>2
    <3> QED
      BY <2>1, <2>2, <3>1, RunJoin
  <2>6. In!Bytes(0 + 1, pos) = Run(0, pos) /\ 0 + 1 = 1
    BY <2>2, RunIsBytes
  <2> QED
    BY <2>1, <2>4, <2>5, <2>6 DEF f, g
<1>3. In!NoByteLost
  BY <1>2, SameFlatten DEF In!NoByteLost
<1>4. In!WholeUnlessBare
  <2>1. ASSUME ~bare, NEW k \in DOMAIN handled PROVE k <= Len(Lengths) /\ handled[k] = In!Message(k)
    <3>1. Len(handled) <= Len(Lengths) /\ handled[k] = In!Message(k)
      BY <2>1 DEF FrameInv, Cut
    <3>2. k \in Nat /\ k <= Len(handled) /\ Len(handled) \in Nat /\ Len(Lengths) \in Nat
      BY FramingAssumption DEF FrameInv
    <3> QED
      BY <3>1, <3>2
  <2> QED
    BY <2>1 DEF In!WholeUnlessBare, In!MessagesWhole
<1> QED
  BY <1>1, <1>3, <1>4

\* A read handles a message if all of it is there.
LEMMA FrameHandles ==
  ASSUME FrameInv, [Next]_vars
  PROVE  [pos' # pos /\ funcSet /\ ~bare' =>
            \/ Len(handled') = Len(handled) + 1
            \/ Len(handled) = Len(Lengths)
            \/ In!LastByte(Len(handled) + 1) > pos']_(In!vars)
<1>1. SUFFICES ASSUME pos' # pos, funcSet, ~bare'
               PROVE  \/ Len(handled') = Len(handled) + 1
                      \/ Len(handled) = Len(Lengths)
                      \/ End(Len(handled) + 1) > pos'
  BY DEF End
<1>2. PICK n \in 1..MaxRead : Read(n)
  BY <1>1 DEF Next, vars, inVars, SetMessageFunc, In!SetMessageFunc, Reply, LoopStep, PutStep
<1> QED
  BY <1>1, <1>2, ReadKeeps DEF Read

\* For any lengths of messages, any chunks their stream comes in and any number
\* of bytes read at a time: tryGet and IOBuffer lose, double or move no byte and
\* messageFunc hands over the client's messages whole and in order, unless it was
\* called with nothing but a length buffered; and the buffers keep their shape.
THEOREM Framing == Spec => []FramingInv
<1>1. Init => FrameInv /\ OutInv
  BY FrameInit, OutInit DEF Init
<1>2. FrameInv /\ OutInv /\ [Next]_vars => FrameInv' /\ OutInv'
  BY FrameStep, OutStep, OutOfNext
<1>3. FrameInv /\ OutInv => FramingInv
  BY FrameIsWhole DEF FramingInv, OutInv
<1> QED
  BY <1>1, <1>2, <1>3, PTL DEF Spec

\* Each read event after the handler was set handles a message if a complete one
\* is there, in whatever chunks it came (readFunc, messageFunc).
THEOREM ReadsHandle == Spec => ReadHandlesOne
<1>1. Init => FrameInv
  BY FrameInit DEF Init
<1>2. FrameInv /\ [Next]_vars => FrameInv'
  BY FrameStep
<1>3. FrameInv /\ [Next]_vars => [pos' # pos /\ funcSet /\ ~bare' =>
            \/ Len(handled') = Len(handled) + 1
            \/ Len(handled) = Len(Lengths)
            \/ In!LastByte(Len(handled) + 1) > pos']_(In!vars)
  BY FrameHandles
<1> QED
  BY <1>1, <1>2, <1>3, PTL DEF Spec, ReadHandlesOne, In!ReadHandlesOne

-----------------------------------------------------------------------------
(* The codec: folds as sequences of reads *)

\* One step of a read: the next member, or the next string of member i.
ReadStep(i, x, st, data, k) == IF i = 0 THEN PopMember(st, data, k) ELSE PopOne(st, data, i, x + k)

\* The recursive function of such a read, over the sets of the first n steps.
ReadTo(i, x, base, data, n, h) ==
  h = [s \in SUBSET (1..n) |-> IF s = {} THEN base ELSE ReadStep(i, x, h[s \ {Max(s)}], data, Max(s))]

\* It is what its equation says.
LEMMA ReadAt ==
  ASSUME NEW i, NEW x, NEW base, NEW data, NEW n, NEW h, ReadTo(i, x, base, data, n, h), NEW s \in SUBSET (1..n)
  PROVE  h[s] = IF s = {} THEN base ELSE ReadStep(i, x, h[s \ {Max(s)}], data, Max(s))
BY DEF ReadTo

\* It exists for any number of reads.
LEMMA ReadToExists ==
  ASSUME NEW i, NEW x, NEW base, NEW data, NEW n \in Nat
  PROVE  \E h : ReadTo(i, x, base, data, n, h)
<1> DEFINE T == {m \in Nat : \E h : ReadTo(i, x, base, data, m, h)}
<1>1. 0 \in T
  <2> DEFINE g == [s \in SUBSET (1..0) |-> base]
  <2>1. \A h : [s \in SUBSET (1..0) |-> IF s = {} THEN base ELSE ReadStep(i, x, h[s \ {Max(s)}], data, Max(s))] = g
    OBVIOUS
  <2>2. ReadTo(i, x, base, data, 0, g)
    BY <2>1 DEF ReadTo
  <2> QED
    BY <2>2
<1>2. ASSUME NEW m \in Nat, m \in T PROVE m + 1 \in T
  <2>1. PICK f : ReadTo(i, x, base, data, m, f)
    BY <1>2
  <2> DEFINE p == m + 1
  <2>5. p \in Nat /\ 1..m = (1..p) \ {p} /\ \A y \in 1..p : y <= p /\ y \in Int
    OBVIOUS
  <2> HIDE DEF p
  <2> DEFINE g == [s \in SUBSET (1..p) |-> IF p \in s THEN ReadStep(i, x, f[s \ {p}], data, p) ELSE f[s]]
             h == [s \in SUBSET (1..p) |-> IF s = {} THEN base ELSE ReadStep(i, x, g[s \ {Max(s)}], data, Max(s))]
  <2>2. ASSUME NEW s \in SUBSET (1..p) PROVE g[s] = h[s]
    <3>1. CASE p \in s
      <4>1. Max(s) = p
        <5>1. Max(s) \in s /\ \A y \in s : Max(s) >= y
          BY <2>5, <3>1, MaxGreatest
        <5>2. Max(s) >= p /\ Max(s) \in 1..p
          BY <3>1, <5>1
        <5> QED
          BY <2>5, <5>2
      <4>2. s \ {p} \in SUBSET (1..p) /\ p \notin s \ {p}
        OBVIOUS
      <4>3. g[s \ {p}] = f[s \ {p}]
        BY <4>2
      <4> QED
        BY <3>1, <4>1, <4>3
    <3>2. CASE p \notin s
      <4>1. s \in SUBSET (1..m)
        BY <2>5, <3>2
      <4>2. f[s] = IF s = {} THEN base ELSE ReadStep(i, x, f[s \ {Max(s)}], data, Max(s))
        BY <2>1, <4>1, ReadAt
      <4>3. s \ {Max(s)} \in SUBSET (1..p) /\ p \notin s \ {Max(s)}
        BY <3>2
      <4>4. g[s \ {Max(s)}] = f[s \ {Max(s)}] /\ g[s] = f[s]
        BY <3>2, <4>3
      <4> QED
        BY <4>2, <4>4
    <3> QED
      BY <3>1, <3>2
  <2>3. g = h
    BY <2>2
  <2>4. ReadTo(i, x, base, data, p, g)
    BY <2>3 DEF ReadTo
  <2> QED
    BY <2>4 DEF p
<1> HIDE DEF T
<1>3. Nat \subseteq T
  BY <1>1, <1>2, SetInduction
<1> QED
  BY <1>3 DEF T

\* The states of a read of n steps, one after the other.
Reading(i, x, base, data, n, c) ==
  c[0] = base /\ \A k \in 0..(n - 1) : c[k + 1] = ReadStep(i, x, c[k], data, k + 1)

\* The read after k others.
LEMMA ReadOn ==
  ASSUME NEW i, NEW x, NEW base, NEW data, NEW n \in Nat, NEW h, ReadTo(i, x, base, data, n, h)
  PROVE  \E c : Reading(i, x, base, data, n, c) /\ c[n] = h[1..n]
<1> DEFINE c == [k \in 0..n |-> h[1..k]]
<1>1. c[0] = base
  <2>1. {} \in SUBSET (1..n) /\ 1..0 = {} /\ 0 \in 0..n
    OBVIOUS
  <2>2. h[{}] = base
    <3> DEFINE e == {}
    <3>1. e \in SUBSET (1..n) /\ e = {}
      BY <2>1
    <3> HIDE DEF e
    <3>2. h[e] = IF e = {} THEN base ELSE ReadStep(i, x, h[e \ {Max(e)}], data, Max(e))
      BY <3>1, ReadAt
    <3> QED
      BY <3>1, <3>2
  <2>3. c[0] = h[1..0]
    BY <2>1
  <2> QED
    BY <2>1, <2>2, <2>3
<1>2. ASSUME NEW k \in 0..(n - 1) PROVE c[k + 1] = ReadStep(i, x, c[k], data, k + 1)
  <2> DEFINE s == 1..(k + 1)
  <2>1. s \in SUBSET (1..n) /\ s # {} /\ k + 1 \in s /\ s \ {k + 1} = 1..k /\ k \in 0..n /\ k + 1 \in 0..n
    OBVIOUS
  <2>2. Max(s) = k + 1
    <3>1. Max(s) \in s /\ \A y \in s : Max(s) >= y
      BY <2>1, MaxGreatest
    <3> QED
      BY <2>1, <3>1
  <2> HIDE DEF s
  <2>3. h[s] = ReadStep(i, x, h[s \ {Max(s)}], data, Max(s))
    BY <2>1, ReadAt
  <2>4. c[k + 1] = h[s] /\ c[k] = h[1..k]
    BY <2>1 DEF s
  <2> QED
    BY <2>1, <2>2, <2>3, <2>4
<1>3. c[n] = h[1..n]
  OBVIOUS
<1> HIDE DEF c
<1>4. Reading(i, x, base, data, n, c)
  BY <1>1, <1>2 DEF Reading
<1> QED
  BY <1>3, <1>4

\* deserialize pops one member after the other.
LEMMA DeserializeReads ==
  ASSUME NEW o, NEW data, NEW n \in Nat, DOMAIN o.fields = 1..n
  PROVE  \E c : Reading(0, 0, Header(o, data), data, n, c) /\ Deserialize(o, data) = c[n].o
<1> DEFINE base == Header(o, data)
           g == CHOOSE h : ReadTo(0, 0, base, data, n, h)
           q == [i \in 1..n |-> i]
<1>1. ReadTo(0, 0, base, data, n, g)
  BY ReadToExists
<1>2. Deserialize(o, data) = g[1..n].o
  <2> DEFINE it(D) == CHOOSE h : h = [s \in SUBSET D |-> IF s = {} THEN base ELSE PopMember(h[s \ {Max(s)}], data, q[Max(s)])]
  <2>1. Deserialize(o, data) = it(DOMAIN q)[DOMAIN q].o
    BY DEF Deserialize, FoldLeft, MapThenFoldSet, Max
  <2>2. \A h : [s \in SUBSET (1..n) |-> IF s = {} THEN base ELSE PopMember(h[s \ {Max(s)}], data, q[Max(s)])]
             = [s \in SUBSET (1..n) |-> IF s = {} THEN base ELSE ReadStep(0, 0, h[s \ {Max(s)}], data, Max(s))]
    <3>1. ASSUME NEW s \in SUBSET (1..n), s # {} PROVE q[Max(s)] = Max(s)
      <4>1. Max(s) \in 1..n
        BY <3>1, MaxGreatest
      <4> QED
        BY <4>1
    <3>2. \A y, k : ReadStep(0, 0, y, data, k) = PopMember(y, data, k)
      BY DEF ReadStep
    <3> HIDE DEF q, base
    <3> QED
      BY <3>1, <3>2
  <2>3. g = it(1..n)
    <3>1. \A h : ReadTo(0, 0, base, data, n, h)
               <=> h = [s \in SUBSET (1..n) |-> IF s = {} THEN base ELSE PopMember(h[s \ {Max(s)}], data, q[Max(s)])]
      <4> HIDE DEF q, base
      <4> QED
        BY <2>2 DEF ReadTo
    <3> HIDE DEF q, base
    <3> QED
      BY <3>1
  <2>4. DOMAIN q = 1..n
    OBVIOUS
  <2> HIDE DEF it, g, q
  <2> QED
    BY <2>1, <2>3, <2>4
<1> HIDE DEF g, base
<1>3. PICK c : Reading(0, 0, base, data, n, c) /\ c[n] = g[1..n]
  BY <1>1, ReadOn
<1> QED
  BY <1>2, <1>3 DEF base

\* A vector of strings is popped string by string.
LEMMA PopTextsReads ==
  ASSUME NEW st, NEW data, NEW i, i # 0, NEW n \in Nat, n = st.o.size - st.o.index
  PROVE  \E c : Reading(i, st.o.index, st, data, n, c) /\ PopTexts(st, data, i) = c[n]
<1> DEFINE x == st.o.index
           g == CHOOSE h : ReadTo(i, x, st, data, n, h)
           q == [k \in 1..n |-> x + k]
<1>1. ReadTo(i, x, st, data, n, g)
  BY ReadToExists
<1>2. PopTexts(st, data, i) = g[1..n]
  <2> DEFINE it(D) == CHOOSE h : h = [s \in SUBSET D |-> IF s = {} THEN st ELSE PopOne(h[s \ {Max(s)}], data, i, q[Max(s)])]
  <2>1. PopTexts(st, data, i) = it(DOMAIN q)[DOMAIN q]
    BY DEF PopTexts, FoldLeft, MapThenFoldSet, Max
  <2>2. \A h : [s \in SUBSET (1..n) |-> IF s = {} THEN st ELSE PopOne(h[s \ {Max(s)}], data, i, q[Max(s)])]
             = [s \in SUBSET (1..n) |-> IF s = {} THEN st ELSE ReadStep(i, x, h[s \ {Max(s)}], data, Max(s))]
    <3>1. ASSUME NEW s \in SUBSET (1..n), s # {} PROVE q[Max(s)] = x + Max(s)
      <4>1. Max(s) \in 1..n
        BY <3>1, MaxGreatest
      <4> QED
        BY <4>1
    <3>2. \A y, k : ReadStep(i, x, y, data, k) = PopOne(y, data, i, x + k)
      BY DEF ReadStep
    <3> HIDE DEF q, x
    <3> QED
      BY <3>1, <3>2
  <2>3. g = it(1..n)
    <3>1. \A h : ReadTo(i, x, st, data, n, h)
               <=> h = [s \in SUBSET (1..n) |-> IF s = {} THEN st ELSE PopOne(h[s \ {Max(s)}], data, i, q[Max(s)])]
      <4> HIDE DEF q, x
      <4> QED
        BY <2>2 DEF ReadTo
    <3> HIDE DEF q, x
    <3> QED
      BY <3>1
  <2>4. DOMAIN q = 1..n
    OBVIOUS
  <2> HIDE DEF it, g, q
  <2> QED
    BY <2>1, <2>3, <2>4
<1> HIDE DEF g, x
<1>3. PICK c : Reading(i, x, st, data, n, c) /\ c[n] = g[1..n]
  BY <1>1, ReadOn
<1> QED
  BY <1>2, <1>3 DEF x

\* PopTexts takes n strings from the lengths behind the index x.
Takes(st, data, i, x, n) == \E c : Reading(i, x, st, data, n, c) /\ PopTexts(st, data, i) = c[n]

\* popMember of a vector of strings takes them one after the other.
LEMMA PopTextsTakes ==
  ASSUME NEW st, NEW data, NEW i, i # 0, NEW x, x = st.o.index, NEW z, z = st.o.size, NEW n \in Nat, n = z - x
  PROVE  Takes(st, data, i, x, n)
<1>1. n = st.o.size - st.o.index
  OBVIOUS
<1>2. \E c : Reading(i, st.o.index, st, data, n, c) /\ PopTexts(st, data, i) = c[n]
  BY <1>1, PopTextsReads
<1> QED
  BY <1>2 DEF Takes

-----------------------------------------------------------------------------
(* Members and their values *)

\* The kinds of members; only the last may be a vector of strings.
Kinds == {"num", "text", "texts"}
WellFormed(kinds) == kinds \in Seq(Kinds) /\ \A i \in 1..Len(kinds) : kinds[i] = "texts" => i = Len(kinds)

\* Members without a vector of strings are well formed.
LEMMA PlainWellFormed ==
  ASSUME NEW k \in Seq({"num", "text"})
  PROVE  WellFormed(k)
<1>1. k \in Seq(Kinds)
  BY SeqMonotonic DEF Kinds
<1>2. \A i \in 1..Len(k) : k[i] \in {"num", "text"}
  OBVIOUS
<1> QED
  BY <1>1, <1>2 DEF WellFormed

\* Primitives are plain members.
LEMMA NumsPlain ==
  ASSUME NEW n \in Nat
  PROVE  Nums(n) \in Seq({"num", "text"})
  BY DEF Nums

\* The members of every type: a vector of strings is always the last.
LEMMA MembersFacts ==
  /\ "none" \notin DOMAIN MembersOf
  /\ \A t \in DOMAIN MembersOf : WellFormed(MembersOf[t])
<1> DEFINE P == Seq({"num", "text"})
<1>1. \A n \in {3, 4, 16} : Nums(n) \in P
  BY NumsPlain
<1>2. \A u, v \in P : u \o v \in P
  OBVIOUS
<1>3. ASSUME NEW t \in DOMAIN CustomMembers PROVE WellFormed(CustomMembers[t])
  <2>1. t \in {"TimestampMessage", "HeartBeatPacket", "TestVecNormal", "TestStringsMessage", "MessagesPacker",
               "CLoginMessage", "SLoginMessage"}
    BY <1>3 DEF CustomMembers
  <2>2. <<"num">> \in P /\ <<"text", "text">> \in P /\ <<"num", "text", "text">> \in P /\ <<"num", "text">> \in P
    OBVIOUS
  <2>3. WellFormed(<<"num", "text", "texts">>) /\ WellFormed(<<"texts">>)
    BY DEF WellFormed, Kinds
  <2> HIDE DEF P
  <2>4. CustomMembers[t] \in P \/ CustomMembers[t] = <<"num", "text", "texts">> \/ CustomMembers[t] = <<"texts">>
    BY <2>1, <2>2 DEF CustomMembers
  <2> QED
    BY <2>3, <2>4, PlainWellFormed DEF P
<1>4. ASSUME NEW t \in DOMAIN LoginMembers PROVE WellFormed(LoginMembers[t])
  <2>1. t \in {"CharacterBaseInfo", "LoginRequestMessage", "LoginResponseMessage", "LoginCharacterRequestMessage"}
    BY <1>4 DEF LoginMembers
  <2>2. <<"text">> \in P /\ <<"num", "text", "text">> \in P /\ <<"num", "text", "text", "text">> \in P
    OBVIOUS
  <2>3. WellFormed(<<"num", "text", "text", "num", "text", "num", "texts">>)
    BY DEF WellFormed, Kinds
  <2> HIDE DEF P
  <2>5. <<"text">> \o Nums(4) \in P /\ <<"num", "text", "text", "text">> \o Nums(3) \in P
    <3>1. Nums(4) \in P /\ Nums(3) \in P /\ Nums(16) \in P
      BY <1>1
    <3> QED
      BY <1>2, <2>2, <3>1, Zenon
  <2>4. LoginMembers[t] \in P \/ LoginMembers[t] = <<"num", "text", "text", "num", "text", "num", "texts">>
    <3>1. LoginMembers["CharacterBaseInfo"] = <<"text">> \o Nums(4)
      BY DEF LoginMembers
    <3>2. LoginMembers["LoginRequestMessage"] = <<"num", "text", "text">>
      BY DEF LoginMembers
    <3>3. LoginMembers["LoginResponseMessage"] = <<"num", "text", "text", "num", "text", "num", "texts">>
      BY DEF LoginMembers
    <3>4. LoginMembers["LoginCharacterRequestMessage"] = <<"num", "text", "text", "text">> \o Nums(3)
      BY DEF LoginMembers
    <3> QED
      BY <2>1, <2>2, <2>5, <3>1, <3>2, <3>3, <3>4, Zenon
  <2> QED
    BY <2>3, <2>4, PlainWellFormed DEF P
<1>5. ASSUME NEW t \in DOMAIN GameMembers PROVE WellFormed(GameMembers[t])
  <2>1. t \in {"DSLoadOrUploadCharacterMessage", "DSMessage", "CharacterInfo"}
    BY <1>5 DEF GameMembers
  <2>2. <<"num", "num", "text", "text", "text">> \in P /\ <<"text">> \in P /\ <<"text", "text">> \in P
    OBVIOUS
  <2> HIDE DEF P
  <2>5. Nums(4) \o <<"text">> \in P /\ <<"text", "text">> \o Nums(16) \in P
    <3>1. Nums(4) \in P /\ Nums(3) \in P /\ Nums(16) \in P
      BY <1>1
    <3> QED
      BY <1>2, <2>2, <3>1, Zenon
  <2>4. GameMembers[t] \in P
    <3>1. GameMembers["DSLoadOrUploadCharacterMessage"] = <<"num", "num", "text", "text", "text">>
      BY DEF GameMembers
    <3>2. GameMembers["DSMessage"] = Nums(4) \o <<"text">>
      BY DEF GameMembers
    <3>3. GameMembers["CharacterInfo"] = <<"text", "text">> \o Nums(16)
      BY DEF GameMembers
    <3> QED
      BY <2>1, <2>2, <2>5, <3>1, <3>2, <3>3, Zenon
  <2> QED
    BY <2>4, PlainWellFormed DEF P
<1>6. ASSUME NEW t \in DOMAIN GatewayMembers PROVE WellFormed(GatewayMembers[t])
  <2>1. t \in {"EnterGameRequestMessage", "EnterGameResponseMessage", "ChatRequestMessage"}
    BY <1>6 DEF GatewayMembers
  <2>2. <<"num", "text", "text">> \in P /\ <<"num">> \in P /\ <<"num", "text", "text", "text", "text">> \in P
    OBVIOUS
  <2> HIDE DEF P
  <2>4. GatewayMembers[t] \in P
    BY <2>1, <2>2 DEF GatewayMembers
  <2> QED
    BY <2>4, PlainWellFormed DEF P
<1>7. "none" \notin DOMAIN CustomMembers /\ "none" \notin DOMAIN LoginMembers /\ "none" \notin DOMAIN GameMembers /\ "none" \notin DOMAIN GatewayMembers
  BY DEF CustomMembers, LoginMembers, GameMembers, GatewayMembers
<1>8. "none" \notin DOMAIN MembersOf
  BY <1>7 DEF MembersOf
<1>9. ASSUME NEW t \in DOMAIN MembersOf PROVE WellFormed(MembersOf[t])
  <2>1. \/ t \in DOMAIN CustomMembers /\ MembersOf[t] = CustomMembers[t]
        \/ t \in DOMAIN LoginMembers /\ MembersOf[t] = LoginMembers[t]
        \/ t \in DOMAIN GameMembers /\ MembersOf[t] = GameMembers[t]
        \/ t \in DOMAIN GatewayMembers /\ MembersOf[t] = GatewayMembers[t]
    BY <1>9 DEF MembersOf
  <2> QED
    BY <2>1, <1>3, <1>4, <1>5, <1>6
<1> QED
  BY <1>8, <1>9

\* What the members of an object of type t may hold.
Fit(t, f) ==
  /\ DOMAIN f = 1..Len(MembersOf[t]) /\ f = [i \in 1..Len(MembersOf[t]) |-> f[i]]
  /\ \A i \in 1..Len(MembersOf[t]) :
       /\ MembersOf[t][i] = "num" => f[i] \in Nat
       /\ MembersOf[t][i] = "text" => f[i] \in Seq(Nat)
       /\ MembersOf[t][i] = "texts" => f[i] \in Seq(Seq(Nat))

\* Values a sender may assign fit the members.
LEMMA FieldsFit ==
  ASSUME NEW t \in Types, NEW f \in FieldsOf(t)
  PROVE  Fit(t, f)
<1> DEFINE kinds == MembersOf[t]
           U == [Places(t, "text") -> Texts]
           V == [Places(t, "texts") -> TextLists]
<1>1. PICK text \in U, texts \in V : f = Assigned(t, text, texts)
  <2> HIDE DEF U, V
  <2>1. \E p \in U \X V : f = Assigned(t, p[1], p[2])
    BY DEF FieldsOf, U, V
  <2> QED
    BY <2>1
<1>2. kinds \in Seq(Kinds)
  BY MembersFacts, CodecAssumption DEF WellFormed
<1>3. Texts \subseteq Seq(Nat) /\ TextLists \subseteq Seq(Seq(Nat))
  <2>1. Texts \subseteq Seq(Nat) /\ TextLists \subseteq Seq(Texts)
    BY CodecAssumption
  <2>2. Seq(Texts) \subseteq Seq(Seq(Nat))
    BY <2>1, SeqMonotonic
  <2> QED
    BY <2>1, <2>2
<1> HIDE DEF kinds
<1>4. DOMAIN kinds = 1..Len(kinds)
  BY <1>2
<1>5. DOMAIN f = 1..Len(kinds) /\ f = [i \in 1..Len(kinds) |-> f[i]]
  BY <1>1, <1>4 DEF Assigned, kinds
<1>6. ASSUME NEW i \in 1..Len(kinds)
      PROVE  /\ kinds[i] = "num" => f[i] \in Nat
             /\ kinds[i] = "text" => f[i] \in Seq(Nat)
             /\ kinds[i] = "texts" => f[i] \in Seq(Seq(Nat))
  <2>1. f[i] = CASE kinds[i] = "num" -> 10 + i [] kinds[i] = "text" -> text[i] [] OTHER -> texts[i]
    BY <1>1, <1>4 DEF Assigned, kinds
  <2>2. kinds[i] = "num" => f[i] \in Nat
    BY <2>1
  <2>3. ASSUME kinds[i] = "text" PROVE f[i] \in Seq(Nat)
    <3>1. i \in Places(t, "text")
      BY <1>4, <2>3 DEF Places, kinds
    <3>2. text[i] \in Texts
      BY <3>1, <1>1
    <3> QED
      BY <1>3, <2>1, <2>3, <3>2
  <2>4. ASSUME kinds[i] = "texts" PROVE f[i] \in Seq(Seq(Nat))
    <3>1. i \in Places(t, "texts")
      BY <1>4, <2>4 DEF Places, kinds
    <3>2. texts[i] \in TextLists
      BY <3>1, <1>1
    <3> QED
      BY <1>3, <2>1, <2>4, <3>2
  <2> QED
    BY <2>2, <2>3, <2>4
<1> QED
  BY <1>5, <1>6 DEF Fit, kinds

-----------------------------------------------------------------------------
\* What the first k parts of q make.
First(q, k) == FlattenSeq(SubSeq(q, 1, k))

\* None of them, all of them, and their type.
LEMMA FirstParts ==
  ASSUME NEW q \in Seq(Seq(Nat))
  PROVE  /\ First(q, 0) = <<>> /\ First(q, Len(q)) = FlattenSeq(q)
         /\ \A k \in 0..Len(q) : First(q, k) \in Seq(Nat)
<1>1. SubSeq(q, 1, 0) = <<>> /\ SubSeq(q, 1, Len(q)) = q
  OBVIOUS
<1>2. FlattenSeq(<<>>) = <<>>
  BY DEF FlattenSeq
<1>3. ASSUME NEW k \in 0..Len(q) PROVE First(q, k) \in Seq(Nat)
  <2>1. SubSeq(q, 1, k) \in Seq(Seq(Nat))
    OBVIOUS
  <2> QED
    BY <2>1, FlattenType DEF First
<1> QED
  BY <1>1, <1>2, <1>3 DEF First

\* The next of them lies behind the first k.
LEMMA NextPart ==
  ASSUME NEW q \in Seq(Seq(Nat)), NEW k \in 0..(Len(q) - 1)
  PROVE  /\ First(q, k) \in Seq(Nat) /\ q[k + 1] \in Seq(Nat)
         /\ First(q, k + 1) = First(q, k) \o q[k + 1]
         /\ Len(First(q, k + 1)) = Len(First(q, k)) + Len(q[k + 1])
         /\ \A j \in 1..Len(q[k + 1]) : /\ Len(First(q, k)) + j \in 1..Len(FlattenSeq(q))
                                        /\ FlattenSeq(q)[Len(First(q, k)) + j] = q[k + 1][j]
<1> DEFINE p == First(q, k)
           c == q[k + 1]
           r == FlattenSeq(SubSeq(q, k + 2, Len(q)))
<1>1. k \in 0..Len(q) /\ k + 1 \in 0..Len(q) /\ k + 1 \in 1..Len(q)
  OBVIOUS
<1>2. p \in Seq(Nat) /\ c \in Seq(Nat)
  BY <1>1, FirstParts
<1>3. SubSeq(q, 1, k + 1) = Append(SubSeq(q, 1, k), c)
  <2>1. SubSeq(q, 1, k) \in Seq(Seq(Nat)) /\ Len(SubSeq(q, 1, k)) = k /\ \A i \in 1..k : SubSeq(q, 1, k)[i] = q[i]
    BY <1>1
  <2>2. SubSeq(q, 1, k + 1) \in Seq(Seq(Nat)) /\ Len(SubSeq(q, 1, k + 1)) = k + 1 /\ \A i \in 1..(k + 1) : SubSeq(q, 1, k + 1)[i] = q[i]
    BY <1>1
  <2> DEFINE u == SubSeq(q, 1, k)
             v == SubSeq(q, 1, k + 1)
             w == Append(u, c)
  <2> HIDE DEF u, v, c
  <2>3. u \in Seq(Seq(Nat)) /\ Len(u) = k /\ v \in Seq(Seq(Nat)) /\ Len(v) = k + 1
    BY <2>1, <2>2 DEF u, v
  <2>4. w \in Seq(Seq(Nat)) /\ Len(w) = k + 1 /\ \A i \in 1..(k + 1) : w[i] = IF i = k + 1 THEN c ELSE u[i]
    BY <1>2, <2>3
  <2>5. \A i \in 1..(k + 1) : v[i] = IF i = k + 1 THEN c ELSE u[i]
    BY <2>1, <2>2 DEF u, v, c
  <2> HIDE DEF w
  <2>6. v = w
    BY <2>3, <2>4, <2>5, SeqEqual
  <2> QED
    BY <2>6 DEF u, v, w
<1>4. First(q, k + 1) = p \o c
  <2>1. SubSeq(q, 1, k) \in Seq(Seq(Nat))
    BY <1>1
  <2> DEFINE u == SubSeq(q, 1, k)
  <2> HIDE DEF u, c
  <2>2. FlattenSeq(Append(u, c)) = FlattenSeq(u) \o c
    BY <1>2, <2>1, FlattenAppend DEF u
  <2> QED
    BY <1>3, <2>2 DEF First, u
<1>5. First(q, k + 1) \o r = FlattenSeq(q) /\ r \in Seq(Nat)
  <2>1. SubSeq(q, k + 2, Len(q)) \in Seq(Seq(Nat))
    BY <1>1
  <2>2. r \in Seq(Nat)
    BY <2>1, FlattenType
  <2>3. FlattenSeq(SubSeq(q, 1, k + 1)) \o FlattenSeq(SubSeq(q, (k + 1) + 1, Len(q))) = FlattenSeq(q)
    BY <1>1, FlattenSplit
  <2>4. (k + 1) + 1 = k + 2
    BY <1>1
  <2> QED
    BY <2>2, <2>3, <2>4 DEF First
<1> HIDE DEF p, c, r
<1>6. FlattenSeq(q) = (p \o c) \o r
  BY <1>4, <1>5
<1> DEFINE e == p \o c
<1>7. e \in Seq(Nat) /\ Len(e) = Len(p) + Len(c) /\ \A j \in 1..Len(c) : e[Len(p) + j] = c[j]
  BY <1>2
<1> HIDE DEF e
<1>8. FlattenSeq(q) = e \o r
  BY <1>6 DEF e
<1> DEFINE s == e \o r
<1>a. r \in Seq(Nat) /\ e \in Seq(Nat)
  BY <1>5, <1>7
<1>9. Len(s) = Len(e) + Len(r) /\ \A j \in 1..Len(e) : s[j] = e[j]
  BY <1>a
<1> HIDE DEF s
<1>10. Len(p) \in Nat /\ Len(c) \in Nat /\ Len(r) \in Nat
  BY <1>2, <1>5
<1>11. ASSUME NEW j \in 1..Len(c) PROVE Len(p) + j \in 1..Len(s) /\ s[Len(p) + j] = c[j]
  <2>1. Len(p) + j \in 1..Len(e) /\ Len(p) + j \in 1..Len(s)
    BY <1>7, <1>9, <1>10
  <2> QED
    BY <2>1, <1>7, <1>9
<1>12. Len(First(q, k + 1)) = Len(p) + Len(c) /\ FlattenSeq(q) = s
  BY <1>4, <1>7, <1>8 DEF e, s
<1> QED
  BY <1>2, <1>4, <1>11, <1>12 DEF p, c

-----------------------------------------------------------------------------
(* Objects, field by field *)

\* An object, and an object with the cursor of a read.
Obj(t, nm, f, l, ls, z, x) == [type |-> t, name |-> nm, fields |-> f, len |-> l, lengths |-> ls, size |-> z, index |-> x]
Reader(o, c) == [o |-> o, cursor |-> c]

\* A member of f, set.
Put(f, i, v) == [f EXCEPT ![i] = v]

\* The fields of a read.
LEMMA ObjFields ==
  ASSUME NEW t, NEW nm, NEW f, NEW l, NEW ls, NEW z, NEW x, NEW c
  PROVE  LET st == Reader(Obj(t, nm, f, l, ls, z, x), c)
         IN st.o = Obj(t, nm, f, l, ls, z, x) /\ st.cursor = c /\ st.o.type = t /\ st.o.name = nm /\ st.o.fields = f
            /\ st.o.len = l /\ st.o.lengths = ls /\ st.o.size = z /\ st.o.index = x
  BY DEF Reader, Obj

\* Updates of an object and of a read, one field at a time.
LEMMA ObjUpdates ==
  ASSUME NEW t, NEW nm, NEW f, NEW l, NEW ls, NEW z, NEW x, NEW i, NEW v, NEW y
  PROVE  /\ [Obj(t, nm, f, l, ls, z, x) EXCEPT !.fields[i] = v] = Obj(t, nm, [f EXCEPT ![i] = v], l, ls, z, x)
         /\ [Obj(t, nm, f, l, ls, z, x) EXCEPT !.index = y] = Obj(t, nm, f, l, ls, z, y)
<1>1. [Obj(t, nm, f, l, ls, z, x) EXCEPT !.fields[i] = v] = Obj(t, nm, [f EXCEPT ![i] = v], l, ls, z, x)
  BY SMT DEF Obj
<1>2. [Obj(t, nm, f, l, ls, z, x) EXCEPT !.index = y] = Obj(t, nm, f, l, ls, z, y)
  BY SMT DEF Obj
<1> QED
  BY <1>1, <1>2

\* Updates of a read.
LEMMA ReadUpdates ==
  ASSUME NEW o, NEW c, NEW i, NEW v
  PROVE  /\ [Reader(o, c) EXCEPT !.o.fields[i] = v] = Reader([o EXCEPT !.fields[i] = v], c)
         /\ [Reader(o, c) EXCEPT !.cursor = @ + 1] = Reader(o, c + 1)
<1>1. [Reader(o, c) EXCEPT !.o.fields[i] = v] = Reader([o EXCEPT !.fields[i] = v], c)
  BY DEF Reader
<1>2. [Reader(o, c) EXCEPT !.cursor = @ + 1] = Reader(o, c + 1)
  BY DEF Reader
<1> QED
  BY <1>1, <1>2

\* popMember of a primitive.
LEMMA PopNumObj ==
  ASSUME NEW t, NEW nm, NEW f, NEW l, NEW ls, NEW z, NEW x, NEW c, NEW data, NEW i
  PROVE  PopNum(Reader(Obj(t, nm, f, l, ls, z, x), c), data, i)
           = Reader(Obj(t, nm, Put(f, i, Slice(data, c, 1)[1]), l, ls, z, x), c + 1)
<1> DEFINE o == Obj(t, nm, f, l, ls, z, x)
           st == Reader(o, c)
           v == Slice(data, c, 1)[1]
           p == [o EXCEPT !.fields[i] = v]
<1>1. p = Obj(t, nm, [f EXCEPT ![i] = v], l, ls, z, x)
  <2> HIDE DEF v
  <2> QED
    BY ObjUpdates
<1>2. st.cursor = c
  BY DEF Reader
<1>3. PopNum(st, data, i) = [st EXCEPT !.o.fields[i] = v, !.cursor = @ + 1]
  BY <1>2 DEF PopNum
<1> HIDE DEF v
<1>4. [st EXCEPT !.o.fields[i] = v, !.cursor = @ + 1] = [[st EXCEPT !.o.fields[i] = v] EXCEPT !.cursor = @ + 1]
  <2> HIDE DEF st
  <2> QED
    OBVIOUS
<1>5. [st EXCEPT !.o.fields[i] = v] = Reader(p, c)
  <2> HIDE DEF o
  <2> QED
    BY DEF Reader
<1>6. [Reader(p, c) EXCEPT !.cursor = @ + 1] = Reader(p, c + 1)
  <2> HIDE DEF p
  <2> QED
    BY ReadUpdates
<1> QED
  BY <1>1, <1>3, <1>4, <1>5, <1>6 DEF v, Put

\* popMember of a string or a vector of primitives.
LEMMA PopTextObj ==
  ASSUME NEW t, NEW nm, NEW f, NEW l, NEW ls, NEW z, NEW x, NEW c, NEW data, NEW i
  PROVE  PopText(Reader(Obj(t, nm, f, l, ls, z, x), c), data, i)
           = Reader(Obj(t, nm, Put(f, i, Slice(data, c, ls[x + 1])), l, ls, z, x + 1), c + ls[x + 1])
<1> DEFINE o == Obj(t, nm, f, l, ls, z, x)
           st == Reader(o, c)
           v == Slice(data, c, ls[x + 1])
           g == [f EXCEPT ![i] = v]
           p == Obj(t, nm, g, l, ls, z, x)
<1>1. st.cursor = c /\ st.o = o /\ o.lengths = ls /\ o.index = x
  BY DEF Reader, Obj
<1>2. PopText(st, data, i) = Reader([o EXCEPT !.fields[i] = v, !.index = @ + 1], c + ls[x + 1])
  BY <1>1 DEF PopText, Reader
<1> HIDE DEF v
<1>3. [o EXCEPT !.fields[i] = v, !.index = @ + 1] = [[o EXCEPT !.fields[i] = v] EXCEPT !.index = @ + 1]
  <2> HIDE DEF o
  <2> QED
    OBVIOUS
<1>4. [o EXCEPT !.fields[i] = v] = Obj(t, nm, [f EXCEPT ![i] = v], l, ls, z, x)
  BY ObjUpdates
<1> HIDE DEF g
<1>5. p.index = x
  BY DEF Obj
<1>6. [p EXCEPT !.index = p.index + 1] = [p EXCEPT !.index = x + 1]
  BY <1>5
<1>7. [p EXCEPT !.index = x + 1] = Obj(t, nm, g, l, ls, z, x + 1)
  <2> DEFINE y == x + 1
  <2> HIDE DEF y
  <2>1. [p EXCEPT !.index = y] = Obj(t, nm, g, l, ls, z, y)
    BY DEF Obj
  <2> QED
    BY <2>1 DEF y
<1>8. [o EXCEPT !.fields[i] = v, !.index = @ + 1] = Obj(t, nm, g, l, ls, z, x + 1)
  <2> HIDE DEF o, p
  <2> QED
    BY <1>3, <1>4, <1>6, <1>7 DEF p, g
<1> QED
  BY <1>2, <1>8 DEF v, g, Put

\* One string of a vector of strings.
LEMMA PopOneObj ==
  ASSUME NEW t, NEW nm, NEW f, NEW l, NEW ls, NEW z, NEW x, NEW c, NEW data, NEW i, NEW k
  PROVE  PopOne(Reader(Obj(t, nm, f, l, ls, z, x), c), data, i, k)
           = Reader(Obj(t, nm, Put(f, i, Append(f[i], Slice(data, c, ls[k]))), l, ls, z, x), c + ls[k])
<1> DEFINE o == Obj(t, nm, f, l, ls, z, x)
           st == Reader(o, c)
           v == Slice(data, c, ls[k])
<1>1. st.cursor = c /\ st.o = o /\ o.lengths = ls /\ o.fields = f
  BY DEF Reader, Obj
<1>2. PopOne(st, data, i, k) = Reader([o EXCEPT !.fields[i] = Append(o.fields[i], v)], c + ls[k])
  BY <1>1 DEF PopOne, Reader
<1> HIDE DEF v
<1>3. [o EXCEPT !.fields[i] = Append(o.fields[i], v)] = [o EXCEPT !.fields[i] = Append(f[i], v)]
  BY <1>1
<1>4. [o EXCEPT !.fields[i] = Append(f[i], v)] = Obj(t, nm, [f EXCEPT ![i] = Append(f[i], v)], l, ls, z, x)
  <2> DEFINE w == Append(f[i], v)
  <2> HIDE DEF w
  <2>1. [o EXCEPT !.fields[i] = w] = Obj(t, nm, [f EXCEPT ![i] = w], l, ls, z, x)
    BY ObjUpdates
  <2> QED
    BY <2>1 DEF w
<1> QED
  BY <1>2, <1>3, <1>4 DEF v, Put

-----------------------------------------------------------------------------
\* The cells and the lengths of each member.
CellSeq(t, f) == [i \in DOMAIN f |-> CellsOf(MembersOf[t][i], f[i])]
LenSeq(t, f) == [i \in DOMAIN f |-> LengthsOf(MembersOf[t][i], f[i])]

\* What each member adds to the cells and to the lengths.
LEMMA SeqsOfMembers ==
  ASSUME NEW t \in DOMAIN MembersOf, NEW f, Fit(t, f)
  PROVE  /\ CellSeq(t, f) \in Seq(Seq(Nat)) /\ LenSeq(t, f) \in Seq(Seq(Nat))
         /\ Len(CellSeq(t, f)) = Len(MembersOf[t]) /\ Len(LenSeq(t, f)) = Len(MembersOf[t])
         /\ Len(MembersOf[t]) \in Nat
         /\ \A i \in 1..Len(MembersOf[t]) :
              /\ MembersOf[t][i] = "num" => f[i] \in Nat /\ CellSeq(t, f)[i] = <<f[i]>> /\ LenSeq(t, f)[i] = <<>>
              /\ MembersOf[t][i] = "text" => f[i] \in Seq(Nat) /\ CellSeq(t, f)[i] = f[i] /\ LenSeq(t, f)[i] = <<Len(f[i])>>
              /\ MembersOf[t][i] = "texts" => /\ f[i] \in Seq(Seq(Nat)) /\ CellSeq(t, f)[i] = FlattenSeq(f[i])
                                              /\ LenSeq(t, f)[i] = [j \in DOMAIN f[i] |-> Len(f[i][j])]
              /\ MembersOf[t][i] \in {"num", "text"} \/ (MembersOf[t][i] = "texts" /\ i = Len(MembersOf[t]))
<1> DEFINE kinds == MembersOf[t]
           n == Len(kinds)
<1>1. kinds \in Seq(Kinds) /\ \A i \in 1..n : kinds[i] = "texts" => i = n
  BY MembersFacts DEF WellFormed
<1>2. /\ DOMAIN f = 1..n
      /\ \A i \in 1..n : /\ kinds[i] = "num" => f[i] \in Nat
                         /\ kinds[i] = "text" => f[i] \in Seq(Nat)
                         /\ kinds[i] = "texts" => f[i] \in Seq(Seq(Nat))
  BY DEF Fit
<1> HIDE DEF kinds
<1>3. n \in Nat /\ \A i \in 1..n : kinds[i] \in Kinds
  BY <1>1
<1>4. CellSeq(t, f) = [i \in 1..n |-> CellsOf(kinds[i], f[i])] /\ LenSeq(t, f) = [i \in 1..n |-> LengthsOf(kinds[i], f[i])]
  BY <1>2 DEF CellSeq, LenSeq, kinds
<1>5. ASSUME NEW i \in 1..n
      PROVE  /\ kinds[i] = "num" => f[i] \in Nat /\ CellSeq(t, f)[i] = <<f[i]>> /\ LenSeq(t, f)[i] = <<>>
             /\ kinds[i] = "text" => f[i] \in Seq(Nat) /\ CellSeq(t, f)[i] = f[i] /\ LenSeq(t, f)[i] = <<Len(f[i])>>
             /\ kinds[i] = "texts" => /\ f[i] \in Seq(Seq(Nat)) /\ CellSeq(t, f)[i] = FlattenSeq(f[i])
                                      /\ LenSeq(t, f)[i] = [j \in DOMAIN f[i] |-> Len(f[i][j])]
             /\ kinds[i] \in {"num", "text"} \/ (kinds[i] = "texts" /\ i = n)
             /\ CellSeq(t, f)[i] \in Seq(Nat) /\ LenSeq(t, f)[i] \in Seq(Nat)
  <2>1. CellSeq(t, f)[i] = CellsOf(kinds[i], f[i]) /\ LenSeq(t, f)[i] = LengthsOf(kinds[i], f[i])
    BY <1>4
  <2>2. kinds[i] \in {"num", "text"} \/ (kinds[i] = "texts" /\ i = n)
    BY <1>1, <1>3 DEF Kinds
  <2>3. ASSUME kinds[i] = "num" PROVE f[i] \in Nat /\ CellSeq(t, f)[i] = <<f[i]>> /\ LenSeq(t, f)[i] = <<>>
    BY <1>2, <2>1, <2>3 DEF CellsOf, LengthsOf
  <2>4. ASSUME kinds[i] = "text" PROVE f[i] \in Seq(Nat) /\ CellSeq(t, f)[i] = f[i] /\ LenSeq(t, f)[i] = <<Len(f[i])>>
    BY <1>2, <2>1, <2>4 DEF CellsOf, LengthsOf
  <2>5. ASSUME kinds[i] = "texts"
        PROVE  /\ f[i] \in Seq(Seq(Nat)) /\ CellSeq(t, f)[i] = FlattenSeq(f[i])
               /\ LenSeq(t, f)[i] = [j \in DOMAIN f[i] |-> Len(f[i][j])]
    BY <1>2, <2>1, <2>5 DEF CellsOf, LengthsOf
  <2>6. ASSUME kinds[i] = "num" PROVE CellSeq(t, f)[i] \in Seq(Nat) /\ LenSeq(t, f)[i] \in Seq(Nat)
    <3>1. f[i] \in Nat /\ CellSeq(t, f)[i] = <<f[i]>> /\ LenSeq(t, f)[i] = <<>>
      BY <2>3, <2>6
    <3> DEFINE v == f[i]
    <3> HIDE DEF v
    <3>2. v \in Nat
      BY <3>1 DEF v
    <3>3. <<v>> \in Seq(Nat) /\ <<>> \in Seq(Nat)
      BY <3>2
    <3> QED
      BY <3>1, <3>3 DEF v
  <2>7. ASSUME kinds[i] = "text" PROVE CellSeq(t, f)[i] \in Seq(Nat) /\ LenSeq(t, f)[i] \in Seq(Nat)
    <3>1. f[i] \in Seq(Nat) /\ CellSeq(t, f)[i] = f[i] /\ LenSeq(t, f)[i] = <<Len(f[i])>>
      BY <2>4, <2>7
    <3> DEFINE v == Len(f[i])
    <3>2. v \in Nat
      BY <3>1
    <3> HIDE DEF v
    <3>3. <<v>> \in Seq(Nat)
      BY <3>2
    <3> QED
      BY <3>1, <3>3 DEF v
  <2>8. ASSUME kinds[i] = "texts" PROVE CellSeq(t, f)[i] \in Seq(Nat) /\ LenSeq(t, f)[i] \in Seq(Nat)
    <3> DEFINE v == f[i]
    <3>1. v \in Seq(Seq(Nat)) /\ CellSeq(t, f)[i] = FlattenSeq(v) /\ LenSeq(t, f)[i] = [j \in DOMAIN v |-> Len(v[j])]
      BY <2>5, <2>8
    <3> HIDE DEF v
    <3>2. DOMAIN v = 1..Len(v) /\ Len(v) \in Nat /\ \A j \in 1..Len(v) : Len(v[j]) \in Nat
      BY <3>1
    <3>3. [j \in 1..Len(v) |-> Len(v[j])] \in Seq(Nat)
      BY <3>2
    <3> QED
      BY <3>1, <3>2, <3>3, FlattenType
  <2> QED
    BY <2>2, <2>3, <2>4, <2>5, <2>6, <2>7, <2>8
<1>6. CellSeq(t, f) \in Seq(Seq(Nat)) /\ LenSeq(t, f) \in Seq(Seq(Nat)) /\ Len(CellSeq(t, f)) = n /\ Len(LenSeq(t, f)) = n
  <2> DEFINE p == CellSeq(t, f)
             q == LenSeq(t, f)
  <2>1. DOMAIN p = 1..n /\ DOMAIN q = 1..n /\ p = [i \in 1..n |-> p[i]] /\ q = [i \in 1..n |-> q[i]]
    BY <1>4
  <2>2. \A i \in 1..n : p[i] \in Seq(Nat) /\ q[i] \in Seq(Nat)
    BY <1>5
  <2> HIDE DEF p, q
  <2>3. p \in [1..n -> Seq(Nat)] /\ q \in [1..n -> Seq(Nat)]
    BY <2>1, <2>2
  <2>4. p \in Seq(Seq(Nat)) /\ q \in Seq(Seq(Nat)) /\ Len(p) = n /\ Len(q) = n
    <3>1. n \in Nat
      BY <1>3
    <3> HIDE DEF n
    <3>2. p \in Seq(Seq(Nat)) /\ Len(p) = n
      BY <3>1, <2>3
    <3>3. q \in Seq(Seq(Nat)) /\ Len(q) = n
      BY <3>1, <2>3
    <3> QED
      BY <3>2, <3>3
  <2> QED
    BY <2>4 DEF p, q
<1>7. \A i \in 1..n :
        /\ kinds[i] = "num" => f[i] \in Nat /\ CellSeq(t, f)[i] = <<f[i]>> /\ LenSeq(t, f)[i] = <<>>
        /\ kinds[i] = "text" => f[i] \in Seq(Nat) /\ CellSeq(t, f)[i] = f[i] /\ LenSeq(t, f)[i] = <<Len(f[i])>>
        /\ kinds[i] = "texts" => /\ f[i] \in Seq(Seq(Nat)) /\ CellSeq(t, f)[i] = FlattenSeq(f[i])
                                 /\ LenSeq(t, f)[i] = [j \in DOMAIN f[i] |-> Len(f[i][j])]
        /\ kinds[i] \in {"num", "text"} \/ (kinds[i] = "texts" /\ i = n)
  BY <1>5, Zenon
<1> QED
  BY <1>3, <1>6, <1>7, Zenon DEF kinds

-----------------------------------------------------------------------------
(* What lies where *)

\* The cells v lie in data behind the cursor c; the lengths s in ls behind the index x.
Laid(data, c, v) == c \in Nat /\ Len(data) \in Nat /\ \A j \in 1..Len(v) : c + j <= Len(data) /\ data[c + j] = v[j]
Told(ls, x, s) == x \in Nat /\ \A j \in 1..Len(s) : ls[x + j] = s[j]

\* A slice is what lies there.
LEMMA LaidSlice ==
  ASSUME NEW data, NEW c, NEW v \in Seq(Nat), Laid(data, c, v)
  PROVE  Slice(data, c, Len(v)) = v
<1>1. Len(data) \in Nat /\ c \in Nat /\ \A j \in 1..Len(v) : c + j <= Len(data) /\ data[c + j] = v[j]
  BY DEF Laid
<1>2. v = [j \in 1..Len(v) |-> v[j]]
  OBVIOUS
<1>3. \A j \in 1..Len(v) : (IF c + j <= Len(data) THEN data[c + j] ELSE Junk) = v[j]
  BY <1>1, Zenon
<1>4. Slice(data, c, Len(v)) = [j \in 1..Len(v) |-> v[j]]
  BY <1>3, Zenon DEF Slice
<1> QED
  BY <1>2, <1>4, Zenon

\* A part of what lies there lies where the parts before it end.
LEMMA PartLaid ==
  ASSUME NEW data, NEW c, NEW q \in Seq(Seq(Nat)), NEW k \in 0..(Len(q) - 1), Laid(data, c, FlattenSeq(q))
  PROVE  Laid(data, c + Len(First(q, k)), q[k + 1])
<1> DEFINE p == Len(First(q, k))
           v == q[k + 1]
           w == FlattenSeq(q)
<1>1. First(q, k) \in Seq(Nat) /\ v \in Seq(Nat) /\ \A j \in 1..Len(v) : p + j \in 1..Len(w) /\ w[p + j] = v[j]
  BY NextPart
<1>2. p \in Nat /\ Len(v) \in Nat /\ c \in Nat /\ Len(data) \in Nat
  BY <1>1 DEF Laid
<1>3. \A j \in 1..Len(w) : c + j <= Len(data) /\ data[c + j] = w[j]
  BY DEF Laid
<1> HIDE DEF p, v, w
<1>4. ASSUME NEW j \in 1..Len(v) PROVE (c + p) + j <= Len(data) /\ data[(c + p) + j] = v[j]
  <2>1. p + j \in 1..Len(w) /\ w[p + j] = v[j]
    BY <1>1
  <2>2. c + (p + j) <= Len(data) /\ data[c + (p + j)] = v[j]
    BY <1>3, <2>1
  <2>3. c + (p + j) = (c + p) + j
    BY <1>2
  <2> QED
    BY <2>2, <2>3
<1>5. c + p \in Nat
  BY <1>2
<1>6. Laid(data, c + p, v)
  BY <1>2, <1>4, <1>5 DEF Laid
<1> QED
  BY <1>6 DEF p, v

\* A part of the lengths is where the parts before it end.
LEMMA PartTold ==
  ASSUME NEW ls, NEW x, NEW q \in Seq(Seq(Nat)), NEW k \in 0..(Len(q) - 1), Told(ls, x, FlattenSeq(q))
  PROVE  Told(ls, x + Len(First(q, k)), q[k + 1])
<1> DEFINE p == Len(First(q, k))
           v == q[k + 1]
           w == FlattenSeq(q)
<1>1. First(q, k) \in Seq(Nat) /\ v \in Seq(Nat) /\ \A j \in 1..Len(v) : p + j \in 1..Len(w) /\ w[p + j] = v[j]
  BY NextPart
<1>2. p \in Nat /\ Len(v) \in Nat /\ x \in Nat
  BY <1>1 DEF Told
<1>3. \A j \in 1..Len(w) : ls[x + j] = w[j]
  BY DEF Told
<1> HIDE DEF p, v, w
<1>4. ASSUME NEW j \in 1..Len(v) PROVE ls[(x + p) + j] = v[j]
  <2>1. p + j \in 1..Len(w) /\ w[p + j] = v[j]
    BY <1>1
  <2>2. ls[x + (p + j)] = v[j]
    BY <1>3, <2>1
  <2>3. x + (p + j) = (x + p) + j
    BY <1>2
  <2> QED
    BY <2>2, <2>3
<1>5. x + p \in Nat
  BY <1>2
<1>6. Told(ls, x + p, v)
  BY <1>4, <1>5 DEF Told
<1> QED
  BY <1>6 DEF p, v

\* Where a read of the members f is when k of them were popped.
Cursor(t, f, c, k) == c + Len(First(CellSeq(t, f), k))
Index(t, f, x, k) == x + Len(First(LenSeq(t, f), k))

\* Sums of three, hidden from the arithmetic of longer terms.
LEMMA AddOn ==
  ASSUME NEW u \in Nat, NEW v \in Nat, NEW w \in Nat, NEW e, e = v + w
  PROVE  u + v \in Nat /\ u + e = (u + v) + w
  OBVIOUS

\* How long the first k + 1 parts are.
LEMMA PartAdds ==
  \A q \in Seq(Seq(Nat)) : \A k \in 0..(Len(q) - 1) :
    First(q, k) \in Seq(Nat) /\ q[k + 1] \in Seq(Nat) /\ Len(First(q, k + 1)) = Len(First(q, k)) + Len(q[k + 1])
  BY NextPart

\* Cursor and index move by what the member has added.
LEMMA CursorMoves ==
  ASSUME NEW t \in DOMAIN MembersOf, NEW f, Fit(t, f), NEW c \in Nat, NEW x \in Nat, NEW k \in 0..(Len(MembersOf[t]) - 1)
  PROVE  /\ Cursor(t, f, c, k) \in Nat /\ Index(t, f, x, k) \in Nat
         /\ Cursor(t, f, c, k + 1) = Cursor(t, f, c, k) + Len(CellSeq(t, f)[k + 1])
         /\ Index(t, f, x, k + 1) = Index(t, f, x, k) + Len(LenSeq(t, f)[k + 1])
<1> DEFINE K == CellSeq(t, f)
           S == LenSeq(t, f)
           n == Len(MembersOf[t])
<1>1. K \in Seq(Seq(Nat)) /\ S \in Seq(Seq(Nat)) /\ Len(K) = n /\ Len(S) = n /\ n \in Nat
  BY SeqsOfMembers
<1>k. k \in 0..(Len(K) - 1) /\ k \in 0..(Len(S) - 1)
  BY <1>1
<1> HIDE DEF K, S
<1>2. First(K, k) \in Seq(Nat) /\ K[k + 1] \in Seq(Nat) /\ Len(First(K, k + 1)) = Len(First(K, k)) + Len(K[k + 1])
  BY <1>1, <1>k, PartAdds
<1>3. First(S, k) \in Seq(Nat) /\ S[k + 1] \in Seq(Nat) /\ Len(First(S, k + 1)) = Len(First(S, k)) + Len(S[k + 1])
  BY <1>1, <1>k, PartAdds
<1>4. Len(First(K, k)) \in Nat /\ Len(K[k + 1]) \in Nat /\ Len(First(S, k)) \in Nat /\ Len(S[k + 1]) \in Nat
  BY <1>2, <1>3
<1> DEFINE a == Len(First(K, k))
           b == Len(K[k + 1])
           e == Len(First(K, k + 1))
           p == Len(First(S, k))
           q == Len(S[k + 1])
           r == Len(First(S, k + 1))
<1>b. a \in Nat /\ b \in Nat /\ e = a + b /\ p \in Nat /\ q \in Nat /\ r = p + q
  BY <1>2, <1>3, <1>4
<1> HIDE DEF a, b, e, p, q, r, n
<1>5. c + a \in Nat /\ c + e = (c + a) + b
  BY <1>b, AddOn
<1>6. x + p \in Nat /\ x + r = (x + p) + q
  BY <1>b, AddOn
<1> QED
  BY <1>5, <1>6 DEF Cursor, Index, K, S, a, b, e, p, q, r

\* popMember takes a primitive, a string or a vector of primitives off the bytes.
LEMMA MemberRead ==
  ASSUME NEW t \in DOMAIN MembersOf, NEW f, Fit(t, f), NEW data, NEW c0, NEW ls, NEW x0,
         Laid(data, c0, FlattenSeq(CellSeq(t, f))), Told(ls, x0, FlattenSeq(LenSeq(t, f))),
         NEW k \in 0..(Len(MembersOf[t]) - 1), MembersOf[t][k + 1] # "texts",
         NEW nm, NEW g, NEW l, NEW z
  PROVE  PopMember(Reader(Obj(t, nm, g, l, ls, z, Index(t, f, x0, k)), Cursor(t, f, c0, k)), data, k + 1)
           = Reader(Obj(t, nm, Put(g, k + 1, f[k + 1]), l, ls, z, Index(t, f, x0, k + 1)), Cursor(t, f, c0, k + 1))
<1> DEFINE K == CellSeq(t, f)
           S == LenSeq(t, f)
           n == Len(MembersOf[t])
           i == k + 1
           c == Cursor(t, f, c0, k)
           x == Index(t, f, x0, k)
           st == Reader(Obj(t, nm, g, l, ls, z, x), c)
<1>1. K \in Seq(Seq(Nat)) /\ S \in Seq(Seq(Nat)) /\ Len(K) = n /\ Len(S) = n /\ n \in Nat
  BY SeqsOfMembers
<1>2. i \in 1..n
  BY <1>1
<1>3. c0 \in Nat /\ x0 \in Nat
  BY DEF Laid, Told
<1>4. /\ c \in Nat /\ x \in Nat
      /\ Cursor(t, f, c0, k + 1) = c + Len(K[i]) /\ Index(t, f, x0, k + 1) = x + Len(S[i])
  BY <1>3, CursorMoves
<1>5. Laid(data, c, K[i]) /\ Told(ls, x, S[i])
  BY <1>1, PartLaid, PartTold DEF Cursor, Index
<1>6. st.o.type = t
  BY DEF Reader, Obj
<1>7. MembersOf[t][i] \in {"num", "text"}
  BY <1>2, SeqsOfMembers
<1>8. CASE MembersOf[t][i] = "num"
  <2>1. f[i] \in Nat /\ K[i] = <<f[i]>> /\ S[i] = <<>>
    BY <1>2, <1>8, SeqsOfMembers
  <2>2. Len(K[i]) = 1 /\ Len(S[i]) = 0 /\ K[i][1] = f[i]
    BY <2>1
  <2>3. Cursor(t, f, c0, k + 1) = c + 1 /\ Index(t, f, x0, k + 1) = x
    BY <1>4, <2>2
  <2>4. Slice(data, c, 1)[1] = f[i]
    <3>1. c + 1 <= Len(data) /\ data[c + 1] = f[i]
      BY <1>5, <2>2 DEF Laid
    <3> HIDE DEF c
    <3> QED
      BY <3>1 DEF Slice
  <2>5. PopMember(st, data, i) = PopNum(st, data, i)
    <3> HIDE DEF st, i
    <3> QED
      BY <1>6, <1>8 DEF PopMember
  <2> HIDE DEF i, c, x
  <2>6. PopNum(st, data, i) = Reader(Obj(t, nm, Put(g, i, Slice(data, c, 1)[1]), l, ls, z, x), c + 1)
    BY PopNumObj
  <2> QED
    BY <2>3, <2>4, <2>5, <2>6 DEF i, c, x
<1>9. CASE MembersOf[t][i] = "text"
  <2>1. f[i] \in Seq(Nat) /\ K[i] = f[i] /\ S[i] = <<Len(f[i])>>
    BY <1>2, <1>9, SeqsOfMembers
  <2>2. Len(S[i]) = 1 /\ S[i][1] = Len(f[i])
    BY <2>1
  <2>3. ls[x + 1] = Len(f[i])
    BY <1>5, <2>2 DEF Told
  <2>4. Cursor(t, f, c0, k + 1) = c + ls[x + 1] /\ Index(t, f, x0, k + 1) = x + 1
    BY <1>4, <2>1, <2>2, <2>3
  <2>5. Slice(data, c, ls[x + 1]) = f[i]
    <3> DEFINE v == f[i]
    <3>1. v \in Seq(Nat) /\ Laid(data, c, v) /\ ls[x + 1] = Len(v)
      BY <1>5, <2>1, <2>3
    <3> HIDE DEF v, c, x
    <3>3. Slice(data, c, Len(v)) = v
      BY <3>1, LaidSlice
    <3> QED
      BY <3>1, <3>3 DEF v
  <2>6. PopMember(st, data, i) = PopText(st, data, i)
    <3> HIDE DEF st, i
    <3> QED
      BY <1>6, <1>9 DEF PopMember
  <2> HIDE DEF i, c, x
  <2>7. PopText(st, data, i) = Reader(Obj(t, nm, Put(g, i, Slice(data, c, ls[x + 1])), l, ls, z, x + 1), c + ls[x + 1])
    BY PopTextObj
  <2> QED
    BY <2>4, <2>5, <2>6, <2>7 DEF i, c, x
<1> QED
  BY <1>7, <1>8, <1>9

-----------------------------------------------------------------------------
(* A vector of strings *)

\* The first elements of a sequence, one more.
LEMMA SubSeqNext ==
  ASSUME NEW A, NEW q \in Seq(A), NEW k \in 0..(Len(q) - 1)
  PROVE  SubSeq(q, 1, k + 1) = Append(SubSeq(q, 1, k), q[k + 1])
<1> DEFINE u == SubSeq(q, 1, k)
           v == SubSeq(q, 1, k + 1)
           c == q[k + 1]
           w == Append(u, c)
<1>1. u \in Seq(A) /\ Len(u) = k /\ \A i \in 1..k : u[i] = q[i]
  OBVIOUS
<1>2. v \in Seq(A) /\ Len(v) = k + 1 /\ \A i \in 1..(k + 1) : v[i] = q[i]
  OBVIOUS
<1>3. c \in A
  OBVIOUS
<1> HIDE DEF u, v, c
<1>4. w \in Seq(A) /\ Len(w) = k + 1 /\ \A i \in 1..(k + 1) : w[i] = IF i = k + 1 THEN c ELSE u[i]
  BY <1>1, <1>3
<1>5. \A i \in 1..(k + 1) : v[i] = IF i = k + 1 THEN c ELSE u[i]
  BY <1>1, <1>2 DEF c
<1> HIDE DEF w
<1>6. v = w
  BY <1>2, <1>4, <1>5, SeqEqual
<1> QED
  BY <1>6 DEF u, v, w, c

\* A function of the places up to n.
FcnTo(g, n) == g = [a \in 1..n |-> g[a]]

\* The member i of g with the first j strings of v in it.
Filled(g, i, v, j) == [g EXCEPT ![i] = SubSeq(v, 1, j)]

\* Before the first string the vector is empty,
LEMMA FilledNone ==
  ASSUME NEW n \in Nat, NEW g, FcnTo(g, n), NEW i \in 1..n, g[i] = <<>>, NEW v \in Seq(Seq(Nat))
  PROVE  Filled(g, i, v, 0) = g
<1>1. SubSeq(v, 1, 0) = <<>> /\ g = [a \in 1..n |-> g[a]]
  BY DEF FcnTo
<1> QED
  BY <1>1 DEF Filled

\* behind the last one it holds all,
LEMMA FilledAll ==
  ASSUME NEW g, NEW i, NEW v \in Seq(Seq(Nat))
  PROVE  Filled(g, i, v, Len(v)) = Put(g, i, v)
<1>1. SubSeq(v, 1, Len(v)) = v
  OBVIOUS
<1> QED
  BY <1>1 DEF Filled, Put

\* and each string is appended to the ones before.
LEMMA FilledNext ==
  ASSUME NEW n \in Nat, NEW g, FcnTo(g, n), NEW i \in 1..n, NEW v \in Seq(Seq(Nat)), NEW j \in 0..(Len(v) - 1),
         NEW w, w = v[j + 1]
  PROVE  Put(Filled(g, i, v, j), i, Append(Filled(g, i, v, j)[i], w)) = Filled(g, i, v, j + 1)
<1> DEFINE a == SubSeq(v, 1, j)
           b == SubSeq(v, 1, j + 1)
<1>0. g = [y \in 1..n |-> g[y]]
  BY DEF FcnTo
<1>1. b = Append(a, w)
  BY SubSeqNext
<1> HIDE DEF a, b
<1>2. Filled(g, i, v, j) = [g EXCEPT ![i] = a] /\ Filled(g, i, v, j + 1) = [g EXCEPT ![i] = b]
  BY DEF Filled, a, b
<1>3. [g EXCEPT ![i] = a][i] = a /\ [[g EXCEPT ![i] = a] EXCEPT ![i] = b] = [g EXCEPT ![i] = b]
  BY <1>0
<1> QED
  BY <1>1, <1>2, <1>3 DEF Put

\* popMember takes a vector of strings off the bytes, if the lengths from the index
\* on are those of its strings and no others.
LEMMA TextsRead ==
  ASSUME NEW t, NEW nm, NEW n \in Nat, NEW g, FcnTo(g, n), NEW i \in 1..n, g[i] = <<>>,
         NEW v \in Seq(Seq(Nat)), NEW data, NEW c, Laid(data, c, FlattenSeq(v)),
         NEW ls, NEW x, Told(ls, x, [j \in DOMAIN v |-> Len(v[j])]), NEW z, z = x + Len(v), NEW l
  PROVE  PopTexts(Reader(Obj(t, nm, g, l, ls, z, x), c), data, i)
           = Reader(Obj(t, nm, Put(g, i, v), l, ls, z, x), c + Len(FlattenSeq(v)))
<1> DEFINE m == Len(v)
           st == Reader(Obj(t, nm, g, l, ls, z, x), c)
<1>1. m \in Nat /\ x \in Nat /\ c \in Nat /\ Len(data) \in Nat /\ z - x = m /\ i # 0
  BY DEF Told, Laid
<1>2. st.o.size = z /\ st.o.index = x
  BY DEF Reader, Obj
<1>3. PICK cc : Reading(i, x, st, data, m, cc) /\ PopTexts(st, data, i) = cc[m]
  <2> HIDE DEF st, m
  <2>1. m \in Nat /\ i # 0 /\ x = st.o.index /\ z = st.o.size /\ m = z - x
    BY <1>1, <1>2
  <2>2. Takes(st, data, i, x, m)
    BY <2>1, PopTextsTakes
  <2> QED
    BY <2>2 DEF Takes
<1> DEFINE At(j) == Reader(Obj(t, nm, Filled(g, i, v, j), l, ls, z, x), c + Len(First(v, j)))
           T == {j \in Nat : j <= m => cc[j] = At(j)}
<1>4. First(v, 0) = <<>> /\ First(v, m) = FlattenSeq(v)
  BY FirstParts
<1>5. 0 \in T
  <2>1. cc[0] = st
    BY <1>3 DEF Reading
  <2>2. Filled(g, i, v, 0) = g
    BY FilledNone
  <2>3. c + Len(First(v, 0)) = c
    BY <1>1, <1>4
  <2> QED
    BY <2>1, <2>2, <2>3
<1>6. ASSUME NEW j \in Nat, j \in T PROVE j + 1 \in T
  <2>1. SUFFICES ASSUME j + 1 <= m PROVE cc[j + 1] = At(j + 1)
    OBVIOUS
  <2>2. j \in 0..(m - 1) /\ j + 1 \in 1..m
    BY <1>1, <2>1
  <2>3. cc[j] = At(j)
    BY <1>1, <1>6, <2>2
  <2>4. cc[j + 1] = PopOne(cc[j], data, i, x + (j + 1))
    <3>1. cc[j + 1] = ReadStep(i, x, cc[j], data, j + 1)
      BY <1>3, <2>2 DEF Reading
    <3> QED
      BY <1>1, <3>1 DEF ReadStep
  <2> DEFINE F == Filled(g, i, v, j)
             p == c + Len(First(v, j))
             w == v[j + 1]
             y == x + (j + 1)
  <2>5. ls[y] = Len(w)
    <3> DEFINE s == [a \in DOMAIN v |-> Len(v[a])]
    <3>1. Len(s) = m /\ s[j + 1] = Len(w)
      BY <2>2
    <3>2. Told(ls, x, s)
      OBVIOUS
    <3> HIDE DEF s, w
    <3> QED
      BY <2>2, <3>1, <3>2 DEF Told
  <2>6. Laid(data, p, w) /\ w \in Seq(Nat)
    BY <2>2, PartLaid
  <2>7. Slice(data, p, Len(w)) = w
    <3> HIDE DEF p, w
    <3> QED
      BY <2>6, LaidSlice
  <2>8. PopOne(Reader(Obj(t, nm, F, l, ls, z, x), p), data, i, y)
          = Reader(Obj(t, nm, Put(F, i, Append(F[i], Slice(data, p, ls[y]))), l, ls, z, x), p + ls[y])
    <3> HIDE DEF F, p, y
    <3> QED
      BY PopOneObj
  <2>9. Put(F, i, Append(F[i], w)) = Filled(g, i, v, j + 1)
    <3>1. \A e : e = v[j + 1] => Put(Filled(g, i, v, j), i, Append(Filled(g, i, v, j)[i], e)) = Filled(g, i, v, j + 1)
      BY <2>2, FilledNext
    <3> QED
      BY <3>1
  <2>10. p + Len(w) = c + Len(First(v, j + 1))
    <3>1. First(v, j) \in Seq(Nat) /\ Len(First(v, j + 1)) = Len(First(v, j)) + Len(w)
      BY <2>2, NextPart
    <3> DEFINE a == Len(First(v, j))
               b == Len(w)
               e == Len(First(v, j + 1))
    <3>2. a \in Nat /\ b \in Nat /\ e = a + b /\ c \in Nat
      BY <1>1, <2>6, <3>1
    <3> HIDE DEF a, b, e
    <3>3. c + e = (c + a) + b
      BY <3>2, AddOn
    <3> QED
      BY <3>3 DEF a, b, e
  <2> HIDE DEF F, p, w, y
  <2>11. cc[j + 1] = Reader(Obj(t, nm, Filled(g, i, v, j + 1), l, ls, z, x), p + Len(w))
    BY <2>3, <2>4, <2>5, <2>7, <2>8, <2>9 DEF F, p, y
  <2> QED
    BY <2>10, <2>11
<1> HIDE DEF T
<1>7. Nat \subseteq T
  BY <1>5, <1>6, SetInduction
<1>8. cc[m] = At(m)
  BY <1>1, <1>7 DEF T
<1>9. Filled(g, i, v, m) = Put(g, i, v)
  BY FilledAll
<1> QED
  BY <1>3, <1>4, <1>8, <1>9

-----------------------------------------------------------------------------
(* All members *)

\* The first k members read, the others as they were.
Mix(f, old, k, n) == [i \in 1..n |-> IF i <= k THEN f[i] ELSE old[i]]

\* It goes from old to f member by member.
Mixes(f, old, n) ==
  /\ Mix(f, old, 0, n) = old /\ Mix(f, old, n, n) = f
  /\ \A k \in 0..(n - 1) : Put(Mix(f, old, k, n), k + 1, f[k + 1]) = Mix(f, old, k + 1, n)
  /\ \A k \in 0..n : FcnTo(Mix(f, old, k, n), n)
  /\ \A k \in 0..(n - 1) : Mix(f, old, k, n)[k + 1] = old[k + 1]

\* One more member is read.
LEMMA MixNext ==
  ASSUME NEW n \in Nat, NEW f, FcnTo(f, n), NEW old, FcnTo(old, n)
  PROVE  Mixes(f, old, n)
<1>1. f = [i \in 1..n |-> f[i]] /\ old = [i \in 1..n |-> old[i]]
  BY DEF FcnTo
<1>2. Mix(f, old, 0, n) = old
  <2>1. \A i \in 1..n : (IF i <= 0 THEN f[i] ELSE old[i]) = old[i]
    OBVIOUS
  <2> QED
    BY <1>1, <2>1 DEF Mix
<1>3. Mix(f, old, n, n) = f
  <2>1. \A i \in 1..n : (IF i <= n THEN f[i] ELSE old[i]) = f[i]
    OBVIOUS
  <2> QED
    BY <1>1, <2>1 DEF Mix
<1>4. ASSUME NEW k \in 0..(n - 1) PROVE Put(Mix(f, old, k, n), k + 1, f[k + 1]) = Mix(f, old, k + 1, n)
  <2>1. \A i \in 1..n : (IF i = k + 1 THEN f[k + 1] ELSE IF i <= k THEN f[i] ELSE old[i]) = (IF i <= k + 1 THEN f[i] ELSE old[i])
    OBVIOUS
  <2>2. Put(Mix(f, old, k, n), k + 1, f[k + 1]) = [i \in 1..n |-> IF i = k + 1 THEN f[k + 1] ELSE IF i <= k THEN f[i] ELSE old[i]]
    BY DEF Put, Mix
  <2> QED
    BY <2>1, <2>2 DEF Mix
<1>5. \A k \in 0..n : FcnTo(Mix(f, old, k, n), n)
  BY DEF FcnTo, Mix
<1>6. \A k \in 0..(n - 1) : Mix(f, old, k, n)[k + 1] = old[k + 1]
  BY DEF Mix
<1> QED
  BY <1>2, <1>3, <1>4, <1>5, <1>6 DEF Mixes

\* None of the first j members is a vector of strings.
Plain(t, j) == \A i \in 1..j : MembersOf[t][i] # "texts"

\* A read that has popped the first k members.
At(t, nm, f, old, l, ls, z, x0, c0, k) ==
  Reader(Obj(t, nm, Mix(f, old, k, Len(MembersOf[t])), l, ls, z, Index(t, f, x0, k)), Cursor(t, f, c0, k))

\* Every step of it is right as long as the members are plain.
LEMMA PlainRead ==
  ASSUME NEW t \in DOMAIN MembersOf, NEW f, Fit(t, f), NEW n, n = Len(MembersOf[t]), NEW old, FcnTo(old, n),
         NEW data, NEW c0, NEW ls, NEW x0,
         Laid(data, c0, FlattenSeq(CellSeq(t, f))), Told(ls, x0, FlattenSeq(LenSeq(t, f))),
         NEW nm, NEW l, NEW z, NEW c, Reading(0, 0, Reader(Obj(t, nm, old, l, ls, z, x0), c0), data, n, c)
  PROVE  \A k \in 0..n : Plain(t, k) => c[k] = At(t, nm, f, old, l, ls, z, x0, c0, k)
<1> DEFINE K == CellSeq(t, f)
           S == LenSeq(t, f)
           P(k) == At(t, nm, f, old, l, ls, z, x0, c0, k)
           T == {k \in Nat : k <= n /\ Plain(t, k) => c[k] = P(k)}
<1>1. K \in Seq(Seq(Nat)) /\ S \in Seq(Seq(Nat)) /\ n \in Nat /\ c0 \in Nat /\ x0 \in Nat
  BY SeqsOfMembers DEF Laid, Told
<1>2. FcnTo(f, n)
  BY DEF Fit, FcnTo
<1>3. 0 \in T
  <2>1. c[0] = Reader(Obj(t, nm, old, l, ls, z, x0), c0)
    BY DEF Reading
  <2>2. Mix(f, old, 0, n) = old
    BY <1>1, <1>2, MixNext DEF Mixes
  <2>3. Cursor(t, f, c0, 0) = c0 /\ Index(t, f, x0, 0) = x0
    <3> HIDE DEF K, S
    <3>1. First(K, 0) = <<>> /\ First(S, 0) = <<>>
      BY <1>1, FirstParts
    <3>3. Len(<<>>) = 0 /\ c0 + 0 = c0 /\ x0 + 0 = x0
      BY <1>1
    <3>2. c0 + Len(First(K, 0)) = c0 /\ x0 + Len(First(S, 0)) = x0
      BY <3>1, <3>3, Zenon
    <3> QED
      BY <3>2 DEF Cursor, Index, K, S
  <2> QED
    BY <2>1, <2>2, <2>3 DEF At
<1>4. ASSUME NEW k \in Nat, k \in T PROVE k + 1 \in T
  <2>1. SUFFICES ASSUME k + 1 <= n, Plain(t, k + 1) PROVE c[k + 1] = P(k + 1)
    OBVIOUS
  <2>2. k \in 0..(n - 1) /\ k <= n
    BY <1>1, <2>1
  <2>3. Plain(t, k) /\ MembersOf[t][k + 1] # "texts"
    BY <2>1 DEF Plain
  <2>4. c[k] = P(k)
    BY <1>4, <2>2, <2>3
  <2>5. c[k + 1] = PopMember(c[k], data, k + 1)
    BY <2>2 DEF Reading, ReadStep
  <2> DEFINE g == Mix(f, old, k, n)
  <2>6. Put(g, k + 1, f[k + 1]) = Mix(f, old, k + 1, n)
    BY <1>1, <1>2, <2>2, MixNext DEF Mixes
  <2> HIDE DEF g, T
  <2>7. PopMember(Reader(Obj(t, nm, g, l, ls, z, Index(t, f, x0, k)), Cursor(t, f, c0, k)), data, k + 1)
          = Reader(Obj(t, nm, Put(g, k + 1, f[k + 1]), l, ls, z, Index(t, f, x0, k + 1)), Cursor(t, f, c0, k + 1))
    BY <2>2, <2>3, MemberRead
  <2> QED
    BY <2>4, <2>5, <2>6, <2>7 DEF At, g
<1> HIDE DEF T
<1>5. Nat \subseteq T
  BY <1>3, <1>4, SetInduction
<1>6. \A k \in 0..n : k \in Nat /\ k <= n
  BY <1>1
<1> QED
  BY <1>5, <1>6 DEF T

\* Where a read of all members ends.
LEMMA ReadEnds ==
  ASSUME NEW t \in DOMAIN MembersOf, NEW f, Fit(t, f), NEW n, n = Len(MembersOf[t]), NEW x0
  PROVE  Index(t, f, x0, n) = x0 + Len(FlattenSeq(LenSeq(t, f)))
<1> DEFINE S == LenSeq(t, f)
<1>1. S \in Seq(Seq(Nat)) /\ Len(S) = n
  BY SeqsOfMembers
<1> HIDE DEF S
<1>2. First(S, n) = FlattenSeq(S)
  BY <1>1, FirstParts
<1> QED
  BY <1>2 DEF Index, S

\* An object without a vector of strings gets the members that were sent, and its
\* index goes over their lengths.
LEMMA ReadsPlain ==
  ASSUME NEW t \in DOMAIN MembersOf, NEW f, Fit(t, f), NEW n, n = Len(MembersOf[t]), NEW old, FcnTo(old, n),
         NEW data, NEW c0, NEW ls, NEW x0,
         Laid(data, c0, FlattenSeq(CellSeq(t, f))), Told(ls, x0, FlattenSeq(LenSeq(t, f))),
         NEW nm, NEW l, NEW z, NEW c, Reading(0, 0, Reader(Obj(t, nm, old, l, ls, z, x0), c0), data, n, c),
         Plain(t, n)
  PROVE  c[n].o = Obj(t, nm, f, l, ls, z, x0 + Len(FlattenSeq(LenSeq(t, f))))
<1>1. n \in Nat /\ n \in 0..n /\ FcnTo(f, n)
  BY SeqsOfMembers DEF Fit, FcnTo
<1>2. \A k \in 0..n : Plain(t, k) => c[k] = At(t, nm, f, old, l, ls, z, x0, c0, k)
  BY PlainRead
<1>3. c[n] = At(t, nm, f, old, l, ls, z, x0, c0, n)
  BY <1>1, <1>2
<1>4. Mix(f, old, n, n) = f
  BY <1>1, MixNext DEF Mixes
<1>5. Index(t, f, x0, n) = x0 + Len(FlattenSeq(LenSeq(t, f)))
  BY ReadEnds
<1>6. c[n] = Reader(Obj(t, nm, f, l, ls, z, Index(t, f, x0, n)), Cursor(t, f, c0, n))
  BY <1>3, <1>4 DEF At
<1> QED
  BY <1>5, <1>6 DEF Reader

\* So does a new object, whose vector of strings is empty, if the lengths are only these.
LEMMA ReadsNew ==
  ASSUME NEW t \in DOMAIN MembersOf, NEW f, Fit(t, f), NEW n, n = Len(MembersOf[t]), NEW old, FcnTo(old, n),
         NEW data, NEW c0, NEW ls, NEW x0,
         Laid(data, c0, FlattenSeq(CellSeq(t, f))), Told(ls, x0, FlattenSeq(LenSeq(t, f))),
         NEW nm, NEW l, NEW z, NEW c, Reading(0, 0, Reader(Obj(t, nm, old, l, ls, z, x0), c0), data, n, c),
         Plain(t, n) \/ (old[n] = <<>> /\ z = x0 + Len(FlattenSeq(LenSeq(t, f))))
  PROVE  c[n].o.fields = f
<1>1. CASE Plain(t, n)
  <2>1. c[n].o = Obj(t, nm, f, l, ls, z, x0 + Len(FlattenSeq(LenSeq(t, f))))
    BY <1>1, ReadsPlain
  <2> QED
    BY <2>1 DEF Obj
<1>2. CASE ~Plain(t, n)
  <2> DEFINE K == CellSeq(t, f)
             S == LenSeq(t, f)
             k == n - 1
             v == f[n]
             g == Mix(f, old, k, n)
             p == Cursor(t, f, c0, k)
             x == Index(t, f, x0, k)
  <2>1. /\ K \in Seq(Seq(Nat)) /\ S \in Seq(Seq(Nat)) /\ Len(K) = n /\ Len(S) = n /\ n \in Nat /\ c0 \in Nat /\ x0 \in Nat
        /\ FcnTo(f, n)
    BY SeqsOfMembers DEF Laid, Told, Fit, FcnTo
  <2>2. PICK i \in 1..n : MembersOf[t][i] = "texts"
    BY <1>2 DEF Plain
  <2>3. i = n
    BY <2>2, SeqsOfMembers
  <2>4. MembersOf[t][n] = "texts" /\ n \in 1..n /\ k \in 0..(n - 1) /\ k \in 0..n /\ k + 1 = n
    BY <2>1, <2>2, <2>3
  <2>5. Plain(t, k)
    <3>1. ASSUME NEW j \in 1..k PROVE MembersOf[t][j] # "texts"
      <4>1. j \in 1..n /\ j # n
        BY <2>1, <2>4
      <4> QED
        BY <4>1, SeqsOfMembers
    <3> QED
      BY <3>1 DEF Plain
  <2>6. \A j \in 0..n : Plain(t, j) => c[j] = At(t, nm, f, old, l, ls, z, x0, c0, j)
    BY PlainRead
  <2>7. c[k] = Reader(Obj(t, nm, g, l, ls, z, x), p)
    BY <2>4, <2>5, <2>6 DEF At
  <2>8. v \in Seq(Seq(Nat)) /\ K[n] = FlattenSeq(v) /\ S[n] = [j \in DOMAIN v |-> Len(v[j])]
    BY <2>4, SeqsOfMembers
  <2>9. FcnTo(g, n) /\ g[n] = <<>> /\ Put(g, n, v) = f
    <3>1. /\ FcnTo(g, n) /\ g[k + 1] = old[k + 1] /\ Put(g, k + 1, f[k + 1]) = Mix(f, old, k + 1, n)
          /\ Mix(f, old, n, n) = f
      <4>1. /\ Mix(f, old, n, n) = f
            /\ \A j \in 0..(n - 1) : Put(Mix(f, old, j, n), j + 1, f[j + 1]) = Mix(f, old, j + 1, n)
            /\ \A j \in 0..n : FcnTo(Mix(f, old, j, n), n)
            /\ \A j \in 0..(n - 1) : Mix(f, old, j, n)[j + 1] = old[j + 1]
        <5>1. Mixes(f, old, n)
          BY <2>1, MixNext
        <5> QED
          BY <5>1 DEF Mixes
      <4> HIDE DEF k
      <4>2. FcnTo(g, n)
        BY <2>4, <4>1
      <4>3. g[k + 1] = old[k + 1]
        BY <2>4, <4>1
      <4>4. Put(g, k + 1, f[k + 1]) = Mix(f, old, k + 1, n)
        BY <2>4, <4>1
      <4> QED
        BY <4>1, <4>2, <4>3, <4>4
    <3>2. old[n] = <<>>
      BY <1>2
    <3> HIDE DEF g, k
    <3> QED
      BY <2>4, <3>1, <3>2
  <2>10. Laid(data, p, FlattenSeq(v)) /\ Told(ls, x, [j \in DOMAIN v |-> Len(v[j])])
    <3>1. Laid(data, p, K[k + 1]) /\ Told(ls, x, S[k + 1])
      BY <2>1, <2>4, PartLaid, PartTold DEF Cursor, Index
    <3> HIDE DEF p, x, K, S, v, k
    <3> QED
      BY <2>4, <2>8, <3>1
  <2>11. z = x + Len(v)
    <3>1. Len(S[n]) = Len(v)
      <4> HIDE DEF v, S
      <4> QED
        BY <2>8
    <3>2. Index(t, f, x0, k + 1) = x + Len(S[k + 1])
      <4>1. \A j \in 0..(n - 1) : Index(t, f, x0, j + 1) = Index(t, f, x0, j) + Len(S[j + 1])
        BY <2>1, CursorMoves
      <4> HIDE DEF k, S
      <4> QED
        BY <2>4, <4>1
    <3>3. Index(t, f, x0, n) = x0 + Len(FlattenSeq(LenSeq(t, f)))
      BY ReadEnds
    <3> HIDE DEF x, S, v, k
    <3> QED
      BY <1>2, <2>4, <3>1, <3>2, <3>3
  <2>12. c[k + 1] = PopMember(c[k], data, k + 1)
    BY <2>4 DEF Reading, ReadStep
  <2> HIDE DEF k, v, g, p, x, K, S
  <2>13. PopTexts(Reader(Obj(t, nm, g, l, ls, z, x), p), data, n)
           = Reader(Obj(t, nm, Put(g, n, v), l, ls, z, x), p + Len(FlattenSeq(v)))
    BY <2>1, <2>4, <2>8, <2>9, <2>10, <2>11, TextsRead
  <2>14. PopMember(c[k], data, n) = PopTexts(c[k], data, n)
    <3>1. c[k].o.type = t
      BY <2>7 DEF Reader, Obj
    <3> QED
      BY <2>4, <3>1 DEF PopMember
  <2>15. c[n] = Reader(Obj(t, nm, f, l, ls, z, x), p + Len(FlattenSeq(v)))
    BY <2>4, <2>7, <2>9, <2>12, <2>13, <2>14
  <2> QED
    BY <2>15 DEF Reader, Obj
<1> QED
  BY <1>1, <1>2

\* Whatever the bytes are, a read of plain members moves the index over as many
\* lengths as an object of the type counts.
LEMMA ReadMoves ==
  ASSUME NEW t \in DOMAIN MembersOf, NEW f, Fit(t, f), NEW n, n = Len(MembersOf[t]), NEW old, FcnTo(old, n), Plain(t, n),
         NEW data, NEW c0, NEW ls, NEW x0 \in Nat,
         NEW nm, NEW l, NEW z, NEW c, Reading(0, 0, Reader(Obj(t, nm, old, l, ls, z, x0), c0), data, n, c)
  PROVE  \E F : FcnTo(F, n) /\ c[n].o = Obj(t, nm, F, l, ls, z, x0 + Len(FlattenSeq(LenSeq(t, f))))
<1> DEFINE K == CellSeq(t, f)
           S == LenSeq(t, f)
           Some(k) == \E F, p : FcnTo(F, n) /\ c[k] = Reader(Obj(t, nm, F, l, ls, z, Index(t, f, x0, k)), p)
           T == {k \in Nat : k <= n => Some(k)}
<1>1. S \in Seq(Seq(Nat)) /\ n \in Nat /\ Len(S) = n
  BY SeqsOfMembers
<1>2. 0 \in T
  <2>1. c[0] = Reader(Obj(t, nm, old, l, ls, z, x0), c0)
    BY DEF Reading
  <2>2. Index(t, f, x0, 0) = x0
    <3> HIDE DEF S
    <3>1. First(S, 0) = <<>>
      BY <1>1, FirstParts
    <3>2. Len(<<>>) = 0 /\ x0 + 0 = x0
      OBVIOUS
    <3>3. x0 + Len(First(S, 0)) = x0
      BY <3>1, <3>2, Zenon
    <3> QED
      BY <3>3 DEF Index, S
  <2>3. Some(0)
    BY <2>1, <2>2
  <2> HIDE DEF Some
  <2> QED
    BY <2>3
<1>3. ASSUME NEW k \in Nat, k \in T PROVE k + 1 \in T
  <2>1. SUFFICES ASSUME k + 1 <= n PROVE Some(k + 1)
    OBVIOUS
  <2> DEFINE i == k + 1
             x == Index(t, f, x0, k)
  <2>2. k \in 0..(n - 1) /\ k <= n /\ i \in 1..n
    BY <1>1, <2>1
  <2>3. PICK F, p : FcnTo(F, n) /\ c[k] = Reader(Obj(t, nm, F, l, ls, z, x), p)
    BY <1>3, <2>2
  <2>4. c[i] = PopMember(c[k], data, i)
    BY <2>2 DEF Reading, ReadStep
  <2>5. MembersOf[t][i] \in {"num", "text"}
    BY <2>2, SeqsOfMembers DEF Plain
  <2>6. x \in Nat /\ Index(t, f, x0, k + 1) = x + Len(S[i])
    <3>1. 0 \in Nat
      OBVIOUS
    <3> QED
      BY <2>2, <3>1, CursorMoves
  <2>7. \A v : FcnTo(Put(F, i, v), n)
    <3> HIDE DEF i
    <3> QED
      BY <2>3 DEF Put, FcnTo
  <2>8. c[k].o.type = t
    BY <2>3 DEF Reader, Obj
  <2> HIDE DEF x, T
  <2>9. CASE MembersOf[t][i] = "num"
    <3>1. S[i] = <<>>
      BY <2>2, <2>9, SeqsOfMembers
    <3>2. Index(t, f, x0, k + 1) = x
      BY <2>6, <3>1
    <3> HIDE DEF i
    <3>3. PopMember(c[k], data, i) = PopNum(c[k], data, i)
      BY <2>8, <2>9 DEF PopMember
    <3>4. PopNum(Reader(Obj(t, nm, F, l, ls, z, x), p), data, i)
            = Reader(Obj(t, nm, Put(F, i, Slice(data, p, 1)[1]), l, ls, z, x), p + 1)
      BY PopNumObj
    <3>5. c[i] = Reader(Obj(t, nm, Put(F, i, Slice(data, p, 1)[1]), l, ls, z, Index(t, f, x0, k + 1)), p + 1)
      BY <2>3, <2>4, <3>2, <3>3, <3>4
    <3> QED
      BY <2>7, <3>5 DEF i
  <2>10. CASE MembersOf[t][i] = "text"
    <3>1. S[i] = <<Len(f[i])>>
      BY <2>2, <2>10, SeqsOfMembers
    <3>2. Index(t, f, x0, k + 1) = x + 1
      BY <2>6, <3>1
    <3> HIDE DEF i
    <3>3. PopMember(c[k], data, i) = PopText(c[k], data, i)
      BY <2>8, <2>10 DEF PopMember
    <3>4. PopText(Reader(Obj(t, nm, F, l, ls, z, x), p), data, i)
            = Reader(Obj(t, nm, Put(F, i, Slice(data, p, ls[x + 1])), l, ls, z, x + 1), p + ls[x + 1])
      BY PopTextObj
    <3>5. c[i] = Reader(Obj(t, nm, Put(F, i, Slice(data, p, ls[x + 1])), l, ls, z, Index(t, f, x0, k + 1)), p + ls[x + 1])
      BY <2>3, <2>4, <3>2, <3>3, <3>4
    <3> QED
      BY <2>7, <3>5 DEF i
  <2> QED
    BY <2>5, <2>9, <2>10
<1> HIDE DEF T, Some
<1>4. Nat \subseteq T
  BY <1>2, <1>3, SetInduction
<1>5. Some(n)
  BY <1>1, <1>4 DEF T
<1>6. PICK F, p : FcnTo(F, n) /\ c[n] = Reader(Obj(t, nm, F, l, ls, z, Index(t, f, x0, n)), p)
  BY <1>5 DEF Some
<1>7. Index(t, f, x0, n) = x0 + Len(FlattenSeq(LenSeq(t, f)))
  BY ReadEnds
<1>8. c[n].o = Obj(t, nm, F, l, ls, z, x0 + Len(FlattenSeq(LenSeq(t, f))))
  BY <1>6, <1>7 DEF Reader
<1> QED
  BY <1>6, <1>8

-----------------------------------------------------------------------------
(* The cells of a message *)

\* What two sequences make.
LEMMA ConcatAt ==
  ASSUME NEW u \in Seq(Nat), NEW v \in Seq(Nat), NEW w, w = u \o v
  PROVE  /\ w \in Seq(Nat) /\ Len(w) = Len(u) + Len(v) /\ Len(u) \in Nat /\ Len(v) \in Nat
         /\ \A j \in 1..Len(u) : w[j] = u[j]
         /\ \A j \in 1..Len(v) : w[Len(u) + j] = v[j]
  OBVIOUS

\* What lies in the first cells lies in a longer array with these cells.
LEMMA StaysLaid ==
  ASSUME NEW u \in Seq(Nat), NEW v \in Seq(Nat), NEW w \in Seq(Nat), w = u \o v, NEW c, NEW s, Laid(u, c, s)
  PROVE  Laid(w, c, s)
<1>1. Len(w) = Len(u) + Len(v) /\ Len(u) \in Nat /\ Len(v) \in Nat /\ \A j \in 1..Len(u) : w[j] = u[j]
  BY ConcatAt
<1>2. c \in Nat /\ \A j \in 1..Len(s) : c + j <= Len(u) /\ u[c + j] = s[j]
  BY DEF Laid
<1>3. ASSUME NEW j \in 1..Len(s) PROVE c + j <= Len(w) /\ w[c + j] = s[j]
  <2>1. c + j <= Len(u) /\ u[c + j] = s[j] /\ c + j \in 1..Len(u)
    BY <1>1, <1>2
  <2> QED
    BY <1>1, <2>1
<1>4. Len(w) \in Nat
  BY <1>1
<1> QED
  BY <1>2, <1>3, <1>4 DEF Laid

\* What is put behind u lies there.
LEMMA LiesBehind ==
  ASSUME NEW u \in Seq(Nat), NEW v \in Seq(Nat), NEW w \in Seq(Nat), w = u \o v
  PROVE  Laid(w, Len(u), v)
<1>1. Len(w) = Len(u) + Len(v) /\ Len(u) \in Nat /\ Len(v) \in Nat /\ \A j \in 1..Len(v) : w[Len(u) + j] = v[j]
  BY ConcatAt
<1>2. \A j \in 1..Len(v) : Len(u) + j <= Len(w)
  BY <1>1
<1>3. Len(w) \in Nat
  BY <1>1
<1> QED
  BY <1>1, <1>2, <1>3 DEF Laid

\* Where serialize puts the parts of a message.
LaidOut(data, l, ls, nm, body) ==
  /\ Len(data) = l /\ data[1] = l /\ data[2] = Len(ls)
  /\ Laid(data, 2, ls) /\ Laid(data, 2 + Len(ls), nm) /\ Laid(data, (2 + Len(ls)) + Len(nm), body)

\* Where the parts lie in the cells serialize puts together.
LEMMA CellsLie ==
  ASSUME NEW l \in Nat, NEW ls \in Seq(Nat), NEW nm \in Seq(Nat), NEW b \in Seq(Nat)
  PROVE  LET w == <<l, Len(ls)>> \o ls \o nm \o b
         IN /\ w \in Seq(Nat) /\ Len(w) = ((2 + Len(ls)) + Len(nm)) + Len(b) /\ w[1] = l /\ w[2] = Len(ls)
            /\ Laid(w, 2, ls) /\ Laid(w, 2 + Len(ls), nm) /\ Laid(w, (2 + Len(ls)) + Len(nm), b)
<1> DEFINE e == <<l, Len(ls)>>
           u == e \o ls
           v == u \o nm
           w == v \o b
<1>1. e \in Seq(Nat) /\ Len(e) = 2 /\ e[1] = l /\ e[2] = Len(ls) /\ 1 \in 1..Len(e) /\ 2 \in 1..Len(e)
  OBVIOUS
<1> HIDE DEF e
<1>2. /\ u \in Seq(Nat) /\ Len(u) = 2 + Len(ls) /\ Len(ls) \in Nat /\ Laid(u, 2, ls)
      /\ u[1] = l /\ u[2] = Len(ls)
  <2>1. /\ u \in Seq(Nat) /\ Len(u) = Len(e) + Len(ls) /\ Len(ls) \in Nat /\ \A j \in 1..Len(e) : u[j] = e[j]
    <3> DEFINE y == e \o ls
    <3>1. u = y /\ e \in Seq(Nat)
      BY <1>1
    <3>2. /\ y \in Seq(Nat) /\ Len(y) = Len(e) + Len(ls) /\ Len(ls) \in Nat /\ \A j \in 1..Len(e) : y[j] = e[j]
      <4> HIDE DEF u
      <4> QED
        BY <3>1
    <3> HIDE DEF y, u
    <3> QED
      BY <3>1, <3>2
  <2>2. Laid(u, Len(e), ls)
    BY <1>1, <2>1, LiesBehind
  <2> QED
    BY <1>1, <2>1, <2>2
<1> HIDE DEF u
<1>3. /\ v \in Seq(Nat) /\ Len(v) = (2 + Len(ls)) + Len(nm) /\ Len(nm) \in Nat /\ Laid(v, 2, ls)
      /\ Laid(v, 2 + Len(ls), nm) /\ v[1] = l /\ v[2] = Len(ls)
  <2>1. /\ v \in Seq(Nat) /\ Len(v) = Len(u) + Len(nm) /\ Len(nm) \in Nat /\ \A j \in 1..Len(u) : v[j] = u[j]
    <3> DEFINE y == u \o nm
    <3>1. v = y /\ u \in Seq(Nat)
      BY <1>2
    <3>2. /\ y \in Seq(Nat) /\ Len(y) = Len(u) + Len(nm) /\ Len(nm) \in Nat /\ \A j \in 1..Len(u) : y[j] = u[j]
      <4> HIDE DEF v
      <4> QED
        BY <3>1
    <3> HIDE DEF y, v
    <3> QED
      BY <3>1, <3>2
  <2>2. Laid(v, Len(u), nm)
    BY <1>2, <2>1, LiesBehind
  <2>3. Laid(v, 2, ls)
    BY <1>2, <2>1, StaysLaid
  <2>4. 1 \in 1..Len(u) /\ 2 \in 1..Len(u)
    BY <1>2
  <2> QED
    BY <1>2, <2>1, <2>2, <2>3, <2>4
<1> HIDE DEF v
<1>4. /\ w \in Seq(Nat) /\ Len(w) = ((2 + Len(ls)) + Len(nm)) + Len(b) /\ Laid(w, 2, ls)
      /\ Laid(w, 2 + Len(ls), nm) /\ Laid(w, (2 + Len(ls)) + Len(nm), b) /\ w[1] = l /\ w[2] = Len(ls)
  <2>1. /\ w \in Seq(Nat) /\ Len(w) = Len(v) + Len(b) /\ \A j \in 1..Len(v) : w[j] = v[j]
    <3> DEFINE y == v \o b
    <3>1. w = y /\ v \in Seq(Nat)
      BY <1>3
    <3>2. /\ y \in Seq(Nat) /\ Len(y) = Len(v) + Len(b) /\ Len(b) \in Nat /\ \A j \in 1..Len(v) : y[j] = v[j]
      <4> HIDE DEF w
      <4> QED
        BY <3>1
    <3> HIDE DEF y, w
    <3> QED
      BY <3>1, <3>2
  <2>2. Laid(w, Len(v), b)
    BY <1>3, <2>1, LiesBehind
  <2>3. Laid(w, 2, ls)
    BY <1>3, <2>1, StaysLaid
  <2>5. Laid(w, 2 + Len(ls), nm)
    BY <1>3, <2>1, StaysLaid
  <2>4. 1 \in 1..Len(v) /\ 2 \in 1..Len(v)
    BY <1>2, <1>3
  <2> QED
    BY <1>3, <2>1, <2>2, <2>3, <2>4, <2>5
<1> HIDE DEF w
<1>5. w = <<l, Len(ls)>> \o ls \o nm \o b
  BY DEF e, u, v, w
<1> QED
  BY <1>4, <1>5

-----------------------------------------------------------------------------
(* count, serialize and deserializeHelper *)

\* The cells of the members, and all lengths that count pushes.
Cells(t, f) == FlattenSeq(CellSeq(t, f))
Counts(t, f) == <<Len(NameOf[t])>> \o FlattenSeq(LenSeq(t, f))

\* count and serialize of an object, member by member.
LEMMA BodyOfObj ==
  ASSUME NEW t, NEW nm, NEW f, NEW l, NEW ls, NEW z, NEW x
  PROVE  /\ Body(Obj(t, nm, f, l, ls, z, x)) = Cells(t, f)
         /\ nm = NameOf[t] => Counted(Obj(t, nm, f, l, ls, z, x)) = Counts(t, f)
<1> DEFINE o == Obj(t, nm, f, l, ls, z, x)
<1>1. o.type = t /\ o.fields = f /\ o.name = nm
  BY DEF Obj
<1> HIDE DEF o
<1>2. Body(o) = Cells(t, f)
  BY <1>1 DEF Body, Cells, CellSeq
<1>3. nm = NameOf[t] => Counted(o) = Counts(t, f)
  BY <1>1 DEF Counted, Counts, LenSeq
<1> QED
  BY <1>2, <1>3 DEF o

\* What a count pushes begins with the length of the name.
LEMMA CountedTypes ==
  ASSUME NEW t \in Types, NEW f \in FieldsOf(t)
  PROVE  /\ t \in DOMAIN MembersOf /\ Fit(t, f) /\ NameOf[t] \in Seq(Nat)
         /\ Cells(t, f) \in Seq(Nat) /\ FlattenSeq(LenSeq(t, f)) \in Seq(Nat)
         /\ Counts(t, f) \in Seq(Nat) /\ Len(Counts(t, f)) = 1 + Len(FlattenSeq(LenSeq(t, f)))
         /\ Counts(t, f)[1] = Len(NameOf[t])
         /\ \A j \in 1..Len(FlattenSeq(LenSeq(t, f))) : Counts(t, f)[1 + j] = FlattenSeq(LenSeq(t, f))[j]
<1>1. t \in DOMAIN MembersOf /\ Fit(t, f) /\ NameOf[t] \in Seq(Nat)
  BY CodecAssumption, FieldsFit
<1>2. CellSeq(t, f) \in Seq(Seq(Nat)) /\ LenSeq(t, f) \in Seq(Seq(Nat))
  BY <1>1, SeqsOfMembers
<1>3. Cells(t, f) \in Seq(Nat) /\ FlattenSeq(LenSeq(t, f)) \in Seq(Nat)
  BY <1>2, FlattenType DEF Cells
<1> DEFINE a == Len(NameOf[t])
           s == FlattenSeq(LenSeq(t, f))
<1>4. a \in Nat /\ s \in Seq(Nat)
  BY <1>1, <1>3
<1> HIDE DEF a, s
<1>5. <<a>> \o s \in Seq(Nat) /\ Len(<<a>> \o s) = 1 + Len(s) /\ (<<a>> \o s)[1] = a /\ \A j \in 1..Len(s) : (<<a>> \o s)[1 + j] = s[j]
  BY <1>4
<1> QED
  BY <1>1, <1>3, <1>5 DEF Counts, a, s

\* An array that begins with the cells of w has them where w has them.
LEMMA ArrayLies ==
  ASSUME NEW w \in Seq(Nat), NEW l \in Nat, Len(w) <= l, NEW data, data = [i \in 1..l |-> IF i <= Len(w) THEN w[i] ELSE Junk],
         NEW c, NEW s, Laid(w, c, s)
  PROVE  Laid(data, c, s)
<1>1. Len(data) = l /\ \A i \in 1..Len(w) : data[i] = w[i]
  OBVIOUS
<1>2. c \in Nat /\ Len(w) \in Nat /\ \A j \in 1..Len(s) : c + j <= Len(w) /\ w[c + j] = s[j]
  BY DEF Laid
<1>3. ASSUME NEW j \in 1..Len(s) PROVE c + j <= l /\ data[c + j] = s[j]
  <2>1. c + j <= Len(w) /\ w[c + j] = s[j] /\ c + j \in 1..Len(w)
    BY <1>2
  <2> QED
    BY <1>1, <1>2, <2>1
<1> QED
  BY <1>1, <1>2, <1>3 DEF Laid

\* serialize puts the lengths, the name and the members one behind the other.
LEMMA Serialized ==
  ASSUME NEW t, NEW nm \in Seq(Nat), NEW f, Cells(t, f) \in Seq(Nat), NEW l \in Nat, NEW ls \in Seq(Nat), NEW z, z = Len(ls), NEW x,
         l >= ((2 + Len(ls)) + Len(nm)) + Len(Cells(t, f)), NEW data, data = Serialize(Obj(t, nm, f, l, ls, z, x))
  PROVE  LaidOut(data, l, ls, nm, Cells(t, f))
<1> DEFINE o == Obj(t, nm, f, l, ls, z, x)
           b == Cells(t, f)
           w == <<l, Len(ls)>> \o ls \o nm \o b
<1>1. o.len = l /\ o.size = Len(ls) /\ o.lengths = ls /\ o.name = nm
  BY DEF Obj
<1>2. Body(o) = b
  BY BodyOfObj
<1>a. data = Serialize(o)
  OBVIOUS
<1> HIDE DEF o
<1>3. data = [i \in 1..l |-> IF i <= Len(w) THEN w[i] ELSE Junk]
  BY <1>a, <1>1, <1>2 DEF Serialize
<1> HIDE DEF b
<1>4. /\ w \in Seq(Nat) /\ Len(w) = ((2 + Len(ls)) + Len(nm)) + Len(b) /\ w[1] = l /\ w[2] = Len(ls)
      /\ Laid(w, 2, ls) /\ Laid(w, 2 + Len(ls), nm) /\ Laid(w, (2 + Len(ls)) + Len(nm), b)
  BY CellsLie DEF b
<1>5. Len(ls) \in Nat /\ Len(nm) \in Nat /\ Len(b) \in Nat
  BY DEF b
<1>6. Len(w) <= l
  BY <1>4 DEF b
<1> HIDE DEF w
<1>7. Laid(data, 2, ls) /\ Laid(data, 2 + Len(ls), nm) /\ Laid(data, (2 + Len(ls)) + Len(nm), b)
  <2>1. \A c, s : Laid(w, c, s) => Laid(data, c, s)
    BY <1>3, <1>4, <1>6, ArrayLies
  <2> QED
    BY <1>4, <2>1
<1>8. 1 \in 1..l /\ 2 \in 1..l /\ 1 <= Len(w) /\ 2 <= Len(w)
  BY <1>4, <1>5, <1>6
<1>9. Len(data) = l /\ data[1] = l /\ data[2] = Len(ls)
  BY <1>3, <1>4, <1>8
<1> QED
  BY <1>7, <1>9 DEF LaidOut, b

\* The length at the index is that of the name.
Heads(ms, ls, x, nm) == (ms \o ls)[x + 1] = Len(nm)

\* deserializeHelper of such a message.
LEMMA HeaderObj ==
  ASSUME NEW t, NEW m, NEW F, NEW k, NEW ms, NEW y, NEW x \in Nat,
         NEW data, NEW l, NEW ls \in Seq(Nat), NEW nm \in Seq(Nat), NEW b, LaidOut(data, l, ls, nm, b),
         Heads(ms, ls, x, nm)
  PROVE  Header(Obj(t, m, F, k, ms, y, x), data)
           = Reader(Obj(t, nm, F, l, ms \o ls, Len(ls), x + 1), (2 + Len(ls)) + Len(nm))
<1> DEFINE o == Obj(t, m, F, k, ms, y, x)
           z == Len(ls)
           all == ms \o ls
           n == x + 1
           w == Len(nm)
<1>1. o.index = x /\ o.lengths = ms
  BY DEF Obj
<1>2. data[1] = l /\ data[2] = z
  BY DEF LaidOut
<1>3. Slice(data, 2, z) = ls /\ Slice(data, 2 + z, w) = nm
  BY LaidSlice DEF LaidOut
<1> HIDE DEF o, z, w
<1>4. Header(o, data) = [o |-> [o EXCEPT !.len = l, !.size = z, !.lengths = all, !.index = n, !.name = nm],
                         cursor |-> (2 + z) + w]
  BY <1>1, <1>2, <1>3 DEF Header, Heads, w
<1> HIDE DEF all, n
<1>5. [o EXCEPT !.len = l, !.size = z, !.lengths = all, !.index = n, !.name = nm]
        = [[[[[o EXCEPT !.len = l] EXCEPT !.size = z] EXCEPT !.lengths = all] EXCEPT !.index = n] EXCEPT !.name = nm]
  OBVIOUS
<1>6. [o EXCEPT !.len = l] = Obj(t, m, F, l, ms, y, x)
  BY DEF o, Obj
<1>7. [Obj(t, m, F, l, ms, y, x) EXCEPT !.size = z] = Obj(t, m, F, l, ms, z, x)
  BY DEF Obj
<1>8. [Obj(t, m, F, l, ms, z, x) EXCEPT !.lengths = all] = Obj(t, m, F, l, all, z, x)
  BY DEF Obj
<1>9. [Obj(t, m, F, l, all, z, x) EXCEPT !.index = n] = Obj(t, m, F, l, all, z, n)
  BY DEF Obj
<1>10. [Obj(t, m, F, l, all, z, n) EXCEPT !.name = nm] = Obj(t, nm, F, l, all, z, n)
  BY DEF Obj
<1>11. [o EXCEPT !.len = l, !.size = z, !.lengths = all, !.index = n, !.name = nm] = Obj(t, nm, F, l, all, z, n)
  <2> DEFINE a == [o EXCEPT !.len = l]
             b2 == [a EXCEPT !.size = z]
             c == [b2 EXCEPT !.lengths = all]
             d == [c EXCEPT !.index = n]
             e == [d EXCEPT !.name = nm]
  <2>1. [o EXCEPT !.len = l, !.size = z, !.lengths = all, !.index = n, !.name = nm] = e
    BY <1>5
  <2> HIDE DEF e
  <2>2. a = Obj(t, m, F, l, ms, y, x)
    BY <1>6
  <2> HIDE DEF a
  <2>3. b2 = Obj(t, m, F, l, ms, z, x)
    BY <1>7, <2>2
  <2> HIDE DEF b2
  <2>4. c = Obj(t, m, F, l, all, z, x)
    BY <1>8, <2>3
  <2> HIDE DEF c
  <2>5. d = Obj(t, m, F, l, all, z, n)
    BY <1>9, <2>4
  <2> HIDE DEF d
  <2>6. e = Obj(t, nm, F, l, all, z, n)
    BY <1>10, <2>5 DEF e
  <2> QED
    BY <2>1, <2>6
<1>12. Header(o, data) = Reader(Obj(t, nm, F, l, all, z, n), (2 + z) + w)
  BY <1>4, <1>11 DEF Reader
<1> QED
  BY <1>12 DEF o, z, w, all, n

-----------------------------------------------------------------------------
(* What an object makes of a message *)

\* What deserialize makes of an object x, of a message with the lengths ls and the members f.
ReadsFrom(o, data, t, F, l, all, z, y, c) ==
  \E r : /\ Reading(0, 0, Reader(Obj(t, NameOf[t], F, l, all, z, y), c), data, Len(MembersOf[t]), r)
         /\ Deserialize(o, data) = r[Len(MembersOf[t])].o

\* deserialize reads the header, then member after member.
LEMMA ReadObject ==
  ASSUME NEW t \in Types, NEW m, NEW F, FcnTo(F, Len(MembersOf[t])), NEW k, NEW ms, NEW y, NEW x \in Nat,
         NEW data, NEW l, NEW ls \in Seq(Nat), NEW b, LaidOut(data, l, ls, NameOf[t], b),
         Heads(ms, ls, x, NameOf[t])
  PROVE  ReadsFrom(Obj(t, m, F, k, ms, y, x), data, t, F, l, ms \o ls, Len(ls), x + 1, (2 + Len(ls)) + Len(NameOf[t]))
<1> DEFINE n == Len(MembersOf[t])
           o == Obj(t, m, F, k, ms, y, x)
           nm == NameOf[t]
           h == Reader(Obj(t, nm, F, l, ms \o ls, Len(ls), x + 1), (2 + Len(ls)) + Len(nm))
<1>1. n \in Nat /\ nm \in Seq(Nat)
  <2>1. MembersOf[t] \in Seq(Kinds)
    BY MembersFacts, CodecAssumption DEF WellFormed
  <2> QED
    BY <2>1, CodecAssumption
<1> HIDE DEF nm
<1>2. Header(o, data) = h
  <2>1. LaidOut(data, l, ls, nm, b) /\ Heads(ms, ls, x, nm) /\ nm \in Seq(Nat)
    BY <1>1 DEF nm
  <2> QED
    BY <2>1, HeaderObj
<1>3. DOMAIN o.fields = 1..n
  BY DEF Obj, FcnTo
<1> HIDE DEF o, n, h
<1>4. \E r : Reading(0, 0, Header(o, data), data, n, r) /\ Deserialize(o, data) = r[n].o
  BY <1>1, <1>3, DeserializeReads
<1>5. \E r : Reading(0, 0, h, data, n, r) /\ Deserialize(o, data) = r[n].o
  BY <1>2, <1>4
<1> QED
  BY <1>5 DEF ReadsFrom, o, n, h, nm

\* A type a server registers holds no vector of strings.
LEMMA RegisteredPlain ==
  ASSUME NEW t \in Registered
  PROVE  t \in Types /\ Plain(t, Len(MembersOf[t]))
<1>1. t \in Types /\ ~Contains(MembersOf[t], "texts")
  BY CodecAssumption
<1> QED
  BY <1>1 DEF Contains, Plain

\* A new object reads what was sent.
LEMMA NewReads ==
  ASSUME NEW t \in Types, NEW f \in FieldsOf(t), NEW data, NEW l, NEW ls \in Seq(Nat),
         LaidOut(data, l, ls, NameOf[t], Cells(t, f)), ls[1] = Len(NameOf[t]),
         Told(ls, 1, FlattenSeq(LenSeq(t, f))),
         Plain(t, Len(MembersOf[t])) \/ Len(ls) = 1 + Len(FlattenSeq(LenSeq(t, f)))
  PROVE  ReadByService(t, data).fields = f
<1> DEFINE n == Len(MembersOf[t])
           F == Unset(t)
           o == Obj(t, NameOf[t], F, 0, <<>>, 0, 0)
           c0 == (2 + Len(ls)) + Len(NameOf[t])
<1>1. t \in DOMAIN MembersOf /\ Fit(t, f) /\ MembersOf[t] \in Seq(Kinds)
  BY CodecAssumption, FieldsFit, MembersFacts DEF WellFormed
<1>2. n \in Nat /\ DOMAIN MembersOf[t] = 1..n
  BY <1>1
<1>3. FcnTo(F, n) /\ \A i \in 1..n : MembersOf[t][i] # "num" => F[i] = <<>>
  BY <1>2 DEF Unset, FcnTo
<1>4. NewObject(t, F) = o
  BY DEF NewObject, Obj
<1>5. <<>> \o ls = ls /\ 0 + 1 = 1 /\ 0 \in Nat
  OBVIOUS
<1> HIDE DEF F
<1>6. ReadsFrom(o, data, t, F, l, ls, Len(ls), 1, c0)
  <2> DEFINE e == <<>>
  <2>1. e \o ls = ls
    BY <1>5
  <2> HIDE DEF e
  <2>2. Heads(e, ls, 0, NameOf[t])
    BY <1>5, <2>1 DEF Heads
  <2>3. ReadsFrom(Obj(t, NameOf[t], F, 0, e, 0, 0), data, t, F, l, e \o ls, Len(ls), 0 + 1, c0)
    BY <1>3, <1>5, <2>2, ReadObject
  <2> QED
    BY <1>5, <2>1, <2>3 DEF e
<1>7. PICK r : /\ Reading(0, 0, Reader(Obj(t, NameOf[t], F, l, ls, Len(ls), 1), c0), data, n, r)
               /\ Deserialize(o, data) = r[n].o
  BY <1>6 DEF ReadsFrom
<1>8. Laid(data, c0, FlattenSeq(CellSeq(t, f)))
  BY DEF LaidOut, Cells
<1>9. Plain(t, n) \/ (F[n] = <<>> /\ Len(ls) = 1 + Len(FlattenSeq(LenSeq(t, f))))
  <2>1. ASSUME ~Plain(t, n) PROVE F[n] = <<>>
    <3>1. PICK i \in 1..n : MembersOf[t][i] = "texts"
      BY <2>1 DEF Plain
    <3>2. i = n
      BY <1>1, <3>1, SeqsOfMembers
    <3>3. MembersOf[t][n] # "num" /\ n \in 1..n
      BY <3>1, <3>2
    <3> QED
      BY <1>3, <3>3
  <2> QED
    BY <2>1
<1> HIDE DEF c0, n, o
<1>10. r[n].o.fields = f
  BY <1>1, <1>3, <1>7, <1>8, <1>9, ReadsNew DEF n
<1> QED
  BY <1>4, <1>7, <1>10 DEF ReadByService, F

\* The object a thread keeps for a type reads what was sent, if its index is where
\* the lengths of this message begin.
ReadAs(t, f, o, data, l, all, z, x) ==
  Deserialize(o, data) = Obj(t, NameOf[t], f, l, all, z, (x + 1) + Len(FlattenSeq(LenSeq(t, f))))

\* It reads the members whose lengths are at its index.
LEMMA KeptReads ==
  ASSUME NEW t \in Registered, NEW f \in FieldsOf(t), NEW m, NEW F, FcnTo(F, Len(MembersOf[t])), NEW k, NEW ms, NEW y,
         NEW x \in Nat, NEW data, NEW l, NEW ls \in Seq(Nat), LaidOut(data, l, ls, NameOf[t], Cells(t, f)),
         Heads(ms, ls, x, NameOf[t]), Told(ms \o ls, x + 1, FlattenSeq(LenSeq(t, f)))
  PROVE  ReadAs(t, f, Obj(t, m, F, k, ms, y, x), data, l, ms \o ls, Len(ls), x)
<1> DEFINE n == Len(MembersOf[t])
           o == Obj(t, m, F, k, ms, y, x)
           all == ms \o ls
           c0 == (2 + Len(ls)) + Len(NameOf[t])
<1>1. t \in Types /\ Plain(t, n)
  BY RegisteredPlain
<1>2. t \in DOMAIN MembersOf /\ Fit(t, f)
  BY <1>1, CodecAssumption, FieldsFit
<1>3. ReadsFrom(o, data, t, F, l, all, Len(ls), x + 1, c0)
  BY <1>1, ReadObject
<1>4. PICK r : /\ Reading(0, 0, Reader(Obj(t, NameOf[t], F, l, all, Len(ls), x + 1), c0), data, n, r)
               /\ Deserialize(o, data) = r[n].o
  BY <1>3 DEF ReadsFrom
<1>5. Laid(data, c0, FlattenSeq(CellSeq(t, f)))
  BY DEF LaidOut, Cells
<1> DEFINE w == x + 1
<1>6. /\ Reading(0, 0, Reader(Obj(t, NameOf[t], F, l, all, Len(ls), w), c0), data, n, r)
      /\ FcnTo(F, n) /\ Told(all, w, FlattenSeq(LenSeq(t, f))) /\ n = Len(MembersOf[t])
  BY <1>4
<1> HIDE DEF c0, n, o, all, w
<1>7. r[n].o = Obj(t, NameOf[t], f, l, all, Len(ls), w + Len(FlattenSeq(LenSeq(t, f))))
  BY <1>1, <1>2, <1>5, <1>6, ReadsPlain
<1> QED
  BY <1>4, <1>7 DEF ReadAs, o, all, w

\* Whatever it reads, its index moves over one count.
Moved(t, f, o, data, l, all, z, x) ==
  \E G : /\ FcnTo(G, Len(MembersOf[t]))
        /\ Deserialize(o, data) = Obj(t, NameOf[t], G, l, all, z, (x + 1) + Len(FlattenSeq(LenSeq(t, f))))

\* So it does when it takes a message, whatever the members are.
LEMMA KeptMoves ==
  ASSUME NEW t \in Registered, NEW f \in FieldsOf(t), NEW m, NEW F, FcnTo(F, Len(MembersOf[t])), NEW k, NEW ms, NEW y,
         NEW x \in Nat, NEW data, NEW l, NEW ls \in Seq(Nat), NEW b, LaidOut(data, l, ls, NameOf[t], b),
         Heads(ms, ls, x, NameOf[t])
  PROVE  Moved(t, f, Obj(t, m, F, k, ms, y, x), data, l, ms \o ls, Len(ls), x)
<1> DEFINE n == Len(MembersOf[t])
           o == Obj(t, m, F, k, ms, y, x)
           all == ms \o ls
           c0 == (2 + Len(ls)) + Len(NameOf[t])
<1>1. t \in Types /\ Plain(t, n)
  BY RegisteredPlain
<1>2. t \in DOMAIN MembersOf /\ Fit(t, f) /\ x + 1 \in Nat
  BY <1>1, CodecAssumption, FieldsFit
<1>3. ReadsFrom(o, data, t, F, l, all, Len(ls), x + 1, c0)
  BY <1>1, ReadObject
<1>4. PICK r : /\ Reading(0, 0, Reader(Obj(t, NameOf[t], F, l, all, Len(ls), x + 1), c0), data, n, r)
               /\ Deserialize(o, data) = r[n].o
  BY <1>3 DEF ReadsFrom
<1> DEFINE w == x + 1
<1>5. Reading(0, 0, Reader(Obj(t, NameOf[t], F, l, all, Len(ls), w), c0), data, n, r) /\ w \in Nat
  BY <1>2, <1>4
<1>6. FcnTo(F, n) /\ n = Len(MembersOf[t])
  OBVIOUS
<1> HIDE DEF c0, n, o, all, w
<1>7. PICK G : FcnTo(G, n) /\ r[n].o = Obj(t, NameOf[t], G, l, all, Len(ls), w + Len(FlattenSeq(LenSeq(t, f))))
  BY <1>1, <1>2, <1>5, <1>6, ReadMoves
<1> QED
  BY <1>4, <1>7 DEF Moved, o, all, w, n

-----------------------------------------------------------------------------
(* The lengths of several counts *)

\* Two sequences of sequences, one behind the other.
LEMMA FlattenJoin ==
  ASSUME NEW S, NEW p \in Seq(Seq(S)), NEW q \in Seq(Seq(S))
  PROVE  FlattenSeq(p \o q) = FlattenSeq(p) \o FlattenSeq(q)
<1> DEFINE r == p \o q
           k == Len(p)
<1>1. r \in Seq(Seq(S)) /\ k \in 0..Len(r) /\ Len(r) = k + Len(q) /\ Len(q) \in Nat /\ k \in Nat
  OBVIOUS
<1>2. SubSeq(r, 1, k) = p
  OBVIOUS
<1>3. SubSeq(r, k + 1, Len(r)) = q
  OBVIOUS
<1> HIDE DEF r, k
<1>4. FlattenSeq(SubSeq(r, 1, k)) \o FlattenSeq(SubSeq(r, k + 1, Len(r))) = FlattenSeq(r)
  BY <1>1, FlattenSplit
<1> QED
  BY <1>2, <1>3, <1>4 DEF r

\* Three sequences, one behind the other.
LEMMA JoinThree ==
  ASSUME NEW a \in Seq(Nat), NEW b \in Seq(Nat), NEW c \in Seq(Nat)
  PROVE  (a \o b) \o c = a \o (b \o c) /\ a \o b \in Seq(Nat) /\ b \o c \in Seq(Nat)
  OBVIOUS

\* The lengths one count of an object of the type may push.
Blocks(t) == {Counts(t, g) : g \in FieldsOf(t)}

\* What such lengths, and several of them, are.
LEMMA BlockFacts ==
  ASSUME NEW t \in Types
  PROVE  /\ \A b \in Blocks(t) : b \in Seq(Nat) /\ 1 \in 1..Len(b) /\ b[1] = Len(NameOf[t])
         /\ \A bs \in Seq(Blocks(t)) : bs \in Seq(Seq(Nat)) /\ FlattenSeq(bs) \in Seq(Nat)
<1>1. ASSUME NEW b \in Blocks(t) PROVE b \in Seq(Nat) /\ 1 \in 1..Len(b) /\ b[1] = Len(NameOf[t])
  <2>1. PICK g \in FieldsOf(t) : b = Counts(t, g)
    BY DEF Blocks
  <2>2. Counts(t, g) \in Seq(Nat) /\ Counts(t, g)[1] = Len(NameOf[t]) /\ Len(Counts(t, g)) = 1 + Len(FlattenSeq(LenSeq(t, g)))
        /\ FlattenSeq(LenSeq(t, g)) \in Seq(Nat)
    BY CountedTypes
  <2> QED
    BY <2>1, <2>2
<1>2. ASSUME NEW bs \in Seq(Blocks(t)) PROVE bs \in Seq(Seq(Nat)) /\ FlattenSeq(bs) \in Seq(Nat)
  <2>1. bs \in Seq(Seq(Nat))
    <3>1. \A i \in 1..Len(bs) : bs[i] \in Seq(Nat)
      BY <1>1
    <3> QED
      BY <3>1, ElementOfSeq, SeqDef
  <2> QED
    BY <2>1, FlattenType
<1> QED
  BY <1>1, <1>2

\* The first count and the others.
LEMMA FirstBlock ==
  ASSUME NEW t \in Types, NEW bs \in Seq(Blocks(t)), bs # <<>>
  PROVE  bs[1] \in Blocks(t) /\ Tail(bs) \in Seq(Blocks(t)) /\ FlattenSeq(bs) = bs[1] \o FlattenSeq(Tail(bs))
<1>1. bs \in Seq(Seq(Nat))
  BY BlockFacts
<1>2. FlattenSeq(bs) = Head(bs) \o FlattenSeq(Tail(bs))
  BY <1>1, FlattenHead
<1>3. Head(bs) = bs[1] /\ bs[1] \in Blocks(t) /\ Tail(bs) \in Seq(Blocks(t))
  OBVIOUS
<1> QED
  BY <1>2, <1>3

\* Behind pre lie the lengths of one count b and the others: the index is at b.
LEMMA AtBlock ==
  ASSUME NEW t \in Types, NEW pre \in Seq(Nat), NEW b \in Blocks(t), NEW r \in Seq(Nat)
  PROVE  /\ ((pre \o b) \o r)[Len(pre) + 1] = Len(NameOf[t])
         /\ \A f \in FieldsOf(t) : b = Counts(t, f) => Told((pre \o b) \o r, Len(pre) + 1, FlattenSeq(LenSeq(t, f)))
<1> DEFINE u == pre \o b
           w == u \o r
           p == Len(pre)
<1>1. b \in Seq(Nat) /\ 1 \in 1..Len(b) /\ b[1] = Len(NameOf[t])
  BY BlockFacts
<1>2. u \in Seq(Nat) /\ Len(u) = p + Len(b) /\ p \in Nat /\ Len(b) \in Nat /\ \A j \in 1..Len(b) : u[p + j] = b[j]
  BY <1>1, ConcatAt
<1> HIDE DEF u
<1>3. \A j \in 1..Len(u) : w[j] = u[j]
  BY <1>2, ConcatAt
<1> HIDE DEF w, p
<1>4. ASSUME NEW j \in 1..Len(b) PROVE w[p + j] = b[j]
  <2>1. p + j \in 1..Len(u)
    BY <1>2
  <2> QED
    BY <1>2, <1>3, <2>1
<1>5. w[p + 1] = Len(NameOf[t])
  BY <1>1, <1>4
<1>6. ASSUME NEW f \in FieldsOf(t), b = Counts(t, f) PROVE Told(w, p + 1, FlattenSeq(LenSeq(t, f)))
  <2> DEFINE s == FlattenSeq(LenSeq(t, f))
  <2>1. Len(b) = 1 + Len(s) /\ s \in Seq(Nat) /\ \A j \in 1..Len(s) : b[1 + j] = s[j]
    BY <1>6, CountedTypes
  <2> HIDE DEF s
  <2>2. ASSUME NEW j \in 1..Len(s) PROVE w[(p + 1) + j] = s[j]
    <3>1. 1 + j \in 1..Len(b) /\ (p + 1) + j = p + (1 + j)
      <4>1. j \in Nat /\ Len(s) \in Nat /\ j <= Len(s) /\ j >= 1
        BY <2>1
      <4>2. (p + 1) + j = p + (1 + j)
        BY <1>2, <4>1
      <4>3. 1 + j \in 1..(1 + Len(s))
        BY <4>1
      <4> QED
        BY <2>1, <4>2, <4>3
    <3>2. w[p + (1 + j)] = b[1 + j]
      <4> DEFINE i == 1 + j
      <4>1. i \in 1..Len(b)
        BY <3>1
      <4> HIDE DEF i
      <4>2. w[p + i] = b[i]
        BY <1>4, <4>1
      <4> QED
        BY <4>2 DEF i
    <3>3. b[1 + j] = s[j]
      BY <2>1
    <3> DEFINE e == p + (1 + j)
               d == (p + 1) + j
               g == b[1 + j]
    <3>4. w[e] = g /\ d = e /\ g = s[j]
      BY <3>1, <3>2, <3>3
    <3> HIDE DEF e, d, g
    <3>5. w[d] = s[j]
      BY <3>4, Zenon
    <3> QED
      BY <3>5 DEF d
  <2>3. p + 1 \in Nat
    BY <1>2
  <2>4. Told(w, p + 1, s)
    BY <2>2, <2>3 DEF Told
  <2> QED
    BY <2>4 DEF s
<1> QED
  BY <1>5, <1>6 DEF u, w, p

\* The lengths an object keeps and those of a message: what is read next is one count.
NextBlock(t, all, pre, b, rest) ==
  /\ b \in Blocks(t) /\ rest \in Seq(Blocks(t)) /\ all = (pre \o b) \o FlattenSeq(rest)

\* What is read next is one count, and all of it if there is only one.
Keeps(t, pre, old, bs) ==
  \E b, rest : /\ NextBlock(t, (pre \o FlattenSeq(old)) \o FlattenSeq(bs), pre, b, rest)
              /\ (old = <<>> /\ Len(bs) = 1 => b = bs[1] /\ rest = <<>>)

\* This is so whatever the object has left unread.
LEMMA KeepsBlocks ==
  ASSUME NEW t \in Types, NEW pre \in Seq(Nat), NEW old \in Seq(Blocks(t)), NEW bs \in Seq(Blocks(t)), bs # <<>>
  PROVE  Keeps(t, pre, old, bs)
<1> DEFINE q == old \o bs
           b == q[1]
           rest == Tail(q)
           x == FlattenSeq(old)
           y == FlattenSeq(bs)
           z == FlattenSeq(rest)
<1>1. q \in Seq(Blocks(t)) /\ q # <<>>
  OBVIOUS
<1>2. old = <<>> /\ Len(bs) = 1 => b = bs[1] /\ rest = <<>>
  <2>1. SUFFICES ASSUME old = <<>>, Len(bs) = 1 PROVE b = bs[1] /\ rest = <<>>
    OBVIOUS
  <2>2. q = bs
    BY <2>1, ConcatEmptySeq
  <2>3. Len(Tail(bs)) = 0 /\ Tail(bs) \in Seq(Blocks(t))
    BY <2>1
  <2>4. Tail(bs) = <<>>
    BY <2>3, EmptySeq
  <2> HIDE DEF q
  <2> QED
    BY <2>2, <2>4
<1>3. FlattenSeq(q) = x \o y
  <2>1. old \in Seq(Seq(Nat)) /\ bs \in Seq(Seq(Nat))
    BY BlockFacts
  <2> QED
    BY <2>1, FlattenJoin
<1> HIDE DEF q
<1>4. b \in Blocks(t) /\ rest \in Seq(Blocks(t)) /\ FlattenSeq(q) = b \o z
  BY <1>1, FirstBlock
<1>5. x \in Seq(Nat) /\ y \in Seq(Nat) /\ z \in Seq(Nat) /\ b \in Seq(Nat)
  BY <1>4, BlockFacts
<1> HIDE DEF x, y, z, b, rest
<1>6. (pre \o x) \o y = pre \o (x \o y)
  BY <1>5, JoinThree
<1>7. (pre \o b) \o z = pre \o (b \o z)
  BY <1>5, JoinThree
<1>8. (pre \o x) \o y = (pre \o b) \o z
  BY <1>3, <1>4, <1>6, <1>7, Zenon
<1>9. NextBlock(t, (pre \o x) \o y, pre, b, rest)
  BY <1>4, <1>8 DEF NextBlock, z
<1> QED
  BY <1>2, <1>9 DEF Keeps, x, y

-----------------------------------------------------------------------------
(* The sender and the objects a thread keeps *)

\* count of an object: its lengths follow, and its length is enough for all cells.
CountsTo(o, t, f, all, x) ==
  \E k \in Nat : /\ k >= ((2 + Len(all)) + Len(NameOf[t])) + Len(Cells(t, f))
                /\ Count(o) = Obj(t, NameOf[t], f, k, all, Len(all), x)

\* count appends and adds.
LEMMA CountObj ==
  ASSUME NEW t \in Types, NEW f \in FieldsOf(t), NEW l \in Nat, NEW ls \in Seq(Nat), NEW z, z = Len(ls), NEW x
  PROVE  CountsTo(Obj(t, NameOf[t], f, l, ls, z, x), t, f, ls \o Counts(t, f), x)
<1> DEFINE nm == NameOf[t]
           o == Obj(t, nm, f, l, ls, z, x)
           c == Counts(t, f)
           b == Cells(t, f)
           all == ls \o c
           k == l + Len(nm) + 2 + Len(b) + Len(ls) + Len(c)
           y == z + Len(c)
<1>1. nm \in Seq(Nat) /\ c \in Seq(Nat) /\ b \in Seq(Nat)
  BY CountedTypes
<1>2. Body(o) = b /\ Counted(o) = c
  BY BodyOfObj
<1>3. o.name = nm /\ o.lengths = ls /\ o.size = z /\ o.len = l
  BY DEF Obj
<1> HIDE DEF nm, c, b
<1>4. Len(nm) \in Nat /\ Len(c) \in Nat /\ Len(b) \in Nat /\ Len(ls) \in Nat /\ Len(all) = Len(ls) + Len(c)
  BY <1>1
<1>5. k \in Nat /\ y = Len(all) /\ k >= ((2 + Len(all)) + Len(nm)) + Len(b)
  BY <1>4
<1> HIDE DEF o
<1>6. Count(o) = [o EXCEPT !.lengths = all, !.size = y, !.len = k]
  BY <1>2, <1>3 DEF Count
<1> HIDE DEF all, k, y
<1>7. [o EXCEPT !.lengths = all, !.size = y, !.len = k] = [[[o EXCEPT !.lengths = all] EXCEPT !.size = y] EXCEPT !.len = k]
  OBVIOUS
<1>8. [o EXCEPT !.lengths = all] = Obj(t, nm, f, l, all, z, x)
  BY DEF o, Obj
<1>9. [Obj(t, nm, f, l, all, z, x) EXCEPT !.size = y] = Obj(t, nm, f, l, all, y, x)
  BY DEF Obj
<1>10. [Obj(t, nm, f, l, all, y, x) EXCEPT !.len = k] = Obj(t, nm, f, k, all, y, x)
  BY DEF Obj
<1>11. Count(o) = Obj(t, nm, f, k, all, y, x)
  BY <1>6, <1>7, <1>8, <1>9, <1>10, Zenon
<1>12. Count(o) = Obj(t, nm, f, k, all, Len(all), x)
  BY <1>5, <1>11, Zenon
<1> QED
  BY <1>5, <1>12 DEF CountsTo, o, nm, c, b, all

\* The sender's record.
Msg(o, phase, counts, first) == [o |-> o, phase |-> phase, counts |-> counts, first |-> first]

\* The sender's object has the members f and the lengths of the counts bs.
MsgIs(m, t, f, l, bs) ==
  /\ t \in Types /\ f \in FieldsOf(t) /\ l \in Nat /\ bs \in Seq(Blocks(t))
  /\ m = Msg(Obj(t, NameOf[t], f, l, FlattenSeq(bs), Len(FlattenSeq(bs)), 0), m.phase, Len(bs), m.first)
  /\ bs # <<>> => m.first = bs[1]
  /\ m.phase # "assigned" => /\ bs # <<>> /\ (Len(bs) = 1 => bs[1] = Counts(t, f))
                             /\ l >= ((2 + Len(FlattenSeq(bs))) + Len(NameOf[t])) + Len(Cells(t, f))

\* The object a thread keeps has read the lengths pre, and has those of bs in front of it.
KeptIs(o, t, rec) ==
  \E nm, F, l, z : \E pre \in Seq(Nat), bs \in Seq(Blocks(t)) :
    /\ o = Obj(t, nm, F, l, pre \o FlattenSeq(bs), z, Len(pre))
    /\ FcnTo(F, Len(MembersOf[t])) /\ (t \notin rec => bs = <<>>)

\* What is sent.
LEMMA Sending ==
  ASSUME NEW m, NEW t, NEW f, NEW l, NEW bs, MsgIs(m, t, f, l, bs), m.phase = "counted"
  PROVE  LaidOut(Serialize(m.o), l, FlattenSeq(bs), NameOf[t], Cells(t, f))
<1> DEFINE ls == FlattenSeq(bs)
           z == Len(ls)
           o == Obj(t, NameOf[t], f, l, ls, z, 0)
           data == Serialize(o)
<1>1. t \in Types /\ f \in FieldsOf(t) /\ l \in Nat /\ bs \in Seq(Blocks(t))
  BY DEF MsgIs
<1>2. m = Msg(o, m.phase, Len(bs), m.first)
  BY DEF MsgIs
<1>3. l >= ((2 + Len(ls)) + Len(NameOf[t])) + Len(Cells(t, f))
  BY DEF MsgIs
<1>4. ls \in Seq(Nat)
  BY <1>1, BlockFacts
<1>5. Cells(t, f) \in Seq(Nat) /\ NameOf[t] \in Seq(Nat)
  BY <1>1, CountedTypes
<1>6. m.o = o
  <2> HIDE DEF o
  <2> QED
    BY <1>2 DEF Msg
<1>7. z = Len(ls) /\ data = Serialize(Obj(t, NameOf[t], f, l, ls, z, 0))
  OBVIOUS
<1> HIDE DEF ls, z, data
<1>8. LaidOut(data, l, ls, NameOf[t], Cells(t, f))
  BY <1>1, <1>3, <1>4, <1>5, <1>7, Serialized
<1> QED
  BY <1>6, <1>8 DEF data, ls

\* A new object reads the members if the first count is theirs.
LEMMA ServiceReads ==
  ASSUME NEW m, NEW t, NEW f, NEW l, NEW bs, MsgIs(m, t, f, l, bs), m.phase = "counted",
         Len(bs) = 1 \/ (m.first = Counts(t, f) /\ Plain(t, Len(MembersOf[t])))
  PROVE  ReadByService(t, Serialize(m.o)).fields = f
<1> DEFINE ls == FlattenSeq(bs)
           data == Serialize(m.o)
           c == Counts(t, f)
           s == FlattenSeq(LenSeq(t, f))
           r == FlattenSeq(Tail(bs))
<1>1. t \in Types /\ f \in FieldsOf(t) /\ l \in Nat /\ bs \in Seq(Blocks(t)) /\ bs # <<>>
  BY DEF MsgIs
<1>2. bs[1] = c
  BY <1>1 DEF MsgIs
<1>3. LaidOut(data, l, ls, NameOf[t], Cells(t, f))
  BY Sending
<1>4. ls \in Seq(Nat) /\ r \in Seq(Nat) /\ c \in Blocks(t) /\ ls = c \o r
  <2>1. Tail(bs) \in Seq(Blocks(t)) /\ c \in Blocks(t) /\ ls = c \o r
    BY <1>1, <1>2, FirstBlock
  <2> QED
    BY <1>1, <2>1, BlockFacts
<1>5. c \in Seq(Nat) /\ Len(c) = 1 + Len(s) /\ s \in Seq(Nat)
  BY <1>1, CountedTypes
<1>6. Len(bs) = 1 => r = <<>>
  <2>1. SUFFICES ASSUME Len(bs) = 1 PROVE r = <<>>
    OBVIOUS
  <2>2. Len(Tail(bs)) = 0 /\ Tail(bs) \in Seq(Blocks(t))
    BY <1>1, <2>1
  <2>3. Tail(bs) = <<>>
    BY <2>2, EmptySeq
  <2> QED
    BY <2>3 DEF FlattenSeq
<1> HIDE DEF ls, data, c, s, r
<1>7. ls[1] = Len(NameOf[t]) /\ Told(ls, 1, s)
  <2> DEFINE e == <<>>
             w == (e \o c) \o r
  <2>1. e \in Seq(Nat) /\ Len(e) + 1 = 1
    OBVIOUS
  <2>2. w = ls
    BY <1>4, <1>5
  <2>3. w[Len(e) + 1] = Len(NameOf[t]) /\ Told(w, Len(e) + 1, FlattenSeq(LenSeq(t, f)))
    <3> HIDE DEF e
    <3> QED
      BY <1>1, <1>4, <2>1, AtBlock DEF c
  <2> HIDE DEF e, w
  <2> QED
    BY <2>1, <2>2, <2>3 DEF s
<1>8. Plain(t, Len(MembersOf[t])) \/ Len(ls) = 1 + Len(s)
  <2>1. ASSUME Len(bs) = 1 PROVE Len(ls) = 1 + Len(s)
    <3>1. ls = c
      BY <1>4, <1>5, <1>6, <2>1
    <3> QED
      BY <1>5, <3>1
  <2> QED
    BY <2>1
<1>9. ReadByService(t, data).fields = f
  BY <1>1, <1>3, <1>4, <1>7, <1>8, NewReads DEF s
<1> QED
  BY <1>9 DEF data

\* The object a thread keeps takes a message: its index stays where a count
\* begins, and it reads the members if no object of the type was counted twice.
TakesIt(here, t, f, new) == KeptIs(here, t, new) /\ here.name = NameOf[t] /\ (t \notin new => here.fields = f)

\* That is what messageFunc leaves.
LEMMA KeptTakes ==
  ASSUME NEW m, NEW t \in Registered, NEW f, NEW l, NEW bs, MsgIs(m, t, f, l, bs), m.phase = "counted",
         NEW o, NEW rec, KeptIs(o, t, rec), NEW new, rec \subseteq new, Len(bs) > 1 => t \in new
  PROVE  TakesIt(Deserialize(o, Serialize(m.o)), t, f, new)
<1> DEFINE ls == FlattenSeq(bs)
           data == Serialize(m.o)
           here == Deserialize(o, data)
<1>1. t \in Types /\ f \in FieldsOf(t) /\ l \in Nat /\ bs \in Seq(Blocks(t)) /\ bs # <<>> /\ (Len(bs) = 1 => bs[1] = Counts(t, f))
  BY DEF MsgIs
<1>2. LaidOut(data, l, ls, NameOf[t], Cells(t, f)) /\ ls \in Seq(Nat)
  BY <1>1, Sending, BlockFacts
<1>3. PICK nm, F, k, y : \E pre \in Seq(Nat), old \in Seq(Blocks(t)) :
        /\ o = Obj(t, nm, F, k, pre \o FlattenSeq(old), y, Len(pre))
        /\ FcnTo(F, Len(MembersOf[t])) /\ (t \notin rec => old = <<>>)
  BY DEF KeptIs
<1>4. PICK pre \in Seq(Nat), old \in Seq(Blocks(t)) :
        /\ o = Obj(t, nm, F, k, pre \o FlattenSeq(old), y, Len(pre))
        /\ FcnTo(F, Len(MembersOf[t])) /\ (t \notin rec => old = <<>>)
  BY <1>3
<1> DEFINE ms == pre \o FlattenSeq(old)
           x == Len(pre)
           all == ms \o ls
<1>5. PICK b, rest : /\ NextBlock(t, all, pre, b, rest)
                     /\ (old = <<>> /\ Len(bs) = 1 => b = bs[1] /\ rest = <<>>)
  <2>1. Keeps(t, pre, old, bs)
    BY <1>1, KeepsBlocks
  <2> QED
    BY <2>1 DEF Keeps
<1> DEFINE r == FlattenSeq(rest)
<1>6. b \in Blocks(t) /\ rest \in Seq(Blocks(t)) /\ all = (pre \o b) \o r /\ r \in Seq(Nat)
  BY <1>1, <1>5, BlockFacts DEF NextBlock
<1>7. PICK g \in FieldsOf(t) : b = Counts(t, g)
  BY <1>6 DEF Blocks
<1>8. x \in Nat /\ Len(b) = 1 + Len(FlattenSeq(LenSeq(t, g))) /\ b \in Seq(Nat) /\ FlattenSeq(LenSeq(t, g)) \in Seq(Nat)
  BY <1>1, <1>7, CountedTypes
<1>9. Heads(ms, ls, x, NameOf[t]) /\ Told(all, x + 1, FlattenSeq(LenSeq(t, g)))
  <2>1. ((pre \o b) \o r)[x + 1] = Len(NameOf[t]) /\ Told((pre \o b) \o r, x + 1, FlattenSeq(LenSeq(t, g)))
    BY <1>1, <1>6, <1>7, AtBlock
  <2>2. all[x + 1] = Len(NameOf[t]) /\ Told(all, x + 1, FlattenSeq(LenSeq(t, g)))
    <3> HIDE DEF all, r
    <3> QED
      BY <1>6, <2>1, Zenon
  <2> QED
    BY <2>2 DEF Heads
<1> DEFINE next == pre \o b
<1>10. next \in Seq(Nat) /\ Len(next) = (x + 1) + Len(FlattenSeq(LenSeq(t, g)))
  <2> DEFINE q == Len(FlattenSeq(LenSeq(t, g)))
  <2>1. q \in Nat /\ Len(b) = 1 + q
    BY <1>8
  <2> HIDE DEF q
  <2>2. Len(next) = x + (1 + q) /\ next \in Seq(Nat)
    <3>1. next \in Seq(Nat) /\ Len(next) = x + Len(b)
      BY <1>8, ConcatAt
    <3> HIDE DEF next, x
    <3> QED
      BY <2>1, <3>1
  <2>3. x + (1 + q) = (x + 1) + q
    BY <1>8, <2>1
  <2> QED
    BY <2>2, <2>3 DEF q
<1>11. o = Obj(t, nm, F, k, ms, y, x) /\ FcnTo(F, Len(MembersOf[t]))
  BY <1>4
<1>12. t \notin new => old = <<>> /\ Len(bs) = 1
  <2>1. Len(bs) \in Nat /\ Len(bs) # 0
    BY <1>1, EmptySeq
  <2>2. SUFFICES ASSUME t \notin new PROVE old = <<>> /\ Len(bs) = 1
    OBVIOUS
  <2>3. t \notin rec /\ ~(Len(bs) > 1)
    BY <2>2
  <2>4. Len(bs) = 1
    <3> DEFINE e == Len(bs)
    <3>1. e \in Nat /\ e # 0 /\ ~(e > 1)
      BY <2>1, <2>3
    <3> HIDE DEF e
    <3>2. e = 1
      BY <3>1
    <3> QED
      BY <3>2 DEF e
  <2> QED
    BY <1>4, <2>3, <2>4
<1> HIDE DEF ms, x, data, ls, next, r
<1>13. PICK G : /\ FcnTo(G, Len(MembersOf[t]))
                /\ Deserialize(Obj(t, nm, F, k, ms, y, x), data)
                     = Obj(t, NameOf[t], G, l, ms \o ls, Len(ls), (x + 1) + Len(FlattenSeq(LenSeq(t, g))))
  <2>1. LaidOut(data, l, ls, NameOf[t], Cells(t, f)) /\ ls \in Seq(Nat) /\ x \in Nat /\ FcnTo(F, Len(MembersOf[t]))
    BY <1>2, <1>8, <1>11
  <2>2. Heads(ms, ls, x, NameOf[t])
    BY <1>9
  <2>3. Moved(t, g, Obj(t, nm, F, k, ms, y, x), data, l, ms \o ls, Len(ls), x)
    BY <2>1, <2>2, KeptMoves
  <2> QED
    BY <2>3 DEF Moved
<1> HIDE DEF all
<1>14. here = Obj(t, NameOf[t], G, l, all, Len(ls), Len(next))
  BY <1>10, <1>11, <1>13, Zenon DEF all
<1>15. all = next \o FlattenSeq(rest)
  BY <1>6 DEF next, r
<1>16. KeptIs(here, t, new)
  <2>1. t \notin new => rest = <<>>
    BY <1>5, <1>12
  <2>2. here = Obj(t, NameOf[t], G, l, next \o FlattenSeq(rest), Len(ls), Len(next))
    BY <1>14, <1>15, Zenon
  <2> HIDE DEF here
  <2> QED
    BY <1>6, <1>10, <1>13, <2>1, <2>2 DEF KeptIs
<1>17. here.name = NameOf[t]
  BY <1>14 DEF Obj
<1>18. ASSUME t \notin new PROVE here.fields = f
  <2>1. b = Counts(t, f)
    BY <1>1, <1>5, <1>12, <1>18
  <2>2. Told((pre \o b) \o r, x + 1, FlattenSeq(LenSeq(t, f)))
    BY <1>1, <1>6, <2>1, AtBlock DEF x
  <2>3. Told(ms \o ls, x + 1, FlattenSeq(LenSeq(t, f)))
    BY <1>6, <2>2, Zenon DEF all
  <2>4. Deserialize(Obj(t, nm, F, k, ms, y, x), data)
          = Obj(t, NameOf[t], f, l, ms \o ls, Len(ls), (x + 1) + Len(FlattenSeq(LenSeq(t, f))))
    <3>1. LaidOut(data, l, ls, NameOf[t], Cells(t, f)) /\ ls \in Seq(Nat) /\ x \in Nat /\ FcnTo(F, Len(MembersOf[t]))
      BY <1>2, <1>8, <1>11
    <3>2. Heads(ms, ls, x, NameOf[t]) /\ f \in FieldsOf(t)
      BY <1>1, <1>9
    <3>3. ReadAs(t, f, Obj(t, nm, F, k, ms, y, x), data, l, ms \o ls, Len(ls), x)
      BY <2>3, <3>1, <3>2, KeptReads
    <3> QED
      BY <3>3 DEF ReadAs
  <2>5. here = Obj(t, NameOf[t], f, l, ms \o ls, Len(ls), (x + 1) + Len(FlattenSeq(LenSeq(t, f))))
    BY <1>11, <2>4
  <2> QED
    BY <2>5 DEF Obj
<1> QED
  BY <1>16, <1>17, <1>18 DEF TakesIt, data

-----------------------------------------------------------------------------
(* The steps of the codec *)

\* The sender has an object, unless nothing was made yet.
MsgInv ==
  /\ sends \in Nat /\ msg.phase \in {"sent", "assigned", "counted"}
  /\ (msg.phase # "sent" \/ sends > 0) => \E t, f, l, bs : MsgIs(msg, t, f, l, bs)

\* Every object of mMessageTypes has its index where a count begins.
AllKept(old, rec) == old = [t \in Registered |-> old[t]] /\ \A t \in Registered : KeptIs(old[t], t, rec)

\* This holds of the objects a thread keeps.
KeptInv == AllKept(obj, recounted)

\* The inductive invariant: the lengths of the sender's object and those the
\* thread's objects have not read are whole counts, which neither ReadsBack nor
\* TypeForwarded says.
CodecInv == MsgInv /\ KeptInv /\ ReadsBack /\ TypeForwarded

\* What the steps before a Send leave alone.
LEMMA NotSent ==
  ASSUME CodecInv, UNCHANGED <<obj, sends, recounted, got>>, msg'.phase \in {"assigned", "counted"},
         \E t, f, l, bs : MsgIs(msg', t, f, l, bs)
  PROVE  CodecInv'
<1>1. MsgInv'
  BY DEF CodecInv, MsgInv
<1>2. KeptInv'
  BY DEF CodecInv, KeptInv
<1>3. ReadsBack' /\ TypeForwarded'
  BY DEF ReadsBack, NewReadsBack, RegisteredReadsBack, TypeForwarded, Sent
<1> QED
  BY <1>1, <1>2, <1>3 DEF CodecInv

\* A new object has counted nothing.
LEMMA MakeStep ==
  ASSUME CodecInv, NEW t \in Types, NEW f \in FieldsOf(t), Make(t, f)
  PROVE  CodecInv'
<1> DEFINE o == Obj(t, NameOf[t], f, 0, <<>>, 0, 0)
           m == Msg(o, "assigned", 0, <<>>)
<1>1. msg' = m /\ UNCHANGED <<obj, sends, recounted, got>>
  BY DEF Make, NewObject, Obj, Msg
<1>2. FlattenSeq(<<>>) = <<>> /\ Len(<<>>) = 0 /\ <<>> \in Seq(Blocks(t))
  BY DEF FlattenSeq
<1>3. m.phase = "assigned" /\ m.first = <<>>
  BY DEF Msg
<1>4. m = Msg(Obj(t, NameOf[t], f, 0, FlattenSeq(<<>>), Len(FlattenSeq(<<>>)), 0), m.phase, Len(<<>>), m.first)
  BY <1>2, <1>3
<1> HIDE DEF m
<1>5. MsgIs(m, t, f, 0, <<>>)
  BY <1>2, <1>3, <1>4 DEF MsgIs
<1> QED
  BY <1>1, <1>3, <1>5, NotSent

\* The sender's record, when it has one.
LEMMA HasMessage ==
  ASSUME CodecInv, msg.phase # "sent" \/ sends > 0
  PROVE  \E t, f, l, bs : MsgIs(msg, t, f, l, bs)
  BY DEF CodecInv, MsgInv

\* What the sender's record holds.
LEMMA MsgParts ==
  ASSUME NEW m, NEW t, NEW f, NEW l, NEW bs, MsgIs(m, t, f, l, bs)
  PROVE  /\ m.o = Obj(t, NameOf[t], f, l, FlattenSeq(bs), Len(FlattenSeq(bs)), 0) /\ m.counts = Len(bs)
         /\ m.o.type = t /\ m.o.fields = f
         /\ t \in Types /\ f \in FieldsOf(t) /\ l \in Nat /\ bs \in Seq(Blocks(t)) /\ Len(bs) \in Nat
         /\ Counted(m.o) = Counts(t, f)
<1> DEFINE o == Obj(t, NameOf[t], f, l, FlattenSeq(bs), Len(FlattenSeq(bs)), 0)
<1>1. m = Msg(o, m.phase, Len(bs), m.first)
  BY DEF MsgIs
<1>2. o.type = t /\ o.fields = f
  BY DEF Obj
<1>3. Counted(o) = Counts(t, f)
  BY BodyOfObj
<1> HIDE DEF o
<1>4. m.o = o /\ m.counts = Len(bs)
  BY <1>1 DEF Msg
<1>5. t \in Types /\ f \in FieldsOf(t) /\ l \in Nat /\ bs \in Seq(Blocks(t))
  BY DEF MsgIs
<1> QED
  BY <1>2, <1>3, <1>4, <1>5 DEF o

\* Assigning members changes no length.
LEMMA AssignStep ==
  ASSUME CodecInv, sends > 0, NEW g \in FieldsOf(msg.o.type), Assign(g)
  PROVE  CodecInv'
<1>1. PICK t, f, l, bs : MsgIs(msg, t, f, l, bs)
  BY HasMessage
<1> DEFINE ls == FlattenSeq(bs)
           z == Len(ls)
           o == Obj(t, NameOf[t], f, l, ls, z, 0)
           p == Obj(t, NameOf[t], g, l, ls, z, 0)
           fi == msg.first
           n == Len(bs)
<1>2. msg = Msg(o, msg.phase, n, fi) /\ (bs # <<>> => fi = bs[1])
  BY <1>1 DEF MsgIs
<1>3. msg.o.type = t /\ t \in Types /\ l \in Nat /\ bs \in Seq(Blocks(t))
  BY <1>1, MsgParts
<1>4. [o EXCEPT !.fields = g] = p
  <2> HIDE DEF ls, z
  <2> QED
    BY DEF Obj
<1>5. msg' = [msg EXCEPT !.o.fields = g, !.phase = "assigned"] /\ UNCHANGED <<obj, sends, recounted, got>>
  BY DEF Assign
<1> DEFINE m == Msg(p, "assigned", n, fi)
<1>6. msg' = m
  <2>1. [Msg(o, msg.phase, n, fi) EXCEPT !.o.fields = g, !.phase = "assigned"]
          = [[Msg(o, msg.phase, n, fi) EXCEPT !.o.fields = g] EXCEPT !.phase = "assigned"]
    <3> HIDE DEF o, n, fi
    <3> QED
      OBVIOUS
  <2>2. [Msg(o, msg.phase, n, fi) EXCEPT !.o.fields = g] = Msg([o EXCEPT !.fields = g], msg.phase, n, fi)
    <3> HIDE DEF o, n, fi
    <3> QED
      BY DEF Msg
  <2>3. [Msg(p, msg.phase, n, fi) EXCEPT !.phase = "assigned"] = m
    <3> HIDE DEF p, n, fi
    <3> QED
      BY DEF Msg
  <2> HIDE DEF o, p, n, fi, m
  <2> QED
    BY <1>2, <1>4, <1>5, <2>1, <2>2, <2>3, Zenon
<1>7. m.phase = "assigned" /\ m.first = fi
  BY DEF Msg
<1> HIDE DEF m
<1>8. m = Msg(p, m.phase, n, m.first)
  BY <1>7 DEF m
<1>9. MsgIs(m, t, g, l, bs)
  BY <1>2, <1>3, <1>7, <1>8 DEF MsgIs
<1> QED
  BY <1>5, <1>6, <1>7, <1>9, NotSent

\* A count appends one.
LEMMA CountStep ==
  ASSUME CodecInv, CallCount
  PROVE  CodecInv'
<1>1. PICK t, f, l, bs : MsgIs(msg, t, f, l, bs)
  BY HasMessage DEF CallCount
<1> DEFINE ls == FlattenSeq(bs)
           c == Counts(t, f)
           new == Append(bs, c)
           all == ls \o c
           fi == IF msg.counts = 0 THEN Counted(msg.o) ELSE msg.first
           n == Len(bs)
<1>2. /\ msg.o = Obj(t, NameOf[t], f, l, ls, Len(ls), 0) /\ msg.counts = n
      /\ t \in Types /\ f \in FieldsOf(t) /\ l \in Nat /\ bs \in Seq(Blocks(t)) /\ n \in Nat /\ Counted(msg.o) = c
  BY <1>1, MsgParts
<1>3. c \in Blocks(t) /\ bs \in Seq(Seq(Nat)) /\ ls \in Seq(Nat) /\ c \in Seq(Nat)
  <2>1. c \in Blocks(t)
    BY <1>2 DEF Blocks
  <2> QED
    BY <1>2, <2>1, BlockFacts
<1>4. PICK k \in Nat : /\ k >= ((2 + Len(all)) + Len(NameOf[t])) + Len(Cells(t, f))
                       /\ Count(msg.o) = Obj(t, NameOf[t], f, k, all, Len(all), 0)
  <2> HIDE DEF ls
  <2> DEFINE z == Len(ls)
  <2>1. z = Len(ls) /\ msg.o = Obj(t, NameOf[t], f, l, ls, z, 0)
    BY <1>2
  <2> HIDE DEF z
  <2>2. CountsTo(msg.o, t, f, ls \o Counts(t, f), 0)
    BY <1>2, <1>3, <2>1, CountObj
  <2> QED
    BY <2>2 DEF CountsTo
<1>5. FlattenSeq(new) = all
  <2> HIDE DEF c
  <2> QED
    BY <1>3, FlattenAppend
<1>6. new \in Seq(Blocks(t)) /\ Len(new) = n + 1 /\ new # <<>> /\ (n = 0 => new[1] = c) /\ (n # 0 => new[1] = bs[1])
  <2> HIDE DEF c
  <2>1. new \in Seq(Blocks(t)) /\ Len(new) = n + 1 /\ new[n + 1] = c
    BY <1>2, <1>3, AppendProperties
  <2>2. n # 0 => new[1] = bs[1]
    BY <1>2, <1>3, AppendProperties
  <2>3. n = 0 => new[1] = c
    <3> HIDE DEF new, n
    <3>1. n = 0 => n + 1 = 1
      OBVIOUS
    <3> DEFINE d == n + 1
    <3>2. new[d] = c /\ (n = 0 => d = 1)
      BY <2>1, <3>1
    <3> HIDE DEF d
    <3> QED
      BY <3>2
  <2>4. new # <<>>
    BY <1>2, <1>3, AppendProperties
  <2> QED
    BY <2>1, <2>2, <2>3, <2>4
<1>7. fi = new[1]
  <2>1. CASE n = 0
    BY <1>2, <1>6, <2>1
  <2>2. CASE n # 0
    <3>1. bs # <<>>
      BY <2>2
    <3>2. msg.first = bs[1]
      BY <1>1, <3>1 DEF MsgIs
    <3> HIDE DEF new
    <3> QED
      BY <1>2, <1>6, <2>2, <3>2
  <2> QED
    BY <2>1, <2>2
<1>8. Len(new) = 1 => new[1] = c
  BY <1>2, <1>6
<1> HIDE DEF fi, new
<1> DEFINE p == Obj(t, NameOf[t], f, k, FlattenSeq(new), Len(FlattenSeq(new)), 0)
           m == Msg(p, "counted", Len(new), fi)
<1>9. msg' = m /\ UNCHANGED <<obj, sends, recounted, got>>
  <2>1. Count(msg.o) = p
    BY <1>4, <1>5
  <2>2. msg' = [o |-> Count(msg.o), phase |-> "counted", counts |-> msg.counts + 1, first |-> fi]
    BY DEF CallCount, fi
  <2>3. msg.counts + 1 = Len(new)
    BY <1>2, <1>6
  <2> HIDE DEF p
  <2> QED
    BY <2>1, <2>2, <2>3 DEF CallCount, Msg
<1>10. m.phase = "counted" /\ m.first = fi
  BY DEF Msg
<1>11. m = Msg(p, m.phase, Len(new), m.first)
  BY <1>10
<1>12. k >= ((2 + Len(FlattenSeq(new))) + Len(NameOf[t])) + Len(Cells(t, f))
  BY <1>4, <1>5
<1> HIDE DEF m
<1>13. MsgIs(m, t, f, k, new)
  BY <1>2, <1>6, <1>7, <1>8, <1>10, <1>11, <1>12 DEF MsgIs
<1> QED
  BY <1>9, <1>10, <1>13, NotSent

\* The case of NewReadsBack.
LEMMA ServiceGets ==
  ASSUME NEW m, NEW t, NEW f, NEW l, NEW bs, MsgIs(m, t, f, l, bs), m.phase = "counted",
         m.counts = 1 \/ (m.first = Counted(m.o) /\ ~Contains(MembersOf[t], "texts"))
  PROVE  ReadByService(t, Serialize(m.o)).fields = f
<1>1. m.counts = Len(bs) /\ Counted(m.o) = Counts(t, f)
  BY MsgParts
<1>2. ~Contains(MembersOf[t], "texts") => Plain(t, Len(MembersOf[t]))
  BY DEF Contains, Plain
<1>3. Len(bs) = 1 \/ (m.first = Counts(t, f) /\ Plain(t, Len(MembersOf[t])))
  BY <1>1, <1>2
<1> QED
  BY <1>3, ServiceReads

\* The sender's record, sent.
LEMMA SentMsg ==
  ASSUME NEW m, NEW t, NEW f, NEW l, NEW bs, MsgIs(m, t, f, l, bs), m.phase = "counted",
         NEW n, n = [m EXCEPT !.phase = "sent"]
  PROVE  MsgIs(n, t, f, l, bs) /\ n.phase = "sent" /\ n.o = m.o /\ n.counts = m.counts /\ n.first = m.first
<1> DEFINE o == Obj(t, NameOf[t], f, l, FlattenSeq(bs), Len(FlattenSeq(bs)), 0)
           c == Len(bs)
           fi == m.first
           ph == m.phase
<1>1. m = Msg(o, ph, c, fi) /\ ph # "assigned"
  BY DEF MsgIs
<1>2. /\ t \in Types /\ f \in FieldsOf(t) /\ l \in Nat /\ bs \in Seq(Blocks(t))
      /\ bs # <<>> => fi = bs[1]
      /\ bs # <<>> /\ (Len(bs) = 1 => bs[1] = Counts(t, f))
      /\ l >= ((2 + Len(FlattenSeq(bs))) + Len(NameOf[t])) + Len(Cells(t, f))
  BY DEF MsgIs
<1> HIDE DEF o, c, fi, ph
<1>3. m.o = o /\ m.counts = c /\ m.first = fi
  BY <1>1 DEF Msg
<1>4. n = Msg(o, "sent", c, fi)
  BY <1>1 DEF Msg
<1>5. n.phase = "sent" /\ n.o = o /\ n.counts = c /\ n.first = fi
  BY <1>4 DEF Msg
<1>6. n = Msg(o, n.phase, c, n.first)
  BY <1>4, <1>5
<1>7. MsgIs(n, t, f, l, bs)
  BY <1>2, <1>5, <1>6 DEF MsgIs, o, c
<1> QED
  BY <1>3, <1>5, <1>7

\* What messageFunc stores, and what the model notes of the sender.
Stored(obs, old, t, here) == obs = [old EXCEPT ![t] = here]
Noted(rec, rec0, n, t) == rec = IF n > 1 THEN rec0 \cup {t} ELSE rec0

\* messageFunc changes the one object.
LEMMA ReceiveStep ==
  ASSUME NEW m, NEW old, NEW rec0, NEW t, NEW f, NEW l, NEW bs, MsgIs(m, t, f, l, bs), m.phase = "counted",
         NEW here, here = Deserialize(old[t], Serialize(m.o)), NEW obs, NEW rec,
         Stored(obs, old, t, here), Noted(rec, rec0, m.counts, t),
         t \in Registered, AllKept(old, rec0)
  PROVE  AllKept(obs, rec) /\ TakesIt(here, t, f, rec)
<1>1. rec0 \subseteq rec /\ (Len(bs) > 1 => t \in rec)
  <2>1. m.counts = Len(bs)
    BY MsgParts
  <2> QED
    BY <2>1 DEF Noted
<1>2. old = [u \in Registered |-> old[u]] /\ \A u \in Registered : KeptIs(old[u], u, rec0)
  BY DEF AllKept
<1>3. KeptIs(old[t], t, rec0)
  BY <1>2
<1>4. KeptIs(here, t, rec) /\ here.name = NameOf[t] /\ (t \notin rec => here.fields = f)
  <2> DEFINE o == old[t]
  <2>1. KeptIs(o, t, rec0) /\ here = Deserialize(o, Serialize(m.o))
    BY <1>3
  <2> HIDE DEF o
  <2>2. TakesIt(here, t, f, rec)
    BY <1>1, <2>1, KeptTakes
  <2> QED
    BY <2>2 DEF TakesIt
<1>5. obs = [u \in Registered |-> IF u = t THEN here ELSE old[u]]
  BY <1>2 DEF Stored
<1>6. obs = [u \in Registered |-> obs[u]]
  BY <1>5
<1>7. ASSUME NEW u \in Registered PROVE KeptIs(obs[u], u, rec)
  <2>1. CASE u = t
    <3>1. obs[u] = here
      BY <1>5, <2>1
    <3> QED
      BY <1>4, <2>1, <3>1
  <2>2. CASE u # t
    <3>1. obs[u] = old[u] /\ KeptIs(old[u], u, rec0)
      BY <1>2, <1>5, <2>2
    <3>2. u \notin rec => u \notin rec0
      BY <1>1
    <3>3. KeptIs(old[u], u, rec)
      BY <3>1, <3>2 DEF KeptIs
    <3> QED
      BY <3>1, <3>3
  <2> QED
    BY <2>1, <2>2
<1> QED
  BY <1>4, <1>6, <1>7 DEF AllKept, TakesIt

\* FILL_2_THIS undoes FILL_2_VEC.
LEMMA CarrierKeeps ==
  ASSUME NEW ty, NEW data
  PROVE  LET c == Fill2This(Fill2Vec([TYPE |-> ty, SERVICE |-> "server", NEXT_SERVICE |-> "service",
                                     CLIENT_ID |-> "connection", CLIENT_ADDRESS |-> "address", MESSAGE |-> data]))
         IN c.TYPE = ty /\ c.CLIENT_ID = "connection" /\ c.MESSAGE = data
  BY DEF Fill2This, Fill2Vec

\* A message sent is read by the thread's object and by a new one.
LEMMA SendStep ==
  ASSUME CodecInv, Send
  PROVE  CodecInv'
<1>1. msg.phase = "counted" /\ sends' = sends + 1 /\ msg' = [msg EXCEPT !.phase = "sent"]
  BY DEF Send
<1>2. PICK t, f, l, bs : MsgIs(msg, t, f, l, bs)
  BY <1>1, HasMessage
<1> DEFINE data == Serialize(msg.o)
           here == Deserialize(obj[t], data)
<1>3. msg.o.type = t /\ msg.o.fields = f /\ t \in Types
  BY <1>2, MsgParts
<1>4. MsgIs(msg', t, f, l, bs) /\ msg'.phase = "sent" /\ msg'.o = msg.o /\ msg'.counts = msg.counts /\ msg'.first = msg.first
  BY <1>1, <1>2, SentMsg
<1>5. MsgInv'
  BY <1>1, <1>4 DEF CodecInv, MsgInv
<1>6. msg.counts = 1 \/ (msg.first = Counted(msg.o) /\ ~Contains(MembersOf[t], "texts"))
        => ReadByService(t, data).fields = f
  BY <1>1, <1>2, ServiceGets
<1>7. ASSUME Receive(here)
      PROVE  KeptInv' /\ here.name = NameOf[t] /\ (t \notin recounted' => here.fields = f) /\ t \in Registered
  <2>1. /\ t \in Registered /\ obj' = [obj EXCEPT ![t] = here]
        /\ recounted' = IF msg.counts > 1 THEN recounted \cup {t} ELSE recounted
    BY <1>3, <1>7 DEF Receive
  <2> DEFINE h == here
  <2>2. h = Deserialize(obj[t], Serialize(msg.o)) /\ obj' = [obj EXCEPT ![t] = h]
    BY <2>1
  <2> HIDE DEF h
  <2>3. PICK m, old, rec0, obs, rec : m = msg /\ old = obj /\ rec0 = recounted /\ obs = obj' /\ rec = recounted'
    OBVIOUS
  <2>4. PICK g : g = h
    OBVIOUS
  <2>5. /\ MsgIs(m, t, f, l, bs) /\ m.phase = "counted" /\ g = Deserialize(old[t], Serialize(m.o))
        /\ Stored(obs, old, t, g) /\ Noted(rec, rec0, m.counts, t) /\ t \in Registered
    BY <1>1, <1>2, <2>1, <2>2, <2>3, <2>4 DEF Stored, Noted
  <2>6. AllKept(old, rec0)
    BY <2>3 DEF CodecInv, KeptInv
  <2>7. AllKept(obs, rec) /\ TakesIt(g, t, f, rec)
    BY <2>5, <2>6, ReceiveStep
  <2>8. AllKept(obj', recounted') /\ TakesIt(here, t, f, recounted')
    <3>1. g = here
      BY <2>4 DEF h
    <3> HIDE DEF here
    <3> QED
      BY <2>3, <2>7, <3>1
  <2> QED
    BY <2>1, <2>8 DEF KeptInv, TakesIt
<1> HIDE DEF data, here
<1>8. CASE SendRequest
  <2> DEFINE c == Fill2This(Fill2Vec([TYPE |-> here.name, SERVICE |-> "server", NEXT_SERVICE |-> "service",
                                     CLIENT_ID |-> "connection", CLIENT_ADDRESS |-> "address", MESSAGE |-> data]))
  <2>1. /\ t \in Forwarded /\ Receive(here)
        /\ got' = [type |-> t, logged |-> here.fields, kind |-> c.TYPE, id |-> c.CLIENT_ID,
                   read |-> ReadByService(t, c.MESSAGE).fields]
    BY <1>3, <1>8 DEF SendRequest, here, data
  <2>2. c.TYPE = here.name /\ c.CLIENT_ID = "connection" /\ c.MESSAGE = data
    BY CarrierKeeps
  <2> HIDE DEF c
  <2>3. /\ got'.type = t /\ got'.logged = here.fields /\ got'.kind = here.name /\ got'.id = "connection"
        /\ got'.read = ReadByService(t, data).fields
    BY <2>1, <2>2
  <2>4. KeptInv' /\ here.name = NameOf[t] /\ (t \notin recounted' => here.fields = f) /\ t \in Registered
    BY <1>7, <2>1
  <2>5. NewReadsBack'
    BY <1>3, <1>4, <1>6, <2>3 DEF NewReadsBack
  <2>6. RegisteredReadsBack' /\ TypeForwarded'
    BY <1>3, <1>4, <2>3, <2>4 DEF RegisteredReadsBack, TypeForwarded
  <2> QED
    BY <1>5, <2>4, <2>5, <2>6 DEF CodecInv, ReadsBack
<1>9. CASE SendLocal
  <2>1. t \notin Forwarded /\ Receive(here) /\ got' = [type |-> t, logged |-> here.fields]
    BY <1>3, <1>9 DEF SendLocal, here, data
  <2>2. got'.type = t /\ got'.logged = here.fields
    BY <2>1
  <2>3. KeptInv' /\ (t \notin recounted' => here.fields = f) /\ t \in Registered
    BY <1>7, <2>1
  <2>4. NewReadsBack' /\ TypeForwarded'
    BY <2>1, <2>2, <2>3 DEF NewReadsBack, TypeForwarded
  <2>5. RegisteredReadsBack'
    BY <1>3, <1>4, <2>2, <2>3 DEF RegisteredReadsBack
  <2> QED
    BY <1>5, <2>3, <2>4, <2>5 DEF CodecInv, ReadsBack
<1>10. CASE SendOther
  <2>1. t \notin Registered /\ got' = [type |-> t, read |-> ReadByService(t, data).fields] /\ UNCHANGED <<obj, recounted>>
    BY <1>3, <1>10 DEF SendOther, data
  <2>2. got'.type = t /\ got'.read = ReadByService(t, data).fields
    BY <2>1
  <2>3. KeptInv'
    BY <2>1 DEF CodecInv, KeptInv
  <2>4. NewReadsBack'
    BY <1>3, <1>4, <1>6, <2>2 DEF NewReadsBack
  <2>5. RegisteredReadsBack' /\ TypeForwarded'
    BY <2>1, <2>2 DEF RegisteredReadsBack, TypeForwarded
  <2> QED
    BY <1>5, <2>3, <2>4, <2>5 DEF CodecInv, ReadsBack
<1> QED
  BY <1>8, <1>9, <1>10 DEF Send

\* Objects begin without lengths.
LEMMA CodecStart == CodecInit => CodecInv
<1> SUFFICES ASSUME CodecInit PROVE CodecInv
  OBVIOUS
<1>1. MsgInv
  BY DEF CodecInit, MsgInv
<1>2. ReadsBack /\ TypeForwarded
  BY DEF CodecInit, ReadsBack, NewReadsBack, RegisteredReadsBack, TypeForwarded, Sent
<1>3. ASSUME NEW t \in Registered PROVE KeptIs(obj[t], t, recounted)
  <2> DEFINE e == <<>>
             F == Unset(t)
  <2>1. obj[t] = Obj(t, NameOf[t], F, 0, e, 0, 0)
    BY DEF CodecInit, NewObject, Obj
  <2>2. e \in Seq(Nat) /\ e \in Seq(Blocks(t)) /\ FlattenSeq(e) = e /\ e \o e = e /\ Len(e) = 0
    BY DEF FlattenSeq
  <2>3. FcnTo(F, Len(MembersOf[t]))
    <3>1. MembersOf[t] \in Seq(Kinds)
      BY CodecAssumption, MembersFacts DEF WellFormed
    <3> QED
      BY <3>1 DEF FcnTo, Unset
  <2>4. obj[t] = Obj(t, NameOf[t], F, 0, e \o FlattenSeq(e), 0, Len(e)) /\ e = <<>>
    BY <2>1, <2>2
  <2> HIDE DEF e, F
  <2> QED
    BY <2>2, <2>3, <2>4 DEF KeptIs
<1>4. obj = [t \in Registered |-> obj[t]]
  BY DEF CodecInit
<1> QED
  BY <1>1, <1>2, <1>3, <1>4 DEF CodecInv, KeptInv, AllKept

\* Every step keeps the invariant.
LEMMA CodecStep == CodecInv /\ [CodecNext]_codecVars => CodecInv'
<1> SUFFICES ASSUME CodecInv, [CodecNext]_codecVars PROVE CodecInv'
  OBVIOUS
<1>1. CASE \E t \in Types : \E f \in FieldsOf(t) : Make(t, f)
  BY <1>1, MakeStep
<1>2. CASE sends > 0 /\ \E f \in FieldsOf(msg.o.type) : Assign(f)
  BY <1>2, AssignStep
<1>3. CASE CallCount
  BY <1>3, CountStep
<1>4. CASE Send
  BY <1>4, SendStep
<1>5. CASE UNCHANGED codecVars
  BY <1>5 DEF codecVars, CodecInv, MsgInv, KeptInv, ReadsBack, NewReadsBack, RegisteredReadsBack, TypeForwarded, Sent
<1> QED
  BY <1>1, <1>2, <1>3, <1>4, <1>5 DEF CodecNext

\* For any names, strings and vectors, any number of counts and messages: a new
\* object reads what an object counted once has sent, or counted before with the
\* same lengths if it holds no vector of strings; and the object a thread keeps
\* reads every message of its type until one was counted twice, although
\* deserialize never clears its lengths.
THEOREM SentIsRead == CodecSpec => []ReadsBack
<1>1. CodecInv => ReadsBack
  BY DEF CodecInv
<1> QED
  BY <1>1, CodecStart, CodecStep, PTL DEF CodecSpec

\* Whatever a thread's object has read before, the carrier names the type of
\* this message and the connection it came from.
THEOREM TypeCarried == CodecSpec => []TypeForwarded
<1>1. CodecInv => TypeForwarded
  BY DEF CodecInv
<1> QED
  BY <1>1, CodecStart, CodecStep, PTL DEF CodecSpec
=============================================================================
