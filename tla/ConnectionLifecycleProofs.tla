--------------------- MODULE ConnectionLifecycleProofs ---------------------
(***************************************************************************)
(* The properties of ConnectionLifecycle for any number of connections and *)
(* event loops: which thread may refer to a connection at which stage, who *)
(* closes which descriptor, and how the acceptor spreads connections over  *)
(* the event loops.                                                        *)
(***************************************************************************)
EXTENDS ConnectionLifecycle, TLAPS, FiniteSetTheorems, WellFoundedInduction

\* Stages of a connection that has an event loop, and that has been in the table.
Placed == {"polled", "inserted", "handled", "done"}
Listed == {"inserted", "handled", "done"}

\* A connection without a loop has not been given to one; before accept it has
\* no descriptor, and it is in the table until its close callback is bound.
StageInv(c) ==
  /\ stage[c] \in {"none", "refused"} => c \notin open
  /\ onLoop[c] = NoLoop <=> stage[c] \notin Placed
  /\ stage[c] = "done" <=> closer[c] # "unset"
  /\ stage[c] \in {"inserted", "handled"} => c \in table
  /\ c \in table => stage[c] \in Listed /\ closer[c] # "reset"

\* A destroyed connection has lost everything that refers to it, and a close
\* callback still bound to a connection out of the table is being run.
EndInv(c) ==
  /\ c \in gone => stage[c] = "done" /\ closer[c] = "reset" /\ c \notin open /\ c \notin table
  /\ closer[c] = "bound" /\ c \notin table
       => loop[onLoop[c]].c = c \/ (timer.pc = "reset" /\ timer.c = c)

\* What a thread in the middle of a connection's end knows of it.
LoopInv(l) ==
  \/ loop[l] = Idle
  \/ /\ loop[l].pc = "reset" /\ loop[l].c \in Conns
     /\ onLoop[loop[l].c] = l
     /\ stage[loop[l].c] = "done"
     /\ loop[l].c \notin table \cup gone

\* The connection whose heartbeat is checked is alive, and is out of the table
\* once the check has closed it.
TimerInv ==
  \/ timer = Idle
  \/ /\ timer.pc \in {"check", "reset"} /\ timer.c \in Conns
     /\ stage[timer.c] = "done"
     /\ timer.c \notin gone
     /\ timer.pc = "reset" => timer.c \notin table

\* The connection the stream's consumer found in the table is alive while it is used.
BorrowerInv ==
  \/ borrower = Idle
  \/ /\ borrower.pc = "put" /\ borrower.c \in Conns
     /\ stage[borrower.c] \in Listed
     /\ borrower.c \notin gone

\* The shape of the state without its bounds: those of fd and given need counting.
Shape ==
  /\ stage \in [Conns -> {"polled", "inserted", "handled"} \cup Settled]
  /\ peer \in [Conns -> {"open", "closed"}]
  /\ closer \in [Conns -> {"unset", "bound", "reset"}]
  /\ fresh \subseteq Conns /\ due \subseteq Conns /\ early \subseteq Conns
  /\ open \subseteq Conns /\ table \subseteq Conns /\ gone \subseteq Conns
  /\ looping \subseteq Loops /\ nextIndex \in Loops
  /\ onLoop \in [Conns -> looping \cup {NoLoop}]
  /\ loop \in [Loops -> Thread] /\ timer \in Thread /\ borrower \in Thread
  /\ shared \in BOOLEAN /\ crashed \in BOOLEAN

\* The connections given to loop l.
On(l) == {c \in Conns : onLoop[c] = l}

\* Descriptors and the loops' counts.
CountInv ==
  /\ fd \in [Conns -> 0..Cardinality(Conns)]
  /\ \A c, d \in open : fd[c] = fd[d] => c = d
  /\ given \in [Loops -> Nat]
  /\ \A l \in Loops : given[l] <= Cardinality(On(l))

\* Who refers to which connection, at which stage of it.
RefInv ==
  /\ \A c \in Conns : StageInv(c) /\ EndInv(c)
  /\ \A l \in Loops : LoopInv(l)
  /\ TimerInv /\ BorrowerInv

\* The inductive invariant of the connections.
ConnInv == Shape /\ CountInv /\ RefInv /\ NoLeak

\* Two threads use one connection only if that was noted, and a thread that is
\* alone with a connection finds it unchanged.
UseInv ==
  /\ crashed => shared
  /\ ~shared =>
       \A c \in Conns :
         /\ timer.c = c => borrower.c # c /\ \A l \in Loops : loop[l].c # c
         /\ borrower.c = c => \A l \in Loops : loop[l].c # c
         /\ timer.c = c /\ timer.pc = "check" => c \in table
         /\ timer.c = c /\ timer.pc = "reset" => closer[c] = "bound"
         /\ \A l \in Loops : loop[l].c = c => closer[c] = "bound"

\* As long as no connection is closed early, a connection that is not destroyed
\* has its descriptor.
SocketInv ==
  early = {} => \A c \in Conns : stage[c] \notin {"none", "refused"} /\ c \notin gone => c \in open

\* How many indices roundRobinIndex advances from n to reach loop l.
Ahead(l, n) == IF l > n THEN l - n ELSE l + ThreadNum - n

\* The sooner a loop's turn comes, the fewer connections it has: at most one less.
TurnInv ==
  \A k, l \in looping :
    Ahead(k, nextIndex) <= Ahead(l, nextIndex) => given[k] <= given[l] /\ given[l] <= given[k] + 1

-----------------------------------------------------------------------------
(* The operators *)

\* Min is the least element of a set of naturals that has one.
LEMMA MinLeast ==
  ASSUME NEW S \in SUBSET Nat, S # {}
  PROVE  Min(S) \in S /\ \A y \in S : Min(S) <= y
<1> DEFINE R == OpToRel(<, Nat)
<1>1. IsWellFoundedOn(R, Nat)
  BY NatLessThanWellFounded
<1>2. \A x, y \in Nat : y < x => <<y, x>> \in R
  BY Zenon DEF OpToRel
<1> HIDE DEF R
<1>3. PICK x \in S : \A y \in S : ~ (<<y, x>> \in R)
  BY <1>1, WFMin
<1>4. \A y \in S : ~ (y < x)
  BY <1>2, <1>3, Zenon
<1>5. \A y \in S : x <= y
  BY <1>4
<1> QED
  BY <1>5 DEF Min

\* accept finds a descriptor, and one that no connection has open.
LEMMA FreeIsFree ==
  ASSUME Shape, fd \in [Conns -> 0..Cardinality(Conns)], NEW c \in Conns, c \notin open
  PROVE  Free \in 1..Cardinality(Conns) /\ \A d \in open : fd[d] # Free
<1> DEFINE N == Cardinality(Conns)
           used == {fd[d] : d \in open}
           S == {n \in 1..N : n \notin used}
<1>1. N \in Nat /\ IsFiniteSet(Conns)
  BY LifecycleAssumption, FS_CardinalityType
<1>2. IsFiniteSet(open) /\ Cardinality(open) < N /\ Cardinality(open) \in Nat
  <2>1. open \in SUBSET (Conns \ {c}) /\ IsFiniteSet(Conns \ {c}) /\ Cardinality(Conns \ {c}) = N - 1
    BY <1>1, FS_RemoveElement DEF Shape
  <2>2. IsFiniteSet(open) /\ Cardinality(open) <= N - 1
    BY <2>1, FS_Subset
  <2> QED
    BY <1>1, <2>2, FS_CardinalityType
<1>3. IsFiniteSet(1..N) /\ Cardinality(1..N) = N
  BY <1>1, FS_Interval
<1>4. S # {}
  <2> SUFFICES ASSUME S = {} PROVE FALSE
    OBVIOUS
  <2> DEFINE f == [n \in 1..N |-> CHOOSE d \in open : fd[d] = n]
  <2>1. \A n \in 1..N : \E d \in open : fd[d] = n
    OBVIOUS
  <2>2. \A n \in 1..N : f[n] \in open /\ fd[f[n]] = n
    BY <2>1
  <2>3. f \in [1..N -> open]
    BY <2>2
  <2> HIDE DEF f
  <2>4. \E x, y \in 1..N : x # y /\ f[x] = f[y]
    <3> DEFINE I == 1..N
    <3>1. IsFiniteSet(I) /\ IsFiniteSet(open) /\ Cardinality(open) < Cardinality(I) /\ f \in [I -> open]
      BY <1>2, <1>3, <2>3
    <3> HIDE DEF I
    <3>2. \E x, y \in I : x # y /\ f[x] = f[y]
      BY <3>1, FS_PigeonHole
    <3> QED
      BY <3>2 DEF I
  <2>5. PICK x \in 1..N, y \in 1..N : x # y /\ f[x] = f[y]
    BY <2>4
  <2> QED
    BY <2>2, <2>5
<1>5. S \in SUBSET Nat
  BY <1>1
<1>6. Free = Min(S)
  BY DEF Free
<1> HIDE DEF S
<1>7. Free \in S
  BY <1>4, <1>5, <1>6, MinLeast
<1> QED
  BY <1>7 DEF S

\* roundRobinIndex finds a loop that runs if there is one, and no other that runs
\* comes before it (EventLoopThreadpool.h).
LEMMA RoundRobinNext ==
  ASSUME Shape
  PROVE  /\ RoundRobin.next \in Loops
         /\ looping = {} => RoundRobin.index = NoLoop
         /\ looping # {} => /\ RoundRobin.index \in looping
                            /\ RoundRobin.next = RoundRobin.index
                            /\ \A l \in looping : Ahead(RoundRobin.index, nextIndex) <= Ahead(l, nextIndex)
<1> DEFINE N == ThreadNum
           tmp == nextIndex + 1
           start == tmp % N
           found == {i \in start..(tmp + N - 1) : i % N \in looping}
<1>1. N \in Nat \ {0} /\ nextIndex \in 0..(N - 1) /\ looping \subseteq 0..(N - 1)
  BY LifecycleAssumption DEF Shape, Loops
<1>2. RoundRobin = [index |-> IF found = {} THEN NoLoop ELSE Min(found) % N,
                    next  |-> IF found = {} THEN start ELSE Min(found) % N]
  BY DEF RoundRobin, Candidates
<1>3. start \in 0..(N - 1) /\ (tmp < N => start = tmp) /\ (tmp = N => start = 0)
  <2>1. CASE tmp < N
    BY <1>1, <2>1
  <2>2. CASE tmp = N
    BY <1>1, <2>2
  <2> QED
    BY <1>1, <2>1, <2>2
<1>4. \A i \in 0..(N - 1) : i % N = i
  BY <1>1
<1>5. \A i \in N..(2 * N - 1) : i % N = i - N
  BY <1>1
<1>6. found \in SUBSET Nat
  BY <1>1, <1>3
<1>7. \A l \in looping : IF l >= start THEN l \in found ELSE l + N \in found
  <2> SUFFICES ASSUME NEW l \in looping PROVE IF l >= start THEN l \in found ELSE l + N \in found
    OBVIOUS
  <2>1. CASE l >= start
    BY <1>1, <1>3, <1>4, <2>1
  <2>2. CASE l < start
    <3>1. tmp < N /\ start = tmp /\ l + N \in N..(2 * N - 1) /\ l + N \in start..(tmp + N - 1)
      BY <1>1, <1>3, <2>2
    <3>2. (l + N) % N = l
      BY <1>1, <1>5, <3>1
    <3> QED
      BY <1>1, <1>3, <2>2, <3>1, <3>2
  <2> QED
    BY <1>1, <1>3, <2>1, <2>2
<1> DEFINE best == Min(found)
<1>8. CASE found = {}
  <2>1. looping = {}
    BY <1>7, <1>8
  <2>2. RoundRobin.next = start /\ RoundRobin.index = NoLoop
    BY <1>2, <1>8
  <2> QED
    BY <1>3, <2>1, <2>2 DEF Loops
<1>9. CASE found # {}
  <2>1. best \in found /\ \A i \in found : best <= i
    BY <1>6, <1>9, MinLeast
  <2>2. RoundRobin.next = best % N /\ RoundRobin.index = best % N
    BY <1>2, <1>9
  <2>3. best % N \in looping /\ best \in start..(tmp + N - 1)
    BY <2>1
  <2> HIDE DEF best, found
  <2>4. ASSUME NEW l \in looping PROVE Ahead(best % N, nextIndex) <= Ahead(l, nextIndex)
    <3> DEFINE j == IF l >= start THEN l ELSE l + N
    <3>1. best <= j
      BY <1>7, <2>1
    <3>2. CASE tmp = N
      <4>1. best \in 0..(N - 1) /\ best <= l
        BY <1>1, <1>3, <2>3, <3>1, <3>2
      <4>2. best % N = best
        BY <1>4, <4>1
      <4> QED
        BY <1>1, <3>2, <4>1, <4>2 DEF Ahead
    <3>3. CASE tmp < N
      <4>1. start = tmp /\ best \in tmp..(tmp + N - 1)
        BY <1>3, <2>3, <3>3
      <4>2. Ahead(best % N, nextIndex) = best - nextIndex
        <5>1. CASE best < N
          <6>1. best % N = best
            BY <1>1, <1>4, <4>1, <5>1
          <6> QED
            BY <1>1, <4>1, <5>1, <6>1 DEF Ahead
        <5>2. CASE best >= N
          <6>1. best \in N..(2 * N - 1) 
            BY <1>1, <3>3, <4>1, <5>2
          <6>2. best % N = best - N
            BY <1>5, <6>1
          <6> QED
            BY <1>1, <4>1, <5>2, <6>1, <6>2 DEF Ahead
        <5> QED
          BY <1>1, <4>1, <5>1, <5>2
      <4>3. Ahead(l, nextIndex) = j - nextIndex
        BY <1>1, <3>3, <4>1 DEF Ahead
      <4>4. j \in Int /\ best \in Int
        BY <1>1, <4>1
      <4> HIDE DEF j
      <4> QED
        BY <1>1, <3>1, <4>2, <4>3, <4>4
    <3> QED
      BY <1>1, <3>2, <3>3
  <2> QED
    BY <1>1, <2>2, <2>3, <2>4 DEF Loops
<1> QED
  BY <1>8, <1>9

-----------------------------------------------------------------------------
(* References *)

\* Facts of the invariant about the threads' fields that the steps below use.
LEMMA ThreadFields ==
  ASSUME ConnInv
  PROVE  /\ \A l \in Loops : /\ loop[l] = Idle <=> loop[l].c = None
                             /\ loop[l].c = None \/ loop[l].c \in Conns
         /\ timer = Idle <=> timer.c = None
         /\ borrower = Idle <=> borrower.c = None
         /\ timer.c = None \/ timer.c \in Conns
         /\ borrower.c = None \/ borrower.c \in Conns
         /\ Idle.c = None /\ None \notin Conns
<1>1. Idle.c = None /\ None \notin Conns
  BY LifecycleAssumption DEF Idle
<1>2. \A l \in Loops : (loop[l] = Idle <=> loop[l].c = None) /\ (loop[l].c = None \/ loop[l].c \in Conns)
  BY <1>1 DEF ConnInv, RefInv, LoopInv
<1>3. (timer = Idle <=> timer.c = None) /\ (timer.c = None \/ timer.c \in Conns)
  BY <1>1 DEF ConnInv, RefInv, TimerInv
<1>4. (borrower = Idle <=> borrower.c = None) /\ (borrower.c = None \/ borrower.c \in Conns)
  BY <1>1 DEF ConnInv, RefInv, BorrowerInv
<1> QED
  BY <1>1, <1>2, <1>3, <1>4

\* A refused client leaves nothing behind (TcpServer::connFunc).
LEMMA RefuseRefs ==
  ASSUME ConnInv, NEW c \in Conns, Refuse(c)
  PROVE  RefInv' /\ NoLeak'
<1> USE ThreadFields DEF ConnInv, Shape, RefInv, poolVars, Refuse, At, Accepting, Settled
<1>1. \A d \in Conns : StageInv(d)'
  BY DEF StageInv, Placed, Listed
<1>2. \A d \in Conns : EndInv(d)'
  BY DEF StageInv, EndInv, LoopInv, TimerInv, BorrowerInv, Placed, Listed
<1>3. \A l \in Loops : LoopInv(l)'
  BY DEF StageInv, EndInv, LoopInv, TimerInv, BorrowerInv, Placed, Listed
<1>4. TimerInv'
  BY DEF StageInv, EndInv, LoopInv, TimerInv, BorrowerInv, Placed, Listed
<1>5. BorrowerInv'
  BY DEF StageInv, EndInv, LoopInv, TimerInv, BorrowerInv, Placed, Listed
<1>6. NoLeak'
  BY DEF NoLeak, InUse, StageInv, EndInv, LoopInv, TimerInv, BorrowerInv, Placed, Listed
<1> QED
  BY <1>1, <1>2, <1>3, <1>4, <1>5, <1>6

\* newConnectionFunc begins with a connection that nothing refers to yet.
LEMMA AcceptRefs ==
  ASSUME ConnInv, NEW c \in Conns, Accept(c)
  PROVE  RefInv' /\ NoLeak'
<1> USE ThreadFields DEF ConnInv, Shape, RefInv, poolVars, Accept, At
<1>1. \A d \in Conns : StageInv(d)'
  BY DEF StageInv, Placed, Listed
<1>2. \A d \in Conns : EndInv(d)'
  BY DEF StageInv, EndInv, LoopInv, TimerInv, BorrowerInv, Placed, Listed
<1>3. \A l \in Loops : LoopInv(l)'
  BY DEF StageInv, EndInv, LoopInv, TimerInv, BorrowerInv, Placed, Listed
<1>4. TimerInv'
  BY DEF StageInv, EndInv, LoopInv, TimerInv, BorrowerInv, Placed, Listed
<1>5. BorrowerInv'
  BY DEF StageInv, EndInv, LoopInv, TimerInv, BorrowerInv, Placed, Listed
<1>6. NoLeak'
  BY DEF NoLeak, InUse, StageInv, EndInv, LoopInv, TimerInv, BorrowerInv, Placed, Listed
<1> QED
  BY <1>1, <1>2, <1>3, <1>4, <1>5, <1>6

\* A connection that enters the table is not destroyed and can be closed.
LEMMA InsertRefs ==
  ASSUME ConnInv, NEW c \in Conns, Insert(c)
  PROVE  RefInv' /\ NoLeak'
<1> USE ThreadFields DEF ConnInv, Shape, RefInv, poolVars, Insert, At, Settled
<1>1. \A d \in Conns : StageInv(d)'
  BY DEF StageInv, Placed, Listed
<1>2. \A d \in Conns : EndInv(d)'
  BY DEF StageInv, EndInv, LoopInv, TimerInv, BorrowerInv, Placed, Listed
<1>3. \A l \in Loops : LoopInv(l)'
  BY DEF StageInv, EndInv, LoopInv, TimerInv, BorrowerInv, Placed, Listed
<1>4. TimerInv'
  BY DEF StageInv, EndInv, LoopInv, TimerInv, BorrowerInv, Placed, Listed
<1>5. BorrowerInv'
  BY DEF StageInv, EndInv, LoopInv, TimerInv, BorrowerInv, Placed, Listed
<1>6. NoLeak'
  BY DEF NoLeak, InUse, StageInv, EndInv, LoopInv, TimerInv, BorrowerInv, Placed, Listed
<1> QED
  BY <1>1, <1>2, <1>3, <1>4, <1>5, <1>6

\* The heartbeat check and the message callback change nobody's hold.
LEMMA SetMessageFuncRefs ==
  ASSUME ConnInv, NEW c \in Conns, SetMessageFunc(c)
  PROVE  RefInv' /\ NoLeak'
<1> USE ThreadFields DEF ConnInv, Shape, RefInv, poolVars, SetMessageFunc, At, Settled
<1>1. \A d \in Conns : StageInv(d)'
  BY DEF StageInv, Placed, Listed
<1>2. \A d \in Conns : EndInv(d)'
  BY DEF StageInv, EndInv, LoopInv, TimerInv, BorrowerInv, Placed, Listed
<1>3. \A l \in Loops : LoopInv(l)'
  BY DEF StageInv, EndInv, LoopInv, TimerInv, BorrowerInv, Placed, Listed
<1>4. TimerInv'
  BY DEF StageInv, EndInv, LoopInv, TimerInv, BorrowerInv, Placed, Listed
<1>5. BorrowerInv'
  BY DEF StageInv, EndInv, LoopInv, TimerInv, BorrowerInv, Placed, Listed
<1>6. NoLeak'
  BY DEF NoLeak, InUse, StageInv, EndInv, LoopInv, TimerInv, BorrowerInv, Placed, Listed
<1> QED
  BY <1>1, <1>2, <1>3, <1>4, <1>5, <1>6

\* The close callback is bound while the connection is in the table.
LEMMA SetCloseFuncRefs ==
  ASSUME ConnInv, NEW c \in Conns, SetCloseFunc(c)
  PROVE  RefInv' /\ NoLeak'
<1> USE ThreadFields DEF ConnInv, Shape, RefInv, poolVars, SetCloseFunc, At, Settled
<1>1. \A d \in Conns : StageInv(d)'
  BY DEF StageInv, Placed, Listed
<1>2. \A d \in Conns : EndInv(d)'
  BY DEF StageInv, EndInv, LoopInv, TimerInv, BorrowerInv, Placed, Listed
<1>3. \A l \in Loops : LoopInv(l)'
  BY DEF StageInv, EndInv, LoopInv, TimerInv, BorrowerInv, Placed, Listed
<1>4. TimerInv'
  BY DEF StageInv, EndInv, LoopInv, TimerInv, BorrowerInv, Placed, Listed
<1>5. BorrowerInv'
  BY DEF StageInv, EndInv, LoopInv, TimerInv, BorrowerInv, Placed, Listed
<1>6. NoLeak'
  BY DEF NoLeak, InUse, StageInv, EndInv, LoopInv, TimerInv, BorrowerInv, Placed, Listed
<1> QED
  BY <1>1, <1>2, <1>3, <1>4, <1>5, <1>6

\* closeFunc takes the connection out of the table and keeps it by its pointer.
LEMMA EndOfStreamRefs ==
  ASSUME ConnInv, NEW c \in Conns, EndOfStream(c)
  PROVE  RefInv' /\ NoLeak'
<1> USE ThreadFields DEF ConnInv, Shape, RefInv, poolVars, EndOfStream, Close, WithoutFd, Erase
<1>1. \A d \in Conns : StageInv(d)'
  BY DEF StageInv, Placed, Listed
<1>2. \A d \in Conns : EndInv(d)'
  BY DEF StageInv, EndInv, LoopInv, TimerInv, BorrowerInv, Placed, Listed
<1>3. \A l \in Loops : LoopInv(l)'
  BY DEF StageInv, EndInv, LoopInv, TimerInv, BorrowerInv, Placed, Listed
<1>4. TimerInv'
  BY DEF StageInv, EndInv, LoopInv, TimerInv, BorrowerInv, Placed, Listed
<1>5. BorrowerInv'
  BY DEF StageInv, EndInv, LoopInv, TimerInv, BorrowerInv, Placed, Listed
<1>6. NoLeak'
  BY DEF NoLeak, InUse, StageInv, EndInv, LoopInv, TimerInv, BorrowerInv, Placed, Listed
<1> QED
  BY <1>1, <1>2, <1>3, <1>4, <1>5, <1>6

\* removeConnection in the event loop's thread: the last reference goes, or another thread keeps it.
LEMMA LoopResetRefs ==
  ASSUME ConnInv, NEW c \in Conns, LoopReset(c)
  PROVE  RefInv' /\ NoLeak'
<1> USE ThreadFields DEF ConnInv, Shape, RefInv, poolVars, LoopReset, FinishClose, Reset, Destroy, Holds, WithoutFd
<1>1. \A d \in Conns : StageInv(d)'
  BY DEF StageInv, LoopInv, Placed, Listed
<1>2. \A d \in Conns : EndInv(d)'
  BY DEF StageInv, EndInv, LoopInv, TimerInv, BorrowerInv, Placed, Listed
<1>3. \A l \in Loops : LoopInv(l)'
  BY DEF StageInv, EndInv, LoopInv, TimerInv, BorrowerInv, Placed, Listed
<1>4. TimerInv'
  BY DEF StageInv, EndInv, LoopInv, TimerInv, BorrowerInv, Placed, Listed
<1>5. BorrowerInv'
  BY DEF StageInv, EndInv, LoopInv, TimerInv, BorrowerInv, Placed, Listed
<1>6. NoLeak'
  BY DEF NoLeak, InUse, StageInv, EndInv, LoopInv, TimerInv, BorrowerInv, Placed, Listed
<1> QED
  BY <1>1, <1>2, <1>3, <1>4, <1>5, <1>6

\* The timer finds a connection in the table.
LEMMA CheckFindRefs ==
  ASSUME ConnInv, NEW c \in Conns, CheckFind(c)
  PROVE  RefInv' /\ NoLeak'
<1> USE ThreadFields DEF ConnInv, Shape, RefInv, poolVars, CheckFind
<1>1. \A d \in Conns : StageInv(d)'
  BY DEF StageInv, Placed, Listed
<1>2. \A d \in Conns : EndInv(d)'
  BY DEF StageInv, EndInv, LoopInv, TimerInv, BorrowerInv, Placed, Listed
<1>3. \A l \in Loops : LoopInv(l)'
  BY DEF StageInv, EndInv, LoopInv, TimerInv, BorrowerInv, Placed, Listed
<1>4. TimerInv'
  BY DEF StageInv, EndInv, LoopInv, TimerInv, BorrowerInv, Placed, Listed
<1>5. BorrowerInv'
  BY DEF StageInv, EndInv, LoopInv, TimerInv, BorrowerInv, Placed, Listed
<1>6. NoLeak'
  BY DEF NoLeak, InUse, StageInv, EndInv, LoopInv, TimerInv, BorrowerInv, Placed, Listed
<1> QED
  BY <1>1, <1>2, <1>3, <1>4, <1>5, <1>6

\* The timer lets go of a connection that is in time.
LEMMA CheckFreshRefs ==
  ASSUME ConnInv, NEW c \in Conns, CheckFresh(c)
  PROVE  RefInv' /\ NoLeak'
<1> USE ThreadFields DEF ConnInv, Shape, RefInv, poolVars, CheckFresh, Destroy, Holds, WithoutFd
<1>1. \A d \in Conns : StageInv(d)'
  BY DEF StageInv, Placed, Listed
<1>2. \A d \in Conns : EndInv(d)'
  BY DEF StageInv, EndInv, LoopInv, TimerInv, BorrowerInv, Placed, Listed
<1>3. \A l \in Loops : LoopInv(l)'
  BY DEF StageInv, EndInv, LoopInv, TimerInv, BorrowerInv, Placed, Listed
<1>4. TimerInv'
  BY DEF StageInv, EndInv, LoopInv, TimerInv, BorrowerInv, Placed, Listed
<1>5. BorrowerInv'
  BY DEF StageInv, EndInv, LoopInv, TimerInv, BorrowerInv, Placed, Listed
<1>6. NoLeak'
  BY DEF NoLeak, InUse, StageInv, EndInv, LoopInv, TimerInv, BorrowerInv, Placed, Listed
<1> QED
  BY <1>1, <1>2, <1>3, <1>4, <1>5, <1>6

\* activeClose takes the connection out of the table.
LEMMA CheckLateRefs ==
  ASSUME ConnInv, NEW c \in Conns, CheckLate(c)
  PROVE  RefInv' /\ NoLeak'
<1> USE ThreadFields DEF ConnInv, Shape, RefInv, poolVars, CheckLate, Close, WithoutFd, Erase
<1>1. \A d \in Conns : StageInv(d)'
  BY DEF StageInv, Placed, Listed
<1>2. \A d \in Conns : EndInv(d)'
  BY DEF StageInv, EndInv, LoopInv, TimerInv, BorrowerInv, Placed, Listed
<1>3. \A l \in Loops : LoopInv(l)'
  BY DEF StageInv, EndInv, LoopInv, TimerInv, BorrowerInv, Placed, Listed
<1>4. TimerInv'
  BY DEF StageInv, EndInv, LoopInv, TimerInv, BorrowerInv, Placed, Listed
<1>5. BorrowerInv'
  BY DEF StageInv, EndInv, LoopInv, TimerInv, BorrowerInv, Placed, Listed
<1>6. NoLeak'
  BY DEF NoLeak, InUse, StageInv, EndInv, LoopInv, TimerInv, BorrowerInv, Placed, Listed
<1> QED
  BY <1>1, <1>2, <1>3, <1>4, <1>5, <1>6

\* removeConnection in the timer's thread.
LEMMA TimerResetRefs ==
  ASSUME ConnInv, NEW c \in Conns, TimerReset(c)
  PROVE  RefInv' /\ NoLeak'
<1> USE ThreadFields DEF ConnInv, Shape, RefInv, poolVars, TimerReset, FinishClose, Reset, Destroy, Holds, WithoutFd
<1>1. \A d \in Conns : StageInv(d)'
  BY DEF StageInv, TimerInv, Placed, Listed
<1>2. \A d \in Conns : EndInv(d)'
  BY DEF StageInv, EndInv, LoopInv, TimerInv, BorrowerInv, Placed, Listed
<1>3. \A l \in Loops : LoopInv(l)'
  BY DEF StageInv, EndInv, LoopInv, TimerInv, BorrowerInv, Placed, Listed
<1>4. TimerInv'
  BY DEF StageInv, EndInv, LoopInv, TimerInv, BorrowerInv, Placed, Listed
<1>5. BorrowerInv'
  BY DEF StageInv, EndInv, LoopInv, TimerInv, BorrowerInv, Placed, Listed
<1>6. NoLeak'
  BY DEF NoLeak, InUse, StageInv, EndInv, LoopInv, TimerInv, BorrowerInv, Placed, Listed
<1> QED
  BY <1>1, <1>2, <1>3, <1>4, <1>5, <1>6

\* The stream consumer borrows a connection in the table.
LEMMA BorrowRefs ==
  ASSUME ConnInv, NEW c \in Conns, Borrow(c)
  PROVE  RefInv' /\ NoLeak'
<1> USE ThreadFields DEF ConnInv, Shape, RefInv, poolVars, Borrow
<1>1. \A d \in Conns : StageInv(d)'
  BY DEF StageInv, Placed, Listed
<1>2. \A d \in Conns : EndInv(d)'
  BY DEF StageInv, EndInv, LoopInv, TimerInv, BorrowerInv, Placed, Listed
<1>3. \A l \in Loops : LoopInv(l)'
  BY DEF StageInv, EndInv, LoopInv, TimerInv, BorrowerInv, Placed, Listed
<1>4. TimerInv'
  BY DEF StageInv, EndInv, LoopInv, TimerInv, BorrowerInv, Placed, Listed
<1>5. BorrowerInv'
  BY DEF StageInv, EndInv, LoopInv, TimerInv, BorrowerInv, Placed, Listed
<1>6. NoLeak'
  BY DEF NoLeak, InUse, StageInv, EndInv, LoopInv, TimerInv, BorrowerInv, Placed, Listed
<1> QED
  BY <1>1, <1>2, <1>3, <1>4, <1>5, <1>6

\* The stream consumer lets go of a connection.
LEMMA GiveBackRefs ==
  ASSUME ConnInv, NEW c \in Conns, GiveBack(c)
  PROVE  RefInv' /\ NoLeak'
<1> USE ThreadFields DEF ConnInv, Shape, RefInv, poolVars, GiveBack, Destroy, Holds, WithoutFd
<1>1. \A d \in Conns : StageInv(d)'
  BY DEF StageInv, Placed, Listed
<1>2. \A d \in Conns : EndInv(d)'
  BY DEF StageInv, EndInv, LoopInv, TimerInv, BorrowerInv, Placed, Listed
<1>3. \A l \in Loops : LoopInv(l)'
  BY DEF StageInv, EndInv, LoopInv, TimerInv, BorrowerInv, Placed, Listed
<1>4. TimerInv'
  BY DEF StageInv, EndInv, LoopInv, TimerInv, BorrowerInv, Placed, Listed
<1>5. BorrowerInv'
  BY DEF StageInv, EndInv, LoopInv, TimerInv, BorrowerInv, Placed, Listed
<1>6. NoLeak'
  BY DEF NoLeak, InUse, StageInv, EndInv, LoopInv, TimerInv, BorrowerInv, Placed, Listed
<1> QED
  BY <1>1, <1>2, <1>3, <1>4, <1>5, <1>6

\* What the other steps leave alone: event loops begin, messages arrive, clients
\* close.
LEMMA QuietSteps ==
  ASSUME ConnInv, \/ \E l \in Loops : Loop(l)
                  \/ \E c \in Conns : Heartbeat(c) \/ Request(c) \/ PeerClose(c)
  PROVE  /\ UNCHANGED <<stage, fd, open, table, closer, nextIndex, onLoop, due, loop, timer, borrower, gone, early, shared, crashed>>
         /\ looping \subseteq looping' /\ looping' \subseteq Loops
         /\ fresh' \subseteq Conns /\ peer' \in [Conns -> {"open", "closed"}]
         /\ (looping' = looping /\ given' = given) \/ given' = [k \in Loops |-> 0]
BY DEF ConnInv, Shape, Loop, Heartbeat, Request, Received, PeerClose, poolVars

\* The quiet steps keep the references.
LEMMA QuietRefs ==
  ASSUME ConnInv, UNCHANGED <<stage, open, table, closer, onLoop, loop, timer, borrower, gone, crashed>>
  PROVE  RefInv' /\ NoLeak'
<1> USE DEF ConnInv, RefInv
<1>1. \A d \in Conns : StageInv(d)' /\ EndInv(d)'
  BY DEF StageInv, EndInv
<1>2. \A l \in Loops : LoopInv(l)'
  BY DEF LoopInv
<1>3. TimerInv' /\ BorrowerInv' /\ NoLeak'
  BY DEF TimerInv, BorrowerInv, NoLeak, InUse
<1> QED
  BY <1>1, <1>2, <1>3

\* Every step keeps the references.
LEMMA StepRefs ==
  ASSUME ConnInv, Next
  PROVE  RefInv' /\ NoLeak'
<1>1. CASE \/ \E l \in Loops : Loop(l)
           \/ \E c \in Conns : Heartbeat(c) \/ Request(c) \/ PeerClose(c)
  BY <1>1, QuietSteps, QuietRefs
<1>2. ASSUME NEW c \in Conns, Refuse(c) \/ Accept(c) \/ AcceptorStep(c) \/ Borrow(c) \/ GiveBack(c)
      PROVE  RefInv' /\ NoLeak'
  BY <1>2, RefuseRefs, AcceptRefs, InsertRefs, SetMessageFuncRefs, SetCloseFuncRefs, BorrowRefs, GiveBackRefs
     DEF AcceptorStep
<1>3. ASSUME NEW c \in Conns, LoopStep(c) \/ TimerStep(c)
      PROVE  RefInv' /\ NoLeak'
  BY <1>3, EndOfStreamRefs, LoopResetRefs, CheckFindRefs, CheckFreshRefs, CheckLateRefs, TimerResetRefs
     DEF LoopStep, TimerStep
<1> QED
  BY <1>1, <1>2, <1>3 DEF Next

\* Every step keeps the shape of the state.
LEMMA StepShape ==
  ASSUME ConnInv, Next
  PROVE  Shape'
<1> USE LifecycleAssumption DEF Shape, ConnInv
<1>1. CASE \/ \E l \in Loops : Loop(l)
           \/ \E c \in Conns : Heartbeat(c) \/ Request(c) \/ PeerClose(c)
  BY <1>1, QuietSteps
<1> USE DEF poolVars
<1>2. ASSUME NEW c \in Conns, Refuse(c) PROVE Shape'
  BY <1>2 DEF Refuse, At, Settled
<1>3. ASSUME NEW c \in Conns, Accept(c) PROVE Shape'
  <2>1. RoundRobin.next \in Loops /\ RoundRobin.index \in looping \cup {NoLoop}
    BY RoundRobinNext
  <2> QED
    BY <1>3, <2>1 DEF Accept, At, Settled
<1>4. ASSUME NEW c \in Conns, Insert(c) PROVE Shape'
  BY <1>4 DEF Insert, At, Settled
<1>5. ASSUME NEW c \in Conns, SetMessageFunc(c) PROVE Shape'
  BY <1>5 DEF SetMessageFunc, At, Settled
<1>6. ASSUME NEW c \in Conns, SetCloseFunc(c) PROVE Shape'
  BY <1>6 DEF SetCloseFunc, At, Settled
<1>7. ASSUME NEW c \in Conns, EndOfStream(c) PROVE Shape'
  BY <1>7 DEF EndOfStream, Close, WithoutFd, Erase, Thread, Idle
<1>8. ASSUME NEW c \in Conns, LoopReset(c) PROVE Shape'
  <2>1. FinishClose(c, {timer, borrower})
    BY <1>8 DEF LoopReset
  <2>2. crashed' \in BOOLEAN /\ closer' \in [Conns -> {"unset", "bound", "reset"}]
    BY <2>1 DEF FinishClose, Reset
  <2>3. gone' \subseteq Conns /\ open' \subseteq Conns
    BY <2>1 DEF FinishClose, Destroy, WithoutFd
  <2>4. loop' \in [Loops -> Thread] /\ timer' \in Thread
    BY <1>8 DEF LoopReset, Thread, Idle
  <2> QED
    BY <1>8, <2>2, <2>3, <2>4 DEF LoopReset
<1>9. ASSUME NEW c \in Conns, CheckFind(c) PROVE Shape'
  BY <1>9 DEF CheckFind, Thread, Idle
<1>10. ASSUME NEW c \in Conns, CheckFresh(c) PROVE Shape'
  BY <1>10 DEF CheckFresh, Destroy, WithoutFd, Thread, Idle
<1>11. ASSUME NEW c \in Conns, CheckLate(c) PROVE Shape'
  BY <1>11 DEF CheckLate, Close, WithoutFd, Erase, Thread, Idle
<1>12. ASSUME NEW c \in Conns, TimerReset(c) PROVE Shape'
  <2>1. FinishClose(c, {loop[onLoop[c]], borrower})
    BY <1>12 DEF TimerReset
  <2>2. crashed' \in BOOLEAN /\ closer' \in [Conns -> {"unset", "bound", "reset"}]
    BY <2>1 DEF FinishClose, Reset
  <2>3. gone' \subseteq Conns /\ open' \subseteq Conns
    BY <2>1 DEF FinishClose, Destroy, WithoutFd
  <2>4. loop' \in [Loops -> Thread] /\ timer' \in Thread
    BY <1>12 DEF TimerReset, Thread, Idle
  <2> QED
    BY <1>12, <2>2, <2>3, <2>4 DEF TimerReset
<1>13. ASSUME NEW c \in Conns, Borrow(c) PROVE Shape'
  BY <1>13 DEF Borrow, Thread, Idle
<1>14. ASSUME NEW c \in Conns, GiveBack(c) PROVE Shape'
  BY <1>14 DEF GiveBack, Destroy, WithoutFd, Thread, Idle
<1> QED
  BY <1>1, <1>2, <1>3, <1>4, <1>5, <1>6, <1>7, <1>8, <1>9, <1>10, <1>11, <1>12, <1>13, <1>14 DEF Next, AcceptorStep, LoopStep, TimerStep

-----------------------------------------------------------------------------
(* Descriptors and counts *)

\* Only accept gives a descriptor or an event loop; only the beginning of an
\* event loop resets the counts.
LEMMA OthersKeep ==
  ASSUME ConnInv, Next, \A c \in Conns : ~Accept(c)
  PROVE  /\ UNCHANGED <<fd, onLoop, nextIndex>>
         /\ open' \subseteq open
         /\ (looping' = looping /\ given' = given) \/ given' = [k \in Loops |-> 0]
         /\ \A c \in Conns : stage[c] = "none" => stage'[c] # "dropped"
<1> DEFINE Goal == /\ UNCHANGED <<fd, onLoop, nextIndex>>
                   /\ open' \subseteq open
                   /\ (looping' = looping /\ given' = given) \/ given' = [k \in Loops |-> 0]
                   /\ \A c \in Conns : stage[c] = "none" => stage'[c] # "dropped"
<1>1. CASE \/ \E l \in Loops : Loop(l)
           \/ \E c \in Conns : Heartbeat(c) \/ Request(c) \/ PeerClose(c)
  BY <1>1, QuietSteps
<1> USE DEF poolVars
<1>2. ASSUME NEW c \in Conns, Refuse(c) \/ AcceptorStep(c) \/ CheckFind(c) \/ Borrow(c) PROVE Goal
  BY <1>2 DEF ConnInv, Shape, Refuse, AcceptorStep, Insert, SetMessageFunc, SetCloseFunc, At, CheckFind, Borrow
<1>3. ASSUME NEW c \in Conns, EndOfStream(c) \/ CheckLate(c) PROVE Goal
  BY <1>3 DEF EndOfStream, CheckLate, Close, WithoutFd
<1>4. ASSUME NEW c \in Conns, LoopReset(c) \/ TimerReset(c) PROVE Goal
  BY <1>4 DEF LoopReset, TimerReset, FinishClose, Destroy, WithoutFd
<1>5. ASSUME NEW c \in Conns, CheckFresh(c) \/ GiveBack(c) PROVE Goal
  BY <1>5 DEF CheckFresh, GiveBack, Destroy, WithoutFd
<1> QED
  BY <1>1, <1>2, <1>3, <1>4, <1>5 DEF Next, LoopStep, TimerStep

\* Every step keeps the open descriptors apart and the counts within what was
\* accepted.
LEMMA StepCounts ==
  ASSUME ConnInv, Next
  PROVE  CountInv'
<1> DEFINE N == Cardinality(Conns)
<1>0. N \in Nat /\ IsFiniteSet(Conns) /\ \A l : Cardinality(On(l)) \in Nat /\ IsFiniteSet(On(l))
  <2>1. N \in Nat /\ IsFiniteSet(Conns)
    BY LifecycleAssumption, FS_CardinalityType
  <2>2. ASSUME NEW l PROVE Cardinality(On(l)) \in Nat /\ IsFiniteSet(On(l))
    <3>1. On(l) \in SUBSET Conns
      BY DEF On
    <3> QED
      BY <2>1, <3>1, FS_Subset, FS_CardinalityType
  <2> QED
    BY <2>1, <2>2
<1>1. CASE \A c \in Conns : ~Accept(c)
  <2>1. /\ fd' = fd /\ onLoop' = onLoop /\ open' \subseteq open
        /\ given' = given \/ given' = [k \in Loops |-> 0]
    BY <1>1, OthersKeep
  <2>2. \A l \in Loops : On(l)' = On(l)
    BY <2>1 DEF On
  <2>3. given' \in [Loops -> Nat] /\ \A l \in Loops : given'[l] <= Cardinality(On(l))
    BY <1>0, <2>1 DEF ConnInv, CountInv
  <2> QED
    BY <2>1, <2>2, <2>3 DEF ConnInv, CountInv
<1>2. ASSUME NEW c \in Conns, Accept(c) PROVE CountInv'
  <2>1. stage[c] = "none" /\ c \notin open /\ onLoop[c] = NoLoop
    BY <1>2 DEF Accept, At, ConnInv, RefInv, StageInv, Placed
  <2>2. Free \in 1..N /\ \A d \in open : fd[d] # Free
    BY <2>1, FreeIsFree DEF ConnInv, CountInv
  <2>3. fd' \in [Conns -> 0..N] /\ \A d, e \in open' : fd'[d] = fd'[e] => d = e
    <3>1. fd' = [fd EXCEPT ![c] = Free] /\ open' = open \cup {c}
      BY <1>2 DEF Accept
    <3>2. fd \in [Conns -> 0..N] /\ open \subseteq Conns /\ \A d, e \in open : fd[d] = fd[e] => d = e
      BY DEF ConnInv, CountInv, Shape
    <3>3. fd'[c] = Free /\ \A d \in open : fd'[d] = fd[d]
      BY <2>1, <3>1, <3>2
    <3> QED
      BY <1>0, <2>2, <3>1, <3>2, <3>3
  <2> DEFINE i == RoundRobin.index
  <2>4. given' = [l \in Loops |-> IF l = i THEN given[l] + 1 ELSE given[l]]
    BY <1>2 DEF Accept
  <2>5. ASSUME NEW l \in Loops PROVE On(l)' = IF l = i THEN On(l) \cup {c} ELSE On(l)
    <3>1. onLoop' = [onLoop EXCEPT ![c] = i] /\ onLoop \in [Conns -> looping \cup {NoLoop}]
      BY <1>2 DEF Accept, ConnInv, Shape
    <3>2. l # NoLoop
      BY LifecycleAssumption DEF Loops, NoLoop
    <3> HIDE DEF i
    <3> QED
      BY <2>1, <3>1, <3>2 DEF On
  <2> HIDE DEF i
  <2>6. ASSUME NEW l \in Loops PROVE given'[l] \in Nat /\ given'[l] <= Cardinality(On(l)')
    <3>1. given[l] \in Nat /\ given[l] <= Cardinality(On(l)) /\ Cardinality(On(l)) \in Nat
      BY <1>0 DEF ConnInv, CountInv
    <3>2. CASE l = i
      <4>1. c \notin On(l)
        BY <2>1, LifecycleAssumption DEF On, Loops, NoLoop
      <4>2. Cardinality(On(l) \cup {c}) = Cardinality(On(l)) + 1
        <5> DEFINE o == On(l)
        <5>1. IsFiniteSet(o) /\ c \notin o /\ Cardinality(o) \in Nat
          BY <1>0, <4>1
        <5> HIDE DEF o
        <5>2. Cardinality(o \cup {c}) = Cardinality(o) + 1
          BY <5>1, FS_AddElement
        <5> QED
          BY <5>2 DEF o
      <4>3. given'[l] = given[l] + 1
        BY <2>4, <3>2
      <4>4. On(l)' = On(l) \cup {c}
        BY <2>5, <3>2
      <4>5. Cardinality(On(l)') = Cardinality(On(l)) + 1
        BY <4>2, <4>4
      <4> HIDE DEF N
      <4> QED
        BY <3>1, <4>3, <4>5
    <3>3. CASE l # i
      BY <2>4, <2>5, <3>1, <3>3
    <3> QED
      BY <3>2, <3>3
  <2>7. given' \in [Loops -> Nat]
    BY <2>4, <2>6
  <2> QED
    BY <2>3, <2>6, <2>7 DEF CountInv
<1> QED
  BY <1>1, <1>2

\* Nothing changes for the connections when no variable does.
LEMMA StepConn ==
  ASSUME ConnInv, [Next]_vars
  PROVE  ConnInv'
<1>1. CASE Next
  BY <1>1, StepShape, StepCounts, StepRefs DEF ConnInv
<1>2. CASE UNCHANGED vars
  <2>1. RefInv' /\ NoLeak'
    BY <1>2, QuietRefs DEF vars, poolVars
  <2>2. Shape' /\ CountInv'
    BY <1>2 DEF vars, poolVars, ConnInv, Shape, CountInv, On
  <2> QED
    BY <2>1, <2>2 DEF ConnInv
<1> QED
  BY <1>1, <1>2

\* Before the first connection the invariants hold.
LEMMA InitConn ==
  ASSUME Init
  PROVE  ConnInv /\ UseInv /\ SocketInv /\ TurnInv
<1>1. Shape
  <2>1. 0 \in Loops
    BY LifecycleAssumption DEF Loops
  <2>2. Idle \in Thread
    BY DEF Idle, Thread
  <2> QED
    BY <2>1, <2>2 DEF Init, Shape, Settled
<1>2. CountInv
  <2>1. Cardinality(Conns) \in Nat
    BY LifecycleAssumption, FS_CardinalityType
  <2>2. ASSUME NEW l \in Loops PROVE Cardinality(On(l)) \in Nat
    <3>1. On(l) \in SUBSET Conns
      BY DEF On
    <3> QED
      BY <3>1, LifecycleAssumption, FS_Subset, FS_CardinalityType
  <2> QED
    BY <2>1, <2>2 DEF Init, CountInv
<1>3. RefInv /\ NoLeak
  BY DEF Init, RefInv, NoLeak, StageInv, EndInv, LoopInv, TimerInv, BorrowerInv, Placed, Listed
<1>4. UseInv /\ SocketInv /\ TurnInv
  <2>1. Idle.c = None /\ None \notin Conns
    BY LifecycleAssumption DEF Idle
  <2>2. UseInv
    BY <2>1 DEF Init, UseInv
  <2>3. SocketInv
    BY DEF Init, SocketInv
  <2>4. TurnInv
    BY DEF Init, TurnInv
  <2> QED
    BY <2>2, <2>3, <2>4
<1> QED
  BY <1>1, <1>2, <1>3, <1>4 DEF ConnInv

-----------------------------------------------------------------------------
(* Two threads at one connection *)

\* A thread that shares a connection with another notes it, and alone it finds
\* the connection as it left it; so the close callback is lost only in company.
LEMMA StepUse ==
  ASSUME ConnInv, UseInv, Next
  PROVE  UseInv'
<1> USE ThreadFields DEF ConnInv, Shape, RefInv, UseInv
<1>1. CASE \/ \E l \in Loops : Loop(l)
           \/ \E c \in Conns : Heartbeat(c) \/ Request(c) \/ PeerClose(c)
  BY <1>1, QuietSteps
<1> USE DEF poolVars, StageInv, EndInv, LoopInv, TimerInv, BorrowerInv, Placed, Listed
<1>2. ASSUME NEW c \in Conns, Refuse(c) PROVE UseInv'
  BY <1>2 DEF Refuse, At
<1>3. ASSUME NEW c \in Conns, Accept(c) PROVE UseInv'
  BY <1>3 DEF Accept, At
<1>4. ASSUME NEW c \in Conns, Insert(c) PROVE UseInv'
  BY <1>4 DEF Insert, At
<1>5. ASSUME NEW c \in Conns, SetMessageFunc(c) PROVE UseInv'
  BY <1>5 DEF SetMessageFunc, At
<1>6. ASSUME NEW c \in Conns, SetCloseFunc(c) PROVE UseInv'
  BY <1>6 DEF SetCloseFunc, At
<1>7. ASSUME NEW c \in Conns, EndOfStream(c) PROVE UseInv'
  <2>1. onLoop[c] \in Loops /\ \A l \in Loops : loop[l].c = c => l = onLoop[c]
    BY <1>7 DEF EndOfStream
  <2>2. loop[onLoop[c]].c # c /\ \A l \in Loops : loop[l].c # c
    BY <1>7, <2>1 DEF EndOfStream
  <2>3. closer[c] = "reset" => c \in {timer.c, borrower.c}
    BY <1>7, <2>2 DEF EndOfStream, NoLeak, InUse
  <2>4. crashed' => shared'
    BY <1>7, <2>3 DEF EndOfStream, Close
  <2>5. SUFFICES ASSUME ~shared', NEW d \in Conns
                 PROVE  /\ timer'.c = d => borrower'.c # d /\ \A l \in Loops : loop'[l].c # d
                        /\ borrower'.c = d => \A l \in Loops : loop'[l].c # d
                        /\ timer'.c = d /\ timer'.pc = "check" => d \in table'
                        /\ timer'.c = d /\ timer'.pc = "reset" => closer'[d] = "bound"
                        /\ \A l \in Loops : loop'[l].c = d => closer'[d] = "bound"
    BY <2>4
  <2>6. ~shared /\ timer.c # c /\ borrower.c # c /\ closer[c] # "reset"
    BY <1>7, <2>3, <2>5 DEF EndOfStream
  <2>7. UNCHANGED <<closer, timer, borrower>> /\ \A e \in table : e # c => e \in table'
    BY <1>7 DEF EndOfStream, Close, Erase
  <2>8. \A l \in Loops : loop'[l].c = loop[l].c \/ (loop'[l].c = c /\ closer[c] = "bound") \/ loop'[l].c = None
    BY <1>7, <2>1 DEF EndOfStream
  <2>9. CASE d = c
    BY <2>6, <2>7, <2>8, <2>9, <2>2
  <2>10. CASE d # c
    BY <2>6, <2>7, <2>8, <2>10
  <2> QED
    BY <2>9, <2>10
<1>8. ASSUME NEW c \in Conns, LoopReset(c) PROVE UseInv'
  BY <1>8 DEF LoopReset, FinishClose, Reset
<1>9. ASSUME NEW c \in Conns, CheckFind(c) PROVE UseInv'
  <2>1. onLoop[c] \in Loops /\ \A l \in Loops : loop[l].c = c => l = onLoop[c]
    <3>1. stage[c] \in Listed
      BY <1>9 DEF CheckFind
    <3>2. onLoop[c] \in looping /\ looping \subseteq Loops
      BY <3>1
    <3> QED
      BY <3>2
  <2>2. ASSUME ~shared' PROVE ~shared /\ borrower.c # c /\ \A l \in Loops : loop[l].c # c
    BY <1>9, <2>1, <2>2 DEF CheckFind
  <2>3. /\ UNCHANGED <<table, closer, loop, borrower, crashed>> /\ ~crashed
        /\ timer'.c = c /\ timer'.pc = "check" /\ c \in table
    BY <1>9 DEF CheckFind
  <2> QED
    BY <2>2, <2>3
<1>10. ASSUME NEW c \in Conns, CheckFresh(c) PROVE UseInv'
  BY <1>10 DEF CheckFresh
<1>11. ASSUME NEW c \in Conns, CheckLate(c) PROVE UseInv'
  BY <1>11 DEF CheckLate, Close, Erase
<1>12. ASSUME NEW c \in Conns, TimerReset(c) PROVE UseInv'
  BY <1>12 DEF TimerReset, FinishClose, Reset
<1>13. ASSUME NEW c \in Conns, Borrow(c) PROVE UseInv'
  <2>1. onLoop[c] \in Loops /\ \A l \in Loops : loop[l].c = c => l = onLoop[c]
    <3>1. stage[c] \in Listed
      BY <1>13 DEF Borrow
    <3>2. onLoop[c] \in looping /\ looping \subseteq Loops
      BY <3>1
    <3> QED
      BY <3>2
  <2>2. ASSUME ~shared' PROVE ~shared /\ timer.c # c /\ \A l \in Loops : loop[l].c # c
    BY <1>13, <2>1, <2>2 DEF Borrow
  <2>3. UNCHANGED <<table, closer, loop, timer, crashed>> /\ borrower'.c = c /\ ~crashed
    BY <1>13 DEF Borrow
  <2> QED
    BY <2>2, <2>3
<1>14. ASSUME NEW c \in Conns, GiveBack(c) PROVE UseInv'
  BY <1>14 DEF GiveBack
<1> QED
  BY <1>1, <1>2, <1>3, <1>4, <1>5, <1>6, <1>7, <1>8, <1>9, <1>10, <1>11, <1>12, <1>13, <1>14 DEF Next, AcceptorStep, LoopStep, TimerStep

-----------------------------------------------------------------------------
(* Whose socket is closed *)

\* The destructor closes the descriptor of its own connection, if that still has it.
LEMMA DestroysOwn ==
  ASSUME ConnInv, NEW c \in Conns, c \in open, c \notin gone,
         \/ UNCHANGED <<gone, open>>
         \/ gone' = gone \cup {c} /\ open' = WithoutFd(c)
  PROVE  open \ open' \subseteq gone' \ gone /\ gone \subseteq gone'
BY DEF ConnInv, Shape, CountInv, WithoutFd

\* Without an early close, a socket is closed only with its connection.
LEMMA StepSocket ==
  ASSUME ConnInv, SocketInv, Next, early' = {}
  PROVE  SocketInv' /\ open \ open' \subseteq gone' \ gone
<1> DEFINE Unborn == {"none", "refused"}
           Own == /\ open \ open' \subseteq gone' \ gone
                  /\ gone \subseteq gone'
                  /\ \A d \in Conns : stage'[d] \in Unborn \/ stage[d] \notin Unborn \/ d \in open'
<1>1. early = {}
  <2>1. CASE \/ \E l \in Loops : Loop(l)
             \/ \E c \in Conns : Heartbeat(c) \/ Request(c) \/ PeerClose(c)
    BY <2>1, QuietSteps
  <2>2. ASSUME NEW c \in Conns, EndOfStream(c) \/ CheckLate(c) PROVE early = {}
    BY <2>2 DEF EndOfStream, CheckLate, Close
  <2>3. ASSUME NEW c \in Conns, Refuse(c) \/ Accept(c) \/ AcceptorStep(c) \/ Borrow(c) \/ GiveBack(c) \/ CheckFind(c)
                                  \/ CheckFresh(c) \/ LoopReset(c) \/ TimerReset(c)
        PROVE  early = {}
    BY <2>3 DEF Refuse, Accept, AcceptorStep, Insert, SetMessageFunc, SetCloseFunc, Borrow, GiveBack, CheckFind,
                CheckFresh, LoopReset, TimerReset
  <2> QED
    BY <2>1, <2>2, <2>3 DEF Next, LoopStep, TimerStep
<1>2. \A c \in Conns : stage[c] \notin Unborn /\ c \notin gone => c \in open
  BY <1>1 DEF SocketInv
<1>3. CASE \/ \E l \in Loops : Loop(l)
           \/ \E c \in Conns : Heartbeat(c) \/ Request(c) \/ PeerClose(c)
  <2>1. Own
    BY <1>3, QuietSteps
  <2> QED
    BY <1>2, <2>1 DEF SocketInv
<1>4. ASSUME NEW c \in Conns, Refuse(c) \/ Accept(c) \/ AcceptorStep(c) \/ CheckFind(c) \/ Borrow(c) PROVE Own
  BY <1>4 DEF ConnInv, Shape, Refuse, Accept, AcceptorStep, Insert, SetMessageFunc, SetCloseFunc, At, CheckFind, Borrow
<1>5. ASSUME NEW c \in Conns, EndOfStream(c) \/ CheckLate(c) PROVE Own
  BY <1>5 DEF EndOfStream, CheckLate, Close
<1>6. ASSUME NEW c \in Conns, LoopReset(c) \/ TimerReset(c) \/ CheckFresh(c) \/ GiveBack(c) PROVE Own
  <2>1. stage[c] \in Listed /\ c \notin gone
    BY <1>6, ThreadFields
       DEF LoopReset, TimerReset, CheckFresh, GiveBack, ConnInv, RefInv, LoopInv, TimerInv, BorrowerInv, Listed
  <2>2. c \in open
    BY <1>2, <2>1 DEF Listed
  <2>3. \/ UNCHANGED <<gone, open>>
        \/ gone' = gone \cup {c} /\ open' = WithoutFd(c)
    BY <1>6 DEF LoopReset, TimerReset, CheckFresh, GiveBack, FinishClose, Destroy
  <2>4. stage' = stage
    BY <1>6 DEF LoopReset, TimerReset, CheckFresh, GiveBack
  <2> QED
    BY <2>1, <2>2, <2>3, <2>4, DestroysOwn
<1>7. ASSUME Own PROVE SocketInv' /\ open \ open' \subseteq gone' \ gone
  BY <1>2, <1>7 DEF SocketInv
<1> QED
  BY <1>3, <1>4, <1>5, <1>6, <1>7 DEF Next, LoopStep, TimerStep

-----------------------------------------------------------------------------
(* Turns *)

\* Accept serves the loop whose turn it is and makes it the last in turn.
LEMMA AcceptTurn ==
  ASSUME ConnInv, TurnInv, NEW c \in Conns, Accept(c)
  PROVE  TurnInv'
<1> DEFINE i == RoundRobin.index
<1>1. CASE looping = {}
  BY <1>1 DEF Accept, TurnInv
<1>2. CASE looping # {}
  <2>1. /\ i \in looping /\ nextIndex' = i /\ looping' = looping
        /\ \A l \in looping : Ahead(i, nextIndex) <= Ahead(l, nextIndex)
        /\ given' = [l \in Loops |-> IF l = i THEN given[l] + 1 ELSE given[l]]
    BY <1>2, RoundRobinNext DEF Accept, ConnInv
  <2> HIDE DEF i
  <2>2. ThreadNum \in Nat \ {0} /\ looping \subseteq 0..(ThreadNum - 1) /\ nextIndex \in 0..(ThreadNum - 1) /\ looping \subseteq Loops
    BY LifecycleAssumption DEF ConnInv, Shape, Loops
  <2>3. \A l \in looping : given[l] \in Nat /\ given'[l] = IF l = i THEN given[l] + 1 ELSE given[l]
    BY <2>1, <2>2 DEF ConnInv, CountInv
  <2>4. Ahead(i, i) = ThreadNum /\ \A l \in looping : l # i => Ahead(l, i) < ThreadNum
    BY <2>1, <2>2 DEF Ahead
  <2>5. \A l \in looping : l # i => Ahead(l, i) = Ahead(l, nextIndex) - Ahead(i, nextIndex)
    BY <2>1, <2>2 DEF Ahead
  <2>6. \A l \in looping : Ahead(l, nextIndex) \in Int /\ Ahead(l, i) \in Int
    BY <2>1, <2>2 DEF Ahead
  <2>7. SUFFICES ASSUME NEW k \in looping, NEW l \in looping, Ahead(k, i) <= Ahead(l, i)
                 PROVE  given'[k] <= given'[l] /\ given'[l] <= given'[k] + 1
    BY <2>1 DEF TurnInv, Ahead
  <2>8. given[i] <= given[k] /\ given[k] <= given[i] + 1
    BY <2>1 DEF TurnInv
  <2>9. CASE k = i
    <3>1. l = i
      BY <2>2, <2>4, <2>6, <2>7, <2>9
    <3> QED
      BY <2>3, <2>9, <3>1
  <2>10. CASE k # i /\ l = i
    BY <2>3, <2>8, <2>10
  <2>11. CASE k # i /\ l # i
    <3>1. Ahead(k, nextIndex) <= Ahead(l, nextIndex)
      BY <2>1, <2>5, <2>6, <2>7, <2>11
    <3> QED
      BY <2>3, <2>11, <3>1 DEF TurnInv
  <2> QED
    BY <2>9, <2>10, <2>11
<1> QED
  BY <1>1, <1>2

\* Every step keeps the loops in turn, and accept drops a client only without one.
LEMMA StepTurn ==
  ASSUME ConnInv, TurnInv, Next
  PROVE  /\ TurnInv'
         /\ \A c \in Conns : stage[c] = "none" /\ stage'[c] = "dropped" => looping = {}
<1>1. CASE \A c \in Conns : ~Accept(c)
  <2>1. /\ nextIndex' = nextIndex
        /\ (looping' = looping /\ given' = given) \/ given' = [k \in Loops |-> 0]
        /\ \A c \in Conns : stage[c] = "none" => stage'[c] # "dropped"
    BY <1>1, OthersKeep
  <2>2. looping' \subseteq Loops
    BY StepShape DEF Shape
  <2>3. TurnInv'
    BY <2>1, <2>2 DEF TurnInv, Ahead
  <2> QED
    BY <2>1, <2>3
<1>2. ASSUME NEW c \in Conns, Accept(c), NEW d \in Conns, stage[d] = "none", stage'[d] = "dropped", looping # {}
      PROVE  FALSE
  <2>1. RoundRobin.index \in Loops
    BY <1>2, RoundRobinNext DEF ConnInv, Shape
  <2>2. RoundRobin.index # NoLoop
    BY <2>1, LifecycleAssumption DEF Loops, NoLoop
  <2> QED
    BY <1>2, <2>2 DEF Accept, At, ConnInv, Shape
<1> QED
  BY <1>1, <1>2, AcceptTurn

-----------------------------------------------------------------------------
(* The theorems *)

\* The invariants hold together.
LEMMA AllStay == Spec => [](ConnInv /\ UseInv /\ SocketInv /\ TurnInv)
<1>1. Init => ConnInv /\ UseInv /\ SocketInv /\ TurnInv
  BY InitConn
<1>2. ConnInv /\ UseInv /\ SocketInv /\ TurnInv /\ [Next]_vars => (ConnInv /\ UseInv /\ SocketInv /\ TurnInv)'
  <2> SUFFICES ASSUME ConnInv, UseInv, SocketInv, TurnInv, [Next]_vars
               PROVE  (ConnInv /\ UseInv /\ SocketInv /\ TurnInv)'
    OBVIOUS
  <2>1. ConnInv'
    BY StepConn
  <2>2. CASE Next
    <3>1. UseInv' /\ TurnInv'
      BY <2>2, StepUse, StepTurn
    <3>2. SocketInv'
      <4>1. CASE early' = {}
        BY <2>2, <4>1, StepSocket
      <4>2. CASE early' # {}
        BY <4>2 DEF SocketInv
      <4> QED
        BY <4>1, <4>2
    <3> QED
      BY <2>1, <3>1, <3>2
  <2>3. CASE UNCHANGED vars
    <3>1. UseInv' /\ SocketInv' /\ TurnInv'
      BY <2>3 DEF vars, poolVars, UseInv, SocketInv, TurnInv, Ahead
    <3> QED
      BY <2>1, <3>1
  <2> QED
    BY <2>2, <2>3
<1> QED
  BY <1>1, <1>2, PTL DEF Spec

\* The invariant of the connections contains the properties of the state.
LEMMA ConnImplies ==
  ASSUME ConnInv
  PROVE  LifecycleInv
<1>1. given \in [Loops -> 0..Cardinality(Conns)]
  <2>1. ASSUME NEW l \in Loops PROVE given[l] \in 0..Cardinality(Conns)
    <3>1. On(l) \in SUBSET Conns /\ IsFiniteSet(Conns)
      BY LifecycleAssumption DEF On
    <3>2. Cardinality(On(l)) <= Cardinality(Conns) /\ Cardinality(On(l)) \in Nat /\ Cardinality(Conns) \in Nat
      BY <3>1, FS_Subset, FS_CardinalityType
    <3> QED
      BY <3>2 DEF ConnInv, CountInv
  <2> QED
    BY <2>1 DEF ConnInv, CountInv
<1>2. gone \cap (table \cup InUse) = {}
  BY ThreadFields DEF ConnInv, Shape, RefInv, EndInv, LoopInv, TimerInv, BorrowerInv, InUse
<1>3. ListedCanClose
  BY DEF ConnInv, Shape, RefInv, StageInv, ListedCanClose
<1>4. TypeOK
  BY <1>1, <1>2 DEF ConnInv, Shape, CountInv, TypeOK
<1> QED
  BY <1>3, <1>4 DEF ConnInv, LifecycleInv

\* Whatever is in the table can be closed, and a connection is destroyed exactly
\* when the table and the threads have let go of it: for any number of clients
\* and event loops (TcpServer::removeConnection).
THEOREM ConnectionsEnd == Spec => []LifecycleInv
<1>1. ConnInv => LifecycleInv
  BY ConnImplies
<1> QED
  BY <1>1, AllStay, PTL

\* The close callback misses its connection only while two of the event loop, the
\* timer and the stream consumer use that connection (TcpConnection::closeFunc).
THEOREM CloseMissesInCompany == Spec => []CloseFindsConnection
<1>1. UseInv => CloseFindsConnection
  BY DEF UseInv, CloseFindsConnection
<1> QED
  BY <1>1, AllStay, PTL

\* Unless a connection was closed before it had its callbacks, a socket is closed
\* only by the end of its own connection, although descriptors are used again
\* (TcpConnection's destructor).
THEOREM SocketsClosedByOwner == Spec => ClosesOwnSocket
<1>1. ConnInv /\ SocketInv /\ [Next]_vars => [early' = {} => open \ open' \subseteq gone' \ gone]_vars
  BY StepSocket
<1> QED
  BY <1>1, AllStay, PTL DEF Spec, ClosesOwnSocket

\* Round robin over any set of running loops that grows at any time: no loop has
\* two connections more than another since the last loop began, and a client is
\* dropped only when no loop runs (EventLoopThreadpool::roundRobinIndex).
THEOREM LoopsShareEvenly == Spec => LoopsShare
<1> DEFINE Even == \A k, l \in looping : given[k] <= given[l] + 1
           Kept == \A c \in Conns : stage[c] = "none" /\ stage'[c] = "dropped" => looping = {}
<1>1. ConnInv /\ TurnInv => Even
  <2> SUFFICES ASSUME ConnInv, TurnInv, NEW k \in looping, NEW l \in looping PROVE given[k] <= given[l] + 1
    OBVIOUS
  <2>1. ThreadNum \in Nat \ {0} /\ k \in 0..(ThreadNum - 1) /\ l \in 0..(ThreadNum - 1) /\ nextIndex \in 0..(ThreadNum - 1)
    BY LifecycleAssumption DEF ConnInv, Shape, Loops
  <2>2. given[k] \in Nat /\ given[l] \in Nat
    BY <2>1 DEF ConnInv, CountInv, Loops
  <2>3. Ahead(k, nextIndex) <= Ahead(l, nextIndex) \/ Ahead(l, nextIndex) <= Ahead(k, nextIndex)
    BY <2>1 DEF Ahead
  <2> QED
    BY <2>2, <2>3 DEF TurnInv
<1>2. ConnInv /\ TurnInv /\ [Next]_vars => [Kept]_vars
  BY StepTurn
<1>3. Even' /\ [Kept]_vars
        => [/\ \A k, l \in looping' : given'[k] <= given'[l] + 1
            /\ \A c \in Conns : stage[c] = "none" /\ stage'[c] = "dropped" => looping = {}]_vars
  OBVIOUS
<1> HIDE DEF Even, Kept
<1> QED
  BY <1>1, <1>2, <1>3, AllStay, PTL DEF Spec, LoopsShare
=============================================================================
