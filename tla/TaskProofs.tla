----------------------------- MODULE TaskProofs -----------------------------
(***************************************************************************)
(* Tasks and timers.  The tasks of the thread pool are in one place each,  *)
(* for any ratios, sizes and bounds; a thread that is cancelled finishes   *)
(* its tasks but in the known gap; the mean is of no results only after the*)
(* known race; no run of a task of the time wheel is lost or added, a      *)
(* removed task stops, and tasks of less than a minute run on time, for any*)
(* tasks and sizes of the wheels.                                          *)
(***************************************************************************)
EXTENDS Threadpool, TimeWheelTimer, TLAPS, FiniteSetTheorems, SequenceTheorems

-----------------------------------------------------------------------------
(* The thread pool *)

\* The objects of mThreads.
ThreadSet == [pc : {"new", "loop", "lock", "fetch", "add", "exit", "drain", "done", "gone"},
              linked : BOOLEAN, p : BOOLEAN, local : Seq(Tasks),
              running : BOOLEAN, wipe : BOOLEAN, inactive : BOOLEAN]

\* The states of the pool's thread.
PoolSet == [pc : {"construct", "linkFirst", "top", "pop", "adjust", "fill", "linkHole", "linkNew",
                  "cancel", "wipe", "unlink", "reset"},
            at : Nat, left : Nat, grown : Nat, total : Nat, n : Nat]

\* Every variable has its shape.
Shape ==
  /\ tasks \in Seq(Tasks) /\ results \in Seq(Nat)
  /\ thd \in Seq(ThreadSet)
  /\ active \in HardwareNum..MaxNum
  /\ timeout \in BOOLEAN /\ early \in BOOLEAN
  /\ pool \in PoolSet
  /\ added \in 0..Len(Ratios)
  /\ ran \in [Tasks -> Nat]
  /\ cleared \subseteq Tasks
  /\ crash \in {"no", "division", "threads"}

\* The thread that shrinkThreads has told to stop and not yet to finish its tasks.
InGap(i) == pool.pc = "wipe" /\ pool.at = i

\* A thread's flags agree with where it is, but for that gap.
ThreadInv(i) ==
  /\ thd[i].pc = "fetch" => thd[i].local = <<>>
  /\ thd[i].pc = "exit" => ~thd[i].running
  /\ thd[i].pc = "drain" => thd[i].wipe
  /\ thd[i].pc # "new" /\ ~thd[i].running => thd[i].wipe \/ InGap(i)
  /\ thd[i].inactive <=> thd[i].pc = "done"
  /\ thd[i].pc = "done" => thd[i].wipe \/ InGap(i)

\* The loops of expandThreads and shrinkThreads stay within the numbers they
\* began with, and the constructor's threads are all kept.
PoolThreadInv ==
  /\ ~Constructed => active = HardwareNum /\ Len(thd) <= HardwareNum /\ \A i \in DOMAIN thd : ~thd[i].wipe
  /\ pool.pc = "linkFirst" => pool.at = Len(thd)
  /\ pool.pc \in {"fill", "linkHole", "linkNew"} /\ crash = "no" => active + pool.grown + pool.left <= MaxNum
  /\ pool.pc \in {"fill", "linkHole", "linkNew"} => pool.at > HardwareNum
  /\ pool.pc = "linkNew" => pool.left > 0
  /\ Shrinking => pool.left >= HardwareNum /\ pool.left <= pool.at /\ pool.at <= active
  /\ pool.pc \in {"wipe", "unlink"} => pool.left < pool.at

\* Threads that were not told to stop, ended or not.
Kept == {i \in DOMAIN thd : ~thd[i].wipe}

\* The threads that are kept, against what the pool counts in each of its loops.
KeptInv ==
  /\ pool.pc \in {"top", "pop", "adjust", "reset"} => Cardinality(Kept) >= active
  /\ pool.pc = "fill" => Cardinality(Kept) >= active + pool.grown
  /\ pool.pc \in {"linkHole", "linkNew"} => Cardinality(Kept) >= active + pool.grown + 1
  /\ pool.pc \in {"cancel", "wipe"} => Cardinality(Kept) >= pool.at
  /\ pool.pc = "unlink" => Cardinality(Kept) >= pool.at - 1

\* A thread is linked to the pool's queue, will be next, or was told to stop.
LinkInv ==
  \A i \in DOMAIN thd : /\ thd[i].linked \/ thd[i].wipe \/ Linking(i)
                        /\ pool.pc = "unlink" /\ pool.at = i => thd[i].wipe

\* No task is twice in a queue.
Distinct(q) == \A j, k \in 1..Len(q) : q[j] = q[k] => j = k

\* The task is in the queue of a thread.
Held(t) == \E i \in DOMAIN thd : Contains(thd[i].local, t)

\* Where a task is, without counting: once added, in exactly one of four places.
TaskInv(t) ==
  /\ Contains(tasks, t) => ran[t] = 0 /\ t \notin cleared /\ ~Held(t)
  /\ Held(t) => ran[t] = 0 /\ t \notin cleared
  /\ ran[t] \in {0, 1}
  /\ t \in cleared => ran[t] = 0
  /\ \A i, j \in DOMAIN thd : Contains(thd[i].local, t) /\ Contains(thd[j].local, t) => i = j
  /\ t \in 1..added <=> Contains(tasks, t) \/ Held(t) \/ ran[t] = 1 \/ t \in cleared

\* The same of all tasks, each in a queue once.
QueueInv ==
  /\ Distinct(tasks)
  /\ \A i \in DOMAIN thd : Distinct(thd[i].local)
  /\ \A t \in Tasks : TaskInv(t)

\* The timer's flag is up before the first result only if it was raised then.
RaceInv ==
  /\ pool.pc \in {"top", "adjust"} /\ pool.n = 0 /\ (pool.pc = "adjust" \/ timeout) => early
  /\ ~Constructed => ~timeout
  /\ crash = "division" => early

\* The inductive invariant.
PoolsInv ==
  /\ Shape
  /\ \A i \in DOMAIN thd : ThreadInv(i)
  /\ PoolThreadInv /\ KeptInv
  /\ QueueInv

-----------------------------------------------------------------------------
(* Queues *)

\* A queue loses its first task and nothing else.
LEMMA TailQueue ==
  ASSUME NEW S, NEW q \in Seq(S), q # <<>>, Distinct(q)
  PROVE  /\ Tail(q) \in Seq(S) /\ Head(q) \in S /\ Distinct(Tail(q))
         /\ Contains(q, Head(q))
         /\ \A t : Contains(Tail(q), t) <=> Contains(q, t) /\ t # Head(q)
<1>1. /\ Len(q) \in Nat /\ Len(q) > 0 /\ Head(q) = q[1] /\ Head(q) \in S
      /\ Tail(q) \in Seq(S) /\ Len(Tail(q)) = Len(q) - 1
      /\ \A j \in 1..(Len(q) - 1) : Tail(q)[j] = q[j + 1]
  BY HeadTailProperties, LenProperties, EmptySeq
<1>2. Distinct(Tail(q))
  BY <1>1 DEF Distinct
<1>3. Contains(q, Head(q))
  BY <1>1 DEF Contains
<1>4. ASSUME NEW t, Contains(Tail(q), t) PROVE Contains(q, t) /\ t # Head(q)
  <2>1. PICK j \in 1..(Len(q) - 1) : q[j + 1] = t
    BY <1>1, <1>4 DEF Contains
  <2>2. j + 1 \in 1..Len(q) /\ 1 \in 1..Len(q) /\ j + 1 # 1
    BY <1>1
  <2> QED
    BY <1>1, <2>1, <2>2 DEF Contains, Distinct
<1>5. ASSUME NEW t, Contains(q, t), t # Head(q) PROVE Contains(Tail(q), t)
  <2>1. PICK j \in 1..Len(q) : q[j] = t
    BY <1>5 DEF Contains
  <2>2. j - 1 \in 1..(Len(q) - 1) /\ (j - 1) + 1 = j
    BY <1>1, <1>5, <2>1
  <2>3. Tail(q)[j - 1] = t
    BY <1>1, <2>1, <2>2
  <2> QED
    BY <1>1, <2>2, <2>3 DEF Contains
<1> QED
  BY <1>1, <1>2, <1>3, <1>4, <1>5

\* A queue gains a task it does not hold.
LEMMA AppendQueue ==
  ASSUME NEW S, NEW q \in Seq(S), NEW x \in S, Distinct(q), ~Contains(q, x)
  PROVE  /\ Append(q, x) \in Seq(S) /\ Distinct(Append(q, x))
         /\ \A t : Contains(Append(q, x), t) <=> Contains(q, t) \/ t = x
<1>1. /\ Len(q) \in Nat /\ Append(q, x) \in Seq(S) /\ Len(Append(q, x)) = Len(q) + 1
      /\ Append(q, x)[Len(q) + 1] = x
      /\ \A j \in 1..Len(q) : Append(q, x)[j] = q[j]
  BY AppendProperties, LenProperties
<1>2. \A j \in 1..(Len(q) + 1) : j \in 1..Len(q) \/ j = Len(q) + 1
  BY <1>1
<1>3. Distinct(Append(q, x))
  BY <1>1, <1>2 DEF Distinct, Contains
<1>4. \A t : Contains(Append(q, x), t) <=> Contains(q, t) \/ t = x
  BY <1>1, <1>2 DEF Contains
<1> QED
  BY <1>1, <1>3, <1>4

\* popN splits a queue.
LEMMA SplitQueue ==
  ASSUME NEW S, NEW q \in Seq(S), NEW k \in 0..Len(q), Distinct(q)
  PROVE  LET f == SubSeq(q, 1, k)
             b == SubSeq(q, k + 1, Len(q))
         IN  /\ f \in Seq(S) /\ b \in Seq(S) /\ Distinct(f) /\ Distinct(b)
             /\ \A t : Contains(q, t) <=> Contains(f, t) \/ Contains(b, t)
             /\ \A t : ~(Contains(f, t) /\ Contains(b, t))
<1> DEFINE f == SubSeq(q, 1, k)
           b == SubSeq(q, k + 1, Len(q))
           n == Len(q)
<1>1. n \in Nat /\ k \in 0..n
  BY LenProperties
<1>2. f \in Seq(S) /\ Len(f) = k /\ \A j \in 1..k : f[j] = q[j]
  BY <1>1, SubSeqProperties
<1>3. b \in Seq(S) /\ Len(b) = n - k /\ \A j \in 1..(n - k) : b[j] = q[k + j]
  BY <1>1, SubSeqProperties
<1> HIDE DEF f, b
<1>4. Distinct(f)
  BY <1>1, <1>2 DEF Distinct
<1>5. Distinct(b)
  <2> SUFFICES ASSUME NEW i \in 1..(n - k), NEW j \in 1..(n - k), b[i] = b[j] PROVE i = j
    BY <1>3 DEF Distinct
  <2>1. k + i \in 1..n /\ k + j \in 1..n /\ q[k + i] = q[k + j]
    BY <1>1, <1>3
  <2>2. k + i = k + j
    BY <2>1 DEF Distinct
  <2> QED
    BY <1>1, <2>2
<1>6. \A t : Contains(f, t) <=> \E j \in 1..k : q[j] = t
  BY <1>2 DEF Contains
<1>7. \A t : Contains(b, t) <=> \E j \in (k + 1)..n : q[j] = t
  <2>1. ASSUME NEW t, Contains(b, t) PROVE \E j \in (k + 1)..n : q[j] = t
    <3>1. PICK j \in 1..(n - k) : q[k + j] = t
      BY <1>3, <2>1 DEF Contains
    <3>2. k + j \in (k + 1)..n
      BY <1>1
    <3> QED
      BY <3>1, <3>2
  <2>2. ASSUME NEW t, NEW j \in (k + 1)..n, q[j] = t PROVE Contains(b, t)
    <3>1. j - k \in 1..(n - k) /\ k + (j - k) = j
      BY <1>1
    <3>2. b[j - k] = t
      BY <1>3, <2>2, <3>1
    <3> QED
      BY <1>3, <3>1, <3>2 DEF Contains
  <2> QED
    BY <2>1, <2>2
<1>8. \A t : Contains(q, t) <=> Contains(f, t) \/ Contains(b, t)
  <2>1. \A j : j \in 1..n <=> j \in 1..k \/ j \in (k + 1)..n
    BY <1>1
  <2>2. \A t : Contains(q, t) <=> \E j \in 1..n : q[j] = t
    BY DEF Contains
  <2> HIDE DEF n
  <2> QED
    BY <2>1, <2>2, <1>6, <1>7
<1>9. \A t : ~(Contains(f, t) /\ Contains(b, t))
  BY <1>1, <1>6, <1>7 DEF Distinct
<1> QED
  BY <1>2, <1>3, <1>4, <1>5, <1>8, <1>9 DEF f, b

\* Two queues without a common task make one.
LEMMA ConcatQueue ==
  ASSUME NEW S, NEW q \in Seq(S), NEW r \in Seq(S), Distinct(q), Distinct(r),
         \A t : ~(Contains(q, t) /\ Contains(r, t))
  PROVE  /\ q \o r \in Seq(S) /\ Distinct(q \o r)
         /\ \A t : Contains(q \o r, t) <=> Contains(q, t) \/ Contains(r, t)
<1> DEFINE u == q \o r
           m == Len(q)
           n == Len(r)
<1>1. m \in Nat /\ n \in Nat /\ u \in Seq(S) /\ Len(u) = m + n
  BY ConcatProperties, LenProperties
<1>2. \A j \in 1..(m + n) : u[j] = IF j <= m THEN q[j] ELSE r[j - m]
  BY ConcatProperties
<1> HIDE DEF u
<1>3. \A j \in 1..m : j \in 1..(m + n) /\ u[j] = q[j]
  BY <1>1, <1>2
<1>4. \A j \in 1..n : m + j \in 1..(m + n) /\ u[m + j] = r[j]
  <2> SUFFICES ASSUME NEW j \in 1..n PROVE m + j \in 1..(m + n) /\ u[m + j] = r[j]
    OBVIOUS
  <2>1. m + j \in 1..(m + n) /\ ~(m + j <= m) /\ (m + j) - m = j
    BY <1>1
  <2> QED
    BY <1>2, <2>1
<1>5. \A j \in 1..(m + n) : \/ j \in 1..m /\ u[j] = q[j]
                            \/ j > m /\ j - m \in 1..n /\ u[j] = r[j - m]
  BY <1>1, <1>2
<1>6. Distinct(u)
  <2> SUFFICES ASSUME NEW i \in 1..(m + n), NEW j \in 1..(m + n), u[i] = u[j] PROVE i = j
    BY <1>1 DEF Distinct
  <2>1. CASE i \in 1..m /\ j \in 1..m
    BY <1>3, <2>1 DEF Distinct
  <2>2. CASE i > m /\ j > m
    <3>1. i - m \in 1..n /\ j - m \in 1..n /\ r[i - m] = r[j - m]
      BY <1>1, <1>5, <2>2
    <3>2. i - m = j - m
      BY <3>1 DEF Distinct
    <3> QED
      BY <1>1, <3>2
  <2>3. CASE i \in 1..m /\ j > m
    <3>1. q[i] = r[j - m] /\ j - m \in 1..n
      BY <1>1, <1>5, <2>3
    <3> QED
      BY <2>3, <3>1 DEF Contains
  <2>4. CASE j \in 1..m /\ i > m
    <3>1. q[j] = r[i - m] /\ i - m \in 1..n
      BY <1>1, <1>5, <2>4
    <3> QED
      BY <2>4, <3>1 DEF Contains
  <2> QED
    BY <1>1, <2>1, <2>2, <2>3, <2>4
<1>7. \A t : Contains(u, t) <=> Contains(q, t) \/ Contains(r, t)
  <2>1. ASSUME NEW t, Contains(u, t) PROVE Contains(q, t) \/ Contains(r, t)
    BY <1>1, <1>5, <2>1 DEF Contains
  <2>2. ASSUME NEW t, Contains(q, t) \/ Contains(r, t) PROVE Contains(u, t)
    BY <1>1, <1>3, <1>4, <2>2 DEF Contains
  <2> QED
    BY <2>1, <2>2
<1> QED
  BY <1>1, <1>6, <1>7 DEF u

\* The shortest queues.
LEMMA SmallQueues ==
  /\ \A S : <<>> \in Seq(S)
  /\ Distinct(<<>>) /\ \A t : ~Contains(<<>>, t)
  /\ \A x : Distinct(<<x>>) /\ \A t : Contains(<<x>>, t) <=> t = x
BY DEF Distinct, Contains

\* The set of a queue's tasks.
LEMMA SetOfQueue ==
  ASSUME NEW S, NEW q \in Seq(S)
  PROVE  \A t : t \in ToSet(q) <=> Contains(q, t)
<1>1. DOMAIN q = 1..Len(q)
  BY LenProperties
<1> QED
  BY <1>1 DEF ToSet, Contains

\* A queue without duplicates holds a task once or not at all.
LEMMA CountOfQueue ==
  ASSUME NEW S, NEW q \in Seq(S), Distinct(q), NEW t
  PROVE  Count(q, t) = IF Contains(q, t) THEN 1 ELSE 0
<1> DEFINE I == {i \in DOMAIN q : q[i] = t}
<1>1. DOMAIN q = 1..Len(q)
  BY LenProperties
<1>2. CASE Contains(q, t)
  <2>1. PICK j \in 1..Len(q) : q[j] = t
    BY <1>2 DEF Contains
  <2>2. I = {j}
    BY <1>1, <2>1 DEF Distinct
  <2> QED
    BY <1>2, <2>2, FS_Singleton DEF Count
<1>3. CASE ~Contains(q, t)
  <2>1. I = {}
    BY <1>1, <1>3 DEF Contains
  <2> QED
    BY <1>3, <2>1, FS_EmptySet DEF Count
<1> QED
  BY <1>2, <1>3

-----------------------------------------------------------------------------
(* A thread's step *)

\* What a function on 1..n is as a sequence.
LEMMA FunctionIsSeq ==
  ASSUME NEW S, NEW n \in Nat, NEW f \in [1..n -> S]
  PROVE  f \in Seq(S) /\ Len(f) = n /\ DOMAIN f = 1..n
<1>1. f \in Seq(S)
  BY SeqDef
<1>2. DOMAIN f = 1..n /\ DOMAIN f = 1..Len(f) /\ Len(f) \in Nat
  BY <1>1, LenProperties
<1>3. Len(f) = n
  BY <1>2
<1> QED
  BY <1>1, <1>2, <1>3

\* How a step of thread i moves tasks: not at all, or in one of two ways.
Stays(i) == thd'[i].local = thd[i].local /\ UNCHANGED <<tasks, ran, results>>
\* It runs the first of its own.
Runs(i) ==
  /\ thd[i].local # <<>> /\ RunFirst(i)
  /\ thd'[i].local = Tail(thd[i].local) /\ tasks' = tasks
\* It takes from the pool's queue.
Moves(i) ==
  /\ UNCHANGED <<ran, results>>
  /\ \/ /\ tasks # <<>> /\ thd[i].local = <<>>
        /\ thd'[i].local = <<Head(tasks)>> /\ tasks' = Tail(tasks)
     \/ \E k \in 0..Len(tasks) : /\ thd'[i].local = thd[i].local \o SubSeq(tasks, 1, k)
                                 /\ tasks' = SubSeq(tasks, k + 1, Len(tasks))

\* A thread ends in this step.
Ends(i) == thd[i].pc \notin {"gone", "done"} /\ thd'[i].pc \in {"gone", "done"}

\* What every step of thread i does to the threads.
ThreadStep(i) ==
  /\ thd' \in [1..Len(thd) -> ThreadSet]
  /\ \A j \in DOMAIN thd : j # i => thd'[j] = thd[j]
  /\ thd'[i].wipe = thd[i].wipe /\ thd'[i].linked = thd[i].linked
  /\ ThreadInv(i)'
  /\ Ends(i) => InGap(i) \/ (thd[i].local = <<>> /\ (thd[i].wipe \/ ~thd[i].linked))
  /\ UNCHANGED workVars
  /\ Stays(i) \/ Runs(i) \/ Moves(i)

\* The condition of the loop keeps a thread a thread.
LEMMA WhileFields ==
  ASSUME NEW th \in ThreadSet
  PROVE  /\ While(th) \in ThreadSet
         /\ While(th).pc = IF th.running THEN "lock" ELSE "exit"
         /\ While(th).local = th.local /\ While(th).running = th.running
         /\ While(th).wipe = th.wipe /\ While(th).inactive = th.inactive /\ While(th).linked = th.linked
BY DEF While, ThreadSet

\* The pieces that addByLevel moves are within the pool's queue.
LEMMA WeightBound ==
  ASSUME Shape, NEW i \in DOMAIN thd
  PROVE  Least(Weight(Len(thd[i].local)), Len(tasks)) \in 0..Len(tasks)
<1>1. thd[i].local \in Seq(Tasks) /\ tasks \in Seq(Tasks)
  <2>1. i \in 1..Len(thd) /\ thd \in Seq(ThreadSet) /\ tasks \in Seq(Tasks)
    BY LenProperties DEF Shape
  <2>2. thd[i] \in ThreadSet
    BY <2>1, ElementOfSeq
  <2> QED
    BY <2>1, <2>2 DEF ThreadSet
<1>2. Len(thd[i].local) \in Nat /\ Len(tasks) \in Nat
  BY <1>1, LenProperties
<1>3. Weight(Len(thd[i].local)) \in Nat
  BY <1>2, PoolAssumption DEF Weight
<1> QED
  BY <1>2, <1>3 DEF Least

\* A thread begins to run.
LEMMA StartStep ==
  ASSUME Shape, NEW i \in DOMAIN thd, ThreadInv(i), Start(i)
  PROVE  ThreadStep(i)
<1>1. thd \in [1..Len(thd) -> ThreadSet] /\ i \in 1..Len(thd) /\ DOMAIN thd = 1..Len(thd) /\ thd[i] \in ThreadSet
  BY LenProperties, ElementOfSeq DEF Shape
<1>2. UNCHANGED workVars
  BY DEF Start
<1>3. thd[i].local \in Seq(Tasks)
  BY <1>1 DEF ThreadSet
<1>4. thd' \in [1..Len(thd) -> ThreadSet]
  BY <1>1, <1>3 DEF Start, ThreadSet
<1>5. \A j \in DOMAIN thd : j # i => thd'[j] = thd[j]
  BY <1>1 DEF Start
<1>6. Stays(i)
  BY <1>1 DEF Start, Stays, ThreadSet
<1>7. ThreadInv(i)' /\ thd'[i].wipe = thd[i].wipe /\ thd'[i].linked = thd[i].linked
  BY <1>1, <1>2 DEF Start, ThreadSet, ThreadInv, InGap, workVars
<1>8. Ends(i) => InGap(i) \/ (thd[i].local = <<>> /\ (thd[i].wipe \/ ~thd[i].linked))
  BY <1>1 DEF Start, ThreadSet, ThreadInv, Ends
<1> QED
  BY <1>2, <1>4, <1>5, <1>6, <1>7, <1>8 DEF ThreadStep

\* A thread enters its loop.
LEMMA EnterStep ==
  ASSUME Shape, NEW i \in DOMAIN thd, ThreadInv(i), Enter(i)
  PROVE  ThreadStep(i)
<1>1. thd \in [1..Len(thd) -> ThreadSet] /\ i \in 1..Len(thd) /\ DOMAIN thd = 1..Len(thd) /\ thd[i] \in ThreadSet
  BY LenProperties, ElementOfSeq DEF Shape
<1>2. UNCHANGED workVars
  BY DEF Enter
<1>3. thd' = [thd EXCEPT ![i] = While(thd[i])]
  BY DEF Enter
<1>4. /\ thd'[i] = While(thd[i])
      /\ thd' \in [1..Len(thd) -> ThreadSet]
      /\ \A j \in DOMAIN thd : j # i => thd'[j] = thd[j]
  BY <1>1, <1>3, WhileFields
<1>5. Stays(i)
  BY <1>1, <1>4, WhileFields DEF Enter, Stays
<1>6. ThreadInv(i)' /\ thd'[i].pc \notin {"gone", "done"} /\ thd'[i].wipe = thd[i].wipe /\ thd'[i].linked = thd[i].linked
  BY <1>1, <1>2, <1>4, WhileFields DEF Enter, ThreadInv, InGap, workVars
<1> QED
  BY <1>2, <1>4, <1>5, <1>6 DEF ThreadStep, Ends

\* A thread runs a task of its own.
LEMMA RunLocalStep ==
  ASSUME Shape, NEW i \in DOMAIN thd, ThreadInv(i), RunLocal(i)
  PROVE  ThreadStep(i)
<1>1. thd \in [1..Len(thd) -> ThreadSet] /\ i \in 1..Len(thd) /\ DOMAIN thd = 1..Len(thd) /\ thd[i] \in ThreadSet
  BY LenProperties, ElementOfSeq DEF Shape
<1>2. UNCHANGED workVars
  BY DEF RunLocal
<1>3. Tail(thd[i].local) \in Seq(Tasks)
  BY <1>1, HeadTailProperties DEF ThreadSet, RunLocal
<1>4. thd' \in [1..Len(thd) -> ThreadSet]
  BY <1>1, <1>3 DEF RunLocal, ThreadSet
<1>5. \A j \in DOMAIN thd : j # i => thd'[j] = thd[j]
  BY <1>1 DEF RunLocal
<1>6. Runs(i)
  BY <1>1 DEF RunLocal, Runs, ThreadSet
<1>7. ThreadInv(i)' /\ thd'[i].wipe = thd[i].wipe /\ thd'[i].linked = thd[i].linked
  BY <1>1, <1>2 DEF RunLocal, ThreadSet, ThreadInv, InGap, workVars
<1>8. Ends(i) => InGap(i) \/ (thd[i].local = <<>> /\ (thd[i].wipe \/ ~thd[i].linked))
  BY <1>1 DEF RunLocal, ThreadSet, ThreadInv, Ends
<1> QED
  BY <1>2, <1>4, <1>5, <1>6, <1>7, <1>8 DEF ThreadStep

\* A thread without a link ends.
LEMMA LeaveStep ==
  ASSUME Shape, NEW i \in DOMAIN thd, ThreadInv(i), Leave(i)
  PROVE  ThreadStep(i)
<1>1. thd \in [1..Len(thd) -> ThreadSet] /\ i \in 1..Len(thd) /\ DOMAIN thd = 1..Len(thd) /\ thd[i] \in ThreadSet
  BY LenProperties, ElementOfSeq DEF Shape
<1>2. UNCHANGED workVars
  BY DEF Leave
<1>3. thd[i].local \in Seq(Tasks)
  BY <1>1 DEF ThreadSet
<1>4. thd' \in [1..Len(thd) -> ThreadSet]
  BY <1>1, <1>3 DEF Leave, ThreadSet
<1>5. \A j \in DOMAIN thd : j # i => thd'[j] = thd[j]
  BY <1>1 DEF Leave
<1>6. Stays(i)
  BY <1>1 DEF Leave, Stays, ThreadSet
<1>7. ThreadInv(i)' /\ thd'[i].wipe = thd[i].wipe /\ thd'[i].linked = thd[i].linked
  BY <1>1, <1>2 DEF Leave, ThreadSet, ThreadInv, InGap, workVars
<1>8. Ends(i) => InGap(i) \/ (thd[i].local = <<>> /\ (thd[i].wipe \/ ~thd[i].linked))
  BY <1>1 DEF Leave, ThreadSet, ThreadInv, Ends
<1> QED
  BY <1>2, <1>4, <1>5, <1>6, <1>7, <1>8 DEF ThreadStep

\* A thread without a task waits.
LEMMA WaitStep ==
  ASSUME Shape, NEW i \in DOMAIN thd, ThreadInv(i), Wait(i)
  PROVE  ThreadStep(i)
<1>1. thd \in [1..Len(thd) -> ThreadSet] /\ i \in 1..Len(thd) /\ DOMAIN thd = 1..Len(thd) /\ thd[i] \in ThreadSet
  BY LenProperties, ElementOfSeq DEF Shape
<1>2. UNCHANGED workVars
  BY DEF Wait
<1>3. thd[i].local \in Seq(Tasks)
  BY <1>1 DEF ThreadSet
<1>4. thd' \in [1..Len(thd) -> ThreadSet]
  BY <1>1, <1>3 DEF Wait, ThreadSet
<1>5. \A j \in DOMAIN thd : j # i => thd'[j] = thd[j]
  BY <1>1 DEF Wait
<1>6. Stays(i)
  BY <1>1 DEF Wait, Stays, ThreadSet
<1>7. ThreadInv(i)' /\ thd'[i].wipe = thd[i].wipe /\ thd'[i].linked = thd[i].linked
  BY <1>1, <1>2 DEF Wait, ThreadSet, ThreadInv, InGap, workVars
<1>8. Ends(i) => InGap(i) \/ (thd[i].local = <<>> /\ (thd[i].wipe \/ ~thd[i].linked))
  BY <1>1 DEF Wait, ThreadSet, ThreadInv, Ends
<1> QED
  BY <1>2, <1>4, <1>5, <1>6, <1>7, <1>8 DEF ThreadStep

\* A thread gets the task it waited for.
LEMMA FetchStep ==
  ASSUME Shape, NEW i \in DOMAIN thd, ThreadInv(i), Fetch(i)
  PROVE  ThreadStep(i)
<1>1. thd \in [1..Len(thd) -> ThreadSet] /\ i \in 1..Len(thd) /\ DOMAIN thd = 1..Len(thd) /\ thd[i] \in ThreadSet
  BY LenProperties, ElementOfSeq DEF Shape
<1>2. UNCHANGED workVars
  BY DEF Fetch
<1>3. <<Head(tasks)>> \in Seq(Tasks)
  BY <1>1, HeadTailProperties DEF Shape, Fetch
<1>4. thd' \in [1..Len(thd) -> ThreadSet]
  BY <1>1, <1>3 DEF Fetch, ThreadSet
<1>5. \A j \in DOMAIN thd : j # i => thd'[j] = thd[j]
  BY <1>1 DEF Fetch
<1>6. Moves(i)
  BY <1>1 DEF Fetch, Moves, ThreadSet, ThreadInv
<1>7. ThreadInv(i)' /\ thd'[i].wipe = thd[i].wipe /\ thd'[i].linked = thd[i].linked
  BY <1>1, <1>2 DEF Fetch, ThreadSet, ThreadInv, InGap, workVars
<1>8. Ends(i) => InGap(i) \/ (thd[i].local = <<>> /\ (thd[i].wipe \/ ~thd[i].linked))
  BY <1>1 DEF Fetch, ThreadSet, ThreadInv, Ends
<1> QED
  BY <1>2, <1>4, <1>5, <1>6, <1>7, <1>8 DEF ThreadStep

\* A thread waits in vain.
LEMMA FetchTimeoutStep ==
  ASSUME Shape, NEW i \in DOMAIN thd, ThreadInv(i), FetchTimeout(i)
  PROVE  ThreadStep(i)
<1>1. thd \in [1..Len(thd) -> ThreadSet] /\ i \in 1..Len(thd) /\ DOMAIN thd = 1..Len(thd) /\ thd[i] \in ThreadSet
  BY LenProperties, ElementOfSeq DEF Shape
<1>2. UNCHANGED workVars
  BY DEF FetchTimeout
<1>3. thd[i].local \in Seq(Tasks)
  BY <1>1 DEF ThreadSet
<1>4. thd' \in [1..Len(thd) -> ThreadSet]
  BY <1>1, <1>3 DEF FetchTimeout, ThreadSet
<1>5. \A j \in DOMAIN thd : j # i => thd'[j] = thd[j]
  BY <1>1 DEF FetchTimeout
<1>6. Stays(i)
  BY <1>1 DEF FetchTimeout, Stays, ThreadSet
<1>7. ThreadInv(i)' /\ thd'[i].wipe = thd[i].wipe /\ thd'[i].linked = thd[i].linked
  BY <1>1, <1>2 DEF FetchTimeout, ThreadSet, ThreadInv, InGap, workVars
<1>8. Ends(i) => InGap(i) \/ (thd[i].local = <<>> /\ (thd[i].wipe \/ ~thd[i].linked))
  BY <1>1 DEF FetchTimeout, ThreadSet, ThreadInv, Ends
<1> QED
  BY <1>2, <1>4, <1>5, <1>6, <1>7, <1>8 DEF ThreadStep

\* A thread leaves its loop; with tasks only in the gap of cancelWhenComplete.
LEMMA ExitStep ==
  ASSUME Shape, NEW i \in DOMAIN thd, ThreadInv(i), Exit(i)
  PROVE  ThreadStep(i)
<1>1. thd \in [1..Len(thd) -> ThreadSet] /\ i \in 1..Len(thd) /\ DOMAIN thd = 1..Len(thd) /\ thd[i] \in ThreadSet
  BY LenProperties, ElementOfSeq DEF Shape
<1>2. UNCHANGED workVars
  BY DEF Exit
<1>3. thd[i].local \in Seq(Tasks)
  BY <1>1 DEF ThreadSet
<1>4. thd' \in [1..Len(thd) -> ThreadSet]
  BY <1>1, <1>3 DEF Exit, ThreadSet
<1>5. \A j \in DOMAIN thd : j # i => thd'[j] = thd[j]
  BY <1>1 DEF Exit
<1>6. Stays(i)
  BY <1>1 DEF Exit, Stays, ThreadSet
<1>7. ThreadInv(i)' /\ thd'[i].wipe = thd[i].wipe /\ thd'[i].linked = thd[i].linked
  BY <1>1, <1>2 DEF Exit, ThreadSet, ThreadInv, InGap, workVars
<1>8. Ends(i) => InGap(i) \/ (thd[i].local = <<>> /\ (thd[i].wipe \/ ~thd[i].linked))
  BY <1>1 DEF Exit, ThreadSet, ThreadInv, Ends
<1> QED
  BY <1>2, <1>4, <1>5, <1>6, <1>7, <1>8 DEF ThreadStep

\* A cancelled thread runs what is left.
LEMMA DrainStep ==
  ASSUME Shape, NEW i \in DOMAIN thd, ThreadInv(i), Drain(i)
  PROVE  ThreadStep(i)
<1>1. thd \in [1..Len(thd) -> ThreadSet] /\ i \in 1..Len(thd) /\ DOMAIN thd = 1..Len(thd) /\ thd[i] \in ThreadSet
  BY LenProperties, ElementOfSeq DEF Shape
<1>2. UNCHANGED workVars
  BY DEF Drain
<1>3. Tail(thd[i].local) \in Seq(Tasks)
  BY <1>1, HeadTailProperties DEF ThreadSet, Drain
<1>4. thd' \in [1..Len(thd) -> ThreadSet]
  BY <1>1, <1>3 DEF Drain, ThreadSet
<1>5. \A j \in DOMAIN thd : j # i => thd'[j] = thd[j]
  BY <1>1 DEF Drain
<1>6. Runs(i)
  BY <1>1 DEF Drain, Runs, ThreadSet
<1>7. ThreadInv(i)' /\ thd'[i].wipe = thd[i].wipe /\ thd'[i].linked = thd[i].linked
  BY <1>1, <1>2 DEF Drain, ThreadSet, ThreadInv, InGap, workVars
<1>8. Ends(i) => InGap(i) \/ (thd[i].local = <<>> /\ (thd[i].wipe \/ ~thd[i].linked))
  BY <1>1 DEF Drain, ThreadSet, ThreadInv, Ends
<1> QED
  BY <1>2, <1>4, <1>5, <1>6, <1>7, <1>8 DEF ThreadStep

\* A cancelled thread has run what was left.
LEMMA DrainedStep ==
  ASSUME Shape, NEW i \in DOMAIN thd, ThreadInv(i), Drained(i)
  PROVE  ThreadStep(i)
<1>1. thd \in [1..Len(thd) -> ThreadSet] /\ i \in 1..Len(thd) /\ DOMAIN thd = 1..Len(thd) /\ thd[i] \in ThreadSet
  BY LenProperties, ElementOfSeq DEF Shape
<1>2. UNCHANGED workVars
  BY DEF Drained
<1>3. thd[i].local \in Seq(Tasks)
  BY <1>1 DEF ThreadSet
<1>4. thd' \in [1..Len(thd) -> ThreadSet]
  BY <1>1, <1>3 DEF Drained, ThreadSet
<1>5. \A j \in DOMAIN thd : j # i => thd'[j] = thd[j]
  BY <1>1 DEF Drained
<1>6. Stays(i)
  BY <1>1 DEF Drained, Stays, ThreadSet
<1>7. ThreadInv(i)' /\ thd'[i].wipe = thd[i].wipe /\ thd'[i].linked = thd[i].linked
  BY <1>1, <1>2 DEF Drained, ThreadSet, ThreadInv, InGap, workVars
<1>8. Ends(i) => InGap(i) \/ (thd[i].local = <<>> /\ (thd[i].wipe \/ ~thd[i].linked))
  BY <1>1 DEF Drained, ThreadSet, ThreadInv, Ends
<1> QED
  BY <1>2, <1>4, <1>5, <1>6, <1>7, <1>8 DEF ThreadStep

\* A thread takes a share of the pool's queue.
LEMMA AddStep ==
  ASSUME Shape, NEW i \in DOMAIN thd, ThreadInv(i), Distinct(tasks), Add(i)
  PROVE  ThreadStep(i)
<1>1. thd \in [1..Len(thd) -> ThreadSet] /\ i \in 1..Len(thd) /\ DOMAIN thd = 1..Len(thd) /\ thd[i] \in ThreadSet
  BY LenProperties, ElementOfSeq DEF Shape
<1>2. UNCHANGED workVars /\ UNCHANGED <<ran, results>>
  BY DEF Add
<1> DEFINE k == IF thd[i].p THEN Least(Weight(Len(thd[i].local)), Len(tasks)) ELSE 0
           more == thd[i].local \o SubSeq(tasks, 1, k)
           th == [thd[i] EXCEPT !.local = more]
<1>3. k \in 0..Len(tasks)
  BY WeightBound, LenProperties DEF Shape
<1>4. tasks' = SubSeq(tasks, k + 1, Len(tasks)) /\ thd' = [thd EXCEPT ![i] = While(th)]
  BY DEF Add
<1> HIDE DEF k
<1>5. more \in Seq(Tasks)
  <2>1. SubSeq(tasks, 1, k) \in Seq(Tasks)
    BY <1>3, SplitQueue DEF Shape
  <2>2. thd[i].local \in Seq(Tasks)
    BY <1>1 DEF ThreadSet
  <2> QED
    BY <2>1, <2>2, ConcatProperties
<1>6. th \in ThreadSet /\ th.local = more /\ th.running = thd[i].running /\ th.wipe = thd[i].wipe /\ th.inactive = thd[i].inactive /\ th.linked = thd[i].linked
  <2> HIDE DEF more
  <2> QED
    BY <1>1, <1>5 DEF ThreadSet
<1> HIDE DEF th
<1>7. /\ thd'[i] = While(th)
      /\ thd' \in [1..Len(thd) -> ThreadSet]
      /\ \A j \in DOMAIN thd : j # i => thd'[j] = thd[j]
  BY <1>1, <1>4, <1>6, WhileFields
<1>8. Moves(i)
  BY <1>2, <1>3, <1>4, <1>6, <1>7, WhileFields DEF Moves
<1>9. thd[i].pc = "add"
  BY DEF Add
<1> HIDE DEF more
<1>10. ThreadInv(i)' /\ thd'[i].pc \notin {"gone", "done"} /\ thd'[i].wipe = thd[i].wipe /\ thd'[i].linked = thd[i].linked
  BY <1>1, <1>2, <1>6, <1>7, <1>9, WhileFields DEF ThreadInv, InGap, workVars
<1> QED
  BY <1>2, <1>7, <1>8, <1>10 DEF ThreadStep, Ends

\* Every step of a thread is of this kind.
LEMMA WorkStep ==
  ASSUME PoolsInv, NEW i \in DOMAIN thd, Work(i)
  PROVE  ThreadStep(i)
<1>1. Shape /\ ThreadInv(i) /\ Distinct(tasks)
  BY DEF PoolsInv, QueueInv
<1> QED
  BY <1>1, StartStep, EnterStep, RunLocalStep, LeaveStep, WaitStep, FetchStep, FetchTimeoutStep, AddStep,
     ExitStep, DrainStep, DrainedStep DEF Work

\* The sequences after a thread's step.
LEMMA ThreadStepShape ==
  ASSUME PoolsInv, NEW i \in DOMAIN thd, ThreadStep(i)
  PROVE  /\ Shape' /\ DOMAIN thd' = DOMAIN thd /\ Len(thd') = Len(thd)
         /\ \A j \in DOMAIN thd : thd[j] \in ThreadSet /\ thd'[j] \in ThreadSet
<1>1. thd \in Seq(ThreadSet) /\ thd' \in [1..Len(thd) -> ThreadSet] /\ UNCHANGED workVars
  BY DEF PoolsInv, Shape, ThreadStep
<1>2. Len(thd) \in Nat /\ DOMAIN thd = 1..Len(thd) /\ thd \in [1..Len(thd) -> ThreadSet]
  BY <1>1, LenProperties
<1>3. thd' \in Seq(ThreadSet) /\ DOMAIN thd' = DOMAIN thd /\ Len(thd') = Len(thd)
  BY <1>1, <1>2, FunctionIsSeq
<1>4. \A j \in DOMAIN thd : thd[j] \in ThreadSet /\ thd'[j] \in ThreadSet
  BY <1>1, <1>2
<1>5. tasks \in Seq(Tasks) /\ results \in Seq(Nat) /\ ran \in [Tasks -> Nat] /\ thd[i].local \in Seq(Tasks) /\ Distinct(tasks)
  BY <1>4 DEF PoolsInv, Shape, ThreadSet, QueueInv
<1>6. tasks' \in Seq(Tasks) /\ results' \in Seq(Nat) /\ ran' \in [Tasks -> Nat]
  <2>1. CASE Stays(i)
    BY <1>5, <2>1 DEF Stays
  <2>2. CASE Runs(i)
    <3> DEFINE h == Head(thd[i].local)
    <3>1. h \in Tasks
      BY <1>5, <2>2, HeadTailProperties DEF Runs
    <3>2. Ratios[h] \in Nat
      BY <3>1, PoolAssumption, ElementOfSeq, LenProperties DEF Tasks
    <3>3. Append(results, Ratios[h]) \in Seq(Nat)
      BY <1>5, <3>2, AppendProperties
    <3>4. ran' = [ran EXCEPT ![h] = ran[h] + 1] /\ results' = IF Captures(i) THEN Append(results, Ratios[h]) ELSE results
      BY <2>2 DEF Runs, RunFirst
    <3> HIDE DEF h
    <3>5. ran' \in [Tasks -> Nat]
      BY <1>5, <3>1, <3>4
    <3> QED
      BY <1>5, <2>2, <3>3, <3>4, <3>5 DEF Runs
  <2>3. CASE Moves(i)
    <3>1. CASE tasks # <<>> /\ tasks' = Tail(tasks)
      BY <1>5, <2>3, <3>1, HeadTailProperties DEF Moves
    <3>2. ASSUME NEW k \in 0..Len(tasks), tasks' = SubSeq(tasks, k + 1, Len(tasks)) PROVE tasks' \in Seq(Tasks)
      BY <1>5, <3>2, SplitQueue
    <3> QED
      BY <1>5, <2>3, <3>1, <3>2 DEF Moves
  <2> QED
    BY <2>1, <2>2, <2>3 DEF ThreadStep
<1>7. Shape'
  BY <1>1, <1>3, <1>6 DEF PoolsInv, Shape, workVars
<1> QED
  BY <1>3, <1>4, <1>7

\* A thread's step leaves the pool's counts alone.
LEMMA ThreadStepPool ==
  ASSUME PoolsInv, NEW i \in DOMAIN thd, ThreadStep(i)
  PROVE  (\A j \in DOMAIN thd : ThreadInv(j))' /\ PoolThreadInv' /\ KeptInv'
<1>1. DOMAIN thd' = DOMAIN thd /\ Len(thd') = Len(thd)
  BY ThreadStepShape
<1>2. UNCHANGED <<active, pool, crash>> /\ ThreadInv(i)' /\ \A j \in DOMAIN thd : j # i => thd'[j] = thd[j]
  BY DEF ThreadStep, workVars
<1>3. \A j \in DOMAIN thd : thd'[j].wipe = thd[j].wipe
  BY <1>2 DEF ThreadStep
<1>4. \A j \in DOMAIN thd' : ThreadInv(j)'
  BY <1>1, <1>2 DEF PoolsInv, ThreadInv, InGap
<1>5. Kept' = Kept
  BY <1>1, <1>3 DEF Kept
<1>6. PoolThreadInv'
  BY <1>1, <1>2, <1>3 DEF PoolsInv, PoolThreadInv, Constructed, Shrinking
<1>7. KeptInv'
  BY <1>2, <1>5 DEF PoolsInv, KeptInv
<1> QED
  BY <1>4, <1>6, <1>7

\* A thread that runs its first task: the task has run once and is nowhere else.
LEMMA RunsQueue ==
  ASSUME PoolsInv, NEW i \in DOMAIN thd, ThreadStep(i), Runs(i)
  PROVE  QueueInv'
<1>1. /\ DOMAIN thd' = DOMAIN thd /\ thd[i].local \in Seq(Tasks) /\ Distinct(thd[i].local) /\ thd[i].local # <<>>
      /\ UNCHANGED <<added, cleared, tasks>>
      /\ thd'[i].local = Tail(thd[i].local) /\ \A j \in DOMAIN thd : j # i => thd'[j] = thd[j]
  BY ThreadStepShape DEF PoolsInv, QueueInv, ThreadSet, ThreadStep, Runs, workVars
<1>2. PICK h \in Tasks :
        /\ h = Head(thd[i].local)
        /\ Distinct(thd'[i].local) /\ Contains(thd[i].local, h)
        /\ \A t : Contains(thd'[i].local, t) <=> Contains(thd[i].local, t) /\ t # h
  BY <1>1, TailQueue
<1>3. ran' = [ran EXCEPT ![h] = ran[h] + 1] /\ ran \in [Tasks -> Nat]
  BY <1>2 DEF Runs, RunFirst, PoolsInv, Shape
<1>4. \A j \in DOMAIN thd : Distinct(thd'[j].local)
  BY <1>1, <1>2 DEF PoolsInv, QueueInv
<1>5. Held(h) /\ ran[h] = 0 /\ h \notin cleared /\ ~Contains(tasks, h)
      /\ h \in 1..added /\ \A j \in DOMAIN thd : j # i => ~Contains(thd[j].local, h)
  BY <1>2 DEF Held, PoolsInv, QueueInv, TaskInv
<1>6. TaskInv(h)'
  <2>1. ran'[h] = 1
    BY <1>2, <1>3, <1>5
  <2>2. \A j \in DOMAIN thd : ~Contains(thd'[j].local, h)
    BY <1>1, <1>2, <1>5
  <2> QED
    BY <1>1, <1>5, <2>1, <2>2 DEF TaskInv, Held
<1>7. ASSUME NEW t \in Tasks, t # h PROVE TaskInv(t)'
  <2>1. ran'[t] = ran[t]
    BY <1>3, <1>7
  <2>2. \A j \in DOMAIN thd : Contains(thd'[j].local, t) <=> Contains(thd[j].local, t)
    BY <1>1, <1>2, <1>7
  <2> QED
    BY <1>1, <2>1, <2>2 DEF TaskInv, Held, PoolsInv, QueueInv
<1> QED
  BY <1>1, <1>2, <1>4, <1>6, <1>7 DEF PoolsInv, QueueInv

\* A thread that takes tasks of the pool: they are in its queue and nowhere else.
LEMMA MovesQueue ==
  ASSUME PoolsInv, NEW i \in DOMAIN thd, ThreadStep(i), Moves(i)
  PROVE  QueueInv'
<1>1. /\ DOMAIN thd' = DOMAIN thd /\ thd[i].local \in Seq(Tasks) /\ Distinct(thd[i].local)
      /\ tasks \in Seq(Tasks) /\ Distinct(tasks)
      /\ UNCHANGED <<added, cleared, ran>>
      /\ \A j \in DOMAIN thd : j # i => thd'[j] = thd[j]
  BY ThreadStepShape DEF PoolsInv, QueueInv, ThreadSet, ThreadStep, Moves, workVars, Shape
<1>2. \A t \in Tasks : Contains(tasks, t) => ~Contains(thd[i].local, t)
  BY DEF PoolsInv, QueueInv, TaskInv, Held
<1>3. \A t : (Contains(tasks, t) \/ Contains(thd[i].local, t)) => t \in Tasks
  BY <1>1, ElementOfSeq DEF Contains
<1> DEFINE Goal == /\ Distinct(tasks') /\ Distinct(thd'[i].local)
                   /\ \A t : Contains(tasks', t) => Contains(tasks, t) /\ ~Contains(thd'[i].local, t)
                   /\ \A t : Contains(thd[i].local, t) => Contains(thd'[i].local, t)
                   /\ \A t : Contains(tasks, t) => Contains(tasks', t) \/ Contains(thd'[i].local, t)
                   /\ \A t : Contains(thd'[i].local, t) => Contains(tasks, t) \/ Contains(thd[i].local, t)
<1>4. Goal
  <2>1. CASE /\ tasks # <<>> /\ thd[i].local = <<>>
             /\ thd'[i].local = <<Head(tasks)>> /\ tasks' = Tail(tasks)
    <3>1. /\ Distinct(tasks') /\ Contains(tasks, Head(tasks))
          /\ \A t : Contains(tasks', t) <=> Contains(tasks, t) /\ t # Head(tasks)
      BY <1>1, <2>1, TailQueue
    <3>2. Distinct(thd'[i].local) /\ \A t : Contains(thd'[i].local, t) <=> t = Head(tasks)
      BY <2>1, SmallQueues
    <3>3. \A t : ~Contains(thd[i].local, t)
      BY <2>1, SmallQueues
    <3> QED
      BY <3>1, <3>2, <3>3
  <2>2. ASSUME NEW k \in 0..Len(tasks),
               thd'[i].local = thd[i].local \o SubSeq(tasks, 1, k),
               tasks' = SubSeq(tasks, k + 1, Len(tasks))
        PROVE  Goal
    <3> DEFINE f == SubSeq(tasks, 1, k)
    <3>1. /\ f \in Seq(Tasks) /\ Distinct(f) /\ Distinct(tasks')
          /\ \A t : Contains(tasks, t) <=> Contains(f, t) \/ Contains(tasks', t)
          /\ \A t : ~(Contains(f, t) /\ Contains(tasks', t))
      BY <1>1, <2>2, SplitQueue
    <3> HIDE DEF f
    <3>2. \A t : ~(Contains(thd[i].local, t) /\ Contains(f, t))
      BY <1>2, <1>3, <3>1
    <3> DEFINE q == thd[i].local
    <3>3. q \in Seq(Tasks) /\ Distinct(q) /\ \A t : ~(Contains(q, t) /\ Contains(f, t))
      BY <1>1, <3>2
    <3>4. thd'[i].local = q \o f
      BY <2>2 DEF f
    <3> HIDE DEF q
    <3>5. /\ Distinct(q \o f)
          /\ \A t : Contains(q \o f, t) <=> Contains(q, t) \/ Contains(f, t)
      BY <3>1, <3>3, ConcatQueue
    <3>6. /\ Distinct(thd'[i].local)
          /\ \A t : Contains(thd'[i].local, t) <=> Contains(thd[i].local, t) \/ Contains(f, t)
      BY <3>4, <3>5 DEF q
    <3> QED
      BY <1>2, <1>3, <3>1, <3>6
  <2> QED
    BY <2>1, <2>2 DEF Moves
<1> HIDE DEF Goal
<1>5. \A j \in DOMAIN thd : Distinct(thd'[j].local)
  BY <1>1, <1>4 DEF Goal, PoolsInv, QueueInv
<1>6. ASSUME NEW t \in Tasks PROVE TaskInv(t)'
  <2>1. TaskInv(t)
    BY DEF PoolsInv, QueueInv
  <2>2. \A j \in DOMAIN thd : j # i => (Contains(thd'[j].local, t) <=> Contains(thd[j].local, t))
    BY <1>1
  <2> QED
    BY <1>1, <1>4, <2>1, <2>2 DEF Goal, TaskInv, Held
<1> QED
  BY <1>4, <1>5, <1>6, <1>1 DEF Goal, QueueInv

\* A thread's step keeps every task in one place.
LEMMA ThreadStepQueue ==
  ASSUME PoolsInv, NEW i \in DOMAIN thd, ThreadStep(i)
  PROVE  QueueInv'
<1>1. CASE Stays(i)
  <2>1. /\ DOMAIN thd' = DOMAIN thd /\ UNCHANGED <<added, cleared, ran, tasks>>
        /\ \A j \in DOMAIN thd : thd'[j].local = thd[j].local
    BY <1>1, ThreadStepShape DEF ThreadStep, Stays, workVars
  <2> QED
    BY <2>1 DEF PoolsInv, QueueInv, TaskInv, Held
<1> QED
  BY <1>1, RunsQueue, MovesQueue DEF ThreadStep

-----------------------------------------------------------------------------
(* The pool's steps *)

\* What holds between the pool's steps of thd.
LEMMA ThreadsShape ==
  ASSUME Shape
  PROVE  /\ Len(thd) \in Nat /\ DOMAIN thd = 1..Len(thd) /\ thd \in [1..Len(thd) -> ThreadSet]
         /\ \A j \in DOMAIN thd : thd[j] \in ThreadSet
         /\ IsFiniteSet(Kept) /\ Cardinality(Kept) \in Nat /\ Cardinality(Kept) <= Len(thd)
<1>1. Len(thd) \in Nat /\ DOMAIN thd = 1..Len(thd) /\ thd \in [1..Len(thd) -> ThreadSet]
  BY LenProperties DEF Shape
<1>2. \A j \in DOMAIN thd : thd[j] \in ThreadSet
  BY <1>1
<1>3. IsFiniteSet(1..Len(thd)) /\ Cardinality(1..Len(thd)) = Len(thd)
  BY <1>1, FS_Interval
<1>4. Kept \in SUBSET (1..Len(thd))
  BY <1>1 DEF Kept
<1>5. IsFiniteSet(Kept) /\ Cardinality(Kept) <= Len(thd) /\ Cardinality(Kept) \in Nat
  BY <1>3, <1>4, FS_Subset, FS_CardinalityType
<1> QED
  BY <1>1, <1>2, <1>5

\* Threads come and threads are marked, and the tasks stay where they are.
LEMMA QueueKept ==
  ASSUME PoolsInv, UNCHANGED <<tasks, ran, added, cleared>>,
         DOMAIN thd \subseteq DOMAIN thd',
         \A j \in DOMAIN thd : thd'[j].local = thd[j].local,
         \A j \in DOMAIN thd' : j \notin DOMAIN thd => thd'[j].local = <<>>
  PROVE  QueueInv'
<1>1. \A j \in DOMAIN thd' : j \notin DOMAIN thd => Distinct(thd'[j].local) /\ \A t : ~Contains(thd'[j].local, t)
  BY SmallQueues
<1>2. \A j \in DOMAIN thd' : Distinct(thd'[j].local)
  BY <1>1 DEF PoolsInv, QueueInv
<1>3. ASSUME NEW t \in Tasks PROVE TaskInv(t)'
  <2>1. TaskInv(t) /\ \A j \in DOMAIN thd' : Contains(thd'[j].local, t) <=> j \in DOMAIN thd /\ Contains(thd[j].local, t)
    BY <1>1 DEF PoolsInv, QueueInv
  <2> QED
    BY <2>1 DEF TaskInv, Held
<1> QED
  BY <1>2, <1>3 DEF PoolsInv, QueueInv

\* A flag of one thread changes.
LEMMA FlagStep ==
  ASSUME Shape, NEW x,
         \/ thd' = [thd EXCEPT ![x].linked = TRUE]
         \/ thd' = [thd EXCEPT ![x].linked = FALSE]
         \/ thd' = [thd EXCEPT ![x].running = FALSE]
         \/ thd' = [thd EXCEPT ![x].wipe = TRUE]
  PROVE  /\ thd' \in Seq(ThreadSet) /\ DOMAIN thd' = DOMAIN thd /\ Len(thd') = Len(thd)
         /\ \A j \in DOMAIN thd : /\ thd'[j].pc = thd[j].pc /\ thd'[j].local = thd[j].local
                                  /\ thd'[j].inactive = thd[j].inactive
                                  /\ j # x => thd'[j] = thd[j]
<1>1. Len(thd) \in Nat /\ DOMAIN thd = 1..Len(thd) /\ thd \in [1..Len(thd) -> ThreadSet]
  BY ThreadsShape
<1>2. thd' \in [1..Len(thd) -> ThreadSet]
  <2>1. CASE thd' = [thd EXCEPT ![x].linked = TRUE] \/ thd' = [thd EXCEPT ![x].linked = FALSE]
    <3>1. \A th \in ThreadSet : [th EXCEPT !.linked = TRUE] \in ThreadSet
      BY DEF ThreadSet
    <3>2. \A th \in ThreadSet : [th EXCEPT !.linked = FALSE] \in ThreadSet
      BY DEF ThreadSet
    <3> QED
      BY <1>1, <2>1, <3>1, <3>2
  <2>2. CASE thd' = [thd EXCEPT ![x].running = FALSE]
    <3>1. \A th \in ThreadSet : [th EXCEPT !.running = FALSE] \in ThreadSet
      BY DEF ThreadSet
    <3> QED
      BY <1>1, <2>2, <3>1
  <2>3. CASE thd' = [thd EXCEPT ![x].wipe = TRUE]
    <3>1. \A th \in ThreadSet : [th EXCEPT !.wipe = TRUE] \in ThreadSet
      BY DEF ThreadSet
    <3> QED
      BY <1>1, <2>3, <3>1
  <2> QED
    BY <2>1, <2>2, <2>3
<1>3. thd' \in Seq(ThreadSet) /\ DOMAIN thd' = DOMAIN thd /\ Len(thd') = Len(thd)
  BY <1>1, <1>2, FunctionIsSeq
<1>4. \A j \in DOMAIN thd : /\ thd'[j].pc = thd[j].pc /\ thd'[j].local = thd[j].local
                            /\ thd'[j].inactive = thd[j].inactive
                            /\ j # x => thd'[j] = thd[j]
  BY <1>1 DEF ThreadSet
<1> QED
  BY <1>3, <1>4

\* A new thread joins mThreads.
LEMMA NewThreadStep ==
  ASSUME Shape, thd' = Append(thd, NewThread)
  PROVE  /\ thd' \in Seq(ThreadSet) /\ Len(thd') = Len(thd) + 1 /\ DOMAIN thd' = 1..(Len(thd) + 1)
         /\ \A j \in DOMAIN thd : thd'[j] = thd[j]
         /\ thd'[Len(thd) + 1] = NewThread
         /\ Cardinality(Kept') = Cardinality(Kept) + 1
<1>1. NewThread \in ThreadSet /\ ~NewThread.wipe
  BY SmallQueues DEF NewThread, ThreadSet
<1>2. Len(thd) \in Nat /\ DOMAIN thd = 1..Len(thd) /\ thd \in Seq(ThreadSet) /\ IsFiniteSet(Kept) /\ Cardinality(Kept) \in Nat
  BY ThreadsShape DEF Shape
<1>3. /\ thd' \in Seq(ThreadSet) /\ Len(thd') = Len(thd) + 1
      /\ \A j \in 1..Len(thd) : thd'[j] = thd[j]
      /\ thd'[Len(thd) + 1] = NewThread
  BY <1>1, <1>2, AppendProperties
<1>4. DOMAIN thd' = 1..(Len(thd) + 1)
  BY <1>3, LenProperties
<1>5. Kept' = Kept \cup {Len(thd) + 1} /\ Len(thd) + 1 \notin Kept
  BY <1>1, <1>2, <1>3, <1>4 DEF Kept
<1> DEFINE K == Kept
           x == Len(thd) + 1
<1>6. IsFiniteSet(K) /\ x \notin K
  BY <1>2, <1>5
<1> HIDE DEF K, x
<1>7. Cardinality(K \cup {x}) = Cardinality(K) + 1
  BY <1>6, FS_AddElement
<1>8. Cardinality(Kept') = Cardinality(Kept) + 1
  BY <1>5, <1>7 DEF K, x
<1> QED
  BY <1>2, <1>3, <1>4, <1>8

\* The threads keep their invariant when only their link changes, or nothing.
LEMMA ThreadsKept ==
  ASSUME PoolsInv, DOMAIN thd \subseteq DOMAIN thd',
         \A j \in DOMAIN thd : /\ thd'[j].pc = thd[j].pc /\ thd'[j].local = thd[j].local
                               /\ thd'[j].inactive = thd[j].inactive
                               /\ thd'[j].running = thd[j].running /\ thd'[j].wipe = thd[j].wipe,
         \A j \in DOMAIN thd' : j \notin DOMAIN thd => thd'[j] = NewThread,
         pool.pc # "wipe"
  PROVE  (\A j \in DOMAIN thd : ThreadInv(j))'
BY DEF PoolsInv, ThreadInv, InGap, NewThread

\* mAdjustThdNumTimeout is read.
LEMMA ReadTimeoutKeeps ==
  ASSUME PoolsInv, crash = "no", ReadTimeout
  PROVE  PoolsInv'
<1>1. Shape /\ PoolThreadInv /\ KeptInv /\ Cardinality(Kept) \in Nat /\ Len(thd) \in Nat
  BY ThreadsShape DEF PoolsInv
<1>2. thd' = thd /\ Kept' = Kept /\ UNCHANGED <<tasks, ran, added, cleared>> /\ pool.pc # "wipe"
  BY DEF ReadTimeout, Kept, poolVars
<1>3. (\A j \in DOMAIN thd : ThreadInv(j))' /\ QueueInv'
  BY <1>2, ThreadsKept, QueueKept
<1>4. Shape'
  <2>1. pool' \in PoolSet
    BY <1>1 DEF ReadTimeout, Shape, PoolSet, Constructing
  <2>2. active' \in HardwareNum..MaxNum /\ results' \in Seq(Nat)
    BY <1>1, PoolAssumption, HeadTailProperties DEF ReadTimeout, Shape, PoolSet, PoolThreadInv, Shrinking
  <2> QED
    BY <1>1, <1>2, <2>1, <2>2 DEF ReadTimeout, Shape, poolVars
<1>5. PoolThreadInv'
  BY <1>1, <1>2, PoolAssumption DEF ReadTimeout, Shape, PoolSet, PoolThreadInv, KeptInv, Shrinking, Constructed, Constructing
<1>6. KeptInv'
  BY <1>1, <1>2, PoolAssumption DEF ReadTimeout, Shape, PoolSet, PoolThreadInv, KeptInv, Shrinking, Constructing
<1> QED
  BY <1>3, <1>4, <1>5, <1>6 DEF PoolsInv

\* A result is added to the total.
LEMMA PopResultKeeps ==
  ASSUME PoolsInv, crash = "no", PopResult
  PROVE  PoolsInv'
<1>1. Shape /\ PoolThreadInv /\ KeptInv /\ Cardinality(Kept) \in Nat /\ Len(thd) \in Nat
  BY ThreadsShape DEF PoolsInv
<1>2. thd' = thd /\ Kept' = Kept /\ UNCHANGED <<tasks, ran, added, cleared>> /\ pool.pc # "wipe"
  BY DEF PopResult, Kept, poolVars
<1>3. (\A j \in DOMAIN thd : ThreadInv(j))' /\ QueueInv'
  BY <1>2, ThreadsKept, QueueKept
<1>4. Shape'
  <2>1. pool' \in PoolSet
    <3>1. /\ pool' = [pool EXCEPT !.pc = "top", !.total = pool.total + Head(results), !.n = pool.n + 1]
          /\ pool \in PoolSet /\ results \in Seq(Nat) /\ results # <<>>
      BY <1>1 DEF PopResult, Shape
    <3>2. Head(results) \in Nat
      BY <3>1, HeadTailProperties
    <3>3. pool.total \in Nat /\ pool.n \in Nat
      BY <3>1 DEF PoolSet
    <3>4. pool.total + Head(results) \in Nat /\ pool.n + 1 \in Nat
      BY <3>2, <3>3
    <3> QED
      BY <3>1, <3>4 DEF PoolSet
  <2>2. active' \in HardwareNum..MaxNum /\ results' \in Seq(Nat)
    BY <1>1, PoolAssumption, HeadTailProperties DEF PopResult, Shape, PoolSet, PoolThreadInv, Shrinking
  <2> QED
    BY <1>1, <1>2, <2>1, <2>2 DEF PopResult, Shape, poolVars
<1>5. PoolThreadInv'
  BY <1>1, <1>2, PoolAssumption DEF PopResult, Shape, PoolSet, PoolThreadInv, KeptInv, Shrinking, Constructed, Constructing
<1>6. KeptInv'
  BY <1>1, <1>2, PoolAssumption DEF PopResult, Shape, PoolSet, PoolThreadInv, KeptInv, Shrinking, Constructing
<1> QED
  BY <1>3, <1>4, <1>5, <1>6 DEF PoolsInv

\* The division by no results.
LEMMA DivideKeeps ==
  ASSUME PoolsInv, crash = "no", Divide
  PROVE  PoolsInv'
<1>1. Shape /\ PoolThreadInv /\ KeptInv /\ Cardinality(Kept) \in Nat /\ Len(thd) \in Nat
  BY ThreadsShape DEF PoolsInv
<1>2. thd' = thd /\ Kept' = Kept /\ UNCHANGED <<tasks, ran, added, cleared>> /\ pool.pc # "wipe"
  BY DEF Divide, Kept, poolVars
<1>3. (\A j \in DOMAIN thd : ThreadInv(j))' /\ QueueInv'
  BY <1>2, ThreadsKept, QueueKept
<1>4. Shape'
  <2>1. pool' \in PoolSet
    BY <1>1 DEF Divide, Shape, PoolSet, Constructing
  <2>2. active' \in HardwareNum..MaxNum /\ results' \in Seq(Nat)
    BY <1>1, PoolAssumption, HeadTailProperties DEF Divide, Shape, PoolSet, PoolThreadInv, Shrinking
  <2> QED
    BY <1>1, <1>2, <2>1, <2>2 DEF Divide, Shape, poolVars
<1>5. PoolThreadInv'
  BY <1>1, <1>2, PoolAssumption DEF Divide, Shape, PoolSet, PoolThreadInv, KeptInv, Shrinking, Constructed, Constructing
<1>6. KeptInv'
  BY <1>1, <1>2, PoolAssumption DEF Divide, Shape, PoolSet, PoolThreadInv, KeptInv, Shrinking, Constructing
<1> QED
  BY <1>3, <1>4, <1>5, <1>6 DEF PoolsInv

\* expandThreads passes a thread that is in use.
LEMMA SkipThreadKeeps ==
  ASSUME PoolsInv, crash = "no", SkipThread
  PROVE  PoolsInv'
<1>1. Shape /\ PoolThreadInv /\ KeptInv /\ Cardinality(Kept) \in Nat /\ Len(thd) \in Nat
  BY ThreadsShape DEF PoolsInv
<1>2. thd' = thd /\ Kept' = Kept /\ UNCHANGED <<tasks, ran, added, cleared>> /\ pool.pc # "wipe"
  BY DEF SkipThread, Kept, poolVars
<1>3. (\A j \in DOMAIN thd : ThreadInv(j))' /\ QueueInv'
  BY <1>2, ThreadsKept, QueueKept
<1>4. Shape'
  <2>1. pool' \in PoolSet
    <3>1. pool' = [pool EXCEPT !.at = pool.at + 1] /\ pool \in PoolSet
      BY <1>1 DEF SkipThread, Shape
    <3>2. pool.at + 1 \in Nat
      BY <3>1 DEF PoolSet
    <3> QED
      BY <3>1, <3>2 DEF PoolSet
  <2>2. active' \in HardwareNum..MaxNum /\ results' \in Seq(Nat)
    BY <1>1, PoolAssumption, HeadTailProperties DEF SkipThread, Shape, PoolSet, PoolThreadInv, Shrinking
  <2> QED
    BY <1>1, <1>2, <2>1, <2>2 DEF SkipThread, Shape, poolVars
<1>5. PoolThreadInv'
  <2>1. /\ pool'.at = pool.at + 1 /\ pool'.pc = "fill" /\ pool.pc = "fill" /\ pool'.grown = pool.grown /\ pool'.left = pool.left
        /\ UNCHANGED <<active, crash>>
    BY <1>1 DEF SkipThread, Shape, PoolSet
  <2>2. pool.at > HardwareNum /\ pool.at \in Nat /\ HardwareNum \in Nat
    BY <1>1, <2>1, PoolAssumption DEF PoolThreadInv, PoolSet, Shape
  <2>3. pool'.at > HardwareNum
    BY <2>1, <2>2
  <2> QED
    BY <1>1, <2>1, <2>3 DEF PoolThreadInv, Shrinking, Constructed
<1>6. KeptInv'
  BY <1>1, <1>2, PoolAssumption DEF SkipThread, Shape, PoolSet, PoolThreadInv, KeptInv, Shrinking, Constructing
<1> QED
  BY <1>3, <1>4, <1>5, <1>6 DEF PoolsInv

\* expandThreads ends.
LEMMA ExpandedKeeps ==
  ASSUME PoolsInv, crash = "no", Expanded
  PROVE  PoolsInv'
<1>1. Shape /\ PoolThreadInv /\ KeptInv /\ Cardinality(Kept) \in Nat /\ Len(thd) \in Nat
  BY ThreadsShape DEF PoolsInv
<1>2. thd' = thd /\ Kept' = Kept /\ UNCHANGED <<tasks, ran, added, cleared>> /\ pool.pc # "wipe"
  BY DEF Expanded, Kept, poolVars
<1>3. (\A j \in DOMAIN thd : ThreadInv(j))' /\ QueueInv'
  BY <1>2, ThreadsKept, QueueKept
<1>4. Shape'
  <2>1. pool' \in PoolSet
    BY <1>1 DEF Expanded, Shape, PoolSet, Constructing
  <2>2. active' \in HardwareNum..MaxNum /\ results' \in Seq(Nat)
    BY <1>1, PoolAssumption, HeadTailProperties DEF Expanded, Shape, PoolSet, PoolThreadInv, Shrinking
  <2> QED
    BY <1>1, <1>2, <2>1, <2>2 DEF Expanded, Shape, poolVars
<1>5. PoolThreadInv'
  BY <1>1, <1>2, PoolAssumption DEF Expanded, Shape, PoolSet, PoolThreadInv, KeptInv, Shrinking, Constructed, Constructing
<1>6. KeptInv'
  BY <1>1, <1>2, PoolAssumption DEF Expanded, Shape, PoolSet, PoolThreadInv, KeptInv, Shrinking, Constructing
<1> QED
  BY <1>3, <1>4, <1>5, <1>6 DEF PoolsInv

\* shrinkThreads ends.
LEMMA ShrunkKeeps ==
  ASSUME PoolsInv, crash = "no", Shrunk
  PROVE  PoolsInv'
<1>1. Shape /\ PoolThreadInv /\ KeptInv /\ Cardinality(Kept) \in Nat /\ Len(thd) \in Nat
  BY ThreadsShape DEF PoolsInv
<1>2. thd' = thd /\ Kept' = Kept /\ UNCHANGED <<tasks, ran, added, cleared>> /\ pool.pc # "wipe"
  BY DEF Shrunk, Kept, poolVars
<1>3. (\A j \in DOMAIN thd : ThreadInv(j))' /\ QueueInv'
  BY <1>2, ThreadsKept, QueueKept
<1>4. Shape'
  <2>1. pool' \in PoolSet
    BY <1>1 DEF Shrunk, Shape, PoolSet, Constructing
  <2>2. active' \in HardwareNum..MaxNum /\ results' \in Seq(Nat)
    BY <1>1, PoolAssumption, HeadTailProperties DEF Shrunk, Shape, PoolSet, PoolThreadInv, Shrinking
  <2> QED
    BY <1>1, <1>2, <2>1, <2>2 DEF Shrunk, Shape, poolVars
<1>5. PoolThreadInv'
  BY <1>1, <1>2, PoolAssumption DEF Shrunk, Shape, PoolSet, PoolThreadInv, KeptInv, Shrinking, Constructed, Constructing
<1>6. KeptInv'
  BY <1>1, <1>2, PoolAssumption DEF Shrunk, Shape, PoolSet, PoolThreadInv, KeptInv, Shrinking, Constructing
<1> QED
  BY <1>3, <1>4, <1>5, <1>6 DEF PoolsInv

\* The flag is put down.
LEMMA ResetKeeps ==
  ASSUME PoolsInv, crash = "no", Reset
  PROVE  PoolsInv'
<1>1. Shape /\ PoolThreadInv /\ KeptInv /\ Cardinality(Kept) \in Nat /\ Len(thd) \in Nat
  BY ThreadsShape DEF PoolsInv
<1>2. thd' = thd /\ Kept' = Kept /\ UNCHANGED <<tasks, ran, added, cleared>> /\ pool.pc # "wipe"
  BY DEF Reset, Kept, poolVars
<1>3. (\A j \in DOMAIN thd : ThreadInv(j))' /\ QueueInv'
  BY <1>2, ThreadsKept, QueueKept
<1>4. Shape'
  <2>1. pool' \in PoolSet
    BY <1>1 DEF Reset, Shape, PoolSet, Constructing
  <2>2. active' \in HardwareNum..MaxNum /\ results' \in Seq(Nat)
    BY <1>1, PoolAssumption, HeadTailProperties DEF Reset, Shape, PoolSet, PoolThreadInv, Shrinking
  <2> QED
    BY <1>1, <1>2, <2>1, <2>2 DEF Reset, Shape, poolVars
<1>5. PoolThreadInv'
  BY <1>1, <1>2, PoolAssumption DEF Reset, Shape, PoolSet, PoolThreadInv, KeptInv, Shrinking, Constructed, Constructing
<1>6. KeptInv'
  BY <1>1, <1>2, PoolAssumption DEF Reset, Shape, PoolSet, PoolThreadInv, KeptInv, Shrinking, Constructing
<1> QED
  BY <1>3, <1>4, <1>5, <1>6 DEF PoolsInv

\* The expectation is a number of threads, and no fewer than there are processors.
LEMMA ExpectationBound ==
  ASSUME Shape, pool.n > 0
  PROVE  Expectation \in Nat /\ Expectation >= HardwareNum
<1> DEFINE q == pool.total \div pool.n
<1>1. q \in Nat
  <2>1. pool.total \in Nat /\ pool.n \in Nat \ {0}
    BY DEF Shape, PoolSet
  <2>2. \A a \in Nat, b \in Nat \ {0} : a \div b \in Nat
    OBVIOUS
  <2> QED
    BY <2>1, <2>2
<1>2. HardwareNum \in Nat
  BY PoolAssumption
<1> HIDE DEF q
<1>3. HardwareNum * q \in Nat /\ HardwareNum * (1 + q) = HardwareNum + HardwareNum * q
  BY <1>1, <1>2
<1>4. HardwareNum * (1 + q) \in Nat /\ HardwareNum * (1 + q) >= HardwareNum
  BY <1>2, <1>3
<1> QED
  BY <1>4 DEF Expectation, q

\* expandThreads or shrinkThreads begins.
LEMMA AdjustKeeps ==
  ASSUME PoolsInv, crash = "no", Adjust
  PROVE  PoolsInv'
<1>1. Shape /\ PoolThreadInv /\ KeptInv /\ Cardinality(Kept) \in Nat /\ Len(thd) \in Nat
  BY ThreadsShape DEF PoolsInv
<1>2. thd' = thd /\ Kept' = Kept /\ UNCHANGED <<tasks, results, ran, added, cleared, active, timeout, early, crash>>
      /\ pool.pc = "adjust" /\ pool.n > 0
  BY DEF Adjust, Kept, poolVars
<1>3. (\A j \in DOMAIN thd : ThreadInv(j))' /\ QueueInv'
  BY <1>2, ThreadsKept, QueueKept
<1>4. Expectation \in Nat /\ Expectation >= HardwareNum
  BY <1>1, <1>2, ExpectationBound
<1> DEFINE E == Expectation
<1>5. HardwareNum \in Nat /\ MaxNum \in Nat /\ active \in HardwareNum..MaxNum /\ pool \in PoolSet /\ E \in Nat /\ E >= HardwareNum
  BY <1>1, <1>4, PoolAssumption DEF Shape
<1>6. \/ E > active /\ pool' = [pool EXCEPT !.pc = "fill", !.at = HardwareNum + 1, !.grown = 0, !.left = Least(E, MaxNum) - active]
      \/ E < active /\ pool' = [pool EXCEPT !.pc = "cancel", !.at = active, !.left = E]
      \/ E = active /\ pool' = [pool EXCEPT !.pc = "reset"]
  <2> HIDE DEF E
  <2>1. E > active \/ E < active \/ E = active
    BY <1>5
  <2>2. ~(E > active /\ E < active) /\ ~(E > active /\ E = active) /\ ~(E < active /\ E = active)
    BY <1>5
  <2>3. pool' = CASE E > active -> [pool EXCEPT !.pc = "fill", !.at = HardwareNum + 1, !.grown = 0, !.left = Least(E, MaxNum) - active]
                  [] E < active -> [pool EXCEPT !.pc = "cancel", !.at = active, !.left = E]
                  [] OTHER -> [pool EXCEPT !.pc = "reset"]
    BY DEF Adjust, E
  <2> QED
    BY <2>1, <2>2, <2>3
<1> HIDE DEF E
<1>7. CASE E > active /\ pool' = [pool EXCEPT !.pc = "fill", !.at = HardwareNum + 1, !.grown = 0, !.left = Least(E, MaxNum) - active]
  <2>1. HardwareNum + 1 \in Nat /\ Least(E, MaxNum) - active \in Nat /\ active + (Least(E, MaxNum) - active) <= MaxNum
    BY <1>5, <1>7 DEF Least
  <2> DEFINE more == Least(E, MaxNum) - active
  <2>2. pool' \in PoolSet /\ pool'.pc = "fill" /\ pool'.grown = 0 /\ pool'.left = more /\ pool'.at = HardwareNum + 1
    BY <1>5, <1>7, <2>1 DEF PoolSet
  <2>3. Shape'
    BY <1>1, <1>2, <2>2 DEF Shape
  <2>4. PoolThreadInv'
    BY <1>2, <1>5, <2>1, <2>2 DEF PoolThreadInv, Shrinking, Constructed
  <2>5. KeptInv'
    BY <1>1, <1>2, <1>5, <2>2 DEF KeptInv
  <2> QED
    BY <1>3, <2>3, <2>4, <2>5 DEF PoolsInv
<1>8. CASE E < active /\ pool' = [pool EXCEPT !.pc = "cancel", !.at = active, !.left = E]
  <2>0. active \in Nat
    BY <1>5
  <2>1. pool' \in PoolSet /\ pool'.pc = "cancel" /\ pool'.at = active /\ pool'.left = E
    BY <1>5, <1>8, <2>0 DEF PoolSet
  <2>2. Shape'
    BY <1>1, <1>2, <2>1 DEF Shape
  <2>3. PoolThreadInv' /\ KeptInv'
    BY <1>1, <1>2, <1>5, <1>8, <2>1 DEF PoolThreadInv, KeptInv, Shrinking, Constructed
  <2> QED
    BY <1>3, <2>2, <2>3 DEF PoolsInv
<1>9. CASE pool' = [pool EXCEPT !.pc = "reset"]
  <2>1. pool' \in PoolSet /\ pool'.pc = "reset"
    BY <1>5, <1>9 DEF PoolSet
  <2>2. Shape'
    BY <1>1, <1>2, <2>1 DEF Shape
  <2>3. PoolThreadInv' /\ KeptInv'
    BY <1>1, <1>2, <1>5, <2>1 DEF PoolThreadInv, KeptInv, Shrinking, Constructed
  <2> QED
    BY <1>3, <2>2, <2>3 DEF PoolsInv
<1> QED
  BY <1>6, <1>7, <1>8, <1>9

\* The constructor links a thread.
LEMMA LinkFirstKeeps ==
  ASSUME PoolsInv, crash = "no", LinkFirst
  PROVE  PoolsInv'
<1>1. Shape /\ PoolThreadInv /\ KeptInv /\ Cardinality(Kept) \in Nat /\ Len(thd) \in Nat /\ pool \in PoolSet
  BY ThreadsShape DEF PoolsInv, Shape
<1>2. /\ UNCHANGED <<tasks, results, ran, added, cleared, active, timeout, early>>
      /\ pool.pc = "linkFirst"
  BY DEF LinkFirst, poolVars
<1> DEFINE x == pool.at
<1>3. /\ thd' \in Seq(ThreadSet) /\ DOMAIN thd' = DOMAIN thd /\ Len(thd') = Len(thd)
      /\ \A j \in DOMAIN thd : /\ thd'[j].pc = thd[j].pc /\ thd'[j].local = thd[j].local
                               /\ thd'[j].inactive = thd[j].inactive
                               /\ j # x => thd'[j] = thd[j]
  BY <1>1, FlagStep DEF LinkFirst
<1>4. QueueInv'
  BY <1>2, <1>3, QueueKept
<1>5. \A j \in DOMAIN thd : thd'[j].running = thd[j].running /\ thd'[j].wipe = thd[j].wipe
  BY <1>1, ThreadsShape DEF LinkFirst, ThreadSet
<1>6. Kept' = Kept /\ Cardinality(Kept) = Len(thd)
  <2>1. Kept = 1..Len(thd)
    BY <1>1, <1>2, ThreadsShape DEF Kept, PoolThreadInv, Constructed
  <2>2. Cardinality(1..Len(thd)) = Len(thd)
    <3>1. PICK n \in Nat : n = Len(thd)
      BY <1>1
    <3>2. Cardinality(1..n) = n
      BY FS_Interval
    <3> QED
      BY <3>1, <3>2
  <2>3. Kept' = Kept
    BY <1>3, <1>5 DEF Kept
  <2> QED
    BY <2>1, <2>2, <2>3
<1>7. (\A j \in DOMAIN thd : ThreadInv(j))'
  BY <1>2, <1>3, <1>5, ThreadsKept
<1>8. pool' \in PoolSet /\ crash' \in {"no", "division", "threads"}
  BY <1>1, PoolAssumption DEF LinkFirst, Shape, PoolSet, PoolThreadInv, Constructing
<1>9. Shape'
  BY <1>1, <1>2, <1>3, <1>8 DEF Shape
<1>10. PoolThreadInv'
  BY <1>1, <1>2, <1>3, <1>5, PoolAssumption DEF LinkFirst, Shape, PoolSet, PoolThreadInv, KeptInv, Shrinking, Constructed, Constructing
<1>11. KeptInv'
  BY <1>1, <1>2, <1>3, <1>6, PoolAssumption DEF LinkFirst, Shape, PoolSet, PoolThreadInv, KeptInv, Shrinking, Constructed, Constructing
<1> QED
  BY <1>4, <1>7, <1>9, <1>10, <1>11 DEF PoolsInv

\* expandThreads links a thread it replaced.
LEMMA LinkHoleKeeps ==
  ASSUME PoolsInv, crash = "no", LinkHole
  PROVE  PoolsInv'
<1>1. Shape /\ PoolThreadInv /\ KeptInv /\ Cardinality(Kept) \in Nat /\ Len(thd) \in Nat /\ pool \in PoolSet
  BY ThreadsShape DEF PoolsInv, Shape
<1>2. /\ UNCHANGED <<tasks, results, ran, added, cleared, active, timeout, early>>
      /\ pool.pc = "linkHole"
  BY DEF LinkHole, poolVars
<1> DEFINE x == pool.at
<1>3. /\ thd' \in Seq(ThreadSet) /\ DOMAIN thd' = DOMAIN thd /\ Len(thd') = Len(thd)
      /\ \A j \in DOMAIN thd : /\ thd'[j].pc = thd[j].pc /\ thd'[j].local = thd[j].local
                               /\ thd'[j].inactive = thd[j].inactive
                               /\ j # x => thd'[j] = thd[j]
  BY <1>1, FlagStep DEF LinkHole
<1>4. QueueInv'
  BY <1>2, <1>3, QueueKept
<1>5. \A j \in DOMAIN thd : thd'[j].running = thd[j].running /\ thd'[j].wipe = thd[j].wipe
  BY <1>1, ThreadsShape DEF LinkHole, ThreadSet
<1>6. Kept' = Kept
  BY <1>3, <1>5 DEF Kept
<1>7. (\A j \in DOMAIN thd : ThreadInv(j))'
  BY <1>2, <1>3, <1>5, ThreadsKept
<1>8. pool' \in PoolSet /\ crash' \in {"no", "division", "threads"}
  <2>1. pool.at + 1 \in Nat /\ pool.grown + 1 \in Nat /\ (pool.left > 0 => pool.left - 1 \in Nat) /\ pool.left \in Nat
    BY <1>1 DEF PoolSet
  <2>2. /\ pool' = [pool EXCEPT !.pc = "fill", !.at = pool.at + 1, !.left = IF pool.left > 0 THEN pool.left - 1 ELSE pool.left,
                                !.grown = pool.grown + 1]
        /\ crash' \in {"threads", crash}
    BY DEF LinkHole
  <2> QED
    BY <1>1, <2>1, <2>2 DEF PoolSet, Shape
<1>9. Shape'
  BY <1>1, <1>2, <1>3, <1>8 DEF Shape
<1>10. PoolThreadInv'
  <2>1. /\ pool'.pc = "fill" /\ pool'.at = pool.at + 1 /\ pool'.grown = pool.grown + 1
        /\ pool.left > 0 => pool'.left = pool.left - 1
        /\ crash' = "no" => pool.left > 0
    BY <1>1 DEF LinkHole, PoolSet
  <2>2. active + pool.grown + pool.left <= MaxNum /\ active \in Nat /\ MaxNum \in Nat /\ pool.grown \in Nat /\ pool.left \in Nat
    BY <1>1, <1>2, PoolAssumption DEF PoolThreadInv, PoolSet, Shape
  <2>3. crash' = "no" => active + pool'.grown + pool'.left <= MaxNum
    BY <2>1, <2>2
  <2>4. pool'.at > HardwareNum
    <3>1. pool.at > HardwareNum /\ pool.at \in Nat /\ HardwareNum \in Nat
      BY <1>1, <1>2, PoolAssumption DEF PoolThreadInv, PoolSet
    <3> QED
      BY <2>1, <3>1
  <2> QED
    BY <2>1, <2>3, <2>4, <1>2 DEF PoolThreadInv, Shrinking, Constructed
<1>11. KeptInv'
  BY <1>1, <1>2, <1>3, <1>6, PoolAssumption DEF LinkHole, Shape, PoolSet, PoolThreadInv, KeptInv, Shrinking, Constructed, Constructing
<1> QED
  BY <1>4, <1>7, <1>9, <1>10, <1>11 DEF PoolsInv

\* expandThreads links a thread it added.
LEMMA LinkNewKeeps ==
  ASSUME PoolsInv, crash = "no", LinkNew
  PROVE  PoolsInv'
<1>1. Shape /\ PoolThreadInv /\ KeptInv /\ Cardinality(Kept) \in Nat /\ Len(thd) \in Nat /\ pool \in PoolSet
  BY ThreadsShape DEF PoolsInv, Shape
<1>2. /\ UNCHANGED <<tasks, results, ran, added, cleared, active, timeout, early>>
      /\ pool.pc = "linkNew"
  BY DEF LinkNew, poolVars
<1> DEFINE x == Len(thd)
<1>3. /\ thd' \in Seq(ThreadSet) /\ DOMAIN thd' = DOMAIN thd /\ Len(thd') = Len(thd)
      /\ \A j \in DOMAIN thd : /\ thd'[j].pc = thd[j].pc /\ thd'[j].local = thd[j].local
                               /\ thd'[j].inactive = thd[j].inactive
                               /\ j # x => thd'[j] = thd[j]
  BY <1>1, FlagStep DEF LinkNew
<1>4. QueueInv'
  BY <1>2, <1>3, QueueKept
<1>5. \A j \in DOMAIN thd : thd'[j].running = thd[j].running /\ thd'[j].wipe = thd[j].wipe
  BY <1>1, ThreadsShape DEF LinkNew, ThreadSet
<1>6. Kept' = Kept
  BY <1>3, <1>5 DEF Kept
<1>7. (\A j \in DOMAIN thd : ThreadInv(j))'
  BY <1>2, <1>3, <1>5, ThreadsKept
<1>8. pool' \in PoolSet /\ crash' \in {"no", "division", "threads"}
  <2>1. pool.left - 1 \in Nat /\ pool.grown + 1 \in Nat
    BY <1>1, <1>2 DEF PoolSet, PoolThreadInv
  <2>2. pool' = [pool EXCEPT !.pc = "fill", !.left = pool.left - 1, !.grown = pool.grown + 1] /\ crash' = crash
    BY DEF LinkNew
  <2> QED
    BY <1>1, <2>1, <2>2 DEF PoolSet, Shape
<1>9. Shape'
  BY <1>1, <1>2, <1>3, <1>8 DEF Shape
<1>10. PoolThreadInv'
  <2>1. pool'.pc = "fill" /\ pool'.at = pool.at /\ pool'.left = pool.left - 1 /\ pool'.grown = pool.grown + 1 /\ crash' = crash
    BY <1>1 DEF LinkNew, PoolSet
  <2>2. active + pool.grown + pool.left <= MaxNum /\ active \in Nat /\ MaxNum \in Nat /\ pool.grown \in Nat /\ pool.left \in Nat
    BY <1>1, <1>2, PoolAssumption DEF PoolThreadInv, PoolSet, Shape
  <2>3. active + pool'.grown + pool'.left <= MaxNum /\ pool'.at > HardwareNum
    BY <1>1, <1>2, <2>1, <2>2 DEF PoolThreadInv
  <2> QED
    BY <2>1, <2>3, <1>2 DEF PoolThreadInv, Shrinking, Constructed
<1>11. KeptInv'
  BY <1>1, <1>2, <1>3, <1>6, PoolAssumption DEF LinkNew, Shape, PoolSet, PoolThreadInv, KeptInv, Shrinking, Constructed, Constructing
<1> QED
  BY <1>4, <1>7, <1>9, <1>10, <1>11 DEF PoolsInv

\* cancelWhenComplete, first: the gap opens.
LEMMA CancelRunningKeeps ==
  ASSUME PoolsInv, crash = "no", CancelRunning
  PROVE  PoolsInv'
<1>1. Shape /\ PoolThreadInv /\ KeptInv /\ Cardinality(Kept) \in Nat /\ Len(thd) \in Nat /\ pool \in PoolSet
  BY ThreadsShape DEF PoolsInv, Shape
<1>2. /\ UNCHANGED <<tasks, results, ran, added, cleared, active, timeout, early>>
      /\ pool.pc = "cancel"
  BY DEF CancelRunning, poolVars
<1> DEFINE x == pool.at
<1>3. /\ thd' \in Seq(ThreadSet) /\ DOMAIN thd' = DOMAIN thd /\ Len(thd') = Len(thd)
      /\ \A j \in DOMAIN thd : /\ thd'[j].pc = thd[j].pc /\ thd'[j].local = thd[j].local
                               /\ thd'[j].inactive = thd[j].inactive
                               /\ j # x => thd'[j] = thd[j]
  BY <1>1, FlagStep DEF CancelRunning
<1>4. QueueInv'
  BY <1>2, <1>3, QueueKept
<1>5. \A j \in DOMAIN thd : thd'[j].wipe = thd[j].wipe /\ (j = x => ~thd'[j].running)
  BY <1>1, ThreadsShape DEF CancelRunning, ThreadSet
<1>6. Kept' = Kept
  BY <1>3, <1>5 DEF Kept
<1>7. (\A j \in DOMAIN thd : ThreadInv(j))'
  BY <1>1, <1>2, <1>3, <1>5 DEF CancelRunning, PoolsInv, ThreadInv, InGap, PoolSet
<1>8. pool' \in PoolSet /\ crash' \in {"no", "division", "threads"}
  BY <1>1, PoolAssumption DEF CancelRunning, Shape, PoolSet, PoolThreadInv, Constructing
<1>9. Shape'
  BY <1>1, <1>2, <1>3, <1>8 DEF Shape
<1>10. PoolThreadInv'
  BY <1>1, <1>2, <1>3, <1>5, PoolAssumption DEF CancelRunning, Shape, PoolSet, PoolThreadInv, KeptInv, Shrinking, Constructed, Constructing
<1>11. KeptInv'
  BY <1>1, <1>2, <1>3, <1>6, PoolAssumption DEF CancelRunning, Shape, PoolSet, PoolThreadInv, KeptInv, Shrinking, Constructed, Constructing
<1> QED
  BY <1>4, <1>7, <1>9, <1>10, <1>11 DEF PoolsInv

\* cancelWhenComplete, second: the gap is closed.
LEMMA CancelWipeKeeps ==
  ASSUME PoolsInv, crash = "no", CancelWipe
  PROVE  PoolsInv'
<1>1. Shape /\ PoolThreadInv /\ KeptInv /\ Cardinality(Kept) \in Nat /\ Len(thd) \in Nat /\ pool \in PoolSet
  BY ThreadsShape DEF PoolsInv, Shape
<1>2. /\ UNCHANGED <<tasks, results, ran, added, cleared, active, timeout, early>>
      /\ pool.pc = "wipe"
  BY DEF CancelWipe, poolVars
<1> DEFINE x == pool.at
<1>3. /\ thd' \in Seq(ThreadSet) /\ DOMAIN thd' = DOMAIN thd /\ Len(thd') = Len(thd)
      /\ \A j \in DOMAIN thd : /\ thd'[j].pc = thd[j].pc /\ thd'[j].local = thd[j].local
                               /\ thd'[j].inactive = thd[j].inactive
                               /\ j # x => thd'[j] = thd[j]
  BY <1>1, FlagStep DEF CancelWipe
<1>4. QueueInv'
  BY <1>2, <1>3, QueueKept
<1>5. \A j \in DOMAIN thd : thd'[j].running = thd[j].running /\ (j = x => thd'[j].wipe)
  BY <1>1, ThreadsShape DEF CancelWipe, ThreadSet
<1>6. Cardinality(Kept') \in Nat /\ Cardinality(Kept') >= Cardinality(Kept) - 1
  <2>1. IsFiniteSet(Kept)
    BY <1>1, ThreadsShape
  <2>2. PICK S : S = Kept \ {x}
    OBVIOUS
  <2>3. IsFiniteSet(S) /\ Cardinality(S) >= Cardinality(Kept) - 1 /\ Cardinality(S) \in Nat
    <3> DEFINE K == Kept
    <3>1. IsFiniteSet(K) /\ Cardinality(K) \in Nat /\ S = K \ {x}
      BY <1>1, <2>1, <2>2
    <3> HIDE DEF K, x
    <3>2. IsFiniteSet(S) /\ Cardinality(S) = IF x \in K THEN Cardinality(K) - 1 ELSE Cardinality(K)
      BY <3>1, FS_RemoveElement
    <3>3. Cardinality(S) \in Nat /\ Cardinality(S) >= Cardinality(K) - 1
      BY <3>1, <3>2, FS_CardinalityType
    <3> QED
      BY <3>2, <3>3 DEF K
  <2>4. S \in SUBSET (Kept') /\ Kept' \in SUBSET Kept
    BY <1>1, <1>3, <1>5, <2>2, ThreadsShape DEF Kept, CancelWipe, ThreadSet
  <2>5. IsFiniteSet(Kept') /\ Cardinality(Kept') \in Nat
    BY <2>1, <2>4, FS_Subset, FS_CardinalityType
  <2>6. Cardinality(S) <= Cardinality(Kept')
    BY <2>4, <2>5, FS_Subset
  <2> QED
    BY <1>1, <2>3, <2>5, <2>6
<1>7. (\A j \in DOMAIN thd : ThreadInv(j))'
  BY <1>1, <1>2, <1>3, <1>5 DEF CancelWipe, PoolsInv, ThreadInv, InGap, PoolSet
<1>8. pool' \in PoolSet /\ crash' \in {"no", "division", "threads"}
  BY <1>1, PoolAssumption DEF CancelWipe, Shape, PoolSet, PoolThreadInv, Constructing
<1>9. Shape'
  BY <1>1, <1>2, <1>3, <1>8 DEF Shape
<1>10. PoolThreadInv'
  BY <1>1, <1>2, <1>3, <1>5, PoolAssumption DEF CancelWipe, Shape, PoolSet, PoolThreadInv, KeptInv, Shrinking, Constructed, Constructing
<1>11. KeptInv'
  <2>1. pool'.pc = "unlink" /\ pool'.at = pool.at /\ pool.at \in Nat
    BY <1>1 DEF CancelWipe, PoolSet
  <2>2. Cardinality(Kept) >= pool.at
    BY <1>1, <1>2 DEF KeptInv
  <2>3. Cardinality(Kept') >= pool.at - 1
    BY <1>1, <1>6, <2>1, <2>2
  <2> QED
    BY <2>1, <2>3 DEF KeptInv
<1> QED
  BY <1>4, <1>7, <1>9, <1>10, <1>11 DEF PoolsInv

\* cancelWhenComplete, third: no more tasks for the thread.
LEMMA CancelUnlinkKeeps ==
  ASSUME PoolsInv, crash = "no", CancelUnlink
  PROVE  PoolsInv'
<1>1. Shape /\ PoolThreadInv /\ KeptInv /\ Cardinality(Kept) \in Nat /\ Len(thd) \in Nat /\ pool \in PoolSet
  BY ThreadsShape DEF PoolsInv, Shape
<1>2. /\ UNCHANGED <<tasks, results, ran, added, cleared, active, timeout, early>>
      /\ pool.pc = "unlink"
  BY DEF CancelUnlink, poolVars
<1> DEFINE x == pool.at
<1>3. /\ thd' \in Seq(ThreadSet) /\ DOMAIN thd' = DOMAIN thd /\ Len(thd') = Len(thd)
      /\ \A j \in DOMAIN thd : /\ thd'[j].pc = thd[j].pc /\ thd'[j].local = thd[j].local
                               /\ thd'[j].inactive = thd[j].inactive
                               /\ j # x => thd'[j] = thd[j]
  BY <1>1, FlagStep DEF CancelUnlink
<1>4. QueueInv'
  BY <1>2, <1>3, QueueKept
<1>5. \A j \in DOMAIN thd : thd'[j].running = thd[j].running /\ thd'[j].wipe = thd[j].wipe
  BY <1>1, ThreadsShape DEF CancelUnlink, ThreadSet
<1>6. Kept' = Kept
  BY <1>3, <1>5 DEF Kept
<1>7. (\A j \in DOMAIN thd : ThreadInv(j))'
  BY <1>2, <1>3, <1>5, ThreadsKept
<1>8. pool' \in PoolSet /\ crash' \in {"no", "division", "threads"}
  <2>1. pool.at - 1 \in Nat
    BY <1>1, <1>2 DEF PoolSet, PoolThreadInv
  <2>2. pool' = [pool EXCEPT !.pc = "cancel", !.at = pool.at - 1] /\ crash' = crash
    BY DEF CancelUnlink
  <2> QED
    BY <1>1, <2>1, <2>2 DEF PoolSet, Shape
<1>9. Shape'
  BY <1>1, <1>2, <1>3, <1>8 DEF Shape
<1>10. PoolThreadInv'
  BY <1>1, <1>2, <1>3, <1>5, PoolAssumption DEF CancelUnlink, Shape, PoolSet, PoolThreadInv, KeptInv, Shrinking, Constructed, Constructing
<1>11. KeptInv'
  BY <1>1, <1>2, <1>3, <1>6, PoolAssumption DEF CancelUnlink, Shape, PoolSet, PoolThreadInv, KeptInv, Shrinking, Constructed, Constructing
<1> QED
  BY <1>4, <1>7, <1>9, <1>10, <1>11 DEF PoolsInv

\* The constructor makes a thread.
LEMMA ConstructKeeps ==
  ASSUME PoolsInv, crash = "no", Construct
  PROVE  PoolsInv'
<1>1. Shape /\ PoolThreadInv /\ Cardinality(Kept) \in Nat /\ Len(thd) \in Nat /\ pool \in PoolSet /\ DOMAIN thd = 1..Len(thd)
  BY ThreadsShape DEF PoolsInv, Shape
<1>2. /\ UNCHANGED <<tasks, results, ran, added, cleared, active, timeout, early, crash>>
      /\ pool.pc = "construct" /\ Len(thd) < HardwareNum
  BY DEF Construct, poolVars
<1>3. thd' = Append(thd, NewThread) /\ pool' = [pool EXCEPT !.pc = "linkFirst", !.at = Len(thd) + 1]
  <2>1. ~(Len(thd) + 1 <= Len(thd))
    BY <1>1
  <2> QED
    BY <2>1 DEF Construct, Make
<1>4. /\ thd' \in Seq(ThreadSet) /\ Len(thd') = Len(thd) + 1 /\ DOMAIN thd' = 1..(Len(thd) + 1)
      /\ \A j \in DOMAIN thd : thd'[j] = thd[j]
      /\ thd'[Len(thd) + 1] = NewThread
  BY <1>1, <1>3, NewThreadStep
<1>5. \A j \in DOMAIN thd' : j \in DOMAIN thd \/ thd'[j] = NewThread
  BY <1>1, <1>4
<1>6. NewThread.local = <<>> /\ ~NewThread.wipe
  BY DEF NewThread
<1>7. QueueInv' /\ (\A j \in DOMAIN thd : ThreadInv(j))'
  BY <1>1, <1>2, <1>4, <1>5, <1>6, QueueKept, ThreadsKept
<1>8. pool' \in PoolSet /\ pool'.pc = "linkFirst" /\ pool'.at = Len(thd) + 1
  <2>1. Len(thd) + 1 \in Nat
    BY <1>1
  <2> QED
    BY <1>1, <1>3, <2>1 DEF PoolSet
<1>9. Shape'
  BY <1>1, <1>2, <1>4, <1>8 DEF Shape
<1>10. PoolThreadInv'
  BY <1>1, <1>2, <1>4, <1>5, <1>6, <1>8, PoolAssumption DEF PoolThreadInv, Constructed, Shrinking
<1>11. KeptInv'
  BY <1>8 DEF KeptInv
<1> QED
  BY <1>7, <1>9, <1>10, <1>11 DEF PoolsInv

\* expandThreads adds a thread.
LEMMA PushThreadKeeps ==
  ASSUME PoolsInv, crash = "no", PushThread
  PROVE  PoolsInv'
<1>1. Shape /\ PoolThreadInv /\ KeptInv /\ Cardinality(Kept) \in Nat /\ Len(thd) \in Nat /\ pool \in PoolSet /\ DOMAIN thd = 1..Len(thd)
  BY ThreadsShape DEF PoolsInv, Shape
<1>2. /\ UNCHANGED <<tasks, results, ran, added, cleared, active, timeout, early, crash>>
      /\ pool.pc = "fill" /\ pool.left > 0
  BY DEF PushThread, poolVars
<1>3. thd' = Append(thd, NewThread) /\ pool' = [pool EXCEPT !.pc = "linkNew"]
  BY DEF PushThread
<1>4. /\ thd' \in Seq(ThreadSet) /\ Len(thd') = Len(thd) + 1 /\ DOMAIN thd' = 1..(Len(thd) + 1)
      /\ \A j \in DOMAIN thd : thd'[j] = thd[j]
      /\ thd'[Len(thd) + 1] = NewThread
      /\ Cardinality(Kept') = Cardinality(Kept) + 1
  BY <1>1, <1>3, NewThreadStep
<1>5. \A j \in DOMAIN thd' : j \in DOMAIN thd \/ thd'[j] = NewThread
  BY <1>1, <1>4
<1>6. NewThread.local = <<>>
  BY DEF NewThread
<1>7. QueueInv' /\ (\A j \in DOMAIN thd : ThreadInv(j))'
  BY <1>1, <1>2, <1>4, <1>5, <1>6, QueueKept, ThreadsKept
<1>8. /\ pool' \in PoolSet /\ pool'.pc = "linkNew" /\ pool'.at = pool.at
      /\ pool'.left = pool.left /\ pool'.grown = pool.grown
  BY <1>1, <1>3 DEF PoolSet
<1>9. Shape'
  BY <1>1, <1>2, <1>4, <1>8 DEF Shape
<1>10. PoolThreadInv'
  BY <1>1, <1>2, <1>4, <1>8 DEF PoolThreadInv, Constructed, Shrinking
<1>11. KeptInv'
  <2>1. Cardinality(Kept) >= active + pool.grown /\ active \in Int /\ pool.grown \in Int
    BY <1>1, <1>2, PoolAssumption DEF KeptInv, PoolSet, Shape
  <2>2. Cardinality(Kept') >= active' + pool'.grown + 1
    BY <1>1, <1>2, <1>4, <1>8, <2>1
  <2> QED
    BY <1>8, <2>2 DEF KeptInv
<1> QED
  BY <1>7, <1>9, <1>10, <1>11 DEF PoolsInv

\* The places that expandThreads looks at have a thread.
LEMMA HolePlace ==
  ASSUME PoolsInv, pool.pc = "fill", pool.at <= active
  PROVE  pool.at \in DOMAIN thd
<1>1. /\ pool.grown \in Nat /\ active \in Nat /\ pool.at \in Nat /\ Cardinality(Kept) >= active + pool.grown
      /\ Cardinality(Kept) \in Nat /\ Cardinality(Kept) <= Len(thd) /\ Len(thd) \in Nat /\ DOMAIN thd = 1..Len(thd)
  BY ThreadsShape, PoolAssumption DEF PoolsInv, PoolSet, KeptInv, Shape
<1>2. pool.at > HardwareNum /\ HardwareNum \in Nat
  BY PoolAssumption DEF PoolsInv, PoolThreadInv
<1> QED
  BY <1>1, <1>2

\* expandThreads replaces a thread that has ended: its tasks, if it ended in the
\* gap, are destroyed, and it counts as kept again.
LEMMA FillHoleKeeps ==
  ASSUME PoolsInv, crash = "no", FillHole
  PROVE  PoolsInv'
<1>1. Shape /\ PoolThreadInv /\ KeptInv /\ Cardinality(Kept) \in Nat /\ Len(thd) \in Nat /\ pool \in PoolSet /\ DOMAIN thd = 1..Len(thd)
      /\ Cardinality(Kept) <= Len(thd) /\ IsFiniteSet(Kept)
  BY ThreadsShape DEF PoolsInv, Shape
<1>2. PICK x \in Nat : x = pool.at
  BY <1>1 DEF PoolSet
<1>3. /\ UNCHANGED <<tasks, results, ran, added, active, timeout, early, crash>>
      /\ pool.pc = "fill" /\ x <= active /\ thd[x].inactive
      /\ cleared' = cleared \cup ToSet(thd[x].local)
      /\ pool' = [pool EXCEPT !.pc = "linkHole", !.at = x]
      /\ thd' = IF x <= Len(thd) THEN [thd EXCEPT ![x] = NewThread] ELSE Append(thd, NewThread)
  BY <1>2 DEF FillHole, poolVars, Make
<1>4. x \in DOMAIN thd
  BY <1>2, <1>3, HolePlace
<1>5. /\ thd' = [thd EXCEPT ![x] = NewThread] /\ NewThread \in ThreadSet
      /\ thd \in [1..Len(thd) -> ThreadSet] /\ thd[x] \in ThreadSet
  BY <1>1, <1>3, <1>4, ThreadsShape, SmallQueues DEF NewThread, ThreadSet
<1>6. /\ thd' \in [1..Len(thd) -> ThreadSet]
      /\ thd'[x] = NewThread /\ \A j \in DOMAIN thd : j # x => thd'[j] = thd[j]
  BY <1>1, <1>4, <1>5
<1>7. thd' \in Seq(ThreadSet) /\ DOMAIN thd' = DOMAIN thd /\ Len(thd') = Len(thd)
  BY <1>1, <1>6, FunctionIsSeq
<1>8. (\A j \in DOMAIN thd : ThreadInv(j))'
  BY <1>3, <1>6, <1>7 DEF PoolsInv, ThreadInv, InGap, NewThread
<1>9. thd[x].wipe
  BY <1>3, <1>4 DEF PoolsInv, ThreadInv, InGap
<1>10. Cardinality(Kept') = Cardinality(Kept) + 1
  <2>1. PICK K : K = Kept
    OBVIOUS
  <2>2. Kept' = K \cup {x} /\ x \notin K /\ IsFiniteSet(K)
    BY <1>1, <1>4, <1>6, <1>7, <1>9, <2>1 DEF Kept, NewThread
  <2>3. Cardinality(K \cup {x}) = Cardinality(K) + 1
    BY <2>2, FS_AddElement
  <2> QED
    BY <2>1, <2>2, <2>3
<1>11. /\ pool' \in PoolSet /\ pool'.pc = "linkHole" /\ pool'.at = x
       /\ pool'.left = pool.left /\ pool'.grown = pool.grown
  BY <1>1, <1>3 DEF PoolSet
<1>12. thd[x].local \in Seq(Tasks)
  BY <1>5 DEF ThreadSet
<1>13. \A t : t \in ToSet(thd[x].local) <=> Contains(thd[x].local, t)
  BY <1>12, SetOfQueue
<1>14. Shape'
  <2>1. ToSet(thd[x].local) \subseteq Tasks
    BY <1>12, <1>13, ElementOfSeq DEF Contains
  <2> QED
    BY <1>1, <1>3, <1>7, <1>11, <2>1 DEF Shape
<1>15. PoolThreadInv'
  BY <1>1, <1>2, <1>3, <1>7, <1>11 DEF PoolThreadInv, Constructed, Shrinking
<1>16. KeptInv'
  <2>1. Cardinality(Kept) >= active + pool.grown /\ active \in Int /\ pool.grown \in Int
    BY <1>1, <1>3, PoolAssumption DEF KeptInv, PoolSet, Shape
  <2>2. Cardinality(Kept') >= active' + pool'.grown + 1
    BY <1>1, <1>3, <1>10, <1>11, <2>1
  <2> QED
    BY <1>11, <2>2 DEF KeptInv
<1>17. QueueInv'
  <2>1. Distinct(thd'[x].local) /\ \A t : ~Contains(thd'[x].local, t)
    BY <1>6, SmallQueues DEF NewThread
  <2>2. \A j \in DOMAIN thd : Distinct(thd'[j].local)
    BY <1>6, <2>1 DEF PoolsInv, QueueInv
  <2>3. ASSUME NEW t \in Tasks PROVE TaskInv(t)'
    <3>1. TaskInv(t)
      BY DEF PoolsInv, QueueInv
    <3>2. CASE Contains(thd[x].local, t)
      <4>1. /\ ran[t] = 0 /\ ~Contains(tasks, t) /\ t \in 1..added
            /\ \A j \in DOMAIN thd : j # x => ~Contains(thd[j].local, t)
        BY <1>4, <3>1, <3>2 DEF TaskInv, Held
      <4>2. t \in cleared' /\ \A j \in DOMAIN thd : ~Contains(thd'[j].local, t)
        BY <1>3, <1>6, <1>13, <2>1, <3>2, <4>1
      <4> QED
        BY <1>3, <1>7, <4>1, <4>2 DEF TaskInv, Held
    <3>3. CASE ~Contains(thd[x].local, t)
      <4>1. (t \in cleared' <=> t \in cleared) /\ \A j \in DOMAIN thd : Contains(thd'[j].local, t) <=> Contains(thd[j].local, t)
        BY <1>3, <1>6, <1>13, <2>1, <3>3
      <4> QED
        BY <1>3, <1>7, <3>1, <4>1 DEF TaskInv, Held
    <3> QED
      BY <3>2, <3>3
  <2> QED
    BY <1>3, <1>7, <2>2, <2>3 DEF PoolsInv, QueueInv
<1> QED
  BY <1>8, <1>14, <1>15, <1>16, <1>17 DEF PoolsInv

-----------------------------------------------------------------------------
(* All steps *)

\* A task is added to the pool's queue.
LEMMA AddTaskKeeps ==
  ASSUME PoolsInv, AddTask
  PROVE  PoolsInv'
<1>1. /\ UNCHANGED <<results, thd, active, timeout, pool, ran, cleared, early, crash>>
      /\ added < Len(Ratios) /\ added' = added + 1 /\ tasks' = Append(tasks, added + 1)
  BY DEF AddTask
<1>2. /\ Len(Ratios) \in Nat /\ Tasks = 1..Len(Ratios) /\ added \in 0..Len(Ratios)
      /\ tasks \in Seq(Tasks) /\ Distinct(tasks)
  BY PoolAssumption, LenProperties DEF PoolsInv, Shape, QueueInv, Tasks
<1>3. PICK x \in Tasks : x = added + 1
  BY <1>1, <1>2
<1>4. x \notin 1..added /\ \A t \in Tasks : t \in 1..added' <=> t \in 1..added \/ t = x
  BY <1>1, <1>2, <1>3
<1>5. ~Contains(tasks, x) /\ ~Held(x) /\ ran[x] = 0 /\ x \notin cleared
  BY <1>4 DEF PoolsInv, QueueInv, TaskInv
<1>6. /\ tasks' \in Seq(Tasks) /\ Distinct(tasks')
      /\ \A t : Contains(tasks', t) <=> Contains(tasks, t) \/ t = x
  BY <1>1, <1>2, <1>3, <1>5, AppendQueue
<1>7. ASSUME NEW t \in Tasks PROVE TaskInv(t)'
  <2>1. TaskInv(t) /\ (Held(t)' <=> Held(t))
    BY <1>1 DEF PoolsInv, QueueInv, Held
  <2>2. CASE t = x
    BY <1>1, <1>3, <1>4, <1>5, <1>6, <2>1, <2>2 DEF TaskInv
  <2>3. CASE t # x
    BY <1>1, <1>4, <1>6, <2>1, <2>3 DEF TaskInv
  <2> QED
    BY <2>2, <2>3
<1>8. QueueInv'
  BY <1>1, <1>6, <1>7 DEF PoolsInv, QueueInv
<1>9. Shape'
  <2>1. added' \in 0..Len(Ratios)
    BY <1>1, <1>2
  <2> QED
    BY <1>1, <1>6, <2>1 DEF PoolsInv, Shape
<1>10. (\A j \in DOMAIN thd : ThreadInv(j))' /\ PoolThreadInv' /\ KeptInv'
  BY <1>1 DEF PoolsInv, ThreadInv, InGap, PoolThreadInv, Constructed, Shrinking, KeptInv, Kept
<1> QED
  BY <1>8, <1>9, <1>10 DEF PoolsInv

\* Nothing that the invariant is about changes when the timer fires.
LEMMA TimerKeeps ==
  ASSUME PoolsInv, timeout' \in BOOLEAN, early' \in BOOLEAN,
         UNCHANGED <<tasks, results, thd, active, pool, added, ran, cleared, crash>>
  PROVE  PoolsInv'
<1>1. Shape'
  BY DEF PoolsInv, Shape
<1>2. (\A j \in DOMAIN thd : ThreadInv(j))'
  BY DEF PoolsInv, ThreadInv, InGap
<1>3. PoolThreadInv' /\ KeptInv'
  BY DEF PoolsInv, PoolThreadInv, Constructed, Shrinking, KeptInv, Kept
<1>4. QueueInv'
  BY DEF PoolsInv, QueueInv, TaskInv, Held
<1> QED
  BY <1>1, <1>2, <1>3, <1>4 DEF PoolsInv

\* Every step keeps the invariant.
LEMMA PoolsStep ==
  ASSUME PoolsInv, [Next]_vars
  PROVE  PoolsInv'
<1>1. ASSUME NEW i \in DOMAIN thd, Work(i) PROVE PoolsInv'
  <2>1. ThreadStep(i)
    BY <1>1, WorkStep
  <2> QED
    BY <2>1, ThreadStepShape, ThreadStepPool, ThreadStepQueue DEF PoolsInv
<1>2. CASE PoolStep
  BY <1>2, ConstructKeeps, LinkFirstKeeps, ReadTimeoutKeeps, PopResultKeeps, DivideKeeps, AdjustKeeps,
     FillHoleKeeps, LinkHoleKeeps, SkipThreadKeeps, PushThreadKeeps, LinkNewKeeps, ExpandedKeeps,
     CancelRunningKeeps, CancelWipeKeeps, CancelUnlinkKeeps, ShrunkKeeps, ResetKeeps DEF PoolStep
<1>3. CASE TimerFires
  <2>1. timeout' \in BOOLEAN /\ early' \in BOOLEAN /\ UNCHANGED <<tasks, results, thd, active, pool, added, ran, cleared, crash>>
    BY <1>3 DEF TimerFires
  <2> QED
    BY <2>1, TimerKeeps
<1>4. CASE UNCHANGED vars
  <2>1. timeout' \in BOOLEAN /\ early' \in BOOLEAN /\ UNCHANGED <<tasks, results, thd, active, pool, added, ran, cleared, crash>>
    BY <1>4 DEF vars, PoolsInv, Shape
  <2> QED
    BY <2>1, TimerKeeps
<1> QED
  BY <1>1, <1>2, <1>3, <1>4, AddTaskKeeps DEF Next

\* The constructor begins with no threads and no tasks.
LEMMA PoolsInit ==
  ASSUME Init
  PROVE  PoolsInv
<1>1. Tasks = 1..Len(Ratios) /\ Len(Ratios) \in Nat
  BY PoolAssumption, LenProperties DEF Tasks
<1>2. <<>> \in Seq(Tasks) /\ <<>> \in Seq(Nat) /\ <<>> \in Seq(ThreadSet) /\ DOMAIN <<>> = {} /\ Len(<<>>) = 0
  BY SmallQueues
<1>3. Shape
  <2>1. Constructing \in PoolSet
    BY DEF Constructing, PoolSet
  <2>2. active \in HardwareNum..MaxNum /\ added \in 0..Len(Ratios) /\ ran \in [Tasks -> Nat]
    BY <1>1, PoolAssumption DEF Init
  <2> QED
    BY <1>2, <2>1, <2>2 DEF Init, Shape
<1>4. QueueInv
  BY <1>1, <1>2, SmallQueues DEF Init, QueueInv, TaskInv, Held
<1>5. PoolThreadInv /\ KeptInv /\ \A j \in DOMAIN thd : ThreadInv(j)
  <2>1. thd = <<>> /\ pool.pc = "construct" /\ active = HardwareNum /\ DOMAIN thd = {} /\ Len(thd) = 0
    BY <1>2 DEF Init, Constructing
  <2> QED
    BY <2>1, PoolAssumption DEF PoolThreadInv, KeptInv, Shrinking, Constructed
<1> QED
  BY <1>3, <1>4, <1>5 DEF PoolsInv

\* A task in exactly one of four places is counted once.
LEMMA PlacesCount ==
  ASSUME PoolsInv, NEW t \in 1..added
  PROVE  OnePlace(t)
<1> DEFINE holders == {i \in DOMAIN thd : Contains(thd[i].local, t)}
<1>1. t \in Tasks
  BY PoolAssumption, LenProperties DEF PoolsInv, Shape, Tasks
<1>2. TaskInv(t) /\ tasks \in Seq(Tasks) /\ Distinct(tasks)
  BY <1>1 DEF PoolsInv, QueueInv, Shape
<1>3. Count(tasks, t) = IF Contains(tasks, t) THEN 1 ELSE 0
  BY <1>2, CountOfQueue
<1>4. Cardinality(holders) = IF Held(t) THEN 1 ELSE 0
  <2>1. CASE Held(t)
    <3>1. PICK i \in DOMAIN thd : Contains(thd[i].local, t)
      BY <2>1 DEF Held
    <3>2. holders = {i}
      BY <1>2, <3>1 DEF TaskInv
    <3> QED
      BY <2>1, <3>2, FS_Singleton
  <2>2. CASE ~Held(t)
    <3>1. holders = {}
      BY <2>2 DEF Held
    <3> QED
      BY <2>2, <3>1, FS_EmptySet
  <2> QED
    BY <2>1, <2>2
<1>5. Cardinality(cleared \cap {t}) = IF t \in cleared THEN 1 ELSE 0
  <2>1. CASE t \in cleared
    <3>1. cleared \cap {t} = {t}
      BY <2>1
    <3> QED
      BY <2>1, <3>1, FS_Singleton
  <2>2. CASE t \notin cleared
    <3>1. cleared \cap {t} = {}
      BY <2>2
    <3> QED
      BY <2>2, <3>1, FS_EmptySet
  <2> QED
    BY <2>1, <2>2
<1>6. \A i \in holders : Count(thd[i].local, t) = 1
  <2> SUFFICES ASSUME NEW i \in holders PROVE Count(thd[i].local, t) = 1
    OBVIOUS
  <2>1. thd[i].local \in Seq(Tasks) /\ Distinct(thd[i].local) /\ Contains(thd[i].local, t)
    BY ThreadsShape DEF PoolsInv, QueueInv, ThreadSet
  <2> QED
    BY <2>1, CountOfQueue
<1>7. Count(tasks, t) + Cardinality(holders) + ran[t] + Cardinality(cleared \cap {t}) = 1
  BY <1>2, <1>3, <1>4, <1>5 DEF TaskInv
<1> QED
  BY <1>6, <1>7 DEF OnePlace

\* The threads that are kept serve or ended of themselves, but for the one that
\* shrinkThreads has told to stop and not yet to finish its tasks.
LEMMA ServingCount ==
  ASSUME PoolsInv
  PROVE  /\ Cardinality(Serving) + Cardinality(Quick) \in Nat
         /\ pool.pc # "wipe" => Cardinality(Serving) + Cardinality(Quick) >= Cardinality(Kept)
         /\ Cardinality(Serving) + Cardinality(Quick) >= Cardinality(Kept) - 1
<1> DEFINE S == Serving
           Q == Quick
           K == Kept
           x == pool.at
<1>1. IsFiniteSet(K) /\ Cardinality(K) \in Nat
  BY ThreadsShape DEF PoolsInv
<1>2. S \in SUBSET K /\ Q \in SUBSET K /\ S \cap Q = {}
  BY DEF Serving, Quick, Kept
<1>3. K \ {x} \in SUBSET (S \cup Q) /\ (pool.pc # "wipe" => K \in SUBSET (S \cup Q))
  BY DEF PoolsInv, ThreadInv, InGap, Serving, Quick, Kept
<1> HIDE DEF S, Q, K, x
<1>4. IsFiniteSet(S) /\ IsFiniteSet(Q) /\ Cardinality(S) \in Nat /\ Cardinality(Q) \in Nat
  BY <1>1, <1>2, FS_Subset, FS_CardinalityType
<1>5. IsFiniteSet(S \cup Q) /\ Cardinality(S \cup Q) = Cardinality(S) + Cardinality(Q)
  BY <1>2, <1>4, FS_Union, FS_EmptySet
<1>6. pool.pc # "wipe" => Cardinality(S \cup Q) >= Cardinality(K)
  BY <1>1, <1>3, <1>5, FS_Subset
<1>7. Cardinality(S \cup Q) >= Cardinality(K) - 1
  <2>1. PICK R : R = K \ {x}
    OBVIOUS
  <2>2. IsFiniteSet(R) /\ Cardinality(R) = IF x \in K THEN Cardinality(K) - 1 ELSE Cardinality(K)
    BY <1>1, <2>1, FS_RemoveElement
  <2>3. Cardinality(R) \in Nat /\ Cardinality(R) <= Cardinality(S \cup Q)
    BY <1>3, <1>5, <2>1, <2>2, FS_Subset, FS_CardinalityType
  <2> QED
    BY <1>1, <1>4, <1>5, <2>2, <2>3
<1> QED
  BY <1>4, <1>5, <1>6, <1>7 DEF S, Q, K

\* The inductive invariant contains what the pool promises.
LEMMA PoolsImply ==
  ASSUME PoolsInv
  PROVE  PoolInv
<1>1. TypeOK
  BY ThreadsShape DEF PoolsInv, Shape, TypeOK, ThreadSet
<1>2. \A t \in 1..added : OnePlace(t)
  BY PlacesCount
<1>3. Constructed => Cardinality(Serving) + Cardinality(Quick) >= IF Shrinking THEN pool.left ELSE active
  <2>1. Cardinality(Kept) \in Nat /\ pool.left \in Nat /\ pool.at \in Nat /\ pool.grown \in Nat /\ active \in Nat
    BY ThreadsShape, PoolAssumption DEF PoolsInv, Shape, PoolSet
  <2>2. pool.pc \in {"construct", "linkFirst", "top", "pop", "adjust", "fill", "linkHole", "linkNew", "cancel", "wipe", "unlink", "reset"}
    BY DEF PoolsInv, Shape, PoolSet
  <2>3. /\ pool.pc # "wipe" => Cardinality(Serving) + Cardinality(Quick) >= Cardinality(Kept)
        /\ Cardinality(Serving) + Cardinality(Quick) >= Cardinality(Kept) - 1
    BY ServingCount
  <2>4. Cardinality(Serving) + Cardinality(Quick) \in Nat
    BY ServingCount
  <2>5. CASE pool.pc = "wipe"
    BY <2>1, <2>3, <2>4, <2>5 DEF PoolsInv, PoolThreadInv, KeptInv, Shrinking, Constructed
  <2>6. CASE pool.pc # "wipe"
    BY <2>1, <2>2, <2>3, <2>4, <2>6 DEF PoolsInv, PoolThreadInv, KeptInv, Shrinking, Constructed
  <2> QED
    BY <2>5, <2>6
<1> QED
  BY <1>1, <1>2, <1>3 DEF PoolInv

\* The invariant holds of every behaviour.
LEMMA PoolsStay == Spec => []PoolsInv
<1>1. Init => PoolsInv
  BY PoolsInit
<1>2. PoolsInv /\ [Next]_vars => PoolsInv'
  BY PoolsStep
<1> QED
  BY <1>1, <1>2, PTL DEF Spec

\* For any number of tasks, processors and adjustments: a task is in the pool's
\* queue, in one thread's, has run once, or went with a replaced thread, and
\* mActiveNum promises no more threads than serve, but for those that ended
\* before they were linked (Threadpool.h, RThread.h).
THEOREM TasksInOnePlace == Spec => []PoolInv
<1>1. PoolsInv => PoolInv
  BY PoolsImply
<1> QED
  BY <1>1, PoolsStay, PTL

\* A thread is linked right after it is made, and unlinked only after mWipe.
LEMMA LinksStay ==
  ASSUME PoolsInv, LinkInv, [Next]_vars
  PROVE  LinkInv'
<1>1. Shape /\ DOMAIN thd = 1..Len(thd) /\ Len(thd) \in Nat /\ thd \in [1..Len(thd) -> ThreadSet]
      /\ pool \in PoolSet /\ \A j \in DOMAIN thd : thd[j] \in ThreadSet
  BY ThreadsShape DEF PoolsInv, Shape
<1>2. ASSUME NEW k \in DOMAIN thd, Work(k) PROVE LinkInv'
  <2>1. ThreadStep(k) /\ UNCHANGED pool
    BY <1>2, WorkStep DEF ThreadStep, workVars
  <2>2. DOMAIN thd' = DOMAIN thd /\ Len(thd') = Len(thd)
    BY <2>1, ThreadStepShape
  <2>3. \A j \in DOMAIN thd : thd'[j].linked = thd[j].linked /\ thd'[j].wipe = thd[j].wipe
    BY <2>1 DEF ThreadStep
  <2> QED
    BY <2>1, <2>2, <2>3 DEF LinkInv, Linking
<1>3. CASE Construct \/ PushThread
  <2>1. CASE thd' = Append(thd, NewThread)
    <3>1. /\ Len(thd') = Len(thd) + 1 /\ DOMAIN thd' = 1..(Len(thd) + 1)
          /\ \A j \in DOMAIN thd : thd'[j] = thd[j]
      BY <1>1, <2>1, NewThreadStep
    <3>2. \/ pool.pc = "construct" /\ pool'.pc = "linkFirst" /\ pool'.at = Len(thd) + 1
          \/ pool.pc = "fill" /\ pool'.pc = "linkNew"
      BY <1>1, <1>3 DEF Construct, PushThread, Make, PoolSet
    <3>3. \A j \in DOMAIN thd : thd[j].linked \/ thd[j].wipe
      BY <3>2 DEF LinkInv, Linking
    <3> QED
      BY <1>1, <3>1, <3>2, <3>3 DEF LinkInv, Linking
  <2> QED
    BY <1>1, <1>3, <2>1 DEF Construct, PushThread, Make
<1>4. CASE FillHole
  <2>1. DOMAIN thd' = DOMAIN thd /\ \A j \in DOMAIN thd : j # pool.at => thd'[j] = thd[j]
    BY <1>1, <1>4, HolePlace DEF FillHole, Make
  <2>2. pool.pc = "fill" /\ pool'.pc = "linkHole" /\ pool'.at = pool.at
    BY <1>1, <1>4 DEF FillHole, Make, PoolSet
  <2> QED
    BY <2>1, <2>2 DEF LinkInv, Linking
<1>5. CASE LinkFirst \/ LinkHole \/ LinkNew
  <2> DEFINE x == IF pool.pc = "linkNew" THEN Len(thd) ELSE pool.at
  <2>1. thd' = [thd EXCEPT ![x].linked = TRUE]
    BY <1>5 DEF LinkFirst, LinkHole, LinkNew
  <2>2. DOMAIN thd' = DOMAIN thd /\ \A j \in DOMAIN thd : j # x => thd'[j] = thd[j]
    BY <1>1, <2>1, FlagStep
  <2>3. x \in DOMAIN thd => thd'[x].linked
    BY <1>1, <2>1 DEF ThreadSet
  <2>4. \A j \in DOMAIN thd : j # x => thd[j].linked \/ thd[j].wipe
    BY <1>5 DEF LinkInv, Linking, LinkFirst, LinkHole, LinkNew
  <2>5. pool'.pc # "unlink"
    BY <1>1, <1>5 DEF LinkFirst, LinkHole, LinkNew, PoolSet, Constructing
  <2> QED
    BY <2>2, <2>3, <2>4, <2>5 DEF LinkInv
<1>6. CASE CancelRunning \/ CancelWipe \/ CancelUnlink
  <2>1. \A j \in DOMAIN thd : thd[j].linked \/ thd[j].wipe
    BY <1>6 DEF LinkInv, Linking, CancelRunning, CancelWipe, CancelUnlink
  <2>2. CASE CancelRunning
    <3>1. DOMAIN thd' = DOMAIN thd /\ \A j \in DOMAIN thd : thd'[j].linked = thd[j].linked /\ thd'[j].wipe = thd[j].wipe
      BY <1>1, <2>2 DEF CancelRunning, ThreadSet
    <3>2. pool'.pc = "wipe"
      BY <1>1, <2>2 DEF CancelRunning, PoolSet
    <3> QED
      BY <2>1, <3>1, <3>2 DEF LinkInv
  <2>3. CASE CancelWipe
    <3>1. DOMAIN thd' = DOMAIN thd /\ \A j \in DOMAIN thd : thd'[j].linked = thd[j].linked /\ (thd[j].wipe \/ j = pool.at => thd'[j].wipe)
      BY <1>1, <2>3 DEF CancelWipe, ThreadSet
    <3>2. pool'.at = pool.at
      BY <1>1, <2>3 DEF CancelWipe, PoolSet
    <3> QED
      BY <2>1, <3>1, <3>2 DEF LinkInv
  <2>4. CASE CancelUnlink
    <3>1. DOMAIN thd' = DOMAIN thd /\ \A j \in DOMAIN thd : thd'[j].wipe = thd[j].wipe /\ (j # pool.at => thd'[j].linked = thd[j].linked)
      BY <1>1, <2>4 DEF CancelUnlink, ThreadSet
    <3>2. pool.at \in DOMAIN thd => thd[pool.at].wipe
      BY <2>4 DEF LinkInv, CancelUnlink
    <3>3. pool'.pc = "cancel"
      BY <1>1, <2>4 DEF CancelUnlink, PoolSet
    <3> QED
      BY <2>1, <3>1, <3>2, <3>3 DEF LinkInv
  <2> QED
    BY <1>6, <2>2, <2>3, <2>4
<1>7. ASSUME thd' = thd, \/ pool' = pool
                         \/ pool.pc \notin {"linkFirst", "linkHole", "linkNew"} /\ pool'.pc # "unlink"
      PROVE  LinkInv'
  BY <1>7 DEF LinkInv, Linking
<1>8. CASE ReadTimeout \/ PopResult \/ Divide \/ Adjust \/ SkipThread \/ Expanded \/ Shrunk \/ Reset
  BY <1>1, <1>7, <1>8 DEF ReadTimeout, PopResult, Divide, Adjust, SkipThread, Expanded, Shrunk, Reset, PoolSet, Constructing
<1>9. CASE AddTask \/ TimerFires \/ UNCHANGED vars
  BY <1>7, <1>9 DEF AddTask, TimerFires, vars
<1> QED
  BY <1>2, <1>3, <1>4, <1>5, <1>6, <1>8, <1>9 DEF Next, PoolStep

\* A thread that ends was told to stop and has run its tasks, unless it ends
\* between mRunning = false and mWipe = true (RThread::cancelWhenComplete) or
\* before linkExternalTasks.
THEOREM CancelledFinish == Spec => FinishesLocalTasks
<1>1. PoolsInv /\ LinkInv /\ [Next]_vars
        => [\A i \in DOMAIN thd :
              thd[i].pc \notin {"gone", "done"} /\ thd'[i].pc \in {"gone", "done"}
                => \/ thd[i].wipe /\ thd[i].local = <<>>
                   \/ pool.pc = "wipe" /\ pool.at = i
                   \/ Linking(i) /\ thd[i].local = <<>>]_vars
  <2> SUFFICES ASSUME PoolsInv, LinkInv, Next, NEW i \in DOMAIN thd, Ends(i)
               PROVE  InGap(i) \/ (thd[i].local = <<>> /\ (thd[i].wipe \/ Linking(i)))
    BY DEF InGap, Ends
  <2>1. ASSUME NEW k \in DOMAIN thd, Work(k)
        PROVE  InGap(i) \/ (thd[i].local = <<>> /\ (thd[i].wipe \/ Linking(i)))
    <3>1. ThreadStep(k)
      BY <2>1, WorkStep
    <3> QED
      BY <3>1 DEF ThreadStep, Ends, LinkInv
  <2>2. CASE PoolStep
    <3>1. Shape /\ DOMAIN thd = 1..Len(thd) /\ Len(thd) \in Nat /\ \A j \in DOMAIN thd : thd[j] \in ThreadSet
      BY ThreadsShape DEF PoolsInv
    <3>2. thd' # thd
      BY DEF Ends
    <3>3. NewThread.pc = "new"
      BY DEF NewThread
    <3>4. ASSUME thd' = Append(thd, NewThread) PROVE FALSE
      BY <3>1, <3>4, NewThreadStep DEF Ends
    <3>5. ASSUME NEW x, thd' = [thd EXCEPT ![x] = NewThread] PROVE FALSE
      BY <3>1, <3>3, <3>5 DEF Ends
    <3>6. ASSUME NEW x, \/ thd' = [thd EXCEPT ![x].linked = TRUE]
                        \/ thd' = [thd EXCEPT ![x].linked = FALSE]
                        \/ thd' = [thd EXCEPT ![x].running = FALSE]
                        \/ thd' = [thd EXCEPT ![x].wipe = TRUE]
          PROVE  FALSE
      BY <3>1, <3>6, FlagStep DEF Ends
    <3>7. CASE Construct \/ FillHole \/ PushThread
      BY <3>4, <3>5, <3>7 DEF Construct, FillHole, PushThread, Make
    <3>8. CASE LinkFirst \/ LinkHole \/ LinkNew \/ CancelRunning \/ CancelWipe \/ CancelUnlink
      BY <3>6, <3>8 DEF LinkFirst, LinkHole, LinkNew, CancelRunning, CancelWipe, CancelUnlink
    <3>9. CASE ReadTimeout \/ PopResult \/ Divide \/ Adjust \/ SkipThread \/ Expanded \/ Shrunk \/ Reset
      BY <3>2, <3>9 DEF ReadTimeout, PopResult, Divide, Adjust, SkipThread, Expanded, Shrunk, Reset
    <3> QED
      BY <2>2, <3>7, <3>8, <3>9 DEF PoolStep
  <2>3. CASE AddTask \/ TimerFires
    BY <2>3 DEF AddTask, TimerFires, Ends
  <2> QED
    BY <2>1, <2>2, <2>3 DEF Next
<1>2. Init => LinkInv
  BY SmallQueues DEF Init, LinkInv
<1>3. PoolsInv /\ LinkInv /\ [Next]_vars => LinkInv'
  BY LinksStay
<1> QED
  BY <1>1, <1>2, <1>3, PoolsStay, PTL DEF Spec, FinishesLocalTasks

\* The pool divides by no results only if the timer fired between an adjustment
\* and the next read of its flag (Threadpool::getExpectationAndAdjust).
THEOREM DivisionOnlyInRace == Spec => []DivisionNeedsRace
<1>1. Init => RaceInv
  BY DEF Init, RaceInv, Constructed, Constructing
<1>2. PoolsInv /\ RaceInv /\ [Next]_vars => RaceInv'
  <2> SUFFICES ASSUME PoolsInv, RaceInv, [Next]_vars PROVE RaceInv'
    OBVIOUS
  <2>0. pool \in PoolSet /\ pool.n \in Nat
    BY DEF PoolsInv, Shape, PoolSet
  <2> USE DEF RaceInv
  <2>1. ASSUME NEW i \in DOMAIN thd, Work(i) PROVE RaceInv'
    <3>1. UNCHANGED workVars
      BY <2>1, WorkStep DEF ThreadStep
    <3> QED
      BY <3>1 DEF workVars, Constructed
  <2>2. ASSUME LinkFirst \/ ReadTimeout \/ PopResult \/ Reset PROVE RaceInv'
    <3>1. CASE LinkFirst
      <4>1. pool'.pc \in {"construct", "top"} /\ UNCHANGED <<timeout, early, crash>> /\ ~Constructed
        BY <2>0, <3>1 DEF LinkFirst, Constructing, Constructed, PoolSet, poolVars
      <4> QED
        BY <4>1
    <3>2. CASE ReadTimeout
      <4>1. /\ pool'.n = pool.n /\ pool.pc = "top" /\ UNCHANGED <<timeout, early, crash>>
            /\ pool'.pc = IF timeout THEN "adjust" ELSE "pop"
        BY <2>0, <3>2 DEF ReadTimeout, PoolSet, poolVars
      <4> QED
        BY <4>1 DEF Constructed
    <3>3. CASE PopResult
      <4>1. pool'.n = pool.n + 1 /\ pool'.pc = "top" /\ UNCHANGED <<timeout, early, crash>>
        BY <2>0, <3>3 DEF PopResult, PoolSet, poolVars
      <4>2. pool'.n # 0
        BY <2>0, <4>1
      <4> QED
        BY <4>1, <4>2 DEF Constructed
    <3>4. CASE Reset
      BY <3>4 DEF Reset, Constructing, Constructed, poolVars
    <3> QED
      BY <2>2, <3>1, <3>2, <3>3, <3>4
  <2>3. ASSUME Construct \/ FillHole PROVE RaceInv'
    <3>1. /\ pool'.pc \in {"linkFirst", "linkHole"} /\ UNCHANGED <<timeout, early, crash>>
          /\ pool'.pc = "linkFirst" => ~Constructed
      BY <2>0, <2>3 DEF Construct, FillHole, Make, Constructed, PoolSet, poolVars
    <3> QED
      BY <3>1 DEF Constructed
  <2>4. ASSUME Adjust PROVE RaceInv'
    <3>1. pool.n > 0 /\ UNCHANGED <<timeout, early, crash>> /\ pool.pc = "adjust"
      BY <2>4 DEF Adjust, poolVars
    <3>2. pool'.pc \in {"fill", "cancel", "reset"}
      BY <2>0, <2>4 DEF Adjust, PoolSet
    <3> QED
      BY <3>1, <3>2 DEF Constructed
  <2>5. ASSUME Divide \/ SkipThread \/ LinkHole \/ PushThread \/ LinkNew PROVE RaceInv'
    BY <2>0, <2>5 DEF Divide, SkipThread, LinkHole, PushThread, LinkNew, Constructed, PoolSet, poolVars
  <2>6. ASSUME Expanded \/ CancelRunning \/ CancelWipe \/ CancelUnlink \/ Shrunk PROVE RaceInv'
    BY <2>0, <2>6 DEF Expanded, CancelRunning, CancelWipe, CancelUnlink, Shrunk, Constructed, PoolSet, poolVars
  <2>7. ASSUME AddTask \/ TimerFires PROVE RaceInv'
    <3>1. CASE AddTask
      BY <3>1 DEF AddTask, Constructed
    <3>2. CASE TimerFires
      <4>1. UNCHANGED <<pool, crash>> /\ Constructed /\ (early => early') /\ (pool.pc = "top" /\ pool.n = 0 => early')
        BY <3>2 DEF TimerFires
      <4> QED
        BY <4>1 DEF Constructed
    <3> QED
      BY <2>7, <3>1, <3>2
  <2>8. ASSUME UNCHANGED vars PROVE RaceInv'
    BY <2>8 DEF vars, Constructed
  <2> QED
    BY <2>1, <2>2, <2>3, <2>4, <2>5, <2>6, <2>7, <2>8 DEF Next, PoolStep
<1>3. RaceInv => DivisionNeedsRace
  BY DEF RaceInv, DivisionNeedsRace
<1> QED
  BY <1>1, <1>2, <1>3, PoolsStay, PTL DEF Spec

-----------------------------------------------------------------------------
(* The time wheel: the inductive invariant *)

\* The slots of a wheel.
Slots(w) == IF w = "second" THEN SecSlots ELSE IF w = "minute" THEN MinSlots ELSE HourSlots

\* A node in a slot of its wheel.  A one-time node never gets another cycle
\* number, and a task of less than a minute is only in the second wheel.
NodeOK(n) ==
  /\ n \in Node /\ n.slot < Slots(n.in)
  /\ Request[n.id].cyc = 1 => n.cyc = 1
  /\ Short(n.id) => n.in = "second"

\* Nodes in their slots, at most one of a task.
WheelOK(W) ==
  /\ \A n \in W : NodeOK(n)
  /\ \A n1, n2 \in W : n1.id = n2.id => n1 = n2

\* The tasks with a node.
TasksOf(W) == {n.id : n \in W}

\* A task still in the entry queue has no node and has not run; a removed one
\* is not saved.
EntryInv(id) ==
  /\ id \in queue.add => id \notin queue.remove /\ id \notin TasksOf(wheel) /\ fired[id] = 0
  /\ id \in queue.remove => registered[id] = 0

\* A one-time task has a node or has run.
OnceInv(id) ==
  Added(id) /\ Request[id].cyc = 1 =>
    IF id \in TasksOf(wheel) THEN fired[id] = 0 ELSE fired[id] = 1

\* The node of a short task and mRegisteredTasks agree on the cycles left.
CycleInv(id) ==
  Added(id) /\ Short(id) /\ Request[id].cyc > 1 /\ id \notin queue.remove =>
    /\ id \notin TasksOf(wheel) => fired[id] = Request[id].cyc
    /\ \A n \in wheel : n.id = id =>
         n.cyc >= 1 /\ registered[id] = n.cyc /\ fired[id] + n.cyc = Request[id].cyc

\* The node of a short task is visited when its delay is over: as many slots
\* ahead of the clock as seconds are left, one more if the task never ran.
DueInv(id) ==
  Short(id) => \A n \in wheel : n.id = id =>
    \E r \in 0..(SecSlots - 1) :
      /\ n.slot = (clock.s + r) % SecSlots
      /\ now + r + 1 = base[id] + Delay(id) + (IF fired[id] = 0 THEN 1 ELSE 0)

\* Every other variable has its shape.
WheelShape ==
  /\ clock \in [h : Nat, m : 0..(MinSlots - 1), s : 0..(SecSlots - 1)]
  /\ registered \in [Ids -> Nat \cup {-1}]
  /\ queue \in [add : SUBSET Ids, remove : SUBSET Ids]
  /\ now \in 0..MaxTicks
  /\ base \in [Ids -> 0..MaxTicks]
  /\ fired \in [Ids -> Nat]

\* What holds of one task.
TimerTaskInv(id) == EntryInv(id) /\ OnceInv(id) /\ CycleInv(id) /\ DueInv(id)

\* The inductive invariant.
WheelsInv == WheelShape /\ WheelOK(wheel) /\ \A id \in Ids : TimerTaskInv(id)

-----------------------------------------------------------------------------
(* Arithmetic of the clock *)

\* Quotient and remainder, as TimerTask and the wheels use them.
LEMMA Division ==
  ASSUME NEW x \in Nat, NEW k \in Nat \ {0}
  PROVE  x \div k \in Nat /\ x % k \in 0..(k - 1)
<1>1. x \div k >= 0
  OBVIOUS
<1>2. x \div k \in Int
  OBVIOUS
<1>3. x % k \in 0..(k - 1)
  OBVIOUS
<1> QED BY <1>1, <1>2, <1>3

\* A slot number is its own remainder.
LEMMA SmallMod ==
  ASSUME NEW x \in Nat, NEW k \in Nat \ {0}, x < k
  PROVE  x % k = x
  OBVIOUS

\* One turn of a wheel comes back to the same slot.
LEMMA WrapMod ==
  ASSUME NEW x \in Nat, NEW k \in Nat \ {0}, x < k
  PROVE  (x + k) % k = x
  OBVIOUS

\* A second later a slot is one slot nearer.
LEMMA NearerSlot ==
  ASSUME NEW k \in Nat \ {0}, NEW c \in 0..(k - 1), NEW r \in 1..(k - 1)
  PROVE  (((c + 1) % k) + (r - 1)) % k = (c + r) % k
<1>1. CASE c + 1 < k
  <2>1. (c + 1) % k = c + 1
    BY <1>1, SmallMod
  <2>2. (c + 1) + (r - 1) = c + r
    OBVIOUS
  <2> QED BY <2>1, <2>2
<1>2. CASE c + 1 = k
  <2>1. (c + 1) % k = 0
    <3>1. 0 \in Nat /\ 0 < k /\ 0 + k = c + 1
      BY <1>2
    <3> QED BY <3>1, WrapMod
  <2>2. r - 1 \in Nat /\ r - 1 < k /\ 0 + (r - 1) = r - 1 /\ (r - 1) + k = c + r
    BY <1>2
  <2>3. (r - 1) % k = r - 1
    BY <2>2, SmallMod
  <2>4. ((r - 1) + k) % k = r - 1
    BY <2>2, WrapMod
  <2> QED BY <2>1, <2>2, <2>3, <2>4
<1> QED BY <1>1, <1>2

\* Less than a turn ahead there is one slot that is visited now: this one.
LEMMA ThisSlot ==
  ASSUME NEW k \in Nat \ {0}, NEW c \in 0..(k - 1), NEW r \in 0..(k - 1)
  PROVE  (c + r) % k = c <=> r = 0
<1>1. CASE c + r < k
  BY <1>1, SmallMod
<1>2. CASE c + r >= k
  <2>1. c + r - k \in Nat /\ c + r - k < k /\ (c + r - k) + k = c + r
    BY <1>2
  <2>2. ((c + r - k) + k) % k = c + r - k
    BY <2>1, WrapMod
  <2> QED BY <1>2, <2>1, <2>2
<1> QED BY <1>1, <1>2

-----------------------------------------------------------------------------
(* What the code computes of a task *)

\* TimerTask's constructor carries: minutes and seconds are below their wheels' sizes.
LEMMA TaskType ==
  ASSUME NEW id \in Ids
  PROVE  /\ Task(id).h \in Nat /\ Task(id).m \in 0..(MinSlots - 1)
         /\ Task(id).s \in 0..(SecSlots - 1) /\ Delay(id) \in Nat
<1> DEFINE r == Request[id]
           mins == r.m + r.s \div SecSlots
<1>1. r.h \in Nat /\ r.m \in Nat /\ r.s \in Nat /\ SecSlots \in Nat \ {0} /\ MinSlots \in Nat \ {0}
  BY TimerAssumption
<1>2. r.s \div SecSlots \in Nat /\ r.s % SecSlots \in 0..(SecSlots - 1)
  BY <1>1, Division
<1>3. mins \in Nat
  BY <1>1, <1>2
<1>4. mins \div MinSlots \in Nat /\ mins % MinSlots \in 0..(MinSlots - 1)
  BY <1>1, <1>3, Division
<1>5. Task(id).h = r.h + mins \div MinSlots /\ Task(id).m = mins % MinSlots /\ Task(id).s = r.s % SecSlots
  BY DEF Task
<1>6. Task(id).h \in Nat /\ Task(id).m \in 0..(MinSlots - 1) /\ Task(id).s \in 0..(SecSlots - 1)
  BY <1>1, <1>2, <1>4, <1>5
<1>7. Delay(id) \in Nat
  <2>1. Task(id).h * MinSlots \in Nat
    BY <1>1, <1>6
  <2>2. Task(id).h * MinSlots + Task(id).m \in Nat
    BY <1>6, <2>1
  <2>3. (Task(id).h * MinSlots + Task(id).m) * SecSlots \in Nat
    BY <1>1, <2>2
  <2> QED BY <1>6, <2>3 DEF Delay
<1> QED BY <1>6, <1>7

\* A whole number of turns that is less than a turn is none.
LEMMA NoTurn ==
  ASSUME NEW q \in Nat, NEW k \in Nat \ {0}, NEW x \in Nat, q * k + x < k
  PROVE  q = 0
<1>1. SUFFICES ASSUME q >= 1 PROVE FALSE
  OBVIOUS
<1>2. q * k >= k
  BY <1>1
<1> QED BY <1>2

\* A task of less than a minute has seconds only.
LEMMA ShortTask ==
  ASSUME NEW id \in Ids, Short(id)
  PROVE  Task(id).h = 0 /\ Task(id).m = 0 /\ Delay(id) = Task(id).s
<1> DEFINE q == Task(id).h * MinSlots + Task(id).m
<1>1. /\ Task(id).h \in Nat /\ Task(id).m \in Nat /\ Task(id).s \in Nat
      /\ SecSlots \in Nat \ {0} /\ MinSlots \in Nat \ {0}
  BY TaskType, TimerAssumption
<1>2. Task(id).h * MinSlots \in Nat
  BY <1>1
<1>3. q \in Nat
  BY <1>1, <1>2
<1>4. q * SecSlots + Task(id).s < SecSlots
  BY DEF Short, Delay
<1>5. Delay(id) = q * SecSlots + Task(id).s
  BY DEF Delay
<1> HIDE DEF q
<1>6. q = 0
  BY <1>1, <1>3, <1>4, NoTurn
<1>7. Delay(id) = Task(id).s
  BY <1>1, <1>5, <1>6
<1>8. Task(id).h * MinSlots = 0 /\ Task(id).m = 0
  BY <1>1, <1>2, <1>6 DEF q
<1>9. Task(id).h = 0
  BY <1>1, <1>8
<1> QED BY <1>7, <1>8, <1>9

\* The states of the clock.
Clocks == [h : Nat, m : 0..(MinSlots - 1), s : 0..(SecSlots - 1)]

\* addTimerNodeFor makes at most one node, in a slot its wheel has, and one
\* whenever the delay is not zero.
LEMMA NodeForOK ==
  ASSUME NEW id \in Ids, NEW cyc \in Nat \cup {-1}, NEW c \in Clocks, Request[id].cyc = 1 => cyc = 1
  PROVE  /\ \A n \in NodeFor(id, cyc, c) : /\ NodeOK(n) /\ n.id = id /\ n.cyc = cyc
                                           /\ Short(id) => n.slot = (Task(id).s + c.s) % SecSlots
         /\ \A n1, n2 \in NodeFor(id, cyc, c) : n1 = n2
         /\ Delay(id) # 0 => NodeFor(id, cyc, c) # {}
<1> DEFINE t == Task(id)
           o == Offset(t, c)
           node(w, slot) == [id |-> id, in |-> w, slot |-> slot, min |-> o.m, sec |-> o.s,
                             round |-> o.h \div HourSlots, cyc |-> cyc]
<1>1. /\ t.h \in Nat /\ t.m \in 0..(MinSlots - 1) /\ t.s \in 0..(SecSlots - 1)
      /\ c.h \in Nat /\ c.m \in 0..(MinSlots - 1) /\ c.s \in 0..(SecSlots - 1)
      /\ SecSlots \in Nat \ {0} /\ MinSlots \in Nat \ {0} /\ HourSlots \in Nat \ {0}
  BY TaskType, TimerAssumption DEF Clocks
<1>2. o.m \in 0..(MinSlots - 1) /\ o.s \in 0..(SecSlots - 1) /\ o.h \div HourSlots \in Nat
  <2> DEFINE cm == (t.s + c.s) \div SecSlots
             ch == (t.m + c.m + cm) \div MinSlots
  <2>1. t.s + c.s \in Nat /\ t.m + c.m \in Nat
    BY <1>1
  <2>2. cm \in Nat /\ (t.s + c.s) % SecSlots \in 0..(SecSlots - 1)
    BY <1>1, <2>1, Division
  <2>3. t.m + c.m + cm \in Nat
    BY <2>1, <2>2
  <2>4. ch \in Nat /\ (t.m + c.m) % MinSlots \in 0..(MinSlots - 1)
    BY <1>1, <2>1, <2>3, Division
  <2>5. t.h + c.h + ch \in Nat
    BY <1>1, <2>4
  <2>6. (t.h + c.h + ch) \div HourSlots \in Nat
    BY <1>1, <2>5, Division
  <2>7. o.h = t.h + c.h + ch /\ o.m = (t.m + c.m) % MinSlots /\ o.s = (t.s + c.s) % SecSlots
    BY DEF Offset
  <2> QED BY <2>2, <2>4, <2>6, <2>7
<1>3. ASSUME NEW w \in {"second", "minute", "hour"}, NEW slot \in 0..(Slots(w) - 1), Short(id) => w = "second"
      PROVE  NodeOK(node(w, slot)) /\ node(w, slot).id = id /\ node(w, slot).cyc = cyc /\ node(w, slot).slot = slot
  <2> DEFINE n == node(w, slot)
  <2>1. n.id = id /\ n.in = w /\ n.slot = slot /\ n.cyc = cyc
    OBVIOUS
  <2>2. Slots(w) \in Nat
    BY <1>1 DEF Slots
  <2>3. slot \in Nat /\ slot < Slots(w)
    BY <2>2
  <2>4. n \in Node
    BY <1>2, <2>3 DEF Node
  <2> HIDE DEF n
  <2>5. NodeOK(n)
    BY <1>3, <2>1, <2>3, <2>4 DEF NodeOK
  <2> QED BY <2>1, <2>5 DEF n
<1>4. CASE Delay(id) = 0
  BY <1>4 DEF NodeFor
<1>5. CASE Delay(id) # 0 /\ t.h # 0
  <2>1. NodeFor(id, cyc, c) = {node("hour", (t.h + c.h - 1) % HourSlots)}
    BY <1>5 DEF NodeFor
  <2>2. t.h + c.h - 1 \in Nat
    BY <1>1, <1>5
  <2>3. (t.h + c.h - 1) % HourSlots \in 0..(Slots("hour") - 1)
    BY <1>1, <2>2, Division DEF Slots
  <2>4. ~Short(id)
    BY <1>5, ShortTask
  <2> HIDE DEF node
  <2> QED BY <1>3, <2>1, <2>3, <2>4
<1>6. CASE Delay(id) # 0 /\ t.h = 0 /\ t.m # 0
  <2>1. NodeFor(id, cyc, c) = {node("minute", (t.m + c.m - 1) % MinSlots)}
    BY <1>6 DEF NodeFor
  <2>2. t.m + c.m - 1 \in Nat
    BY <1>1, <1>6
  <2>3. (t.m + c.m - 1) % MinSlots \in 0..(Slots("minute") - 1)
    BY <1>1, <2>2, Division DEF Slots
  <2>4. ~Short(id)
    BY <1>6, ShortTask
  <2> HIDE DEF node
  <2> QED BY <1>3, <2>1, <2>3, <2>4
<1>7. CASE Delay(id) # 0 /\ t.h = 0 /\ t.m = 0
  <2>1. NodeFor(id, cyc, c) = {node("second", (t.s + c.s) % SecSlots)}
    BY <1>7 DEF NodeFor
  <2>2. t.s + c.s \in Nat
    BY <1>1, <1>7
  <2>3. (t.s + c.s) % SecSlots \in 0..(Slots("second") - 1)
    BY <1>1, <2>2, Division DEF Slots
  <2> HIDE DEF node
  <2> QED BY <1>3, <2>1, <2>3
<1> QED BY <1>4, <1>5, <1>6, <1>7

-----------------------------------------------------------------------------
(* The wheels that wrap *)

\* How nodes R of W run and the others are moved to V: nothing of the second
\* wheel is touched, and every other task keeps a node.
Passes(W, R, V) ==
  /\ \A n \in R : n \in W /\ n.in # "second"
  /\ TasksOf(V) = TasksOf(W) \ TasksOf(R)
  /\ \A n : Short(n.id) => (n \in V <=> n \in W)

\* What it takes: each remaining node is moved to one of the same task.
LEMMA MovedPass ==
  ASSUME NEW W, NEW R, NEW F, NEW V, WheelOK(W),
         \A n \in R : n \in W /\ n.in # "second",
         V = {F[n] : n \in W \ R},
         \A n \in W \ R : /\ NodeOK(F[n]) /\ F[n].id = n.id
                          /\ n.in = "second" => F[n] = n
  PROVE  WheelOK(V) /\ Passes(W, R, V)
<1>1. \A n \in V : NodeOK(n)
  OBVIOUS
<1>2. ASSUME NEW v1 \in V, NEW v2 \in V, v1.id = v2.id PROVE v1 = v2
  <2>1. PICK n1 \in W \ R : v1 = F[n1]
    OBVIOUS
  <2>2. PICK n2 \in W \ R : v2 = F[n2]
    OBVIOUS
  <2>3. n1.id = n2.id
    BY <1>2, <2>1, <2>2
  <2>4. n1 = n2
    BY <2>3 DEF WheelOK
  <2> QED BY <2>1, <2>2, <2>4
<1>3. ASSUME NEW id \in TasksOf(V) PROVE id \in TasksOf(W) \ TasksOf(R)
  <2>1. PICK v \in V : id = v.id
    BY DEF TasksOf
  <2>2. PICK n \in W \ R : v = F[n]
    OBVIOUS
  <2>3. id = n.id
    BY <2>1, <2>2
  <2>4. \A m \in R : m.id # id
    BY <2>2, <2>3 DEF WheelOK
  <2> QED BY <2>2, <2>3, <2>4 DEF TasksOf
<1>4. ASSUME NEW id \in TasksOf(W) \ TasksOf(R) PROVE id \in TasksOf(V)
  <2>1. PICK n \in W : id = n.id
    BY DEF TasksOf
  <2>2. n \notin R
    BY <2>1 DEF TasksOf
  <2>3. F[n] \in V /\ F[n].id = id
    BY <2>1, <2>2
  <2> QED BY <2>3 DEF TasksOf
<1>5. ASSUME NEW n, Short(n.id) PROVE n \in V <=> n \in W
  <2>1. ASSUME n \in V PROVE n \in W
    <3>1. PICK m \in W \ R : n = F[m]
      BY <2>1
    <3>2. n.id = m.id
      BY <3>1
    <3>3. m.in = "second"
      BY <1>5, <3>2 DEF WheelOK, NodeOK
    <3> QED BY <3>1, <3>3
  <2>2. ASSUME n \in W PROVE n \in V
    <3>1. n.in = "second"
      BY <1>5, <2>2 DEF WheelOK, NodeOK
    <3>2. n \in W \ R
      BY <2>2, <3>1
    <3> QED BY <3>1, <3>2
  <2> QED BY <2>1, <2>2
<1> QED BY <1>1, <1>2, <1>3, <1>4, <1>5 DEF WheelOK, Passes

\* A node that is moved to the second wheel stays well-formed and of its task.
LEMMA ToSecondOK ==
  ASSUME NEW n, NodeOK(n)
  PROVE  NodeOK(ToSecond(n, n.sec)) /\ ToSecond(n, n.sec).id = n.id
<1> DEFINE v == ToSecond(n, n.sec)
<1>1. n \in Node /\ SecSlots \in Nat
  BY TimerAssumption DEF NodeOK
<1>2. v.id = n.id /\ v.in = "second" /\ v.slot = n.sec /\ v.cyc = n.cyc
  BY <1>1 DEF ToSecond, Node
<1>3. n.sec \in Nat /\ n.sec < SecSlots
  BY <1>1 DEF Node
<1>4. v \in Node
  BY <1>1, <1>3 DEF ToSecond, Node
<1> HIDE DEF v
<1>5. NodeOK(v)
  BY <1>2, <1>3, <1>4 DEF NodeOK, Slots
<1> QED BY <1>2, <1>5 DEF v

\* checkMinuteWheel runs nodes of its slot, moves the others and keeps the rest.
LEMMA MinutePasses ==
  ASSUME NEW W, WheelOK(W)
  PROVE  WheelOK(AfterMinute(W)) /\ Passes(W, MinuteRuns(W), AfterMinute(W))
<1> DEFINE R == MinuteRuns(W)
           F == [n \in W \ R |-> IF n \in MinuteSlot(W) THEN ToSecond(n, n.sec) ELSE n]
<1>1. \A n \in MinuteSlot(W) : n \in W /\ n.in = "minute"
  BY DEF MinuteSlot, InSlot
<1>2. \A n \in R : n \in W /\ n.in # "second"
  BY <1>1 DEF MinuteRuns
<1>3. AfterMinute(W) = {F[n] : n \in W \ R}
  BY <1>1 DEF AfterMinute, MinuteRuns
<1>4. ASSUME NEW n \in W \ R
      PROVE  NodeOK(F[n]) /\ F[n].id = n.id /\ (n.in = "second" => F[n] = n)
  <2>1. NodeOK(n)
    BY DEF WheelOK
  <2>2. CASE n \in MinuteSlot(W)
    BY <1>1, <2>1, <2>2, ToSecondOK
  <2>3. CASE n \notin MinuteSlot(W)
    BY <2>1, <2>3
  <2> QED BY <2>2, <2>3
<1> HIDE DEF R, F
<1>5. WheelOK(AfterMinute(W)) /\ Passes(W, R, AfterMinute(W))
  BY <1>2, <1>3, <1>4, MovedPass
<1> QED BY <1>5 DEF R

\* The same of checkHourWheel, where a node may also stay for another day.
LEMMA HourPasses ==
  ASSUME NEW W, WheelOK(W)
  PROVE  WheelOK(AfterHour(W)) /\ Passes(W, HourRuns(W), AfterHour(W))
<1> DEFINE R == HourRuns(W)
           F == [n \in W \ R |-> IF n \in HourDue(W) THEN HourMoved(n)
                                 ELSE IF n \in HourSlot(W) THEN [n EXCEPT !.round = n.round - 1] ELSE n]
<1>1. \A n \in HourSlot(W) : n \in W /\ n.in = "hour"
  BY DEF HourSlot, InSlot
<1>2. \A n \in R : n \in W /\ n.in # "second"
  BY <1>1 DEF HourRuns, HourDue
<1>3. AfterHour(W) = {F[n] : n \in W \ R}
  <2>1. HourRuns(W) \subseteq HourDue(W) /\ HourDue(W) \subseteq HourSlot(W)
    BY DEF HourRuns, HourDue
  <2>2. AfterHour(W) = (W \ HourSlot(W))
            \cup {[n EXCEPT !.round = n.round - 1] : n \in HourSlot(W) \ HourDue(W)}
            \cup {HourMoved(n) : n \in HourDue(W) \ HourRuns(W)}
    BY DEF AfterHour
  <2>3. \A n \in W \ HourSlot(W) : n \in W \ R /\ F[n] = n
    BY <2>1
  <2>4. \A n \in HourSlot(W) \ HourDue(W) : n \in W \ R /\ F[n] = [n EXCEPT !.round = n.round - 1]
    BY <1>1, <2>1
  <2>5. \A n \in HourDue(W) \ HourRuns(W) : n \in W \ R /\ F[n] = HourMoved(n)
    BY <1>1, <2>1
  <2>6. ASSUME NEW n \in W \ R
        PROVE  n \in (W \ HourSlot(W)) \/ n \in (HourSlot(W) \ HourDue(W)) \/ n \in (HourDue(W) \ HourRuns(W))
    <3> HIDE DEF F, R
    <3>1. n \in W /\ n \notin R
      OBVIOUS
    <3> QED BY <3>1 DEF R
  <2> HIDE DEF F, R
  <2>7. ASSUME NEW v \in AfterHour(W) PROVE \E n \in W \ R : v = F[n]
    <3>1. CASE v \in W \ HourSlot(W)
      BY <2>3, <3>1
    <3>2. CASE v \in {[n EXCEPT !.round = n.round - 1] : n \in HourSlot(W) \ HourDue(W)}
      BY <2>4, <3>2
    <3>3. CASE v \in {HourMoved(n) : n \in HourDue(W) \ HourRuns(W)}
      BY <2>5, <3>3
    <3> QED BY <2>2, <3>1, <3>2, <3>3
  <2>8. ASSUME NEW n \in W \ R PROVE F[n] \in AfterHour(W)
    <3>1. CASE n \in W \ HourSlot(W)
      BY <2>2, <2>3, <3>1
    <3>2. CASE n \in HourSlot(W) \ HourDue(W)
      BY <2>2, <2>4, <3>2
    <3>3. CASE n \in HourDue(W) \ HourRuns(W)
      BY <2>2, <2>5, <3>3
    <3> QED BY <2>6, <3>1, <3>2, <3>3
  <2> QED BY <2>7, <2>8
<1>4. ASSUME NEW n \in W \ R
      PROVE  NodeOK(F[n]) /\ F[n].id = n.id /\ (n.in = "second" => F[n] = n)
  <2>1. NodeOK(n) /\ n \in Node
    BY DEF WheelOK, NodeOK
  <2>2. CASE n \in HourDue(W) /\ n.min > 0
    <3> DEFINE v == [n EXCEPT !.in = "minute", !.slot = n.min - 1]
    <3>1. F[n] = v
      BY <2>2 DEF HourMoved
    <3>2. v.id = n.id /\ v.in = "minute" /\ v.slot = n.min - 1 /\ v.cyc = n.cyc
      BY <2>1 DEF Node
    <3>3. n.min - 1 \in Nat /\ n.min - 1 < MinSlots
      BY <2>1, <2>2, TimerAssumption DEF Node
    <3>4. v \in Node
      BY <2>1, <3>3 DEF Node
    <3>5. n.in = "hour"
      BY <1>1, <2>2 DEF HourDue
    <3> HIDE DEF v
    <3>6. NodeOK(v)
      BY <2>1, <3>2, <3>3, <3>4, <3>5 DEF NodeOK, Slots
    <3> QED BY <3>1, <3>2, <3>5, <3>6
  <2>3. CASE n \in HourDue(W) /\ ~(n.min > 0)
    <3>1. F[n] = ToSecond(n, n.sec) /\ n.in = "hour"
      BY <1>1, <2>3 DEF HourMoved, HourDue
    <3> QED BY <2>1, <3>1, ToSecondOK
  <2>4. CASE n \in HourSlot(W) \ HourDue(W)
    <3> DEFINE v == [n EXCEPT !.round = n.round - 1]
    <3>1. F[n] = v /\ n.in = "hour"
      BY <1>1, <2>4
    <3>2. v.id = n.id /\ v.in = n.in /\ v.slot = n.slot /\ v.cyc = n.cyc
      BY <2>1 DEF Node
    <3>3. n.round - 1 \in Nat
      BY <2>1, <2>4 DEF Node, HourDue
    <3>4. v \in Node
      BY <2>1, <3>3 DEF Node
    <3> HIDE DEF v
    <3>5. NodeOK(v)
      BY <2>1, <3>2, <3>4 DEF NodeOK
    <3> QED BY <3>1, <3>2, <3>5
  <2>5. CASE n \notin HourSlot(W)
    BY <2>1, <2>5 DEF HourDue
  <2> QED BY <2>2, <2>3, <2>4, <2>5
<1> HIDE DEF R, F
<1>5. WheelOK(AfterHour(W)) /\ Passes(W, R, AfterHour(W))
  BY <1>2, <1>3, <1>4, MovedPass
<1> QED BY <1>5 DEF R

-----------------------------------------------------------------------------
(* The second wheel *)

\* What checkSecondWheel makes of the wheels: still at most one node of a task;
\* a node that ran is gone or replaced, the others stay.
LEMMA SecondPasses ==
  ASSUME WheelsInv
  PROVE  /\ WheelOK(AfterSecond)
         /\ \A n \in wheel \ SecondRuns : n \in AfterSecond
         /\ \A v \in AfterSecond :
              \/ v \in wheel \ SecondRuns
              \/ \E n \in SecondRuns : n.id = v.id /\ Repeats(n) /\ v \in NodeFor(n.id, CyclesLeft(n), clock)
         /\ \A n \in SecondRuns : Repeats(n) => NodeFor(n.id, CyclesLeft(n), clock) \subseteq AfterSecond
<1>1. \A n \in wheel : NodeOK(n) /\ n.id \in Ids
  BY DEF WheelsInv, WheelOK, NodeOK, Node
<1>2. \A n \in SecondRuns : n \in wheel
  BY DEF SecondRuns, InSlot
<1>3. clock \in Clocks
  BY DEF WheelsInv, WheelShape, Clocks
<1>4. ASSUME NEW n \in SecondRuns, Repeats(n)
      PROVE  /\ \A v \in NodeFor(n.id, CyclesLeft(n), clock) : NodeOK(v) /\ v.id = n.id
             /\ \A v1, v2 \in NodeFor(n.id, CyclesLeft(n), clock) : v1 = v2
  <2>1. n.id \in Ids /\ registered[n.id] \in Nat \cup {-1}
    BY <1>1, <1>2 DEF WheelsInv, WheelShape
  <2>2. CyclesLeft(n) \in Nat \cup {-1}
    BY <2>1 DEF CyclesLeft
  <2>3. Request[n.id].cyc # 1
    BY <1>1, <1>2, <1>4 DEF NodeOK, Repeats
  <2> HIDE DEF CyclesLeft
  <2> QED BY <1>3, <2>1, <2>2, <2>3, NodeForOK
<1>5. ASSUME NEW v \in AfterSecond
      PROVE  \/ v \in wheel \ SecondRuns
             \/ \E n \in SecondRuns : n.id = v.id /\ Repeats(n) /\ v \in NodeFor(n.id, CyclesLeft(n), clock)
  <2>1. CASE v \in wheel \ SecondRuns
    BY <2>1
  <2>2. CASE v \notin wheel \ SecondRuns
    <3>1. PICK n \in {x \in SecondRuns : Repeats(x)} : v \in NodeFor(n.id, CyclesLeft(n), clock)
      BY <2>2 DEF AfterSecond
    <3>2. v.id = n.id
      BY <1>4, <3>1
    <3> QED BY <3>1, <3>2
  <2> QED BY <2>1, <2>2
<1>6. \A v \in AfterSecond : NodeOK(v)
  BY <1>1, <1>4, <1>5
<1>7. ASSUME NEW v1 \in AfterSecond, NEW v2 \in AfterSecond, v1.id = v2.id PROVE v1 = v2
  <2>1. CASE v1 \in wheel \ SecondRuns /\ v2 \in wheel \ SecondRuns
    BY <1>7, <2>1 DEF WheelsInv, WheelOK
  <2>2. CASE v1 \in wheel \ SecondRuns /\ v2 \notin wheel \ SecondRuns
    <3>1. PICK n \in SecondRuns : n.id = v2.id
      BY <1>5, <2>2
    <3>2. v1 = n
      BY <1>2, <1>7, <2>2, <3>1 DEF WheelsInv, WheelOK
    <3> QED BY <2>2, <3>1, <3>2
  <2>3. CASE v2 \in wheel \ SecondRuns /\ v1 \notin wheel \ SecondRuns
    <3>1. PICK n \in SecondRuns : n.id = v1.id
      BY <1>5, <2>3
    <3>2. v2 = n
      BY <1>2, <1>7, <2>3, <3>1 DEF WheelsInv, WheelOK
    <3> QED BY <2>3, <3>1, <3>2
  <2>4. CASE v1 \notin wheel \ SecondRuns /\ v2 \notin wheel \ SecondRuns
    <3>1. PICK n1 \in SecondRuns : n1.id = v1.id /\ Repeats(n1) /\ v1 \in NodeFor(n1.id, CyclesLeft(n1), clock)
      BY <1>5, <2>4
    <3>2. PICK n2 \in SecondRuns : n2.id = v2.id /\ Repeats(n2) /\ v2 \in NodeFor(n2.id, CyclesLeft(n2), clock)
      BY <1>5, <2>4
    <3>3. n1 = n2
      BY <1>2, <1>7, <3>1, <3>2 DEF WheelsInv, WheelOK
    <3> QED BY <1>4, <3>1, <3>2, <3>3
  <2> QED BY <2>1, <2>2, <2>3, <2>4
<1>8. \A n \in wheel \ SecondRuns : n \in AfterSecond
  BY DEF AfterSecond
<1>9. \A n \in SecondRuns : Repeats(n) => NodeFor(n.id, CyclesLeft(n), clock) \subseteq AfterSecond
  BY DEF AfterSecond
<1> QED BY <1>5, <1>6, <1>7, <1>8, <1>9 DEF WheelOK

\* What mRegisteredTasks says of a task whose node ran, and of the others.
LEMMA SavedOf ==
  ASSUME WheelsInv, NEW id \in Ids
  PROVE  /\ id \notin TasksOf(SecondRuns) => SavedAfterSecond[id] = registered[id]
         /\ \A n \in SecondRuns : n.id = id =>
              SavedAfterSecond[id] = IF n.cyc = 1 THEN 0 ELSE IF Repeats(n) THEN CyclesLeft(n) ELSE 0
<1> DEFINE Saved(n) == IF n.cyc = 1 THEN 0 ELSE IF Repeats(n) THEN CyclesLeft(n) ELSE 0
           c == CHOOSE x \in SecondRuns : x.id = id
<1>1. SavedAfterSecond[id] = IF \E n \in SecondRuns : n.id = id THEN Saved(c) ELSE registered[id]
  BY DEF SavedAfterSecond
<1>2. ASSUME NEW n \in SecondRuns, n.id = id PROVE c = n
  <2>1. c \in SecondRuns /\ c.id = id
    BY <1>2
  <2> HIDE DEF c
  <2>2. c \in wheel /\ n \in wheel
    BY <2>1 DEF SecondRuns, InSlot
  <2> QED BY <1>2, <2>1, <2>2 DEF WheelsInv, WheelOK
<1>3. ASSUME NEW n \in SecondRuns, n.id = id PROVE SavedAfterSecond[id] = Saved(n)
  <2> HIDE DEF c, Saved
  <2> QED BY <1>1, <1>2, <1>3
<1>4. id \notin TasksOf(SecondRuns) => SavedAfterSecond[id] = registered[id]
  <2> HIDE DEF c, Saved
  <2> QED BY <1>1 DEF TasksOf
<1> QED BY <1>3, <1>4

\* A wheel that does not wrap passes unchanged.
LEMMA StaysPass ==
  ASSUME NEW W
  PROVE  Passes(W, {}, W)
  BY DEF Passes, TasksOf

\* One second of the tick thread, seen by a single task: who runs, and which
\* node it has afterwards.
TickOf(ids) ==
  /\ WheelOK(wheel')
  /\ fired' = [id \in Ids |-> IF id \in ids THEN fired[id] + 1 ELSE fired[id]]
  /\ base' = [id \in Ids |-> IF id \in ids THEN now + 1 ELSE base[id]]
  /\ \A id \in Ids : id \notin TasksOf(wheel) => id \notin ids /\ id \notin TasksOf(wheel')
  /\ \A id \in Ids : Request[id].cyc = 1 =>
       (id \in TasksOf(wheel') <=> id \in TasksOf(wheel) /\ id \notin ids)
  /\ \A id \in Ids : Short(id) => (id \in ids <=> id \in TasksOf(SecondRuns))
  /\ \A n : Short(n.id) => (n \in wheel' <=> n \in AfterSecond)

\* The three checks of a tick one after the other.
LEMMA TickPasses ==
  ASSUME WheelsInv, Tick
  PROVE  \E ids : TickOf(ids)
<1> DEFINE w1 == AfterSecond
           R2 == IF SecondWraps THEN MinuteRuns(w1) ELSE {}
           w2 == IF SecondWraps THEN AfterMinute(w1) ELSE w1
           R3 == IF MinuteWraps THEN HourRuns(w2) ELSE {}
           w3 == IF MinuteWraps THEN AfterHour(w2) ELSE w2
           runs == SecondRuns \cup R2 \cup R3
           ids == TasksOf(runs)
<1>1. WheelOK(w1)
  BY SecondPasses
<1>2. WheelOK(w2) /\ Passes(w1, R2, w2)
  <2>1. CASE SecondWraps
    BY <1>1, <2>1, MinutePasses
  <2>2. CASE ~SecondWraps
    BY <1>1, <2>2, StaysPass
  <2> QED BY <2>1, <2>2
<1>3. WheelOK(w3) /\ Passes(w2, R3, w3)
  <2> HIDE DEF w2
  <2>1. CASE MinuteWraps
    BY <1>2, <2>1, HourPasses
  <2>2. CASE ~MinuteWraps
    BY <1>2, <2>2, StaysPass
  <2> QED BY <2>1, <2>2
<1>4. wheel' = w3
  BY DEF Tick
<1>5. fired' = [id \in Ids |-> IF id \in ids THEN fired[id] + 1 ELSE fired[id]]
  BY DEF Tick, TasksOf
<1>6. base' = [id \in Ids |-> IF id \in ids THEN now + 1 ELSE base[id]]
  BY DEF Tick, TasksOf
<1> HIDE DEF w1, R2, w2, R3, w3
<1>7. \A id : id \in ids <=> id \in TasksOf(SecondRuns) \/ id \in TasksOf(R2) \/ id \in TasksOf(R3)
  BY DEF TasksOf
<1>8. \A id : /\ id \in TasksOf(R2) => id \in TasksOf(w1)
              /\ id \in TasksOf(R3) => id \in TasksOf(w2)
              /\ id \in TasksOf(SecondRuns) => id \in TasksOf(wheel)
  BY <1>2, <1>3 DEF TasksOf, Passes, SecondRuns, InSlot
<1>9. \A id : /\ id \in TasksOf(w2) <=> id \in TasksOf(w1) /\ id \notin TasksOf(R2)
              /\ id \in TasksOf(w3) <=> id \in TasksOf(w2) /\ id \notin TasksOf(R3)
  BY <1>2, <1>3 DEF Passes
<1>10. ASSUME NEW id \in Ids, id \in TasksOf(w1) PROVE id \in TasksOf(wheel)
  <2>1. PICK v \in AfterSecond : v.id = id
    BY <1>10 DEF TasksOf, w1
  <2>2. v \in wheel \/ \E n \in SecondRuns : n.id = id
    BY <2>1, SecondPasses
  <2> QED BY <2>1, <2>2 DEF TasksOf, SecondRuns, InSlot
<1>11. ASSUME NEW id \in Ids, Request[id].cyc = 1
       PROVE  id \in TasksOf(w1) <=> id \in TasksOf(wheel) /\ id \notin TasksOf(SecondRuns)
  <2>1. ASSUME id \in TasksOf(w1) PROVE id \in TasksOf(wheel) /\ id \notin TasksOf(SecondRuns)
    <3>1. PICK v \in AfterSecond : v.id = id
      BY <2>1 DEF TasksOf, w1
    <3>2. \A n \in SecondRuns : n.id = id => ~Repeats(n)
      BY <1>11 DEF SecondRuns, InSlot, WheelsInv, WheelOK, NodeOK, Repeats
    <3>3. v \in wheel \ SecondRuns
      BY <3>1, <3>2, SecondPasses
    <3>4. \A n \in SecondRuns : n.id # id
      BY <3>1, <3>3 DEF SecondRuns, InSlot, WheelsInv, WheelOK
    <3> QED BY <3>1, <3>3, <3>4 DEF TasksOf
  <2>2. ASSUME id \in TasksOf(wheel), id \notin TasksOf(SecondRuns) PROVE id \in TasksOf(w1)
    <3>1. PICK n \in wheel : n.id = id
      BY <2>2 DEF TasksOf
    <3>2. n \in wheel \ SecondRuns
      BY <2>2, <3>1 DEF TasksOf
    <3> QED BY <3>1, <3>2, SecondPasses DEF TasksOf, w1
  <2> QED BY <2>1, <2>2
<1>12. ASSUME NEW id \in Ids, Short(id) PROVE id \notin TasksOf(R2) /\ id \notin TasksOf(R3)
  <2>1. \A n \in R2 : n \in w1 /\ n.in # "second"
    BY <1>2 DEF Passes
  <2>2. \A n \in R3 : n \in w2 /\ n.in # "second"
    BY <1>3 DEF Passes
  <2>3. \A n \in R2 : n.id # id
    BY <1>1, <1>12, <2>1 DEF WheelOK, NodeOK
  <2>4. \A n \in R3 : n.id # id
    BY <1>2, <1>12, <2>2 DEF WheelOK, NodeOK
  <2> QED BY <2>3, <2>4 DEF TasksOf
<1>13. \A n : Short(n.id) => (n \in w3 <=> n \in AfterSecond)
  BY <1>2, <1>3 DEF Passes, w1
<1> HIDE DEF ids
<1>14. \A id \in Ids : id \notin TasksOf(wheel) => id \notin ids /\ id \notin TasksOf(w3)
  BY <1>7, <1>8, <1>9, <1>10
<1>15. \A id \in Ids : Request[id].cyc = 1 =>
         (id \in TasksOf(w3) <=> id \in TasksOf(wheel) /\ id \notin ids)
  BY <1>7, <1>8, <1>9, <1>11
<1>16. \A id \in Ids : Short(id) => (id \in ids <=> id \in TasksOf(SecondRuns))
  BY <1>7, <1>12
<1>17. TickOf(ids)
  BY <1>3, <1>4, <1>5, <1>6, <1>13, <1>14, <1>15, <1>16 DEF TickOf
<1> QED BY <1>17

\* What becomes of the node of a short task in a tick: it waits, or it ran and
\* is replaced by the node of the next cycle, or it is gone.
LEMMA ShortTick ==
  ASSUME WheelsInv, Tick, NEW ids, TickOf(ids), NEW id \in Ids, Short(id)
  PROVE  /\ \A v \in wheel' : v.id = id =>
              \/ v \in wheel /\ v.slot # clock.s /\ id \notin ids
              \/ /\ id \in ids
                 /\ \E n \in wheel : /\ n.id = id /\ Repeats(n) /\ v.cyc = CyclesLeft(n)
                                     /\ registered'[id] = CyclesLeft(n)
                 /\ v.slot = (Task(id).s + clock.s) % SecSlots
         /\ id \notin ids => registered'[id] = registered[id]
         /\ \A n \in wheel : n.id = id =>
              /\ id \notin ids => n \in wheel' /\ n.slot # clock.s
              /\ id \in ids => n.slot = clock.s /\ (Repeats(n) /\ Delay(id) # 0 => id \in TasksOf(wheel'))
<1>1. (id \in ids <=> id \in TasksOf(SecondRuns)) /\ registered' = SavedAfterSecond
  BY DEF TickOf, Tick
<1>2. \A n \in wheel : n.id = id => n.in = "second"
  BY DEF WheelsInv, WheelOK, NodeOK
<1>3. \A n \in wheel : n.id = id => (n \in SecondRuns <=> n.slot = clock.s)
  BY <1>2 DEF SecondRuns, InSlot
<1>4. \A n \in wheel : n.id = id => (n \in SecondRuns <=> id \in ids)
  BY <1>1 DEF TasksOf, SecondRuns, InSlot, WheelsInv, WheelOK
<1>5. ASSUME NEW n \in SecondRuns, n.id = id, Repeats(n)
      PROVE  /\ \A v \in NodeFor(id, CyclesLeft(n), clock) :
                   v.id = id /\ v.cyc = CyclesLeft(n) /\ v.slot = (Task(id).s + clock.s) % SecSlots
             /\ Delay(id) # 0 => NodeFor(id, CyclesLeft(n), clock) # {}
  <2>1. registered[id] \in Nat \cup {-1} /\ clock \in Clocks
    BY DEF WheelsInv, WheelShape, Clocks
  <2>2. CyclesLeft(n) \in Nat \cup {-1}
    BY <1>5, <2>1 DEF CyclesLeft
  <2>3. Request[id].cyc # 1
    BY <1>5 DEF NodeOK, Repeats, WheelsInv, WheelOK, SecondRuns, InSlot
  <2> HIDE DEF CyclesLeft
  <2> QED BY <2>1, <2>2, <2>3, NodeForOK
<1>6. ASSUME NEW v \in wheel', v.id = id
      PROVE  \/ v \in wheel /\ v.slot # clock.s /\ id \notin ids
             \/ /\ id \in ids
                /\ \E n \in wheel : /\ n.id = id /\ Repeats(n) /\ v.cyc = CyclesLeft(n)
                                    /\ registered'[id] = CyclesLeft(n)
                /\ v.slot = (Task(id).s + clock.s) % SecSlots
  <2>1. v \in AfterSecond
    BY <1>6 DEF TickOf
  <2>2. CASE v \in wheel \ SecondRuns
    BY <1>3, <1>4, <1>6, <2>2
  <2>3. CASE \E n \in SecondRuns : n.id = v.id /\ Repeats(n) /\ v \in NodeFor(n.id, CyclesLeft(n), clock)
    <3>1. PICK n \in SecondRuns : n.id = id /\ Repeats(n) /\ v \in NodeFor(id, CyclesLeft(n), clock)
      BY <1>6, <2>3
    <3>2. n \in wheel /\ id \in ids
      BY <1>1, <3>1 DEF SecondRuns, InSlot, TasksOf
    <3>3. v.cyc = CyclesLeft(n) /\ v.slot = (Task(id).s + clock.s) % SecSlots
      BY <1>5, <3>1
    <3>4. n.cyc # 1
      BY <3>1 DEF Repeats
    <3>5. registered'[id] = CyclesLeft(n)
      BY <1>1, <3>1, <3>4, SavedOf
    <3> QED BY <3>1, <3>2, <3>3, <3>5
  <2> QED BY <2>1, <2>2, <2>3, SecondPasses
<1>7. id \notin ids => registered'[id] = registered[id]
  BY <1>1, SavedOf
<1>8. ASSUME NEW n \in wheel, n.id = id, id \notin ids PROVE n \in wheel' /\ n.slot # clock.s
  <2>1. n \in wheel \ SecondRuns
    BY <1>4, <1>8
  <2>2. n \in AfterSecond
    BY <2>1, SecondPasses
  <2> QED BY <1>3, <1>8, <2>1, <2>2 DEF TickOf
<1>9. ASSUME NEW n \in wheel, n.id = id, id \in ids
      PROVE  n.slot = clock.s /\ (Repeats(n) /\ Delay(id) # 0 => id \in TasksOf(wheel'))
  <2>1. n \in SecondRuns
    BY <1>4, <1>9
  <2>2. ASSUME Repeats(n), Delay(id) # 0 PROVE id \in TasksOf(wheel')
    <3>1. PICK v \in NodeFor(id, CyclesLeft(n), clock) : v.id = id
      BY <1>5, <1>9, <2>1, <2>2
    <3>2. v \in AfterSecond
      BY <1>9, <2>1, <2>2, <3>1, SecondPasses
    <3>3. v \in wheel'
      BY <3>1, <3>2 DEF TickOf
    <3> QED BY <3>1, <3>3 DEF TasksOf
  <2> QED BY <1>3, <1>9, <2>1, <2>2
<1> QED BY <1>6, <1>7, <1>8, <1>9

-----------------------------------------------------------------------------
(* The invariant *)

\* Nothing is registered and the clock is at zero.
LEMMA InitWheels == TimerInit => WheelsInv
<1> SUFFICES ASSUME TimerInit PROVE WheelsInv
  OBVIOUS
<1>1. WheelShape
  BY TimerAssumption DEF TimerInit, WheelShape
<1>2. WheelOK(wheel) /\ TasksOf(wheel) = {}
  BY DEF TimerInit, WheelOK, TasksOf
<1>3. ASSUME NEW id \in Ids PROVE TimerTaskInv(id)
  BY <1>2 DEF TimerInit, TimerTaskInv, EntryInv, OnceInv, CycleInv, DueInv, Added
<1> QED BY <1>1, <1>2, <1>3 DEF WheelsInv

\* A tick keeps the shape of the state: the hands stay on their dials.
LEMMA TickShape ==
  ASSUME WheelsInv, Tick, NEW ids, TickOf(ids)
  PROVE  WheelShape'
<1>1. /\ clock.h \in Nat /\ clock.m \in Nat /\ clock.s \in Nat
      /\ clock.m \in 0..(MinSlots - 1)
      /\ SecSlots \in Nat \ {0} /\ MinSlots \in Nat \ {0}
  BY TimerAssumption DEF WheelsInv, WheelShape
<1>2. (clock.m + 1) % MinSlots \in 0..(MinSlots - 1) /\ (clock.s + 1) % SecSlots \in 0..(SecSlots - 1)
  <2>1. clock.m + 1 \in Nat /\ clock.s + 1 \in Nat
    BY <1>1
  <2> QED BY <1>1, <2>1, Division
<1>3. clock' \in [h : Nat, m : 0..(MinSlots - 1), s : 0..(SecSlots - 1)]
  BY <1>1, <1>2 DEF Tick
<1>4. registered' \in [Ids -> Nat \cup {-1}]
  <2>1. registered' = SavedAfterSecond
    BY DEF Tick
  <2>2. ASSUME NEW id \in Ids PROVE SavedAfterSecond[id] \in Nat \cup {-1}
    <3>1. registered[id] \in Nat \cup {-1}
      BY DEF WheelsInv, WheelShape
    <3>2. CASE id \notin TasksOf(SecondRuns)
      BY <3>1, <3>2, SavedOf
    <3>3. CASE id \in TasksOf(SecondRuns)
      <4>1. PICK n \in SecondRuns : n.id = id
        BY <3>3 DEF TasksOf
      <4>2. CyclesLeft(n) \in Nat \cup {-1}
        BY <3>1, <4>1 DEF CyclesLeft
      <4>3. SavedAfterSecond[id] = IF n.cyc = 1 THEN 0 ELSE IF Repeats(n) THEN CyclesLeft(n) ELSE 0
        BY <4>1, SavedOf
      <4> QED BY <4>2, <4>3
    <3> QED BY <3>2, <3>3
  <2>3. \E G : SavedAfterSecond = [id \in Ids |-> G[id]]
    <3>1. SavedAfterSecond = [id \in Ids |-> SavedAfterSecond[id]]
      BY DEF SavedAfterSecond
    <3> QED BY <3>1
  <2> QED BY <2>1, <2>2, <2>3
<1>5. now' \in 0..MaxTicks
  BY TimerAssumption DEF Tick, WheelsInv, WheelShape
<1>6. base' \in [Ids -> 0..MaxTicks]
  BY TimerAssumption DEF TickOf, Tick, WheelsInv, WheelShape
<1>7. fired' \in [Ids -> Nat]
  BY DEF TickOf, WheelsInv, WheelShape
<1>8. queue' \in [add : SUBSET Ids, remove : SUBSET Ids]
  BY DEF Tick, WheelsInv, WheelShape
<1> QED BY <1>3, <1>4, <1>5, <1>6, <1>7, <1>8 DEF WheelShape

\* What a tick does to the counters of one task.
LEMMA TickCounts ==
  ASSUME WheelsInv, Tick, NEW ids, TickOf(ids), NEW id \in Ids
  PROVE  /\ fired'[id] = (IF id \in ids THEN fired[id] + 1 ELSE fired[id])
         /\ base'[id] = (IF id \in ids THEN now + 1 ELSE base[id])
         /\ now' = now + 1 /\ queue' = queue
         /\ clock'.s = (clock.s + 1) % SecSlots
         /\ fired[id] \in Nat /\ base[id] \in Nat /\ now \in Nat /\ clock.s \in 0..(SecSlots - 1)
  BY TimerAssumption DEF TickOf, Tick, WheelsInv, WheelShape

\* A tick does not touch tasks in the entry queue and saves no removed task.
LEMMA TickEntry ==
  ASSUME WheelsInv, Tick, NEW ids, TickOf(ids), NEW id \in Ids
  PROVE  EntryInv(id)'
<1>1. EntryInv(id)
  BY DEF WheelsInv, TimerTaskInv
<1>2. id \in queue.add => id \notin queue.remove /\ id \notin TasksOf(wheel') /\ fired'[id] = 0
  BY <1>1, TickCounts DEF EntryInv, TickOf
<1>3. ASSUME id \in queue.remove PROVE registered'[id] = 0
  <2>1. registered[id] = 0 /\ registered' = SavedAfterSecond
    BY <1>1, <1>3 DEF EntryInv, Tick
  <2>2. CASE id \notin TasksOf(SecondRuns)
    BY <2>1, <2>2, SavedOf
  <2>3. CASE id \in TasksOf(SecondRuns)
    <3>1. PICK n \in SecondRuns : n.id = id
      BY <2>3 DEF TasksOf
    <3>2. ~Repeats(n)
      BY <2>1, <3>1 DEF Repeats
    <3>3. SavedAfterSecond[id] = IF n.cyc = 1 THEN 0 ELSE IF Repeats(n) THEN CyclesLeft(n) ELSE 0
      BY <3>1, SavedOf
    <3> QED BY <2>1, <3>2, <3>3
  <2> QED BY <2>2, <2>3
<1>4. queue' = queue
  BY DEF Tick
<1> QED BY <1>2, <1>3, <1>4 DEF EntryInv, TasksOf

\* A one-time task that runs in a tick loses its node, another keeps it.
LEMMA TickOnce ==
  ASSUME WheelsInv, Tick, NEW ids, TickOf(ids), NEW id \in Ids
  PROVE  OnceInv(id)'
<1>1. OnceInv(id) /\ queue' = queue
  BY DEF WheelsInv, TimerTaskInv, Tick
<1>2. SUFFICES ASSUME Added(id), Request[id].cyc = 1
               PROVE  IF id \in TasksOf(wheel') THEN fired'[id] = 0 ELSE fired'[id] = 1
  BY <1>1 DEF OnceInv, Added, TasksOf
<1>3. IF id \in TasksOf(wheel) THEN fired[id] = 0 ELSE fired[id] = 1
  BY <1>1, <1>2 DEF OnceInv
<1>4. /\ id \in TasksOf(wheel') <=> id \in TasksOf(wheel) /\ id \notin ids
      /\ id \notin TasksOf(wheel) => id \notin ids
  BY <1>2 DEF TickOf
<1>5. fired'[id] = IF id \in ids THEN fired[id] + 1 ELSE fired[id]
  BY TickCounts
<1> QED BY <1>3, <1>4, <1>5

\* A short task that runs in a tick has one cycle less.
LEMMA TickCycles ==
  ASSUME WheelsInv, Tick, NEW ids, TickOf(ids), NEW id \in Ids
  PROVE  CycleInv(id)'
<1>1. CycleInv(id) /\ queue' = queue
  BY DEF WheelsInv, TimerTaskInv, Tick
<1>2. SUFFICES ASSUME Added(id), Short(id), Request[id].cyc > 1, id \notin queue.remove
               PROVE  /\ id \notin TasksOf(wheel') => fired'[id] = Request[id].cyc
                      /\ \A v \in wheel' : v.id = id =>
                           v.cyc >= 1 /\ registered'[id] = v.cyc /\ fired'[id] + v.cyc = Request[id].cyc
  BY <1>1 DEF CycleInv, Added, TasksOf
<1>3. /\ id \notin TasksOf(wheel) => fired[id] = Request[id].cyc
      /\ \A n \in wheel : n.id = id =>
           n.cyc >= 1 /\ registered[id] = n.cyc /\ fired[id] + n.cyc = Request[id].cyc
  BY <1>1, <1>2 DEF CycleInv
<1>4. /\ fired'[id] = (IF id \in ids THEN fired[id] + 1 ELSE fired[id]) /\ fired[id] \in Nat
  BY TickCounts
<1>5. \A n \in wheel : n.cyc \in Int
  BY DEF WheelsInv, WheelOK, NodeOK, Node
<1>6. ASSUME id \notin TasksOf(wheel') PROVE fired'[id] = Request[id].cyc
  <2>1. CASE id \notin TasksOf(wheel)
    BY <1>3, <1>4, <2>1 DEF TickOf
  <2>2. CASE id \in TasksOf(wheel)
    <3>1. PICK n \in wheel : n.id = id
      BY <2>2 DEF TasksOf
    <3>2. id \in ids
      BY <1>2, <1>6, <3>1, ShortTick DEF TasksOf
    <3>3. ~Repeats(n)
      BY <1>2, <1>6, <3>1, <3>2, ShortTick DEF Added
    <3>4. n.cyc = 1
      BY <1>3, <1>5, <3>1, <3>3 DEF Repeats
    <3> QED BY <1>3, <1>4, <3>1, <3>2, <3>4
  <2> QED BY <2>1, <2>2
<1>7. ASSUME NEW v \in wheel', v.id = id
      PROVE  v.cyc >= 1 /\ registered'[id] = v.cyc /\ fired'[id] + v.cyc = Request[id].cyc
  <2>1. CASE v \in wheel /\ id \notin ids
    <3>1. registered'[id] = registered[id]
      BY <1>2, <2>1, ShortTick
    <3> QED BY <1>3, <1>4, <1>7, <2>1, <3>1
  <2>2. CASE id \in ids /\ \E n \in wheel : n.id = id /\ Repeats(n) /\ v.cyc = CyclesLeft(n) /\ registered'[id] = CyclesLeft(n)
    <3>1. PICK n \in wheel : n.id = id /\ Repeats(n) /\ v.cyc = CyclesLeft(n) /\ registered'[id] = CyclesLeft(n)
      BY <2>2
    <3>2. n.cyc >= 1 /\ registered[id] = n.cyc /\ fired[id] + n.cyc = Request[id].cyc /\ n.cyc \in Int
      BY <1>3, <1>5, <3>1
    <3>3. n.cyc # 1
      BY <3>1 DEF Repeats
    <3>4. CyclesLeft(n) = n.cyc - 1
      BY <3>1, <3>2 DEF CyclesLeft
    <3> QED BY <1>4, <2>2, <3>1, <3>2, <3>3, <3>4
  <2> QED BY <1>2, <1>7, <2>1, <2>2, ShortTick
<1> QED BY <1>6, <1>7

\* A second nearer to its slot, or just put where its delay ends.
LEMMA TickDue ==
  ASSUME WheelsInv, Tick, NEW ids, TickOf(ids), NEW id \in Ids
  PROVE  DueInv(id)'
<1> DEFINE slack == IF fired[id] = 0 THEN 1 ELSE 0
           slackN == IF fired'[id] = 0 THEN 1 ELSE 0
<1>1. SUFFICES ASSUME Short(id), NEW v \in wheel', v.id = id
               PROVE  \E r \in 0..(SecSlots - 1) :
                        /\ v.slot = (clock'.s + r) % SecSlots
                        /\ now' + r + 1 = base'[id] + Delay(id) + slackN
  BY DEF DueInv
<1>2. /\ fired'[id] = (IF id \in ids THEN fired[id] + 1 ELSE fired[id])
      /\ base'[id] = (IF id \in ids THEN now + 1 ELSE base[id])
      /\ now' = now + 1 /\ clock'.s = (clock.s + 1) % SecSlots
      /\ fired[id] \in Nat /\ base[id] \in Nat /\ now \in Nat /\ clock.s \in 0..(SecSlots - 1)
  BY TickCounts
<1>3. SecSlots \in Nat \ {0} /\ Delay(id) \in Nat
  BY TimerAssumption, TaskType
<1>4. CASE v \in wheel /\ v.slot # clock.s /\ id \notin ids
  <2>1. PICK r \in 0..(SecSlots - 1) : /\ v.slot = (clock.s + r) % SecSlots
                                       /\ now + r + 1 = base[id] + Delay(id) + slack
    BY <1>1, <1>4 DEF WheelsInv, TimerTaskInv, DueInv
  <2>2. r # 0
    BY <1>2, <1>3, <1>4, <2>1, ThisSlot
  <2>3. r \in 1..(SecSlots - 1) /\ r - 1 \in 0..(SecSlots - 1)
    BY <1>3, <2>1, <2>2
  <2>4. (((clock.s + 1) % SecSlots) + (r - 1)) % SecSlots = (clock.s + r) % SecSlots
    BY <1>2, <1>3, <2>3, NearerSlot
  <2>5. slackN = slack /\ base'[id] = base[id]
    BY <1>2, <1>4
  <2>6. now' + (r - 1) + 1 = base'[id] + Delay(id) + slackN
    <3>1. now' + (r - 1) + 1 = now + r + 1
      BY <1>2, <2>1
    <3> QED BY <2>1, <2>5, <3>1
  <2> QED BY <1>2, <2>1, <2>3, <2>4, <2>6
<1>5. CASE id \in ids /\ v.slot = (Task(id).s + clock.s) % SecSlots
  <2>1. Task(id).s = Delay(id) /\ Task(id).s \in 0..(SecSlots - 1)
    BY <1>1, ShortTask, TaskType
  <2>2. slackN = 0 /\ base'[id] = now + 1
    BY <1>2, <1>5
  <2>3. Delay(id) # 0
    <3>1. PICK n \in wheel : n.id = id /\ Repeats(n)
      BY <1>1, <1>5, ShortTick
    <3>2. PICK u \in SecondRuns : u.id = id /\ Repeats(u) /\ v \in NodeFor(id, CyclesLeft(u), clock)
      <4>1. v \in AfterSecond
        BY <1>1 DEF TickOf
      <4>2. id \in TasksOf(SecondRuns)
        BY <1>1, <1>5 DEF TickOf
      <4>3. v \notin wheel \ SecondRuns
        BY <1>1, <4>2 DEF TasksOf, SecondRuns, InSlot, WheelsInv, WheelOK
      <4> QED BY <1>1, <4>1, <4>3, SecondPasses
    <3> QED BY <3>2 DEF NodeFor
  <2> DEFINE r == Delay(id)
  <2>4. r \in 1..(SecSlots - 1) /\ r - 1 \in 0..(SecSlots - 1)
    BY <1>3, <2>1, <2>3
  <2>5. (((clock.s + 1) % SecSlots) + (r - 1)) % SecSlots = (clock.s + r) % SecSlots
    <3> HIDE DEF r
    <3> QED BY <1>2, <1>3, <2>4, NearerSlot
  <2>6. v.slot = (clock.s + r) % SecSlots
    <3>1. Task(id).s + clock.s = clock.s + r
      BY <1>2, <1>3, <2>1
    <3> QED BY <1>5, <3>1
  <2>7. now' + (r - 1) + 1 = base'[id] + Delay(id) + slackN
    BY <1>2, <1>3, <2>2
  <2> HIDE DEF r, slackN
  <2> QED BY <1>2, <2>4, <2>5, <2>6, <2>7
<1> QED BY <1>1, <1>4, <1>5, ShortTick

\* A tick keeps the invariant.
LEMMA TickStep ==
  ASSUME WheelsInv, Tick
  PROVE  WheelsInv'
<1>1. PICK ids : TickOf(ids)
  BY TickPasses
<1>2. WheelShape'
  BY <1>1, TickShape
<1>3. WheelOK(wheel')
  BY <1>1 DEF TickOf
<1>4. ASSUME NEW id \in Ids PROVE TimerTaskInv(id)'
  BY <1>1, TickEntry, TickOnce, TickCycles, TickDue DEF TimerTaskInv
<1> QED BY <1>2, <1>3, <1>4 DEF WheelsInv, WheelOK

\* A task is taken from the entry queue; its first node waits a second more.
LEMMA RegisterStep ==
  ASSUME WheelsInv, NEW id \in Ids, Register(id)
  PROVE  WheelsInv'
<1> DEFINE cyc == Request[id].cyc
           new == IF cyc = 0 THEN {} ELSE NodeFor(id, cyc, clock)
<1>1. /\ cyc \in Nat \cup {-1} /\ clock \in Clocks /\ now \in Nat /\ now < MaxTicks
      /\ SecSlots \in Nat \ {0} /\ MaxTicks \in Nat
      /\ registered \in [Ids -> Nat \cup {-1}] /\ fired \in [Ids -> Nat] /\ base \in [Ids -> 0..MaxTicks]
      /\ queue \in [add : SUBSET Ids, remove : SUBSET Ids]
  BY TimerAssumption DEF WheelsInv, WheelShape, Clocks, Register
<1>2. /\ id \in queue.add /\ queue' = [queue EXCEPT !.add = queue.add \ {id}]
      /\ registered' = [registered EXCEPT ![id] = IF cyc < 0 \/ cyc > 1 THEN cyc ELSE registered[id]]
      /\ base' = [base EXCEPT ![id] = now]
      /\ UNCHANGED <<clock, now, fired>>
  BY DEF Register
<1>3. wheel' = wheel \cup new
  BY DEF Register
<1>4. id \notin queue.remove /\ id \notin TasksOf(wheel) /\ fired[id] = 0
  BY <1>2 DEF WheelsInv, TimerTaskInv, EntryInv
<1>5. /\ \A n \in new : /\ NodeOK(n) /\ n.id = id /\ n.cyc = cyc
                        /\ Short(id) => n.slot = (Task(id).s + clock.s) % SecSlots
      /\ \A n1, n2 \in new : n1 = n2
      /\ Delay(id) # 0 /\ cyc # 0 => new # {}
  <2>1. CASE cyc = 0
    BY <2>1
  <2>2. CASE cyc # 0
    <3>1. new = NodeFor(id, cyc, clock) /\ (Request[id].cyc = 1 => cyc = 1)
      BY <2>2
    <3> HIDE DEF new, cyc
    <3>2. /\ \A n \in NodeFor(id, cyc, clock) :
                /\ NodeOK(n) /\ n.id = id /\ n.cyc = cyc
                /\ Short(id) => n.slot = (Task(id).s + clock.s) % SecSlots
          /\ \A n1, n2 \in NodeFor(id, cyc, clock) : n1 = n2
          /\ Delay(id) # 0 => NodeFor(id, cyc, clock) # {}
      BY <1>1, <3>1, NodeForOK
    <3> QED BY <3>1, <3>2
  <2> QED BY <2>1, <2>2
<1> HIDE DEF new
<1>6. WheelOK(wheel')
  BY <1>3, <1>4, <1>5 DEF WheelsInv, WheelOK, TasksOf
<1>7. queue'.add = queue.add \ {id} /\ queue'.remove = queue.remove
  BY <1>1, <1>2
<1>8. WheelShape'
  <2>1. registered' \in [Ids -> Nat \cup {-1}]
    BY <1>1, <1>2
  <2>2. base' \in [Ids -> 0..MaxTicks]
    BY <1>1, <1>2
  <2>3. queue' \in [add : SUBSET Ids, remove : SUBSET Ids]
    BY <1>1, <1>2
  <2> QED BY <1>2, <2>1, <2>2, <2>3 DEF WheelsInv, WheelShape
<1>9. ASSUME NEW i \in Ids, i # id PROVE TimerTaskInv(i)'
  <2>1. TimerTaskInv(i)
    BY DEF WheelsInv
  <2>2. registered'[i] = registered[i] /\ base'[i] = base[i] /\ fired'[i] = fired[i]
    BY <1>1, <1>2, <1>9
  <2>3. \A n : n.id = i => (n \in wheel' <=> n \in wheel)
    BY <1>3, <1>5, <1>9
  <2>4. i \in TasksOf(wheel') <=> i \in TasksOf(wheel)
    BY <2>3 DEF TasksOf
  <2>5. (i \in queue'.add <=> i \in queue.add) /\ (i \in queue'.remove <=> i \in queue.remove)
    BY <1>7, <1>9
  <2>6. Added(i)' <=> Added(i)
    BY <2>5 DEF Added
  <2>7. EntryInv(i)'
    BY <2>1, <2>2, <2>4, <2>5 DEF TimerTaskInv, EntryInv, TasksOf
  <2>8. OnceInv(i)'
    BY <2>1, <2>2, <2>4, <2>6 DEF TimerTaskInv, OnceInv, TasksOf
  <2>9. CycleInv(i)'
    BY <2>1, <2>2, <2>3, <2>4, <2>5, <2>6 DEF TimerTaskInv, CycleInv, TasksOf
  <2>10. DueInv(i)'
    BY <1>2, <2>1, <2>2, <2>3 DEF TimerTaskInv, DueInv
  <2> QED BY <2>7, <2>8, <2>9, <2>10 DEF TimerTaskInv
<1>10. TimerTaskInv(id)'
  <2>1. fired'[id] = 0 /\ base'[id] = now /\ now' = now /\ clock' = clock
    BY <1>1, <1>2, <1>4
  <2>2. id \notin queue'.add /\ id \notin queue'.remove
    BY <1>4, <1>7
  <2>3. \A n \in wheel' : n.id = id => n \in new
    BY <1>3, <1>4 DEF TasksOf
  <2>4. Delay(id) > 0 /\ cyc # 0 => id \in TasksOf(wheel')
    <3>1. SUFFICES ASSUME Delay(id) > 0, cyc # 0 PROVE id \in TasksOf(wheel')
      OBVIOUS
    <3>2. PICK n : n \in new
      BY <1>5, <3>1, TaskType
    <3> QED BY <1>3, <1>5, <3>2 DEF TasksOf
  <2>5. EntryInv(id)'
    BY <2>2 DEF EntryInv
  <2>6. OnceInv(id)'
    BY <2>1, <2>4 DEF OnceInv, Added, TasksOf
  <2>7. CycleInv(id)'
    <3>1. SUFFICES ASSUME Added(id)', Short(id), cyc > 1
                   PROVE  /\ id \in TasksOf(wheel')
                          /\ \A n \in wheel' : n.id = id =>
                               n.cyc >= 1 /\ registered'[id] = n.cyc /\ fired'[id] + n.cyc = cyc
      BY DEF CycleInv, TasksOf
    <3>2. Delay(id) > 0
      BY <3>1 DEF Added
    <3>3. id \in TasksOf(wheel')
      BY <1>1, <2>4, <3>1, <3>2
    <3>4. registered'[id] = cyc
      BY <1>1, <1>2, <3>1
    <3>5. ASSUME NEW n \in wheel', n.id = id
          PROVE n.cyc >= 1 /\ registered'[id] = n.cyc /\ fired'[id] + n.cyc = cyc
      <4>1. n.cyc = cyc
        BY <1>5, <2>3, <3>5
      <4> QED BY <1>1, <2>1, <3>1, <3>4, <4>1
    <3> QED BY <3>3, <3>5
  <2>8. DueInv(id)'
    <3>1. SUFFICES ASSUME Short(id), NEW n \in wheel', n.id = id
                   PROVE  \E r \in 0..(SecSlots - 1) :
                            /\ n.slot = (clock'.s + r) % SecSlots
                            /\ now' + r + 1 = base'[id] + Delay(id) + (IF fired'[id] = 0 THEN 1 ELSE 0)
      BY DEF DueInv
    <3>2. Task(id).s = Delay(id) /\ Task(id).s \in 0..(SecSlots - 1) /\ clock.s \in 0..(SecSlots - 1)
      BY <1>1, <3>1, ShortTask, TaskType DEF Clocks
    <3>3. Delay(id) + clock.s = clock.s + Delay(id)
      BY <1>1, <3>2
    <3>4. n.slot = (clock'.s + Delay(id)) % SecSlots
      BY <1>5, <2>1, <2>3, <3>1, <3>2, <3>3
    <3>5. now' + Delay(id) + 1 = base'[id] + Delay(id) + (IF fired'[id] = 0 THEN 1 ELSE 0)
      BY <1>1, <2>1, <3>2
    <3> QED BY <3>2, <3>4, <3>5
  <2> QED BY <2>5, <2>6, <2>7, <2>8 DEF TimerTaskInv
<1> QED BY <1>6, <1>8, <1>9, <1>10 DEF WheelsInv, WheelOK

\* A removal forgets the task and leaves its node.
LEMMA RemoveStep ==
  ASSUME WheelsInv, NEW id \in Ids, RemoveTask(id)
  PROVE  WheelsInv'
<1>1. /\ id \notin queue.add /\ queue' = [queue EXCEPT !.remove = queue.remove \cup {id}]
      /\ registered' = [registered EXCEPT ![id] = 0]
      /\ UNCHANGED <<clock, wheel, now, base, fired>>
  BY DEF RemoveTask
<1>2. /\ registered \in [Ids -> Nat \cup {-1}]
      /\ queue \in [add : SUBSET Ids, remove : SUBSET Ids]
  BY DEF WheelsInv, WheelShape
<1>3. queue'.add = queue.add /\ queue'.remove = queue.remove \cup {id}
  BY <1>1, <1>2
<1>4. WheelShape'
  <2>1. registered' \in [Ids -> Nat \cup {-1}]
    BY <1>1, <1>2
  <2>2. queue' \in [add : SUBSET Ids, remove : SUBSET Ids]
    BY <1>1, <1>2
  <2> QED BY <1>1, <2>1, <2>2 DEF WheelsInv, WheelShape
<1>5. ASSUME NEW i \in Ids PROVE TimerTaskInv(i)'
  <2>1. TimerTaskInv(i) /\ (Added(i)' <=> Added(i))
    BY <1>3 DEF WheelsInv, Added
  <2>2. registered'[i] = IF i = id THEN 0 ELSE registered[i]
    BY <1>1, <1>2
  <2>3. EntryInv(i)'
    BY <1>1, <1>3, <2>1, <2>2 DEF TimerTaskInv, EntryInv, TasksOf
  <2>4. OnceInv(i)'
    BY <1>1, <2>1 DEF TimerTaskInv, OnceInv, TasksOf
  <2>5. CycleInv(i)'
    BY <1>1, <1>3, <2>1, <2>2 DEF TimerTaskInv, CycleInv, TasksOf
  <2>6. DueInv(i)'
    BY <1>1, <2>1 DEF TimerTaskInv, DueInv
  <2> QED BY <2>3, <2>4, <2>5, <2>6 DEF TimerTaskInv
<1> QED BY <1>1, <1>4, <1>5 DEF WheelsInv, WheelOK

\* Every step keeps the invariant.
LEMMA WheelsStep == WheelsInv /\ [TimerNext]_timerVars => WheelsInv'
<1> SUFFICES ASSUME WheelsInv, [TimerNext]_timerVars PROVE WheelsInv'
  OBVIOUS
<1>1. CASE Tick
  BY <1>1, TickStep
<1>2. CASE \E id \in Ids : Register(id) \/ RemoveTask(id)
  BY <1>2, RegisterStep, RemoveStep
<1>3. CASE UNCHANGED timerVars
  <2>1. UNCHANGED <<clock, wheel, registered, queue, now, base, fired>>
    BY <1>3 DEF timerVars
  <2>2. ASSUME NEW id \in Ids PROVE TimerTaskInv(id)'
    BY <2>1 DEF WheelsInv, TimerTaskInv, EntryInv, OnceInv, CycleInv, DueInv, Added, TasksOf
  <2>3. WheelShape' /\ WheelOK(wheel')
    BY <2>1 DEF WheelsInv, WheelShape
  <2> QED BY <2>2, <2>3 DEF WheelsInv, WheelOK
<1> QED BY <1>1, <1>2, <1>3 DEF TimerNext

\* The invariant holds in every reachable state.
LEMMA WheelsAlways == TimerSpec => []WheelsInv
<1>1. TimerInit => WheelsInv
  BY InitWheels
<1>2. WheelsInv /\ [TimerNext]_timerVars => WheelsInv'
  BY WheelsStep
<1> QED BY <1>1, <1>2, PTL DEF TimerSpec

\* A task with no node has an empty set of nodes, one with a node a single one.
LEMMA NodesCount ==
  ASSUME NEW W, WheelOK(W), NEW id
  PROVE  /\ id \notin TasksOf(W) => {n \in W : n.id = id} = {}
         /\ \A n \in W : n.id = id => {m \in W : m.id = id} = {n}
<1>1. id \notin TasksOf(W) => {n \in W : n.id = id} = {}
  BY DEF TasksOf
<1>2. \A n \in W : n.id = id => {m \in W : m.id = id} = {n}
  BY DEF WheelOK
<1> QED BY <1>1, <1>2

\* Whatever is registered, removed and waited for, and whatever the sizes of the
\* wheels: nodes are in slots the wheels have, a one-time task is in exactly
\* one slot until it has run once, and the runs of a short repeated task and
\* the cycles of its node add up (Timer::tick and its checks of the wheels).
THEOREM NoRunLostOrAdded == TimerSpec => []TimerInv
<1>1. ASSUME WheelsInv PROVE TimerInv
  <2>1. TimerTypeOK
    <3>1. wheel \subseteq Node
      BY <1>1 DEF WheelsInv, WheelOK, NodeOK
    <3>2. \A n \in wheel : n.slot < (IF n.in = "second" THEN SecSlots
                                     ELSE IF n.in = "minute" THEN MinSlots ELSE HourSlots)
      BY <1>1 DEF WheelsInv, WheelOK, NodeOK, Slots
    <3> QED BY <1>1, <3>1, <3>2 DEF WheelsInv, WheelShape, TimerTypeOK
  <2>2. OnceRunsOnce
    <3>1. SUFFICES ASSUME NEW id \in Ids, Added(id), Request[id].cyc = 1
                   PROVE  Cardinality(Nodes(id)) + fired[id] = 1
      BY DEF OnceRunsOnce
    <3>2. IF id \in TasksOf(wheel) THEN fired[id] = 0 ELSE fired[id] = 1
      BY <1>1, <3>1 DEF WheelsInv, TimerTaskInv, OnceInv
    <3>3. CASE id \in TasksOf(wheel)
      <4>1. PICK n \in wheel : n.id = id
        BY <3>3 DEF TasksOf
      <4>2. Nodes(id) = {n}
        BY <1>1, <4>1, NodesCount DEF Nodes, WheelsInv
      <4>3. Cardinality(Nodes(id)) = 1
        BY <4>2, FS_Singleton
      <4> QED BY <3>2, <3>3, <4>3
    <3>4. CASE id \notin TasksOf(wheel)
      <4>1. Nodes(id) = {}
        BY <1>1, <3>4, NodesCount DEF Nodes, WheelsInv
      <4>2. Cardinality(Nodes(id)) = 0
        BY <4>1, FS_EmptySet
      <4> QED BY <3>2, <3>4, <4>2
    <3> QED BY <3>3, <3>4
  <2>3. CyclesAddUp
    <3>1. SUFFICES ASSUME NEW id \in Ids, Added(id), Short(id), Request[id].cyc > 1, id \notin queue.remove
                   PROVE  \/ \E n \in Nodes(id) : Nodes(id) = {n} /\ fired[id] + n.cyc = Request[id].cyc
                          \/ Nodes(id) = {} /\ fired[id] = Request[id].cyc
      BY DEF CyclesAddUp
    <3>2. /\ id \notin TasksOf(wheel) => fired[id] = Request[id].cyc
          /\ \A n \in wheel : n.id = id => fired[id] + n.cyc = Request[id].cyc
      BY <1>1, <3>1 DEF WheelsInv, TimerTaskInv, CycleInv
    <3>3. CASE id \in TasksOf(wheel)
      <4>1. PICK n \in wheel : n.id = id
        BY <3>3 DEF TasksOf
      <4>2. Nodes(id) = {n}
        BY <1>1, <4>1, NodesCount DEF Nodes, WheelsInv
      <4> QED BY <3>2, <4>1, <4>2
    <3>4. CASE id \notin TasksOf(wheel)
      BY <1>1, <3>2, <3>4, NodesCount DEF Nodes, WheelsInv
    <3> QED BY <3>3, <3>4
  <2> QED BY <2>1, <2>2, <2>3 DEF TimerInv
<1> QED BY <1>1, WheelsAlways, PTL

\* A removed task of less than a minute runs at most once more, whatever its
\* delay and cycle number: repeatTimerTask asks mRegisteredTasks, from which
\* eraseTimerTask took it, before it adds a node again.
THEOREM RemovalStops == TimerSpec => RemovedStops
<1>1. ASSUME WheelsInv, [TimerNext]_timerVars, NEW id \in queue.remove, Short(id)
      PROVE  /\ Cardinality({n \in wheel' : n.id = id}) <= Cardinality(Nodes(id))
             /\ fired'[id] > fired[id] => {n \in wheel' : n.id = id} = {}
  <2> DEFINE after == {n \in wheel' : n.id = id}
  <2>1. id \in Ids /\ registered[id] = 0 /\ id \notin queue.add /\ fired[id] \in Nat
    BY <1>1 DEF WheelsInv, WheelShape, TimerTaskInv, EntryInv
  <2>2. IsFiniteSet(Nodes(id))
    <3>1. CASE id \in TasksOf(wheel)
      <4>1. PICK n \in wheel : n.id = id
        BY <3>1 DEF TasksOf
      <4>2. Nodes(id) = {n}
        BY <1>1, <4>1, NodesCount DEF Nodes, WheelsInv
      <4> QED BY <4>2, FS_Singleton
    <3>2. CASE id \notin TasksOf(wheel)
      <4>1. Nodes(id) = {}
        BY <1>1, <3>2, NodesCount DEF Nodes, WheelsInv
      <4> QED BY <4>1, FS_EmptySet
    <3> QED BY <3>1, <3>2
  <2>3. after \subseteq Nodes(id) /\ (fired'[id] > fired[id] => after = {})
    <3>1. CASE Tick
      <4>1. PICK ids : TickOf(ids)
        BY <1>1, <3>1, TickPasses
      <4>2. fired'[id] = IF id \in ids THEN fired[id] + 1 ELSE fired[id]
        BY <1>1, <2>1, <3>1, <4>1, TickCounts
      <4>3. \A v \in wheel' : v.id = id =>
              \/ v \in wheel /\ id \notin ids
              \/ id \in ids /\ \E n \in wheel : n.id = id /\ Repeats(n)
        BY <1>1, <2>1, <3>1, <4>1, ShortTick
      <4>4. \A n \in wheel : n.id = id => ~Repeats(n)
        BY <2>1 DEF Repeats
      <4>5. \A v \in wheel' : v.id = id => v \in wheel /\ id \notin ids
        BY <4>3, <4>4
      <4>6. after \subseteq Nodes(id)
        BY <4>5 DEF Nodes
      <4>7. fired'[id] > fired[id] => after = {}
        BY <2>1, <4>2, <4>5
      <4> QED BY <4>6, <4>7
    <3>2. CASE \E i \in Ids : Register(i)
      <4>1. PICK i \in Ids : Register(i)
        BY <3>2
      <4>2. i # id /\ fired' = fired
        BY <2>1, <4>1 DEF Register
      <4>3. Request[i].cyc \in Nat \cup {-1} /\ clock \in Clocks
        BY <1>1, TimerAssumption DEF WheelsInv, WheelShape, Clocks
      <4>4. \A n \in NodeFor(i, Request[i].cyc, clock) : n.id = i
        BY <4>3, NodeForOK
      <4>5. \A n \in wheel' : n.id = id => n \in wheel
        BY <4>1, <4>2, <4>4 DEF Register
      <4>6. after \subseteq Nodes(id)
        BY <4>5 DEF Nodes
      <4> QED BY <2>1, <4>2, <4>6
    <3>3. CASE (\E i \in Ids : RemoveTask(i)) \/ UNCHANGED timerVars
      <4>1. wheel' = wheel /\ fired' = fired
        BY <3>3 DEF RemoveTask, timerVars
      <4> QED BY <2>1, <4>1 DEF Nodes
    <3> QED BY <1>1, <3>1, <3>2, <3>3 DEF TimerNext
  <2> HIDE DEF after
  <2>4. Cardinality(after) <= Cardinality(Nodes(id))
    BY <2>2, <2>3, FS_Subset
  <2> QED BY <2>3, <2>4 DEF after
<1>2. WheelsInv /\ [TimerNext]_timerVars =>
        [\A id \in queue.remove : Short(id) =>
           /\ Cardinality({n \in wheel' : n.id = id}) <= Cardinality(Nodes(id))
           /\ fired'[id] > fired[id] => {n \in wheel' : n.id = id} = {}]_timerVars
  BY <1>1
<1> QED BY <1>2, WheelsAlways, PTL DEF TimerSpec, RemovedStops

\* Tasks of less than a minute run when their delay is over, the first time and
\* each time they are repeated, whatever the size of the second wheel: TimerTask
\* and the tick thread count the same seconds.
THEOREM ShortOnTime == TimerSpec => ShortRunsOnTime
<1>1. ASSUME WheelsInv, [TimerNext]_timerVars, now' > now, NEW id \in Ids, Short(id) PROVE RunsOnTime(id)
  <2>1. Tick
    <3>1. now \in Nat
      BY <1>1, TimerAssumption DEF WheelsInv, WheelShape
    <3>2. now' # now
      BY <1>1, <3>1
    <3> QED BY <1>1, <3>2 DEF TimerNext, Register, RemoveTask, timerVars
  <2>2. PICK ids : TickOf(ids)
    BY <1>1, <2>1, TickPasses
  <2>3. /\ fired'[id] = (IF id \in ids THEN fired[id] + 1 ELSE fired[id])
        /\ now' = now + 1 /\ fired[id] \in Nat /\ base[id] \in Nat /\ now \in Nat
        /\ clock.s \in 0..(SecSlots - 1)
    BY <1>1, <2>1, <2>2, TickCounts
  <2>4. SecSlots \in Nat \ {0} /\ Delay(id) \in Nat
    BY TimerAssumption, TaskType
  <2> DEFINE slack == IF fired[id] = 0 THEN 1 ELSE 0
  <2>5. ASSUME NEW n \in wheel, n.id = id
        PROVE  \E r \in 0..(SecSlots - 1) : /\ now + r + 1 = base[id] + Delay(id) + slack
                                            /\ n.slot = clock.s <=> r = 0
    <3>1. PICK r \in 0..(SecSlots - 1) : /\ n.slot = (clock.s + r) % SecSlots
                                         /\ now + r + 1 = base[id] + Delay(id) + slack
      BY <1>1, <2>5 DEF WheelsInv, TimerTaskInv, DueInv
    <3>2. n.slot = clock.s <=> r = 0
      <4> DEFINE c == clock.s
                 m == (c + r) % SecSlots
      <4>1. c \in 0..(SecSlots - 1) /\ n.slot = m
        BY <2>3, <3>1
      <4>2. m = c <=> r = 0
        <5> HIDE DEF c
        <5> QED BY <2>4, <4>1, ThisSlot
      <4> HIDE DEF m
      <4> QED BY <4>1, <4>2
    <3> QED BY <3>1, <3>2
  <2>6. ASSUME fired'[id] > fired[id]
        PROVE  now' - base[id] \in Delay(id)..(Delay(id) + slack)
    <3>1. id \in ids
      BY <2>3, <2>6
    <3>2. PICK n \in wheel : n.id = id
      BY <2>2, <3>1 DEF TickOf, TasksOf
    <3>3. n.slot = clock.s
      BY <1>1, <2>1, <2>2, <3>1, <3>2, ShortTick
    <3>4. now + 0 + 1 = base[id] + Delay(id) + slack
      BY <2>5, <3>2, <3>3
    <3> QED BY <2>3, <2>4, <3>4
  <2>7. ASSUME Nodes(id) # {}, fired'[id] = fired[id]
        PROVE  now' - base[id] < Delay(id) + slack
    <3>1. id \notin ids
      BY <2>3, <2>7
    <3>2. PICK n \in wheel : n.id = id
      BY <2>7 DEF Nodes
    <3>3. n.slot # clock.s
      BY <1>1, <2>1, <2>2, <3>1, <3>2, ShortTick
    <3>4. PICK r \in 0..(SecSlots - 1) : now + r + 1 = base[id] + Delay(id) + slack /\ r # 0
      BY <2>5, <3>2, <3>3
    <3> QED BY <2>3, <2>4, <3>4
  <2> QED BY <2>6, <2>7 DEF RunsOnTime
<1>2. WheelsInv /\ [TimerNext]_timerVars => [now' > now => \A id \in Ids : Short(id) => RunsOnTime(id)]_timerVars
  BY <1>1
<1> QED BY <1>2, WheelsAlways, PTL DEF TimerSpec, ShortRunsOnTime
=============================================================================
