----------------------------- MODULE Threadpool -----------------------------
(***************************************************************************)
(* The thread pool.  Tasks are added to one queue; every thread moves some *)
(* of them to a queue of its own, more the emptier that is, and runs them. *)
(* The first thread's results, the ratios of waiting to service time, go   *)
(* to the pool's thread, which on each timeout of a timer task adjusts the *)
(* number of threads to their mean: it makes threads, which start to run   *)
(* before they are linked to the queue, and cancels threads while they     *)
(* run.  The commands of RThread that the pool never gives (STOP, RESUME,  *)
(* CANCEL, UPDATE_DATA) are left out, and so are tasks without a result.   *)
(***************************************************************************)
EXTENDS Naturals, Sequences, SequencesExt, FiniteSets

CONSTANTS Ratios,      \* what the tasks return, in the order they are added
          HardwareNum, \* mHardwareNum
          MaxNum,      \* mMaxNum
          MaxLoad,     \* mMaxLoadSize
          MaxTimeouts, \* bound on the timeouts of the adjusting task
          MaxThreads   \* bound on the size of mThreads

Tasks == DOMAIN Ratios

ASSUME PoolAssumption ==
  /\ Ratios \in Seq(Nat)
  /\ HardwareNum \in Nat \ {0}
  /\ MaxNum \in Nat /\ MaxNum >= HardwareNum
  /\ MaxLoad \in Nat \ {0}
  /\ MaxTimeouts \in Nat /\ MaxThreads \in Nat

VARIABLES tasks,    \* mTasks: the pool's queue
          results,  \* mResults
          thd,      \* mThreads: a sequence of threads
          active,   \* mActiveNum
          timeout,  \* mAdjustThdNumTimeout
          pool,     \* the pool's thread (at first, the constructor)
          added,    \* tasks added so far
          ran,      \* Tasks -> how often the task ran
          cleared,  \* tasks destroyed with the queue of a thread
          timeouts, \* timeouts so far
          early,    \* the timer fired when no result was in since the last adjustment
          crash     \* what ended the process, or "no"

vars == <<tasks, results, thd, active, timeout, pool, added, ran, cleared, timeouts, early, crash>>
workVars == <<active, timeout, pool, added, cleared, timeouts, early, crash>>

\* linked: mExternalTasksPtr; p: the worker's copy of it; local: mTasks.
NewThread == [pc |-> "new", linked |-> FALSE, p |-> FALSE, local |-> <<>>,
              running |-> FALSE, wipe |-> FALSE, inactive |-> FALSE]

\* at, left, grown: the loops of expandThreads and shrinkThreads; total, n: work.
Constructing == [pc |-> "construct", at |-> 0, left |-> 0, grown |-> 0, total |-> 0, n |-> 0]

Init ==
  /\ tasks = <<>> /\ results = <<>> /\ thd = <<>>
  /\ active = HardwareNum
  /\ timeout = FALSE
  /\ pool = Constructing
  /\ added = 0
  /\ ran = [t \in Tasks |-> 0]
  /\ cleared = {}
  /\ timeouts = 0 /\ early = FALSE
  /\ crash = "no"

Constructed == pool.pc \notin {"construct", "linkFirst"}

-----------------------------------------------------------------------------
(* RThread::work *)

\* Thread SPECIAL_INDEX hands its results over; threads below mHardwareNum are
\* never replaced.
Captures(i) == i = 1 /\ Constructed

\* A task leaves a local queue and runs.
RunFirst(i) ==
  LET t == Head(thd[i].local)
  IN /\ ran' = [ran EXCEPT ![t] = @ + 1]
     /\ results' = IF Captures(i) THEN Append(results, Ratios[t]) ELSE results

\* The condition of the loop; p is gone with the scope of its body.
While(th) == [th EXCEPT !.p = FALSE, !.pc = IF th.running THEN "lock" ELSE "exit"]

\* The thread begins, whatever has been done to its object already.
Start(i) ==
  /\ thd[i].pc = "new"
  /\ thd' = [thd EXCEPT ![i].running = TRUE, ![i].pc = "loop"]
  /\ UNCHANGED <<tasks, results, ran, workVars>>

Enter(i) ==
  /\ thd[i].pc = "loop"
  /\ thd' = [thd EXCEPT ![i] = While(@)]
  /\ UNCHANGED <<tasks, results, ran, workVars>>

\* It locks the queue's pointer and runs a task of its own ...
RunLocal(i) ==
  /\ thd[i].pc = "lock" /\ thd[i].local # <<>>
  /\ RunFirst(i)
  /\ thd' = [thd EXCEPT ![i].p = thd[i].linked, ![i].local = Tail(@), ![i].pc = "add"]
  /\ UNCHANGED <<tasks, workVars>>

\* ... or ends at once, not marked inactive, if there is neither ...
Leave(i) ==
  /\ thd[i].pc = "lock" /\ thd[i].local = <<>> /\ ~thd[i].linked
  /\ thd' = [thd EXCEPT ![i].pc = "gone"]
  /\ UNCHANGED <<tasks, results, ran, workVars>>

\* ... or waits for a task ...
Wait(i) ==
  /\ thd[i].pc = "lock" /\ thd[i].local = <<>> /\ thd[i].linked
  /\ thd' = [thd EXCEPT ![i].p = TRUE, ![i].pc = "fetch"]
  /\ UNCHANGED <<tasks, results, ran, workVars>>

\* Mutant of Fetch: the task is taken and not put in the thread's queue.
FetchDropped(i) ==
  /\ thd[i].pc = "fetch" /\ tasks # <<>>
  /\ tasks' = Tail(tasks)
  /\ thd' = [thd EXCEPT ![i].pc = "add"]
  /\ UNCHANGED <<results, ran, workVars>>

Fetch(i) ==
  /\ thd[i].pc = "fetch" /\ tasks # <<>>
  /\ tasks' = Tail(tasks)
  /\ thd' = [thd EXCEPT ![i].local = <<Head(tasks)>>, ![i].pc = "add"]
  /\ UNCHANGED <<results, ran, workVars>>

\* ... for three seconds.
FetchTimeout(i) ==
  /\ thd[i].pc = "fetch" /\ tasks = <<>>
  /\ thd' = [thd EXCEPT ![i].pc = "add"]
  /\ UNCHANGED <<tasks, results, ran, workVars>>

\* addByLevel: mMiddleweight below a load of 0.2, mLightweight below 0.8.
Weight(load) ==
  CASE 10 * load >= 8 * MaxLoad -> 0
    [] 10 * load < 2 * MaxLoad  -> MaxLoad \div 2
    [] OTHER                    -> MaxLoad \div 4

Least(a, b) == IF a <= b THEN a ELSE b

\* Mutant of Add: the moved tasks stay in the pool's queue.
AddCopied(i) ==
  /\ thd[i].pc = "add"
  /\ LET k == IF thd[i].p THEN Least(Weight(Len(thd[i].local)), Len(tasks)) ELSE 0
     IN thd' = [thd EXCEPT ![i] = While([thd[i] EXCEPT !.local = thd[i].local \o SubSeq(tasks, 1, k)])]
  /\ UNCHANGED <<tasks, results, ran, workVars>>

\* popN takes what there is, under the queue's lock.
Add(i) ==
  /\ thd[i].pc = "add"
  /\ LET k == IF thd[i].p THEN Least(Weight(Len(thd[i].local)), Len(tasks)) ELSE 0
     IN /\ tasks' = SubSeq(tasks, k + 1, Len(tasks))
        /\ thd' = [thd EXCEPT ![i] = While([thd[i] EXCEPT !.local = thd[i].local \o SubSeq(tasks, 1, k)])]
  /\ UNCHANGED <<results, ran, workVars>>

\* After the loop: "if (mWipe)" what is left is run.
Exit(i) ==
  /\ thd[i].pc = "exit"
  /\ thd' = [thd EXCEPT ![i].pc = IF thd[i].wipe THEN "drain" ELSE "done",
                        ![i].inactive = ~thd[i].wipe]
  /\ UNCHANGED <<tasks, results, ran, workVars>>

Drain(i) ==
  /\ thd[i].pc = "drain" /\ thd[i].local # <<>>
  /\ RunFirst(i)
  /\ thd' = [thd EXCEPT ![i].local = Tail(@)]
  /\ UNCHANGED <<tasks, workVars>>

Drained(i) ==
  /\ thd[i].pc = "drain" /\ thd[i].local = <<>>
  /\ thd' = [thd EXCEPT ![i].pc = "done", ![i].inactive = TRUE]
  /\ UNCHANGED <<tasks, results, ran, workVars>>

Work(i) ==
  /\ crash = "no"
  /\ \/ Start(i) \/ Enter(i) \/ RunLocal(i) \/ Leave(i) \/ Wait(i) \/ Fetch(i) \/ FetchTimeout(i)
     \/ Add(i) \/ Exit(i) \/ Drain(i) \/ Drained(i)

-----------------------------------------------------------------------------
(* The pool: the constructor, work and getExpectationAndAdjust *)

poolVars == <<tasks, added, ran, timeouts, early>>

\* A thread runs as soon as it is made; linkExternalTasks comes after.
Make(i, pc) ==
  /\ thd' = IF i <= Len(thd) THEN [thd EXCEPT ![i] = NewThread] ELSE Append(thd, NewThread)
  /\ pool' = [pool EXCEPT !.pc = pc, !.at = i]

Construct ==
  /\ pool.pc = "construct" /\ Len(thd) < HardwareNum
  /\ Make(Len(thd) + 1, "linkFirst")
  /\ UNCHANGED <<poolVars, results, active, timeout, cleared, crash>>

LinkFirst ==
  /\ pool.pc = "linkFirst"
  /\ thd' = [thd EXCEPT ![pool.at].linked = TRUE]
  /\ pool' = IF Len(thd) < HardwareNum THEN [pool EXCEPT !.pc = "construct"]
                                       ELSE [Constructing EXCEPT !.pc = "top"]
  /\ UNCHANGED <<poolVars, results, active, timeout, cleared, crash>>

\* mAdjustThdNumTimeout is read to call getExpectationAndAdjust.
ReadTimeout ==
  /\ pool.pc = "top"
  /\ pool' = [pool EXCEPT !.pc = IF timeout THEN "adjust" ELSE "pop"]
  /\ UNCHANGED <<poolVars, results, thd, active, timeout, cleared, crash>>

\* Mutant of PopResult: pop instead of waitAndPop.
PopResultNow ==
  /\ pool.pc = "pop"
  /\ results' = IF results = <<>> THEN <<>> ELSE Tail(results)
  /\ pool' = IF results = <<>> THEN [pool EXCEPT !.pc = "top"]
             ELSE [pool EXCEPT !.pc = "top", !.total = @ + Head(results), !.n = @ + 1]
  /\ UNCHANGED <<poolVars, thd, active, timeout, cleared, crash>>

\* waitAndPop: for as long as it takes.
PopResult ==
  /\ pool.pc = "pop" /\ results # <<>>
  /\ results' = Tail(results)
  /\ pool' = [pool EXCEPT !.pc = "top", !.total = @ + Head(results), !.n = @ + 1]
  /\ UNCHANGED <<poolVars, thd, active, timeout, cleared, crash>>

\* "total / n"
Divide ==
  /\ pool.pc = "adjust" /\ pool.n = 0
  /\ crash' = "division"
  /\ UNCHANGED <<poolVars, results, thd, active, timeout, pool, cleared>>

Expectation == HardwareNum * (1 + pool.total \div pool.n)

\* expandThreads and shrinkThreads are entered, or neither.
Adjust ==
  /\ pool.pc = "adjust" /\ pool.n > 0
  /\ pool' = CASE Expectation > active ->
                    [pool EXCEPT !.pc = "fill", !.at = HardwareNum + 1, !.grown = 0,
                                 !.left = Least(Expectation, MaxNum) - active]
               [] Expectation < active -> [pool EXCEPT !.pc = "cancel", !.at = active, !.left = Expectation]
               [] OTHER -> [pool EXCEPT !.pc = "reset"]
  /\ UNCHANGED <<poolVars, results, thd, active, timeout, cleared, crash>>

\* expandThreads: threads from mHardwareNum to mActiveNum that are inactive are
\* replaced, and their queues go with them.
FillHole ==
  /\ pool.pc = "fill" /\ pool.at <= active /\ thd[pool.at].inactive
  /\ cleared' = cleared \cup ToSet(thd[pool.at].local)
  /\ Make(pool.at, "linkHole")
  /\ UNCHANGED <<poolVars, results, active, timeout, crash>>

\* n may wrap around here: then the second loop makes threads until it fails.
LinkHole ==
  /\ pool.pc = "linkHole"
  /\ thd' = [thd EXCEPT ![pool.at].linked = TRUE]
  /\ pool' = [pool EXCEPT !.pc = "fill", !.at = @ + 1, !.left = IF @ > 0 THEN @ - 1 ELSE @,
                          !.grown = @ + 1]
  /\ crash' = IF pool.left = 0 THEN "threads" ELSE crash
  /\ UNCHANGED <<poolVars, results, active, timeout, cleared>>

\* Mutant of SkipThread: a thread that is passed by counts as made.
SkipThreadCounted ==
  /\ pool.pc = "fill" /\ pool.at <= active /\ ~thd[pool.at].inactive
  /\ pool' = [pool EXCEPT !.at = @ + 1, !.grown = @ + 1]
  /\ UNCHANGED <<poolVars, results, thd, active, timeout, cleared, crash>>

SkipThread ==
  /\ pool.pc = "fill" /\ pool.at <= active /\ ~thd[pool.at].inactive
  /\ pool' = [pool EXCEPT !.at = @ + 1]
  /\ UNCHANGED <<poolVars, results, thd, active, timeout, cleared, crash>>

PushThread ==
  /\ pool.pc = "fill" /\ pool.at > active /\ pool.left > 0
  /\ Len(thd) < MaxThreads
  /\ thd' = Append(thd, NewThread)
  /\ pool' = [pool EXCEPT !.pc = "linkNew"]
  /\ UNCHANGED <<poolVars, results, active, timeout, cleared, crash>>

LinkNew ==
  /\ pool.pc = "linkNew"
  /\ thd' = [thd EXCEPT ![Len(thd)].linked = TRUE]
  /\ pool' = [pool EXCEPT !.pc = "fill", !.left = @ - 1, !.grown = @ + 1]
  /\ UNCHANGED <<poolVars, results, active, timeout, cleared, crash>>

Expanded ==
  /\ pool.pc = "fill" /\ pool.at > active /\ pool.left = 0
  /\ active' = active + pool.grown
  /\ pool' = [pool EXCEPT !.pc = "reset"]
  /\ UNCHANGED <<poolVars, results, thd, timeout, cleared, crash>>

\* shrinkThreads: cancelWhenComplete for the threads from the last active one
\* down, in three assignments.
CancelRunning ==
  /\ pool.pc = "cancel" /\ pool.at > pool.left
  /\ thd' = [thd EXCEPT ![pool.at].running = FALSE]
  /\ pool' = [pool EXCEPT !.pc = "wipe"]
  /\ UNCHANGED <<poolVars, results, active, timeout, cleared, crash>>

\* Mutant of CancelWipe: mWipe is not set.
CancelNoWipe ==
  /\ pool.pc = "wipe"
  /\ pool' = [pool EXCEPT !.pc = "unlink"]
  /\ UNCHANGED <<poolVars, results, thd, active, timeout, cleared, crash>>

CancelWipe ==
  /\ pool.pc = "wipe"
  /\ thd' = [thd EXCEPT ![pool.at].wipe = TRUE]
  /\ pool' = [pool EXCEPT !.pc = "unlink"]
  /\ UNCHANGED <<poolVars, results, active, timeout, cleared, crash>>

CancelUnlink ==
  /\ pool.pc = "unlink"
  /\ thd' = [thd EXCEPT ![pool.at].linked = FALSE]
  /\ pool' = [pool EXCEPT !.pc = "cancel", !.at = @ - 1]
  /\ UNCHANGED <<poolVars, results, active, timeout, cleared, crash>>

Shrunk ==
  /\ pool.pc = "cancel" /\ pool.at = pool.left
  /\ active' = pool.left
  /\ pool' = [pool EXCEPT !.pc = "reset"]
  /\ UNCHANGED <<poolVars, results, thd, timeout, cleared, crash>>

\* total = n = 0; resetAdjustThdNumTimeout, whatever fired since it was read.
Reset ==
  /\ pool.pc = "reset"
  /\ timeout' = FALSE
  /\ pool' = [Constructing EXCEPT !.pc = "top"]
  /\ UNCHANGED <<poolVars, results, thd, active, cleared, crash>>

PoolStep ==
  /\ crash = "no"
  /\ \/ Construct \/ LinkFirst \/ ReadTimeout \/ PopResult \/ Divide \/ Adjust
     \/ FillHole \/ LinkHole \/ SkipThread \/ PushThread \/ LinkNew \/ Expanded
     \/ CancelRunning \/ CancelWipe \/ CancelUnlink \/ Shrunk \/ Reset

-----------------------------------------------------------------------------
(* The user's thread and the timer's *)

AddTask ==
  /\ crash = "no" /\ Constructed /\ added < Len(Ratios)
  /\ added' = added + 1
  /\ tasks' = Append(tasks, added + 1)
  /\ UNCHANGED <<results, thd, active, timeout, pool, ran, cleared, timeouts, early, crash>>

\* adjustThdNumTimeoutNotify
TimerFires ==
  /\ crash = "no" /\ Constructed /\ timeouts < MaxTimeouts
  /\ timeouts' = timeouts + 1
  /\ timeout' = TRUE
  /\ early' = (early \/ (pool.pc = "top" /\ pool.n = 0))
  /\ UNCHANGED <<tasks, results, thd, active, pool, added, ran, cleared, crash>>

Next == (\E i \in DOMAIN thd : Work(i)) \/ PoolStep \/ AddTask \/ TimerFires

\* The pool's thread and its workers run on; tasks and timeouts may stop.
Spec == Init /\ [][Next]_vars /\ WF_vars(PoolStep) /\ \A i \in 1..MaxThreads : WF_vars(i \in DOMAIN thd /\ Work(i))

-----------------------------------------------------------------------------
(* Properties *)

TypeOK ==
  /\ tasks \in Seq(Tasks) /\ results \in Seq(Nat)
  /\ \A i \in DOMAIN thd :
       /\ thd[i].pc \in {"new", "loop", "lock", "fetch", "add", "exit", "drain", "done", "gone"}
       /\ {thd[i].linked, thd[i].p, thd[i].running, thd[i].wipe, thd[i].inactive} \subseteq BOOLEAN
       /\ thd[i].local \in Seq(Tasks)
  /\ active \in HardwareNum..MaxNum
  /\ crash \in {"no", "division", "threads"}

Count(q, t) == Cardinality({i \in DOMAIN q : q[i] = t})

\* Every task is in one place: in the pool's queue, in one thread's, run once,
\* or destroyed with a replaced thread.
OnePlace(t) ==
  LET holders == {i \in DOMAIN thd : Contains(thd[i].local, t)}
  IN /\ Count(tasks, t) + Cardinality(holders) + ran[t] + Cardinality(cleared \cap {t}) = 1
     /\ \A i \in holders : Count(thd[i].local, t) = 1

\* The thread that the pool has made and not yet linked to its queue.
Linking(i) ==
  \/ pool.pc \in {"linkFirst", "linkHole"} /\ i = pool.at
  \/ pool.pc = "linkNew" /\ i = Len(thd)

\* Threads that run, or begin to, and are not told to stop.
Serving == {i \in DOMAIN thd : ~thd[i].wipe /\ thd[i].pc \notin {"gone", "done"}}

\* Threads that ended although nobody told them to: none is ever replaced.
Quick == {i \in DOMAIN thd : ~thd[i].wipe /\ thd[i].pc = "gone"}

Shrinking == pool.pc \in {"cancel", "wipe", "unlink"}

\* The threads move tasks among their queues without losing or doubling one,
\* and mActiveNum (in shrinkThreads, what it is about to be) promises more
\* threads than serve by no more than the quick ones, although expandThreads and
\* shrinkThreads count by place and leave holes behind.
PoolInv ==
  /\ TypeOK
  /\ \A t \in 1..added : OnePlace(t)
  /\ Constructed => Cardinality(Serving) + Cardinality(Quick) >= IF Shrinking THEN pool.left ELSE active

\* "just inactive them when these threads finish the local tasks": a thread
\* that ends was told to stop and has run its tasks, unless it ends in the gap
\* of cancelWhenComplete between mRunning = false and mWipe = true, or found no
\* queue before linkExternalTasks: that is how a thread is quick.
FinishesLocalTasks ==
  [][\A i \in DOMAIN thd :
       thd[i].pc \notin {"gone", "done"} /\ thd'[i].pc \in {"gone", "done"}
         => \/ thd[i].wipe /\ thd[i].local = <<>>
            \/ pool.pc = "wipe" /\ pool.at = i
            \/ Linking(i) /\ thd[i].local = <<>>]_vars

\* The pool divides by the number of results, which is zero only if the timer
\* fires between the end of an adjustment and the next read of its flag: at any
\* other time waitAndPop comes before the division.
DivisionNeedsRace == crash = "division" => early

Stranded(t) == t \in cleared \/ \E i \in DOMAIN thd : thd[i].pc = "done" /\ Contains(thd[i].local, t)

\* Every task that is added runs, unless its thread was cancelled in that gap,
\* or every thread ran before it was linked and ended, or the process crashed.
TasksRun ==
  \A t \in Tasks :
    t <= added ~> \/ ran[t] > 0
                  \/ Stranded(t)
                  \/ \A i \in DOMAIN thd : thd[i].pc \in {"done", "gone"}
                  \/ crash # "no"
=============================================================================
