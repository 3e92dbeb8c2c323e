--------------------------- MODULE TimeWheelTimer ---------------------------
(***************************************************************************)
(* The time wheel: a second, a minute and an hour wheel whose slots hold   *)
(* timer nodes.  The register thread takes tasks from the entry queue, the *)
(* tick thread visits one slot of the second wheel per second and a slot   *)
(* of the minute and hour wheels when the lower wheel wraps.  Time is the  *)
(* number of seconds the tick thread has slept; a registration is one step *)
(* (it takes less than a second).                                          *)
(***************************************************************************)
EXTENDS Integers, FiniteSets

CONSTANTS Ids,       \* task ids (generateID)
          Request,   \* Ids -> [h, m, s, cyc]: the arguments of TimerTask
          SecSlots, MinSlots, HourSlots,  \* 60, 60 and 24
          MaxTicks   \* bound on the time

ASSUME TimerAssumption ==
  /\ SecSlots \in Nat \ {0, 1} /\ MinSlots \in Nat \ {0} /\ HourSlots \in Nat \ {0}
  /\ \A id \in Ids : /\ Request[id].h \in Nat /\ Request[id].m \in Nat /\ Request[id].s \in Nat
                     /\ Request[id].cyc \in Nat \cup {-1}
  /\ MaxTicks \in Nat

VARIABLES clock,      \* [h, m, s]: mHours, mMinutes, mSeconds
          wheel,      \* the nodes in the slots: [id, in, slot, min, sec, round, cyc]
          registered, \* mRegisteredTasks: Ids -> mCycleNumber, 0 when not there
          queue,      \* add: tasks still to be added; remove: removals that were taken
          now,        \* seconds slept
          base,       \* base[id]: when id was registered or fired last
          fired       \* fired[id]: how often the task ran

timerVars == <<clock, wheel, registered, queue, now, base, fired>>

\* TimerTask's constructor carries seconds into minutes and minutes into hours.
Task(id) ==
  LET r == Request[id]
      mins == r.m + r.s \div SecSlots
  IN [h |-> r.h + mins \div MinSlots, m |-> mins % MinSlots, s |-> r.s % SecSlots]

Delay(id) == (Task(id).h * MinSlots + Task(id).m) * SecSlots + Task(id).s

\* TimerTask::offset and TimerNode's constructor: the time of day a node is for.
\* The carry of the seconds goes into the hours only.
Offset(t, c) ==
  LET carryMin == (t.s + c.s) \div SecSlots
      carryHr == (t.m + c.m + carryMin) \div MinSlots
  IN [h |-> t.h + c.h + carryHr, m |-> (t.m + c.m) % MinSlots, s |-> (t.s + c.s) % SecSlots]

\* Mutant of NodeFor: the second wheel is off by one, like the other wheels.
NodeForEarly(id, cyc, c) ==
  LET t == Task(id)
      o == Offset(t, c)
      node(w, slot) == [id |-> id, in |-> w, slot |-> slot, min |-> o.m, sec |-> o.s,
                        round |-> o.h \div HourSlots, cyc |-> cyc]
  IN IF Delay(id) = 0 THEN {}
     ELSE IF t.h # 0 THEN {node("hour", (t.h + c.h - 1) % HourSlots)}
     ELSE IF t.m # 0 THEN {node("minute", (t.m + c.m - 1) % MinSlots)}
     ELSE {node("second", (t.s + c.s - 1) % SecSlots)}

\* addTimerNodeFor, with the clock c it reads: no node for a zero delay.
NodeFor(id, cyc, c) ==
  LET t == Task(id)
      o == Offset(t, c)
      node(w, slot) == [id |-> id, in |-> w, slot |-> slot, min |-> o.m, sec |-> o.s,
                        round |-> o.h \div HourSlots, cyc |-> cyc]
  IN IF Delay(id) = 0 THEN {}
     ELSE IF t.h # 0 THEN {node("hour", (t.h + c.h - 1) % HourSlots)}
     ELSE IF t.m # 0 THEN {node("minute", (t.m + c.m - 1) % MinSlots)}
     ELSE {node("second", (t.s + c.s) % SecSlots)}

TimerInit ==
  /\ clock = [h |-> 0, m |-> 0, s |-> 0]
  /\ wheel = {}
  /\ registered = [id \in Ids |-> 0]
  /\ queue = [add |-> Ids, remove |-> {}]
  /\ now = 0
  /\ base = [id \in Ids |-> 0]
  /\ fired = [id \in Ids |-> 0]

\* registerTask takes a new task from the entry queue: repetitive ones are
\* saved, one-time ones only pass by, cycle number 0 is a removal.
Register(id) ==
  /\ id \in queue.add
  /\ now < MaxTicks
  /\ queue' = [queue EXCEPT !.add = @ \ {id}]
  /\ registered' = [registered EXCEPT ![id] =
                      IF Request[id].cyc < 0 \/ Request[id].cyc > 1 THEN Request[id].cyc ELSE @]
  /\ wheel' = IF Request[id].cyc = 0 THEN wheel
              ELSE wheel \cup NodeFor(id, Request[id].cyc, clock)
  /\ base' = [base EXCEPT ![id] = now]
  /\ UNCHANGED <<clock, now, fired>>

\* Somebody adds a task with the same id and cycle number 0: eraseTimerTask.
\* The node stays in its slot.
RemoveTask(id) ==
  /\ id \notin queue.add /\ id \notin queue.remove
  /\ now < MaxTicks
  /\ queue' = [queue EXCEPT !.remove = @ \cup {id}]
  /\ registered' = [registered EXCEPT ![id] = 0]
  /\ UNCHANGED <<clock, wheel, now, base, fired>>

-----------------------------------------------------------------------------
(* The checks of one slot: what runs, what is moved, what is added again.     *)

InSlot(W, w, slot) == {n \in W : n.in = w /\ n.slot = slot}
ToSecond(n, slot) == [n EXCEPT !.in = "second", !.slot = slot]

\* repeatTimerTask of a fired node: one cycle less, and a new node.
RepeatsRemoved(n) == n.cyc # 1   \* mutant of Repeats: mRegisteredTasks is not asked
Repeats(n) == n.cyc # 1 /\ registered[n.id] # 0
CyclesLeft(n) == IF registered[n.id] > 0 THEN registered[n.id] - 1 ELSE registered[n.id]

\* checkSecondWheel: everything in the slot runs; then it is erased or repeated.
SecondRuns == InSlot(wheel, "second", clock.s)
AfterSecond ==
  (wheel \ SecondRuns) \cup
    UNION {NodeFor(n.id, CyclesLeft(n), clock) : n \in {x \in SecondRuns : Repeats(x)}}
SavedAfterSecond ==
  [id \in Ids |-> IF \E n \in SecondRuns : n.id = id
                  THEN LET n == CHOOSE x \in SecondRuns : x.id = id
                       IN IF n.cyc = 1 THEN 0 ELSE IF Repeats(n) THEN CyclesLeft(n) ELSE 0
                  ELSE registered[id]]

\* checkMinuteWheel: a node for a full minute runs, and is not repeated; one
\* with seconds goes to the second wheel.  mSeconds is SecSlots here.
MinuteSlot(W) == InSlot(W, "minute", clock.m)
MinuteRuns(W) == {n \in MinuteSlot(W) : n.sec = 0}
AfterMinuteErased(W) == W \ MinuteSlot(W)   \* mutant of AfterMinute: erased, not moved
AfterMinute(W) ==
  (W \ MinuteSlot(W)) \cup {ToSecond(n, n.sec) : n \in MinuteSlot(W) \ MinuteRuns(W)}

\* checkHourWheel: a node with rounds left stays; then to the minute wheel, to
\* the second wheel, or it runs, and is not repeated.
HourSlot(W) == InSlot(W, "hour", clock.h % HourSlots)
HourDue(W) == {n \in HourSlot(W) : n.round = 0}
HourRuns(W) == {n \in HourDue(W) : n.min = 0 /\ n.sec = 0}
HourMoved(n) == IF n.min > 0 THEN [n EXCEPT !.in = "minute", !.slot = n.min - 1]
                             ELSE ToSecond(n, n.sec)
AfterHour(W) ==
  (W \ HourSlot(W))
    \cup {[n EXCEPT !.round = @ - 1] : n \in HourSlot(W) \ HourDue(W)}
    \cup {HourMoved(n) : n \in HourDue(W) \ HourRuns(W)}

SecondWraps == clock.s = SecSlots - 1
MinuteWraps == SecondWraps /\ clock.m = MinSlots - 1

\* One second of tick().
Tick ==
  /\ now < MaxTicks
  /\ now' = now + 1
  /\ LET w1 == AfterSecond
         w2 == IF SecondWraps THEN AfterMinute(w1) ELSE w1
         w3 == IF MinuteWraps THEN AfterHour(w2) ELSE w2
         runs == SecondRuns \cup (IF SecondWraps THEN MinuteRuns(w1) ELSE {})
                            \cup (IF MinuteWraps THEN HourRuns(w2) ELSE {})
         ids == {n.id : n \in runs}
     IN /\ wheel' = w3
        /\ fired' = [id \in Ids |-> IF id \in ids THEN fired[id] + 1 ELSE fired[id]]
        /\ base' = [id \in Ids |-> IF id \in ids THEN now + 1 ELSE base[id]]
  /\ registered' = SavedAfterSecond
  /\ clock' = [h |-> IF MinuteWraps THEN clock.h + 1 ELSE clock.h,
               m |-> IF SecondWraps THEN (clock.m + 1) % MinSlots ELSE clock.m,
               s |-> (clock.s + 1) % SecSlots]
  /\ UNCHANGED queue

TimerNext == Tick \/ \E id \in Ids : Register(id) \/ RemoveTask(id)

TimerSpec == TimerInit /\ [][TimerNext]_timerVars

-----------------------------------------------------------------------------
(* Properties *)

Node == [id : Ids, in : {"second", "minute", "hour"}, slot : Nat, min : 0..(MinSlots - 1),
         sec : 0..(SecSlots - 1), round : Nat, cyc : Nat \cup {-1}]

\* Every variable has the shape the code gives it; a node is in a slot its
\* wheel has (mTimeWheel.at would throw).
TimerTypeOK ==
  /\ clock \in [h : Nat, m : 0..(MinSlots - 1), s : 0..(SecSlots - 1)]
  /\ wheel \subseteq Node
  /\ \A n \in wheel : n.slot < (IF n.in = "second" THEN SecSlots
                                ELSE IF n.in = "minute" THEN MinSlots ELSE HourSlots)
  /\ registered \in [Ids -> Nat \cup {-1}]
  /\ queue \in [add : SUBSET Ids, remove : SUBSET Ids]
  /\ now \in 0..MaxTicks
  /\ base \in [Ids -> 0..MaxTicks]
  /\ fired \in [Ids -> Nat]

Nodes(id) == {n \in wheel : n.id = id}
Short(id) == Delay(id) < SecSlots
Added(id) == id \notin queue.add /\ Delay(id) > 0

\* No task is lost on its way through the wheels and none is doubled: a
\* one-time task is in exactly one slot until it has run, once.
OnceRunsOnce ==
  \A id \in Ids : Added(id) /\ Request[id].cyc = 1 => Cardinality(Nodes(id)) + fired[id] = 1

\* A task of less than a minute with cycle number n runs n times unless it is
\* removed: what it ran and what its node still has to run add up to n.
CyclesAddUp ==
  \A id \in Ids : Added(id) /\ Short(id) /\ Request[id].cyc > 1 /\ id \notin queue.remove =>
    \/ \E n \in Nodes(id) : Nodes(id) = {n} /\ fired[id] + n.cyc = Request[id].cyc
    \/ Nodes(id) = {} /\ fired[id] = Request[id].cyc

\* The shape of the wheels, and that no run of a task is lost or added.
TimerInv == TimerTypeOK /\ OnceRunsOnce /\ CyclesAddUp

\* A removed task of less than a minute runs at most once more: its node is
\* left in the slot but not added again.
RemovedStops ==
  [][\A id \in queue.remove : Short(id) =>
       /\ Cardinality({n \in wheel' : n.id = id}) <= Cardinality(Nodes(id))
       /\ fired'[id] > fired[id] => {n \in wheel' : n.id = id} = {}]_timerVars

\* What "precision of second" allows: a task runs its delay after it was added
\* or ran last, one second later at most if it was added between two seconds.
RunsOnTime(id) ==
  LET waited == now' - base[id]
      slack == IF fired[id] = 0 THEN 1 ELSE 0
  IN /\ fired'[id] > fired[id] => waited \in Delay(id)..(Delay(id) + slack)
     /\ Nodes(id) # {} /\ fired'[id] = fired[id] => waited < Delay(id) + slack

\* Tasks of less than a minute run on time, first and repeated.
ShortRunsOnTime == [][now' > now => \A id \in Ids : Short(id) => RunsOnTime(id)]_timerVars

\* Timer.h: "Repetitive tasks will be saved and woken up at the right time
\* repeatedly": a saved task is in some slot.
SavedIsInTheWheel == \A id \in Ids : registered[id] # 0 /\ Delay(id) > 0 => Nodes(id) # {}
=============================================================================
