--------------------------- MODULE RegistryProofs ---------------------------
(***************************************************************************)
(* The registries of services and of scenes.  The center's map follows the *)
(* set of services, for any number of servers, any thresholds and any      *)
(* interleaving with registrations; a service that runs is not given up    *)
(* while everybody is prompt; and what SceneManager remembers, indexes and *)
(* sends players to agrees for any number of dedicated servers, scenes,    *)
(* ports and faults.                                                       *)
(***************************************************************************)
EXTENDS ServiceRegistry, SceneRegistry, TLAPS

-----------------------------------------------------------------------------
(* Services and the center *)


\* The key of no service differs from every service.
LEMMA NoServiceIsNone == NoService \notin Services
<1>1. \A s \in Services : s[2] \in 1..MaxSuffix
  BY DEF Services
<1>2. NoService[2] \notin 1..MaxSuffix
  BY DEF NoService
<1> QED
  BY <1>1, <1>2

\* One pass over a service that answers or not (ServiceRegistry::run).
LEMMA CheckKeeps ==
  ASSUME RegistryInv, NEW s \in Services, CenterCheck(s)
  PROVE  RegistryInv'
<1> USE RegistryAssumption DEF RegistryInv, TypeOK
<1>1. /\ center.pc = "loop" /\ s \in center.todo /\ s \in members
      /\ center.key = NoService
      /\ UNCHANGED <<members, ttl, index, proc, beats, suffix, crashes, restarts, late>>
  BY DEF CenterCheck, CenterFound, CenterMissed, CenterTracked
<1>2. \A t \in Services : known[t] < MissLimit /\ (known[t] >= 0 => t \in members)
  BY <1>1, NoServiceIsNone DEF KnownIsTracked
<1>3. CASE CenterFound(s)
  <2>1. known' = [known EXCEPT ![s] = 0] /\ center' = [center EXCEPT !.todo = @ \ {s}]
    BY <1>3 DEF CenterFound
  <2>2. TypeOK'
    BY <1>1, <2>1
  <2>3. KnownIsTracked'
    BY <1>1, <1>2, <2>1 DEF KnownIsTracked
  <2>4. CenterTracked'
    BY <1>1, <2>1 DEF CenterTracked
  <2> QED
    BY <2>2, <2>3, <2>4
<1>4. CASE CenterMissed(s)
  <2>1. Misses(s) \in 0..MissLimit
    BY <1>2 DEF Misses
  <2>2. known' = [known EXCEPT ![s] = Misses(s)]
    BY <1>4 DEF CenterMissed
  <2>3. CASE Misses(s) >= MissLimit
    <3>1. center' = [pc |-> "srem", todo |-> center.todo \ {s}, key |-> s]
      BY <1>4, <2>3 DEF CenterMissed
    <3>2. TypeOK'
      BY <1>1, <2>1, <2>2, <3>1
    <3>3. KnownIsTracked'
      BY <1>1, <1>2, <2>2, <3>1 DEF KnownIsTracked
    <3>4. CenterTracked'
      BY <1>1, <3>1 DEF CenterTracked
    <3> QED
      BY <3>2, <3>3, <3>4
  <2>4. CASE Misses(s) < MissLimit
    <3>1. center' = [center EXCEPT !.todo = @ \ {s}]
      BY <1>4, <2>1, <2>4 DEF CenterMissed
    <3>2. TypeOK'
      BY <1>1, <2>1, <2>2, <3>1
    <3>3. KnownIsTracked'
      BY <1>1, <1>2, <2>1, <2>2, <2>4, <3>1 DEF KnownIsTracked
    <3>4. CenterTracked'
      BY <1>1, <3>1 DEF CenterTracked
    <3> QED
      BY <3>2, <3>3, <3>4
  <2> QED
    BY <2>1, <2>3, <2>4
<1> QED
  BY <1>3, <1>4 DEF CenterCheck

\* The center's map has an entry only of a service that is in the set and below
\* the limit, however registrations, crashes and restarts interleave with a pass.
THEOREM CenterFollowsSet == Spec => []RegistryInv
<1> USE RegistryAssumption DEF RegistryInv, TypeOK
<1>1. Init => RegistryInv
  <2> SUFFICES ASSUME Init PROVE RegistryInv
    OBVIOUS
  <2>1. TypeOK
    <3>1. center \in [pc : {"nap", "due", "loop", "srem", "zrem"}, todo : SUBSET Services,
                      key : Services \cup {NoService}]
      BY DEF Init
    <3>2. known \in [Services -> -1..MissLimit]
      BY DEF Init
    <3>3. ttl \in [Services -> {Absent, NoExpiry} \cup 1..Lifetime]
      BY DEF Init
    <3>4. proc \in [Services -> {"down", "hset", "expire", "subscribe", "up", "zadd"}]
      BY DEF Init
    <3>5. members \subseteq Services /\ index \subseteq Services /\ beats \subseteq Services
      BY DEF Init
    <3>6. suffix \in 0..MaxSuffix /\ crashes \in 0..MaxCrashes /\ restarts \in 0..MaxRestarts
      BY DEF Init
    <3>7. late \in BOOLEAN
      BY DEF Init
    <3> QED
      BY <3>1, <3>2, <3>3, <3>4, <3>5, <3>6, <3>7
  <2>2. KnownIsTracked /\ CenterTracked
    BY NoServiceIsNone DEF Init, KnownIsTracked, CenterTracked
  <2> QED
    BY <2>1, <2>2
<1>2. RegistryInv /\ [Next]_vars => RegistryInv'
  <2> SUFFICES ASSUME RegistryInv, [Next]_vars PROVE RegistryInv'
    OBVIOUS
  <2>1. CASE UNCHANGED vars
    BY <2>1 DEF vars, KnownIsTracked, CenterTracked
  <2>2. ASSUME NEW s \in Services, RegSadd(s) PROVE RegistryInv'
    <3>1. s[2] \in 1..MaxSuffix
      BY DEF Services
    <3>2. TypeOK'
      BY <2>2, <3>1 DEF RegSadd
    <3>3. KnownIsTracked' /\ CenterTracked'
      BY <2>2 DEF RegSadd, KnownIsTracked, CenterTracked
    <3> QED
      BY <3>2, <3>3
  <2>3. ASSUME NEW s \in Services, Register(s) \/ Beat(s) \/ Crash(s) PROVE RegistryInv'
    <3>1. UNCHANGED <<members, suffix, known, center, restarts, late>>
      BY <2>3 DEF Register, RegHset, RegExpire, RegSubscribe, Beat, BeatExpire, BeatZadd, Crash
    <3>2. TypeOK'
      BY <2>3, <3>1 DEF Register, RegHset, RegExpire, RegSubscribe, Beat, BeatExpire, BeatZadd,
                        Crash, Expire, Absent, NoExpiry
    <3> QED
      BY <3>1, <3>2 DEF KnownIsTracked, CenterTracked
  <2>4. CASE CenterScan
    <3>1. /\ center.key = NoService
          /\ center' = [center EXCEPT !.pc = "loop", !.todo = members]
          /\ UNCHANGED <<members, ttl, index, proc, beats, suffix, known, crashes, restarts, late>>
      BY <2>4 DEF CenterScan, CenterTracked
    <3>2. center'.pc = "loop" /\ center'.todo = members /\ center'.key = NoService
      BY <3>1
    <3>3. TypeOK'
      BY <3>1
    <3>4. KnownIsTracked'
      BY <3>1, <3>2 DEF KnownIsTracked
    <3>5. NoService \notin members
      BY NoServiceIsNone
    <3>6. CenterTracked'
      BY <3>1, <3>2, <3>5, NoServiceIsNone DEF CenterTracked
    <3> QED
      BY <3>3, <3>4, <3>6
  <2>5. CASE CenterSrem
    BY <2>5 DEF CenterSrem, KnownIsTracked, CenterTracked
  <2>6. CASE CenterZrem
    <3>1. /\ center.key \in Services
          /\ index' = index \ {center.key}
          /\ known' = [known EXCEPT ![center.key] = -1]
          /\ center' = [center EXCEPT !.pc = "loop", !.key = NoService]
          /\ UNCHANGED <<members, ttl, proc, beats, suffix, crashes, restarts, late>>
      BY <2>6 DEF CenterZrem, CenterTracked
    <3>2. center'.pc = "loop" /\ center'.todo = center.todo /\ center'.key = NoService
      BY <3>1
    <3>3. known' \in [Services -> -1..MissLimit]
      BY <3>1
    <3>4. TypeOK'
      BY <3>1, <3>3
    <3>5. KnownIsTracked'
      BY <3>1, <3>2 DEF KnownIsTracked
    <3>6. NoService \notin members
      BY NoServiceIsNone
    <3>7. CenterTracked'
      BY <3>1, <3>2, <3>6, NoServiceIsNone DEF CenterTracked
    <3> QED
      BY <3>4, <3>5, <3>7
  <2>7. CASE CenterPublish
    BY <2>7 DEF CenterPublish, KnownIsTracked, CenterTracked
  <2>8. ASSUME NEW s \in Services, CenterCheck(s) PROVE RegistryInv'
    BY <2>8, CheckKeeps
  <2>9. CASE CenterRestart
    BY <2>9, NoServiceIsNone DEF CenterRestart, KnownIsTracked, CenterTracked
  <2>10. CASE Tick
    <3>1. TypeOK'
      BY <2>10 DEF Tick, Absent, NoExpiry
    <3>2. KnownIsTracked' /\ CenterTracked'
      BY <2>10 DEF Tick, KnownIsTracked, CenterTracked
    <3> QED
      BY <3>1, <3>2
  <2> QED
    BY <2>1, <2>2, <2>3, <2>4, <2>5, <2>6, <2>7, <2>8, <2>9, <2>10 DEF Next, Center
<1> QED
  BY <1>1, <1>2, PTL DEF Spec

-----------------------------------------------------------------------------
(* Services that run *)

\* The key of a number INCR has not handed out yet has left no trace.
Fresh(s) ==
  proc[s] = "down" /\ s \notin members /\ known[s] = -1 /\ ttl[s] = Absent /\ center.key # s

\* A server that registers is in the set from the first step on, and misses at
\* most the pass that is going on.
Registering(s) ==
  proc[s] \in {"hset", "expire", "subscribe"} =>
    /\ s \in members /\ center.key # s /\ known[s] <= 1
    /\ known[s] = 1 => s \notin center.todo /\ center.pc # "due"
    /\ proc[s] = "hset" => ttl[s] = Absent
    /\ proc[s] = "expire" => ttl[s] = NoExpiry
    /\ proc[s] = "subscribe" => ttl[s] = Lifetime

\* A server that runs has answered the last pass, or has its heartbeat to read.
Running(s) ==
  proc[s] \in {"up", "zadd"} =>
    /\ s \in members /\ center.key # s /\ ttl[s] >= 1
    /\ center.pc = "nap" /\ s \notin beats => ttl[s] = Lifetime

\* The inductive invariant of one service: a miss while it registers is the only
\* one, and between two passes its hash is renewed.
ServiceInv(s) ==
  /\ s[2] > suffix => Fresh(s)
  /\ ~late => Registering(s) /\ Running(s)

\* A step that touches neither the service nor the center.
LEMMA ServiceStays ==
  ASSUME NEW t, ServiceInv(t), late' = late, suffix' >= suffix, t[2] \in Nat,
         suffix \in Nat, suffix' \in Nat,
         t \in members' <=> t \in members, ttl'[t] = ttl[t], proc'[t] = proc[t],
         t \in beats' <=> t \in beats, known'[t] = known[t], center' = center
  PROVE  ServiceInv(t)'
<1>1. t[2] > suffix' => Fresh(t)'
  <2> SUFFICES ASSUME t[2] > suffix' PROVE Fresh(t)'
    OBVIOUS
  <2>1. t[2] > suffix
    OBVIOUS
  <2> QED
    BY <2>1 DEF ServiceInv, Fresh
<1>2. ~late' => Registering(t)' /\ Running(t)'
  BY DEF ServiceInv, Registering, Running
<1> QED
  BY <1>1, <1>2 DEF ServiceInv

\* What a server process does with its own key.
LEMMA ServerKeeps ==
  ASSUME RegistryInv, NEW t \in Services, ServiceInv(t), NEW s \in Services,
         RegSadd(s) \/ Register(s) \/ Beat(s) \/ Crash(s)
  PROVE  ServiceInv(t)'
<1> USE RegistryAssumption DEF RegistryInv, TypeOK
<1>0. t[2] \in Nat /\ s[2] \in Nat /\ suffix \in Nat
  BY DEF Services
<1>1. CASE RegSadd(s)
  <2>1. /\ s[2] = suffix + 1 /\ suffix' = suffix + 1 /\ members' = members \cup {s}
        /\ proc' = [proc EXCEPT ![s] = "hset"]
        /\ UNCHANGED <<ttl, index, beats, known, center, crashes, restarts, late>>
    BY <1>1 DEF RegSadd
  <2>2. CASE t = s
    <3>1. Fresh(s)
      BY <1>0, <2>1, <2>2 DEF ServiceInv
    <3>2. s \in members' /\ proc'[s] = "hset" /\ ~(s[2] > suffix')
      BY <1>0, <2>1
    <3>3. Registering(s)' /\ Running(s)'
      BY <2>1, <3>1, <3>2 DEF Fresh, Registering, Running
    <3> QED
      BY <2>2, <3>2, <3>3 DEF ServiceInv
  <2>3. CASE t # s
    BY <1>0, <2>1, <2>3, ServiceStays
  <2> QED
    BY <2>2, <2>3
<1>2. CASE Register(s) \/ Beat(s) \/ Crash(s)
  <2>1. UNCHANGED <<members, suffix, known, center, restarts, late>> /\ proc[s] # "down"
    BY <1>2 DEF Register, RegHset, RegExpire, RegSubscribe, Beat, BeatExpire, BeatZadd, Crash
  <2>2. CASE t # s
    <3>1. ttl'[t] = ttl[t] /\ proc'[t] = proc[t] /\ (t \in beats' <=> t \in beats)
      BY <1>2, <2>2 DEF Register, RegHset, RegExpire, RegSubscribe, Beat, BeatExpire, BeatZadd, Crash
    <3> QED
      BY <1>0, <2>1, <3>1, ServiceStays
  <2>3. CASE t = s
    <3>1. ~(s[2] > suffix')
      BY <2>1, <2>3 DEF ServiceInv, Fresh
    <3>2. ASSUME ~late PROVE Registering(s)' /\ Running(s)'
      <4>1. Registering(s) /\ Running(s)
        BY <2>3, <3>2 DEF ServiceInv
      <4>2. CASE RegHset(s)
        <5>1. proc[s] = "hset" /\ proc'[s] = "expire" /\ ttl'[s] = NoExpiry
          BY <4>1, <4>2 DEF RegHset, Registering
        <5> QED
          BY <2>1, <4>1, <5>1 DEF Registering, Running
      <4>3. CASE RegExpire(s)
        <5>1. proc[s] = "expire" /\ proc'[s] = "subscribe" /\ ttl'[s] = Lifetime
          BY <4>1, <4>3 DEF RegExpire, Registering, Expire, NoExpiry, Absent
        <5> QED
          BY <2>1, <4>1, <5>1 DEF Registering, Running
      <4>4. CASE RegSubscribe(s)
        <5>1. proc[s] = "subscribe" /\ proc'[s] = "up" /\ ttl' = ttl /\ beats' = beats
          BY <4>4 DEF RegSubscribe
        <5> QED
          BY <2>1, <4>1, <5>1 DEF Registering, Running
      <4>5. CASE BeatExpire(s)
        <5>1. proc[s] = "up" /\ proc'[s] = "zadd" /\ ttl'[s] = Lifetime
          BY <4>1, <4>5 DEF BeatExpire, Running, Expire, Absent
        <5> QED
          BY <2>1, <4>1, <5>1 DEF Registering, Running
      <4>6. CASE BeatZadd(s)
        <5>1. proc[s] = "zadd" /\ proc'[s] = "up" /\ ttl' = ttl /\ beats' = beats
          BY <4>6 DEF BeatZadd
        <5> QED
          BY <2>1, <4>1, <5>1 DEF Registering, Running
      <4>7. CASE Crash(s)
        <5>1. proc'[s] = "down"
          BY <4>7 DEF Crash
        <5> QED
          BY <5>1 DEF Registering, Running
      <4> QED
        BY <1>2, <4>2, <4>3, <4>4, <4>5, <4>6, <4>7 DEF Register, Beat
    <3> QED
      BY <2>1, <2>3, <3>1, <3>2 DEF ServiceInv
  <2> QED
    BY <2>2, <2>3
<1> QED
  BY <1>1, <1>2

\* What the pass of the center does to a service: it does not give up one that is
\* still registering, if it takes more than one miss to be given up.
LEMMA CenterKeeps ==
  ASSUME RegistryInv, NEW t \in Services, ServiceInv(t), Center, MissLimit > 1
  PROVE  ServiceInv(t)'
<1> USE RegistryAssumption DEF RegistryInv, TypeOK
<1>0. t[2] \in Nat /\ suffix \in Nat
  BY DEF Services
<1>1. UNCHANGED <<ttl, proc, suffix, late>>
  BY DEF Center, CenterScan, CenterSrem, CenterZrem, CenterPublish, CenterCheck, CenterFound,
         CenterMissed
<1>2. CASE CenterScan
  <2>1. /\ center.pc = "due" /\ UNCHANGED <<members, beats, known>>
        /\ center'.pc = "loop" /\ center'.key = center.key
    BY <1>2 DEF CenterScan
  <2> QED
    BY <1>1, <2>1 DEF ServiceInv, Fresh, Registering, Running
<1>3. CASE CenterSrem
  <2>1. /\ members' = members \ {center.key} /\ UNCHANGED <<beats, known>>
        /\ center'.pc = "zrem" /\ center'.key = center.key /\ center'.todo = center.todo
        /\ center.pc = "srem"
    BY <1>3 DEF CenterSrem
  <2> QED
    BY <1>1, <2>1 DEF ServiceInv, Fresh, Registering, Running
<1>4. CASE CenterZrem
  <2>1. /\ known' = [known EXCEPT ![center.key] = -1] /\ UNCHANGED <<members, beats>>
        /\ center'.pc = "loop" /\ center'.key = NoService /\ center'.todo = center.todo
        /\ center.pc = "zrem"
    BY <1>4 DEF CenterZrem
  <2>2. t # NoService
    BY NoServiceIsNone
  <2>3. center.key # t => known'[t] = known[t]
    BY <2>1
  <2> QED
    BY <1>1, <2>1, <2>2, <2>3 DEF ServiceInv, Fresh, Registering, Running
<1>5. CASE CenterPublish
  <2>1. /\ beats' = beats \cup {s \in Services : proc[s] \in {"up", "zadd"}}
        /\ UNCHANGED <<members, known>>
        /\ center'.pc = "nap" /\ center'.key = center.key /\ center'.todo = center.todo
    BY <1>5 DEF CenterPublish
  <2> QED
    BY <1>1, <2>1 DEF ServiceInv, Fresh, Registering, Running
<1>6. ASSUME NEW s \in Services, CenterCheck(s) PROVE ServiceInv(t)'
  <2>1. /\ center.pc = "loop" /\ s \in center.todo /\ s \in members /\ center.key = NoService
        /\ UNCHANGED <<members, beats>>
        /\ center'.todo = center.todo \ {s}
    BY <1>6 DEF CenterCheck, CenterFound, CenterMissed, CenterTracked
  <2>2. CASE CenterFound(s)
    <3>1. /\ known' = [known EXCEPT ![s] = 0]
          /\ center'.pc = "loop" /\ center'.key = center.key
      BY <2>1, <2>2 DEF CenterFound
    <3> QED
      BY <1>1, <2>1, <3>1 DEF ServiceInv, Fresh, Registering, Running
  <2>3. CASE CenterMissed(s)
    <3>1. known' = [known EXCEPT ![s] = Misses(s)] /\ ttl[s] = Absent
      BY <2>3 DEF CenterMissed
    <3>2. \/ Misses(s) >= MissLimit /\ center'.pc = "srem" /\ center'.key = s
          \/ ~(Misses(s) >= MissLimit) /\ center'.pc = "loop" /\ center'.key = center.key
      BY <2>1, <2>3 DEF CenterMissed
    <3>3. CASE t # s
      <4>1. known'[t] = known[t] /\ center'.key # t
        BY <2>1, <3>1, <3>2, <3>3, NoServiceIsNone
      <4>2. center'.pc # "due" /\ center'.pc # "nap"
        BY <3>2
      <4> QED
        BY <1>1, <2>1, <3>3, <4>1, <4>2 DEF ServiceInv, Fresh, Registering, Running
    <3>4. CASE t = s
      <4>1. ~(t[2] > suffix)
        BY <2>1, <3>4 DEF ServiceInv, Fresh
      <4>2. ASSUME ~late PROVE Registering(t)' /\ Running(t)'
        <5>1. Registering(t) /\ Running(t)
          BY <4>2 DEF ServiceInv
        <5>2. proc[t] \notin {"up", "zadd"}
          BY <3>1, <3>4, <5>1 DEF Running, Absent
        <5>3. Running(t)'
          BY <1>1, <5>2 DEF Running
        <5>4. ASSUME proc[t] \in {"hset", "expire", "subscribe"} PROVE Registering(t)'
          <6>1. /\ t \in members /\ known[t] <= 1 /\ known[t] # 1
                /\ proc[t] = "hset" => ttl[t] = Absent
                /\ proc[t] = "expire" => ttl[t] = NoExpiry
                /\ proc[t] = "subscribe" => ttl[t] = Lifetime
            BY <2>1, <3>4, <5>1, <5>4 DEF Registering
          <6>2. Misses(s) = 1
            BY <3>4, <6>1 DEF Misses
          <6>3. known'[t] = 1 /\ center'.pc = "loop" /\ center'.key # t /\ t \notin center'.todo
            BY <2>1, <3>1, <3>2, <3>4, <6>2, NoServiceIsNone
          <6> QED
            BY <1>1, <2>1, <6>1, <6>3 DEF Registering
        <5>5. ASSUME proc[t] \notin {"hset", "expire", "subscribe"} PROVE Registering(t)'
          BY <1>1, <5>5 DEF Registering
        <5> QED
          BY <5>3, <5>4, <5>5
      <4> QED
        BY <1>1, <4>1, <4>2 DEF ServiceInv
    <3> QED
      BY <3>3, <3>4
  <2> QED
    BY <1>6, <2>2, <2>3 DEF CenterCheck
<1> QED
  BY <1>2, <1>3, <1>4, <1>5, <1>6 DEF Center

\* Time: a tick at which nobody is behind leaves every hash at least a tick.
LEMMA TickKeeps ==
  ASSUME RegistryInv, NEW t \in Services, ServiceInv(t), Tick, Lifetime > 1
  PROVE  ServiceInv(t)'
<1> USE RegistryAssumption DEF RegistryInv, TypeOK
<1>1. /\ UNCHANGED <<members, index, proc, beats, suffix, known, crashes, restarts>>
      /\ late' = (late \/ ~Quiet)
      /\ center'.key = center.key /\ center'.todo = center.todo
      /\ center.pc = "nap" => center'.pc = "due"
  BY DEF Tick
<1>2. ttl'[t] = IF ttl[t] > 1 THEN ttl[t] - 1 ELSE IF ttl[t] = 1 THEN Absent ELSE ttl[t]
  BY DEF Tick
<1>3. t[2] > suffix' => Fresh(t)'
  BY <1>1, <1>2 DEF ServiceInv, Fresh, Absent
<1>4. ASSUME ~late' PROVE Registering(t)' /\ Running(t)'
  <2>1. ~late /\ Quiet
    BY <1>1, <1>4
  <2>2. proc[t] \in {"down", "up"} /\ center.pc = "nap" /\ t \notin beats
    BY <2>1 DEF Quiet
  <2>3. Registering(t)'
    BY <1>1, <2>2 DEF Registering
  <2>4. ASSUME proc[t] = "up" PROVE Running(t)'
    <3>1. t \in members /\ center.key # t /\ ttl[t] = Lifetime
      BY <2>1, <2>2, <2>4 DEF ServiceInv, Running
    <3>2. ttl'[t] = Lifetime - 1 /\ ttl'[t] >= 1
      BY <1>2, <3>1
    <3>3. center'.pc = "due"
      BY <1>1, <2>2
    <3> QED
      BY <1>1, <3>1, <3>2, <3>3 DEF Running
  <2>5. ASSUME proc[t] = "down" PROVE Running(t)'
    BY <1>1, <2>5 DEF Running
  <2> QED
    BY <2>2, <2>3, <2>4, <2>5
<1> QED
  BY <1>3, <1>4 DEF ServiceInv

\* A server that has registered and runs is never given up while everybody answers
\* within the tick and the center runs, for any number of servers, provided the
\* hash outlives one tick and one miss is forgiven.  Both are needed: the hash is
\* renewed once per tick, and a pass may fall between SADD and HSET.
THEOREM LiveServicesStay ==
  ASSUME Lifetime > 1, MissLimit > 1
  PROVE  Spec => []LiveServiceKept
<1> DEFINE KeptInv == restarts = 0 => \A t \in Services : ServiceInv(t)
<1>1. Init => KeptInv
  <2> SUFFICES ASSUME Init, NEW t \in Services PROVE ServiceInv(t)
    OBVIOUS
  <2>1. /\ proc[t] = "down" /\ t \notin members /\ known[t] = -1 /\ ttl[t] = Absent
        /\ center.key = NoService
    BY DEF Init
  <2> QED
    BY <2>1, NoServiceIsNone DEF ServiceInv, Fresh, Registering, Running
<1>2. RegistryInv /\ KeptInv /\ [Next]_vars => KeptInv'
  <2> SUFFICES ASSUME RegistryInv, KeptInv, [Next]_vars, restarts' = 0, NEW t \in Services
               PROVE  ServiceInv(t)'
    OBVIOUS
  <2>1. restarts \in Nat
    BY RegistryAssumption DEF RegistryInv, TypeOK
  <2>2. ~CenterRestart
    BY <2>1 DEF CenterRestart
  <2>3. restarts = 0
    BY <2>2 DEF Next, vars, RegSadd, Register, RegHset, RegExpire, RegSubscribe, Beat, BeatExpire,
                BeatZadd, Crash, Center, CenterScan, CenterSrem, CenterZrem, CenterPublish,
                CenterCheck, CenterFound, CenterMissed, Tick
  <2>4. ServiceInv(t)
    BY <2>3
  <2>5. CASE UNCHANGED vars
    BY <2>4, <2>5 DEF vars, ServiceInv, Fresh, Registering, Running
  <2> QED
    BY <2>2, <2>4, <2>5, ServerKeeps, CenterKeeps, TickKeeps DEF Next
<1>3. KeptInv => LiveServiceKept
  BY DEF LiveServiceKept, ServiceInv, Running
<1> QED
  BY <1>1, <1>2, <1>3, CenterFollowsSet, PTL DEF Spec

-----------------------------------------------------------------------------
(* Scenes *)

\* What a thread in SceneManager works on: the address of its connection, once it
\* removes; a scene; only the timer closes after it removed (GameHeartbeatOp.h:38).
CallsInv == \A c \in Callers : call[c] # Away =>
  /\ call[c].pc \in {"find", "erase", "zrem"} => call[c].a = link[call[c].s]
  /\ call[c].pc \in {"register", "zadd", "erase", "zrem"} => call[c].k \in Scenes
  /\ call[c].then = "close" => c = Timer

\* The server that owns a remembered address is connected from it, and is in the
\* table or being removed from SceneManager too (TcpServer::removeConnection).
Forgetting(c, s) == call[c].s = s /\ call[c].then = "closed" /\ call[c].pc \in {"find", "erase"}
OwnerInv == \A a \in Ports : scene[a] # NoScene /\ owner[a] # Nobody =>
  /\ link[owner[a]] = a
  /\ owner[a] \in table \/ \E c \in Callers : Forgetting(c, owner[a])

\* Nobody takes an address out that is remembered again, unless it is dirty, and
\* who is about to forget it has its scene.
RemovalsInv == \A c \in Callers : \A a \in Ports \ dirty : call[c].a = a /\ scene[a] # NoScene =>
  /\ call[c].pc # "zrem"
  /\ call[c].pc = "erase" => call[c].k = scene[a]

\* Thread c goes on, the others stay where they are.
Steps(c) == \A d \in Callers \ {c} : call'[d] = call[d]

\* The connections when a thread leaves one: at most the one it left is destroyed,
\* out of the table and with nobody in it.
Leaves(c) ==
  \A s \in SceneServers : \/ link'[s] = link[s]
                          \/ /\ link'[s] = 0 /\ s = call[c].s /\ s \notin table
                             /\ \A d \in Callers \ {c} : call[d].s # s

\* Leave does that.
LEMMA LeaveSteps ==
  ASSUME SceneTypeOK, NEW c \in Callers, Leave(c)
  PROVE  /\ Steps(c) /\ call'[c] = Away /\ Leaves(c)
         /\ call' \in [Callers -> Calls \cup {Away}]
         /\ link' \in [SceneServers -> Ports \cup {0}]
BY DEF SceneTypeOK, Leave, Steps, Leaves

\* Removed: the timer goes on to close, the others leave.
LEMMA RemovedSteps ==
  ASSUME SceneTypeOK, NEW c \in Callers, call[c] # Away, Removed(c)
  PROVE  /\ Steps(c) /\ Leaves(c)
         /\ call' \in [Callers -> Calls \cup {Away}]
         /\ link' \in [SceneServers -> Ports \cup {0}]
         /\ call'[c] = Away \/ (call'[c] = [call[c] EXCEPT !.pc = "close"] /\ call[c].then = "close" /\ link' = link)
<1>1. CASE call[c].then = "close"
  <2>1. call[c] \in Calls /\ call' = [call EXCEPT ![c].pc = "close"] /\ link' = link
    BY <1>1 DEF SceneTypeOK, Removed
  <2> QED
    BY <1>1, <2>1 DEF SceneTypeOK, Steps, Leaves, Calls
<1>2. CASE call[c].then # "close"
  BY <1>2, LeaveSteps DEF Removed
<1> QED
  BY <1>1, <1>2

\* The inductive invariant of the scenes.
SceneIInv == SceneTypeOK /\ CallsInv /\ OwnerInv /\ RemovalsInv /\ KnownIsIndexed /\ IndexedIsKnown

\* It holds of the empty game server.
LEMMA SceneInitially == ASSUME SceneInit PROVE SceneIInv
BY SceneAssumption DEF SceneInit, SceneIInv, SceneTypeOK, CallsInv, OwnerInv, RemovalsInv, KnownIsIndexed,
   IndexedIsKnown, Known

\* It holds after a restart: what was remembered or being taken out is dirty.
LEMMA LostKeeps ==
  ASSUME SceneIInv, Lost, faults' \in 0..MaxFaults
  PROVE  SceneIInv'
<1> USE DEF SceneIInv, SceneTypeOK
<1>1. {call[c].a : c \in {d \in Callers : call[d].pc = "zrem"}} \subseteq Ports
  BY DEF Calls, Away
<1>2. SceneTypeOK'
  BY <1>1, SceneAssumption DEF Lost, Known
<1>3. (CallsInv /\ OwnerInv /\ RemovalsInv /\ KnownIsIndexed)'
  BY DEF Lost, CallsInv, OwnerInv, RemovalsInv, KnownIsIndexed, Known
<1>4. IndexedIsKnown'
  <2> SUFFICES ASSUME NEW k \in Scenes, NEW a \in sceneIndex[k], a \notin dirty', a \notin stray PROVE FALSE
    BY DEF IndexedIsKnown, Lost
  <2>1. a \in Ports /\ a \notin dirty /\ a \notin Known
    BY DEF Lost
  <2>2. scene[a] # k
    BY <2>1, SceneAssumption DEF Known
  <2>3. PICK c \in Callers : Removing(c, a, k)
    BY <2>1, <2>2 DEF IndexedIsKnown
  <2> QED
    BY <2>3 DEF Lost, Removing
<1> QED
  BY <1>2, <1>3, <1>4

\* A DS connects (TcpServer::newConnectionFunc).
LEMMA ConnectKeeps ==
  ASSUME SceneIInv, NEW s \in SceneServers, NEW p \in Ports, Connect(s, p)
  PROVE  SceneIInv'
<1> USE DEF SceneIInv, SceneTypeOK
<1>1. /\ link' = [link EXCEPT ![s] = p] /\ table' = table \cup {s} /\ link[s] = 0 /\ p # 0
      /\ \A t \in SceneServers : link[t] # p
      /\ UNCHANGED <<scene, sceneIndex, call, owner, faults, dirty, stray>>
  BY SceneAssumption DEF Connect
<1>2. \A c \in Callers : call[c] # Away => call[c].s # s
  BY <1>1
<1>3. SceneTypeOK'
  <2>1. \A c \in Callers : call[c] # Away => call[c].s \in SceneServers
    BY DEF Calls
  <2> QED
    BY <1>1, <1>2, <2>1
<1>4. CallsInv'
  <2>1. \A c \in Callers : call[c] # Away => call[c].s \in SceneServers
    BY DEF Calls
  <2> QED
    BY <1>1, <1>2, <2>1 DEF CallsInv
<1>5. OwnerInv'
  <2>1. \A a \in Ports : owner[a] # Nobody /\ link[owner[a]] = a => link'[owner[a]] = a
    BY <1>1, SceneAssumption
  <2> QED
    BY <1>1, <2>1 DEF OwnerInv, Forgetting
<1>6. (RemovalsInv /\ KnownIsIndexed /\ IndexedIsKnown)'
  BY <1>1 DEF RemovalsInv, KnownIsIndexed, IndexedIsKnown, Known, Adding, Removing
<1> QED
  BY <1>3, <1>4, <1>5, <1>6

\* A thread enters: nothing is known to change yet (GameMessageOp::messageFunc,
\* GameHeartbeatOp::checkHeartbeat).
LEMMA EnterKeeps ==
  ASSUME SceneIInv, NEW c \in Callers, NEW pc, NEW s \in SceneServers, NEW a, NEW k, NEW then,
         Enter(c, pc, s, a, k, then), OnlyEnters,
         c = Timer \/ c = s,
         \/ pc = "register" /\ a = ListenPort[s] /\ k \in Scenes /\ then = "return"
         \/ pc = "zadd" /\ a = link[s] /\ k \in Scenes /\ then = "return"
         \/ pc = "find" /\ a = link[s] /\ k = NoScene /\ then \in {"return", "close"}
              /\ (then = "close" => c = Timer)
  PROVE  SceneIInv'
<1> USE DEF SceneIInv
<1> DEFINE r == [pc |-> pc, s |-> s, a |-> a, k |-> k, then |-> then]
<1>1. /\ call[c] = Away /\ link[s] # 0 /\ call' = [call EXCEPT ![c] = r]
      /\ UNCHANGED <<link, table, scene, sceneIndex, owner, faults, dirty, stray>>
  BY DEF Enter, OnlyEnters
<1>2. a \in Ports /\ r \in Calls /\ r # Away
  BY <1>1, SceneAssumption DEF SceneTypeOK, Calls, Away
<1>3. r.pc = pc /\ r.s = s /\ r.a = a /\ r.k = k /\ r.then = then
  OBVIOUS
<1>4. \A d \in Callers : d # c => call'[d] = call[d]
  BY <1>1 DEF SceneTypeOK
<1>5. call'[c] = r
  BY <1>1 DEF SceneTypeOK
<1> HIDE DEF r
<1>6. SceneTypeOK'
  <2>1. call' \in [Callers -> Calls \cup {Away}]
    BY <1>1, <1>2 DEF SceneTypeOK
  <2>2. \A d \in Callers : call'[d] # Away => link[call'[d].s] # 0 /\ (d # Timer => call'[d].s = d)
    BY <1>1, <1>3, <1>4, <1>5 DEF SceneTypeOK
  <2> QED
    BY <1>1, <2>1, <2>2 DEF SceneTypeOK
<1>7. CallsInv'
  <2> SUFFICES ASSUME NEW d \in Callers, call'[d] # Away
               PROVE  /\ call'[d].pc \in {"find", "erase", "zrem"} => call'[d].a = link[call'[d].s]
                      /\ call'[d].pc \in {"register", "zadd", "erase", "zrem"} => call'[d].k \in Scenes
                      /\ call'[d].then = "close" => d = Timer
    BY <1>1 DEF CallsInv
  <2>1. CASE d = c
    BY <1>3, <1>5, <2>1
  <2>2. CASE d # c
    BY <1>4, <2>2 DEF CallsInv
  <2> QED
    BY <2>1, <2>2
<1>8. \A d \in Callers : call[d].pc # "away" => call'[d] = call[d]
  BY <1>1, <1>4 DEF Away
<1>9. OwnerInv'
  BY <1>1, <1>8 DEF OwnerInv, Forgetting
<1>10. RemovalsInv'
  BY <1>1, <1>3, <1>4, <1>5 DEF RemovalsInv
<1>11. (KnownIsIndexed /\ IndexedIsKnown)'
  BY <1>1, <1>8 DEF KnownIsIndexed, IndexedIsKnown, Known, Adding, Removing
<1> QED
  BY <1>6, <1>7, <1>9, <1>10, <1>11

\* removeConnection begins: what the server owns is about to be forgotten.
LEMMA RemoveConnectionKeeps ==
  ASSUME SceneIInv, NEW c \in Callers, NEW s \in SceneServers, link[s] # 0, RemoveConnection(c, s),
         call[c] = Away \/ call[c].pc = "close", c = Timer \/ c = s
  PROVE  SceneIInv'
<1> USE DEF SceneIInv
<1> DEFINE r == [pc |-> "find", s |-> s, a |-> link[s], k |-> NoScene, then |-> "closed"]
<1>1. /\ call' = [call EXCEPT ![c] = r] /\ table' = table \ {s}
      /\ UNCHANGED <<link, scene, sceneIndex, owner, faults, dirty, stray>>
  BY DEF RemoveConnection
<1>2. r \in Calls
  BY DEF SceneTypeOK, Calls
<1>3. r.pc = "find" /\ r.s = s /\ r.a = link[s] /\ r.then = "closed"
  OBVIOUS
<1>4. \A d \in Callers : d # c => call'[d] = call[d]
  BY <1>1 DEF SceneTypeOK
<1>5. call'[c] = r
  BY <1>1 DEF SceneTypeOK
<1> HIDE DEF r
<1>6. SceneTypeOK'
  <2>1. call' \in [Callers -> Calls \cup {Away}]
    BY <1>1, <1>2 DEF SceneTypeOK
  <2>2. \A d \in Callers : call'[d] # Away => link[call'[d].s] # 0 /\ (d # Timer => call'[d].s = d)
    BY <1>1, <1>3, <1>4, <1>5 DEF SceneTypeOK
  <2> QED
    BY <1>1, <2>1, <2>2 DEF SceneTypeOK
<1>7. CallsInv'
  <2> SUFFICES ASSUME NEW d \in Callers, call'[d] # Away
               PROVE  /\ call'[d].pc \in {"find", "erase", "zrem"} => call'[d].a = link[call'[d].s]
                      /\ call'[d].pc \in {"register", "zadd", "erase", "zrem"} => call'[d].k \in Scenes
                      /\ call'[d].then = "close" => d = Timer
    BY <1>1 DEF CallsInv
  <2>1. CASE d = c
    BY <1>3, <1>5, <2>1
  <2>2. CASE d # c
    BY <1>4, <2>2 DEF CallsInv
  <2> QED
    BY <2>1, <2>2
<1>8. \A d \in Callers : call[d].pc \notin {"away", "close"} => call'[d] = call[d]
  BY <1>1, <1>4 DEF Away
<1>9. OwnerInv'
  <2> SUFFICES ASSUME NEW b \in Ports, scene[b] # NoScene, owner[b] # Nobody
               PROVE  link[owner[b]] = b /\ (owner[b] \in table' \/ \E d \in Callers : Forgetting(d, owner[b])')
    BY <1>1 DEF OwnerInv, Forgetting
  <2>1. link[owner[b]] = b /\ (owner[b] \in table \/ \E d \in Callers : Forgetting(d, owner[b]))
    BY DEF OwnerInv
  <2>2. ASSUME NEW d \in Callers, Forgetting(d, owner[b]) PROVE Forgetting(d, owner[b])'
    BY <1>1, <1>8, <2>2 DEF Forgetting
  <2>3. owner[b] = s => Forgetting(c, owner[b])'
    BY <1>1, <1>3, <1>5 DEF Forgetting
  <2> QED
    BY <1>1, <2>1, <2>2, <2>3
<1>10. RemovalsInv'
  BY <1>1, <1>3, <1>4, <1>5 DEF RemovalsInv
<1>11. (KnownIsIndexed /\ IndexedIsKnown)'
  BY <1>1, <1>8 DEF KnownIsIndexed, IndexedIsKnown, Known, Adding, Removing
<1> QED
  BY <1>6, <1>7, <1>9, <1>10, <1>11

\* A thread leaves: what it was not busy with keeps its shape and its owner.
LEMMA LeaveTypes ==
  ASSUME SceneTypeOK, CallsInv, OwnerInv, NEW c \in Callers, call[c] # Away,
         Steps(c), Leaves(c), table' = table,
         call' \in [Callers -> Calls \cup {Away}], link' \in [SceneServers -> Ports \cup {0}],
         call'[c] = Away \/ (call'[c] = [call[c] EXCEPT !.pc = "close"] /\ call[c].then = "close" /\ link' = link)
  PROVE  /\ \A s, t \in SceneServers : link'[s] = link'[t] => s = t \/ link'[s] = 0
         /\ table' \subseteq {s \in SceneServers : link'[s] # 0}
         /\ \A d \in Callers : call'[d] # Away => link'[call'[d].s] # 0 /\ (d # Timer => call'[d].s = d)
         /\ CallsInv'
         /\ \A d \in Callers \ {c} : call[d] # Away => link'[call[d].s] = link[call[d].s]
<1> USE DEF SceneTypeOK
<1>1. \A s, t \in SceneServers : link'[s] = link'[t] => s = t \/ link'[s] = 0
  BY DEF Leaves
<1>2. table' \subseteq {s \in SceneServers : link'[s] # 0}
  BY DEF Leaves
<1>3. \A d \in Callers : call[d] # Away => call[d].s \in SceneServers
  BY DEF Calls
<1>4. \A d \in Callers \ {c} : call[d] # Away => link'[call[d].s] = link[call[d].s]
  BY <1>3 DEF Leaves
<1>5. \A d \in Callers \ {c} : call'[d] = call[d]
  BY DEF Steps
<1>6. CASE call'[c] = Away
  BY <1>1, <1>2, <1>4, <1>5, <1>6 DEF CallsInv
<1>7. CASE call'[c] = [call[c] EXCEPT !.pc = "close"] /\ call[c].then = "close" /\ link' = link
  <2>1. call'[c].pc = "close" /\ call'[c].s = call[c].s /\ call'[c].then = "close"
    <3>1. call[c] \in Calls
      OBVIOUS
    <3> QED
      BY <1>7, <3>1 DEF Calls
  <2>2. link' = link /\ call[c].then = "close" /\ link[call[c].s] # 0 /\ c = Timer
    BY <1>7 DEF CallsInv
  <2>3. ASSUME NEW d \in Callers, call'[d] # Away
        PROVE  link'[call'[d].s] # 0 /\ (d # Timer => call'[d].s = d)
    BY <1>4, <1>5, <2>1, <2>2, <2>3
  <2>4. ASSUME NEW d \in Callers, call'[d] # Away
        PROVE  /\ call'[d].pc \in {"find", "erase", "zrem"} => call'[d].a = link'[call'[d].s]
               /\ call'[d].pc \in {"register", "zadd", "erase", "zrem"} => call'[d].k \in Scenes
               /\ call'[d].then = "close" => d = Timer
    <3>1. CASE d = c
      BY <2>1, <2>2, <3>1
    <3>2. CASE d # c
      BY <1>4, <1>5, <2>4, <3>2 DEF CallsInv
    <3> QED
      BY <3>1, <3>2
  <2> QED
    BY <1>1, <1>2, <1>4, <2>3, <2>4 DEF CallsInv
<1> QED
  BY <1>6, <1>7

\* An owner stays in the table, or its removal goes on.
LEMMA OwnerStays ==
  ASSUME SceneTypeOK, OwnerInv, NEW c \in Callers, Steps(c), Leaves(c), table' = table,
         NEW b \in Ports, scene[b] # NoScene, owner[b] # Nobody, ~Forgetting(c, owner[b])
  PROVE  /\ link'[owner[b]] = b
         /\ owner[b] \in table' \/ \E d \in Callers : /\ call'[d].s = owner[b] /\ call'[d].then = "closed"
                                                      /\ call'[d].pc \in {"find", "erase"}
<1>1. link[owner[b]] = b /\ (owner[b] \in table \/ \E d \in Callers : Forgetting(d, owner[b]))
  BY DEF OwnerInv
<1>2. owner[b] \in SceneServers
  BY DEF SceneTypeOK
<1>3. CASE owner[b] \in table
  BY <1>1, <1>2, <1>3 DEF Leaves
<1>4. CASE owner[b] \notin table
  <2>1. PICK d \in Callers : Forgetting(d, owner[b])
    BY <1>1, <1>4
  <2>2. d # c /\ call'[d] = call[d] /\ call[d].s = owner[b]
    BY <2>1 DEF Steps, Forgetting
  <2>3. link'[owner[b]] = link[owner[b]]
    BY <1>2, <2>2 DEF Leaves
  <2> QED
    BY <1>1, <2>1, <2>2, <2>3 DEF Forgetting
<1> QED
  BY <1>3, <1>4

\* registerScene's first step (SceneManager.h:21).
LEMMA EmplaceKeeps ==
  ASSUME SceneIInv, NEW c \in Callers, Emplace(c)
  PROVE  SceneIInv'
<1> USE DEF SceneIInv
<1> DEFINE a == call[c].a
           s == call[c].s
           k == call[c].k
<1>1. call[c].pc = "register" /\ call[c] # Away
  BY DEF Emplace, Away
<1>2. /\ a \in Ports /\ s \in SceneServers /\ k \in Scenes /\ call[c] \in Calls
      /\ link[s] # 0 /\ (c # Timer => s = c)
  BY <1>1 DEF SceneTypeOK, Calls, CallsInv
<1>3. UNCHANGED <<table, sceneIndex, faults, stray>>
  BY DEF Emplace
<1>4. CASE a \in Known
  <2>1. Leave(c) /\ UNCHANGED <<scene, owner, dirty>>
    BY <1>4 DEF Emplace
  <2>2. /\ Steps(c) /\ call'[c] = Away /\ Leaves(c)
        /\ call' \in [Callers -> Calls \cup {Away}] /\ link' \in [SceneServers -> Ports \cup {0}]
    BY <2>1, LeaveSteps
  <2>3. SceneTypeOK' /\ CallsInv'
    <3>1. /\ \A t, u \in SceneServers : link'[t] = link'[u] => t = u \/ link'[t] = 0
          /\ table' \subseteq {t \in SceneServers : link'[t] # 0}
          /\ \A d \in Callers : call'[d] # Away => link'[call'[d].s] # 0 /\ (d # Timer => call'[d].s = d)
          /\ CallsInv'
      BY <1>1, <1>3, <2>2, LeaveTypes
    <3> QED
      BY <1>3, <2>1, <2>2, <3>1 DEF SceneTypeOK
  <2>4. OwnerInv'
    <3>1. \A b : ~Forgetting(c, b)
      BY <1>1 DEF Forgetting
    <3> QED
      BY <1>3, <2>1, <2>2, <3>1, OwnerStays DEF OwnerInv, Forgetting
  <2>5. \A d \in Callers : call'[d] = call[d] \/ (d = c /\ call'[d] = Away)
    BY <2>2 DEF Steps
  <2>6. RemovalsInv'
    BY <1>3, <2>1, <2>5 DEF RemovalsInv, Away
  <2>7. \A d \in Callers : call[d].pc # "register" => call'[d] = call[d]
    BY <1>1, <2>5
  <2>8. (KnownIsIndexed /\ IndexedIsKnown)'
    BY <1>3, <2>1, <2>7 DEF KnownIsIndexed, IndexedIsKnown, Known, Adding, Removing
  <2> QED
    BY <2>3, <2>4, <2>6, <2>8
<1>5. CASE a \notin Known
  <2>1. /\ scene' = [scene EXCEPT ![a] = k]
        /\ owner' = [owner EXCEPT ![a] = IF link[s] = a /\ s \in table THEN s ELSE Nobody]
        /\ dirty' = IF \E d \in Callers : call[d].pc \in {"erase", "zrem"} /\ call[d].a = a
                    THEN dirty \cup {a} ELSE dirty
        /\ call' = [call EXCEPT ![c].pc = "zadd"]
        /\ link' = link
    BY <1>5 DEF Emplace
  <2>2. call'[c] = [call[c] EXCEPT !.pc = "zadd"] /\ \A d \in Callers : d # c => call'[d] = call[d]
    BY <2>1 DEF SceneTypeOK
  <2>3. /\ call'[c].pc = "zadd" /\ call'[c].s = s /\ call'[c].a = a /\ call'[c].k = k
        /\ call'[c].then = call[c].then
    BY <1>2, <2>2 DEF Calls
  <2>4. call' \in [Callers -> Calls \cup {Away}]
    BY <1>2, <2>1 DEF SceneTypeOK, Calls
  <2>5. SceneTypeOK'
    <3>1. \A d \in Callers : call'[d] # Away => link[call'[d].s] # 0 /\ (d # Timer => call'[d].s = d)
      BY <1>2, <2>2, <2>3 DEF SceneTypeOK
    <3>2. scene' \in [Ports -> Scenes \cup {NoScene}] /\ owner' \in [Ports -> SceneServers \cup {Nobody}]
          /\ dirty' \subseteq Ports
      BY <1>2, <2>1 DEF SceneTypeOK
    <3> QED
      BY <1>3, <2>1, <2>4, <3>1, <3>2 DEF SceneTypeOK
  <2>6. CallsInv'
    <3> SUFFICES ASSUME NEW d \in Callers, call'[d] # Away
                 PROVE  /\ call'[d].pc \in {"find", "erase", "zrem"} => call'[d].a = link[call'[d].s]
                        /\ call'[d].pc \in {"register", "zadd", "erase", "zrem"} => call'[d].k \in Scenes
                        /\ call'[d].then = "close" => d = Timer
      BY <2>1 DEF CallsInv
    <3>1. CASE d = c
      BY <1>1, <1>2, <2>3, <3>1 DEF CallsInv
    <3>2. CASE d # c
      BY <2>2, <3>2 DEF CallsInv
    <3> QED
      BY <3>1, <3>2
  <2>7. scene[a] = NoScene
    BY <1>2, <1>5 DEF Known
  <2>8. \A b \in Ports : b # a => scene'[b] = scene[b] /\ owner'[b] = owner[b]
    BY <2>1 DEF SceneTypeOK
  <2>9. scene'[a] = k
    BY <1>2, <2>1 DEF SceneTypeOK
  <2>10. OwnerInv'
    <3> SUFFICES ASSUME NEW b \in Ports, scene'[b] # NoScene, owner'[b] # Nobody
                 PROVE  /\ link'[owner'[b]] = b
                        /\ owner'[b] \in table' \/ \E d \in Callers : Forgetting(d, owner[b])'
      BY DEF OwnerInv, Forgetting
    <3>1. CASE b = a
      <4>1. owner'[a] = s /\ link[s] = a /\ s \in table
        BY <1>2, <2>1, <3>1 DEF SceneTypeOK
      <4> QED
        BY <1>3, <2>1, <3>1, <4>1
    <3>2. CASE b # a
      <4>1. link[owner[b]] = b /\ (owner[b] \in table \/ \E d \in Callers : Forgetting(d, owner[b]))
        BY <2>8, <3>2 DEF OwnerInv
      <4>2. ASSUME NEW d \in Callers, Forgetting(d, owner[b]) PROVE Forgetting(d, owner[b])'
        BY <1>1, <2>2, <2>8, <3>2, <4>2 DEF Forgetting
      <4> QED
        BY <1>3, <2>1, <2>8, <3>2, <4>1, <4>2
    <3> QED
      BY <3>1, <3>2
  <2>11. RemovalsInv'
    <3> SUFFICES ASSUME NEW d \in Callers, NEW b \in Ports, b \notin dirty', call'[d].a = b, scene'[b] # NoScene
                 PROVE  call'[d].pc # "zrem" /\ (call'[d].pc = "erase" => call'[d].k = scene'[b])
      BY DEF RemovalsInv
    <3>1. CASE d = c
      BY <2>3, <3>1
    <3>2. CASE d # c /\ b = a
      <4>1. ~(\E e \in Callers : call[e].pc \in {"erase", "zrem"} /\ call[e].a = a)
        BY <2>1, <3>2
      <4> QED
        BY <2>2, <3>2, <4>1
    <3>3. CASE d # c /\ b # a
      BY <2>1, <2>2, <2>8, <3>3 DEF RemovalsInv
    <3> QED
      BY <3>1, <3>2, <3>3
  <2>12. KnownIsIndexed'
    <3> SUFFICES ASSUME NEW b \in Ports, scene'[b] # NoScene, b \notin dirty'
                 PROVE  b \in sceneIndex[scene'[b]] \/ \E d \in Callers : Adding(d, b, scene[b])'
      BY <1>3 DEF KnownIsIndexed, Known, Adding
    <3>1. CASE b = a
      BY <2>3, <2>9, <3>1 DEF Adding
    <3>2. CASE b # a
      <4>1. b \in sceneIndex[scene[b]] \/ \E d \in Callers : Adding(d, b, scene[b])
        BY <2>1, <2>8, <3>2 DEF KnownIsIndexed, Known
      <4>2. ASSUME NEW d \in Callers, Adding(d, b, scene[b]) PROVE Adding(d, b, scene[b])'
        BY <1>1, <2>2, <2>8, <3>2, <4>2 DEF Adding
      <4> QED
        BY <2>8, <3>2, <4>1, <4>2
    <3> QED
      BY <3>1, <3>2
  <2>13. IndexedIsKnown'
    <3> SUFFICES ASSUME NEW l \in Scenes, NEW b \in sceneIndex[l], b \notin dirty', b \notin stray
                 PROVE  scene'[b] = l \/ \E d \in Callers : Removing(d, b, l)'
      BY <1>3 DEF IndexedIsKnown, Removing
    <3>1. b \in Ports /\ b \notin dirty
      BY <2>1 DEF SceneTypeOK
    <3>2. scene[b] = l \/ \E d \in Callers : Removing(d, b, l)
      BY <3>1 DEF IndexedIsKnown
    <3>3. ASSUME NEW d \in Callers, Removing(d, b, l) PROVE Removing(d, b, l)'
      BY <1>1, <2>2, <3>3 DEF Removing
    <3>4. CASE b = a
      <4>1. PICK d \in Callers : Removing(d, a, l)
        BY <2>7, <3>2, <3>4, SceneAssumption
      <4> QED
        BY <2>1, <3>4, <4>1 DEF Removing
    <3>5. CASE b # a
      BY <2>8, <3>1, <3>2, <3>3, <3>5
    <3> QED
      BY <3>4, <3>5
  <2> QED
    BY <2>5, <2>6, <2>10, <2>11, <2>12, <2>13
<1> QED
  BY <1>4, <1>5

\* The last step of a call leaves memory and owners alone: the shape of the state
\* and the owners are kept (sortedAdd, sortedRemove).
LEMMA EndKeeps ==
  ASSUME SceneTypeOK, CallsInv, OwnerInv, NEW c \in Callers, call[c] # Away, Leave(c) \/ Removed(c),
         UNCHANGED <<table, scene, owner>>,
         sceneIndex' \in [Scenes -> SUBSET Ports], faults' \in 0..MaxFaults, dirty' \cup stray' \subseteq Ports,
         \A b \in Ports : scene[b] # NoScene /\ owner[b] # Nobody => ~Forgetting(c, owner[b])
  PROVE  /\ SceneTypeOK' /\ CallsInv' /\ OwnerInv'
         /\ Steps(c) /\ call'[c].pc \in {"away", "close"}
<1>1. /\ Steps(c) /\ Leaves(c)
      /\ call' \in [Callers -> Calls \cup {Away}]
      /\ link' \in [SceneServers -> Ports \cup {0}]
      /\ call'[c] = Away \/ (call'[c] = [call[c] EXCEPT !.pc = "close"] /\ call[c].then = "close" /\ link' = link)
  <2>1. CASE Leave(c)
    BY <2>1, LeaveSteps
  <2>2. CASE Removed(c)
    BY <2>2, RemovedSteps
  <2> QED
    BY <2>1, <2>2
<1>2. /\ \A s, t \in SceneServers : link'[s] = link'[t] => s = t \/ link'[s] = 0
      /\ table' \subseteq {s \in SceneServers : link'[s] # 0}
      /\ \A d \in Callers : call'[d] # Away => link'[call'[d].s] # 0 /\ (d # Timer => call'[d].s = d)
      /\ CallsInv'
  BY <1>1, LeaveTypes
<1>3. SceneTypeOK'
  BY <1>1, <1>2 DEF SceneTypeOK
<1>4. OwnerInv'
  BY <1>1, OwnerStays DEF OwnerInv, Forgetting
<1>5. call'[c].pc \in {"away", "close"}
  <2>1. call[c] \in Calls
    BY DEF SceneTypeOK
  <2> QED
    BY <1>1, <2>1 DEF Away, Calls
<1> QED
  BY <1>1, <1>2, <1>3, <1>4, <1>5

\* registerScene's second step, and updateScene (SceneManager.h:23, 41).
LEMMA SortedAddKeeps ==
  ASSUME SceneIInv, NEW c \in Callers, SortedAdd(c)
  PROVE  SceneIInv'
<1> USE DEF SceneIInv
<1> DEFINE a == call[c].a
           k == call[c].k
<1>1. call[c].pc = "zadd" /\ call[c] # Away /\ Leave(c) /\ UNCHANGED <<table, scene, owner>>
  BY DEF SortedAdd, Away
<1>2. a \in Ports /\ k \in Scenes
  BY <1>1 DEF SceneTypeOK, Calls, CallsInv
<1>3. \A b : ~Forgetting(c, b)
  BY <1>1 DEF Forgetting
<1>4. CASE Fails(a) /\ UNCHANGED stray
  <2>1. sceneIndex' = sceneIndex /\ dirty' = dirty \cup {a} /\ faults' \in 0..MaxFaults
    BY <1>4, SceneAssumption DEF Fails, SceneTypeOK
  <2>2. SceneTypeOK' /\ CallsInv' /\ OwnerInv' /\ Steps(c) /\ call'[c].pc \in {"away", "close"}
    <3>1. sceneIndex' \in [Scenes -> SUBSET Ports] /\ dirty' \cup stray' \subseteq Ports
      BY <1>2, <1>4, <2>1 DEF SceneTypeOK
    <3> QED
      BY <1>1, <1>3, <2>1, <3>1, EndKeeps
  <2>3. \A d \in Callers : d # c => call'[d] = call[d]
    BY <2>2 DEF Steps
  <2>4. RemovalsInv'
    BY <1>1, <2>1, <2>2, <2>3 DEF RemovalsInv
  <2>5. \A d \in Callers : d = c => \A l : ~Removing(d, a, l)
    BY <1>1 DEF Removing
  <2>6. KnownIsIndexed'
    <3> SUFFICES ASSUME NEW b \in Ports, scene[b] # NoScene, b \notin dirty'
                 PROVE  b \in sceneIndex[scene[b]] \/ \E d \in Callers : Adding(d, b, scene[b])'
      BY <1>1, <2>1 DEF KnownIsIndexed, Known, Adding
    <3>1. b # a /\ (b \in sceneIndex[scene[b]] \/ \E d \in Callers : Adding(d, b, scene[b]))
      BY <2>1 DEF KnownIsIndexed, Known
    <3>2. ASSUME NEW d \in Callers, Adding(d, b, scene[b]) PROVE Adding(d, b, scene[b])'
      BY <1>1, <2>3, <3>1, <3>2 DEF Adding
    <3> QED
      BY <3>1, <3>2
  <2>7. IndexedIsKnown'
    BY <1>1, <1>4, <2>1, <2>3 DEF IndexedIsKnown, Removing
  <2> QED
    BY <2>2, <2>4, <2>6, <2>7
<1>5. CASE /\ Works([sceneIndex EXCEPT ![k] = @ \cup {a}])
           /\ stray' = IF scene[a] = k THEN stray ELSE stray \cup {a}
  <2>1. sceneIndex' = [sceneIndex EXCEPT ![k] = @ \cup {a}] /\ UNCHANGED <<faults, dirty>>
    BY <1>5 DEF Works
  <2>2. SceneTypeOK' /\ CallsInv' /\ OwnerInv' /\ Steps(c) /\ call'[c].pc \in {"away", "close"}
    <3>1. /\ sceneIndex' \in [Scenes -> SUBSET Ports] /\ dirty' \cup stray' \subseteq Ports
          /\ faults' \in 0..MaxFaults
      BY <1>2, <1>5, <2>1 DEF SceneTypeOK
    <3> QED
      BY <1>1, <1>3, <3>1, EndKeeps
  <2>3. \A d \in Callers : d # c => call'[d] = call[d]
    BY <2>2 DEF Steps
  <2>4. RemovalsInv'
    BY <1>1, <2>1, <2>2, <2>3 DEF RemovalsInv
  <2>5. \A l \in Scenes : sceneIndex'[l] = IF l = k THEN sceneIndex[l] \cup {a} ELSE sceneIndex[l]
    BY <1>2, <2>1 DEF SceneTypeOK
  <2>6. KnownIsIndexed'
    <3> SUFFICES ASSUME NEW b \in Ports, scene[b] # NoScene, b \notin dirty
                 PROVE  b \in sceneIndex'[scene[b]] \/ \E d \in Callers : Adding(d, b, scene[b])'
      BY <1>1, <2>1 DEF KnownIsIndexed, Known, Adding
    <3>1. b \in sceneIndex[scene[b]] \/ \E d \in Callers : Adding(d, b, scene[b])
      BY DEF KnownIsIndexed, Known
    <3>2. scene[b] \in Scenes
      BY DEF SceneTypeOK
    <3>3. ASSUME NEW d \in Callers, Adding(d, b, scene[b]), d # c PROVE Adding(d, b, scene[b])'
      BY <1>1, <2>3, <3>3 DEF Adding
    <3>4. Adding(c, b, scene[b]) => b = a /\ scene[b] = k
      BY DEF Adding
    <3> QED
      BY <2>5, <3>1, <3>2, <3>3, <3>4
  <2>7. IndexedIsKnown'
    <3> SUFFICES ASSUME NEW l \in Scenes, NEW b \in sceneIndex'[l], b \notin dirty, b \notin stray'
                 PROVE  scene[b] = l \/ \E d \in Callers : Removing(d, b, l)'
      BY <1>1, <2>1 DEF IndexedIsKnown, Removing
    <3>1. CASE b \in sceneIndex[l]
      <4>1. b \notin stray
        BY <1>5
      <4>2. scene[b] = l \/ \E d \in Callers : Removing(d, b, l)
        BY <3>1, <4>1 DEF IndexedIsKnown
      <4>3. ASSUME NEW d \in Callers, Removing(d, b, l) PROVE Removing(d, b, l)'
        BY <1>1, <2>3, <4>3 DEF Removing
      <4> QED
        BY <4>2, <4>3
    <3>2. CASE b \notin sceneIndex[l]
      BY <1>5, <2>5, <3>2
    <3> QED
      BY <3>1, <3>2
  <2> QED
    BY <2>2, <2>4, <2>6, <2>7
<1> QED
  BY <1>4, <1>5 DEF SortedAdd

\* removeScene's first step (SceneManager.h:30-34).
LEMMA FindSceneKeeps ==
  ASSUME SceneIInv, NEW c \in Callers, FindScene(c)
  PROVE  SceneIInv'
<1> USE DEF SceneIInv
<1> DEFINE a == call[c].a
<1>1. /\ call[c].pc = "find" /\ call[c] # Away
      /\ UNCHANGED <<table, scene, sceneIndex, owner, faults, dirty, stray>>
  BY DEF FindScene, Away
<1>2. /\ a \in Ports /\ call[c] \in Calls /\ call[c].s \in SceneServers
      /\ a = link[call[c].s]
  BY <1>1 DEF SceneTypeOK, Calls, CallsInv
<1>3. CASE a \notin Known
  <2>1. Removed(c) /\ scene[a] = NoScene
    BY <1>2, <1>3 DEF FindScene, Known
  <2>2. \A b \in Ports : scene[b] # NoScene /\ owner[b] # Nobody => ~Forgetting(c, owner[b])
    BY <1>2, <2>1 DEF OwnerInv, Forgetting
  <2>3. SceneTypeOK' /\ CallsInv' /\ OwnerInv' /\ Steps(c) /\ call'[c].pc \in {"away", "close"}
    <3>1. /\ sceneIndex' \in [Scenes -> SUBSET Ports] /\ dirty' \cup stray' \subseteq Ports
          /\ faults' \in 0..MaxFaults
      BY <1>1 DEF SceneTypeOK
    <3> QED
      BY <1>1, <2>1, <2>2, <3>1, EndKeeps
  <2>4. \A d \in Callers : d # c => call'[d] = call[d]
    BY <2>3 DEF Steps
  <2>5. RemovalsInv'
    BY <1>1, <2>3, <2>4 DEF RemovalsInv
  <2>6. (KnownIsIndexed /\ IndexedIsKnown)'
    BY <1>1, <2>4 DEF KnownIsIndexed, IndexedIsKnown, Known, Adding, Removing
  <2> QED
    BY <2>3, <2>5, <2>6
<1>4. CASE a \in Known
  <2>1. call' = [call EXCEPT ![c].pc = "erase", ![c].k = scene[a]] /\ link' = link
    BY <1>4 DEF FindScene
  <2>2. \A d \in Callers : d # c => call'[d] = call[d]
    BY <2>1 DEF SceneTypeOK
  <2>3. /\ call'[c].pc = "erase" /\ call'[c].s = call[c].s /\ call'[c].a = a /\ call'[c].k = scene[a]
        /\ call'[c].then = call[c].then
    <3>1. call'[c] = [call[c] EXCEPT !.pc = "erase", !.k = scene[a]]
      BY <2>1 DEF SceneTypeOK
    <3> QED
      BY <1>2, <3>1 DEF Calls
  <2>4. scene[a] \in Scenes
    BY <1>2, <1>4 DEF Known, SceneTypeOK
  <2>5. call' \in [Callers -> Calls \cup {Away}]
    BY <1>2, <2>1, <2>4 DEF SceneTypeOK, Calls
  <2>6. SceneTypeOK'
    <3>1. \A d \in Callers : call'[d] # Away => link[call'[d].s] # 0 /\ (d # Timer => call'[d].s = d)
      BY <1>1, <2>2, <2>3 DEF SceneTypeOK
    <3> QED
      BY <1>1, <2>1, <2>5, <3>1 DEF SceneTypeOK
  <2>7. CallsInv'
    <3> SUFFICES ASSUME NEW d \in Callers, call'[d] # Away
                 PROVE  /\ call'[d].pc \in {"find", "erase", "zrem"} => call'[d].a = link[call'[d].s]
                        /\ call'[d].pc \in {"register", "zadd", "erase", "zrem"} => call'[d].k \in Scenes
                        /\ call'[d].then = "close" => d = Timer
      BY <2>1 DEF CallsInv
    <3>1. CASE d = c
      BY <1>1, <1>2, <2>3, <2>4, <3>1 DEF CallsInv
    <3>2. CASE d # c
      BY <2>2, <3>2 DEF CallsInv
    <3> QED
      BY <3>1, <3>2
  <2>8. OwnerInv'
    <3>1. \A d \in Callers, b \in Ports : Forgetting(d, owner[b]) => Forgetting(d, owner[b])'
      BY <1>1, <2>2, <2>3 DEF Forgetting
    <3> QED
      BY <1>1, <2>1, <3>1 DEF OwnerInv
  <2>9. RemovalsInv'
    BY <1>1, <2>2, <2>3 DEF RemovalsInv
  <2>10. (KnownIsIndexed /\ IndexedIsKnown)'
    BY <1>1, <2>2 DEF KnownIsIndexed, IndexedIsKnown, Known, Adding, Removing
  <2> QED
    BY <2>6, <2>7, <2>8, <2>9, <2>10
<1> QED
  BY <1>3, <1>4

\* removeScene's second step (SceneManager.h:35).
LEMMA EraseSceneKeeps ==
  ASSUME SceneIInv, NEW c \in Callers, EraseScene(c)
  PROVE  /\ SceneIInv'
         /\ \A b \in Ports : scene[b] # NoScene /\ scene'[b] = NoScene /\ owner[b] # Nobody => call[c].s = owner[b]
<1> USE DEF SceneIInv
<1> DEFINE a == call[c].a
<1>1. /\ call[c].pc = "erase" /\ call[c] # Away
      /\ UNCHANGED <<link, table, sceneIndex, faults, dirty, stray>>
      /\ scene' = [scene EXCEPT ![a] = NoScene]
      /\ owner' = [owner EXCEPT ![a] = Nobody]
      /\ call' = [call EXCEPT ![c].pc = "zrem"]
  BY DEF EraseScene, Away
<1>2. /\ a \in Ports /\ call[c] \in Calls /\ call[c].s \in SceneServers
      /\ a = link[call[c].s] /\ a # 0
  BY <1>1 DEF SceneTypeOK, Calls, CallsInv
<1>3. \A d \in Callers : d # c => call'[d] = call[d]
  BY <1>1 DEF SceneTypeOK
<1>4. /\ call'[c].pc = "zrem" /\ call'[c].s = call[c].s /\ call'[c].a = a /\ call'[c].k = call[c].k
      /\ call'[c].then = call[c].then
  <2>1. call'[c] = [call[c] EXCEPT !.pc = "zrem"]
    BY <1>1 DEF SceneTypeOK
  <2> QED
    BY <1>2, <2>1 DEF Calls
<1>5. call' \in [Callers -> Calls \cup {Away}]
  BY <1>1, <1>2 DEF SceneTypeOK, Calls
<1>6. /\ scene'[a] = NoScene /\ owner'[a] = Nobody
      /\ \A b \in Ports : b # a => scene'[b] = scene[b] /\ owner'[b] = owner[b]
  BY <1>1, <1>2 DEF SceneTypeOK
<1>7. SceneTypeOK'
  <2>1. \A d \in Callers : call'[d] # Away => link[call'[d].s] # 0 /\ (d # Timer => call'[d].s = d)
    BY <1>1, <1>3, <1>4 DEF SceneTypeOK
  <2>2. scene' \in [Ports -> Scenes \cup {NoScene}] /\ owner' \in [Ports -> SceneServers \cup {Nobody}]
    BY <1>1 DEF SceneTypeOK
  <2> QED
    BY <1>1, <1>5, <2>1, <2>2 DEF SceneTypeOK
<1>8. CallsInv'
  <2> SUFFICES ASSUME NEW d \in Callers, call'[d] # Away
               PROVE  /\ call'[d].pc \in {"find", "erase", "zrem"} => call'[d].a = link[call'[d].s]
                      /\ call'[d].pc \in {"register", "zadd", "erase", "zrem"} => call'[d].k \in Scenes
                      /\ call'[d].then = "close" => d = Timer
    BY <1>1 DEF CallsInv
  <2>1. CASE d = c
    BY <1>1, <1>2, <1>4, <2>1 DEF CallsInv
  <2>2. CASE d # c
    BY <1>3, <2>2 DEF CallsInv
  <2> QED
    BY <2>1, <2>2
<1>9. OwnerInv'
  <2> SUFFICES ASSUME NEW b \in Ports, scene'[b] # NoScene, owner'[b] # Nobody
               PROVE  /\ link[owner[b]] = b
                      /\ owner[b] \in table \/ \E d \in Callers : Forgetting(d, owner[b])'
    BY <1>1, <1>6 DEF OwnerInv, Forgetting
  <2>1. b # a /\ scene[b] # NoScene /\ owner[b] # Nobody /\ owner'[b] = owner[b]
    BY <1>6
  <2>2. link[owner[b]] = b /\ (owner[b] \in table \/ \E d \in Callers : Forgetting(d, owner[b]))
    BY <2>1 DEF OwnerInv
  <2>3. ASSUME NEW d \in Callers, Forgetting(d, owner[b]) PROVE Forgetting(d, owner[b])'
    <3>1. d # c
      BY <1>2, <2>1, <2>2, <2>3 DEF Forgetting
    <3> QED
      BY <1>3, <2>1, <2>3, <3>1 DEF Forgetting
  <2> QED
    BY <2>2, <2>3
<1>10. RemovalsInv'
  <2> SUFFICES ASSUME NEW d \in Callers, NEW b \in Ports, b \notin dirty, call'[d].a = b, scene'[b] # NoScene
               PROVE  call'[d].pc # "zrem" /\ (call'[d].pc = "erase" => call'[d].k = scene'[b])
    BY <1>1 DEF RemovalsInv
  <2>1. b # a /\ d # c
    BY <1>4, <1>6
  <2> QED
    BY <1>3, <1>6, <2>1 DEF RemovalsInv
<1>11. KnownIsIndexed'
  <2> SUFFICES ASSUME NEW b \in Ports, scene'[b] # NoScene, b \notin dirty
               PROVE  b \in sceneIndex[scene'[b]] \/ \E d \in Callers : Adding(d, b, scene[b])'
    BY <1>1 DEF KnownIsIndexed, Known, Adding
  <2>1. b # a /\ scene'[b] = scene[b]
    BY <1>6
  <2>2. b \in sceneIndex[scene[b]] \/ \E d \in Callers : Adding(d, b, scene[b])
    BY <2>1 DEF KnownIsIndexed, Known
  <2>3. ASSUME NEW d \in Callers, Adding(d, b, scene[b]) PROVE Adding(d, b, scene[b])'
    BY <1>1, <1>3, <2>1, <2>3 DEF Adding
  <2> QED
    BY <2>1, <2>2, <2>3
<1>12. IndexedIsKnown'
  <2> SUFFICES ASSUME NEW l \in Scenes, NEW b \in sceneIndex[l], b \notin dirty, b \notin stray
               PROVE  scene'[b] = l \/ \E d \in Callers : Removing(d, b, l)'
    BY <1>1 DEF IndexedIsKnown, Removing
  <2>1. b \in Ports
    BY DEF SceneTypeOK
  <2>2. scene[b] = l \/ \E d \in Callers : Removing(d, b, l)
    BY DEF IndexedIsKnown
  <2>3. ASSUME NEW d \in Callers, Removing(d, b, l) PROVE Removing(d, b, l)'
    BY <1>1, <1>3, <2>3 DEF Removing
  <2>4. CASE b = a /\ scene[b] = l
    <3>1. call[c].k = l
      BY <1>1, <2>1, <2>4, SceneAssumption DEF RemovalsInv
    <3> QED
      BY <1>4, <2>4, <3>1 DEF Removing
  <2> QED
    BY <1>6, <2>1, <2>2, <2>3, <2>4
<1>13. \A b \in Ports : scene[b] # NoScene /\ scene'[b] = NoScene /\ owner[b] # Nobody => call[c].s = owner[b]
  <2> SUFFICES ASSUME scene[a] # NoScene, owner[a] # Nobody PROVE call[c].s = owner[a]
    BY <1>6
  <2>1. link[owner[a]] = a /\ owner[a] \in SceneServers
    BY <1>2 DEF OwnerInv, SceneTypeOK
  <2> QED
    BY <1>2, <2>1 DEF SceneTypeOK
<1> QED
  BY <1>7, <1>8, <1>9, <1>10, <1>11, <1>12, <1>13

\* removeScene's last step (SceneManager.h:36).
LEMMA SortedRemoveKeeps ==
  ASSUME SceneIInv, NEW c \in Callers, SortedRemove(c)
  PROVE  SceneIInv'
<1> USE DEF SceneIInv
<1> DEFINE a == call[c].a
           k == call[c].k
<1>1. call[c].pc = "zrem" /\ call[c] # Away /\ Removed(c) /\ UNCHANGED <<table, scene, owner, stray>>
  BY DEF SortedRemove, Away
<1>2. a \in Ports /\ k \in Scenes
  BY <1>1 DEF SceneTypeOK, Calls, CallsInv
<1>3. \A b : ~Forgetting(c, b)
  BY <1>1 DEF Forgetting
<1>4. \/ /\ sceneIndex' = [sceneIndex EXCEPT ![k] = @ \ {a}]
         /\ UNCHANGED <<faults, dirty>>
      \/ sceneIndex' = sceneIndex /\ dirty' = dirty \cup {a} /\ faults' \in 0..MaxFaults
  BY SceneAssumption DEF SortedRemove, Works, Fails, SceneTypeOK
<1>5. SceneTypeOK' /\ CallsInv' /\ OwnerInv' /\ Steps(c) /\ call'[c].pc \in {"away", "close"}
  <2>1. /\ sceneIndex' \in [Scenes -> SUBSET Ports] /\ dirty' \cup stray' \subseteq Ports
        /\ faults' \in 0..MaxFaults
    BY <1>1, <1>2, <1>4 DEF SceneTypeOK
  <2> QED
    BY <1>1, <1>3, <2>1, EndKeeps
<1>6. \A d \in Callers : d # c => call'[d] = call[d]
  BY <1>5 DEF Steps
<1>7. dirty \subseteq dirty'
  BY <1>4
<1>8. \A l \in Scenes, b \in Ports : /\ b \in sceneIndex'[l] => b \in sceneIndex[l]
                                     /\ b \in sceneIndex[l] => b \in sceneIndex'[l] \/ (l = k /\ b = a)
                                     /\ b \in sceneIndex'[l] /\ l = k /\ b = a => b \in dirty'
  BY <1>2, <1>4 DEF SceneTypeOK
<1>9. RemovalsInv'
  BY <1>1, <1>5, <1>6, <1>7 DEF RemovalsInv
<1>10. KnownIsIndexed'
  <2> SUFFICES ASSUME NEW b \in Ports, scene[b] # NoScene, b \notin dirty'
               PROVE  b \in sceneIndex'[scene[b]] \/ \E d \in Callers : Adding(d, b, scene[b])'
    BY <1>1 DEF KnownIsIndexed, Known, Adding
  <2>1. b \in sceneIndex[scene[b]] \/ \E d \in Callers : Adding(d, b, scene[b])
    BY <1>7 DEF KnownIsIndexed, Known
  <2>2. b # a /\ scene[b] \in Scenes
    BY <1>1, <1>7 DEF RemovalsInv, SceneTypeOK
  <2>3. ASSUME NEW d \in Callers, Adding(d, b, scene[b]) PROVE Adding(d, b, scene[b])'
    BY <1>1, <1>6, <2>3 DEF Adding
  <2> QED
    BY <1>8, <2>1, <2>2, <2>3
<1>11. IndexedIsKnown'
  <2> SUFFICES ASSUME NEW l \in Scenes, NEW b \in sceneIndex'[l], b \notin dirty', b \notin stray
               PROVE  scene[b] = l \/ \E d \in Callers : Removing(d, b, l)'
    BY <1>1 DEF IndexedIsKnown, Removing
  <2>1. b \in Ports /\ b \in sceneIndex[l] /\ b \notin dirty /\ ~(l = k /\ b = a)
    BY <1>5, <1>7, <1>8 DEF SceneTypeOK
  <2>2. scene[b] = l \/ \E d \in Callers : Removing(d, b, l)
    BY <2>1 DEF IndexedIsKnown
  <2>3. ASSUME NEW d \in Callers, Removing(d, b, l) PROVE Removing(d, b, l)'
    <3>1. d # c
      BY <2>1, <2>3 DEF Removing
    <3> QED
      BY <1>6, <2>3, <3>1 DEF Removing
  <2> QED
    BY <2>2, <2>3
<1> QED
  BY <1>5, <1>9, <1>10, <1>11

\* Every step keeps the invariant, and only the owner's thread forgets an address
\* with an owner.
LEMMA SceneStep ==
  ASSUME SceneIInv, [SceneNext]_sceneVars
  PROVE  /\ SceneIInv'
         /\ Lost \/ \A a \in Ports :
              scene[a] # NoScene /\ scene'[a] = NoScene /\ owner[a] # Nobody
                => \E c \in Callers : call[c].pc = "erase" /\ call[c].s = owner[a]
<1> DEFINE Owned == \A a \in Ports :
              scene[a] # NoScene /\ scene'[a] = NoScene /\ owner[a] # Nobody
                => \E c \in Callers : call[c].pc = "erase" /\ call[c].s = owner[a]
<1>1. SceneTypeOK /\ CallsInv
  BY DEF SceneIInv
<1>2. ASSUME scene' = scene PROVE Owned
  BY <1>2
<1>3. CASE UNCHANGED sceneVars
  <2>1. SceneIInv'
    BY <1>3 DEF sceneVars, SceneIInv, SceneTypeOK, CallsInv, OwnerInv, Forgetting, RemovalsInv,
       KnownIsIndexed, IndexedIsKnown, Known, Adding, Removing
  <2> QED
    BY <1>2, <1>3, <2>1 DEF sceneVars
<1>4. CASE Restart
  <2>1. Lost /\ faults' \in 0..MaxFaults
    BY <1>1, <1>4, SceneAssumption DEF Restart, SceneTypeOK
  <2> QED
    BY <2>1, LostKeeps
<1>5. ASSUME NEW c \in Callers, NEW s \in SceneServers, Close(c, s), link[s] # 0,
             call[c] = Away \/ call[c].pc = "close", c = Timer \/ c = s
      PROVE  SceneIInv' /\ (Lost \/ Owned)
  <2>1. CASE Closed(s)
    <3>1. Lost /\ faults' \in 0..MaxFaults
      BY <1>1, <1>5, <2>1 DEF Close, SceneTypeOK
    <3> QED
      BY <3>1, LostKeeps
  <2>2. CASE ~Closed(s)
    <3>1. RemoveConnection(c, s)
      BY <1>5, <2>2 DEF Close
    <3>2. scene' = scene
      BY <3>1 DEF RemoveConnection
    <3> QED
      BY <1>2, <1>5, <3>1, <3>2, RemoveConnectionKeeps
  <2> QED
    BY <2>1, <2>2
<1>6. CASE ActiveClose
  <2>1. Timer \in Callers /\ call[Timer].pc = "close" /\ Close(Timer, call[Timer].s)
    BY <1>6 DEF ActiveClose, Callers
  <2>2. call[Timer].s \in SceneServers /\ link[call[Timer].s] # 0
    BY <1>1, <2>1 DEF SceneTypeOK, Calls, Away
  <2> QED
    BY <1>5, <2>1, <2>2
<1>7. ASSUME NEW s \in SceneServers, EndOfStream(s) PROVE SceneIInv' /\ (Lost \/ Owned)
  BY <1>5, <1>7 DEF EndOfStream, Callers
<1>8. ASSUME NEW s \in SceneServers, NEW p \in Ports, Connect(s, p) PROVE SceneIInv' /\ Owned
  BY <1>2, <1>8, ConnectKeeps DEF Connect
<1>9. ASSUME NEW s \in SceneServers, NEW k \in Scenes, RegisterRequest(s, k) \/ UpdateRequest(s, k)
      PROVE  SceneIInv' /\ Owned
  <2>1. s \in Callers /\ scene' = scene
    BY <1>9 DEF RegisterRequest, UpdateRequest, OnlyEnters, Callers
  <2>2. CASE RegisterRequest(s, k)
    BY <1>2, <2>1, <2>2, EnterKeeps DEF RegisterRequest
  <2>3. CASE UpdateRequest(s, k)
    BY <1>2, <2>1, <2>3, EnterKeeps DEF UpdateRequest
  <2> QED
    BY <1>9, <2>2, <2>3
<1>10. ASSUME NEW s \in SceneServers, QuitRequest(s) PROVE SceneIInv' /\ Owned
  <2>1. s \in Callers /\ scene' = scene
    BY <1>10 DEF QuitRequest, OnlyEnters, Callers
  <2> QED
    BY <1>2, <1>10, <2>1, EnterKeeps DEF QuitRequest
<1>11. ASSUME NEW s \in SceneServers, HeartbeatLate(s) PROVE SceneIInv' /\ Owned
  <2>1. Timer \in Callers /\ scene' = scene
    BY <1>11 DEF HeartbeatLate, OnlyEnters, Callers
  <2> QED
    BY <1>2, <1>11, <2>1, EnterKeeps DEF HeartbeatLate
<1>12. ASSUME NEW c \in Callers, Emplace(c) PROVE SceneIInv' /\ Owned
  <2>1. Owned
    <3>1. call[c] \in Calls
      BY <1>1, <1>12 DEF Emplace, SceneTypeOK, Away
    <3>2. call[c].k \in Scenes /\ call[c].a \in Ports
      BY <1>1, <1>12, <3>1 DEF Emplace, CallsInv, Calls, Away
    <3>3. \A a \in Ports : scene'[a] = NoScene => scene[a] = NoScene
      BY <1>1, <1>12, <3>2, SceneAssumption DEF Emplace, SceneTypeOK
    <3> QED
      BY <3>3
  <2> QED
    BY <1>12, <2>1, EmplaceKeeps
<1>13. ASSUME NEW c \in Callers, SortedAdd(c) PROVE SceneIInv' /\ Owned
  BY <1>2, <1>13, SortedAddKeeps DEF SortedAdd
<1>14. ASSUME NEW c \in Callers, FindScene(c) PROVE SceneIInv' /\ Owned
  BY <1>2, <1>14, FindSceneKeeps DEF FindScene
<1>15. ASSUME NEW c \in Callers, EraseScene(c) PROVE SceneIInv' /\ Owned
  BY <1>15, EraseSceneKeeps DEF EraseScene
<1>16. ASSUME NEW c \in Callers, SortedRemove(c) PROVE SceneIInv' /\ Owned
  BY <1>2, <1>16, SortedRemoveKeeps DEF SortedRemove
<1>17. SceneAssumption
  BY SceneAssumption
<1> QED
  BY <1>3, <1>4, <1>6, <1>7, <1>8, <1>9, <1>10, <1>11, <1>12, <1>13, <1>14, <1>15, <1>16, <1>17
     DEF SceneNext, SceneAssumption

\* The inductive invariant holds in every state.
THEOREM SceneInvariant == SceneSpec => []SceneIInv
<1>1. SceneInit => SceneIInv
  BY SceneInitially
<1>2. SceneIInv /\ [SceneNext]_sceneVars => SceneIInv'
  BY SceneStep
<1> QED
  BY <1>1, <1>2, PTL DEF SceneSpec

\* Every variable keeps its shape, and a thread's connection is not destroyed under
\* it, whatever servers register, update, quit, close or fail (GameMessageOp,
\* SceneManager, TcpServer::removeConnection).
THEOREM SceneTypeCorrect == SceneSpec => []SceneTypeOK
<1>1. SceneIInv => SceneTypeOK
  BY DEF SceneIInv
<1> QED
  BY <1>1, SceneInvariant, PTL

\* Memory and sorted sets agree, up to the additions and removals under way, for
\* any number of event loops and the timer inside SceneManager at once.
THEOREM MemoryAndIndexAgree == SceneSpec => []SceneInv
<1>1. SceneIInv => SceneInv
  BY DEF SceneIInv, SceneInv
<1> QED
  BY <1>1, SceneInvariant, PTL

\* Whom players are sent to is connected, or was registered over another port than
\* its own (SceneManager::getLowLoadScene, GameServer::closeFunc).
THEOREM PlayersSentToConnected == SceneSpec => []SentToConnected
<1>1. SceneIInv => SentToConnected
  <2> SUFFICES ASSUME SceneIInv, NEW k \in Scenes, NEW a \in sceneIndex[k], a \notin dirty, a \notin stray
               PROVE  (\E s \in SceneServers : link[s] = a) \/ (scene[a] = k /\ owner[a] = Nobody)
    BY DEF SentToConnected
  <2> USE DEF SceneIInv
  <2>1. a \in Ports
    BY DEF SceneTypeOK
  <2>2. CASE scene[a] = k
    <3>1. owner[a] # Nobody => link[owner[a]] = a /\ owner[a] \in SceneServers
      BY <2>1, <2>2, SceneAssumption DEF OwnerInv, SceneTypeOK
    <3> QED
      BY <2>2, <3>1
  <2>3. ASSUME NEW c \in Callers, Removing(c, a, k) PROVE \E s \in SceneServers : link[s] = a
    <3>1. call[c] # Away /\ call[c].pc = "zrem" /\ call[c].a = a
      BY <2>3 DEF Removing, Away
    <3>2. link[call[c].s] = a /\ call[c].s \in SceneServers
      BY <3>1 DEF CallsInv, SceneTypeOK, Calls
    <3> QED
      BY <3>2
  <2> QED
    BY <2>2, <2>3 DEF IndexedIsKnown
<1> QED
  BY <1>1, SceneInvariant, PTL

\* A server that registered the port it connects from is forgotten by the threads
\* in its own connection only (SceneManager::removeScene, TcpServer::removeConnection).
THEOREM ForgottenByOwner == SceneSpec => RemovedByOwner
<1>1. SceneIInv /\ [SceneNext]_sceneVars =>
        [Lost \/ \A a \in Ports :
           scene[a] # NoScene /\ scene'[a] = NoScene /\ owner[a] # Nobody
             => \E c \in Callers : call[c].pc = "erase" /\ call[c].s = owner[a]]_sceneVars
  BY SceneStep
<1> QED
  BY <1>1, SceneInvariant, PTL DEF SceneSpec, RemovedByOwner
=============================================================================
