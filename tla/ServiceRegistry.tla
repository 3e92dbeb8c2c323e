-------------------------- MODULE ServiceRegistry --------------------------
(***************************************************************************)
(* How a gateway or game server announces itself in Redis, how the center  *)
(* server keeps track of it, and whom the DB server sends clients to.  A   *)
(* step is one Redis call.  A tick is the 5 seconds between two passes of  *)
(* the center; ttl[s] is what the Redis command TTL answers for the        *)
(* service's address hash, in ticks: -2 without the key, -1 without expiry.*)
(* A service is the key a server process registers under: the address of   *)
(* the server and the number INCR gave it, so a restarted server is a new  *)
(* service, until the center is restarted and resets the number.           *)
(***************************************************************************)
EXTENDS Integers, FiniteSets

CONSTANTS Servers,    \* addresses of gateway (or game) servers
          Lifetime,   \* ..._HEARTBEAT_IN_SECOND * ..._TOLERANCE, in ticks
          Threshold,  \* SERVICE_LOSE_THRESHOLD_IN_SECONDS / 2, in ticks
          MissLimit,  \* misses after which the center gives a service up
          Word,       \* 2^w for the width of size_t
          MaxSuffix,  \* bound on the number INCR hands out
          MaxCrashes, \* bound on the crashes of servers
          MaxRestarts \* bound on the restarts of the center

Services == Servers \X (1..MaxSuffix)
NoService == <<"none", 0>>

ASSUME RegistryAssumption ==
  /\ Lifetime \in Nat \ {0} /\ Threshold \in 1..Lifetime
  /\ MissLimit \in Nat \ {0}
  /\ Word \in Nat /\ Word > Lifetime + 2
  /\ MaxSuffix \in Nat /\ MaxCrashes \in Nat /\ MaxRestarts \in Nat

VARIABLES members,  \* the set SERVICE_KEYS
          ttl,      \* Services -> TTL of the address hash
          index,    \* members of the sorted set GATEWAY_KEYS (or GAME_KEYS)
          proc,     \* Services -> where the server process is
          beats,    \* services with an unread heartbeat message
          suffix,   \* the counter SERVICE_REGISTRY_ID_KEY
          known,    \* mServiceKeys: Services -> misses, -1 when not in the map
          center,   \* the center server: [pc, todo, key]
          crashes,  \* crashes of servers so far
          restarts, \* restarts of the center so far
          late      \* whether a tick passed before everybody had answered

vars == <<members, ttl, index, proc, beats, suffix, known, center, crashes, restarts, late>>

Absent == -2
NoExpiry == -1

\* EXPIRE does nothing to a key that is gone.
Expire(t) == IF t = Absent THEN Absent ELSE Lifetime

Init ==
  /\ members = {}
  /\ ttl = [s \in Services |-> Absent]
  /\ index = {}
  /\ proc = [s \in Services |-> "down"]
  /\ beats = {}
  /\ suffix = 0
  /\ known = [s \in Services |-> -1]
  /\ center = [pc |-> "due", todo |-> {}, key |-> NoService]
  /\ crashes = 0
  /\ restarts = 0
  /\ late = FALSE

-----------------------------------------------------------------------------
(* A server process: registerService and onMessageFunc *)

\* intiKey and the start of registerService: INCR, then SADD.
RegSadd(s) ==
  /\ \A n \in 1..MaxSuffix : proc[<<s[1], n>>] = "down"
  /\ s[2] = suffix + 1
  /\ suffix' = suffix + 1
  /\ members' = members \cup {s}
  /\ proc' = [proc EXCEPT ![s] = "hset"]
  /\ UNCHANGED <<ttl, index, beats, known, center, crashes, restarts, late>>

\* A hash left from an earlier life keeps its expiry.
RegHset(s) ==
  /\ proc[s] = "hset"
  /\ ttl' = [ttl EXCEPT ![s] = IF @ = Absent THEN NoExpiry ELSE @]
  /\ proc' = [proc EXCEPT ![s] = "expire"]
  /\ UNCHANGED <<members, index, beats, suffix, known, center, crashes, restarts, late>>

RegExpire(s) ==
  /\ proc[s] = "expire"
  /\ ttl' = [ttl EXCEPT ![s] = Expire(@)]
  /\ proc' = [proc EXCEPT ![s] = "subscribe"]
  /\ UNCHANGED <<members, index, beats, suffix, known, center, crashes, restarts, late>>

RegSubscribe(s) ==
  /\ proc[s] = "subscribe"
  /\ proc' = [proc EXCEPT ![s] = "up"]
  /\ UNCHANGED <<members, ttl, index, beats, suffix, known, center, crashes, restarts, late>>

\* Mutant of BeatExpire: the heartbeat does not touch the hash.
BeatNoExpire(s) ==
  /\ proc[s] = "up" /\ s \in beats
  /\ beats' = beats \ {s}
  /\ proc' = [proc EXCEPT ![s] = "zadd"]
  /\ UNCHANGED <<members, ttl, index, suffix, known, center, crashes, restarts, late>>

BeatExpire(s) ==
  /\ proc[s] = "up" /\ s \in beats
  /\ beats' = beats \ {s}
  /\ ttl' = [ttl EXCEPT ![s] = Expire(@)]
  /\ proc' = [proc EXCEPT ![s] = "zadd"]
  /\ UNCHANGED <<members, index, suffix, known, center, crashes, restarts, late>>

BeatZadd(s) ==
  /\ proc[s] = "zadd"
  /\ index' = index \cup {s}
  /\ proc' = [proc EXCEPT ![s] = "up"]
  /\ UNCHANGED <<members, ttl, beats, suffix, known, center, crashes, restarts, late>>

Crash(s) ==
  /\ proc[s] # "down"
  /\ crashes < MaxCrashes
  /\ crashes' = crashes + 1
  /\ proc' = [proc EXCEPT ![s] = "down"]
  /\ beats' = beats \ {s}
  /\ UNCHANGED <<members, ttl, index, suffix, known, center, restarts, late>>

-----------------------------------------------------------------------------
(* The center server: ServiceRegistry::run *)

CenterScan ==
  /\ center.pc = "due"
  /\ center' = [center EXCEPT !.pc = "loop", !.todo = members]
  /\ UNCHANGED <<members, ttl, index, proc, beats, suffix, known, crashes, restarts, late>>

CenterFound(s) ==
  /\ center.pc = "loop" /\ s \in center.todo
  /\ ttl[s] # Absent
  /\ known' = [known EXCEPT ![s] = 0]
  /\ center' = [center EXCEPT !.todo = @ \ {s}]
  /\ UNCHANGED <<members, ttl, index, proc, beats, suffix, crashes, restarts, late>>

\* Misses counted so far, this one included.
Misses(s) == IF known[s] = -1 THEN 1 ELSE known[s] + 1

\* Mutant of CenterMissed: misses are not counted.
CenterMissedUncounted(s) ==
  /\ center.pc = "loop" /\ s \in center.todo
  /\ ttl[s] = Absent
  /\ known' = [known EXCEPT ![s] = 0]
  /\ center' = [center EXCEPT !.todo = @ \ {s}]
  /\ UNCHANGED <<members, ttl, index, proc, beats, suffix, crashes, restarts, late>>

CenterMissed(s) ==
  /\ center.pc = "loop" /\ s \in center.todo
  /\ ttl[s] = Absent
  /\ known' = [known EXCEPT ![s] = Misses(s)]
  /\ center' = IF Misses(s) >= MissLimit
               THEN [pc |-> "srem", todo |-> center.todo \ {s}, key |-> s]
               ELSE [center EXCEPT !.todo = @ \ {s}]
  /\ UNCHANGED <<members, ttl, index, proc, beats, suffix, crashes, restarts, late>>

CenterSrem ==
  /\ center.pc = "srem"
  /\ members' = members \ {center.key}
  /\ center' = [center EXCEPT !.pc = "zrem"]
  /\ UNCHANGED <<ttl, index, proc, beats, suffix, known, crashes, restarts, late>>

\* Mutant of CenterZrem: the sorted set is not cleaned.
CenterZremForgotten ==
  /\ center.pc = "zrem"
  /\ known' = [known EXCEPT ![center.key] = -1]
  /\ center' = [center EXCEPT !.pc = "loop", !.key = NoService]
  /\ UNCHANGED <<members, ttl, index, proc, beats, suffix, crashes, restarts, late>>

\* Mutant of CenterZrem: the map entry is not erased.
CenterZremNoErase ==
  /\ center.pc = "zrem"
  /\ index' = index \ {center.key}
  /\ center' = [center EXCEPT !.pc = "loop", !.key = NoService]
  /\ UNCHANGED <<members, ttl, proc, beats, suffix, known, crashes, restarts, late>>

\* The service is out of the index and of the map, and "-" is published for it.
CenterZrem ==
  /\ center.pc = "zrem"
  /\ index' = index \ {center.key}
  /\ known' = [known EXCEPT ![center.key] = -1]
  /\ center' = [center EXCEPT !.pc = "loop", !.key = NoService]
  /\ UNCHANGED <<members, ttl, proc, beats, suffix, crashes, restarts, late>>

\* PUBLISH reaches whoever has subscribed by now.
CenterPublish ==
  /\ center.pc = "loop" /\ center.todo = {}
  /\ beats' = beats \cup {s \in Services : proc[s] \in {"up", "zadd"}}
  /\ center' = [center EXCEPT !.pc = "nap"]
  /\ UNCHANGED <<members, ttl, index, proc, suffix, known, crashes, restarts, late>>

\* A Redis error ends run(); the center is started again with an empty map, and
\* initKeys resets the counter.
CenterRestart ==
  /\ restarts < MaxRestarts
  /\ restarts' = restarts + 1
  /\ suffix' = 0
  /\ known' = [s \in Services |-> -1]
  /\ center' = [pc |-> "due", todo |-> {}, key |-> NoService]
  /\ UNCHANGED <<members, ttl, index, proc, beats, crashes, late>>

-----------------------------------------------------------------------------
Quiet == /\ center.pc = "nap" /\ beats = {}
         /\ \A s \in Services : proc[s] \in {"down", "up"}

Tick ==
  /\ ttl' = [s \in Services |-> IF ttl[s] > 1 THEN ttl[s] - 1
                                ELSE IF ttl[s] = 1 THEN Absent ELSE ttl[s]]
  /\ center' = IF center.pc = "nap" THEN [center EXCEPT !.pc = "due"] ELSE center
  /\ late' = (late \/ ~Quiet)
  /\ UNCHANGED <<members, index, proc, beats, suffix, known, crashes, restarts>>

Register(s) == RegHset(s) \/ RegExpire(s) \/ RegSubscribe(s)
Beat(s) == BeatExpire(s) \/ BeatZadd(s)
CenterCheck(s) == CenterFound(s) \/ CenterMissed(s)
Center == \/ CenterScan \/ CenterSrem \/ CenterZrem \/ CenterPublish
          \/ \E s \in Services : CenterCheck(s)

Next ==
  \/ \E s \in Services : RegSadd(s) \/ Register(s) \/ Beat(s) \/ Crash(s)
  \/ Center \/ CenterRestart
  \/ Tick

Spec == Init /\ [][Next]_vars

\* A running server registers and answers; the center loops; time passes.
Fairness == /\ \A s \in Services : WF_vars(Register(s)) /\ WF_vars(Beat(s))
            /\ WF_vars(Center) /\ WF_vars(Tick)

FairSpec == Spec /\ Fairness

-----------------------------------------------------------------------------
(* QueryTask::getLowLoadService: the first service of the index, in the order *)
(* of the load, whose TTL compares as alive.  TTL is signed, the threshold a  *)
(* size_t: the comparison is made modulo 2^w.                                *)

AsSizeT(n) == n % Word
LowLoadServices == {s \in index : AsSizeT(ttl[s]) >= Threshold}

-----------------------------------------------------------------------------
(* Properties *)

\* Every variable has the shape the code gives it.
TypeOK ==
  /\ members \subseteq Services /\ index \subseteq Services /\ beats \subseteq Services
  /\ ttl \in [Services -> {Absent, NoExpiry} \cup 1..Lifetime]
  /\ proc \in [Services -> {"down", "hset", "expire", "subscribe", "up", "zadd"}]
  /\ suffix \in 0..MaxSuffix
  /\ known \in [Services -> -1..MissLimit]
  /\ center \in [pc : {"nap", "due", "loop", "srem", "zrem"}, todo : SUBSET Services,
                key : Services \cup {NoService}]
  /\ late \in BOOLEAN /\ crashes \in 0..MaxCrashes /\ restarts \in 0..MaxRestarts

\* mServiceKeys follows SERVICE_KEYS: it has no entry of a service that reached
\* the limit or was removed from the set, except the one just being removed; a
\* stale count would give a service that comes back up too early.
KnownIsTracked ==
  \A s \in Services : s # center.key =>
    /\ known[s] < MissLimit
    /\ known[s] >= 0 => s \in members

\* The center works through services that are in the set, and removes one at a
\* time, which is not looked at again in the same pass.
CenterTracked ==
  /\ center.todo \subseteq members \ {center.key}
  /\ (center.key \in Services) = (center.pc \in {"srem", "zrem"})

\* The shape of the state, that the center's map follows the set, and what the
\* center is doing: an inductive invariant.
RegistryInv == TypeOK /\ KnownIsTracked /\ CenterTracked

\* As long as all answer within the tick and the center runs, a server that
\* has registered and runs is never given up: it stays in SERVICE_KEYS, and its
\* hash does not expire.
LiveServiceKept ==
  ~late /\ restarts = 0 => \A s \in Services : proc[s] \in {"up", "zadd"} => s \in members /\ ttl[s] >= 1

\* The center forgets a dead server: it leaves SERVICE_KEYS for good, unless it
\* died between HSET and EXPIRE, which leaves a hash that never expires.
DeadForgotten ==
  \A s \in Services :
    <>[](proc[s] = "down" /\ ttl[s] # NoExpiry) => <>[](s \notin members)

\* Under the same conditions clients are no longer sent to a dead server.  The
\* center has to take it out of the index: the comparison of its TTL takes the
\* -2 of an expired hash for a large number.
DeadNotChosen ==
  \A s \in Services : <>[](proc[s] = "down" /\ ~late /\ restarts = 0)
                        => <>[](s \notin LowLoadServices)
=============================================================================
