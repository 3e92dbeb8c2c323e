--------------------------- MODULE SceneRegistry ---------------------------
(***************************************************************************)
(* Scenes of the game server.  A dedicated server (DS) connects, registers *)
(* the scene it runs, updates its load and quits; SceneManager remembers   *)
(* the addresses and keeps one sorted set per scene in Redis, from which   *)
(* players are sent to a DS.  A DS is known by the address it listens at   *)
(* when it registers and by its connection's address afterwards.           *)
(*                                                                         *)
(* SceneManager has no lock.  It is called by the event loop of each       *)
(* connection and by the timer's thread, and one step is one access to its *)
(* map or one call to Redis.                                               *)
(***************************************************************************)
EXTENDS Naturals

CONSTANTS SceneServers, \* dedicated servers, on one host
          Scenes,       \* scene keys
          Ports,        \* an address is a port of that host
          ListenPort,   \* SceneServers -> Ports: DS_PORT
          SentScenes,   \* SceneServers -> the scene keys of its SCENE_IDs
          MaxFaults     \* bound on Redis errors and restarts of the game server

Nobody == "nobody"    \* no dedicated server
NoScene == "no scene" \* no entry in mSceneAddresses
Timer == "timer"      \* the timer's thread

ASSUME SceneAssumption ==
  /\ ListenPort \in [SceneServers -> Ports]
  /\ SentScenes \in [SceneServers -> SUBSET Scenes]
  /\ 0 \notin Ports
  /\ Nobody \notin SceneServers /\ Timer \notin SceneServers /\ NoScene \notin Scenes
  /\ MaxFaults \in Nat

\* The threads that call SceneManager: an event loop, named after the connection
\* it serves here, and the timer.
Callers == SceneServers \cup {Timer}

VARIABLES link,       \* SceneServers -> the port of its connection, 0 if it has none
          table,      \* mTcpConnections
          scene,      \* mSceneAddresses: Ports -> scene key or NoScene
          sceneIndex, \* Scenes -> the addresses in the sorted set
          call,       \* Callers -> where the thread is: in whose connection, with
                      \* which address and scene, and what follows removeScene
          owner,      \* Ports -> the DS remembered there if it registered over a
                      \* connection from this port that was in the table, else Nobody
          faults,
          dirty,      \* addresses a Redis error or a restart concerned, or that were
                      \* registered while another thread was removing them
          stray       \* addresses added to a scene they were not remembered for

sceneVars == <<link, table, scene, sceneIndex, call, owner, faults, dirty, stray>>

Known == {a \in Ports : scene[a] # NoScene}

Away == [pc |-> "away", s |-> Nobody, a |-> 0, k |-> NoScene, then |-> "return"]

SceneInit ==
  /\ link = [s \in SceneServers |-> 0]
  /\ table = {}
  /\ scene = [a \in Ports |-> NoScene]
  /\ sceneIndex = [k \in Scenes |-> {}]
  /\ call = [c \in Callers |-> Away]
  /\ owner = [a \in Ports |-> Nobody]
  /\ faults = 0
  /\ dirty = {} /\ stray = {}

\* Thread c starts on connection s, if it is not in one.
Enter(c, pc, s, a, k, then) ==
  /\ call[c] = Away
  /\ link[s] # 0
  /\ call' = [call EXCEPT ![c] = [pc |-> pc, s |-> s, a |-> a, k |-> k, then |-> then]]

\* Thread c leaves its connection.  One that is out of the table is destroyed by
\* the last thread in it, and its port is free.
Leave(c) ==
  /\ call' = [call EXCEPT ![c] = Away]
  /\ link' = [s \in SceneServers |->
                IF /\ s = call[c].s /\ s \notin table
                   /\ \A d \in Callers \ {c} : call[d].s # s
                THEN 0 ELSE link[s]]

\* A Redis call that works, or throws: sortedAdd and sortedRemove answer -1.
Works(new) == sceneIndex' = new /\ UNCHANGED <<faults, dirty>>
Fails(a) == /\ faults < MaxFaults
            /\ faults' = faults + 1
            /\ dirty' = dirty \cup {a}
            /\ UNCHANGED sceneIndex

\* The process ends and is started again: connections, threads' work and
\* mSceneAddresses are lost.
Lost ==
  /\ link' = [s \in SceneServers |-> 0]
  /\ table' = {}
  /\ scene' = [a \in Ports |-> NoScene]
  /\ call' = [c \in Callers |-> Away]
  /\ dirty' = dirty \cup Known \cup {call[c].a : c \in {d \in Callers : call[d].pc = "zrem"}}
  /\ owner' = [a \in Ports |-> Nobody]
  /\ UNCHANGED <<sceneIndex, stray>>

Restart == faults < MaxFaults /\ faults' = faults + 1 /\ Lost

\* A DS connects from any free port; a DS may listen (for players) at the port
\* another one connects from.
Connect(s, p) ==
  /\ link[s] = 0
  /\ \A t \in SceneServers : link[t] # p
  /\ link' = [link EXCEPT ![s] = p]
  /\ table' = table \cup {s}
  /\ UNCHANGED <<scene, sceneIndex, call, owner, faults, dirty, stray>>

-----------------------------------------------------------------------------
(* What brings a thread into SceneManager *)

OnlyEnters == UNCHANGED <<link, table, scene, sceneIndex, owner, faults, dirty, stray>>

RegisterRequest(s, k) == Enter(s, "register", s, ListenPort[s], k, "return") /\ OnlyEnters
UpdateRequest(s, k) == Enter(s, "zadd", s, link[s], k, "return") /\ OnlyEnters
QuitRequest(s) == Enter(s, "find", s, link[s], NoScene, "return") /\ OnlyEnters

\* checkHeartbeat finds the connection and it is late: removeScene, then close.
HeartbeatLate(s) == s \in table /\ Enter(Timer, "find", s, link[s], NoScene, "close") /\ OnlyEnters

\* Some thread has closed s to the end: its close callback has lost the pointer.
Closed(s) == s \notin table /\ \A c \in Callers : ~(call[c].s = s /\ call[c].then = "closed")

\* Mutant of RemoveConnection: TcpServer has no mCloseFunc.
RemoveConnectionUnset(c, s) ==
  /\ table' = table \ {s}
  /\ call' = [call EXCEPT ![c] = Away]
  /\ link' = [link EXCEPT ![s] = 0]
  /\ UNCHANGED <<scene, sceneIndex, owner, faults, dirty, stray>>

\* Mutant of RemoveConnection: the pointer is reset before mCloseFunc.
RemoveConnectionEarly(c, s) ==
  /\ table' = table \ {s}
  /\ call' = [call EXCEPT ![c] = [pc |-> "find", s |-> s, a |-> link[s], k |-> NoScene, then |-> "closed"]]
  /\ link' = [link EXCEPT ![s] = IF \A d \in Callers \ {c} : call[d].s # s THEN 0 ELSE @]
  /\ UNCHANGED <<scene, sceneIndex, owner, faults, dirty, stray>>

\* removeConnection: out of the table, then mCloseFunc calls removeScene.
RemoveConnection(c, s) ==
  /\ table' = table \ {s}
  /\ call' = [call EXCEPT ![c] = [pc |-> "find", s |-> s, a |-> link[s], k |-> NoScene, then |-> "closed"]]
  /\ UNCHANGED <<link, scene, sceneIndex, owner, faults, dirty, stray>>

\* closeFunc and activeClose; following a null pointer ends the process.
Close(c, s) == IF Closed(s) THEN Lost /\ UNCHANGED faults ELSE RemoveConnection(c, s)

EndOfStream(s) == call[s] = Away /\ link[s] # 0 /\ Close(s, s)
ActiveClose == call[Timer].pc = "close" /\ Close(Timer, call[Timer].s)

-----------------------------------------------------------------------------
(* SceneManager *)

\* registerScene: a known address is refused, another one is remembered ...
Emplace(c) ==
  LET a == call[c].a
      s == call[c].s
  IN /\ call[c].pc = "register"
     /\ IF a \in Known
        THEN Leave(c) /\ UNCHANGED <<scene, owner, dirty>>
        ELSE /\ scene' = [scene EXCEPT ![a] = call[c].k]
             /\ owner' = [owner EXCEPT ![a] = IF link[s] = a /\ s \in table THEN s ELSE Nobody]
             /\ dirty' = IF \E d \in Callers : call[d].pc \in {"erase", "zrem"} /\ call[d].a = a
                         THEN dirty \cup {a} ELSE dirty
             /\ call' = [call EXCEPT ![c].pc = "zadd"]
             /\ UNCHANGED link
     /\ UNCHANGED <<table, sceneIndex, faults, stray>>

\* ... and added.  updateScene: only added, under the address of the connection.
SortedAdd(c) ==
  LET a == call[c].a
      k == call[c].k
  IN /\ call[c].pc = "zadd"
     /\ \/ /\ Works([sceneIndex EXCEPT ![k] = @ \cup {a}])
           /\ stray' = IF scene[a] = k THEN stray ELSE stray \cup {a}
        \/ Fails(a) /\ UNCHANGED stray
     /\ Leave(c)
     /\ UNCHANGED <<table, scene, owner>>

\* After removeScene: the timer goes on to close the connection.
Removed(c) ==
  IF call[c].then = "close"
  THEN call' = [call EXCEPT ![c].pc = "close"] /\ UNCHANGED link
  ELSE Leave(c)

\* removeScene: nothing for an unknown address; the scene key of a known one ...
FindScene(c) ==
  /\ call[c].pc = "find"
  /\ IF call[c].a \in Known
     THEN call' = [call EXCEPT ![c].pc = "erase", ![c].k = scene[call[c].a]] /\ UNCHANGED link
     ELSE Removed(c)
  /\ UNCHANGED <<table, scene, sceneIndex, owner, faults, dirty, stray>>

\* Mutant of EraseScene: the address is not forgotten.
EraseSceneKept(c) ==
  /\ call[c].pc = "erase"
  /\ call' = [call EXCEPT ![c].pc = "zrem"]
  /\ UNCHANGED <<link, table, scene, sceneIndex, owner, faults, dirty, stray>>

\* ... which is forgotten ...
EraseScene(c) ==
  /\ call[c].pc = "erase"
  /\ scene' = [scene EXCEPT ![call[c].a] = NoScene]
  /\ owner' = [owner EXCEPT ![call[c].a] = Nobody]
  /\ call' = [call EXCEPT ![c].pc = "zrem"]
  /\ UNCHANGED <<link, table, sceneIndex, faults, dirty, stray>>

\* ... and taken out of that scene.
SortedRemove(c) ==
  /\ call[c].pc = "zrem"
  /\ \/ Works([sceneIndex EXCEPT ![call[c].k] = @ \ {call[c].a}])
     \/ Fails(call[c].a)
  /\ Removed(c)
  /\ UNCHANGED <<table, scene, owner, stray>>

SceneNext ==
  \/ Restart \/ ActiveClose
  \/ \E s \in SceneServers :
       \/ \E p \in Ports : Connect(s, p)
       \/ \E k \in SentScenes[s] : RegisterRequest(s, k) \/ UpdateRequest(s, k)
       \/ QuitRequest(s) \/ EndOfStream(s) \/ HeartbeatLate(s)
  \/ \E c \in Callers : Emplace(c) \/ SortedAdd(c) \/ FindScene(c) \/ EraseScene(c) \/ SortedRemove(c)

SceneSpec == SceneInit /\ [][SceneNext]_sceneVars

-----------------------------------------------------------------------------
(* Properties *)

\* Thread c is about to add address a to scene k, or to take it out.
Adding(c, a, k) == call[c].pc = "zadd" /\ call[c].a = a /\ call[c].k = k
Removing(c, a, k) == call[c].pc = "zrem" /\ call[c].a = a /\ call[c].k = k

\* Where a thread can be in SceneManager's callers.
Calls == [pc : {"register", "zadd", "find", "erase", "zrem", "close"},
          s : SceneServers, a : Ports, k : Scenes \cup {NoScene}, then : {"return", "close", "closed"}]

\* Every variable has the shape the code gives it.  A thread is in a connection
\* that has not been destroyed, an event loop in its own; no two connections come
\* from one port.
SceneTypeOK ==
  /\ link \in [SceneServers -> Ports \cup {0}]
  /\ \A s, t \in SceneServers : link[s] = link[t] => s = t \/ link[s] = 0
  /\ table \subseteq {s \in SceneServers : link[s] # 0}
  /\ scene \in [Ports -> Scenes \cup {NoScene}]
  /\ sceneIndex \in [Scenes -> SUBSET Ports]
  /\ call \in [Callers -> Calls \cup {Away}]
  /\ \A c \in Callers : call[c] # Away => link[call[c].s] # 0 /\ (c # Timer => call[c].s = c)
  /\ owner \in [Ports -> SceneServers \cup {Nobody}]
  /\ faults \in 0..MaxFaults
  /\ dirty \cup stray \subseteq Ports

\* What SceneManager remembers is what players are sent to: the address is in
\* the sorted set of its scene, or its registration is about to put it there;
\* unless Redis failed on it or the game server restarted, or it was registered
\* between another thread's erase and ZREM.
KnownIsIndexed ==
  \A a \in Known \ dirty :
    a \in sceneIndex[scene[a]] \/ \E c \in Callers : Adding(c, a, scene[a])

\* And what players are sent to is remembered for that scene, so that it can be
\* removed, or is about to be taken out; unless, besides, it was added when it was
\* not remembered for it: by an update, or by a registration that a removal
\* overtook.
IndexedIsKnown ==
  \A k \in Scenes : \A a \in sceneIndex[k] \ (dirty \cup stray) :
    scene[a] = k \/ \E c \in Callers : Removing(c, a, k)

\* The shape of the state, and that memory and sorted sets agree while loops and
\* timer register, update and remove without a lock.
SceneInv == SceneTypeOK /\ KnownIsIndexed /\ IndexedIsKnown

\* Players are only sent to dedicated servers that are connected, in whatever
\* order the threads register, update, quit and close; unless the address is
\* remembered and nobody registered it over a connection from it that was open:
\* a DS that connects from another port than it listens at is never removed.
SentToConnected ==
  \A k \in Scenes : \A a \in sceneIndex[k] \ (dirty \cup stray) :
    (\E s \in SceneServers : link[s] = a) \/ (scene[a] = k /\ owner[a] = Nobody)

\* A DS that registered the port it connects from is forgotten only by its own
\* quitting or closing, whoever had the port before or takes it next, or with
\* everything in a restart.
RemovedByOwner ==
  [][Lost \/ \A a \in Ports :
       scene[a] # NoScene /\ scene'[a] = NoScene /\ owner[a] # Nobody
         => \E c \in Callers : call[c].pc = "erase" /\ call[c].s = owner[a]]_sceneVars
=============================================================================
