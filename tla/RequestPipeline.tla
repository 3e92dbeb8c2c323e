-------------------------- MODULE RequestPipeline --------------------------
(***************************************************************************)
(* The request/reply path through the message broker.  A front end (the    *)
(* login server or the game server) turns a client message into a carrier  *)
(* and pushes it to the DB server's stream for that service; the DB        *)
(* server's reader threads pull it, run the query, acknowledge it and push *)
(* the reply to the front end's stream; the front end's consumer thread    *)
(* pulls the reply and hands it to the client's connection.  The broker    *)
(* manager watches the pending entries of every stream.                    *)
(*                                                                         *)
(* A carrier is modelled by the request it belongs to: its SERVICE,        *)
(* CLIENT_ID and TYPE are functions of the request.                        *)
(***************************************************************************)
EXTENDS RedisStream, Functions

CONSTANTS Requests,      \* client messages that go through the broker
          Service,       \* Requests -> {"login", "game"}
          Client,        \* Requests -> Conns: the connection (CLIENT_ID)
          Uploads,       \* requests whose handler clears NEXT_SERVICE
          Unroutable,    \* requests whose CODE no case of the handler knows
          Conns,         \* connection names
          Readers,       \* reader threads of the DB server's gatemen
          ReaderService, \* Readers -> {"login", "game"}
          ManagedKeys,   \* the keys registered with the broker manager
          MaxLen,        \* MAXLEN of XADD
          Transfer,      \* mTransferMilliseconds, in ticks
          Tolerant,      \* mTolerantMilliseconds, in ticks
          MaxDelivered,  \* mMaxDelivered
          MaxFaults,     \* bound on crashes and Redis errors
          MaxLog         \* bound on the entries a requeue may add to a stream

Services == {"login", "game"}
DBKey(s) == IF s = "login" THEN "DB4LOGIN" ELSE "DB4GAME"
ReplyKey(s) == IF s = "login" THEN "LOGIN" ELSE "GAME"
Keys == {"DB4LOGIN", "DB4GAME", "LOGIN", "GAME"}

\* Both DB streams use the one group name; consumer names are per gateman.
GroupName(k) == IF k \in {"DB4LOGIN", "DB4GAME"} THEN "DBGROUP" ELSE k
GroupNames == {"DBGROUP", "LOGIN", "GAME"}
Gateman(s) == IF s = "login" THEN "CONSUMER_1" ELSE "CONSUMER_2"
FrontConsumer(s) == IF s = "login" THEN "LoginStreamConsumer" ELSE "GameStreamConsumer"
Consumers == {"CONSUMER_1", "CONSUMER_2", "LoginStreamConsumer", "GameStreamConsumer"}

ASSUME ConstantsAssumption ==
  /\ Service \in [Requests -> Services]
  /\ Client \in [Requests -> Conns]
  /\ Uploads \subseteq Requests
  /\ Unroutable \subseteq Requests \ Uploads
  /\ ReaderService \in [Readers -> Services]
  /\ ManagedKeys \subseteq Keys
  /\ MaxLen \in Nat \ {0}
  /\ Transfer \in Nat /\ Tolerant \in Nat /\ Transfer < Tolerant
  /\ MaxDelivered \in Nat
  /\ MaxFaults \in Nat
  /\ MaxLog \in Nat

VARIABLES stream,    \* Keys -> stream, see RedisStream
          conns,     \* connections in the front ends' mTcpConnections
          sent,      \* requests a front end has taken from a client
          dbUp,      \* the DB server process runs
          reader,    \* Readers -> [pc, id]
          front,     \* Services -> [pc, id]: the stream consumer threads
          effects,   \* Requests -> how often the DB handler ran
          inbox,     \* Requests -> how often the reply was put to the client
          mgr,       \* the broker manager: [groups, consumers, items, acked, sib]
          faults     \* crashes and Redis errors so far

vars == <<stream, conns, sent, dbUp, reader, front, effects, inbox, mgr, faults>>

Idle == [pc |-> "idle", id |-> 0]
NoSiblings == [g \in GroupNames |-> {}]
Napping == [groups |-> {}, consumers |-> {}, items |-> {}, acked |-> FALSE, sib |-> NoSiblings]

\* Mutant of Init: the login server forgets to create the DB server's group.
InitNoGroup ==
  /\ stream = [k \in Keys |-> EmptyStream(k \notin {"DB4GAME", "DB4LOGIN"})]
  /\ conns = {}
  /\ sent = {}
  /\ dbUp = FALSE
  /\ reader = [rd \in Readers |-> Idle]
  /\ front = [s \in Services |-> Idle]
  /\ effects = [r \in Requests |-> 0]
  /\ inbox = [r \in Requests |-> 0]
  /\ mgr = Napping
  /\ faults = 0

\* The login server has been started and has created its two groups; the game
\* server has created its own; the DB server is about to start.
Init ==
  /\ stream = [k \in Keys |-> EmptyStream(k # "DB4GAME")]
  /\ conns = {}
  /\ sent = {}
  /\ dbUp = FALSE
  /\ reader = [rd \in Readers |-> Idle]
  /\ front = [s \in Services |-> Idle]
  /\ effects = [r \in Requests |-> 0]
  /\ inbox = [r \in Requests |-> 0]
  /\ mgr = Napping
  /\ faults = 0

-----------------------------------------------------------------------------
(* Front ends: connections and messageFunc *)

\* newConnectionFunc: a name (fd and peer address) may come back later.
Connect(c) ==
  /\ c \notin conns
  /\ conns' = conns \cup {c}
  /\ UNCHANGED <<stream, sent, dbUp, reader, front, effects, inbox, mgr, faults>>

\* removeConnection: closed by the peer or by the heartbeat check.
Close(c) ==
  /\ c \in conns
  /\ conns' = conns \ {c}
  /\ UNCHANGED <<stream, sent, dbUp, reader, front, effects, inbox, mgr, faults>>

\* messageFunc: the carrier is pushed to the DB server's stream.
SendRequest(r) ==
  /\ r \notin sent
  /\ Client[r] \in conns
  /\ sent' = sent \cup {r}
  /\ LET k == DBKey(Service[r]) IN
       \E j \in TrimPoints(stream[k], MaxLen) :
         stream' = [stream EXCEPT ![k] = Xadd(@, r, j)]
  /\ UNCHANGED <<conns, dbUp, reader, front, effects, inbox, mgr, faults>>

\* ... or the XADD throws: push logs the error and nobody is told.
SendFails(r) ==
  /\ r \notin sent
  /\ Client[r] \in conns
  /\ faults < MaxFaults
  /\ faults' = faults + 1
  /\ sent' = sent \cup {r}
  /\ UNCHANGED <<stream, conns, dbUp, reader, front, effects, inbox, mgr>>

-----------------------------------------------------------------------------
(* The DB server: DBServGateway::start and DBServGateman::reader *)

DBStart ==
  /\ ~dbUp
  /\ dbUp' = TRUE
  /\ stream' = [k \in Keys |-> IF k \in {"DB4LOGIN", "DB4GAME"}
                               THEN XgroupCreate(stream[k]) ELSE stream[k]]
  /\ UNCHANGED <<conns, sent, reader, front, effects, inbox, mgr, faults>>

\* The process dies; what its readers had in hand stays pending in Redis.
DBCrash ==
  /\ dbUp
  /\ faults < MaxFaults
  /\ faults' = faults + 1
  /\ dbUp' = FALSE
  /\ reader' = [rd \in Readers |-> Idle]
  /\ UNCHANGED <<stream, conns, sent, front, effects, inbox, mgr>>

ReaderKey(rd) == DBKey(ReaderService[rd])
Held(rd) == stream[ReaderKey(rd)].log[reader[rd].id]

\* Mutant of ReaderPull: pull(..., "0") reads what is pending for the consumer.
ReaderPullAgain(rd) ==
  /\ dbUp
  /\ reader[rd].pc = "idle"
  /\ \E i \in DOMAIN stream[ReaderKey(rd)].pel \cup Unread(stream[ReaderKey(rd)]) :
       /\ i \in DOMAIN stream[ReaderKey(rd)].pel \/ IsNext(stream[ReaderKey(rd)], i)
       /\ stream' = [stream EXCEPT ![ReaderKey(rd)] =
                       IF i \in DOMAIN @.pel THEN @
                       ELSE Xreadgroup(@, i, Gateman(ReaderService[rd]))]
       /\ reader' = [reader EXCEPT ![rd] = [pc |-> "pulled", id |-> i]]
  /\ UNCHANGED <<conns, sent, dbUp, front, effects, inbox, mgr, faults>>

\* pull(..., ">"): all threads of a gateman share one consumer name.
ReaderPull(rd) ==
  /\ dbUp
  /\ reader[rd].pc = "idle"
  /\ \E i \in Unread(stream[ReaderKey(rd)]) :
       /\ IsNext(stream[ReaderKey(rd)], i)
       /\ stream' = [stream EXCEPT ![ReaderKey(rd)] =
                       Xreadgroup(@, i, Gateman(ReaderService[rd]))]
       /\ reader' = [reader EXCEPT ![rd] = [pc |-> "pulled", id |-> i]]
  /\ UNCHANGED <<conns, sent, dbUp, front, effects, inbox, mgr, faults>>

\* mHandleFuncs[TYPE]: the query runs and the carrier becomes the reply.  A
\* CODE that no case knows leaves the carrier as it came.
ReaderHandle(rd) ==
  /\ reader[rd].pc = "pulled"
  /\ effects' = IF Held(rd) \in Unroutable THEN effects
                ELSE [effects EXCEPT ![Held(rd)] = @ + 1]
  /\ reader' = [reader EXCEPT ![rd].pc = "handled"]
  /\ UNCHANGED <<stream, conns, sent, dbUp, front, inbox, mgr, faults>>

\* Mutant of ReaderAck: the reply is pushed without acknowledging the request.
ReaderAckForgotten(rd) ==
  /\ reader[rd].pc = "handled"
  /\ reader' = [reader EXCEPT ![rd] =
                  IF Held(rd) \notin Uploads THEN [@ EXCEPT !.pc = "acked"] ELSE Idle]
  /\ UNCHANGED <<stream, conns, sent, dbUp, front, effects, inbox, mgr, faults>>

\* XACK; only the reader whose XACK removed the entry goes on to push, and
\* only when the handler left a NEXT_SERVICE.
ReaderAck(rd) ==
  /\ reader[rd].pc = "handled"
  /\ stream' = [stream EXCEPT ![ReaderKey(rd)] = Xack(@, reader[rd].id)]
  /\ reader' = [reader EXCEPT ![rd] =
                  IF Pending(stream[ReaderKey(rd)], reader[rd].id) /\ Held(rd) \notin Uploads
                  THEN [@ EXCEPT !.pc = "acked"] ELSE Idle]
  /\ UNCHANGED <<conns, sent, dbUp, front, effects, inbox, mgr, faults>>

\* A query before a handler's change, and XACK, are outside any try block: an
\* error ends the thread (std::async keeps the exception).
ReaderThrows(rd) ==
  /\ reader[rd].pc \in {"pulled", "handled"}
  /\ faults < MaxFaults
  /\ faults' = faults + 1
  /\ reader' = [reader EXCEPT ![rd].pc = "dead"]
  /\ UNCHANGED <<stream, conns, sent, dbUp, front, effects, inbox, mgr>>

\* NEXT_SERVICE: the front end's key set by the handler or, when no case
\* matched, still the DB key the front end wrote.
NextService(rd) == IF Held(rd) \in Unroutable THEN ReaderKey(rd)
                   ELSE ReplyKey(ReaderService[rd])

ReaderPush(rd) ==
  /\ reader[rd].pc = "acked"
  /\ Held(rd) \in Unroutable => Len(stream[ReaderKey(rd)].log) < MaxLog
  /\ \E j \in TrimPoints(stream[NextService(rd)], MaxLen) :
       stream' = [stream EXCEPT ![NextService(rd)] = Xadd(@, Held(rd), j)]
  /\ reader' = [reader EXCEPT ![rd] = Idle]
  /\ UNCHANGED <<conns, sent, dbUp, front, effects, inbox, mgr, faults>>

ReaderPushFails(rd) ==
  /\ reader[rd].pc = "acked"
  /\ faults < MaxFaults
  /\ faults' = faults + 1
  /\ reader' = [reader EXCEPT ![rd] = Idle]
  /\ UNCHANGED <<stream, conns, sent, dbUp, front, effects, inbox, mgr>>

-----------------------------------------------------------------------------
(* Front ends: loginStreamConsumerFunc and gameStreamConsumerFunc *)

Reply(s) == stream[ReplyKey(s)].log[front[s].id]

FrontPull(s) ==
  /\ front[s].pc = "idle"
  /\ \E i \in Unread(stream[ReplyKey(s)]) :
       /\ IsNext(stream[ReplyKey(s)], i)
       /\ stream' = [stream EXCEPT ![ReplyKey(s)] = Xreadgroup(@, i, FrontConsumer(s))]
       /\ front' = [front EXCEPT ![s] = [pc |-> "pulled", id |-> i]]
  /\ UNCHANGED <<conns, sent, dbUp, reader, effects, inbox, mgr, faults>>

\* getConnPtrRef finds the connection: putToBuffer.  The game server stops
\* here, it never acknowledges.
FrontPut(s) ==
  /\ front[s].pc = "pulled"
  /\ Client[Reply(s)] \in conns
  /\ inbox' = [inbox EXCEPT ![Reply(s)] = @ + 1]
  /\ front' = [front EXCEPT ![s] = IF s = "login" THEN [@ EXCEPT !.pc = "put"] ELSE Idle]
  /\ UNCHANGED <<stream, conns, sent, dbUp, reader, effects, mgr, faults>>

FrontAck(s) ==
  /\ front[s].pc = "put"
  /\ stream' = [stream EXCEPT ![ReplyKey(s)] = Xack(@, front[s].id)]
  /\ front' = [front EXCEPT ![s] = Idle]
  /\ UNCHANGED <<conns, sent, dbUp, reader, effects, inbox, mgr, faults>>

\* The client is gone: the login server deletes the entry, without an
\* acknowledgement; the game server only logs.
FrontLost(s) ==
  /\ front[s].pc = "pulled"
  /\ Client[Reply(s)] \notin conns
  /\ stream' = IF s = "login" THEN [stream EXCEPT !["LOGIN"] = Xdel(@, front[s].id)]
                              ELSE stream
  /\ front' = [front EXCEPT ![s] = Idle]
  /\ UNCHANGED <<conns, sent, dbUp, reader, effects, inbox, mgr, faults>>

\* XACK or XDEL throws out of the consumer's loop and ends its thread.
FrontThrows(s) ==
  /\ s = "login"
  /\ \/ front[s].pc = "put"
     \/ front[s].pc = "pulled" /\ Client[Reply(s)] \notin conns
  /\ faults < MaxFaults
  /\ faults' = faults + 1
  /\ front' = [front EXCEPT ![s].pc = "dead"]
  /\ UNCHANGED <<stream, conns, sent, dbUp, reader, effects, inbox, mgr>>

\* A front end process dies and is restarted: its connections are gone.
FrontCrash(s) ==
  /\ faults < MaxFaults
  /\ faults' = faults + 1
  /\ front' = [front EXCEPT ![s] = Idle]
  /\ conns' = conns \ {Client[r] : r \in {q \in Requests : Service[q] = s}}
  /\ UNCHANGED <<stream, sent, dbUp, reader, effects, inbox, mgr>>

-----------------------------------------------------------------------------
(* The broker manager: RSBrokerManager::handlePending.  mPendingGroupQueue   *)
(* and mPendingConsumerQueue are sets here: each is handled in one fixed     *)
(* order, the order of the strings in mKeys and in Redis' replies.          *)

Front(S) == CHOOSE x \in S : TRUE
PendingOf(k, c) == {i \in DOMAIN stream[k].pel : stream[k].pel[i].owner = c}
Smallest(S, n) == {i \in S : Cardinality({j \in S : j < i}) < n}

\* pushPendingGroups for every registered key: the groups with pending
\* entries, and an empty sibling set for each group name.
MgrScanGroups ==
  /\ mgr.groups = {} /\ mgr.consumers = {} /\ mgr.items = {}
  /\ \E k \in ManagedKeys : DOMAIN stream[k].pel # {}
  /\ mgr' = [groups |-> {k \in ManagedKeys : DOMAIN stream[k].pel # {}},
             consumers |-> {}, items |-> {}, acked |-> FALSE, sib |-> NoSiblings]
  /\ UNCHANGED <<stream, conns, sent, dbUp, reader, front, effects, inbox, faults>>

\* pushPendingConsumers for mPendingGroupQueue.front(): the sibling set is kept
\* per group NAME, whatever the key.
PendingConsumers(k) ==
  {[key |-> k, c |-> c, num |-> Cardinality(PendingOf(k, c))] :
     c \in {d \in stream[k].members : PendingOf(k, d) # {}}}

MgrScanConsumers ==
  /\ mgr.groups # {}
  /\ LET k == Front(mgr.groups)
     IN mgr' = [mgr EXCEPT !.groups = @ \ {k},
                           !.consumers = @ \cup PendingConsumers(k),
                           !.sib[GroupName(k)] = @ \cup stream[k].members]
  /\ UNCHANGED <<stream, conns, sent, dbUp, reader, front, effects, inbox, faults>>

\* getPending for mPendingConsumerQueue.front(): a copy of its first num
\* pending entries.
MgrGetPending ==
  /\ mgr.groups = {} /\ mgr.items = {} /\ mgr.consumers # {}
  /\ LET q == Front(mgr.consumers)
     IN mgr' = [mgr EXCEPT
          !.consumers = @ \ {q},
          !.items = {[key |-> q.key, id |-> i, c |-> q.c,
                      idle |-> stream[q.key].pel[i].idle,
                      cnt |-> stream[q.key].pel[i].cnt] :
                       i \in Smallest(PendingOf(q.key, q.c), q.num)}]
  /\ UNCHANGED <<stream, conns, sent, dbUp, reader, front, effects, inbox, faults>>

\* The copy handled next: pendingItems is in the order of the IDs.
NextItem == {it \in mgr.items : \A other \in mgr.items : it.id <= other.id}

\* The verdict on one copied entry.
IsDeadLetter(it) == it.cnt > MaxDelivered
IsTooOldEarly(it) == ~IsDeadLetter(it) /\ it.idle >= Tolerant  \* mutant of IsTooOld
IsTooOldNever(it) == FALSE                                     \* mutant of IsTooOld
IsTooOld(it) == ~IsDeadLetter(it) /\ it.idle > Tolerant
IsForTransfer(it) == ~IsDeadLetter(it) /\ ~IsTooOld(it) /\ it.idle > Transfer
Siblings(it) == mgr.sib[GroupName(it.key)] \ {it.c}

\* On to the next copy; after the last one the sibling sets are dead until
\* the next pass empties them.
MgrDone(it) == mgr' = IF mgr.items = {it} /\ mgr.consumers = {} THEN Napping
                      ELSE [mgr EXCEPT !.items = @ \ {it}, !.acked = FALSE]

\* A dead letter is acknowledged, and then deleted.
MgrAckDeadLetter ==
  /\ ~mgr.acked
  /\ \E it \in NextItem :
       /\ IsDeadLetter(it)
       /\ stream' = [stream EXCEPT ![it.key] = Xack(@, it.id)]
  /\ mgr' = [mgr EXCEPT !.acked = TRUE]
  /\ UNCHANGED <<conns, sent, dbUp, reader, front, effects, inbox, faults>>

MgrDelDeadLetter ==
  /\ mgr.acked
  /\ \E it \in NextItem :
       /\ IsDeadLetter(it)
       /\ stream' = [stream EXCEPT ![it.key] = Xdel(@, it.id)]
       /\ MgrDone(it)
  /\ UNCHANGED <<conns, sent, dbUp, reader, front, effects, inbox, faults>>

MgrAckTooOld ==
  /\ \E it \in NextItem :
       /\ IsTooOld(it)
       /\ stream' = [stream EXCEPT ![it.key] = Xack(@, it.id)]
       /\ MgrDone(it)
  /\ UNCHANGED <<conns, sent, dbUp, reader, front, effects, inbox, faults>>

MgrTransfer ==
  /\ \E it \in NextItem :
       /\ IsForTransfer(it)
       /\ \E c \in Siblings(it) :
            stream' = [stream EXCEPT ![it.key] = Xclaim(@, it.id, c, Transfer)]
       /\ MgrDone(it)
  /\ UNCHANGED <<conns, sent, dbUp, reader, front, effects, inbox, faults>>

\* Too young for anything, or no sibling to transfer it to.
MgrLeave ==
  /\ \E it \in NextItem :
       /\ ~IsDeadLetter(it) /\ ~IsTooOld(it)
       /\ IsForTransfer(it) => Siblings(it) = {}
       /\ MgrDone(it)
  /\ UNCHANGED <<stream, conns, sent, dbUp, reader, front, effects, inbox, faults>>

\* XACK or XDEL throws out of run(): the manager's process ends; restarted, it
\* begins with empty queues.
MgrCrash ==
  /\ \E it \in NextItem : IsDeadLetter(it) \/ IsTooOld(it)
  /\ faults < MaxFaults
  /\ faults' = faults + 1
  /\ mgr' = Napping
  /\ UNCHANGED <<stream, conns, sent, dbUp, reader, front, effects, inbox>>

\* Time passes for the pending entries the manager looks at: nobody else reads
\* an idle time.
Tick ==
  /\ \E k \in ManagedKeys : \E i \in DOMAIN stream[k].pel : stream[k].pel[i].idle <= Tolerant
  /\ stream' = [k \in Keys |-> IF k \in ManagedKeys THEN Age(stream[k], Tolerant + 1)
                                                    ELSE stream[k]]
  /\ UNCHANGED <<conns, sent, dbUp, reader, front, effects, inbox, mgr, faults>>

-----------------------------------------------------------------------------
Manager == \/ MgrScanGroups \/ MgrScanConsumers \/ MgrGetPending
           \/ MgrAckDeadLetter \/ MgrDelDeadLetter \/ MgrAckTooOld \/ MgrTransfer \/ MgrLeave

ReaderStep(rd) == ReaderPull(rd) \/ ReaderHandle(rd) \/ ReaderAck(rd) \/ ReaderPush(rd)
FrontStep(s) == FrontPull(s) \/ FrontPut(s) \/ FrontAck(s) \/ FrontLost(s)

Next ==
  \/ \E c \in Conns : Connect(c) \/ Close(c)
  \/ \E r \in Requests : SendRequest(r) \/ SendFails(r)
  \/ DBStart \/ DBCrash
  \/ \E rd \in Readers : ReaderStep(rd) \/ ReaderThrows(rd) \/ ReaderPushFails(rd)
  \/ \E s \in Services : FrontStep(s) \/ FrontThrows(s) \/ FrontCrash(s)
  \/ Manager \/ MgrCrash
  \/ Tick

Spec == Init /\ [][Next]_vars

\* The operator restarts the DB server; reader, consumer and manager threads
\* are endless loops; the clock advances.  Clients and faults are not fair.
Fairness ==
  /\ WF_vars(DBStart)
  /\ \A rd \in Readers : WF_vars(ReaderStep(rd))
  /\ \A s \in Services : WF_vars(FrontStep(s))
  /\ WF_vars(Manager)
  /\ WF_vars(Tick)

FairSpec == Spec /\ Fairness

-----------------------------------------------------------------------------
(* Properties *)

PendingEntry == [owner : Consumers, idle : 0..(Tolerant + 1), cnt : Nat]
PendingItem == [key : Keys, id : Nat, c : Consumers, idle : 0..(Tolerant + 1), cnt : Nat]

StreamShape(st) ==
  st = [log |-> st.log, live |-> st.live, cursor |-> st.cursor,
        pel |-> st.pel, members |-> st.members, grp |-> st.grp]

StreamFields(st) ==
  /\ st.log \in Seq(Requests)
  /\ st.live \subseteq 1..Len(st.log)
  /\ st.cursor \in 0..Len(st.log)
  /\ st.pel = [i \in DOMAIN st.pel |-> st.pel[i]]
  /\ DOMAIN st.pel \subseteq 1..st.cursor
  /\ \A i \in DOMAIN st.pel : st.pel[i] \in PendingEntry
  /\ st.members \subseteq Consumers
  /\ st.grp \in BOOLEAN

StreamOK(st) == StreamShape(st) /\ StreamFields(st)

StreamsOK ==
  /\ stream = [k \in Keys |-> stream[k]]
  /\ \A k \in Keys : StreamOK(stream[k])

ActorsOK ==
  /\ conns \subseteq Conns
  /\ sent \subseteq Requests
  /\ dbUp \in BOOLEAN
  /\ reader \in [Readers -> [pc : {"idle", "pulled", "handled", "acked", "dead"}, id : Nat]]
  /\ front \in [Services -> [pc : {"idle", "pulled", "put", "dead"}, id : Nat]]
  /\ effects \in [Requests -> Nat]
  /\ inbox \in [Requests -> Nat]
  /\ faults \in 0..MaxFaults

MgrOK ==
  /\ mgr = [groups |-> mgr.groups, consumers |-> mgr.consumers,
            items |-> mgr.items, acked |-> mgr.acked, sib |-> mgr.sib]
  /\ mgr.groups \subseteq Keys
  /\ \A q \in mgr.consumers : q.key \in Keys /\ q.c \in Consumers
  /\ \A it \in mgr.items : it \in PendingItem
  /\ mgr.acked \in BOOLEAN
  /\ mgr.sib \in [GroupNames -> SUBSET Consumers]

\* Every variable has the shape the code gives it; an entry is only pending
\* once the group's cursor has passed it.
TypeOK == StreamsOK /\ ActorsOK /\ MgrOK

\* A request the handlers can route enters each stream at most once: only one
\* with an unknown CODE goes back to the stream it came from.
RoutedOnce ==
  \A k \in Keys : \A i, j \in DOMAIN stream[k].log :
    i # j /\ stream[k].log[i] = stream[k].log[j] => stream[k].log[i] \in Unroutable

\* A request whose reply was pushed is no longer pending at the DB server's
\* stream: the manager can neither transfer nor dead-letter a request that was
\* answered (reader acknowledges first and pushes only if that worked).
AnsweredNotPending ==
  \A s \in Services : \A i \in DOMAIN stream[DBKey(s)].pel :
    stream[DBKey(s)].log[i] \notin Range(stream[ReplyKey(s)].log)

\* An entry the group has not read yet leaves a stream only through MAXLEN:
\* deleting after a lost client, dead letters and claims touch read entries.
UnreadLostOnlyByTrimming ==
  \A k \in Keys : \A i \in 1..Len(stream[k].log) :
    i > stream[k].cursor /\ i \notin stream[k].live => Len(stream[k].log) - i >= MaxLen

\* The manager's verdict is taken on a copy of the pending list.  Whatever
\* happened since, an entry it takes off the list is at that moment over the
\* delivery limit, over the tolerated idle time, or deleted from the stream.
DropsOnlyHopeless ==
  [][mgr' # mgr =>
       \A k \in Keys : \A i \in DOMAIN stream[k].pel \ DOMAIN stream'[k].pel :
         \/ stream[k].pel[i].cnt > MaxDelivered
         \/ stream[k].pel[i].idle > Tolerant
         \/ i \notin stream[k].live]_vars

\* A reader works on a request that is no longer pending: the manager has
\* acknowledged it as too old, or dropped it, so its XACK will return 0.
Overtaken(r) ==
  \E rd \in Readers :
    /\ reader[rd].pc \in {"pulled", "handled"} /\ Held(rd) = r
    /\ ~Pending(stream[ReaderKey(rd)], reader[rd].id)

\* A request that MAXLEN has trimmed from its stream before anybody read it.
TrimmedUnread(r) ==
  LET s == stream[DBKey(Service[r])]
  IN \E i \in DOMAIN s.log : s.log[i] = r /\ i > s.cursor /\ i \notin s.live

\* A login request that waits in the DB server's stream is answered, even one
\* pushed before the DB server was started; or its answer is deleted because
\* its connection was gone when the answer came.  Without a fault there are two
\* ways to lose the answer: MAXLEN trims the request before it is read, or the
\* manager gives the request up while a reader is at work on it.
LoginAnswered ==
  \A r \in Requests \ Unroutable :
    (\E i \in Unread(stream["DB4LOGIN"]) : stream["DB4LOGIN"].log[i] = r)
      ~> \/ inbox[r] > 0
         \/ \E i \in DOMAIN stream["LOGIN"].log :
              stream["LOGIN"].log[i] = r /\ i \notin stream["LOGIN"].live
         \/ TrimmedUnread(r) \/ Overtaken(r)
         \/ faults > 0

\* The pending list entry of a request at its DB stream, if it has one.
PendingRequest(r) == {i \in DOMAIN stream[DBKey(Service[r])].pel :
                        stream[DBKey(Service[r])].log[i] = r}

\* No request of a managed stream stays pending for ever, whatever crashed: it
\* is acknowledged by its reader, or claimed until it is a dead letter, or
\* acknowledged as too old.
PendingDrains ==
  \A r \in Requests :
    (DBKey(Service[r]) \in ManagedKeys /\ PendingRequest(r) # {}) ~> (PendingRequest(r) = {})

\* RSBrokerManager.h: "transfer message to someone customer when the idle time
\* is greater than transfer time": a transferred request gets handled.
TransferredIsHandled ==
  \A r \in Requests :
    (\E i \in PendingRequest(r) : stream[DBKey(Service[r])].pel[i].cnt > 1)
      ~> (effects[r] > 0)

RPC == INSTANCE RequestReply WITH execs <- effects, received <- inbox

\* The pipeline implements the at-most-once promise of RequestReply: no
\* interleaving of readers, crashes, claims and reconnects runs a handler twice,
\* hands a client two replies, or hands it one before its request was executed.
ImplementsRequestReply == RPC!Spec

-----------------------------------------------------------------------------
(* The inductive invariant behind the at-most-once promise. *)

DBLog(s) == stream[DBKey(s)].log
ReplyLog(s) == stream[ReplyKey(s)].log
Busy(rd) == reader[rd].pc \in {"pulled", "handled", "acked"}

\* What the streams hold: requests that were sent, replies of executed ones.
LogsHold ==
  \A s \in Services :
    /\ \A i \in DOMAIN DBLog(s) : DBLog(s)[i] \in sent /\ Service[DBLog(s)[i]] = s
    /\ \A i \in DOMAIN ReplyLog(s) :
         Service[ReplyLog(s)[i]] = s /\ effects[ReplyLog(s)[i]] = 1

\* Entries past the cursor have had no consequences yet.
UnreadUntouched ==
  \A s \in Services :
    /\ \A i \in DOMAIN DBLog(s) : i > stream[DBKey(s)].cursor => effects[DBLog(s)[i]] = 0
    /\ \A i \in DOMAIN ReplyLog(s) : i > stream[ReplyKey(s)].cursor => inbox[ReplyLog(s)[i]] = 0

\* A busy reader owns an entry the cursor has passed, and no other reader has
\* that entry; how far it got with it shows in effects and in the reply log.
ReaderOwns ==
  \A rd \in Readers : Busy(rd) =>
    /\ reader[rd].id \in 1..stream[ReaderKey(rd)].cursor
    /\ \A other \in Readers \ {rd} :
         Busy(other) /\ ReaderService[other] = ReaderService[rd] => reader[other].id # reader[rd].id
    /\ reader[rd].pc = "pulled" => effects[Held(rd)] = 0
    /\ reader[rd].pc # "pulled" /\ Held(rd) \notin Unroutable =>
         effects[Held(rd)] = 1 /\ Held(rd) \notin Range(ReplyLog(ReaderService[rd]))

FrontOwns ==
  \A s \in Services : front[s].pc \in {"pulled", "put"} =>
    /\ front[s].id \in 1..stream[ReplyKey(s)].cursor
    /\ front[s].pc = "pulled" => inbox[Reply(s)] = 0

\* Executed at most once and only if sent, delivered at most once and only if
\* the reply was pushed.
AtMostOnce ==
  \A r \in Requests :
    /\ effects[r] \in {0, 1} /\ inbox[r] \in {0, 1}
    /\ r \notin sent \/ r \in Unroutable => effects[r] = 0
    /\ inbox[r] = 1 => r \in Range(ReplyLog(Service[r]))

PipelineInv == /\ TypeOK /\ RoutedOnce /\ LogsHold /\ UnreadUntouched
               /\ ReaderOwns /\ FrontOwns /\ AtMostOnce
=============================================================================
