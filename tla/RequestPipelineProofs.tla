----------------------- MODULE RequestPipelineProofs -----------------------
(***************************************************************************)
(* Proofs about RequestPipeline, for any requests, connections, readers,   *)
(* thresholds and bounds.                                                  *)
(***************************************************************************)
EXTENDS RequestPipeline, TLAPS, FiniteSetTheorems

-----------------------------------------------------------------------------
(* What each broker call does to a well-formed stream. *)

\* What makes a record of the six fields a well-formed stream.
LEMMA MkStream ==
  ASSUME NEW st, NEW lg, NEW lv, NEW cu, NEW pl, NEW ms, NEW g,
         st = [log |-> lg, live |-> lv, cursor |-> cu, pel |-> pl, members |-> ms, grp |-> g],
         lg \in Seq(Requests), lv \subseteq 1..Len(lg), cu \in 0..Len(lg),
         pl = [i \in DOMAIN pl |-> pl[i]], DOMAIN pl \subseteq 1..cu,
         \A i \in DOMAIN pl : pl[i] \in PendingEntry,
         ms \subseteq Consumers, g \in BOOLEAN
  PROVE  /\ StreamOK(st)
         /\ st.log = lg /\ st.live = lv /\ st.cursor = cu /\ st.pel = pl
<1>1. /\ st.log = lg /\ st.live = lv /\ st.cursor = cu /\ st.pel = pl
      /\ st.members = ms /\ st.grp = g
  OBVIOUS
<1>2. StreamShape(st)
  BY <1>1 DEF StreamShape
<1> QED BY <1>1, <1>2 DEF StreamOK, StreamFields

\* XADD appends one entry and leaves the group alone.
LEMMA XaddFacts ==
  ASSUME NEW st, StreamOK(st), NEW r \in Requests, NEW j
  PROVE  /\ StreamOK(Xadd(st, r, j))
         /\ Xadd(st, r, j).log = Append(st.log, r)
         /\ Xadd(st, r, j).cursor = st.cursor
         /\ Xadd(st, r, j).pel = st.pel
         /\ Xadd(st, r, j).live = {i \in st.live \cup {Len(st.log) + 1} : i > j}
<1> StreamShape(st) /\ StreamFields(st)
  BY DEF StreamOK
<1> DEFINE lg == Append(st.log, r)
           lv == {i \in st.live \cup {Len(st.log) + 1} : i > j}
           n == Xadd(st, r, j)
<1>1. n = [log |-> lg, live |-> lv, cursor |-> st.cursor,
           pel |-> st.pel, members |-> st.members, grp |-> st.grp]
  <2>1. n = [st EXCEPT !.log = lg, !.live = lv]
    BY DEF Xadd
  <2> HIDE DEF lg, lv, n
  <2> QED BY <2>1 DEF StreamShape
<1>2. lg \in Seq(Requests) /\ Len(lg) = Len(st.log) + 1 /\ Len(st.log) \in Nat
  BY DEF StreamFields
<1>3. lv \subseteq 1..Len(lg) /\ st.cursor \in 0..Len(lg)
  BY <1>2 DEF StreamFields
<1> HIDE DEF lg, lv, n
<1>4. StreamOK(n) /\ n.log = lg /\ n.live = lv /\ n.cursor = st.cursor /\ n.pel = st.pel
  BY <1>1, <1>2, <1>3, MkStream DEF StreamFields
<1> QED BY <1>4 DEF lg, lv, n

\* XGROUP CREATE moves at most the cursor, and only forward.
LEMMA XgroupCreateFacts ==
  ASSUME NEW st, StreamOK(st)
  PROVE  /\ StreamOK(XgroupCreate(st))
         /\ XgroupCreate(st).log = st.log
         /\ XgroupCreate(st).cursor >= st.cursor
         /\ XgroupCreate(st).pel = st.pel
         /\ XgroupCreate(st).live = st.live
<1> StreamShape(st) /\ StreamFields(st)
  BY DEF StreamOK
<1>1. CASE st.grp
  <2>1. XgroupCreate(st) = st
    BY <1>1 DEF XgroupCreate
  <2>2. st.cursor >= st.cursor
    BY DEF StreamFields
  <2> QED BY <2>1, <2>2
<1>2. CASE ~st.grp
  <2>1. XgroupCreate(st) = [log |-> st.log, live |-> st.live, cursor |-> Len(st.log),
                            pel |-> st.pel, members |-> st.members, grp |-> TRUE]
    BY <1>2 DEF StreamShape, XgroupCreate
  <2>2. Len(st.log) >= st.cursor /\ Len(st.log) \in 0..Len(st.log)
        /\ DOMAIN st.pel \subseteq 1..Len(st.log)
    BY DEF StreamFields
  <2>3. TRUE \in BOOLEAN
    OBVIOUS
  <2> DEFINE n == XgroupCreate(st)
             b == TRUE
  <2> HIDE DEF n, b
  <2>4. StreamOK(n) /\ n.log = st.log /\ n.live = st.live /\ n.cursor = Len(st.log) /\ n.pel = st.pel
    <3>1. n = [log |-> st.log, live |-> st.live, cursor |-> Len(st.log),
               pel |-> st.pel, members |-> st.members, grp |-> b]
      BY <2>1 DEF n, b
    <3>2. b \in BOOLEAN
      BY <2>3 DEF b
    <3> QED BY <3>1, <3>2, <2>2, MkStream DEF StreamFields
  <2> QED BY <2>2, <2>4 DEF n
<1> QED BY <1>1, <1>2

\* XREADGROUP moves the cursor to an entry past it.
LEMMA XreadgroupFacts ==
  ASSUME NEW st, StreamOK(st), NEW c \in Consumers, NEW i \in Unread(st)
  PROVE  /\ i \in 1..Len(st.log) /\ i > st.cursor
         /\ StreamOK(Xreadgroup(st, i, c))
         /\ Xreadgroup(st, i, c).log = st.log
         /\ Xreadgroup(st, i, c).cursor = i
         /\ Xreadgroup(st, i, c).live = st.live
         /\ DOMAIN Xreadgroup(st, i, c).pel = DOMAIN st.pel \cup {i}
<1> StreamShape(st) /\ StreamFields(st)
  BY DEF StreamOK
<1>1. i \in 1..Len(st.log) /\ i > st.cursor /\ st.cursor \in Nat
  BY DEF StreamFields, Unread
<1> DEFINE e == [owner |-> c, idle |-> 0, cnt |-> 1]
           pl == [p \in DOMAIN st.pel \cup {i} |-> IF p = i THEN e ELSE st.pel[p]]
           n == Xreadgroup(st, i, c)
<1>2. n = [log |-> st.log, live |-> st.live, cursor |-> i,
           pel |-> pl, members |-> st.members \cup {c}, grp |-> st.grp]
  <2>1. n = [st EXCEPT !.cursor = i, !.members = st.members \cup {c}, !.pel = pl]
    BY DEF Xreadgroup
  <2> HIDE DEF pl, n
  <2> QED BY <2>1 DEF StreamShape
<1>3. e \in PendingEntry
  BY ConstantsAssumption DEF PendingEntry
<1> HIDE DEF e
<1>4. /\ \A p \in DOMAIN pl : pl[p] \in PendingEntry
      /\ DOMAIN pl = DOMAIN st.pel \cup {i}
      /\ pl = [p \in DOMAIN pl |-> pl[p]]
  BY <1>3 DEF StreamFields
<1>5. DOMAIN pl \subseteq 1..i
  BY <1>1, <1>4 DEF StreamFields
<1> HIDE DEF n, pl
<1>6. i \in 0..Len(st.log) /\ st.members \cup {c} \subseteq Consumers
  BY <1>1 DEF StreamFields
<1>7. StreamOK(n) /\ n.log = st.log /\ n.live = st.live /\ n.cursor = i /\ n.pel = pl
  BY <1>2, <1>4, <1>5, <1>6, MkStream DEF StreamFields
<1> QED BY <1>1, <1>4, <1>7 DEF n

\* XACK takes one entry off the pending list.
LEMMA XackFacts ==
  ASSUME NEW st, StreamOK(st), NEW i
  PROVE  /\ StreamOK(Xack(st, i))
         /\ Xack(st, i).log = st.log
         /\ Xack(st, i).cursor = st.cursor
         /\ Xack(st, i).live = st.live
         /\ DOMAIN Xack(st, i).pel = DOMAIN st.pel \ {i}
         /\ \A p \in DOMAIN st.pel \ {i} : Xack(st, i).pel[p] = st.pel[p]
<1> StreamShape(st) /\ StreamFields(st)
  BY DEF StreamOK
<1> DEFINE pl == [p \in DOMAIN st.pel \ {i} |-> st.pel[p]]
           n == Xack(st, i)
<1>1. n = [log |-> st.log, live |-> st.live, cursor |-> st.cursor,
           pel |-> pl, members |-> st.members, grp |-> st.grp]
  BY DEF StreamShape, Xack
<1>2. /\ \A p \in DOMAIN pl : pl[p] \in PendingEntry /\ pl[p] = st.pel[p]
      /\ DOMAIN pl = DOMAIN st.pel \ {i}
      /\ pl = [p \in DOMAIN pl |-> pl[p]]
      /\ DOMAIN pl \subseteq 1..st.cursor
  BY DEF StreamFields
<1> HIDE DEF n, pl
<1>3. StreamOK(n) /\ n.log = st.log /\ n.live = st.live /\ n.cursor = st.cursor /\ n.pel = pl
  BY <1>1, <1>2, MkStream DEF StreamFields
<1> QED BY <1>2, <1>3 DEF n

\* XDEL takes one entry out of the stream.
LEMMA XdelFacts ==
  ASSUME NEW st, StreamOK(st), NEW i
  PROVE  /\ StreamOK(Xdel(st, i))
         /\ Xdel(st, i).log = st.log
         /\ Xdel(st, i).cursor = st.cursor
         /\ Xdel(st, i).live = st.live \ {i}
         /\ Xdel(st, i).pel = st.pel
<1> StreamShape(st) /\ StreamFields(st)
  BY DEF StreamOK
<1>1. Xdel(st, i) = [log |-> st.log, live |-> st.live \ {i}, cursor |-> st.cursor,
                     pel |-> st.pel, members |-> st.members, grp |-> st.grp]
  BY DEF StreamShape, Xdel
<1>2. st.live \ {i} \subseteq 1..Len(st.log)
  BY DEF StreamFields
<1> QED BY <1>1, <1>2, MkStream DEF StreamFields

\* XCLAIM changes an owner or drops a deleted entry from the pending list.
LEMMA XclaimFacts ==
  ASSUME NEW st, StreamOK(st), NEW i, NEW c \in Consumers, NEW m \in Nat
  PROVE  /\ StreamOK(Xclaim(st, i, c, m))
         /\ Xclaim(st, i, c, m).log = st.log
         /\ Xclaim(st, i, c, m).cursor = st.cursor
         /\ Xclaim(st, i, c, m).live = st.live
         /\ DOMAIN Xclaim(st, i, c, m).pel \subseteq DOMAIN st.pel
<1> StreamShape(st) /\ StreamFields(st)
  BY DEF StreamOK
<1> DEFINE n == Xclaim(st, i, c, m)
<1>1. CASE i \notin DOMAIN st.pel
  BY <1>1 DEF Xclaim
<1>2. CASE i \in DOMAIN st.pel /\ i \notin st.live
  BY <1>2, XackFacts DEF Xclaim
<1>3. CASE i \in DOMAIN st.pel /\ i \in st.live /\ st.pel[i].idle < m
  BY <1>3 DEF Xclaim
<1>4. CASE i \in DOMAIN st.pel /\ i \in st.live /\ ~(st.pel[i].idle < m)
  <2> DEFINE e == [owner |-> c, idle |-> 0, cnt |-> st.pel[i].cnt + 1]
             pl == [st.pel EXCEPT ![i] = e]
  <2>1. n = [log |-> st.log, live |-> st.live, cursor |-> st.cursor,
             pel |-> pl, members |-> st.members \cup {c}, grp |-> st.grp]
    BY <1>4 DEF Xclaim, StreamShape
  <2>2. e \in PendingEntry
    BY <1>4, ConstantsAssumption DEF PendingEntry, StreamFields
  <2> HIDE DEF e
  <2>3. /\ DOMAIN pl = DOMAIN st.pel
        /\ \A p \in DOMAIN pl : pl[p] \in PendingEntry
        /\ pl = [p \in DOMAIN pl |-> pl[p]]
    BY <1>4, <2>2 DEF StreamFields
  <2>4. st.members \cup {c} \subseteq Consumers
    BY DEF StreamFields
  <2> HIDE DEF n, pl
  <2>5. StreamOK(n) /\ n.log = st.log /\ n.live = st.live /\ n.cursor = st.cursor /\ n.pel = pl
    BY <2>1, <2>3, <2>4, MkStream DEF StreamFields
  <2> QED BY <2>3, <2>5 DEF n
<1> QED BY <1>1, <1>2, <1>3, <1>4

\* Time changes idle times only.
LEMMA AgeFacts ==
  ASSUME NEW st, StreamOK(st)
  PROVE  /\ StreamOK(Age(st, Tolerant + 1))
         /\ Age(st, Tolerant + 1).log = st.log
         /\ Age(st, Tolerant + 1).cursor = st.cursor
         /\ Age(st, Tolerant + 1).live = st.live
         /\ DOMAIN Age(st, Tolerant + 1).pel = DOMAIN st.pel
<1> StreamShape(st) /\ StreamFields(st)
  BY DEF StreamOK
<1> DEFINE older(p) == Older(st.pel[p], Tolerant + 1)
           pl == [p \in DOMAIN st.pel |-> older(p)]
           n == Age(st, Tolerant + 1)
<1>1. n = [log |-> st.log, live |-> st.live, cursor |-> st.cursor,
           pel |-> pl, members |-> st.members, grp |-> st.grp]
  <2>1. n = [st EXCEPT !.pel = pl]
    BY DEF Age
  <2> HIDE DEF pl, n
  <2> QED BY <2>1 DEF StreamShape
<1>2. ASSUME NEW p \in DOMAIN st.pel PROVE older(p) \in PendingEntry
  <2>1. PICK e \in PendingEntry : e = st.pel[p]
    BY DEF StreamFields
  <2>2. Tolerant \in Nat /\ e.idle \in 0..(Tolerant + 1)
    BY ConstantsAssumption DEF PendingEntry
  <2>3. PICK x \in 0..(Tolerant + 1) : x = IF e.idle < Tolerant + 1 THEN e.idle + 1 ELSE e.idle
    BY <2>2
  <2>4. older(p) = [e EXCEPT !.idle = x]
    BY <2>1, <2>3 DEF Older
  <2> QED BY <2>4 DEF PendingEntry
<1> HIDE DEF older
<1>3. /\ DOMAIN pl = DOMAIN st.pel
      /\ \A p \in DOMAIN pl : pl[p] \in PendingEntry
      /\ pl = [p \in DOMAIN pl |-> pl[p]]
  BY <1>2
<1> HIDE DEF n, pl
<1>4. StreamOK(n) /\ n.log = st.log /\ n.live = st.live /\ n.cursor = st.cursor /\ n.pel = pl
  BY <1>1, <1>3, MkStream DEF StreamFields
<1> QED BY <1>3, <1>4 DEF n

-----------------------------------------------------------------------------
(* Type correctness, action by action. *)

\* Replacing one stream by a well-formed one.
LEMMA StreamUpdate ==
  ASSUME StreamsOK, NEW k \in Keys, NEW n, StreamOK(n),
         stream' = [stream EXCEPT ![k] = n]
  PROVE  /\ StreamsOK'
         /\ stream'[k] = n
         /\ \A x \in Keys \ {k} : stream'[x] = stream[x]
BY DEF StreamsOK

\* The names of keys and consumers are in their sets.
LEMMA KeyFacts ==
  ASSUME NEW s \in Services
  PROVE  /\ DBKey(s) \in Keys /\ ReplyKey(s) \in Keys /\ DBKey(s) # ReplyKey(s)
         /\ Gateman(s) \in Consumers /\ FrontConsumer(s) \in Consumers
         /\ \A t \in Services : /\ DBKey(s) # ReplyKey(t)
                                /\ s # t => DBKey(s) # DBKey(t) /\ ReplyKey(s) # ReplyKey(t)
BY DEF DBKey, ReplyKey, Keys, Services, Gateman, FrontConsumer, Consumers

\* The initial states are well typed.
LEMMA InitType == Init => TypeOK
<1> SUFFICES ASSUME Init PROVE TypeOK
  OBVIOUS
<1>1. ASSUME NEW g \in BOOLEAN PROVE StreamOK(EmptyStream(g))
  <2> DEFINE none == [i \in {} |-> i]
             nil == <<>>
             zero == 0
             n == EmptyStream(g)
  <2>1. none = [i \in DOMAIN none |-> none[i]] /\ DOMAIN none = {}
    OBVIOUS
  <2>2. n = [log |-> nil, live |-> {}, cursor |-> zero,
             pel |-> none, members |-> {}, grp |-> g]
    BY DEF EmptyStream
  <2>3. nil \in Seq(Requests) /\ {} \subseteq 1..Len(nil) /\ zero \in 0..Len(nil)
        /\ DOMAIN none \subseteq 1..zero /\ (\A i \in DOMAIN none : none[i] \in PendingEntry)
        /\ {} \subseteq Consumers
    BY <2>1
  <2> HIDE DEF none, nil, zero, n
  <2>4. StreamOK(n)
    BY <2>1, <2>2, <2>3, MkStream
  <2> QED BY <2>4 DEF n
<1>2. StreamsOK
  <2>1. \A k \in Keys : (k # "DB4GAME") \in BOOLEAN
    OBVIOUS
  <2>2. \A k \in Keys : stream[k] = EmptyStream(k # "DB4GAME")
    BY DEF Init
  <2>3. ASSUME NEW k \in Keys PROVE StreamOK(stream[k])
    <3>1. PICK g \in BOOLEAN : g = (k # "DB4GAME")
      OBVIOUS
    <3> QED BY <1>1, <2>2, <3>1
  <2> QED BY <2>3 DEF StreamsOK, Init
<1>3. ActorsOK
  <2>1. dbUp \in BOOLEAN
    BY DEF Init
  <2>2. Idle \in [pc : {"idle"}, id : Nat]
    BY DEF Idle
  <2>3. faults \in 0..MaxFaults
    BY ConstantsAssumption DEF Init
  <2>4. /\ reader \in [Readers -> [pc : {"idle", "pulled", "handled", "acked", "dead"}, id : Nat]]
        /\ front \in [Services -> [pc : {"idle", "pulled", "put", "dead"}, id : Nat]]
    BY <2>2 DEF Init
  <2>5. /\ effects \in [Requests -> Nat] /\ inbox \in [Requests -> Nat]
        /\ conns \subseteq Conns /\ sent \subseteq Requests
    BY DEF Init
  <2> QED BY <2>1, <2>3, <2>4, <2>5 DEF ActorsOK
<1>4. MgrOK
  BY DEF MgrOK, Init, Napping, NoSiblings
<1> QED BY <1>2, <1>3, <1>4 DEF TypeOK

\* A step that appends to no stream, moves cursors only forward, executes and
\* delivers nothing, and lets readers and consumers only keep, advance or give
\* up what they hold.
QuietStep ==
  /\ sent \subseteq sent' /\ effects' = effects /\ inbox' = inbox
  /\ \A k \in Keys : /\ stream'[k].log = stream[k].log
                     /\ stream'[k].cursor >= stream[k].cursor
  /\ \A rd \in Readers :
       \/ reader'[rd] = reader[rd]
       \/ reader'[rd].pc \in {"idle", "dead"}
       \/ /\ reader[rd].pc = "handled" /\ reader'[rd].pc = "acked"
          /\ reader'[rd].id = reader[rd].id
  /\ \A s \in Services : front'[s] = front[s] \/ front'[s].pc \in {"idle", "dead"}

\* Indices of a well-formed stream.
LEMMA IndexFacts ==
  ASSUME NEW st, StreamOK(st)
  PROVE  /\ st.log \in Seq(Requests) /\ Len(st.log) \in Nat /\ DOMAIN st.log = 1..Len(st.log)
         /\ st.cursor \in 0..Len(st.log) /\ st.cursor >= st.cursor
         /\ 1..st.cursor \subseteq DOMAIN st.log
         /\ \A i \in DOMAIN st.log : st.log[i] \in Requests
         /\ \A i \in DOMAIN st.pel : i \in 1..st.cursor
BY DEF StreamOK, StreamFields

\* Streams that do not change at all.
LEMMA SameStreams ==
  ASSUME StreamsOK, stream' = stream
  PROVE  /\ StreamsOK'
         /\ \A k \in Keys : stream'[k].log = stream[k].log /\ stream'[k].cursor >= stream[k].cursor
<1>1. StreamsOK'
  BY DEF StreamsOK
<1>2. \A k \in Keys : stream[k].cursor >= stream[k].cursor
  BY IndexFacts DEF StreamsOK
<1> QED BY <1>1, <1>2

\* One stream changes to one with the same log and a cursor no smaller.
LEMMA OneStream ==
  ASSUME StreamsOK, NEW k \in Keys, NEW n, StreamOK(n), stream' = [stream EXCEPT ![k] = n],
         n.log = stream[k].log, n.cursor = stream[k].cursor
  PROVE  /\ StreamsOK'
         /\ \A x \in Keys : stream'[x].log = stream[x].log /\ stream'[x].cursor >= stream[x].cursor
<1>1. \A x \in Keys : stream[x].cursor >= stream[x].cursor
  BY IndexFacts DEF StreamsOK
<1>2. StreamsOK' /\ stream'[k] = n /\ \A x \in Keys \ {k} : stream'[x] = stream[x]
  BY StreamUpdate
<1> QED BY <1>1, <1>2

\* Front end, fault and DB server steps that are quiet.
LEMMA QuietOutside ==
  ASSUME TypeOK,
         \/ \E c \in Conns : Connect(c) \/ Close(c)
         \/ \E r \in Requests : SendFails(r)
         \/ DBStart \/ DBCrash
         \/ UNCHANGED vars
  PROVE  TypeOK' /\ QuietStep
<1> USE DEF TypeOK
<1>1. ASSUME NEW c \in Conns, Connect(c) \/ Close(c) PROVE TypeOK' /\ QuietStep
  <2>1. ActorsOK' BY <1>1 DEF ActorsOK, Connect, Close
  <2>2. MgrOK' BY <1>1 DEF MgrOK, Connect, Close
  <2> QED BY <1>1, <2>1, <2>2, SameStreams DEF QuietStep, Connect, Close
<1>2. ASSUME NEW r \in Requests, SendFails(r) PROVE TypeOK' /\ QuietStep
  <2>1. ActorsOK' BY <1>2, ConstantsAssumption DEF ActorsOK, SendFails
  <2>2. MgrOK' BY <1>2 DEF MgrOK, SendFails
  <2> QED BY <1>2, <2>1, <2>2, SameStreams DEF QuietStep, SendFails
<1>3. ASSUME DBStart PROVE TypeOK' /\ QuietStep
  <2>1. ActorsOK'
    <3>1. dbUp' \in BOOLEAN BY <1>3 DEF DBStart
    <3> QED BY <1>3, <3>1 DEF ActorsOK, DBStart
  <2>2. MgrOK' BY <1>3 DEF MgrOK, DBStart
  <2>3. \A k \in Keys : /\ StreamOK(stream'[k]) /\ stream'[k].log = stream[k].log
                        /\ stream'[k].cursor >= stream[k].cursor
    <3> TAKE k \in Keys
    <3>1. StreamOK(stream[k]) /\ stream[k].cursor >= stream[k].cursor
      BY IndexFacts DEF StreamsOK
    <3>2. stream'[k] = XgroupCreate(stream[k]) \/ stream'[k] = stream[k]
      BY <1>3 DEF DBStart
    <3> QED BY <3>1, <3>2, XgroupCreateFacts
  <2>4. StreamsOK'
    BY <1>3, <2>3 DEF StreamsOK, DBStart
  <2> QED BY <1>3, <2>1, <2>2, <2>3, <2>4 DEF QuietStep, DBStart
<1>4. ASSUME DBCrash PROVE TypeOK' /\ QuietStep
  <2>1. ActorsOK'
    <3>1. dbUp' \in BOOLEAN BY <1>4 DEF DBCrash
    <3>2. reader' \in [Readers -> [pc : {"idle", "pulled", "handled", "acked", "dead"}, id : Nat]]
      BY <1>4 DEF DBCrash, Idle
    <3> QED BY <1>4, <3>1, <3>2, ConstantsAssumption DEF ActorsOK, DBCrash
  <2>2. MgrOK' BY <1>4 DEF MgrOK, DBCrash
  <2>3. \A rd \in Readers : reader'[rd].pc = "idle" BY <1>4 DEF DBCrash, Idle
  <2> QED BY <1>4, <2>1, <2>2, <2>3, SameStreams DEF QuietStep, DBCrash
<1>5. ASSUME UNCHANGED vars PROVE TypeOK' /\ QuietStep
  <2>1. ActorsOK' /\ MgrOK' BY <1>5 DEF ActorsOK, MgrOK, vars
  <2> QED BY <1>5, <2>1, SameStreams DEF QuietStep, vars
<1> QED BY <1>1, <1>2, <1>3, <1>4, <1>5

\* Reader steps that are quiet: an acknowledgement, or giving up.
LEMMA QuietReader ==
  ASSUME TypeOK, NEW rd \in Readers, ReaderAck(rd) \/ ReaderThrows(rd) \/ ReaderPushFails(rd)
  PROVE  TypeOK' /\ QuietStep
<1> USE DEF TypeOK
<1>0. /\ ReaderKey(rd) \in Keys
      /\ reader[rd] \in [pc : {"idle", "pulled", "handled", "acked", "dead"}, id : Nat]
      /\ Idle \in [pc : {"idle"}, id : Nat]
  BY KeyFacts, ConstantsAssumption DEF ReaderKey, ActorsOK, Idle
<1>1. MgrOK' BY DEF MgrOK, ReaderAck, ReaderThrows, ReaderPushFails
<1>2. CASE ReaderAck(rd)
  <2>1. /\ StreamsOK'
        /\ \A k \in Keys : stream'[k].log = stream[k].log /\ stream'[k].cursor >= stream[k].cursor
    <3>1. StreamOK(stream[ReaderKey(rd)]) BY <1>0 DEF StreamsOK
    <3> QED BY <1>0, <1>2, <3>1, XackFacts, OneStream DEF ReaderAck
  <2>2. PICK x : /\ reader' = [reader EXCEPT ![rd] = x]
                 /\ x = Idle \/ x = [reader[rd] EXCEPT !.pc = "acked"]
    BY <1>2 DEF ReaderAck
  <2>3. /\ x \in [pc : {"idle", "acked"}, id : Nat]
        /\ x.pc = "idle" \/ (x.pc = "acked" /\ x.id = reader[rd].id)
    BY <1>0, <2>2
  <2>4. ActorsOK' BY <1>2, <2>2, <2>3 DEF ActorsOK, ReaderAck
  <2>5. \A o \in Readers : reader'[o] = IF o = rd THEN x ELSE reader[o]
    BY <2>2 DEF ActorsOK
  <2> QED BY <1>1, <1>2, <2>1, <2>3, <2>4, <2>5 DEF QuietStep, ReaderAck
<1>3. CASE ReaderThrows(rd) \/ ReaderPushFails(rd)
  <2>1. PICK x \in [pc : {"idle", "dead"}, id : Nat] : reader' = [reader EXCEPT ![rd] = x]
    BY <1>0, <1>3 DEF ReaderThrows, ReaderPushFails
  <2>2. ActorsOK'
    BY <1>3, <2>1, ConstantsAssumption DEF ActorsOK, ReaderThrows, ReaderPushFails
  <2>3. \A o \in Readers : reader'[o] = IF o = rd THEN x ELSE reader[o]
    BY <2>1 DEF ActorsOK
  <2> QED BY <1>1, <1>3, <2>1, <2>2, <2>3, SameStreams
          DEF QuietStep, ReaderThrows, ReaderPushFails
<1> QED BY <1>2, <1>3

\* Steps of a front end's consumer that are quiet.
LEMMA QuietFront ==
  ASSUME TypeOK, NEW s \in Services,
         FrontAck(s) \/ FrontLost(s) \/ FrontThrows(s) \/ FrontCrash(s)
  PROVE  TypeOK' /\ QuietStep
<1> USE DEF TypeOK
<1>0. /\ ReplyKey(s) \in Keys /\ "LOGIN" \in Keys
      /\ front[s] \in [pc : {"idle", "pulled", "put", "dead"}, id : Nat]
      /\ Idle \in [pc : {"idle"}, id : Nat]
  BY KeyFacts DEF Keys, ActorsOK, Idle
<1>1. MgrOK' BY DEF MgrOK, FrontAck, FrontLost, FrontThrows, FrontCrash
<1>2. PICK x \in [pc : {"idle", "dead"}, id : Nat] : front' = [front EXCEPT ![s] = x]
  BY <1>0 DEF FrontAck, FrontLost, FrontThrows, FrontCrash
<1>3. \A t \in Services : front'[t] = IF t = s THEN x ELSE front[t]
  BY <1>2 DEF ActorsOK
<1>4. ActorsOK'
  BY <1>2, ConstantsAssumption DEF ActorsOK, FrontAck, FrontLost, FrontThrows, FrontCrash
<1>5. /\ StreamsOK'
      /\ \A k \in Keys : stream'[k].log = stream[k].log /\ stream'[k].cursor >= stream[k].cursor
  <2>0. StreamOK(stream[ReplyKey(s)]) /\ StreamOK(stream["LOGIN"]) BY <1>0 DEF StreamsOK
  <2>1. CASE FrontAck(s)
    BY <1>0, <2>0, <2>1, XackFacts, OneStream DEF FrontAck
  <2>2. CASE FrontLost(s) /\ s = "login"
    BY <1>0, <2>0, <2>2, XdelFacts, OneStream DEF FrontLost
  <2>3. CASE stream' = stream
    BY <2>3, SameStreams
  <2> QED BY <2>1, <2>2, <2>3 DEF FrontLost, FrontThrows, FrontCrash
<1> QED BY <1>1, <1>2, <1>3, <1>4, <1>5 DEF QuietStep, FrontAck, FrontLost, FrontThrows, FrontCrash

\* The manager's scans copy well-typed data.
LEMMA ScanTypes ==
  ASSUME TypeOK, MgrScanGroups \/ MgrScanConsumers \/ MgrGetPending \/ MgrCrash
  PROVE  MgrOK'
<1> USE DEF TypeOK
<1>0. Napping = [groups |-> {}, consumers |-> {}, items |-> {}, acked |-> FALSE, sib |-> NoSiblings]
      /\ NoSiblings \in [GroupNames -> SUBSET Consumers]
  BY DEF Napping, NoSiblings
<1>1. CASE MgrScanGroups
  BY <1>0, <1>1, ConstantsAssumption DEF MgrOK, MgrScanGroups
<1>2. CASE MgrScanConsumers
  <2> DEFINE k == Front(mgr.groups)
             new == PendingConsumers(k)
             sib2 == [mgr.sib EXCEPT ![GroupName(k)] = @ \cup stream[k].members]
  <2>1. k \in mgr.groups /\ k \in Keys
    BY <1>2 DEF MgrScanConsumers, Front, MgrOK
  <2>2. stream[k].members \subseteq Consumers
    BY <2>1 DEF StreamsOK, StreamOK, StreamFields
  <2>3. \A q \in new : q.key \in Keys /\ q.c \in Consumers
    BY <2>1, <2>2 DEF PendingConsumers
  <2>4. sib2 \in [GroupNames -> SUBSET Consumers]
    BY <2>1, <2>2 DEF MgrOK, GroupName, GroupNames
  <2>5. mgr' = [mgr EXCEPT !.groups = mgr.groups \ {k}, !.consumers = mgr.consumers \cup new,
                           !.sib = sib2]
    BY <1>2 DEF MgrScanConsumers
  <2> HIDE DEF k, new, sib2
  <2>6. mgr' = [groups |-> mgr.groups \ {k}, consumers |-> mgr.consumers \cup new,
                items |-> mgr.items, acked |-> mgr.acked, sib |-> sib2]
    BY <2>5 DEF MgrOK
  <2> QED BY <2>3, <2>4, <2>6 DEF MgrOK
<1>3. CASE MgrGetPending
  <2> DEFINE q == Front(mgr.consumers)
             copy(i) == [key |-> q.key, id |-> i, c |-> q.c,
                         idle |-> stream[q.key].pel[i].idle,
                         cnt |-> stream[q.key].pel[i].cnt]
             new == {copy(i) : i \in Smallest(PendingOf(q.key, q.c), q.num)}
  <2>1. q \in mgr.consumers /\ q.key \in Keys /\ q.c \in Consumers
    BY <1>3 DEF MgrGetPending, Front, MgrOK
  <2>2. ASSUME NEW i \in Smallest(PendingOf(q.key, q.c), q.num) PROVE copy(i) \in PendingItem
    <3>1. StreamOK(stream[q.key]) BY <2>1 DEF StreamsOK
    <3>2. i \in DOMAIN stream[q.key].pel BY <2>2 DEF Smallest, PendingOf
    <3>3. i \in Nat /\ stream[q.key].pel[i] \in PendingEntry
      BY <3>1, <3>2 DEF StreamOK, StreamFields
    <3> QED BY <2>1, <3>3 DEF PendingItem, PendingEntry
  <2>3. mgr' = [mgr EXCEPT !.consumers = mgr.consumers \ {q}, !.items = new]
    BY <1>3 DEF MgrGetPending
  <2>4. \A it \in new : it \in PendingItem BY <2>2
  <2> HIDE DEF q, new
  <2>5. mgr' = [groups |-> mgr.groups, consumers |-> mgr.consumers \ {q},
                items |-> new, acked |-> mgr.acked, sib |-> mgr.sib]
    BY <2>3 DEF MgrOK
  <2> QED BY <2>4, <2>5 DEF MgrOK
<1>4. CASE MgrCrash
  BY <1>0, <1>4 DEF MgrOK, MgrCrash
<1> QED BY <1>1, <1>2, <1>3, <1>4

\* Taking a copy off the list keeps the manager's state well typed.
LEMMA DoneType ==
  ASSUME TypeOK, NEW it, MgrDone(it)
  PROVE  MgrOK'
<1>0. Napping = [groups |-> {}, consumers |-> {}, items |-> {}, acked |-> FALSE, sib |-> NoSiblings]
      /\ NoSiblings \in [GroupNames -> SUBSET Consumers]
  BY DEF Napping, NoSiblings
<1>1. CASE mgr' = Napping
  BY <1>0, <1>1 DEF MgrOK
<1>2. CASE mgr' = [mgr EXCEPT !.items = mgr.items \ {it}, !.acked = FALSE]
  <2>1. mgr' = [groups |-> mgr.groups, consumers |-> mgr.consumers,
                items |-> mgr.items \ {it}, acked |-> FALSE, sib |-> mgr.sib]
    BY <1>2 DEF TypeOK, MgrOK
  <2> QED BY <2>1 DEF TypeOK, MgrOK
<1> QED BY <1>1, <1>2 DEF MgrDone

\* Every step of the manager is quiet, and so is time.
LEMMA QuietManager ==
  ASSUME TypeOK, Manager \/ MgrCrash \/ Tick
  PROVE  TypeOK' /\ QuietStep
<1> USE DEF TypeOK
<1> DEFINE Calm == /\ StreamsOK'
                   /\ \A k \in Keys : /\ stream'[k].log = stream[k].log
                                      /\ stream'[k].cursor >= stream[k].cursor
<1>0. \A it \in NextItem : it.key \in Keys /\ StreamOK(stream[it.key])
  BY DEF NextItem, MgrOK, PendingItem, StreamsOK
<1>1. Calm /\ MgrOK'
  <2>1. CASE MgrScanGroups \/ MgrScanConsumers \/ MgrGetPending \/ MgrCrash
    BY <2>1, ScanTypes, SameStreams DEF MgrScanGroups, MgrScanConsumers, MgrGetPending, MgrCrash
  <2>2. CASE MgrAckDeadLetter
    <3>1. PICK it \in NextItem : stream' = [stream EXCEPT ![it.key] = Xack(stream[it.key], it.id)]
      BY <2>2 DEF MgrAckDeadLetter
    <3>2. it.key \in Keys /\ StreamOK(stream[it.key]) BY <1>0
    <3>3. Calm BY <3>1, <3>2, XackFacts, OneStream
    <3>4. mgr' = [mgr EXCEPT !.acked = TRUE] BY <2>2 DEF MgrAckDeadLetter
    <3>5. mgr' = [groups |-> mgr.groups, consumers |-> mgr.consumers,
                  items |-> mgr.items, acked |-> TRUE, sib |-> mgr.sib]
      BY <3>4 DEF MgrOK
    <3>6. MgrOK' BY <3>5 DEF MgrOK
    <3> QED BY <3>3, <3>6
  <2>7. CASE MgrDelDeadLetter
    <3>1. PICK it \in NextItem :
            stream' = [stream EXCEPT ![it.key] = Xdel(stream[it.key], it.id)] /\ MgrDone(it)
      BY <2>7 DEF MgrDelDeadLetter
    <3>2. it.key \in Keys /\ StreamOK(stream[it.key]) BY <1>0
    <3> QED BY <3>1, <3>2, XdelFacts, OneStream, DoneType
  <2>3. CASE MgrAckTooOld
    <3>1. PICK it \in NextItem :
            stream' = [stream EXCEPT ![it.key] = Xack(stream[it.key], it.id)] /\ MgrDone(it)
      BY <2>3 DEF MgrAckTooOld
    <3>2. it.key \in Keys /\ StreamOK(stream[it.key]) BY <1>0
    <3> QED BY <3>1, <3>2, XackFacts, OneStream, DoneType
  <2>4. CASE MgrTransfer
    <3>1. PICK it \in NextItem :
            /\ \E c \in Siblings(it) :
                 stream' = [stream EXCEPT ![it.key] = Xclaim(stream[it.key], it.id, c, Transfer)]
            /\ MgrDone(it)
      BY <2>4 DEF MgrTransfer
    <3>2. PICK c \in Siblings(it) :
            stream' = [stream EXCEPT ![it.key] = Xclaim(stream[it.key], it.id, c, Transfer)]
      BY <3>1
    <3>3. it.key \in Keys /\ StreamOK(stream[it.key]) BY <1>0
    <3>4. c \in Consumers /\ Transfer \in Nat
      <4>1. GroupName(it.key) \in GroupNames BY <3>3 DEF GroupName, GroupNames, Keys
      <4>2. mgr.sib[GroupName(it.key)] \subseteq Consumers BY <4>1 DEF MgrOK
      <4> QED BY <4>2, ConstantsAssumption DEF Siblings
    <3>5. Calm BY <3>2, <3>3, <3>4, XclaimFacts, OneStream
    <3> QED BY <3>1, <3>5, DoneType
  <2>5. CASE MgrLeave
    <3>1. PICK it \in NextItem : MgrDone(it) BY <2>5 DEF MgrLeave
    <3> QED BY <2>5, <3>1, SameStreams, DoneType DEF MgrLeave
  <2>6. CASE Tick
    <3>1. \A k \in Keys : stream'[k] = Age(stream[k], Tolerant + 1) \/ stream'[k] = stream[k]
      BY <2>6 DEF Tick
    <3>2. \A k \in Keys : /\ StreamOK(stream'[k]) /\ stream'[k].log = stream[k].log
                          /\ stream'[k].cursor >= stream[k].cursor
      <4> TAKE k \in Keys
      <4>1. StreamOK(stream[k]) /\ stream[k].cursor >= stream[k].cursor
        BY IndexFacts DEF StreamsOK
      <4> QED BY <3>1, <4>1, AgeFacts
    <3>3. StreamsOK' BY <2>6, <3>2 DEF StreamsOK, Tick
    <3>4. MgrOK' BY <2>6 DEF MgrOK, Tick
    <3> QED BY <3>2, <3>3, <3>4
  <2> QED BY <2>1, <2>2, <2>3, <2>4, <2>5, <2>6, <2>7 DEF Manager
<1>2. /\ UNCHANGED <<conns, sent, dbUp, reader, front, effects, inbox>>
      /\ faults' = faults \/ (faults < MaxFaults /\ faults' = faults + 1)
  BY DEF Manager, MgrScanGroups, MgrScanConsumers, MgrGetPending, MgrAckDeadLetter, MgrDelDeadLetter,
         MgrAckTooOld, MgrTransfer, MgrLeave, MgrCrash, Tick
<1>3. ActorsOK' BY <1>2, ConstantsAssumption DEF ActorsOK
<1> QED BY <1>1, <1>2, <1>3 DEF QuietStep

-----------------------------------------------------------------------------
(* The inductive invariant. *)

\* A quiet step preserves everything but types.
LEMMA QuietPreserves ==
  ASSUME PipelineInv, TypeOK', QuietStep
  PROVE  PipelineInv'
<1> USE DEF PipelineInv
<1>0. \A s \in Services : /\ DBKey(s) \in Keys /\ ReplyKey(s) \in Keys
                          /\ StreamOK(stream[DBKey(s)]) /\ StreamOK(stream[ReplyKey(s)])
                          /\ StreamOK(stream[DBKey(s)])' /\ StreamOK(stream[ReplyKey(s)])'
  BY KeyFacts DEF TypeOK, StreamsOK
<1>1. \A s \in Services : /\ DBLog(s)' = DBLog(s) /\ ReplyLog(s)' = ReplyLog(s)
                          /\ stream'[DBKey(s)].cursor >= stream[DBKey(s)].cursor
                          /\ stream'[ReplyKey(s)].cursor >= stream[ReplyKey(s)].cursor
  BY <1>0 DEF QuietStep, DBLog, ReplyLog
<1>2. \A s \in Services : /\ stream[DBKey(s)].cursor \in Nat /\ stream'[DBKey(s)].cursor \in Nat
                          /\ stream[ReplyKey(s)].cursor \in Nat /\ stream'[ReplyKey(s)].cursor \in Nat
                          /\ DOMAIN DBLog(s) \subseteq Nat /\ DOMAIN ReplyLog(s) \subseteq Nat
  <2> TAKE s \in Services
  <2> QED BY <1>0, IndexFacts DEF DBLog, ReplyLog
<1>3. RoutedOnce'
  BY DEF QuietStep, RoutedOnce
<1>4. LogsHold'
  BY <1>1 DEF QuietStep, LogsHold
<1>5. UnreadUntouched'
  BY <1>1, <1>2 DEF QuietStep, UnreadUntouched
<1>6. ReaderOwns'
  <2> SUFFICES ASSUME NEW rd \in Readers, Busy(rd)'
               PROVE  /\ reader'[rd].id \in 1..stream'[ReaderKey(rd)].cursor
                      /\ \A other \in Readers \ {rd} :
                           Busy(other)' /\ ReaderService[other] = ReaderService[rd]
                             => reader'[other].id # reader'[rd].id
                      /\ reader'[rd].pc = "pulled" => effects'[Held(rd)'] = 0
                      /\ reader'[rd].pc # "pulled" /\ Held(rd)' \notin Unroutable =>
                           effects'[Held(rd)'] = 1 /\ Held(rd)' \notin Range(ReplyLog(ReaderService[rd])')
    BY DEF ReaderOwns, ReaderKey
  <2>1. \A o \in Readers : Busy(o)' => /\ Busy(o) /\ reader'[o].id = reader[o].id
                                       /\ (reader'[o].pc = "pulled" <=> reader[o].pc = "pulled")
    BY DEF QuietStep, Busy
  <2>2. ReaderService[rd] \in Services BY ConstantsAssumption
  <2>3. Held(rd)' = Held(rd) BY <1>1, <2>1, <2>2 DEF Held, ReaderKey, DBLog
  <2>4. reader[rd].id \in 1..stream[ReaderKey(rd)].cursor BY <2>1 DEF ReaderOwns
  <2>5. reader'[rd].id \in 1..stream'[ReaderKey(rd)].cursor
    BY <1>1, <1>2, <2>1, <2>2, <2>4 DEF ReaderKey
  <2> QED BY <1>1, <2>1, <2>2, <2>3, <2>5 DEF ReaderOwns, QuietStep
<1>7. FrontOwns'
  <2> SUFFICES ASSUME NEW s \in Services, front'[s].pc \in {"pulled", "put"}
               PROVE  /\ front'[s].id \in 1..stream'[ReplyKey(s)].cursor
                      /\ front'[s].pc = "pulled" => inbox'[Reply(s)'] = 0
    BY DEF FrontOwns
  <2>1. front'[s] = front[s] BY DEF QuietStep
  <2>2. front[s].id \in 1..stream[ReplyKey(s)].cursor BY <2>1 DEF FrontOwns
  <2>3. Reply(s)' = Reply(s) BY <1>1, <2>1 DEF Reply, ReplyLog
  <2> QED BY <1>1, <1>2, <2>1, <2>2, <2>3 DEF FrontOwns, QuietStep
<1>8. AtMostOnce'
  BY <1>1, ConstantsAssumption DEF AtMostOnce, QuietStep
<1> QED BY <1>3, <1>4, <1>5, <1>6, <1>7, <1>8

\* The initial states satisfy the invariant.
LEMMA InitInv == Init => PipelineInv
<1> SUFFICES ASSUME Init PROVE PipelineInv
  OBVIOUS
<1>1. TypeOK BY InitType
<1>2. \A k \in Keys : stream[k].log = <<>>
  BY DEF Init, EmptyStream
<1>3. \A s \in Services : DBLog(s) = <<>> /\ ReplyLog(s) = <<>>
  BY <1>2, KeyFacts DEF DBLog, ReplyLog
<1>4. RoutedOnce BY <1>2 DEF RoutedOnce
<1>5. LogsHold /\ UnreadUntouched BY <1>3 DEF LogsHold, UnreadUntouched
<1>6. ReaderOwns /\ FrontOwns BY DEF ReaderOwns, FrontOwns, Busy, Init, Idle
<1>7. AtMostOnce BY DEF AtMostOnce, Init
<1> QED BY <1>1, <1>4, <1>5, <1>6, <1>7 DEF PipelineInv

\* What the invariant says about an entry in the hands of a reader.
LEMMA HeldFacts ==
  ASSUME PipelineInv, NEW rd \in Readers, Busy(rd)
  PROVE  /\ ReaderService[rd] \in Services
         /\ ReaderKey(rd) = DBKey(ReaderService[rd])
         /\ reader[rd].id \in DOMAIN DBLog(ReaderService[rd])
         /\ Held(rd) = DBLog(ReaderService[rd])[reader[rd].id]
         /\ Held(rd) \in Requests /\ Held(rd) \in sent
         /\ Service[Held(rd)] = ReaderService[rd]
<1> DEFINE s == ReaderService[rd]
<1>1. s \in Services /\ DBKey(s) \in Keys /\ ReaderKey(rd) = DBKey(s)
  BY ConstantsAssumption, KeyFacts DEF ReaderKey
<1>2. StreamOK(stream[DBKey(s)])
  BY <1>1 DEF PipelineInv, TypeOK, StreamsOK
<1>3. reader[rd].id \in DOMAIN DBLog(s)
  <2>1. reader[rd].id \in 1..stream[DBKey(s)].cursor
    BY <1>1 DEF PipelineInv, ReaderOwns
  <2> QED BY <1>2, <2>1, IndexFacts DEF DBLog
<1>4. Held(rd) = DBLog(s)[reader[rd].id]
  BY <1>1 DEF Held, DBLog
<1> QED BY <1>1, <1>2, <1>3, <1>4, IndexFacts DEF DBLog, PipelineInv, LogsHold

\* ... and about a reply in the hands of a front end's consumer.
LEMMA ReplyFacts ==
  ASSUME PipelineInv, NEW s \in Services, front[s].pc \in {"pulled", "put"}
  PROVE  /\ front[s].id \in DOMAIN ReplyLog(s)
         /\ Reply(s) = ReplyLog(s)[front[s].id]
         /\ Reply(s) \in Requests /\ Service[Reply(s)] = s /\ effects[Reply(s)] = 1
<1>1. StreamOK(stream[ReplyKey(s)])
  BY KeyFacts DEF PipelineInv, TypeOK, StreamsOK
<1>2. front[s].id \in 1..stream[ReplyKey(s)].cursor
  BY DEF PipelineInv, FrontOwns
<1>3. front[s].id \in DOMAIN ReplyLog(s)
  BY <1>1, <1>2, IndexFacts DEF ReplyLog
<1>4. Reply(s) = ReplyLog(s)[front[s].id]
  BY DEF Reply, ReplyLog
<1> QED BY <1>1, <1>3, <1>4, IndexFacts DEF ReplyLog, PipelineInv, LogsHold

\* Executing the held request touches no other reader's entry, no unread entry
\* and no reply.
LEMMA HandlePreserves ==
  ASSUME PipelineInv, NEW rd \in Readers, ReaderHandle(rd)
  PROVE  PipelineInv'
<1> USE DEF PipelineInv
<1> DEFINE s == ReaderService[rd]
           r == Held(rd)
<1>0. Busy(rd) /\ reader[rd].pc = "pulled" BY DEF ReaderHandle, Busy
<1>1. /\ s \in Services /\ ReaderKey(rd) = DBKey(s)
      /\ reader[rd].id \in DOMAIN DBLog(s) /\ r = DBLog(s)[reader[rd].id]
      /\ r \in Requests /\ r \in sent /\ Service[r] = s
  BY <1>0, HeldFacts
<1>2. effects[r] = 0 BY <1>0 DEF ReaderOwns
<1>3. effects' = IF r \in Unroutable THEN effects ELSE [effects EXCEPT ![r] = 1]
  BY <1>2 DEF ReaderHandle
<1>4. \A q \in Requests : effects'[q] = IF q = r /\ r \notin Unroutable THEN 1 ELSE effects[q]
  BY <1>3 DEF TypeOK, ActorsOK
<1>5. /\ \A o \in Readers \ {rd} : reader'[o] = reader[o]
      /\ reader'[rd].pc = "handled" /\ reader'[rd].id = reader[rd].id
      /\ UNCHANGED <<stream, sent, front, inbox>>
  BY DEF ReaderHandle, TypeOK, ActorsOK
<1>6. TypeOK'
  <2>1. ActorsOK'
    <3>1. effects' \in [Requests -> Nat] BY <1>1, <1>3 DEF TypeOK, ActorsOK
    <3>2. reader' \in [Readers -> [pc : {"idle", "pulled", "handled", "acked", "dead"}, id : Nat]]
      BY DEF ReaderHandle, TypeOK, ActorsOK
    <3> QED BY <3>1, <3>2 DEF ReaderHandle, TypeOK, ActorsOK
  <2>2. StreamsOK' /\ MgrOK' BY DEF ReaderHandle, TypeOK, StreamsOK, MgrOK
  <2> QED BY <2>1, <2>2 DEF TypeOK
<1> HIDE DEF r, s
<1>7. \A t \in Services : /\ DBLog(t)' = DBLog(t) /\ ReplyLog(t)' = ReplyLog(t)
                          /\ stream'[DBKey(t)] = stream[DBKey(t)]
                          /\ stream'[ReplyKey(t)] = stream[ReplyKey(t)]
                          /\ StreamOK(stream[DBKey(t)]) /\ StreamOK(stream[ReplyKey(t)])
  BY <1>5, KeyFacts DEF DBLog, ReplyLog, TypeOK, StreamsOK
<1>8. \A t \in Services : /\ \A i \in DOMAIN DBLog(t) : DBLog(t)[i] \in Requests
                          /\ \A i \in DOMAIN ReplyLog(t) : ReplyLog(t)[i] \in Requests
  <2> TAKE t \in Services
  <2> QED BY <1>7, IndexFacts DEF DBLog, ReplyLog
<1>9. \A t \in Services : \A i \in DOMAIN DBLog(t) :
        DBLog(t)[i] = r => t = s /\ (i = reader[rd].id \/ r \in Unroutable)
  BY <1>1, KeyFacts DEF LogsHold, RoutedOnce, DBLog
<1>10. RoutedOnce' BY <1>5 DEF RoutedOnce
<1>11. LogsHold'
  BY <1>2, <1>4, <1>5, <1>7, <1>8 DEF LogsHold
<1>12. UnreadUntouched'
  <2>1. reader[rd].id \in 1..stream[DBKey(s)].cursor BY <1>0, <1>1 DEF ReaderOwns
  <2>2. stream[DBKey(s)].cursor \in Nat BY <1>1, <1>7, IndexFacts
  <2> QED BY <1>4, <1>5, <1>7, <1>8, <1>9, <2>1, <2>2 DEF UnreadUntouched
<1>13. ReaderOwns'
  <2> SUFFICES ASSUME NEW o \in Readers, Busy(o)'
               PROVE  /\ reader'[o].id \in 1..stream'[ReaderKey(o)].cursor
                      /\ \A other \in Readers \ {o} :
                           Busy(other)' /\ ReaderService[other] = ReaderService[o]
                             => reader'[other].id # reader'[o].id
                      /\ reader'[o].pc = "pulled" => effects'[Held(o)'] = 0
                      /\ reader'[o].pc # "pulled" /\ Held(o)' \notin Unroutable =>
                           effects'[Held(o)'] = 1 /\ Held(o)' \notin Range(ReplyLog(ReaderService[o])')
    BY DEF ReaderOwns, ReaderKey
  <2>1. \A p \in Readers : /\ Busy(p)' <=> Busy(p)
                           /\ reader'[p].id = reader[p].id
    BY <1>0, <1>5 DEF Busy
  <2>2. /\ Held(o)' = Held(o) /\ ReaderService[o] \in Services /\ Held(o) \in Requests
        /\ reader[o].id \in DOMAIN DBLog(ReaderService[o])
        /\ Held(o) = DBLog(ReaderService[o])[reader[o].id]
    BY <1>5, <2>1, HeldFacts DEF Held, ReaderKey
  <2>3. /\ reader'[o].id \in 1..stream'[ReaderKey(o)].cursor
        /\ \A other \in Readers \ {o} :
             Busy(other)' /\ ReaderService[other] = ReaderService[o]
               => reader'[other].id # reader'[o].id
    BY <1>5, <2>1 DEF ReaderOwns
  <2>4. CASE o = rd
    <3>1. Held(o)' = r BY <2>2, <2>4 DEF r
    <3>2. r \notin Range(ReplyLog(s))
      BY <1>1, <1>2, <1>7 DEF LogsHold, Range
    <3> QED BY <1>1, <1>4, <1>5, <1>7, <2>3, <2>4, <3>1, <3>2 DEF s
  <2>5. CASE o # rd
    <3>1. Held(o) = r => r \in Unroutable
      <4>1. ReaderService[o] = s => reader[o].id # reader[rd].id
        BY <1>0, <2>1, <2>5 DEF ReaderOwns, s
      <4>2. Held(o) = r => ReaderService[o] = s /\ (reader[o].id = reader[rd].id \/ r \in Unroutable)
        BY <1>9, <2>2
      <4> QED BY <4>1, <4>2
    <3>2. effects'[Held(o)] = effects[Held(o)] BY <1>4, <2>2, <3>1
    <3> QED BY <1>5, <1>7, <2>1, <2>2, <2>3, <2>5, <3>2 DEF ReaderOwns
  <2> QED BY <2>4, <2>5
<1>14. FrontOwns' BY <1>5, KeyFacts DEF FrontOwns, Reply
<1>15. AtMostOnce'
  BY <1>1, <1>4, <1>5, <1>7, ConstantsAssumption DEF AtMostOnce
<1> QED BY <1>6, <1>10, <1>11, <1>12, <1>13, <1>14, <1>15

\* A log with one more entry.
LEMMA AppendFacts ==
  ASSUME NEW st, StreamOK(st), NEW r \in Requests
  PROVE  /\ DOMAIN Append(st.log, r) = DOMAIN st.log \cup {Len(st.log) + 1}
         /\ Len(st.log) + 1 \notin DOMAIN st.log
         /\ \A i \in DOMAIN st.log : Append(st.log, r)[i] = st.log[i]
         /\ Append(st.log, r)[Len(st.log) + 1] = r
         /\ Len(st.log) + 1 > st.cursor
         /\ Range(Append(st.log, r)) = Range(st.log) \cup {r}
<1>1. /\ st.log \in Seq(Requests) /\ Len(st.log) \in Nat /\ DOMAIN st.log = 1..Len(st.log)
      /\ st.cursor \in 0..Len(st.log)
  BY IndexFacts
<1> DEFINE l == st.log
           m == Append(st.log, r)
<1>2. /\ DOMAIN m = 1..(Len(l) + 1)
      /\ \A i \in 1..Len(l) : m[i] = l[i]
      /\ m[Len(l) + 1] = r
  BY <1>1
<1>3. /\ DOMAIN m = DOMAIN l \cup {Len(l) + 1} /\ Len(l) + 1 \notin DOMAIN l
      /\ Len(l) + 1 > st.cursor
  BY <1>1, <1>2
<1> HIDE DEF m
<1>4. Range(m) = Range(l) \cup {r}
  <2>1. \A x \in Range(m) : x \in Range(l) \cup {r}
    BY <1>1, <1>2, <1>3 DEF Range
  <2>2. \A x \in Range(l) \cup {r} : x \in Range(m)
    BY <1>1, <1>2, <1>3 DEF Range
  <2> QED BY <2>1, <2>2
<1> QED BY <1>1, <1>2, <1>3, <1>4 DEF m

\* Delivering the reply in hand.
LEMMA PutPreserves ==
  ASSUME PipelineInv, NEW s \in Services, FrontPut(s)
  PROVE  PipelineInv'
<1> USE DEF PipelineInv
<1> DEFINE r == Reply(s)
<1>0. front[s].pc = "pulled" BY DEF FrontPut
<1>1. /\ front[s].id \in DOMAIN ReplyLog(s) /\ r = ReplyLog(s)[front[s].id]
      /\ r \in Requests /\ Service[r] = s /\ effects[r] = 1
  BY <1>0, ReplyFacts
<1>2. inbox[r] = 0 BY <1>0 DEF FrontOwns
<1>3. inbox' = [inbox EXCEPT ![r] = 1] BY <1>2 DEF FrontPut
<1>4. \A q \in Requests : inbox'[q] = IF q = r THEN 1 ELSE inbox[q]
  BY <1>1, <1>3 DEF TypeOK, ActorsOK
<1>5. PICK x : /\ front' = [front EXCEPT ![s] = x]
               /\ x = Idle \/ x = [front[s] EXCEPT !.pc = "put"]
  BY DEF FrontPut
<1>6. /\ x \in [pc : {"idle", "put"}, id : Nat]
      /\ x.pc = "put" => x.id = front[s].id
  BY <1>5 DEF TypeOK, ActorsOK, Idle
<1>7. \A t \in Services : front'[t] = IF t = s THEN x ELSE front[t]
  BY <1>5 DEF TypeOK, ActorsOK
<1>8. UNCHANGED <<stream, conns, sent, dbUp, reader, effects, mgr, faults>>
  BY DEF FrontPut
<1>9. TypeOK'
  <2>1. ActorsOK'
    <3>1. inbox' \in [Requests -> Nat] BY <1>1, <1>3 DEF TypeOK, ActorsOK
    <3>2. front' \in [Services -> [pc : {"idle", "pulled", "put", "dead"}, id : Nat]]
      BY <1>5, <1>6 DEF TypeOK, ActorsOK
    <3> QED BY <1>8, <3>1, <3>2 DEF TypeOK, ActorsOK
  <2>2. StreamsOK' /\ MgrOK' BY <1>8 DEF TypeOK, StreamsOK, MgrOK
  <2> QED BY <2>1, <2>2 DEF TypeOK
<1> HIDE DEF r
<1>10. \A t \in Services : /\ DBLog(t)' = DBLog(t) /\ ReplyLog(t)' = ReplyLog(t)
                           /\ ReplyKey(t) \in Keys /\ StreamOK(stream[ReplyKey(t)])
  BY <1>8, KeyFacts DEF DBLog, ReplyLog, TypeOK, StreamsOK
<1>11. \A t \in Services : \A i \in DOMAIN ReplyLog(t) : ReplyLog(t)[i] \in Requests
  <2> TAKE t \in Services
  <2> QED BY <1>10, IndexFacts DEF ReplyLog
<1>12. \A t \in Services : \A i \in DOMAIN ReplyLog(t) :
         ReplyLog(t)[i] = r => t = s /\ i = front[s].id
  <2>1. r \notin Unroutable BY <1>1 DEF AtMostOnce
  <2> QED BY <1>1, <1>10, <2>1 DEF LogsHold, RoutedOnce, ReplyLog
<1>13. RoutedOnce' /\ LogsHold' /\ ReaderOwns'
  BY <1>8 DEF RoutedOnce, LogsHold, ReaderOwns, DBLog, ReplyLog, Busy, Held, ReaderKey
<1>14. UnreadUntouched'
  <2>1. front[s].id \in 1..stream[ReplyKey(s)].cursor BY <1>0 DEF FrontOwns
  <2>2. stream[ReplyKey(s)].cursor \in Nat BY <1>10, IndexFacts
  <2>3. ~(front[s].id > stream[ReplyKey(s)].cursor) BY <2>1, <2>2
  <2> QED BY <1>4, <1>8, <1>10, <1>11, <1>12, <2>3 DEF UnreadUntouched
<1>15. FrontOwns'
  <2> SUFFICES ASSUME NEW t \in Services, front'[t].pc \in {"pulled", "put"}
               PROVE  /\ front'[t].id \in 1..stream'[ReplyKey(t)].cursor
                      /\ front'[t].pc = "pulled" => inbox'[Reply(t)'] = 0
    BY DEF FrontOwns
  <2>1. CASE t = s
    BY <1>0, <1>6, <1>7, <1>8, <2>1 DEF FrontOwns
  <2>2. CASE t # s
    <3>1. front'[t] = front[t] BY <1>7, <2>2
    <3>2. Reply(t)' = Reply(t) /\ Reply(t) \in Requests /\ Service[Reply(t)] = t
      BY <1>8, <3>1, ReplyFacts DEF Reply
    <3> QED BY <1>1, <1>4, <1>8, <2>2, <3>1, <3>2 DEF FrontOwns
  <2> QED BY <2>1, <2>2
<1>16. AtMostOnce'
  <2>1. r \in Range(ReplyLog(s)) BY <1>1 DEF Range
  <2> QED BY <1>1, <1>4, <1>8, <1>10, <2>1, ConstantsAssumption DEF AtMostOnce
<1> QED BY <1>9, <1>13, <1>14, <1>15, <1>16

\* A pull moves one cursor over entries nobody has touched.
LEMMA PullFacts ==
  ASSUME StreamsOK, NEW k \in Keys, NEW c \in Consumers, NEW i \in Unread(stream[k]),
         stream' = [stream EXCEPT ![k] = Xreadgroup(stream[k], i, c)]
  PROVE  /\ StreamsOK'
         /\ i \in DOMAIN stream[k].log /\ i \in Nat /\ i > stream[k].cursor
         /\ stream'[k].cursor = i
         /\ \A x \in Keys : /\ stream'[x].log = stream[x].log
                            /\ stream'[x].cursor >= stream[x].cursor
                            /\ stream[x].cursor \in Nat /\ stream'[x].cursor \in Nat
                            /\ DOMAIN stream[x].log \subseteq Nat
                            /\ x # k => stream'[x] = stream[x]
<1> DEFINE n == Xreadgroup(stream[k], i, c)
<1>1. StreamOK(stream[k]) BY DEF StreamsOK
<1>2. /\ i \in 1..Len(stream[k].log) /\ i > stream[k].cursor
      /\ StreamOK(n) /\ n.log = stream[k].log /\ n.cursor = i
  BY <1>1, XreadgroupFacts
<1> HIDE DEF n
<1>3. StreamsOK' /\ stream'[k] = n /\ \A x \in Keys \ {k} : stream'[x] = stream[x]
  BY <1>2, StreamUpdate DEF n
<1>4. \A x \in Keys : /\ stream[x].cursor \in Nat /\ DOMAIN stream[x].log \subseteq Nat
                      /\ stream[x].cursor >= stream[x].cursor
  <2> TAKE x \in Keys
  <2>1. StreamOK(stream[x]) BY DEF StreamsOK
  <2> QED BY <2>1, IndexFacts
<1>5. DOMAIN stream[k].log = 1..Len(stream[k].log) /\ Len(stream[k].log) \in Nat
  BY <1>1, IndexFacts
<1>6. i \in Nat /\ stream[k].cursor \in Nat /\ i >= stream[k].cursor
  BY <1>2, <1>4, <1>5
<1> QED BY <1>2, <1>3, <1>4, <1>5, <1>6

\* A reader's pull takes an entry no reader holds and no handler has executed.
LEMMA ReaderPullPreserves ==
  ASSUME PipelineInv, NEW rd \in Readers, ReaderPull(rd)
  PROVE  PipelineInv'
<1> USE DEF PipelineInv
<1> DEFINE s == ReaderService[rd]
           k == DBKey(s)
<1>0. s \in Services /\ k \in Keys /\ Gateman(s) \in Consumers /\ ReaderKey(rd) = k
  BY ConstantsAssumption, KeyFacts DEF ReaderKey
<1>1. PICK i \in Unread(stream[k]) :
        /\ stream' = [stream EXCEPT ![k] = Xreadgroup(stream[k], i, Gateman(s))]
        /\ reader' = [reader EXCEPT ![rd] = [pc |-> "pulled", id |-> i]]
  BY <1>0 DEF ReaderPull
<1>2. UNCHANGED <<conns, sent, dbUp, front, effects, inbox, mgr, faults>>
  BY DEF ReaderPull
<1> HIDE DEF s
<1>3. /\ StreamsOK'
      /\ i \in DOMAIN stream[k].log /\ i \in Nat /\ i > stream[k].cursor
      /\ stream'[k].cursor = i
      /\ \A x \in Keys : /\ stream'[x].log = stream[x].log
                         /\ stream'[x].cursor >= stream[x].cursor
                         /\ stream[x].cursor \in Nat /\ stream'[x].cursor \in Nat
                         /\ DOMAIN stream[x].log \subseteq Nat
  BY <1>0, <1>1, PullFacts DEF TypeOK
<1>4. \A o \in Readers : reader'[o] = IF o = rd THEN [pc |-> "pulled", id |-> i] ELSE reader[o]
  BY <1>1 DEF TypeOK, ActorsOK
<1>5. TypeOK'
  <2>1. reader' \in [Readers -> [pc : {"idle", "pulled", "handled", "acked", "dead"}, id : Nat]]
    BY <1>1, <1>3 DEF TypeOK, ActorsOK
  <2>2. ActorsOK' /\ MgrOK' BY <1>2, <2>1 DEF TypeOK, ActorsOK, MgrOK
  <2> QED BY <1>3, <2>2 DEF TypeOK
<1>6. \A t \in Services : /\ DBKey(t) \in Keys /\ ReplyKey(t) \in Keys
                          /\ DBLog(t)' = DBLog(t) /\ ReplyLog(t)' = ReplyLog(t)
  BY <1>3, KeyFacts DEF DBLog, ReplyLog
<1>7. RoutedOnce' /\ LogsHold' /\ AtMostOnce'
  BY <1>2, <1>3, <1>6, ConstantsAssumption DEF RoutedOnce, LogsHold, AtMostOnce
<1>8. UnreadUntouched'
  <2>1. \A x \in Keys : \A j \in DOMAIN stream[x].log : j > stream'[x].cursor => j > stream[x].cursor
    BY <1>3
  <2> QED BY <1>2, <1>6, <2>1 DEF UnreadUntouched, DBLog, ReplyLog
<1>9. ReaderOwns'
  <2> SUFFICES ASSUME NEW o \in Readers, Busy(o)'
               PROVE  /\ reader'[o].id \in 1..stream'[ReaderKey(o)].cursor
                      /\ \A other \in Readers \ {o} :
                           Busy(other)' /\ ReaderService[other] = ReaderService[o]
                             => reader'[other].id # reader'[o].id
                      /\ reader'[o].pc = "pulled" => effects'[Held(o)'] = 0
                      /\ reader'[o].pc # "pulled" /\ Held(o)' \notin Unroutable =>
                           effects'[Held(o)'] = 1 /\ Held(o)' \notin Range(ReplyLog(ReaderService[o])')
    BY DEF ReaderOwns, ReaderKey
  <2>1. \A p \in Readers \ {rd} : reader'[p] = reader[p] /\ (Busy(p)' <=> Busy(p))
    BY <1>4 DEF Busy
  <2>2. \A p \in Readers \ {rd} : Busy(p) /\ ReaderService[p] = s => reader[p].id # i
    <3> SUFFICES ASSUME NEW p \in Readers \ {rd}, Busy(p), ReaderService[p] = s
                 PROVE  reader[p].id # i
      OBVIOUS
    <3>1. reader[p].id \in 1..stream[k].cursor
      BY <1>0 DEF ReaderOwns, ReaderKey
    <3> QED BY <1>0, <1>3, <3>1
  <2>3. CASE o = rd
    <3>1. Held(o)' = DBLog(s)[i] /\ reader'[o].pc = "pulled" /\ reader'[o].id = i
      BY <1>0, <1>3, <1>4, <2>3 DEF Held, DBLog, ReaderKey, s
    <3>2. effects[DBLog(s)[i]] = 0
      BY <1>0, <1>3 DEF UnreadUntouched, DBLog
    <3>3. i \in 1..i /\ ReaderKey(o) = k
      <4>1. i > 0 BY <1>0, <1>3
      <4> QED BY <1>0, <1>3, <2>3, <4>1
    <3> QED BY <1>2, <1>3, <2>1, <2>2, <2>3, <3>1, <3>2, <3>3 DEF s
  <2>4. CASE o # rd
    <3>0. ReaderService[o] \in Services /\ reader'[o] = reader[o] /\ Busy(o)
      BY <2>1, <2>4, ConstantsAssumption
    <3>1. Held(o)' = Held(o)
      BY <1>6, <3>0 DEF Held, DBLog, ReaderKey
    <3>2. reader[o].id \in 1..stream[ReaderKey(o)].cursor
      BY <3>0 DEF ReaderOwns
    <3>3. reader'[o].id \in 1..stream'[ReaderKey(o)].cursor
      BY <1>3, <1>6, <3>0, <3>2 DEF ReaderKey
    <3>4. \A other \in Readers \ {o} :
            Busy(other)' /\ ReaderService[other] = ReaderService[o]
              => reader'[other].id # reader'[o].id
      BY <1>4, <2>1, <2>2, <2>4, <3>0 DEF ReaderOwns, s
    <3> QED BY <1>2, <1>6, <3>0, <3>1, <3>3, <3>4 DEF ReaderOwns
  <2> QED BY <2>3, <2>4
<1>10. FrontOwns'
  <2> SUFFICES ASSUME NEW t \in Services, front'[t].pc \in {"pulled", "put"}
               PROVE  /\ front'[t].id \in 1..stream'[ReplyKey(t)].cursor
                      /\ front'[t].pc = "pulled" => inbox'[Reply(t)'] = 0
    BY DEF FrontOwns
  <2>1. front[t].id \in 1..stream[ReplyKey(t)].cursor BY <1>2 DEF FrontOwns
  <2>2. Reply(t)' = Reply(t) BY <1>2, <1>6 DEF Reply, ReplyLog
  <2> QED BY <1>2, <1>3, <1>6, <2>1, <2>2 DEF FrontOwns
<1> QED BY <1>5, <1>7, <1>8, <1>9, <1>10

\* A front end's pull takes a reply nobody has delivered.
LEMMA FrontPullPreserves ==
  ASSUME PipelineInv, NEW s \in Services, FrontPull(s)
  PROVE  PipelineInv'
<1> USE DEF PipelineInv
<1> DEFINE k == ReplyKey(s)
<1>0. k \in Keys /\ FrontConsumer(s) \in Consumers
  BY KeyFacts
<1>1. PICK i \in Unread(stream[k]) :
        /\ stream' = [stream EXCEPT ![k] = Xreadgroup(stream[k], i, FrontConsumer(s))]
        /\ front' = [front EXCEPT ![s] = [pc |-> "pulled", id |-> i]]
  BY DEF FrontPull
<1>2. UNCHANGED <<conns, sent, dbUp, reader, effects, inbox, mgr, faults>>
  BY DEF FrontPull
<1>3. /\ StreamsOK'
      /\ i \in DOMAIN stream[k].log /\ i \in Nat /\ i > stream[k].cursor
      /\ stream'[k].cursor = i
      /\ \A x \in Keys : /\ stream'[x].log = stream[x].log
                         /\ stream'[x].cursor >= stream[x].cursor
                         /\ stream[x].cursor \in Nat /\ stream'[x].cursor \in Nat
                         /\ DOMAIN stream[x].log \subseteq Nat
  BY <1>0, <1>1, PullFacts DEF TypeOK
<1>4. \A t \in Services : front'[t] = IF t = s THEN [pc |-> "pulled", id |-> i] ELSE front[t]
  BY <1>1 DEF TypeOK, ActorsOK
<1>5. TypeOK'
  <2>1. front' \in [Services -> [pc : {"idle", "pulled", "put", "dead"}, id : Nat]]
    BY <1>1, <1>3 DEF TypeOK, ActorsOK
  <2>2. ActorsOK' /\ MgrOK' BY <1>2, <2>1 DEF TypeOK, ActorsOK, MgrOK
  <2> QED BY <1>3, <2>2 DEF TypeOK
<1>6. \A t \in Services : /\ DBKey(t) \in Keys /\ ReplyKey(t) \in Keys
                          /\ DBLog(t)' = DBLog(t) /\ ReplyLog(t)' = ReplyLog(t)
  BY <1>3, KeyFacts DEF DBLog, ReplyLog
<1>7. RoutedOnce' /\ LogsHold' /\ AtMostOnce'
  BY <1>2, <1>3, <1>6, ConstantsAssumption DEF RoutedOnce, LogsHold, AtMostOnce
<1>8. UnreadUntouched'
  <2>1. \A x \in Keys : \A j \in DOMAIN stream[x].log : j > stream'[x].cursor => j > stream[x].cursor
    BY <1>3
  <2> QED BY <1>2, <1>6, <2>1 DEF UnreadUntouched, DBLog, ReplyLog
<1>9. ReaderOwns'
  <2>1. \A t \in Services : stream'[DBKey(t)].cursor = stream[DBKey(t)].cursor
    BY <1>0, <1>1, KeyFacts, PullFacts DEF TypeOK
  <2>2. \A o \in Readers : ReaderService[o] \in Services /\ (Busy(o)' <=> Busy(o)) /\ Held(o)' = Held(o)
    BY <1>2, <1>6, ConstantsAssumption DEF Busy, Held, ReaderKey, DBLog
  <2> QED BY <1>2, <1>6, <2>1, <2>2 DEF ReaderOwns, ReaderKey
<1>10. FrontOwns'
  <2> SUFFICES ASSUME NEW t \in Services, front'[t].pc \in {"pulled", "put"}
               PROVE  /\ front'[t].id \in 1..stream'[ReplyKey(t)].cursor
                      /\ front'[t].pc = "pulled" => inbox'[Reply(t)'] = 0
    BY DEF FrontOwns
  <2>1. CASE t = s
    <3>1. Reply(t)' = ReplyLog(s)[i] /\ front'[t].id = i
      BY <1>0, <1>3, <1>4, <2>1 DEF Reply, ReplyLog
    <3>2. inbox[ReplyLog(s)[i]] = 0
      BY <1>0, <1>3 DEF UnreadUntouched, ReplyLog
    <3>3. i \in 1..i
      <4>1. i > 0 BY <1>0, <1>3
      <4> QED BY <1>3, <4>1
    <3> QED BY <1>2, <1>3, <2>1, <3>1, <3>2, <3>3
  <2>2. CASE t # s
    <3>1. front'[t] = front[t] BY <1>4, <2>2
    <3>2. front[t].id \in 1..stream[ReplyKey(t)].cursor BY <3>1 DEF FrontOwns
    <3>3. Reply(t)' = Reply(t) BY <1>6, <3>1 DEF Reply, ReplyLog
    <3> QED BY <1>2, <1>3, <1>6, <3>1, <3>2, <3>3 DEF FrontOwns
  <2> QED BY <2>1, <2>2
<1> QED BY <1>5, <1>7, <1>8, <1>9, <1>10

\* A push adds one entry past every cursor.
LEMMA PushFacts ==
  ASSUME StreamsOK, NEW k \in Keys, NEW r \in Requests, NEW j,
         stream' = [stream EXCEPT ![k] = Xadd(stream[k], r, j)]
  PROVE  \E n \in Nat :
           /\ StreamsOK'
           /\ \A x \in Keys : /\ stream'[x].cursor = stream[x].cursor
                              /\ x # k => stream'[x] = stream[x]
                              /\ 1..stream[x].cursor \subseteq DOMAIN stream[x].log
           /\ n \notin DOMAIN stream[k].log /\ n > stream[k].cursor
           /\ DOMAIN stream'[k].log = DOMAIN stream[k].log \cup {n}
           /\ stream'[k].log[n] = r
           /\ \A i \in DOMAIN stream[k].log : stream'[k].log[i] = stream[k].log[i]
           /\ Range(stream'[k].log) = Range(stream[k].log) \cup {r}
<1> DEFINE m == Xadd(stream[k], r, j)
           n == Len(stream[k].log) + 1
<1>1. StreamOK(stream[k]) BY DEF StreamsOK
<1>2. StreamOK(m) /\ m.log = Append(stream[k].log, r) /\ m.cursor = stream[k].cursor
  BY <1>1, XaddFacts
<1> HIDE DEF m
<1>3. StreamsOK' /\ stream'[k] = m /\ \A x \in Keys \ {k} : stream'[x] = stream[x]
  BY <1>2, StreamUpdate DEF m
<1>4. \A x \in Keys : 1..stream[x].cursor \subseteq DOMAIN stream[x].log
  BY IndexFacts DEF StreamsOK
<1>5. n \in Nat BY <1>1, IndexFacts
<1>6. /\ n \notin DOMAIN stream[k].log /\ n > stream[k].cursor
      /\ DOMAIN m.log = DOMAIN stream[k].log \cup {n} /\ m.log[n] = r
      /\ \A i \in DOMAIN stream[k].log : m.log[i] = stream[k].log[i]
      /\ Range(m.log) = Range(stream[k].log) \cup {r}
  BY <1>1, <1>2, AppendFacts
<1> HIDE DEF n
<1> QED BY <1>2, <1>3, <1>4, <1>5, <1>6

\* Pushing a request that was never pushed before.
LEMMA SendPreserves ==
  ASSUME PipelineInv, NEW r \in Requests, SendRequest(r)
  PROVE  PipelineInv'
<1> USE DEF PipelineInv
<1> DEFINE s == Service[r]
           k == DBKey(s)
<1>0. /\ s \in Services /\ k \in Keys
      /\ \A t \in Services : /\ DBKey(t) \in Keys /\ ReplyKey(t) \in Keys
                             /\ ReplyKey(t) # k /\ (t # s => DBKey(t) # k)
  BY ConstantsAssumption, KeyFacts
<1>1. PICK j : stream' = [stream EXCEPT ![k] = Xadd(stream[k], r, j)]
  BY DEF SendRequest
<1>2. /\ UNCHANGED <<conns, dbUp, reader, front, effects, inbox, mgr, faults>>
      /\ sent' = sent \cup {r} /\ r \notin sent
  BY DEF SendRequest
<1>3. PICK n \in Nat :
        /\ StreamsOK'
        /\ \A x \in Keys : /\ stream'[x].cursor = stream[x].cursor
                           /\ x # k => stream'[x] = stream[x]
                           /\ 1..stream[x].cursor \subseteq DOMAIN stream[x].log
        /\ n \notin DOMAIN stream[k].log /\ n > stream[k].cursor
        /\ DOMAIN stream'[k].log = DOMAIN stream[k].log \cup {n}
        /\ stream'[k].log[n] = r
        /\ \A i \in DOMAIN stream[k].log : stream'[k].log[i] = stream[k].log[i]
        /\ Range(stream'[k].log) = Range(stream[k].log) \cup {r}
  BY <1>0, <1>1, PushFacts DEF TypeOK
<1> HIDE DEF s, k
<1>4. TypeOK'
  <2>1. ActorsOK' /\ MgrOK' BY <1>2 DEF TypeOK, ActorsOK, MgrOK
  <2> QED BY <1>3, <2>1 DEF TypeOK
<1>5. \A t \in Services : /\ ReplyLog(t)' = ReplyLog(t) /\ (t # s => DBLog(t)' = DBLog(t))
  BY <1>0, <1>3 DEF DBLog, ReplyLog
<1>6. \A i \in DOMAIN stream[k].log : stream[k].log[i] # r
  BY <1>0, <1>2 DEF LogsHold, DBLog, k
<1>7. effects[r] = 0 BY <1>2 DEF AtMostOnce
<1>8. RoutedOnce'
  <2> SUFFICES ASSUME NEW x \in Keys, NEW i \in DOMAIN stream'[x].log, NEW l \in DOMAIN stream'[x].log,
                      i # l, stream'[x].log[i] = stream'[x].log[l]
               PROVE  stream'[x].log[i] \in Unroutable
    BY DEF RoutedOnce
  <2>1. CASE x # k BY <1>3, <2>1 DEF RoutedOnce
  <2>2. CASE x = k BY <1>3, <1>6, <2>2 DEF RoutedOnce
  <2> QED BY <2>1, <2>2
<1>9. \A t \in Services : \A i \in DOMAIN DBLog(t)' :
         \/ i \in DOMAIN DBLog(t) /\ DBLog(t)'[i] = DBLog(t)[i]
         \/ t = s /\ i = n /\ DBLog(t)'[i] = r
  BY <1>3, <1>5 DEF DBLog, k
<1>10. LogsHold'
  BY <1>2, <1>5, <1>9 DEF LogsHold, s
<1>11. UnreadUntouched'
  <2>1. \A t \in Services : /\ stream'[DBKey(t)].cursor = stream[DBKey(t)].cursor
                            /\ stream'[ReplyKey(t)].cursor = stream[ReplyKey(t)].cursor
    BY <1>0, <1>3
  <2> QED BY <1>2, <1>5, <1>7, <1>9, <2>1 DEF UnreadUntouched
<1>12. ReaderOwns'
  <2>1. \A o \in Readers : ReaderService[o] \in Services /\ ReaderKey(o) \in Keys
                           /\ (Busy(o)' <=> Busy(o))
    BY <1>0, <1>2, ConstantsAssumption DEF Busy, ReaderKey
  <2>2. \A o \in Readers : Busy(o) => reader[o].id \in DOMAIN stream[ReaderKey(o)].log
    BY <1>3, <2>1 DEF ReaderOwns
  <2>3. \A o \in Readers : Busy(o) => Held(o)' = Held(o)
    <3> SUFFICES ASSUME NEW o \in Readers, Busy(o) PROVE Held(o)' = Held(o)
      OBVIOUS
    <3>1. CASE ReaderKey(o) = k BY <1>2, <1>3, <2>2, <3>1 DEF Held, ReaderKey
    <3>2. CASE ReaderKey(o) # k BY <1>2, <1>3, <2>1, <3>2 DEF Held, ReaderKey
    <3> QED BY <3>1, <3>2
  <2> QED BY <1>2, <1>3, <1>5, <2>1, <2>3 DEF ReaderOwns, ReaderKey
<1>13. FrontOwns'
  BY <1>0, <1>2, <1>3 DEF FrontOwns, Reply
<1>14. AtMostOnce'
  <2>1. \A q \in Requests : ReplyLog(Service[q])' = ReplyLog(Service[q])
    BY <1>5, ConstantsAssumption
  <2> QED BY <1>2, <2>1 DEF AtMostOnce
<1> QED BY <1>4, <1>8, <1>10, <1>11, <1>12, <1>13, <1>14

\* Pushing the reply in hand, or putting an unroutable request back.
LEMMA ReaderPushPreserves ==
  ASSUME PipelineInv, NEW rd \in Readers, ReaderPush(rd)
  PROVE  PipelineInv'
<1> USE DEF PipelineInv
<1> DEFINE s == ReaderService[rd]
           r == Held(rd)
           k == NextService(rd)
<1>a. Busy(rd) /\ reader[rd].pc = "acked" BY DEF ReaderPush, Busy
<1>b. /\ s \in Services /\ ReaderKey(rd) = DBKey(s)
      /\ reader[rd].id \in DOMAIN DBLog(s) /\ r = DBLog(s)[reader[rd].id]
      /\ r \in Requests /\ r \in sent /\ Service[r] = s
  BY <1>a, HeldFacts
<1>c. /\ \A t \in Services : /\ DBKey(t) \in Keys /\ ReplyKey(t) \in Keys
                             /\ \A u \in Services : /\ DBKey(t) # ReplyKey(u)
                                                    /\ t # u => DBKey(t) # DBKey(u)
                                                    /\ t # u => ReplyKey(t) # ReplyKey(u)
  BY KeyFacts
<1>d. /\ r \in Unroutable => k = DBKey(s)
      /\ r \notin Unroutable => k = ReplyKey(s) /\ effects[r] = 1 /\ r \notin Range(ReplyLog(s))
  BY <1>a, <1>b DEF NextService, ReaderOwns
<1>1. PICK j : stream' = [stream EXCEPT ![k] = Xadd(stream[k], r, j)]
  BY DEF ReaderPush
<1>2. /\ UNCHANGED <<conns, sent, dbUp, front, effects, inbox, mgr, faults>>
      /\ reader' = [reader EXCEPT ![rd] = Idle]
  BY DEF ReaderPush
<1>e. k \in Keys BY <1>b, <1>c, <1>d
<1>3. PICK n \in Nat :
        /\ StreamsOK'
        /\ \A x \in Keys : /\ stream'[x].cursor = stream[x].cursor
                           /\ x # k => stream'[x] = stream[x]
                           /\ 1..stream[x].cursor \subseteq DOMAIN stream[x].log
        /\ n \notin DOMAIN stream[k].log /\ n > stream[k].cursor
        /\ DOMAIN stream'[k].log = DOMAIN stream[k].log \cup {n}
        /\ stream'[k].log[n] = r
        /\ \A i \in DOMAIN stream[k].log : stream'[k].log[i] = stream[k].log[i]
        /\ Range(stream'[k].log) = Range(stream[k].log) \cup {r}
  BY <1>b, <1>e, <1>1, PushFacts DEF TypeOK
<1> HIDE DEF s, k, r
<1>4. TypeOK'
  <2>1. reader' \in [Readers -> [pc : {"idle", "pulled", "handled", "acked", "dead"}, id : Nat]]
    BY <1>2 DEF TypeOK, ActorsOK, Idle
  <2>2. ActorsOK' /\ MgrOK' BY <1>2, <2>1 DEF TypeOK, ActorsOK, MgrOK
  <2> QED BY <1>3, <2>2 DEF TypeOK
<1>5. \A o \in Readers : /\ o # rd => reader'[o] = reader[o]
                         /\ Busy(o)' => o # rd /\ Busy(o)
  BY <1>2 DEF TypeOK, ActorsOK, Busy, Idle
<1>6. \A t \in Services : \A i \in DOMAIN DBLog(t)' :
         \/ i \in DOMAIN DBLog(t) /\ DBLog(t)'[i] = DBLog(t)[i]
         \/ r \in Unroutable /\ t = s /\ i = n /\ DBLog(t)'[i] = r
  BY <1>b, <1>c, <1>d, <1>3 DEF DBLog
<1>7. \A t \in Services : \A i \in DOMAIN ReplyLog(t)' :
         \/ i \in DOMAIN ReplyLog(t) /\ ReplyLog(t)'[i] = ReplyLog(t)[i]
         \/ r \notin Unroutable /\ t = s /\ i = n /\ ReplyLog(t)'[i] = r
  BY <1>b, <1>c, <1>d, <1>3 DEF ReplyLog
<1>8. RoutedOnce'
  <2> SUFFICES ASSUME NEW x \in Keys, NEW i \in DOMAIN stream'[x].log, NEW l \in DOMAIN stream'[x].log,
                      i # l, stream'[x].log[i] = stream'[x].log[l]
               PROVE  stream'[x].log[i] \in Unroutable
    BY DEF RoutedOnce
  <2>1. CASE x # k BY <1>3, <2>1 DEF RoutedOnce
  <2>2. CASE x = k
    <3>1. CASE r \in Unroutable BY <1>3, <2>2, <3>1 DEF RoutedOnce
    <3>2. CASE r \notin Unroutable
      <4>1. \A p \in DOMAIN stream[k].log : stream[k].log[p] # r
        BY <1>d, <3>2 DEF ReplyLog, Range
      <4> QED BY <1>3, <2>2, <4>1 DEF RoutedOnce
    <3> QED BY <3>1, <3>2
  <2> QED BY <2>1, <2>2
<1>9. LogsHold'
  BY <1>b, <1>d, <1>2, <1>6, <1>7 DEF LogsHold
<1>10. \A t \in Services : /\ stream'[DBKey(t)].cursor = stream[DBKey(t)].cursor
                           /\ stream'[ReplyKey(t)].cursor = stream[ReplyKey(t)].cursor
  BY <1>c, <1>3
<1>11. UnreadUntouched'
  <2>1. r \in Unroutable => effects[r] = 0 BY <1>b DEF AtMostOnce
  <2>2. r \notin Unroutable => inbox[r] = 0 BY <1>b, <1>d DEF AtMostOnce
  <2> QED BY <1>2, <1>6, <1>7, <1>10, <2>1, <2>2 DEF UnreadUntouched
<1>12. ReaderOwns'
  <2> SUFFICES ASSUME NEW o \in Readers, Busy(o)'
               PROVE  /\ reader'[o].id \in 1..stream'[ReaderKey(o)].cursor
                      /\ \A other \in Readers \ {o} :
                           Busy(other)' /\ ReaderService[other] = ReaderService[o]
                             => reader'[other].id # reader'[o].id
                      /\ reader'[o].pc = "pulled" => effects'[Held(o)'] = 0
                      /\ reader'[o].pc # "pulled" /\ Held(o)' \notin Unroutable =>
                           effects'[Held(o)'] = 1 /\ Held(o)' \notin Range(ReplyLog(ReaderService[o])')
    BY DEF ReaderOwns, ReaderKey
  <2>1. Busy(o) /\ o # rd /\ reader'[o] = reader[o] BY <1>5
  <2>2. /\ ReaderService[o] \in Services /\ ReaderKey(o) = DBKey(ReaderService[o])
        /\ reader[o].id \in DOMAIN DBLog(ReaderService[o])
        /\ Held(o) = DBLog(ReaderService[o])[reader[o].id]
    BY <2>1, HeldFacts
  <2>3. Held(o)' = Held(o)
    <3>1. DBKey(ReaderService[o]) \in Keys BY <1>c, <2>2
    <3>2. stream'[DBKey(ReaderService[o])].log[reader[o].id]
            = stream[DBKey(ReaderService[o])].log[reader[o].id]
      BY <1>3, <2>2, <3>1 DEF DBLog
    <3> QED BY <2>1, <2>2, <3>2 DEF Held, ReaderKey
  <2>4. /\ reader'[o].id \in 1..stream'[ReaderKey(o)].cursor
        /\ \A other \in Readers \ {o} :
             Busy(other)' /\ ReaderService[other] = ReaderService[o]
               => reader'[other].id # reader'[o].id
    BY <1>5, <1>10, <2>1, <2>2 DEF ReaderOwns
  <2>5. Held(o) \notin Unroutable => Held(o) # r
    <3>1. ReaderService[o] = s => reader[o].id # reader[rd].id
      BY <1>a, <2>1 DEF ReaderOwns, s
    <3>2. Held(o) = r => ReaderService[o] = s
      BY <1>b, <2>1, HeldFacts
    <3> QED BY <1>b, <1>c, <2>2, <3>1, <3>2 DEF RoutedOnce, DBLog
  <2>6. \A q \in Range(ReplyLog(ReaderService[o])') : q = r \/ q \in Range(ReplyLog(ReaderService[o]))
    BY <1>7, <2>2 DEF Range
  <2> QED BY <1>2, <2>1, <2>3, <2>4, <2>5, <2>6 DEF ReaderOwns
<1>13. FrontOwns'
  <2> SUFFICES ASSUME NEW t \in Services, front[t].pc \in {"pulled", "put"}
               PROVE  Reply(t)' = Reply(t)
    BY <1>2, <1>10 DEF FrontOwns
  <2>1. front[t].id \in DOMAIN ReplyLog(t) BY ReplyFacts
  <2>2. stream'[ReplyKey(t)].log[front[t].id] = stream[ReplyKey(t)].log[front[t].id]
    BY <1>c, <1>3, <2>1 DEF ReplyLog
  <2> QED BY <1>2, <2>2 DEF Reply
<1>14. AtMostOnce'
  <2>1. \A q \in Requests : q \in Range(ReplyLog(Service[q])) => q \in Range(ReplyLog(Service[q])')
    <3> SUFFICES ASSUME NEW t \in Services, NEW q \in Range(ReplyLog(t))
                 PROVE  q \in Range(ReplyLog(t)')
      BY ConstantsAssumption
    <3>1. ReplyKey(t) = k \/ stream'[ReplyKey(t)] = stream[ReplyKey(t)] BY <1>c, <1>3
    <3> QED BY <1>3, <3>1 DEF ReplyLog
  <2> QED BY <1>2, <2>1 DEF AtMostOnce
<1> QED BY <1>4, <1>8, <1>9, <1>11, <1>12, <1>13, <1>14

-----------------------------------------------------------------------------
(* The theorems. *)

\* Every step of the pipeline preserves the invariant.
LEMMA StepInv == PipelineInv /\ [Next]_vars => PipelineInv'
<1> SUFFICES ASSUME PipelineInv, [Next]_vars PROVE PipelineInv'
  OBVIOUS
<1>0. TypeOK BY DEF PipelineInv
<1>1. CASE \/ \E c \in Conns : Connect(c) \/ Close(c)
           \/ \E r \in Requests : SendFails(r)
           \/ DBStart \/ DBCrash
           \/ UNCHANGED vars
  BY <1>0, <1>1, QuietOutside, QuietPreserves
<1>2. ASSUME NEW r \in Requests, SendRequest(r) PROVE PipelineInv'
  BY <1>2, SendPreserves
<1>3. ASSUME NEW rd \in Readers, ReaderStep(rd) \/ ReaderThrows(rd) \/ ReaderPushFails(rd)
      PROVE PipelineInv'
  <2>1. CASE ReaderPull(rd) BY <2>1, ReaderPullPreserves
  <2>2. CASE ReaderHandle(rd) BY <2>2, HandlePreserves
  <2>3. CASE ReaderPush(rd) BY <2>3, ReaderPushPreserves
  <2>4. CASE ReaderAck(rd) \/ ReaderThrows(rd) \/ ReaderPushFails(rd)
    BY <1>0, <2>4, QuietReader, QuietPreserves
  <2> QED BY <1>3, <2>1, <2>2, <2>3, <2>4 DEF ReaderStep
<1>4. ASSUME NEW s \in Services, FrontStep(s) \/ FrontThrows(s) \/ FrontCrash(s)
      PROVE PipelineInv'
  <2>1. CASE FrontPull(s) BY <2>1, FrontPullPreserves
  <2>2. CASE FrontPut(s) BY <2>2, PutPreserves
  <2>3. CASE FrontAck(s) \/ FrontLost(s) \/ FrontThrows(s) \/ FrontCrash(s)
    BY <1>0, <2>3, QuietFront, QuietPreserves
  <2> QED BY <1>4, <2>1, <2>2, <2>3 DEF FrontStep
<1>5. CASE Manager \/ MgrCrash \/ Tick
  BY <1>0, <1>5, QuietManager, QuietPreserves
<1> QED BY <1>1, <1>2, <1>3, <1>4, <1>5 DEF Next

\* The inductive invariant holds in every reachable state.
THEOREM PipelineInvariant == Spec => []PipelineInv
<1>1. Init => PipelineInv BY InitInv
<1>2. PipelineInv /\ [Next]_vars => PipelineInv' BY StepInv
<1> QED BY <1>1, <1>2, PTL DEF Spec

\* Type correctness: every variable keeps its shape, a pending entry is always
\* one the group's cursor has passed (pull, claim and ack of RSBrokerHelper).
THEOREM TypeCorrect == Spec => []TypeOK
<1>1. PipelineInv => TypeOK BY DEF PipelineInv
<1> QED BY <1>1, PipelineInvariant, PTL

\* A request that a handler can route is in each stream at most once, for any
\* number of readers, crashes and transfers.
THEOREM RoutedAtMostOnce == Spec => []RoutedOnce
<1>1. PipelineInv => RoutedOnce BY DEF PipelineInv
<1> QED BY <1>1, PipelineInvariant, PTL

\* What each step of the pipeline is to a client: nothing, or exactly one of
\* sending, executing and delivering.
LEMMA StepRefines == PipelineInv /\ [Next]_vars => [RPC!Next]_RPC!vars
<1> SUFFICES ASSUME PipelineInv, [Next]_vars
             PROVE  \/ UNCHANGED <<sent, effects, inbox>>
                    \/ \E r \in Requests : RPC!Send(r) \/ RPC!Execute(r) \/ RPC!Deliver(r)
  BY DEF RPC!Next, RPC!vars
<1>1. ASSUME NEW r \in Requests, SendRequest(r) \/ SendFails(r) PROVE RPC!Send(r)
  BY <1>1 DEF SendRequest, SendFails, RPC!Send
<1>2. ASSUME NEW rd \in Readers, ReaderHandle(rd)
      PROVE  UNCHANGED <<sent, effects, inbox>> \/ \E r \in Requests : RPC!Execute(r)
  <2>1. Busy(rd) /\ reader[rd].pc = "pulled" BY <1>2 DEF ReaderHandle, Busy
  <2>2. Held(rd) \in Requests /\ Held(rd) \in sent BY <2>1, HeldFacts
  <2>3. effects[Held(rd)] = 0 BY <2>1 DEF PipelineInv, ReaderOwns
  <2>4. CASE Held(rd) \in Unroutable BY <1>2, <2>4 DEF ReaderHandle
  <2>5. CASE Held(rd) \notin Unroutable
    <3>1. effects' = [effects EXCEPT ![Held(rd)] = 1] BY <1>2, <2>3, <2>5 DEF ReaderHandle
    <3>2. RPC!Execute(Held(rd)) BY <1>2, <2>2, <2>3, <3>1 DEF ReaderHandle, RPC!Execute
    <3> QED BY <2>2, <3>2
  <2> QED BY <2>4, <2>5
<1>3. ASSUME NEW s \in Services, FrontPut(s) PROVE \E r \in Requests : RPC!Deliver(r)
  <2>1. front[s].pc = "pulled" BY <1>3 DEF FrontPut
  <2>2. Reply(s) \in Requests /\ effects[Reply(s)] = 1 BY <2>1, ReplyFacts
  <2>3. inbox[Reply(s)] = 0 BY <2>1 DEF PipelineInv, FrontOwns
  <2>4. inbox' = [inbox EXCEPT ![Reply(s)] = 1] BY <1>3, <2>3 DEF FrontPut
  <2>5. RPC!Deliver(Reply(s)) BY <1>3, <2>2, <2>3, <2>4 DEF FrontPut, RPC!Deliver
  <2> QED BY <2>2, <2>5
<1>4. ASSUME \/ \E c \in Conns : Connect(c) \/ Close(c)
             \/ DBStart \/ DBCrash
             \/ \E rd \in Readers : \/ ReaderPull(rd) \/ ReaderAck(rd) \/ ReaderPush(rd)
                                    \/ ReaderThrows(rd) \/ ReaderPushFails(rd)
             \/ \E s \in Services : \/ FrontPull(s) \/ FrontAck(s) \/ FrontLost(s)
                                    \/ FrontThrows(s) \/ FrontCrash(s)
             \/ Manager \/ MgrCrash \/ Tick
             \/ UNCHANGED vars
      PROVE  UNCHANGED <<sent, effects, inbox>>
  BY <1>4 DEF Connect, Close, DBStart, DBCrash, ReaderPull, ReaderAck, ReaderPush,
     ReaderThrows, ReaderPushFails, FrontPull, FrontAck, FrontLost, FrontThrows, FrontCrash,
     Manager, MgrScanGroups, MgrScanConsumers, MgrGetPending, MgrAckDeadLetter,
     MgrDelDeadLetter, MgrAckTooOld, MgrTransfer, MgrLeave, MgrCrash, Tick, vars
<1> QED BY <1>1, <1>2, <1>3, <1>4 DEF Next, ReaderStep, FrontStep

\* The pipeline implements RequestReply: whatever crashes, however the readers
\* of DBServGateman interleave and whatever RSBrokerManager claims or drops, a
\* request is executed at most once and answered at most once.
THEOREM Refinement == Spec => ImplementsRequestReply
<1>1. Init => RPC!Init BY DEF Init, RPC!Init
<1>2. PipelineInv /\ [Next]_vars => [RPC!Next]_RPC!vars BY StepRefines
<1> QED BY <1>1, <1>2, PipelineInvariant, PTL DEF Spec, ImplementsRequestReply, RPC!Spec
-----------------------------------------------------------------------------
(* What happens to unread entries, to the pending entry of an answered       *)
(* request, and to the pending entries the manager judges by a copy.         *)

\* A call other than XADD: the log stays, the cursor moves only forward, what
\* lies past it stays stored, and only an entry past it becomes pending.
Keeps(a, b) ==
  /\ b.log = a.log /\ b.cursor >= a.cursor
  /\ \A i \in a.live : i > b.cursor => i \in b.live
  /\ \A i \in DOMAIN b.pel : i \in DOMAIN a.pel \/ i > a.cursor

\* An XADD that trims as far as MAXLEN lets it.
Adds(a, b) == \E r \in Requests : \E j \in TrimPoints(a, MaxLen) : b = Xadd(a, r, j)

\* What the manager copied has been read: it was pending.
ItemsRead == \A it \in mgr.items : it.id <= stream[it.key].cursor

\* A reader that is about to push has taken its entry off the pending list.
AckedNotPending ==
  \A rd \in Readers : reader[rd].pc = "acked" => reader[rd].id \notin DOMAIN stream[ReaderKey(rd)].pel

\* The strengthening that makes the two properties inductive.
StreamInv == /\ PipelineInv /\ ItemsRead /\ AckedNotPending
             /\ AnsweredNotPending /\ UnreadLostOnlyByTrimming

-----------------------------------------------------------------------------
(* What a step does to each stream. *)

\* A stream that does not change keeps everything.
LEMMA KeepsSelf ==
  ASSUME NEW a, StreamOK(a)
  PROVE  Keeps(a, a)
BY IndexFacts DEF Keeps

\* One stream changes by one call.
LEMMA OneMoves ==
  ASSUME StreamsOK, NEW k \in Keys, NEW n, stream' = [stream EXCEPT ![k] = n],
         Keeps(stream[k], n) \/ Adds(stream[k], n)
  PROVE  \A x \in Keys : Keeps(stream[x], stream'[x]) \/ Adds(stream[x], stream'[x])
<1> TAKE x \in Keys
<1>1. StreamOK(stream[x]) BY DEF StreamsOK
<1>2. stream'[x] = IF x = k THEN n ELSE stream[x] BY DEF StreamsOK
<1> QED BY <1>1, <1>2, KeepsSelf

\* Acknowledging, deleting what was read, claiming and ageing keep the rest.
LEMMA CallsKeep ==
  ASSUME NEW a, StreamOK(a), NEW i
  PROVE  /\ Keeps(a, Xack(a, i))
         /\ i <= a.cursor => Keeps(a, Xdel(a, i))
         /\ \A c \in Consumers : Keeps(a, Xclaim(a, i, c, Transfer))
         /\ Keeps(a, Age(a, Tolerant + 1))
         /\ Keeps(a, XgroupCreate(a))
<1>0. /\ a.cursor \in Nat /\ a.cursor >= a.cursor
      /\ a.live \subseteq Nat
  BY IndexFacts DEF StreamOK, StreamFields
<1>1. Keeps(a, Xack(a, i)) BY <1>0, XackFacts DEF Keeps
<1>2. ASSUME i <= a.cursor PROVE Keeps(a, Xdel(a, i))
  <2>1. \A p \in a.live : p > a.cursor => p # i BY <1>0, <1>2
  <2> QED BY <1>0, <2>1, XdelFacts DEF Keeps
<1>3. ASSUME NEW c \in Consumers PROVE Keeps(a, Xclaim(a, i, c, Transfer))
  <2>1. Transfer \in Nat BY ConstantsAssumption
  <2> QED BY <1>0, <2>1, XclaimFacts DEF Keeps
<1>4. Keeps(a, Age(a, Tolerant + 1)) BY <1>0, AgeFacts DEF Keeps
<1>5. Keeps(a, XgroupCreate(a)) BY <1>0, XgroupCreateFacts DEF Keeps
<1> QED BY <1>1, <1>2, <1>3, <1>4, <1>5

\* Reading makes one entry past the cursor pending.
LEMMA ReadKeeps ==
  ASSUME NEW a, StreamOK(a), NEW c \in Consumers, NEW i \in Unread(a)
  PROVE  Keeps(a, Xreadgroup(a, i, c))
<1>1. a.cursor \in Nat /\ i \in Nat /\ i > a.cursor BY XreadgroupFacts, IndexFacts
<1> QED BY <1>1, XreadgroupFacts DEF Keeps

\* Every step keeps each stream or adds to it.
LEMMA StreamMoves ==
  ASSUME PipelineInv, ItemsRead, [Next]_vars
  PROVE  \A k \in Keys : Keeps(stream[k], stream'[k]) \/ Adds(stream[k], stream'[k])
<1> DEFINE Goal == \A k \in Keys : Keeps(stream[k], stream'[k]) \/ Adds(stream[k], stream'[k])
<1>0. TypeOK /\ StreamsOK /\ \A k \in Keys : StreamOK(stream[k]) /\ Keeps(stream[k], stream[k])
  BY KeepsSelf DEF PipelineInv, TypeOK, StreamsOK
<1>1. ASSUME stream' = stream PROVE Goal BY <1>0, <1>1
<1>2. ASSUME NEW r \in Requests, SendRequest(r) PROVE Goal
  <2>1. DBKey(Service[r]) \in Keys BY ConstantsAssumption, KeyFacts
  <2>2. PICK j \in TrimPoints(stream[DBKey(Service[r])], MaxLen) :
          stream' = [stream EXCEPT ![DBKey(Service[r])] = Xadd(stream[DBKey(Service[r])], r, j)]
    BY <1>2 DEF SendRequest
  <2>3. Adds(stream[DBKey(Service[r])], Xadd(stream[DBKey(Service[r])], r, j)) BY DEF Adds
  <2> QED BY <1>0, <2>1, <2>2, <2>3, OneMoves
<1>3. ASSUME DBStart PROVE Goal
  <2>1. \A k \in Keys : stream'[k] = XgroupCreate(stream[k]) \/ stream'[k] = stream[k]
    BY <1>3 DEF DBStart
  <2> QED BY <1>0, <2>1, CallsKeep
<1>4. ASSUME NEW rd \in Readers, ReaderStep(rd) PROVE Goal
  <2>0. /\ ReaderKey(rd) \in Keys /\ Gateman(ReaderService[rd]) \in Consumers
        /\ ReplyKey(ReaderService[rd]) \in Keys
    BY ConstantsAssumption, KeyFacts DEF ReaderKey
  <2>1. CASE ReaderPull(rd)
    <3>1. PICK i \in Unread(stream[ReaderKey(rd)]) :
            stream' = [stream EXCEPT ![ReaderKey(rd)] =
                         Xreadgroup(stream[ReaderKey(rd)], i, Gateman(ReaderService[rd]))]
      BY <2>1 DEF ReaderPull
    <3>2. Keeps(stream[ReaderKey(rd)],
                Xreadgroup(stream[ReaderKey(rd)], i, Gateman(ReaderService[rd])))
      BY <1>0, <2>0, ReadKeeps
    <3> QED BY <1>0, <2>0, <3>1, <3>2, OneMoves
  <2>2. CASE ReaderHandle(rd) BY <1>1, <2>2 DEF ReaderHandle
  <2>3. CASE ReaderAck(rd)
    <3>1. Keeps(stream[ReaderKey(rd)], Xack(stream[ReaderKey(rd)], reader[rd].id))
      BY <1>0, <2>0, CallsKeep
    <3> QED BY <1>0, <2>0, <2>3, <3>1, OneMoves DEF ReaderAck
  <2>4. CASE ReaderPush(rd)
    <3>1. Busy(rd) BY <2>4 DEF ReaderPush, Busy
    <3>2. Held(rd) \in Requests BY <3>1, HeldFacts
    <3>3. NextService(rd) \in Keys BY <2>0 DEF NextService
    <3>4. PICK j \in TrimPoints(stream[NextService(rd)], MaxLen) :
            stream' = [stream EXCEPT ![NextService(rd)] = Xadd(stream[NextService(rd)], Held(rd), j)]
      BY <2>4 DEF ReaderPush
    <3>5. Adds(stream[NextService(rd)], Xadd(stream[NextService(rd)], Held(rd), j))
      BY <3>2 DEF Adds
    <3> QED BY <1>0, <3>3, <3>4, <3>5, OneMoves
  <2> QED BY <1>4, <2>1, <2>2, <2>3, <2>4 DEF ReaderStep
<1>5. ASSUME NEW s \in Services, FrontStep(s) PROVE Goal
  <2>0. ReplyKey(s) \in Keys /\ FrontConsumer(s) \in Consumers /\ "LOGIN" \in Keys
    BY KeyFacts DEF Keys
  <2>1. CASE FrontPull(s)
    <3>1. PICK i \in Unread(stream[ReplyKey(s)]) :
            stream' = [stream EXCEPT ![ReplyKey(s)] =
                         Xreadgroup(stream[ReplyKey(s)], i, FrontConsumer(s))]
      BY <2>1 DEF FrontPull
    <3>2. Keeps(stream[ReplyKey(s)], Xreadgroup(stream[ReplyKey(s)], i, FrontConsumer(s)))
      BY <1>0, <2>0, ReadKeeps
    <3> QED BY <1>0, <2>0, <3>1, <3>2, OneMoves
  <2>2. CASE FrontPut(s) BY <1>1, <2>2 DEF FrontPut
  <2>3. CASE FrontAck(s)
    <3>1. Keeps(stream[ReplyKey(s)], Xack(stream[ReplyKey(s)], front[s].id))
      BY <1>0, <2>0, CallsKeep
    <3> QED BY <1>0, <2>0, <2>3, <3>1, OneMoves DEF FrontAck
  <2>4. CASE FrontLost(s)
    <3>1. CASE s = "login"
      <4>1. ReplyKey(s) = "LOGIN" BY <3>1 DEF ReplyKey
      <4>2. front[s].id \in 1..stream["LOGIN"].cursor /\ stream["LOGIN"].cursor \in Nat
        BY <1>0, <2>0, <2>4, <4>1, IndexFacts DEF PipelineInv, FrontOwns, FrontLost
      <4>3. Keeps(stream["LOGIN"], Xdel(stream["LOGIN"], front[s].id))
        BY <1>0, <2>0, <4>2, CallsKeep
      <4> QED BY <1>0, <2>0, <2>4, <3>1, <4>3, OneMoves DEF FrontLost
    <3>2. CASE s # "login" BY <1>1, <2>4, <3>2 DEF FrontLost
    <3> QED BY <3>1, <3>2
  <2> QED BY <1>5, <2>1, <2>2, <2>3, <2>4 DEF FrontStep
<1>6. ASSUME Manager PROVE Goal
  <2>0. \A it \in NextItem : /\ it.key \in Keys /\ StreamOK(stream[it.key])
                             /\ it.id <= stream[it.key].cursor
    BY <1>0 DEF NextItem, TypeOK, MgrOK, PendingItem, StreamsOK, ItemsRead
  <2>1. CASE stream' = stream BY <1>1, <2>1
  <2>2. CASE MgrAckDeadLetter
    <3>1. PICK it \in NextItem : stream' = [stream EXCEPT ![it.key] = Xack(stream[it.key], it.id)]
      BY <2>2 DEF MgrAckDeadLetter
    <3>2. Keeps(stream[it.key], Xack(stream[it.key], it.id)) BY <2>0, CallsKeep
    <3> QED BY <1>0, <2>0, <3>1, <3>2, OneMoves
  <2>5. CASE MgrDelDeadLetter
    <3>1. PICK it \in NextItem : stream' = [stream EXCEPT ![it.key] = Xdel(stream[it.key], it.id)]
      BY <2>5 DEF MgrDelDeadLetter
    <3>2. Keeps(stream[it.key], Xdel(stream[it.key], it.id)) BY <2>0, CallsKeep
    <3> QED BY <1>0, <2>0, <3>1, <3>2, OneMoves
  <2>3. CASE MgrAckTooOld
    <3>1. PICK it \in NextItem : stream' = [stream EXCEPT ![it.key] = Xack(stream[it.key], it.id)]
      BY <2>3 DEF MgrAckTooOld
    <3>2. Keeps(stream[it.key], Xack(stream[it.key], it.id)) BY <2>0, CallsKeep
    <3> QED BY <1>0, <2>0, <3>1, <3>2, OneMoves
  <2>4. CASE MgrTransfer
    <3>1. PICK it \in NextItem : \E c \in Siblings(it) :
            stream' = [stream EXCEPT ![it.key] = Xclaim(stream[it.key], it.id, c, Transfer)]
      BY <2>4 DEF MgrTransfer
    <3>2. PICK c \in Siblings(it) :
            stream' = [stream EXCEPT ![it.key] = Xclaim(stream[it.key], it.id, c, Transfer)]
      BY <3>1
    <3>3. c \in Consumers
      <4>1. GroupName(it.key) \in GroupNames BY <2>0 DEF GroupName, GroupNames, Keys
      <4> QED BY <1>0, <4>1 DEF Siblings, TypeOK, MgrOK
    <3>4. Keeps(stream[it.key], Xclaim(stream[it.key], it.id, c, Transfer))
      BY <2>0, <3>3, CallsKeep
    <3> QED BY <1>0, <2>0, <3>2, <3>4, OneMoves
  <2> QED BY <1>6, <2>1, <2>2, <2>3, <2>4, <2>5
          DEF Manager, MgrScanGroups, MgrScanConsumers, MgrGetPending, MgrLeave
<1>7. ASSUME Tick PROVE Goal
  <2>1. \A k \in Keys : stream'[k] = Age(stream[k], Tolerant + 1) \/ stream'[k] = stream[k]
    BY <1>7 DEF Tick
  <2> QED BY <1>0, <2>1, CallsKeep
<1>8. CASE Next
  BY <1>1, <1>2, <1>3, <1>4, <1>5, <1>6, <1>7, <1>8
     DEF Next, Connect, Close, SendFails, DBCrash, ReaderThrows, ReaderPushFails,
         FrontThrows, FrontCrash, MgrCrash
<1>9. CASE UNCHANGED vars BY <1>1, <1>9 DEF vars
<1> QED BY <1>8, <1>9

-----------------------------------------------------------------------------
(* Unread entries. *)

\* The entries of a stream past an ID are not more than the IDs past it.
LEMMA StoredPast ==
  ASSUME NEW a, StreamOK(a), NEW j \in 0..Len(a.log)
  PROVE  Cardinality({i \in a.live : i > j}) <= Len(a.log) - j
<1>1. Len(a.log) \in Nat /\ j \in Int /\ j + 1 \in Int /\ Len(a.log) \in Int
  BY IndexFacts
<1> DEFINE S == (j + 1)..Len(a.log)
           T == {i \in a.live : i > j}
<1>2. T \in SUBSET S
  BY <1>1 DEF StreamOK, StreamFields
<1>3. IsFiniteSet(S) /\ Cardinality(S) = IF j + 1 > Len(a.log) THEN 0 ELSE Len(a.log) - (j + 1) + 1
  BY <1>1, FS_Interval
<1>4. Cardinality(S) = Len(a.log) - j BY <1>1, <1>3
<1> HIDE DEF S, T
<1>5. Cardinality(T) <= Cardinality(S) BY <1>2, <1>3, FS_Subset
<1>6. Cardinality(T) <= Len(a.log) - j BY <1>4, <1>5
<1> QED BY <1>6 DEF T

\* What UnreadLostOnlyByTrimming says of one stream.
UnreadStored(a) ==
  \A i \in 1..Len(a.log) : i > a.cursor /\ i \notin a.live => Len(a.log) - i >= MaxLen

\* XADD trims an unread entry only if at least MAXLEN newer ones were added.
LEMMA AddsStored ==
  ASSUME NEW a, StreamOK(a), UnreadStored(a), NEW b, Adds(a, b)
  PROVE  UnreadStored(b)
<1>1. PICK r \in Requests : \E j \in TrimPoints(a, MaxLen) : b = Xadd(a, r, j) BY DEF Adds
<1>2. PICK j \in TrimPoints(a, MaxLen) : b = Xadd(a, r, j) BY <1>1
<1>3. /\ b.log = Append(a.log, r) /\ b.cursor = a.cursor
      /\ b.live = {i \in a.live \cup {Len(a.log) + 1} : i > j}
  BY <1>2, XaddFacts
<1>4. /\ Len(a.log) \in Nat /\ a.cursor \in Nat /\ MaxLen \in Nat
      /\ Len(b.log) = Len(a.log) + 1 /\ j \in 0..Len(a.log)
  BY <1>3, IndexFacts, ConstantsAssumption DEF TrimPoints
<1> DEFINE past == Cardinality({i \in a.live : i > j})
<1>5. j = 0 \/ past + 1 >= MaxLen BY DEF TrimPoints
<1>6. past <= Len(a.log) - j BY <1>4, StoredPast
<1>7. past \in Nat
  <2>1. {i \in a.live : i > j} \in SUBSET (1..Len(a.log))
    BY DEF StreamOK, StreamFields
  <2>2. IsFiniteSet(1..Len(a.log)) BY <1>4, FS_Interval
  <2>3. IsFiniteSet({i \in a.live : i > j}) BY <2>1, <2>2, FS_Subset
  <2> QED BY <2>3, FS_CardinalityType
<1> HIDE DEF past
<1> SUFFICES ASSUME NEW i \in 1..Len(b.log), i > b.cursor, i \notin b.live
             PROVE  Len(b.log) - i >= MaxLen
  BY DEF UnreadStored
<1>8. i \in 1..Len(a.log)
  <2>1. Len(a.log) + 1 \in b.live BY <1>3, <1>4
  <2> QED BY <1>4, <2>1
<1>9. CASE i \notin a.live
  <2>1. Len(a.log) - i >= MaxLen BY <1>3, <1>8, <1>9 DEF UnreadStored
  <2> QED BY <1>4, <1>8, <2>1
<1>10. CASE i \in a.live
  <2>1. i <= j BY <1>3, <1>4, <1>8, <1>10
  <2> QED BY <1>4, <1>5, <1>6, <1>7, <1>8, <2>1
<1> QED BY <1>9, <1>10

\* Every other call loses no unread entry.
LEMMA KeepsStored ==
  ASSUME NEW a, StreamOK(a), UnreadStored(a), NEW b, StreamOK(b), Keeps(a, b)
  PROVE  UnreadStored(b)
<1>1. a.cursor \in Nat /\ b.cursor \in Nat /\ b.log = a.log /\ b.cursor >= a.cursor
      /\ Len(a.log) \in Nat
  BY IndexFacts DEF Keeps
<1> QED BY <1>1 DEF Keeps, UnreadStored

-----------------------------------------------------------------------------
(* The pending list. *)

\* The manager's copies only grow fewer, until it asks Redis again.
LEMMA ItemsMove ==
  ASSUME TypeOK, [Next]_vars
  PROVE  mgr'.items \subseteq mgr.items \/ MgrGetPending
<1>0. TypeOK OBVIOUS
<1>1. CASE UNCHANGED mgr BY <1>1
<1>2. CASE MgrScanGroups BY <1>2 DEF MgrScanGroups
<1>3. CASE MgrScanConsumers
  <2> DEFINE k == Front(mgr.groups)
             new == mgr.consumers \cup PendingConsumers(k)
             sib2 == [mgr.sib EXCEPT ![GroupName(k)] = @ \cup stream[k].members]
  <2>1. mgr' = [mgr EXCEPT !.groups = mgr.groups \ {k}, !.consumers = new, !.sib = sib2]
    BY <1>3 DEF MgrScanConsumers
  <2> HIDE DEF k, new, sib2
  <2> QED BY <1>0, <2>1 DEF TypeOK, MgrOK
<1>4. ASSUME NEW it, MgrDone(it) PROVE mgr'.items \subseteq mgr.items
  <2>1. CASE mgr' = Napping BY <2>1 DEF Napping
  <2>2. CASE mgr' = [mgr EXCEPT !.items = mgr.items \ {it}, !.acked = FALSE]
    BY <1>0, <2>2 DEF TypeOK, MgrOK
  <2> QED BY <1>4, <2>1, <2>2 DEF MgrDone
<1>5. CASE MgrDelDeadLetter \/ MgrAckTooOld \/ MgrTransfer \/ MgrLeave
  BY <1>4, <1>5 DEF MgrDelDeadLetter, MgrAckTooOld, MgrTransfer, MgrLeave
<1>7. CASE MgrAckDeadLetter BY <1>0, <1>7 DEF MgrAckDeadLetter, TypeOK, MgrOK
<1>6. CASE MgrCrash BY <1>6 DEF MgrCrash, Napping
<1> QED BY <1>1, <1>2, <1>3, <1>5, <1>6, <1>7
        DEF Next, Manager, vars, Connect, Close, SendRequest, SendFails, DBStart, DBCrash,
            ReaderStep, ReaderPull, ReaderHandle, ReaderAck, ReaderPush, ReaderThrows,
            ReaderPushFails, FrontStep, FrontPull, FrontPut, FrontAck, FrontLost,
            FrontThrows, FrontCrash, Tick

\* The manager's copies stay behind the cursor.
LEMMA ItemsReadStep ==
  ASSUME PipelineInv, ItemsRead, [Next]_vars, PipelineInv',
         \A k \in Keys : Keeps(stream[k], stream'[k]) \/ Adds(stream[k], stream'[k])
  PROVE  ItemsRead'
<1>0. TypeOK /\ TypeOK' /\ \A k \in Keys : StreamOK(stream[k]) /\ StreamOK(stream'[k])
  BY DEF PipelineInv, TypeOK, StreamsOK
<1>1. \A k \in Keys : /\ stream'[k].cursor >= stream[k].cursor
                      /\ stream[k].cursor \in Nat /\ stream'[k].cursor \in Nat
  <2> TAKE k \in Keys
  <2>1. stream[k].cursor \in Nat /\ stream'[k].cursor \in Nat BY <1>0, IndexFacts
  <2>2. CASE Keeps(stream[k], stream'[k]) BY <2>1, <2>2 DEF Keeps
  <2>3. CASE Adds(stream[k], stream'[k])
    <3>1. stream'[k].cursor = stream[k].cursor BY <1>0, <2>3, XaddFacts DEF Adds
    <3> QED BY <2>1, <3>1
  <2> QED BY <2>1, <2>2, <2>3
<1>2. \A it \in mgr.items : it.key \in Keys /\ it.id \in Nat
  BY <1>0 DEF TypeOK, MgrOK, PendingItem
<1>3. CASE mgr'.items \subseteq mgr.items
  BY <1>1, <1>2, <1>3 DEF ItemsRead
<1>4. CASE MgrGetPending
  <2> DEFINE q == Front(mgr.consumers)
  <2>1. q.key \in Keys BY <1>0, <1>4 DEF MgrGetPending, Front, TypeOK, MgrOK
  <2>2. mgr'.items = {[key |-> q.key, id |-> i, c |-> q.c,
                       idle |-> stream[q.key].pel[i].idle,
                       cnt |-> stream[q.key].pel[i].cnt] :
                        i \in Smallest(PendingOf(q.key, q.c), q.num)}
    BY <1>0, <1>4 DEF MgrGetPending, TypeOK, MgrOK
  <2>3. \A i \in Smallest(PendingOf(q.key, q.c), q.num) : i \in 1..stream[q.key].cursor
    BY <1>0, <2>1, IndexFacts DEF Smallest, PendingOf
  <2>4. stream' = stream BY <1>4 DEF MgrGetPending
  <2> HIDE DEF q
  <2> QED BY <1>1, <2>1, <2>2, <2>3, <2>4 DEF ItemsRead
<1>5. mgr'.items \subseteq mgr.items \/ MgrGetPending BY <1>0, ItemsMove
<1> QED BY <1>3, <1>4, <1>5

\* Only an unread entry becomes pending.
LEMMA PendingGrows ==
  ASSUME NEW a, StreamOK(a), NEW b, Keeps(a, b) \/ Adds(a, b)
  PROVE  /\ \A i \in DOMAIN b.pel : i \in DOMAIN a.pel \/ (b.log = a.log /\ i > a.cursor)
         /\ \A i \in DOMAIN a.log : i \in DOMAIN b.log /\ b.log[i] = a.log[i]
<1>1. CASE Keeps(a, b) BY <1>1 DEF Keeps
<1>2. CASE Adds(a, b)
  <2>1. PICK r \in Requests : \E j \in TrimPoints(a, MaxLen) : b = Xadd(a, r, j)
    BY <1>2 DEF Adds
  <2>2. b.pel = a.pel /\ b.log = Append(a.log, r) BY <2>1, XaddFacts
  <2> QED BY <2>2, AppendFacts
<1> QED BY <1>1, <1>2

\* An acknowledged entry does not become pending again.
LEMMA AckedStep ==
  ASSUME PipelineInv, AckedNotPending, [Next]_vars,
         \A k \in Keys : Keeps(stream[k], stream'[k]) \/ Adds(stream[k], stream'[k])
  PROVE  AckedNotPending'
<1>0. TypeOK /\ \A k \in Keys : StreamOK(stream[k])
  BY DEF PipelineInv, TypeOK, StreamsOK
<1> SUFFICES ASSUME NEW rd \in Readers, reader'[rd].pc = "acked"
             PROVE  reader'[rd].id \notin DOMAIN stream'[ReaderKey(rd)].pel
  BY DEF AckedNotPending, ReaderKey
<1>1. ReaderKey(rd) \in Keys BY ConstantsAssumption, KeyFacts DEF ReaderKey
<1>2. CASE reader'[rd] = reader[rd]
  <2>1. Busy(rd) BY <1>2 DEF Busy
  <2>2. reader[rd].id \in 1..stream[ReaderKey(rd)].cursor /\ stream[ReaderKey(rd)].cursor \in Nat
    BY <1>0, <1>1, <2>1, IndexFacts DEF PipelineInv, ReaderOwns
  <2>3. reader[rd].id \notin DOMAIN stream[ReaderKey(rd)].pel BY <1>2 DEF AckedNotPending
  <2>4. ~(reader[rd].id > stream[ReaderKey(rd)].cursor) BY <2>2
  <2> QED BY <1>0, <1>1, <1>2, <2>3, <2>4, PendingGrows
<1>3. CASE ReaderAck(rd)
  <2>1. reader'[rd].id = reader[rd].id
    BY <1>0, <1>3 DEF ReaderAck, Idle, TypeOK, ActorsOK
  <2>2. stream'[ReaderKey(rd)] = Xack(stream[ReaderKey(rd)], reader[rd].id)
    BY <1>0, <1>1, <1>3 DEF ReaderAck, TypeOK, StreamsOK
  <2> QED BY <1>0, <1>1, <2>1, <2>2, XackFacts
<1>4. reader'[rd] = reader[rd] \/ ReaderAck(rd)
  <2>1. ASSUME NEW o \in Readers, ReaderStep(o) \/ ReaderThrows(o) \/ ReaderPushFails(o)
        PROVE  reader'[rd] = reader[rd] \/ ReaderAck(rd)
    <3>1. CASE ReaderAck(o)
      BY <1>0, <3>1 DEF ReaderAck, TypeOK, ActorsOK
    <3>2. CASE ~ReaderAck(o)
      <4>1. /\ rd # o => reader'[rd] = reader[rd]
            /\ rd = o => reader'[rd].pc # "acked"
        <5>1. /\ reader = [x \in Readers |-> reader[x]]
              /\ reader[o] \in [pc : {"idle", "pulled", "handled", "acked", "dead"}, id : Nat]
          BY <1>0 DEF TypeOK, ActorsOK
        <5>2. CASE ReaderPull(o) BY <5>1, <5>2 DEF ReaderPull
        <5>3. CASE ReaderHandle(o) BY <5>1, <5>3 DEF ReaderHandle
        <5>4. CASE ReaderPush(o) \/ ReaderPushFails(o)
          BY <5>1, <5>4 DEF ReaderPush, ReaderPushFails, Idle
        <5>5. CASE ReaderThrows(o) BY <5>1, <5>5 DEF ReaderThrows
        <5> QED BY <2>1, <3>2, <5>2, <5>3, <5>4, <5>5 DEF ReaderStep
      <4> QED BY <4>1
    <3> QED BY <3>1, <3>2
  <2>2. CASE UNCHANGED reader BY <2>2
  <2>3. CASE DBCrash BY <2>3 DEF DBCrash, Idle
  <2> QED BY <2>1, <2>2, <2>3
          DEF Next, Manager, vars, Connect, Close, SendRequest, SendFails, DBStart,
              FrontStep, FrontPull, FrontPut, FrontAck, FrontLost, FrontThrows, FrontCrash,
              MgrScanGroups, MgrScanConsumers, MgrGetPending, MgrAckDeadLetter,
              MgrDelDeadLetter, MgrAckTooOld, MgrTransfer, MgrLeave, MgrCrash, Tick
<1> QED BY <1>2, <1>3, <1>4

\* A pushed reply belongs to a request that left the pending list before, and a
\* request that is read now has no reply.
LEMMA AnsweredStep ==
  ASSUME PipelineInv, AckedNotPending, AnsweredNotPending, [Next]_vars,
         \A k \in Keys : Keeps(stream[k], stream'[k]) \/ Adds(stream[k], stream'[k])
  PROVE  AnsweredNotPending'
<1>0. TypeOK /\ StreamsOK /\ \A k \in Keys : StreamOK(stream[k])
  BY DEF PipelineInv, TypeOK, StreamsOK
<1> SUFFICES ASSUME NEW s \in Services, NEW i \in DOMAIN stream'[DBKey(s)].pel
             PROVE  DBLog(s)'[i] \notin Range(ReplyLog(s)')
  BY DEF AnsweredNotPending, DBLog, ReplyLog
<1>1. DBKey(s) \in Keys /\ ReplyKey(s) \in Keys BY KeyFacts
<1>2. /\ i \in DOMAIN DBLog(s) /\ DBLog(s)'[i] = DBLog(s)[i]
      /\ i \in DOMAIN stream[DBKey(s)].pel \/ i > stream[DBKey(s)].cursor
  <2>1. i \in DOMAIN stream[DBKey(s)].pel
          \/ (stream'[DBKey(s)].log = stream[DBKey(s)].log /\ i > stream[DBKey(s)].cursor)
    BY <1>0, <1>1, PendingGrows
  <2>2. i \in DOMAIN DBLog(s)
    <3>1. CASE i \in DOMAIN stream[DBKey(s)].pel BY <1>0, <1>1, <3>1, IndexFacts DEF DBLog
    <3>2. CASE stream'[DBKey(s)].log = stream[DBKey(s)].log
      <4>1. StreamOK(stream'[DBKey(s)]) BY <1>1, StepInv DEF PipelineInv, TypeOK, StreamsOK
      <4> QED BY <4>1, <3>2, IndexFacts DEF DBLog
    <3> QED BY <2>1, <3>1, <3>2
  <2>3. DBLog(s)'[i] = DBLog(s)[i] BY <1>0, <1>1, <2>2, PendingGrows DEF DBLog
  <2> QED BY <2>1, <2>2, <2>3
<1> DEFINE r == DBLog(s)[i]
<1>3. r \notin Range(ReplyLog(s))
  <2>1. CASE i \in DOMAIN stream[DBKey(s)].pel
    BY <2>1 DEF AnsweredNotPending, DBLog, ReplyLog
  <2>2. CASE i > stream[DBKey(s)].cursor
    <3>1. effects[r] = 0 BY <1>2, <2>2 DEF PipelineInv, UnreadUntouched
    <3>2. \A p \in DOMAIN ReplyLog(s) : effects[ReplyLog(s)[p]] = 1 BY DEF PipelineInv, LogsHold
    <3>3. \A p \in DOMAIN ReplyLog(s) : ReplyLog(s)[p] # r BY <3>1, <3>2
    <3> QED BY <3>3 DEF Range
  <2> QED BY <1>2, <2>1, <2>2
<1>4. CASE ReplyLog(s)' = ReplyLog(s) BY <1>2, <1>3, <1>4
<1>5. ASSUME NEW rd \in Readers, ReaderPush(rd) PROVE DBLog(s)'[i] \notin Range(ReplyLog(s)')
  <2> DEFINE t == ReaderService[rd]
  <2>1. /\ Busy(rd) /\ reader[rd].pc = "acked" BY <1>5 DEF ReaderPush, Busy
  <2>2. /\ t \in Services /\ ReaderKey(rd) = DBKey(t)
        /\ reader[rd].id \in DOMAIN DBLog(t) /\ Held(rd) = DBLog(t)[reader[rd].id]
        /\ Held(rd) \in Requests
    BY <2>1, HeldFacts
  <2>3. PICK j : stream' = [stream EXCEPT ![NextService(rd)] =
                              Xadd(stream[NextService(rd)], Held(rd), j)]
    BY <1>5 DEF ReaderPush
  <2>4. CASE NextService(rd) # ReplyKey(s)
    <3>1. stream'[ReplyKey(s)] = stream[ReplyKey(s)] BY <1>0, <1>1, <2>3, <2>4 DEF StreamsOK
    <3>2. ReplyLog(s)' = ReplyLog(s) BY <3>1 DEF ReplyLog
    <3> QED BY <1>4, <3>2
  <2>5. CASE NextService(rd) = ReplyKey(s)
    <3>1. t = s /\ Held(rd) \notin Unroutable
      BY <2>2, <2>5, KeyFacts DEF NextService
    <3>2. /\ \A x \in Keys : x # ReplyKey(s) => stream'[x] = stream[x]
          /\ Range(stream'[ReplyKey(s)].log) = Range(stream[ReplyKey(s)].log) \cup {Held(rd)}
      <4> DEFINE q == Held(rd)
                 k == ReplyKey(s)
      <4>1. k \in Keys /\ q \in Requests /\ StreamsOK BY <1>0, <1>1, <2>2
      <4>2. stream' = [stream EXCEPT ![k] = Xadd(stream[k], q, j)] BY <2>3, <2>5
      <4> HIDE DEF q, k
      <4>3. /\ \A x \in Keys : x # k => stream'[x] = stream[x]
            /\ Range(stream'[k].log) = Range(stream[k].log) \cup {q}
        BY <4>1, <4>2, PushFacts
      <4> QED BY <4>3 DEF q, k
    <3>3. i \in DOMAIN stream[DBKey(s)].pel BY <1>1, <3>2, KeyFacts
    <3>4. i # reader[rd].id
      <4>1. reader[rd].id \notin DOMAIN stream[DBKey(s)].pel
        BY <2>1, <2>2, <3>1 DEF AckedNotPending
      <4> QED BY <3>3, <4>1
    <3>5. r # Held(rd)
      <4>1. \A x, y \in DOMAIN stream[DBKey(s)].log :
              x # y /\ stream[DBKey(s)].log[x] = stream[DBKey(s)].log[y]
                => stream[DBKey(s)].log[x] \in Unroutable
        BY <1>1 DEF PipelineInv, RoutedOnce
      <4> QED BY <1>2, <2>2, <3>1, <3>4, <4>1 DEF DBLog
    <3>6. Range(ReplyLog(s)') = Range(ReplyLog(s)) \cup {Held(rd)} BY <3>2 DEF ReplyLog
    <3> QED BY <1>2, <1>3, <3>5, <3>6
  <2> QED BY <2>4, <2>5
<1>6. ReplyLog(s)' = ReplyLog(s) \/ \E rd \in Readers : ReaderPush(rd)
  <2>1. CASE stream' = stream BY <2>1 DEF ReplyLog
  <2>2. CASE Keeps(stream[ReplyKey(s)], stream'[ReplyKey(s)]) BY <2>2 DEF Keeps, ReplyLog
  <2>3. ASSUME NEW q \in Requests, SendRequest(q) PROVE ReplyLog(s)' = ReplyLog(s)
    <3>1. DBKey(Service[q]) # ReplyKey(s) BY ConstantsAssumption, KeyFacts
    <3>2. stream'[ReplyKey(s)] = stream[ReplyKey(s)]
      BY <1>0, <1>1, <2>3, <3>1 DEF SendRequest, StreamsOK
    <3> QED BY <3>2 DEF ReplyLog
  <2>4. CASE (\E q \in Requests : SendRequest(q)) \/ (\E rd \in Readers : ReaderPush(rd))
    BY <2>3, <2>4
  <2>5. CASE /\ ~\E q \in Requests : SendRequest(q)
             /\ ~\E rd \in Readers : ReaderPush(rd)
    <3>1. QuietStep \/ stream' = stream
            \/ (\E rd \in Readers : ReaderPull(rd)) \/ (\E x \in Services : FrontPull(x))
      <4>1. CASE \/ \E c \in Conns : Connect(c) \/ Close(c)
                 \/ \E q \in Requests : SendFails(q)
                 \/ DBStart \/ DBCrash \/ UNCHANGED vars
        BY <1>0, <4>1, QuietOutside
      <4>2. CASE \E rd \in Readers : ReaderAck(rd) \/ ReaderThrows(rd) \/ ReaderPushFails(rd)
        BY <1>0, <4>2, QuietReader
      <4>3. CASE \E x \in Services : FrontAck(x) \/ FrontLost(x) \/ FrontThrows(x) \/ FrontCrash(x)
        BY <1>0, <4>3, QuietFront
      <4>4. CASE Manager \/ MgrCrash \/ Tick BY <1>0, <4>4, QuietManager
      <4>5. CASE \E rd \in Readers : ReaderHandle(rd) BY <4>5 DEF ReaderHandle
      <4>6. CASE \E x \in Services : FrontPut(x) BY <4>6 DEF FrontPut
      <4> QED BY <2>5, <4>1, <4>2, <4>3, <4>4, <4>5, <4>6 DEF Next, ReaderStep, FrontStep
    <3>2. CASE QuietStep BY <1>1, <3>2 DEF QuietStep, ReplyLog
    <3>3. ASSUME NEW rd \in Readers, ReaderPull(rd) PROVE ReplyLog(s)' = ReplyLog(s)
      <4>1. ReaderKey(rd) \in Keys /\ Gateman(ReaderService[rd]) \in Consumers
        BY ConstantsAssumption, KeyFacts DEF ReaderKey
      <4> QED BY <1>0, <1>1, <3>3, <4>1, PullFacts DEF ReaderPull, ReplyLog
    <3>4. ASSUME NEW x \in Services, FrontPull(x) PROVE ReplyLog(s)' = ReplyLog(s)
      <4>1. ReplyKey(x) \in Keys /\ FrontConsumer(x) \in Consumers BY KeyFacts
      <4> QED BY <1>0, <1>1, <3>4, <4>1, PullFacts DEF FrontPull, ReplyLog
    <3> QED BY <2>1, <3>1, <3>2, <3>3, <3>4
  <2> QED BY <2>4, <2>5
<1> QED BY <1>4, <1>5, <1>6

-----------------------------------------------------------------------------
(* The theorems. *)

\* The strengthened invariant holds in the initial states.
LEMMA StreamInit == Init => StreamInv
<1> SUFFICES ASSUME Init PROVE StreamInv
  OBVIOUS
<1>1. PipelineInv BY InitInv
<1>2. \A k \in Keys : stream[k].log = <<>> /\ DOMAIN stream[k].pel = {}
  BY DEF Init, EmptyStream
<1>3. ItemsRead BY DEF Init, Napping, ItemsRead
<1>4. AckedNotPending BY DEF Init, Idle, AckedNotPending
<1>5. AnsweredNotPending BY <1>2, KeyFacts DEF AnsweredNotPending
<1>6. UnreadLostOnlyByTrimming BY <1>2 DEF UnreadLostOnlyByTrimming
<1> QED BY <1>1, <1>3, <1>4, <1>5, <1>6 DEF StreamInv

\* Every step preserves it.
LEMMA StreamStep == StreamInv /\ [Next]_vars => StreamInv'
<1> SUFFICES ASSUME StreamInv, [Next]_vars PROVE StreamInv'
  OBVIOUS
<1> USE DEF StreamInv
<1>1. PipelineInv' BY StepInv
<1>2. \A k \in Keys : Keeps(stream[k], stream'[k]) \/ Adds(stream[k], stream'[k])
  BY StreamMoves
<1>3. ItemsRead' BY <1>1, <1>2, ItemsReadStep
<1>4. AckedNotPending' BY <1>2, AckedStep
<1>5. AnsweredNotPending' BY <1>2, AnsweredStep
<1>6. UnreadLostOnlyByTrimming'
  <2>1. \A k \in Keys : StreamOK(stream[k]) /\ StreamOK(stream'[k])
    BY <1>1 DEF PipelineInv, TypeOK, StreamsOK
  <2>2. \A k \in Keys : UnreadStored(stream[k])
    BY DEF UnreadLostOnlyByTrimming, UnreadStored
  <2>3. \A k \in Keys : UnreadStored(stream'[k])
    BY <1>2, <2>1, <2>2, AddsStored, KeepsStored
  <2> QED BY <2>3 DEF UnreadLostOnlyByTrimming, UnreadStored
<1> QED BY <1>1, <1>3, <1>4, <1>5, <1>6

\* A request that was answered is never pending (DBServGateman::reader
\* acknowledges before it pushes): the manager cannot transfer or drop it.
THEOREM AnsweredIsNotPending == Spec => []AnsweredNotPending
<1>1. StreamInv => AnsweredNotPending BY DEF StreamInv
<1> QED BY <1>1, StreamInit, StreamStep, PTL DEF Spec

\* An unread entry leaves a stream only when at least MAXLEN newer ones have
\* been pushed, whatever the manager and the front ends delete.
THEOREM UnreadIsKept == Spec => []UnreadLostOnlyByTrimming
<1>1. StreamInv => UnreadLostOnlyByTrimming BY DEF StreamInv
<1> QED BY <1>1, StreamInit, StreamStep, PTL DEF Spec

-----------------------------------------------------------------------------
(* The manager's copies. *)

\* No idle time and no delivery count of an entry that stays pending has gone down.
PelAges(a, b) ==
  \A i \in DOMAIN a.pel \cap DOMAIN b.pel :
    b.pel[i].idle >= a.pel[i].idle /\ b.pel[i].cnt >= a.pel[i].cnt

\* The copies are of one stream, one for each entry.
CopiesDiffer ==
  \A it, other \in mgr.items : it.key = other.key /\ (it.id = other.id => it = other)

\* An entry that is still pending is at least as hopeless as its copy.
CopiesBehind ==
  \A it \in mgr.items : it.id \in DOMAIN stream[it.key].pel =>
    /\ stream[it.key].pel[it.id].idle >= it.idle
    /\ stream[it.key].pel[it.id].cnt >= it.cnt

\* The strengthening under which the verdict on a copy holds for the entry.
CopyInv == StreamInv /\ CopiesDiffer /\ CopiesBehind

\* The fields of a pending entry are numbers.
LEMMA EntryNumbers ==
  ASSUME NEW a, StreamOK(a), NEW i \in DOMAIN a.pel
  PROVE  a.pel[i].idle \in Nat /\ a.pel[i].cnt \in Nat
<1>1. a.pel[i] \in PendingEntry BY DEF StreamOK, StreamFields
<1> QED BY <1>1, ConstantsAssumption DEF PendingEntry

\* What the calls other than XCLAIM do to the pending list.
LEMMA CallsAge ==
  ASSUME NEW a, StreamOK(a)
  PROVE  /\ PelAges(a, a)
         /\ \A b : b.pel = a.pel => PelAges(a, b)
         /\ \A i : PelAges(a, Xack(a, i)) /\ PelAges(a, Xdel(a, i))
         /\ PelAges(a, XgroupCreate(a))
         /\ \A r, j : PelAges(a, Xadd(a, r, j))
<1>1. /\ \A i \in DOMAIN a.pel : a.pel[i].idle >= a.pel[i].idle /\ a.pel[i].cnt >= a.pel[i].cnt
  BY EntryNumbers
<1>2. \A b : b.pel = a.pel => PelAges(a, b) BY <1>1 DEF PelAges
<1>3. ASSUME NEW i PROVE PelAges(a, Xack(a, i))
  <2> DEFINE m == Xack(a, i)
  <2>1. StreamOK(m) /\ DOMAIN m.pel = DOMAIN a.pel \ {i} /\ \A p \in DOMAIN m.pel : m.pel[p] = a.pel[p]
    BY XackFacts
  <2> HIDE DEF m
  <2>2. PelAges(a, m) BY <1>1, <2>1 DEF PelAges
  <2> QED BY <2>2 DEF m
<1>4. ASSUME NEW i PROVE PelAges(a, Xdel(a, i)) BY <1>2, XdelFacts
<1>5. PelAges(a, XgroupCreate(a))
  <2>1. XgroupCreate(a).pel = a.pel BY DEF XgroupCreate, StreamOK, StreamShape
  <2> QED BY <1>2, <2>1
<1>6. ASSUME NEW r, NEW j PROVE PelAges(a, Xadd(a, r, j))
  <2>1. Xadd(a, r, j).pel = a.pel BY DEF Xadd, StreamOK, StreamShape
  <2> QED BY <1>2, <2>1
<1> QED BY <1>2, <1>3, <1>4, <1>5, <1>6

\* Reading and time.
LEMMA ReadAndTimeAge ==
  ASSUME NEW a, StreamOK(a)
  PROVE  /\ \A i \in Unread(a) : \A c \in Consumers : PelAges(a, Xreadgroup(a, i, c))
         /\ PelAges(a, Age(a, Tolerant + 1))
<1>0. /\ \A i \in DOMAIN a.pel : a.pel[i].idle >= a.pel[i].idle /\ a.pel[i].cnt >= a.pel[i].cnt
  BY EntryNumbers
<1>1. ASSUME NEW i \in Unread(a), NEW c \in Consumers PROVE PelAges(a, Xreadgroup(a, i, c))
  <2>1. i > a.cursor /\ a.cursor \in Nat /\ i \in Nat BY XreadgroupFacts, IndexFacts
  <2>2. i \notin DOMAIN a.pel BY <2>1 DEF StreamOK, StreamFields
  <2> DEFINE pl == [p \in DOMAIN a.pel \cup {i} |->
                      IF p = i THEN [owner |-> c, idle |-> 0, cnt |-> 1] ELSE a.pel[p]]
             mem == a.members \cup {c}
  <2>3. Xreadgroup(a, i, c) = [a EXCEPT !.cursor = i, !.members = mem, !.pel = pl]
    BY DEF Xreadgroup
  <2>4. \A p \in DOMAIN a.pel : pl[p] = a.pel[p] BY <2>2
  <2> HIDE DEF pl, mem
  <2>5. Xreadgroup(a, i, c).pel = pl BY <2>3 DEF StreamOK, StreamShape
  <2> QED BY <1>0, <2>4, <2>5 DEF PelAges
<1>2. PelAges(a, Age(a, Tolerant + 1))
  <2> DEFINE older(p) == Older(a.pel[p], Tolerant + 1)
             pl == [p \in DOMAIN a.pel |-> older(p)]
  <2>1. Age(a, Tolerant + 1) = [a EXCEPT !.pel = pl] BY DEF Age
  <2>2. ASSUME NEW p \in DOMAIN a.pel
        PROVE  older(p).idle >= a.pel[p].idle /\ older(p).cnt >= a.pel[p].cnt
    <3>1. PICK e \in PendingEntry : e = a.pel[p] BY DEF StreamOK, StreamFields
    <3>2. e.idle \in Nat /\ e.cnt \in Nat /\ Tolerant \in Nat BY ConstantsAssumption DEF PendingEntry
    <3>3. /\ Older(e, Tolerant + 1).cnt = e.cnt
          /\ Older(e, Tolerant + 1).idle = IF e.idle < Tolerant + 1 THEN e.idle + 1 ELSE e.idle
      BY DEF Older, PendingEntry
    <3> QED BY <3>1, <3>2, <3>3
  <2> HIDE DEF older
  <2>3. \A p \in DOMAIN a.pel : pl[p].idle >= a.pel[p].idle /\ pl[p].cnt >= a.pel[p].cnt BY <2>2
  <2> HIDE DEF pl
  <2>4. Age(a, Tolerant + 1).pel = pl BY <2>1 DEF StreamOK, StreamShape
  <2> QED BY <2>3, <2>4 DEF PelAges
<1> QED BY <1>1, <1>2

\* XCLAIM touches one entry, and drops it only when the stream no longer has it.
LEMMA ClaimAges ==
  ASSUME NEW a, StreamOK(a), NEW i, NEW c \in Consumers
  PROVE  /\ \A p \in DOMAIN a.pel \ {i} :
              p \in DOMAIN Xclaim(a, i, c, Transfer).pel /\ Xclaim(a, i, c, Transfer).pel[p] = a.pel[p]
         /\ i \in DOMAIN a.pel /\ i \in a.live => i \in DOMAIN Xclaim(a, i, c, Transfer).pel
<1>1. CASE i \notin DOMAIN a.pel BY <1>1 DEF Xclaim
<1>2. CASE i \in DOMAIN a.pel /\ i \notin a.live
  <2>1. Xclaim(a, i, c, Transfer) = Xack(a, i) BY <1>2 DEF Xclaim
  <2> QED BY <1>2, <2>1, XackFacts
<1>3. CASE i \in DOMAIN a.pel /\ i \in a.live /\ a.pel[i].idle < Transfer BY <1>3 DEF Xclaim
<1>4. CASE i \in DOMAIN a.pel /\ i \in a.live /\ ~(a.pel[i].idle < Transfer)
  <2> DEFINE e == [owner |-> c, idle |-> 0, cnt |-> a.pel[i].cnt + 1]
             pl == [a.pel EXCEPT ![i] = e]
             mem == a.members \cup {c}
  <2>1. Xclaim(a, i, c, Transfer) = [a EXCEPT !.members = mem, !.pel = pl]
    BY <1>4 DEF Xclaim, StreamOK, StreamShape
  <2> HIDE DEF e
  <2>2. DOMAIN pl = DOMAIN a.pel /\ \A p \in DOMAIN a.pel \ {i} : pl[p] = a.pel[p]
    BY DEF StreamOK, StreamFields
  <2> HIDE DEF pl, mem
  <2>3. Xclaim(a, i, c, Transfer).pel = pl BY <2>1 DEF StreamOK, StreamShape
  <2> QED BY <1>4, <2>2, <2>3
<1> QED BY <1>1, <1>2, <1>3, <1>4

\* One stream changes by one call, the others keep their pending lists.
LEMMA OneAges ==
  ASSUME StreamsOK, NEW k \in Keys, NEW n, stream' = [stream EXCEPT ![k] = n], PelAges(stream[k], n)
  PROVE  \A x \in Keys : PelAges(stream[x], stream'[x])
<1> TAKE x \in Keys
<1>1. StreamOK(stream[x]) BY DEF StreamsOK
<1>2. stream'[x] = IF x = k THEN n ELSE stream[x] BY DEF StreamsOK
<1> QED BY <1>1, <1>2, CallsAge

\* Only a transfer makes a pending entry younger.
LEMMA PendingAges ==
  ASSUME PipelineInv, [Next]_vars, ~MgrTransfer
  PROVE  \A k \in Keys : PelAges(stream[k], stream'[k])
<1> DEFINE Goal == \A k \in Keys : PelAges(stream[k], stream'[k])
<1>0. TypeOK /\ StreamsOK /\ \A k \in Keys : StreamOK(stream[k])
  BY DEF PipelineInv, TypeOK, StreamsOK
<1>1. ASSUME stream' = stream PROVE Goal BY <1>0, <1>1, CallsAge
<1>2. ASSUME NEW r \in Requests, SendRequest(r) PROVE Goal
  <2>1. DBKey(Service[r]) \in Keys BY ConstantsAssumption, KeyFacts
  <2>2. PICK j \in TrimPoints(stream[DBKey(Service[r])], MaxLen) :
          stream' = [stream EXCEPT ![DBKey(Service[r])] = Xadd(stream[DBKey(Service[r])], r, j)]
    BY <1>2 DEF SendRequest
  <2> QED BY <1>0, <2>1, <2>2, CallsAge, OneAges
<1>3. ASSUME DBStart PROVE Goal
  <2>1. \A k \in Keys : stream'[k] = XgroupCreate(stream[k]) \/ stream'[k] = stream[k]
    BY <1>3 DEF DBStart
  <2> QED BY <1>0, <2>1, CallsAge
<1>4. ASSUME NEW rd \in Readers, ReaderStep(rd) PROVE Goal
  <2>0. /\ ReaderKey(rd) \in Keys /\ Gateman(ReaderService[rd]) \in Consumers
        /\ ReplyKey(ReaderService[rd]) \in Keys
    BY ConstantsAssumption, KeyFacts DEF ReaderKey
  <2>1. CASE ReaderPull(rd)
    <3>1. PICK i \in Unread(stream[ReaderKey(rd)]) :
            stream' = [stream EXCEPT ![ReaderKey(rd)] =
                         Xreadgroup(stream[ReaderKey(rd)], i, Gateman(ReaderService[rd]))]
      BY <2>1 DEF ReaderPull
    <3>2. PelAges(stream[ReaderKey(rd)],
                  Xreadgroup(stream[ReaderKey(rd)], i, Gateman(ReaderService[rd])))
      BY <1>0, <2>0, ReadAndTimeAge
    <3> QED BY <1>0, <2>0, <3>1, <3>2, OneAges
  <2>2. CASE ReaderHandle(rd) BY <1>1, <2>2 DEF ReaderHandle
  <2>3. CASE ReaderAck(rd)
    BY <1>0, <2>0, <2>3, CallsAge, OneAges DEF ReaderAck
  <2>4. CASE ReaderPush(rd)
    <3>1. NextService(rd) \in Keys BY <2>0 DEF NextService
    <3>2. PICK j \in TrimPoints(stream[NextService(rd)], MaxLen) :
            stream' = [stream EXCEPT ![NextService(rd)] = Xadd(stream[NextService(rd)], Held(rd), j)]
      BY <2>4 DEF ReaderPush
    <3>3. PelAges(stream[NextService(rd)], Xadd(stream[NextService(rd)], Held(rd), j))
      BY <1>0, <3>1, CallsAge
    <3> QED BY <1>0, <3>1, <3>2, <3>3, OneAges
  <2> QED BY <1>4, <2>1, <2>2, <2>3, <2>4 DEF ReaderStep
<1>5. ASSUME NEW s \in Services, FrontStep(s) PROVE Goal
  <2>0. ReplyKey(s) \in Keys /\ FrontConsumer(s) \in Consumers /\ "LOGIN" \in Keys
    BY KeyFacts DEF Keys
  <2>1. CASE FrontPull(s)
    <3>1. PICK i \in Unread(stream[ReplyKey(s)]) :
            stream' = [stream EXCEPT ![ReplyKey(s)] =
                         Xreadgroup(stream[ReplyKey(s)], i, FrontConsumer(s))]
      BY <2>1 DEF FrontPull
    <3>2. PelAges(stream[ReplyKey(s)], Xreadgroup(stream[ReplyKey(s)], i, FrontConsumer(s)))
      BY <1>0, <2>0, ReadAndTimeAge
    <3> QED BY <1>0, <2>0, <3>1, <3>2, OneAges
  <2>2. CASE FrontPut(s) BY <1>1, <2>2 DEF FrontPut
  <2>3. CASE FrontAck(s) BY <1>0, <2>0, <2>3, CallsAge, OneAges DEF FrontAck
  <2>4. CASE FrontLost(s)
    <3>1. CASE s = "login" BY <1>0, <2>0, <2>4, <3>1, CallsAge, OneAges DEF FrontLost
    <3>2. CASE s # "login" BY <1>1, <2>4, <3>2 DEF FrontLost
    <3> QED BY <3>1, <3>2
  <2> QED BY <1>5, <2>1, <2>2, <2>3, <2>4 DEF FrontStep
<1>6. ASSUME Manager PROVE Goal
  <2>0. \A it \in NextItem : it.key \in Keys /\ StreamOK(stream[it.key])
    BY <1>0 DEF NextItem, TypeOK, MgrOK, PendingItem, StreamsOK
  <2>1. CASE stream' = stream BY <1>1, <2>1
  <2>2. CASE MgrAckDeadLetter
    <3>1. PICK it \in NextItem : stream' = [stream EXCEPT ![it.key] = Xack(stream[it.key], it.id)]
      BY <2>2 DEF MgrAckDeadLetter
    <3>2. PelAges(stream[it.key], Xack(stream[it.key], it.id)) BY <2>0, CallsAge
    <3> QED BY <1>0, <2>0, <3>1, <3>2, OneAges
  <2>5. CASE MgrDelDeadLetter
    <3>1. PICK it \in NextItem : stream' = [stream EXCEPT ![it.key] = Xdel(stream[it.key], it.id)]
      BY <2>5 DEF MgrDelDeadLetter
    <3>2. PelAges(stream[it.key], Xdel(stream[it.key], it.id)) BY <2>0, CallsAge
    <3> QED BY <1>0, <2>0, <3>1, <3>2, OneAges
  <2>3. CASE MgrAckTooOld
    <3>1. PICK it \in NextItem : stream' = [stream EXCEPT ![it.key] = Xack(stream[it.key], it.id)]
      BY <2>3 DEF MgrAckTooOld
    <3>2. PelAges(stream[it.key], Xack(stream[it.key], it.id)) BY <2>0, CallsAge
    <3> QED BY <1>0, <2>0, <3>1, <3>2, OneAges
  <2> QED BY <1>6, <2>1, <2>2, <2>3, <2>5
          DEF Manager, MgrScanGroups, MgrScanConsumers, MgrGetPending, MgrLeave
<1>7. ASSUME Tick PROVE Goal
  <2>1. \A k \in Keys : stream'[k] = Age(stream[k], Tolerant + 1) \/ stream'[k] = stream[k]
    BY <1>7 DEF Tick
  <2> QED BY <1>0, <2>1, CallsAge, ReadAndTimeAge
<1>8. CASE Next
  BY <1>1, <1>2, <1>3, <1>4, <1>5, <1>6, <1>7, <1>8
     DEF Next, Connect, Close, SendFails, DBCrash, ReaderThrows, ReaderPushFails,
         FrontThrows, FrontCrash, MgrCrash
<1>9. CASE UNCHANGED vars BY <1>1, <1>9 DEF vars
<1> QED BY <1>8, <1>9

\* A copy is taken off the list when its verdict has been carried out.
LEMMA DoneItems ==
  ASSUME TypeOK, NEW it, MgrDone(it)
  PROVE  mgr'.items \subseteq mgr.items \ {it}
<1>1. CASE mgr' = Napping BY <1>1 DEF Napping
<1>2. CASE mgr' = [mgr EXCEPT !.items = mgr.items \ {it}, !.acked = FALSE]
  BY <1>2 DEF TypeOK, MgrOK
<1> QED BY <1>1, <1>2 DEF MgrDone

\* Every step keeps the entries at least as hopeless as their copies.
LEMMA CopyStep == CopyInv /\ [Next]_vars => CopyInv'
<1> SUFFICES ASSUME CopyInv, [Next]_vars PROVE CopyInv'
  OBVIOUS
<1> USE DEF CopyInv
<1>1. StreamInv /\ StreamInv' /\ PipelineInv /\ ItemsRead BY StreamStep DEF StreamInv
<1>2. /\ TypeOK /\ \A k \in Keys : StreamOK(stream[k]) /\ StreamOK(stream'[k])
  BY <1>1 DEF StreamInv, PipelineInv, TypeOK, StreamsOK
<1>3. \A it \in mgr.items : it.key \in Keys /\ it.id \in Nat /\ it.idle \in Nat /\ it.cnt \in Nat
  BY <1>2, ConstantsAssumption DEF TypeOK, MgrOK, PendingItem
<1>4. CASE MgrGetPending
  <2> DEFINE q == Front(mgr.consumers)
             copy(i) == [key |-> q.key, id |-> i, c |-> q.c,
                         idle |-> stream[q.key].pel[i].idle,
                         cnt |-> stream[q.key].pel[i].cnt]
             S == Smallest(PendingOf(q.key, q.c), q.num)
  <2>1. q.key \in Keys BY <1>2, <1>4 DEF MgrGetPending, Front, TypeOK, MgrOK
  <2>2. mgr'.items = {copy(i) : i \in S} /\ stream' = stream
    BY <1>2, <1>4 DEF MgrGetPending, TypeOK, MgrOK
  <2>3. \A i \in S : i \in DOMAIN stream[q.key].pel BY DEF Smallest, PendingOf
  <2>4. \A i \in S : /\ copy(i).key = q.key /\ copy(i).id = i
                     /\ copy(i).idle = stream[q.key].pel[i].idle
                     /\ copy(i).cnt = stream[q.key].pel[i].cnt
    OBVIOUS
  <2>5. \A i \in S : stream[q.key].pel[i].idle \in Nat /\ stream[q.key].pel[i].cnt \in Nat
    BY <1>2, <2>1, <2>3, EntryNumbers
  <2> HIDE DEF q, S, copy
  <2>6. CopiesDiffer' BY <2>2, <2>4 DEF CopiesDiffer
  <2>7. CopiesBehind'
    <3> SUFFICES ASSUME NEW i \in S
                 PROVE  /\ stream[copy(i).key].pel[copy(i).id].idle >= copy(i).idle
                        /\ stream[copy(i).key].pel[copy(i).id].cnt >= copy(i).cnt
      BY <2>2 DEF CopiesBehind
    <3> QED BY <2>4, <2>5
  <2> QED BY <1>1, <2>6, <2>7
<1>5. ASSUME mgr'.items \subseteq mgr.items, ~MgrTransfer PROVE CopyInv'
  <2>1. CopiesDiffer' BY <1>5 DEF CopiesDiffer
  <2>2. \A k \in Keys : Keeps(stream[k], stream'[k]) \/ Adds(stream[k], stream'[k])
    BY <1>1, StreamMoves
  <2>3. \A k \in Keys : PelAges(stream[k], stream'[k]) BY <1>1, <1>5, PendingAges
  <2>4. ASSUME NEW it \in mgr.items, it.id \in DOMAIN stream'[it.key].pel
        PROVE  /\ stream'[it.key].pel[it.id].idle >= it.idle
               /\ stream'[it.key].pel[it.id].cnt >= it.cnt
    <3> DEFINE a == stream[it.key]
               b == stream'[it.key]
    <3>1. it.key \in Keys /\ it.id \in Nat /\ it.idle \in Nat /\ it.cnt \in Nat BY <1>3
    <3>2. it.id <= a.cursor /\ a.cursor \in Nat BY <1>1, <1>2, <3>1, IndexFacts DEF ItemsRead
    <3>3. StreamOK(a) /\ StreamOK(b) /\ PelAges(a, b) /\ (Keeps(a, b) \/ Adds(a, b))
      BY <1>2, <2>2, <2>3, <3>1
    <3> HIDE DEF a, b
    <3>4. it.id \in DOMAIN b.pel BY <2>4 DEF b
    <3>5. it.id \in DOMAIN a.pel \/ it.id > a.cursor BY <3>3, <3>4, PendingGrows
    <3>6. it.id \in DOMAIN a.pel BY <3>1, <3>2, <3>5
    <3>7. a.pel[it.id].idle \in Nat /\ a.pel[it.id].cnt \in Nat BY <3>3, <3>6, EntryNumbers
    <3>8. b.pel[it.id].idle \in Nat /\ b.pel[it.id].cnt \in Nat BY <3>3, <3>4, EntryNumbers
    <3>9. a.pel[it.id].idle >= it.idle /\ a.pel[it.id].cnt >= it.cnt
      BY <3>6 DEF CopiesBehind, a
    <3>10. b.pel[it.id].idle >= a.pel[it.id].idle /\ b.pel[it.id].cnt >= a.pel[it.id].cnt
      BY <3>3, <3>4, <3>6 DEF PelAges
    <3>11. b.pel[it.id].idle >= it.idle /\ b.pel[it.id].cnt >= it.cnt
      BY <3>1, <3>7, <3>8, <3>9, <3>10
    <3> QED BY <3>11 DEF b
  <2>5. CopiesBehind' BY <1>5, <2>4 DEF CopiesBehind
  <2> QED BY <1>1, <2>1, <2>5
<1>6. CASE MgrTransfer
  <2>1. PICK it \in NextItem :
          /\ \E c \in Siblings(it) :
               stream' = [stream EXCEPT ![it.key] = Xclaim(stream[it.key], it.id, c, Transfer)]
          /\ MgrDone(it)
    BY <1>6 DEF MgrTransfer
  <2>2. PICK c \in Siblings(it) :
          stream' = [stream EXCEPT ![it.key] = Xclaim(stream[it.key], it.id, c, Transfer)]
    BY <2>1
  <2>3. it \in mgr.items /\ it.key \in Keys BY <1>3 DEF NextItem
  <2>4. c \in Consumers
    <3>1. GroupName(it.key) \in GroupNames BY <2>3 DEF GroupName, GroupNames, Keys
    <3> QED BY <1>2, <3>1 DEF Siblings, TypeOK, MgrOK
  <2>5. mgr'.items \subseteq mgr.items \ {it} BY <1>2, <2>1, DoneItems
  <2>6. CopiesDiffer' BY <2>5 DEF CopiesDiffer
  <2>7. ASSUME NEW other \in mgr'.items, other.id \in DOMAIN stream'[other.key].pel
        PROVE  /\ stream'[other.key].pel[other.id].idle >= other.idle
               /\ stream'[other.key].pel[other.id].cnt >= other.cnt
    <3>1. other \in mgr.items /\ other.key = it.key /\ other.id # it.id
      BY <2>3, <2>5 DEF CopiesDiffer
    <3> DEFINE a == stream[it.key]
               b == Xclaim(a, it.id, c, Transfer)
    <3>2. stream'[it.key] = b BY <1>2, <2>2, <2>3 DEF TypeOK, StreamsOK
    <3>3. StreamOK(a) /\ Transfer \in Nat BY <1>2, <2>3, ConstantsAssumption
    <3>4. /\ DOMAIN b.pel \subseteq DOMAIN a.pel
          /\ \A p \in DOMAIN a.pel \ {it.id} : b.pel[p] = a.pel[p]
      BY <2>4, <3>3, ClaimAges, XclaimFacts
    <3> HIDE DEF b
    <3>5. other.id \in DOMAIN a.pel /\ b.pel[other.id] = a.pel[other.id]
      BY <2>7, <3>1, <3>2, <3>4
    <3> QED BY <3>1, <3>2, <3>5 DEF CopiesBehind
  <2>8. CopiesBehind' BY <2>7 DEF CopiesBehind
  <2> QED BY <1>1, <2>6, <2>8
<1>7. mgr'.items \subseteq mgr.items \/ MgrGetPending BY <1>2, ItemsMove
<1> QED BY <1>4, <1>5, <1>6, <1>7

\* What a step of the manager takes off a pending list is hopeless at that moment.
LEMMA DropsHopeless ==
  ASSUME CopyInv, [Next]_vars, mgr' # mgr, NEW k \in Keys,
         NEW i \in DOMAIN stream[k].pel \ DOMAIN stream'[k].pel
  PROVE  \/ stream[k].pel[i].cnt > MaxDelivered
         \/ stream[k].pel[i].idle > Tolerant
         \/ i \notin stream[k].live
<1> USE DEF CopyInv
<1>1. /\ TypeOK /\ StreamsOK /\ \A x \in Keys : StreamOK(stream[x])
  BY DEF StreamInv, PipelineInv, TypeOK, StreamsOK
<1>2. \A it \in NextItem : /\ it \in mgr.items /\ it.key \in Keys
                           /\ it.idle \in Nat /\ it.cnt \in Nat
  BY <1>1, ConstantsAssumption DEF NextItem, TypeOK, MgrOK, PendingItem
<1>3. stream' # stream OBVIOUS
<1>4. stream[k].pel[i].idle \in Nat /\ stream[k].pel[i].cnt \in Nat BY <1>1, EntryNumbers
<1>5. CASE MgrAckDeadLetter
  <2>1. PICK it \in NextItem :
          IsDeadLetter(it) /\ stream' = [stream EXCEPT ![it.key] = Xack(stream[it.key], it.id)]
    BY <1>5 DEF MgrAckDeadLetter
  <2> DEFINE m == Xack(stream[it.key], it.id)
  <2>2. stream'[k] = IF k = it.key THEN m ELSE stream[k] BY <1>1, <1>2, <2>1 DEF StreamsOK
  <2>3. DOMAIN m.pel = DOMAIN stream[it.key].pel \ {it.id} BY <1>1, <1>2, XackFacts
  <2> HIDE DEF m
  <2>4. k = it.key /\ i = it.id BY <2>2, <2>3
  <2>5. stream[k].pel[i].cnt >= it.cnt BY <1>2, <2>4 DEF CopiesBehind
  <2> QED BY <1>2, <1>4, <2>1, <2>5, ConstantsAssumption DEF IsDeadLetter
<1>9. CASE MgrDelDeadLetter
  <2>1. PICK it \in NextItem : stream' = [stream EXCEPT ![it.key] = Xdel(stream[it.key], it.id)]
    BY <1>9 DEF MgrDelDeadLetter
  <2> DEFINE m == Xdel(stream[it.key], it.id)
  <2>2. stream'[k] = IF k = it.key THEN m ELSE stream[k] BY <1>1, <1>2, <2>1 DEF StreamsOK
  <2>3. m.pel = stream[it.key].pel BY <1>1, <1>2, XdelFacts
  <2> HIDE DEF m
  <2> QED BY <2>2, <2>3
<1>6. CASE MgrAckTooOld
  <2>1. PICK it \in NextItem :
          IsTooOld(it) /\ stream' = [stream EXCEPT ![it.key] = Xack(stream[it.key], it.id)]
    BY <1>6 DEF MgrAckTooOld
  <2> DEFINE m == Xack(stream[it.key], it.id)
  <2>2. stream'[k] = IF k = it.key THEN m ELSE stream[k] BY <1>1, <1>2, <2>1 DEF StreamsOK
  <2>3. DOMAIN m.pel = DOMAIN stream[it.key].pel \ {it.id} BY <1>1, <1>2, XackFacts
  <2> HIDE DEF m
  <2>4. k = it.key /\ i = it.id BY <2>2, <2>3
  <2>5. stream[k].pel[i].idle >= it.idle BY <1>2, <2>4 DEF CopiesBehind
  <2> QED BY <1>2, <1>4, <2>1, <2>5, ConstantsAssumption DEF IsTooOld
<1>7. CASE MgrTransfer
  <2>1. PICK it \in NextItem : \E c \in Siblings(it) :
          stream' = [stream EXCEPT ![it.key] = Xclaim(stream[it.key], it.id, c, Transfer)]
    BY <1>7 DEF MgrTransfer
  <2>2. PICK c \in Siblings(it) :
          stream' = [stream EXCEPT ![it.key] = Xclaim(stream[it.key], it.id, c, Transfer)]
    BY <2>1
  <2>3. c \in Consumers
    <3>1. GroupName(it.key) \in GroupNames BY <1>2 DEF GroupName, GroupNames, Keys
    <3> QED BY <1>1, <3>1 DEF Siblings, TypeOK, MgrOK
  <2> DEFINE m == Xclaim(stream[it.key], it.id, c, Transfer)
  <2>4. stream'[k] = IF k = it.key THEN m ELSE stream[k] BY <1>1, <1>2, <2>2 DEF StreamsOK
  <2>5. /\ \A p \in DOMAIN stream[it.key].pel \ {it.id} : p \in DOMAIN m.pel
        /\ it.id \in DOMAIN stream[it.key].pel /\ it.id \in stream[it.key].live => it.id \in DOMAIN m.pel
    BY <1>1, <1>2, <2>3, ClaimAges
  <2> HIDE DEF m
  <2> QED BY <2>4, <2>5
<1>8. MgrAckDeadLetter \/ MgrDelDeadLetter \/ MgrAckTooOld \/ MgrTransfer
  BY <1>3 DEF Next, Manager, vars, Connect, Close, SendRequest, SendFails, DBStart, DBCrash,
              ReaderStep, ReaderPull, ReaderHandle, ReaderAck, ReaderPush, ReaderThrows,
              ReaderPushFails, FrontStep, FrontPull, FrontPut, FrontAck, FrontLost,
              FrontThrows, FrontCrash, Tick, MgrScanGroups, MgrScanConsumers, MgrGetPending,
              MgrLeave, MgrCrash
<1> QED BY <1>5, <1>6, <1>7, <1>8, <1>9

\* RSBrokerManager::handlePending judges a copy of the pending list, but what it
\* drops is hopeless when it drops it, for any thresholds and any readers.
THEOREM OnlyHopelessDropped == Spec => DropsOnlyHopeless
<1>1. Init => CopyInv
  BY StreamInit DEF CopyInv, Init, Napping, CopiesDiffer, CopiesBehind
<1>2. CopyInv /\ [Next]_vars =>
        [mgr' # mgr =>
           \A k \in Keys : \A i \in DOMAIN stream[k].pel \ DOMAIN stream'[k].pel :
             \/ stream[k].pel[i].cnt > MaxDelivered
             \/ stream[k].pel[i].idle > Tolerant
             \/ i \notin stream[k].live]_vars
  BY DropsHopeless
<1> QED BY <1>1, <1>2, CopyStep, PTL DEF Spec, DropsOnlyHopeless
=============================================================================
