---------------------------- MODULE RedisStream ----------------------------
(***************************************************************************)
(* What the servers use of a Redis Stream through RSBrokerHelper: a stream *)
(* with one consumer group.  Redis itself is external; each operator is    *)
(* one RSBrokerHelper call and says what the call does to the stream.      *)
(*                                                                         *)
(* A stream value is a record:                                             *)
(*   log     every entry ever added, in order; an entry's ID is its index  *)
(*   live    the IDs still stored (not deleted, not trimmed by MAXLEN)     *)
(*   cursor  the group's last-delivered-id                                 *)
(*   pel     the group's pending entries list: ID -> [owner, idle, cnt]    *)
(*   members the consumers the group knows                                 *)
(*   grp     whether the group has been created                            *)
(* GroupInfoType and ConsumerInfoType have the "lag" and "inactive" fields,*)
(* which fixes the server at Redis 7.2 or later.                           *)
(***************************************************************************)
EXTENDS Naturals, Sequences, FiniteSets

\* A key nobody has added to, with or without its group.
EmptyStream(grp) ==
  [log |-> <<>>, live |-> {}, cursor |-> 0,
   pel |-> [i \in {} |-> i], members |-> {}, grp |-> grp]

\* createGroup(key, group, "$"): the group starts after the newest entry; the
\* error for a group that exists already is swallowed.
XgroupCreate(s) == IF s.grp THEN s ELSE [s EXCEPT !.grp = TRUE, !.cursor = Len(s.log)]

\* The IDs MAXLEN ~ maxLen may drop up to: whole nodes go, and never so many
\* that fewer than maxLen entries stay.
TrimPoints(s, maxLen) ==
  {j \in 0..Len(s.log) : j = 0 \/ Cardinality({i \in s.live : i > j}) + 1 >= maxLen}

\* push: XADD key MAXLEN ~ maxLen *; j is the trim point.
Xadd(s, m, j) ==
  [s EXCEPT !.log  = Append(@, m),
            !.live = {i \in @ \cup {Len(s.log) + 1} : i > j}]

\* The entries the group has not seen yet.
Unread(s) == {i \in s.live : i > s.cursor}

\* The ID that XREADGROUP ... COUNT 1 > delivers.
IsNext(s, i) == s.grp /\ i \in Unread(s) /\ \A j \in Unread(s) : i <= j

\* Mutant of Xreadgroup: the group's cursor is not advanced.
XreadgroupStuck(s, i, consumer) ==
  [s EXCEPT !.members = @ \cup {consumer},
            !.pel = [p \in DOMAIN @ \cup {i} |->
                       IF p = i THEN [owner |-> consumer, idle |-> 0, cnt |-> 1]
                                ELSE @[p]]]

\* pull(..., ">"): the entry becomes pending for the consumer.
Xreadgroup(s, i, consumer) ==
  [s EXCEPT !.cursor = i,
            !.members = @ \cup {consumer},
            !.pel = [p \in DOMAIN @ \cup {i} |->
                       IF p = i THEN [owner |-> consumer, idle |-> 0, cnt |-> 1]
                                ELSE @[p]]]

Pending(s, i) == i \in DOMAIN s.pel

\* ack: the caller is told whether the entry was still pending (Pending).
Xack(s, i) == [s EXCEPT !.pel = [p \in DOMAIN @ \ {i} |-> @[p]]]

\* del: the entry goes, its place in the pending entries list stays.
Xdel(s, i) == [s EXCEPT !.live = @ \ {i}]

\* claim: an entry that no longer exists is dropped from the pending list;
\* one that is idle for less than minIdle is left alone; otherwise it changes
\* owner, its idle time restarts and its delivery count grows.
Xclaim(s, i, consumer, minIdle) ==
  IF i \notin DOMAIN s.pel THEN s
  ELSE IF i \notin s.live THEN Xack(s, i)
  ELSE IF s.pel[i].idle < minIdle THEN s
  ELSE [s EXCEPT !.members = @ \cup {consumer},
                 !.pel[i] = [owner |-> consumer, idle |-> 0, cnt |-> @.cnt + 1]]

\* Time passes: idle times grow; past the cap every threshold is exceeded.
Older(e, cap) == [e EXCEPT !.idle = IF @ < cap THEN @ + 1 ELSE @]
Age(s, cap) == [s EXCEPT !.pel = [p \in DOMAIN @ |-> Older(@[p], cap)]]
=============================================================================
