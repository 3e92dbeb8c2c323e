---------------------------- MODULE MessageCodec ----------------------------
(***************************************************************************)
(* How messages become bytes and messages again.  A message object counts  *)
(* its length and the lengths of its strings and vectors, serializes them  *)
(* in front of its members and reads them back.  A client may assign,      *)
(* count and send one object several times; the servers keep one object    *)
(* per thread and type, deserialize every request of that type into it,    *)
(* and forward the bytes in a carrier to a service that reads them into    *)
(* an object of its own.  A primitive member is one cell, a string or a    *)
(* vector of primitives a sequence of cells.                               *)
(***************************************************************************)
EXTENDS Naturals, Sequences, SequencesExt

CONSTANTS Types,      \* the types the clients and services send
          Registered, \* the types a server has registered an object for
          NameOf,     \* the MSG_NAME of each type: a string
          Texts,      \* what a string or a vector of primitives may hold
          TextLists,  \* what a vector of strings may hold
          Junk,       \* a cell nobody has written
          MaxSends, MaxCounts

VARIABLES msg,      \* the sender's object, its type and the phase of its use
          obj,      \* mMessageTypes of one thread: an object per registered type
          sends,    \* messages sent
          recounted,\* the types of which an object counted more than once was sent
          got       \* what the last message sent was read as

codecVars == <<msg, obj, sends, recounted, got>>

-----------------------------------------------------------------------------
(* The members of each type in the order count, serialize and deserialize    *)
(* list them: "num" is a primitive, "text" a string or vector of primitives, *)
(* "texts" a vector of strings.                                              *)

Nums(n) == [i \in 1..n |-> "num"]

CustomMembers ==
  [TimestampMessage   |-> <<"num">>,
   HeartBeatPacket    |-> <<"num">>,
   TestVecNormal      |-> <<"text", "text">>,
   TestStringsMessage |-> <<"num", "text", "texts">>,
   MessagesPacker     |-> <<"texts">>,
   CLoginMessage      |-> <<"num", "text", "text">>,
   SLoginMessage      |-> <<"num", "text">>]

LoginMembers ==
  [CharacterBaseInfo            |-> <<"text">> \o Nums(4),
   LoginRequestMessage          |-> <<"num", "text", "text">>,
   LoginResponseMessage         |-> <<"num", "text", "text", "num", "text", "num", "texts">>,
   LoginCharacterRequestMessage |-> <<"num", "text", "text", "text">> \o Nums(3)]

GameMembers ==
  [DSLoadOrUploadCharacterMessage |-> <<"num", "num", "text", "text", "text">>,
   DSMessage                      |-> Nums(4) \o <<"text">>,
   CharacterInfo                  |-> <<"text", "text">> \o Nums(16)]

GatewayMembers ==
  [EnterGameRequestMessage  |-> <<"num", "text", "text">>,
   EnterGameResponseMessage |-> <<"num">>,
   ChatRequestMessage       |-> <<"num", "text", "text", "text", "text">>]

MembersOf ==
  [t \in UNION {DOMAIN CustomMembers, DOMAIN LoginMembers, DOMAIN GameMembers, DOMAIN GatewayMembers} |->
     CASE t \in DOMAIN CustomMembers -> CustomMembers[t] [] t \in DOMAIN LoginMembers -> LoginMembers[t]
       [] t \in DOMAIN GameMembers -> GameMembers[t] [] OTHER -> GatewayMembers[t]]

\* The values members may be assigned: primitives differ by place.
Places(t, kind) == {i \in DOMAIN MembersOf[t] : MembersOf[t][i] = kind}
Assigned(t, text, texts) ==
  [i \in DOMAIN MembersOf[t] |->
     CASE MembersOf[t][i] = "num" -> 10 + i [] MembersOf[t][i] = "text" -> text[i] [] OTHER -> texts[i]]
FieldsOf(t) ==
  {Assigned(t, c[1], c[2]) : c \in [Places(t, "text") -> Texts] \X [Places(t, "texts") -> TextLists]}

\* A type a server reads has no vector of strings: the readers' registrations
\* (LoginServer.h:28-31, GameServer.h:33-36, GatewayServer.h:31-33) name none that does.
ASSUME CodecAssumption ==
  /\ Registered \subseteq Types /\ Types \subseteq DOMAIN MembersOf
  /\ \A t \in Types : NameOf[t] \in Seq(Nat)
  /\ Texts \subseteq Seq(Nat) /\ TextLists \subseteq Seq(Texts)
  /\ \A t \in Registered : ~Contains(MembersOf[t], "texts")
  /\ MaxSends \in Nat /\ MaxCounts \in Nat

\* A new object: its MSG_LEN, ARRAY_LIKE_LENGHTS, ARRAY_LIKE_S_SIZE, mArrayLikeIndex.
NewObject(t, fields) ==
  [type |-> t, name |-> NameOf[t], fields |-> fields,
   len |-> 0, lengths |-> <<>>, size |-> 0, index |-> 0]
Unset(t) == [i \in DOMAIN MembersOf[t] |-> IF MembersOf[t][i] = "num" THEN Junk ELSE <<>>]

-----------------------------------------------------------------------------
(* count and serialize *)

\* The lengths countLength pushes for a member, and the cells pushMember copies.
LengthsOf(kind, v) ==
  CASE kind = "num" -> <<>> [] kind = "text" -> <<Len(v)>> [] OTHER -> [i \in DOMAIN v |-> Len(v[i])]
CellsOf(kind, v) ==
  CASE kind = "num" -> <<v>> [] kind = "text" -> v [] OTHER -> FlattenSeq(v)

Body(o) == FlattenSeq([i \in DOMAIN o.fields |-> CellsOf(MembersOf[o.type][i], o.fields[i])])
Counted(o) ==
  <<Len(o.name)>> \o FlattenSeq([i \in DOMAIN o.fields |-> LengthsOf(MembersOf[o.type][i], o.fields[i])])

\* Everything is added to what earlier counts have left.
Count(o) ==
  [o EXCEPT !.lengths = @ \o Counted(o), !.size = @ + Len(Counted(o)),
            !.len = @ + Len(o.name) + 2 + Len(Body(o)) + Len(o.lengths) + Len(Counted(o))]

\* MSG_LEN cells of a new array, as far as they are written.
Serialize(o) ==
  LET cells == <<o.len, o.size>> \o o.lengths \o o.name \o Body(o)
  IN [i \in 1..o.len |-> IF i <= Len(cells) THEN cells[i] ELSE Junk]

-----------------------------------------------------------------------------
(* deserialize: the state of a read is the object and mCursor *)

Slice(data, cursor, n) ==
  [i \in 1..n |-> IF cursor + i <= Len(data) THEN data[cursor + i] ELSE Junk]

\* popMember: a string takes the next length; a vector of strings takes the
\* lengths from mArrayLikeIndex to ARRAY_LIKE_S_SIZE, does not move the index
\* and, like any vector, is appended to what the member holds.
PopNum(st, data, i) ==
  [st EXCEPT !.o.fields[i] = Slice(data, st.cursor, 1)[1], !.cursor = @ + 1]
PopText(st, data, i) ==
  LET n == st.o.lengths[st.o.index + 1]
  IN [o |-> [st.o EXCEPT !.fields[i] = Slice(data, st.cursor, n), !.index = @ + 1],
      cursor |-> st.cursor + n]
PopOne(st, data, i, k) ==
  [o |-> [st.o EXCEPT !.fields[i] = Append(@, Slice(data, st.cursor, st.o.lengths[k]))],
   cursor |-> st.cursor + st.o.lengths[k]]
PopTexts(st, data, i) ==
  LET Pop(s, k) == PopOne(s, data, i, k)
  IN FoldLeft(Pop, st, [k \in 1..(st.o.size - st.o.index) |-> st.o.index + k])

PopMember(st, data, i) ==
  CASE MembersOf[st.o.type][i] = "num"  -> PopNum(st, data, i)
    [] MembersOf[st.o.type][i] = "text" -> PopText(st, data, i)
    [] OTHER -> PopTexts(st, data, i)

\* deserializeHelper: the lengths are appended, the index goes on where it was.
Header(o, data) ==
  LET n == o.index + 1
      lengths == o.lengths \o Slice(data, 2, data[2])
  IN [o |-> [o EXCEPT !.len = data[1], !.size = data[2], !.lengths = lengths, !.index = n,
                      !.name = Slice(data, 2 + data[2], lengths[n])],
      cursor |-> 2 + data[2] + lengths[n]]

\* Mutant of Deserialize: the index starts again, the lengths do not.
DeserializeRewound(o, data) ==
  LET Pop(st, i) == PopMember(st, data, i)
  IN FoldLeft(Pop, Header([o EXCEPT !.index = 0], data), [i \in DOMAIN o.fields |-> i]).o

Deserialize(o, data) ==
  LET Pop(st, i) == PopMember(st, data, i)
  IN FoldLeft(Pop, Header(o, data), [i \in DOMAIN o.fields |-> i]).o

-----------------------------------------------------------------------------
(* The carrier between two services: FILL_2_VEC and FILL_2_THIS go by place. *)

Fill2Vec(c) == <<c.TYPE, c.SERVICE, c.NEXT_SERVICE, c.CLIENT_ID, c.CLIENT_ADDRESS, c.MESSAGE>>

\* Mutant of Fill2This: the address is read before the id.
Fill2ThisSwapped(v) ==
  [TYPE |-> v[1], SERVICE |-> v[2], NEXT_SERVICE |-> v[3], CLIENT_ID |-> v[5],
   CLIENT_ADDRESS |-> v[4], MESSAGE |-> v[6]]

Fill2This(v) ==
  [TYPE |-> v[1], SERVICE |-> v[2], NEXT_SERVICE |-> v[3], CLIENT_ID |-> v[4],
   CLIENT_ADDRESS |-> v[5], MESSAGE |-> v[6]]

-----------------------------------------------------------------------------
NoMessage == [type |-> "none"]

CodecInit ==
  /\ msg = [o |-> NoMessage, phase |-> "sent", counts |-> 0, first |-> <<>>]
  /\ obj = [t \in Registered |-> NewObject(t, Unset(t))]
  /\ sends = 0
  /\ recounted = {}
  /\ got = [type |-> "none"]

\* A sender makes an object and assigns its members.
Make(t, fields) ==
  /\ msg.phase = "sent" /\ sends < MaxSends
  /\ msg' = [o |-> NewObject(t, fields), phase |-> "assigned", counts |-> 0, first |-> <<>>]
  /\ UNCHANGED <<obj, sends, recounted, got>>

\* It assigns the members of the object it has sent again.
Assign(fields) ==
  /\ msg.phase = "sent" /\ sends \in 1..(MaxSends - 1) /\ msg.counts < MaxCounts
  /\ msg' = [msg EXCEPT !.o.fields = fields, !.phase = "assigned"]
  /\ UNCHANGED <<obj, sends, recounted, got>>

\* "call it when members assigned"
CallCount ==
  /\ msg.phase = "assigned"
  /\ msg' = [o |-> Count(msg.o), phase |-> "counted", counts |-> msg.counts + 1,
             first |-> IF msg.counts = 0 THEN Counted(msg.o) ELSE msg.first]
  /\ UNCHANGED <<obj, sends, recounted, got>>

\* The next service reads the bytes into an object of its own.
ReadByService(t, data) == Deserialize(NewObject(t, Unset(t)), data)

\* messageFunc reads a message into the registered object and logs it.
Receive(here) ==
  /\ msg.o.type \in Registered
  /\ obj' = [obj EXCEPT ![msg.o.type] = here]
  /\ recounted' = IF msg.counts > 1 THEN recounted \cup {msg.o.type} ELSE recounted

\* What the servers pass on; the rest they answer or only log.
Forwarded == {"LoginRequestMessage", "LoginCharacterRequestMessage", "DSLoadOrUploadCharacterMessage"}

\* The carrier takes its TYPE from that object and the bytes as they came.
SendRequest ==
  LET t == msg.o.type
      data == Serialize(msg.o)
      here == Deserialize(obj[t], data)
      carrier == Fill2This(Fill2Vec([TYPE |-> here.name, SERVICE |-> "server", NEXT_SERVICE |-> "service",
                                     CLIENT_ID |-> "connection", CLIENT_ADDRESS |-> "address", MESSAGE |-> data]))
  IN /\ t \in Forwarded
     /\ Receive(here)
     /\ got' = [type |-> t, logged |-> here.fields, kind |-> carrier.TYPE, id |-> carrier.CLIENT_ID,
                read |-> ReadByService(t, carrier.MESSAGE).fields]

\* A heartbeat or a dedicated server's message is handled from that object.
SendLocal ==
  LET here == Deserialize(obj[msg.o.type], Serialize(msg.o))
  IN /\ msg.o.type \notin Forwarded
     /\ Receive(here)
     /\ got' = [type |-> msg.o.type, logged |-> here.fields]

\* Any other message is read by the one it is for.
SendOther ==
  LET t == msg.o.type
  IN /\ t \notin Registered
     /\ got' = [type |-> t, read |-> ReadByService(t, Serialize(msg.o)).fields]
     /\ UNCHANGED <<obj, recounted>>

Send ==
  /\ msg.phase = "counted"
  /\ sends' = sends + 1
  /\ msg' = [msg EXCEPT !.phase = "sent"]
  /\ SendRequest \/ SendLocal \/ SendOther

CodecNext ==
  \/ \E t \in Types : \E f \in FieldsOf(t) : Make(t, f)
  \/ (sends > 0 /\ \E f \in FieldsOf(msg.o.type) : Assign(f))
  \/ CallCount
  \/ Send

CodecSpec == CodecInit /\ [][CodecNext]_codecVars

-----------------------------------------------------------------------------
(* Properties *)

Sent == got.type # "none" /\ msg.phase = "sent"

\* BaseMessage.h, count: "call it when members assigned": an object that is
\* assigned, counted and serialized is read back by a new object, even if it was
\* counted before, as long as no string has changed its length since and it
\* holds no vector of strings.
NewReadsBack ==
  Sent /\ got.type \notin Registered \ Forwarded
    /\ (msg.counts = 1 \/ (msg.first = Counted(msg.o) /\ ~Contains(MembersOf[got.type], "texts")))
    => got.read = msg.o.fields

\* The object a server's thread uses for every request of a type reads each one
\* right although it never clears its lengths, until a request of that type
\* arrives from an object that was counted more than once.
RegisteredReadsBack ==
  Sent /\ got.type \in Registered \ recounted => got.logged = msg.o.fields

\* What is sent is read, by a new object and by the one a thread keeps.
ReadsBack == NewReadsBack /\ RegisteredReadsBack

\* Whatever an earlier request has left in the object, the carrier names the
\* type of this one and its connection, by which it is dispatched and answered.
TypeForwarded ==
  Sent /\ got.type \in Registered \cap Forwarded => got.kind = NameOf[got.type] /\ got.id = "connection"
=============================================================================
