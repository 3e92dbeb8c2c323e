--------------------------- MODULE MessageFraming ---------------------------
(***************************************************************************)
(* How a connection cuts the byte stream of its client into messages.      *)
(* IOBuffer::read takes whatever chunk the socket has and queues it,       *)
(* TcpConnection::readFunc calls the server's messageFunc once per chunk,  *)
(* and messageFunc asks tryGet for the length in front of the message and  *)
(* then for the message.  A byte is its position in the client's stream.   *)
(***************************************************************************)
EXTENDS Naturals, Sequences, SequencesExt, FiniteSets

CONSTANTS Lengths,    \* the lengths of the client's messages, prefix included
          Prefix,     \* sizeof(MESSAGE_LENGTH_TYPE)
          MaxRead,    \* mMaxSize of IOBuffer: the longest chunk
          WrongLens   \* lengths that bytes which are no length may be taken for

VARIABLES pos,        \* bytes read from the socket so far
          input,      \* mDataQueue of mInputBuffer: the chunks
          incomplete, \* mIncompleteMessage
          funcSet,    \* the acceptor has called setMessageFunc
          handled,    \* the messages given to the handlers
          bare        \* messageFunc was once called with a bare length buffered

vars == <<pos, input, incomplete, funcSet, handled, bare>>

\* The client's stream: message m is the bytes FirstByte(m)..LastByte(m).
LastByte(m) == FoldLeft(LAMBDA x, y : x + y, 0, SubSeq(Lengths, 1, m))
FirstByte(m) == LastByte(m - 1) + 1
Bytes(from, to) == [i \in 1..(to - from + 1) |-> from + i - 1]
Message(m) == Bytes(FirstByte(m), LastByte(m))
StreamLen == LastByte(Len(Lengths))

\* memcpy into len: the length the client wrote, unless these bytes are no prefix.
LengthsIn(bytes) ==
  LET ms == {m \in DOMAIN Lengths : bytes = Bytes(FirstByte(m), FirstByte(m) + Prefix - 1)}
  IN IF ms = {} THEN WrongLens ELSE {Lengths[m] : m \in ms}

Init ==
  /\ pos = 0
  /\ input = <<>>
  /\ incomplete = <<>>
  /\ funcSet = FALSE
  /\ handled = <<>>
  /\ bare = FALSE

-----------------------------------------------------------------------------
(* tryGet, on the buffered bytes inc and the queued chunks q *)

Result(all, len, takeAway, q) ==
  [res |-> SubSeq(all, 1, len),
   inc |-> IF takeAway THEN SubSeq(all, len + 1, Len(all)) ELSE all,
   q |-> q]

\* The bytes there are once k chunks are taken.
With(inc, q, k) == inc \o FlattenSeq(SubSeq(q, 1, k))

\* Mutant of TryGet: takes one chunk only.
TryGetOne(len, takeAway, inc, q) ==
  IF Len(inc) = len THEN [res |-> inc, inc |-> <<>>, q |-> q]
  ELSE IF Len(inc) > len THEN Result(inc, len, takeAway, q)
  ELSE IF q # <<>> /\ Len(With(inc, q, 1)) >= len THEN Result(With(inc, q, 1), len, takeAway, Tail(q))
  ELSE [res |-> <<>>, inc |-> IF q = <<>> THEN inc ELSE With(inc, q, 1),
        q |-> IF q = <<>> THEN q ELSE Tail(q)]

\* Mutant of TryGet: the bytes after the message go with it.
TryGetAll(len, takeAway, inc, q) ==
  LET all == With(inc, q, Len(q))
  IN IF Len(all) < len THEN [res |-> <<>>, inc |-> all, q |-> <<>>]
     ELSE [res |-> SubSeq(all, 1, len), inc |-> IF takeAway THEN <<>> ELSE all, q |-> <<>>]

\* Exactly len bytes buffered: std::move empties the buffer, taken away or not.
\* Fewer: chunks are appended until there are enough; all of them if never.
TryGet(len, takeAway, inc, q) ==
  LET enough == {k \in 1..Len(q) : Len(With(inc, q, k)) >= len}
      k == CHOOSE x \in enough : \A y \in enough : x <= y
  IN IF Len(inc) = len THEN [res |-> inc, inc |-> <<>>, q |-> q]
     ELSE IF Len(inc) > len THEN Result(inc, len, takeAway, q)
     ELSE IF enough # {} THEN Result(With(inc, q, k), len, takeAway, SubSeq(q, k + 1, Len(q)))
     ELSE [res |-> <<>>, inc |-> With(inc, q, Len(q)), q |-> <<>>]

-----------------------------------------------------------------------------
\* messageFunc of the login, game and gateway servers, with the queue q it
\* finds: a copy of the length, then the message.
MessageFunc(q) ==
  LET t1 == TryGet(Prefix, FALSE, incomplete, q)
      keep(t) == incomplete' = t.inc /\ input' = t.q
  IN \/ /\ t1.res = <<>>
        /\ keep(t1)
        /\ UNCHANGED handled
     \/ /\ t1.res # <<>>
        /\ \E len \in LengthsIn(t1.res) :
             LET t2 == TryGet(len, TRUE, t1.inc, t1.q)
             IN IF len < Prefix THEN keep(t1) /\ UNCHANGED handled
                ELSE /\ keep(t2)
                     /\ handled' = IF t2.res = <<>> THEN handled ELSE Append(handled, t2.res)

\* readFunc: the next n bytes are one chunk; the handler, if set, is called once.
ReadFunc(n) ==
  /\ pos + n <= StreamLen
  /\ pos' = pos + n
  /\ LET q == Append(input, Bytes(pos + 1, pos + n))
     IN IF funcSet
        THEN MessageFunc(q) /\ bare' = (bare \/ Len(incomplete) = Prefix)
        ELSE input' = q /\ UNCHANGED <<incomplete, handled, bare>>
  /\ UNCHANGED funcSet

\* newConnectionFunc sets the handler after the socket is in the event loop.
SetMessageFunc ==
  /\ ~funcSet
  /\ funcSet' = TRUE
  /\ UNCHANGED <<pos, input, incomplete, handled, bare>>

Next == SetMessageFunc \/ \E n \in 1..MaxRead : ReadFunc(n)

Spec == Init /\ [][Next]_vars

-----------------------------------------------------------------------------
(* Properties *)

\* Every variable has the shape the code gives it.
TypeOK ==
  /\ pos \in 0..StreamLen
  /\ \A i \in DOMAIN input : input[i] \in Seq(1..StreamLen) /\ input[i] # <<>>
  /\ incomplete \in Seq(1..StreamLen)
  /\ funcSet \in BOOLEAN /\ bare \in BOOLEAN
  /\ \A i \in DOMAIN handled : handled[i] \in Seq(1..StreamLen)

\* However the stream is cut into chunks, no byte is lost, doubled or moved:
\* what was handled, what is buffered and what is queued is what was read,
\* unless messageFunc was ever called with only a length buffered.
NoByteLost ==
  ~bare => FlattenSeq(handled) \o incomplete \o FlattenSeq(input) = Bytes(1, pos)

\* Each read event handles a message if a complete one is there, even when the
\* handler was set late or chunks hold parts of several messages.
ReadHandlesOne ==
  [][pos' # pos /\ funcSet /\ ~bare' =>
       \/ Len(handled') = Len(handled) + 1
       \/ Len(handled) = Len(Lengths)
       \/ LastByte(Len(handled) + 1) > pos']_vars

\* TcpConnection.h, tryGet: "try to get oldest message which it's length is len,
\* and if there is incomplete data, store it into mIncompleteMessage": the
\* handlers get the client's messages, whole and in order.
MessagesWhole == \A k \in DOMAIN handled : k <= Len(Lengths) /\ handled[k] = Message(k)

\* The same, unless messageFunc was ever called with only a length buffered.
WholeUnlessBare == ~bare => MessagesWhole
=============================================================================
