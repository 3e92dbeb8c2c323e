-------------------------- MODULE ConnectionOutput --------------------------
(***************************************************************************)
(* The output side of a TcpConnection: its queue, the write interest in    *)
(* the event handler and the copy of it in epoll.  The event loop's thread *)
(* answers heartbeats with send and drains the queue in writeFunc; the     *)
(* stream consumer's thread calls putToBuffer.  Nothing is locked: every   *)
(* access to the queue, to mEvents and every system call is a step.        *)
(***************************************************************************)
EXTENDS Naturals, Sequences, SequencesExt

CONSTANTS LoopMsgs,   \* how many messages the event loop sends
          PutMsgs,    \* how many messages the consumer puts
          Size        \* bytes of a message

VARIABLES queue,    \* mDataQueue of mOutputBuffer: what is left of messages
          events,   \* mEvents has WRITE_EVENT
          epoll,    \* epoll watches EPOLLOUT for this socket
          loop,     \* the event loop's thread: [pc, item, want]
          put,      \* the consumer's thread: [pc, want]
          count,    \* messages so far: [loop, put]
          wire,     \* the bytes written to the socket
          spoilt,   \* a write was refused, or what it left was put behind others
          raced     \* a put overlapped with writeFunc's giving up the interest

vars == <<queue, events, epoll, loop, put, count, wire, spoilt, raced>>

\* A piece of a message: its sender, its number and the bytes left of it.
Piece(who, n) == [who |-> who, n |-> n, from |-> 1]
NoPiece == Piece("loop", 0)
Left(p) == Size - p.from + 1
Taken(p, k) == [i \in 1..k |-> [who |-> p.who, n |-> p.n, byte |-> p.from + i - 1]]

Init ==
  /\ queue = <<>>
  /\ events = FALSE
  /\ epoll = FALSE
  /\ loop = [pc |-> "idle", item |-> NoPiece, want |-> FALSE]
  /\ put = [pc |-> "idle", want |-> FALSE]
  /\ count = [loop |-> 0, put |-> 0]
  /\ wire = <<>>
  /\ spoilt = FALSE
  /\ raced = FALSE

-----------------------------------------------------------------------------
LoopAt(pc) == loop' = [loop EXCEPT !.pc = pc]
Holding(pc, piece) == loop' = [loop EXCEPT !.pc = pc, !.item = piece]

\* IOBuffer::write of the piece held: k bytes are taken and what is left of it
\* is held until it is put back; refused, the piece is lost.
WriteAt(pc, rest, next) ==
  /\ loop.pc = pc
  /\ \/ spoilt' = TRUE /\ LoopAt(next) /\ UNCHANGED wire
     \/ \E k \in 1..Left(loop.item) :
          /\ wire' = wire \o Taken(loop.item, k)
          /\ IF k = Left(loop.item) THEN LoopAt(next)
             ELSE Holding(rest, [loop.item EXCEPT !.from = @ + k])
          /\ UNCHANGED spoilt
  /\ UNCHANGED <<queue, events, epoll, put, count, raced>>

\* Mutant of PutRest: what is left is dropped.
RestDropped(pc, next) ==
  /\ loop.pc = pc
  /\ LoopAt(next)
  /\ UNCHANGED <<queue, events, epoll, put, count, wire, spoilt, raced>>

\* The end of IOBuffer::write: what is left goes to the back of the queue.
PutRest(pc, next) ==
  /\ loop.pc = pc
  /\ queue' = Append(queue, loop.item)
  /\ spoilt' = (spoilt \/ queue # <<>>)
  /\ LoopAt(next)
  /\ UNCHANGED <<events, epoll, put, count, wire, raced>>

\* epoll reports the socket writable: writeFunc takes the first piece.
WriteFuncGet ==
  /\ loop.pc = "idle"
  /\ epoll
  /\ IF queue = <<>> THEN LoopAt("disable") /\ UNCHANGED queue
     ELSE Holding("write", Head(queue)) /\ queue' = Tail(queue)
  /\ raced' = (raced \/ (queue = <<>> /\ put.pc # "idle"))
  /\ UNCHANGED <<events, epoll, put, count, wire, spoilt>>

WriteFuncWrite == WriteAt("write", "writeRest", "idle")
WriteFuncRest == PutRest("writeRest", "idle")

\* The queue was empty: disableWriting.
Disable ==
  /\ loop.pc = "disable"
  /\ events' = FALSE
  /\ LoopAt("update")
  /\ UNCHANGED <<queue, epoll, put, count, wire, spoilt, raced>>

\* EventLoop::update: mEvents is read, then given to epoll.
LoopUpdate ==
  /\ loop.pc = "update"
  /\ loop' = [loop EXCEPT !.pc = "ctl", !.want = events]
  /\ UNCHANGED <<queue, events, epoll, put, count, wire, spoilt, raced>>

LoopCtl ==
  /\ loop.pc = "ctl"
  /\ epoll' = loop.want
  /\ LoopAt("idle")
  /\ UNCHANGED <<queue, events, put, count, wire, spoilt, raced>>

\* send, in a message handler: with an empty queue the message is written
\* directly, otherwise the first piece is written and the message queued.
SendGet ==
  /\ loop.pc = "idle"
  /\ count.loop < LoopMsgs
  /\ count' = [count EXCEPT !.loop = @ + 1]
  /\ IF queue = <<>>
     THEN Holding("direct", Piece("loop", count.loop + 1)) /\ UNCHANGED queue
     ELSE Holding("flush", Head(queue)) /\ queue' = Tail(queue)
  /\ UNCHANGED <<events, epoll, put, wire, spoilt, raced>>

\* With nothing left there is nothing to be enabled.
SendDirect == WriteAt("direct", "directRest", "idle")

\* Mutant of SendDirectRest: the write interest is not set for what is left.
SendDirectSilent == PutRest("directRest", "idle")

SendDirectRest == PutRest("directRest", "enable")

SendFlush == WriteAt("flush", "flushRest", "queue")
SendFlushRest == PutRest("flushRest", "queue")

SendQueue ==
  /\ loop.pc = "queue"
  /\ queue' = Append(queue, Piece("loop", count.loop))
  /\ LoopAt("enable")
  /\ UNCHANGED <<events, epoll, put, count, wire, spoilt, raced>>

SendEnable ==
  /\ loop.pc = "enable"
  /\ events' = TRUE
  /\ LoopAt("update")
  /\ UNCHANGED <<queue, epoll, put, count, wire, spoilt, raced>>

-----------------------------------------------------------------------------
(* putToBuffer on the consumer's thread *)

\* A step of the consumer's thread; raced if the event loop is giving up the interest.
PutStepAt(pc) ==
  /\ put.pc = pc
  /\ raced' = (raced \/ loop.pc = "disable" \/ (loop.pc \in {"update", "ctl"} /\ ~events))
  /\ UNCHANGED <<loop, wire, spoilt>>

PutQueue ==
  /\ PutStepAt("idle")
  /\ count.put < PutMsgs
  /\ count' = [count EXCEPT !.put = @ + 1]
  /\ queue' = Append(queue, Piece("put", count.put + 1))
  /\ put' = [put EXCEPT !.pc = "enable"]
  /\ UNCHANGED <<events, epoll>>

PutEnable ==
  /\ PutStepAt("enable")
  /\ events' = TRUE
  /\ put' = [put EXCEPT !.pc = "update"]
  /\ UNCHANGED <<queue, epoll, count>>

PutUpdate ==
  /\ PutStepAt("update")
  /\ put' = [pc |-> "ctl", want |-> events]
  /\ UNCHANGED <<queue, events, epoll, count>>

PutCtl ==
  /\ PutStepAt("ctl")
  /\ epoll' = put.want
  /\ put' = [put EXCEPT !.pc = "idle"]
  /\ UNCHANGED <<queue, events, count>>

LoopStep ==
  \/ WriteFuncGet \/ WriteFuncWrite \/ WriteFuncRest \/ Disable \/ LoopUpdate \/ LoopCtl
  \/ SendDirect \/ SendDirectRest \/ SendFlush \/ SendFlushRest \/ SendQueue \/ SendEnable
PutStep == PutEnable \/ PutUpdate \/ PutCtl

Next == LoopStep \/ SendGet \/ PutQueue \/ PutStep

Spec == Init /\ [][Next]_vars

\* The threads run on, and epoll reports a writable socket again and again.
FairSpec == Spec /\ WF_vars(LoopStep) /\ WF_vars(PutStep)

-----------------------------------------------------------------------------
(* Properties *)

LoopPcs == {"idle", "write", "writeRest", "disable", "update", "ctl",
            "direct", "directRest", "flush", "flushRest", "queue", "enable"}
Pieces == [who : {"loop", "put"}, n : Nat, from : 1..Size]

\* Every variable has the shape the code gives it; a queued piece has bytes left.
TypeOK ==
  /\ \A i \in DOMAIN queue : queue[i] \in Pieces
  /\ events \in BOOLEAN /\ epoll \in BOOLEAN
  /\ loop \in [pc : LoopPcs, item : Pieces, want : BOOLEAN]
  /\ put \in [pc : {"idle", "enable", "update", "ctl"}, want : BOOLEAN]
  /\ count \in [loop : 0..LoopMsgs, put : 0..PutMsgs]
  /\ wire \in Seq([who : {"loop", "put"}, n : Nat, byte : 1..Size])
  /\ spoilt \in BOOLEAN /\ raced \in BOOLEAN

\* The peer can cut the stream into messages again: as long as no write was
\* refused and nothing it left was put behind others, a message's bytes follow each other,
\* none begins before the last one is complete, and a sender's messages arrive
\* in the order it sent them.
WholeMessages ==
  ~spoilt =>
    \A i \in DOMAIN wire :
      /\ IF wire[i].byte = 1 THEN i = 1 \/ wire[i - 1].byte = Size
         ELSE i > 1 /\ wire[i - 1] = [wire[i] EXCEPT !.byte = @ - 1]
      /\ \A j \in 1..(i - 1) : wire[j].who = wire[i].who => wire[j].n <= wire[i].n

\* TcpConnection.h: "put message into buffer, enable writable": what is queued is
\* written or lost to a refused write, unless a putToBuffer ever ran while
\* writeFunc was giving up the write interest.
QueueDrains == (queue # <<>>) ~> (queue = <<>> \/ raced)
=============================================================================
