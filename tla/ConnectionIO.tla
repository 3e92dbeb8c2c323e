---------------------------- MODULE ConnectionIO ----------------------------
(***************************************************************************)
(* One connection, both ways: MessageFraming cuts the client's stream into *)
(* messages, ConnectionOutput carries the replies.  The event loop's       *)
(* thread reads only when it is not writing.  The handler of a message     *)
(* may send a reply at once, as the heartbeat's does; otherwise the        *)
(* stream consumer's thread puts the reply later.                          *)
(***************************************************************************)
EXTENDS Naturals, Sequences, SequencesExt, FiniteSets

CONSTANTS Lengths, Prefix, MaxRead, WrongLens, LoopMsgs, PutMsgs, Size

ASSUME FramingAssumption ==
  /\ Prefix \in Nat \ {0}
  /\ Lengths \in Seq(Nat) /\ \A m \in DOMAIN Lengths : Lengths[m] >= Prefix
  /\ MaxRead \in Nat \ {0}
  /\ WrongLens \subseteq Nat

ASSUME OutputAssumption == LoopMsgs \in Nat /\ PutMsgs \in Nat /\ Size \in Nat \ {0}

VARIABLES pos, input, incomplete, funcSet, handled, bare,
          queue, events, epoll, loop, put, count, wire, spoilt, raced

In == INSTANCE MessageFraming
Out == INSTANCE ConnectionOutput

inVars == <<pos, input, incomplete, funcSet, handled, bare>>
outVars == <<queue, events, epoll, loop, put, count, wire, spoilt, raced>>
vars == <<inVars, outVars>>

Init == In!Init /\ Out!Init

\* readFunc on the event loop's thread; a handled message may be answered at once.
Read(n) ==
  /\ loop.pc = "idle"
  /\ In!ReadFunc(n)
  /\ \/ UNCHANGED outVars
     \/ handled' # handled /\ Out!SendGet

\* A reply that comes back over the streams answers a handled message.
Reply ==
  /\ count.loop + count.put < Len(handled)
  /\ Out!PutQueue
  /\ UNCHANGED inVars

SetMessageFunc == In!SetMessageFunc /\ UNCHANGED outVars
LoopStep == Out!LoopStep /\ UNCHANGED inVars
PutStep == Out!PutStep /\ UNCHANGED inVars

Next ==
  \/ SetMessageFunc
  \/ \E n \in 1..MaxRead : Read(n)
  \/ Reply
  \/ LoopStep
  \/ PutStep

\* The threads run on, and epoll reports a writable socket again and again.
Spec == Init /\ [][Next]_vars /\ WF_vars(LoopStep) /\ WF_vars(PutStep)

-----------------------------------------------------------------------------
(* Properties *)

\* Both directions have the shape the code gives them; and however the client's
\* stream is cut into chunks, tryGet loses, doubles or moves no byte and the
\* handlers get the messages whole and in order, unless messageFunc was called
\* with nothing but a length buffered.
FramingInv == In!TypeOK /\ Out!TypeOK /\ In!NoByteLost /\ In!WholeUnlessBare

\* Each read event handles a message if a complete one is there, even when
\* the handler was set late or a chunk holds parts of several messages.
ReadHandlesOne == In!ReadHandlesOne

\* The replies on the wire can be cut into messages again and keep each
\* sender's order, until a write is refused or cut short in front of others.
WholeMessages == Out!WholeMessages

\* What is queued is written or lost to a refused write, unless a putToBuffer
\* overlapped with writeFunc's disableWriting.
QueueDrains == Out!QueueDrains
=============================================================================
