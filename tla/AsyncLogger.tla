----------------------------- MODULE AsyncLogger -----------------------------
(***************************************************************************)
(* The asynchronous logger.  Each thread writes into the work buffer of    *)
(* its own LoggerLine; a full buffer is swapped with the standby one and   *)
(* queued.  The background thread does the same with every line when the   *)
(* timer has fired, writes queued buffers to the log file and gives them   *)
(* back to a pool.  Nothing locks a line: each call on a buffer pointer or *)
(* a queue is a step of its thread.                                        *)
(***************************************************************************)
EXTENDS Naturals, Sequences, SequencesExt, FiniteSets

CONSTANTS Threads,    \* the threads that log
          Sizes,      \* the lengths of messages
          Capacity,   \* mCapacity of a LoggerBuffer
          FileLimit,  \* mFileSizeLimite
          StandbyMax, \* mStandbyQueueMax
          MaxMsgs,    \* messages of all threads
          MaxFaults,  \* failing system calls
          Backlog     \* filled buffers when the timer fires

ASSUME LoggerAssumption ==
  /\ Sizes \subseteq Nat /\ Capacity \in Nat \ {0} /\ FileLimit >= Capacity
  /\ StandbyMax \in Nat /\ MaxMsgs \in Nat /\ MaxFaults \in Nat /\ Backlog \in Nat

VARIABLES a, b,      \* mLoggerBufferPtrA and B of each line: a buffer or Null
          writer,    \* each thread: [pc, msg]
          back,      \* the background thread: [pc, line, buffer]
          todo,      \* the lines timeoutPushToFile has still to visit
          lines,     \* mThreadIDHashset: the threads with a line
          filled,    \* mFilledLoggerBufferQueuePtr
          standby,   \* how many buffers mEmptyLoggerBufferQueuePtr holds
          timeout,   \* mTimeout
          running,   \* mRunning of the logger and of its file
          disk,      \* what is in the log files
          size,      \* mCurrDataSize
          opened,    \* mFd is a descriptor
          logged,    \* the messages of each thread
          faults, raced, crashed

lineVars == <<a, b, writer, lines, logged>>
fileVars == <<disk, size, opened>>
vars == <<a, b, writer, back, todo, lines, filled, standby, timeout, running, disk, size, opened,
          logged, faults, raced, crashed>>

NoMsg == [t |-> "none", n |-> 0, z |-> 0]
Null == <<NoMsg>>  \* an empty unique_ptr, unlike every buffer
Bytes(buffer) == FoldLeft(LAMBDA x, m : x + m.z, 0, buffer)

Init ==
  /\ a = [t \in Threads |-> <<>>] /\ b = [t \in Threads |-> <<>>]
  /\ writer = [t \in Threads |-> [pc |-> "idle", msg |-> NoMsg]]
  /\ back = [pc |-> "top", line |-> "none", buffer |-> <<>>]
  /\ todo = {} /\ lines = {}
  /\ filled = <<>> /\ standby = 0
  /\ timeout = FALSE /\ running = TRUE
  /\ disk = <<>> /\ size = 0 /\ opened = TRUE
  /\ logged = [t \in Threads |-> <<>>]
  /\ faults = 0 /\ raced = FALSE /\ crashed = FALSE

-----------------------------------------------------------------------------
(* Steps on a line, taken by its own thread or by the background thread *)

\* Mutant of GetEmptyBuffer: an empty pool gives no buffer.
GetEmptyBufferOrNone(t) ==
  IF b[t] # Null \/ standby = 0 THEN UNCHANGED <<b, standby>>
  ELSE b' = [b EXCEPT ![t] = <<>>] /\ standby' = standby - 1

\* The standby buffer, one of the pool or a new one.
GetEmptyBuffer(t) ==
  /\ b' = [b EXCEPT ![t] = IF @ = Null THEN <<>> ELSE @]
  /\ standby' = IF b[t] = Null /\ standby > 0 THEN standby - 1 ELSE standby

Swap(t) ==
  /\ a' = [a EXCEPT ![t] = b[t]]
  /\ b' = [b EXCEPT ![t] = a[t]]

\* The queue takes the pointer, which is null afterwards.
PushFilled(t) ==
  /\ filled' = Append(filled, b[t])
  /\ b' = [b EXCEPT ![t] = Null]

\* LoggerBuffer::push: the message must leave a byte free.
Fits(buffer, msg) == Capacity - Bytes(buffer) > msg.z
Stored(buffer, msg) == IF Fits(buffer, msg) THEN Append(buffer, msg) ELSE buffer

-----------------------------------------------------------------------------
(* pushToBuffer, on the thread that logs *)

At(t, pc) == ~crashed /\ writer[t].pc = pc
Goto(t, pc) == writer' = [writer EXCEPT ![t].pc = pc]

\* findLoggerLine makes a line for a new thread.
Log(t, z) ==
  /\ At(t, "idle") /\ FoldFunction(LAMBDA s, n : n + Len(s), 0, logged) < MaxMsgs
  /\ LET msg == [t |-> t, n |-> Len(logged[t]) + 1, z |-> z]
     IN /\ logged' = [logged EXCEPT ![t] = Append(@, msg)]
        /\ writer' = [writer EXCEPT ![t] = [pc |-> "push", msg |-> msg]]
  /\ lines' = lines \cup {t}
  /\ raced' = (raced \/ back.line = t \/ (t \notin lines /\ todo # {}))
  /\ UNCHANGED <<a, b, back, todo, filled, standby, timeout, running, fileVars, faults, crashed>>

WriterPush(t) ==
  /\ At(t, "push")
  /\ \/ /\ a[t] = Null
        /\ crashed' = TRUE
        /\ UNCHANGED <<a, writer>>
     \/ /\ a[t] # Null
        /\ a' = [a EXCEPT ![t] = Stored(@, writer[t].msg)]
        /\ Goto(t, IF Fits(a[t], writer[t].msg) THEN "idle" ELSE "empty")
        /\ UNCHANGED crashed
  /\ UNCHANGED <<b, back, todo, lines, filled, standby, timeout, running, fileVars, logged, faults, raced>>

WriterGetEmpty(t) ==
  /\ At(t, "empty")
  /\ GetEmptyBuffer(t)
  /\ Goto(t, "swap")
  /\ UNCHANGED <<a, back, todo, lines, filled, timeout, running, fileVars, logged, faults, raced, crashed>>

WriterSwap(t) ==
  /\ At(t, "swap")
  /\ Swap(t)
  /\ Goto(t, "store")
  /\ UNCHANGED <<back, todo, lines, filled, standby, timeout, running, fileVars, logged, faults, raced, crashed>>

\* The second push: a message that does not fit into an empty buffer is dropped.
WriterStore(t) ==
  /\ At(t, "store")
  /\ IF a[t] = Null THEN crashed' = TRUE /\ UNCHANGED a
     ELSE a' = [a EXCEPT ![t] = Stored(@, writer[t].msg)] /\ UNCHANGED crashed
  /\ Goto(t, "queue")
  /\ UNCHANGED <<b, back, todo, lines, filled, standby, timeout, running, fileVars, logged, faults, raced>>

WriterQueue(t) ==
  /\ At(t, "queue")
  /\ PushFilled(t)
  /\ Goto(t, "idle")
  /\ UNCHANGED <<a, back, todo, lines, standby, timeout, running, fileVars, logged, faults, raced, crashed>>

WriterStep(t) ==
  WriterPush(t) \/ WriterGetEmpty(t) \/ WriterSwap(t) \/ WriterStore(t) \/ WriterQueue(t)

-----------------------------------------------------------------------------
(* The background thread: work is timeoutPushToFile and archive, repeated *)

BackAt(pc) == ~crashed /\ back.pc = pc
BackTo(pc) == back' = [back EXCEPT !.pc = pc]

\* The timer's callback, on the thread of the timer.
TimeoutNotify ==
  /\ running /\ ~timeout /\ ~crashed /\ Len(filled) <= Backlog
  /\ timeout' = TRUE
  /\ UNCHANGED <<lineVars, back, todo, filled, standby, running, fileVars, faults, raced, crashed>>

\* The test of mRunning, then the one of mTimeout.
Top ==
  /\ BackAt("top") /\ running
  /\ BackTo(IF timeout THEN "visit" ELSE "wait")
  /\ todo' = IF timeout THEN lines ELSE {}
  /\ UNCHANGED <<lineVars, filled, standby, timeout, running, fileVars, faults, raced, crashed>>

\* pushToQueue, in three steps.  The set of lines has no order.
VisitLine(t) ==
  /\ BackAt("visit") /\ t \in todo
  /\ GetEmptyBuffer(t)
  /\ todo' = todo \ {t}
  /\ back' = [back EXCEPT !.pc = "swap", !.line = t]
  /\ raced' = (raced \/ writer[t].pc # "idle")
  /\ UNCHANGED <<a, writer, lines, logged, filled, timeout, running, fileVars, faults, crashed>>

LineSwap ==
  /\ BackAt("swap")
  /\ Swap(back.line)
  /\ BackTo("queue")
  /\ UNCHANGED <<writer, lines, logged, todo, filled, standby, timeout, running, fileVars, faults, raced, crashed>>

\* Mutant of LineQueue: a buffer that holds little waits for more.
LineQueueFull ==
  /\ BackAt("queue")
  /\ IF Bytes(b[back.line]) < Capacity THEN Swap(back.line) /\ UNCHANGED filled
     ELSE PushFilled(back.line) /\ UNCHANGED a
  /\ back' = [back EXCEPT !.pc = "visit", !.line = "none"]
  /\ UNCHANGED <<writer, lines, logged, todo, standby, timeout, running, fileVars, faults, raced, crashed>>

LineQueue ==
  /\ BackAt("queue")
  /\ PushFilled(back.line)
  /\ back' = [back EXCEPT !.pc = "visit", !.line = "none"]
  /\ UNCHANGED <<a, writer, lines, logged, todo, standby, timeout, running, fileVars, faults, raced, crashed>>

ResetTimeout ==
  /\ BackAt("visit") /\ todo = {}
  /\ timeout' = FALSE
  /\ BackTo("wait")
  /\ UNCHANGED <<lineVars, todo, filled, standby, running, fileVars, faults, raced, crashed>>

\* After a second without a buffer the new, empty one is archived.
WaitAndPop ==
  /\ BackAt("wait")
  /\ back' = [back EXCEPT !.pc = "archive", !.buffer = IF filled = <<>> THEN <<>> ELSE Head(filled)]
  /\ filled' = IF filled = <<>> THEN <<>> ELSE Tail(filled)
  /\ crashed' = (filled # <<>> /\ Head(filled) = Null)
  /\ UNCHANGED <<lineVars, todo, standby, timeout, running, fileVars, faults, raced>>

\* The write loop of LoggerFile::archive.  After a short write the remaining
\* length is written from the beginning of the buffer once more.
Beginning(buffer, n) ==
  SubSeq(buffer, 1, Max({i \in 0..Len(buffer) : Bytes(SubSeq(buffer, 1, i)) <= n}))

Write(fd, from) ==
  LET len == Bytes(back.buffer)
      Part(k) == SubSeq(back.buffer, 1, k)
  IN \/ /\ running /\ fd
        /\ disk' = disk \o back.buffer /\ size' = from + len
        /\ UNCHANGED faults
     \/ /\ running /\ fd /\ faults < MaxFaults /\ faults' = faults + 1
        /\ \E k \in 0..(Len(back.buffer) - 1) :
             \/ /\ k > 0 /\ size' = from + len
                /\ disk' = disk \o Part(k) \o Beginning(back.buffer, len - Bytes(Part(k)))
             \/ disk' = disk \o Part(k) /\ size' = from + Bytes(Part(k))
     \/ /\ ~running \/ ~fd
        /\ size' = from
        /\ UNCHANGED <<disk, faults>>

Full == size + Bytes(back.buffer) > FileLimit

\* A full file is replaced by a new one, which is written without a look at the result.
Archive ==
  /\ BackAt("archive")
  /\ \/ ~Full /\ Write(opened, size) /\ UNCHANGED opened
     \/ Full /\ opened' = TRUE /\ Write(TRUE, 0)
  /\ BackTo("recycle")
  /\ UNCHANGED <<lineVars, todo, filled, standby, timeout, running, raced, crashed>>

\* The descriptor is -1 from now on and the buffer is given up.
CreateFileFails ==
  /\ BackAt("archive") /\ Full /\ faults < MaxFaults
  /\ faults' = faults + 1
  /\ opened' = FALSE
  /\ back' = [back EXCEPT !.pc = "top", !.buffer = <<>>]
  /\ UNCHANGED <<lineVars, todo, filled, standby, timeout, running, disk, size, raced, crashed>>

\* Mutant of Recycle: the buffer is not reset.
RecycleFilled ==
  /\ BackAt("recycle")
  /\ back' = [back EXCEPT !.pc = "top", !.buffer = <<>>]
  /\ standby' = standby
  /\ filled' = IF standby < StandbyMax THEN Append(filled, back.buffer) ELSE filled
  /\ UNCHANGED <<lineVars, todo, timeout, running, fileVars, faults, raced, crashed>>

\* The pool keeps at most StandbyMax buffers, which are reset.
Recycle ==
  /\ BackAt("recycle")
  /\ back' = [back EXCEPT !.pc = "top", !.buffer = <<>>]
  /\ standby' = IF standby < StandbyMax THEN standby + 1 ELSE standby
  /\ UNCHANGED <<lineVars, todo, filled, timeout, running, fileVars, faults, raced, crashed>>

\* Whatever is still in a line or in the queue stays there.
Stop ==
  /\ running /\ ~crashed
  /\ running' = FALSE
  /\ UNCHANGED <<lineVars, back, todo, filled, standby, timeout, fileVars, faults, raced, crashed>>

BackStep ==
  \/ Top \/ (\E t \in Threads : VisitLine(t)) \/ LineSwap \/ LineQueue \/ ResetTimeout
  \/ WaitAndPop \/ Archive \/ CreateFileFails \/ Recycle

Next ==
  \/ \E t \in Threads : (\E z \in Sizes : Log(t, z)) \/ WriterStep(t)
  \/ TimeoutNotify \/ BackStep \/ Stop

Spec == Init /\ [][Next]_vars

\* The threads are scheduled and the timer task repeats until stop.
FairSpec ==
  /\ Spec
  /\ WF_vars(BackStep) /\ WF_vars(TimeoutNotify)
  /\ \A t \in Threads : WF_vars(WriterStep(t))

-----------------------------------------------------------------------------
(* Properties *)

\* No thread logged while the background thread was in its line, no system
\* call failed, and the logger was not stopped.
Undisturbed == ~raced /\ faults = 0 /\ running

\* The messages of thread t; the place of an empty pointer is none of them.
MessagesOf(t) == [t : {t}, n : Nat \ {0}, z : Sizes]

\* The elements of s that are in S, in their order.
Only(s, S) == FlattenSeq([i \in DOMAIN s |-> IF s[i] \in S THEN <<s[i]>> ELSE <<>>])

\* What thread t logged and neither holds in its hands nor is too long.
InHands(t) == IF writer[t].pc \in {"push", "empty", "swap", "store"} THEN {writer[t].msg} ELSE {}
Accepted(t) == Only(logged[t], {m \in MessagesOf(t) : m.z < Capacity} \ InHands(t))

\* All buffers and files, from the oldest message to the newest.
Everywhere(t) ==
  LET hand == IF back.pc = "archive" THEN back.buffer ELSE <<>>
  IN Only(disk \o hand \o FlattenSeq(filled) \o b[t] \o a[t], MessagesOf(t))

\* Two buffers that are swapped, queued, written and recycled lose no message,
\* write none twice and keep the order of each thread (LoggerLine::pushToBuffer,
\* pushToQueue, Logger::archive), and buffers are never larger than mCapacity.
LoggedOnce ==
  /\ Undisturbed => \A t \in Threads : Everywhere(t) = Accepted(t)
  /\ \A t \in Threads : a[t] # Null => Bytes(a[t]) < Capacity

\* A null buffer is only met when a thread logs while the background thread
\* works on the same line without a lock (README: "so no need mutex").
CrashNeedsRace == crashed => raced

\* What was logged comes to the file though the buffer never fills: the timer
\* makes the background thread collect it (Logger::timeoutPushToFile).
ReachesFile ==
  \A t \in Threads, n \in 1..MaxMsgs :
    LET Waiting == /\ Undisturbed /\ n <= Len(logged[t])
                   /\ logged[t][n].z < Capacity
                   /\ logged[t][n] \notin Range(disk)
    IN Waiting ~> ~Waiting
=============================================================================
