------------------------ MODULE ConnectionLifecycle ------------------------
(***************************************************************************)
(* From accept to close: the acceptor's thread picks an event loop, makes  *)
(* a TcpConnection, puts it into the loop's epoll, into the table and      *)
(* gives it its callbacks; the event loop closes it at the end of the      *)
(* stream; the timer thread closes it when its heartbeat is late; the      *)
(* stream consumer borrows it to put a reply.  A connection lives as long  *)
(* as the table, its own close callback (bound to a shared_ptr to it) or a *)
(* thread refers to it.                                                    *)
(***************************************************************************)
EXTENDS Naturals, FiniteSets, FiniteSetsExt

CONSTANTS Conns,         \* connections, each accepted at most once
          ThreadNum,     \* mThreadNum of EventLoopThreadpool
          HasCloseFunc   \* TcpServer::mCloseFunc is set (the game server)

None == "none"   \* no connection

ASSUME LifecycleAssumption ==
  /\ IsFiniteSet(Conns) /\ None \notin Conns
  /\ ThreadNum \in Nat \ {0}
  /\ HasCloseFunc \in BOOLEAN

Loops == 0..(ThreadNum - 1)

VARIABLES stage,   \* how far newConnectionFunc got with a connection
          peer,    \* "open" or "closed"
          fd,      \* the connection's descriptor, 0 before accept
          open,    \* connections whose descriptor is theirs and open
          table,   \* mTcpConnections
          closer,  \* mCloseFunc: "unset", "bound" to the connection, or "reset"
          fresh,   \* connections with a message since the last heartbeat check
          looping,   \* event loops that run
          nextIndex, \* mNextIndex
          given,     \* Loops -> connections given since the last loop began to run
          onLoop,    \* the loop of a connection, or NoLoop
          due,       \* connections whose heartbeat check is in the timer
          loop,      \* Loops -> the thread, [pc, c]
          timer, borrower,  \* threads: [pc, c]
          gone,    \* destroyed connections
          early,   \* connections closed before they had their callbacks
          shared,  \* some connection was in use by two of these threads at once
          crashed  \* a reset pointer was dereferenced

poolVars == <<looping, nextIndex, given, onLoop>>
vars == <<stage, peer, fd, open, table, closer, fresh, poolVars, due, loop, timer, borrower, gone, early, shared, crashed>>

NoLoop == ThreadNum   \* no event loop: index -1
Idle == [pc |-> "idle", c |-> None]

Init ==
  /\ stage = [c \in Conns |-> "none"]
  /\ peer = [c \in Conns |-> "open"]
  /\ fd = [c \in Conns |-> 0]
  /\ open = {} /\ table = {} /\ fresh = {} /\ gone = {}
  /\ closer = [c \in Conns |-> "unset"]
  /\ looping = {} /\ nextIndex = 0 /\ given = [l \in Loops |-> 0]
  /\ onLoop = [c \in Conns |-> NoLoop]
  /\ due = {}
  /\ loop = [l \in Loops |-> Idle] /\ timer = Idle /\ borrower = Idle
  /\ early = {} /\ shared = FALSE /\ crashed = FALSE

\* ::close(fd) of c's descriptor: whoever has that number now.
WithoutFd(c) == {d \in open : fd[d] # fd[c]}

-----------------------------------------------------------------------------
(* The event loops' threads begin *)

Loop(l) ==
  /\ ~crashed
  /\ l \notin looping
  /\ looping' = looping \cup {l}
  /\ given' = [k \in Loops |-> 0]
  /\ UNCHANGED <<stage, peer, fd, open, table, closer, fresh, nextIndex, onLoop, due, loop, timer, borrower, gone, early, shared, crashed>>

-----------------------------------------------------------------------------
(* The acceptor's thread *)

Settled == {"none", "refused", "dropped", "done"}
Accepting == {c \in Conns : stage[c] \notin Settled}
At(c, from, to) == stage[c] = from /\ stage' = [stage EXCEPT ![c] = to]

\* accept takes the lowest free descriptor.
Free == Min({n \in 1..Cardinality(Conns) : n \notin {fd[d] : d \in open}})

\* Mutant of Candidates: the search does not wrap around.
CandidatesBelow(start, tmp) == {i \in start..(ThreadNum - 1) : i \in looping}

\* The values of i at which roundRobinIndex finds an active loop.  (It asks each
\* loop in turn; one that begins to run meanwhile may be missed.)
Candidates(start, tmp) == {i \in start..(tmp + ThreadNum - 1) : i % ThreadNum \in looping}

\* roundRobinIndex: the index, NoLoop for -1, and mNextIndex after it.
RoundRobin ==
  LET tmp   == nextIndex + 1
      found == Candidates(tmp % ThreadNum, tmp)
  IN [index |-> IF found = {} THEN NoLoop ELSE Min(found) % ThreadNum,
      next  |-> IF found = {} THEN tmp % ThreadNum ELSE Min(found) % ThreadNum]

\* connFunc: the filter refuses the client, whose address may be in the
\* blacklist, and its socket is closed again.
Refuse(c) ==
  /\ ~crashed
  /\ Accepting = {}
  /\ At(c, "none", "refused")
  /\ UNCHANGED <<peer, fd, open, table, closer, fresh, poolVars, due, loop, timer, borrower, gone, early, crashed, shared>>

\* newConnectionFunc: without a loop it returns, and the socket stays open; else
\* the constructor of TcpConnection registers it with the event loop.
Accept(c) ==
  /\ ~crashed
  /\ Accepting = {}
  /\ At(c, "none", IF RoundRobin.index = NoLoop THEN "dropped" ELSE "polled")
  /\ fd' = [fd EXCEPT ![c] = Free]
  /\ open' = open \cup {c}
  /\ nextIndex' = RoundRobin.next
  /\ onLoop' = [onLoop EXCEPT ![c] = RoundRobin.index]
  /\ given' = [l \in Loops |-> IF l = RoundRobin.index THEN given[l] + 1 ELSE given[l]]
  /\ UNCHANGED <<peer, table, closer, fresh, looping, due, loop, timer, borrower, gone, early, crashed, shared>>

Insert(c) ==
  /\ ~crashed
  /\ At(c, "polled", "inserted")
  /\ table' = table \cup {c}
  /\ UNCHANGED <<peer, fd, open, closer, fresh, poolVars, due, loop, timer, borrower, gone, early, crashed, shared>>

\* connNameFunc registers the heartbeat check; then setMessageFunc.
SetMessageFunc(c) ==
  /\ ~crashed
  /\ At(c, "inserted", "handled")
  /\ due' = due \cup {c}
  /\ UNCHANGED <<peer, fd, open, table, closer, fresh, poolVars, loop, timer, borrower, gone, early, crashed, shared>>

SetCloseFunc(c) ==
  /\ ~crashed
  /\ At(c, "handled", "done")
  /\ closer' = [closer EXCEPT ![c] = "bound"]
  /\ UNCHANGED <<peer, fd, open, table, fresh, loop, timer, borrower, gone, early, crashed, shared, poolVars, due>>

-----------------------------------------------------------------------------
(* The end of a connection *)

Holds(t, c) == t.c = c

\* Mutant of Destroy: never.
DestroyNever(c, last) == UNCHANGED <<gone, open>>

\* The destructor, when nobody refers to c any more: epoll and the descriptor.
Destroy(c, last) ==
  /\ gone' = IF last THEN gone \cup {c} ELSE gone
  /\ open' = IF last THEN WithoutFd(c) ELSE open

\* removeConnection, first half: getName of the bound pointer, and erase.
Erase(c) == table' = table \ {c}

\* Mutant of Reset: the pointer is not reset.
ResetForgotten(c) == UNCHANGED closer

\* ... second half: the server's mCloseFunc uses the pointer, and it is reset.
Reset(c) == closer' = [closer EXCEPT ![c] = "reset"]

\* Mutant of Close: the socket is closed besides the callback.
CloseSocketToo(c) ==
  \/ closer[c] = "unset" /\ open' = WithoutFd(c) /\ early' = early \cup {c} /\ UNCHANGED <<table, crashed>>
  \/ closer[c] = "reset" /\ crashed' = TRUE /\ UNCHANGED <<open, table, early>>
  \/ closer[c] = "bound" /\ Erase(c) /\ open' = WithoutFd(c) /\ UNCHANGED <<early, crashed>>

\* closeFunc and activeClose on connection c.
Close(c) ==
  \/ /\ closer[c] = "unset"
     /\ open' = WithoutFd(c)
     /\ early' = early \cup {c}
     /\ UNCHANGED <<table, crashed>>
  \/ /\ closer[c] = "reset"
     /\ crashed' = TRUE
     /\ UNCHANGED <<open, table, early>>
  \/ /\ closer[c] = "bound"
     /\ Erase(c)
     /\ UNCHANGED <<open, early, crashed>>

FinishClose(c, others) ==
  IF HasCloseFunc /\ closer[c] = "reset"
  THEN crashed' = TRUE /\ UNCHANGED <<closer, gone, open>>
  ELSE /\ Reset(c)
       /\ Destroy(c, c \notin table /\ \A t \in others : ~Holds(t, c))
       /\ UNCHANGED crashed

-----------------------------------------------------------------------------
(* The event loop's thread *)

\* A message of the client reaches its handler, which takes the time: that of
\* the packet for a heartbeat.  A request carries none, so that the handler takes
\* the time its thread's object was made, the start of the server.
Received(c, time) ==
  /\ ~crashed
  /\ c \in open /\ peer[c] = "open"
  /\ stage[c] \in {"handled", "done"}
  /\ loop[onLoop[c]] = Idle
  /\ fresh' = IF time = "now" THEN fresh \cup {c} ELSE fresh \ {c}
  /\ UNCHANGED <<stage, peer, fd, open, table, closer, loop, timer, borrower, gone, early, crashed, shared, poolVars, due>>

Heartbeat(c) == Received(c, "now")

\* In the server's first minute its start is as good as now.
Request(c) == \E time \in {"now", "start"} : Received(c, time)

\* readFunc reads 0 bytes: closeFunc.
EndOfStream(c) ==
  /\ ~crashed
  /\ onLoop[c] \in Loops /\ loop[onLoop[c]] = Idle
  /\ c \in open /\ peer[c] = "closed"
  /\ Close(c)
  /\ loop' = [loop EXCEPT ![onLoop[c]] = IF closer[c] = "bound" THEN [pc |-> "reset", c |-> c] ELSE Idle]
  /\ shared' = (shared \/ c \in {timer.c, borrower.c})
  /\ UNCHANGED <<stage, peer, fd, closer, fresh, timer, borrower, gone, poolVars, due>>

LoopReset(c) ==
  /\ ~crashed
  /\ onLoop[c] \in Loops /\ loop[onLoop[c]] = [pc |-> "reset", c |-> c]
  /\ FinishClose(c, {timer, borrower})
  /\ loop' = [loop EXCEPT ![onLoop[c]] = Idle]
  /\ UNCHANGED <<stage, peer, fd, table, fresh, timer, borrower, early, shared, poolVars, due>>

-----------------------------------------------------------------------------
(* The timer thread: checkHeartbeat, a minute or more after the connection    *)
(* was made.                                                                  *)

\* The timer runs the check and may lose it: a repeated task whose time falls on
\* a full minute is not put back into the wheel.
CheckFind(c) ==
  /\ ~crashed
  /\ timer = Idle
  /\ stage[c] = "done" /\ c \in table
  /\ c \in due
  /\ due' \in {due, due \ {c}}
  /\ timer' = [pc |-> "check", c |-> c]
  /\ shared' = (shared \/ c \in {loop[onLoop[c]].c, borrower.c})
  /\ UNCHANGED <<stage, peer, fd, open, table, closer, fresh, loop, borrower, gone, early, crashed, poolVars>>

\* In time: nothing happens until the next check.
CheckFresh(c) ==
  /\ ~crashed
  /\ timer = [pc |-> "check", c |-> c]
  /\ c \in fresh
  /\ fresh' = fresh \ {c}
  /\ timer' = Idle
  /\ Destroy(c, c \notin table /\ closer[c] # "bound" /\ ~Holds(loop[onLoop[c]], c) /\ ~Holds(borrower, c))
  /\ UNCHANGED <<stage, peer, fd, table, closer, loop, borrower, early, crashed, shared, poolVars, due>>

\* Mutant of CheckLate: the deadline is never reached.
CheckLateKept(c) ==
  /\ ~crashed
  /\ timer = [pc |-> "check", c |-> c]
  /\ c \notin fresh
  /\ timer' = Idle
  /\ UNCHANGED <<stage, peer, fd, open, table, closer, fresh, loop, borrower, gone, early, crashed, shared, poolVars, due>>

CheckLate(c) ==
  /\ ~crashed
  /\ timer = [pc |-> "check", c |-> c]
  /\ c \notin fresh
  /\ Close(c)
  /\ timer' = [pc |-> "reset", c |-> c]
  /\ UNCHANGED <<stage, peer, fd, closer, fresh, loop, borrower, gone, shared, poolVars, due>>

TimerReset(c) ==
  /\ ~crashed
  /\ timer = [pc |-> "reset", c |-> c]
  /\ FinishClose(c, {loop[onLoop[c]], borrower})
  /\ timer' = Idle
  /\ UNCHANGED <<stage, peer, fd, table, fresh, loop, borrower, early, shared, poolVars, due>>

-----------------------------------------------------------------------------
(* The stream consumer: getConnPtrRef, putToBuffer, and the pointer is dropped *)

Borrow(c) ==
  /\ ~crashed
  /\ borrower = Idle
  /\ c \in table
  /\ borrower' = [pc |-> "put", c |-> c]
  /\ shared' = (shared \/ c \in {loop[onLoop[c]].c, timer.c})
  /\ UNCHANGED <<stage, peer, fd, open, table, closer, fresh, loop, timer, gone, early, crashed, poolVars, due>>

GiveBack(c) ==
  /\ ~crashed
  /\ borrower.c = c
  /\ borrower' = Idle
  /\ Destroy(c, stage[c] = "done" /\ c \notin table /\ closer[c] # "bound"
                  /\ ~Holds(loop[onLoop[c]], c) /\ ~Holds(timer, c))
  /\ UNCHANGED <<stage, peer, fd, table, closer, fresh, loop, timer, early, crashed, shared, poolVars, due>>

PeerClose(c) ==
  /\ ~crashed
  /\ stage[c] \notin {"none", "refused"} /\ peer[c] = "open"
  /\ peer' = [peer EXCEPT ![c] = "closed"]
  /\ UNCHANGED <<stage, fd, open, table, closer, fresh, loop, timer, borrower, gone, early, crashed, shared, poolVars, due>>

AcceptorStep(c) == Insert(c) \/ SetMessageFunc(c) \/ SetCloseFunc(c)
LoopStep(c) == EndOfStream(c) \/ LoopReset(c)
TimerStep(c) == CheckFind(c) \/ CheckFresh(c) \/ CheckLate(c) \/ TimerReset(c)

Next ==
  \/ \E l \in Loops : Loop(l)
  \/ \E c \in Conns :
       \/ Refuse(c) \/ Accept(c) \/ AcceptorStep(c) \/ Heartbeat(c) \/ Request(c)
       \/ LoopStep(c) \/ TimerStep(c) \/ Borrow(c) \/ GiveBack(c) \/ PeerClose(c)

Spec == Init /\ [][Next]_vars

\* The threads run on, and a heartbeat check that is in the timer comes up.
FairSpec ==
  /\ Spec
  /\ \A l \in Loops : WF_vars(Loop(l))
  /\ \A c \in Conns : /\ WF_vars(AcceptorStep(c)) /\ WF_vars(LoopStep(c)) /\ WF_vars(GiveBack(c))
                      /\ SF_vars(CheckFind(c))
                      /\ WF_vars(CheckFresh(c) \/ CheckLate(c) \/ TimerReset(c))

-----------------------------------------------------------------------------
(* Properties *)

Thread == [pc : {"idle", "check", "reset", "put"}, c : Conns \cup {None}]

\* Connections that a thread uses.
InUse == {loop[l].c : l \in Loops} \cup {timer.c, borrower.c}

\* Every variable has the shape the code gives it; no two connections share an
\* open descriptor, and a destroyed connection is nowhere.
TypeOK ==
  /\ stage \in [Conns -> {"polled", "inserted", "handled"} \cup Settled]
  /\ peer \in [Conns -> {"open", "closed"}]
  /\ fd \in [Conns -> 0..Cardinality(Conns)]
  /\ \A c, d \in open : fd[c] = fd[d] => c = d
  /\ closer \in [Conns -> {"unset", "bound", "reset"}]
  /\ fresh \cup due \cup early \subseteq Conns
  /\ looping \subseteq Loops /\ nextIndex \in Loops /\ given \in [Loops -> 0..Cardinality(Conns)]
  /\ onLoop \in [Conns -> looping \cup {NoLoop}]
  /\ loop \in [Loops -> Thread] /\ {timer, borrower} \subseteq Thread
  /\ gone \cap (table \cup InUse) = {}
  /\ {shared, crashed} \subseteq BOOLEAN

\* Whatever is still in the table can still be closed: its close callback has
\* not lost its pointer.
ListedCanClose == \A c \in table : closer[c] # "reset"

\* A connection out of the table that no thread uses is destroyed: its close
\* callback, which refers to it, does not keep it alive.
NoLeak ==
  ~crashed => \A c \in Conns :
    stage[c] = "done" /\ c \notin table /\ c \notin InUse => c \in gone

\* The shape of the state, and that the table and the close callbacks agree on
\* which connections live: what is listed can be closed, the rest is destroyed.
LifecycleInv == TypeOK /\ ListedCanClose /\ NoLeak

\* A connection's socket is closed only by the end of that connection, unless a
\* connection was closed before it had its callbacks: then its descriptor is
\* closed twice, the second time perhaps under another connection.
ClosesOwnSocket ==
  [][early' = {} => open \ open' \subseteq gone' \ gone]_vars

\* When the client has closed, the connection leaves the table: at once, or by
\* the heartbeat check if its socket was closed before, by an end before it had
\* its callbacks (its own, or that of the last connection with its descriptor),
\* unless the timer has lost that check; or it came before an event loop ran.
ClosedLeaves ==
  \A c \in Conns :
    stage[c] # "none" /\ peer[c] = "closed"
      ~> \/ stage[c] = "done" /\ c \notin table
         \/ stage[c] = "dropped"
         \/ early # {} /\ c \notin open \cup due
         \/ crashed

\* Connections are spread over the event loops that run: none gets two more than
\* another, although loops are passed over before they run, and a connection is
\* left without a loop (and its socket open for ever) only when none runs.
LoopsShare ==
  [][/\ \A k, l \in looping' : given'[k] <= given'[l] + 1
     /\ \A c \in Conns : stage[c] = "none" /\ stage'[c] = "dropped" => looping = {}]_vars

\* TcpConnection.h, closeFunc: "mCloseFunc should remove this": the close callback
\* finds the connection it is to remove, unless two of the event loop, the timer
\* and the stream consumer used one connection at the same time.
CloseFindsConnection == crashed => shared
=============================================================================
