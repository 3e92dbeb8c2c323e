# WarringServer: models, checks and proofs

WarringServer is the server side of a multiplayer game, in C++ on Linux. Five
servers share one base library and talk to each other only through Redis and
MongoDB. This directory holds TLA+ modules translated from the source under
`src/`, TLC runs over small instances of them, and proofs that TLAPS checks.
`PROJECT.json` maps every modelling definition to its source lines, and lists
runs, mutants, findings, hazards and theorems. Paths below are relative to
`src/`.

Contents: 1 inventory, 2 modules and code, 3 runs and bounds, 4 fairness,
5 proofs, 6 findings, 7 observations, 8 what is not modelled, 9 plan.

## 1. Inventory

| Component | State | Operations | Correct when |
|---|---|---|---|
| Broker streams (`Broker/RSBrokerHelper.h`) | a Redis stream with one consumer group: entries, cursor, pending list, consumers | push (XADD MAXLEN), createGroup, pull (XREADGROUP ">"), ack, del, claim, pending | an entry goes to one consumer; unread entries leave only by trimming |
| Broker manager (`Broker/RSBrokerManager.cpp`) | snapshot of groups, consumers and pending entries | handlePending: drop a dead letter, acknowledge what is too old, transfer | drops only what is hopeless, and nothing stays pending for ever |
| Request pipeline (`LoginServer/`, `GameServer/`, `DBServer/DBServerGateway.h`) | carriers in four streams, reader threads, consumer threads, connection tables | a front end pushes; a reader pulls, handles, acknowledges, pushes the reply; a front end pulls and puts | a request is executed at most once, answered at most once, and not lost without a fault |
| Database queries (`DBServer/QueryTask.cpp`, `DBServer/db/`) | accounts with their characters arrays, character documents, cached hashes with a TTL | register, login, logout, create and delete a character, enter, upload, last upload | one session per account, one owner per name, a document for every listed character |
| Center server (`CenterServer/ServiceRegistry.h`) and registration (`GameServer/GameServer.cpp`, `GatewayServer/`) | SERVICE_KEYS, address hashes with TTL, load index, miss counts | register, heartbeat, pass of the center, removal, restart | a live service is kept, a dead one is forgotten and not chosen |
| Scene manager (`GameServer/SceneManager.h`, `GameMessageOp.cpp`) | remembered addresses, one sorted set per scene; no lock | register, update, quit, close, from each event loop and the timer | memory and sorted sets agree, players are sent to connected servers, and a server is forgotten by its own connection only |
| Time wheel timer (`Base/utility/Timer.*`) | three wheels of slots, entry queue, saved tasks | add, remove, tick | a task runs at its time, as often as asked, and stops when removed |
| Connection input (`Base/net/TcpConnection.h`, `IOBuffer.h`) | queued chunks, incomplete message | read, tryGet, messageFunc | the handlers get the client's messages, whole and in order |
| Connection output | queue of pieces, write interest, copy of it in epoll | send, putToBuffer, writeFunc | what is queued is written, and messages stay whole |
| Connection lifecycle (`Base/net/TcpServer.h`, `Acceptor.h`, `EventLoopThreadpool.h`, heartbeats) | table, callbacks, descriptors, running loops and the next one, references held by the threads | start of a loop, filter, accept, choice of a loop, insert, set callbacks, end of stream, heartbeat check, borrow | nobody's socket is closed for another; no leak; a closed client leaves the table; the loops share the connections |
| Message serialization (`Base/message/`, the servers' messages) | a message object: fields, lengths, index | count, serialize, deserialize; carriers | what was sent is read back |
| Asynchronous logger (`Base/utility/Logger*.{h,cpp}`) | two buffers per thread, queue and pool of buffers, file | log, swap, queue, collect, write, recycle, stop | a message reaches the file once, in its thread's order |
| Thread pool (`Base/thread/Threadpool.h`, `RThread.inl`) | the pool's queue, threads with queues of their own, results, number of active threads | commit, fetch, run, grow, shrink | every task runs once, and the count of threads is right |

How the parts meet. A client's bytes reach the event loop (connection input),
a handler turns a message into a *carrier* (message serialization) and pushes it
to the DB server's stream. The DB server's reader threads run the query
(database queries) and push the reply, which the front end's consumer thread puts
into the connection (connection output, lifecycle). The timer's thread checks
heartbeats and pushes the logger's buffers. The center publishes a heartbeat,
gateway and game servers answer by EXPIRE and ZADD, and the DB server chooses a
service from the index when a player enters.

What is hard here:

- *Threads without locks*: a connection is used by the acceptor, its event loop,
  the timer and the stream consumer; a logger line by its thread and the
  background thread; the write interest by two threads.
- *Several calls where one is meant*: HSET then EXPIRE, XACK then XADD, two
  MongoDB writes outside their transaction, a check before a change.
- *Crashes* of a DB server between executing, acknowledging and replying; of a
  service during its registration; restarts of the center and the game server.
- *Time*: idle thresholds against slow readers, TTLs against late heartbeats,
  nodes that move between wheels.

`PROJECT.json` lists 40 such places with the property that watches each.

## 2. Modules and code

A step is one call to Redis or MongoDB, one access to state another thread can
see, or one handler where nothing interleaves; a dead letter's XACK and XDEL, a
put of what a short write left, the map access and the ZADD of a registration
are steps of their own. The one search that is a single step although loops may
begin meanwhile is `roundRobinIndex` (`Candidates`). Variables carry the names of
the fields they stand for where there is one. History variables (`effects`,
`inbox`, `granted`, `uploads`, `written`, `owner`, `logged`, `fired`, `base`,
`ran`, `given`) and the flags `late`, `spoilt`, `raced`, `bare`, `early`, `shared`,
`dirty`, `stray`, `overlap`, `recounted` record what a property refers to; at most
a bound on their size guards an action.

| Module | Models |
|---|---|
| `RedisStream` | what `RSBrokerHelper` does to a stream, as operators on a stream record; the approximate trimming of MAXLEN is a choice. Redis 7.2 semantics: a pull sets the idle time, a claim counts a delivery, a claim of a deleted entry removes it from the pending list |
| `RequestPipeline` | clients, the front ends' send and consumer loop, the DB server's start, crash and reader loop, every branch of `handlePending` on a snapshot, and the clock |
| `RequestReply` | the abstract promise: Send, Execute at most once, Deliver at most once and only after Execute |
| `AccountStore` | `QueryTask` over `AccountOp`, `CharacterOp` and `RCache`; a worker is a DB reader thread between two database calls. An upload is numbered when it is pulled (`Pull`), so that two readers can bring two of them to the cache (`UploadCache`) in the wrong order |
| `ServiceRegistry` | registration and heartbeat of a service, `ServiceRegistry::run` and `getLowLoadService` with its unsigned comparison |
| `SceneRegistry` | `SceneManager` and its callers: one event loop per connection and the timer, each access to the map and each Redis call a step; `removeConnection` with its close callback; an address is the port a dedicated server listens at or connects from |
| `TimeWheelTimer` | `NodeFor` is addTimerTask's arithmetic; `Tick` is one pass of the three wheels in the code's order |
| `MessageFraming` | `tryGet` with its copy and take-away forms, and a handler's two calls of it |
| `ConnectionOutput` | `send`, `putToBuffer`, `writeFunc`, and in `IOBuffer::write` the system call and the put of what it left; each access a step |
| `ConnectionIO` | the two composed over one event loop: a handler's reply is sent by the loop that read the request, other replies are put by the consumer's thread |
| `ConnectionLifecycle` | the start of the event loops, the acceptor's filter, `roundRobinIndex` with its modulo arithmetic, `newConnectionFunc`, and the connection's closing by its event loop and by the heartbeat timer, whose check may be lost with the timer's entry; a connection is destroyed when the table, its close callback and the threads have dropped it |
| `MessageCodec` | all message types as lists of member kinds; `Count`, `Serialize`, `Deserialize`; the servers' objects per thread and type |
| `Threadpool` | `RThread::work` of every thread (its loop, `addByLevel`, the drain after it), the pool's constructor and its `work`: mean of the results, `expandThreads`, `shrinkThreads` with `cancelWhenComplete` as three assignments; the user adds tasks and the timer sets the flag at any time |
| `AsyncLogger` | `LoggerLine`, `Logger::run`, `LoggerFile::write`, `stop`; a buffer is the sequence of messages in it |
| `MC...` | constants for TLC |
| `...Proofs` | theorems (section 5): `RegistryProofs` is about both registries, `MessageProofs` about `ConnectionIO` and `MessageCodec`, `TaskProofs` about the thread pool and the timer |
| `SequenceLemmas` | inductions the proofs share: what flattening and summing a sequence do with a longer one |

Where one proof module is about two components, the second one's names say so:
`SceneInit`, `SceneNext` and `SceneSpec`, likewise `Timer...` and `Codec...`.

Definitions commented "Mutant of" are variants of the code with one plausible
error each. Nothing uses them; putting one in the place of the definition it
varies breaks the property named in `PROJECT.json`.

## 3. Runs and bounds

| Run | Shows | Bounds, and why they are enough |
|---|---|---|
| `pipeline` | `PipelineInv`, `AnsweredNotPending`, `DropsOnlyHopeless` (a verdict on an old snapshot is still right when applied), `ImplementsRequestReply`, `PendingDrains`, `LoginAnswered` | a login request that two readers compete for and an upload with a reader of its own; the two DB streams share a group name, which a transfer needs; one fault anywhere; two deliveries, so that a claimed entry becomes a dead letter. Each branch of the manager is taken, and the fault falls between any two calls. 206,816 states. A stream gets one request here: what happens when MAXLEN trims an unread one (`UnreadLostOnlyByTrimming`), when several are pending and when an unroutable one goes round is the matter of the theorems of section 5 |
| `pipeline_transfer` | violation of `TransferredIsHandled` (section 6) | a reader per service, three deliveries |
| `accounts` | `AccountInv`, `CacheNotOlder`, `OneSession`, `NameHasOneOwner`, `ListedHasDocument` | two accounts whose names are the two character names, so that a character collides with a placeholder; two login threads race on any two requests, two game threads enter and upload one character, twice, in either order; at most three of the four are busy at once; one document for each character; one error or crash. 2,300,975 states |
| `registry` | `RegistryInv`, `LiveServiceKept`, `DeadForgotten`, `DeadNotChosen` | one address, started twice; a lifetime of 15 s is three ticks of 5 s, and 7 s rounds to two; two crashes, one restart of the center, which hands out a number again |
| `timer` | `TimerInv`, `RemovedStops`, `ShortRunsOnTime` | a minute of 3 s, an hour of 2 minutes, a day of 2 hours, 14 ticks: more than a day, so every wheel wraps |
| `timer_repeat` | violation of `SavedIsInTheWheel` (section 6) | one task, every minute |
| `connection_io` | `FramingInv`, `WholeMessages`, `ReadHandlesOne`, `QueueDrains` | messages of 3, 2 and 4 bytes behind a length of 2, in chunks of up to 3, so chunks end before, in and after a length; two replies of each sender, 2 bytes each, so every write can be cut; misread lengths include zero, a bare length and more |
| `lifecycle` | `LifecycleInv`, `ClosesOwnSocket`, `ClosedLeaves`, `CloseFindsConnection`, `LoopsShare` | two connections, so that a closed descriptor is given to the other one; two event loops, which begin to run before, between and after the connections; every thread. 284,784 states |
| `scenes` | `SceneInv`, `SentToConnected`, `RemovedByOwner` | two dedicated servers and two ports, at each of which one listens and either may connect, so that a server connects from its own port or from another's; two scenes; the two event loops and the timer; one fault or restart. 4,548,400 states |
| `messages` | `ReadsBack`, `TypeForwarded` | every message type, short and long strings, an empty and a two-element vector, three messages, an object counted up to twice |
| `logger` | `LoggedOnce`, `CrashNeedsRace`, `ReachesFile` | two threads, two messages in all, of a size that fits twice, once or never; a file that rotates after three bytes; one failed or short system call; one buffer of backlog |
| `threadpool` | `PoolInv`, `DivisionNeedsRace`, `FinishesLocalTasks`, `TasksRun` | one thread at first and at most three that count, of at most four made; four tasks whose results make the pool grow, shrink and grow again over the place it left; four timeouts, at any time. 135,363 states. That the number of threads to be made wraps below zero needs a fourth thread that counts; `PoolInv` is proved there as well, and was checked on an instance with `MaxNum` 4, `MaxThreads` 5 and results 2, 0, 2, 3 (3.5 million states) |

Conditional properties say exactly when the code keeps a promise:

- `WholeMessages` until a write was refused or what it left was put behind others,
  `QueueDrains` unless `putToBuffer` overlapped `disableWriting`, `FramingInv`
  until a length was buffered with nothing behind it;
- `CloseFindsConnection` and `CrashNeedsRace` only with two threads in the same
  object, `DivisionNeedsRace` and `FinishesLocalTasks` but for one gap each and, the
  latter, for a thread that ends before it is linked, `TasksRun` but for the second
  gap and for threads that ended before they were linked;
- `CacheNotOlder` lets the cache be older after an entry and an upload overlapped,
  but then the hash has a TTL; it says nothing of a character two uploads of which
  reached the cache in the wrong order, or whose HSET or EXPIRE failed;
- `KnownIsIndexed` and `IndexedIsKnown`, the parts of `SceneInv`, count the
  additions and removals that a thread is about to make, and leave out an address
  that a Redis error or a restart concerned or that was registered while another
  thread was removing it (`dirty`), the second also one that was added without being
  remembered (`stray`). `SentToConnected` leaves out the same, and the addresses that
  were not registered over a connection from them: those of a server that listens
  at one port and connects from another, which nothing removes (section 7);
- `PoolInv` lets `mActiveNum` exceed the threads that serve by those that ended
  before they were linked, and by no more;
- `LoginAnswered` unless the request was trimmed or given up, `LiveServiceKept` and
  `DeadNotChosen` while everyone answers within the tick.

The runs reach the states in which the condition is false (the trimmed request of
`LoginAnswered` excepted, which needs two login requests); section 7 says what
happens then.

Deadlock is checked except where a system may stop: clients that stop sending
(`connection_io`, `lifecycle`, `messages`), bounded time (`timer`,
`timer_repeat`) and a stopped or crashed process (`logger`, `lifecycle`,
`threadpool`).
Symmetry is used only in `accounts` (the threads) and `scenes` (servers with their
ports, and scenes), which have no liveness property. The bounds
`MaxFaults`, `MaxCrashes`, `MaxRestarts`, `MaxLog`, `MaxMsgs`, `MaxSends`,
`MaxCounts`, `MaxUploads`, `MaxDocs`, `MaxBusy`, `MaxTicks`, `MaxSuffix`, `MaxTimeouts`,
`MaxThreads` and `Backlog` stand in guards only.

## 4. Fairness

Weak fairness of a thread's loop body, because every thread of the servers is an
endless loop around blocking calls that return: the readers and consumers of the
streams (`DBServerGateway.h:40`), the manager, the center's pass and the clock;
the event loop and the stream consumer of a connection, with epoll reporting a
writable socket as long as the interest is set; the logger's background thread
and the timer that wakes it. In `ConnectionLifecycle` the heartbeat check of each
connection is strongly fair while it is in the timer: the timer's thread checks
the connections one after the other, so the check of one is not enabled
continuously, but the timer gets to it in each period; a check the timer has
lost never comes. The threads of the pool and the pool's own are weakly fair, the
user who adds tasks and the timer that sets the flag are not. Clients, faults, crashes and restarts are never fair.
The DB server is started, and started again after a crash, by its operator.

## 5. Proofs

All hold for every value of the constants that satisfies the assumptions named in
the modules.

`RequestPipelineProofs` (`ConstantsAssumption`: every request has a service and a
connection, every reader a service; uploads are routable; the transfer threshold
is below the tolerated idle time, as in the configuration).

- `PipelineInvariant`: `Spec => []PipelineInv`. At-most-once is not inductive: it
  needs to know who holds an entry. `PipelineInv` adds `LogsHold` (a stream holds
  only sent requests, a reply stream only replies of executed ones),
  `UnreadUntouched` (past the cursor nothing has happened), `ReaderOwns` (a busy
  reader holds an entry the cursor has passed and no other reader holds; how far
  it got shows in `effects` and the reply log), `FrontOwns` and `AtMostOnce`.
  Lemmas on each stream operator come first; then all steps that change neither
  log nor cursor nor history (`QuietPreserves`: acknowledging, deleting, claiming,
  ageing, the whole manager), then one lemma for each of the five that do.
- `TypeCorrect`, `RoutedAtMostOnce`: consequences.
- `Refinement`: `Spec => ImplementsRequestReply`. Only `SendRequest`,
  `ReaderHandle` and `FrontPut` map to steps of `RequestReply`; all others stutter.

The second half of that module is about the streams. Every step either *keeps* a
stream (same log, a cursor no smaller, everything past it still stored, and only
what lies past it becomes pending) or *adds* to it (XADD with a trim point MAXLEN
allows); `StreamMoves` shows this action by action. The strengthening `StreamInv`
adds to `PipelineInv` that what the manager copied is behind the cursor
(`ItemsRead`, so a dead letter's XDEL hits nothing unread) and that a reader about
to push has its entry off the pending list (`AckedNotPending`).

- `UnreadIsKept`: `Spec => []UnreadLostOnlyByTrimming`, from a bound on how many
  entries can be stored past a trim point. It is proved only: no run has enough
  requests in one stream.
- `AnsweredIsNotPending`: `Spec => []AnsweredNotPending`. The one step that could
  break it pushes a reply; its request is off the list, and `RoutedOnce` says no
  other entry is the same request. An entry that becomes pending was unread, so
  `UnreadUntouched` says its request has not been executed, while `LogsHold` says
  that of every reply has.
- `OnlyHopelessDropped`: `Spec => DropsOnlyHopeless`, an action property. `CopyInv`
  adds to `StreamInv` that the manager's copies are of different entries of one
  stream (`CopiesDiffer`) and that an entry still pending is idle no shorter and
  delivered no less often than its copy says (`CopiesBehind`): readers only read
  ">", so nobody but the manager claims, and it is done with a copy when it claims
  the entry.

`AccountStoreProofs` (`StoreAssumption`), for any accounts, names and reader
threads, between any two of whose database calls another thread may run or any
call may fail.

- `PlaceholdersStay`: `Spec => []AccountInv`; inductive as it stands.
- `SessionsExclude`: `Spec => []OneSession`, and `NamesBelongToOne`:
  `Spec => []NameHasOneOwner`, each relative to `AccountInv`.
- `ListedCharactersExist`: `Spec => []ListedHasDocument`. The property counts the
  deletes that have taken the name off the list but not yet the document; it needs
  `DeletersKnown`, that a worker in the middle of a delete carries nothing but the
  character (so that each is counted once, and a delete never means a placeholder).
- `CacheStaysCurrent`: `Spec => []CacheNotOlder`, for any number of reader threads
  and uploads. Of the documents of one character, only the oldest is ever written
  (`PairInv`). Until uploads of it reach the cache in the wrong order, or a call
  fails: no document and no upload under way is ahead of the latest upload the cache
  was given (`Counted`); a hash that will not expire, and that nobody is about to give
  a TTL, holds that upload (`Current`); and until an entry and an upload overlap, what
  a worker read to fill the cache with is not older than the document (`Newer`).

`RegistryProofs`.

- `CenterFollowsSet`: `Spec => []RegistryInv`. That the center's map follows the set
  needs `CenterTracked`: what a pass still has to look at is in the set, and the
  service being removed is not looked at again.
- `LiveServicesStay`: `Spec => []LiveServiceKept`, if `Lifetime > 1` and
  `MissLimit > 1`. Both hypotheses hold in the code (a lifetime of three ticks,
  `GameServer/GameServConf.h:91`, three misses), and both are needed: TLC refutes the
  property with either set to 1. A server is in the set before it has a hash
  (SADD, HSET, EXPIRE), so a pass in between counts a miss; `ServiceInv` says that
  this miss is the only one, and that between two passes each hash was renewed.

- Of the scenes, for any servers, scenes and ports, and any number of event loops
  inside `SceneManager` at once: `SceneTypeCorrect` (`SceneSpec => []SceneTypeOK`),
  `MemoryAndIndexAgree` (`SceneSpec => []SceneInv`), `PlayersSentToConnected`
  (`SceneSpec => []SentToConnected`) and `ForgottenByOwner`
  (`SceneSpec => RemovedByOwner`). The invariant `SceneIInv` adds to `SceneInv` what a
  thread works on (`CallsInv`: it removes the address of its connection, and only the
  timer closes afterwards), that the owner of a remembered address is connected from
  it, in the table or about to be forgotten (`OwnerInv`), and that nobody takes out
  an address that is remembered again, unless it is `dirty` (`RemovalsInv`).

`ConnectionLifecycleProofs` (`LifecycleAssumption`: finitely many connections, and
at least one loop).

- `ConnectionsEnd`: `Spec => []LifecycleInv`. `ConnInv` says who may refer to a
  connection at which stage: before `insert` only the acceptor, then the table; a
  close callback still bound to a connection out of the table is being run
  (`EndInv`); what a loop, the timer or the consumer holds has its callbacks and is
  not destroyed (`LoopInv`, `TimerInv`, `BorrowerInv`). That descriptors of open
  sockets differ (`CountInv`) needs that the least free one exists (`FreeIsFree`, a
  pigeonhole argument).
- `CloseMissesInCompany`: `Spec => []CloseFindsConnection`, with `UseInv`: as long as
  no two threads shared a connection, the one in it finds it as it left it.
- `SocketsClosedByOwner`: `Spec => ClosesOwnSocket`, with `SocketInv`: without an
  early end, every connection that is not destroyed has its descriptor.
- `LoopsShareEvenly`: `Spec => LoopsShare`, for any number of loops that begin at
  any time. That no loop is two ahead is not inductive: `TurnInv` says that the
  sooner the turn of a running loop comes (`Ahead`), the fewer connections it has,
  by at most one. `RoundRobinNext` says what the modulo arithmetic of
  `roundRobinIndex` picks: the running loop whose turn is next.

`TaskProofs`, of the thread pool:

- `TasksInOnePlace`: `Spec => []PoolInv`. `TaskInv` says without counting that a task
  that was added is in the pool's queue, in one thread's, has run or was cleared,
  and only one of them; `KeptInv` relates the threads that are not told to stop, by
  their places, to what the pool counts in each of its loops, which `PoolThreadInv`
  keeps within their bounds. Such a thread serves or ended before it was linked
  (`LinkInv`, `ThreadInv`), which is what `PoolInv` counts.
- `CancelledFinish`: `Spec => FinishesLocalTasks`: a thread's flags agree with where
  it is, but for the gap (`ThreadInv`).
- `DivisionOnlyInRace`: `Spec => []DivisionNeedsRace`, with `RaceInv`.

and of the timer (`TimerAssumption`: a second wheel of at least two slots, any
other wheels, any requests):

- `NoRunLostOrAdded`: `TimerSpec => []TimerInv`. `WheelOK` says that a task has at most one
  node, in a slot its wheel has, that one-time nodes stay so and that short tasks
  are only in the second wheel; `OnceInv` and `CycleInv` relate the node, the saved
  cycle number and the runs. `MinutePasses` and `HourPasses` show that a wheel that
  wraps moves each node to one of the same task, `SecondPasses` that a node that ran
  is replaced by at most one.
- `RemovalStops`: `TimerSpec => RemovedStops`: a removed task is not saved (`EntryInv`).
- `ShortOnTime`: `TimerSpec => ShortRunsOnTime`. `DueInv` says that the slot of a short
  task is as many slots ahead of the clock as it has seconds left; `NearerSlot` and
  `ThisSlot` are the modulo arithmetic. Nothing of the kind holds of longer tasks
  (section 7).

`MessageProofs`, of the bytes of a connection (`FramingAssumption`: a length of at
least one byte, messages no shorter than their length; `OutputAssumption`), for
any messages, cut into any chunks, and any interleaving of the threads that write:

- `Framing`: `Spec => []FramingInv`. Bytes are numbers in the client's stream, and
  `Run(a, b)` is the sequence of those from a + 1 to b. `FrameInv` says (`Cut`) that
  what was handled are the client's first messages, one run that ends where a
  message ends, and that what `tryGet` put aside and what is queued behind it are
  the run from there to the last byte read; all this until `bare`, that is until
  `messageFunc` found a length and nothing else. The work is in `tryGet`: what its
  loop takes from the chunks is a run, whether it copies or takes away (`Cuts`).
- `ReadsHandle`: `Spec => ReadHandlesOne`, an action property, from `FrameInv`.
- `RepliesWhole`: `Spec => []WholeMessages`. Whole messages on the wire are not
  inductive: the next piece decides whether a message that is half written is
  continued. `OutInv` says that, until `spoilt`, the wire, the piece (or what is left
  of it) that the event loop holds and the queue together are a stream of messages (`Continues`: the first
  piece goes on where the wire stops, every other one begins a message, and each
  sender's numbers go up).

and of the codec (`CodecAssumption`; any names, strings, vectors of strings and any
number of counts and messages):

- `SentIsRead`: `CodecSpec => []ReadsBack`. Neither property is inductive, because
  both speak of the last message only, while an object that a thread keeps reads
  the next one with what earlier ones left in it. `CodecInv` adds that the lengths
  of the sender's object are a sequence of whole counts (`MsgInv`), and that the
  lengths a kept object has not read yet are whole counts of its type, none if no
  message of that type was counted twice (`KeptInv`). `deserialize` is followed
  member by member: where the cursor and the index are when k members were popped
  (`Cursor`, `Index`), and that the fields so far are those of the sender (`Mix`).
- `TypeCarried`: `CodecSpec => []TypeForwarded`.

That no type the servers read has a vector of strings is part of `CodecAssumption`;
the types they register (`LoginServer/LoginServer.h:28`,
`GameServer/GameServer.h:33`, `GatewayServer/GatewayServer.h:31`) have none. The
assumption is needed: an object that is kept appends a vector to the one it read
before (`Base/message/BaseMessage.h:216`).

`AsyncLoggerProofs` (`LoggerAssumption`: a file takes at least a buffer).

- `NullNeedsRace`: `Spec => []CrashNeedsRace`. The pointers of a line are null between
  the push of a full buffer and the next fetch of a standby one. `NullInv` says that
  without a race no thread uses one then: the work buffer is there always, the
  standby one from the fetch to the push, nobody is in the line the background
  thread works on, and no null pointer is queued.
- `WrittenOnce`: `Spec => []LoggedOnce`. `OrderInv` says that, until something fails, is
  stopped or races, the messages of a thread on disk, in the background thread's
  hands, in the queued buffers and in the thread's two buffers are, in this order,
  those it logged, without the one it still has in its hands and those that fit no
  buffer. The standby buffer comes first: `Standby` says that it is empty unless it
  was just swapped with a full one. `SizeInv` leaves a byte free in each, and `HandsInv` says that
  a thread holds the newest of its messages.

Each inductive invariant was checked by TLC on the instance of its run as well.

Every safety invariant and every action property of a passing run is a theorem.
Only model-checked is what needs fairness (`PendingDrains`, `LoginAnswered`,
`DeadForgotten`, `DeadNotChosen`, `QueueDrains`, `ClosedLeaves`, `ReachesFile`,
`TasksRun`), because the prover has no rules for it, and the two violations of
section 6.

Induction over data. The induction theorems of the library take an operator as a
parameter, which the provers cannot instantiate. `SequenceLemmas` states induction
for *sets* instead (`SetInduction`: a set of numbers with 0 and every successor
holds them all), from the least element of a set of numbers, and each proof
names the set of the lengths for which its claim holds. A recursive function is
the CHOOSE of a function that satisfies its equation; that there is one is proved
first (`FlatToExists`, `SumToExists`, and the same for the reads of a message), then
what it gives for a longer sequence. `SelectSeq` and `@@` are opaque to the
provers; the models that are proved about use `FlattenSeq` and `CASE`
instead.

## 6. Findings

- `pipeline_transfer`: the manager claims an idle request for a sibling consumer
  (`Broker/RSBrokerManager.cpp:126`), but consumers only read ">"
  (`DBServer/DBServerGateway.h:40`), which never returns a claimed entry. A
  transferred request is never handled, only acknowledged as too old or dropped.
  `Broker/RSBrokerManager.h:28` says "transfer message to someone customer when
  the idle time is greater than transfer time".
- `timer_repeat`: a node that runs from the minute or the hour wheel is erased
  without `repeatTimerTask` (`Base/utility/Timer.cpp:179`). A repeated task whose
  time falls on a full minute runs once. `Base/utility/Timer.h:5` says
  "Repetitive tasks will be saved and woken up at the right time repeatedly".

## 7. Observations

Behaviour of the code that the models show and that no document contradicts:

- *Pipeline.* The manager may acknowledge a request as too old while a slow
  reader executes it; the reader's XACK then returns 0 and no reply is pushed
  (`DBServerGateway.h:66`). A request with an unknown CODE goes back to the
  stream it came from for ever (`QueryTask.cpp:494`).
- *Accounts.* Two creations of one character at once list it twice, each with a
  document. Entering reads the document and writes it into the cache later
  (`QueryTask.cpp:307`): an upload in between leaves the cache older than the
  document. A last upload acts on the cache and the documents in an order
  (`QueryTask.cpp:470`, `:489`) in which a later entry can read older data. Two
  reader threads of one stream can bring two uploads of a character to the cache, or
  to the document, in the other order.
- *Registry.* `TTL` answers -2 for an expired hash, which compares as a large
  number (`QueryTask.cpp:28`). A removal can act on an EXISTS that is no longer
  true; a service late by a lifetime never comes back, because EXPIRE does not
  create a key; one that dies between HSET and EXPIRE is never given up.
- *Scenes.* A dedicated server is registered under the port it listens at, and
  removed and updated under the port it connected from
  (`GameMessageOp.cpp:98`, `:84`, `GameServer.cpp:48`, against
  `GameMessage.h:14-15`): one that quits stays in the sorted set, and one whose
  connection uses another's listening port removes that one. `SceneManager` has no
  lock (`SceneManager.h:21`, `:35`): a ZREM can follow another thread's ZADD of the
  same address, which is then remembered and not indexed, and a registration that a
  close overtakes leaves the address in the sorted set. A second close of a
  connection, by its event loop after the timer's or the other way round, follows a
  null pointer if the first has ended (`TcpServer.h:195`).
- *Input.* When exactly a length is buffered, the copying `tryGet` moves it out
  of the buffer (`TcpConnection.h:159`) and the rest of the message is misread.
  One message is handled per read event, so a second one waits for more bytes.
- *Output.* The rest of a short write goes behind other messages
  (`IOBuffer.h:135`); a reply put while the loop gives up the write interest can
  wait for ever (`TcpConnection.h:271`).
- *Lifecycle.* A connection that ends before its callbacks are set closes its
  descriptor twice (`TcpConnection.h:284`). Two threads may close one
  connection. A request stores the time at which its thread's message object was
  made (`LoginMessageOp.cpp:185`), so the heartbeat check may close a connection
  in use.
  A connection accepted before any event loop runs is dropped with its socket
  open (`TcpServer.h:166`). Once the timer has lost a heartbeat check nobody
  looks at that connection again.
- *Thread pool.* A thread runs as soon as it is made, before it is linked to the
  queue, and ends at once if it is quicker (`RThread.inl:259`): the pool counts it and
  never replaces it. A timeout between the
  end of an adjustment and the next read of the flag divides by zero. A cancelled
  thread that looks between `mRunning = false` and `mWipe = true` leaves its tasks.
  A timeout during an adjustment is lost. Holes are looked for only up to
  `mActiveNum`, against the comment at `Base/thread/Threadpool.h:110`; with results
  such as 2, 0, 2, 3 and at most four threads the count of threads still to make
  wraps around below zero. `mRunning` of the pool is never set to false, so its
  thread is never joined.
- *Timer.* A task of more than a minute can run up to a minute early, and one
  that goes through the hour wheel late.
- *Messages.* An object counted twice, as in `testLoginClient.cpp:91`, carries its
  lengths twice; a reused object on a server then reads that type wrongly. A
  vector of strings is read correctly only by a fresh object.
- *Logger.* A thread that logs while its line is collected can meet a null buffer
  (`LoggerLine.cpp:11`; README.md:22 says "so no need mutex"). A short write
  repeats the beginning of the buffer (`LoggerFile.cpp:105`), a failed open loses
  it (`Logger.cpp:75`), `stop` loses what is buffered, and a message of a whole
  buffer is dropped (`LoggerLine.cpp:23`).

## 8. What is not modelled

- Data races inside standard containers have no bounded set of outcomes: a call
  on a container is a step. `SceneManager`'s map, which several threads change, and
  the logger's queues before the constructor has finished (`Logger.h:37` starts the
  thread first) are such.
- An event that reports both input and output calls the write callback after the
  read callback, which may have closed the connection (`EventHandler.h:42`); the
  lifecycle ends a connection in one event, and the output ends with it.
- Redis and MongoDB are external; their calls succeed, or fail with an exception,
  and what they do is taken from how the code uses them.
- The poll(2) poller, socket options, the choices of a loop by load, formatting of times and log lines, the command line, random test data,
  configuration constants, and the broker's producer and consumer wrappers, which
  only test programs use.
- Of the thread pool, which no server uses: the commands STOP, RESUME, CANCEL and
  UPDATE_DATA, which nothing sends; tasks without a result, which take the same
  path; the destructor, which waits for a thread that never ends; and reads of
  members before they are constructed, since the thread is started first.

## 9. Plan

Done, in this order: `RedisStream` and `RequestPipeline` with `RequestReply`,
`AccountStore`, `ServiceRegistry`, `TimeWheelTimer`, `MessageFraming`,
`ConnectionOutput` and `ConnectionIO`, `ConnectionLifecycle`, `SceneRegistry`,
`MessageCodec`, `AsyncLogger`, `Threadpool`; then the proofs, about the pipeline,
both registries, the account store, the connections' lifecycle, the thread pool and
the timer, the logger, and last what takes induction: the bytes of a connection,
the codec and the order of the log.

Left, and of less weight: the commands of the thread pool that nothing sends, the
broker's producer and consumer wrappers of the test programs, and the choices of
an event loop by load, should a server come to use them.
