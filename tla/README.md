# A TLA+ verification of longky

longky is a small C++11 server suite: **tank**, a reactor network library, and
four programs built on it (a static web server, a FastCGI server, a heartbeat
monitor and the CGI programs). This directory holds TLA+ models of its
components, TLC configurations that model-check them on small instances, and
TLAPS proofs of the results that matter most. Paths below are relative to
`src/`. The build is `-g -O0` with no `NDEBUG`, so every `assert` of the code is
live; the models treat a failing assert as a reachable "the program aborts".

## 1. Inventory

| Component | State it keeps | Operations | What makes it hard |
|---|---|---|---|
| `EventLoop` | `quit_`, `pendingFunctors_` (mutex), `callingPendingFunctors_`, an eventfd | `loop`, `quit`, `runInLoop`, `queueInLoop`, `wakeup`, `handleRead`, `doPendingFunctors` | any thread queues and quits while the loop polls, dispatches or runs functors |
| `EventLoopThread`, `EventLoopThreadPool` | `loop_` (mutex + condition), `exiting_`; `next_` | start handshake, destructor, round robin | the loop is published before `loop()` resets `quit_` |
| `Channel`, `EPollPoller`, `PollPoller` | `index_`, `events_`, the channel map, `pollfds_` | update, remove, poll, dispatch | three-state registration; swap-with-last removal; events delivered for a channel that asked for none |
| `TimerQueue`, `Timer` | `timers_`, `activeTimers_`, `cancelingTimers_`, a timerfd | add, cancel, expire, reset | timers cancelled from the callbacks of the batch they expire in |
| `TcpConnection` | `state_`, `closeFlag_`, `dissByPeer_`, two buffers, a channel | send, shutdown, forceClose, handle{Read,Write,Close} | `state_` is tested and set by worker threads without a lock |
| `TcpServer`, `Acceptor` | `connections_`, `idleFd_`, the descriptor table | accept, newConnection, removeConnection, destructor | teardown crosses from an IO loop to the base loop and back; the spare descriptor is given up while other threads open files |
| `TcpClient`, `Connector` | `connect_`, `state_`, retry delay, `connection_` | connect, retry, stop, reconnect | retry timers outlive a stop; reconnect from the DOWN callback |
| `ThreadPool`, `ThreadPl` | bounded task queue, `running_` | put/run, take, stop | bounded buffer with two conditions; stop races blocked producers |
| `AsyncLogging`, `LogFile` | `currentBuffer_`, `nextBuffer_`, `buffers_`, `running_` | append, threadFunc, stop | buffer hand-over between writers and one flusher |
| `Buffer` | reader and writer indices | append, retrieve, makeSpace | index arithmetic |
| `StaticServer` | `numConnected_`, the idle wheel, the worker pool | onConnection, onMessage, onTimer | the input buffer is read by a worker while the loop fills it |
| request parser, redis cache | thread singleton: request, response, redis link | parse, respond, reconnect | state left over from an earlier request |
| `HttpServer`, `HttpContext` | parse state, the request so far | onMessage, parseRequest, onRequest | requests cut anywhere by reads; one request taken per read |
| FastCGI codec | params, stdin, keep flag | onMessage, respond | record splitting, pipelining |
| `cgiServer`, CGI programs | pipes, child processes | accept_request, execute_cgi | children of other workers inherit the ends of a pipe whose end is waited for |
| heartbeat clients, `monitor` | the shared connection, the status list | send, onConnection, display | a connection pointer tested and used on different threads; beats of two timers that one read finds together |
| `MutexLock`, `Condition`, `CountDownLatch`, `Thread`, `ThreadLocalSingleton` | `holder_`, `count_`, `tid_` | lock, wait, notify, countDown, start | `holder_` is kept outside the mutex's own state; the new thread uses an object its creator may delete |
| `Logger`, `LogStream` | `t_time`, `t_lastSecond` per thread, `g_logTimeZone`; a fixed buffer | construct, stream, destruct | a cached time stamp and a zone that another thread sets; text that does not fit |
| `Timestamp`, `Date`, `TimeZone` | none (pure functions) | conversions | calendar arithmetic and boundaries |

## 2. Modules and the code they model

The system is a set of loops and threads. An `EventLoop` polls, dispatches to
channels and runs the functors other threads queue; a `TcpServer` accepts on the
base loop and hands each connection to an IO loop; messages are parsed by the
loop or by a worker of a `ThreadPool`, whose answers come back as functors.
Every module models one component at the grain at which other threads can
interfere: one action per critical section, system call or callback, and a
whole handler where nothing can come between.

| Module | Models | Notes on the correspondence |
|---|---|---|
| `EventLoop` | `netLayer/event/eventloop/EventLoop.cpp` | `pc` is the place of the loop thread in `loop()` and `doPendingFunctors()`; `readable` is the eventfd; `waking` holds the threads between the end of a critical section and their `wakeup()`. |
| `FunctorQueue` | what a queue of functors promises | Abstract: push, pop. `EventLoop` and `ThreadPool` implement it. |
| `EventLoopThread` | `EventLoopThread.cpp`, `Thread.cpp` | Extends `EventLoop` by the owner's `startLoop()` and destructor. After `loop()` has returned the thread sets `loop_` to null, unlocks, destructs its loop and ends, in four steps; `asked` says that someone other than the destructor has called `quit()`, `dangling` which members have been used after their object was gone. |
| `ThreadPool` | `base/thread/ThreadPool.cpp` (`threadPool.h` has the same code) | Workers and producers sleeping on the two conditions are sets; `notify` picks one; wakeups may be spurious; `pthread_create` may fail. |
| `ThreadPl` | `base/thread/threadPool.h`, `MutexLock.h`, `Condition.*`, `CountDownLatch.*`, `Thread.cpp`, `ThreadLocalSingleton.h` | Extends `ThreadPool`: every critical section is its step, around which threads lock, sleep, wake up and unlock one by one. `grain`, chosen at the start, says whether a behaviour has the wrappers. |
| `TcpConnection`, `MCTcpConnection` | `netLayer/tcp/TcpConnection.cpp`, `TcpServer::removeConnection`, `~TcpServer`, `Channel` | One connection. A worker's call is three steps (test `state_`, set it, `queueInLoop`). `usage`, chosen at the start, says who calls what; `MCTcpConnection` defines the usages. `fail` names the assert or the access to a freed object that ends the program. |
| `TimerQueue` | `netLayer/timer` | Time passes between any two steps; callbacks add and cancel timers. `fail` as above. |
| `Poller`, `PollPoller`, `EPollPoller`, `Pollers` | `netLayer/poller`, `Channel` | `Poller` is the abstract one: the kernel watches exactly what the registered channels ask for. `Pollers` is `newDefaultPoller`: `usePoll` (the environment variable `MUDUO_USE_POLL`) says which of the two a behaviour has. `bare` is a channel the poller first meets with no events, as `~Acceptor` of a server that never listened brings it about; `fail` is the assert that ends the program. |
| `AsyncLogging` | `base/log/AyncLogging.*`, `LogFile`, `FileUtil` | Lines are numbers, a notice of dropped lines is 0 in the file; `fwrite` may write short with or without an error; a write-out of stdio's buffer, in `fwrite`, `fflush` or `fclose`, may fail, which the code ignores (`lost`, `ignored`). |
| `LogLines` | how `AsyncLogging` accounts for lines | Operators: the order of the lines in the file and in the buffers behind it, the lines held, the gaps and the notices of a file. |
| `LogStream` | `base/log/LogStream.*` | A piece of text is its length, a number its digits; a buffer takes a piece as a whole or not at all. `AsDouble` and `RoundsQuotient` are the conversion to `double` and the quotient of two in `formatSI`. |
| `Logging` | `base/log/Logging.*` | Extends `AsyncLogging` and `LogStream` by the loggers of several threads. `part` says what a behaviour is about: a line, the time stamps, or the writer. |
| `TcpClient` | `netLayer/tcp/c`, the heartbeat of `webServer/start_up.cpp` | One base loop, iteration by iteration; a thread that sends through a weak pointer; `stop()` at any point. |
| `Acceptor` | `netLayer/tcp/s/Acceptor.cpp`, `TcpServer::start`, `EventLoopThreadPool` | The four system calls of the EMFILE branch are four steps; `fds` is the descriptor table, in which other threads take and release. |
| `ExecuteCgi` | `cgiServer/parseRequest.cpp`, `cgiServer/src/*.cpp` | The workers of the CGI server and their children. `pipes` says which processes have which end open: a child inherits every end the server has when it is forked. |
| `TcpEnds` | the client, the server and the CGI workers | One of the programs per behaviour; the effect of the others is a free choice in each. |
| `StaticServer` | `webServer/staticServer.*`, `requestParser.*`, the use of redis | Requests are kinds (unusable, empty, file, cached file), `fopen` may fail for any file, files are counted in chunks, the idle wheel has `WheelSize` buckets. `stored` is what redis has for the file: nothing, the file, or garbage. `Left` gives the outcomes of the race on the input buffer. A bucket is an `unordered_set`: `OnTimer` closes the connections it drops in any order. |
| `Buffer` | `netLayer/Buffer.h`, `Buffer.cpp`, `netLayer/socket/Endian.h` | Operators on `[mem, readerIndex_, writerIndex_]`; integers of 8, 16 and 32 bits as their bytes in network order. |
| `FastCgi` | `cgiServer/fastcgi.*`, `cgiserver.*`, `parseRequest.*` | Byte by byte over `Buffer`, with a smaller record limit, padding unit and long-length bit. |
| `Http` | `netLayer/http` | The lines of a request are model values with their words; reads cut lines anywhere. Requests have no body. |
| `HeartBeat` | the heartbeats of `webServer/start_up.cpp` and `cgiServer/start_up.cpp`, `monitor/heartBeatMonitor.cpp` | Time in seconds. Loops and the worker may hang, the process may reconnect or die. An identity that was torn, or read together with another, is `Ghost`. |
| `MessageCodecs` | a connection whose callback is one of the three | Requests of both kinds, heartbeats. |
| `Time` | `base/time/Date.*`, `TimeZone.cpp`, `Timestamp::toString`, `Logger::Impl::formatTime` | Operators with C's truncating division. `FormatTime` has the two asserts on the length of a stamp. |

The modules `*Proofs` and `TcpConnectionSteps` hold the theorems. Where two
components are proved about in one module, or a module extends another, the
definitions carry the component's name (`AcceptorInit`, `ServerNext`,
`LoggingSpec`). In every component module an operator
whose comment begins with "Mutation of" is a deliberately wrong variant of the
definition after it; substituting it must violate the property it is listed
for in `PROJECT.json`.

## 3. What the runs check

| Run | Module | Question |
|---|---|---|
| `event_loop` | `EventLoopThread` | A thread's loop from `startLoop()` to the destructor, with calls of `runInLoop`, `queueInLoop` and `quit` from the loop and from other threads. `poll` is never entered with work pending and no wakeup on its way (`NoLostWakeup`); the loop that `startLoop()` returned exists until `loop()` has returned, and as long as only the destructor asks it to quit nothing is used too late but the eventfd (`LoopOutlivesHandle`); functors run once, in order (`FunctorsAreFIFO`, a refinement of `FunctorQueue`); a queued functor runs and a quit made while looping lets the join return. |
| `thread_pool` | `ThreadPl` | The bound of the queue, no worker asleep on a task and no producer on a free slot (both as counting invariants in `IInv`), FIFO (refinement), accepted tasks run unless the pool stops, `stop()` ends. With the wrappers: `holder_` names the owner of the mutex whenever it is asked for, also across a condition wait (`HolderIsOwner`), and `Thread::start()` returns only when the new thread is done with what its creator may delete (`StartHandsOver`). |
| `tcp_connection` | `MCTcpConnection` | One connection in three usages. Closed by the IO loop in every way, with a worker that sends: one up, at most one down, one `connectDestroyed`, no failing assert, a shutdown finishes, a closing peer is noticed. With reading and writing switched and the server destructed at any point: output in order, the descriptor closed exactly once. With everything done in the IO loop and the server destructed: moreover, no functor meets a destructed connection. |
| `tcp_connection_workers` | `MCTcpConnection` | Violation: when workers close, the destructor's `assert(state_ == kDisconnected)` can fail (section 7). |
| `timer_queue` | `TimerQueue` | `timers_` and `activeTimers_` agree and no freed `Timer` is touched (`IInv`), a cancelled timer never comes back, the timerfd is never set later than the earliest timer. |
| `timer_queue_sequence` | `TimerQueue` | Violation: `addTimer` from another thread reads a `Timer` that may be gone (section 7). |
| `pollers` | `Pollers` | `PollPoller` or `EPollPoller`, descriptors closed and reused, events pending: the internal tables agree (`IInv`, `EPollAgrees`), each implements `Poller`, and the one assert that can fail is that of `PollPoller::removeChannel` for a channel that never asked for an event (section 7). |
| `async_logging` | `Logging` | The spare buffers suffice and no assert fails (`IInv`); every line is given to stdio or on its way there, once and in order, or dropped with a notice, or lost to a short write that was reported; what stdio then fails to write out is one run of lines for each failure (`LinesAccountedFor`); a line fits its buffer, is made of whole pieces and lacks one only when it is nearly full (`LinesWhole`); a cached time stamp is of the right second and zone (`StampFresh`); lines reach the file with no further traffic, `stop()` returns. |
| `tcp_ends` | `TcpEnds` | Heartbeat client: one attempt at a time, no leaked socket, connections freed only when destroyed (`ClientOwnsOne`), connected again while the monitor is reachable, nothing left after `stop()`. Server: `Acceptor` closes only what it owns and turns waiting peers away when descriptors run out. CGI workers: every request is answered once, with all its program printed, and no worker waits for ever, whatever ends other workers' children have inherited (`NobodyHangs`, with the server's part). |
| `static_server` | `StaticServer` | The connection limit, the idle wheel, each peer gets its own complete responses in order, no response is left half sent. Exempt, from then on, are a peer that sends before its response is complete, one whose next request is served before the loop has closed the last file, one whose entry in redis is corrupt, and every peer once a response has found its connection closing (`exempt`; section 7). Nothing is said of what follows a crash. |
| `static_server_redis` | `StaticServer` | Violation: the redis link does not reconnect by itself (section 7). |
| `message_codecs` | `MessageCodecs` | However the stream is cut, FastCGI and HTTP requests are handed over as sent, once, with nothing left over from the one before; responses can be decoded and told apart (`FastCgiExchange`, `HttpExchange`). The monitor shows a living process ON and a dead one OFF within its limits, as long as each read finds one heartbeat (`StatusTrue`). |

Each property of a passing run has a mutant in `PROJECT.json`: a plausible bug
of the mapped code under which TLC finds the property violated.

## 4. Bounds

Bounds are constants of the `.cfg` files or guards that name them.

| Run | Bounds | Why they are enough |
|---|---|---|
| `event_loop` | the loop's thread, its owner and one more, two functors | a lost wakeup needs one pusher, order needs two functors; the invariants and the refinement are proved for any number |
| `thread_pool` | two workers, two producers, three tasks, queue of two; one producer in behaviours with the wrappers | two sleepers per condition, the queue full and empty with others waiting; safety is proved for any number |
| `tcp_connection` | one worker, two messages of two units, `HighWater` 3, one delayed close, queues of four and two functors | a partial write with a second message behind it; every kind of close pending at once. The second and third usages have one message, to keep their size down; safety is proved for any usage and any number |
| `timer_queue` | three timers (two repeating), times 0..2, one other thread | a batch of two with a third timer cancelled, added or restarted from it; proved for any number |
| `pollers` | descriptors 0 to 2, two generations each, one event kind, an event array of one | swap-with-last removal, reuse of a number, an array that must double; both pollers proved for any number |
| `async_logging` | two lines per buffer, eight lines, files of two lines, one failing write, flush or close, times 0..2; two threads; texts that leave nothing, one character, and just too little for a number in a buffer of 4000, as in the code | all buffers used, the limit of 25 buffers (here 3) exceeded, the file rolled; every boundary of `append` and of the conversions; the account of the lines is proved for any number |
| `tcp_ends` | three descriptors, four peers, two loops; three connections, delays 1, 2, 4; two CGI workers, seven descriptors for pipes, pipes of one unit, bodies and outputs of up to two, two requests | the table full with and without the spare; the delay reaches its maximum; `Acceptor`'s safety proved for any number. Both workers at once, full pipes, `pipe` and `fork` failing; three requests (180,132 states) were checked too |
| `static_server` | two connections on two loops, one worker, two requests, two chunks per file, wheel of two, limit of two, one change of redis | requests of two peers through one worker's singleton; several workers have no state in common but two maps (section 8); the limit and the wheel are proved for any number |
| `message_codecs` | two requests, record payload 2, padding 2, buffer of 4 with 1 prependable; heartbeats every 3 s from two loops and a worker, limit 8, display every 3, two connections, one hang | split contents and padding, long lengths, `makeSpace` in both ways. The code's 5, 12 and 5 s are scaled such that the limit stays two periods and 2 s; the heartbeats alone were also checked with 5, 12, 5 (3.8 million states) and with two hangs (5.6 million) |

`CHECK_DEADLOCK FALSE` stands where the modelled system comes to an end (a
destructor, `stop()`, the end of the inputs).

## 5. Fairness

Fairness is assumed of threads that can run and of the kernel reporting what is
ready, never of peers, of redis, or of anybody making a call.

- `EventLoop`, `EventLoopThread`: the loop's thread and a thread between its
  critical section and `wakeup()` go on; `poll` returns when the eventfd is
  readable (level triggered). I/O on other descriptors is not assumed.
- `ThreadPool`: weak fairness of each thread that is awake. Which sleeper a
  `notify` wakes is open. Liveness is checked of behaviours by critical sections, in
  which nobody waits for a mutex; with the wrappers only safety is.
- `TcpConnection`: both loops run their functors, timers and a closing peer's
  event; a worker finishes its call and its task. Not that the peer reads.
- `AsyncLogging`: the back end runs (its wait has a timeout of `flushInterval_`),
  `start()` and `stop()` return once their thread has done its part.
- `TcpClient`: the loop and the sending thread run. Strong fairness of the retry
  timer, and of a connecting socket, being among the events `poll` reports: each
  stays ready until it is reported, other events may be reported before it.
- `Acceptor`: the base loop runs. A listening socket with a peer waiting is
  reported again and again.
- `ExecuteCgi`: the workers and the programs are scheduled; a program does not have
  to succeed. Nobody has to send a request.
- `StaticServer`: loops, timers and the worker run, which `static_server_redis` needs;
  `static_server`, the heartbeats and the codecs have safety properties only.

## 6. What is proved

Eight modules hold theorems, checked by TLAPS for every value of the constants
allowed by the named assumptions: `NoneAssumption`, `OwnerAssumption`,
`PoolAssumption`, `ThreadsAssumption`, `TimerAssumption`, `PollAssumption`,
`SizeAssumption`, `ConnAssumption`, `LogAssumption`, `BufferAssumption`,
`AcceptorAssumption` and `ServerAssumption`. They say that bounds are natural
numbers (positive where the code needs it: a buffer's capacity, an interval, the
loops), that workers and producers are finitely many, that names which must differ
differ, and which calls a usage may consist of. Several results share a module; the
order below is by component. Where a leaf names two pragmas (`SMTT(60), Z3T(60)`), the
second is a second attempt: tlapm gives up an obligation that takes it more than five
seconds to translate, which on a busy machine happens to easy ones.

- **Event loop** (`NetLayerProofs`). `IInv == TypeOK /\ PhaseOK /\ WakeupPending /\
  NoLostQuit`. `NoLostWakeup` speaks of a loop in `poll`. `WakeupPending` says the
  same of every place of `loop()` but the dispatch of events, which
  `doPendingFunctors` always follows: for a functor that is owed a wakeup the eventfd
  is readable, or a thread is on its way to `wakeup()`. Also the refinement of
  `FunctorQueue`. For a loop in its own thread the steps of the owner leave that
  invariant alone, so that wakeups and order carry over, and `ThreadIInv`, which ties
  the owner's place to that of the thread, gives `LoopOutlivesHandle`, including that
  without a `quit()` of someone else the destructor ends after the thread.
- **Acceptor** (`NetLayerProofs`). `OwnDescriptors` is inductive itself; `SpareReady`
  (a spare descriptor whenever the table is full, unless another thread took it in
  the window) rests on it; the round robin is balanced.
- **Buffer** (`NetLayerProofs`). What each method does to the content; an integer
  that is appended or prepended is read back, with its sign, at whichever place of the
  memory it lies.
- **Thread pool** (`ThreadPoolProofs`). `IInv == TypeOK /\ ThreadsOK /\ QueueBounded
  /\ NoIdleWorker /\ NoStrandedProducer`. The last two count: while a worker sleeps,
  the tasks in the queue are at most the workers that are awake and have none; while
  a producer sleeps, the free slots are at most the producers that were woken. "A
  worker sleeps only if the queue is empty" is not even true, since a notified worker
  needs the mutex first, and another one may get it before. The pool with its mutex,
  conditions and threads modelled one by one takes only steps of that pool
  (`WrappersImplementPool`), so that its invariants carry over; `HolderIsOwner` and
  `StartHandsOver` are proved from an invariant that ties a thread's place in the
  wrappers to the owner of the mutex and to the count of the latch.
- **Timers** (`TimersProofs`). `IInv == TypeOK /\ SetsAgree /\ OnePlace /\ NoFault`,
  carried with `CancelIsFinal` and `NoLateWakeup`.
- **Pollers** (`PollersAndTimeProofs`). For `PollPoller`, `IInv == TypeOK /\
  IndexesAgree /\ MapAgrees /\ NoAssertFails`, the swap-with-last removal being the
  step that needs all of it; for `EPollPoller`, `EPollAgrees`: a channel is in the
  kernel's interest list exactly when its `index_` is `kAdded`, with the events it
  asks for, so that no `epoll_ctl` fails. Both implement `Poller`. The theorems are
  about `DefaultSpec`, the poller that `newDefaultPoller` chose; `NoAssertFails`
  allows the failing assert of a `bare` channel and no other.
- **Time** (`PollersAndTimeProofs`). Up to the day `MaxDay`, more than a million years
  away, no intermediate value of the calendar conversions overflows an `int`
  (`FitsInt`), and they are inverse to each other; the search in a time zone's table;
  the stamp of a log line, a thread's first or a cached one, reads back as the time of
  the message. `StampReadsBack` also says when the assert on the length of the stamp
  holds: for a `timeZone_` from -9 to 76. Its invariant, `KeepsStamp`, holds of a
  thread that has logged nothing; the first second of 1970 is left out, because its
  number is what such a thread has in `t_lastSecond`.
- **Connection** (`TcpConnectionSteps`, `TcpConnectionProofs`). `LifecycleOnce` and
  `OutputInOrder`, for any workers, messages and usages. `IInv` adds to them what the
  steps need: before `connectEstablished` nothing has happened and that functor is
  first in the queue (`EstablishedOnce`); when the descriptor has been closed
  (`ClosedOnce`); writing is enabled exactly while output is pending
  (`WritesPending`); and, where only the IO loop closes, the life of the connection
  is one of four phases, up, down, removed and destroyed, each with the functors
  that are owed (`SteadyLife`). A method changes the fields in one of a few ways
  (`Stays`, `Falls`, `Moves`), about which the lemmas of `TcpConnectionSteps` are;
  the steps that run the methods share them.
- **Logging** (`LogLinesProofs`, `AsyncLoggingProofs`). `IInv == TypeOK /\
  BuffersSuffice /\ NoAssertFails`: the front end lacks its spare buffer only when a
  full one waits, so that the back end, which gives away two, always gets two back.
  `LinesAccountedFor` rests on `LineInv`. Its account of gaps is not inductive: a line
  that is dropped is no gap in the file until a younger line is written behind it, and
  nothing would say that a notice came in between. `LineInv` therefore counts the
  gaps to come (`LostRuns`, one for each run of lost lines beyond the end of the
  file) with those that are there, and says that notices and errors cover both
  (`Announced`). The lemmas of `LogLinesProofs` say what an append, a swap of the
  buffers, a drop and a short write do to the lines in order (`Ordered`), to those
  held, and to gaps and notices, by cardinalities of finite sets. Loggers only do what
  the writer allows (`LoggersLeaveTheWriter`); `StampFresh`; no sequence of appends
  overruns a `FixedBuffer`; `formatSI` and `formatIEC` keep to their five and six
  characters up to 2^53, where the conversion to `double` is exact (section 7 has a
  larger number). A failing write-out loses what was given to stdio since the last one
  that did not fail, one run of entries (`LosesOneRun`).
- **Static server** (`TimersProofs`). `LimitHolds` and `InWheel`, for any number of
  loops and connections, any limit and wheel. `ServerInv` adds that `numConnected_` is
  the number of the connections counted and not yet down: `Admit` runs after
  `Increment` of its own connection, possibly with increments of other loops in
  between, and serves only when the count, itself included, is below the limit, so
  that fewer than the limit are served. Every step is one of the five that the count,
  the limit or the wheel depend on, or leaves them alone (`ServerSteps`).

Only model-checked:

- every liveness property: `QueuedRuns`, `QuitWhileLoopingJoins`, `AcceptedExecuted`,
  `PoolStops`, `ShutdownFinishes`, `PeerCloseEnds`, `LinesReachTheFile`, `StopEnds`,
  `Reconnects`, `NobodyHangs`. Fairness and `ENABLED` are out of the prover's reach;
- `FastCgiExchange` and `HttpExchange`: the codecs decode by recursion over data, on
  which the prover cannot do induction;
- `StatusTrue`: an inductive form would have to relate the phases of all the timers
  to the clock of the monitor, and none has been proved;
- `LinesWhole`: a line is a fold over the pieces streamed into it, the same kind of
  induction;
- `ClientOwnsOne`: it depends on every functor, timer and event of the client's loop
  iteration at once, and no inductive form of it has been proved;
- `OwnResponses` and `NothingStuck` of `StaticServer`: an inductive form would have to
  follow each response through the input, the tasks, the worker, the functors and
  the buffers; only the limit and the wheel were separated from it.

## 7. Disagreements seen

Three are runs with a finding in `PROJECT.json`:

- `forceCloseWithDelay`, `forceClose` and `shutdown` test `state_` and set it with
  no lock, and the web server's workers call them. A worker that tested before the
  IO loop closed the connection sets `kDisconnected` back to `kDisconnecting`: the
  destructor's assert fails. Other continuations in the model: the connection is
  closed and `connectDestroyed` called a second time (`TcpConnection.h:128` says
  "should be called only once"), or a channel is added for a closed descriptor,
  which `EPollPoller::update` treats as fatal.
- `TimerQueue::addTimer` from another thread reads `timer->sequence()` after
  handing the `Timer` over (`EventLoop.h:72`, "Safe to call from other threads").
- The redis link does not reconnect by itself (`README.md:49` of the repository).

The following were met on the way. The models contain them, unless said
otherwise, and the properties are stated so as to be true in their presence.

- `EventLoop`: a `quit()` between the publication of a loop and the start of
  `loop()`, which resets `quit_`, is lost. `pthread_create` failing for one worker
  makes `join` of it fail an assert. When someone other than `~EventLoopThread` calls
  `quit()`, the destructor may find the loop it has just tested destructed, or return
  while the thread is still about to unlock the mutex.
- `PollPoller`: a channel that enables nothing in its first update gets a `pollfd`
  with the plain descriptor, and `removeChannel` asserts that it has the ignored form
  (`PollPoller.cpp:117`). `~Acceptor` of a server that was never started does that.
- `ThreadPool`: a producer blocked in `put()` when `stop()` is called stays
  blocked; both servers leave the queue unbounded.
- `TimerQueue`: a timer added by another thread is still queued when `addTimer`
  returns; a cancel made in the loop's thread overtakes it and cancels nothing. The
  timerfd is periodic and never disarmed: an empty queue keeps waking the loop.
- `TcpConnection`: functors bound to a raw `this` may run after the object is gone;
  `stopRead` and a close make `handleClose` or `Channel::remove` fail an assert; a
  `stopWrite` with output pending makes `shutdown` cut it off; `~TcpServer` fails
  the assert of `remove` for a connection in `kDisconnecting`.
- `Acceptor`: when another thread takes the spare descriptor in the window, the
  base loop spins until a descriptor is released. `handleRead` logs before it tests
  `errno`.
- `TcpClient`: `g_conn` is tested and locked in two calls; `stop()` between a
  connection and the reset of the channel fails an assert; `start()` keeps the
  retry delay of the last outage.
- `AsyncLogging`: lines appended after the last swap before `stop()` are not
  written. The results of `fflush` (`FileUtil.cpp:56`) and `fclose` (`FileUtil.cpp:28`)
  are ignored: the lines lost there have no notice.
- `Logging`: no program sets the flush function, so that `LOG_FATAL` aborts with its
  own line, and those before it, still in memory. `formatSI` goes through `double`:
  99949999999999999 prints as "100.0P", six characters where `LogStream.h:191` says
  five at most (`SIHasFiveCharacters` ends at 2^53).
- Heartbeats: after the base loop has hung, its two timers run in phase and two
  heartbeats may be read at once. Their concatenation is taken for an identity, shown
  ON for ever, while the process's own line goes OFF although it lives. A beat between
  `g_conn = conn` and the assignment of the new identity sends the old one over the
  new connection. The monitor keeps every connection it has ever seen, and with it
  the descriptor. `count = (count++) % N` of the CGI server is unsequenced before
  C++17; GCC 12 with `-std=c++11 -O0` leaves `count` as it is, and so does the model:
  all heartbeats of loops come from loop 0.
- `execute_cgi`: a failed second `pipe` or a failed `fork` leaves the descriptors
  made before open. The end of a program's output is seen only after children of
  other workers that inherited its pipe have exited. A program that printed more than a
  pipe holds before reading its input would block both sides; none of the repository
  does.
- `StaticServer`: pipelined requests are not answered one by one (`README.md:8` of
  the repository); `paramMap_` survives from one request to the next; a file that
  was being sent when the connection closed is never closed; a cached file that
  does not uncompress is sent only in part, and a file that does not compress to
  20000 bytes is stored as such a one, because nobody looks at the result of
  `Compress`; a file of the redis list that is not in redis and cannot be opened ends
  the process, by `fclose(nullptr)` (`requestParser.cpp:269`); a peer that has its
  whole response and sends the next request may meet the file still open, and then
  worker and loop set `contextfp_` at the same time, so that a file may be left open
  and unsent; the worker and the loop race on the input buffer, which can bring a
  request back or lose one that a peer has pipelined; SIGINT and SIGTERM end the heartbeat
  but not the base loop (`README.md:48`).
- HTTP: one request is taken per read, so that a second one waits for more input;
  after a malformed request line another read fails the assert at
  `HttpRequest.h:49`. A body would be taken for the next request line (not modelled:
  `kExpectBody` has a FIXME and is never entered).
- `Time`: `toFormattedString` uses `%` for `/` (`Timestamp.cpp:25`, not modelled);
  the stamp of a log line adds the zone's hours without carrying into the day, and
  with a `timeZone_` of -10 or less an hour of three characters fails the assert of
  `Logging.cpp:162`;
  `readTimeZoneFile` returns true for a file that cannot be read.

## 8. What is not modelled

- The text of log lines, responses and HTTP pages; addresses and names; `Sockets`
  (wrappers of system calls, whose results are choices of the callers).
- `procmon` (reads `/proc` and prints it), `ZlibStream` and `webServer/nouse` (nothing
  in the repository runs these two), the YAML configuration, the queries of the CGI
  programs (their MySQL tables are not in the repository).
- The 64-bit integer methods of `Buffer`, which nobody calls; the text of
  floating-point numbers in `LogStream`; `g_logTimeZone` in the conversions of
  `Time`, which no program sets (`Logging` has it as a variable); bodies of HTTP requests.
- Signal handlers inside a critical section; several workers of the web server
  sharing the maps `urlTomd5` and `g_zlibMap`.
- Memory below the level of objects. Where the code has a data race on a flag, the
  model makes the test and the write separate steps.

## 9. Plan

Done: the components of section 2, the runs of section 3, the theorems of
section 6. The order was the reactor first (`EventLoop`, `ThreadPool`,
`TimerQueue`, the pollers), then what is built on it (`TcpConnection`, `TcpClient`,
`AsyncLogging`), the programs and the pure functions, and then the layers below and
beside them: the thread wrappers, the loggers, the heartbeats, the CGI children and
what redis holds.

Left, in this order:

1. An inductive invariant for `ClientOwnsOne`, and one for `OwnResponses`.
2. `StaticServer` with two workers and the two maps they share; partial writes.
3. Composition of `TcpConnection` with `EventLoop` and `Acceptor`, the connection's
   functors being those of the loop.
