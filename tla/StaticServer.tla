---------------------------- MODULE StaticServer ----------------------------
(***************************************************************************)
(* webServer/staticServer.cpp and requestParser.cpp: the static file       *)
(* server.  Connections are spread over the IO loops; a request is read by *)
(* a loop, parsed by the worker thread, which sends the first chunk of the *)
(* file, and the loop sends the others, each when the one before is        *)
(* written.  A timing wheel per loop closes idle connections.  The worker's *)
(* Parser, a thread-local object, keeps state from one request to the next *)
(* and caches files in redis.                                              *)
(*                                                                         *)
(* A functor or handler of a loop is one step, and a step of the worker is *)
(* what it does up to the next use of shared state.  A connection is the   *)
(* state_ of its TcpConnection and what the server keeps with it; a write  *)
(* takes all its data (module TcpConnection has partial writes and the     *)
(* calls' races).  What ReConn and connectRedis do to redis_ and g_zlib is *)
(* one step.                                                               *)
(***************************************************************************)
EXTENDS Naturals, Sequences, FiniteSets, Functions

CONSTANTS NumConns,     \* bound on the connections made
          NumLoops,     \* loopThreads_
          MaxConns,     \* kmaxConnections_
          WheelSize,    \* idleExpiredTime_
          Chunks,       \* chunks of a file
          MaxRequests,  \* bound on the requests of all peers
          Kinds,        \* of requests: a subset of AllKinds
          Headers,      \* their Connection headers: a subset of AllHeaders
          MaxChanges    \* bound on the times redis goes down or comes up

AllKinds == {"unusable", "empty", "file", "vip"}
AllHeaders == {"close", "keep-alive", "none"}

ASSUME ServerAssumption ==
    /\ NumLoops \in Nat \ {0} /\ MaxConns \in Nat /\ WheelSize \in Nat \ {0}
    /\ Chunks \in Nat \ {0} /\ MaxRequests \in Nat /\ Kinds \subseteq AllKinds
    /\ Headers \subseteq AllHeaders /\ NumConns \in Nat \ {0} /\ MaxChanges \in Nat

Loops == 1..NumLoops
Conns == 1..NumConns

VARIABLES conn,         \* per connection: see NoConn
          next_,        \* of the EventLoopThreadPool
          numConnected_,
          map_,         \* per loop: its ring of buckets, sets of connections
          functors,     \* per loop: its pending functors
          delayed,      \* connections with a forceCloseWithDelay timer
          tasks,        \* the thread pool's queue
          worker,       \* [pc, conn, body, n]; n: the requests it has copied
          parser,       \* the worker's Parser
          retryTimers,  \* per loop: the number of its connectRedis timers
          redis,        \* redis is up; the worker's connection to it works; how
                        \* often it went down or came up
          link, changes,
          stored,       \* what redis holds for the files of its list: "none", the
                        \* compressed "file", or "garbage"
          asked,        \* history: requests received, per connection
          wire,         \* history: what was written, per connection
          exempt        \* history: see OwnResponses

server == <<next_, numConnected_, map_>>
ghosts == <<asked, wire, exempt>>
cache == <<retryTimers, redis, link, changes, stored>>
serverVars == <<conn, server, functors, delayed, tasks, worker, parser, cache, ghosts>>

\* in: requests in inputBuffer_; fp: the chunk a read of contextfp_ returns, 0 for a
\* null pointer; wcc: writeCompleteCallback_ is set; close: connectionFlag;
\* closing: closeFlag_; served: onMessage is its message callback.
NoConn == [st |-> "none", loop |-> 1, in |-> 0, fp |-> 0, wcc |-> FALSE,
           close |-> FALSE, closing |-> FALSE, served |-> FALSE]
Idle == [pc |-> "idle", conn |-> 1, body |-> << >>, n |-> 0]
F(op, c, data) == [op |-> op, conn |-> c, data |-> data]
Queue(c, op, data) == [functors EXCEPT ![conn[c].loop] = Append(@, F(op, c, data))]
QueueRetry(l) == [functors EXCEPT ![l] = Append(@, F("retryInLoop", 0, << >>))]
Chunk(c, k) == <<c, k>>
ErrorPage(c) == <<c, 0>>
WholeFile(c) == [k \in 1..Chunks |-> Chunk(c, k)]

\* Redis::Connect: a new context, which works if redis is up.
Connect == redis

\* The Parser a worker gets when it first asks for its own; well: isRedisConnectWell_;
\* zlib: g_zlib is not null.
NewParser == [response_ |-> << >>, close |-> FALSE, well |-> Connect, zlib |-> Connect,
              curLoop_ |-> 1, count_ |-> 0]

\* StaticServer::start.
ServerInit ==
    /\ conn = [c \in Conns |-> NoConn]
    /\ next_ = 1 /\ numConnected_ = 0
    /\ map_ = [l \in Loops |-> [i \in 1..WheelSize |-> {}]]
    /\ functors = [l \in Loops |-> << >>]
    /\ delayed = {} /\ tasks = << >> /\ worker = Idle
    /\ redis \in BOOLEAN /\ link = redis
    /\ parser = NewParser
    /\ retryTimers = [l \in Loops |-> 0] /\ changes = 0 /\ stored = "none"
    /\ asked = [c \in Conns |-> 0] /\ wire = [c \in Conns |-> << >>]
    /\ exempt = {}

-----------------------------------------------------------------------------
\* Connections.

Open(c) == conn[c].st \in {"kConnected", "kDisconnecting"}

\* The process has not crashed.
Alive == worker.pc # "crashed"

\* Loop l is inside onConnection, or gone.
Busy(l) == ~Alive \/ \E c \in Conns : conn[c].st = "counted" /\ conn[c].loop = l

\* getNextLoop: the loops take turns.
NextLoop == IF next_ = NumLoops THEN 1 ELSE next_ + 1

\* newConnection, connectEstablished and the first half of onConnection.
Increment(c) ==
    /\ conn[c].st = "none" /\ ~Busy(next_)
    /\ \A d \in 1..(c - 1) : conn[d].st # "none"
    /\ conn' = [conn EXCEPT ![c].st = "counted", ![c].loop = next_]
    /\ next_' = NextLoop
    /\ numConnected_' = numConnected_ + 1
    /\ UNCHANGED <<map_, functors, delayed, tasks, worker, parser, cache, ghosts>>

\* Inserts c into the newest bucket of its loop.
Touch(c) == [map_ EXCEPT ![conn[c].loop][WheelSize] = @ \cup {c}]

\* Mutation of Admit: one connection more than the limit.
AdmitOneMore(c) ==
    /\ conn[c].st = "counted" /\ Alive
    /\ IF numConnected_ > MaxConns
       THEN /\ conn' = [conn EXCEPT ![c].st = "kDisconnecting"]
            /\ functors' = Queue(c, "forceClose", << >>)
            /\ UNCHANGED map_
       ELSE /\ conn' = [conn EXCEPT ![c].st = "kConnected", ![c].served = TRUE]
            /\ map_' = Touch(c)
            /\ UNCHANGED functors
    /\ UNCHANGED <<next_, numConnected_, delayed, tasks, worker, parser, cache, ghosts>>

\* The second half of onConnection: too many, or a new Entry.
Admit(c) ==
    /\ conn[c].st = "counted" /\ Alive
    /\ IF numConnected_ >= MaxConns
       THEN /\ conn' = [conn EXCEPT ![c].st = "kDisconnecting"]
            /\ functors' = Queue(c, "forceClose", << >>)
            /\ UNCHANGED map_
       ELSE /\ conn' = [conn EXCEPT ![c].st = "kConnected", ![c].served = TRUE]
            /\ map_' = Touch(c)
            /\ UNCHANGED functors
    /\ UNCHANGED <<next_, numConnected_, delayed, tasks, worker, parser, cache, ghosts>>

\* handleClose with onConnection's DOWN branch.
Closed(c) ==
    /\ conn' = [conn EXCEPT ![c].st = "kDisconnected"]
    /\ numConnected_' = numConnected_ - 1

\* The responses written to c in full.
Complete(c) == Cardinality({i \in DOMAIN wire[c] : wire[c][i][2] \in {0, Chunks}})

\* Mutation of OnMessage: the callback that sends the other chunks is set once.
OnMessageOnce(c) ==
    /\ Open(c) /\ conn[c].served /\ ~Busy(conn[c].loop)
    /\ asked' = [asked EXCEPT ![c] = @ + 1]
    /\ exempt' = IF Complete(c) < asked[c] THEN exempt \cup {c} ELSE exempt
    /\ conn' = [conn EXCEPT ![c].in = @ + 1, ![c].wcc = (asked[c] = 0)]
    /\ tasks' = Append(tasks, c)
    /\ map_' = IF \E i \in 1..WheelSize : c \in map_[conn[c].loop][i] THEN Touch(c) ELSE map_
    /\ UNCHANGED <<next_, numConnected_, functors, delayed, worker, parser, cache, wire>>

\* A request arrives: handleRead and onMessage; the Entry, if it still exists, is
\* inserted again.
OnMessage(c) ==
    /\ Open(c) /\ conn[c].served /\ ~Busy(conn[c].loop)
    /\ asked' = [asked EXCEPT ![c] = @ + 1]
    /\ exempt' = IF Complete(c) < asked[c] THEN exempt \cup {c} ELSE exempt
    /\ conn' = [conn EXCEPT ![c].in = @ + 1, ![c].wcc = TRUE]
    /\ tasks' = Append(tasks, c)
    /\ map_' = IF \E i \in 1..WheelSize : c \in map_[conn[c].loop][i] THEN Touch(c) ELSE map_
    /\ UNCHANGED <<next_, numConnected_, functors, delayed, worker, parser, cache, wire>>

\* The peer closes.  handleClose only notes it (dissByPeer_) when the connection is
\* kDisconnecting without closeFlag_, that is, when forceClose or its timer is due.
PeerCloses(c) ==
    /\ ~Busy(conn[c].loop)
    /\ \/ conn[c].st = "kConnected"
       \/ conn[c].st = "kDisconnecting" /\ conn[c].closing
    /\ Closed(c)
    /\ UNCHANGED <<next_, map_, functors, delayed, tasks, worker, parser, cache, ghosts>>

\* The connections whose Entry is destructed, and closes them, when loop m's ring
\* becomes buckets.
Gone(m, buckets) ==
    {c \in Head(map_[m]) : /\ conn[c].st = "kConnected"
                           /\ \A i \in 1..WheelSize : c \notin buckets[i]}

\* Mutation of OnTimer: the connection is taken for closed when its Entry goes.
OnTimerForgets(l) ==
    /\ ~Busy(l)
    /\ map_' = [m \in Loops |-> Append(Tail(map_[m]), {})]
    /\ UNCHANGED <<conn, next_, numConnected_, functors, delayed, tasks, worker, parser,
                   cache, ghosts>>

\* onTimer, of each loop: an empty bucket replaces the oldest one of every loop's
\* ring, and an Entry that is in no bucket any more closes its connection.  A bucket is
\* an unordered_set, so its entries go in any order.
OnTimer(l) ==
    LET pushed == [m \in Loops |-> Append(Tail(map_[m]), {})]
        Orders(m) == Injection(1..Cardinality(Gone(m, pushed[m])), Gone(m, pushed[m]))
    IN
    /\ ~Busy(l)
    /\ map_' = pushed
    /\ conn' = [c \in Conns |-> IF \E m \in Loops : c \in Gone(m, pushed[m])
                                THEN [conn[c] EXCEPT !.st = "kDisconnecting"] ELSE conn[c]]
    /\ \E order \in [Loops -> UNION {Orders(m) : m \in Loops}] :
        /\ \A m \in Loops : order[m] \in Orders(m)
        /\ functors' = [m \in Loops |-> functors[m] \o [i \in DOMAIN order[m] |->
                                                        F("forceClose", order[m][i], << >>)]]
    /\ UNCHANGED <<next_, numConnected_, delayed, tasks, worker, parser, cache, ghosts>>

\* The timer of forceCloseWithDelay.
DelayedClose(c) ==
    /\ c \in delayed /\ ~Busy(conn[c].loop)
    /\ delayed' = delayed \ {c}
    /\ functors' = IF Open(c) THEN Queue(c, "forceClose", << >>) ELSE functors
    /\ UNCHANGED <<conn, server, tasks, worker, parser, cache, ghosts>>

-----------------------------------------------------------------------------
\* Functors of the loops.

Written(c) == IF conn[c].wcc THEN << F("writeComplete", c, << >>) >> ELSE << >>

\* sendInLoop, with the writeComplete it queues.
SendInLoop(c, data, q) ==
    IF conn[c].st = "kDisconnected" THEN functors' = q /\ UNCHANGED wire
    ELSE /\ wire' = [wire EXCEPT ![c] = @ \o data]
         /\ functors' = [q EXCEPT ![conn[c].loop] = @ \o Written(c)]

\* writeComplete: reads the next chunk, which send() drops unless kConnected, or
\* closes the file at its end.
WriteComplete(c, q) ==
    CASE conn[c].fp = 0 ->
            functors' = q /\ UNCHANGED <<conn, wire>>
      [] conn[c].fp \in 1..Chunks ->
            /\ conn' = [conn EXCEPT ![c].fp = @ + 1]
            /\ IF conn[c].st = "kConnected"
               THEN SendInLoop(c, << Chunk(c, conn[c].fp) >>, q)
               ELSE functors' = q /\ UNCHANGED wire
      [] OTHER ->
            /\ functors' = q
            /\ conn' = [conn EXCEPT ![c].fp = 0,
                                    ![c].st = IF conn[c].close /\ @ = "kConnected"
                                              THEN "kDisconnecting" ELSE @,
                                    ![c].closing = @ \/ (conn[c].close /\ conn[c].st = "kConnected")]
            /\ UNCHANGED wire

\* retryInLoop, with the timers there are: every fifth call starts one.  count_ is
\* kept modulo 5.
RetryInLoop(timers) ==
    /\ parser' = [parser EXCEPT !.count_ = (@ + 1) % 5]
    /\ retryTimers' = IF parser'.count_ = 1 THEN [timers EXCEPT ![parser.curLoop_] = @ + 1]
                      ELSE timers

RunQueued(l) ==
    LET f == Head(functors[l])
        rest == [functors EXCEPT ![l] = Tail(@)]
        c == f.conn
    IN
    /\ functors[l] # << >> /\ ~Busy(l)
    /\ CASE f.op = "send" ->
                /\ SendInLoop(c, f.data, rest)
                /\ UNCHANGED <<conn, numConnected_, parser, retryTimers>>
         [] f.op = "writeComplete" ->
                /\ WriteComplete(c, rest)
                /\ UNCHANGED <<numConnected_, parser, retryTimers>>
         [] f.op = "forceClose" ->
                /\ functors' = rest
                /\ IF Open(c) THEN Closed(c) ELSE UNCHANGED <<conn, numConnected_>>
                /\ UNCHANGED <<wire, parser, retryTimers>>
         [] f.op = "shutdown" ->
                /\ functors' = rest
                /\ UNCHANGED <<conn, wire, numConnected_, parser, retryTimers>>
         [] f.op = "retryInLoop" ->
                /\ functors' = rest
                /\ RetryInLoop(retryTimers)
                /\ UNCHANGED <<conn, numConnected_, wire>>
    /\ UNCHANGED <<next_, map_, delayed, tasks, worker, redis, link, changes, stored, asked,
                   exempt>>

\* connectRedis, by its timer of loop l.  It is done when the connection is back and
\* g_zlib has to be made anew; otherwise curLoop_, by now perhaps another loop, is
\* to try again.
ConnectRedis(l) ==
    LET timers == [retryTimers EXCEPT ![l] = @ - 1]
        connected == [parser EXCEPT !.well = Connect, !.zlib = @ \/ Connect]
        again == ~Connect \/ parser.zlib
    IN
    /\ retryTimers[l] > 0 /\ ~Busy(l)
    /\ IF parser.well
       THEN retryTimers' = timers /\ UNCHANGED <<parser, link, functors>>
       ELSE /\ link' = Connect
            /\ IF again /\ l = parser.curLoop_
               THEN /\ parser' = [connected EXCEPT !.count_ = (@ + 1) % 5]
                    /\ retryTimers' = IF parser'.count_ = 1 THEN retryTimers ELSE timers
                    /\ UNCHANGED functors
               ELSE /\ parser' = connected
                    /\ retryTimers' = timers
                    /\ functors' = IF again THEN QueueRetry(parser.curLoop_) ELSE functors
    /\ UNCHANGED <<conn, server, delayed, tasks, worker, redis, changes, stored, ghosts>>

-----------------------------------------------------------------------------
\* The worker.

\* onParser; retrieveAllAsString copies the input.
Take ==
    /\ worker.pc = "idle" /\ tasks # << >>
    /\ worker' = [pc |-> "parse", conn |-> Head(tasks), body |-> << >>,
                  n |-> conn[Head(tasks)].in]
    /\ tasks' = Tail(tasks)
    /\ UNCHANGED <<conn, server, functors, delayed, parser, cache, ghosts>>

\* What retrieveAll leaves of the input.  The loop's append of a request that has come
\* since the copy is a data race with it on the buffer's indices: the request is lost,
\* or kept, or all that was there is there again.
Left(c) ==
    IF conn[c].in > worker.n THEN {0, conn[c].in - worker.n, conn[c].in} ELSE {0}

\* parserRequest: all of the input is taken for one request, which is unusable (404,
\* 403, 501, 505), or for a file.  header is the Connection header, if the parser got
\* to one: it overwrites the one in paramMap_.
Parse(kind, header) ==
    LET c == worker.conn
        usable == worker.n = 1 /\ kind # "unusable"
        close == IF header = "none" THEN parser.close ELSE header = "close"
    IN
    /\ worker.pc = "parse"
    /\ worker' = [worker EXCEPT !.pc = IF usable THEN kind ELSE "error", !.n = 0]
    /\ parser' = IF worker.n > 0 THEN [parser EXCEPT !.close = close] ELSE parser
    /\ \E left \in Left(c) :
        conn' = [conn EXCEPT ![c].in = left, ![c].close = IF usable THEN close ELSE @]
    /\ UNCHANGED <<server, functors, delayed, tasks, cache, ghosts>>

\* Mutation of Send: the buffer keeps what was sent.
SendKeeps(c, body) ==
    /\ parser' = [parser EXCEPT !.response_ = @ \o body]
    /\ IF conn[c].st = "kConnected"
       THEN functors' = Queue(c, "send", parser'.response_) /\ UNCHANGED exempt
       ELSE exempt' = Conns /\ UNCHANGED functors

\* response_.append and conn->send(&response_), which empties the buffer unless
\* the connection is no longer kConnected.
Send(c, body) ==
    IF conn[c].st = "kConnected"
    THEN /\ functors' = Queue(c, "send", parser.response_ \o body)
         /\ parser' = [parser EXCEPT !.response_ = << >>]
         /\ UNCHANGED exempt
    ELSE /\ parser' = [parser EXCEPT !.response_ = @ \o body]
         /\ exempt' = Conns
         /\ UNCHANGED functors

\* An error page; then forceCloseWithDelay.
RespondError ==
    LET c == worker.conn IN
    /\ worker.pc = "error"
    /\ Send(c, << ErrorPage(c) >>)
    /\ conn' = [conn EXCEPT ![c].wcc = FALSE,
                            ![c].st = IF Open(c) THEN "kDisconnecting" ELSE @]
    /\ delayed' = IF Open(c) THEN delayed \cup {c} ELSE delayed
    /\ worker' = Idle
    /\ UNCHANGED <<server, tasks, cache, asked, wire>>

\* A reply to the command, or the exception of a lost connection.
exeGET == IF link THEN stored ELSE "lost"

\* What is sent to redis: nobody looks at Compress's result, and what compresses to
\* more than MAXBUFFERSIZE leaves comPressString as it was allocated.
Compress(fits) == IF fits THEN "file" ELSE "garbage"
UnCompress(s) == s = "file"

\* A file of the redis list, found in redis.
Cached ==
    LET c == worker.conn IN
    /\ worker.pc = "vip" /\ parser.well /\ UnCompress(exeGET)
    /\ worker' = [worker EXCEPT !.pc = "whole", !.body = WholeFile(c)]
    /\ conn' = [conn EXCEPT ![c].wcc = FALSE]
    /\ UNCHANGED <<server, functors, delayed, tasks, parser, cache, ghosts>>

\* What redis returned does not uncompress: the callback is cancelled all the same.
Corrupt ==
    LET c == worker.conn IN
    /\ worker.pc = "vip" /\ parser.well /\ exeGET \notin {"lost", "none"} /\ ~UnCompress(exeGET)
    /\ worker' = [worker EXCEPT !.pc = "file"]
    /\ conn' = [conn EXCEPT ![c].wcc = FALSE]
    /\ parser' = [parser EXCEPT !.well = FALSE]
    /\ exempt' = exempt \cup {c}
    /\ UNCHANGED <<server, functors, delayed, tasks, cache, asked, wire>>

\* Not in redis: the whole file is read.
Miss ==
    LET c == worker.conn IN
    /\ worker.pc = "vip" /\ parser.well /\ exeGET = "none"
    /\ worker' = [worker EXCEPT !.pc = "set", !.body = WholeFile(c)]
    /\ conn' = [conn EXCEPT ![c].wcc = FALSE]
    /\ UNCHANGED <<server, functors, delayed, tasks, parser, cache, ghosts>>

\* Not in redis either, and fopen fails: fclose(nullptr) ends the process.
MissCrashes ==
    /\ worker.pc = "vip" /\ parser.well /\ exeGET = "none"
    /\ worker' = [worker EXCEPT !.pc = "crashed"]
    /\ UNCHANGED <<conn, server, functors, delayed, tasks, parser, cache, ghosts>>

\* exeSET: a lost connection goes unnoticed, redisCommandArgv returns null then.
exeSET(fits) ==
    /\ worker.pc = "set"
    /\ stored' = IF link THEN Compress(fits) ELSE stored
    /\ worker' = [worker EXCEPT !.pc = "whole"]
    /\ UNCHANGED <<conn, server, functors, delayed, tasks, parser, retryTimers, redis, link,
                   changes, ghosts>>

\* ReConn: the command failed, or the connection is known to be lost.
ReConn ==
    LET l == conn[worker.conn].loop IN
    /\ worker.pc = "vip" /\ (parser.well => exeGET = "lost")
    /\ parser' = [parser EXCEPT !.well = FALSE, !.zlib = FALSE, !.curLoop_ = l]
    /\ functors' = QueueRetry(l)
    /\ worker' = [worker EXCEPT !.pc = "file"]
    /\ UNCHANGED <<conn, server, delayed, tasks, cache, ghosts>>

\* The file is opened, set as contextfp_, and its first chunk read.  When the loop has not
\* closed the file before, its setContextfp(nullptr) may come last.
OpenFile ==
    LET c == worker.conn IN
    /\ worker.pc = "file"
    /\ \E fp \in IF conn[c].fp = 0 THEN {2} ELSE {2, 0} : conn' = [conn EXCEPT ![c].fp = fp]
    /\ exempt' = IF conn[c].fp = 0 THEN exempt ELSE exempt \cup {c}
    /\ worker' = [worker EXCEPT !.pc = "first", !.body = << Chunk(c, 1) >>]
    /\ UNCHANGED <<server, functors, delayed, tasks, parser, cache, asked, wire>>

\* fopen fails: forceClose.  The file is empty: shutdown, with the file left open.
NoFile ==
    LET c == worker.conn
        st == IF worker.pc = "file" THEN Open(c) ELSE conn[c].st = "kConnected"
    IN
    /\ worker.pc \in {"file", "empty"}
    /\ conn' = [conn EXCEPT ![c].st = IF st THEN "kDisconnecting" ELSE @,
                            ![c].closing = @ \/ (worker.pc = "empty" /\ st),
                            ![c].fp = IF worker.pc = "empty" THEN Chunks + 1 ELSE @]
    /\ functors' = IF ~st THEN functors
                   ELSE Queue(c, IF worker.pc = "empty" THEN "shutdown" ELSE "forceClose", << >>)
    /\ worker' = Idle
    /\ UNCHANGED <<server, delayed, tasks, parser, cache, ghosts>>

Respond ==
    /\ worker.pc \in {"first", "whole"}
    /\ Send(worker.conn, worker.body)
    /\ worker' = IF worker.pc = "whole" /\ parser.close
                 THEN [worker EXCEPT !.pc = "shutdown"] ELSE Idle
    /\ UNCHANGED <<conn, server, delayed, tasks, cache, asked, wire>>

\* shutdown() after a response from redis with Connection: close.
ShutdownAfter ==
    LET c == worker.conn IN
    /\ worker.pc = "shutdown"
    /\ worker' = Idle
    /\ IF conn[c].st = "kConnected"
       THEN /\ conn' = [conn EXCEPT ![c].st = "kDisconnecting", ![c].closing = TRUE]
            /\ functors' = Queue(c, "shutdown", << >>)
       ELSE UNCHANGED <<conn, functors>>
    /\ UNCHANGED <<server, delayed, tasks, parser, cache, ghosts>>

\* Redis goes down, with its content or without, or comes up.
RedisChanges ==
    /\ changes < MaxChanges /\ changes' = changes + 1
    /\ redis' = ~redis
    /\ link' = (link /\ redis')
    /\ stored' \in {stored, "none"}
    /\ UNCHANGED <<conn, server, functors, delayed, tasks, worker, parser, retryTimers, ghosts>>

Requests == FoldFunction(+, 0, asked)

Worker ==
    \/ Take \/ RespondError \/ Cached \/ Corrupt \/ Miss \/ MissCrashes \/ ReConn \/ OpenFile
    \/ NoFile \/ Respond \/ ShutdownAfter
    \/ \E fits \in BOOLEAN : exeSET(fits)
    \/ \E kind \in Kinds, header \in Headers : Parse(kind, header)

ServerNext ==
    \/ \E l \in Loops : RunQueued(l) \/ OnTimer(l) \/ ConnectRedis(l)
    \/ \E c \in Conns :
        \/ Increment(c) \/ Admit(c) \/ PeerCloses(c) \/ DelayedClose(c)
        \/ Requests < MaxRequests /\ OnMessage(c)
    \/ Worker \/ RedisChanges

\* The loops and the worker run and their timers fire; nothing is assumed of the
\* peers and of redis.
Fairness ==
    /\ \A l \in Loops : /\ WF_serverVars(RunQueued(l)) /\ WF_serverVars(OnTimer(l))
                         /\ WF_serverVars(ConnectRedis(l))
    /\ \A c \in Conns : WF_serverVars(Admit(c)) /\ WF_serverVars(DelayedClose(c))
    /\ WF_serverVars(Worker)

ServerSpec == ServerInit /\ [][ServerNext]_serverVars /\ Fairness

-----------------------------------------------------------------------------
ServerTypeOK ==
    /\ conn \in [Conns -> [st : {"none", "counted", "kConnected", "kDisconnecting", "kDisconnected"},
                           loop : Loops, in : Nat, fp : 0..(Chunks + 1), wcc : BOOLEAN,
                           close : BOOLEAN, closing : BOOLEAN, served : BOOLEAN]]
    /\ next_ \in Loops
    /\ numConnected_ = Cardinality({c \in Conns : conn[c].st \notin {"none", "kDisconnected"}})
    /\ delayed \subseteq Conns /\ stored \in {"none", "file", "garbage"}
    /\ retryTimers \in [Loops -> Nat]

\* However the loops interleave the increment and the test of numConnected_, fewer
\* than kmaxConnections_ connections are served at a time, and the count is that
\* of the connections reported up and not yet down.
LimitHolds ==
    /\ ServerTypeOK
    /\ LET served == {c \in Conns : conn[c].st = "kConnected"} IN
        served # {} => Cardinality(served) < MaxConns

\* What each peer is sent is its own: every response starts when the one before is
\* complete, and has the chunks of the file in order.  Exempt are
\*   - a peer that did not wait for its response before it sent the next request;
\*   - one that did, if the worker has opened the next file before the loop has found the
\*     end of the one before, so that both set contextfp_ and one file takes the other's
\*     place;
\*   - one whose cached file was corrupt, and is sent the first chunk only;
\*   - all of them, once a response found its connection closing and stayed in response_.
OwnResponses ==
    \A c \in Conns \ exempt : \A i \in DOMAIN wire[c] :
        LET begins == i = 1 \/ wire[c][i - 1][2] \in {0, Chunks} IN
        /\ wire[c][i][1] = c
        /\ IF begins THEN wire[c][i][2] \in {0, 1} ELSE wire[c][i][2] = wire[c][i - 1][2] + 1

\* No request is forgotten: when loops and worker have nothing more to do for a
\* connection that is still open, all its requests have been answered completely
\* and the last file is closed.  The same are exempt; a peer that waits for each
\* response is not, unless its next request overtakes the loop as described there.
NothingStuck ==
    \A c \in Conns \ exempt :
        conn[c].st = "kConnected"
        /\ worker.pc = "idle" /\ tasks = << >>
        /\ (\A l \in Loops : \A i \in DOMAIN functors[l] : functors[l][i].conn # c)
            => Complete(c) = asked[c] /\ conn[c].fp = 0

\* No connection escapes the timing wheel: one that is kConnected and served is in
\* a bucket of its loop's ring, so that it is closed after at most WheelSize ticks
\* without a message, whatever loop's timer ticks and whenever messages come.
InWheel ==
    \A c \in Conns :
        conn[c].st = "kConnected" => \E i \in 1..WheelSize : c \in map_[conn[c].loop][i]

\* "redis ... reconnects by itself" (README.md:49): when the worker has noticed that
\* its connection to redis is lost, and redis stays up, it is connected again.
RedisReconnects ==
    (~parser.well /\ parser.count_ > 0) ~> (parser.well \/ ~redis \/ ~Alive)
=============================================================================
