--------------------------- MODULE TcpConnection ----------------------------
(***************************************************************************)
(* netLayer/tcp/TcpConnection.cpp with the part of TcpServer.cpp that      *)
(* creates and removes a connection: one connection, its IO loop, the      *)
(* server's base loop (another thread) and worker threads that hold the    *)
(* connection and call it.                                                 *)
(*                                                                         *)
(* A handler or functor of the IO loop is one step; a call from a worker   *)
(* tests state_, sets it and queues its functor in three steps, since      *)
(* state_ is not protected.  A message is two units, so that the kernel    *)
(* may take a part of it.  The object is destructed when the last shared   *)
(* pointer to it goes (Referenced); functors bound to a raw this do not    *)
(* count.  A failing assert, or a call on a destructed object, is recorded *)
(* in fail and stops the program.                                          *)
(***************************************************************************)
EXTENDS Naturals, Sequences

CONSTANTS Workers,       \* threads other than the two loops
          Messages,      \* each sent at most once
          Usages,        \* the ways programs use a connection: what workers call, what
                         \* callbacks in the IO loop call, whether ~TcpServer may run
                         \* while the connection is open, which messages are sent,
                         \* and the bound on the length of the functor queue
          HighWater,     \* highWaterMark_
          MaxTimers      \* bound on pending delayed closes

Ops == {"send", "shutdown", "forceClose", "forceCloseWithDelay",
        "stopRead", "startRead", "stopWrite", "startWrite"}

ASSUME ConnAssumption ==
    /\ Usages \subseteq [worker : SUBSET Ops, loop : SUBSET Ops, serverMayDie : BOOLEAN,
                        messages : SUBSET Messages, functors : Nat]
    /\ HighWater \in Nat /\ MaxTimers \in Nat

VARIABLES usage,    \* how the program at hand uses the connection
          conn,     \* the fields of the TcpConnection, its channel and socket
          functors, \* the IO loop's queue
          timers,   \* delayed forceClose timers of the IO loop
          removals, \* removeConnectionInLoop functors in the base loop
          inMap,    \* the connection is in connections_
          server,   \* the TcpServer exists
          looping,  \* the IO loop runs
          alive,    \* the TcpConnection has not been destructed
          worker,   \* per worker: [pc, op, msg]
          peer,     \* "open", "fin" or "rst"
          fail,     \* the assertion that failed, or "none"
          sent,     \* history: units accepted by sendInLoop, in order
          wire,     \* history: units the kernel took, in order
          used      \* history: messages passed to send()

vars == <<conn, functors, timers, removals, inMap, server, looping, alive, worker,
          peer, fail, sent, wire, used>>
data == <<sent, wire, used>>

Functor(op, m) == [op |-> op, msg |-> m]
NoMsg == "none"
Call(op) == Functor(op, NoMsg)

\* Functors that hold a shared pointer to the connection.
Owning == {"connectEstablished", "connectDestroyed", "forceClose", "callback"}

Referenced ==
    \/ inMap
    \/ removals > 0
    \/ \E i \in DOMAIN functors : functors[i].op \in Owning
    \/ \E w \in Workers : worker[w].pc # "none"

Idle == [pc |-> "none", op |-> "none", msg |-> NoMsg]

\* TcpServer::newConnection: construct, insert into the map, hand over to the
\* IO loop.
Init ==
    /\ usage \in Usages
    /\ conn = [state_ |-> "kConnecting", closeFlag_ |-> FALSE, forceFlag_ |-> FALSE,
               dissByPeer_ |-> FALSE, reading_ |-> TRUE, reading |-> FALSE,
               writing |-> FALSE, index_ |-> "kNew", shutWr |-> FALSE, out |-> << >>,
               ups |-> 0, downs |-> 0, destroyed |-> 0, closed |-> 0]
    /\ functors = << Call("connectEstablished") >>
    /\ timers = 0
    /\ removals = 0
    /\ inMap = TRUE
    /\ server = TRUE /\ looping = TRUE /\ alive = TRUE
    /\ worker = [w \in Workers |-> Idle]
    /\ peer = "open"
    /\ fail = "none"
    /\ sent = << >> /\ wire = << >> /\ used = {}

-----------------------------------------------------------------------------
\* The methods, as functions from the fields before to the fields after.

\* Channel::update and EPollPoller::updateChannel: a channel that is not
\* registered is added even when it asks for no event.
Update(c) ==
    [c EXCEPT !.index_ = IF c.index_ = "kAdded" /\ ~c.reading /\ ~c.writing
                         THEN "kDeleted" ELSE "kAdded"]

EnableReading(c)  == Update([c EXCEPT !.reading = TRUE])
DisableReading(c) == Update([c EXCEPT !.reading = FALSE])
EnableWriting(c)  == Update([c EXCEPT !.writing = TRUE])
DisableWriting(c) == Update([c EXCEPT !.writing = FALSE])
DisableAll(c)     == Update([c EXCEPT !.reading = FALSE, !.writing = FALSE])

\* The branch of handleClose that really closes.  closeCallback_, which queues
\* removeConnectionInLoop, is added by the actions (Closes).
Closed(c) == DisableAll([c EXCEPT !.state_ = "kDisconnected", !.downs = @ + 1])

\* shutdownInLoop, whose handleClose can only close (closeFlag_ is set) or do
\* nothing (a delayed close is pending: shutdown() returns at once).
ShutdownInLoop(c) ==
    IF c.writing THEN c
    ELSE LET d == [c EXCEPT !.shutWr = TRUE] IN
         IF c.dissByPeer_ /\ c.closeFlag_ THEN Closed(d) ELSE d

\* shutdown() called in the IO loop.
Shutdown(c) ==
    IF c.state_ # "kConnected" THEN c
    ELSE ShutdownInLoop([c EXCEPT !.closeFlag_ = TRUE, !.state_ = "kDisconnecting"])

\* Mutation of HandleClose: the first end of file is not answered.
HandleCloseIgnoringPeer(c) ==
    IF c.closeFlag_ THEN Closed(c) ELSE [c EXCEPT !.dissByPeer_ = TRUE]

HandleClose(c) ==
    IF c.closeFlag_ THEN Closed(c) ELSE Shutdown([c EXCEPT !.dissByPeer_ = TRUE])

\* Mutation of ForceCloseInLoop: state_ is not tested.
ForceCloseInLoopUnchecked(c) ==
    HandleClose([c EXCEPT !.closeFlag_ = TRUE, !.forceFlag_ = TRUE])

ForceCloseInLoop(c) ==
    IF c.state_ \in {"kConnected", "kDisconnecting"}
    THEN HandleClose([c EXCEPT !.closeFlag_ = TRUE, !.forceFlag_ = TRUE])
    ELSE c

\* connectDestroyed up to channel_->remove(), and after it.
DestroyBegin(c) ==
    IF c.state_ = "kConnected"
    THEN DisableAll([c EXCEPT !.state_ = "kDisconnected", !.downs = @ + 1])
    ELSE c

\* Mutation of DestroyEnd: the socket is closed whether or not it was forced.
DestroyEndAlwaysCloses(c) ==
    [c EXCEPT !.index_ = "kNew", !.destroyed = @ + 1, !.closed = @ + 1]

DestroyEnd(c) ==
    [c EXCEPT !.index_ = "kNew", !.destroyed = @ + 1,
              !.closed = IF c.forceFlag_ THEN @ + 1 ELSE @]

StartStop(c, op) ==
    CASE op = "startRead" /\ (~c.reading_ \/ ~c.reading) ->
             [EnableReading(c) EXCEPT !.reading_ = TRUE]
      [] op = "stopRead" /\ (c.reading_ \/ c.reading) ->
             [DisableReading(c) EXCEPT !.reading_ = FALSE]
      [] op = "startWrite" /\ ~c.writing -> EnableWriting(c)
      [] op = "stopWrite" /\ c.writing   -> DisableWriting(c)
      [] OTHER -> c

-----------------------------------------------------------------------------
Running == fail = "none" /\ looping
Room == Len(functors) < usage.functors

\* An event of the channel is delivered: it is registered and tie_ locks.
EventsDelivered == Running /\ conn.index_ = "kAdded" /\ Referenced

\* handleClose asserts that state_ is kConnected or kDisconnecting.
Open(c) == c.state_ \in {"kConnected", "kDisconnecting"}

FailWith(what) ==
    /\ fail' = what
    /\ UNCHANGED <<conn, functors, timers, removals, inMap, server, looping, alive,
                   worker, peer, data>>

\* The fields become c.  When the closing branch was taken, closeCallback_ makes
\* the server queue removeConnectionInLoop in the base loop.  To add the channel
\* of a socket that has been closed is fatal (EPollPoller::update), or registers
\* whatever has got its number meanwhile.
Becomes(c) ==
    LET closing == c.downs > conn.downs
        addsClosed == conn.closed > 0 /\ conn.index_ # "kAdded" /\ c.index_ = "kAdded"
    IN /\ conn' = c
       /\ removals' = IF closing /\ server THEN removals + 1 ELSE removals
       /\ fail' = CASE addsClosed -> "closedFd"
                    [] ~addsClosed /\ closing /\ ~server -> "danglingServer"
                    [] OTHER -> fail

\* What write() of the n pending units may answer.
Dead == conn.shutWr \/ peer = "rst"
Units(m) == << <<m, 1>>, <<m, 2>> >>
Callback == Call("callback")

\* Mutation of SendInLoop: the output buffer is not looked at before writing.
SendInLoopAhead(m, queue) ==
    IF conn.state_ = "kDisconnected" \/ Dead
    THEN functors' = queue /\ UNCHANGED <<conn, sent, wire>>
    ELSE \E n \in 0..2 :
        /\ sent' = sent \o Units(m)
        /\ wire' = wire \o SubSeq(Units(m), 1, n)
        /\ conn' = IF n = 2 THEN conn
                   ELSE EnableWriting([conn EXCEPT !.out = @ \o SubSeq(Units(m), n + 1, 2)])
        /\ functors' = IF n = 2 THEN Append(queue, Callback) ELSE queue

\* sendInLoop: give up when disconnected; write at once when nothing is pending,
\* losing the message on EPIPE or ECONNRESET; keep what was not written.  queue
\* is the functor queue that writeCompleteCallback_ or highWaterMarkCallback_
\* is appended to.
SendInLoop(m, queue) ==
    LET direct == ~conn.writing /\ conn.out = << >> IN
    IF conn.state_ = "kDisconnected" \/ (direct /\ Dead)
    THEN functors' = queue /\ UNCHANGED <<conn, sent, wire>>
    ELSE \E n \in IF direct THEN 0..2 ELSE {0} :
        LET out == conn.out \o SubSeq(Units(m), n + 1, 2)
            kept == [conn EXCEPT !.out = out]
            highWater == Len(out) >= HighWater /\ Len(conn.out) < HighWater
        IN /\ sent' = sent \o Units(m)
           /\ wire' = wire \o SubSeq(Units(m), 1, n)
           /\ conn' = IF n = 2 \/ conn.writing THEN kept ELSE EnableWriting(kept)
           /\ functors' = IF n = 2 \/ highWater THEN Append(queue, Callback) ELSE queue

-----------------------------------------------------------------------------
\* Steps of the IO loop.

\* connectEstablished, the first functor of the connection.
ConnectEstablished(queue) ==
    /\ Becomes(EnableReading([conn EXCEPT !.state_ = "kConnected", !.ups = @ + 1]))
    /\ functors' = queue
    /\ UNCHANGED <<timers, inMap, server, looping, alive, worker, peer, data>>

\* connectDestroyed: channel_->remove() asserts that no event is enabled, and
\* the poller that the channel is known to it.
ConnectDestroyed(queue) ==
    LET c == DestroyBegin(conn) IN
    IF c.reading \/ c.writing \/ c.index_ = "kNew" THEN FailWith("remove")
    ELSE /\ conn' = DestroyEnd(c)
         /\ functors' = queue
         /\ UNCHANGED <<timers, removals, inMap, server, looping, alive, worker, peer,
                        fail, data>>

\* A functor that only changes the connection.
Run(c, queue) ==
    /\ Becomes(c)
    /\ functors' = queue
    /\ UNCHANGED <<timers, inMap, server, looping, alive, worker, peer, data>>

\* sendInLoop on a closed socket: the write fails, the rest is kept and the
\* channel added.
RunSend(m, queue) ==
    IF conn.closed > 0 /\ conn.state_ # "kDisconnected" THEN FailWith("closedFd")
    ELSE /\ SendInLoop(m, queue)
         /\ UNCHANGED <<timers, removals, inMap, server, looping, alive, worker, peer,
                        fail, used>>

\* doPendingFunctors, one functor per step.
RunFunctor ==
    /\ Running /\ functors # << >>
    /\ LET f == Head(functors)
           queue == Tail(functors)
       IN CASE ~alive -> FailWith("useAfterFree")
            [] alive /\ f.op = "connectEstablished" -> ConnectEstablished(queue)
            [] alive /\ f.op = "connectDestroyed" -> ConnectDestroyed(queue)
            [] alive /\ f.op = "send" -> RunSend(f.msg, queue)
            [] alive /\ f.op = "shutdown" ->
                   IF ~conn.writing /\ conn.dissByPeer_ /\ ~Open(conn)
                   THEN FailWith("handleClose")
                   ELSE Run(ShutdownInLoop(conn), queue)
            [] alive /\ f.op = "forceClose" -> Run(ForceCloseInLoop(conn), queue)
            [] alive /\ f.op = "callback" -> Run(conn, queue)
            [] OTHER -> Run(StartStop(conn, f.op), queue)

\* handleRead on end of file (0 bytes), and handleClose for a hang-up that is
\* reported without POLLIN, which needs reading to be off.
PeerClosed ==
    /\ EventsDelivered
    /\ \/ conn.reading /\ peer # "open"
       \/ ~conn.reading /\ (peer = "rst" \/ (peer = "fin" /\ conn.shutWr))
    /\ IF Open(conn)
       THEN /\ Becomes(HandleClose(conn))
            /\ UNCHANGED <<functors, timers, inMap, server, looping, alive, worker,
                           peer, data>>
       ELSE FailWith("handleClose")

\* handleRead with data: messageCallback_ hands the connection to a worker.
HandleMessage(w) ==
    /\ EventsDelivered /\ conn.reading
    /\ worker[w].pc = "none"
    /\ worker' = [worker EXCEPT ![w].pc = "held"]
    /\ UNCHANGED <<conn, functors, timers, removals, inMap, server, looping, alive, peer,
                   fail, data>>

\* Mutation of Written: the end of the output does not finish a shutdown.
WrittenWithoutShutdown(n) ==
    LET out == SubSeq(conn.out, n + 1, Len(conn.out))
        c == [conn EXCEPT !.out = out]
    IN IF out = << >> THEN DisableWriting(c) ELSE c

\* The fields after handleWrite has written n units.
Written(n) ==
    LET out == SubSeq(conn.out, n + 1, Len(conn.out))
        c == [conn EXCEPT !.out = out]
        idle == DisableWriting(c)
    IN IF out # << >> THEN c
       ELSE IF conn.state_ = "kDisconnecting" THEN ShutdownInLoop(idle) ELSE idle

\* handleWrite; on an error, or with nothing to write, it changes nothing.
HandleWrite ==
    /\ EventsDelivered /\ conn.writing /\ ~Dead
    /\ \E n \in 1..Len(conn.out) :
        /\ Becomes(Written(n))
        /\ wire' = wire \o SubSeq(conn.out, 1, n)
        /\ functors' = IF n = Len(conn.out) THEN Append(functors, Callback) ELSE functors
    /\ UNCHANGED <<timers, inMap, server, looping, alive, worker, peer, sent, used>>

-----------------------------------------------------------------------------
\* Calls made by callbacks that run in the IO loop.

InCallback(op) == Running /\ Referenced /\ conn.ups = 1 /\ op \in usage.loop

SendFromLoop(m) ==
    /\ InCallback("send") /\ Room /\ m \in usage.messages \ used
    /\ used' = used \cup {m}
    /\ IF conn.state_ = "kConnected" THEN SendInLoop(m, functors)
       ELSE UNCHANGED <<conn, functors, sent, wire>>
    /\ UNCHANGED <<timers, removals, inMap, server, looping, alive, worker, peer, fail>>

ShutdownFromLoop ==
    /\ InCallback("shutdown")
    /\ Run(Shutdown(conn), functors)

\* forceClose: queueInLoop even in the loop's own thread.
ForceCloseFromLoop ==
    /\ InCallback("forceClose") /\ Room /\ Open(conn)
    /\ Run([conn EXCEPT !.state_ = "kDisconnecting"], Append(functors, Call("forceClose")))

ForceCloseWithDelayFromLoop ==
    /\ InCallback("forceCloseWithDelay") /\ timers < MaxTimers /\ Open(conn)
    /\ conn' = [conn EXCEPT !.state_ = "kDisconnecting"]
    /\ timers' = timers + 1
    /\ UNCHANGED <<functors, removals, inMap, server, looping, alive, worker, peer, fail,
                   data>>

StartStopFromLoop(op) ==
    /\ InCallback(op) /\ op \in {"stopRead", "startRead", "stopWrite", "startWrite"}
    /\ StartStop(conn, op) # conn
    /\ Run(StartStop(conn, op), functors)

\* The delayed close: the weak pointer locks only while the connection lives.
FireTimer ==
    /\ Running /\ Room /\ timers > 0
    /\ timers' = timers - 1
    /\ IF Referenced /\ Open(conn)
       THEN /\ conn' = [conn EXCEPT !.state_ = "kDisconnecting"]
            /\ functors' = Append(functors, Call("forceClose"))
       ELSE UNCHANGED <<conn, functors>>
    /\ UNCHANGED <<removals, inMap, server, looping, alive, worker, peer, fail, data>>

-----------------------------------------------------------------------------
\* Calls made by a worker: test state_, set it, queue the functor.

States == {"kDisconnected", "kConnecting", "kConnected", "kDisconnecting"}

Tested(op) ==
    CASE op \in {"send", "shutdown"} -> {"kConnected"}
      [] op \in {"forceClose", "forceCloseWithDelay"} -> {"kConnected", "kDisconnecting"}
      [] OTHER -> States

WorkerTest(w, op, m) ==
    /\ fail = "none"
    /\ worker[w].pc = "held" /\ op \in usage.worker
    /\ IF op = "send" THEN m \in usage.messages \ used ELSE m = NoMsg
    /\ conn.state_ \in Tested(op)
    /\ worker' = [worker EXCEPT ![w] = [pc |-> "tested", op |-> op, msg |-> m]]
    /\ used' = IF op = "send" THEN used \cup {m} ELSE used
    /\ UNCHANGED <<conn, functors, timers, removals, inMap, server, looping, alive, peer,
                   fail, sent, wire>>

\* closeFlag_ and state_ are written with no lock, whatever happened meanwhile.
WorkerSet(w) ==
    /\ fail = "none"
    /\ worker[w].pc = "tested"
    /\ worker' = [worker EXCEPT ![w].pc = "set"]
    /\ conn' = CASE worker[w].op = "shutdown" ->
                        [conn EXCEPT !.closeFlag_ = TRUE, !.state_ = "kDisconnecting"]
                 [] worker[w].op \in {"forceClose", "forceCloseWithDelay"} ->
                        [conn EXCEPT !.state_ = "kDisconnecting"]
                 [] OTHER -> conn
    /\ UNCHANGED <<functors, timers, removals, inMap, server, looping, alive, peer, fail,
                   data>>

WorkerQueue(w) ==
    /\ fail = "none"
    /\ worker[w].pc = "set"
    /\ worker' = [worker EXCEPT ![w] = [pc |-> "held", op |-> "none", msg |-> NoMsg]]
    /\ IF worker[w].op = "forceCloseWithDelay"
       THEN /\ timers < MaxTimers
            /\ timers' = timers + 1
            /\ UNCHANGED functors
       ELSE /\ Room
            /\ functors' = Append(functors, Functor(worker[w].op, worker[w].msg))
            /\ UNCHANGED timers
    /\ UNCHANGED <<conn, removals, inMap, server, looping, alive, peer, fail, data>>

\* The worker's task ends and drops its shared pointer.
WorkerDone(w) ==
    /\ fail = "none"
    /\ worker[w].pc = "held"
    /\ worker' = [worker EXCEPT ![w] = Idle]
    /\ UNCHANGED <<conn, functors, timers, removals, inMap, server, looping, alive, peer,
                   fail, data>>

-----------------------------------------------------------------------------
\* The base loop, the destructors and the peer.

\* connections_[name] has (re-)created the entry when erase runs, so that the
\* assertion n == 1 holds even for a connection that has been removed before.
RemoveConnectionInLoop ==
    /\ fail = "none" /\ server /\ removals > 0
    /\ removals' = removals - 1
    /\ inMap' = FALSE
    /\ functors' = Append(functors, Call("connectDestroyed"))
    /\ UNCHANGED <<conn, timers, server, looping, alive, worker, peer, fail, data>>

\* ~TcpServer, which runs when the base loop has ended: its functors are lost.
ServerDtor ==
    /\ fail = "none" /\ server /\ usage.serverMayDie
    /\ server' = FALSE
    /\ inMap' = FALSE
    /\ removals' = 0
    /\ functors' = IF inMap THEN Append(functors, Call("connectDestroyed")) ELSE functors
    /\ UNCHANGED <<conn, timers, looping, alive, worker, peer, fail, data>>

\* ~TcpServer then destructs its threads, which quits the IO loop: functors that
\* are queued after the loop's last doPendingFunctors are dropped.
IOLoopQuits ==
    /\ Running /\ ~server
    /\ looping' = FALSE
    /\ functors' = << >>
    /\ timers' = 0
    /\ UNCHANGED <<conn, removals, inMap, server, alive, worker, peer, fail, data>>

\* ~TcpConnection, ~Channel (not in a loop) and ~Socket (close, unless a forced
\* close has left that to connectDestroyed), when the last shared pointer goes.
Destruct ==
    /\ fail = "none" /\ alive /\ ~Referenced
    /\ IF conn.state_ # "kDisconnected" \/ conn.index_ # "kNew"
       THEN FailWith("destructor")
       ELSE /\ alive' = FALSE
            /\ conn' = [conn EXCEPT !.closed = IF conn.forceFlag_ THEN @ ELSE @ + 1]
            /\ UNCHANGED <<functors, timers, removals, inMap, server, looping, worker,
                           peer, fail, data>>

\* The peer closes its side, or resets the connection.
PeerStep ==
    /\ fail = "none" /\ alive
    /\ \/ peer = "open" /\ peer' = "fin"
       \/ peer # "rst" /\ peer' = "rst"
    /\ UNCHANGED <<conn, functors, timers, removals, inMap, server, looping, alive,
                   worker, fail, data>>

BaseLoop == RemoveConnectionInLoop \/ ServerDtor \/ IOLoopQuits
IOLoop == RunFunctor \/ PeerClosed \/ HandleWrite \/ FireTimer
LoopCalls ==
    \/ \E m \in Messages : SendFromLoop(m)
    \/ ShutdownFromLoop
    \/ ForceCloseFromLoop
    \/ ForceCloseWithDelayFromLoop
    \/ \E op \in usage.loop : StartStopFromLoop(op)
WorkerStep(w) ==
    \/ HandleMessage(w)
    \/ \E op \in usage.worker, m \in Messages \cup {NoMsg} : WorkerTest(w, op, m)
    \/ WorkerSet(w)
    \/ WorkerQueue(w)
    \/ WorkerDone(w)

Step ==
    \/ IOLoop
    \/ LoopCalls
    \/ \E w \in Workers : WorkerStep(w)
    \/ BaseLoop
    \/ Destruct
    \/ PeerStep

Next == Step /\ UNCHANGED usage

\* A loop runs its functors, its events and its timers; a worker finishes its
\* task.  Whether the peer ever reads or closes, and what is called, is open.
Fairness ==
    /\ WF_vars(RunFunctor) /\ WF_vars(PeerClosed) /\ WF_vars(FireTimer)
    /\ WF_vars(RemoveConnectionInLoop) /\ WF_vars(Destruct)
    /\ \A w \in Workers : WF_vars(WorkerSet(w) \/ WorkerQueue(w)) /\ WF_vars(WorkerDone(w))

Spec == Init /\ [][Next]_<<vars, usage>> /\ Fairness

-----------------------------------------------------------------------------
Conn ==
    [state_ : States, closeFlag_ : BOOLEAN, forceFlag_ : BOOLEAN, dissByPeer_ : BOOLEAN,
     reading_ : BOOLEAN, reading : BOOLEAN, writing : BOOLEAN,
     index_ : {"kNew", "kAdded", "kDeleted"}, shutWr : BOOLEAN, out : Seq(Messages \X {1, 2}),
     ups : Nat, downs : Nat, destroyed : Nat, closed : Nat]

\* A functor or a call that sends has a message, the others have none.
WithMsg(op, m) == IF op = "send" THEN m \in Messages ELSE m = NoMsg

\* Type invariant.
TypeOK ==
    /\ usage \in Usages
    /\ conn \in Conn
    /\ timers \in 0..MaxTimers /\ removals \in Nat
    /\ functors \in Seq([op : Owning \cup Ops, msg : Messages \cup {NoMsg}])
    /\ \A i \in DOMAIN functors : WithMsg(functors[i].op, functors[i].msg)
    /\ {inMap, server, looping, alive} \subseteq BOOLEAN
    /\ worker \in [Workers -> [pc : {"none", "held", "tested", "set"},
                               op : Ops \cup {"none"}, msg : Messages \cup {NoMsg}]]
    /\ \A w \in Workers :
        worker[w].pc \in {"tested", "set"} => WithMsg(worker[w].op, worker[w].msg)
    /\ peer \in {"open", "fin", "rst"}
    /\ sent \in Seq(Messages \X {1, 2}) /\ wire \in Seq(Messages \X {1, 2})
    /\ used \subseteq Messages

\* Only the IO loop closes the connection and nobody switches reading or writing, as
\* in HttpServer and the CGI server.
Steady ==
    /\ usage.worker \subseteq {"send"}
    /\ usage.loop \subseteq {"send", "shutdown", "forceClose", "forceCloseWithDelay"}
    /\ ~usage.serverMayDie

\* Whatever closes the connection first (the peer, shutdown, a forced close, a
\* delayed one), connectionCallback_ reports it up once and down at most once,
\* connectDestroyed runs at most once and only after the connection has left the
\* server's map, and none of the lifecycle assertions fails, as long as only the IO
\* loop closes.  The functors bound to a raw this never meet a destructed connection unless
\* a worker queued them.  The descriptor is closed exactly once in any usage: by
\* connectDestroyed for a forced close, by the Socket's destructor otherwise (~Socket
\* skips it after setSolinger).
LifecycleOnce ==
    /\ TypeOK
    /\ Steady => /\ conn.downs <= conn.ups /\ conn.ups <= 1
                 /\ conn.destroyed + removals <= 1
                 /\ conn.destroyed = 1 => ~inMap /\ conn.downs = 1
                 /\ fail \in {"none", "useAfterFree"}
    /\ usage.worker = {} => fail # "useAfterFree"
    /\ conn.closed <= 1
    /\ ~alive => conn.closed = 1

\* Nobody but the connection itself enables or disables writing.
WritingUntouched == {"startWrite", "stopWrite"} \cap (usage.loop \cup usage.worker) = {}

\* What sendInLoop has accepted, directly written or buffered, reaches the kernel
\* in that order with no gap, also when partial writes and sends interleave; and
\* shutdown() is graceful unless stopWrite() or startWrite() is called: the write side
\* of a connection that is up is shut only when nothing is left, and nothing is
\* accepted afterwards.
OutputInOrder ==
    /\ sent = wire \o conn.out
    /\ (WritingUntouched /\ conn.shutWr /\ conn.downs = 0) => conn.out = << >>

\* A shutdown is not forgotten while output drains: once all output is written,
\* the write side is shut (or the connection closed).
ShutdownFinishes ==
    (Steady /\ conn.closeFlag_ /\ conn.out = << >>)
        ~> (conn.shutWr \/ conn.downs >= 1 \/ fail # "none")

\* When the peer has closed, the connection is eventually reported down even if a
\* delayed close or pending output was in its way.
PeerCloseEnds ==
    (Steady /\ peer # "open" /\ conn.reading) ~> (conn.downs >= 1 \/ fail # "none")

\* A connection is closed when it is destructed (TcpConnection.cpp:70, assert(state_ ==
\* kDisconnected)), whoever has called forceClose, forceCloseWithDelay or shutdown.
DestructedClosed == fail = "destructor" => conn.state_ = "kDisconnected"

-----------------------------------------------------------------------------
\* The inductive invariant.

\* Functors and calls are those of the usage; a functor that does not hold the
\* connection was queued by a worker.
CallsAllowed ==
    /\ \A i \in DOMAIN functors : functors[i].op \in Owning \cup usage.worker
    /\ \A w \in Workers : worker[w].pc \in {"tested", "set"} => worker[w].op \in usage.worker

Destroying(f) == f.op = "connectDestroyed"

\* Before connectEstablished, which is the loop's first functor, the connection is as
\* constructed and nobody has got hold of it; afterwards it is never established again.
EstablishedOnce ==
    /\ conn.ups = 0 =>
        /\ conn.state_ = "kConnecting" /\ conn.index_ = "kNew" /\ conn.downs = 0
        /\ conn.out = << >> /\ conn.destroyed = 0
        /\ ~conn.forceFlag_ /\ ~conn.reading /\ ~conn.writing /\ ~conn.shutWr
        /\ \A w \in Workers : worker[w].pc = "none"
        /\ timers = 0 /\ removals = 0
        /\ looping => /\ functors # << >> /\ Head(functors).op = "connectEstablished"
                      /\ \A i \in DOMAIN functors : i > 1 => Destroying(functors[i])
    /\ conn.ups >= 1 =>
        /\ conn.ups = 1 /\ conn.state_ # "kConnecting"
        /\ \A i \in DOMAIN functors : functors[i].op # "connectEstablished"

\* The socket has been closed when a forced close has been completed by
\* connectDestroyed, or the connection is gone.  An open connection is registered and
\* not about to be closed by force.
ClosedOnce ==
    /\ conn.closed <= 1
    /\ ~alive => conn.closed = 1 /\ ~Referenced
    /\ fail = "none" =>
        /\ alive => conn.closed = IF conn.forceFlag_ /\ conn.index_ = "kNew" THEN 1 ELSE 0
        /\ conn.state_ = "kConnected" => conn.index_ # "kNew" /\ ~conn.forceFlag_
    /\ usage.worker = {} => fail # "useAfterFree"

\* Writing is enabled exactly while output is pending.
WritesPending ==
    (WritingUntouched /\ conn.downs = 0) => (conn.writing <=> conn.out # << >>)

\* The life of a connection that only its IO loop closes: up; reported down, and to
\* be removed by the base loop; removed, and to be destroyed by the IO loop;
\* destroyed.
Up ==
    /\ conn.downs = 0 /\ Open(conn) /\ conn.index_ = "kAdded" /\ conn.reading
    /\ conn.destroyed = 0 /\ inMap /\ removals = 0
    /\ \A i \in DOMAIN functors : ~Destroying(functors[i])
Disabled ==
    conn.downs = 1 /\ conn.state_ = "kDisconnected" /\ ~conn.reading /\ ~conn.writing
Down ==
    /\ Disabled /\ conn.index_ = "kDeleted" /\ conn.destroyed = 0 /\ inMap /\ removals = 1
    /\ \A i \in DOMAIN functors : ~Destroying(functors[i])
Removed ==
    /\ Disabled /\ conn.index_ = "kDeleted" /\ conn.destroyed = 0 /\ ~inMap /\ removals = 0
    /\ \E i \in DOMAIN functors :
        /\ Destroying(functors[i])
        /\ \A j \in DOMAIN functors : Destroying(functors[j]) => j = i
Destroyed ==
    /\ Disabled /\ conn.index_ = "kNew" /\ conn.destroyed = 1 /\ ~inMap /\ removals = 0
    /\ \A i \in DOMAIN functors : ~Destroying(functors[i])

SteadyLife ==
    Steady =>
        /\ server /\ looping /\ fail \in {"none", "useAfterFree"}
        /\ conn.ups = 0 => inMap /\ \A i \in DOMAIN functors : ~Destroying(functors[i])
        /\ conn.ups = 1 => Up \/ Down \/ Removed \/ Destroyed

IInv ==
    /\ TypeOK /\ CallsAllowed /\ EstablishedOnce /\ ClosedOnce /\ OutputInOrder
    /\ WritesPending /\ SteadyLife
=============================================================================
