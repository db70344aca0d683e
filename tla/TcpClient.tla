----------------------------- MODULE TcpClient ------------------------------
(***************************************************************************)
(* netLayer/tcp/c/Connector.cpp and client/TcpClient.cpp as                *)
(* webServer/start_up.cpp uses them: the client that sends heartbeats to   *)
(* the monitor, connects again whenever it is disconnected, and is deleted *)
(* by stop().  The loop is the base loop, iteration by iteration: poll,    *)
(* the handlers of the active channels and timers, the functors queued     *)
(* before.  A TcpConnection (module TcpConnection) is up, down or          *)
(* destroyed here.  Another thread sends heartbeats through g_conn, a weak *)
(* pointer.  A failing assert or a call on a freed object is recorded in   *)
(* fail and stops the program.                                             *)
(***************************************************************************)
EXTENDS Naturals, Sequences

CONSTANTS InitDelay,   \* kInitRetryDelayMs
          MaxDelay,    \* kMaxRetryDelayMs
          MaxConns     \* bound on the connections made

None == 0
Conns == 1..MaxConns

VARIABLES c,          \* the Connector: state_, connect_, channel_ (is set), delay, its
                      \* retry timers, the socket it owns, and whether it gave up
          alive,      \* the Connector has not been destructed
          hack,       \* the timer of ~TcpClient that holds the Connector
          client,     \* the TcpClient exists
          connection_,
          conns,      \* per connection: "none", "up", "down" or "destroyed"
          g_conn,
          stopped,    \* closeHeartBeat
          shared,     \* history: ~TcpClient found connection_ not unique
          sender,     \* the sending thread: [pc, conn]
          phase,      \* of the loop: "poll", "events" or "functors"
          active, pending, batch,
          monitor,    \* the monitor is reachable: an attempt made now succeeds
          fail

loopVars == <<phase, active, pending, batch>>
vars == <<c, alive, hack, client, connection_, conns, g_conn, stopped, shared, sender,
          loopVars, monitor, fail>>

F(op, n) == [op |-> op, conn |-> n]

-----------------------------------------------------------------------------
\* The Connector, as functions from its fields before to those after; queue is
\* what the call appends to the pending functors.

CloseSocket(k) == [k EXCEPT !.owned = @ - 1]

\* Mutation of Retry: the socket of the failed attempt is not closed.
RetryLeaks(k) ==
    LET d == [k EXCEPT !.state_ = "kDisconnected"] IN
    IF d.connect_ THEN [d EXCEPT !.timers = @ + 1,
                                 !.delay = IF 2 * @ > MaxDelay THEN MaxDelay ELSE 2 * @]
    ELSE d

\* Mutation of Retry: a failed attempt is the last one.
RetryNever(k) == [CloseSocket(k) EXCEPT !.state_ = "kDisconnected"]

Retry(k) ==
    LET d == [CloseSocket(k) EXCEPT !.state_ = "kDisconnected"] IN
    IF d.connect_ THEN [d EXCEPT !.timers = @ + 1,
                                 !.delay = IF 2 * @ > MaxDelay THEN MaxDelay ELSE 2 * @]
    ELSE d

\* connecting() asserts !channel_.
Connecting(k) == [k EXCEPT !.state_ = "kConnecting", !.channel = TRUE,
                           !.failed = @ \/ k.channel]

\* connect(): the call of ::connect is in progress, or fails with an errno that
\* is tried again or one that is not.
Outcomes == {"inProgress", "fatal"} \cup (IF monitor THEN {} ELSE {"again"})
Connect(k, outcome) ==
    LET d == [k EXCEPT !.owned = @ + 1] IN
    CASE outcome = "inProgress" -> Connecting(d)
      [] outcome = "again" -> Retry(d)
      [] OTHER -> [CloseSocket(d) EXCEPT !.gaveUp = TRUE]

StartInLoop(k, outcome) == IF k.connect_ THEN Connect(k, outcome) ELSE k

\* start() in the loop's thread: TcpClient::connect.
Start(k, outcome) == StartInLoop([k EXCEPT !.connect_ = TRUE], outcome)

\* removeAndResetChannel() queues resetChannel; the socket stays.
RemoveAndResetChannel == << F("resetChannel", None) >>

-----------------------------------------------------------------------------
Held(q, n) == \E i \in DOMAIN q : q[i].conn = n
Queued(q, op) == \E i \in DOMAIN q : q[i].op = op

\* No shared pointer to connection n is left.
Freed(n) ==
    /\ conns[n] # "none"
    /\ ~(client /\ connection_ = n)
    /\ ~Held(pending, n) /\ ~Held(batch, n)
    /\ sender.conn # n

\* main: the client is created and connects before loop() is called.
Init ==
    /\ monitor \in BOOLEAN
    /\ \E outcome \in Outcomes :
        c = Start([state_ |-> "kDisconnected", connect_ |-> FALSE, channel |-> FALSE,
                   delay |-> InitDelay, timers |-> 0, owned |-> 0, gaveUp |-> FALSE,
                   failed |-> FALSE], outcome)
    /\ alive = TRUE /\ hack = FALSE /\ client = TRUE
    /\ connection_ = None
    /\ conns = [n \in Conns |-> "none"]
    /\ g_conn = None
    /\ stopped = FALSE /\ shared = FALSE
    /\ sender = [pc |-> "idle", conn |-> None]
    /\ phase = "poll" /\ active = {} /\ pending = << >> /\ batch = << >>
    /\ fail = "none"

Running == fail = "none" /\ ~c.failed

\* What poll may report: the connecting socket, a due timer, the open connection.
\* ~TcpClient holds the Connector for a second, in which the loop is taken to get
\* round to its functors.
Ready ==
    {s \in {"connector", "retry", "hack", "conn"} :
        CASE s = "connector" -> c.state_ = "kConnecting"
          [] s = "retry" -> c.timers > 0
          [] s = "hack" -> hack /\ pending = << >>
          [] OTHER -> \E n \in Conns : conns[n] = "up" /\ ~Freed(n)}

Poll(events) ==
    /\ Running /\ phase = "poll"
    /\ events \subseteq Ready
    /\ events # {} \/ pending # << >>
    /\ phase' = "events" /\ active' = events
    /\ UNCHANGED <<c, alive, hack, client, connection_, conns, g_conn, stopped, shared,
                   sender, pending, batch, monitor, fail>>

\* All handlers have run: doPendingFunctors.
TakeFunctors ==
    /\ Running /\ phase = "events" /\ active = {}
    /\ phase' = "functors"
    /\ batch' = pending /\ pending' = << >>
    /\ UNCHANGED <<c, alive, hack, client, connection_, conns, g_conn, stopped, shared,
                   sender, active, monitor, fail>>

EndIteration ==
    /\ Running /\ phase = "functors" /\ batch = << >>
    /\ phase' = "poll"
    /\ UNCHANGED <<c, alive, hack, client, connection_, conns, g_conn, stopped, shared,
                   sender, active, pending, batch, monitor, fail>>

Handling(s) ==
    /\ Running /\ phase = "events" /\ s \in active
    /\ active' = active \ {s}
    /\ UNCHANGED <<phase, batch>>

-----------------------------------------------------------------------------
\* handleWrite with an error or a self-connect, and handleError (after which
\* handleWrite of the same event finds kDisconnected).
ConnectFails ==
    /\ Handling("connector") /\ ~monitor
    /\ c.state_ = "kConnecting"
    /\ pending' = pending \o RemoveAndResetChannel
    /\ c' = Retry(c)
    /\ UNCHANGED <<alive, hack, client, connection_, conns, g_conn, stopped, shared,
                   sender, monitor, fail>>

\* handleWrite of an attempt that nobody wants any more.
ConnectUnwanted ==
    /\ Handling("connector") /\ monitor
    /\ c.state_ = "kConnecting" /\ ~c.connect_
    /\ pending' = pending \o RemoveAndResetChannel
    /\ c' = [CloseSocket(c) EXCEPT !.state_ = "kConnected"]
    /\ UNCHANGED <<alive, hack, client, connection_, conns, g_conn, stopped, shared,
                   sender, monitor, fail>>

\* handleWrite and TcpClient::newConnection, whose connectEstablished calls
\* onConnectionHeartBeat.
NewConnection(n) ==
    /\ Handling("connector") /\ monitor
    /\ c.state_ = "kConnecting" /\ c.connect_
    /\ conns[n] = "none" /\ \A m \in 1..(n - 1) : conns[m] # "none"
    /\ pending' = pending \o RemoveAndResetChannel
    /\ c' = [CloseSocket(c) EXCEPT !.state_ = "kConnected"]
    /\ IF client THEN /\ connection_' = n
                      /\ conns' = [conns EXCEPT ![n] = "up"]
                      /\ g_conn' = n
                      /\ UNCHANGED fail
       ELSE fail' = "clientGone" /\ UNCHANGED <<connection_, conns, g_conn>>
    /\ UNCHANGED <<alive, hack, client, stopped, shared, sender, monitor>>

\* A retry timer, which holds the Connector, is due; the Connector is destructed
\* when nothing else holds it.
RetryFires(outcome) ==
    LET k == StartInLoop([c EXCEPT !.timers = @ - 1], outcome) IN
    /\ Handling("retry")
    /\ c' = k
    /\ alive' = (client \/ hack \/ k.timers > 0)
    /\ fail' = IF ~alive' /\ k.channel THEN "connectorDtor" ELSE fail
    /\ UNCHANGED <<hack, client, connection_, conns, g_conn, stopped, shared, sender,
                   pending, monitor>>

HackFires ==
    /\ Handling("hack")
    /\ hack' = FALSE
    /\ alive' = (c.timers > 0)
    /\ fail' = IF ~alive' /\ c.channel THEN "connectorDtor" ELSE fail
    /\ UNCHANGED <<c, client, connection_, conns, g_conn, stopped, shared, sender,
                   pending, monitor>>

\* Mutation of ConnectionDown: connectDestroyed is not queued.
ConnectionDownForgets(n, outcome, queue) ==
    /\ conns' = [conns EXCEPT ![n] = "down"]
    /\ c' = IF stopped THEN c ELSE Start(c, outcome)
    /\ connection_' = None
    /\ fail' = IF client /\ connection_ # n THEN "removeConnection" ELSE fail
    /\ pending' = queue

\* handleClose of connection n: onConnectionHeartBeat connects again; then
\* TcpClient::removeConnection, or detail::removeConnection of a deleted client.
ConnectionDown(n, outcome, queue) ==
    /\ conns' = [conns EXCEPT ![n] = "down"]
    /\ c' = IF stopped THEN c ELSE Start(c, outcome)
    /\ connection_' = None
    /\ fail' = IF client /\ connection_ # n THEN "removeConnection" ELSE fail
    /\ pending' = Append(queue, F("connectDestroyed", n))

\* The monitor closes the connection.  (The last one within the bound stays.)
PeerCloses(n, outcome) ==
    /\ Handling("conn")
    /\ n < MaxConns \/ stopped
    /\ conns[n] = "up" /\ ~Freed(n)
    /\ ConnectionDown(n, outcome, pending)
    /\ UNCHANGED <<alive, hack, client, g_conn, stopped, shared, sender, monitor>>

\* An event of the connection that leaves it open, or of one that is gone.
ConnectionEvent ==
    /\ Handling("conn")
    /\ UNCHANGED <<c, alive, hack, client, connection_, conns, g_conn, stopped, shared,
                   sender, pending, monitor, fail>>

-----------------------------------------------------------------------------
\* Functors.

NextFunctor(op) ==
    /\ Running /\ phase = "functors" /\ batch # << >>
    /\ Head(batch).op = op
    /\ batch' = Tail(batch)
    /\ UNCHANGED <<phase, active>>

\* resetChannel, bound to a raw pointer.
ResetChannel ==
    /\ NextFunctor("resetChannel")
    /\ c' = [c EXCEPT !.channel = FALSE]
    /\ fail' = IF alive THEN fail ELSE "useAfterFree"
    /\ UNCHANGED <<alive, hack, client, connection_, conns, g_conn, stopped, shared,
                   sender, pending, monitor>>

\* stopInLoop, bound to a raw pointer.
StopInLoop ==
    /\ NextFunctor("stopInLoop")
    /\ fail' = IF alive THEN fail ELSE "useAfterFree"
    /\ IF c.state_ = "kConnecting"
       THEN c' = Retry(c) /\ pending' = pending \o RemoveAndResetChannel
       ELSE UNCHANGED <<c, pending>>
    /\ UNCHANGED <<alive, hack, client, connection_, conns, g_conn, stopped, shared,
                   sender, monitor>>

ConnectDestroyed ==
    /\ NextFunctor("connectDestroyed")
    /\ conns' = [conns EXCEPT ![Head(batch).conn] = "destroyed"]
    /\ UNCHANGED <<c, alive, hack, client, connection_, g_conn, stopped, shared, sender,
                   pending, monitor, fail>>

ForceCloseInLoop(outcome) ==
    /\ NextFunctor("forceClose")
    /\ IF conns[Head(batch).conn] = "up"
       THEN ConnectionDown(Head(batch).conn, outcome, pending)
       ELSE UNCHANGED <<conns, c, connection_, fail, pending>>
    /\ UNCHANGED <<alive, hack, client, g_conn, stopped, shared, sender, monitor>>

RunFunctor ==
    \/ ResetChannel \/ StopInLoop \/ ConnectDestroyed
    \/ \E outcome \in Outcomes : ForceCloseInLoop(outcome)

-----------------------------------------------------------------------------
\* Mutation of Stop: the Connector is not told.
StopWithoutConnector ==
    /\ Running /\ client
    /\ stopped' = TRUE /\ client' = FALSE
    /\ IF connection_ # None
       THEN /\ shared' = (sender.conn = connection_)
            /\ pending' = IF shared' THEN pending ELSE Append(pending, F("forceClose", connection_))
            /\ alive' = FALSE
            /\ fail' = IF c.channel THEN "stopEarly" ELSE fail
            /\ UNCHANGED hack
       ELSE /\ hack' = TRUE
            /\ UNCHANGED <<shared, pending, alive, fail>>
    /\ connection_' = None
    /\ UNCHANGED <<c, conns, g_conn, sender, phase, active, batch, monitor>>

\* stop(), by its timer or by the signal handler, between two steps of the loop:
\* closeHeartBeat, then ~TcpClient.  A connection that nobody else holds is
\* force-closed, and the Connector, idle then, destructed; with no connection the
\* Connector is stopped and held for a second.
Stop ==
    /\ Running /\ client
    /\ stopped' = TRUE /\ client' = FALSE
    /\ IF connection_ # None
       THEN /\ shared' = (sender.conn = connection_)
            /\ pending' = IF shared' THEN pending ELSE Append(pending, F("forceClose", connection_))
            /\ alive' = (c.timers > 0)
            /\ fail' = IF ~alive' /\ c.channel THEN "stopEarly" ELSE fail
            /\ UNCHANGED <<c, hack>>
       ELSE /\ c' = [c EXCEPT !.connect_ = FALSE]
            /\ pending' = Append(pending, F("stopInLoop", None))
            /\ hack' = TRUE
            /\ UNCHANGED <<shared, alive, fail>>
    /\ connection_' = None
    /\ UNCHANGED <<conns, g_conn, sender, phase, active, batch, monitor>>

\* SendHeartBeatInLoop of another loop, or SendHeartBeatInWorkThread: expired() ...
SenderTests ==
    /\ Running /\ sender.pc = "idle"
    /\ g_conn # None /\ ~Freed(g_conn)
    /\ sender' = [sender EXCEPT !.pc = "tested"]
    /\ UNCHANGED <<c, alive, hack, client, connection_, conns, g_conn, stopped, shared,
                   loopVars, monitor, fail>>

\* ... then lock(), whose result is not tested, and send.
SenderLocks ==
    /\ Running /\ sender.pc = "tested"
    /\ IF Freed(g_conn) THEN fail' = "nullSend" /\ UNCHANGED sender
       ELSE sender' = [pc |-> "sending", conn |-> g_conn] /\ UNCHANGED fail
    /\ UNCHANGED <<c, alive, hack, client, connection_, conns, g_conn, stopped, shared,
                   loopVars, monitor>>

SenderDone ==
    /\ Running /\ sender.pc = "sending"
    /\ sender' = [pc |-> "idle", conn |-> None]
    /\ UNCHANGED <<c, alive, hack, client, connection_, conns, g_conn, stopped, shared,
                   loopVars, monitor, fail>>

MonitorChanges ==
    /\ Running
    /\ monitor' = ~monitor
    /\ UNCHANGED <<c, alive, hack, client, connection_, conns, g_conn, stopped, shared,
                   sender, loopVars, fail>>

Handle ==
    \/ ConnectFails \/ ConnectUnwanted \/ HackFires \/ ConnectionEvent
    \/ \E n \in Conns : NewConnection(n)
    \/ \E outcome \in Outcomes :
        RetryFires(outcome) \/ \E n \in Conns : PeerCloses(n, outcome)

LoopStep == Handle \/ TakeFunctors \/ RunFunctor \/ EndIteration

Next ==
    \/ \E events \in SUBSET Ready : Poll(events)
    \/ LoopStep
    \/ Stop
    \/ SenderTests \/ SenderLocks \/ SenderDone
    \/ MonitorChanges

\* The loop and the sender run; a due timer and a connecting socket are reported
\* by poll sooner or later.  Nothing is assumed of the monitor, nor that stop()
\* is called.
Fairness ==
    /\ WF_vars(LoopStep) /\ WF_vars(SenderLocks) /\ WF_vars(SenderDone)
    /\ WF_vars(pending # << >> /\ \E events \in SUBSET Ready : Poll(events))
    /\ SF_vars(\E events \in SUBSET Ready : "retry" \in events /\ Poll(events))
    /\ SF_vars(\E events \in SUBSET Ready : "connector" \in events /\ Poll(events))

Spec == Init /\ [][Next]_vars /\ Fairness

-----------------------------------------------------------------------------
TypeOK ==
    /\ c \in [state_ : {"kDisconnected", "kConnecting", "kConnected"}, connect_ : BOOLEAN,
              channel : BOOLEAN, delay : Nat, timers : Nat, owned : Nat,
              gaveUp : BOOLEAN, failed : BOOLEAN]
    /\ connection_ \in Conns \cup {None} /\ g_conn \in Conns \cup {None}
    /\ conns \in [Conns -> {"none", "up", "down", "destroyed"}]
    /\ phase \in {"poll", "events", "functors"}

\* What the code leaves open: the result of g_conn.lock() is used untested, and
\* stop() may hit between newConnection and the resetChannel it queued, when
\* ~Connector asserts !channel_.
Failures == {"none", "nullSend", "stopEarly"}

\* At most one of an attempt, a timer for the next attempt and an open connection
\* exists, so that starting again never meets the channel of an earlier attempt
\* (the assert of connecting()); the Connector owns a socket exactly during an
\* attempt, none is leaked or closed twice; and no callback reaches a TcpClient
\* that has been deleted, no functor or event a Connector that has.
OneAttempt ==
    LET attempts == IF c.state_ = "kConnecting" THEN 1 ELSE 0
        open == IF \E n \in Conns : conns[n] = "up" THEN 1 ELSE 0
    IN
    /\ TypeOK
    /\ c.timers + attempts + open <= 1
    /\ c.owned = attempts
    /\ c.channel => attempts = 1 \/ Queued(pending \o batch, "resetChannel")
    /\ ~c.failed /\ fail \in Failures

\* A connection object is freed only after connectDestroyed has run, unless
\* ~TcpClient found a thread sending on it and left it open.
FreedAfterDestroyed ==
    \A n \in Conns : Freed(n) => conns[n] = "destroyed" \/ shared

\* While the monitor stays reachable the client gets connected again, after every
\* disconnection and however many attempts failed before, unless it is stopped or
\* ::connect failed with an errno that is not tried again.
Reconnects ==
    <>[]monitor =>
        []<>(\/ \E n \in Conns : conns[n] = "up"
             \/ stopped \/ c.gaveUp \/ fail \in Failures \ {"none"})

\* After stop() the heartbeat connection goes down and is destroyed, an attempt in
\* progress is abandoned, and neither ever comes back.
StopEnds ==
    stopped ~> \/ [](\A n \in Conns : conns[n] \in {"none", "destroyed"})
                  /\ [](c.state_ # "kConnecting" /\ fail = "none")
               \/ shared \/ fail \in Failures \ {"none"}
=============================================================================
