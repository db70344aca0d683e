------------------------- MODULE TcpConnectionProofs ------------------------
(***************************************************************************)
(* The life of a connection and the order of its output, for every set of  *)
(* messages and workers and every way of using the connection.             *)
(***************************************************************************)
EXTENDS TcpConnectionSteps

\* The connection as TcpServer::newConnection leaves it.
LEMMA InitIInv == Init => IInv
  <1> SUFFICES ASSUME Init PROVE IInv
    BY SMTT(60), Z3T(60)
  <1>0. /\ conn.state_ = "kConnecting" /\ conn.index_ = "kNew" /\ conn.ups = 0 /\ conn.downs = 0
        /\ conn.destroyed = 0 /\ conn.closed = 0 /\ conn.out = << >>
        /\ conn.forceFlag_ = FALSE /\ conn.reading = FALSE /\ conn.writing = FALSE
        /\ conn.shutWr = FALSE
    BY SMTT(60), Z3T(60) DEF Init
  <1>0a. /\ timers = 0 /\ removals = 0 /\ inMap = TRUE /\ server = TRUE /\ looping = TRUE
         /\ alive = TRUE /\ fail = "none" /\ sent = << >> /\ wire = << >>
         /\ worker = [w \in Workers |-> Idle]
    BY ZenonT(60), ZenonT(90) DEF Init
  <1>1. conn \in Conn
    BY SMTT(60), Z3T(60) DEF Init, Conn, States
  <1>2. /\ functors = << Call("connectEstablished") >> /\ DOMAIN functors = {1}
        /\ functors[1] = Call("connectEstablished") /\ Len(functors) = 1
        /\ functors \in Seq(FunctorSet)
    BY SMTT(60), Z3T(60) DEF Init, FunctorSet, Call, Functor, Owning
  <1>3. QueueOk(functors) /\ EstablishesFirst(functors) /\ NoneDestroying(functors)
    BY <1>2 DEF QueueOk, FunctorOk, FunctorSet, Call, Functor, WithMsg, Owning, NoMsg,
       EstablishesFirst, NoneDestroying, Destroying
  <1>4. WorkersOk
    BY ZenonT(60), ZenonT(90) DEF Init, WorkersOk, Idle
  <1>5. SoundOutput
    BY SMTT(60), Z3T(60) DEF Init, SoundOutput
  <1>6. usage \in Usages /\ RestOk
    BY <1>3, <1>4, <1>5, ConnAssumption, SMTT(60), Z3T(60) DEF Init, RestOk
  <1>7. TypeOK /\ CallsAllowed
    BY <1>1, <1>6, TypedParts, SMTT(60), Z3T(60)
  <1>8. EstablishedOnce
    BY <1>0, <1>0a, <1>3, SMTT(60), Z3T(60) DEF EstablishedOnce, EstablishesFirst, Idle
  <1>9. ClosedOnce
    BY <1>0, <1>0a, SMTT(60), Z3T(60) DEF ClosedOnce
  <1>10. OutputInOrder /\ WritesPending
    BY <1>0, <1>0a, SMTT(60), Z3T(60) DEF OutputInOrder, WritesPending
  <1>11. SteadyLife
    BY <1>0, <1>0a, <1>3, SMTT(60), Z3T(60) DEF SteadyLife, NoneDestroying
  <1>12. QED
    BY <1>7, <1>8, <1>9, <1>10, <1>11, SMTT(60), Z3T(60) DEF IInv

-----------------------------------------------------------------------------
\* startRead, stopRead, startWrite and stopWrite.

\* Setting what the channel asks for moves the fields; only the first two leave writing
\* alone.
Switches(c, d, writes) ==
    /\ Moves(c, d) /\ d.out = c.out /\ d.downs = c.downs /\ d.shutWr = c.shutWr
    /\ ~writes => d.writing = c.writing

\* Channel::update keeps what the calls that switch the channel keep.
LEMMA UpdateSwitches ==
    ASSUME NEW c \in Conn, NEW b \in Conn, NEW writes \in BOOLEAN,
           b.state_ = c.state_, b.forceFlag_ = c.forceFlag_, b.index_ = c.index_,
           b.ups = c.ups, b.downs = c.downs, b.destroyed = c.destroyed,
           b.closed = c.closed, b.out = c.out, b.shutWr = c.shutWr,
           ~writes => b.writing = c.writing
    PROVE  Switches(c, Update(b), writes)
  <1> DEFINE d == Update(b)
  <1>1. /\ d \in Conn /\ d.index_ \in {"kAdded", "kDeleted"}
        /\ b.index_ = "kNew" => d.index_ = "kAdded"
        /\ d.state_ = b.state_ /\ d.forceFlag_ = b.forceFlag_ /\ d.ups = b.ups
        /\ d.downs = b.downs /\ d.destroyed = b.destroyed /\ d.closed = b.closed
        /\ d.out = b.out /\ d.shutWr = b.shutWr /\ d.writing = b.writing
    BY UpdateFields, SMTT(60), Z3T(60)
  <1> HIDE DEF d
  <1>2. Moves(c, d)
    BY <1>1 DEF Moves, Conn
  <1>3. Switches(c, d, writes)
    BY <1>1, <1>2, Zenon DEF Switches
  <1>4. QED
    BY <1>3, SMTT(60), Z3T(60) DEF d

\* reading_ is the connection's own copy.
LEMMA ReadingCopy ==
    ASSUME NEW c \in Conn, NEW d \in Conn, NEW on \in BOOLEAN, Switches(c, d, FALSE)
    PROVE  Switches(c, [d EXCEPT !.reading_ = on], FALSE)
  <1> DEFINE e == [d EXCEPT !.reading_ = on]
  <1>1. /\ e \in Conn /\ e.index_ = d.index_
        /\ e.state_ = d.state_ /\ e.forceFlag_ = d.forceFlag_ /\ e.ups = d.ups
        /\ e.downs = d.downs /\ e.destroyed = d.destroyed /\ e.closed = d.closed
        /\ e.out = d.out /\ e.shutWr = d.shutWr /\ e.writing = d.writing
    BY ZenonT(60), ZenonT(90) DEF Conn
  <1> HIDE DEF e
  <1>2. Moves(c, e)
    BY <1>1 DEF Moves, Switches
  <1>3. Switches(c, e, FALSE)
    BY <1>1, <1>2, Zenon DEF Switches
  <1>4. QED
    BY <1>3, Zenon DEF e

\* Each of the four, whether it has an effect or not.
LEMMA StartStopFields ==
    ASSUME NEW c \in Conn, NEW op
    PROVE  Switches(c, StartStop(c, op), op \in {"startWrite", "stopWrite"})
  <1>0. ASSUME NEW d, Switches(c, d, FALSE)
        PROVE  Switches(c, d, op \in {"startWrite", "stopWrite"})
    BY <1>0, Zenon DEF Switches
  <1>1. Switches(c, c, FALSE)
    BY Zenon DEF Switches, Moves
  <1>2. ASSUME NEW on \in BOOLEAN
        PROVE  Switches(c, [Update([c EXCEPT !.reading = on]) EXCEPT !.reading_ = on], FALSE)
    <2> DEFINE b == [c EXCEPT !.reading = on]
    <2>1. /\ b \in Conn
          /\ b.state_ = c.state_ /\ b.forceFlag_ = c.forceFlag_ /\ b.index_ = c.index_
          /\ b.ups = c.ups /\ b.downs = c.downs /\ b.destroyed = c.destroyed
          /\ b.closed = c.closed /\ b.out = c.out /\ b.shutWr = c.shutWr
          /\ b.writing = c.writing
      BY ZenonT(60), ZenonT(90) DEF Conn
    <2> HIDE DEF b
    <2>2. Switches(c, Update(b), FALSE)
      BY <2>1, UpdateSwitches, Zenon
    <2>3. Update(b) \in Conn
      BY <2>1, UpdateFields
    <2>4. Switches(c, [Update(b) EXCEPT !.reading_ = on], FALSE)
      BY <2>2, <2>3, ReadingCopy, ZenonT(60), ZenonT(90)
    <2>5. QED
      BY <2>4, Zenon DEF b
  <1>3. ASSUME NEW on \in BOOLEAN
        PROVE  Switches(c, Update([c EXCEPT !.writing = on]), TRUE)
    <2> DEFINE b == [c EXCEPT !.writing = on]
    <2>1. /\ b \in Conn
          /\ b.state_ = c.state_ /\ b.forceFlag_ = c.forceFlag_ /\ b.index_ = c.index_
          /\ b.ups = c.ups /\ b.downs = c.downs /\ b.destroyed = c.destroyed
          /\ b.closed = c.closed /\ b.out = c.out /\ b.shutWr = c.shutWr
      BY ZenonT(60), ZenonT(90) DEF Conn
    <2> HIDE DEF b
    <2>2. Switches(c, Update(b), TRUE)
      BY <2>1, UpdateSwitches, Zenon
    <2>3. QED
      BY <2>2, Zenon DEF b
  <1>4. CASE op = "startRead"
    <2>1. StartStop(c, op) \in {c, [Update([c EXCEPT !.reading = TRUE]) EXCEPT !.reading_ = TRUE]}
      BY <1>4, Zenon DEF StartStop, EnableReading
    <2>2. QED
      BY <1>0, <1>1, <1>2, <2>1, Zenon
  <1>5. CASE op = "stopRead"
    <2>1. StartStop(c, op) \in {c, [Update([c EXCEPT !.reading = FALSE]) EXCEPT !.reading_ = FALSE]}
      BY <1>5, Zenon DEF StartStop, DisableReading
    <2>2. QED
      BY <1>0, <1>1, <1>2, <2>1, ZenonT(60), ZenonT(90)
  <1>6. CASE op \in {"startWrite", "stopWrite"}
    <2>1. \/ StartStop(c, op) = c
          \/ StartStop(c, op) = Update([c EXCEPT !.writing = TRUE])
          \/ StartStop(c, op) = Update([c EXCEPT !.writing = FALSE])
      BY <1>6, Zenon DEF StartStop, EnableWriting, DisableWriting
    <2>2. Switches(c, StartStop(c, op), TRUE)
      BY <1>1, <1>3, <2>1, ZenonT(60), ZenonT(90) DEF Switches
    <2>3. QED
      BY <1>6, <2>2, ZenonT(60), ZenonT(90) DEF Switches
  <1>7. CASE op \notin {"startRead", "stopRead", "startWrite", "stopWrite"}
    <2>1. op # "startRead" /\ op # "stopRead" /\ op # "startWrite" /\ op # "stopWrite"
      BY <1>7
    <2>2. StartStop(c, op) = c
      BY <2>1, Zenon DEF StartStop
    <2>3. QED
      BY <1>0, <1>1, <2>2, ZenonT(60), ZenonT(90)
  <1>8. QED
    BY <1>4, <1>5, <1>6, <1>7, Zenon

\* A call of one of them, which no steady usage makes.
LEMMA StartStopStep ==
    ASSUME IInv, fail = "none", alive, usage' = usage, conn.ups = 1,
           NEW op \in usage.loop \cup usage.worker, ~Steady,
           NEW q, SameRemoval(functors, q), Run(StartStop(conn, op), q)
    PROVE  IInv'
  <1> DEFINE d == StartStop(conn, op)
  <1>1. conn \in Conn /\ timers \in 0..MaxTimers
    BY InvParts DEF TypeOK
  <1>2. Switches(conn, d, op \in {"startWrite", "stopWrite"})
    BY <1>1, StartStopFields, ZenonT(60), ZenonT(90)
  <1>3. /\ Becomes(d) /\ functors' = q
        /\ UNCHANGED <<timers, inMap, server, looping, alive, worker, peer, data>>
    BY DEF Run
  <1> HIDE DEF d
  <1>4. Moves(conn, d)
    BY <1>2 DEF Switches
  <1>5. KeepsOutput(conn, d)
    <2>1. WritingUntouched => op \notin {"startWrite", "stopWrite"}
      BY SMTT(60), Z3T(60) DEF WritingUntouched
    <2>2. QED
      BY <1>2, <2>1, SMTT(60), Z3T(60) DEF KeepsOutput, Switches
  <1>6. QueueOk(functors)' /\ timers' \in 0..MaxTimers
    BY <1>1, <1>3, SMTT(60), Z3T(60) DEF SameRemoval, QueueOk, FunctorOk
  <1>7. QED
    BY <1>3, <1>4, <1>5, <1>6, MethodStep, ZenonT(60), ZenonT(90)

-----------------------------------------------------------------------------
\* The steps of the IO loop.

\* doPendingFunctors: a functor without a shared pointer runs on a destructed connection
\* only if a worker queued it.
LEMMA FunctorStep ==
    ASSUME IInv, usage' = usage, RunFunctor
    PROVE  IInv'
  <1> DEFINE f == Head(functors)
             q == Tail(functors)
  <1>1. fail = "none" /\ looping /\ functors # << >>
    BY DEF RunFunctor, Running
  <1>2. conn \in Conn /\ RestOk /\ QueueOk(functors) /\ timers \in 0..MaxTimers
        /\ usage.worker \subseteq Ops
    BY TypedParts, ConnAssumption, InvParts, SMTT(60), Z3T(60) DEF RestOk
  <1>3. FunctorOk(f) /\ QueueOk(q) /\ f = functors[1] /\ 1 \in DOMAIN functors
    <2>1. functors \in Seq(FunctorSet)
      BY <1>2 DEF QueueOk
    <2>2. f = functors[1] /\ 1 \in DOMAIN functors
      BY <1>1, <2>1
    <2>3. QED
      BY <1>1, <1>2, <2>2, QueueTail, SMTT(60), Z3T(60)
  <1>4. CASE ~alive
    <2>1. FailWith("useAfterFree")
      BY <1>4, SMTT(60), Z3T(60) DEF RunFunctor
    <2>2. f.op \notin Owning
      BY <1>3, <1>4, InvParts, SMTT(60), Z3T(60) DEF ClosedOnce, Referenced
    <2>3. usage.worker # {}
      BY <1>3, <2>2, SMTT(60), Z3T(60) DEF FunctorOk
    <2>4. QED
      BY <1>1, <2>1, <2>3, FailStep, SMTT(60), Z3T(60)
  <1>5. CASE alive /\ f.op = "connectEstablished"
    <2>1. ConnectEstablished(q)
      BY <1>5 DEF RunFunctor
    <2>2. QED
      BY <1>1, <1>5, <2>1, EstablishStep, SMTT(60), Z3T(60)
  <1>6. CASE alive /\ f.op # "connectEstablished"
    <2>1. conn.ups = 1
      BY <1>1, <1>6, InUse, InvParts, SMTT(60), Z3T(60) DEF EstablishedOnce
    <2>2. f.op # "connectDestroyed" => SameRemoval(functors, q)
      BY <1>1, <1>2, <2>1, InUse, QueueTail, SMTT(60), Z3T(60) DEF SameRemoval, Destroying
    <2>3. CASE f.op = "connectDestroyed"
      <3>1. ConnectDestroyed(q)
        BY <1>6, <2>3 DEF RunFunctor
      <3>2. QED
        BY <1>1, <1>6, <2>1, <2>3, <3>1, DestroyStep, SMTT(60), Z3T(60)
    <2>4. CASE f.op = "send"
      <3>1. RunSend(f.msg, q) /\ f.msg \in Messages
        BY <1>3, <1>6, <2>4, SMTT(60), Z3T(60) DEF RunFunctor, FunctorOk, WithMsg
      <3>2. CASE conn.closed > 0 /\ conn.state_ # "kDisconnected"
        <4>1. FailWith("closedFd")
          BY <3>1, <3>2, SMTT(60), Z3T(60) DEF RunSend
        <4>2. ~Steady
          BY <1>1, <1>6, <2>1, <3>2, InvParts, SMTT(60), Z3T(60)
             DEF ClosedOnce, SteadyLife, Up, Down, Removed, Destroyed, Disabled
        <4>3. QED
          BY <1>1, <4>1, <4>2, FailStep, SMTT(60), Z3T(60)
      <3>3. CASE ~(conn.closed > 0 /\ conn.state_ # "kDisconnected")
        <4>1. /\ SendInLoop(f.msg, q)
              /\ UNCHANGED <<timers, removals, inMap, server, looping, alive, worker, peer,
                             fail, used>>
          BY <3>1, <3>3, SMTT(60), Z3T(60) DEF RunSend
        <4>2. conn.closed = 0 \/ conn.state_ = "kDisconnected"
          BY <1>2, <3>3, SMTT(60), Z3T(60) DEF Conn
        <4>3. used' \subseteq Messages
          BY <1>2, <4>1, SMTT(60), Z3T(60) DEF RestOk, SoundOutput
        <4>4. QED
          BY <1>1, <1>6, <2>1, <2>2, <2>4, <3>1, <4>1, <4>2, <4>3, SendStep, SMTT(60), Z3T(60)
      <3>4. QED
        BY <3>2, <3>3, SMTT(60), Z3T(60)
    <2>5. ASSUME NEW d, Run(d, q), f.op # "connectDestroyed",
                 Stays(conn, d) \/ Falls(conn, d), Steady => Stays(conn, d) \/ Open(conn)
          PROVE  IInv'
      <3>1. /\ Becomes(d) /\ functors' = q
            /\ UNCHANGED <<timers, inMap, server, looping, alive, worker, peer, data>>
        BY <2>5, SMTT(60), Z3T(60) DEF Run
      <3>2. QueueOk(functors)' /\ timers' \in 0..MaxTimers
        BY <1>2, <1>3, <3>1, SMTT(60), Z3T(60) DEF QueueOk, FunctorOk
      <3>3. QED
        BY <1>1, <1>6, <2>1, <2>2, <2>5, <3>1, <3>2, ClosingStep, SMTT(60), Z3T(60)
    <2>6. CASE f.op = "shutdown"
      <3>1. ~Steady
        BY <1>3, <2>6, SMTT(60), Z3T(60) DEF FunctorOk, Owning, Steady
      <3>2. CASE ~conn.writing /\ conn.dissByPeer_ /\ ~Open(conn)
        <4>1. FailWith("handleClose")
          BY <1>6, <2>6, <3>2, SMTT(60), Z3T(60) DEF RunFunctor
        <4>2. QED
          BY <1>1, <3>1, <4>1, FailStep, SMTT(60), Z3T(60)
      <3>3. CASE ~(~conn.writing /\ conn.dissByPeer_ /\ ~Open(conn))
        <4>1. Run(ShutdownInLoop(conn), q)
          BY <1>6, <2>6, <3>3, SMTT(60), Z3T(60) DEF RunFunctor
        <4>2. QED
          BY <1>2, <2>5, <2>6, <3>1, <4>1, ShutdownInLoopFields, SMTT(60), Z3T(60)
      <3>4. QED
        BY <3>2, <3>3, SMTT(60), Z3T(60)
    <2>7. CASE f.op = "forceClose"
      <3>1. Run(ForceCloseInLoop(conn), q)
        BY <1>6, <2>7 DEF RunFunctor
      <3>2. ~Open(conn) => Stays(conn, ForceCloseInLoop(conn))
        BY <1>2, ZenonT(60), ZenonT(90) DEF ForceCloseInLoop, Open, Stays, SameCore
      <3>3. QED
        BY <1>2, <2>5, <2>7, <3>1, <3>2, ForceCloseInLoopFields, SMTT(60), Z3T(60)
    <2>8. CASE f.op = "callback"
      <3>1. Run(conn, q)
        BY <1>6, <2>8 DEF RunFunctor
      <3>2. Stays(conn, conn)
        BY <1>2, ZenonT(60), ZenonT(90) DEF Stays, SameCore
      <3>3. QED
        BY <2>5, <2>8, <3>1, <3>2, SMTT(60), Z3T(60)
    <2>9. CASE f.op \notin {"connectDestroyed", "send", "shutdown", "forceClose", "callback"}
      <3>1. Run(StartStop(conn, f.op), q)
        BY <1>6, <2>9, SMTT(60), Z3T(60) DEF RunFunctor
      <3>2. f.op \in usage.worker /\ ~Steady
        BY <1>3, <1>6, <2>9, SMTT(60), Z3T(60) DEF FunctorOk, Owning, Steady
      <3>3. QED
        BY <1>1, <1>6, <2>1, <2>2, <2>9, <3>1, <3>2, StartStopStep, SMTT(60), Z3T(60)
    <2>10. QED
      BY <2>3, <2>4, <2>6, <2>7, <2>8, <2>9, SMTT(60), Z3T(60)
  <1>7. QED
    BY <1>4, <1>5, <1>6, InvParts, SMTT(60), Z3T(60) DEF TypeOK

\* handleRead at the end of file, or handleClose: in a steady usage the connection is open.
LEMMA PeerClosedStep ==
    ASSUME IInv, usage' = usage, PeerClosed
    PROVE  IInv'
  <1>1. fail = "none" /\ looping /\ conn.index_ = "kAdded" /\ Referenced
    BY DEF PeerClosed, EventsDelivered, Running
  <1>2. alive /\ conn.ups = 1 /\ SameRemoval(functors, functors)
    BY <1>1, InUse
  <1>3. conn \in Conn /\ RestOk
    BY TypedParts, InvParts, SMTT(60), Z3T(60)
  <1>4. CASE Open(conn)
    <2>1. /\ Becomes(HandleClose(conn))
          /\ UNCHANGED <<functors, timers, inMap, server, looping, alive, worker, peer, data>>
      BY <1>4, SMTT(60), Z3T(60) DEF PeerClosed
    <2>2. QueueOk(functors)' /\ timers' \in 0..MaxTimers
      BY <1>3, <2>1, SMTT(60), Z3T(60) DEF RestOk, QueueOk, FunctorOk
    <2>3. Stays(conn, HandleClose(conn)) \/ Falls(conn, HandleClose(conn))
      BY <1>3, HandleCloseFields, SMTT(60), Z3T(60)
    <2>4. QED
      BY <1>1, <1>2, <1>4, <2>1, <2>2, <2>3, ClosingStep, SMTT(60), Z3T(60)
  <1>5. CASE ~Open(conn)
    <2>1. FailWith("handleClose")
      BY <1>5, SMTT(60), Z3T(60) DEF PeerClosed
    <2>2. ~Steady
      BY <1>1, <1>2, <1>5, InvParts, SMTT(60), Z3T(60) DEF SteadyLife, Up, Down, Removed, Destroyed
    <2>3. QED
      BY <1>1, <2>1, <2>2, FailStep, SMTT(60), Z3T(60)
  <1>6. QED
    BY <1>4, <1>5

\* forceClose and forceCloseWithDelay set state_; the fields otherwise stay.
LEMMA DisconnectingFields ==
    ASSUME NEW c \in Conn, Open(c)
    PROVE  Stays(c, [c EXCEPT !.state_ = "kDisconnecting"])
  <1> DEFINE d == [c EXCEPT !.state_ = "kDisconnecting"]
  <1>1. "kDisconnecting" \in States
    BY DEF States
  <1>2. /\ d \in Conn /\ d.state_ = "kDisconnecting"
        /\ d.out = c.out /\ d.ups = c.ups /\ d.destroyed = c.destroyed
        /\ d.closed = c.closed /\ d.index_ = c.index_ /\ d.reading = c.reading
        /\ d.downs = c.downs /\ d.forceFlag_ = c.forceFlag_ /\ d.shutWr = c.shutWr
        /\ d.writing = c.writing
    BY <1>1, ZenonT(60), ZenonT(90) DEF Conn
  <1> HIDE DEF d
  <1>3. Stays(c, d)
    BY <1>2, Zenon DEF Stays, SameCore
  <1>4. QED
    BY <1>3 DEF d

\* A step that sets state_ or nothing, and may queue forceClose or set a timer.
LEMMA ForceCloseQueued ==
    ASSUME IInv, fail = "none", alive, usage' = usage, conn.ups = 1,
           conn' = conn \/ (Open(conn) /\ conn' = [conn EXCEPT !.state_ = "kDisconnecting"]),
           functors' \in {functors, Append(functors, Call("forceClose"))},
           timers' \in 0..MaxTimers,
           UNCHANGED <<removals, fail, inMap, server, looping, alive, worker, peer, data>>
    PROVE  IInv'
  <1>1. conn \in Conn /\ RestOk /\ SameRemoval(functors, functors)
    BY TypedParts, InUse, InvParts, SMTT(60), Z3T(60)
  <1>2. Stays(conn, conn)
    BY <1>1, Zenon DEF Stays, SameCore
  <1>3. Stays(conn, conn')
    BY <1>1, <1>2, DisconnectingFields, ZenonT(60), ZenonT(90)
  <1>4. Becomes(conn')
    BY <1>1, <1>3, SMTT(60), Z3T(60) DEF Becomes, Stays, SameCore, Conn
  <1>5. SameRemoval(functors, functors')
    <2> DEFINE f == Call("forceClose")
    <2>1. FunctorOk(f) /\ ~Destroying(f) /\ f.op # "connectEstablished"
      BY DEF FunctorOk, Call, Functor, FunctorSet, Owning, WithMsg, NoMsg, Destroying
    <2>2. functors' = functors \/ functors' = Append(functors, f)
      BY Zenon
    <2> HIDE DEF f
    <2>3. SameRemoval(functors, Append(functors, f))
      BY <1>1, <2>1, QueueAppend, ZenonT(60), ZenonT(90) DEF SameRemoval
    <2>4. QED
      BY <1>1, <2>2, <2>3, ZenonT(60), ZenonT(90)
  <1>6. QueueOk(functors)'
    BY <1>5, SMTT(60), Z3T(60) DEF SameRemoval, QueueOk, FunctorOk
  <1>7. QED
    BY <1>3, <1>4, <1>5, <1>6, ClosingStep, SMTT(60), Z3T(60)

\* The delayed close finds the connection through a weak pointer or not at all.
LEMMA FireTimerStep ==
    ASSUME IInv, usage' = usage, FireTimer
    PROVE  IInv'
  <1>1. /\ fail = "none" /\ timers > 0 /\ timers' = timers - 1
        /\ UNCHANGED <<removals, inMap, server, looping, alive, worker, peer, fail, data>>
    BY SMTT(60), Z3T(60) DEF FireTimer, Running
  <1>2. conn.ups = 1 /\ timers' \in 0..MaxTimers
    BY <1>1, InUse, ConnAssumption, InvParts, SMTT(60), Z3T(60) DEF TypeOK
  <1>3. CASE alive
    <2>1. /\ conn' = conn \/ (Open(conn) /\ conn' = [conn EXCEPT !.state_ = "kDisconnecting"])
          /\ functors' \in {functors, Append(functors, Call("forceClose"))}
      <3>1. \/ Open(conn) /\ conn' = [conn EXCEPT !.state_ = "kDisconnecting"]
               /\ functors' = Append(functors, Call("forceClose"))
            \/ conn' = conn /\ functors' = functors
        BY ZenonT(60), ZenonT(90) DEF FireTimer
      <3>2. QED
        BY <3>1, Zenon
    <2>2. QED
      BY <1>1, <1>2, <1>3, <2>1, ForceCloseQueued, SMTT(60), Z3T(60)
  <1>4. CASE ~alive
    <2>1. UNCHANGED <<conn, functors>>
      BY <1>4, InUse, SMTT(60), Z3T(60) DEF FireTimer
    <2>2. QED
      BY <1>1, <1>2, <2>1, QuietStep, InvParts, SMTT(60), Z3T(60) DEF TypeOK
  <1>5. QED
    BY <1>3, <1>4, InvParts, SMTT(60), Z3T(60) DEF TypeOK

-----------------------------------------------------------------------------
\* The calls of callbacks in the IO loop.

\* send, shutdown, forceClose, forceCloseWithDelay and the switches.
LEMMA LoopCallStep ==
    ASSUME IInv, usage' = usage, LoopCalls
    PROVE  IInv'
  <1>1. conn \in Conn /\ RestOk /\ usage.messages \subseteq Messages
    BY TypedParts, ConnAssumption, InvParts, SMTT(60), Z3T(60)
  <1>2. ASSUME NEW op, InCallback(op)
        PROVE  /\ fail = "none" /\ alive /\ conn.ups = 1 /\ op \in usage.loop
               /\ SameRemoval(functors, functors)
    BY <1>2, InUse, SMTT(60), Z3T(60) DEF InCallback, Running
  <1>3. ASSUME NEW m \in Messages, SendFromLoop(m) PROVE IInv'
    <2>1. /\ InCallback("send") /\ used' \subseteq Messages
          /\ UNCHANGED <<timers, removals, inMap, server, looping, alive, worker, peer, fail>>
      BY <1>1, <1>3, SMTT(60), Z3T(60) DEF SendFromLoop, RestOk, SoundOutput
    <2>2. /\ fail = "none" /\ alive /\ conn.ups = 1 /\ SameRemoval(functors, functors)
      BY <1>2, <2>1, SMTT(60), Z3T(60)
    <2>3. CASE conn.state_ = "kConnected"
      <3>1. SendInLoop(m, functors)
        BY <1>3, <2>3, SMTT(60), Z3T(60) DEF SendFromLoop
      <3>2. conn.closed = 0
        BY <2>2, <2>3, InvParts, SMTT(60), Z3T(60) DEF ClosedOnce
      <3>3. QED
        BY <2>1, <2>2, <3>1, <3>2, SendStep, SMTT(60), Z3T(60)
    <2>4. CASE conn.state_ # "kConnected"
      <3>1. UNCHANGED <<conn, functors, sent, wire>>
        BY <1>3, <2>4, SMTT(60), Z3T(60) DEF SendFromLoop
      <3>2. QueueOk(functors)' /\ timers' \in 0..MaxTimers /\ WorkersOk'
        BY <1>1, <2>1, <3>1, SMTT(60), Z3T(60) DEF RestOk, QueueOk, FunctorOk, WorkersOk
      <3>3. QED
        BY <2>1, <2>2, <3>1, <3>2, OtherStep, SMTT(60), Z3T(60)
    <2>5. QED
      BY <2>3, <2>4, SMTT(60), Z3T(60)
  <1>4. ASSUME ShutdownFromLoop PROVE IInv'
    <2>1. /\ fail = "none" /\ alive /\ conn.ups = 1 /\ SameRemoval(functors, functors)
      BY <1>2, <1>4, ZenonT(60), ZenonT(90) DEF ShutdownFromLoop
    <2>2. /\ Becomes(Shutdown(conn)) /\ functors' = functors
          /\ UNCHANGED <<timers, inMap, server, looping, alive, worker, peer, data>>
      BY <1>4, SMTT(60), Z3T(60) DEF ShutdownFromLoop, Run
    <2>3. QueueOk(functors)' /\ timers' \in 0..MaxTimers
      BY <1>1, <2>2, SMTT(60), Z3T(60) DEF RestOk, QueueOk, FunctorOk
    <2>4. Stays(conn, Shutdown(conn)) \/ Falls(conn, Shutdown(conn))
      BY <1>1, ShutdownFields, SMTT(60), Z3T(60)
    <2>5. ~Open(conn) => Stays(conn, Shutdown(conn))
      BY <1>1, Zenon DEF Shutdown, Open, Stays, SameCore
    <2>6. QED
      BY <2>1, <2>2, <2>3, <2>4, <2>5, ClosingStep, SMTT(60), Z3T(60)
  <1>5. ASSUME ForceCloseFromLoop PROVE IInv'
    <2> DEFINE d == [conn EXCEPT !.state_ = "kDisconnecting"]
    <2>1. /\ fail = "none" /\ alive /\ conn.ups = 1 /\ Open(conn)
      BY <1>2, <1>5, SMTT(60), Z3T(60) DEF ForceCloseFromLoop
    <2>2. /\ Becomes(d) /\ functors' = Append(functors, Call("forceClose"))
          /\ UNCHANGED <<timers, inMap, server, looping, alive, worker, peer, data>>
      BY <1>5 DEF ForceCloseFromLoop, Run
    <2>3. d.downs = conn.downs /\ d.index_ = conn.index_
      BY <1>1, ZenonT(60), ZenonT(90) DEF Conn
    <2>4. conn' = d /\ removals' = removals /\ fail' = fail
      <3> HIDE DEF d
      <3>1. QED
        BY <1>1, <2>1, <2>2, <2>3, SMTT(60), Z3T(60) DEF Becomes, Conn
    <2>5. timers' \in 0..MaxTimers
      BY <1>1, <2>2, SMTT(60), Z3T(60) DEF RestOk
    <2>6. QED
      BY <2>1, <2>2, <2>4, <2>5, ForceCloseQueued, ZenonT(60), ZenonT(90)
  <1>6. ASSUME ForceCloseWithDelayFromLoop PROVE IInv'
    <2>1. /\ fail = "none" /\ alive /\ conn.ups = 1 /\ Open(conn)
      BY <1>2, <1>6 DEF ForceCloseWithDelayFromLoop
    <2>2. /\ conn' = [conn EXCEPT !.state_ = "kDisconnecting"]
          /\ timers < MaxTimers /\ timers' = timers + 1
          /\ UNCHANGED <<functors, removals, inMap, server, looping, alive, worker, peer,
                         fail, data>>
      BY <1>6, ZenonT(60), ZenonT(90) DEF ForceCloseWithDelayFromLoop
    <2>3. timers' \in 0..MaxTimers
      BY <1>1, <2>2, ConnAssumption, SMTT(60), Z3T(60) DEF RestOk
    <2>4. QED
      BY <2>1, <2>2, <2>3, ForceCloseQueued, ZenonT(60), ZenonT(90)
  <1>7. ASSUME NEW op \in usage.loop, StartStopFromLoop(op) PROVE IInv'
    <2>1. /\ fail = "none" /\ alive /\ conn.ups = 1 /\ SameRemoval(functors, functors)
          /\ op \in usage.loop /\ Run(StartStop(conn, op), functors)
      BY <1>2, <1>7, SMTT(60), Z3T(60) DEF StartStopFromLoop
    <2>2. ~Steady
      BY <1>7, SMTT(60), Z3T(60) DEF StartStopFromLoop, Steady
    <2>3. QED
      BY <2>1, <2>2, StartStopStep, SMTT(60), Z3T(60)
  <1>8. QED
    BY <1>3, <1>4, <1>5, <1>6, <1>7, ZenonT(60), ZenonT(90) DEF LoopCalls

\* A worker's test, its writes to closeFlag_ and state_ and its functor.
LEMMA WorkerStepInv ==
    ASSUME IInv, usage' = usage, NEW w \in Workers, WorkerStep(w)
    PROVE  IInv'
  <1> DEFINE PCs == {"none", "held", "tested", "set"}
             Record == [pc : PCs, op : Ops \cup {"none"}, msg : Messages \cup {NoMsg}]
  <1>1. /\ conn \in Conn /\ RestOk /\ worker \in [Workers -> Record]
        /\ usage.messages \subseteq Messages /\ usage.worker \subseteq Ops
    BY TypedParts, ConnAssumption, InvParts, SMTT(60), Z3T(60) DEF RestOk, WorkersOk
  <1>2. ASSUME worker[w].pc # "none"
        PROVE  alive /\ conn.ups = 1 /\ SameRemoval(functors, functors)
    BY <1>2, InUse, SMTT(60), Z3T(60)
  <1>3. used \subseteq Messages /\ \A v \in Workers : worker[v].pc \in {"tested", "set"} =>
            WithMsg(worker[v].op, worker[v].msg) /\ worker[v].op \in usage.worker
    BY <1>1, SMTT(60), Z3T(60) DEF RestOk, SoundOutput, WorkersOk
  <1>0. ASSUME UNCHANGED <<functors, timers, usage>>, conn.ups = 1
        PROVE  /\ timers' \in 0..MaxTimers /\ QueueOk(functors)'
               /\ SameRemoval(functors, functors')
    BY <1>0, <1>1, InUse, SMTT(60), Z3T(60) DEF RestOk, QueueOk, FunctorOk
  <1>4. CASE HandleMessage(w)
    <2>1. /\ fail = "none" /\ alive /\ conn.ups = 1
      BY <1>4, InUse, SMTT(60), Z3T(60) DEF HandleMessage, EventsDelivered, Running
    <2>2. WorkersOk'
      BY <1>1, <1>3, <1>4, SMTT(60), Z3T(60) DEF HandleMessage, WorkersOk
    <2>3. QED
      BY <1>0, <1>3, <1>4, <2>1, <2>2, OtherStep, SMTT(60), Z3T(60) DEF HandleMessage, data
  <1>5. ASSUME NEW op \in usage.worker, NEW m \in Messages \cup {NoMsg}, WorkerTest(w, op, m)
        PROVE  IInv'
    <2>1. fail = "none" /\ alive /\ conn.ups = 1
      BY <1>2, <1>5, ZenonT(60), ZenonT(90) DEF WorkerTest
    <2>2. WorkersOk' /\ used' \subseteq Messages
      <3>1. WithMsg(op, m) /\ used' \subseteq Messages /\ op \in Ops
        BY <1>1, <1>3, <1>5, SMTT(60), Z3T(60) DEF WorkerTest, WithMsg
      <3>2. QED
        BY <1>1, <1>3, <1>5, <3>1, ZenonT(60), ZenonT(90) DEF WorkerTest, WorkersOk
    <2>3. QED
      BY <1>0, <1>5, <2>1, <2>2, OtherStep, ZenonT(60), ZenonT(90) DEF WorkerTest
  <1>6. CASE WorkerDone(w)
    <2>1. fail = "none" /\ alive /\ conn.ups = 1
      BY <1>2, <1>6, SMTT(60), Z3T(60) DEF WorkerDone
    <2>2. WorkersOk'
      BY <1>1, <1>3, <1>6, SMTT(60), Z3T(60) DEF WorkerDone, WorkersOk, Idle
    <2>3. QED
      BY <1>0, <1>3, <1>6, <2>1, <2>2, OtherStep, SMTT(60), Z3T(60) DEF WorkerDone, data
  <1>7. CASE WorkerSet(w)
    <2>1. fail = "none" /\ alive /\ conn.ups = 1 /\ SameRemoval(functors, functors)
      BY <1>2, <1>7, SMTT(60), Z3T(60) DEF WorkerSet
    <2>2. WorkersOk'
      BY <1>1, <1>3, <1>7, SMTT(60), Z3T(60) DEF WorkerSet, WorkersOk
    <2>3. /\ UNCHANGED <<functors, timers, removals, inMap, server, looping, alive, peer,
                         fail, sent, wire, used>>
          /\ worker[w].op \in usage.worker
      BY <1>3, <1>7, SMTT(60), Z3T(60) DEF WorkerSet, data
    <2>4. /\ Moves(conn, conn') /\ KeepsOutput(conn, conn') /\ conn'.index_ = conn.index_
          /\ Steady => conn' = conn
      <3> DEFINE b == [conn EXCEPT !.closeFlag_ = TRUE, !.state_ = "kDisconnecting"]
                 d == [conn EXCEPT !.state_ = "kDisconnecting"]
      <3>1. \/ conn' = conn
            \/ conn' = b /\ worker[w].op = "shutdown"
            \/ conn' = d /\ worker[w].op \in {"forceClose", "forceCloseWithDelay"}
        BY <1>7, Zenon DEF WorkerSet
      <3>2. "kDisconnecting" \in States
        BY DEF States
      <3>3. /\ b \in Conn /\ b.state_ = "kDisconnecting"
            /\ b.out = conn.out /\ b.ups = conn.ups /\ b.destroyed = conn.destroyed
            /\ b.closed = conn.closed /\ b.index_ = conn.index_ /\ b.downs = conn.downs
            /\ b.forceFlag_ = conn.forceFlag_ /\ b.shutWr = conn.shutWr
            /\ b.writing = conn.writing
        BY <1>1, <3>2, ZenonT(60), ZenonT(90) DEF Conn
      <3>4. /\ d \in Conn /\ d.state_ = "kDisconnecting"
            /\ d.out = conn.out /\ d.ups = conn.ups /\ d.destroyed = conn.destroyed
            /\ d.closed = conn.closed /\ d.index_ = conn.index_ /\ d.downs = conn.downs
            /\ d.forceFlag_ = conn.forceFlag_ /\ d.shutWr = conn.shutWr
            /\ d.writing = conn.writing
        BY <1>1, <3>2, ZenonT(60), ZenonT(90) DEF Conn
      <3> HIDE DEF b, d
      <3>5. Stays(conn, conn)
        BY <1>1, ZenonT(60), ZenonT(90) DEF Stays, SameCore
      <3>6. Moves(conn, conn) /\ KeepsOutput(conn, conn)
        BY <1>1, <3>5, StaysMoves, SMTT(60), Z3T(60)
      <3>7. Moves(conn, b) /\ KeepsOutput(conn, b)
        BY <1>1, <3>3, SMTT(60), Z3T(60) DEF Moves, KeepsOutput, Conn
      <3>8. Moves(conn, d) /\ KeepsOutput(conn, d)
        BY <1>1, <3>4, SMTT(60), Z3T(60) DEF Moves, KeepsOutput, Conn
      <3>9. Steady => conn' = conn
        BY <2>3, <3>1, SMTT(60), Z3T(60) DEF Steady
      <3>10. QED
        BY <3>1, <3>3, <3>4, <3>6, <3>7, <3>8, <3>9, ZenonT(60), ZenonT(90)
    <2>5. RestOk'
      BY <1>1, <2>2, <2>3, ZenonT(60), ZenonT(90) DEF RestOk, SoundOutput, QueueOk, FunctorOk
    <2>6. (TypeOK /\ CallsAllowed /\ EstablishedOnce /\ ClosedOnce)'
      BY <2>1, <2>3, <2>4, <2>5, LiveStep, SMTT(60), Z3T(60) DEF SameRemoval
    <2>7. OutputInOrder' /\ WritesPending'
      BY <2>3, <2>4, OutputKept, SMTT(60), Z3T(60)
    <2>8. SteadyLife'
      BY <2>3, <2>4, InvParts, SMTT(60), Z3T(60)
         DEF SteadyLife, Steady, Up, Down, Removed, Destroyed, Disabled, Destroying, Open
    <2>9. QED
      BY <2>6, <2>7, <2>8, InvNext, SMTT(60), Z3T(60)
  <1>8. CASE WorkerQueue(w)
    <2>1. fail = "none" /\ alive /\ conn.ups = 1 /\ SameRemoval(functors, functors)
      BY <1>2, <1>8, SMTT(60), Z3T(60) DEF WorkerQueue
    <2>2. WorkersOk'
      BY <1>1, <1>3, <1>8, SMTT(60), Z3T(60) DEF WorkerQueue, WorkersOk
    <2>3. /\ UNCHANGED <<conn, removals, inMap, server, looping, alive, peer, fail, data>>
          /\ worker[w].op \in usage.worker /\ WithMsg(worker[w].op, worker[w].msg)
          /\ worker[w] \in Record
      BY <1>1, <1>3, <1>8, SMTT(60), Z3T(60) DEF WorkerQueue
    <2>4. /\ timers' \in 0..MaxTimers
          /\ functors' \in {functors, Append(functors, Functor(worker[w].op, worker[w].msg))}
      BY <1>1, <1>8, ConnAssumption, SMTT(60), Z3T(60) DEF WorkerQueue, RestOk
    <2>5. SameRemoval(functors, functors')
      <3>1. LET f == Functor(worker[w].op, worker[w].msg)
            IN FunctorOk(f) /\ ~Destroying(f) /\ f.op # "connectEstablished"
        BY <1>1, <2>3, SMTT(60), Z3T(60) DEF FunctorOk, Functor, FunctorSet, Destroying, Ops
      <3>2. QED
        BY <2>1, <2>4, <3>1, QueueAppend, ZenonT(60), ZenonT(90) DEF SameRemoval
    <2>6. QueueOk(functors)' /\ used' \subseteq Messages
      BY <1>3, <2>3, <2>5, SMTT(60), Z3T(60) DEF SameRemoval, QueueOk, FunctorOk, data
    <2>7. QED
      BY <2>1, <2>2, <2>3, <2>4, <2>5, <2>6, OtherStep, SMTT(60), Z3T(60) DEF data
  <1>9. QED
    BY <1>4, <1>5, <1>6, <1>7, <1>8, SMTT(60), Z3T(60) DEF WorkerStep

-----------------------------------------------------------------------------
\* The base loop, the destructors and the peer.

\* removeConnectionInLoop hands the connection over to be destroyed.
LEMMA RemoveStep ==
    ASSUME IInv, usage' = usage, RemoveConnectionInLoop
    PROVE  IInv'
  <1> DEFINE f == Call("connectDestroyed")
  <1>1. /\ fail = "none" /\ removals > 0 /\ removals' = removals - 1 /\ ~inMap'
        /\ functors' = Append(functors, f) /\ inMap' \in BOOLEAN
        /\ UNCHANGED <<conn, timers, server, looping, alive, worker, peer, fail, data>>
    BY ZenonT(60), ZenonT(90) DEF RemoveConnectionInLoop
  <1>2. conn \in Conn /\ RestOk /\ QueueOk(functors)
    BY TypedParts, InvParts, SMTT(60), Z3T(60) DEF RestOk
  <1>3. conn.ups = 1 /\ alive /\ SameRemoval(functors, functors)
    BY <1>1, InUse, SMTT(60), Z3T(60)
  <1>4. FunctorOk(f) /\ Destroying(f) /\ f.op # "connectEstablished"
    BY SMTT(60), Z3T(60) DEF FunctorOk, Call, Functor, FunctorSet, Owning, WithMsg, NoMsg,
       Destroying
  <1>5. QueueOk(functors') /\ NotEstablishing(functors')
    BY <1>1, <1>2, <1>3, <1>4, QueueAppend, SMTT(60), Z3T(60) DEF SameRemoval
  <1>6. NoneDestroying(functors) => OneDestroying(functors')
    BY <1>1, <1>2, <1>4, QueueAppend, SMTT(60), Z3T(60)
  <1>7. RestOk'
    <2>1. QueueOk(functors)'
      BY <1>5, SMTT(60), Z3T(60) DEF QueueOk, FunctorOk
    <2>2. removals' \in Nat
      BY <1>1, <1>2 DEF RestOk
    <2>3. QED
      BY <1>1, <1>2, <2>1, <2>2, SMTT(60), Z3T(60) DEF RestOk, WorkersOk, SoundOutput, data
  <1>8. Stays(conn, conn)
    BY <1>2, ZenonT(60), ZenonT(90) DEF Stays, SameCore
  <1>9. Moves(conn, conn') /\ KeepsOutput(conn, conn')
    BY <1>1, <1>2, <1>8, StaysMoves, SMTT(60), Z3T(60)
  <1>10. (TypeOK /\ CallsAllowed /\ EstablishedOnce /\ ClosedOnce)'
    BY <1>1, <1>3, <1>5, <1>7, <1>9, LiveStep, SMTT(60), Z3T(60)
  <1>11. OutputInOrder' /\ WritesPending'
    BY <1>1, <1>9, OutputKept, SMTT(60), Z3T(60) DEF data
  <1>12. SteadyLife'
    <2>1. ASSUME Steady PROVE Removed'
      <3>1. Down
        BY <1>1, <1>3, <2>1, InvParts, SMTT(60), Z3T(60) DEF SteadyLife, Up, Removed, Destroyed
      <3>2. QED
        BY <1>1, <1>6, <3>1, SMTT(60), Z3T(60) DEF Down, Removed, Disabled, NoneDestroying,
           OneDestroying
    <2>2. QED
      BY <1>1, <1>3, <2>1, InvParts, SMTT(60), Z3T(60) DEF SteadyLife, Steady
  <1>13. QED
    BY <1>10, <1>11, <1>12, InvNext, SMTT(60), Z3T(60)

\* ~TcpServer may find the connection not even established.
LEMMA ServerDtorStep ==
    ASSUME IInv, usage' = usage, ServerDtor
    PROVE  IInv'
  <1> DEFINE f == Call("connectDestroyed")
  <1>1. /\ fail = "none" /\ removals' = 0 /\ server' = FALSE /\ inMap' = FALSE
        /\ functors' = IF inMap THEN Append(functors, f) ELSE functors
        /\ UNCHANGED <<conn, timers, looping, alive, worker, peer, fail, data>>
        /\ usage.serverMayDie
    BY SMTT(60), Z3T(60) DEF ServerDtor
  <1>2. usage \in Usages /\ conn \in Conn /\ RestOk /\ QueueOk(functors)
    BY TypedParts, InvParts, SMTT(60), Z3T(60) DEF RestOk
  <1>3. FunctorOk(f) /\ Destroying(f) /\ f.op # "connectEstablished"
    BY DEF FunctorOk, Call, Functor, FunctorSet, Owning, WithMsg, NoMsg, Destroying
  <1>4. /\ QueueOk(functors')
        /\ NotEstablishing(functors) => NotEstablishing(functors')
        /\ EstablishesFirst(functors) => EstablishesFirst(functors')
    BY <1>1, <1>2, <1>3, QueueAppend, SMTT(60), Z3T(60)
  <1>5. RestOk'
    <2>1. QueueOk(functors)'
      BY <1>4, SMTT(60), Z3T(60) DEF QueueOk, FunctorOk
    <2>2. QED
      BY <1>1, <1>2, <2>1, ZenonT(60), ZenonT(90) DEF RestOk, WorkersOk, SoundOutput, data
  <1>6. (usage \in Usages /\ conn \in Conn /\ RestOk)'
    BY <1>1, <1>2, <1>5, SMTT(60), Z3T(60)
  <1>7. (TypeOK /\ CallsAllowed)'
    BY <1>6, TypedParts, PTL
  <1>8. EstablishedOnce'
    <2>1. (conn.ups = 0 /\ looping) => EstablishesFirst(functors)
      BY InvParts, SMTT(60), Z3T(60) DEF EstablishedOnce, EstablishesFirst
    <2>2. conn.ups >= 1 => NotEstablishing(functors)
      BY InvParts, SMTT(60), Z3T(60) DEF EstablishedOnce, NotEstablishing
    <2>3. QED
      BY <1>1, <1>4, <2>1, <2>2, InvParts, SMTT(60), Z3T(60)
         DEF EstablishedOnce, EstablishesFirst, NotEstablishing
  <1>9. ~alive => ~Referenced'
    BY <1>1, InvParts, SMTT(60), Z3T(60) DEF ClosedOnce, Referenced
  <1>10. ClosedOnce'
    BY <1>1, <1>9, InvParts, SMTT(60), Z3T(60) DEF ClosedOnce
  <1>11. OutputInOrder' /\ WritesPending'
    BY <1>1, InvParts, SMTT(60), Z3T(60) DEF OutputInOrder, WritesPending, WritingUntouched, data
  <1>12. SteadyLife'
    BY <1>1, SMTT(60), Z3T(60) DEF SteadyLife, Steady
  <1>13. QED
    BY <1>7, <1>8, <1>10, <1>11, <1>12, InvNext, SMTT(60), Z3T(60)

\* The IO loop quits and drops what is queued.
LEMMA LoopQuitsStep ==
    ASSUME IInv, usage' = usage, IOLoopQuits
    PROVE  IInv'
  <1>1. /\ fail = "none" /\ looping' = FALSE /\ functors' = << >> /\ timers' = 0 /\ ~server
        /\ UNCHANGED <<conn, removals, inMap, server, alive, worker, peer, fail, data>>
    BY DEF IOLoopQuits, Running
  <1>2. usage \in Usages /\ conn \in Conn /\ RestOk
    BY TypedParts, InvParts, SMTT(60), Z3T(60)
  <1>3. QueueOk(functors)' /\ timers' \in 0..MaxTimers
    BY <1>1, ConnAssumption DEF QueueOk
  <1>4. (usage \in Usages /\ conn \in Conn /\ RestOk)'
    <2>1. WorkersOk' /\ SoundOutput'
      BY <1>1, <1>2, ZenonT(60), ZenonT(90) DEF RestOk, WorkersOk, SoundOutput, data
    <2>2. looping' \in BOOLEAN
      BY <1>1, ZenonT(60), ZenonT(90)
    <2>3. QED
      BY <1>1, <1>2, <1>3, <2>1, <2>2, ZenonT(60), ZenonT(90) DEF RestOk
  <1>5. (TypeOK /\ CallsAllowed)'
    BY <1>4, TypedParts, PTL
  <1>6. EstablishedOnce'
    BY <1>1, InvParts, SMTT(60), Z3T(60) DEF EstablishedOnce
  <1>7. ~alive => ~Referenced'
    BY <1>1, InvParts, SMTT(60), Z3T(60) DEF ClosedOnce, Referenced
  <1>8. ClosedOnce'
    BY <1>1, <1>7, InvParts, SMTT(60), Z3T(60) DEF ClosedOnce
  <1>9. OutputInOrder' /\ WritesPending'
    BY <1>1, InvParts, SMTT(60), Z3T(60) DEF OutputInOrder, WritesPending, WritingUntouched, data
  <1>10. SteadyLife'
    BY <1>1, InvParts, SMTT(60), Z3T(60) DEF SteadyLife, Steady
  <1>11. QED
    BY <1>5, <1>6, <1>8, <1>9, <1>10, InvNext

\* ~TcpConnection closes the socket that connectDestroyed has not closed.
LEMMA DestructStep ==
    ASSUME IInv, usage' = usage, Destruct
    PROVE  IInv'
  <1>1. fail = "none" /\ alive /\ ~Referenced
    BY SMTT(60), Z3T(60) DEF Destruct
  <1>2. usage \in Usages /\ conn \in Conn /\ RestOk
    BY TypedParts, InvParts
  <1>3. CASE conn.state_ # "kDisconnected" \/ conn.index_ # "kNew"
    <2>1. FailWith("destructor")
      BY <1>3, SMTT(60), Z3T(60) DEF Destruct
    <2>2. ~Steady
      <3>1. SUFFICES ASSUME Steady PROVE FALSE
        BY SMTT(60), Z3T(60)
      <3>2. ~inMap /\ \A i \in DOMAIN functors : ~Destroying(functors[i])
        BY <1>1, SMTT(60), Z3T(60) DEF Referenced, Destroying, Owning
      <3>3. QED
        BY <1>3, <3>1, <3>2, InUse, InvParts, SMTT(60), Z3T(60)
           DEF SteadyLife, Up, Down, Removed, Destroyed, Disabled
    <2>3. QED
      BY <1>1, <2>1, <2>2, FailStep, SMTT(60), Z3T(60)
  <1>4. CASE conn.state_ = "kDisconnected" /\ conn.index_ = "kNew"
    <2> DEFINE d == [conn EXCEPT !.closed = IF conn.forceFlag_ THEN @ ELSE @ + 1]
    <2>1. /\ alive' = FALSE /\ conn' = d
          /\ UNCHANGED <<functors, timers, removals, inMap, server, looping, worker, peer,
                         fail, data>>
      BY <1>4, SMTT(60), Z3T(60) DEF Destruct
    <2>2. /\ (IF conn.forceFlag_ THEN conn.closed ELSE conn.closed + 1) = 1
      BY <1>1, <1>2, <1>4, InvParts, SMTT(60), Z3T(60) DEF ClosedOnce
    <2>3. /\ d.closed = (IF conn.forceFlag_ THEN conn.closed ELSE conn.closed + 1)
          /\ (IF conn.forceFlag_ THEN conn.closed ELSE conn.closed + 1) \in Nat => d \in Conn
          /\ d.state_ = conn.state_ /\ d.forceFlag_ = conn.forceFlag_
          /\ d.out = conn.out /\ d.ups = conn.ups /\ d.destroyed = conn.destroyed
          /\ d.index_ = conn.index_ /\ d.reading = conn.reading
          /\ d.downs = conn.downs /\ d.shutWr = conn.shutWr /\ d.writing = conn.writing
      BY <1>2, ZenonT(60), ZenonT(90) DEF Conn
    <2> HIDE DEF d
    <2>4. d \in Conn /\ d.closed = 1
      BY <2>2, <2>3
    <2>5. (usage \in Usages /\ conn \in Conn /\ RestOk)'
      BY <1>2, <2>1, <2>4, ZenonT(60), ZenonT(90) DEF RestOk, QueueOk, FunctorOk, WorkersOk,
         SoundOutput, data
    <2>6. (TypeOK /\ CallsAllowed)'
      BY <2>5, TypedParts, PTL
    <2>7. conn.ups = 1
      BY <1>4, InUse, InvParts, SMTT(60), Z3T(60) DEF EstablishedOnce
    <2>8. EstablishedOnce'
      BY <2>1, <2>3, <2>7, InvParts, SMTT(60), Z3T(60) DEF EstablishedOnce
    <2>9. Referenced' = Referenced
      BY <2>1, SMTT(60), Z3T(60) DEF Referenced
    <2>10. ClosedOnce'
      BY <1>1, <1>4, <2>1, <2>3, <2>4, <2>9, InvParts, SMTT(60), Z3T(60) DEF ClosedOnce
    <2>11. OutputInOrder' /\ WritesPending'
      BY <2>1, <2>3, InvParts, SMTT(60), Z3T(60)
         DEF OutputInOrder, WritesPending, WritingUntouched, data
    <2>12. SteadyLife'
      BY <2>1, <2>3, InvParts, SMTT(60), Z3T(60)
         DEF SteadyLife, Steady, Up, Down, Removed, Destroyed, Disabled, Destroying, Open
    <2>13. QED
      BY <2>6, <2>8, <2>10, <2>11, <2>12, InvNext
  <1>5. QED
    BY <1>3, <1>4

\* What the peer does is not part of the invariant.
LEMMA PeerStepInv ==
    ASSUME IInv, usage' = usage, PeerStep
    PROVE  IInv'
  <1>1. /\ peer' \in {"open", "fin", "rst"}
        /\ UNCHANGED <<conn, functors, timers, removals, inMap, server, looping, alive,
                       worker, fail, data>>
    BY SMTT(60), Z3T(60) DEF PeerStep
  <1>2. timers \in 0..MaxTimers
    BY InvParts, SMTT(60), Z3T(60) DEF TypeOK
  <1>3. QED
    BY <1>1, <1>2, ConnAssumption, QuietStep, SMTT(60), Z3T(60)

-----------------------------------------------------------------------------
\* Every step keeps the invariant.
LEMMA NextIInv == IInv /\ [Next]_<<vars, usage>> => IInv'
  <1> SUFFICES ASSUME IInv, [Next]_<<vars, usage>> PROVE IInv'
    BY SMTT(60), Z3T(60)
  <1>1. CASE UNCHANGED <<vars, usage>>
    <2>1. UNCHANGED <<usage, conn, functors, timers, removals, inMap, server, looping, alive,
                      worker, peer, fail, data>>
      BY <1>1, SMTT(60), Z3T(60) DEF vars, data
    <2>2. timers \in 0..MaxTimers /\ peer \in {"open", "fin", "rst"}
      BY InvParts, SMTT(60), Z3T(60) DEF TypeOK
    <2>3. QED
      BY <2>1, <2>2, ConnAssumption, QuietStep, SMTT(60), Z3T(60)
  <1>2. CASE Next
    <2>1. usage' = usage /\ Step
      BY <1>2, SMTT(60), Z3T(60) DEF Next
    <2>2. CASE IOLoop
      BY <2>1, <2>2, FunctorStep, PeerClosedStep, WriteStep, FireTimerStep, SMTT(60),
         Z3T(60) DEF IOLoop
    <2>3. CASE LoopCalls
      BY <2>1, <2>3, LoopCallStep, SMTT(60), Z3T(60)
    <2>4. CASE \E w \in Workers : WorkerStep(w)
      BY <2>1, <2>4, WorkerStepInv, SMTT(60), Z3T(60)
    <2>5. CASE BaseLoop
      BY <2>1, <2>5, RemoveStep, ServerDtorStep, LoopQuitsStep, SMTT(60), Z3T(60) DEF BaseLoop
    <2>6. CASE Destruct \/ PeerStep
      BY <2>1, <2>6, DestructStep, PeerStepInv, SMTT(60), Z3T(60)
    <2>7. QED
      BY <2>1, <2>2, <2>3, <2>4, <2>5, <2>6, SMTT(60), Z3T(60) DEF Step
  <1>3. QED
    BY <1>1, <1>2, SMTT(60), Z3T(60)

\* The inductive invariant holds of every usage, any number of workers and messages.
THEOREM ConnectionInvariant == Spec => []IInv
  BY InitIInv, NextIInv, PTL DEF Spec

\* What the invariant says of the whole life.
LEMMA LifeImplied == IInv => LifecycleOnce
  <1> SUFFICES ASSUME IInv PROVE LifecycleOnce
    OBVIOUS
  <1>1. TypeOK /\ conn.ups \in {0, 1} /\ removals \in Nat
    BY InUse, InvParts, ZenonT(60), ZenonT(90) DEF TypeOK
  <1>2. Steady => /\ conn.downs <= conn.ups /\ conn.ups <= 1
                  /\ conn.destroyed + removals <= 1
                  /\ conn.destroyed = 1 => ~inMap /\ conn.downs = 1
                  /\ fail \in {"none", "useAfterFree"}
    <2>1. HAVE Steady
    <2>2. CASE conn.ups = 0
      BY <2>1, <2>2, InvParts, SMTT(60), Z3T(60) DEF EstablishedOnce, SteadyLife
    <2>3. CASE conn.ups = 1
      BY <2>1, <2>3, InvParts, SMTT(60), Z3T(60)
         DEF SteadyLife, Up, Down, Removed, Destroyed, Disabled
    <2>4. QED
      BY <1>1, <2>2, <2>3, SMTT(60), Z3T(60)
  <1>3. QED
    BY <1>1, <1>2, InvParts DEF ClosedOnce, LifecycleOnce

\* TcpConnection.cpp and TcpServer.cpp: a connection that only its IO loop closes is
\* reported up and down once, removed once and destroyed once, no lifecycle assertion
\* fails, and in every usage the descriptor is closed exactly once.
THEOREM OneLife == Spec => []LifecycleOnce
  BY ConnectionInvariant, LifeImplied, PTL

\* sendInLoop and handleWrite: what was accepted reaches the kernel in order with no gap,
\* and shutdown never cuts pending output off unless writing is switched from outside.
THEOREM OutputIsOrdered == Spec => []OutputInOrder
  <1>1. IInv => OutputInOrder
    BY InvParts
  <1>2. QED
    BY ConnectionInvariant, <1>1, PTL
=============================================================================
