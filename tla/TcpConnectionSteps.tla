------------------------- MODULE TcpConnectionSteps -------------------------
(***************************************************************************)
(* What the methods of a connection do to its fields, its queue and its    *)
(* output, and the steps of IInv that module TcpConnectionProofs rests on: *)
(* connectEstablished, connectDestroyed, sending and writing.  The methods *)
(* change the fields in one of two ways (Stays, Falls), so that the steps  *)
(* that run them share the proof that IInv is kept.                        *)
(***************************************************************************)
EXTENDS TcpConnection, TLAPS

\* What Channel::update does to the fields, whatever the poller has.
LEMMA UpdateFields ==
    ASSUME NEW c \in Conn
    PROVE  /\ Update(c) \in Conn
           /\ Update(c).index_ = IF c.index_ = "kAdded" /\ ~c.reading /\ ~c.writing
                                 THEN "kDeleted" ELSE "kAdded"
           /\ Update(c).state_ = c.state_ /\ Update(c).closeFlag_ = c.closeFlag_
           /\ Update(c).forceFlag_ = c.forceFlag_ /\ Update(c).dissByPeer_ = c.dissByPeer_
           /\ Update(c).reading_ = c.reading_ /\ Update(c).reading = c.reading
           /\ Update(c).writing = c.writing /\ Update(c).shutWr = c.shutWr
           /\ Update(c).out = c.out /\ Update(c).ups = c.ups /\ Update(c).downs = c.downs
           /\ Update(c).destroyed = c.destroyed /\ Update(c).closed = c.closed
  BY SMTT(60), Z3T(60) DEF Update, Conn

\* What a method may do to the fields: it leaves the channel as it is, or it closes
\* the connection.
SameCore(c, d) ==
    /\ d \in Conn
    /\ d.out = c.out /\ d.ups = c.ups /\ d.destroyed = c.destroyed /\ d.closed = c.closed
Stays(c, d) ==
    /\ SameCore(c, d)
    /\ d.index_ = c.index_ /\ d.reading = c.reading /\ d.writing = c.writing
    /\ d.downs = c.downs /\ d.forceFlag_ = c.forceFlag_
    /\ d.state_ = c.state_ \/ (Open(c) /\ d.state_ = "kDisconnecting")
    /\ d.shutWr => c.shutWr \/ ~c.writing
Falls(c, d) ==
    /\ SameCore(c, d)
    /\ d.downs = c.downs + 1 /\ d.state_ = "kDisconnected" /\ ~d.reading /\ ~d.writing
    /\ d.index_ = IF c.index_ = "kAdded" THEN "kDeleted" ELSE "kAdded"
    /\ c.forceFlag_ => d.forceFlag_

\* What precedes a method that changes the channel does not matter to it.
LEMMA StaysThen ==
    ASSUME NEW c \in Conn, NEW b \in Conn, NEW d \in Conn, Stays(c, b)
    PROVE  /\ Stays(b, d) => Stays(c, d)
           /\ Falls(b, d) => Falls(c, d)
  BY DEF Stays, Falls, SameCore, Open

\* The closing branch of handleClose, and the one of connectDestroyed.
LEMMA ClosedFields ==
    ASSUME NEW c \in Conn
    PROVE  Closed(c) \in Conn /\ Falls(c, Closed(c)) /\ Closed(c).forceFlag_ = c.forceFlag_
  <1> DEFINE b == [c EXCEPT !.state_ = "kDisconnected", !.downs = @ + 1]
             d == [b EXCEPT !.reading = FALSE, !.writing = FALSE]
  <1>1. c.downs + 1 \in Nat /\ "kDisconnected" \in States
    BY DEF Conn, States
  <1>2. /\ b \in Conn
        /\ b.state_ = "kDisconnected" /\ b.downs = c.downs + 1
        /\ b.index_ = c.index_ /\ b.forceFlag_ = c.forceFlag_ /\ b.out = c.out
        /\ b.ups = c.ups /\ b.destroyed = c.destroyed /\ b.closed = c.closed
    BY <1>1, ZenonT(60), ZenonT(90) DEF Conn
  <1>3. Closed(c) = Update(d)
    BY DEF Closed, DisableAll
  <1> HIDE DEF b
  <1>4. /\ d \in Conn
        /\ d.state_ = b.state_ /\ d.downs = b.downs /\ d.reading = FALSE /\ d.writing = FALSE
        /\ d.index_ = b.index_ /\ d.forceFlag_ = b.forceFlag_ /\ d.out = b.out
        /\ d.ups = b.ups /\ d.destroyed = b.destroyed /\ d.closed = b.closed
    BY <1>2, ZenonT(60), ZenonT(90) DEF Conn
  <1> HIDE DEF d
  <1>5. QED
    BY <1>2, <1>3, <1>4, UpdateFields DEF Falls, SameCore

\* shutdownInLoop waits for the output, or shuts the write side and may close.
LEMMA ShutdownInLoopFields ==
    ASSUME NEW c \in Conn
    PROVE  Stays(c, ShutdownInLoop(c)) \/ Falls(c, ShutdownInLoop(c))
  <1> DEFINE d == [c EXCEPT !.shutWr = TRUE]
  <1>1. CASE c.writing
    BY <1>1, Zenon DEF ShutdownInLoop, Stays, SameCore
  <1>2. CASE ~c.writing
    <2>1. d \in Conn /\ d.writing = c.writing
      BY ZenonT(60), ZenonT(90) DEF Conn
    <2>2. /\ d.out = c.out /\ d.ups = c.ups /\ d.destroyed = c.destroyed
          /\ d.closed = c.closed /\ d.index_ = c.index_ /\ d.reading = c.reading
          /\ d.downs = c.downs /\ d.forceFlag_ = c.forceFlag_ /\ d.state_ = c.state_
      BY ZenonT(60), ZenonT(90) DEF Conn
    <2>3. Stays(c, d)
      BY <1>2, <2>1, <2>2, Zenon DEF Stays, SameCore
    <2>4. ShutdownInLoop(c) \in {d, Closed(d)}
      BY <1>2, Zenon DEF ShutdownInLoop
    <2> HIDE DEF d
    <2>5. QED
      BY <2>1, <2>3, <2>4, ClosedFields, StaysThen, ZenonT(60), ZenonT(90)
  <1>3. QED
    BY <1>1, <1>2

\* shutdown() called in the IO loop.
LEMMA ShutdownFields ==
    ASSUME NEW c \in Conn
    PROVE  Stays(c, Shutdown(c)) \/ Falls(c, Shutdown(c))
  <1> DEFINE d == [c EXCEPT !.closeFlag_ = TRUE, !.state_ = "kDisconnecting"]
  <1>1. CASE c.state_ # "kConnected"
    BY <1>1 DEF Shutdown, Stays, SameCore
  <1>2. CASE c.state_ = "kConnected"
    <2>1. "kDisconnecting" \in States
      BY DEF States
    <2>2. d \in Conn /\ d.writing = c.writing /\ d.state_ = "kDisconnecting"
      BY <2>1, ZenonT(60), ZenonT(90) DEF Conn
    <2>3. /\ d.out = c.out /\ d.ups = c.ups /\ d.destroyed = c.destroyed
          /\ d.closed = c.closed /\ d.index_ = c.index_ /\ d.reading = c.reading
          /\ d.downs = c.downs /\ d.forceFlag_ = c.forceFlag_ /\ d.shutWr = c.shutWr
      BY Zenon DEF Conn
    <2>4. Open(c)
      BY <1>2 DEF Open
    <2>5. Stays(c, d)
      BY <2>2, <2>3, <2>4, Zenon DEF Stays, SameCore
    <2>6. Shutdown(c) = ShutdownInLoop(d)
      BY <1>2 DEF Shutdown
    <2> HIDE DEF d
    <2>7. ShutdownInLoop(d) \in Conn
      BY <2>2, ShutdownInLoopFields DEF Stays, Falls, SameCore
    <2>8. QED
      BY <2>2, <2>5, <2>6, <2>7, ShutdownInLoopFields, StaysThen, ZenonT(60), ZenonT(90)
  <1>3. QED
    BY <1>1, <1>2

\* handleClose closes once closeFlag_ is set, and shuts the connection down otherwise.
LEMMA HandleCloseFields ==
    ASSUME NEW c \in Conn
    PROVE  /\ Stays(c, HandleClose(c)) \/ Falls(c, HandleClose(c))
           /\ c.closeFlag_ => HandleClose(c) = Closed(c)
  <1> DEFINE d == [c EXCEPT !.dissByPeer_ = TRUE]
  <1>1. CASE c.closeFlag_
    BY <1>1, ClosedFields DEF HandleClose
  <1>2. CASE ~c.closeFlag_
    <2>1. d \in Conn
      BY ZenonT(60), ZenonT(90) DEF Conn
    <2>2. /\ d.out = c.out /\ d.ups = c.ups /\ d.destroyed = c.destroyed
          /\ d.closed = c.closed /\ d.index_ = c.index_ /\ d.reading = c.reading
          /\ d.downs = c.downs /\ d.forceFlag_ = c.forceFlag_ /\ d.state_ = c.state_
          /\ d.writing = c.writing /\ d.shutWr = c.shutWr
      BY ZenonT(60), ZenonT(90) DEF Conn
    <2>3. Stays(c, d)
      BY <2>1, <2>2, Zenon DEF Stays, SameCore
    <2>4. HandleClose(c) = Shutdown(d)
      BY <1>2 DEF HandleClose
    <2> HIDE DEF d
    <2>5. Shutdown(d) \in Conn
      BY <2>1, ShutdownFields DEF Stays, Falls, SameCore
    <2>6. QED
      BY <1>2, <2>1, <2>3, <2>4, <2>5, ShutdownFields, StaysThen, ZenonT(60), ZenonT(90)
  <1>3. QED
    BY <1>1, <1>2

\* A forced close of an open connection closes it at once.
LEMMA ForceCloseInLoopFields ==
    ASSUME NEW c \in Conn
    PROVE  Stays(c, ForceCloseInLoop(c)) \/ Falls(c, ForceCloseInLoop(c))
  <1> DEFINE d == [c EXCEPT !.closeFlag_ = TRUE, !.forceFlag_ = TRUE]
  <1>1. CASE ~Open(c)
    BY <1>1 DEF ForceCloseInLoop, Stays, SameCore, Open
  <1>2. CASE Open(c)
    <2>1. d \in Conn /\ d.closeFlag_ /\ d.forceFlag_
      BY ZenonT(60), ZenonT(90) DEF Conn
    <2>2. /\ d.out = c.out /\ d.ups = c.ups /\ d.destroyed = c.destroyed
          /\ d.closed = c.closed /\ d.index_ = c.index_ /\ d.downs = c.downs
      BY Zenon DEF Conn
    <2>3. ForceCloseInLoop(c) = HandleClose(d)
      BY <1>2 DEF ForceCloseInLoop, Open
    <2> HIDE DEF d
    <2>4. ForceCloseInLoop(c) = Closed(d)
      BY <2>1, <2>3, HandleCloseFields, ZenonT(60), ZenonT(90)
    <2>5. Closed(d) \in Conn /\ Falls(d, Closed(d))
      BY <2>1, ClosedFields, Zenon
    <2>6. Falls(c, Closed(d))
      BY <2>1, <2>2, <2>5 DEF Falls, SameCore
    <2>7. QED
      BY <2>4, <2>6
  <1>3. QED
    BY <1>1, <1>2

-----------------------------------------------------------------------------
\* The functor queue.

FunctorSet == [op : Owning \cup Ops, msg : Messages \cup {NoMsg}]
FunctorOk(f) ==
    f \in FunctorSet /\ WithMsg(f.op, f.msg) /\ f.op \in Owning \cup usage.worker
QueueOk(q) == q \in Seq(FunctorSet) /\ \A i \in DOMAIN q : FunctorOk(q[i])
NotEstablishing(q) == \A i \in DOMAIN q : q[i].op # "connectEstablished"
NoneDestroying(q) == \A i \in DOMAIN q : ~Destroying(q[i])
OneDestroying(q) ==
    \E i \in DOMAIN q : Destroying(q[i]) /\ \A j \in DOMAIN q : Destroying(q[j]) => j = i
EstablishesFirst(q) ==
    /\ q # << >> /\ Head(q).op = "connectEstablished"
    /\ \A i \in DOMAIN q : i > 1 => Destroying(q[i])

\* Queueing a functor.
LEMMA QueueAppend ==
    ASSUME NEW q, QueueOk(q), NEW f, FunctorOk(f)
    PROVE  /\ QueueOk(Append(q, f))
           /\ (NotEstablishing(q) /\ f.op # "connectEstablished") => NotEstablishing(Append(q, f))
           /\ (NoneDestroying(q) /\ ~Destroying(f)) => NoneDestroying(Append(q, f))
           /\ (OneDestroying(q) /\ ~Destroying(f)) => OneDestroying(Append(q, f))
           /\ (NoneDestroying(q) /\ Destroying(f)) => OneDestroying(Append(q, f))
           /\ (EstablishesFirst(q) /\ Destroying(f)) => EstablishesFirst(Append(q, f))
  <1> DEFINE r == Append(q, f)
  <1>1. /\ q \in Seq(FunctorSet) /\ f \in FunctorSet
        /\ \A i \in DOMAIN q : FunctorOk(q[i])
    BY DEF QueueOk, FunctorOk
  <1>2. /\ r \in Seq(FunctorSet) /\ Len(r) = Len(q) + 1 /\ Len(q) \in Nat
        /\ DOMAIN r = 1..(Len(q) + 1) /\ DOMAIN q = 1..Len(q)
        /\ \A i \in 1..Len(q) : r[i] = q[i]
        /\ r[Len(q) + 1] = f
    BY <1>1
  <1> HIDE DEF r
  <1>3. \A i \in DOMAIN r : (i \in DOMAIN q /\ r[i] = q[i]) \/ (i = Len(q) + 1 /\ r[i] = f)
    BY <1>2
  <1>4. Len(q) + 1 \in DOMAIN r /\ Len(q) + 1 \notin DOMAIN q
    BY <1>2
  <1>5. \A i \in DOMAIN q : i \in DOMAIN r /\ r[i] = q[i]
    BY <1>2
  <1>6. QueueOk(r)
    BY <1>1, <1>2, <1>3 DEF QueueOk
  <1>7. (NotEstablishing(q) /\ f.op # "connectEstablished") => NotEstablishing(r)
    BY <1>3 DEF NotEstablishing
  <1>8. (NoneDestroying(q) /\ ~Destroying(f)) => NoneDestroying(r)
    BY <1>3 DEF NoneDestroying
  <1>9. (OneDestroying(q) /\ ~Destroying(f)) => OneDestroying(r)
    BY <1>3, <1>5, ZenonT(60), ZenonT(90) DEF OneDestroying
  <1>10. (NoneDestroying(q) /\ Destroying(f)) => OneDestroying(r)
    <2>1. HAVE NoneDestroying(q) /\ Destroying(f)
    <2>2. \A j \in DOMAIN r : Destroying(r[j]) => j = Len(q) + 1
      BY <1>3, <2>1 DEF NoneDestroying
    <2>3. Destroying(r[Len(q) + 1])
      BY <1>2, <2>1
    <2>4. QED
      BY <1>4, <2>2, <2>3 DEF OneDestroying
  <1>11. (EstablishesFirst(q) /\ Destroying(f)) => EstablishesFirst(r)
    <2>1. HAVE EstablishesFirst(q) /\ Destroying(f)
    <2>2. r # << >> /\ Head(r) = Head(q)
      BY <1>1, <1>2, <2>1, SMTT(60), Z3T(60) DEF EstablishesFirst
    <2>3. \A i \in DOMAIN r : i > 1 => Destroying(r[i])
      BY <1>3, <2>1, SMTT(60), Z3T(60) DEF EstablishesFirst
    <2>4. QED
      BY <2>1, <2>2, <2>3 DEF EstablishesFirst
  <1>12. QED
    BY <1>6, <1>7, <1>8, <1>9, <1>10, <1>11, SMTT(60), Z3T(60) DEF r

\* Taking a functor from the queue.
LEMMA QueueTail ==
    ASSUME NEW q, QueueOk(q), q # << >>
    PROVE  /\ FunctorOk(Head(q))
           /\ QueueOk(Tail(q))
           /\ NotEstablishing(q) => NotEstablishing(Tail(q)) /\ Head(q).op # "connectEstablished"
           /\ NoneDestroying(q) => NoneDestroying(Tail(q)) /\ ~Destroying(Head(q))
           /\ (OneDestroying(q) /\ ~Destroying(Head(q))) => OneDestroying(Tail(q))
           /\ (OneDestroying(q) /\ Destroying(Head(q))) => NoneDestroying(Tail(q))
           /\ EstablishesFirst(q) => NotEstablishing(Tail(q))
  <1> DEFINE t == Tail(q)
  <1>1. q \in Seq(FunctorSet) /\ \A i \in DOMAIN q : FunctorOk(q[i])
    BY DEF QueueOk
  <1>2. /\ t \in Seq(FunctorSet) /\ Len(q) \in Nat \ {0} /\ Len(t) = Len(q) - 1
        /\ DOMAIN t = 1..(Len(q) - 1) /\ DOMAIN q = 1..Len(q)
        /\ \A i \in 1..(Len(q) - 1) : t[i] = q[i + 1]
        /\ Head(q) = q[1]
    BY <1>1
  <1> HIDE DEF t
  <1>3. \A i \in DOMAIN t : i + 1 \in DOMAIN q /\ i + 1 > 1 /\ t[i] = q[i + 1]
    BY <1>2, SMTT(60), Z3T(60)
  <1>4. 1 \in DOMAIN q /\ \A i \in DOMAIN q : i = 1 \/ (i - 1 \in DOMAIN t /\ t[i - 1] = q[i])
    BY <1>2, SMTT(60), Z3T(60)
  <1>5. FunctorOk(Head(q)) /\ QueueOk(t)
    BY <1>1, <1>2, <1>3, <1>4, SMTT(60), Z3T(60) DEF QueueOk
  <1>6. /\ NotEstablishing(q) => NotEstablishing(t) /\ Head(q).op # "connectEstablished"
        /\ NoneDestroying(q) => NoneDestroying(t) /\ ~Destroying(Head(q))
    BY <1>2, <1>3, <1>4, SMTT(60), Z3T(60) DEF NotEstablishing, NoneDestroying
  <1>7. (OneDestroying(q) /\ ~Destroying(Head(q))) => OneDestroying(t)
    <2>1. HAVE OneDestroying(q) /\ ~Destroying(Head(q))
    <2>2. PICK i \in DOMAIN q :
              Destroying(q[i]) /\ \A j \in DOMAIN q : Destroying(q[j]) => j = i
      BY <2>1, SMTT(60), Z3T(60) DEF OneDestroying
    <2>3. i - 1 \in DOMAIN t /\ t[i - 1] = q[i]
      BY <1>2, <1>4, <2>1, <2>2, SMTT(60), Z3T(60)
    <2>4. \A j \in DOMAIN t : Destroying(t[j]) => j = i - 1
      BY <1>2, <1>3, <2>2, SMTT(60), Z3T(60)
    <2>5. QED
      BY <2>2, <2>3, <2>4, SMTT(60), Z3T(60) DEF OneDestroying
  <1>8. (OneDestroying(q) /\ Destroying(Head(q))) => NoneDestroying(t)
    <2>1. HAVE OneDestroying(q) /\ Destroying(Head(q))
    <2>2. \A j \in DOMAIN q : Destroying(q[j]) => j = 1
      BY <1>2, <1>4, <2>1, SMTT(60), Z3T(60) DEF OneDestroying
    <2>3. QED
      BY <1>2, <1>3, <2>2, SMTT(60), Z3T(60) DEF NoneDestroying
  <1>9. EstablishesFirst(q) => NotEstablishing(t)
    BY <1>3 DEF EstablishesFirst, NotEstablishing, Destroying
  <1>10. QED
    BY <1>5, <1>6, <1>7, <1>8, <1>9, SMTT(60), Z3T(60) DEF t

-----------------------------------------------------------------------------
\* The parts of the state other than the connection's fields.
WorkersOk ==
    /\ worker \in [Workers -> [pc : {"none", "held", "tested", "set"},
                               op : Ops \cup {"none"}, msg : Messages \cup {NoMsg}]]
    /\ \A w \in Workers : worker[w].pc \in {"tested", "set"} =>
            WithMsg(worker[w].op, worker[w].msg) /\ worker[w].op \in usage.worker
SoundOutput ==
    /\ sent \in Seq(Messages \X {1, 2}) /\ wire \in Seq(Messages \X {1, 2})
    /\ used \subseteq Messages
RestOk ==
    /\ timers \in 0..MaxTimers /\ removals \in Nat /\ QueueOk(functors)
    /\ inMap \in BOOLEAN /\ server \in BOOLEAN /\ looping \in BOOLEAN /\ alive \in BOOLEAN
    /\ WorkersOk /\ peer \in {"open", "fin", "rst"} /\ SoundOutput

\* The parts of the invariant.
LEMMA InvParts ==
    ASSUME IInv
    PROVE  /\ TypeOK /\ CallsAllowed /\ EstablishedOnce /\ ClosedOnce
           /\ OutputInOrder /\ WritesPending /\ SteadyLife
  BY DEF IInv

\* ... and after a step.
LEMMA InvNext ==
    ASSUME TypeOK', CallsAllowed', EstablishedOnce', ClosedOnce',
           OutputInOrder', WritesPending', SteadyLife'
    PROVE  IInv'
  BY DEF IInv

\* The type invariant and the allowed calls, by parts of the state.
LEMMA TypedParts ==
    (TypeOK /\ CallsAllowed) <=> (usage \in Usages /\ conn \in Conn /\ RestOk)
  <1>1. ASSUME functors \in Seq(FunctorSet), NEW i \in DOMAIN functors
        PROVE  functors[i] \in FunctorSet
    BY <1>1, SMTT(60), Z3T(60)
  <1>2. ASSUME TypeOK, CallsAllowed PROVE usage \in Usages /\ conn \in Conn /\ RestOk
    <2>1. QueueOk(functors)
      BY <1>1, <1>2, SMTT(60), Z3T(60) DEF TypeOK, CallsAllowed, QueueOk, FunctorOk, FunctorSet
    <2>2. QED
      BY <1>2, <2>1, SMTT(60), Z3T(60) DEF TypeOK, CallsAllowed, RestOk, WorkersOk, SoundOutput
  <1>3. ASSUME usage \in Usages, conn \in Conn, RestOk PROVE TypeOK /\ CallsAllowed
    BY <1>3, SMTT(60), Z3T(60) DEF TypeOK, CallsAllowed, RestOk, WorkersOk, SoundOutput, QueueOk,
       FunctorOk, FunctorSet
  <1>4. QED
    BY <1>2, <1>3

\* What any method may do to the fields of a connection that has been established.
Moves(c, d) ==
    /\ d \in Conn
    /\ d.ups = c.ups /\ d.destroyed = c.destroyed /\ d.closed = c.closed
    /\ d.downs = c.downs \/ d.downs = c.downs + 1
    /\ c.index_ = "kNew" => d.index_ \in {"kNew", "kAdded"}
    /\ c.index_ # "kNew" => d.index_ # "kNew"
    /\ c.forceFlag_ => d.forceFlag_
    /\ d.forceFlag_ => c.forceFlag_ \/ (d.index_ # "kNew" /\ d.state_ = "kDisconnected")
    /\ d.state_ = "kConnected" => c.state_ = "kConnected"
    /\ d.state_ = "kConnecting" => c.state_ = "kConnecting"

\* ... and to its output, when it writes nothing.
KeepsOutput(c, d) ==
    /\ d.out = c.out
    /\ d.downs = 0 => c.downs = 0
    /\ (WritingUntouched /\ d.downs = 0) =>
        (d.writing <=> c.writing) /\ (d.shutWr => c.shutWr \/ ~c.writing)

\* Both kinds of methods move the fields and write nothing.
LEMMA StaysMoves ==
    ASSUME NEW c \in Conn, NEW d, Stays(c, d)
    PROVE  Moves(c, d) /\ KeepsOutput(c, d)
  BY DEF Stays, SameCore, Moves, KeepsOutput, Open, Conn, States

\* The same for one that closes.
LEMMA FallsMoves ==
    ASSUME NEW c \in Conn, NEW d, Falls(c, d)
    PROVE  Moves(c, d) /\ KeepsOutput(c, d)
  BY SMTT(60), Z3T(60) DEF Falls, SameCore, Moves, KeepsOutput, Conn, States

\* A step while the connection lives keeps the first half of the invariant when the
\* fields move as above: connectEstablished does not run again, and the socket is
\* closed once.
LEMMA LiveStep ==
    ASSUME IInv, fail = "none", alive, alive' = alive, usage' = usage, conn.ups = 1,
           Moves(conn, conn'), RestOk', NotEstablishing(functors'),
           fail' # "useAfterFree",
           fail' = "none" =>
               ~(conn.closed > 0 /\ conn.index_ # "kAdded" /\ conn'.index_ = "kAdded")
    PROVE  (TypeOK /\ CallsAllowed /\ EstablishedOnce /\ ClosedOnce)'
  <1>1. usage \in Usages /\ conn \in Conn /\ RestOk
    BY TypedParts, InvParts
  <1>2. (usage \in Usages /\ conn \in Conn /\ RestOk)'
    BY <1>1 DEF Moves
  <1>3. (TypeOK /\ CallsAllowed)'
    BY <1>2, TypedParts, PTL
  <1>4. EstablishedOnce'
    <2>1. conn'.ups = 1 /\ conn'.state_ # "kConnecting"
      BY InvParts DEF Moves, EstablishedOnce
    <2>2. QED
      BY <2>1, SMTT(60), Z3T(60) DEF EstablishedOnce, NotEstablishing
  <1>5. ClosedOnce'
    <2>1. /\ conn.closed = IF conn.forceFlag_ /\ conn.index_ = "kNew" THEN 1 ELSE 0
          /\ conn.state_ = "kConnected" => conn.index_ # "kNew" /\ ~conn.forceFlag_
      BY InvParts DEF ClosedOnce
    <2>2. conn'.closed = conn.closed /\ conn'.closed <= 1
      BY <2>1 DEF Moves
    <2>3. fail' = "none" =>
              conn'.closed = IF conn'.forceFlag_ /\ conn'.index_ = "kNew" THEN 1 ELSE 0
      BY <1>1, <2>1, <2>2, SMTT(60), Z3T(60) DEF Moves
    <2>4. conn'.state_ = "kConnected" => conn'.index_ # "kNew" /\ ~conn'.forceFlag_
      BY <1>1, <2>1, SMTT(60), Z3T(60) DEF Moves
    <2>5. QED
      BY <2>2, <2>3, <2>4, SMTT(60), Z3T(60) DEF ClosedOnce
  <1>6. QED
    BY <1>3, <1>4, <1>5

\* A step that writes nothing keeps the order of the output.
LEMMA OutputKept ==
    ASSUME IInv, usage' = usage, sent' = sent, wire' = wire, KeepsOutput(conn, conn')
    PROVE  OutputInOrder' /\ WritesPending'
  BY InvParts, SMTT(60), Z3T(60) DEF OutputInOrder, WritesPending, KeepsOutput, WritingUntouched

\* In a steady usage the IO loop's methods leave an open connection open or close it,
\* and do nothing to a closed one.
LEMMA SteadyKept ==
    ASSUME IInv, Steady, usage' = usage, fail = "none", conn.ups = 1,
           NEW d, Stays(conn, d) \/ (Falls(conn, d) /\ Open(conn)), Becomes(d),
           inMap' = inMap, server' = server, looping' = looping,
           NoneDestroying(functors) => NoneDestroying(functors'),
           OneDestroying(functors) => OneDestroying(functors')
    PROVE  SteadyLife'
  <1>1. /\ conn \in Conn /\ d \in Conn /\ conn' = d /\ removals \in Nat
        /\ server /\ looping
        /\ Up \/ Down \/ Removed \/ Destroyed
    BY InvParts DEF TypeOK, SteadyLife, Stays, Falls, SameCore, Becomes
  <1>2. conn'.ups = 1
    BY <1>1 DEF Stays, Falls, SameCore
  <1>3. fail' = "none" /\ (Up' \/ Down' \/ Removed' \/ Destroyed')
    <2>1. CASE Stays(conn, d)
      <3>1. removals' = removals /\ fail' = "none"
        BY <1>1, <2>1, SMTT(60), Z3T(60) DEF Stays, Becomes, Conn
      <3>2. CASE Up
        <4>1. Up'
          BY <1>1, <2>1, <3>1, <3>2, SMTT(60), Z3T(60) DEF Up, Stays, SameCore, Open, NoneDestroying
        <4>2. QED
          BY <3>1, <4>1
      <3>3. CASE Down
        <4>1. Down'
          BY <1>1, <2>1, <3>1, <3>3, SMTT(60), Z3T(60) DEF Down, Disabled, Stays, SameCore, Open,
             NoneDestroying
        <4>2. QED
          BY <3>1, <4>1, SMTT(60), Z3T(60)
      <3>4. CASE Removed
        <4>1. Removed'
          BY <1>1, <2>1, <3>1, <3>4, SMTT(60), Z3T(60) DEF Removed, Disabled, Stays, SameCore,
             Open, OneDestroying
        <4>2. QED
          BY <3>1, <4>1, SMTT(60), Z3T(60)
      <3>5. CASE Destroyed
        <4>1. Destroyed'
          BY <1>1, <2>1, <3>1, <3>5, SMTT(60), Z3T(60) DEF Destroyed, Disabled, Stays, SameCore,
             Open, NoneDestroying
        <4>2. QED
          BY <3>1, <4>1, SMTT(60), Z3T(60)
      <3>6. QED
        BY <1>1, <3>2, <3>3, <3>4, <3>5, SMTT(60), Z3T(60)
    <2>2. CASE Falls(conn, d) /\ Open(conn)
      <3>1. Up
        BY <1>1, <2>2 DEF Up, Down, Removed, Destroyed, Disabled, Open
      <3>2. removals' = 1 /\ fail' = "none"
        BY <1>1, <2>2, <3>1, SMTT(60), Z3T(60) DEF Falls, Becomes, Up, Conn
      <3>3. Down'
        BY <1>1, <2>2, <3>1, <3>2, SMTT(60), Z3T(60) DEF Up, Down, Disabled, Falls, SameCore,
           NoneDestroying
      <3>4. QED
        BY <3>2, <3>3, SMTT(60), Z3T(60)
    <2>3. QED
      BY <2>1, <2>2, SMTT(60), Z3T(60)
  <1>4. QED
    BY <1>1, <1>2, <1>3 DEF SteadyLife

UpFields(d) ==
    d.downs = 0 /\ Open(d) /\ d.index_ = "kAdded" /\ d.reading /\ d.destroyed = 0
DownFields(d) ==
    /\ d.downs = 1 /\ d.state_ = "kDisconnected" /\ ~d.reading /\ ~d.writing
    /\ d.index_ = "kDeleted" /\ d.destroyed = 0

\* The same for a step that changes the output of a connection that is up.
LEMMA SteadyUp ==
    ASSUME IInv, Steady, usage' = usage, fail = "none", conn.ups = 1, Up,
           NEW d \in Conn, d.ups = 1, UpFields(d) \/ DownFields(d), Becomes(d),
           inMap' = inMap, server' = server, looping' = looping,
           NoneDestroying(functors) => NoneDestroying(functors')
    PROVE  SteadyLife'
  <1>1. /\ conn' = d /\ removals = 0 /\ server /\ looping /\ conn \in Conn
    BY InvParts DEF TypeOK, SteadyLife, Becomes, Up
  <1>2. fail' = "none" /\ removals' = IF d.downs = 1 THEN 1 ELSE 0
    BY <1>1, SMTT(60), Z3T(60) DEF Becomes, Up, UpFields, DownFields
  <1>3. UpFields(d) => Up'
    BY <1>1, <1>2, SMTT(60), Z3T(60) DEF Up, UpFields, Open, NoneDestroying
  <1>4. DownFields(d) => Down'
    BY <1>1, <1>2, SMTT(60), Z3T(60) DEF Up, Down, Disabled, DownFields, NoneDestroying
  <1>5. QED
    BY <1>1, <1>2, <1>3, <1>4, SMTT(60), Z3T(60) DEF SteadyLife

\* The queue after a step of the IO loop that neither queues connectDestroyed nor runs it.
SameRemoval(q, r) ==
    /\ QueueOk(r) /\ NotEstablishing(r)
    /\ NoneDestroying(q) => NoneDestroying(r)
    /\ OneDestroying(q) => OneDestroying(r)

\* A connection that somebody holds lives, and one that has been used is established.
LEMMA InUse ==
    ASSUME IInv
    PROVE  /\ Referenced => alive
           /\ conn.ups \in {0, 1}
           /\ conn.index_ # "kNew" => conn.ups = 1
           /\ Open(conn) => conn.ups = 1
           /\ timers > 0 => conn.ups = 1
           /\ removals > 0 => conn.ups = 1 /\ alive
           /\ \A w \in Workers : worker[w].pc # "none" => conn.ups = 1 /\ alive
           /\ conn.ups = 1 => SameRemoval(functors, functors)
  <1>1. conn.ups \in Nat /\ RestOk
    BY TypedParts, InvParts, SMTT(60), Z3T(60) DEF TypeOK, Conn
  <1>2. conn.ups \in {0, 1}
    BY <1>1, InvParts, SMTT(60), Z3T(60) DEF EstablishedOnce
  <1>3. conn.ups = 1 => SameRemoval(functors, functors)
    BY <1>1, InvParts DEF RestOk, SameRemoval, EstablishedOnce, NotEstablishing
  <1>4. Referenced => alive
    BY InvParts, SMTT(60), Z3T(60) DEF ClosedOnce
  <1>5. QED
    BY <1>1, <1>2, <1>3, <1>4, InvParts, SMTT(60), Z3T(60) DEF EstablishedOnce, Open, Referenced,
       RestOk

\* A method that runs in the IO loop.
LEMMA MethodStep ==
    ASSUME IInv, fail = "none", alive, usage' = usage, conn.ups = 1,
           NEW d, Moves(conn, d), KeepsOutput(conn, d),
           Steady => Stays(conn, d) \/ (Falls(conn, d) /\ Open(conn)),
           Becomes(d), QueueOk(functors)', SameRemoval(functors, functors'),
           timers' \in 0..MaxTimers,
           UNCHANGED <<inMap, server, looping, alive, worker, peer, data>>
    PROVE  IInv'
  <1>1. conn \in Conn /\ RestOk /\ conn' = d /\ d \in Conn
    BY TypedParts, InvParts DEF Becomes, Moves
  <1>2. /\ removals' \in Nat /\ fail' # "useAfterFree"
        /\ fail' = "none" =>
               ~(conn.closed > 0 /\ conn.index_ # "kAdded" /\ conn'.index_ = "kAdded")
    BY <1>1, SMTT(60), Z3T(60) DEF Becomes, RestOk
  <1>3. RestOk'
    BY <1>1, <1>2, SMTT(60), Z3T(60) DEF RestOk, WorkersOk, SoundOutput, data
  <1>4. (TypeOK /\ CallsAllowed /\ EstablishedOnce /\ ClosedOnce)'
    BY <1>1, <1>2, <1>3, LiveStep, SMTT(60), Z3T(60) DEF SameRemoval
  <1>5. OutputInOrder' /\ WritesPending'
    BY <1>1, OutputKept, SMTT(60), Z3T(60) DEF data
  <1>6. SteadyLife'
    <2>1. CASE Steady
      BY <2>1, SteadyKept, SMTT(60), Z3T(60) DEF SameRemoval
    <2>2. CASE ~Steady
      BY <2>2, SMTT(60), Z3T(60) DEF SteadyLife, Steady
    <2>3. QED
      BY <2>1, <2>2, SMTT(60), Z3T(60)
  <1>7. QED
    BY <1>4, <1>5, <1>6, InvNext, SMTT(60), Z3T(60)

\* ... in particular one that leaves the channel alone, or closes an open connection.
LEMMA ClosingStep ==
    ASSUME IInv, fail = "none", alive, usage' = usage, conn.ups = 1,
           NEW d, Stays(conn, d) \/ Falls(conn, d),
           Steady => Stays(conn, d) \/ Open(conn),
           Becomes(d), QueueOk(functors)', SameRemoval(functors, functors'),
           timers' \in 0..MaxTimers,
           UNCHANGED <<inMap, server, looping, alive, worker, peer, data>>
    PROVE  IInv'
  <1>1. conn \in Conn
    BY InvParts, SMTT(60), Z3T(60) DEF TypeOK
  <1>2. Moves(conn, d) /\ KeepsOutput(conn, d)
    BY <1>1, StaysMoves, FallsMoves, SMTT(60), Z3T(60)
  <1>3. QED
    BY <1>2, MethodStep, SMTT(60), Z3T(60)

\* A step that leaves the fields and the place of the connection alone.
LEMMA OtherStep ==
    ASSUME IInv, fail = "none", alive, usage' = usage, conn.ups = 1, WorkersOk',
           used' \subseteq Messages, timers' \in 0..MaxTimers, QueueOk(functors)',
           SameRemoval(functors, functors'),
           UNCHANGED <<conn, removals, inMap, server, looping, alive, peer, fail, sent, wire>>
    PROVE  IInv'
  <1>1. conn \in Conn /\ RestOk
    BY TypedParts, InvParts
  <1>2. Stays(conn, conn) /\ Becomes(conn)
    <2>1. Stays(conn, conn)
      BY <1>1, ZenonT(60), ZenonT(90) DEF Stays, SameCore
    <2>2. QED
      BY <1>1, <2>1 DEF Becomes, Conn
  <1>3. Moves(conn, conn') /\ KeepsOutput(conn, conn')
    BY <1>1, <1>2, StaysMoves, SMTT(60), Z3T(60)
  <1>4. RestOk'
    BY <1>1, SMTT(60), Z3T(60) DEF RestOk, SoundOutput
  <1>5. (TypeOK /\ CallsAllowed /\ EstablishedOnce /\ ClosedOnce)'
    BY <1>3, <1>4, LiveStep, SMTT(60), Z3T(60) DEF SameRemoval
  <1>6. OutputInOrder' /\ WritesPending'
    BY <1>3, OutputKept, SMTT(60), Z3T(60)
  <1>7. CASE Steady
    BY <1>2, <1>5, <1>6, <1>7, SteadyKept, InvNext, SMTT(60), Z3T(60) DEF SameRemoval
  <1>8. CASE ~Steady
    BY <1>5, <1>6, <1>8, InvNext, SMTT(60), Z3T(60) DEF SteadyLife, Steady
  <1>9. QED
    BY <1>7, <1>8

\* A failure that the usage allows for.
LEMMA FailStep ==
    ASSUME IInv, fail = "none", usage' = usage, NEW what, FailWith(what),
           Steady => what = "useAfterFree",
           what = "useAfterFree" => usage.worker # {}, what # "none"
    PROVE  IInv'
  <1>1. TypeOK'
    BY InvParts, SMTT(60), Z3T(60) DEF TypeOK, FailWith, data
  <1>2. CallsAllowed' /\ EstablishedOnce'
    BY InvParts, SMTT(60), Z3T(60) DEF CallsAllowed, EstablishedOnce, Destroying, FailWith
  <1>3. Referenced' = Referenced
    BY SMTT(60), Z3T(60) DEF Referenced, FailWith
  <1>4. ClosedOnce'
    BY <1>3, InvParts, SMTT(60), Z3T(60) DEF ClosedOnce, FailWith
  <1>5. OutputInOrder' /\ WritesPending'
    BY InvParts, SMTT(60), Z3T(60) DEF OutputInOrder, WritesPending, WritingUntouched, FailWith,
       data
  <1>6. SteadyLife'
    BY InvParts, SMTT(60), Z3T(60)
       DEF SteadyLife, Steady, Up, Down, Removed, Destroyed, Disabled, Destroying, Open, FailWith
  <1>7. QED
    BY <1>1, <1>2, <1>4, <1>5, <1>6, InvNext, SMTT(60), Z3T(60)

\* A step of the timers or of the peer alone.
LEMMA QuietStep ==
    ASSUME IInv, timers' \in 0..MaxTimers, timers' <= timers, peer' \in {"open", "fin", "rst"},
           UNCHANGED <<usage, conn, functors, removals, inMap, server, looping, alive,
                       worker, fail, data>>
    PROVE  IInv'
  <1>1. TypeOK' /\ CallsAllowed'
    BY InvParts, SMTT(60), Z3T(60) DEF TypeOK, CallsAllowed, data
  <1>2. EstablishedOnce'
    BY InvParts, SMTT(60), Z3T(60) DEF TypeOK, EstablishedOnce, Destroying
  <1>3. Referenced' = Referenced
    BY SMTT(60), Z3T(60) DEF Referenced
  <1>4. ClosedOnce'
    BY <1>3, InvParts, SMTT(60), Z3T(60) DEF ClosedOnce
  <1>5. OutputInOrder' /\ WritesPending'
    BY InvParts, SMTT(60), Z3T(60) DEF OutputInOrder, WritesPending, WritingUntouched, data
  <1>6. SteadyLife'
    BY InvParts DEF SteadyLife, Steady, Up, Down, Removed, Destroyed, Disabled, Destroying, Open
  <1>7. QED
    BY <1>1, <1>2, <1>4, <1>5, <1>6, InvNext, SMTT(60), Z3T(60)

-----------------------------------------------------------------------------
\* The functors.

\* connectEstablished: only once, on the connection as constructed.
LEMMA EstablishStep ==
    ASSUME IInv, fail = "none", looping, alive, usage' = usage, functors # << >>,
           Head(functors).op = "connectEstablished", ConnectEstablished(Tail(functors))
    PROVE  IInv'
  <1> DEFINE b == [conn EXCEPT !.state_ = "kConnected", !.ups = @ + 1]
             e == [b EXCEPT !.reading = TRUE]
             d == Update(e)
  <1>1. conn \in Conn /\ RestOk /\ QueueOk(functors)
    BY TypedParts, InvParts, SMTT(60), Z3T(60) DEF RestOk
  <1>2. conn.ups = 0
    BY <1>1, InUse, QueueTail, SMTT(60), Z3T(60) DEF SameRemoval
  <1>3. /\ conn.state_ = "kConnecting" /\ conn.index_ = "kNew" /\ conn.downs = 0
        /\ conn.out = << >> /\ conn.destroyed = 0 /\ removals = 0
        /\ ~conn.forceFlag_ /\ ~conn.reading /\ ~conn.writing /\ ~conn.shutWr
        /\ EstablishesFirst(functors) /\ conn.closed = 0
    BY <1>2, InvParts DEF EstablishedOnce, EstablishesFirst, ClosedOnce
  <1>4. conn.ups + 1 = 1 /\ conn.ups + 1 \in Nat /\ "kConnected" \in States
    BY <1>2 DEF States
  <1>5. /\ b \in Conn /\ b.state_ = "kConnected" /\ b.ups = conn.ups + 1
        /\ b.index_ = conn.index_ /\ b.downs = conn.downs /\ b.out = conn.out
        /\ b.destroyed = conn.destroyed /\ b.forceFlag_ = conn.forceFlag_
        /\ b.writing = conn.writing /\ b.shutWr = conn.shutWr /\ b.closed = conn.closed
    BY <1>1, <1>4, ZenonT(60), ZenonT(90) DEF Conn
  <1>6. Becomes(d)
    BY DEF ConnectEstablished, EnableReading
  <1> HIDE DEF b
  <1>7. /\ e \in Conn /\ e.state_ = b.state_ /\ e.ups = b.ups /\ e.reading = TRUE
        /\ e.index_ = b.index_ /\ e.downs = b.downs /\ e.out = b.out
        /\ e.destroyed = b.destroyed /\ e.forceFlag_ = b.forceFlag_
        /\ e.writing = b.writing /\ e.shutWr = b.shutWr /\ e.closed = b.closed
    BY <1>5, ZenonT(60), ZenonT(90) DEF Conn
  <1> HIDE DEF e
  <1>8. /\ d \in Conn /\ d.state_ = "kConnected" /\ d.ups = 1 /\ d.reading
        /\ d.index_ = "kAdded" /\ d.downs = 0 /\ d.out = << >> /\ d.destroyed = 0
        /\ ~d.forceFlag_ /\ ~d.writing /\ ~d.shutWr /\ d.closed = 0
    BY <1>3, <1>4, <1>5, <1>7, UpdateFields, SMTT(60), Z3T(60)
  <1> HIDE DEF d
  <1>9. conn' = d /\ fail' = "none" /\ removals' = 0
    BY <1>3, <1>6, <1>8 DEF Becomes
  <1>10. UNCHANGED <<timers, inMap, server, looping, alive, worker, peer, data>>
         /\ functors' = Tail(functors)
    BY SMTT(60), Z3T(60) DEF ConnectEstablished
  <1>11. QueueOk(Tail(functors)) /\ NotEstablishing(Tail(functors))
    BY <1>1, <1>3, QueueTail, ZenonT(60), ZenonT(90)
  <1>12. RestOk'
    <2>1. QueueOk(functors)'
      BY <1>10, <1>11, SMTT(60), Z3T(60) DEF QueueOk, FunctorOk
    <2>2. QED
      BY <1>1, <1>9, <1>10, <2>1, SMTT(60), Z3T(60) DEF RestOk, WorkersOk, SoundOutput, data
  <1>13. (usage \in Usages /\ conn \in Conn /\ RestOk)'
    BY <1>8, <1>9, <1>12, InvParts DEF TypeOK
  <1>14. (TypeOK /\ CallsAllowed)'
    BY <1>13, TypedParts, PTL
  <1>15. EstablishedOnce' /\ ClosedOnce'
    BY <1>8, <1>9, <1>10, <1>11 DEF EstablishedOnce, NotEstablishing, ClosedOnce
  <1>16. OutputInOrder' /\ WritesPending'
    BY <1>3, <1>8, <1>9, <1>10, InvParts, ZenonT(60), ZenonT(90) DEF OutputInOrder, WritesPending,
       data
  <1>17. SteadyLife'
    <2>1. ASSUME Steady PROVE Up'
      <3>1. inMap /\ NoneDestroying(functors)
        BY <1>2, <2>1, InvParts, SMTT(60), Z3T(60) DEF SteadyLife, NoneDestroying
      <3>2. NoneDestroying(Tail(functors))
        BY <1>1, <3>1, QueueTail, SMTT(60), Z3T(60)
      <3>3. QED
        BY <1>8, <1>9, <1>10, <3>1, <3>2, SMTT(60), Z3T(60) DEF Up, Open, NoneDestroying
    <2>2. QED
      BY <1>8, <1>9, <1>10, <2>1, InvParts, SMTT(60), Z3T(60) DEF SteadyLife, Steady
  <1>18. QED
    BY <1>14, <1>15, <1>16, <1>17, InvNext, SMTT(60), Z3T(60)

\* connectDestroyed: the channel is removed and a forced close completed.
LEMMA DestroyStep ==
    ASSUME IInv, fail = "none", alive, usage' = usage, conn.ups = 1, functors # << >>,
           Head(functors).op = "connectDestroyed", ConnectDestroyed(Tail(functors))
    PROVE  IInv'
  <1> DEFINE c == DestroyBegin(conn)
             d == DestroyEnd(c)
  <1>1. conn \in Conn /\ RestOk /\ QueueOk(functors) /\ Destroying(Head(functors))
    BY TypedParts, InvParts DEF RestOk, Destroying
  <1>2. /\ c \in Conn
        /\ IF conn.state_ = "kConnected" THEN Falls(conn, c) /\ c.forceFlag_ = conn.forceFlag_
           ELSE c = conn
    BY <1>1, ClosedFields, ZenonT(60), ZenonT(90) DEF DestroyBegin, Closed
  <1>3. /\ conn.closed = IF conn.forceFlag_ /\ conn.index_ = "kNew" THEN 1 ELSE 0
        /\ conn.state_ = "kConnected" => conn.index_ # "kNew" /\ ~conn.forceFlag_
        /\ conn.state_ # "kConnecting"
    BY InvParts, SMTT(60), Z3T(60) DEF ClosedOnce, EstablishedOnce
  <1>4. Steady => Removed
    <2>1. ~NoneDestroying(functors)
      BY <1>1, QueueTail, SMTT(60), Z3T(60)
    <2>2. QED
      BY <2>1, InvParts, SMTT(60), Z3T(60) DEF SteadyLife, Up, Down, Destroyed, NoneDestroying
  <1>5. CASE c.reading \/ c.writing \/ c.index_ = "kNew"
    <2>1. FailWith("remove")
      BY <1>5, ZenonT(60), ZenonT(90) DEF ConnectDestroyed
    <2>2. ~Steady
      BY <1>2, <1>4, <1>5, SMTT(60), Z3T(60) DEF Removed, Disabled
    <2>3. QED
      BY <2>1, <2>2, FailStep, SMTT(60), Z3T(60)
  <1>6. CASE ~c.reading /\ ~c.writing /\ c.index_ # "kNew"
    <2>1. /\ conn' = d /\ functors' = Tail(functors)
          /\ UNCHANGED <<timers, removals, inMap, server, looping, alive, worker, peer,
                         fail, data>>
      BY <1>6, ZenonT(60), ZenonT(90) DEF ConnectDestroyed
    <2>2. /\ conn.closed = 0 /\ c.closed = 0 /\ c.ups = 1 /\ c.out = conn.out
          /\ c.destroyed = conn.destroyed
          /\ c.state_ # "kConnected" /\ c.state_ # "kConnecting"
          /\ c.downs = 0 => c = conn
      BY <1>1, <1>2, <1>3, <1>6, SMTT(60), Z3T(60) DEF Falls, SameCore, Conn
    <2> HIDE DEF c
    <2>3. /\ c.destroyed + 1 \in Nat /\ c.closed + 1 \in Nat
          /\ (IF c.forceFlag_ THEN c.closed + 1 ELSE c.closed) \in Nat
      BY <1>2, SMTT(60), Z3T(60) DEF Conn
    <2>4. /\ d \in Conn /\ d.index_ = "kNew" /\ d.destroyed = c.destroyed + 1
          /\ d.closed = IF c.forceFlag_ THEN c.closed + 1 ELSE c.closed
          /\ d.state_ = c.state_ /\ d.ups = c.ups /\ d.downs = c.downs /\ d.out = c.out
          /\ d.reading = c.reading /\ d.writing = c.writing /\ d.shutWr = c.shutWr
          /\ d.forceFlag_ = c.forceFlag_
      BY <1>2, <2>3, ZenonT(60), ZenonT(90) DEF DestroyEnd, Conn
    <2> HIDE DEF d
    <2>5. QueueOk(Tail(functors)) /\ NotEstablishing(Tail(functors))
      BY <1>1, QueueTail, InUse, SMTT(60), Z3T(60) DEF SameRemoval
    <2>6. RestOk'
      <3>1. QueueOk(functors)'
        BY <2>1, <2>5, SMTT(60), Z3T(60) DEF QueueOk, FunctorOk
      <3>2. QED
        BY <1>1, <2>1, <3>1, SMTT(60), Z3T(60) DEF RestOk, WorkersOk, SoundOutput, data
    <2>7. (usage \in Usages /\ conn \in Conn /\ RestOk)'
      BY <2>1, <2>4, <2>6, InvParts, SMTT(60), Z3T(60) DEF TypeOK
    <2>8. (TypeOK /\ CallsAllowed)'
      BY <2>7, TypedParts, PTL
    <2>9. EstablishedOnce'
      BY <2>1, <2>2, <2>4, <2>5, SMTT(60), Z3T(60) DEF EstablishedOnce, NotEstablishing
    <2>10. ClosedOnce'
      BY <2>1, <2>2, <2>4, SMTT(60), Z3T(60) DEF ClosedOnce
    <2>11. OutputInOrder' /\ WritesPending'
      <3>1. sent' = wire' \o conn'.out
        BY <2>1, <2>2, <2>4, InvParts, SMTT(60), Z3T(60) DEF OutputInOrder, data
      <3>2. CASE d.downs = 0
        <4>1. c = conn
          BY <2>2, <2>4, <3>2, SMTT(60), Z3T(60)
        <4>2. QED
          BY <1>6, <2>1, <2>4, <3>1, <3>2, <4>1, InvParts, ZenonT(60), ZenonT(90)
             DEF OutputInOrder, WritesPending, WritingUntouched
      <3>3. CASE d.downs # 0
        BY <2>1, <3>1, <3>3, SMTT(60), Z3T(60) DEF OutputInOrder, WritesPending
      <3>4. QED
        BY <3>2, <3>3, SMTT(60), Z3T(60)
    <2>12. SteadyLife'
      <3>1. ASSUME Steady PROVE Destroyed'
        <4>1. Removed /\ c = conn
          BY <1>2, <1>4, <3>1, SMTT(60), Z3T(60) DEF Removed, Disabled
        <4>2. NoneDestroying(Tail(functors))
          BY <1>1, <4>1, QueueTail, SMTT(60), Z3T(60) DEF Removed, OneDestroying
        <4>3. QED
          BY <2>1, <2>4, <4>1, <4>2, SMTT(60), Z3T(60) DEF Removed, Destroyed, Disabled,
             NoneDestroying
      <3>2. QED
        BY <2>1, <2>2, <2>4, <3>1, InvParts, SMTT(60), Z3T(60) DEF SteadyLife, Steady
    <2>13. QED
      BY <2>8, <2>9, <2>10, <2>11, <2>12, InvNext, SMTT(60), Z3T(60)
  <1>7. QED
    BY <1>5, <1>6, SMTT(60), Z3T(60)

-----------------------------------------------------------------------------
\* The output.

\* A sequence is its first n elements and the others.
LEMMA SplitOutput ==
    ASSUME NEW S, NEW a \in Seq(S), NEW n \in 0..Len(a)
    PROVE  /\ SubSeq(a, 1, n) \in Seq(S) /\ SubSeq(a, n + 1, Len(a)) \in Seq(S)
           /\ Len(SubSeq(a, n + 1, Len(a))) = Len(a) - n
           /\ SubSeq(a, 1, n) \o SubSeq(a, n + 1, Len(a)) = a
  <1> DEFINE x == SubSeq(a, 1, n)
             y == SubSeq(a, n + 1, Len(a))
  <1>1. x \in Seq(S) /\ Len(x) = n /\ \A i \in 1..n : x[i] = a[i]
    BY SMTT(60), Z3T(60)
  <1>2. y \in Seq(S) /\ Len(y) = Len(a) - n /\ \A i \in 1..(Len(a) - n) : y[i] = a[n + i]
    BY SMTT(60), Z3T(60)
  <1> HIDE DEF x, y
  <1>3. x \o y \in Seq(S) /\ Len(x \o y) = Len(a)
    BY <1>1, <1>2, SMTT(60), Z3T(60)
  <1>4. ASSUME NEW i \in 1..Len(a) PROVE (x \o y)[i] = a[i]
    <2>1. CASE i <= n
      <3>1. (x \o y)[i] = x[i]
        BY <1>1, <1>2, <2>1, SMTT(60), Z3T(60)
      <3>2. QED
        BY <1>1, <2>1, <3>1, SMTT(60), Z3T(60)
    <2>2. CASE i > n
      <3>1. (x \o y)[i] = y[i - n]
        BY <1>1, <1>2, <2>2, SMTT(60), Z3T(60)
      <3>2. i - n \in 1..(Len(a) - n) /\ n + (i - n) = i
        BY <2>2
      <3>3. QED
        BY <1>2, <3>1, <3>2, SMTT(60), Z3T(60)
    <2>3. i <= n \/ i > n
      <3>1. i \in Nat /\ n \in Nat
        OBVIOUS
      <3>2. QED
        BY <3>1
    <2>4. QED
      BY <2>1, <2>2, <2>3, ZenonT(60), ZenonT(90)
  <1>5. x \o y = a
    <2>1. ASSUME NEW z \in Seq(S) PROVE z = [i \in 1..Len(z) |-> z[i]]
      OBVIOUS
    <2>2. x \o y = [i \in 1..Len(a) |-> (x \o y)[i]] /\ a = [i \in 1..Len(a) |-> a[i]]
      BY <1>3, <2>1, ZenonT(60), ZenonT(90)
    <2>3. QED
      BY <1>4, <2>2, ZenonT(60), ZenonT(90)
  <1>6. QED
    BY <1>1, <1>2, <1>5, ZenonT(60), ZenonT(90) DEF x, y

\* The first n units u of a message are written at once after a, the others are kept
\* after b.
SplitSend(S, a, b, u, n) ==
    /\ SubSeq(u, 1, n) \in Seq(S)
    /\ b \o SubSeq(u, n + 1, 2) \in Seq(S)
    /\ Len(b \o SubSeq(u, n + 1, 2)) = Len(b) + (2 - n)
    /\ (a \o b) \o u = (a \o SubSeq(u, 1, n)) \o (b \o SubSeq(u, n + 1, 2))

\* The order is kept when nothing is written past pending output.
LEMMA SentOutput ==
    ASSUME NEW S, NEW a \in Seq(S), NEW b \in Seq(S), NEW u \in Seq(S), Len(u) = 2,
           NEW n \in 0..2, n = 0 \/ b = << >>
    PROVE  SplitSend(S, a, b, u, n)
  <1> DEFINE x == SubSeq(u, 1, n)
             y == SubSeq(u, n + 1, 2)
  <1>1. n \in 0..Len(u)
    OBVIOUS
  <1>2. x \in Seq(S) /\ y \in Seq(S)
    BY <1>1, SplitOutput, Zenon
  <1>3. Len(y) = 2 - n /\ x \o y = u
    BY <1>1, SplitOutput, Zenon
  <1>4. Len(x) = n
    BY SMTT(60), Z3T(60)
  <1> HIDE DEF x, y
  <1>5. b \o y \in Seq(S) /\ Len(b \o y) = Len(b) + (2 - n)
    BY <1>2, <1>3, SMTT(60), Z3T(60)
  <1>6. (a \o b) \o u = (a \o x) \o (b \o y)
    <2>1. CASE b = << >>
      <3>1. a \o b = a /\ b \o y = y
        BY <1>2, <2>1, SMTT(60), Z3T(60)
      <3>2. (a \o x) \o y = a \o (x \o y)
        BY <1>2, SMTT(60), Z3T(60)
      <3>3. QED
        BY <1>3, <3>1, <3>2, ZenonT(60), ZenonT(90)
    <2>2. CASE n = 0
      <3>1. x = << >>
        BY <1>2, <1>4, <2>2
      <3>2. a \o x = a /\ x \o y = y
        BY <1>2, <3>1
      <3>3. (a \o b) \o u = a \o (b \o u)
        BY SMTT(60), Z3T(60)
      <3>4. QED
        BY <1>3, <3>2, <3>3, Zenon
    <2>3. QED
      BY <2>1, <2>2, Zenon
  <1>7. QED
    BY <1>2, <1>5, <1>6, ZenonT(60), ZenonT(90) DEF x, y, SplitSend

\* d is c with another output, up to the state of the channel.
WithOutput(c, d, out) ==
    /\ d \in Conn /\ d.out = out
    /\ d.state_ = c.state_ /\ d.forceFlag_ = c.forceFlag_ /\ d.reading = c.reading
    /\ d.shutWr = c.shutWr /\ d.ups = c.ups /\ d.downs = c.downs
    /\ d.destroyed = c.destroyed /\ d.closed = c.closed

\* k is c with another output; what enabling writing and disabling it make of it.
OutputSet(c, k, out) ==
    /\ WithOutput(c, k, out) /\ k.index_ = c.index_ /\ k.writing = c.writing
    /\ WithOutput(c, EnableWriting(k), out) /\ EnableWriting(k).index_ = "kAdded"
    /\ EnableWriting(k).writing
    /\ WithOutput(c, DisableWriting(k), out) /\ ~DisableWriting(k).writing
    /\ DisableWriting(k).index_ =
          IF c.index_ = "kAdded" /\ ~c.reading THEN "kDeleted" ELSE "kAdded"

\* Setting the output leaves the other fields.
LEMMA OutputFields ==
    ASSUME NEW c \in Conn, NEW out \in Seq(Messages \X {1, 2}),
           NEW k, k = [c EXCEPT !.out = out]
    PROVE  OutputSet(c, k, out)
  <1>1. /\ k \in Conn /\ k.out = out
        /\ k.index_ = c.index_ /\ k.writing = c.writing
        /\ k.state_ = c.state_ /\ k.forceFlag_ = c.forceFlag_ /\ k.reading = c.reading
        /\ k.shutWr = c.shutWr /\ k.ups = c.ups /\ k.downs = c.downs
        /\ k.destroyed = c.destroyed /\ k.closed = c.closed
    BY ZenonT(60), ZenonT(90) DEF Conn
  <1>2. ASSUME NEW on \in BOOLEAN, NEW b, b = [k EXCEPT !.writing = on]
        PROVE  /\ WithOutput(c, Update(b), out) /\ Update(b).writing = on
               /\ Update(b).index_ = IF c.index_ = "kAdded" /\ ~c.reading /\ ~on
                                     THEN "kDeleted" ELSE "kAdded"
    <2>1. /\ b \in Conn /\ b.out = k.out /\ b.writing = on /\ b.index_ = k.index_
          /\ b.state_ = k.state_ /\ b.forceFlag_ = k.forceFlag_ /\ b.reading = k.reading
          /\ b.shutWr = k.shutWr /\ b.ups = k.ups /\ b.downs = k.downs
          /\ b.destroyed = k.destroyed /\ b.closed = k.closed
      BY <1>1, <1>2, ZenonT(60), ZenonT(90) DEF Conn
    <2>2. QED
      BY <1>1, <2>1, UpdateFields DEF WithOutput
  <1>3. WithOutput(c, k, out)
    BY <1>1, Zenon DEF WithOutput
  <1>4. /\ WithOutput(c, EnableWriting(k), out) /\ EnableWriting(k).writing = TRUE
        /\ EnableWriting(k).index_ = IF c.index_ = "kAdded" /\ ~c.reading /\ ~TRUE
                                     THEN "kDeleted" ELSE "kAdded"
    BY <1>2, Zenon DEF EnableWriting
  <1>5. /\ WithOutput(c, DisableWriting(k), out) /\ DisableWriting(k).writing = FALSE
        /\ DisableWriting(k).index_ = IF c.index_ = "kAdded" /\ ~c.reading /\ ~FALSE
                                      THEN "kDeleted" ELSE "kAdded"
    BY <1>2, Zenon DEF DisableWriting
  <1>6. QED
    BY <1>1, <1>3, <1>4, <1>5, Zenon DEF OutputSet

\* sendInLoop, called in the loop or as a functor.
LEMMA SendStep ==
    ASSUME IInv, fail = "none", alive, usage' = usage, conn.ups = 1,
           conn.closed = 0 \/ conn.state_ = "kDisconnected",
           NEW m \in Messages, NEW q, SameRemoval(functors, q), SendInLoop(m, q),
           used' \subseteq Messages,
           UNCHANGED <<timers, removals, inMap, server, looping, alive, worker, peer, fail>>
    PROVE  IInv'
  <1> DEFINE direct == ~conn.writing /\ conn.out = << >>
             U == Units(m)
             Output == Messages \X {1, 2}
  <1>1. conn \in Conn /\ RestOk /\ conn.out \in Seq(Output) /\ wire \in Seq(Output)
        /\ sent \in Seq(Output)
    BY TypedParts, InvParts DEF RestOk, SoundOutput, Conn
  <1>2. CASE conn.state_ = "kDisconnected" \/ (direct /\ Dead)
    <2>1. functors' = q /\ UNCHANGED <<conn, sent, wire>>
      BY <1>2 DEF SendInLoop
    <2>2. Stays(conn, conn)
      BY <1>1, Zenon DEF Stays, SameCore
    <2>3. Moves(conn, conn') /\ KeepsOutput(conn, conn') /\ conn' = conn
      BY <1>1, <2>1, <2>2, StaysMoves
    <2>4. RestOk'
      <3>1. QueueOk(functors)'
        BY <2>1, SMTT(60), Z3T(60) DEF SameRemoval, QueueOk, FunctorOk
      <3>2. QED
        BY <1>1, <2>1, <3>1, ZenonT(60), ZenonT(90) DEF RestOk, WorkersOk, SoundOutput
    <2>5. (TypeOK /\ CallsAllowed /\ EstablishedOnce /\ ClosedOnce)'
      BY <2>1, <2>3, <2>4, LiveStep, SMTT(60), Z3T(60) DEF SameRemoval
    <2>6. OutputInOrder' /\ WritesPending'
      BY <2>1, <2>3, OutputKept, SMTT(60), Z3T(60)
    <2>7. SteadyLife'
      <3>1. CASE Steady
        <4>1. Becomes(conn)
          BY <1>1, <2>1, SMTT(60), Z3T(60) DEF Becomes, Conn
        <4>2. QED
          BY <2>1, <2>2, <3>1, <4>1, SteadyKept, SMTT(60), Z3T(60) DEF SameRemoval
      <3>2. CASE ~Steady
        BY <3>2, SMTT(60), Z3T(60) DEF SteadyLife, Steady
      <3>3. QED
        BY <3>1, <3>2, SMTT(60), Z3T(60)
    <2>8. QED
      BY <2>5, <2>6, <2>7, InvNext
  <1>3. CASE ~(conn.state_ = "kDisconnected" \/ (direct /\ Dead))
    <2>1. PICK n \in IF direct THEN 0..2 ELSE {0} :
            LET out == conn.out \o SubSeq(U, n + 1, 2)
                kept == [conn EXCEPT !.out = out]
            IN /\ sent' = sent \o U
               /\ wire' = wire \o SubSeq(U, 1, n)
               /\ conn' = IF n = 2 \/ conn.writing THEN kept ELSE EnableWriting(kept)
               /\ functors' \in {q, Append(q, Callback)}
      BY <1>3, ZenonT(60), ZenonT(90) DEF SendInLoop
    <2> DEFINE out == conn.out \o SubSeq(U, n + 1, 2)
               kept == [conn EXCEPT !.out = out]
    <2>2. U \in Seq(Output) /\ Len(U) = 2
      BY SMTT(60), Z3T(60) DEF Units
    <2>3. /\ n \in 0..2 /\ (~direct => n = 0)
          /\ n = 0 \/ conn.out = << >>
      BY <2>1, SMTT(60), Z3T(60)
    <2> HIDE DEF U, Output
    <2>4. /\ SubSeq(U, 1, n) \in Seq(Output) /\ out \in Seq(Output)
          /\ Len(out) = Len(conn.out) + (2 - n)
          /\ (wire \o conn.out) \o U = (wire \o SubSeq(U, 1, n)) \o out
      <3>1. wire \in Seq(Output) /\ conn.out \in Seq(Output)
        BY <1>1, SMTT(60), Z3T(60)
      <3>2. n \in 0..2 /\ (n = 0 \/ conn.out = << >>)
        BY <2>3
      <3>3. SplitSend(Output, wire, conn.out, U, n)
        BY <2>2, <3>1, <3>2, SentOutput, ZenonT(60), ZenonT(90)
      <3>4. QED
        BY <3>3, ZenonT(60), ZenonT(90) DEF SplitSend
    <2> HIDE DEF out
    <2>5. sent' = wire' \o out
      BY <2>1, <2>4, InvParts, ZenonT(60), ZenonT(90) DEF OutputInOrder, out
    <2>7. SameRemoval(functors, functors')
      <3>1. FunctorOk(Callback) /\ ~Destroying(Callback) /\ Callback.op # "connectEstablished"
        BY SMTT(60), Z3T(60) DEF FunctorOk, Callback, Call, Functor, FunctorSet, Owning, WithMsg,
           NoMsg, Destroying
      <3>2. QED
        BY <2>1, <3>1, QueueAppend, ZenonT(60), ZenonT(90) DEF SameRemoval
    <2>8. /\ conn' = IF n = 2 \/ conn.writing THEN kept ELSE EnableWriting(kept)
          /\ sent' = sent \o U /\ wire' = wire \o SubSeq(U, 1, n)
          /\ sent \o U \in Seq(Output) /\ wire \o SubSeq(U, 1, n) \in Seq(Output)
      BY <1>1, <2>1, <2>2, <2>4, SMTT(60), Z3T(60) DEF out
    <2>9. /\ conn' \in Conn /\ conn'.out = out
          /\ conn'.state_ = conn.state_ /\ conn'.forceFlag_ = conn.forceFlag_
          /\ conn'.reading = conn.reading
          /\ conn'.shutWr = conn.shutWr /\ conn'.ups = conn.ups /\ conn'.downs = conn.downs
          /\ conn'.destroyed = conn.destroyed /\ conn'.closed = conn.closed
          /\ conn'.index_ = IF n = 2 \/ conn.writing THEN conn.index_ ELSE "kAdded"
          /\ conn'.writing <=> (n # 2 \/ conn.writing)
      <3> DEFINE e == EnableWriting(kept)
      <3>1. out \in Seq(Messages \X {1, 2})
        BY <2>4 DEF Output
      <3> HIDE DEF kept
      <3>0. kept = [conn EXCEPT !.out = out]
        BY DEF kept
      <3>2. /\ WithOutput(conn, kept, out) /\ WithOutput(conn, e, out)
            /\ kept.index_ = conn.index_ /\ e.index_ = "kAdded"
            /\ kept.writing = conn.writing /\ e.writing
        <4>1. conn \in Conn
          BY <1>1
        <4>2. OutputSet(conn, kept, out)
          BY <3>0, <3>1, <4>1, OutputFields, SMTT(60), Z3T(60)
        <4>3. QED
          BY <4>2, ZenonT(60), ZenonT(90) DEF OutputSet
      <3>3. conn' = IF n = 2 \/ conn.writing THEN kept ELSE e
        BY <2>8, SMTT(60), Z3T(60) DEF kept
      <3>4. n = 2 => ~conn.writing
        BY <2>3
      <3> HIDE DEF kept, e
      <3>5. QED
        BY <3>2, <3>3, <3>4, ZenonT(60), ZenonT(90) DEF WithOutput
    <2> HIDE DEF kept
    <2>10. conn.closed = 0 /\ Moves(conn, conn')
      BY <1>1, <1>3, <2>9, ZenonT(60), ZenonT(90) DEF Moves, Conn
    <2>11. RestOk'
      <3>1. SoundOutput'
        BY <2>8, ZenonT(60), ZenonT(90) DEF SoundOutput, Output
      <3>2. QueueOk(functors)'
        BY <2>7, SMTT(60), Z3T(60) DEF SameRemoval, QueueOk, FunctorOk
      <3>3. QED
        BY <1>1, <3>1, <3>2, ZenonT(60), ZenonT(90) DEF RestOk, WorkersOk
    <2>12. (TypeOK /\ CallsAllowed /\ EstablishedOnce /\ ClosedOnce)'
      BY <2>7, <2>10, <2>11, LiveStep, SMTT(60), Z3T(60) DEF SameRemoval
    <2>13. OutputInOrder' /\ WritesPending'
      <3>1. ASSUME WritingUntouched, conn.downs = 0
            PROVE  ~conn.shutWr /\ (conn'.writing <=> conn'.out # << >>)
        <4>1. conn.writing <=> conn.out # << >>
          BY <3>1, InvParts, SMTT(60), Z3T(60) DEF WritesPending
        <4>2. conn.shutWr => direct /\ Dead
          BY <3>1, <4>1, InvParts, SMTT(60), Z3T(60) DEF OutputInOrder, Dead
        <4>3. direct \/ conn.writing
          BY <4>1, SMTT(60), Z3T(60)
        <4>4. conn'.writing <=> n # 2
          BY <2>3, <2>9, <4>3, SMTT(60), Z3T(60)
        <4>5. out # << >> <=> n # 2
          BY <1>1, <2>3, <2>4, <4>3, SMTT(60), Z3T(60)
        <4>6. QED
          BY <1>3, <2>9, <4>2, <4>4, <4>5, SMTT(60), Z3T(60)
      <3>2. QED
        BY <2>5, <2>9, <3>1, SMTT(60), Z3T(60) DEF OutputInOrder, WritesPending, WritingUntouched
    <2>14. SteadyLife'
      <3>1. CASE Steady
        <4>1. Up
          BY <1>3, <3>1, InvParts, SMTT(60), Z3T(60) DEF SteadyLife, Down, Removed, Destroyed,
             Disabled
        <4>2. UpFields(conn')
          BY <2>9, <4>1, ZenonT(60), ZenonT(90) DEF Up, UpFields, Open
        <4>3. Becomes(conn')
          BY <1>1, <2>9, <2>10, SMTT(60), Z3T(60) DEF Becomes, Conn
        <4>4. QED
          BY <2>7, <2>9, <3>1, <4>1, <4>2, <4>3, SteadyUp, ZenonT(60), ZenonT(90) DEF SameRemoval
      <3>2. CASE ~Steady
        BY <3>2 DEF SteadyLife, Steady
      <3>3. QED
        BY <3>1, <3>2, SMTT(60), Z3T(60)
    <2>15. QED
      BY <2>12, <2>13, <2>14, InvNext, SMTT(60), Z3T(60)
  <1>4. QED
    BY <1>2, <1>3

\* The first n units of the pending output b are written after a.
SplitWrite(S, a, b, n) ==
    /\ a \o SubSeq(b, 1, n) \in Seq(S)
    /\ SubSeq(b, n + 1, Len(b)) \in Seq(S)
    /\ a \o b = (a \o SubSeq(b, 1, n)) \o SubSeq(b, n + 1, Len(b))

\* What is written and what is left are the pending output, in order.
LEMMA WrittenOutput ==
    ASSUME NEW S, NEW a \in Seq(S), NEW b \in Seq(S), NEW n \in 0..Len(b)
    PROVE  SplitWrite(S, a, b, n)
  <1> DEFINE x == SubSeq(b, 1, n)
             y == SubSeq(b, n + 1, Len(b))
  <1>1. x \in Seq(S) /\ y \in Seq(S)
    BY SplitOutput, Zenon
  <1>2. x \o y = b
    BY SplitOutput, Zenon
  <1> HIDE DEF x, y
  <1>3. a \o x \in Seq(S) /\ (a \o x) \o y = a \o (x \o y)
    BY <1>1, SMTT(60), Z3T(60)
  <1>4. QED
    BY <1>1, <1>2, <1>3, ZenonT(60), ZenonT(90) DEF x, y, SplitWrite

\* The fields after a write: the rest is kept, or writing is disabled, or (with a
\* shutdown pending) the connection is closed.
WriteResult(c, d, rest) ==
    IF rest # << >> THEN WithOutput(c, d, rest) /\ d.index_ = c.index_ /\ d.writing = c.writing
    ELSE \E idle \in Conn :
        /\ WithOutput(c, idle, rest) /\ ~idle.writing
        /\ idle.index_ = IF c.index_ = "kAdded" /\ ~c.reading THEN "kDeleted" ELSE "kAdded"
        /\ Stays(idle, d) \/ Falls(idle, d)

\* handleWrite leaves the rest, or disables writing and finishes a shutdown.
LEMMA WrittenFields ==
    ASSUME conn \in Conn, NEW n, SubSeq(conn.out, n + 1, Len(conn.out)) \in Seq(Messages \X {1, 2})
    PROVE  WriteResult(conn, Written(n), SubSeq(conn.out, n + 1, Len(conn.out)))
  <1> DEFINE rest == SubSeq(conn.out, n + 1, Len(conn.out))
             k == [conn EXCEPT !.out = rest]
             idle == DisableWriting(k)
  <1>1. Written(n) = IF rest # << >> THEN k
                     ELSE IF conn.state_ = "kDisconnecting" THEN ShutdownInLoop(idle) ELSE idle
    BY DEF Written
  <1>2. k = [conn EXCEPT !.out = rest] /\ rest \in Seq(Messages \X {1, 2})
    OBVIOUS
  <1> HIDE DEF rest, k
  <1>3. OutputSet(conn, k, rest)
    BY <1>2, OutputFields, SMTT(60), Z3T(60)
  <1>4. CASE rest # << >>
    BY <1>1, <1>3, <1>4, Zenon DEF WriteResult, OutputSet, rest
  <1>5. CASE rest = << >>
    <2> HIDE DEF idle
    <2>1. /\ WithOutput(conn, idle, rest) /\ ~idle.writing
          /\ idle.index_ = IF conn.index_ = "kAdded" /\ ~conn.reading THEN "kDeleted" ELSE "kAdded"
      BY <1>3, Zenon DEF OutputSet, idle
    <2>2. idle \in Conn
      BY <2>1 DEF WithOutput
    <2>3. Stays(idle, idle)
      BY <2>2, Zenon DEF Stays, SameCore
    <2>4. Stays(idle, ShutdownInLoop(idle)) \/ Falls(idle, ShutdownInLoop(idle))
      BY <2>2, ShutdownInLoopFields
    <2>5. Stays(idle, Written(n)) \/ Falls(idle, Written(n))
      BY <1>1, <1>5, <2>3, <2>4, Zenon
    <2>6. WriteResult(conn, Written(n), rest)
      BY <1>5, <2>1, <2>2, <2>5, Zenon DEF WriteResult
    <2>7. QED
      BY <2>6 DEF rest
  <1>6. QED
    BY <1>4, <1>5

\* handleWrite.
LEMMA WriteStep ==
    ASSUME IInv, usage' = usage, HandleWrite
    PROVE  IInv'
  <1> DEFINE Output == Messages \X {1, 2}
  <1>1. conn \in Conn /\ RestOk /\ conn.out \in Seq(Output) /\ wire \in Seq(Output)
    BY TypedParts, InvParts, SMTT(60), Z3T(60) DEF RestOk, SoundOutput, Conn
  <1>2. /\ fail = "none" /\ conn.index_ = "kAdded" /\ Referenced /\ conn.writing /\ ~Dead
        /\ UNCHANGED <<timers, inMap, server, looping, alive, worker, peer, sent, used>>
    BY SMTT(60), Z3T(60) DEF HandleWrite, EventsDelivered, Running
  <1>3. alive /\ conn.ups = 1 /\ SameRemoval(functors, functors)
    BY <1>2, InUse, SMTT(60), Z3T(60)
  <1>4. PICK n \in 1..Len(conn.out) :
            /\ Becomes(Written(n))
            /\ wire' = wire \o SubSeq(conn.out, 1, n)
            /\ functors' \in {functors, Append(functors, Callback)}
    BY SMTT(60), Z3T(60) DEF HandleWrite
  <1> DEFINE rest == SubSeq(conn.out, n + 1, Len(conn.out))
             d == Written(n)
  <1> HIDE DEF Output
  <1>5. n \in 0..Len(conn.out)
    BY <1>1
  <1>6. SplitWrite(Output, wire, conn.out, n)
    <2>1. conn.out \in Seq(Output) /\ wire \in Seq(Output)
      BY <1>1
    <2>2. QED
      BY <1>5, <2>1, WrittenOutput, ZenonT(60), ZenonT(90)
  <1>7. rest \in Seq(Output) /\ wire' \in Seq(Output) /\ sent = wire' \o rest
    BY <1>4, <1>6, InvParts, ZenonT(60), ZenonT(90) DEF SplitWrite, OutputInOrder
  <1>8. WriteResult(conn, d, rest)
    <2>1. conn \in Conn /\ rest \in Seq(Messages \X {1, 2})
      BY <1>1, <1>7, SMTT(60), Z3T(60) DEF Output
    <2>2. QED
      BY <2>1, WrittenFields, ZenonT(60), ZenonT(90)
  <1>9. conn' = d /\ Becomes(d)
    BY <1>4, SMTT(60), Z3T(60) DEF Becomes
  <1> HIDE DEF d, rest
  <1>10. /\ Moves(conn, d) /\ d.out = rest
         /\ d.downs = 0 => conn.downs = 0
         /\ rest # << >> => d.writing /\ d.shutWr = conn.shutWr
         /\ rest = << >> /\ d.downs = 0 => ~d.writing
    <2>1. CASE rest # << >>
      BY <1>1, <1>2, <1>8, <2>1, ZenonT(60), ZenonT(90) DEF WriteResult, WithOutput, Moves, Conn
    <2>2. CASE rest = << >>
      <3>1. PICK idle \in Conn :
              /\ WithOutput(conn, idle, rest) /\ ~idle.writing
              /\ idle.index_ # "kNew"
              /\ Stays(idle, d) \/ Falls(idle, d)
        BY <1>8, <2>2, SMTT(60), Z3T(60) DEF WriteResult
      <3>2. Moves(idle, d)
        BY <3>1, StaysMoves, FallsMoves, SMTT(60), Z3T(60)
      <3>3. Stays(idle, d) => d.out = idle.out /\ ~d.writing /\ d.downs = idle.downs
        BY <3>1 DEF Stays, SameCore
      <3>4. idle.downs \in Nat
        BY ZenonT(60), ZenonT(90) DEF Conn
      <3>5. Falls(idle, d) => d.out = idle.out /\ d.downs # 0
        BY <3>4, SMTT(60), Z3T(60) DEF Falls, SameCore
      <3>6. Moves(conn, d) /\ d.out = rest
        BY <1>2, <3>1, <3>2, <3>3, <3>5, ZenonT(60), ZenonT(90) DEF WithOutput, Moves
      <3>7. d.downs = 0 => conn.downs = 0 /\ ~d.writing
        BY <3>1, <3>3, <3>5, SMTT(60), Z3T(60) DEF WithOutput
      <3>8. QED
        BY <2>2, <3>6, <3>7, SMTT(60), Z3T(60)
    <2>3. QED
      BY <2>1, <2>2
  <1>11. SameRemoval(functors, functors')
    <2>1. FunctorOk(Callback) /\ ~Destroying(Callback) /\ Callback.op # "connectEstablished"
      BY SMTT(60), Z3T(60) DEF FunctorOk, Callback, Call, Functor, FunctorSet, Owning, WithMsg,
         NoMsg, Destroying
    <2>2. QED
      BY <1>3, <1>4, <2>1, QueueAppend, ZenonT(60), ZenonT(90) DEF SameRemoval
  <1>12. RestOk'
    <2>1. SoundOutput'
      BY <1>1, <1>2, <1>7, SMTT(60), Z3T(60) DEF SoundOutput, RestOk, Output
    <2>2. QueueOk(functors)'
      BY <1>11, SMTT(60), Z3T(60) DEF SameRemoval, QueueOk, FunctorOk
    <2>3. removals' \in Nat
      BY <1>1, <1>9, SMTT(60), Z3T(60) DEF Becomes, RestOk
    <2>4. QED
      BY <1>1, <1>2, <2>1, <2>2, <2>3, SMTT(60), Z3T(60) DEF RestOk, WorkersOk
  <1>13. fail' # "useAfterFree"
    BY <1>2, <1>9, SMTT(60), Z3T(60) DEF Becomes
  <1>14. (TypeOK /\ CallsAllowed /\ EstablishedOnce /\ ClosedOnce)'
    BY <1>2, <1>3, <1>9, <1>10, <1>11, <1>12, <1>13, LiveStep, SMTT(60), Z3T(60) DEF SameRemoval
  <1>15. OutputInOrder' /\ WritesPending'
    <2>1. conn'.out = rest /\ sent' = wire' \o rest
      BY <1>2, <1>7, <1>9, <1>10, SMTT(60), Z3T(60)
    <2>2. conn'.shutWr => rest = << >>
      BY <1>2, <1>9, <1>10, ZenonT(60), ZenonT(90) DEF Dead
    <2>3. conn'.downs = 0 => (conn'.writing <=> rest # << >>)
      BY <1>9, <1>10, SMTT(60), Z3T(60)
    <2>4. QED
      BY <2>1, <2>2, <2>3, SMTT(60), Z3T(60) DEF OutputInOrder, WritesPending
  <1>16. SteadyLife'
    <2>1. CASE Steady
      <3>1. Up
        BY <1>2, <1>3, <2>1, InvParts, SMTT(60), Z3T(60) DEF SteadyLife, Down, Removed, Destroyed
      <3>2. d \in Conn /\ d.ups = 1 /\ (UpFields(d) \/ DownFields(d))
        <4>1. CASE rest # << >>
          BY <1>3, <1>8, <3>1, <4>1, ZenonT(60), ZenonT(90) DEF WriteResult, WithOutput, Up,
             UpFields, Open
        <4>2. CASE rest = << >>
          <5>1. PICK idle \in Conn :
                  /\ WithOutput(conn, idle, rest) /\ ~idle.writing
                  /\ idle.index_ = IF conn.index_ = "kAdded" /\ ~conn.reading
                                   THEN "kDeleted" ELSE "kAdded"
                  /\ Stays(idle, d) \/ Falls(idle, d)
            BY <1>8, <4>2, SMTT(60), Z3T(60) DEF WriteResult
          <5>2. UpFields(idle) /\ idle.ups = 1
            BY <1>3, <3>1, <5>1, SMTT(60), Z3T(60) DEF WithOutput, Up, UpFields, Open
          <5>3. CASE Stays(idle, d)
            BY <5>2, <5>3, SMTT(60), Z3T(60) DEF Stays, SameCore, UpFields, Open
          <5>4. CASE Falls(idle, d)
            BY <5>2, <5>4, SMTT(60), Z3T(60) DEF Falls, SameCore, UpFields, DownFields
          <5>5. QED
            BY <5>1, <5>3, <5>4, SMTT(60), Z3T(60)
        <4>3. QED
          BY <4>1, <4>2
      <3>3. QED
        BY <1>2, <1>3, <1>9, <1>11, <2>1, <3>1, <3>2, SteadyUp, SMTT(60), Z3T(60) DEF SameRemoval
    <2>2. CASE ~Steady
      BY <2>2 DEF SteadyLife, Steady
    <2>3. QED
      BY <2>1, <2>2, SMTT(60), Z3T(60)
  <1>17. QED
    BY <1>14, <1>15, <1>16, InvNext
=============================================================================
