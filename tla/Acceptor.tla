------------------------------ MODULE Acceptor ------------------------------
(***************************************************************************)
(* netLayer/tcp/s/Acceptor.cpp with the part of TcpServer.cpp and          *)
(* EventLoopThreadPool.cpp that starts the server and hands a new          *)
(* connection to an IO loop, and the table of descriptors of the process.  *)
(* When the table is full, handleRead gives up its spare descriptor        *)
(* idleFd_ to accept a peer and close it at once, so that the peer does    *)
(* not wait and poll does not return for it for ever.  Other threads, the  *)
(* workers that open files and the IO loops that destruct connections,     *)
(* take and release descriptors between any two system calls.              *)
(***************************************************************************)
EXTENDS Integers

CONSTANTS MaxFds,     \* descriptors left to the server: RLIMIT_NOFILE
          NumLoops,   \* numThreads_ of the EventLoopThreadPool
          MaxPeers    \* bound on the peers that connect

ASSUME AcceptorAssumption == MaxFds \in Nat \ {0} /\ NumLoops \in Nat /\ MaxPeers \in Nat

Fds == 1..MaxFds
Closed == 0           \* the -1 of a failed call
kBaseLoop == -1
Loops == (0..(NumLoops - 1)) \cup {kBaseLoop}

VARIABLES fds,        \* per descriptor: what it is open for, or "free"
          idleFd_,
          acceptPc,   \* of the base loop: before start(), in poll, in handleRead, or
                      \* after the server's destructor
          next_,      \* of the EventLoopThreadPool: an index of loops_
          assigned,   \* history: connections given to each loop; -1 is the base loop
          backlog,    \* peers the kernel has connected and nobody accepted
          peers,      \* peers that have connected so far
          raced,      \* history: the spare descriptor was taken by another thread
          stolen      \* history: handleRead closed a descriptor of somebody else

acceptorVars == <<fds, idleFd_, acceptPc, next_, assigned, backlog, peers, raced, stolen>>

Full == \A f \in Fds : fds[f] # "free"

\* The kernel gives the lowest descriptor that is free.
Lowest(f) == f \in Fds /\ fds[f] = "free" /\ \A g \in 1..(f - 1) : fds[g] # "free"

\* The constructor opens /dev/null and asserts that it could.
AcceptorInit ==
    /\ fds = [f \in Fds |-> IF f = 1 THEN "idle" ELSE "free"]
    /\ idleFd_ = 1
    /\ acceptPc = "created"
    /\ next_ = 0 /\ assigned = [l \in Loops |-> 0]
    /\ backlog = 0 /\ peers = 0
    /\ raced = FALSE /\ stolen = FALSE

\* TcpServer::start: the pool's threads, then listen().
Start ==
    /\ acceptPc = "created"
    /\ acceptPc' = "poll"
    /\ UNCHANGED <<fds, idleFd_, next_, assigned, backlog, peers, raced, stolen>>

\* poll reports the listening socket.
ListenReadable ==
    /\ acceptPc = "poll" /\ backlog > 0
    /\ acceptPc' = "handleRead"
    /\ UNCHANGED <<fds, idleFd_, next_, assigned, backlog, peers, raced, stolen>>

\* The loop getNextLoop returns, and next_ after it.
NextLoop == IF NumLoops = 0 THEN kBaseLoop ELSE next_
AfterNext == IF NumLoops = 0 THEN next_ ELSE IF next_ + 1 >= NumLoops THEN 0 ELSE next_ + 1

\* accept() returns a descriptor: newConnection.
NewConnection ==
    /\ acceptPc = "handleRead" /\ backlog > 0
    /\ \E f \in Fds : Lowest(f) /\ fds' = [fds EXCEPT ![f] = "conn"]
    /\ backlog' = backlog - 1
    /\ assigned' = [assigned EXCEPT ![NextLoop] = @ + 1]
    /\ next_' = AfterNext
    /\ acceptPc' = "poll"
    /\ UNCHANGED <<idleFd_, peers, raced, stolen>>

\* accept() fails: the peer is gone (EAGAIN), or the table is full, which it
\* finds out first (EMFILE).
AcceptFails ==
    /\ acceptPc = "handleRead"
    /\ Full \/ backlog = 0
    /\ acceptPc' = IF Full THEN "closeIdle" ELSE "poll"
    /\ UNCHANGED <<fds, idleFd_, next_, assigned, backlog, peers, raced, stolen>>

\* Mutation of CloseIdle: the spare descriptor is kept.
CloseIdleKeeps ==
    /\ acceptPc = "closeIdle"
    /\ acceptPc' = "acceptIdle"
    /\ UNCHANGED <<fds, idleFd_, next_, assigned, backlog, peers, raced, stolen>>

\* close(idleFd_), whatever idleFd_ names by now.
CloseIdle ==
    /\ acceptPc = "closeIdle"
    /\ fds' = [f \in Fds |-> IF f = idleFd_ THEN "free" ELSE fds[f]]
    /\ stolen' = (stolen \/ (idleFd_ # Closed /\ fds[idleFd_] # "idle"))
    /\ acceptPc' = "acceptIdle"
    /\ UNCHANGED <<idleFd_, next_, assigned, backlog, peers, raced>>

\* Mutation of AcceptIdle: idleFd_ keeps its value when accept() fails.
AcceptIdleStale ==
    /\ acceptPc = "acceptIdle"
    /\ \/ /\ Full \/ backlog = 0
          /\ UNCHANGED <<idleFd_, fds, backlog>>
       \/ /\ backlog > 0
          /\ \E f \in Fds : /\ Lowest(f)
                            /\ idleFd_' = f
                            /\ fds' = [fds EXCEPT ![f] = "accepted"]
          /\ backlog' = backlog - 1
    /\ acceptPc' = "closeAccepted"
    /\ UNCHANGED <<next_, assigned, peers, raced, stolen>>

\* idleFd_ = accept(...)
AcceptIdle ==
    /\ acceptPc = "acceptIdle"
    /\ \/ /\ Full \/ backlog = 0
          /\ idleFd_' = Closed
          /\ UNCHANGED <<fds, backlog>>
       \/ /\ backlog > 0
          /\ \E f \in Fds : /\ Lowest(f)
                            /\ idleFd_' = f
                            /\ fds' = [fds EXCEPT ![f] = "accepted"]
          /\ backlog' = backlog - 1
    /\ acceptPc' = "closeAccepted"
    /\ UNCHANGED <<next_, assigned, peers, raced, stolen>>

\* close(idleFd_) again: the peer is turned away.
CloseAccepted ==
    /\ acceptPc = "closeAccepted"
    /\ fds' = [f \in Fds |-> IF f = idleFd_ THEN "free" ELSE fds[f]]
    /\ stolen' = (stolen \/ (idleFd_ # Closed /\ fds[idleFd_] # "accepted"))
    /\ acceptPc' = "reopen"
    /\ UNCHANGED <<idleFd_, next_, assigned, backlog, peers, raced>>

\* idleFd_ = open("/dev/null"), which nothing checks any more.
Reopen ==
    /\ acceptPc = "reopen"
    /\ \/ /\ Full
          /\ idleFd_' = Closed
          /\ UNCHANGED fds
       \/ \E f \in Fds : /\ Lowest(f)
                         /\ idleFd_' = f
                         /\ fds' = [fds EXCEPT ![f] = "idle"]
    /\ acceptPc' = "poll"
    /\ UNCHANGED <<next_, assigned, backlog, peers, raced, stolen>>

\* ~TcpServer: ~Acceptor closes the spare descriptor, and with the listening socket
\* goes its backlog.
Destruct ==
    /\ acceptPc \in {"created", "poll"}
    /\ fds' = [f \in Fds |-> IF f = idleFd_ THEN "free" ELSE fds[f]]
    /\ stolen' = (stolen \/ (idleFd_ # Closed /\ fds[idleFd_] # "idle"))
    /\ backlog' = 0
    /\ acceptPc' = "destructed"
    /\ UNCHANGED <<idleFd_, next_, assigned, peers, raced>>

-----------------------------------------------------------------------------
\* A worker opens a file (fopen in responseRequest).
OpenFile ==
    /\ \E f \in Fds : Lowest(f) /\ fds' = [fds EXCEPT ![f] = "file"]
    /\ raced' = (raced \/ acceptPc \in {"acceptIdle", "closeAccepted", "reopen"})
    /\ UNCHANGED <<idleFd_, acceptPc, next_, assigned, backlog, peers, stolen>>

\* A worker closes its file, or a loop destructs a connection.
Release(f) ==
    /\ fds[f] \in {"file", "conn"}
    /\ fds' = [fds EXCEPT ![f] = "free"]
    /\ UNCHANGED <<idleFd_, acceptPc, next_, assigned, backlog, peers, raced, stolen>>

\* A peer connects, or gives up before it is accepted.
PeerConnects ==
    /\ acceptPc \notin {"created", "destructed"} /\ peers < MaxPeers
    /\ peers' = peers + 1 /\ backlog' = backlog + 1
    /\ UNCHANGED <<fds, idleFd_, acceptPc, next_, assigned, raced, stolen>>
PeerGivesUp ==
    /\ backlog > 0
    /\ backlog' = backlog - 1
    /\ UNCHANGED <<fds, idleFd_, acceptPc, next_, assigned, peers, raced, stolen>>

AcceptorHandleRead ==
    NewConnection \/ AcceptFails \/ CloseIdle \/ AcceptIdle \/ CloseAccepted \/ Reopen
BaseLoop == Start \/ ListenReadable \/ AcceptorHandleRead
Others == OpenFile \/ (\E f \in Fds : Release(f)) \/ PeerConnects \/ PeerGivesUp

AcceptorNext == BaseLoop \/ Destruct \/ Others

\* The base loop runs; nothing is assumed of the other threads and the peers.
AcceptorFairness == WF_acceptorVars(BaseLoop)

AcceptorSpec == AcceptorInit /\ [][AcceptorNext]_acceptorVars /\ AcceptorFairness

-----------------------------------------------------------------------------
Uses == {"free", "idle", "accepted", "conn", "file"}
AcceptorPCs == {"created", "poll", "handleRead", "closeIdle", "acceptIdle", "closeAccepted",
                "reopen", "destructed"}

AcceptorTypeOK ==
    /\ fds \in [Fds -> Uses]
    /\ idleFd_ \in Fds \cup {Closed}
    /\ acceptPc \in AcceptorPCs
    /\ next_ \in Nat /\ (next_ < NumLoops \/ next_ = 0) /\ assigned \in [Loops -> Nat]
    /\ backlog \in Nat /\ peers \in Nat
    /\ raced \in BOOLEAN /\ stolen \in BOOLEAN

\* What the descriptor in idleFd_ is open for, if it is open.
SpareUse == CASE acceptPc \in {"acceptIdle", "reopen", "destructed"} -> "none"
              [] acceptPc = "closeAccepted" -> "accepted"
              [] OTHER -> "idle"

\* However other threads take and release descriptors between the system calls of
\* handleRead, the Acceptor only ever closes a descriptor of its own, never one
\* that was closed and given to somebody else meanwhile, and loses track of none:
\* the spare one is open exactly when idleFd_ names it.
OwnDescriptors ==
    /\ AcceptorTypeOK
    /\ ~stolen
    /\ \A f \in Fds : fds[f] \in {"idle", "accepted"} <=> (f = idleFd_ /\ SpareUse # "none")
    /\ idleFd_ # Closed /\ SpareUse # "none" => fds[idleFd_] = SpareUse

\* The server never sits on a waiting peer for want of descriptors: it is accepted,
\* or turned away with the spare descriptor, unless another thread has taken that
\* one while handleRead had given it up.
NobodyWaits == backlog > 0 ~> (backlog = 0 \/ raced)

\* The loops take turns: none is ever given two connections more than another, and
\* the base loop one only when there are no others.
Balanced ==
    /\ \A l, k \in 0..(NumLoops - 1) : assigned[l] <= assigned[k] + 1
    /\ NumLoops > 0 => assigned[kBaseLoop] = 0
=============================================================================
