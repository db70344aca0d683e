------------------------------ MODULE TcpEnds -------------------------------
(***************************************************************************)
(* The two ends of a TCP connection, the client that connects (module      *)
(* TcpClient) and the TcpServer that accepts (module Acceptor), and what   *)
(* lies behind the CGI server's end, the programs its workers run (module  *)
(* ExecuteCgi).  They are programs that share nothing but connections and  *)
(* pipes.  What one end does to the other, to be reachable or not, to      *)
(* accept or to turn away, to close, is a free choice of the other's       *)
(* model, so that each is checked on its own.                              *)
(***************************************************************************)
EXTENDS Acceptor, Sequences

CONSTANTS InitDelay, MaxDelay, MaxConns,
          CgiWorkers, MaxOpen, PipeSize, MaxBody, MaxOutput, MaxCgi

VARIABLES program,
          c, alive, hack, client, connection_, conns, g_conn, stopped, shared, sender, phase,
          active, pending, batch, monitor, fail,
          thread, pipes, data, child, leaked, failed, requests, answered

C == INSTANCE TcpClient
G == INSTANCE ExecuteCgi

clientVars == <<c, alive, hack, client, connection_, conns, g_conn, stopped, shared, sender,
                phase, active, pending, batch, monitor, fail>>
cgiVars == <<thread, pipes, data, child, leaked, failed, requests, answered>>
allVars == <<program, acceptorVars, clientVars, cgiVars>>

Client == program = "client" /\ UNCHANGED <<program, acceptorVars, cgiVars>>
Server == program = "server" /\ UNCHANGED <<program, clientVars, cgiVars>>
Cgi == program = "cgi" /\ UNCHANGED <<program, acceptorVars, clientVars>>

\* In the behaviours of one program the others stand still, the client in the state in
\* which it has given up.
EndsInit ==
    /\ program \in {"client", "server", "cgi"}
    /\ AcceptorInit /\ C!Init /\ G!CgiInit
    /\ program # "client" => monitor /\ c.gaveUp

EndsNext ==
    \/ Client /\ C!Next
    \/ Server /\ AcceptorNext
    \/ Cgi /\ G!CgiNext

\* The fairness of the programs (see their modules).
EndsFairness ==
    /\ WF_allVars(Server /\ BaseLoop)
    /\ WF_allVars(Client /\ C!LoopStep)
    /\ WF_allVars(Client /\ C!SenderLocks) /\ WF_allVars(Client /\ C!SenderDone)
    /\ WF_allVars(Client /\ pending # << >> /\ \E events \in SUBSET C!Ready : C!Poll(events))
    /\ SF_allVars(Client /\ \E events \in SUBSET C!Ready : "retry" \in events /\ C!Poll(events))
    /\ SF_allVars(Client /\ \E events \in SUBSET C!Ready : "connector" \in events /\ C!Poll(events))
    /\ \A v \in CgiWorkers :
        WF_allVars(Cgi /\ G!Executes(v)) /\ WF_allVars(Cgi /\ G!ChildSteps(v))

EndsSpec == EndsInit /\ [][EndsNext]_allVars /\ EndsFairness

-----------------------------------------------------------------------------
\* The client's Connector has at most one attempt, retry timer or connection at a
\* time, and leaks no socket; the client's connections are freed only after
\* connectDestroyed.
ClientOwnsOne == C!OneAttempt /\ C!FreedAfterDestroyed

\* The client connects again while the monitor is reachable.
Reconnects == C!Reconnects

\* After the client's stop() its connection is destroyed and none comes back.
StopEnds == C!StopEnds

\* Nobody waits for ever at the server's end: no peer in the backlog of a full server,
\* and no request for a worker that waits for a program; each is answered with what its
\* program has printed, and leaves no child and, if no call failed, no descriptor behind.
NobodyHangs == NobodyWaits /\ G!CgiEnds
=============================================================================
