-------------------------- MODULE MCTcpConnection ---------------------------
(***************************************************************************)
(* The ways the programs of the repository use a connection.               *)
(***************************************************************************)
EXTENDS TcpConnection

CONSTANTS m1, m2

Usage(workerOps, loopOps, mayDie, messages, functorBound) ==
    [worker |-> workerOps, loop |-> loopOps, serverMayDie |-> mayDie,
     messages |-> messages, functors |-> functorBound]

\* Callbacks in the IO loop close the connection in every way, workers only send.
FromLoop ==
    Usage({"send"}, {"send", "shutdown", "forceClose", "forceCloseWithDelay"}, FALSE,
          {m1, m2}, 4)

\* Reading and writing are switched, and the server may be destructed.
Switching ==
    Usage({"send", "stopWrite"},
          {"send", "shutdown", "forceClose", "stopWrite", "startWrite", "stopRead",
           "startRead"}, TRUE, {m1}, 2)

\* Everything is done in the IO loop, as in the HTTP library.
LoopAlone ==
    Usage({}, {"send", "shutdown", "forceClose", "forceCloseWithDelay", "stopWrite",
               "startWrite", "stopRead", "startRead"}, TRUE, {m1}, 3)

\* The web server: workers close (requestParser.cpp), and so do its limit on
\* connections and the end of a file in the IO loop (staticServer.cpp).
FromWorker ==
    Usage({"send", "shutdown", "forceClose", "forceCloseWithDelay"},
          {"forceClose", "shutdown"}, FALSE, {m1}, 2)

LoopUsages == {FromLoop, Switching, LoopAlone}
WebServerUsage == {FromWorker}
=============================================================================
