----------------------------- MODULE ExecuteCgi -----------------------------
(***************************************************************************)
(* cgiServer/parseRequest.cpp: the workers of the CGI server run programs. *)
(* A worker makes two pipes, forks, writes the request's body into the     *)
(* program's standard input and reads its standard output up to the end.   *)
(* The workers are threads of one process, and its descriptors are not     *)
(* closed on exec: a child inherits the ends of all pipes that are open    *)
(* when it is forked, also those of other workers.  The end of a pipe is   *)
(* seen only when every process has closed its write end.                  *)
(*                                                                         *)
(* A system call is a step, and so is a write or read of one unit.  A child *)
(* is what login.cpp, register.cpp and register_check.cpp have in common:  *)
(* without a configuration they print a line and return; otherwise they    *)
(* read the form, then print.  CONTENT_LENGTH is the length of the body,   *)
(* as the web server in front of it sends it.                              *)
(***************************************************************************)
EXTENDS Naturals, FiniteSets, FiniteSetsExt

CONSTANTS CgiWorkers,  \* the threads of the pool
          MaxOpen,     \* descriptors left to the server for pipes
          PipeSize,    \* what a pipe holds
          MaxBody,     \* bounds on a request's body, on what a program prints
          MaxOutput,
          MaxCgi       \* and on the requests

VARIABLES thread,      \* per worker: [pc, body, left, res]; left of the body is to be
                       \* written; res: what it has read of the output
          pipes,       \* per worker: per end of its two pipes, the processes that have it
          data,        \* per worker: what is in its two pipes
          child,       \* per worker: [st, toRead, toWrite, printed] of its child
          leaked,      \* descriptors nobody will close
          failed,      \* history: a call failed after the first pipe was made
          requests,    \* history: requests taken, and those that were answered
          answered

cgiVars == <<thread, pipes, data, child, leaked, failed, requests, answered>>

Server == "server"
Ends == {"outR", "outW", "inR", "inW"}
NoEnds == [e \in Ends |-> {}]
Empty == [out |-> 0, in |-> 0]
NoChild == [st |-> "none", toRead |-> 0, toWrite |-> 0, printed |-> 0]
IdleThread == [pc |-> "idle", body |-> 0, left |-> 0, res |-> 0]

CgiInit ==
    /\ thread = [v \in CgiWorkers |-> IdleThread]
    /\ pipes = [v \in CgiWorkers |-> NoEnds]
    /\ data = [v \in CgiWorkers |-> Empty]
    /\ child = [v \in CgiWorkers |-> NoChild]
    /\ leaked = 0 /\ failed = FALSE /\ requests = 0 /\ answered = 0

\* The server's open descriptors.
Opened == leaked + Cardinality({<<v, e>> \in CgiWorkers \X Ends : Server \in pipes[v][e]})

-----------------------------------------------------------------------------
\* The worker.

\* accept_request: a request that is refused (501, 404, 403, 400) is answered at once.
AcceptRequest(v) ==
    /\ thread[v].pc = "idle" /\ requests < MaxCgi
    /\ requests' = requests + 1
    /\ \/ answered' = answered + 1 /\ UNCHANGED thread
       \/ /\ \E body \in 0..MaxBody :
                thread' = [thread EXCEPT ![v] = [pc |-> "pipeOut", body |-> body, left |-> body, res |-> 0]]
          /\ UNCHANGED answered
    /\ UNCHANGED <<pipes, data, child, leaked, failed>>

\* cannot_execute, with the descriptors it leaves open.
CannotExecute(v) ==
    /\ thread' = [thread EXCEPT ![v] = IdleThread]
    /\ pipes' = [pipes EXCEPT ![v] = NoEnds]
    /\ leaked' = leaked + Cardinality({e \in Ends : Server \in pipes[v][e]})
    /\ failed' = (failed \/ thread[v].pc # "pipeOut")
    /\ answered' = answered + 1
    /\ UNCHANGED <<data, child, requests>>

\* pipe(cgi_output), pipe(cgi_input).
Pipe(v) ==
    /\ thread[v].pc \in {"pipeOut", "pipeIn"}
    /\ IF Opened + 2 > MaxOpen THEN CannotExecute(v)
       ELSE /\ pipes' = IF thread[v].pc = "pipeOut"
                        THEN [pipes EXCEPT ![v] = [NoEnds EXCEPT !["outR"] = {Server}, !["outW"] = {Server}]]
                        ELSE [pipes EXCEPT ![v]["inR"] = {Server}, ![v]["inW"] = {Server}]
            /\ data' = [data EXCEPT ![v] = Empty]
            /\ thread' = [thread EXCEPT ![v].pc = IF @ = "pipeOut" THEN "pipeIn" ELSE "fork"]
            /\ UNCHANGED <<child, leaked, failed, requests, answered>>

\* The child has all the ends the server has.
Fork(v) ==
    /\ thread[v].pc = "fork"
    /\ \/ CannotExecute(v)
       \/ /\ pipes' = [u \in CgiWorkers |-> [e \in Ends |->
                         IF Server \in pipes[u][e] THEN pipes[u][e] \cup {v} ELSE pipes[u][e]]]
          /\ child' = [child EXCEPT ![v] = [NoChild EXCEPT !.st = "forked"]]
          /\ thread' = [thread EXCEPT ![v].pc = "close"]
          /\ UNCHANGED <<data, leaked, failed, requests, answered>>

\* Mutation of CloseEnds: the server keeps the write end of the output.
CloseEndsButOutput(v) ==
    /\ thread[v].pc = "close"
    /\ pipes' = [pipes EXCEPT ![v]["inR"] = @ \ {Server}]
    /\ thread' = [thread EXCEPT ![v].pc = IF thread[v].left > 0 THEN "write" ELSE "read"]
    /\ UNCHANGED <<data, child, leaked, failed, requests, answered>>

\* The ends that are the child's.
CloseEnds(v) ==
    /\ thread[v].pc = "close"
    /\ pipes' = [pipes EXCEPT ![v]["outW"] = @ \ {Server}, ![v]["inR"] = @ \ {Server}]
    /\ thread' = [thread EXCEPT ![v].pc = IF thread[v].left > 0 THEN "write" ELSE "read"]
    /\ UNCHANGED <<data, child, leaked, failed, requests, answered>>

\* write(cgi_input[1]), which waits while the pipe is full and fails when nobody can
\* read it any more: SIGPIPE is ignored and the result too.
WriteBody(v) ==
    /\ thread[v].pc = "write"
    /\ \/ /\ pipes[v]["inR"] = {}
          /\ thread' = [thread EXCEPT ![v].pc = "read"]
          /\ UNCHANGED data
       \/ /\ pipes[v]["inR"] # {} /\ data[v].in < PipeSize
          /\ data' = [data EXCEPT ![v].in = @ + 1]
          /\ thread' = [thread EXCEPT ![v].left = @ - 1, ![v].pc = IF thread[v].left = 1 THEN "read" ELSE @]
    /\ UNCHANGED <<pipes, child, leaked, failed, requests, answered>>

\* read(cgi_output[0]), to the end of the output.
ReadOutput(v) ==
    /\ thread[v].pc = "read"
    /\ \/ /\ data[v].out > 0
          /\ data' = [data EXCEPT ![v].out = @ - 1]
          /\ thread' = [thread EXCEPT ![v].res = @ + 1]
       \/ /\ data[v].out = 0 /\ pipes[v]["outW"] = {}
          /\ thread' = [thread EXCEPT ![v].pc = "respond"]
          /\ UNCHANGED data
    /\ UNCHANGED <<pipes, child, leaked, failed, requests, answered>>

\* respond and send; the other two ends are closed.
RespondOutput(v) ==
    /\ thread[v].pc = "respond"
    /\ answered' = answered + 1
    /\ pipes' = [pipes EXCEPT ![v]["outR"] = @ \ {Server}, ![v]["inW"] = @ \ {Server}]
    /\ thread' = [thread EXCEPT ![v].pc = "waitpid"]
    /\ UNCHANGED <<data, child, leaked, failed, requests>>

Waitpid(v) ==
    /\ thread[v].pc = "waitpid" /\ child[v].st = "exited"
    /\ child' = [child EXCEPT ![v] = NoChild]
    /\ thread' = [thread EXCEPT ![v] = IdleThread]
    /\ UNCHANGED <<pipes, data, leaked, failed, requests, answered>>

\* The worker's steps once it has a request.
Executes(v) ==
    \/ Pipe(v) \/ Fork(v) \/ CloseEnds(v) \/ WriteBody(v) \/ ReadOutput(v)
    \/ RespondOutput(v) \/ Waitpid(v)

-----------------------------------------------------------------------------
\* The child.

\* dup2, close and execl; when that fails, exit(0).  What it inherited of other
\* workers' pipes stays open.
ChildStarts(v) ==
    /\ child[v].st = "forked"
    /\ pipes' = [pipes EXCEPT ![v]["outR"] = @ \ {v}, ![v]["inW"] = @ \ {v}]
    /\ \/ child' = [child EXCEPT ![v].st = "exits"]
       \/ child' = [child EXCEPT ![v].st = "init"]
    /\ UNCHANGED <<thread, data, leaked, failed, requests, answered>>

\* main: no configuration, or the form is to be read.
ChildInit(v) ==
    /\ child[v].st = "init"
    /\ \/ child' = [child EXCEPT ![v].st = "prints", ![v].toWrite = 1]
       \/ child' = [child EXCEPT ![v].st = "reads", ![v].toRead = thread[v].body]
    /\ UNCHANGED <<thread, pipes, data, leaked, failed, requests, answered>>

\* Cgicc reads CONTENT_LENGTH bytes, or up to the end; then the query and its page.
ChildReads(v) ==
    /\ child[v].st = "reads"
    /\ \/ /\ child[v].toRead > 0 /\ data[v].in > 0
          /\ data' = [data EXCEPT ![v].in = @ - 1]
          /\ child' = [child EXCEPT ![v].toRead = @ - 1]
       \/ /\ child[v].toRead = 0 \/ (data[v].in = 0 /\ pipes[v]["inW"] = {})
          /\ \E n \in 0..MaxOutput : child' = [child EXCEPT ![v].st = "prints", ![v].toWrite = n]
          /\ UNCHANGED data
    /\ UNCHANGED <<thread, pipes, leaked, failed, requests, answered>>

ChildPrints(v) ==
    /\ child[v].st = "prints"
    /\ \/ /\ child[v].toWrite > 0 /\ data[v].out < PipeSize
          /\ data' = [data EXCEPT ![v].out = @ + 1]
          /\ child' = [child EXCEPT ![v].toWrite = @ - 1, ![v].printed = @ + 1]
       \/ /\ child[v].toWrite = 0
          /\ child' = [child EXCEPT ![v].st = "exits"]
          /\ UNCHANGED data
    /\ UNCHANGED <<thread, pipes, leaked, failed, requests, answered>>

\* All its descriptors are closed.
ChildExits(v) ==
    /\ child[v].st = "exits"
    /\ child' = [child EXCEPT ![v].st = "exited"]
    /\ pipes' = [u \in CgiWorkers |-> [e \in Ends |-> pipes[u][e] \ {v}]]
    /\ UNCHANGED <<thread, data, leaked, failed, requests, answered>>

ChildSteps(v) == ChildStarts(v) \/ ChildInit(v) \/ ChildReads(v) \/ ChildPrints(v) \/ ChildExits(v)

CgiNext == \E v \in CgiWorkers : AcceptRequest(v) \/ Executes(v) \/ ChildSteps(v)

\* The threads and the programs are scheduled.
CgiFairness == \A v \in CgiWorkers : WF_cgiVars(Executes(v)) /\ WF_cgiVars(ChildSteps(v))

CgiSpec == CgiInit /\ [][CgiNext]_cgiVars /\ CgiFairness

-----------------------------------------------------------------------------
\* A worker answers with all its program has printed, after it has ended; each request
\* is answered once; and when no request is at work there is no child left and no
\* descriptor, except those a failed pipe() or fork() has left behind.
CgiAccounts ==
    /\ Opened <= MaxOpen
    /\ \A v \in CgiWorkers : thread[v].pc = "respond" =>
            child[v].st = "exited" /\ thread[v].res = child[v].printed
    /\ requests = answered + Cardinality({v \in CgiWorkers : thread[v].pc \notin {"idle", "waitpid"}})
    /\ (\A v \in CgiWorkers : thread[v].pc = "idle") =>
            /\ \A v \in CgiWorkers : child[v] = NoChild
            /\ Opened = leaked /\ (leaked > 0 => failed)

\* Whatever ends the children of other workers inherit, and whether a program reads its
\* input or not, no worker waits in write, read or waitpid for ever.
CgiEnds ==
    /\ []CgiAccounts
    /\ \A v \in CgiWorkers : (thread[v].pc # "idle") ~> (thread[v].pc = "idle")
=============================================================================
