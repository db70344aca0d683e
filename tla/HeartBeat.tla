----------------------------- MODULE HeartBeat ------------------------------
(***************************************************************************)
(* The heartbeats: the web server (webServer/start_up.cpp) or the CGI      *)
(* server (cgiServer/start_up.cpp) lets its loops, in turn, and a worker   *)
(* send its identity to the monitor (monitor/heartBeatMonitor.cpp), which  *)
(* displays who is ON and who is OFF.                                      *)
(*                                                                         *)
(* Time is in seconds and passes when nothing is due.  The timers are the  *)
(* base loop's, loop 0; a loop or the worker may hang for a while, and the *)
(* process may die.  The identity that is sent over connection n is n; one *)
(* that is torn by the race on g_heartBeat_identification, or made of two  *)
(* that were read at once, is Ghost.                                       *)
(***************************************************************************)
EXTENDS Naturals, Sequences

CONSTANTS Frequency,  \* g_heartBeat_frequency
          NumLoops,   \* loops in loopVector
          Limit,      \* 10 + 2: OFF after so many seconds
          Period,     \* of displayStatus
          MaxDelay,   \* of a heartbeat on its way
          MaxConns,   \* bound on the connections made
          MaxHangs,   \* bound on the hangs
          MaxTold     \* bound on the heartbeats an actor that hangs has to send

Worker == NumLoops
Actors == 0..NumLoops
Conns == 1..MaxConns
None == 0
Ghost == MaxConns + 1

VARIABLES program,  \* "webServer" or "cgiServer"
          sender,   \* count, loopDue and workDue (seconds to its timers), the heartbeats
                    \* each actor has been told to send, who hangs
          conn,     \* connections made; the last one is g_conn
          up,       \* it is up
          identity, \* g_heartBeat_identification
          wire,     \* heartbeats on their way: identity and age
          identityMap, map, since, \* of the monitor; since is the time since timeMap
          showDue,
          hangs, dead, \* history: hangs, the process has died
          ghosts,   \* history: an identity was read that is not the connection's
          well      \* history: for how long what follows has held

senderVars == <<program, sender, conn, up, identity>>
monitorVars == <<identityMap, map, since, showDue>>
history == <<hangs, dead, ghosts, well>>
heartVars == <<senderVars, wire, monitorVars, history>>

Least(a, b) == IF a < b THEN a ELSE b

HeartInit ==
    /\ program \in {"webServer", "cgiServer"}
    /\ sender = [count |-> 0, loopDue |-> 2 * Frequency, workDue |-> 3 * Frequency,
            told |-> [a \in Actors |-> 0], hung |-> {}]
    /\ conn = 0 /\ up = FALSE /\ identity = None
    /\ wire = << >>
    /\ identityMap = [c \in Conns |-> None]
    /\ map = [c \in Conns |-> "none"] /\ since = [c \in Conns |-> 0]
    /\ showDue \in 1..Period
    /\ hangs = 0 /\ dead = FALSE /\ ghosts = FALSE
    /\ well = [worker |-> 0, loops |-> 0, dead |-> 0]

Runs(a) == ~dead /\ a \notin sender.hung
BaseRuns == Runs(0)

-----------------------------------------------------------------------------
\* The sender.

\* count = (count++) % N of the CGI server leaves the count as it is; the web server's
\* loops take turns.
CountAfter(count) == IF program = "cgiServer" THEN count ELSE (count + 1) % NumLoops

LoopSendHeartBeat ==
    /\ BaseRuns /\ sender.loopDue = 0 /\ sender.told[sender.count] < MaxTold
    /\ sender' = [sender EXCEPT !.told[sender.count] = @ + 1, !.loopDue = 2 * Frequency,
                                !.count = CountAfter(@)]
    /\ UNCHANGED <<program, conn, up, identity, wire, monitorVars, history>>

\* workerThreadSendHeartBeat and threadSendHeartBeat: the timer puts a task into the pool.
WorkerSendHeartBeat ==
    /\ BaseRuns /\ sender.workDue = 0 /\ sender.told[Worker] < MaxTold
    /\ sender' = [sender EXCEPT !.told[Worker] = @ + 1, !.workDue = 2 * Frequency]
    /\ UNCHANGED <<program, conn, up, identity, wire, monitorVars, history>>

\* What another thread reads of g_heartBeat_identification while the base loop may be
\* assigning it.
Identities(a) == IF identity = conn \/ a = 0 THEN {identity} ELSE {identity, conn, Ghost}

\* SendHeartBeatInLoop, SendHeartBeatInWorkThread and sendHeartBeat.  The output goes
\* through the base loop, the connection's.
SendHeartBeat(a) ==
    /\ Runs(a) /\ BaseRuns /\ sender.told[a] > 0
    /\ sender' = [sender EXCEPT !.told[a] = @ - 1]
    /\ IF up THEN \E i \in Identities(a) : wire' = Append(wire, [identity |-> i, age |-> 0])
       ELSE UNCHANGED wire
    /\ UNCHANGED <<program, conn, up, identity, monitorVars, history>>

\* onConnectionHeartBeat and onConnection, up: first g_conn ...
Connected ==
    /\ BaseRuns /\ ~up /\ conn < MaxConns
    /\ conn' = conn + 1 /\ up' = TRUE
    /\ UNCHANGED <<program, sender, identity, wire, monitorVars, history>>

\* ... then the identification.
Identified ==
    /\ BaseRuns /\ up /\ identity # conn
    /\ identity' = conn
    /\ UNCHANGED <<program, sender, conn, up, wire, monitorVars, history>>

\* Down; what is on its way is lost.  (TcpClient has how it connects again.)
Disconnected ==
    /\ BaseRuns /\ up /\ identity = conn
    /\ up' = FALSE /\ wire' = << >>
    /\ well' = [well EXCEPT !.worker = 0, !.loops = 0]
    /\ UNCHANGED <<program, sender, conn, identity, monitorVars, hangs, dead, ghosts>>

Hang(a) ==
    /\ Runs(a) /\ hangs < MaxHangs
    /\ sender' = [sender EXCEPT !.hung = @ \cup {a}]
    /\ hangs' = hangs + 1
    /\ well' = [well EXCEPT !.worker = IF a \in {0, Worker} THEN 0 ELSE @,
                            !.loops = IF a = Worker THEN @ ELSE 0]
    /\ UNCHANGED <<program, conn, up, identity, wire, monitorVars, dead, ghosts>>

Recover(a) ==
    /\ ~dead /\ a \in sender.hung
    /\ sender' = [sender EXCEPT !.hung = @ \ {a}]
    /\ UNCHANGED <<program, conn, up, identity, wire, monitorVars, history>>

Die ==
    /\ ~dead
    /\ dead' = TRUE /\ up' = FALSE
    /\ well' = [well EXCEPT !.worker = 0, !.loops = 0]
    /\ UNCHANGED <<program, sender, conn, identity, wire, monitorVars, hangs, ghosts>>

-----------------------------------------------------------------------------
\* The monitor.

\* onMessage: whatever a read finds, k heartbeats at once, is an identity.
OnMessage(k) ==
    LET read == IF k = 1 THEN wire[1].identity ELSE Ghost IN
    /\ k \in 1..Len(wire)
    /\ wire' = SubSeq(wire, k + 1, Len(wire))
    /\ identityMap' = [identityMap EXCEPT ![conn] = read]
    /\ map' = [c \in Conns |-> IF c = read THEN "ON" ELSE map[c]]
    /\ since' = [c \in Conns |-> IF c = read THEN 0 ELSE since[c]]
    /\ ghosts' = (ghosts \/ read # conn)
    /\ UNCHANGED <<senderVars, showDue, hangs, dead, well>>

\* Mutation of DisplayStatus: the connections that are down are skipped.
DisplayStatusOfOpen ==
    /\ showDue = 0
    /\ showDue' = Period
    /\ map' = [c \in Conns |->
                IF up /\ c = identityMap[conn] /\ since[c] >= Limit THEN "OFF" ELSE map[c]]
    /\ UNCHANGED <<senderVars, wire, identityMap, since, history>>

\* displayStatus: of every connection there ever was, the identity it sent last.
DisplayStatus ==
    /\ showDue = 0
    /\ showDue' = Period
    /\ map' = [c \in Conns |->
                IF (\E n \in 1..conn : identityMap[n] = c) /\ since[c] >= Limit THEN "OFF" ELSE map[c]]
    /\ UNCHANGED <<senderVars, wire, identityMap, since, history>>

-----------------------------------------------------------------------------
\* Nothing is due: no timer of a loop that runs, no heartbeat to be sent, received or
\* identified, no display.  A behaviour is followed up to the first Ghost.
Idle ==
    /\ showDue > 0 /\ ~ghosts
    /\ BaseRuns => /\ sender.loopDue > 0 /\ sender.workDue > 0
                   /\ up => identity = conn
                   /\ \A a \in Actors : Runs(a) => sender.told[a] = 0
    /\ \A i \in DOMAIN wire : wire[i].age < MaxDelay

\* What the last heartbeats show of the sender's health: the worker's, or those of all
\* the loops that take turns.
MaxWell == 2 * Frequency + MaxDelay + 1
MaxDead == MaxDelay + Limit + Period

Second ==
    LET Less(n) == IF n > 0 THEN n - 1 ELSE 0
        More(n, holds, max) == IF holds THEN Least(n + 1, max) ELSE 0
        turns == IF program = "webServer" THEN 0..(NumLoops - 1) ELSE {0}
    IN
    /\ Idle
    /\ sender' = [sender EXCEPT !.loopDue = Less(@), !.workDue = Less(@)]
    /\ wire' = [i \in DOMAIN wire |-> [wire[i] EXCEPT !.age = @ + 1]]
    /\ since' = [c \in Conns |-> Least(since[c] + 1, Limit)]
    /\ showDue' = showDue - 1
    /\ well' = [worker |-> More(well.worker, up /\ Runs(0) /\ Runs(Worker), MaxWell),
                loops |-> More(well.loops, up /\ \A a \in turns : Runs(a), MaxWell),
                dead |-> More(well.dead, dead, MaxDead)]
    /\ UNCHANGED <<program, conn, up, identity, identityMap, map, hangs, dead, ghosts>>

HeartNext ==
    \/ LoopSendHeartBeat \/ WorkerSendHeartBeat
    \/ \E a \in Actors : SendHeartBeat(a) \/ Hang(a) \/ Recover(a)
    \/ Connected \/ Identified \/ Disconnected \/ Die
    \/ \E k \in 1..Len(wire) : OnMessage(k)
    \/ DisplayStatus
    \/ Second

HeartSpec == HeartInit /\ [][HeartNext]_heartVars

-----------------------------------------------------------------------------
\* What the monitor displays is true, as long as every read finds one heartbeat.  A
\* process that is connected, and whose worker or whose loops have not hung for two
\* periods of Frequency, is ON, although either half of its heartbeats alone leaves a gap
\* of 10 of the 12 seconds.  A process that has died is displayed OFF at the latest
\* Limit + Period seconds after its last heartbeat, under each identity it ever had.
\* (Two heartbeats that are read at once make an identity of their own: the process's may
\* then be displayed OFF while it lives, and the other one stay ON for ever.)
StatusTrue ==
    ~ghosts =>
        /\ well.worker = MaxWell \/ well.loops = MaxWell => map[conn] = "ON"
        /\ well.dead = MaxDead => \A c \in Conns : map[c] # "ON"
=============================================================================
