--------------------------- MODULE MessageCodecs ----------------------------
(***************************************************************************)
(* A connection whose messageCallback_ is one of the two that parse a      *)
(* stream of bytes incrementally out of the connection's input Buffer, the *)
(* FastCgiCodec of the CGI server or the HttpServer's, with small sets of  *)
(* requests for both; or the one that takes what a read finds for a        *)
(* message, the heartbeat monitor's.                                       *)
(***************************************************************************)
EXTENDS FastCgi

CONSTANTS Frequency, NumLoops, Limit, Period, MaxDelay, MaxConns, MaxHangs, MaxTold

VARIABLES messageCallback_, context, sent, handled, replies, merged, abort,
          program, sender, conn, up, identity, wire, identityMap, map, since, showDue,
          hangs, dead, ghosts, well

codecVars == <<codec, tasks, count, request, got, answers, output>>
httpVars == <<context, sent, handled, replies, merged, abort>>
heartVars == <<program, sender, conn, up, identity, wire, identityMap, map, since, showDue,
               hangs, dead, ghosts, well>>

\* FastCGI requests with and without parameters and standard input, in short and
\* long encodings, padded or not.
Request(keep, params, long, stdin, padding) ==
    [keep |-> keep, params |-> params, long |-> long, stdin |-> stdin, padding |-> padding]

MCRequests ==
    { Request(1, << >>, FALSE, << >>, 0),
      Request(1, << <<<<7>>, <<8>>>>, <<<<6>>, << >>>> >>, FALSE, <<7>>, 1),
      Request(1, << <<<<7>>, <<8>>>> >>, TRUE, << >>, 0),
      Request(0, << <<<<7>>, << >>>> >>, FALSE, <<7, 8>>, 0) }

MCOutputs == {[i \in 1..n |-> i] : n \in 0..5}

\* The lines of HTTP requests.
RequestLine(method, target, version) == [words |-> <<method, target, version>>]
Header(field, before, value, after) ==
    [words |-> <<field, << "" >>>>, field |-> field, before |-> before, value |-> value, after |-> after]

MCTexts ==
    << [words |-> << >>], [words |-> << >>],
       RequestLine("GET", << "/a" >>, "HTTP/1.1"),
       RequestLine("POST", << "/b", "?q" >>, "HTTP/1.0"),
       RequestLine("GET", << "/a" >>, "HTTP/2.0"),
       Header("Connection", 1, << "Keep-Alive" >>, 0),
       Header("Connection", 0, << "close" >>, 2),
       Header("Host", 1, << "x", " ", "y" >>, 1) >>

MCHttpRequests == { <<3>>, <<3, 8>>, <<4, 6, 8>>, <<3, 6, 7>>, <<5, 8>> }
MaxHttp == 2

H == INSTANCE Http WITH Texts <- MCTexts, HttpRequests <- MCHttpRequests

M == INSTANCE HeartBeat

\* The callbacks that a behaviour is not about stand still.
CodecsInit ==
    /\ messageCallback_ \in {"FastCgiCodec", "HttpServer", "HeartBeatMonitor"}
    /\ Init /\ H!Init /\ M!HeartInit
    /\ messageCallback_ # "FastCgiCodec" => request = Request(1, << >>, FALSE, << >>, 0)
    /\ messageCallback_ # "HeartBeatMonitor" => program = "webServer" /\ showDue = Period

CodecsNext ==
    \/ /\ messageCallback_ = "FastCgiCodec" /\ Next
       /\ UNCHANGED <<messageCallback_, httpVars, heartVars>>
    \/ /\ messageCallback_ = "HttpServer" /\ H!Next
       /\ UNCHANGED <<messageCallback_, codecVars, heartVars>>
    \/ /\ messageCallback_ = "HeartBeatMonitor" /\ M!HeartNext
       /\ UNCHANGED <<messageCallback_, vars, httpVars>>

CodecsSpec == CodecsInit /\ [][CodecsNext]_<<vars, messageCallback_, httpVars, heartVars>>

-----------------------------------------------------------------------------
\* However the reads cut the stream, the FastCgiCodec hands over each request once and
\* as it was sent, and what it answers is read back by the web server as the program
\* printed it.
FastCgiExchange == DecodesAsSent /\ ResponsesDecode

\* However the reads cut the stream, the HttpServer hands over the requests as they were
\* sent, and the client can tell where each of its responses ends.
HttpExchange == H!HttpDecodes /\ H!HttpFramed

\* The monitor shows a process ON while it sends and OFF soon after it has died, as long
\* as every read finds one heartbeat.
StatusTrue == M!StatusTrue
=============================================================================
