------------------------------ MODULE FastCgi -------------------------------
(***************************************************************************)
(* cgiServer/fastcgi.cpp, fastcgi.h and cgiserver.cpp: the FastCGI codec   *)
(* of one connection from the web server, over the connection's input      *)
(* Buffer, and the worker thread that answers.                             *)
(*                                                                         *)
(* Requests arrive as bytes, cut into reads at any place.  A record header *)
(* is the three fields the code looks at (type, length, padding), one byte *)
(* each; the 0x80 bit of a length byte is LongBit and a long length has    *)
(* two bytes.  The next request is sent after the response to the one      *)
(* before ("there is no concurrent requests of one connection").           *)
(***************************************************************************)
EXTENDS Buffer, FiniteSets, SequencesExt

CONSTANTS MaxLength,    \* FCGI_MAX_LENGTH
          PadTo,        \* the 8 of "& 7"
          LongBit,
          Requests,     \* what may be sent: see Encode
          Outputs,      \* what the CGI programs may print
          MaxRequests   \* bound on the requests of the connection

ASSUME CgiAssumption ==
    MaxLength \in Nat \ {0} /\ PadTo \in Nat \ {0} /\ LongBit \in Nat /\ MaxRequests \in Nat

kRecordHeader == 3
Begin == 1
End == 3
Params == 4
Stdin == 5
Stdout == 6
Data == 8
Responder == 1
KeepConn == 1

VARIABLES stream,     \* bytes sent and not yet read
          inputBuffer_,
          codec,      \* the FastCgiCodec
          phase,      \* of the loop: "poll" or, in onMessage, "parse"
          state_,     \* of the connection: "kConnected" or "kDisconnecting"
          tasks,      \* the number of requests put to the thread pool
          count,      \* requests sent so far
          request,    \* the request last sent
          got,        \* history: of it, what was handed to the callback
          answers,    \* history: what the CGI program printed for it, and whether that
                      \* was sent
          output      \* the bytes sent to the web server in answer

vars == <<stream, inputBuffer_, codec, phase, state_, tasks, count, request, got, answers, output>>

-----------------------------------------------------------------------------
\* The web server's side (external): a request is its keep-connection flag, its
\* parameters (pairs of names and values), whether their lengths are written long,
\* its standard input, and the padding of its records.

Record(type, content, padding) == <<type, Len(content), padding>> \o content \o Zeros(padding)

Length(n, long) == IF long THEN <<LongBit, n>> ELSE <<n>>
Pair(p, long) == Length(Len(p[1]), long) \o Length(Len(p[2]), long) \o p[1] \o p[2]

\* Content in records of one byte and the rest, and the empty record that ends it.
Content2(type, bytes, padding) ==
    (IF bytes = << >> THEN << >>
     ELSE Record(type, SubSeq(bytes, 1, 1), padding)
          \o IF Len(bytes) = 1 THEN << >> ELSE Record(type, SubSeq(bytes, 2, Len(bytes)), padding))
    \o Record(type, << >>, 0)

Encode(q) ==
    Record(Begin, <<Responder, q.keep, 0>>, q.padding)
    \o Content2(Params, FlattenSeq([i \in DOMAIN q.params |-> Pair(q.params[i], q.long)]), q.padding)
    \o Record(Data, << >>, q.padding)
    \o Content2(Stdin, q.stdin, q.padding)

\* The parameters as a map.
ParamMap(pairs) ==
    [name \in {pairs[i][1] : i \in DOMAIN pairs} |->
        pairs[CHOOSE i \in DOMAIN pairs : pairs[i][1] = name
                                         /\ \A j \in DOMAIN pairs : pairs[j][1] = name => j <= i][2]]
Meaning(q) == [params |-> ParamMap(q.params), stdin |-> q.stdin]

\* The records of a byte sequence, and the standard output they carry.
RECURSIVE Records(_)
Records(s) ==
    IF Len(s) < kRecordHeader \/ Len(s) < kRecordHeader + s[2] + s[3] THEN << >>
    ELSE LET total == kRecordHeader + s[2] + s[3] IN
         << [type |-> s[1], content |-> SubSeq(s, kRecordHeader + 1, kRecordHeader + s[2]),
             total |-> total] >> \o Records(SubSeq(s, total + 1, Len(s)))

-----------------------------------------------------------------------------
\* The codec.

NewCodec == [gotRequest_ |-> FALSE, keepConn_ |-> FALSE, stdin_ |-> << >>,
             paramsStream_ |-> << >>, params_ |-> << >>]

\* readLen: the length and what follows it, or a failure.
Failure == [ok |-> FALSE, len |-> 0, rest |-> << >>]
ReadLen(s) ==
    CASE s = << >> -> Failure
      [] s # << >> /\ s[1] < LongBit -> [ok |-> TRUE, len |-> s[1], rest |-> Tail(s)]
      [] s # << >> /\ s[1] >= LongBit /\ Len(s) < 2 -> Failure
      [] OTHER -> [ok |-> TRUE, len |-> (s[1] - LongBit) * LongBit + s[2], rest |-> SubSeq(s, 3, Len(s))]

\* parseAllParams: the pairs read, up to the first that is cut short.
RECURSIVE ParseAllParams(_)
ParseAllParams(s) ==
    LET n == ReadLen(s)
        v == ReadLen(n.rest)
    IN IF ~n.ok \/ ~v.ok \/ Len(v.rest) < n.len + v.len THEN << >>
       ELSE << <<SubSeq(v.rest, 1, n.len), SubSeq(v.rest, n.len + 1, n.len + v.len)>> >>
            \o ParseAllParams(SubSeq(v.rest, n.len + v.len + 1, Len(v.rest)))

OnBeginRequest(k, content) ==
    IF Len(content) >= kRecordHeader /\ content[1] = Responder
    THEN [k EXCEPT !.keepConn_ = (content[2] = KeepConn)] ELSE k

\* onParams; parseAllParams leaves nothing in the stream of a well-formed request.
OnParams(k, content) ==
    IF content # << >> THEN [k EXCEPT !.paramsStream_ = @ \o content]
    ELSE [k EXCEPT !.params_ = @ \o ParseAllParams(k.paramsStream_), !.paramsStream_ = << >>]

OnStdin(k, content) ==
    IF content # << >> THEN [k EXCEPT !.stdin_ = @ \o content] ELSE [k EXCEPT !.gotRequest_ = TRUE]

\* respond: what it appends to the response, for the output of a program.
EmptyResult == <<9>>
Padded(content) == Record(Stdout, content, (0 - Len(content)) % PadTo)

\* Mutation of Respond: the rest of a long output is not sent.
RespondWithoutRest(out) ==
    LET o == IF out = << >> THEN EmptyResult ELSE out
        full == Len(o) \div MaxLength
        Part(i) == SubSeq(o, i * MaxLength + 1, (i + 1) * MaxLength)
    IN (IF Len(o) <= MaxLength THEN Padded(o)
        ELSE FlattenSeq([i \in 1..full |-> Padded(Part(i - 1))]))
       \o Record(Stdout, << >>, 0) \o Record(End, Zeros(kRecordHeader), 0)

Respond(out) ==
    LET o == IF out = << >> THEN EmptyResult ELSE out
        full == Len(o) \div MaxLength
        Part(i) == SubSeq(o, i * MaxLength + 1, (i + 1) * MaxLength)
    IN (IF Len(o) <= MaxLength THEN Padded(o)
        ELSE FlattenSeq([i \in 1..full |-> Padded(Part(i - 1))])
             \o IF Len(o) % MaxLength = 0 THEN << >>
                ELSE Padded(SubSeq(o, full * MaxLength + 1, Len(o))))
       \o Record(Stdout, << >>, 0) \o Record(End, Zeros(kRecordHeader), 0)

-----------------------------------------------------------------------------
Init ==
    /\ stream = << >> /\ inputBuffer_ = NewBuffer /\ codec = NewCodec
    /\ phase = "poll" /\ state_ = "kConnected"
    /\ tasks = 0
    /\ count = 0 /\ request \in Requests
    /\ got = << >> /\ answers = << >> /\ output = << >>

\* The web server sends a request, when the one before has been answered.
SendRequest(q) ==
    /\ count < MaxRequests /\ state_ = "kConnected"
    /\ IF count = 0 THEN q = request ELSE Len(answers) = 1
    /\ count' = count + 1 /\ request' = q
    /\ stream' = Encode(q)
    /\ got' = << >> /\ answers' = << >> /\ output' = << >>
    /\ UNCHANGED <<inputBuffer_, codec, phase, state_, tasks>>

\* handleRead: some of the bytes, then onMessage.
HandleRead(n) ==
    /\ phase = "poll" /\ n \in Readable(inputBuffer_, Len(stream))
    /\ inputBuffer_' = ReadFd(inputBuffer_, SubSeq(stream, 1, n))
    /\ stream' = SubSeq(stream, n + 1, Len(stream))
    /\ phase' = "parse"
    /\ UNCHANGED <<codec, state_, tasks, count, request, got, answers, output>>

Available == Content(inputBuffer_)

\* The first record in the buffer is complete.
HasRecord ==
    /\ Len(Available) >= kRecordHeader
    /\ Len(Available) >= kRecordHeader + Available[2] + Available[3]

\* One turn of the loop of parseRequest.
ParseRecord ==
    LET type == Available[1]
        content == SubSeq(Available, kRecordHeader + 1, kRecordHeader + Available[2])
        total == kRecordHeader + Available[2] + Available[3]
    IN
    /\ phase = "parse" /\ HasRecord
    /\ codec' = CASE type = Begin -> OnBeginRequest(codec, content)
                  [] type = Params -> OnParams(codec, content)
                  [] type = Stdin -> OnStdin(codec, content)
                  [] OTHER -> codec
    /\ inputBuffer_' = Retrieve(inputBuffer_, total)
    /\ UNCHANGED <<stream, phase, state_, tasks, count, request, got, answers, output>>

\* Mutation of EndMessage: the standard input stays for the next request.
EndMessageKeepsStdin ==
    /\ phase = "parse" /\ ~HasRecord
    /\ phase' = "poll"
    /\ IF codec.gotRequest_
       THEN /\ got' = Append(got, [params |-> ParamMap(codec.params_), stdin |-> codec.stdin_])
            /\ tasks' = tasks + 1
            /\ codec' = [NewCodec EXCEPT !.keepConn_ = codec.keepConn_, !.stdin_ = codec.stdin_]
            /\ state_' = IF codec.keepConn_ THEN state_ ELSE "kDisconnecting"
       ELSE UNCHANGED <<got, tasks, codec, state_>>
    /\ UNCHANGED <<stream, inputBuffer_, count, request, answers, output>>

\* The rest of onMessage: the callback puts a task to the thread pool, the codec is
\* made ready for the next request, and without KEEP_CONN the connection is shut
\* down.
EndMessage ==
    /\ phase = "parse" /\ ~HasRecord
    /\ phase' = "poll"
    /\ IF codec.gotRequest_
       THEN /\ got' = Append(got, [params |-> ParamMap(codec.params_), stdin |-> codec.stdin_])
            /\ tasks' = tasks + 1
            /\ codec' = [NewCodec EXCEPT !.keepConn_ = codec.keepConn_]
            /\ state_' = IF codec.keepConn_ THEN state_ ELSE "kDisconnecting"
       ELSE UNCHANGED <<got, tasks, codec, state_>>
    /\ UNCHANGED <<stream, inputBuffer_, count, request, answers, output>>

\* processCgi in a worker: run the program, respond, and send unless the connection
\* is no longer kConnected.
ProcessCgi(out) ==
    /\ tasks > 0
    /\ tasks' = tasks - 1
    /\ output' = IF state_ = "kConnected" THEN output \o Respond(out) ELSE output
    /\ answers' = Append(answers, [out |-> out, sent |-> state_ = "kConnected"])
    /\ UNCHANGED <<stream, inputBuffer_, codec, phase, state_, count, request, got>>

Next ==
    \/ \E q \in Requests : SendRequest(q)
    \/ \E n \in 1..Len(stream) : HandleRead(n)
    \/ ParseRecord \/ EndMessage
    \/ \E out \in Outputs : ProcessCgi(out)

Spec == Init /\ [][Next]_vars

-----------------------------------------------------------------------------
\* However the reads cut the stream, a request is handed to the callback once, with
\* the parameters and the standard input that were sent and nothing of the request
\* before.  None gets stuck: when all bytes have been read, parsed and worked on, the
\* buffer is empty and the request has been answered once; on a connection that the
\* web server asked to keep, the answer was sent.
DecodesAsSent ==
    /\ got \in { << >>, << Meaning(request) >> }
    /\ count > 0 /\ stream = << >> /\ phase = "poll" /\ tasks = 0
        => /\ Len(answers) = 1 /\ Available = << >>
           /\ request.keep = KeepConn => answers[1].sent

\* What the web server reads back: records within the size limit and aligned, whose
\* standard output is what the program printed (or the text for an empty result),
\* the end of the output, and the end of the request.
ResponsesDecode ==
    LET recs == Records(output)
        out == SelectSeq(recs, LAMBDA r : r.type = Stdout)
        shown == IF answers[1].out = << >> THEN EmptyResult ELSE answers[1].out
    IN output # << >> =>
        /\ \A i \in DOMAIN out : /\ Len(out[i].content) <= MaxLength
                                 /\ (out[i].total - kRecordHeader) % PadTo = 0
        /\ FlattenSeq([i \in DOMAIN out |-> out[i].content]) = shown
        /\ Last(out).content = << >>
        /\ Last(recs).type = End /\ Len(recs) = Len(out) + 1
=============================================================================
