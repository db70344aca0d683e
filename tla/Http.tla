------------------------------- MODULE Http ---------------------------------
(***************************************************************************)
(* netLayer/http: HttpContext, HttpRequest, HttpResponse and HttpServer on *)
(* one connection.                                                         *)
(*                                                                         *)
(* The stream is made of carriage returns, line feeds and texts; a text is *)
(* a number that Texts maps to the words of a line (separated by single    *)
(* spaces, the second being a path and perhaps a query) and to its header  *)
(* (none without a colon).  The client may send a request before the last  *)
(* one is answered; reads cut the stream at any place.                     *)
(***************************************************************************)
EXTENDS Buffer, FiniteSets, SequencesExt

CONSTANTS Texts,          \* the lines that occur
          HttpRequests,   \* requests: sequences of texts
          MaxHttp         \* bound on the requests of the connection

CR == 1
LF == 2

VARIABLES stream,         \* bytes sent and not yet read
          inputBuffer_,
          phase,          \* of the loop: "poll" or, in parseRequest, "parse"
          state_,         \* of the connection: "kConnected" or "kDisconnecting"
          context,        \* the HttpContext
          sent,           \* history: requests sent
          handled,        \* history: requests given to httpCallback_
          replies,        \* responses sent
          merged,         \* history: a read completed two requests
          abort           \* the assert of setMethod failed

vars == <<stream, inputBuffer_, phase, state_, context, sent, handled, replies, merged, abort>>

-----------------------------------------------------------------------------
\* The client's side (external).

Encode(q) == FlattenSeq([i \in DOMAIN q |-> <<q[i], CR, LF>>]) \o <<CR, LF>>

Spaces(n) == [i \in 1..n |-> " "]
HasColon(text) == "field" \in DOMAIN text
\* What follows the colon.
Raw(text) == Spaces(text.before) \o text.value \o Spaces(text.after)

\* The words of the request line are well-formed.
WellFormed(words) ==
    /\ Len(words) = 3
    /\ words[1] \in {"GET", "POST", "HEAD", "PUT", "DELETE"}
    /\ words[3] \in {"HTTP/1.0", "HTTP/1.1"}
Good(q) == WellFormed(Texts[q[1]].words)

\* What a well-formed request says; the last of equal fields counts.
Meaning(q) ==
    LET words == Texts[q[1]].words
        Fields == {Texts[q[i]].field : i \in 2..Len(q)}
        LastOf(f) == CHOOSE i \in 2..Len(q) :
                        Texts[q[i]].field = f /\ \A j \in (i + 1)..Len(q) : Texts[q[j]].field # f
    IN [method_ |-> words[1], version_ |-> words[3],
        path_ |-> words[2][1], query_ |-> IF Len(words[2]) = 2 THEN words[2][2] ELSE "",
        headers_ |-> [f \in Fields |-> Texts[q[LastOf(f)]].value]]

-----------------------------------------------------------------------------
\* HttpRequest and HttpContext.

NewRequest == [method_ |-> "kInvalid", version_ |-> "kUnknown", path_ |-> "", query_ |-> "",
               headers_ |-> << >>]
NewContext == [state_ |-> "kExpectRequestLine", request_ |-> NewRequest]

SetMethod(r, m) ==
    [r EXCEPT !.method_ = IF m \in {"GET", "POST", "HEAD", "PUT", "DELETE"} THEN m ELSE "kInvalid"]

SetTarget(r, target) ==
    [r EXCEPT !.path_ = target[1], !.query_ = IF Len(target) = 2 THEN target[2] ELSE @]

\* processRequestLine; a failure leaves in the request what was set before it.
ProcessRequestLine(r, words) ==
    LET m == SetMethod(r, words[1])
        t == SetTarget(m, words[2])
    IN CASE Len(words) < 2 -> [ok |-> FALSE, request |-> r]
         [] Len(words) = 2 \/ m.method_ = "kInvalid" -> [ok |-> FALSE, request |-> m]
         [] Len(words) >= 3 /\ m.method_ # "kInvalid" ->
                IF Len(words) = 3 /\ words[3] \in {"HTTP/1.0", "HTTP/1.1"}
                THEN [ok |-> TRUE, request |-> [t EXCEPT !.version_ = words[3]]]
                ELSE [ok |-> FALSE, request |-> t]

\* addHeader: the value without the white space around it.
AddHeader(r, field, raw) ==
    LET ink == {i \in DOMAIN raw : raw[i] # " "}
        value == IF ink = {} THEN << >>
                 ELSE SubSeq(raw, CHOOSE i \in ink : \A j \in ink : i <= j,
                                  CHOOSE i \in ink : \A j \in ink : j <= i)
    IN [r EXCEPT !.headers_ = [f \in DOMAIN @ \cup {field} |-> IF f = field THEN value ELSE @[f]]]

GetHeader(r, field) == IF field \in DOMAIN r.headers_ THEN r.headers_[field] ELSE << >>

Available == Content(inputBuffer_)

\* findCRLF: the places of line ends, and the text before the first.
LineEnds == {p \in 1..(Len(Available) - 1) : Available[p] = CR /\ Available[p + 1] = LF}
LineEnd == CHOOSE p \in LineEnds : \A q \in LineEnds : p <= q
Line == IF LineEnd = 1 THEN [words |-> << "" >>] ELSE Texts[Available[LineEnd - 1]]

-----------------------------------------------------------------------------
\* onConnection gives the connection its HttpContext.
Init ==
    /\ stream = << >> /\ inputBuffer_ = NewBuffer
    /\ phase = "poll" /\ state_ = "kConnected"
    /\ context = NewContext
    /\ sent = << >> /\ handled = << >> /\ replies = << >>
    /\ merged = FALSE /\ abort = FALSE

\* A client sends requests until the connection is shut down.
SendRequest(q) ==
    /\ Len(sent) < MaxHttp /\ state_ = "kConnected"
    /\ sent' = Append(sent, q)
    /\ stream' = stream \o Encode(q)
    /\ UNCHANGED <<inputBuffer_, phase, state_, context, handled, replies, merged, abort>>

BlankLines(s) ==
    {p \in 1..(Len(s) - 1) : s[p] = CR /\ s[p + 1] = LF /\ (p = 1 \/ s[p - 1] = LF)}

\* handleRead: some of the bytes, then onMessage.
HandleRead(n) ==
    /\ phase = "poll" /\ ~abort /\ n \in Readable(inputBuffer_, Len(stream))
    /\ inputBuffer_' = ReadFd(inputBuffer_, SubSeq(stream, 1, n))
    /\ stream' = SubSeq(stream, n + 1, Len(stream))
    /\ phase' = "parse"
    /\ merged' = (merged \/ Cardinality(BlankLines(Available \o SubSeq(stream, 1, n))) > 1)
    /\ UNCHANGED <<state_, context, sent, handled, replies, abort>>

\* TcpConnection::send and shutdown.
Send(reply) == replies' = IF state_ = "kConnected" THEN Append(replies, reply) ELSE replies

Consume == inputBuffer_' = Retrieve(inputBuffer_, LineEnd + 1)

\* A turn of parseRequest's loop in kExpectRequestLine.  When it fails the line stays
\* in the buffer and the request as far as it was set.
ParseRequestLine ==
    LET result == ProcessRequestLine(context.request_, Line.words) IN
    /\ phase = "parse" /\ ~abort /\ LineEnds # {} /\ context.state_ = "kExpectRequestLine"
    /\ abort' = (Len(Line.words) >= 2 /\ context.request_.method_ # "kInvalid")
    /\ IF result.ok
       THEN /\ Consume
            /\ context' = [state_ |-> "kExpectHeaders", request_ |-> result.request]
            /\ UNCHANGED <<phase, state_, replies>>
       ELSE /\ context' = [context EXCEPT !.request_ = result.request]
            /\ Send([status |-> 400, length |-> FALSE])
            /\ state_' = "kDisconnecting"
            /\ phase' = "poll"
            /\ UNCHANGED inputBuffer_
    /\ UNCHANGED <<stream, sent, handled, merged>>

\* A turn in kExpectHeaders.
ParseHeader ==
    /\ phase = "parse" /\ LineEnds # {} /\ context.state_ = "kExpectHeaders"
    /\ context' = IF HasColon(Line)
                  THEN [context EXCEPT !.request_ = AddHeader(@, Line.field, Raw(Line))]
                  ELSE [context EXCEPT !.state_ = "kGotAll"]
    /\ Consume
    /\ UNCHANGED <<stream, phase, state_, sent, handled, replies, merged, abort>>

\* The rest of onMessage when there is no complete line.
EndMessage ==
    /\ phase = "parse" /\ ~abort /\ LineEnds = {} /\ context.state_ # "kGotAll"
    /\ phase' = "poll"
    /\ UNCHANGED <<stream, inputBuffer_, state_, context, sent, handled, replies, merged, abort>>

\* Whether the client wants the connection closed.
Close(r) ==
    LET connection == GetHeader(r, "Connection") IN
    connection = << "close" >> \/ (r.version_ = "HTTP/1.0" /\ connection # << "Keep-Alive" >>)

\* appendToBuffer: a Content-Length unless the connection is to be closed.
AppendToBuffer(close) == [status |-> 200, length |-> ~close]

\* Mutation of OnRequest: the callback's wish to close is written and not done.
OnRequestAsAsked(callback) ==
    LET closeConnection == Close(context.request_) \/ callback = "close" IN
    /\ phase = "parse" /\ context.state_ = "kGotAll"
    /\ handled' = Append(handled, context.request_)
    /\ Send(AppendToBuffer(closeConnection))
    /\ state_' = IF Close(context.request_) THEN "kDisconnecting" ELSE state_
    /\ context' = NewContext
    /\ phase' = "poll"
    /\ UNCHANGED <<stream, inputBuffer_, sent, merged, abort>>

\* Mutation of OnRequest: reset() leaves the headers as they are.
OnRequestKeeps(callback) ==
    LET closeConnection == Close(context.request_) \/ callback = "close" IN
    /\ phase = "parse" /\ context.state_ = "kGotAll"
    /\ handled' = Append(handled, context.request_)
    /\ Send(AppendToBuffer(closeConnection))
    /\ state_' = IF closeConnection THEN "kDisconnecting" ELSE state_
    /\ context' = [NewContext EXCEPT !.request_.headers_ = context.request_.headers_]
    /\ phase' = "poll"
    /\ UNCHANGED <<stream, inputBuffer_, sent, merged, abort>>

\* The rest of onMessage with a complete request: onRequest, whose httpCallback_ may
\* ask for the connection to be closed, and the context's reset().  What else is in
\* the buffer waits for the next message.
OnRequest(callback) ==
    LET closeConnection == Close(context.request_) \/ callback = "close" IN
    /\ phase = "parse" /\ context.state_ = "kGotAll"
    /\ handled' = Append(handled, context.request_)
    /\ Send(AppendToBuffer(closeConnection))
    /\ state_' = IF closeConnection THEN "kDisconnecting" ELSE state_
    /\ context' = NewContext
    /\ phase' = "poll"
    /\ UNCHANGED <<stream, inputBuffer_, sent, merged, abort>>

Next ==
    \/ \E q \in HttpRequests : SendRequest(q)
    \/ \E n \in 1..Len(stream) : HandleRead(n)
    \/ ParseRequestLine \/ ParseHeader \/ EndMessage
    \/ \E callback \in {"leave", "close"} : OnRequest(callback)

-----------------------------------------------------------------------------
\* However the reads cut the stream, httpCallback_ gets the requests that were sent,
\* in order, each with its own target and headers, up to the first malformed one; and
\* when everything has been read and parsed it has got them all, unless a read
\* completed two requests (the second then waits for a later read) or one was
\* malformed.  Until then the assert of setMethod holds.
HttpDecodes ==
    LET bad == \E i \in DOMAIN sent : ~Good(sent[i]) IN
    /\ Len(handled) <= Len(sent)
    /\ \A i \in DOMAIN handled : Good(sent[i]) /\ handled[i] = Meaning(sent[i])
    /\ ~bad => ~abort
    /\ stream = << >> /\ phase = "poll" /\ ~merged /\ ~bad => Len(handled) = Len(sent)

\* The client can tell where each response ends: one without a Content-Length is the
\* last, and the connection is shut down after it.
HttpFramed ==
    \A i \in DOMAIN replies :
        ~replies[i].length <=> (i = Len(replies) /\ state_ = "kDisconnecting")
=============================================================================
