------------------------------ MODULE Logging -------------------------------
(***************************************************************************)
(* base/log/Logging.h and Logging.cpp: the Logger a thread makes for each  *)
(* line, which writes the time, the thread and the level, takes what is    *)
(* streamed, and hands the line to g_output when it is destroyed.  The     *)
(* threads share g_logTimeZone and the clock; the formatted second t_time  *)
(* is thread-local and kept until the second changes.                      *)
(*                                                                         *)
(* The writer behind g_output is AsyncLogging.  What a line says and when  *)
(* it says it was made have nothing in common, so that a behaviour is      *)
(* about one part of the three: a line that is streamed, the time stamps   *)
(* of the lines of several threads, or the writer.                         *)
(***************************************************************************)
EXTENDS AsyncLogging, LogStream

CONSTANTS Threads,
          Texts,      \* lengths of the texts that are streamed
          Ints,       \* numbers that are streamed
          MaxPieces   \* bound on what one line streams

Levels == [TRACE |-> 0, DEBUG |-> 1, INFO |-> 2, WARN |-> 3, ERROR |-> 4, FATAL |-> 5,
           SYSERR |-> 4, SYSFATAL |-> 5]

UTC == "UTC"          \* g_logTimeZone is not valid
Zones == {UTC, "zone"}
NoLine == [pc |-> "none", streamed |-> 0]

VARIABLES part,           \* "line", "stamps" or "writer"
          g_logLevel,
          g_logTimeZone,
          zoneSet,        \* history: second of the last setTimeZone
          t_time,         \* of each thread: t_lastSecond, and the zone t_time was made in
          log,            \* of each thread: its Logger
          aborted

loggers == <<g_logLevel, g_logTimeZone, zoneSet, t_time, log, aborted>>
writer == <<front, running_, latched, owner, pc, back, file, fail>>

LoggingInit ==
    /\ Init
    /\ part \in {"line", "stamps", "writer"}
    /\ g_logLevel \in IF part = "line" THEN {Levels.DEBUG, Levels.INFO} ELSE {Levels.INFO}
    /\ g_logTimeZone \in (IF part = "line" THEN Zones ELSE {UTC}) /\ zoneSet = 0
    /\ t_time = [t \in Threads |-> [second |-> 0, zone |-> UTC]]
    /\ log = [t \in Threads |-> NoLine]
    /\ aborted = FALSE

-----------------------------------------------------------------------------
Stream(line, pieces) ==
    [line EXCEPT !.said = @ \o pieces, !.buf = Fold(Out, @, pieces)]

\* Mutation of FormattedTime: t_lastSecond is shared by the threads, t_time is not.
FormattedTimeShared(t) ==
    IF \A u \in Threads : t_time[u].second # now THEN [second |-> now, zone |-> g_logTimeZone]
    ELSE t_time[t]

\* formatTime: t_time is made anew in a new second.
FormattedTime(t) ==
    IF now # t_time[t].second THEN [second |-> now, zone |-> g_logTimeZone] ELSE t_time[t]

\* The microseconds, with a Z when there is no zone; CurrentThread::tidString(); the level;
\* strerror_tl and errno, if it is set; __func__.
Header(kind, savedErrno) ==
    << Text("time", 17), Text("us", IF g_logTimeZone = UTC THEN 9 ELSE 8),
       Text("tid", 5), Text("level", 8) >>
    \o (IF savedErrno = 0 THEN << >>
        ELSE << Text("strerror", 24), Text(" (errno=", 8), Integer(savedErrno), Text(") ", 2) >>)
    \o (IF Levels[kind] <= Levels.DEBUG THEN << Text("func", 10), Text(" ", 1) >> ELSE << >>)

\* The constructors of Logger, behind the macros LOG_TRACE to LOG_SYSFATAL.
Construct(t, kind, savedErrno) ==
    /\ log[t].pc = "none" /\ ~aborted
    /\ IF part = "line" THEN \A u \in Threads : log[u].pc = "none" ELSE kind = "WARN"
    /\ kind \in {"TRACE", "DEBUG", "INFO"} => g_logLevel <= Levels[kind]
    /\ savedErrno # 0 => kind \in {"SYSERR", "SYSFATAL"}
    /\ t_time' = [t_time EXCEPT ![t] = FormattedTime(t)]
    /\ log' = [log EXCEPT ![t] =
            Stream([pc |-> "open", streamed |-> 0, level |-> Levels[kind],
                    time_ |-> now, printed |-> FormattedTime(t), zone |-> g_logTimeZone,
                    since |-> zoneSet, said |-> << >>, buf |-> Empty],
                   Header(kind, savedErrno))]
    /\ UNCHANGED <<writer, now, part, g_logLevel, g_logTimeZone, zoneSet, aborted>>

\* What a statement may stream.
Pieces == {Text("text", len) : len \in Texts} \cup {Double(7)} \cup {Pointer(v) : v \in Ints}
          \cup {Integer(v) : v \in Ints} \cup {Integer(-v - 1) : v \in Ints}

\* LOG << piece.
StreamPiece(t, piece) ==
    /\ part = "line"
    /\ log[t].pc = "open" /\ ~aborted
    /\ log[t].streamed < MaxPieces
    /\ log' = [log EXCEPT ![t] = [Stream(@, << piece >>) EXCEPT !.streamed = @ + 1]]
    /\ UNCHANGED <<writer, now, part, g_logLevel, g_logTimeZone, zoneSet, t_time, aborted>>

\* finish, of a statement in line 321 of a file.
Finish == << Text(" - ", 3), Text("basename", 10), Text(":", 1), Integer(321), Text("\n", 1) >>

\* ~Logger: the line is finished and handed to g_output.
Destruct(t) ==
    /\ log[t].pc = "open" /\ ~aborted
    /\ log' = [log EXCEPT ![t] = [Stream(@, Finish) EXCEPT !.pc = "output"]]
    /\ UNCHANGED <<writer, now, part, g_logLevel, g_logTimeZone, zoneSet, t_time, aborted>>

\* ~Logger, once g_output has returned: a FATAL line ends the process.
Destructed(t) ==
    /\ log[t].pc = "output" /\ ~aborted
    /\ log' = [log EXCEPT ![t] = NoLine]
    /\ aborted' = (log[t].level = Levels.FATAL)
    /\ UNCHANGED <<writer, now, part, g_logLevel, g_logTimeZone, zoneSet, t_time>>

SetTimeZone(zone) ==
    /\ part = "stamps"
    /\ zone # g_logTimeZone /\ ~aborted
    /\ g_logTimeZone' = zone /\ zoneSet' = now
    /\ UNCHANGED <<writer, now, part, g_logLevel, t_time, log, aborted>>

Loggers ==
    \/ \E t \in Threads :
        \/ \E kind \in DOMAIN Levels, savedErrno \in {0, 104} : Construct(t, kind, savedErrno)
        \/ \E piece \in Pieces : StreamPiece(t, piece)
        \/ Destruct(t) \/ Destructed(t)
    \/ \E zone \in Zones : SetTimeZone(zone)
    \/ part = "stamps" /\ Tick /\ UNCHANGED <<part, loggers>>

LoggingNext ==
    \/ part # "writer" /\ Loggers
    \/ part = "writer" /\ Next /\ UNCHANGED <<part, loggers>>

InWriter(A) == part = "writer" /\ A /\ UNCHANGED <<part, loggers>>

loggingVars == <<vars, part, loggers>>

\* The threads are scheduled and the timed wait of the writer returns.
LoggingSpec ==
    /\ LoggingInit /\ [][LoggingNext]_loggingVars
    /\ WF_loggingVars(InWriter(BackEnd))
    /\ WF_loggingVars(InWriter(StartReturns)) /\ WF_loggingVars(InWriter(Join))

-----------------------------------------------------------------------------
Length(pieces) == Fold(LAMBDA n, piece : n + piece.len, 0, pieces)

\* The number that a reader of the digits sees, negated.
Negated(digits) == Fold(LAMBDA n, d : IF d = Minus THEN n ELSE 10 * n - d, 0, digits)
ReadBack(digits) == IF digits[1] = Minus THEN Negated(digits) ELSE -Negated(digits)

\* Whatever is streamed, a line that reaches g_output fits its FixedBuffer and begins
\* with its time, thread and level; pieces are missing from it only when it is nearly
\* full; it ends in a newline unless one character exactly was left, which append()
\* keeps free; and its numbers, the least int included, are those that were streamed.
LinesWhole ==
    part = "line" => \A t \in Threads : log[t].pc = "output" =>
        LET buf == log[t].buf
            said == log[t].said
        IN  /\ buf.cur = Length(buf.pieces) /\ buf.cur < Size
            /\ SubSeq(buf.pieces, 1, 4) = SubSeq(said, 1, 4)
            /\ Length(said) <= Size - kMaxNumericSize => buf.pieces = said
            /\ buf.pieces[Len(buf.pieces)].what = "\n" \/ buf.cur = Size - 1
            /\ \A i \in DOMAIN buf.pieces :
                buf.pieces[i].what = "integer" => ReadBack(buf.pieces[i].digits) = buf.pieces[i].value

\* The second a line shows is the one in which its Logger was made, whatever other
\* threads log and however long ago this one did; and the zone it is shown in is the one
\* in effect, unless that was set within this very second.
StampFresh ==
    \A t \in Threads : log[t].pc # "none" =>
        /\ log[t].printed.second = log[t].time_
        /\ log[t].printed.zone # log[t].zone => log[t].since = log[t].time_
=============================================================================
