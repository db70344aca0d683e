------------------------- MODULE AsyncLoggingProofs -------------------------
(***************************************************************************)
(* IInv is inductive, for every capacity and any number of lines: the back *)
(* end never runs out of buffers and no assert of threadFunc fails.  The   *)
(* conjunct that carries the argument is that the front end lacks its      *)
(* spare buffer only while a full one is waiting.  LineInv is inductive    *)
(* relative to it: every line is accounted for, and the lines that were    *)
(* dropped, but are not a gap in what was written yet because no younger   *)
(* line is in it, are counted as gaps to come: a notice or an error has    *)
(* announced each run of them.  The front end: time stamps are fresh, a    *)
(* line never overflows its buffer, and the quantities of formatSI and     *)
(* formatIEC have the width that is promised.                              *)
(***************************************************************************)
EXTENDS Logging, LogLinesProofs, TLAPS

-----------------------------------------------------------------------------
\* The writer has the buffers it needs.

LEMMA InitIInv == Init => IInv
<1>. SUFFICES ASSUME Init PROVE IInv
    BY SMTT(60), Z3T(60)
<1>1. /\ nextBuffer_ \in BOOLEAN /\ running_ \in BOOLEAN /\ latched \in BOOLEAN
      /\ newBuffer1 \in BOOLEAN /\ newBuffer2 \in BOOLEAN /\ fail \in BOOLEAN
    BY ZenonT(60), ZenonT(90) DEF Init
<1>. QED BY <1>1, SMTT(60), Z3T(60) DEF Init, IInv, TypeOK, BuffersSuffice, NoAssertFails

\* Writing out keeps the types of what was written.
LEMMA WriteOutType ==
    ASSUME TypeOK, NEW h \in flushed..Len(written'), NEW g \in h..Len(written'),
           written' \in Seq(Nat), WriteOut(h), flushed' = g
    PROVE  flushed' \in 0..Len(written') /\ lost' \subseteq 1..flushed' /\ ignored' \in Nat
<1>1. PICK k \in flushed..h : /\ lost' = lost \cup (k + 1)..h
                             /\ ignored' = IF k = h THEN ignored ELSE ignored + 1
    BY ZenonT(60), ZenonT(90) DEF WriteOut
<1>2. /\ flushed \in Nat /\ lost \subseteq 1..flushed /\ ignored \in Nat
      /\ h \in Nat /\ g \in Nat /\ flushed <= h /\ h <= g
    BY SMTT(60), Z3T(60) DEF TypeOK
<1>3. flushed' \in 0..Len(written') /\ ignored' \in Nat
    BY <1>1, <1>2, SMTT(60), Z3T(60)
<1>4. 1..flushed \subseteq 1..g /\ (k + 1)..h \subseteq 1..g
    BY <1>1, <1>2, SMTT(60), Z3T(60)
<1>. QED BY <1>1, <1>2, <1>3, <1>4, ZenonT(60), ZenonT(90)

LEMMA FlushType ==
    ASSUME TypeOK, Flush, written' = written
    PROVE  flushed' \in 0..Len(written') /\ lost' \subseteq 1..flushed' /\ ignored' \in Nat
<1>1. written' \in Seq(Nat)
    BY SMTT(60), Z3T(60) DEF TypeOK
<1>2. Len(written) \in flushed..Len(written') /\ Len(written) \in Len(written)..Len(written')
    BY SMTT(60), Z3T(60) DEF TypeOK
<1>. QED BY <1>1, <1>2, WriteOutType, SMTT(60), Z3T(60) DEF Flush

\* The sections of FileAppend keep the types of the file.
LEMMA FileAppendType ==
    ASSUME TypeOK, LogAssumption, NEW lines \in Seq(Nat), NEW n \in 0..Len(lines),
           FileAppend(lines, n)
    PROVE  /\ written' \in Seq(Nat) /\ flushed' \in 0..Len(written')
           /\ lost' \subseteq 1..flushed' /\ ignored' \in Nat
           /\ bytes' \in Nat /\ lastRoll_' \in Nat /\ errors' \in Nat
<1>. DEFINE given == Len(written) + n
<1>1. SubSeq(lines, 1, n) \in Seq(Nat) /\ Len(SubSeq(lines, 1, n)) = n
    OBVIOUS
<1>2. written' = written \o SubSeq(lines, 1, n) /\ written \in Seq(Nat) /\ flushed \in Nat
    BY SMTT(60), Z3T(60) DEF FileAppend, Fwrite, TypeOK
<1>3. written' \in Seq(Nat) /\ Len(written') = given /\ given \in Nat
    BY <1>1, <1>2, SMTT(60), Z3T(60)
<1>4. bytes' \in Nat /\ lastRoll_' \in Nat /\ errors' \in Nat
    BY SMTT(60), Z3T(60) DEF FileAppend, Fwrite, NewSecond, TypeOK
<1>5. PICK h \in flushed..given : WriteOut(h) /\ (flushed' = given \/ flushed' = h)
    BY ZenonT(60), ZenonT(90) DEF FileAppend
<1>6. flushed' \in h..Len(written') /\ h \in flushed..Len(written')
    BY <1>2, <1>3, <1>5, SMTT(60), Z3T(60)
<1>. QED BY <1>3, <1>4, <1>5, <1>6, WriteOutType, ZenonT(60), ZenonT(90)

\* The critical section gives away one buffer or two, and gets that many.
LEMMA SwapIInv ==
    ASSUME IInv, pc \in {"lock", "waiting"}, Swap
    PROVE  IInv'
<1>1. TypeOK'
    <2>1. buffersToWrite' \in Seq(Seq(Nat)) /\ buffers_' \in Seq(Seq(Nat))
             /\ currentBuffer_' \in Seq(Nat) /\ done' \in Nat
        BY DEF Swap, IInv, TypeOK
    <2>2. nextBuffer_' \in BOOLEAN /\ newBuffer1' \in BOOLEAN /\ newBuffer2' \in BOOLEAN
             /\ pc' = "write"
        BY ZenonT(60), ZenonT(90) DEF Swap
    <2>. QED BY <2>1, <2>2, SMTT(60), Z3T(60) DEF Swap, IInv, TypeOK, file
<1>2. BuffersSuffice'
    <2>1. pc' = "write" /\ ~newBuffer1' /\ nextBuffer_' /\ newBuffer2' = (newBuffer2 /\ nextBuffer_)
        BY ZenonT(60), ZenonT(90) DEF Swap
    <2>2. Len(buffersToWrite') = Len(buffers_) + 1 /\ Len(buffers_) \in Nat
        BY SMTT(60), Z3T(60) DEF Swap, IInv, TypeOK
    <2>3. buffersToWrite' # << >>
        BY <2>2, SMTT(60), Z3T(60)
    <2>4. newBuffer2
        BY SMTT(60), Z3T(60) DEF IInv, BuffersSuffice
    <2>5. ~newBuffer2' => Len(buffersToWrite') >= 2
        <3>1. SUFFICES ASSUME ~nextBuffer_ PROVE Len(buffersToWrite') >= 2
            BY <2>1, <2>4, ZenonT(60), ZenonT(90)
        <3>2. buffers_ # << >>
            BY <3>1, SMTT(60), Z3T(60) DEF IInv, BuffersSuffice
        <3>3. Len(buffers_) # 0
            BY <3>2, SMTT(60), Z3T(60) DEF IInv, TypeOK
        <3>. QED BY <3>3, <2>2, SMTT(60), Z3T(60)
    <2>6. owner' # "new"
        BY DEF IInv, BuffersSuffice, Swap
    <2>. QED BY <2>1, <2>3, <2>5, <2>6, SMTT(60), Z3T(60) DEF BuffersSuffice
<1>3. NoAssertFails'
    BY SMTT(60), Z3T(60) DEF Swap, IInv, NoAssertFails
<1>. QED BY <1>1, <1>2, <1>3 DEF IInv

LEMMA NextIInv == IInv /\ [Next]_vars => IInv'
<1>. SUFFICES ASSUME IInv, [Next]_vars PROVE IInv'
    BY SMTT(60), Z3T(60)
<1>. USE LogAssumption
<1>1. CASE Start
    <2>1. running_' \in BOOLEAN /\ running_'
        BY <1>1, ZenonT(60), ZenonT(90) DEF Start
    <2>. QED BY <1>1, <2>1, SMTT(60), Z3T(60) DEF Start, IInv, TypeOK, BuffersSuffice,
                NoAssertFails, front, back, file
<1>2. CASE StartReturns
    BY <1>2, SMTT(60), Z3T(60) DEF StartReturns, IInv, TypeOK, BuffersSuffice, NoAssertFails,
       front, back, file
<1>3. CASE Stop
    BY <1>3, ZenonT(60), ZenonT(90) DEF Stop, IInv, TypeOK, BuffersSuffice, NoAssertFails, front,
       back, file
<1>4. CASE Join
    BY <1>4, SMTT(60), Z3T(60) DEF Join, IInv, TypeOK, BuffersSuffice, NoAssertFails, front, back,
       file
<1>5. CASE AppendLine
    <2>1. /\ UNCHANGED <<running_, latched, owner, pc, newBuffer1, newBuffer2, buffersToWrite,
                         done, written, flushed, lost, ignored, bytes, lastRoll_, errors, now,
                         fail>>
          /\ logged' = logged + 1
        BY <1>5, SMTT(60), Z3T(60) DEF AppendLine, back, file
    <2>2. CASE Len(currentBuffer_) < Capacity
        <3>1. /\ currentBuffer_' = Append(currentBuffer_, logged + 1)
              /\ UNCHANGED <<buffers_, nextBuffer_>>
            BY <1>5, <2>2, SMTT(60), Z3T(60) DEF AppendLine
        <3>. QED BY <2>1, <3>1, SMTT(60), Z3T(60) DEF IInv, TypeOK, BuffersSuffice, NoAssertFails
    <2>3. CASE ~(Len(currentBuffer_) < Capacity)
        <3>1. /\ currentBuffer_' = << logged + 1 >> /\ nextBuffer_' = FALSE
              /\ buffers_' = Append(buffers_, currentBuffer_)
            BY <1>5, <2>3, SMTT(60), Z3T(60) DEF AppendLine
        <3>2. buffers_' \in Seq(Seq(Nat)) /\ Len(buffers_') # 0 /\ currentBuffer_' \in Seq(Nat)
            BY <3>1, SMTT(60), Z3T(60) DEF IInv, TypeOK
        <3>4. buffers_' # << >>
            BY <3>2, SMTT(60), Z3T(60)
        <3>3. nextBuffer_' \in BOOLEAN
            BY <3>1, ZenonT(60), ZenonT(90)
        <3>. QED BY <2>1, <3>2, <3>3, <3>4, SMTT(60), Z3T(60) DEF IInv, TypeOK, BuffersSuffice,
                    NoAssertFails
    <2>. QED BY <2>2, <2>3, SMTT(60), Z3T(60)
<1>6. CASE Begin
    <2>1. running_ /\ fail' = ~running_
        BY <1>6, SMTT(60), Z3T(60) DEF Begin, IInv, BuffersSuffice
    <2>2. fail' = FALSE /\ fail' \in BOOLEAN
        BY <2>1, ZenonT(60), ZenonT(90)
    <2>3. latched' \in BOOLEAN
        BY <1>6, ZenonT(60), ZenonT(90) DEF Begin
    <2>. QED BY <1>6, <2>2, <2>3, SMTT(60), Z3T(60) DEF Begin, IInv, TypeOK, BuffersSuffice,
                NoAssertFails, front, back
<1>7. CASE Test
    <2>1. fail' = FALSE /\ fail' \in BOOLEAN
        <3>1. newBuffer1 /\ newBuffer2 /\ buffersToWrite = << >>
            BY <1>7, SMTT(60), Z3T(60) DEF Test, IInv, BuffersSuffice
        <3>. QED BY <1>7, <3>1, ZenonT(60), ZenonT(90) DEF Test
    <2>2. /\ flushed' \in 0..Len(written') /\ lost' \subseteq 1..flushed' /\ ignored' \in Nat
          /\ written' = written
        <3>1. CASE running_
            <4>1. UNCHANGED <<flushed, lost, ignored, written>>
                BY <1>7, <3>1, ZenonT(60), ZenonT(90) DEF Test
            <4>. QED BY <4>1, SMTT(60), Z3T(60) DEF IInv, TypeOK
        <3>2. CASE ~running_
            BY <1>7, <3>2, FlushType, SMTT(60), Z3T(60) DEF Test, IInv
        <3>. QED BY <3>1, <3>2, SMTT(60), Z3T(60)
    <2>. QED BY <1>7, <2>1, <2>2, SMTT(60), Z3T(60) DEF Test, IInv, TypeOK, BuffersSuffice,
                NoAssertFails, front, back
<1>8. CASE Lock
    <2>1. CASE buffers_ # << >>
        <3>1. Swap /\ pc \in {"lock", "waiting"}
            BY <1>8, <2>1, ZenonT(60), ZenonT(90) DEF Lock
        <3>. QED BY <3>1, SwapIInv, ZenonT(60), ZenonT(90)
    <2>2. CASE buffers_ = << >>
        <3>1. /\ pc = "lock" /\ pc' = "waiting"
              /\ UNCHANGED <<front, running_, latched, owner, back, file, now, fail>>
            BY <1>8, <2>2, ZenonT(60), ZenonT(90) DEF Lock
        <3>. QED BY <3>1, SMTT(60), Z3T(60) DEF IInv, TypeOK, BuffersSuffice, NoAssertFails,
                    front, back, file
    <2>. QED BY <2>1, <2>2, SMTT(60), Z3T(60)
<1>9. CASE Wake
    BY <1>9, SwapIInv, SMTT(60), Z3T(60) DEF Wake
<1>10. CASE DropBuffers
    <2>1. /\ written' \in Seq(Nat) /\ flushed' \in 0..Len(written')
          /\ lost' \subseteq 1..flushed' /\ ignored' \in Nat
          /\ bytes' \in Nat /\ lastRoll_' \in Nat /\ errors' \in Nat
        <3>1. << 0 >> \in Seq(Nat) /\ Len(<< 0 >>) = 1
            BY SMTT(60), Z3T(60)
        <3>. QED BY <1>10, <3>1, FileAppendType, ZenonT(60), ZenonT(90) DEF DropBuffers, IInv
    <2>2. buffersToWrite' \in Seq(Seq(Nat)) /\ Len(buffersToWrite') = 2
        BY <1>10, SMTT(60), Z3T(60) DEF DropBuffers, IInv, TypeOK
    <2>3. buffersToWrite' # << >>
        <3>1. Len(buffersToWrite') # Len(<< >>)
            BY <2>2, SMTT(60), Z3T(60)
        <3>. QED BY <3>1, Zenon
    <2>. QED BY <1>10, <2>1, <2>2, <2>3, SMTT(60), Z3T(60)
             DEF DropBuffers, IInv, TypeOK, BuffersSuffice, NoAssertFails, front
<1>11. CASE WriteBuffer
    <2>1. buffersToWrite[done + 1] \in Seq(Nat)
        BY <1>11, SMTT(60), Z3T(60) DEF WriteBuffer, IInv, TypeOK
    <2>2. /\ written' \in Seq(Nat) /\ flushed' \in 0..Len(written')
          /\ lost' \subseteq 1..flushed' /\ ignored' \in Nat
          /\ bytes' \in Nat /\ lastRoll_' \in Nat /\ errors' \in Nat
        BY <1>11, <2>1, FileAppendType, SMTT(60), Z3T(60) DEF WriteBuffer, IInv
    <2>. QED BY <1>11, <2>2, SMTT(60), Z3T(60) DEF WriteBuffer, IInv, TypeOK, BuffersSuffice,
                NoAssertFails, front
<1>12. CASE Recycle
    <2>. DEFINE kept == IF Len(buffersToWrite) > 2 THEN 2 ELSE Len(buffersToWrite)
                needed == (IF newBuffer1 THEN 0 ELSE 1) + (IF newBuffer2 THEN 0 ELSE 1)
    <2>1. fail' = (needed > kept)
        BY <1>12, SMTT(60), Z3T(60) DEF Recycle
    <2>2. /\ ~newBuffer1 /\ buffersToWrite # << >>
          /\ ~newBuffer2 => Len(buffersToWrite) >= 2
        BY <1>12, SMTT(60), Z3T(60) DEF Recycle, IInv, BuffersSuffice
    <2>3. Len(buffersToWrite) \in Nat /\ Len(buffersToWrite) # 0
        BY <2>2, SMTT(60), Z3T(60) DEF IInv, TypeOK
    <2>4. (needed > kept) = FALSE
        BY <2>2, <2>3, SMTT(60), Z3T(60)
    <2>. HIDE DEF kept, needed
    <2>5. fail' = FALSE /\ fail' \in BOOLEAN
        BY <2>1, <2>4, ZenonT(60), ZenonT(90)
    <2>6. newBuffer1' \in BOOLEAN /\ newBuffer2' \in BOOLEAN /\ newBuffer1' /\ newBuffer2'
        BY <1>12, ZenonT(60), ZenonT(90) DEF Recycle
    <2>7. /\ flushed' \in 0..Len(written') /\ lost' \subseteq 1..flushed' /\ ignored' \in Nat
          /\ written' = written
        BY <1>12, FlushType, SMTT(60), Z3T(60) DEF Recycle, IInv
    <2>. QED BY <1>12, <2>5, <2>6, <2>7, SMTT(60), Z3T(60)
             DEF Recycle, IInv, TypeOK, BuffersSuffice, NoAssertFails, front
<1>13. CASE Tick
    BY <1>13, SMTT(60), Z3T(60) DEF Tick, IInv, TypeOK, BuffersSuffice, NoAssertFails, front,
       back, file
<1>14. CASE UNCHANGED vars
    BY <1>14, SMTT(60), Z3T(60) DEF vars, IInv, TypeOK, BuffersSuffice, NoAssertFails, front,
       back, file
<1>. QED
    BY <1>1, <1>2, <1>3, <1>4, <1>5, <1>6, <1>7, <1>8, <1>9, <1>10, <1>11, <1>12, <1>13, <1>14,
       SMTT(60), Z3T(60)
    DEF Next, BackEnd

\* The asserts of threadFunc (the spare buffers are there and empty, and enough
\* written buffers come back) hold for any lines, capacity and schedule.
THEOREM BuffersAlwaysSuffice == Spec => []IInv
BY InitIInv, NextIInv, PTL DEF Spec

-----------------------------------------------------------------------------
\* The writer does what it does, whatever the Loggers do in front of it.
THEOREM LoggersLeaveTheWriter == LoggingSpec => Init /\ [][Next]_vars /\ []IInv
<1>1. LoggingInit => Init
    BY DEF LoggingInit
<1>2. ASSUME [LoggingNext]_loggingVars PROVE [Next]_vars
    <2>1. CASE LoggingNext /\ part = "writer"
        BY <2>1, SMTT(60), Z3T(60) DEF LoggingNext
    <2>2. CASE Loggers
        <3>1. CASE Tick
            BY <3>1 DEF Next
        <3>2. CASE UNCHANGED <<writer, now>>
            BY <3>2, SMTT(60), Z3T(60) DEF writer, vars
        <3>. QED BY <2>2, <3>1, <3>2, ZenonT(60), ZenonT(90)
                 DEF Loggers, Construct, StreamPiece, Destruct, Destructed, SetTimeZone
    <2>3. CASE UNCHANGED loggingVars
        BY <2>3, SMTT(60), Z3T(60) DEF loggingVars
    <2>. QED BY <1>2, <2>1, <2>2, <2>3, SMTT(60), Z3T(60) DEF LoggingNext
<1>. QED BY <1>1, <1>2, InitIInv, NextIInv, PTL DEF LoggingSpec

-----------------------------------------------------------------------------
\* A formatted second that is kept is not of the future, and differs from the zone in
\* effect only when that was set since it was formatted.
StampInv ==
    /\ now \in Nat
    /\ DOMAIN t_time = Threads /\ DOMAIN log = Threads
    /\ \A t \in Threads :
        /\ t_time[t].second \in Nat /\ t_time[t].second <= now
        /\ t_time[t].second = now /\ t_time[t].zone # g_logTimeZone => zoneSet = now
    /\ StampFresh

LEMMA StampStep == StampInv /\ [LoggingNext]_loggingVars => StampInv'
<1>. SUFFICES ASSUME StampInv, [LoggingNext]_loggingVars PROVE StampInv'
    BY SMTT(60), Z3T(60)
<1>1. ASSUME NEW t \in Threads, NEW kind, NEW savedErrno, Construct(t, kind, savedErrno)
      PROVE  StampInv'
    <2>. DEFINE ft == FormattedTime(t)
    <2>1. /\ ft.second = now /\ ft.second \in Nat
          /\ ft.zone # g_logTimeZone => zoneSet = now
        BY SMTT(60), Z3T(60) DEF FormattedTime, StampInv
    <2>2. /\ t_time' = [t_time EXCEPT ![t] = ft]
          /\ now' = now /\ g_logTimeZone' = g_logTimeZone /\ zoneSet' = zoneSet
        BY <1>1, SMTT(60), Z3T(60) DEF Construct
    <2>3. /\ log'[t].printed = ft /\ log'[t].zone = g_logTimeZone
          /\ log'[t].since = zoneSet /\ log'[t].time_ = now
          /\ DOMAIN log' = Threads
          /\ \A u \in Threads : u # t => log'[u] = log[u]
        BY <1>1, SMTT(60), Z3T(60) DEF Construct, Stream, StampInv
    <2>. HIDE DEF ft
    <2>4. StampFresh'
        BY <2>1, <2>3, SMTT(60), Z3T(60) DEF StampFresh, StampInv
    <2>. QED BY <2>1, <2>2, <2>3, <2>4, SMTT(60), Z3T(60) DEF StampInv
<1>2. ASSUME NEW t \in Threads, NEW piece, StreamPiece(t, piece) PROVE StampInv'
    BY <1>2, SMTT(60), Z3T(60) DEF StreamPiece, Stream, StampInv, StampFresh
<1>3. ASSUME NEW t \in Threads, Destruct(t) PROVE StampInv'
    BY <1>3, SMTT(60), Z3T(60) DEF Destruct, Stream, StampInv, StampFresh
<1>4. ASSUME NEW t \in Threads, Destructed(t) PROVE StampInv'
    BY <1>4, SMTT(60), Z3T(60) DEF Destructed, NoLine, StampInv, StampFresh
<1>5. ASSUME NEW zone, SetTimeZone(zone) PROVE StampInv'
    BY <1>5, SMTT(60), Z3T(60) DEF SetTimeZone, StampInv, StampFresh
<1>6. CASE Tick /\ UNCHANGED <<part, loggers>>
    BY <1>6, SMTT(60), Z3T(60) DEF Tick, loggers, StampInv, StampFresh
<1>7. CASE Next /\ UNCHANGED <<part, loggers>>
    <2>1. now' = now \/ Tick
        BY <1>7, ZenonT(60), ZenonT(90) DEF Next, BackEnd, Start, StartReturns, Stop, Join,
           AppendLine, Begin, Test, Lock,
                    Wake, Swap, DropBuffers, WriteBuffer, Recycle
    <2>2. CASE now' = now
        BY <1>7, <2>2, SMTT(60), Z3T(60) DEF loggers, StampInv, StampFresh
    <2>. QED BY <1>6, <1>7, <2>1, <2>2, SMTT(60), Z3T(60)
<1>8. CASE UNCHANGED loggingVars
    BY <1>8, SMTT(60), Z3T(60) DEF loggingVars, loggers, vars, StampInv, StampFresh
<1>. QED BY <1>1, <1>2, <1>3, <1>4, <1>5, <1>6, <1>7, <1>8, SMTT(60), Z3T(60) DEF LoggingNext,
            Loggers

\* For any number of threads, lines and changes of the zone, the second a line shows is
\* the one its Logger was made in, although formatTime keeps the formatted second of each
\* thread for as long as the thread does not log.
THEOREM StampsFresh == LoggingSpec => []StampFresh
<1>1. LoggingInit => StampInv
    BY SMTT(60), Z3T(60) DEF LoggingInit, Init, NoLine, StampInv, StampFresh
<1>2. StampInv => StampFresh
    BY SMTT(60), Z3T(60) DEF StampInv
<1>. QED BY <1>1, <1>2, StampStep, PTL DEF LoggingSpec

-----------------------------------------------------------------------------
\* FixedBuffer: a line leaves the last character free whatever is streamed into it,
\* provided that a number takes fewer characters than are reserved for it, which
\* staticCheck is about.
THEOREM FixedBufferFits ==
    ASSUME Size \in Nat, kMaxNumericSize \in Nat, NEW b, b.cur \in Nat, b.cur < Size,
           NEW piece, piece.len \in Nat,
           piece.what \in {"integer", "pointer", "double"} => piece.len < kMaxNumericSize
    PROVE  Out(b, piece).cur \in Nat /\ Out(b, piece).cur < Size
<1>1. CASE avail(b) > piece.len
    <2>1. b.cur + piece.len \in Nat /\ b.cur + piece.len < Size
        BY <1>1, SMTT(60), Z3T(60) DEF avail
    <2>2. add(b, piece).cur = b.cur + piece.len
        BY SMTT(60), Z3T(60) DEF add
    <2>. QED BY <2>1, <2>2, ZenonT(60), ZenonT(90) DEF Out, append, addNumber
<1>2. CASE ~(avail(b) > piece.len)
    <2>1. piece.what \in {"integer", "pointer", "double"} => ~(avail(b) >= kMaxNumericSize)
        BY <1>2, SMTT(60), Z3T(60) DEF avail
    <2>. QED BY <1>2, <2>1, ZenonT(60), ZenonT(90) DEF Out, append, addNumber
<1>. QED BY <1>1, <1>2, SMTT(60), Z3T(60)

LEMMA TimesMonotone ==
    ASSUME NEW a \in Nat, NEW b \in Nat, NEW u \in Nat, a <= b
    PROVE  a * u <= b * u
BY SMTT(60), Z3T(60)

\* What %.<d>f prints of a quotient p / u between 99.95 and hi + 1/2.
LEMMA MantissaBounds ==
    ASSUME NEW m \in Nat, NEW p \in Nat, NEW u \in Nat \ {0}, NEW hi \in Nat,
           2 * (m * u) <= 2 * p + u, 2 * p <= 2 * (m * u) + u,
           100 * p >= 9995 * u, 2 * p < (2 * hi + 1) * u
    PROVE  m \in 100..hi
<1>1. ASSUME m < 100 PROVE FALSE
    <2>1. m * u <= 99 * u
        BY <1>1, TimesMonotone, SMTT(60), Z3T(60)
    <2>2. m * u \in Int
        BY SMTT(60), Z3T(60)
    <2>. QED BY <2>1, <2>2, SMTT(60), Z3T(60)
<1>2. ASSUME m > hi PROVE FALSE
    <2>1. (hi + 1) * u <= m * u
        BY <1>2, TimesMonotone, SMTT(60), Z3T(60)
    <2>2. (hi + 1) * u = hi * u + u /\ (2 * hi + 1) * u = 2 * (hi * u) + u
        BY SMTT(60), Z3T(60)
    <2>3. m * u \in Int /\ hi * u \in Int
        BY SMTT(60), Z3T(60)
    <2>. QED BY <2>1, <2>2, <2>3, SMTT(60), Z3T(60)
<1>. QED BY <1>1, <1>2, SMTT(60), Z3T(60)

\* m is nearest to the double p / u, and p below hi + 1/2 by more than the quotient is
\* off.
NearestWithin(m, p, u, hi) ==
    /\ 2 * (m * u) * kExact <= (2 * p + u) * kExact + 2 * p
    /\ 2 * p * kExact <= (2 * (m * u) + u) * kExact + 2 * p
    /\ 100 * p >= 9995 * u
    /\ (2 * p + u) * kExact + 2 * p < 2 * ((hi + 1) * u) * kExact

\* The same of the double nearest to p / u.
LEMMA QuotientBounds ==
    ASSUME NEW m \in Nat, NEW p \in Nat, NEW u \in Nat \ {0}, NEW hi \in Nat,
           NearestWithin(m, p, u, hi)
    PROVE  m \in 100..hi
<1>1. ASSUME m < 100 PROVE FALSE
    <2>1. m * u <= 99 * u
        BY <1>1, TimesMonotone, SMTT(60), Z3T(60)
    <2>2. PICK mu \in Int : mu = m * u
        BY SMTT(60), Z3T(60)
    <2>. QED BY <2>1, <2>2, SMTT(60), Z3T(60) DEF kExact, NearestWithin
<1>2. ASSUME m > hi PROVE FALSE
    <2>1. (hi + 1) * u <= m * u
        BY <1>2, TimesMonotone, SMTT(60), Z3T(60)
    <2>2. PICK mu \in Int : mu = m * u
        BY SMTT(60), Z3T(60)
    <2>3. PICK hu \in Int : hu = (hi + 1) * u
        BY SMTT(60), Z3T(60)
    <2>. QED BY <2>1, <2>2, <2>3, SMTT(60), Z3T(60) DEF kExact, NearestWithin
<1>. QED BY <1>1, <1>2, SMTT(60), Z3T(60)

\* formatSI(s) takes exactly five characters from 1000 to 2^53, three digits, a point and
\* a unit ("Format a number with 5 characters"): the thresholds 9995, 99950, 999500... are
\* where rounding would make a fourth digit or leave only two, and the quotient of two
\* doubles is not so far off as to cross them.  Above 2^53 the conversion of s to a double
\* may cross one: 99949999999999999 is printed as 100.0P.
THEOREM SIHasFiveCharacters ==
    ASSUME NEW s \in Nat, NEW n, NEW m \in Nat, NEW below \in Nat \ {0}, NEW u,
           s < kExact, AsDouble(s, n),
           u = 1000 * below, below = 1 \/ below >= 1000,
           formatSI(s, u), RoundsQuotient(m, n, u, decimalsSI(s, u))
    PROVE  m \in 100..999
<1>. DEFINE d == decimalsSI(s, u)
            p == s * Pow10(d)
<1>0. n = s
    BY SMTT(60), Z3T(60) DEF AsDouble, kExact
<1>1. u \in Nat \ {0}
    BY SMTT(60), Z3T(60)
<1>2. 10000 * s >= 9995 * u /\ 1000 * s < 999500 * u
  <2>1. CASE below = 1
    BY <1>1, <2>1, SMTT(60), Z3T(60) DEF formatSI, unitSI
  <2>2. CASE below >= 1000
    <3>1. u # 1000 /\ u \div 1000 = below
      BY <2>2, SMTT(60), Z3T(60)
    <3> QED
      BY <1>1, <3>1, SMTT(60), Z3T(60) DEF formatSI, unitSI
  <2> QED
    BY <2>1, <2>2, SMTT(60), Z3T(60)
<1>3. p \in Nat /\ 100 * p >= 9995 * u /\ (2 * p + u) * kExact + 2 * p < 2 * (1000 * u) * kExact
  <2>1. CASE 1000 * s < 9995 * u
    <3>1. p = s * 100
      BY <2>1, SMTT(60), Z3T(60) DEF decimalsSI, Pow10
    <3> HIDE DEF p
    <3> QED
      BY <1>1, <1>2, <2>1, <3>1, SMTT(60), Z3T(60) DEF kExact
  <2>2. CASE ~(1000 * s < 9995 * u) /\ 1000 * s < 99950 * u
    <3>1. p = s * 10
      BY <2>2, SMTT(60), Z3T(60) DEF decimalsSI, Pow10
    <3> HIDE DEF p
    <3> QED
      BY <1>1, <1>2, <2>2, <3>1, SMTT(60), Z3T(60) DEF kExact
  <2>3. CASE ~(1000 * s < 9995 * u) /\ ~(1000 * s < 99950 * u)
    <3>1. p = s
      BY <2>3, SMTT(60), Z3T(60) DEF decimalsSI, Pow10
    <3> HIDE DEF p
    <3> QED
      BY <1>1, <1>2, <2>3, <3>1, SMTT(60), Z3T(60) DEF kExact
  <2> HIDE DEF p
  <2> QED
    BY <2>1, <2>2, <2>3, SMTT(60), Z3T(60)
<1>4. /\ 2 * (m * u) * kExact <= (2 * p + u) * kExact + 2 * p
      /\ 2 * p * kExact <= (2 * (m * u) + u) * kExact + 2 * p
    BY <1>0, SMTT(60), Z3T(60) DEF RoundsQuotient
<1>. HIDE DEF p
<1>5. PICK hi \in Nat : hi = 999
    BY SMTT(60), Z3T(60)
<1>6. (2 * p + u) * kExact + 2 * p < 2 * ((hi + 1) * u) * kExact
    BY <1>3, <1>5, SMTT(60), Z3T(60) DEF kExact
<1>7. p \in Nat /\ 100 * p >= 9995 * u
    BY <1>3, SMTT(60), Z3T(60)
<1>8. NearestWithin(m, p, u, hi)
    BY <1>4, <1>6, <1>7, SMTT(60), Z3T(60) DEF NearestWithin
<1>9. m \in 100..hi
    BY <1>1, <1>7, <1>8, QuotientBounds, SMTT(60), Z3T(60)
<1>. QED BY <1>5, <1>9, SMTT(60), Z3T(60)

\* formatIEC(s) takes at most six characters from 1024 to 2^53: three digits and a point
\* before Ki, or four digits up to 1023Ki.
THEOREM IECHasSixCharacters ==
    ASSUME NEW s \in Nat, NEW n, NEW m \in Nat, NEW below \in Nat, NEW u,
           s < kExact, AsDouble(s, n),
           u = 1024 \/ (u = 1024 * below /\ below >= 1024),
           formatIEC(n, u), Rounds(m, n, u, decimalsIEC(n, u))
    PROVE  m \in 100..1023 /\ (decimalsIEC(n, u) # 0 => m \in 100..999)
<1>0. n = s
    BY SMTT(60), Z3T(60) DEF AsDouble, kExact
<1>. DEFINE d == decimalsIEC(s, u)
            p == s * Pow10(d)
<1>1. u \in Nat \ {0}
    BY SMTT(60), Z3T(60)
<1>2. 10000 * s >= 9995 * u /\ 10 * s < 10235 * u
    BY <1>0, <1>1, SMTT(60), Z3T(60) DEF formatIEC, unitIEC
<1>3. /\ p \in Nat /\ 100 * p >= 9995 * u
      /\ 2 * p < (2 * 1023 + 1) * u
      /\ d # 0 => 2 * p < (2 * 999 + 1) * u
    BY <1>1, <1>2, SMTT(60), Z3T(60) DEF decimalsIEC, Pow10
<1>4. 2 * (m * u) <= 2 * p + u /\ 2 * p <= 2 * (m * u) + u
    BY <1>0, SMTT(60), Z3T(60) DEF Rounds
<1>. HIDE DEF p, d
<1>5. ASSUME NEW hi \in Nat, 2 * p < (2 * hi + 1) * u
      PROVE  m \in 100..hi
    BY <1>1, <1>3, <1>4, <1>5, MantissaBounds, SMTT(60), Z3T(60)
<1>6. m \in 100..1023
    BY <1>3, <1>5, SMTT(60), Z3T(60)
<1>7. d # 0 => m \in 100..999
    BY <1>3, <1>5, SMTT(60), Z3T(60)
<1>. QED BY <1>0, <1>6, <1>7, SMTT(60), Z3T(60) DEF d

-----------------------------------------------------------------------------
\* The inductive invariant: LinesAccountedFor, with the gaps to come counted among the
\* gaps, the buffers without gaps, and the last line in the current buffer.
LineInv ==
    /\ done <= Len(buffersToWrite)
    /\ Len(buffersToWrite) > MaxBuffers => done = 0
    /\ pc # "write" => done = 0
    /\ currentBuffer_ # << >> => currentBuffer_[Len(currentBuffer_)] = logged
    /\ dropped \in SUBSET (1..logged)
    /\ Ordered(written, OnTheWay)
    /\ Held(written, OnTheWay) = (1..logged) \ dropped
    /\ Announced(written, Len(written), dropped, errors)
    /\ Cardinality(Runs(lost)) <= ignored

\* A failure of stdio loses one run of entries, or makes one longer.
LEMMA LosesOneRun ==
    ASSUME TypeOK, NEW h \in Nat, flushed <= h, WriteOut(h), Cardinality(Runs(lost)) <= ignored
    PROVE  Cardinality(Runs(lost))' <= ignored'
<1>1. PICK k \in flushed..h : /\ lost' = lost \cup (k + 1)..h
                             /\ ignored' = IF k = h THEN ignored ELSE ignored + 1
    BY ZenonT(60), ZenonT(90) DEF WriteOut
<1>2. flushed \in Nat /\ lost \subseteq 1..flushed /\ ignored \in Nat /\ k \in Nat /\ k <= h
    BY SMTT(60), Z3T(60) DEF TypeOK
<1>3. IsFiniteSet(Runs(lost)) /\ Cardinality(Runs(lost)) \in Nat
    <2>1. IsFiniteSet(1..flushed)
        BY <1>2, FS_Interval, SMTT(60), Z3T(60)
    <2>2. Runs(lost) \subseteq 1..flushed
        BY <1>2, ZenonT(60), ZenonT(90) DEF Runs
    <2>. QED BY <2>1, <2>2, FS_Subset, FS_CardinalityType, ZenonT(60), ZenonT(90)
<1>4. CASE k = h
    <2>1. (k + 1)..h = {}
        BY <1>2, <1>4, SMTT(60), Z3T(60)
    <2>2. lost' = lost /\ ignored' = ignored
        BY <1>1, <1>4, <2>1, SMTT(60), Z3T(60)
    <2>. QED BY <2>2, ZenonT(60), ZenonT(90)
<1>5. CASE k # h
    <2>1. ASSUME NEW i \in Runs(lost') PROVE i \in Runs(lost) \cup {k + 1}
        <3>1. i \in lost \cup (k + 1)..h /\ i - 1 \notin lost /\ i - 1 \notin (k + 1)..h
            BY <1>1, SMTT(60), Z3T(60) DEF Runs
        <3>2. CASE i \in lost
            BY <3>1, <3>2, SMTT(60), Z3T(60) DEF Runs
        <3>3. CASE i \in (k + 1)..h
            BY <1>2, <3>1, <3>3, SMTT(60), Z3T(60)
        <3>. QED BY <3>1, <3>2, <3>3, SMTT(60), Z3T(60)
    <2>2. Runs(lost') \subseteq Runs(lost) \cup {k + 1}
        BY <2>1, ZenonT(60), ZenonT(90)
    <2>3. Cardinality(Runs(lost')) \in Nat /\ Cardinality(Runs(lost')) <= Cardinality(Runs(lost)) + 1
        BY <1>3, <2>2, OneMore, ZenonT(60), ZenonT(90)
    <2>4. ignored' = ignored + 1
        BY <1>1, <1>5, SMTT(60), Z3T(60)
    <2>. QED BY <1>2, <1>3, <2>3, <2>4, SMTT(60), Z3T(60)
<1>. QED BY <1>4, <1>5, ZenonT(60), ZenonT(90)

\* What LogFile::flush and append lose.
LEMMA FlushLosesOneRun ==
    ASSUME IInv, LineInv, Flush
    PROVE  Cardinality(Runs(lost))' <= ignored'
<1>1. Len(written) \in Nat /\ flushed <= Len(written) /\ TypeOK
    BY SMTT(60), Z3T(60) DEF IInv, TypeOK
<1>2. WriteOut(Len(written)) /\ Cardinality(Runs(lost)) <= ignored
    BY ZenonT(60), ZenonT(90) DEF Flush, LineInv
<1>. QED BY <1>1, <1>2, LosesOneRun, ZenonT(60), ZenonT(90)

LEMMA AppendLosesOneRun ==
    ASSUME IInv, LineInv, NEW lines, NEW n \in Nat, FileAppend(lines, n)
    PROVE  Cardinality(Runs(lost))' <= ignored'
<1>1. Len(written) \in Nat /\ flushed \in Nat /\ TypeOK
    BY SMTT(60), Z3T(60) DEF IInv, TypeOK
<1>2. PICK h \in flushed..(Len(written) + n) : WriteOut(h)
    BY ZenonT(60), ZenonT(90) DEF FileAppend
<1>3. h \in Nat /\ flushed <= h
    BY <1>1, SMTT(60), Z3T(60)
<1>4. Cardinality(Runs(lost)) <= ignored
    BY ZenonT(60), ZenonT(90) DEF LineInv
<1>. QED BY <1>1, <1>2, <1>3, <1>4, LosesOneRun, ZenonT(60), ZenonT(90)

\* What the invariants say of the buffers on their way.
LEMMA WayNow ==
    ASSUME IInv, LineInv
    PROVE  /\ WayIs(OnTheWay, buffersToWrite, done, buffers_, currentBuffer_)
           /\ UpTo(written, OnTheWay, logged)
           /\ logged \in Nat /\ errors \in Nat /\ Len(written) \in Nat
           /\ DOMAIN written = 1..Len(written)
<1>1. /\ buffersToWrite \in Seq(Seq(Nat)) /\ buffers_ \in Seq(Seq(Nat))
      /\ currentBuffer_ \in Seq(Nat) /\ done \in Nat
      /\ logged \in Nat /\ errors \in Nat /\ written \in Seq(Nat)
    BY DEF IInv, TypeOK
<1>2. done <= Len(buffersToWrite) /\ Held(written, OnTheWay) = (1..logged) \ dropped
    BY ZenonT(60), ZenonT(90) DEF LineInv
<1>3. WayIs(OnTheWay, buffersToWrite, done, buffers_, currentBuffer_)
    BY <1>1, <1>2, WayIndex, ZenonT(60), ZenonT(90) DEF OnTheWay
<1>4. UpTo(written, OnTheWay, logged)
    BY <1>1, <1>2, HeldUpTo, ZenonT(60), ZenonT(90)
<1>5. Len(written) \in Nat /\ DOMAIN written = 1..Len(written)
    BY <1>1, SMTT(60), Z3T(60)
<1>. QED BY <1>1, <1>3, <1>4, <1>5, ZenonT(60), ZenonT(90)

\* The same of the next state, from the types alone.
LEMMA WayNext ==
    ASSUME IInv', done' <= Len(buffersToWrite')
    PROVE  WayIs(OnTheWay', buffersToWrite', done', buffers_', currentBuffer_')
<1>1. /\ buffersToWrite' \in Seq(Seq(Nat)) /\ buffers_' \in Seq(Seq(Nat))
      /\ currentBuffer_' \in Seq(Nat) /\ done' \in Nat
    BY DEF IInv, TypeOK
<1>. QED BY <1>1, WayIndex, ZenonT(60), ZenonT(90) DEF OnTheWay

\* append(): the line goes to the current buffer or, when that is full, to the next one.
LEMMA AppendKeeps ==
    ASSUME IInv, IInv', LineInv, AppendLine
    PROVE  LineInv'
<1>. DEFINE way == OnTheWay
            w == OnTheWay'
            m == (Len(buffersToWrite) - done) + Len(buffers_) + 1
<1>1. /\ UNCHANGED <<pc, buffersToWrite, done, written, dropped, errors, lost, ignored>>
      /\ logged' = logged + 1
    BY DEF AppendLine, back, file
<1>2. /\ WayIs(way, buffersToWrite, done, buffers_, currentBuffer_)
      /\ UpTo(written, way, logged) /\ logged \in Nat
    BY WayNow, ZenonT(60), ZenonT(90)
<1>3. done' <= Len(buffersToWrite')
    BY <1>1, SMTT(60), Z3T(60) DEF LineInv
<1>4. WayIs(w, buffersToWrite, done, buffers_', currentBuffer_')
    BY <1>1, <1>3, WayNext, ZenonT(60), ZenonT(90)
<1>5. /\ Ordered(written, way) /\ Held(written, way) = (1..logged) \ dropped
      /\ dropped \in SUBSET (1..logged)
      /\ currentBuffer_ # << >> => currentBuffer_[Len(currentBuffer_)] = logged
    BY ZenonT(60), ZenonT(90) DEF LineInv
<1>6. /\ currentBuffer_ \in Seq(Nat) /\ buffers_ \in Seq(Seq(Nat))
      /\ Len(currentBuffer_) \in Nat /\ DOMAIN currentBuffer_ = 1..Len(currentBuffer_)
    BY SMTT(60), Z3T(60) DEF IInv, TypeOK
<1>. HIDE DEF way, w
<1>7. Ordered(written, way) /\ UpTo(written, way, logged) /\ logged \in Nat
    BY <1>2, <1>5, SMTT(60), Z3T(60)
<1>8. /\ Ordered(written, w) /\ Held(written, w) = Held(written, way) \cup {logged + 1}
      /\ currentBuffer_' # << >> /\ currentBuffer_'[Len(currentBuffer_')] = logged'
    <2>1. CASE Len(currentBuffer_) < Capacity
        <3>. DEFINE k == Len(currentBuffer_)
        <3>1. currentBuffer_' = Append(currentBuffer_, logged + 1) /\ buffers_' = buffers_
            BY <2>1, SMTT(60), Z3T(60) DEF AppendLine
        <3>2. /\ Len(currentBuffer_') = k + 1 /\ DOMAIN currentBuffer_' = 1..(k + 1)
              /\ \A i \in 1..k : currentBuffer_'[i] = currentBuffer_[i]
              /\ currentBuffer_'[k + 1] = logged + 1 /\ currentBuffer_' # << >>
            <4>1. /\ Len(currentBuffer_') = k + 1 /\ DOMAIN currentBuffer_' = 1..(k + 1)
                  /\ currentBuffer_'[k + 1] = logged + 1
                BY <1>2, <1>6, <3>1, SMTT(60), Z3T(60)
            <4>2. \A i \in 1..k : currentBuffer_'[i] = currentBuffer_[i]
                BY <1>2, <1>6, <3>1, SMTT(60), Z3T(60)
            <4>3. currentBuffer_' # << >>
                BY <1>6, <4>1, SMTT(60), Z3T(60)
            <4>. QED BY <4>1, <4>2, <4>3, SMTT(60), Z3T(60)
        <3>3. WayIs(w, buffersToWrite, done, buffers_, currentBuffer_')
            BY <1>4, <3>1, ZenonT(60), ZenonT(90)
        <3>4. /\ m \in Nat \ {0} /\ DOMAIN way = 1..m /\ DOMAIN w = 1..m
              /\ way[m] = currentBuffer_ /\ w[m] = currentBuffer_'
              /\ \A a \in 1..m : a # m => w[a] = way[a]
            <4>1. TwoCurrent(way, w, buffersToWrite, done, buffers_, currentBuffer_, currentBuffer_', m)
                BY <1>2, <3>3, ZenonT(60), ZenonT(90) DEF TwoCurrent
            <4>2. LastChanged(way, w, m, currentBuffer_, currentBuffer_')
                BY <4>1, WayOfCurrent, ZenonT(60), ZenonT(90)
            <4>. QED BY <4>2, ZenonT(60), ZenonT(90) DEF LastChanged
        <3>5. k > 0 => currentBuffer_[k] = logged
            BY <1>5, <1>6, SMTT(60), Z3T(60)
        <3>. HIDE DEF k, m
        <3>6. LastGrows(way, w, m, k, logged) /\ k \in Nat /\ m \in Nat \ {0}
            BY <1>6, <3>2, <3>4, <3>5, ZenonT(60), ZenonT(90) DEF k, LastGrows
        <3>7. Ordered(written, w) /\ Held(written, w) = Held(written, way) \cup {logged + 1}
            BY <1>7, <3>6, BufferGrows, SMTT(60), Z3T(60)
        <3>. QED BY <1>1, <3>2, <3>7, SMTT(60), Z3T(60)
    <2>2. CASE ~(Len(currentBuffer_) < Capacity)
        <3>1. /\ currentBuffer_' = << logged + 1 >>
              /\ buffers_' = Append(buffers_, currentBuffer_)
            BY <2>2, SMTT(60), Z3T(60) DEF AppendLine
        <3>2. WayIs(w, buffersToWrite, done, Append(buffers_, currentBuffer_), << logged + 1 >>)
            BY <1>4, <3>1, ZenonT(60), ZenonT(90)
        <3>3. /\ m \in Nat \ {0} /\ DOMAIN way = 1..m /\ DOMAIN w = 1..(m + 1)
              /\ w[m + 1] = << logged + 1 >>
              /\ \A a \in 1..m : w[a] = way[a]
            <4>1. ThenFull(way, w, Seq(Nat), buffersToWrite, done, buffers_, currentBuffer_,
                           << logged + 1 >>, m)
                BY <1>2, <1>6, <3>2, ZenonT(60), ZenonT(90) DEF ThenFull
            <4>2. OneAdded(way, w, m, << logged + 1 >>)
                BY <4>1, WayOfFull, ZenonT(60), ZenonT(90)
            <4>. QED BY <4>2, ZenonT(60), ZenonT(90) DEF OneAdded
        <3>4. /\ \A i \in DOMAIN w[m + 1] : i = 1 /\ w[m + 1][i] = logged + 1
              /\ Range(w[m + 1]) = {logged + 1}
              /\ currentBuffer_' # << >> /\ currentBuffer_'[Len(currentBuffer_')] = logged'
            BY <1>1, <3>1, <3>3, SMTT(60), Z3T(60) DEF Range
        <3>. HIDE DEF m
        <3>5. m \in Nat /\ Grows(way, w, m, logged)
            BY <3>3, <3>4, ZenonT(60), ZenonT(90) DEF Grows
        <3>6. Ordered(written, w) /\ Held(written, w) = Held(written, way) \cup Range(w[m + 1])
            BY <1>7, <3>5, WayGrows, SMTT(60), Z3T(60)
        <3>. QED BY <3>3, <3>4, <3>6, SMTT(60), Z3T(60)
    <2>. QED BY <2>1, <2>2, SMTT(60), Z3T(60)
<1>9. Held(written, w) = (1..logged') \ dropped /\ dropped \in SUBSET (1..logged')
    BY <1>1, <1>2, <1>5, <1>8, SMTT(60), Z3T(60)
<1>10. Announced(written, Len(written), dropped, errors) /\ Cardinality(Runs(lost)) <= ignored
    BY ZenonT(60), ZenonT(90) DEF LineInv
<1>11. /\ Len(buffersToWrite') > MaxBuffers => done' = 0
       /\ pc' # "write" => done' = 0
    BY <1>1, ZenonT(60), ZenonT(90) DEF LineInv
<1>. QED BY <1>1, <1>3, <1>8, <1>9, <1>10, <1>11, ZenonT(60), ZenonT(90) DEF LineInv, w

\* The critical section of threadFunc: the buffers go on as they are, an empty one follows.
LEMMA SwapKeeps ==
    ASSUME IInv, IInv', LineInv, pc \in {"lock", "waiting"}, Swap
    PROVE  LineInv'
<1>. DEFINE way == OnTheWay
            w == OnTheWay'
            f == Len(buffers_)
            m == f + 1
<1>1. /\ buffersToWrite' = Append(buffers_, currentBuffer_) /\ done' = 0
      /\ buffers_' = << >> /\ currentBuffer_' = << >> /\ pc' = "write"
      /\ UNCHANGED <<logged, written, dropped, errors, lost, ignored>>
    BY SMTT(60), Z3T(60) DEF Swap, file
<1>2. /\ WayIs(way, buffersToWrite, done, buffers_, currentBuffer_)
      /\ UpTo(written, way, logged) /\ logged \in Nat
    BY WayNow, ZenonT(60), ZenonT(90)
<1>3. /\ currentBuffer_ \in Seq(Nat) /\ buffers_ \in Seq(Seq(Nat)) /\ f \in Nat
      /\ buffersToWrite = << >> /\ done = 0
    <2>1. currentBuffer_ \in Seq(Nat) /\ buffers_ \in Seq(Seq(Nat))
        BY SMTT(60), Z3T(60) DEF IInv, TypeOK
    <2>2. buffersToWrite = << >> /\ done = 0
        <3>1. pc # "write"
            BY SMTT(60), Z3T(60)
        <3>. QED BY <3>1, ZenonT(60), ZenonT(90) DEF IInv, BuffersSuffice, LineInv
    <2>. QED BY <2>1, <2>2, SMTT(60), Z3T(60)
<1>4. /\ Len(buffersToWrite') = m /\ m \in Nat
      /\ \A a \in 1..f : buffersToWrite'[a] = buffers_[a]
      /\ buffersToWrite'[m] = currentBuffer_
    <2>1. buffersToWrite' = Append(buffers_, currentBuffer_)
        BY <1>1, SMTT(60), Z3T(60)
    <2>2. Len(buffersToWrite') = m /\ m \in Nat
        BY <1>3, <2>1, SMTT(60), Z3T(60)
    <2>3. \A a \in 1..f : buffersToWrite'[a] = buffers_[a]
        BY <1>3, <2>1, SMTT(60), Z3T(60)
    <2>4. buffersToWrite'[m] = currentBuffer_
        BY <1>3, <2>1, SMTT(60), Z3T(60)
    <2>. QED BY <2>2, <2>3, <2>4, SMTT(60), Z3T(60)
<1>5. done' <= Len(buffersToWrite')
    BY <1>1, <1>4, SMTT(60), Z3T(60)
<1>6. WayIs(w, buffersToWrite', 0, << >>, << >>)
    BY <1>1, <1>5, WayNext, ZenonT(60), ZenonT(90)
<1>7. /\ Ordered(written, way) /\ Held(written, way) = (1..logged) \ dropped
      /\ dropped \in SUBSET (1..logged)
    BY ZenonT(60), ZenonT(90) DEF LineInv
<1>. HIDE DEF way, w
<1>8. WayAre(way, buffersToWrite, 0, buffers_, currentBuffer_, 0, f)
    <2>1. Len(buffersToWrite) - done = 0
        BY <1>3, SMTT(60), Z3T(60)
    <2>. QED BY <1>2, <1>3, <2>1, ZenonT(60), ZenonT(90) DEF WayIs
<1>9. WayAre(w, buffersToWrite', 0, << >>, << >>, m, 0)
    <2>1. Len(buffersToWrite') - 0 = m /\ Len(<< >>) = 0
        BY <1>4, SMTT(60), Z3T(60)
    <2>. QED BY <1>6, <2>1, ZenonT(60), ZenonT(90) DEF WayIs
<1>. HIDE DEF f
<1>10. Grows(way, w, m, logged) /\ w[m + 1] = << >>
    <2>1. /\ DOMAIN way = 1..m /\ DOMAIN w = 1..(m + 1) /\ w[m + 1] = << >>
          /\ \A a \in 1..m : w[a] = way[a]
        <3>1. ThenSwap(way, w, buffersToWrite, buffersToWrite', buffers_, currentBuffer_, f, m)
            BY <1>3, <1>4, <1>8, <1>9, ZenonT(60), ZenonT(90) DEF ThenSwap
        <3>2. OneAdded(way, w, m, << >>)
            BY <3>1, WayOfSwap, ZenonT(60), ZenonT(90)
        <3>. QED BY <3>2, ZenonT(60), ZenonT(90) DEF OneAdded
    <2>2. \A i \in DOMAIN w[m + 1] : i = 1 /\ w[m + 1][i] = logged + 1
        BY <2>1, SMTT(60), Z3T(60)
    <2>. QED BY <2>1, <2>2, ZenonT(60), ZenonT(90) DEF Grows
<1>11. Ordered(written, way) /\ UpTo(written, way, logged) /\ logged \in Nat
    BY <1>2, <1>7, SMTT(60), Z3T(60)
<1>. HIDE DEF m
<1>12. Ordered(written, w) /\ Held(written, w) = Held(written, way) \cup Range(w[m + 1])
    BY <1>4, <1>10, <1>11, WayGrows, SMTT(60), Z3T(60)
<1>13. Range(w[m + 1]) = {}
    BY <1>10, SMTT(60), Z3T(60) DEF Range
<1>14. Held(written, w) = (1..logged) \ dropped
    BY <1>7, <1>12, <1>13, SMTT(60), Z3T(60)
<1>15. Announced(written, Len(written), dropped, errors) /\ Cardinality(Runs(lost)) <= ignored
    BY ZenonT(60), ZenonT(90) DEF LineInv
<1>. QED BY <1>1, <1>5, <1>7, <1>12, <1>14, <1>15, ZenonT(60), ZenonT(90) DEF LineInv, w

\* What the file has after n lines of b are appended.
LEMMA FileGrows ==
    ASSUME NEW T, NEW out \in Seq(T), NEW b \in Seq(T), NEW n \in 0..Len(b)
    PROVE  LET out2 == out \o SubSeq(b, 1, n) IN
           /\ Len(out2) = Len(out) + n /\ DOMAIN out2 = 1..(Len(out) + n)
           /\ \A i \in 1..Len(out) : out2[i] = out[i]
           /\ \A i \in 1..n : out2[Len(out) + i] = b[i]
<1>. DEFINE t == SubSeq(b, 1, n)
<1>1. t \in Seq(T) /\ Len(t) = n /\ (\A i \in 1..n : t[i] = b[i]) /\ n \in Nat
    BY SMTT(60), Z3T(60)
<1>. HIDE DEF t
<1>2. \A u \in Seq(T), v \in Seq(T) :
         /\ u \o v \in Seq(T) /\ Len(u \o v) = Len(u) + Len(v)
         /\ \A i \in 1..Len(u) : (u \o v)[i] = u[i]
         /\ \A i \in 1..Len(v) : (u \o v)[Len(u) + i] = v[i]
    BY ConcatIndex, SMTT(60), Z3T(60)
<1>3. /\ out \o t \in Seq(T) /\ Len(out \o t) = Len(out) + n
      /\ \A i \in 1..Len(out) : (out \o t)[i] = out[i]
      /\ \A i \in 1..n : (out \o t)[Len(out) + i] = b[i]
    BY <1>1, <1>2, ZenonT(60), ZenonT(90)
<1>4. DOMAIN (out \o t) = 1..(Len(out) + n)
    BY <1>3, SMTT(60), Z3T(60)
<1>. QED BY <1>3, <1>4, ZenonT(60), ZenonT(90) DEF t

\* What a write leaves behind, by position.
LEMMA UnwrittenRest ==
    ASSUME NEW T, NEW b \in Seq(T), NEW n \in 0..Len(b)
    PROVE  Unwritten(b, n) = Rest(b, n, Len(b))
<1>. DEFINE t == SubSeq(b, n + 1, Len(b))
            q == Len(b)
<1>1. DOMAIN t = 1..(q - n) /\ \A i \in 1..(q - n) : t[i] = b[n + i]
    BY SMTT(60), Z3T(60)
<1>2. \A i \in 1..(q - n) : n + i \in (n + 1)..q
    BY SMTT(60), Z3T(60)
<1>3. \A j \in (n + 1)..q : j - n \in 1..(q - n) /\ n + (j - n) = j
    BY SMTT(60), Z3T(60)
<1>. HIDE DEF t, q
<1>4. ASSUME NEW x PROVE x \in Range(t) <=> \E j \in (n + 1)..q : x = b[j]
    <2>1. x \in Range(t) <=> \E i \in 1..(q - n) : t[i] = x
        BY <1>1, SMTT(60), Z3T(60) DEF Range
    <2>2. (\E i \in 1..(q - n) : t[i] = x) <=> \E i \in 1..(q - n) : b[n + i] = x
        BY <1>1, ZenonT(60), ZenonT(90)
    <2>3. (\E i \in 1..(q - n) : b[n + i] = x) => \E j \in (n + 1)..q : x = b[j]
        BY <1>2, ZenonT(60), ZenonT(90)
    <2>4. ASSUME NEW j \in (n + 1)..q, x = b[j] PROVE \E i \in 1..(q - n) : b[n + i] = x
        BY <1>3, <2>4, ZenonT(60), ZenonT(90)
    <2>. QED BY <2>1, <2>2, <2>3, <2>4, ZenonT(60), ZenonT(90)
<1>5. Range(t) = {b[j] : j \in (n + 1)..q}
    BY <1>4, SMTT(60), Z3T(60)
<1>. QED BY <1>5, ZenonT(60), ZenonT(90) DEF Unwritten, Rest, t, q

\* Too many buffers: the lines of all but two are one gap to come, and the notice, or the
\* error of writing it, announces that one.
LEMMA DropKeeps ==
    ASSUME IInv, IInv', LineInv, DropBuffers
    PROVE  LineInv'
<1>. DEFINE way == OnTheWay
            w == OnTheWay'
            q == Len(buffersToWrite)
            f == Len(buffers_)
            m == q + f + 1
            gone == LinesFrom3(way, q)
            p == Len(written)
<1>1. /\ buffersToWrite' = SubSeq(buffersToWrite, 1, 2) /\ dropped' = dropped \cup Surplus
      /\ UNCHANGED <<pc, done, buffers_, currentBuffer_, logged>>
    BY DEF DropBuffers, front
<1>2. /\ WayIs(way, buffersToWrite, done, buffers_, currentBuffer_)
      /\ UpTo(written, way, logged) /\ logged \in Nat /\ errors \in Nat
      /\ p \in Nat /\ DOMAIN written = 1..p
    BY WayNow, ZenonT(60), ZenonT(90)
<1>3. buffersToWrite \in Seq(Seq(Nat)) /\ buffers_ \in Seq(Seq(Nat)) /\ written \in Seq(Nat)
    BY SMTT(60), Z3T(60) DEF IInv, TypeOK
<1>4. q \in Nat /\ f \in Nat /\ 2 <= q /\ q < m /\ m \in Nat /\ done = 0
    BY <1>3, LogAssumption, SMTT(60), Z3T(60) DEF LogAssumption, DropBuffers, LineInv
<1>5. /\ Len(buffersToWrite') = 2
      /\ buffersToWrite'[1] = buffersToWrite[1] /\ buffersToWrite'[2] = buffersToWrite[2]
    BY <1>1, <1>3, <1>4, SMTT(60), Z3T(60)
<1>6. done' <= Len(buffersToWrite') /\ done' = 0
    BY <1>1, <1>4, <1>5, SMTT(60), Z3T(60)
<1>7. WayIs(w, buffersToWrite', 0, buffers_, currentBuffer_)
    BY <1>1, <1>6, WayNext, ZenonT(60), ZenonT(90)
<1>8. /\ Ordered(written, way) /\ UpTo(written, way, logged) /\ logged \in Nat
      /\ Held(written, way) = (1..logged) \ dropped /\ dropped \in SUBSET (1..logged)
      /\ Announced(written, p, dropped, errors)
    BY <1>2, ZenonT(60), ZenonT(90) DEF LineInv
<1>. HIDE DEF way, w
<1>9. WayAre(way, buffersToWrite, 0, buffers_, currentBuffer_, q, f)
    <2>1. Len(buffersToWrite) - done = q
        BY <1>4, SMTT(60), Z3T(60)
    <2>. QED BY <1>2, <1>4, <2>1, ZenonT(60), ZenonT(90) DEF WayIs
<1>10. WayAre(w, buffersToWrite', 0, buffers_, currentBuffer_, 2, f)
    <2>1. Len(buffersToWrite') - 0 = 2
        BY <1>5, SMTT(60), Z3T(60)
    <2>. QED BY <1>7, <2>1, ZenonT(60), ZenonT(90) DEF WayIs
<1>11. Shrinks(way, w, m, q) /\ \A a \in 1..q : way[a] = buffersToWrite[a]
    <2>1. ThenTwo(way, w, buffersToWrite, buffersToWrite', buffers_, currentBuffer_, q, f, m)
        BY <1>4, <1>5, <1>9, <1>10, ZenonT(60), ZenonT(90) DEF ThenTwo
    <2>2. TwoLeft(way, w, buffersToWrite, q, m)
        BY <2>1, WayOfTwo, ZenonT(60), ZenonT(90)
    <2>. QED BY <2>2, ZenonT(60), ZenonT(90) DEF TwoLeft
<1>11a. DOMAIN way = 1..m
    BY <1>11, ZenonT(60), ZenonT(90) DEF Shrinks
<1>. HIDE DEF m, q
<1>12. Surplus = gone
    <2>1. \A a \in 3..q : a \in 1..q
        BY <1>4, SMTT(60), Z3T(60)
    <2>2. \A a \in 3..q : way[a] = buffersToWrite[a]
        BY <1>11, <2>1, ZenonT(60), ZenonT(90)
    <2>. QED BY <2>2, SMTT(60), Z3T(60) DEF Surplus, LinesFrom3, q
<1>13. Ordered(written, w) /\ Held(written, w) = Held(written, way) \ gone
    <2>1. m \in Nat /\ q \in Nat /\ logged \in Nat
        BY <1>4, <1>8, ZenonT(60), ZenonT(90)
    <2>2. Ordered(written, way) /\ UpTo(written, way, logged) /\ Shrinks(way, w, m, q)
        BY <1>8, <1>11, ZenonT(60), ZenonT(90)
    <2>. QED BY <2>1, <2>2, WayShrinks, SMTT(60), Z3T(60)
<1>14. dropped' \in SUBSET (1..logged) /\ Held(written, w) = (1..logged) \ dropped'
    <2>1. gone \subseteq 1..logged
        <3>1. \A n : n \in gone <=> \E a \in 3..q : \E i \in DOMAIN way[a] : way[a][i] = n
            BY InLinesFrom3, SMTT(60), Z3T(60)
        <3>2. \A n : n \in gone => n \in Held(written, way)
            <4>1. \A a \in 3..q : a \in DOMAIN way
                BY <1>4, <1>11a, SMTT(60), Z3T(60)
            <4>. QED BY <3>1, <4>1, InHeld, ZenonT(60), ZenonT(90)
        <3>. QED BY <1>8, <3>2, ZenonT(60), ZenonT(90)
    <2>. QED BY <1>1, <1>8, <1>12, <1>13, <2>1, ZenonT(60), ZenonT(90)
<1>15. PICK x : LostRuns(written, dropped \cup gone) \subseteq LostRuns(written, dropped) \cup {x}
    <2>1. /\ q \in Nat /\ m \in Nat /\ 2 <= q /\ q < m /\ DOMAIN way = 1..m
          /\ gone = LinesFrom3(way, q)
        BY <1>4, <1>11a, SMTT(60), Z3T(60)
    <2>. HIDE DEF gone
    <2>. QED BY <1>8, <2>1, OneRun, SMTT(60), Z3T(60)
<1>16. dropped' = dropped \cup gone
    BY <1>1, <1>12, SMTT(60), Z3T(60)
<1>. HIDE DEF gone
<1>17. PICK n \in 0..1 : Fwrite(<< 0 >>, n)
    BY ZenonT(60), ZenonT(90) DEF DropBuffers, FileAppend
<1>18. PICK out2 : /\ out2 = written \o SubSeq(<< 0 >>, 1, 1) /\ Len(out2) = p + 1
                   /\ DOMAIN out2 = 1..(p + 1) /\ out2[p + 1] = 0
                   /\ \A i \in 1..p : out2[i] = written[i]
    <2>. DEFINE z == << 0 >>
                out2 == written \o SubSeq(z, 1, 1)
    <2>1. z \in Seq(Nat) /\ 1 \in 0..Len(z) /\ 1 \in 1..1 /\ z[1] = 0
        BY SMTT(60), Z3T(60)
    <2>. HIDE DEF z
    <2>2. /\ Len(out2) = p + 1 /\ DOMAIN out2 = 1..(p + 1)
          /\ \A i \in 1..p : out2[i] = written[i]
          /\ \A i \in 1..1 : out2[p + i] = z[i]
        BY <1>3, <2>1, FileGrows, SMTT(60), Z3T(60)
    <2>3. out2[p + 1] = 0
        BY <2>1, <2>2, ZenonT(60), ZenonT(90)
    <2>. QED BY <2>2, <2>3, ZenonT(60), ZenonT(90) DEF z
<1>19. Announced(written, p, dropped', errors + 1) /\ Announced(out2, p + 1, dropped', errors)
    <2>1. /\ p \in Nat /\ logged \in Nat /\ errors \in Nat /\ DOMAIN written = 1..p
          /\ dropped \in SUBSET (1..logged) /\ dropped' \in SUBSET (1..logged)
          /\ LostRuns(written, dropped') \subseteq LostRuns(written, dropped) \cup {x}
          /\ Announced(written, p, dropped, errors)
        BY <1>2, <1>8, <1>14, <1>15, <1>16, ZenonT(60), ZenonT(90)
    <2>. HIDE DEF p
    <2>. QED BY <1>18, <2>1, NoticeAnnounces, ZenonT(60), ZenonT(90)
<1>20. /\ Ordered(written', w) /\ Held(written', w) = Held(written, w)
       /\ Announced(written', Len(written'), dropped', errors')
    <2>1. CASE n = 0
        <3>1. written' = written \o SubSeq(<< 0 >>, 1, 0) /\ errors' = errors + 1
            BY <1>17, <2>1, SMTT(60), Z3T(60) DEF Fwrite
        <3>2. written' = written
            BY <1>3, <3>1, SMTT(60), Z3T(60)
        <3>. QED BY <1>13, <1>19, <3>1, <3>2, ZenonT(60), ZenonT(90)
    <2>2. CASE n = 1
        <3>1. written' = out2 /\ errors' = errors
            BY <1>17, <1>18, <2>2, SMTT(60), Z3T(60) DEF Fwrite
        <3>2. UpTo(written, w, logged)
            BY <1>8, <1>14, HeldUpTo, ZenonT(60), ZenonT(90)
        <3>3. Ordered(out2, w) /\ Held(out2, w) = Held(written, w)
            <4>1. /\ p \in Nat /\ logged \in Nat /\ DOMAIN written = 1..p
                  /\ DOMAIN out2 = 1..(p + 1) /\ out2[p + 1] = 0
                  /\ \A i \in 1..p : out2[i] = written[i]
                  /\ Ordered(written, w) /\ UpTo(written, w, logged)
                BY <1>2, <1>13, <1>18, <3>2, ZenonT(60), ZenonT(90)
            <4>. HIDE DEF p
            <4>. QED BY <4>1, NoticeAppended, SMTT(60), Z3T(60)
        <3>. QED BY <1>18, <1>19, <3>1, <3>3, ZenonT(60), ZenonT(90)
    <2>. QED BY <1>17, <2>1, <2>2, SMTT(60), Z3T(60)
<1>21. /\ Len(buffersToWrite') > MaxBuffers => done' = 0
       /\ pc' # "write" => done' = 0
       /\ currentBuffer_' # << >> => currentBuffer_'[Len(currentBuffer_')] = logged'
    BY <1>1, <1>6, ZenonT(60), ZenonT(90) DEF LineInv
<1>22. Cardinality(Runs(lost))' <= ignored'
    <2>1. PICK k \in 0..1 : FileAppend(<< 0 >>, k)
        BY ZenonT(60), ZenonT(90) DEF DropBuffers
    <2>2. k \in Nat
        BY SMTT(60), Z3T(60)
    <2>. QED BY <2>1, <2>2, AppendLosesOneRun, ZenonT(60), ZenonT(90)
<1>. QED BY <1>1, <1>6, <1>14, <1>20, <1>21, <1>22, ZenonT(60), ZenonT(90) DEF LineInv, w

\* One buffer is written, or the first lines of it.
LEMMA WriteKeeps ==
    ASSUME IInv, IInv', LineInv, WriteBuffer
    PROVE  LineInv'
<1>. DEFINE way == OnTheWay
            w == OnTheWay'
            b == buffersToWrite[done + 1]
            q == Len(b)
            m == (Len(buffersToWrite) - done) + Len(buffers_) + 1
            p == Len(written)
<1>1. /\ done' = done + 1 /\ done < Len(buffersToWrite) /\ Len(buffersToWrite) <= MaxBuffers
      /\ UNCHANGED <<pc, buffersToWrite, buffers_, currentBuffer_, logged>>
      /\ pc = "write"
    BY SMTT(60), Z3T(60) DEF WriteBuffer, front
<1>2. /\ WayIs(way, buffersToWrite, done, buffers_, currentBuffer_)
      /\ UpTo(written, way, logged) /\ logged \in Nat /\ errors \in Nat
      /\ p \in Nat /\ DOMAIN written = 1..p
    BY WayNow, Zenon
<1>3. /\ buffersToWrite \in Seq(Seq(Nat)) /\ written \in Seq(Nat) /\ done \in Nat
    BY SMTT(60), Z3T(60) DEF IInv, TypeOK
<1>4. b \in Seq(Nat) /\ q \in Nat /\ DOMAIN b = 1..q
    BY <1>1, <1>3, SMTT(60), Z3T(60)
<1>5. Len(buffersToWrite) \in Nat
    BY <1>3, SMTT(60), Z3T(60)
<1>6. done' <= Len(buffersToWrite')
    BY <1>1, <1>3, SMTT(60), Z3T(60)
<1>7. WayIs(w, buffersToWrite, done + 1, buffers_, currentBuffer_)
    BY <1>1, <1>6, WayNext, ZenonT(60), ZenonT(90)
<1>8. /\ Ordered(written, way) /\ UpTo(written, way, logged) /\ logged \in Nat
      /\ Held(written, way) = (1..logged) \ dropped /\ dropped \in SUBSET (1..logged)
      /\ Announced(written, p, dropped, errors)
    BY <1>2, Zenon DEF LineInv
<1>. HIDE DEF way, w
<1>9. /\ m \in Nat \ {0} /\ DOMAIN way = 1..m /\ DOMAIN w = 1..(m - 1) /\ way[1] = b
      /\ \A a \in 1..(m - 1) : w[a] = way[a + 1]
    <2>1. ThenNext(way, w, buffersToWrite, done, buffers_, currentBuffer_, m)
        BY <1>1, <1>2, <1>3, <1>5, <1>7, ZenonT(60), ZenonT(90) DEF ThenNext
    <2>2. FirstGone(way, w, m, b)
        BY <2>1, WayOfNext, ZenonT(60), ZenonT(90)
    <2>. QED BY <2>2, ZenonT(60), ZenonT(90) DEF FirstGone
<1>10. PICK n \in 0..q : Fwrite(b, n) /\ dropped' = dropped \cup Unwritten(b, n)
    BY SMTT(60), Z3T(60) DEF WriteBuffer, FileAppend
<1>11. /\ written' = written \o SubSeq(b, 1, n)
       /\ errors' = IF n = q THEN errors ELSE errors + 1
    BY <1>10, SMTT(60), Z3T(60) DEF Fwrite
<1>12. /\ Len(written') = p + n /\ DOMAIN written' = 1..(p + n)
       /\ \A i \in 1..p : written'[i] = written[i]
       /\ \A i \in 1..n : written'[p + i] = b[i]
    <2>1. written \in Seq(Nat) /\ b \in Seq(Nat) /\ n \in 0..Len(b)
        BY <1>3, <1>4, SMTT(60), Z3T(60)
    <2>. HIDE DEF b
    <2>2. LET out2 == written \o SubSeq(b, 1, n) IN
          /\ Len(out2) = Len(written) + n /\ DOMAIN out2 = 1..(Len(written) + n)
          /\ \A i \in 1..Len(written) : out2[i] = written[i]
          /\ \A i \in 1..n : out2[Len(written) + i] = b[i]
        BY <2>1, FileGrows, SMTT(60), Z3T(60)
    <2>. QED BY <1>11, <2>2, ZenonT(60), ZenonT(90)
<1>13. dropped' = dropped \cup Rest(way[1], n, q)
    BY <1>4, <1>9, <1>10, UnwrittenRest, Zenon
<1>14. Moves(written, way, written', w, p, m, n, q)
    BY <1>2, <1>4, <1>9, <1>12, ZenonT(60), ZenonT(90) DEF Moves
<1>. HIDE DEF m, q, p
<1>15. /\ p \in Nat /\ m \in Nat \ {0} /\ q \in Nat /\ n \in 0..q /\ errors \in Nat
    BY <1>2, <1>4, <1>9, SMTT(60), Z3T(60)
<1>16. Ordered(written', w) /\ Held(written', w) = Held(written, way) \ Rest(way[1], n, q)
    BY <1>8, <1>14, <1>15, WayMoves, SMTT(60), Z3T(60)
<1>17. Announced(written', p + n, dropped \cup Rest(way[1], n, q),
                 IF n = q THEN errors ELSE errors + 1)
    BY <1>8, <1>14, <1>15, WriteAnnounced, ZenonT(60), ZenonT(90)
<1>18. Rest(way[1], n, q) \subseteq 1..logged
    <2>1. 1 \in DOMAIN way
        BY <1>9, <1>15, SMTT(60), Z3T(60)
    <2>2. \A i \in (n + 1)..q : i \in DOMAIN way[1] /\ way[1][i] \in Held(written, way)
        <3>1. \A i \in (n + 1)..q : i \in DOMAIN way[1]
            BY <1>4, <1>9, <1>15, SMTT(60), Z3T(60)
        <3>. QED BY <2>1, <3>1, InHeld, ZenonT(60), ZenonT(90)
    <2>3. \A i \in (n + 1)..q : way[1][i] \in 1..logged
        BY <1>8, <2>2, ZenonT(60), ZenonT(90)
    <2>. QED BY <2>3, SMTT(60), Z3T(60) DEF Rest
<1>19. dropped' \in SUBSET (1..logged) /\ Held(written', w) = (1..logged) \ dropped'
    BY <1>8, <1>13, <1>16, <1>18, ZenonT(60), ZenonT(90)
<1>20. Announced(written', Len(written'), dropped', errors')
    BY <1>11, <1>12, <1>13, <1>17, ZenonT(60), ZenonT(90)
<1>21. /\ ~(Len(buffersToWrite') > MaxBuffers)
       /\ currentBuffer_' # << >> => currentBuffer_'[Len(currentBuffer_')] = logged'
    <2>1. ~(Len(buffersToWrite') > MaxBuffers)
        BY <1>1, <1>3, LogAssumption, SMTT(60), Z3T(60) DEF LogAssumption
    <2>. QED BY <1>1, <2>1, ZenonT(60), ZenonT(90) DEF LineInv
<1>22. Cardinality(Runs(lost))' <= ignored'
    <2>1. PICK k \in 0..Len(b) : FileAppend(b, k)
        BY ZenonT(60), ZenonT(90) DEF WriteBuffer
    <2>2. k \in Nat
        BY SMTT(60), Z3T(60)
    <2>. QED BY <2>1, <2>2, AppendLosesOneRun, ZenonT(60), ZenonT(90)
<1>. QED BY <1>1, <1>6, <1>16, <1>19, <1>20, <1>21, <1>22, ZenonT(60), ZenonT(90) DEF LineInv, w

\* When every buffer is written, nothing is left on the way from the back end.
LEMMA RecycleKeeps ==
    ASSUME IInv, LineInv, Recycle
    PROVE  LineInv'
<1>1. /\ buffersToWrite' = << >> /\ done' = 0 /\ done = Len(buffersToWrite)
      /\ UNCHANGED <<buffers_, currentBuffer_, logged, written, dropped, errors>>
    BY SMTT(60), Z3T(60) DEF Recycle, front
<1>2. buffersToWrite \in Seq(Seq(Nat))
    BY SMTT(60), Z3T(60) DEF IInv, TypeOK
<1>3. SubSeq(buffersToWrite, done + 1, Len(buffersToWrite)) = << >>
    BY <1>1, <1>2, SMTT(60), Z3T(60)
<1>4. SubSeq(<< >>, 1, 0) = << >> /\ Len(<< >>) = 0 /\ 0 + 1 = 1 /\ 0 <= 0
    OBVIOUS
<1>5. OnTheWay' = OnTheWay
    BY <1>1, <1>3, <1>4, ZenonT(60), ZenonT(90) DEF OnTheWay
<1>6. Cardinality(Runs(lost))' <= ignored'
    BY FlushLosesOneRun, ZenonT(60), ZenonT(90) DEF Recycle
<1>. QED BY <1>1, <1>4, <1>5, <1>6, ZenonT(60), ZenonT(90) DEF LineInv

\* The invariant holds when no line was logged.
LEMMA LineInit == Init => LineInv
<1>. SUFFICES ASSUME Init PROVE LineInv
    OBVIOUS
<1>1. /\ buffersToWrite = << >> /\ done = 0 /\ currentBuffer_ = << >> /\ buffers_ = << >>
      /\ written = << >> /\ dropped = {} /\ logged = 0 /\ errors = 0 /\ lost = {} /\ ignored = 0
    BY SMTT(60), Z3T(60) DEF Init
<1>2. DOMAIN OnTheWay = {1} /\ OnTheWay[1] = << >>
    BY <1>1, SMTT(60), Z3T(60) DEF OnTheWay
<1>3. Ordered(written, OnTheWay)
    BY <1>1, <1>2, SMTT(60), Z3T(60) DEF Ordered, Ascends, Precedes, Consecutive
<1>4. Held(written, OnTheWay) = (1..logged) \ dropped
    <2>1. \A n : n \notin Held(written, OnTheWay)
        BY <1>1, <1>2, InHeld, SMTT(60), Z3T(60)
    <2>2. 1..logged = {}
        BY <1>1, SMTT(60), Z3T(60)
    <2>. QED BY <2>1, <2>2, ZenonT(60), ZenonT(90)
<1>5. Announced(written, Len(written), dropped, errors)
    <2>1. Len(written) = 0 /\ \A k \in 0..0 : k = 0
        BY <1>1, SMTT(60), Z3T(60)
    <2>2. Gaps(written, 0) = {} /\ Notices(written, 0) = {} /\ LostRuns(written, dropped) = {}
        BY <1>1, SMTT(60), Z3T(60) DEF Gaps, Notices, LostRuns
    <2>3. Cardinality({}) = 0
        BY FS_EmptySet, ZenonT(60), ZenonT(90)
    <2>4. \A k \in 0..0 : Cardinality(Gaps(written, k)) = 0 /\ Cardinality(Notices(written, k)) = 0
        BY <2>1, <2>2, <2>3, ZenonT(60), ZenonT(90)
    <2>5. 0 <= 0 + 0 /\ 0 + 0 <= 0 + 0
        BY SMTT(60), Z3T(60)
    <2>. QED BY <1>1, <2>1, <2>2, <2>3, <2>4, <2>5, ZenonT(60), ZenonT(90) DEF Announced
<1>6. done <= Len(buffersToWrite) /\ currentBuffer_ = << >> /\ dropped \in SUBSET (1..logged)
    BY <1>1, SMTT(60), Z3T(60)
<1>7. Cardinality(Runs(lost)) <= ignored
    <2>1. Runs(lost) = {}
        BY <1>1, SMTT(60), Z3T(60) DEF Runs
    <2>2. Cardinality(Runs(lost)) = 0
        BY <2>1, FS_EmptySet, ZenonT(60), ZenonT(90)
    <2>. QED BY <1>1, <2>2, SMTT(60), Z3T(60)
<1>. QED BY <1>1, <1>3, <1>4, <1>5, <1>6, <1>7, ZenonT(60), ZenonT(90) DEF LineInv

\* Every step keeps the invariant.
LEMMA LineStep == IInv /\ IInv' /\ LineInv /\ [Next]_vars => LineInv'
<1>. SUFFICES ASSUME IInv, IInv', LineInv, [Next]_vars PROVE LineInv'
    BY SMTT(60), Z3T(60)
<1>1. CASE AppendLine
    BY <1>1, AppendKeeps, SMTT(60), Z3T(60)
<1>2. CASE Lock \/ Wake
    <2>1. CASE Swap /\ pc \in {"lock", "waiting"}
        BY <2>1, SwapKeeps, SMTT(60), Z3T(60)
    <2>2. CASE /\ pc = "lock" /\ pc' = "waiting"
               /\ UNCHANGED <<front, running_, latched, owner, back, file, now, fail>>
        <3>1. UNCHANGED <<currentBuffer_, buffers_, logged, buffersToWrite, done, written,
                          dropped, errors, lost, ignored>>
            BY <2>2, SMTT(60), Z3T(60) DEF front, back, file
        <3>2. done = 0
            BY <2>2, SMTT(60), Z3T(60) DEF LineInv
        <3>. QED BY <3>1, <3>2, ZenonT(60), ZenonT(90) DEF LineInv, OnTheWay
    <2>. QED BY <1>2, <2>1, <2>2, SMTT(60), Z3T(60) DEF Lock, Wake
<1>3. CASE DropBuffers
    BY <1>3, DropKeeps, ZenonT(60), ZenonT(90)
<1>4. CASE WriteBuffer
    BY <1>4, WriteKeeps, ZenonT(60), ZenonT(90)
<1>5. CASE Recycle
    BY <1>5, RecycleKeeps, SMTT(60), Z3T(60)
<1>6. CASE Start \/ StartReturns \/ Stop \/ Join \/ Begin \/ Test \/ Tick \/ UNCHANGED vars
    <2>1. UNCHANGED <<currentBuffer_, buffers_, logged, buffersToWrite, done, written,
                      dropped, errors>>
        BY <1>6, ZenonT(60), ZenonT(90) DEF Start, StartReturns, Stop, Join, Begin, Test, Tick,
           vars, front, back, file
    <2>2. pc' # "write" => pc # "write"
        BY <1>6, ZenonT(60), ZenonT(90) DEF Start, StartReturns, Stop, Join, Begin, Test, Tick,
           vars, IInv, BuffersSuffice
    <2>3. Cardinality(Runs(lost)) <= ignored
        BY ZenonT(60), ZenonT(90) DEF LineInv
    <2>4. CASE UNCHANGED <<lost, ignored>>
        BY <2>1, <2>2, <2>3, <2>4, ZenonT(60), ZenonT(90) DEF LineInv, OnTheWay
    <2>5. CASE Flush
        <3>1. Cardinality(Runs(lost))' <= ignored'
            BY <2>5, FlushLosesOneRun, ZenonT(60), ZenonT(90)
        <3>. QED BY <2>1, <2>2, <3>1, ZenonT(60), ZenonT(90) DEF LineInv, OnTheWay
    <2>6. Flush \/ UNCHANGED <<lost, ignored>>
        BY <1>6, ZenonT(60), ZenonT(90) DEF Start, StartReturns, Stop, Join, Begin, Test, Tick,
           vars, file
    <2>. QED BY <2>4, <2>5, <2>6, ZenonT(60), ZenonT(90)
<1>. QED BY <1>1, <1>2, <1>3, <1>4, <1>5, <1>6, SMTT(60), Z3T(60) DEF Next, BackEnd

\* The invariant says what is claimed of the lines.
LEMMA LineInvSuffices == IInv /\ LineInv => LinesAccountedFor
<1>. SUFFICES ASSUME IInv, LineInv PROVE LinesAccountedFor
    OBVIOUS
<1>1. UpTo(written, OnTheWay, logged)
    BY WayNow, ZenonT(60), ZenonT(90)
<1>2. Ordered(written, OnTheWay)
    BY ZenonT(60), ZenonT(90) DEF LineInv
<1>3. OnTheWay \in Seq(Seq(Nat))
    <2>1. /\ buffersToWrite \in Seq(Seq(Nat)) /\ buffers_ \in Seq(Seq(Nat))
          /\ currentBuffer_ \in Seq(Nat) /\ done \in Nat
        BY SMTT(60), Z3T(60) DEF IInv, TypeOK
    <2>2. SubSeq(buffersToWrite, done + 1, Len(buffersToWrite)) \in Seq(Seq(Nat))
        BY <2>1, SMTT(60), Z3T(60)
    <2>. QED BY <2>1, <2>2, SMTT(60), Z3T(60) DEF OnTheWay
<1>4. ASSUME NEW a \in DOMAIN OnTheWay PROVE Ascends(OnTheWay[a])
    <2>. DEFINE s == OnTheWay[a]
    <2>1. Consecutive(s) /\ \A i \in DOMAIN s : s[i] \in Nat
        BY <1>1, <1>2, ZenonT(60), ZenonT(90) DEF Ordered, UpTo
    <2>2. s \in Seq(Nat)
        BY <1>3, SMTT(60), Z3T(60)
    <2>3. \A i \in DOMAIN s : i \in Int
        BY <2>2, SMTT(60), Z3T(60)
    <2>. HIDE DEF s
    <2>4. ASSUME NEW i \in DOMAIN s, NEW j \in DOMAIN s, i < j PROVE s[i] < s[j]
        <3>1. s[i] = s[1] + (i - 1) /\ s[j] = s[1] + (j - 1) /\ s[i] \in Nat /\ i \in Int /\ j \in Int
            BY <2>1, <2>3, SMTT(60), Z3T(60) DEF Consecutive
        <3>2. 1 \in DOMAIN s
            BY <2>2, SMTT(60), Z3T(60)
        <3>. QED BY <2>1, <2>4, <3>1, <3>2, SMTT(60), Z3T(60)
    <2>. QED BY <2>4, ZenonT(60), ZenonT(90) DEF Ascends, s
<1>5. InOrder
    BY <1>2, <1>4, ZenonT(60), ZenonT(90) DEF InOrder, Ordered
<1>. QED BY <1>5, ZenonT(60), ZenonT(90) DEF LinesAccountedFor, LineInv, Announced

\* For every capacity, any number of buffers, lines and failing writes, and whatever the
\* threads do: every line appended is dropped by the back end or, once and in the order of
\* append, given to stdio or in a buffer on its way there; every gap in what stdio was
\* given has a notice before it or was reported; and stdio loses one run of entries at most
\* for each time that it fails to write them out, which append, flush and the closing of a
\* file do not notice.
THEOREM EveryLineAccountedFor == LoggingSpec => []LinesAccountedFor
BY LoggersLeaveTheWriter, LineInit, LineStep, LineInvSuffices, PTL
=============================================================================
