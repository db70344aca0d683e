---------------------------- MODULE AsyncLogging ----------------------------
(***************************************************************************)
(* base/log/AyncLogging.cpp and LogFile.cpp: front-end threads append log  *)
(* lines to the current of two buffers under a mutex; a back-end thread    *)
(* swaps the full buffers out and writes them to a file that is rolled by  *)
(* size.                                                                   *)
(*                                                                         *)
(* Lines are numbered in the order of append and have length 1; a buffer   *)
(* is the sequence of its lines and takes Capacity of them.  A unique_ptr  *)
(* is TRUE when it is not null; newBuffer1 and newBuffer2 are empty.  A    *)
(* section under mutex_ is one step.  cond_.waitForSeconds always returns, *)
(* by notify, by timeout or spuriously, so that notifications only decide  *)
(* when.  A failing assert sets fail.                                      *)
(***************************************************************************)
EXTENDS LogLines, Sequences, FiniteSets

CONSTANTS Capacity,    \* lines that fit in a buffer
          MaxBuffers,  \* 25: more buffers than this are dropped
          RollSize,    \* rollSize_
          MaxLines,    \* bound on the lines logged
          MaxErrors,   \* bound on the writes that fail
          MaxNow       \* bound on the clock

ASSUME LogAssumption ==
    /\ Capacity \in Nat \ {0}
    /\ MaxBuffers \in Nat /\ MaxBuffers >= 2
    /\ RollSize \in Nat /\ MaxLines \in Nat /\ MaxNow \in Nat /\ MaxErrors \in Nat

VARIABLES currentBuffer_, \* lines of the current buffer
          nextBuffer_,    \* the spare buffer is there
          buffers_,       \* full buffers
          running_,
          latched,        \* latch_ has been counted down
          owner,          \* where the owner is in start() or stop()
          pc,             \* where the back end is in threadFunc()
          newBuffer1, newBuffer2,
          buffersToWrite,
          done,           \* buffers of buffersToWrite that are written
          logged,         \* history: lines appended so far
          dropped,        \* history: lines the back end has dropped
          errors,         \* failures that append() reported on stderr
          written,        \* lines given to stdio, 0 for a "Dropped" notice
          flushed,        \* how many of those are no longer in stdio's buffer
          lost,           \* history: entries of written that stdio failed to write
          ignored,        \* history: such failures, which the code does not look at
          bytes,          \* writtenBytes() of the current file
          lastRoll_,      \* second in which the current file was opened
          now,
          fail

front == <<currentBuffer_, nextBuffer_, buffers_, logged>>
back == <<newBuffer1, newBuffer2, buffersToWrite, done>>
file == <<written, flushed, lost, ignored, bytes, lastRoll_, dropped, errors>>
vars == <<front, running_, latched, owner, pc, back, file, now, fail>>

Init ==
    /\ currentBuffer_ = << >> /\ nextBuffer_ = TRUE /\ buffers_ = << >>
    /\ running_ = FALSE /\ latched = FALSE
    /\ owner = "new" /\ pc = "none"
    /\ newBuffer1 = TRUE /\ newBuffer2 = TRUE
    /\ buffersToWrite = << >> /\ done = 0
    /\ logged = 0 /\ dropped = {} /\ errors = 0
    /\ written = << >> /\ flushed = 0 /\ lost = {} /\ ignored = 0 /\ bytes = 0 /\ lastRoll_ = 0
    /\ now = 1
    /\ fail = FALSE

-----------------------------------------------------------------------------
\* The owner: start() and stop().

Start ==
    /\ owner = "new"
    /\ owner' = "starting" /\ pc' = "begin"
    /\ running_' = TRUE
    /\ UNCHANGED <<front, latched, back, file, now, fail>>

StartReturns ==
    /\ owner = "starting" /\ latched
    /\ owner' = "started"
    /\ UNCHANGED <<front, running_, latched, pc, back, file, now, fail>>

Stop ==
    /\ owner = "started"
    /\ owner' = "stopping"
    /\ running_' = FALSE
    /\ UNCHANGED <<front, latched, pc, back, file, now, fail>>

Join ==
    /\ owner = "stopping" /\ pc = "ended"
    /\ owner' = "stopped"
    /\ UNCHANGED <<front, running_, latched, pc, back, file, now, fail>>

\* append, called by any thread once start() has returned.
AppendLine ==
    /\ owner \in {"started", "stopping"} /\ logged < MaxLines
    /\ logged' = logged + 1
    /\ IF Len(currentBuffer_) < Capacity
       THEN currentBuffer_' = Append(currentBuffer_, logged + 1) /\ UNCHANGED <<buffers_, nextBuffer_>>
       ELSE /\ buffers_' = Append(buffers_, currentBuffer_)
            /\ nextBuffer_' = FALSE
            /\ currentBuffer_' = << logged + 1 >>
    /\ UNCHANGED <<running_, latched, owner, pc, back, file, now, fail>>

-----------------------------------------------------------------------------
\* The back end: threadFunc().

\* latch_.countDown() and the LogFile, whose constructor opens the first file.
Begin ==
    /\ pc = "begin"
    /\ fail' = ~running_
    /\ latched' = TRUE
    /\ lastRoll_' = now
    /\ pc' = "top"
    /\ UNCHANGED <<front, running_, owner, back, written, flushed, lost, ignored, bytes, dropped,
                   errors, now>>

\* stdio writes out the entries of its buffer up to the h-th.  When that fails after the
\* k-th it gives up the others, as glibc does, and ferror() is all that tells.
WriteOut(h) ==
    \E k \in flushed..h :
        /\ k = h \/ errors + ignored < MaxErrors
        /\ lost' = lost \cup (k + 1)..h
        /\ ignored' = IF k = h THEN ignored ELSE ignored + 1

\* LogFile::flush, which ignores what fflush returns.
Flush == WriteOut(Len(written)) /\ flushed' = Len(written)

\* Mutation of Test: running_ is looked at only when a buffer is full.
TestWhenBusy ==
    /\ pc = "top" /\ ~fail
    /\ pc' = IF running_ \/ buffers_ = << >> THEN "lock" ELSE "ended"
    /\ fail' = FALSE
    /\ UNCHANGED <<front, running_, latched, owner, back, file, now>>

\* while (running_), with the asserts on the spare buffers; the last flush.
Test ==
    /\ pc = "top" /\ ~fail
    /\ pc' = IF running_ THEN "lock" ELSE "ended"
    /\ fail' = (running_ /\ ~(newBuffer1 /\ newBuffer2 /\ buffersToWrite = << >>))
    /\ IF running_ THEN UNCHANGED <<flushed, lost, ignored>> ELSE Flush
    /\ UNCHANGED <<front, running_, latched, owner, back, written, bytes, lastRoll_, dropped,
                   errors, now>>

\* Mutation of Swap: the current buffer waits until it is full.
SwapFullOnly ==
    /\ IF buffers_ = << >> THEN UNCHANGED <<currentBuffer_, nextBuffer_, buffers_, back>>
       ELSE /\ buffersToWrite' = buffers_
            /\ buffers_' = << >>
            /\ nextBuffer_' = TRUE
            /\ newBuffer2' = (newBuffer2 /\ nextBuffer_)
            /\ UNCHANGED <<currentBuffer_, newBuffer1, done>>
    /\ pc' = IF buffers_ = << >> THEN "top" ELSE "write"
    /\ UNCHANGED <<logged, running_, latched, owner, file, now, fail>>

\* Mutation of Swap: the spare buffer is handed over though there is one.
SwapBothBuffers ==
    /\ buffersToWrite' = Append(buffers_, currentBuffer_)
    /\ buffers_' = << >>
    /\ currentBuffer_' = << >> /\ newBuffer1' = FALSE
    /\ nextBuffer_' = TRUE
    /\ newBuffer2' = FALSE
    /\ done' = 0
    /\ pc' = "write"
    /\ UNCHANGED <<logged, running_, latched, owner, file, now, fail>>

\* The critical section after the wait: the current buffer goes to the back end
\* with the full ones, and the spare buffers to the front end.
Swap ==
    /\ buffersToWrite' = Append(buffers_, currentBuffer_)
    /\ buffers_' = << >>
    /\ currentBuffer_' = << >> /\ newBuffer1' = FALSE
    /\ nextBuffer_' = TRUE
    /\ newBuffer2' = (newBuffer2 /\ nextBuffer_)
    /\ done' = 0
    /\ pc' = "write"
    /\ UNCHANGED <<logged, running_, latched, owner, file, now, fail>>

Lock ==
    /\ pc = "lock" /\ ~fail
    /\ IF buffers_ # << >> THEN Swap
       ELSE /\ pc' = "waiting"
            /\ UNCHANGED <<front, running_, latched, owner, back, file, now, fail>>

Wake == pc = "waiting" /\ ~fail /\ Swap

\* rollFile: the name of a file has the second in it, so that a new file is
\* opened only in a new second.
NewSecond == now > lastRoll_

\* AppendFile::append: fwrite takes all lines, or fails after n of them, when the rest
\* is given up and the error reported on stderr.  (A line it tore apart counts as
\* not written.)
Fwrite(lines, n) ==
    /\ n = Len(lines) \/ errors + ignored < MaxErrors
    /\ written' = written \o SubSeq(lines, 1, n)
    /\ errors' = IF n = Len(lines) THEN errors ELSE errors + 1
Unwritten(lines, n) == Range(SubSeq(lines, n + 1, Len(lines)))

\* LogFile::append: the bytes count whether they were written or not.  fwrite writes out
\* as much as it likes.  Opening a new file closes the old one, for which fclose writes
\* out what is left; no one looks at its result either.  (At most one of these fails.)
FileAppend(lines, n) ==
    LET roll == bytes + Len(lines) > RollSize /\ NewSecond
        given == Len(written) + n
    IN
    /\ Fwrite(lines, n)
    /\ \E h \in flushed..given : WriteOut(h) /\ flushed' = IF roll THEN given ELSE h
    /\ bytes' = IF roll THEN 0 ELSE bytes + Len(lines)
    /\ lastRoll_' = IF roll THEN now ELSE lastRoll_

\* The lines of all buffers but the first two.
Surplus == UNION {Range(buffersToWrite[k]) : k \in 3..Len(buffersToWrite)}

\* Mutation of DropBuffers: nothing tells the reader of the file.
DropBuffersSilently ==
    /\ pc = "write" /\ ~fail
    /\ Len(buffersToWrite) > MaxBuffers
    /\ dropped' = dropped \cup Surplus
    /\ buffersToWrite' = SubSeq(buffersToWrite, 1, 2)
    /\ UNCHANGED <<front, running_, latched, owner, pc, newBuffer1, newBuffer2, done,
                   written, flushed, lost, ignored, bytes, lastRoll_, errors, now, fail>>

\* Too many buffers: a notice is written and all but two are dropped.
DropBuffers ==
    /\ pc = "write" /\ ~fail
    /\ Len(buffersToWrite) > MaxBuffers
    /\ \E n \in 0..1 : FileAppend(<< 0 >>, n)
    /\ dropped' = dropped \cup Surplus
    /\ buffersToWrite' = SubSeq(buffersToWrite, 1, 2)
    /\ UNCHANGED <<front, running_, latched, owner, pc, newBuffer1, newBuffer2, done, now,
                   fail>>

WriteBuffer ==
    /\ pc = "write" /\ ~fail
    /\ Len(buffersToWrite) <= MaxBuffers
    /\ done < Len(buffersToWrite)
    /\ \E n \in 0..Len(buffersToWrite[done + 1]) :
        /\ FileAppend(buffersToWrite[done + 1], n)
        /\ dropped' = dropped \cup Unwritten(buffersToWrite[done + 1], n)
    /\ done' = done + 1
    /\ UNCHANGED <<front, running_, latched, owner, pc, newBuffer1, newBuffer2,
                   buffersToWrite, now, fail>>

\* Two of the written buffers, at most, become the spare ones again; then flush.
Recycle ==
    LET kept == IF Len(buffersToWrite) > 2 THEN 2 ELSE Len(buffersToWrite)
        needed == (IF newBuffer1 THEN 0 ELSE 1) + (IF newBuffer2 THEN 0 ELSE 1)
    IN
    /\ pc = "write" /\ ~fail
    /\ Len(buffersToWrite) <= MaxBuffers
    /\ done = Len(buffersToWrite)
    /\ fail' = (needed > kept)
    /\ newBuffer1' = TRUE /\ newBuffer2' = TRUE
    /\ buffersToWrite' = << >> /\ done' = 0
    /\ Flush
    /\ pc' = "top"
    /\ UNCHANGED <<front, running_, latched, owner, written, bytes, lastRoll_, dropped,
                   errors, now>>

Tick ==
    /\ now < MaxNow
    /\ now' = now + 1
    /\ UNCHANGED <<front, running_, latched, owner, pc, back, file, fail>>

BackEnd == Begin \/ Test \/ Lock \/ Wake \/ DropBuffers \/ WriteBuffer \/ Recycle

Next == Start \/ StartReturns \/ Stop \/ Join \/ AppendLine \/ BackEnd \/ Tick

\* The threads are scheduled and the timed wait returns.
Spec == Init /\ [][Next]_vars /\ WF_vars(BackEnd) /\ WF_vars(StartReturns) /\ WF_vars(Join)

-----------------------------------------------------------------------------
TypeOK ==
    /\ currentBuffer_ \in Seq(Nat) /\ buffers_ \in Seq(Seq(Nat))
    /\ nextBuffer_ \in BOOLEAN /\ running_ \in BOOLEAN /\ latched \in BOOLEAN
    /\ owner \in {"new", "starting", "started", "stopping", "stopped"}
    /\ pc \in {"none", "begin", "top", "lock", "waiting", "write", "ended"}
    /\ newBuffer1 \in BOOLEAN /\ newBuffer2 \in BOOLEAN
    /\ buffersToWrite \in Seq(Seq(Nat)) /\ done \in Nat
    /\ logged \in Nat /\ written \in Seq(Nat) /\ flushed \in 0..Len(written) /\ errors \in Nat
    /\ lost \subseteq 1..flushed /\ ignored \in Nat
    /\ bytes \in Nat /\ lastRoll_ \in Nat /\ now \in Nat
    /\ fail \in BOOLEAN

\* The four buffers are never short: the front end lacks its spare only when a
\* full buffer is waiting, so that the back end, which gives away two, always
\* gets two back.
BuffersSuffice ==
    /\ ~nextBuffer_ => buffers_ # << >>
    /\ pc # "write" => newBuffer1 /\ newBuffer2 /\ buffersToWrite = << >>
    /\ pc = "write" => /\ ~newBuffer1 /\ buffersToWrite # << >>
                       /\ ~newBuffer2 => Len(buffersToWrite) >= 2
    /\ owner = "new" => pc = "none" /\ ~latched
    /\ pc = "begin" => running_ /\ owner = "starting" /\ ~latched

\* No assert of threadFunc fails.
NoAssertFails == ~fail

IInv == TypeOK /\ BuffersSuffice /\ NoAssertFails

\* The buffers on their way to the file, in the order in which they get there.
OnTheWay ==
    SubSeq(buffersToWrite, done + 1, Len(buffersToWrite)) \o buffers_ \o << currentBuffer_ >>

InOrder ==
    /\ Ascends(written)
    /\ \A a \in DOMAIN OnTheWay : Ascends(OnTheWay[a]) /\ Precedes(written, OnTheWay[a])
    /\ \A a, b \in DOMAIN OnTheWay : a < b => Precedes(OnTheWay[a], OnTheWay[b])

\* Every line logged is either dropped by the back end or, once and in the order of
\* append, given to stdio or in one of the buffers on its way there.  A gap in what stdio
\* was given, or in any beginning of it, has a notice before it or was reported on stderr.
\* What stdio was given and is not in the file was lost when it was written out, one run
\* of entries for each failure, of which nothing tells.
LinesAccountedFor ==
    /\ InOrder
    /\ Held(written, OnTheWay) = (1..logged) \ dropped
    /\ \A k \in 0..Len(written) :
        Cardinality(Gaps(written, k)) <= Cardinality(Notices(written, k)) + errors
    /\ Cardinality(Runs(lost)) <= ignored

\* A line that was appended is eventually in the file, unless it is dropped or lost in a
\* write that fails, however few follow it, as long as the logging is not stopped.
LinesReachTheFile ==
    \A n \in 1..MaxLines :
        (logged >= n) ~> \/ n \in dropped \/ ~running_
                         \/ \E i \in 1..flushed : written[i] = n

\* stop() returns, even when its notify is missed: the back end tests running_
\* without the mutex.
StopEnds == (owner = "stopping") ~> (owner = "stopped")
=============================================================================
