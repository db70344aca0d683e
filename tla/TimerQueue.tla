----------------------------- MODULE TimerQueue -----------------------------
(***************************************************************************)
(* netLayer/timer/TimerQueue.cpp and Timer.cpp: the timers of one loop,    *)
(* the timerfd that wakes it up, and threads that add timers from outside. *)
(*                                                                         *)
(* A Timer object, with its sequence number, is an element of Timers and   *)
(* is created at most once.  Time is a number of ticks; the shortest delay *)
(* that howMuchTimeFromNow asks for is one tick.  handleRead is split      *)
(* where it runs callbacks: each callback is a step, before and after      *)
(* which timers may be added and cancelled by the callbacks and time may   *)
(* pass.  A failing assert, or the use of a deleted Timer, sets fail.      *)
(***************************************************************************)
EXTENDS Integers

CONSTANTS Timers,       \* Timer objects
          Callers,      \* threads other than the loop's
          Repeating,    \* those created by runEvery
          Interval,     \* interval_ of the repeating timers
          MaxTime       \* bound on the clock

ASSUME TimerAssumption ==
    /\ Repeating \subseteq Timers
    /\ Interval \in Nat \ {0}
    /\ MaxTime \in Nat

VARIABLES now,                  \* the clock
          timers_,              \* set of <<expiration, timer>>
          activeTimers_,        \* set of timers
          cancelingTimers_,
          callingExpiredTimers_,
          expired,              \* entries of the current batch
          toRun,                \* those whose callback has not run yet
          start,                \* the time handleRead has read
          expiration_,          \* per timer
          created,              \* timers that exist or existed
          deleted,              \* timers that were deleted
          timerfd,              \* [armed, at, every]
          pending,              \* timers whose addTimerInLoop is queued
          caller,               \* per thread: the timer whose id it is about to read
          ids,                  \* timers whose TimerId is known
          cancelled,            \* history: timers that cancelInLoop was asked for
          early,                \* history: those whose addTimerInLoop was still queued
          fail                  \* "none", "assert", "dangling" or "sequence"

queue == <<timers_, activeTimers_, expiration_, deleted>>
batch == <<callingExpiredTimers_, expired, toRun, start>>
threads == <<pending, caller, ids, created>>
history == <<cancelled, early>>
vars == <<now, queue, batch, cancelingTimers_, timerfd, threads, history, fail>>

Nobody == [c \in Callers |-> {}]

Init ==
    /\ now = 0
    /\ timers_ = {} /\ activeTimers_ = {} /\ cancelingTimers_ = {}
    /\ callingExpiredTimers_ = FALSE /\ expired = {} /\ toRun = {} /\ start = 0
    /\ expiration_ = [t \in Timers |-> 0]
    /\ created = {} /\ deleted = {} /\ pending = {} /\ ids = {}
    /\ cancelled = {} /\ early = {}
    /\ caller = Nobody
    /\ timerfd = [armed |-> FALSE, at |-> 0, every |-> 0]
    /\ fail = "none"

Later(a, b) == IF a > b THEN a ELSE b

\* howMuchTimeFromNow and resetTimerfd: the delay is also the period.
Settime(when) ==
    LET delay == Later(when - now, 1)
    IN timerfd' = [armed |-> TRUE, at |-> now + delay, every |-> delay]

\* insert, with the question whether the earliest expiration has changed.
Insert(t, when) ==
    /\ timers_' = timers_ \cup {<<when, t>>}
    /\ activeTimers_' = activeTimers_ \cup {t}

EarliestChanged(when) == \A e \in timers_ : when < e[1]

\* Mutation of AddTimerInLoop: the timerfd is set for the first timer only.
AddTimerInLoopFirst(t, when) ==
    /\ Insert(t, when)
    /\ IF timers_ = {} THEN Settime(when) ELSE UNCHANGED timerfd
    /\ expiration_' = [expiration_ EXCEPT ![t] = when]

AddTimerInLoop(t, when) ==
    /\ Insert(t, when)
    /\ IF EarliestChanged(when) THEN Settime(when) ELSE UNCHANGED timerfd
    /\ expiration_' = [expiration_ EXCEPT ![t] = when]

\* addTimer in the loop's thread, from a callback or a handler.
AddTimer(t, when) ==
    /\ fail = "none"
    /\ t \notin created
    /\ created' = created \cup {t}
    /\ ids' = ids \cup {t}
    /\ AddTimerInLoop(t, when)
    /\ UNCHANGED <<now, deleted, batch, cancelingTimers_, pending, caller, history, fail>>

\* addTimer in another thread: it queues addTimerInLoop and then reads the
\* sequence number of the Timer for the TimerId that it returns.
AddTimerFrom(c, t, when) ==
    /\ fail = "none"
    /\ caller[c] = {}
    /\ t \notin created
    /\ created' = created \cup {t}
    /\ pending' = pending \cup {t}
    /\ caller' = [caller EXCEPT ![c] = {t}]
    /\ expiration_' = [expiration_ EXCEPT ![t] = when]
    /\ UNCHANGED <<now, timers_, activeTimers_, deleted, batch, cancelingTimers_, timerfd,
                   ids, history, fail>>

ReadSequence(c, t) ==
    /\ fail = "none"
    /\ t \in caller[c]
    /\ caller' = [caller EXCEPT ![c] = {}]
    /\ ids' = ids \cup {t}
    /\ fail' = IF t \in deleted THEN "sequence" ELSE fail
    /\ UNCHANGED <<now, queue, batch, cancelingTimers_, timerfd, pending, created, history>>

\* The loop runs functors after handleRead, never inside it.
RunFunctor(t) ==
    /\ fail = "none"
    /\ ~callingExpiredTimers_
    /\ t \in pending
    /\ pending' = pending \ {t}
    /\ AddTimerInLoop(t, expiration_[t])
    /\ UNCHANGED <<now, deleted, batch, cancelingTimers_, caller, ids, created, history,
                   fail>>

\* Mutation of CancelInLoop: a timer of the current batch is not remembered.
CancelInLoopForgets(t) ==
    /\ fail = "none"
    /\ t \in ids
    /\ cancelled' = cancelled \cup {t}
    /\ early' = early \cup ({t} \cap pending)
    /\ IF t \in activeTimers_
       THEN /\ timers_' = timers_ \ {<<expiration_[t], t>>}
            /\ activeTimers_' = activeTimers_ \ {t}
            /\ deleted' = deleted \cup {t}
       ELSE UNCHANGED <<timers_, activeTimers_, deleted>>
    /\ UNCHANGED <<now, expiration_, batch, cancelingTimers_, timerfd, threads, fail>>

\* Mutation of CancelInLoop: the entry of timers_ is left behind.
CancelInLoopLeaves(t) ==
    /\ fail = "none"
    /\ t \in ids
    /\ cancelled' = cancelled \cup {t}
    /\ early' = early \cup ({t} \cap pending)
    /\ activeTimers_' = activeTimers_ \ {t}
    /\ deleted' = IF t \in activeTimers_ THEN deleted \cup {t} ELSE deleted
    /\ cancelingTimers_' = IF t \notin activeTimers_ /\ callingExpiredTimers_
                           THEN cancelingTimers_ \cup {t} ELSE cancelingTimers_
    /\ UNCHANGED <<now, timers_, expiration_, batch, timerfd, threads, fail>>

\* cancelInLoop asserts that timers_ has the entry of an active timer.
CancelInLoop(t) ==
    /\ fail = "none"
    /\ t \in ids
    /\ cancelled' = cancelled \cup {t}
    /\ early' = early \cup ({t} \cap pending)
    /\ IF t \in activeTimers_
       THEN /\ timers_' = timers_ \ {<<expiration_[t], t>>}
            /\ activeTimers_' = activeTimers_ \ {t}
            /\ deleted' = deleted \cup {t}
            /\ fail' = IF <<expiration_[t], t>> \in timers_ THEN fail ELSE "assert"
            /\ UNCHANGED cancelingTimers_
       ELSE /\ cancelingTimers_' = IF callingExpiredTimers_ THEN cancelingTimers_ \cup {t}
                                   ELSE cancelingTimers_
            /\ UNCHANGED <<timers_, activeTimers_, deleted, fail>>
    /\ UNCHANGED <<now, expiration_, batch, timerfd, threads>>

\* handleRead up to the first callback: getExpired asserts that every expired
\* timer was active.  The kernel re-arms the timerfd within its period.
HandleRead ==
    LET due == {e \in timers_ : e[1] <= now} IN
    /\ fail = "none"
    /\ ~callingExpiredTimers_
    /\ timerfd.armed /\ timerfd.at <= now
    /\ \E next \in (now + 1)..(now + timerfd.every) : timerfd' = [timerfd EXCEPT !.at = next]
    /\ start' = now
    /\ expired' = due /\ toRun' = due
    /\ timers_' = timers_ \ due
    /\ activeTimers_' = activeTimers_ \ {e[2] : e \in due}
    /\ callingExpiredTimers_' = TRUE
    /\ cancelingTimers_' = {}
    /\ fail' = IF \A e \in due : e[2] \in activeTimers_ THEN fail ELSE "assert"
    /\ UNCHANGED <<now, expiration_, deleted, threads, history>>

\* The next callback of the batch, in the order of expiration.
RunTimer(e) ==
    /\ fail = "none"
    /\ callingExpiredTimers_
    /\ e \in toRun
    /\ \A f \in toRun : e[1] <= f[1]
    /\ toRun' = toRun \ {e}
    /\ fail' = IF e[2] \in deleted THEN "dangling" ELSE fail
    /\ UNCHANGED <<now, queue, callingExpiredTimers_, expired, start, cancelingTimers_,
                   timerfd, threads, history>>

\* reset: timers that repeat and were not cancelled meanwhile are inserted
\* again, the others deleted, and the timerfd set for the earliest.
Restarted == {e[2] : e \in {x \in expired : x[2] \in Repeating /\ x[2] \notin cancelingTimers_}}

Reset ==
    /\ fail = "none"
    /\ callingExpiredTimers_ /\ toRun = {}
    /\ callingExpiredTimers_' = FALSE
    /\ expired' = {}
    /\ expiration_' = [t \in Timers |-> IF t \in Restarted THEN start + Interval
                                        ELSE expiration_[t]]
    /\ timers_' = timers_ \cup {<<start + Interval, t>> : t \in Restarted}
    /\ activeTimers_' = activeTimers_ \cup Restarted
    /\ deleted' = deleted \cup ({e[2] : e \in expired} \ Restarted)
    /\ \/ timers_' = {} /\ UNCHANGED timerfd
       \/ \E e \in timers_' : (\A f \in timers_' : e[1] <= f[1]) /\ Settime(e[1])
    /\ UNCHANGED <<now, toRun, start, cancelingTimers_, threads, history, fail>>

Tick ==
    /\ now < MaxTime
    /\ now' = now + 1
    /\ UNCHANGED <<queue, batch, cancelingTimers_, timerfd, threads, history, fail>>

Next ==
    \/ \E t \in Timers, when \in 0..MaxTime : AddTimer(t, when)
    \/ \E c \in Callers, t \in Timers, when \in 0..MaxTime : AddTimerFrom(c, t, when)
    \/ \E c \in Callers, t \in Timers : ReadSequence(c, t)
    \/ \E t \in Timers : RunFunctor(t)
    \/ \E t \in Timers : CancelInLoop(t)
    \/ HandleRead
    \/ \E e \in toRun : RunTimer(e)
    \/ Reset
    \/ Tick

Spec == Init /\ [][Next]_vars

-----------------------------------------------------------------------------
Entries == (Int \X Timers)

TypeOK ==
    /\ now \in Nat /\ start \in Nat
    /\ timers_ \subseteq Entries /\ expired \subseteq Entries /\ toRun \subseteq expired
    /\ activeTimers_ \subseteq Timers /\ cancelingTimers_ \subseteq Timers
    /\ callingExpiredTimers_ \in BOOLEAN
    /\ expiration_ \in [Timers -> Int]
    /\ created \subseteq Timers /\ deleted \subseteq created
    /\ pending \subseteq created /\ ids \subseteq created /\ cancelled \subseteq ids
    /\ early \subseteq cancelled
    /\ caller \in [Callers -> SUBSET created]
    /\ timerfd \in [armed : BOOLEAN, at : Nat, every : Nat]

\* timers_, sorted by expiration, and activeTimers_, sorted by address, hold the
\* same timers, each once and under its current expiration: the sizes that every
\* operation asserts to be equal are the sizes of the same set.
SetsAgree ==
    /\ \A e \in timers_ : e[2] \in activeTimers_ /\ e[1] = expiration_[e[2]]
    /\ \A t \in activeTimers_ : <<expiration_[t], t>> \in timers_

\* A Timer is in one place: queued for insertion, active, in the running batch, or
\* deleted.  So none is deleted twice, and none is used after its deletion.
OnePlace ==
    /\ pending \cap (activeTimers_ \cup deleted) = {}
    /\ activeTimers_ \cap deleted = {}
    /\ \A e \in expired : e[2] \notin pending \cup activeTimers_ \cup deleted
    /\ \A e \in expired : e[1] = expiration_[e[2]] /\ e[1] <= start
    /\ ~callingExpiredTimers_ => expired = {}
    /\ activeTimers_ \cup {e[2] : e \in expired} \subseteq created
    /\ start <= now

\* cancel() is final: when it has been carried out the timer is not active, and if
\* its batch is being run, it will not be restarted at the end of the batch.  (A
\* cancel that overtakes the queued addTimerInLoop finds no timer to cancel.)
CancelIsFinal ==
    \A t \in cancelled \ early : /\ t \notin activeTimers_ \cup pending
                                 /\ t \in {e[2] : e \in expired} => t \in cancelingTimers_

\* The timerfd is set early enough: outside handleRead it will expire no later
\* than the earliest timer, or after the shortest delay if that is overdue.
NoLateWakeup ==
    \A e \in timers_ : ~callingExpiredTimers_ => timerfd.armed /\ timerfd.at <= Later(e[1], now + 1)

\* No assertion of TimerQueue fails and no callback of a deleted Timer runs.
NoFault == fail \in {"none", "sequence"}

IInv == TypeOK /\ SetsAgree /\ OnePlace /\ NoFault

\* EventLoop.h:72 says of runAt "Safe to call from other threads.": the Timer
\* still exists when addTimer reads its sequence number for the TimerId.
RunAtIsSafe == fail # "sequence"
=============================================================================
