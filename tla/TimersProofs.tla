---------------------------- MODULE TimersProofs ----------------------------
(***************************************************************************)
(* Proofs about the timer queue, for any set of timers and threads, any    *)
(* interval and an unbounded clock (no proof uses the value of MaxTime),   *)
(* and about the static server's connection limit and timing wheel, for    *)
(* any number of loops and connections and any wheel.                      *)
(***************************************************************************)
EXTENDS TimerQueue, StaticServer, FiniteSetTheorems, TLAPS

-----------------------------------------------------------------------------
\* The timer queue.

Inv == IInv /\ CancelIsFinal /\ NoLateWakeup

\* The largest of two numbers is one of them and no smaller than either.
LEMMA LaterIsMax ==
    ASSUME NEW a \in Int, NEW b \in Int
    PROVE  /\ Later(a, b) \in Int /\ Later(a, b) >= a /\ Later(a, b) >= b
           /\ Later(a, b) \in {a, b}
    BY SMTT(60), Z3T(60) DEF Later

\* resetTimerfd sets the timerfd to the expiration or, if that is less than the
\* shortest delay ahead, to the shortest delay.
LEMMA SettimeSets ==
    ASSUME NEW when \in Int, now \in Nat, Settime(when)
    PROVE  /\ timerfd' \in [armed : BOOLEAN, at : Nat, every : Nat]
           /\ timerfd'.armed
           /\ timerfd'.at = Later(when, now + 1)
<1>1. Later(when - now, 1) \in Nat
    BY DEF Later
<1>2. now + Later(when - now, 1) = Later(when, now + 1)
    BY DEF Later
<1>3. Later(when, now + 1) \in Nat
    BY DEF Later
<1>4. timerfd' = [armed |-> TRUE, at |-> Later(when, now + 1), every |-> Later(when - now, 1)]
    BY <1>2, ZenonT(60), ZenonT(90) DEF Settime
<1>. QED BY <1>1, <1>3, <1>4, SMTT(60), Z3T(60)

LEMMA InitInv == Init => Inv
<1>. SUFFICES ASSUME Init PROVE Inv
    OBVIOUS
<1>1. callingExpiredTimers_ \in BOOLEAN
    BY ZenonT(60), ZenonT(90) DEF Init
<1>2. timerfd \in [armed : BOOLEAN, at : Nat, every : Nat]
    BY ZenonT(60), ZenonT(90) DEF Init
<1>3. caller \in [Callers -> SUBSET created]
    BY SMTT(60), Z3T(60) DEF Init, Nobody
<1>4. TypeOK
    BY <1>1, <1>2, <1>3, SMTT(60), Z3T(60) DEF Init, TypeOK, Entries
<1>. QED
    BY <1>4 DEF Init, Inv, IInv, SetsAgree, OnePlace, NoFault, CancelIsFinal, NoLateWakeup

\* What addTimerInLoop does to a timer that is in none of the sets.
LEMMA AddTimerInLoopInv ==
    ASSUME Inv, NEW t \in Timers, NEW when \in Int,
           t \notin activeTimers_ \cup deleted, t \notin {e[2] : e \in expired},
           AddTimerInLoop(t, when)
    PROVE  /\ timers_' \subseteq Entries
           /\ expiration_' \in [Timers -> Int]
           /\ expiration_'[t] = when
           /\ \A u \in Timers : u # t => expiration_'[u] = expiration_[u]
           /\ timerfd' \in [armed : BOOLEAN, at : Nat, every : Nat]
           /\ activeTimers_' = activeTimers_ \cup {t}
           /\ \A e \in timers_' : e[2] \in activeTimers_' /\ e[1] = expiration_'[e[2]]
           /\ \A u \in activeTimers_' : <<expiration_'[u], u>> \in timers_'
           /\ \A e \in timers_' : ~callingExpiredTimers_
                  => timerfd'.armed /\ timerfd'.at <= Later(e[1], now + 1)
<1>. USE DEF Inv, IInv, TypeOK, Entries
<1>1. expiration_' = [expiration_ EXCEPT ![t] = when] /\ timers_' = timers_ \cup {<<when, t>>}
      /\ activeTimers_' = activeTimers_ \cup {t}
    BY SMTT(60), Z3T(60) DEF AddTimerInLoop, Insert
<1>2. expiration_' \in [Timers -> Int] /\ expiration_'[t] = when
      /\ \A u \in Timers : u # t => expiration_'[u] = expiration_[u]
    BY <1>1, SMTT(60), Z3T(60)
<1>3. timers_' \subseteq Entries
    BY <1>1, SMTT(60), Z3T(60)
<1>4. \A e \in timers_' : e[2] \in activeTimers_' /\ e[1] = expiration_'[e[2]]
    <2>. SUFFICES ASSUME NEW e \in timers_'
                  PROVE  e[2] \in activeTimers_' /\ e[1] = expiration_'[e[2]]
        BY SMTT(60), Z3T(60)
    <2>1. CASE e = <<when, t>>
        BY <2>1, <1>1, <1>2, SMTT(60), Z3T(60)
    <2>2. CASE e \in timers_
        <3>1. e[2] \in activeTimers_ /\ e[1] = expiration_[e[2]] /\ e[2] \in Timers
            BY <2>2 DEF SetsAgree
        <3>2. e[2] # t
            BY <3>1, SMTT(60), Z3T(60)
        <3>. QED BY <3>1, <3>2, <1>1, <1>2, ZenonT(60), ZenonT(90)
    <2>. QED BY <2>1, <2>2, <1>1, SMTT(60), Z3T(60)
<1>5. \A u \in activeTimers_' : <<expiration_'[u], u>> \in timers_'
    <2>. SUFFICES ASSUME NEW u \in activeTimers_' PROVE <<expiration_'[u], u>> \in timers_'
        BY ZenonT(60), ZenonT(90)
    <2>1. CASE u = t
        BY <2>1, <1>1, <1>2, SMTT(60), Z3T(60)
    <2>2. CASE u # t
        <3>1. u \in activeTimers_ /\ u \in Timers
            BY <2>2, <1>1, SMTT(60), Z3T(60)
        <3>. QED BY <3>1, <2>2, <1>1, <1>2, SMTT(60), Z3T(60) DEF SetsAgree
    <2>. QED BY <2>1, <2>2, SMTT(60), Z3T(60)
<1>6. timerfd' \in [armed : BOOLEAN, at : Nat, every : Nat]
    <2>1. CASE EarliestChanged(when)
        BY <2>1, SettimeSets, SMTT(60), Z3T(60) DEF AddTimerInLoop
    <2>2. CASE ~EarliestChanged(when)
        BY <2>2, SMTT(60), Z3T(60) DEF AddTimerInLoop
    <2>. QED BY <2>1, <2>2, SMTT(60), Z3T(60)
<1>0. timerfd.at \in Int
    BY SMTT(60), Z3T(60)
<1>7. ASSUME NEW e \in timers_', ~callingExpiredTimers_
      PROVE  timerfd'.armed /\ timerfd'.at <= Later(e[1], now + 1)
    <2>1. e[1] \in Int
        BY <1>3, SMTT(60), Z3T(60)
    <2>2. CASE EarliestChanged(when)
        <3>1. timerfd'.armed /\ timerfd'.at = Later(when, now + 1)
            BY <2>2, SettimeSets, SMTT(60), Z3T(60) DEF AddTimerInLoop
        <3>2. when <= e[1]
            BY <2>2, <2>1, <1>1, SMTT(60), Z3T(60) DEF EarliestChanged
        <3>. QED BY <3>1, <3>2, <2>1, SMTT(60), Z3T(60) DEF Later
    <2>3. CASE ~EarliestChanged(when)
        <3>1. timerfd' = timerfd
            BY <2>3, SMTT(60), Z3T(60) DEF AddTimerInLoop
        <3>2. PICK f \in timers_ : ~(when < f[1])
            BY <2>3, SMTT(60), Z3T(60) DEF EarliestChanged
        <3>3. f[1] \in Int
            OBVIOUS
        <3>4. CASE e \in timers_
            BY <3>4, <3>1, <1>7, ZenonT(60), ZenonT(90) DEF NoLateWakeup
        <3>5. CASE e = <<when, t>>
            <4>1. timerfd.armed /\ timerfd.at <= Later(f[1], now + 1)
                BY <1>7, <3>2, ZenonT(60), ZenonT(90) DEF NoLateWakeup
            <4>2. Later(f[1], now + 1) <= Later(e[1], now + 1)
                BY <3>2, <3>3, <3>5, <2>1, SMTT(60), Z3T(60) DEF Later
            <4>3. Later(f[1], now + 1) \in Int /\ Later(e[1], now + 1) \in Int
                BY <3>3, <2>1, SMTT(60), Z3T(60) DEF Later
            <4>. QED BY <4>1, <4>2, <4>3, <1>0, <3>1, SMTT(60), Z3T(60)
        <3>. QED BY <3>4, <3>5, <1>1, ZenonT(60), ZenonT(90)
    <2>. QED BY <2>2, <2>3, SMTT(60), Z3T(60)
<1>. QED BY <1>1, <1>2, <1>3, <1>4, <1>5, <1>6, <1>7, ZenonT(60), ZenonT(90)

\* One step per action, and under it one per part of the invariant.
LEMMA NextInv == Inv /\ [Next]_vars => Inv'
<1>. SUFFICES ASSUME Inv, [Next]_vars PROVE Inv'
    OBVIOUS
<1>. USE TimerAssumption DEF Inv, IInv, TypeOK, Entries
<1>1. ASSUME NEW t \in Timers, NEW when \in 0..MaxTime, AddTimer(t, when)
      PROVE  Inv'
    <2>1. t \notin activeTimers_ \cup deleted /\ t \notin {e[2] : e \in expired}
          /\ t \notin pending /\ t \notin cancelled /\ when \in Int
        BY <1>1, SMTT(60), Z3T(60) DEF AddTimer, OnePlace
    <2>2. AddTimerInLoop(t, when)
        BY <1>1, SMTT(60), Z3T(60) DEF AddTimer
    <2>a. /\ created' = created \cup {t} /\ ids' = ids \cup {t}
          /\ UNCHANGED <<now, deleted, batch, cancelingTimers_, pending, caller, history, fail>>
        BY <1>1 DEF AddTimer
    <2>b. callingExpiredTimers_' = callingExpiredTimers_ /\ expired' = expired
          /\ toRun' = toRun /\ start' = start /\ cancelled' = cancelled /\ early' = early
        BY <2>a, ZenonT(60), ZenonT(90) DEF batch, history
    <2>3. timers_' \subseteq Entries /\ expiration_' \in [Timers -> Int]
          /\ (\A u \in Timers : u # t => expiration_'[u] = expiration_[u])
          /\ timerfd' \in [armed : BOOLEAN, at : Nat, every : Nat]
          /\ activeTimers_' = activeTimers_ \cup {t}
        BY <2>1, <2>2, AddTimerInLoopInv, ZenonT(60), ZenonT(90)
    <2>4. SetsAgree'
        BY <2>1, <2>2, AddTimerInLoopInv, ZenonT(60), ZenonT(90) DEF SetsAgree
    <2>5. NoLateWakeup'
        BY <2>1, <2>2, <2>a, <2>b, AddTimerInLoopInv, ZenonT(60), ZenonT(90) DEF NoLateWakeup
    <2>6. TypeOK'
        <3>1. caller' \in [Callers -> SUBSET created']
            BY <2>a, ZenonT(60), ZenonT(90)
        <3>. QED BY <3>1, <2>3, <2>a, <2>b, ZenonT(60), ZenonT(90)
    <2>7. OnePlace'
        BY <2>1, <2>3, <2>a, <2>b, SMTT(60), Z3T(60) DEF OnePlace
    <2>8. CancelIsFinal'
        BY <2>1, <2>3, <2>a, <2>b, ZenonT(60), ZenonT(90) DEF CancelIsFinal
    <2>. QED BY <2>4, <2>5, <2>6, <2>7, <2>8, <2>a, ZenonT(60), ZenonT(90) DEF NoFault
<1>2. ASSUME NEW c \in Callers, NEW t \in Timers, NEW when \in 0..MaxTime,
             AddTimerFrom(c, t, when)
      PROVE  Inv'
    <2>a. /\ created' = created \cup {t} /\ pending' = pending \cup {t}
          /\ caller' = [caller EXCEPT ![c] = {t}]
          /\ expiration_' = [expiration_ EXCEPT ![t] = when]
          /\ UNCHANGED <<now, timers_, activeTimers_, deleted, batch, cancelingTimers_,
                         timerfd, ids, history, fail>>
        BY <1>2, ZenonT(60), ZenonT(90) DEF AddTimerFrom
    <2>b. callingExpiredTimers_' = callingExpiredTimers_ /\ expired' = expired
          /\ toRun' = toRun /\ start' = start /\ cancelled' = cancelled /\ early' = early
        BY <2>a, ZenonT(60), ZenonT(90) DEF batch, history
    <2>1. t \notin activeTimers_ \cup deleted /\ t \notin {e[2] : e \in expired}
          /\ t \notin pending /\ t \notin cancelled /\ when \in Int
        BY <1>2, SMTT(60), Z3T(60) DEF AddTimerFrom, OnePlace
    <2>2. expiration_' \in [Timers -> Int]
          /\ \A u \in Timers : u # t => expiration_'[u] = expiration_[u]
        BY <2>a, <2>1, ZenonT(60), ZenonT(90)
    <2>3. TypeOK'
        <3>1. caller' \in [Callers -> SUBSET created']
            BY <2>a, ZenonT(60), ZenonT(90)
        <3>. QED BY <3>1, <2>2, <2>a, <2>b, ZenonT(60), ZenonT(90)
    <2>4. SetsAgree'
        BY <2>1, <2>2, <2>a, SMTT(60), Z3T(60) DEF SetsAgree
    <2>5. OnePlace'
        BY <2>1, <2>2, <2>a, <2>b, SMTT(60), Z3T(60) DEF OnePlace
    <2>6. CancelIsFinal' /\ NoLateWakeup'
        BY <2>1, <2>a, <2>b, ZenonT(60), ZenonT(90) DEF CancelIsFinal, NoLateWakeup
    <2>. QED BY <2>3, <2>4, <2>5, <2>6, <2>a, ZenonT(60), ZenonT(90) DEF NoFault
<1>3. ASSUME NEW c \in Callers, NEW t \in Timers, ReadSequence(c, t)
      PROVE  Inv'
    <2>a. /\ caller' = [caller EXCEPT ![c] = {}] /\ ids' = ids \cup {t}
          /\ fail' \in {"none", "sequence"} /\ t \in created
          /\ UNCHANGED <<now, timers_, activeTimers_, expiration_, deleted,
                         callingExpiredTimers_, expired, toRun, start, cancelingTimers_,
                         timerfd, pending, created, cancelled, early>>
        BY <1>3, ZenonT(60), ZenonT(90) DEF ReadSequence, queue, batch, history
    <2>1. caller' \in [Callers -> SUBSET created']
        BY <2>a, ZenonT(60), ZenonT(90)
    <2>2. TypeOK'
        BY <2>1, <2>a, ZenonT(60), ZenonT(90)
    <2>. QED BY <2>2, <2>a, ZenonT(60), ZenonT(90) DEF NoFault, SetsAgree, OnePlace,
                CancelIsFinal, NoLateWakeup
<1>4. ASSUME NEW t \in Timers, RunFunctor(t)
      PROVE  Inv'
    <2>1. t \notin activeTimers_ \cup deleted /\ expired = {} /\ t \in pending
          /\ t \notin {e[2] : e \in expired} /\ t \notin cancelled \ early
          /\ expiration_[t] \in Int
        BY <1>4, ZenonT(60), ZenonT(90) DEF RunFunctor, OnePlace, CancelIsFinal
    <2>2. AddTimerInLoop(t, expiration_[t])
        BY <1>4, ZenonT(60), ZenonT(90) DEF RunFunctor
    <2>a. /\ pending' = pending \ {t}
          /\ UNCHANGED <<now, deleted, callingExpiredTimers_, expired, toRun, start,
                         cancelingTimers_, caller, ids, created, cancelled, early, fail>>
        BY <1>4, ZenonT(60), ZenonT(90) DEF RunFunctor, batch, history
    <2>3. timers_' \subseteq Entries /\ expiration_' \in [Timers -> Int]
          /\ (\A u \in Timers : u # t => expiration_'[u] = expiration_[u])
          /\ timerfd' \in [armed : BOOLEAN, at : Nat, every : Nat]
          /\ activeTimers_' = activeTimers_ \cup {t}
        BY <2>1, <2>2, AddTimerInLoopInv, ZenonT(60), ZenonT(90)
    <2>4. SetsAgree'
        BY <2>1, <2>2, AddTimerInLoopInv, ZenonT(60), ZenonT(90) DEF SetsAgree
    <2>5. NoLateWakeup'
        BY <2>1, <2>2, <2>a, AddTimerInLoopInv, ZenonT(60), ZenonT(90) DEF NoLateWakeup
    <2>6. TypeOK'
        BY <2>3, <2>a, ZenonT(60), ZenonT(90)
    <2>7. OnePlace'
        BY <2>1, <2>3, <2>a, SMTT(60), Z3T(60) DEF OnePlace
    <2>8. CancelIsFinal'
        BY <2>1, <2>3, <2>a, ZenonT(60), ZenonT(90) DEF CancelIsFinal
    <2>. QED BY <2>4, <2>5, <2>6, <2>7, <2>8, <2>a, ZenonT(60), ZenonT(90) DEF NoFault
<1>5. ASSUME NEW t \in Timers, CancelInLoop(t)
      PROVE  Inv'
    <2>a. /\ cancelled' = cancelled \cup {t} /\ early' = early \cup ({t} \cap pending)
          /\ t \in ids /\ fail = "none"
          /\ UNCHANGED <<now, expiration_, callingExpiredTimers_, expired, toRun, start,
                         timerfd, pending, caller, ids, created>>
        BY <1>5, ZenonT(60), ZenonT(90) DEF CancelInLoop, batch, threads
    <2>1. CASE t \in activeTimers_
        <3>1. /\ timers_' = timers_ \ {<<expiration_[t], t>>}
              /\ activeTimers_' = activeTimers_ \ {t}
              /\ deleted' = deleted \cup {t}
              /\ cancelingTimers_' = cancelingTimers_
              /\ fail' = fail
            BY <2>1, <1>5, ZenonT(60), ZenonT(90) DEF CancelInLoop, SetsAgree
        <3>2. TypeOK'
            BY <3>1, <2>a, <2>1, ZenonT(60), ZenonT(90)
        <3>3. SetsAgree'
            <4>1. ASSUME NEW e \in timers_'
                  PROVE  e[2] \in activeTimers_' /\ e[1] = expiration_'[e[2]]
                <5>1. e \in timers_ /\ e # <<expiration_[t], t>> /\ e = <<e[1], e[2]>>
                    BY <4>1, <3>1, SMTT(60), Z3T(60)
                <5>2. e[2] \in activeTimers_ /\ e[1] = expiration_[e[2]]
                    BY <5>1, ZenonT(60), ZenonT(90) DEF SetsAgree
                <5>3. e[2] # t
                    BY <5>1, <5>2, ZenonT(60), ZenonT(90)
                <5>. QED BY <5>2, <5>3, <3>1, <2>a, ZenonT(60), ZenonT(90)
            <4>2. ASSUME NEW u \in activeTimers_' PROVE <<expiration_'[u], u>> \in timers_'
                BY <4>2, <3>1, <2>a, ZenonT(60), ZenonT(90) DEF SetsAgree
            <4>. QED BY <4>1, <4>2, ZenonT(60), ZenonT(90) DEF SetsAgree
        <3>4. OnePlace'
            BY <3>1, <2>a, <2>1, ZenonT(60), ZenonT(90) DEF OnePlace
        <3>5. CancelIsFinal'
            BY <3>1, <2>a, <2>1, SMTT(60), Z3T(60) DEF CancelIsFinal, OnePlace
        <3>6. NoLateWakeup'
            BY <3>1, <2>a, ZenonT(60), ZenonT(90) DEF NoLateWakeup
        <3>. QED BY <3>1, <3>2, <3>3, <3>4, <3>5, <3>6, <2>a, ZenonT(60), ZenonT(90) DEF NoFault
    <2>2. CASE t \notin activeTimers_
        <3>1. /\ UNCHANGED <<timers_, activeTimers_, deleted, fail>>
              /\ cancelingTimers_' = IF callingExpiredTimers_ THEN cancelingTimers_ \cup {t}
                                     ELSE cancelingTimers_
            BY <2>2, <1>5, ZenonT(60), ZenonT(90) DEF CancelInLoop
        <3>2. TypeOK'
            BY <3>1, <2>a, ZenonT(60), ZenonT(90)
        <3>3. SetsAgree' /\ OnePlace' /\ NoLateWakeup'
            BY <3>1, <2>a, ZenonT(60), ZenonT(90) DEF SetsAgree, OnePlace, NoLateWakeup
        <3>4. CancelIsFinal'
            BY <3>1, <2>a, <2>2, ZenonT(60), ZenonT(90) DEF CancelIsFinal, OnePlace
        <3>. QED BY <3>1, <3>2, <3>3, <3>4, ZenonT(60), ZenonT(90) DEF NoFault
    <2>. QED BY <2>1, <2>2, ZenonT(60), ZenonT(90)
<1>6. ASSUME HandleRead
      PROVE  Inv'
    <2>. DEFINE due == {e \in timers_ : e[1] <= now}
    <2>a. /\ start' = now /\ expired' = due /\ toRun' = due
          /\ timers_' = timers_ \ due
          /\ activeTimers_' = activeTimers_ \ {e[2] : e \in due}
          /\ callingExpiredTimers_' = TRUE /\ cancelingTimers_' = {}
          /\ UNCHANGED <<now, expiration_, deleted, pending, caller, ids, created,
                         cancelled, early>>
        BY <1>6, SMTT(60), Z3T(60) DEF HandleRead, threads, history
    <2>1. fail' = "none"
        BY <1>6, ZenonT(60), ZenonT(90) DEF HandleRead, SetsAgree
    <2>2. \A e \in due : e \in timers_ /\ e[1] \in Int /\ e[1] <= now /\ e[2] \in activeTimers_
                        /\ e[1] = expiration_[e[2]]
        BY DEF SetsAgree
    <2>b. callingExpiredTimers_' \in BOOLEAN
        BY <2>a, ZenonT(60), ZenonT(90)
    <2>c. timerfd' \in [armed : BOOLEAN, at : Nat, every : Nat]
        <3>1. PICK next \in (now + 1)..(now + timerfd.every) :
                  timerfd' = [timerfd EXCEPT !.at = next]
            BY <1>6, SMTT(60), Z3T(60) DEF HandleRead
        <3>2. next \in Nat
            OBVIOUS
        <3>. QED BY <3>1, <3>2, SMTT(60), Z3T(60)
    <2>3. TypeOK'
        BY <2>a, <2>b, <2>c, <2>2, ZenonT(60), ZenonT(90)
    <2>4. SetsAgree'
        <3>1. ASSUME NEW e \in timers_'
              PROVE  e[2] \in activeTimers_' /\ e[1] = expiration_'[e[2]]
            <4>1. e \in timers_ /\ e \notin due /\ e = <<e[1], e[2]>>
                BY <3>1, <2>a, SMTT(60), Z3T(60)
            <4>2. e[2] \in activeTimers_ /\ e[1] = expiration_[e[2]]
                BY <4>1, ZenonT(60), ZenonT(90) DEF SetsAgree
            <4>3. ASSUME NEW f \in due PROVE f[2] # e[2]
                <5>1. f \in timers_ /\ f = <<f[1], f[2]>> /\ f[1] = expiration_[f[2]]
                    BY <2>2, SMTT(60), Z3T(60)
                <5>. QED BY <5>1, <4>1, <4>2, ZenonT(60), ZenonT(90)
            <4>. QED BY <4>2, <4>3, <2>a, ZenonT(60), ZenonT(90)
        <3>2. ASSUME NEW u \in activeTimers_' PROVE <<expiration_'[u], u>> \in timers_'
            <4>1. u \in activeTimers_ /\ \A f \in due : f[2] # u
                BY <3>2, <2>a, ZenonT(60), ZenonT(90)
            <4>2. <<expiration_[u], u>> \in timers_
                BY <4>1, ZenonT(60), ZenonT(90) DEF SetsAgree
            <4>3. <<expiration_[u], u>> \notin due
                BY <4>1, ZenonT(60), ZenonT(90)
            <4>. QED BY <4>2, <4>3, <2>a, ZenonT(60), ZenonT(90)
        <3>. QED BY <3>1, <3>2, ZenonT(60), ZenonT(90) DEF SetsAgree
    <2>5. OnePlace'
        BY <2>a, <2>2, SMTT(60), Z3T(60) DEF OnePlace
    <2>6. CancelIsFinal'
        BY <2>a, <2>2, ZenonT(60), ZenonT(90) DEF CancelIsFinal
    <2>7. NoLateWakeup'
        BY <2>a, Zenon DEF NoLateWakeup
    <2>. QED BY <2>1, <2>3, <2>4, <2>5, <2>6, <2>7, ZenonT(60), ZenonT(90) DEF NoFault
<1>7. ASSUME NEW e \in toRun, RunTimer(e)
      PROVE  Inv'
    <2>a. /\ toRun' = toRun \ {e}
          /\ UNCHANGED <<now, timers_, activeTimers_, expiration_, deleted,
                         callingExpiredTimers_, expired, start, cancelingTimers_, timerfd,
                         pending, caller, ids, created, cancelled, early>>
        BY <1>7, ZenonT(60), ZenonT(90) DEF RunTimer, queue, threads, history
    <2>1. fail' = "none"
        BY <1>7, ZenonT(60), ZenonT(90) DEF RunTimer, OnePlace
    <2>. QED BY <2>1, <2>a, ZenonT(60), ZenonT(90) DEF NoFault, SetsAgree, OnePlace,
                CancelIsFinal, NoLateWakeup
<1>8. ASSUME Reset
      PROVE  Inv'
    <2>a. /\ callingExpiredTimers_ /\ toRun = {} /\ callingExpiredTimers_' = FALSE /\ expired' = {}
          /\ expiration_' = [t \in Timers |-> IF t \in Restarted THEN start + Interval
                                              ELSE expiration_[t]]
          /\ timers_' = timers_ \cup {<<start + Interval, t>> : t \in Restarted}
          /\ activeTimers_' = activeTimers_ \cup Restarted
          /\ deleted' = deleted \cup ({e[2] : e \in expired} \ Restarted)
          /\ UNCHANGED <<now, toRun, start, cancelingTimers_, pending, caller, ids, created,
                         cancelled, early, fail>>
        BY <1>8, SMTT(60), Z3T(60) DEF Reset, threads, history
    <2>b. callingExpiredTimers_' \in BOOLEAN
        BY <2>a, ZenonT(60), ZenonT(90)
    <2>1. \A t \in Restarted : /\ t \in Timers /\ t \in created
                              /\ t \notin pending \cup activeTimers_ \cup deleted
                              /\ t \notin cancelingTimers_
        BY ZenonT(60), ZenonT(90) DEF Restarted, OnePlace
    <2>2. Restarted \subseteq {e[2] : e \in expired}
        BY ZenonT(60), ZenonT(90) DEF Restarted
    <2>3. expiration_' \in [Timers -> Int] /\ timers_' \subseteq Entries
        BY <2>a, <2>1, SMTT(60), Z3T(60)
    <2>4. timerfd' \in [armed : BOOLEAN, at : Nat, every : Nat]
          /\ \A e \in timers_' : timerfd'.armed /\ timerfd'.at <= Later(e[1], now' + 1)
        <3>1. CASE timers_' = {} /\ UNCHANGED timerfd
            BY <3>1, ZenonT(60), ZenonT(90)
        <3>2. ASSUME NEW e \in timers_', \A f \in timers_' : e[1] <= f[1], Settime(e[1])
              PROVE  /\ timerfd' \in [armed : BOOLEAN, at : Nat, every : Nat]
                     /\ \A f \in timers_' : timerfd'.armed /\ timerfd'.at <= Later(f[1], now' + 1)
            <4>1. e[1] \in Int /\ \A f \in timers_' : f[1] \in Int
                BY <2>3, <3>2, ZenonT(60), ZenonT(90)
            <4>2. timerfd' \in [armed : BOOLEAN, at : Nat, every : Nat]
                  /\ timerfd'.armed /\ timerfd'.at = Later(e[1], now + 1)
                BY <4>1, <3>2, SettimeSets, ZenonT(60), ZenonT(90)
            <4>3. \A f \in timers_' : Later(e[1], now + 1) <= Later(f[1], now + 1)
                BY <4>1, <3>2, SMTT(60), Z3T(60) DEF Later
            <4>. QED BY <4>2, <4>3, <2>a, ZenonT(60), ZenonT(90)
        <3>. QED BY <3>1, <3>2, <1>8, ZenonT(60), ZenonT(90) DEF Reset
    <2>5. TypeOK'
        BY <2>a, <2>b, <2>1, <2>2, <2>3, <2>4, ZenonT(60), ZenonT(90) DEF OnePlace
    <2>6. SetsAgree'
        <3>1. ASSUME NEW e \in timers_'
              PROVE  e[2] \in activeTimers_' /\ e[1] = expiration_'[e[2]]
            <4>1. CASE e \in timers_
                <5>1. e[2] \in activeTimers_ /\ e[1] = expiration_[e[2]] /\ e[2] \in Timers
                    BY <4>1, ZenonT(60), ZenonT(90) DEF SetsAgree
                <5>2. e[2] \notin Restarted
                    BY <5>1, <2>1, ZenonT(60), ZenonT(90)
                <5>. QED BY <5>1, <5>2, <2>a, ZenonT(60), ZenonT(90)
            <4>2. ASSUME NEW t \in Restarted, e = <<start + Interval, t>>
                  PROVE  e[2] \in activeTimers_' /\ e[1] = expiration_'[e[2]]
                BY <4>2, <2>a, <2>1, ZenonT(60), ZenonT(90)
            <4>. QED BY <4>1, <4>2, <2>a, ZenonT(60), ZenonT(90)
        <3>2. ASSUME NEW u \in activeTimers_' PROVE <<expiration_'[u], u>> \in timers_'
            <4>1. CASE u \in Restarted
                BY <4>1, <2>a, <2>1, ZenonT(60), ZenonT(90)
            <4>2. CASE u \in activeTimers_ /\ u \notin Restarted
                BY <4>2, <2>a, ZenonT(60), ZenonT(90) DEF SetsAgree
            <4>. QED BY <4>1, <4>2, <2>a, ZenonT(60), ZenonT(90)
        <3>. QED BY <3>1, <3>2, SMTT(60), Z3T(60) DEF SetsAgree
    <2>7. OnePlace'
        BY <2>a, <2>1, <2>2, SMTT(60), Z3T(60) DEF OnePlace
    <2>8. CancelIsFinal'
        BY <2>a, <2>1, <2>2, ZenonT(60), ZenonT(90) DEF CancelIsFinal
    <2>9. NoLateWakeup'
        BY <2>4, ZenonT(60), ZenonT(90) DEF NoLateWakeup
    <2>. QED BY <2>5, <2>6, <2>7, <2>8, <2>9, <2>a, ZenonT(60), ZenonT(90) DEF NoFault
<1>9. ASSUME Tick PROVE Inv'
    <2>a. /\ now' = now + 1
          /\ UNCHANGED <<timers_, activeTimers_, expiration_, deleted, callingExpiredTimers_,
                         expired, toRun, start, cancelingTimers_, timerfd, pending, caller,
                         ids, created, cancelled, early, fail>>
        BY <1>9, ZenonT(60), ZenonT(90) DEF Tick, queue, batch, threads, history
    <2>1. ASSUME NEW e \in timers_, ~callingExpiredTimers_
          PROVE  timerfd.armed /\ timerfd.at <= Later(e[1], now' + 1)
        <3>1. timerfd.armed /\ timerfd.at <= Later(e[1], now + 1)
            BY <2>1, ZenonT(60), ZenonT(90) DEF NoLateWakeup
        <3>2. e[1] \in Int /\ timerfd.at \in Int
            OBVIOUS
        <3>. QED BY <3>1, <3>2, <2>a, SMTT(60), Z3T(60) DEF Later
    <2>2. NoLateWakeup'
        BY <2>1, <2>a, ZenonT(60), ZenonT(90) DEF NoLateWakeup
    <2>. QED BY <2>2, <2>a, SMTT(60), Z3T(60) DEF NoFault, SetsAgree, OnePlace, CancelIsFinal
<1>10. CASE UNCHANGED vars
    BY <1>10, SMTT(60), Z3T(60) DEF vars, queue, batch, threads, history, NoFault, SetsAgree,
       OnePlace,
                 CancelIsFinal, NoLateWakeup
<1>. QED
    BY <1>1, <1>2, <1>3, <1>4, <1>5, <1>6, <1>7, <1>8, <1>9, <1>10, ZenonT(60), ZenonT(90) DEF Next

\* The two orders of the timers hold the same timers, every Timer is in exactly one
\* place, and no assertion of TimerQueue.cpp fails.
THEOREM TimerQueueInvariant == Spec => []IInv
<1>1. Inv => IInv
    BY SMTT(60), Z3T(60) DEF Inv
<1>. QED BY <1>1, InitInv, NextInv, PTL DEF Spec

\* A cancelled timer is never active again and never restarted.
THEOREM CancelledStaysCancelled == Spec => []CancelIsFinal
<1>1. Inv => CancelIsFinal
    BY SMTT(60), Z3T(60) DEF Inv
<1>. QED BY <1>1, InitInv, NextInv, PTL DEF Spec

\* The timerfd expires no later than the earliest timer is due.
THEOREM TimerfdIsSetInTime == Spec => []NoLateWakeup
<1>1. Inv => NoLateWakeup
    BY SMTT(60), Z3T(60) DEF Inv
<1>. QED BY <1>1, InitInv, NextInv, PTL DEF Spec

-----------------------------------------------------------------------------
\* The static server: the connection limit and the timing wheel.

\* What the variables of StaticServer hold.
Connection ==
    [st : {"none", "counted", "kConnected", "kDisconnecting", "kDisconnected"},
     loop : Loops, in : Nat, fp : 0..(Chunks + 1), wcc : BOOLEAN,
     close : BOOLEAN, closing : BOOLEAN, served : BOOLEAN]
Pages == Conns \X Nat
Functor ==
    [op : {"send", "writeComplete", "forceClose", "shutdown"}, conn : Conns, data : Seq(Pages)]
        \cup [op : {"retryInLoop"}, conn : {0}, data : {<< >>}]
WorkerState ==
    [pc : {"idle", "parse", "error", "empty", "file", "vip", "set", "first", "whole",
           "shutdown", "crashed"},
     conn : Conns, body : Seq(Pages), n : Nat]
ParserState ==
    [response_ : Seq(Pages), close : BOOLEAN, well : BOOLEAN, zlib : BOOLEAN,
     curLoop_ : Loops, count_ : 0..4]

Types ==
    /\ conn \in [Conns -> Connection]
    /\ next_ \in Loops /\ delayed \subseteq Conns /\ retryTimers \in [Loops -> Nat]
    /\ map_ \in [Loops -> [1..WheelSize -> SUBSET Conns]]
    /\ functors \in [Loops -> Seq(Functor)]
    /\ tasks \in Seq(Conns)
    /\ worker \in WorkerState
    /\ parser \in ParserState
    /\ redis \in BOOLEAN /\ link \in BOOLEAN /\ stored \in {"none", "file", "garbage"}

\* The connections that are counted, and those that are served.
Active == {c \in Conns : conn[c].st \notin {"none", "kDisconnected"}}
Served == {c \in Conns : conn[c].st = "kConnected"}

\* The inductive invariant: numConnected_ is the number of counted connections, so
\* that a connection admitted below the limit joins fewer than the limit.
ServerInv ==
    /\ Types /\ InWheel
    /\ numConnected_ = Cardinality(Active)
    /\ Served # {} => Cardinality(Served) < MaxConns

\* What the assumption on the constants says of loops and connections.
LEMMA ServerConstants ==
    /\ NumLoops \in Nat \ {0} /\ MaxConns \in Nat /\ WheelSize \in Nat \ {0}
    /\ Chunks \in Nat \ {0} /\ NumConns \in Nat \ {0}
    /\ 1 \in Loops /\ 1 \in Conns /\ 0 \notin Conns
BY ServerAssumption, SMTT(60), Z3T(60) DEF Loops, Conns

\* A queue keeps its type when a functor for a connection is added.
LEMMA Queued ==
    ASSUME NEW c \in Conns, Types, NEW op \in {"send", "writeComplete", "forceClose", "shutdown"},
           NEW data \in Seq(Pages)
    PROVE  Queue(c, op, data) \in [Loops -> Seq(Functor)]
BY SMTT(60), Z3T(60) DEF Types, Queue, F, Functor, Connection

\* A queue keeps its type when a retry is added.
LEMMA RetryQueued ==
    ASSUME NEW l \in Loops, Types
    PROVE  QueueRetry(l) \in [Loops -> Seq(Functor)]
BY SMTT(60), Z3T(60) DEF Types, QueueRetry, F, Functor

\* Sets of connections are finite.
LEMMA Finite == \A S \in SUBSET Conns : IsFiniteSet(S) /\ Cardinality(S) \in Nat
<1>1. IsFiniteSet(Conns)
    BY ServerConstants, FS_Interval, SMTT(60), Z3T(60) DEF Conns
<1>. QED BY <1>1, FS_Subset, FS_CardinalityType, ZenonT(60), ZenonT(90)

\* The types hold at the start.
LEMMA InitTypes == ServerInit => Types
<1>. SUFFICES ASSUME ServerInit PROVE Types
    OBVIOUS
<1>. USE ServerConstants
<1>1. conn \in [Conns -> Connection]
    BY SMTT(60), Z3T(60) DEF ServerInit, NoConn, Connection
<1>2. worker \in WorkerState
    BY DEF ServerInit, Idle, WorkerState
<1>3. parser \in ParserState
    <2>1. 0 \in 0..4 /\ << >> \in Seq(Pages)
        OBVIOUS
    <2>. QED BY <2>1, ZenonT(60), ZenonT(90) DEF ServerInit, NewParser, Connect, ParserState
<1>4. redis \in BOOLEAN /\ link \in BOOLEAN
    BY ZenonT(60), ZenonT(90) DEF ServerInit
<1>. QED BY <1>1, <1>2, <1>3, <1>4, SMTT(60), Z3T(60) DEF ServerInit, Types

\* The connections keep their type when one of them changes.
LEMMA OneConnection ==
    ASSUME NEW c \in Conns, Types, NEW r \in Connection
    PROVE  [conn EXCEPT ![c] = r] \in [Conns -> Connection]
BY DEF Types

\* A connection has a loop, whose ring has a last bucket.
LEMMA HasRing ==
    ASSUME Types, NEW c \in Conns
    PROVE  /\ conn[c].loop \in Loops /\ WheelSize \in 1..WheelSize
           /\ map_ \in [Loops -> [1..WheelSize -> SUBSET Conns]]
<1>1. WheelSize \in 1..WheelSize
    BY ServerConstants, SMTT(60), Z3T(60)
<1>. QED BY <1>1, ZenonT(60), ZenonT(90) DEF Types, Connection

\* The rings keep their type when an Entry is added.
LEMMA TouchTypes ==
    ASSUME Types, NEW c \in Conns
    PROVE  Touch(c) \in [Loops -> [1..WheelSize -> SUBSET Conns]]
    BY HasRing, ZenonT(60), ZenonT(90) DEF Touch

\* The steps of a connection keep the types.
LEMMA ConnectionTypes ==
    ASSUME Types, NEW c \in Conns,
           Increment(c) \/ Admit(c) \/ PeerCloses(c) \/ DelayedClose(c) \/ OnMessage(c)
    PROVE  Types'
<1>. DEFINE k == conn[c]
<1>0. k \in Connection /\ next_ \in Loops /\ k.in + 1 \in Nat
    BY SMTT(60), Z3T(60) DEF Types, Connection
<1>1. CASE Increment(c)
    <2>1. next_' \in Loops
        BY <1>1, ServerConstants, SMTT(60), Z3T(60) DEF Increment, Types, NextLoop, Loops
    <2>2. conn' \in [Conns -> Connection]
        <3>1. [k EXCEPT !.st = "counted", !.loop = next_] \in Connection
            BY <1>0, ZenonT(60), ZenonT(90) DEF Connection
        <3>2. conn' = [conn EXCEPT ![c] = [k EXCEPT !.st = "counted", !.loop = next_]]
            BY <1>1, ZenonT(60), ZenonT(90) DEF Increment
        <3>. QED BY <3>1, <3>2, OneConnection, Zenon
    <2>. QED BY <1>1, <2>1, <2>2, ZenonT(60), ZenonT(90) DEF Increment, Types, cache
<1>2. CASE Admit(c)
    <2>1. conn' \in [Conns -> Connection]
        <3>1. /\ [k EXCEPT !.st = "kDisconnecting"] \in Connection
              /\ [k EXCEPT !.st = "kConnected", !.served = TRUE] \in Connection
            BY <1>0, ZenonT(60), ZenonT(90) DEF Connection
        <3>2. \/ conn' = [conn EXCEPT ![c] = [k EXCEPT !.st = "kDisconnecting"]]
              \/ conn' = [conn EXCEPT ![c] = [k EXCEPT !.st = "kConnected", !.served = TRUE]]
            BY <1>2, ZenonT(60), ZenonT(90) DEF Admit
        <3>. QED BY <3>1, <3>2, OneConnection, ZenonT(60), ZenonT(90)
    <2>2. Touch(c) \in [Loops -> [1..WheelSize -> SUBSET Conns]]
        BY TouchTypes, ZenonT(60), ZenonT(90)
    <2>3. << >> \in Seq(Pages)
        OBVIOUS
    <2>4. functors' \in [Loops -> Seq(Functor)]
        <3>1. Queue(c, "forceClose", << >>) \in [Loops -> Seq(Functor)]
            BY <2>3, Queued, ZenonT(60), ZenonT(90)
        <3>. QED BY <1>2, <3>1, ZenonT(60), ZenonT(90) DEF Admit, Types
    <2>. QED BY <1>2, <2>1, <2>2, <2>4, ZenonT(60), ZenonT(90) DEF Admit, Types, cache
<1>3. CASE PeerCloses(c)
    <2>1. conn' \in [Conns -> Connection]
        <3>1. [k EXCEPT !.st = "kDisconnected"] \in Connection
            BY <1>0, ZenonT(60), ZenonT(90) DEF Connection
        <3>2. conn' = [conn EXCEPT ![c] = [k EXCEPT !.st = "kDisconnected"]]
            BY <1>3 DEF PeerCloses, Closed
        <3>. QED BY <3>1, <3>2, OneConnection, ZenonT(60), ZenonT(90)
    <2>. QED BY <1>3, <2>1, ZenonT(60), ZenonT(90) DEF PeerCloses, Types, cache
<1>4. CASE DelayedClose(c)
    <2>1. << >> \in Seq(Pages)
        OBVIOUS
    <2>2. functors' \in [Loops -> Seq(Functor)]
        BY <1>4, <2>1, Queued, ZenonT(60), ZenonT(90) DEF DelayedClose, Types
    <2>. QED BY <1>4, <2>2, ZenonT(60), ZenonT(90) DEF DelayedClose, Types, server, cache
<1>5. CASE OnMessage(c)
    <2>2. conn' \in [Conns -> Connection]
        <3>1. [k EXCEPT !.in = k.in + 1, !.wcc = TRUE] \in Connection
            BY <1>0, ZenonT(60), ZenonT(90) DEF Connection
        <3>2. conn' = [conn EXCEPT ![c] = [k EXCEPT !.in = k.in + 1, !.wcc = TRUE]]
            BY <1>5, ZenonT(60), ZenonT(90) DEF OnMessage
        <3>. QED BY <3>1, <3>2, OneConnection, ZenonT(60), ZenonT(90)
    <2>3. Touch(c) \in [Loops -> [1..WheelSize -> SUBSET Conns]]
        BY TouchTypes, Zenon
    <2>4. tasks' \in Seq(Conns)
        BY <1>5, SMTT(60), Z3T(60) DEF OnMessage, Types
    <2>. QED BY <1>5, <2>2, <2>3, <2>4, ZenonT(60), ZenonT(90) DEF OnMessage, Types, cache
<1>. QED BY <1>1, <1>2, <1>3, <1>4, <1>5, ZenonT(60), ZenonT(90)

\* A tick of the wheel keeps the types, whatever the order of the entries it drops.
LEMMA OnTimerTypes ==
    ASSUME Types, NEW l \in Loops, OnTimer(l)
    PROVE  Types'
<1>. DEFINE pushed == [m \in Loops |-> Append(Tail(map_[m]), {})]
<1>1. pushed \in [Loops -> [1..WheelSize -> SUBSET Conns]]
    <2>1. ASSUME NEW m \in Loops PROVE Append(Tail(map_[m]), {}) \in [1..WheelSize -> SUBSET Conns]
        <3>1. map_[m] \in [1..WheelSize -> SUBSET Conns] /\ WheelSize \in Nat \ {0}
            BY ServerConstants, ZenonT(60), ZenonT(90) DEF Types
        <3>. DEFINE ring == map_[m]
        <3>. HIDE DEF ring
        <3>2. ring \in Seq(SUBSET Conns) /\ Len(ring) = WheelSize
            BY <3>1, SMTT(60), Z3T(60) DEF ring
        <3>3. Tail(ring) \in Seq(SUBSET Conns) /\ Len(Tail(ring)) = WheelSize - 1
            BY <3>1, <3>2, SMTT(60), Z3T(60)
        <3>4. Append(Tail(ring), {}) \in Seq(SUBSET Conns) /\ Len(Append(Tail(ring), {})) = WheelSize
            BY <3>1, <3>3, SMTT(60), Z3T(60)
        <3>. DEFINE next == Append(Tail(ring), {})
        <3>. HIDE DEF next
        <3>5. next \in Seq(SUBSET Conns) /\ Len(next) = WheelSize
            BY <3>4, ZenonT(60), ZenonT(90) DEF next
        <3>6. next \in [1..WheelSize -> SUBSET Conns]
            BY <3>5
        <3>. QED BY <3>6, ZenonT(60), ZenonT(90) DEF ring, next
    <2>. QED BY <2>1, ZenonT(60), ZenonT(90)
<1>2. conn' \in [Conns -> Connection]
    <2>1. \A c \in Conns : conn[c] \in Connection
        BY DEF Types
    <2>2. \A c \in Conns : [conn[c] EXCEPT !.st = "kDisconnecting"] \in Connection
        BY <2>1, ZenonT(60), ZenonT(90) DEF Connection
    <2>. QED BY <2>1, <2>2, ZenonT(60), ZenonT(90) DEF OnTimer
<1>3. PICK order :
          /\ \A m \in Loops : order[m] \in [1..Cardinality(Gone(m, pushed[m])) -> Gone(m, pushed[m])]
          /\ functors' = [m \in Loops |-> functors[m] \o [i \in DOMAIN order[m] |->
                                                         F("forceClose", order[m][i], << >>)]]
    BY Zenon DEF OnTimer, Injection
<1>4. functors' \in [Loops -> Seq(Functor)]
    <2>1. ASSUME NEW m \in Loops
          PROVE  functors[m] \o [i \in DOMAIN order[m] |-> F("forceClose", order[m][i], << >>)] \in Seq(Functor)
        <3>1. Head(map_[m]) \subseteq Conns
            BY ServerConstants, SMTT(60), Z3T(60) DEF Types
        <3>2. Gone(m, pushed[m]) \subseteq Conns
            BY <3>1, ZenonT(60), ZenonT(90) DEF Gone
        <3>3. Cardinality(Gone(m, pushed[m])) \in Nat
            BY <3>2, Finite, ZenonT(60), ZenonT(90)
        <3>. DEFINE n == Cardinality(Gone(m, pushed[m]))
                    s == order[m]
                    t == [i \in DOMAIN s |-> F("forceClose", s[i], << >>)]
        <3>4. s \in [1..n -> Conns]
            BY <1>3, <3>2, ZenonT(60), ZenonT(90)
        <3>5. \A c \in Conns : F("forceClose", c, << >>) \in Functor
            BY DEF F, Functor
        <3>. HIDE DEF n, s
        <3>6. t \in [1..n -> Functor] /\ n \in Nat
            BY <3>3, <3>4, <3>5, ZenonT(60), ZenonT(90) DEF n
        <3>. HIDE DEF t
        <3>7. t \in Seq(Functor)
            BY <3>6, SMTT(60), Z3T(60)
        <3>8. functors[m] \in Seq(Functor)
            BY SMTT(60), Z3T(60) DEF Types
        <3>9. functors[m] \o t \in Seq(Functor)
            BY <3>7, <3>8, SMTT(60), Z3T(60)
        <3>. QED BY <3>9, ZenonT(60), ZenonT(90) DEF s, t
    <2>. QED BY <1>3, <2>1, ZenonT(60), ZenonT(90)
<1>. QED BY <1>1, <1>2, <1>4, ZenonT(60), ZenonT(90) DEF OnTimer, Types, cache

\* A queue that loses its first functor.
LEMMA Rest ==
    ASSUME Types, NEW l \in Loops, functors[l] # << >>
    PROVE  /\ Head(functors[l]) \in Functor
           /\ [functors EXCEPT ![l] = Tail(@)] \in [Loops -> Seq(Functor)]
<1>1. functors[l] \in Seq(Functor)
    BY DEF Types
<1>. DEFINE q == functors[l]
<1>. HIDE DEF q
<1>2. q \in Seq(Functor) /\ q # << >>
    BY <1>1, ZenonT(60), ZenonT(90) DEF q
<1>3. Head(q) \in Functor /\ Tail(q) \in Seq(Functor)
    BY <1>2, SMTT(60), Z3T(60)
<1>. QED BY <1>3, ZenonT(60), ZenonT(90) DEF q, Types

\* sendInLoop keeps the type of the queues.
LEMMA SendTypes ==
    ASSUME Types, NEW c \in Conns, NEW data, NEW q \in [Loops -> Seq(Functor)],
           SendInLoop(c, data, q)
    PROVE  functors' \in [Loops -> Seq(Functor)]
<1>1. Written(c) \in Seq(Functor)
    <2>1. F("writeComplete", c, << >>) \in Functor
        BY DEF F, Functor
    <2>. QED BY <2>1, SMTT(60), Z3T(60) DEF Written
<1>2. [q EXCEPT ![conn[c].loop] = @ \o Written(c)] \in [Loops -> Seq(Functor)]
    <2>1. \A m \in Loops : q[m] \o Written(c) \in Seq(Functor)
        BY <1>1, SMTT(60), Z3T(60)
    <2>. QED BY <2>1, ZenonT(60), ZenonT(90)
<1>. QED BY <1>2, ZenonT(60), ZenonT(90) DEF SendInLoop

\* The functors keep the types.
LEMMA RunQueuedTypes ==
    ASSUME Types, NEW l \in Loops, RunQueued(l)
    PROVE  Types'
<1>. DEFINE f == Head(functors[l])
            rest == [functors EXCEPT ![l] = Tail(@)]
            c == f.conn
            k == conn[c]
<1>1. f \in Functor /\ rest \in [Loops -> Seq(Functor)]
    BY Rest DEF RunQueued
<1>2. f.op # "retryInLoop" => c \in Conns
    BY <1>1, ZenonT(60), ZenonT(90) DEF Functor
<1>3. /\ UNCHANGED <<next_, map_, delayed, tasks, worker, redis, link, changes, stored>>
      /\ f.op \in {"send", "writeComplete", "forceClose", "shutdown", "retryInLoop"}
    BY <1>1, ZenonT(60), ZenonT(90) DEF RunQueued, Functor
<1>4. ASSUME c \in Conns PROVE k \in Connection
    BY <1>4, SMTT(60), Z3T(60) DEF Types
<1>5. CASE f.op = "send"
    <2>1. SendInLoop(c, f.data, rest) /\ UNCHANGED <<conn, parser, retryTimers>>
        BY <1>5, ZenonT(60), ZenonT(90) DEF RunQueued
    <2>. HIDE DEF f, rest, c
    <2>2. functors' \in [Loops -> Seq(Functor)]
        BY <1>1, <1>2, <1>5, <2>1, SendTypes, ZenonT(60), ZenonT(90)
    <2>. QED BY <1>3, <2>1, <2>2, ZenonT(60), ZenonT(90) DEF Types
<1>6. CASE f.op = "writeComplete"
    <2>1. WriteComplete(c, rest) /\ UNCHANGED <<parser, retryTimers>>
        BY <1>6, ZenonT(60), ZenonT(90) DEF RunQueued
    <2>2. c \in Conns /\ k \in Connection
        BY <1>2, <1>4, <1>6, SMTT(60), Z3T(60)
    <2>. HIDE DEF f, rest, c
    <2>3. CASE k.fp = 0
        <3>1. functors' = rest /\ UNCHANGED conn
            BY <2>1, <2>3, SMTT(60), Z3T(60) DEF WriteComplete
        <3>. QED BY <1>1, <1>3, <2>1, <3>1, ZenonT(60), ZenonT(90) DEF Types
    <2>4. CASE k.fp \in 1..Chunks
        <3>1. k.fp # 0 /\ k.fp + 1 \in 0..(Chunks + 1)
            BY <2>4, ServerConstants, SMTT(60), Z3T(60)
        <3>2. /\ conn' = [conn EXCEPT ![c] = [k EXCEPT !.fp = k.fp + 1]]
              /\ SendInLoop(c, << Chunk(c, k.fp) >>, rest) \/ functors' = rest
            BY <2>1, <2>4, <3>1, SMTT(60), Z3T(60) DEF WriteComplete
        <3>3. [k EXCEPT !.fp = k.fp + 1] \in Connection
            BY <2>2, <3>1, ZenonT(60), ZenonT(90) DEF Connection
        <3>4. conn' \in [Conns -> Connection]
            BY <2>2, <3>2, <3>3, OneConnection, ZenonT(60), ZenonT(90)
        <3>5. functors' \in [Loops -> Seq(Functor)]
            BY <1>1, <2>2, <3>2, SendTypes, ZenonT(60), ZenonT(90)
        <3>. QED BY <1>3, <2>1, <3>4, <3>5, ZenonT(60), ZenonT(90) DEF Types
    <2>5. CASE k.fp # 0 /\ k.fp \notin 1..Chunks
        <3>. DEFINE done == k.close /\ k.st = "kConnected"
                    r == [k EXCEPT !.fp = 0, !.st = IF done THEN "kDisconnecting" ELSE k.st,
                                   !.closing = k.closing \/ done]
        <3>1. 0 \in 0..(Chunks + 1)
            BY ServerConstants, SMTT(60), Z3T(60)
        <3>2. r \in Connection
            BY <2>2, <3>1, ZenonT(60), ZenonT(90) DEF Connection
        <3>3. functors' = rest /\ conn' = [conn EXCEPT ![c] = r]
            BY <2>1, <2>5, ZenonT(60), ZenonT(90) DEF WriteComplete
        <3>4. conn' \in [Conns -> Connection]
            BY <2>2, <3>2, <3>3, OneConnection, ZenonT(60), ZenonT(90)
        <3>. QED BY <1>1, <1>3, <2>1, <3>3, <3>4, ZenonT(60), ZenonT(90) DEF Types
    <2>. QED BY <2>3, <2>4, <2>5, SMTT(60), Z3T(60)
<1>7. CASE f.op = "forceClose"
    <2>1. /\ functors' = rest /\ UNCHANGED <<parser, retryTimers>>
          /\ UNCHANGED conn \/ conn' = [conn EXCEPT ![c] = [k EXCEPT !.st = "kDisconnected"]]
        BY <1>7, ZenonT(60), ZenonT(90) DEF RunQueued, Closed
    <2>2. c \in Conns /\ k \in Connection
        BY <1>2, <1>4, <1>7, SMTT(60), Z3T(60)
    <2>. HIDE DEF f, rest, c
    <2>3. [k EXCEPT !.st = "kDisconnected"] \in Connection
        BY <2>2, ZenonT(60), ZenonT(90) DEF Connection
    <2>4. conn' \in [Conns -> Connection]
        BY <2>1, <2>2, <2>3, OneConnection, ZenonT(60), ZenonT(90) DEF Types
    <2>. QED BY <1>1, <1>3, <2>1, <2>4, ZenonT(60), ZenonT(90) DEF Types
<1>8. CASE f.op = "shutdown"
    <2>1. functors' = rest /\ UNCHANGED <<conn, parser, retryTimers>>
        BY <1>8, ZenonT(60), ZenonT(90) DEF RunQueued
    <2>. QED BY <1>1, <1>3, <2>1, ZenonT(60), ZenonT(90) DEF Types
<1>9. CASE f.op = "retryInLoop"
    <2>1. functors' = rest /\ UNCHANGED conn /\ RetryInLoop(retryTimers)
        BY <1>9, ZenonT(60), ZenonT(90) DEF RunQueued
    <2>2. parser' \in ParserState
        <3>1. parser \in ParserState /\ (parser.count_ + 1) % 5 \in 0..4
            BY SMTT(60), Z3T(60) DEF Types, ParserState
        <3>. QED BY <2>1, <3>1, ZenonT(60), ZenonT(90) DEF RetryInLoop, ParserState
    <2>3. retryTimers' \in [Loops -> Nat]
        <3>1. \A m \in Loops : retryTimers[m] + 1 \in Nat
            BY SMTT(60), Z3T(60) DEF Types
        <3>. QED BY <2>1, <3>1, Zenon DEF RetryInLoop, Types
    <2>. QED BY <1>1, <1>3, <2>1, <2>2, <2>3, ZenonT(60), ZenonT(90) DEF Types
<1>. QED BY <1>3, <1>5, <1>6, <1>7, <1>8, <1>9, ZenonT(60), ZenonT(90)

\* The connection to redis keeps the types.
LEMMA ConnectRedisTypes ==
    ASSUME Types, NEW l \in Loops, ConnectRedis(l)
    PROVE  Types'
<1>. DEFINE timers == [retryTimers EXCEPT ![l] = @ - 1]
            connected == [parser EXCEPT !.well = Connect, !.zlib = @ \/ Connect]
            again == ~Connect \/ parser.zlib
<1>1. /\ UNCHANGED <<conn, next_, map_, delayed, tasks, worker, redis, stored>>
      /\ retryTimers[l] > 0
    BY DEF ConnectRedis, server
<1>2. timers \in [Loops -> Nat]
    <2>1. retryTimers[l] - 1 \in Nat /\ retryTimers \in [Loops -> Nat]
        BY <1>1, SMTT(60), Z3T(60) DEF Types
    <2>. QED BY <2>1, ZenonT(60), ZenonT(90)
<1>3. connected \in ParserState /\ connected.count_ = parser.count_ /\ link' \in BOOLEAN
    <2>1. parser \in ParserState /\ Connect \in BOOLEAN /\ link \in BOOLEAN
        BY ZenonT(60), ZenonT(90) DEF Types, Connect
    <2>2. connected \in ParserState /\ connected.count_ = parser.count_
        BY <2>1, ZenonT(60), ZenonT(90) DEF ParserState
    <2>. QED BY <2>1, <2>2, ZenonT(60), ZenonT(90) DEF ConnectRedis
<1>4. QueueRetry(parser.curLoop_) \in [Loops -> Seq(Functor)]
    <2>1. parser.curLoop_ \in Loops
        BY DEF Types, ParserState
    <2>. QED BY <2>1, RetryQueued, ZenonT(60), ZenonT(90)
<1>5. parser' \in ParserState
    <2>1. (connected.count_ + 1) % 5 \in 0..4
        <3>1. parser.count_ \in 0..4
            BY SMTT(60), Z3T(60) DEF Types, ParserState
        <3>. HIDE DEF connected
        <3>. QED BY <1>3, <3>1, SMTT(60), Z3T(60)
    <2>2. \/ parser' = parser \/ parser' = connected
          \/ parser' = [connected EXCEPT !.count_ = (@ + 1) % 5]
        BY ZenonT(60), ZenonT(90) DEF ConnectRedis
    <2>. HIDE DEF connected
    <2>3. [connected EXCEPT !.count_ = (@ + 1) % 5] \in ParserState
        BY <1>3, <2>1, ZenonT(60), ZenonT(90) DEF ParserState
    <2>. QED BY <1>3, <2>2, <2>3, ZenonT(60), ZenonT(90) DEF Types
<1>6. retryTimers' \in [Loops -> Nat]
    <2>1. retryTimers' = timers \/ retryTimers' = retryTimers
        BY Zenon DEF ConnectRedis
    <2>. QED BY <1>2, <2>1, ZenonT(60), ZenonT(90) DEF Types
<1>7. functors' \in [Loops -> Seq(Functor)]
    <2>1. functors' = functors \/ functors' = QueueRetry(parser.curLoop_)
        BY ZenonT(60), ZenonT(90) DEF ConnectRedis
    <2>. QED BY <1>4, <2>1, ZenonT(60), ZenonT(90) DEF Types
<1>. QED BY <1>1, <1>3, <1>5, <1>6, <1>7, ZenonT(60), ZenonT(90) DEF Types

\* The worker's send keeps the types of the parser and the queues.
LEMMA WorkerSends ==
    ASSUME Types, NEW c \in Conns, NEW body \in Seq(Pages), Send(c, body)
    PROVE  parser' \in ParserState /\ functors' \in [Loops -> Seq(Functor)]
<1>1. parser \in ParserState /\ functors \in [Loops -> Seq(Functor)]
    BY SMTT(60), Z3T(60) DEF Types
<1>2. parser.response_ \o body \in Seq(Pages) /\ << >> \in Seq(Pages)
    BY <1>1 DEF ParserState
<1>3. Queue(c, "send", parser.response_ \o body) \in [Loops -> Seq(Functor)]
    BY <1>2, Queued, ZenonT(60), ZenonT(90)
<1>. QED BY <1>1, <1>2, <1>3, ZenonT(60), ZenonT(90) DEF Send, ParserState

\* Every step of the worker keeps the types.
LEMMA WorkerTypes ==
    ASSUME Types, Worker
    PROVE  Types'
<1>. DEFINE c == worker.conn
            k == conn[c]
<1>1. c \in Conns /\ worker \in WorkerState /\ worker.body \in Seq(Pages)
    BY ZenonT(60), ZenonT(90) DEF Types, WorkerState
<1>2. k \in Connection /\ k.loop \in Loops /\ k.in \in Nat
    BY <1>1, ZenonT(60), ZenonT(90) DEF Types, Connection
<1>3. Idle \in WorkerState /\ << >> \in Seq(Pages)
    BY ServerConstants, SMTT(60), Z3T(60) DEF Idle, WorkerState
<1>4. WholeFile(c) \in Seq(Pages) /\ << Chunk(c, 1) >> \in Seq(Pages) /\ << ErrorPage(c) >> \in Seq(Pages)
    <2>1. \A i \in Nat : Chunk(c, i) \in Pages /\ ErrorPage(c) \in Pages
        BY <1>1, SMTT(60), Z3T(60) DEF Chunk, ErrorPage, Pages
    <2>. QED BY <2>1, ServerConstants, SMTT(60), Z3T(60) DEF WholeFile
<1>5. ASSUME NEW r \in Connection, conn' = [conn EXCEPT ![c] = r] PROVE conn' \in [Conns -> Connection]
    BY <1>1, <1>5, OneConnection, ZenonT(60), ZenonT(90)
<1>. HIDE DEF c
<1>6. CASE Take
    <2>1. worker' \in WorkerState /\ tasks' \in Seq(Conns)
        <3>1. Head(tasks) \in Conns /\ Tail(tasks) \in Seq(Conns)
            BY <1>6, SMTT(60), Z3T(60) DEF Take, Types
        <3>2. conn[Head(tasks)].in \in Nat
            BY <3>1, ZenonT(60), ZenonT(90) DEF Types, Connection
        <3>. QED BY <1>3, <1>6, <3>1, <3>2, ZenonT(60), ZenonT(90) DEF Take, WorkerState
    <2>. QED BY <1>6, <2>1, ZenonT(60), ZenonT(90) DEF Take, Types, server, cache
<1>7. CASE RespondError
    <2>1. Send(c, << ErrorPage(c) >>)
        BY <1>7, SMTT(60), Z3T(60) DEF RespondError, c
    <2>2. parser' \in ParserState /\ functors' \in [Loops -> Seq(Functor)]
        BY <1>1, <1>4, <2>1, WorkerSends, ZenonT(60), ZenonT(90)
    <2>3. conn' \in [Conns -> Connection]
        <3>. DEFINE r == [k EXCEPT !.wcc = FALSE, !.st = IF Open(c) THEN "kDisconnecting" ELSE k.st]
        <3>1. r \in Connection
            BY <1>2, ZenonT(60), ZenonT(90) DEF Connection
        <3>2. conn' = [conn EXCEPT ![c] = r]
            BY <1>7, ZenonT(60), ZenonT(90) DEF RespondError, c
        <3>. QED BY <1>5, <3>1, <3>2, ZenonT(60), ZenonT(90)
    <2>4. delayed' \subseteq Conns
        BY <1>1, <1>7, ZenonT(60), ZenonT(90) DEF RespondError, c, Types
    <2>. QED BY <1>3, <1>7, <2>2, <2>3, <2>4, ZenonT(60), ZenonT(90) DEF RespondError, Types,
                server, cache
<1>8. ASSUME conn' = [conn EXCEPT ![c].wcc = FALSE] PROVE conn' \in [Conns -> Connection]
    <2>1. [k EXCEPT !.wcc = FALSE] \in Connection
        BY <1>2, ZenonT(60), ZenonT(90) DEF Connection
    <2>2. conn' = [conn EXCEPT ![c] = [k EXCEPT !.wcc = FALSE]]
        BY <1>8, SMTT(60), Z3T(60)
    <2>. QED BY <1>5, <2>1, <2>2, ZenonT(60), ZenonT(90)
<1>9. CASE Cached \/ Miss
    <2>1. /\ conn' = [conn EXCEPT ![c].wcc = FALSE]
          /\ \E pc \in {"whole", "set"} : worker' = [worker EXCEPT !.pc = pc, !.body = WholeFile(c)]
          /\ UNCHANGED <<next_, map_, functors, delayed, tasks, parser, retryTimers, redis, link, stored>>
        BY <1>9, ZenonT(60), ZenonT(90) DEF Cached, Miss, c, server, cache
    <2>2. worker' \in WorkerState
        BY <1>1, <1>4, <2>1, ZenonT(60), ZenonT(90) DEF WorkerState
    <2>. QED BY <1>8, <2>1, <2>2, ZenonT(60), ZenonT(90) DEF Types
<1>10. CASE Corrupt
    <2>1. /\ conn' = [conn EXCEPT ![c].wcc = FALSE] /\ worker' = [worker EXCEPT !.pc = "file"]
          /\ parser' = [parser EXCEPT !.well = FALSE]
          /\ UNCHANGED <<next_, map_, functors, delayed, tasks, retryTimers, redis, link, stored>>
        BY <1>10, ZenonT(60), ZenonT(90) DEF Corrupt, c, server, cache
    <2>2. worker' \in WorkerState
        BY <1>1, <2>1, ZenonT(60), ZenonT(90) DEF WorkerState
    <2>3. parser' \in ParserState
        BY <2>1, ZenonT(60), ZenonT(90) DEF ParserState, Types
    <2>. QED BY <1>8, <2>1, <2>2, <2>3, ZenonT(60), ZenonT(90) DEF Types
<1>11. ASSUME NEW fits \in BOOLEAN, exeSET(fits) PROVE Types'
    <2>1. /\ stored' \in {"none", "file", "garbage"} /\ worker' = [worker EXCEPT !.pc = "whole"]
          /\ UNCHANGED <<conn, next_, map_, functors, delayed, tasks, parser, retryTimers, redis, link>>
        BY <1>11, ZenonT(60), ZenonT(90) DEF exeSET, Compress, Types, server
    <2>2. worker' \in WorkerState
        BY <1>1, <2>1, ZenonT(60), ZenonT(90) DEF WorkerState
    <2>. QED BY <2>1, <2>2, ZenonT(60), ZenonT(90) DEF Types
<1>12. CASE ReConn
    <2>1. /\ parser' = [parser EXCEPT !.well = FALSE, !.zlib = FALSE, !.curLoop_ = k.loop]
          /\ functors' = QueueRetry(k.loop) /\ worker' = [worker EXCEPT !.pc = "file"]
          /\ UNCHANGED <<conn, next_, map_, delayed, tasks, retryTimers, redis, link, stored>>
        BY <1>12, ZenonT(60), ZenonT(90) DEF ReConn, c, server, cache
    <2>2. worker' \in WorkerState
        BY <1>1, <2>1, ZenonT(60), ZenonT(90) DEF WorkerState
    <2>3. parser' \in ParserState
        BY <1>2, <2>1, ZenonT(60), ZenonT(90) DEF ParserState, Types
    <2>4. functors' \in [Loops -> Seq(Functor)]
        BY <1>2, <2>1, RetryQueued, ZenonT(60), ZenonT(90)
    <2>. QED BY <2>1, <2>2, <2>3, <2>4, ZenonT(60), ZenonT(90) DEF Types
<1>13. CASE OpenFile
    <2>1. /\ worker' = [worker EXCEPT !.pc = "first", !.body = << Chunk(c, 1) >>]
          /\ UNCHANGED <<next_, map_, functors, delayed, tasks, parser, retryTimers, redis, link, stored>>
        BY <1>13, SMTT(60), Z3T(60) DEF OpenFile, c, server, cache
    <2>0. PICK fp \in {2, 0} : conn' = [conn EXCEPT ![c] = [k EXCEPT !.fp = fp]]
        BY <1>13, ZenonT(60), ZenonT(90) DEF OpenFile, c
    <2>2. worker' \in WorkerState
        BY <1>1, <1>4, <2>1, ZenonT(60), ZenonT(90) DEF WorkerState
    <2>3. [k EXCEPT !.fp = fp] \in Connection
        <3>1. fp \in 0..(Chunks + 1)
            BY ServerConstants, SMTT(60), Z3T(60)
        <3>. QED BY <1>2, <3>1, ZenonT(60), ZenonT(90) DEF Connection
    <2>. QED BY <1>5, <2>0, <2>1, <2>2, <2>3, ZenonT(60), ZenonT(90) DEF Types
<1>13a. CASE MissCrashes
    <2>1. /\ worker' = [worker EXCEPT !.pc = "crashed"]
          /\ UNCHANGED <<conn, next_, map_, functors, delayed, tasks, parser, retryTimers, redis, link,
                         stored>>
        BY <1>13a, ZenonT(60), ZenonT(90) DEF MissCrashes, server, cache
    <2>2. worker' \in WorkerState
        BY <1>1, <2>1, ZenonT(60), ZenonT(90) DEF WorkerState
    <2>. QED BY <2>1, <2>2, ZenonT(60), ZenonT(90) DEF Types
<1>14. CASE NoFile
    <2>. DEFINE st == IF worker.pc = "file" THEN Open(c) ELSE k.st = "kConnected"
                r == [k EXCEPT !.st = IF st THEN "kDisconnecting" ELSE k.st,
                               !.closing = k.closing \/ (worker.pc = "empty" /\ st),
                               !.fp = IF worker.pc = "empty" THEN Chunks + 1 ELSE k.fp]
    <2>1. /\ conn' = [conn EXCEPT ![c] = r] /\ worker' = Idle
          /\ UNCHANGED <<next_, map_, delayed, tasks, parser, retryTimers, redis, link, stored>>
        BY <1>14, ZenonT(60), ZenonT(90) DEF NoFile, c, server, cache
    <2>2. r \in Connection
        <3>1. Chunks + 1 \in 0..(Chunks + 1)
            BY ServerConstants
        <3>. QED BY <1>2, <3>1, ZenonT(60), ZenonT(90) DEF Connection
    <2>3. \/ functors' = functors \/ functors' = Queue(c, "shutdown", << >>)
          \/ functors' = Queue(c, "forceClose", << >>)
        BY <1>14, Zenon DEF NoFile, c
    <2>4. functors' \in [Loops -> Seq(Functor)]
        <3>1. /\ Queue(c, "shutdown", << >>) \in [Loops -> Seq(Functor)]
              /\ Queue(c, "forceClose", << >>) \in [Loops -> Seq(Functor)]
            BY <1>1, <1>3, Queued, ZenonT(60), ZenonT(90)
        <3>. QED BY <2>3, <3>1, ZenonT(60), ZenonT(90) DEF Types
    <2>. HIDE DEF r
    <2>. QED BY <1>3, <1>5, <2>1, <2>2, <2>4, ZenonT(60), ZenonT(90) DEF Types
<1>15. CASE Respond
    <2>1. /\ Send(c, worker.body)
          /\ worker' = Idle \/ worker' = [worker EXCEPT !.pc = "shutdown"]
          /\ UNCHANGED <<conn, next_, map_, delayed, tasks, retryTimers, redis, link, stored>>
        BY <1>15, ZenonT(60), ZenonT(90) DEF Respond, c, server, cache
    <2>2. parser' \in ParserState /\ functors' \in [Loops -> Seq(Functor)]
        BY <1>1, <2>1, WorkerSends, ZenonT(60), ZenonT(90)
    <2>3. worker' \in WorkerState
        BY <1>1, <1>3, <2>1, ZenonT(60), ZenonT(90) DEF WorkerState
    <2>. QED BY <2>1, <2>2, <2>3, ZenonT(60), ZenonT(90) DEF Types
<1>16. CASE ShutdownAfter
    <2>1. /\ \/ UNCHANGED <<conn, functors>>
             \/ /\ conn' = [conn EXCEPT ![c] = [k EXCEPT !.st = "kDisconnecting", !.closing = TRUE]]
                /\ functors' = Queue(c, "shutdown", << >>)
          /\ worker' = Idle
          /\ UNCHANGED <<next_, map_, delayed, tasks, parser, retryTimers, redis, link, stored>>
        BY <1>16, ZenonT(60), ZenonT(90) DEF ShutdownAfter, c, server, cache
    <2>2. [k EXCEPT !.st = "kDisconnecting", !.closing = TRUE] \in Connection
        BY <1>2, ZenonT(60), ZenonT(90) DEF Connection
    <2>3. conn' \in [Conns -> Connection]
        BY <1>5, <2>1, <2>2, ZenonT(60), ZenonT(90) DEF Types
    <2>4. Queue(c, "shutdown", << >>) \in [Loops -> Seq(Functor)]
        BY <1>1, <1>3, Queued, ZenonT(60), ZenonT(90)
    <2>. QED BY <1>3, <2>1, <2>3, <2>4, ZenonT(60), ZenonT(90) DEF Types
<1>17. ASSUME NEW kind \in Kinds, NEW header \in Headers, Parse(kind, header) PROVE Types'
    <2>. DEFINE usable == worker.n = 1 /\ kind # "unusable"
                close == IF header = "none" THEN parser.close ELSE header = "close"
                r(left) == [k EXCEPT !.in = left, !.close = IF usable THEN close ELSE k.close]
    <2>1. /\ worker' = [worker EXCEPT !.pc = IF usable THEN kind ELSE "error", !.n = 0]
          /\ parser' = IF worker.n > 0 THEN [parser EXCEPT !.close = close] ELSE parser
          /\ UNCHANGED <<next_, map_, functors, delayed, tasks, retryTimers, redis, link, stored>>
        BY <1>17, ZenonT(60), ZenonT(90) DEF Parse, server, cache
    <2>2. PICK left \in Left(c) : conn' = [conn EXCEPT ![c] = r(left)]
        BY <1>17, ZenonT(60), ZenonT(90) DEF Parse, c
    <2>3. left \in Nat
        BY <1>1, <1>2, <2>2, SMTT(60), Z3T(60) DEF Left, WorkerState
    <2>4. close \in BOOLEAN /\ parser \in ParserState
        BY ZenonT(60), ZenonT(90) DEF Types, ParserState
    <2>5. r(left) \in Connection
        <3>. HIDE DEF close, usable
        <3>. QED BY <1>2, <2>3, <2>4, ZenonT(60), ZenonT(90) DEF Connection
    <2>6. parser' \in ParserState
        <3>. HIDE DEF close
        <3>. QED BY <2>1, <2>4, ZenonT(60), ZenonT(90) DEF ParserState
    <2>7. worker' \in WorkerState
        <3>1. 0 \in Nat /\ kind \in AllKinds
            BY ServerAssumption, ZenonT(60), ZenonT(90)
        <3>2. usable => kind \in {"empty", "file", "vip"}
            BY <3>1, ZenonT(60), ZenonT(90) DEF AllKinds
        <3>. HIDE DEF usable
        <3>. QED BY <1>1, <2>1, <3>1, <3>2, ZenonT(60), ZenonT(90) DEF WorkerState
    <2>. HIDE DEF r
    <2>. QED BY <1>5, <2>1, <2>2, <2>5, <2>6, <2>7, ZenonT(60), ZenonT(90) DEF Types
<1>. QED BY <1>6, <1>7, <1>9, <1>10, <1>11, <1>12, <1>13, <1>13a, <1>14, <1>15, <1>16, <1>17, ZenonT(60),
            ZenonT(90) DEF Worker

\* Every step keeps the types.
LEMMA TypesStep == Types /\ [ServerNext]_serverVars => Types'
<1>. SUFFICES ASSUME Types, [ServerNext]_serverVars PROVE Types'
    OBVIOUS
<1>1. CASE UNCHANGED serverVars
    BY <1>1, ZenonT(60), ZenonT(90) DEF serverVars, server, cache, Types
<1>2. CASE RedisChanges
    BY <1>2, ZenonT(60), ZenonT(90) DEF RedisChanges, server, Types
<1>. QED BY <1>1, <1>2, ConnectionTypes, OnTimerTypes, RunQueuedTypes, ConnectRedisTypes,
            WorkerTypes, ZenonT(60), ZenonT(90) DEF ServerNext

-----------------------------------------------------------------------------
\* The count and the wheel.

\* What most steps do to the connections: none is opened or closed for good.
Quiet ==
    /\ UNCHANGED <<numConnected_, map_>>
    /\ \A c \in Conns :
        /\ conn'[c].loop = conn[c].loop
        /\ conn'[c].st = conn[c].st \/ (Open(c) /\ conn'[c].st = "kDisconnecting")

\* A connection goes down for good.
Closes(c) ==
    /\ Open(c) /\ Closed(c) /\ UNCHANGED map_

\* A step is quiet, or one of the five that the count, the limit and the wheel depend on.
LEMMA ServerSteps ==
    ASSUME Types, ServerNext
    PROVE  \/ Quiet
           \/ \E c \in Conns : Increment(c) \/ Admit(c) \/ Closes(c) \/ OnMessage(c)
           \/ \E l \in Loops : OnTimer(l)
<1>0. /\ conn \in [Conns -> Connection] /\ functors \in [Loops -> Seq(Functor)]
      /\ worker.conn \in Conns
    BY DEF Types, WorkerState
<1>1. ASSUME NEW l \in Loops, RunQueued(l) PROVE Quiet \/ \E c \in Conns : Closes(c)
    <2>. DEFINE f == Head(functors[l])
                c == f.conn
    <2>1. f \in Functor /\ UNCHANGED map_
        BY <1>1, Rest, SMTT(60), Z3T(60) DEF RunQueued
    <2>2. CASE f.op \in {"send", "shutdown", "retryInLoop"}
        <3>1. UNCHANGED <<conn, numConnected_>>
            BY <1>1, <2>2, ZenonT(60), ZenonT(90) DEF RunQueued
        <3>. QED BY <2>1, <3>1, ZenonT(60), ZenonT(90) DEF Quiet
    <2>3. CASE f.op = "writeComplete"
        <3>1. WriteComplete(c, [functors EXCEPT ![l] = Tail(@)]) /\ UNCHANGED numConnected_ /\ c \in Conns
            BY <1>1, <2>1, <2>3, ZenonT(60), ZenonT(90) DEF RunQueued, Functor
        <3>. HIDE DEF c
        <3>2. \/ conn' = conn \/ conn' = [conn EXCEPT ![c].fp = @ + 1]
              \/ conn' = [conn EXCEPT ![c].fp = 0,
                                      ![c].st = IF conn[c].close /\ @ = "kConnected"
                                                THEN "kDisconnecting" ELSE @,
                                      ![c].closing = @ \/ (conn[c].close /\ conn[c].st = "kConnected")]
            BY <3>1, ZenonT(60), ZenonT(90) DEF WriteComplete
        <3>3. /\ \A d \in Conns : d # c => conn'[d] = conn[d]
              /\ conn'[c].loop = conn[c].loop
              /\ conn'[c].st = conn[c].st \/ (conn[c].st = "kConnected" /\ conn'[c].st = "kDisconnecting")
            BY <1>0, <3>1, <3>2, SMTT(60), Z3T(60) DEF Connection
        <3>. QED BY <2>1, <3>1, <3>3, ZenonT(60), ZenonT(90) DEF Quiet, Open
    <2>4. CASE f.op = "forceClose"
        <3>1. c \in Conns
            BY <2>1, <2>4, ZenonT(60), ZenonT(90) DEF Functor
        <3>2. (Open(c) /\ Closed(c)) \/ UNCHANGED <<conn, numConnected_>>
            BY <1>1, <2>4, ZenonT(60), ZenonT(90) DEF RunQueued
        <3>. HIDE DEF c
        <3>. QED BY <2>1, <3>1, <3>2, ZenonT(60), ZenonT(90) DEF Quiet, Closes
    <2>. QED BY <2>1, <2>2, <2>3, <2>4, ZenonT(60), ZenonT(90) DEF Functor
<1>2. ASSUME NEW c \in Conns, PeerCloses(c) PROVE Closes(c)
    BY <1>2, ZenonT(60), ZenonT(90) DEF PeerCloses, Closes, Open
<1>3. CASE UNCHANGED <<conn, numConnected_, map_>>
    BY <1>3, ZenonT(60), ZenonT(90) DEF Quiet
<1>4. CASE RedisChanges \/ (\E l \in Loops : ConnectRedis(l)) \/ (\E c \in Conns : DelayedClose(c))
    BY <1>3, <1>4, ZenonT(60), ZenonT(90) DEF RedisChanges, ConnectRedis, DelayedClose, server
<1>5. CASE Worker
    <2>. DEFINE c == worker.conn
    <2>1. UNCHANGED <<numConnected_, map_>>
        BY <1>5, ZenonT(60), ZenonT(90) DEF Worker, Take, RespondError, Cached, Corrupt, Miss,
           MissCrashes, ReConn, OpenFile, NoFile, Respond, ShutdownAfter, exeSET, Parse, server
    <2>2. CASE Take \/ ReConn \/ Respond \/ MissCrashes \/ \E fits \in BOOLEAN : exeSET(fits)
        BY <1>3, <2>1, <2>2, ZenonT(60), ZenonT(90) DEF Take, ReConn, Respond, MissCrashes, exeSET
    <2>3. ASSUME NEW k, conn' = [conn EXCEPT ![c] = k], k.loop = conn[c].loop,
                 k.st = conn[c].st \/ (Open(c) /\ k.st = "kDisconnecting")
          PROVE  Quiet
        <3>. HIDE DEF c
        <3>1. /\ \A d \in Conns : d # c => conn'[d] = conn[d]
              /\ conn'[c] = k
            BY <1>0, <2>3, SMTT(60), Z3T(60) DEF c
        <3>. QED BY <2>1, <2>3, <3>1, ZenonT(60), ZenonT(90) DEF Quiet
    <2>4. CASE RespondError
        <3>1. conn' = [conn EXCEPT ![c] = [conn[c] EXCEPT !.wcc = FALSE,
                            !.st = IF Open(c) THEN "kDisconnecting" ELSE conn[c].st]]
            BY <2>4, Zenon DEF RespondError
        <3>. QED BY <1>0, <2>3, <3>1, ZenonT(60), ZenonT(90) DEF Connection
    <2>5. CASE Cached \/ Corrupt \/ Miss
        <3>1. conn' = [conn EXCEPT ![c] = [conn[c] EXCEPT !.wcc = FALSE]]
            BY <2>5 DEF Cached, Corrupt, Miss
        <3>. QED BY <1>0, <2>3, <3>1, ZenonT(60), ZenonT(90) DEF Connection
    <2>6. CASE OpenFile
        <3>1. PICK fp : conn' = [conn EXCEPT ![c] = [conn[c] EXCEPT !.fp = fp]]
            BY <2>6, ZenonT(60), ZenonT(90) DEF OpenFile
        <3>. QED BY <1>0, <2>3, <3>1, ZenonT(60), ZenonT(90) DEF Connection
    <2>7. CASE NoFile
        <3>. DEFINE st == IF worker.pc = "file" THEN Open(c) ELSE conn[c].st = "kConnected"
        <3>1. conn' = [conn EXCEPT ![c] = [conn[c] EXCEPT
                            !.st = IF st THEN "kDisconnecting" ELSE conn[c].st,
                            !.closing = conn[c].closing \/ (worker.pc = "empty" /\ st),
                            !.fp = IF worker.pc = "empty" THEN Chunks + 1 ELSE conn[c].fp]]
            BY <2>7, ZenonT(60), ZenonT(90) DEF NoFile
        <3>2. st => Open(c)
            BY ZenonT(60), ZenonT(90) DEF Open
        <3>. HIDE DEF st
        <3>. QED BY <1>0, <2>3, <3>1, <3>2, ZenonT(60), ZenonT(90) DEF Connection
    <2>8. CASE ShutdownAfter
        BY <1>0, <1>3, <2>1, <2>3, <2>8, SMTT(60), Z3T(60) DEF ShutdownAfter, Open, Connection
    <2>9. CASE \E kind \in Kinds, header \in Headers : Parse(kind, header)
        <3>1. PICK kind \in Kinds, header \in Headers : Parse(kind, header)
            BY <2>9, SMTT(60), Z3T(60)
        <3>. DEFINE usable == worker.n = 1 /\ kind # "unusable"
                    close == IF header = "none" THEN parser.close ELSE header = "close"
        <3>2. PICK left \in Left(c) :
                  conn' = [conn EXCEPT ![c] = [conn[c] EXCEPT
                               !.in = left, !.close = IF usable THEN close ELSE conn[c].close]]
            BY <3>1, ZenonT(60), ZenonT(90) DEF Parse
        <3>. HIDE DEF usable, close
        <3>. QED BY <1>0, <2>3, <3>2, ZenonT(60), ZenonT(90) DEF Connection
    <2>. QED BY <1>5, <2>2, <2>4, <2>5, <2>6, <2>7, <2>8, <2>9, ZenonT(60), ZenonT(90) DEF Worker
<1>. QED BY <1>1, <1>2, <1>4, <1>5, ZenonT(60), ZenonT(90) DEF ServerNext

\* Fewer connections served: still fewer than the limit.
LEMMA FewerServed ==
    ASSUME ServerInv, Served' \subseteq Served
    PROVE  Served' # {} => Cardinality(Served') < MaxConns
<1>1. Served \subseteq Conns
    BY ZenonT(60), ZenonT(90) DEF Served
<1>2. /\ Cardinality(Served') <= Cardinality(Served)
      /\ Cardinality(Served) \in Nat /\ Cardinality(Served') \in Nat
    BY <1>1, Finite, FS_Subset, ZenonT(60), ZenonT(90)
<1>3. (Served # {} => Cardinality(Served) < MaxConns) /\ MaxConns \in Nat
    BY ServerConstants, ZenonT(60), ZenonT(90) DEF ServerInv
<1>4. Served' # {} => Served # {}
    BY ZenonT(60), ZenonT(90)
<1>. QED BY <1>2, <1>3, <1>4

\* One lemma per kind of step: each keeps the invariant.
LEMMA QuietStep ==
    ASSUME ServerInv, Types', Quiet
    PROVE  ServerInv'
<1>1. Active' = Active /\ Served' \subseteq Served
    BY DEF Quiet, Active, Served, Open
<1>2. Served' # {} => Cardinality(Served') < MaxConns
    BY <1>1, FewerServed, ZenonT(60), ZenonT(90)
<1>3. InWheel'
    BY DEF ServerInv, InWheel, Quiet
<1>. QED BY <1>1, <1>2, <1>3, ZenonT(60), ZenonT(90) DEF ServerInv, Quiet

LEMMA ClosesStep ==
    ASSUME ServerInv, Types', NEW c \in Conns, Closes(c)
    PROVE  ServerInv'
<1>1. /\ \A d \in Conns : d # c => conn'[d] = conn[d]
      /\ conn'[c].st = "kDisconnected" /\ conn[c].st \in {"kConnected", "kDisconnecting"}
    BY DEF Closes, Closed, Open, ServerInv, Types, Connection
<1>2. Active' = Active \ {c} /\ c \in Active /\ Served' \subseteq Served
    BY <1>1, ZenonT(60), ZenonT(90) DEF Active, Served
<1>3. Cardinality(Active') = Cardinality(Active) - 1
    BY <1>2, Finite, FS_RemoveElement, ZenonT(60), ZenonT(90) DEF Active
<1>4. Served' # {} => Cardinality(Served') < MaxConns
    BY <1>2, FewerServed, Zenon
<1>5. InWheel'
    BY <1>1, SMTT(60), Z3T(60) DEF ServerInv, InWheel, Closes
<1>. QED BY <1>3, <1>4, <1>5, ZenonT(60), ZenonT(90) DEF ServerInv, Closes, Closed

LEMMA IncrementStep ==
    ASSUME ServerInv, Types', NEW c \in Conns, Increment(c)
    PROVE  ServerInv'
<1>1. /\ \A d \in Conns : d # c => conn'[d] = conn[d]
      /\ conn'[c].st = "counted" /\ conn[c].st = "none"
    BY ZenonT(60), ZenonT(90) DEF Increment, ServerInv, Types, Connection
<1>2. Active' = Active \cup {c} /\ c \notin Active /\ Served' = Served
    BY <1>1, SMTT(60), Z3T(60) DEF Active, Served
<1>3. Cardinality(Active') = Cardinality(Active) + 1
    BY <1>2, Finite, FS_AddElement, ZenonT(60), ZenonT(90) DEF Active
<1>4. InWheel'
    BY <1>1, ZenonT(60), ZenonT(90) DEF ServerInv, InWheel, Increment
<1>. QED BY <1>2, <1>3, <1>4, ZenonT(60), ZenonT(90) DEF ServerInv, Increment

\* An Entry added at the front of the ring takes none away.
LEMMA Touched ==
    ASSUME Types, NEW c \in Conns, NEW ring, ring = Touch(c)
    PROVE  /\ \A l \in Loops, i \in 1..WheelSize : map_[l][i] \subseteq ring[l][i]
           /\ WheelSize \in 1..WheelSize /\ c \in ring[conn[c].loop][WheelSize]
    BY HasRing, ZenonT(60), ZenonT(90) DEF Touch

LEMMA AdmitStep ==
    ASSUME ServerInv, Types', NEW c \in Conns, Admit(c)
    PROVE  ServerInv'
<1>0. /\ conn \in [Conns -> Connection] /\ conn[c].st = "counted"
      /\ conn[c].loop \in Loops /\ numConnected_' = numConnected_
    BY ZenonT(60), ZenonT(90) DEF Admit, ServerInv, Types, Connection
<1>1. ASSUME NEW st, NEW k, conn' = [conn EXCEPT ![c] = k], k.loop = conn[c].loop, k.st = st
      PROVE  /\ \A d \in Conns : d # c => conn'[d] = conn[d]
             /\ conn'[c].loop = conn[c].loop /\ conn'[c].st = st
    BY <1>0, <1>1, SMTT(60), Z3T(60)
<1>2. CASE numConnected_ >= MaxConns
    <2>1. conn' = [conn EXCEPT ![c] = [conn[c] EXCEPT !.st = "kDisconnecting"]] /\ map_' = map_
        BY <1>2, SMTT(60), Z3T(60) DEF Admit
    <2>a. /\ \A d \in Conns : d # c => conn'[d] = conn[d]
          /\ conn'[c].loop = conn[c].loop /\ conn'[c].st = "kDisconnecting"
        BY <1>0, <1>1, <2>1, ZenonT(60), ZenonT(90) DEF Connection
    <2>2. Active' = Active /\ Served' = Served
        BY <1>0, <2>a, Zenon DEF Active, Served
    <2>3. InWheel'
        BY <1>0, <2>1, <2>a, Zenon DEF ServerInv, InWheel
    <2>. QED BY <1>0, <2>2, <2>3, ZenonT(60), ZenonT(90) DEF ServerInv
<1>3. CASE ~(numConnected_ >= MaxConns)
    <2>1. /\ conn' = [conn EXCEPT ![c] = [conn[c] EXCEPT !.st = "kConnected", !.served = TRUE]]
          /\ map_' = Touch(c)
        BY <1>3, ZenonT(60), ZenonT(90) DEF Admit
    <2>a. /\ \A d \in Conns : d # c => conn'[d] = conn[d]
          /\ conn'[c].loop = conn[c].loop /\ conn'[c].st = "kConnected"
        BY <1>0, <1>1, <2>1, SMTT(60), Z3T(60) DEF Connection
    <2>2. Active' = Active /\ Served' \subseteq Active
        BY <1>0, <2>a, ZenonT(60), ZenonT(90) DEF Active, Served
    <2>3. Cardinality(Served') <= Cardinality(Active)
        BY <2>2, Finite, FS_Subset, ZenonT(60), ZenonT(90) DEF Active
    <2>4. Served' # {} => Cardinality(Served') < MaxConns
        <3>1. /\ numConnected_ = Cardinality(Active)
              /\ Cardinality(Active) \in Nat /\ Cardinality(Served') \in Nat
            BY <2>2, Finite, ZenonT(60), ZenonT(90) DEF ServerInv, Active
        <3>. HIDE DEF Active, Served
        <3>. QED BY <1>3, <2>3, <3>1, ServerConstants, SMTT(60), Z3T(60)
    <2>5. InWheel'
        <3>1. /\ \A l \in Loops, i \in 1..WheelSize : map_[l][i] \subseteq map_'[l][i]
              /\ WheelSize \in 1..WheelSize /\ c \in map_'[conn[c].loop][WheelSize]
            BY <2>1, Touched, ZenonT(60), ZenonT(90) DEF ServerInv
        <3>2. \A d \in Conns : conn[d].loop \in Loops
            BY ZenonT(60), ZenonT(90) DEF ServerInv, Types, Connection
        <3>3. ASSUME NEW d \in Conns, conn'[d].st = "kConnected"
              PROVE  \E i \in 1..WheelSize : d \in map_'[conn'[d].loop][i]
            <4>1. CASE d = c
                BY <2>a, <3>1, <4>1, ZenonT(60), ZenonT(90)
            <4>2. CASE d # c
                <5>1. conn'[d] = conn[d]
                    BY <2>a, <4>2, SMTT(60), Z3T(60)
                <5>2. \E i \in 1..WheelSize : d \in map_[conn[d].loop][i]
                    BY <3>3, <5>1, ZenonT(60), ZenonT(90) DEF ServerInv, InWheel
                <5>. QED BY <3>1, <3>2, <5>1, <5>2, ZenonT(60), ZenonT(90)
            <4>. QED BY <4>1, <4>2, ZenonT(60), ZenonT(90)
        <3>. QED BY <3>3, ZenonT(60), ZenonT(90) DEF InWheel
    <2>. QED BY <1>0, <2>2, <2>4, <2>5, ZenonT(60), ZenonT(90) DEF ServerInv
<1>. QED BY <1>2, <1>3, SMTT(60), Z3T(60)

LEMMA OnMessageStep ==
    ASSUME ServerInv, Types', NEW c \in Conns, OnMessage(c)
    PROVE  ServerInv'
<1>1. conn \in [Conns -> Connection] /\ \A d \in Conns : conn[d].loop \in Loops
    BY Zenon DEF ServerInv, Types, Connection
<1>2. conn' = [conn EXCEPT ![c] = [conn[c] EXCEPT !.in = conn[c].in + 1, !.wcc = TRUE]]
    BY ZenonT(60), ZenonT(90) DEF OnMessage
<1>3. \A d \in Conns : conn'[d].st = conn[d].st /\ conn'[d].loop = conn[d].loop
    BY <1>1, <1>2, SMTT(60), Z3T(60) DEF Connection
<1>4. Active' = Active /\ Served' = Served /\ numConnected_' = numConnected_
    BY <1>3, ZenonT(60), ZenonT(90) DEF OnMessage, Active, Served
<1>5. \A l \in Loops, i \in 1..WheelSize : map_[l][i] \subseteq map_'[l][i]
    <2>1. map_' = map_ \/ map_' = Touch(c)
        BY ZenonT(60), ZenonT(90) DEF OnMessage
    <2>2. CASE map_' = Touch(c)
        BY <2>2, Touched, SMTT(60), Z3T(60) DEF ServerInv
    <2>. QED BY <2>1, <2>2, SMTT(60), Z3T(60)
<1>6. InWheel'
    BY <1>1, <1>3, <1>5, ZenonT(60), ZenonT(90) DEF ServerInv, InWheel
<1>. QED BY <1>4, <1>6, ZenonT(60), ZenonT(90) DEF ServerInv

LEMMA OnTimerStep ==
    ASSUME ServerInv, Types', NEW l \in Loops, OnTimer(l)
    PROVE  ServerInv'
<1>. DEFINE pushed == [m \in Loops |-> Append(Tail(map_[m]), {})]
            gone(c) == \E m \in Loops : c \in Gone(m, pushed[m])
<1>1. conn \in [Conns -> Connection] /\ \A d \in Conns : conn[d].loop \in Loops
    BY Zenon DEF ServerInv, Types, Connection
<1>2. /\ conn' = [c \in Conns |-> IF gone(c) THEN [conn[c] EXCEPT !.st = "kDisconnecting"] ELSE conn[c]]
      /\ map_' = pushed /\ numConnected_' = numConnected_
    BY ZenonT(60), ZenonT(90) DEF OnTimer
<1>3. \A c \in Conns : gone(c) => conn[c].st = "kConnected"
    BY DEF Gone
<1>4. \A c \in Conns : /\ conn'[c].loop = conn[c].loop
                       /\ gone(c) => conn'[c].st = "kDisconnecting"
                       /\ ~gone(c) => conn'[c].st = conn[c].st
    <2>. HIDE DEF gone
    <2>. QED BY <1>1, <1>2, ZenonT(60), ZenonT(90) DEF Connection
<1>5. Active' = Active /\ Served' \subseteq Served
    <2>. HIDE DEF gone
    <2>. QED BY <1>3, <1>4, SMTT(60), Z3T(60) DEF Active, Served
<1>6. Served' # {} => Cardinality(Served') < MaxConns
    BY <1>5, FewerServed, ZenonT(60), ZenonT(90)
<1>7. ASSUME NEW c \in Conns, conn'[c].st = "kConnected"
      PROVE  \E i \in 1..WheelSize : c \in map_'[conn'[c].loop][i]
    <2>. DEFINE m == conn[c].loop
    <2>1. conn[c].st = "kConnected" /\ ~gone(c) /\ m \in Loops
        BY <1>1, <1>4, <1>7, ZenonT(60), ZenonT(90)
    <2>2. PICK i \in 1..WheelSize : c \in map_[m][i]
        BY <2>1, ZenonT(60), ZenonT(90) DEF ServerInv, InWheel
    <2>3. c \in Head(map_[m]) => \E j \in 1..WheelSize : c \in pushed[m][j]
        BY <2>1, ZenonT(60), ZenonT(90) DEF Gone
    <2>. DEFINE ring == map_[m]
    <2>4. ring \in [1..WheelSize -> SUBSET Conns] /\ WheelSize \in Nat \ {0}
        BY <2>1, ServerConstants, ZenonT(60), ZenonT(90) DEF ServerInv, Types
    <2>5. pushed[m] = Append(Tail(ring), {})
        BY <2>1, ZenonT(60), ZenonT(90)
    <2>. HIDE DEF ring, pushed
    <2>6. ring \in Seq(SUBSET Conns) /\ Len(ring) = WheelSize /\ Head(ring) = ring[1]
        BY <2>4, SMTT(60), Z3T(60)
    <2>7. Tail(ring) \in Seq(SUBSET Conns) /\ Len(Tail(ring)) = WheelSize - 1
          /\ \A j \in 1..(WheelSize - 1) : Tail(ring)[j] = ring[j + 1]
        BY <2>4, <2>6, SMTT(60), Z3T(60)
    <2>8. \A j \in 1..(WheelSize - 1) : Append(Tail(ring), {})[j] = ring[j + 1]
        BY <2>4, <2>7, SMTT(60), Z3T(60)
    <2>9. i # 1 => i - 1 \in 1..(WheelSize - 1) /\ i - 1 \in 1..WheelSize /\ (i - 1) + 1 = i
        BY <2>4
    <2>10. i # 1 => c \in pushed[m][i - 1]
        BY <2>2, <2>5, <2>8, <2>9, ZenonT(60), ZenonT(90) DEF ring
    <2>11. \E j \in 1..WheelSize : c \in pushed[m][j]
        BY <2>2, <2>3, <2>6, <2>9, <2>10, ZenonT(60), ZenonT(90) DEF ring
    <2>. QED BY <1>2, <1>4, <2>11, ZenonT(60), ZenonT(90)
<1>8. InWheel'
    BY <1>7, ZenonT(60), ZenonT(90) DEF InWheel
<1>. QED BY <1>2, <1>5, <1>6, <1>8, ZenonT(60), ZenonT(90) DEF ServerInv

\* ServerInv is inductive.
LEMMA ServerStep == ServerInv /\ [ServerNext]_serverVars => ServerInv'
<1>. SUFFICES ASSUME ServerInv, [ServerNext]_serverVars PROVE ServerInv'
    OBVIOUS
<1>1. Types /\ Types'
    BY TypesStep, ZenonT(60), ZenonT(90) DEF ServerInv
<1>2. CASE UNCHANGED serverVars
    <2>1. Quiet
        BY <1>2, ZenonT(60), ZenonT(90) DEF serverVars, server, Quiet
    <2>. QED BY <1>1, <2>1, QuietStep, SMTT(60), Z3T(60)
<1>3. CASE ServerNext
    BY <1>1, <1>3, ServerSteps, QuietStep, ClosesStep, IncrementStep, AdmitStep, OnMessageStep,
       OnTimerStep, ZenonT(60), ZenonT(90)
<1>. QED BY <1>2, <1>3, SMTT(60), Z3T(60)

\* ServerInv holds at the start.
LEMMA InitServerInv == ServerInit => ServerInv
<1>. SUFFICES ASSUME ServerInit PROVE ServerInv
    OBVIOUS
<1>1. \A c \in Conns : conn[c].st = "none"
    BY ZenonT(60), ZenonT(90) DEF ServerInit, NoConn
<1>2. Active = {} /\ Served = {} /\ InWheel
    BY <1>1, ZenonT(60), ZenonT(90) DEF Active, Served, InWheel
<1>3. Cardinality(Active) = 0
    BY <1>2, FS_EmptySet, ZenonT(60), ZenonT(90)
<1>. QED BY <1>2, <1>3, InitTypes, ZenonT(60), ZenonT(90) DEF ServerInit, ServerInv

\* For any number of loops and connections, any limit and wheel: fewer than
\* kmaxConnections_ connections are served at a time, however onConnection's two
\* steps interleave over the loops, and numConnected_ never drifts from the number
\* of connections reported up and not yet down.
THEOREM LimitHoldsAlways == ServerSpec => []LimitHolds
<1>1. ServerInv => LimitHolds
    BY ZenonT(60), ZenonT(90) DEF ServerInv, LimitHolds, ServerTypeOK, Types, Connection, Active,
       Served
<1>. QED BY <1>1, InitServerInv, ServerStep, PTL DEF ServerSpec

\* For any number of loops and connections and any wheel: a connection that is served
\* has an Entry in the ring of its own loop, so onTimer reaches every idle one.
THEOREM NoneEscapesTheWheel == ServerSpec => []InWheel
<1>1. ServerInv => InWheel
    BY DEF ServerInv
<1>. QED BY <1>1, InitServerInv, ServerStep, PTL DEF ServerSpec
=============================================================================
