------------------------------ MODULE ThreadPl ------------------------------
(***************************************************************************)
(* base/thread/threadPool.h, the pool of the web server, down to the       *)
(* wrappers it is made of: MutexLock with its holder_, Condition,          *)
(* CountDownLatch, Thread and ThreadLocalSingleton.  What a critical       *)
(* section does is the step of module ThreadPool; here the threads lock,   *)
(* sleep, wake up and unlock one by one, a started thread is waited for    *)
(* with the latch of its Thread object, and every worker has its           *)
(* singleton.                                                              *)
(*                                                                         *)
(* A behaviour is either one of ThreadPool, section by section, or one     *)
(* with the wrappers (grain), for fewer producers and tasks.               *)
(***************************************************************************)
EXTENDS ThreadPool

CONSTANTS Main,            \* the thread that starts and stops the pool
          Pool,            \* the pool's mutex_
          FineProducers, FineTasks

Threads == {Main} \cup Workers \cup FineProducers

\* The mutexes: the pool's, and that of the latch of each worker's Thread.
Mutexes == {Pool} \cup Workers

ASSUME ThreadsAssumption ==
    /\ Main \notin Workers \cup Producers /\ Workers \cap Producers = {}
    /\ FineProducers \subseteq Producers /\ FineTasks \subseteq Tasks
    /\ Pool \notin Workers
    /\ None \notin Threads \cup Mutexes

VARIABLES grain,      \* "sections" or "wrappers"
          on,         \* the mutex a thread is in or about to lock
          at,         \* where it is in the wrappers' calls
          owner,      \* of the pthread_mutex_t
          holder_,
          count_,     \* of each latch
          tid_,       \* Thread::tid_ has been set by the thread
          child,      \* where a started thread is in runInThread
          arg         \* the task a producer has called put() with

locks == <<on, at, owner, holder_>>
objects == <<count_, tid_, child, arg>>
allVars == <<vars, grain, locks, objects>>

WrappersInit ==
    /\ Init
    /\ grain \in {"sections", "wrappers"}
    /\ on = [t \in Threads |-> None] /\ at = [t \in Threads |-> "out"]
    /\ owner = [m \in Mutexes |-> None] /\ holder_ = [m \in Mutexes |-> None]
    /\ count_ = [w \in Workers |-> 1] /\ tid_ = [w \in Workers |-> FALSE]
    /\ child = [w \in Workers |-> "none"]
    /\ arg = [p \in FineProducers |-> None]

-----------------------------------------------------------------------------
\* MutexLock, MutexLockGuard and Condition.

\* The constructor of a MutexLockGuard is entered.
Guard(t, m) == on' = [on EXCEPT ![t] = m] /\ at' = [at EXCEPT ![t] = "lock"]

\* pthread_mutex_lock returns; also at the end of pthread_cond_wait.
LockMutex(t) ==
    /\ at[t] = "lock" /\ owner[on[t]] = None
    /\ owner' = [owner EXCEPT ![on[t]] = t]
    /\ at' = [at EXCEPT ![t] = "locked"]
    /\ UNCHANGED <<on, holder_>>

\* assignHolder(), of lock() and of ~UnassignGuard.
AssignHolder(t) ==
    /\ at[t] = "locked"
    /\ holder_' = [holder_ EXCEPT ![on[t]] = t]
    /\ at' = [at EXCEPT ![t] = "in"]
    /\ UNCHANGED <<on, owner>>

\* Mutation of UnassignHolder: a condition wait has no UnassignGuard.
UnassignHolderUnguarded(t) ==
    /\ at[t] \in {"leave", "doze"}
    /\ holder_' = IF at[t] = "leave" THEN [holder_ EXCEPT ![on[t]] = None] ELSE holder_
    /\ at' = [at EXCEPT ![t] = IF at[t] = "leave" THEN "unlock" ELSE "sleep"]
    /\ UNCHANGED <<on, owner>>

\* unassignHolder(), of unlock() and of the constructor of UnassignGuard.
UnassignHolder(t) ==
    /\ at[t] \in {"leave", "doze"}
    /\ holder_' = [holder_ EXCEPT ![on[t]] = None]
    /\ at' = [at EXCEPT ![t] = IF at[t] = "leave" THEN "unlock" ELSE "sleep"]
    /\ UNCHANGED <<on, owner>>

UnlockMutex(t) ==
    /\ at[t] = "unlock"
    /\ owner' = [owner EXCEPT ![on[t]] = None]
    /\ at' = [at EXCEPT ![t] = "out"]
    /\ on' = [on EXCEPT ![t] = None]
    /\ UNCHANGED holder_

\* pthread_cond_wait releases the mutex and sleeps in one step.
CondWait(t) ==
    /\ at[t] = "sleep"
    /\ owner' = [owner EXCEPT ![on[t]] = None]
    /\ at' = [at EXCEPT ![t] = "asleep"]
    /\ UNCHANGED <<on, holder_>>

\* The thread t goes on to where, and the threads that the step has notified have
\* to lock the mutex again.
Notified(t) ==
    \/ t \in Workers /\ worker'[t] = "take"
    \/ t \in FineProducers /\ producer'[t] = "woken"
Continue(t, where) ==
    at' = [u \in Threads |->
              IF u = t THEN where
              ELSE IF at[u] = "asleep" /\ Notified(u) THEN "lock" ELSE at[u]]

\* Inside the critical section of m.
Inside(t, m) == at[t] = "in" /\ on[t] = m

-----------------------------------------------------------------------------
\* Thread and CountDownLatch.

\* The constructor and Thread::start() up to latch_.wait().
ThreadStart(w) ==
    /\ at[Main] = "out"
    /\ StartThread(w)
    /\ IF worker'[w] = "failed" THEN UNCHANGED <<on, at, child>>
       ELSE Guard(Main, w) /\ child' = [child EXCEPT ![w] = "begin"]
    /\ UNCHANGED <<owner, holder_, count_, tid_, arg>>

\* while (count_ > 0) condition_.wait();
LatchWait(w) ==
    /\ Inside(Main, w)
    /\ at' = [at EXCEPT ![Main] = IF count_[w] > 0 THEN "doze" ELSE "leave"]
    /\ UNCHANGED <<vars, on, owner, holder_, objects>>

\* runInThread: *tid_ is set, then the latch is counted down.
RunInThread(w) ==
    /\ child[w] = "begin" /\ at[w] = "out"
    /\ tid_' = [tid_ EXCEPT ![w] = TRUE]
    /\ child' = [child EXCEPT ![w] = "count"]
    /\ Guard(w, w)
    /\ UNCHANGED <<vars, owner, holder_, count_, arg>>

\* Mutation of CountDown: nobody is notified.
CountDownSilently(w) ==
    /\ Inside(w, w)
    /\ count_' = [count_ EXCEPT ![w] = @ - 1]
    /\ child' = [child EXCEPT ![w] = "func"]
    /\ at' = [at EXCEPT ![w] = "leave"]
    /\ UNCHANGED <<vars, on, owner, holder_, tid_, arg>>

\* countDown(), with notifyAll() when count_ has become 0.
CountDown(w) ==
    /\ Inside(w, w)
    /\ count_' = [count_ EXCEPT ![w] = @ - 1]
    /\ child' = [child EXCEPT ![w] = "func"]
    /\ at' = [at EXCEPT ![w] = "leave",
                        ![Main] = IF @ = "asleep" /\ on[Main] = w /\ count_'[w] = 0 THEN "lock" ELSE @]
    /\ UNCHANGED <<vars, on, owner, holder_, tid_, arg>>

\* ThreadLocalSingleton<T>::instance(), at the beginning of ThreadPl::runInThread.
MakeSingleton(w) ==
    /\ child[w] = "func" /\ at[w] = "out"
    /\ child' = [child EXCEPT ![w] = "loop"]
    /\ UNCHANGED <<vars, locks, count_, tid_, arg>>

\* The thread has returned from its function: the key's destructor deletes the
\* singleton, and the thread ends.
ThreadExit(w) ==
    /\ child[w] = "loop" /\ worker[w] = "exited"
    /\ child' = [child EXCEPT ![w] = "ended"]
    /\ UNCHANGED <<vars, locks, count_, tid_, arg>>

-----------------------------------------------------------------------------
\* The pool.

\* while (isRunning_), and the call of take().
LoopTest(w) ==
    /\ child[w] = "loop" /\ at[w] = "out"
    /\ TestRunning(w)
    /\ IF worker'[w] = "take" THEN Guard(w, Pool) ELSE UNCHANGED <<on, at>>
    /\ UNCHANGED <<owner, holder_, objects>>

\* take() inside the mutex.
Take(w) ==
    /\ Inside(w, Pool)
    /\ \/ WaitNotEmpty(w) /\ Continue(w, "doze")
       \/ (TakeNothing(w) \/ TakeTask(w)) /\ Continue(w, "leave")
    /\ UNCHANGED <<on, owner, holder_, objects>>

ExecuteTask(w) ==
    /\ at[w] = "out" /\ RunTask(w)
    /\ UNCHANGED <<locks, objects>>

\* put() outside the mutex: without threads the task is executed at once.
PutCall(p, t) ==
    /\ producer[p] = "idle" /\ at[p] = "out"
    /\ t \notin given /\ \A q \in FineProducers : arg[q] # t
    /\ IF threads_ = << >> THEN PutInline(p, t) /\ UNCHANGED <<on, at, arg>>
       ELSE Guard(p, Pool) /\ arg' = [arg EXCEPT ![p] = t] /\ UNCHANGED vars
    /\ UNCHANGED <<owner, holder_, count_, tid_, child>>

\* put() inside the mutex, again after each wait.
PutLocked(p) ==
    /\ Inside(p, Pool)
    /\ IF arg[p] # None THEN Put(p, arg[p]) ELSE PutAgain(p)
    /\ arg' = [arg EXCEPT ![p] = None]
    /\ Continue(p, IF producer'[p] = "blocked" THEN "doze" ELSE "leave")
    /\ UNCHANGED <<on, owner, holder_, count_, tid_, child>>

StopCall ==
    /\ control = "running" /\ at[Main] = "out"
    /\ Guard(Main, Pool)
    /\ UNCHANGED <<vars, owner, holder_, objects>>

StopLocked ==
    /\ Inside(Main, Pool)
    /\ Stop
    /\ Continue(Main, "leave")
    /\ UNCHANGED <<on, owner, holder_, objects>>

\* StartBegin, StartEnd, StopEnd, and pthread_join, which waits for the end of the
\* thread.
MainStep ==
    /\ at[Main] = "out"
    /\ \/ StartEnd \/ StopEnd
       \/ Join /\ (joined' > joined => child[threads_[joined + 1]] = "ended")
    /\ UNCHANGED <<locks, objects>>

\* A condition wait may return without a notification.
SpuriousReturn(t) ==
    /\ at[t] = "asleep"
    /\ \/ /\ t = Main /\ UNCHANGED vars
          /\ at' = [at EXCEPT ![t] = "lock"]
       \/ /\ t # Main /\ SpuriousWakeup
          /\ Notified(t) /\ Continue(t, "lock")
          /\ \A u \in Threads \ {t} : at[u] = "asleep" => ~Notified(u)
    /\ UNCHANGED <<on, owner, holder_, objects>>

-----------------------------------------------------------------------------
Wrapper(t) ==
    /\ AssignHolder(t) \/ UnassignHolder(t) \/ UnlockMutex(t) \/ CondWait(t)
    /\ UNCHANGED <<vars, objects>>

Acquire(t) == LockMutex(t) /\ UNCHANGED <<vars, objects>>

WorkerRuns(w) ==
    \/ RunInThread(w) \/ CountDown(w) \/ MakeSingleton(w) \/ ThreadExit(w)
    \/ LoopTest(w) \/ Take(w) \/ ExecuteTask(w)

MainRuns ==
    \/ \E w \in Workers : ThreadStart(w) \/ LatchWait(w)
    \/ StopLocked \/ MainStep

Begin == StartBegin /\ UNCHANGED <<locks, objects>>

WrappersNext ==
    /\ grain = "wrappers" /\ UNCHANGED grain
    /\ \/ Begin \/ MainRuns \/ StopCall
       \/ \E w \in Workers : WorkerRuns(w)
       \/ \E p \in FineProducers : PutLocked(p) \/ \E t \in FineTasks : PutCall(p, t)
       \/ \E t \in Threads : Acquire(t) \/ Wrapper(t) \/ SpuriousReturn(t)

Sections == grain = "sections" /\ UNCHANGED <<grain, locks, objects>>

SectionsNext == Sections /\ Next

\* The fairness of ThreadPool; none with the wrappers, of which only invariants are
\* checked.
SectionsFairness ==
    /\ WF_allVars(Sections /\ OwnerStep)
    /\ \A p \in Producers : WF_allVars(Sections /\ PutAgain(p))
    /\ \A w \in Workers : WF_allVars(Sections /\ WorkerStep(w))

PoolsNext == WrappersNext \/ SectionsNext

WrappersSpec == WrappersInit /\ [][PoolsNext]_allVars /\ SectionsFairness

-----------------------------------------------------------------------------
\* holder_ names a thread exactly while that thread is inside the critical section
\* and owns the pthread mutex, whatever it did between: waited, was overtaken, or
\* is just leaving.  So assertLocked() and isLockedByThisThread() tell the truth
\* to the thread that asks.
HolderIsOwner ==
    /\ \A t \in Threads :
        /\ at[t] \in {"locked", "in", "leave", "doze", "unlock", "sleep"} => owner[on[t]] = t
        /\ at[t] \in {"in", "leave", "doze"} => holder_[on[t]] = t
    /\ \A m \in Mutexes :
        /\ owner[m] # None => on[owner[m]] = m
        /\ holder_[m] # None =>
            holder_[m] = owner[m] /\ at[owner[m]] \in {"in", "leave", "doze"}

\* Thread::start() returns only when the new thread has set tid_ and is done with
\* the latch, both of which are members of the Thread object that the starter may
\* then destroy; it sleeps on the latch only while the count is not down; and a
\* worker executes tasks only after its singleton is made.
StartHandsOver ==
    \A w \in Workers :
        /\ child[w] # "none" /\ on[Main] # w =>
            /\ tid_[w] /\ on[w] # w /\ owner[w] = None /\ holder_[w] = None
            /\ child[w] \in {"func", "loop", "ended"}
        /\ at[Main] = "asleep" /\ on[Main] = w => count_[w] > 0
        /\ grain = "wrappers" /\ worker[w] \in {"take", "waiting", "run"} => child[w] = "loop"

\* A thread is in the wrappers' code with one mutex at a time, and the mutex of a latch
\* is used only by the starter and the started thread.
LocksOK ==
    /\ on \in [Threads -> Mutexes \cup {None}]
    /\ at \in [Threads -> {"out", "lock", "locked", "in", "leave", "unlock", "doze", "sleep", "asleep"}]
    /\ owner \in [Mutexes -> Threads \cup {None}]
    /\ holder_ \in [Mutexes -> Threads \cup {None}]
    /\ \A t \in Threads : at[t] = "out" <=> on[t] = None
    /\ \A t \in Threads, w \in Workers : on[t] = w => t \in {Main, w}

\* How far the latch of w lets the starter and the started thread go.
LatchOf(w) ==
    /\ child[w] \in {"none", "begin"} => on[w] = None
    /\ child[w] \in {"none", "begin", "count"} => count_[w] = 1
    /\ child[w] \in {"begin", "count"} => on[Main] = w /\ at[Main] \notin {"leave", "unlock"}
    /\ child[w] = "count" => on[w] = w /\ at[w] \in {"lock", "locked", "in"}
    /\ child[w] \in {"count", "func", "loop", "ended"} => tid_[w] = TRUE
    /\ child[w] \in {"func", "loop", "ended"} => count_[w] = 0
    /\ on[w] = w => \/ child[w] = "count"
                    \/ child[w] = "func" /\ at[w] \in {"leave", "unlock"} /\ on[Main] = w
    /\ on[Main] = w => child[w] # "none"
    /\ on[Main] = w /\ at[Main] \in {"doze", "sleep", "asleep"} => count_[w] = 1

LatchOK ==
    /\ child \in [Workers -> {"none", "begin", "count", "func", "loop", "ended"}]
    /\ count_ \in [Workers -> {0, 1}] /\ tid_ \in [Workers -> BOOLEAN]
    /\ arg \in [FineProducers -> Tasks \cup {None}]
    /\ \A w \in Workers :
        /\ LatchOf(w)
        /\ grain = "wrappers" /\ worker[w] = "none" => child[w] = "none"
        /\ grain = "wrappers" /\ worker[w] \in {"take", "waiting", "run"} => child[w] = "loop"

\* The inductive invariant of the wrappers.
WrappersInv == LocksOK /\ HolderIsOwner /\ LatchOK

\* A task that put() accepted is executed, unless the pool is stopped or none of its
\* threads could be created.
AcceptedExecuted == grain = "sections" => AcceptedRuns

\* stop() ends: no worker stays in the wait of take().
PoolStops == grain = "sections" => StopEnds
=============================================================================
