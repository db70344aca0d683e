----------------------------- MODULE ThreadPool -----------------------------
(***************************************************************************)
(* base/thread/ThreadPool.cpp (and its twin ThreadPl in threadPool.h): a   *)
(* bounded queue of tasks, filled by put() and emptied by worker threads   *)
(* in take(), with one mutex and two conditions, notEmpty_ and notFull_.   *)
(*                                                                         *)
(* A section under the mutex is one step.  A thread in a condition wait is *)
(* "waiting"; a notification, or a spurious wakeup, sends it back to test  *)
(* its while condition again.  isRunning_ is also read outside the mutex.  *)
(***************************************************************************)
EXTENDS Naturals, Sequences, FiniteSets

CONSTANTS Workers,        \* the threads start(numThreads) creates
          Producers,      \* threads that call put()
          Tasks,          \* each put at most once
          MaxQueueSize,   \* maxQueueSize_; 0 means unbounded
          None            \* no task

ASSUME PoolAssumption ==
    /\ MaxQueueSize \in Nat
    /\ IsFiniteSet(Workers) /\ IsFiniteSet(Producers)
    /\ None \notin Tasks

VARIABLES control,      \* where the owner is: constructor, start(), stop()
          isRunning_,
          threads_,     \* the Thread objects, in the order of their creation
          joined,       \* how many of them stop() has joined
          queue_,
          worker,       \* where each worker is in runInThread() and take()
          task,         \* the task a worker has taken
          producer,     \* where each producer is in put()
          offer,        \* the task a producer is trying to put
          taken,        \* history: tasks taken from the queue, in order
          executed,     \* history: tasks that have been executed
          given         \* history: tasks passed to put()

vars == <<control, isRunning_, threads_, joined, queue_, worker, task, producer,
          offer, taken, executed, given>>

ownerVars == <<control, isRunning_, threads_, joined>>

Init ==
    /\ control = "new"
    /\ isRunning_ = FALSE
    /\ threads_ = << >>
    /\ joined = 0
    /\ queue_ = << >>
    /\ worker = [w \in Workers |-> "none"]
    /\ task = [w \in Workers |-> None]
    /\ producer = [p \in Producers |-> "idle"]
    /\ offer = [p \in Producers |-> None]
    /\ taken = << >>
    /\ executed = {}
    /\ given = {}

isFull == MaxQueueSize > 0 /\ Len(queue_) >= MaxQueueSize

Waiting == {w \in Workers : worker[w] = "waiting"}
Blocked == {p \in Producers : producer[p] = "blocked"}

\* The results of notify() on each condition: one waiter, if there is any,
\* leaves the wait.
NotifyNotEmpty ==
    IF Waiting = {} THEN {worker}
    ELSE {[worker EXCEPT ![w] = "take"] : w \in Waiting}
NotifyNotFull ==
    IF Blocked = {} THEN {producer}
    ELSE {[producer EXCEPT ![p] = "woken"] : p \in Blocked}

-----------------------------------------------------------------------------
\* start(numThreads).

StartBegin ==
    /\ control = "new"
    /\ control' = "starting"
    /\ isRunning_' = TRUE
    /\ UNCHANGED <<threads_, joined, queue_, worker, task, producer, offer, taken,
                   executed, given>>

\* threads_.emplace_back and Thread::start().  When pthread_create fails,
\* Thread::start() resets started_ and returns, and the pool goes on.
StartThread(w) ==
    /\ control = "starting"
    /\ worker[w] = "none"
    /\ threads_' = Append(threads_, w)
    /\ \E outcome \in {"test", "failed"} : worker' = [worker EXCEPT ![w] = outcome]
    /\ UNCHANGED <<control, isRunning_, joined, queue_, task, producer, offer, taken,
                   executed, given>>

StartEnd ==
    /\ control = "starting"
    /\ \A w \in Workers : worker[w] # "none"
    /\ control' = "running"
    /\ UNCHANGED <<isRunning_, threads_, joined, queue_, worker, task, producer, offer,
                   taken, executed, given>>

-----------------------------------------------------------------------------
\* put().

\* No thread was created: the caller executes the task itself.
PutInline(p, t) ==
    /\ threads_ = << >>
    /\ producer[p] = "idle"
    /\ t \notin given
    /\ given' = given \union {t}
    /\ executed' = executed \union {t}
    /\ UNCHANGED <<ownerVars, queue_, worker, task, producer, offer, taken>>

\* Mutation of Enqueue: notEmpty_.notify() is missing.
EnqueueWithoutNotify(p, t) ==
    /\ queue_' = Append(queue_, t)
    /\ producer' = [producer EXCEPT ![p] = "idle"]
    /\ offer' = [offer EXCEPT ![p] = None]
    /\ UNCHANGED worker

Enqueue(p, t) ==
    /\ queue_' = Append(queue_, t)
    /\ worker' \in NotifyNotEmpty
    /\ producer' = [producer EXCEPT ![p] = "idle"]
    /\ offer' = [offer EXCEPT ![p] = None]

WaitNotFull(p, t) ==
    /\ producer' = [producer EXCEPT ![p] = "blocked"]
    /\ offer' = [offer EXCEPT ![p] = t]
    /\ UNCHANGED <<queue_, worker>>

Put(p, t) ==
    /\ threads_ # << >>
    /\ producer[p] = "idle"
    /\ t \notin given
    /\ given' = given \union {t}
    /\ IF isFull THEN WaitNotFull(p, t) ELSE Enqueue(p, t)
    /\ UNCHANGED <<ownerVars, task, taken, executed>>

\* A producer that left the wait tests isFull() again.
PutAgain(p) ==
    /\ producer[p] = "woken"
    /\ IF isFull THEN WaitNotFull(p, offer[p]) ELSE Enqueue(p, offer[p])
    /\ UNCHANGED <<ownerVars, task, taken, executed, given>>

-----------------------------------------------------------------------------
\* runInThread() and take().

TestRunning(w) ==
    /\ worker[w] = "test"
    /\ worker' = [worker EXCEPT ![w] = IF isRunning_ THEN "take" ELSE "exited"]
    /\ UNCHANGED <<ownerVars, queue_, task, producer, offer, taken, executed, given>>

WaitNotEmpty(w) ==
    /\ worker[w] = "take"
    /\ queue_ = << >> /\ isRunning_
    /\ worker' = [worker EXCEPT ![w] = "waiting"]
    /\ UNCHANGED <<ownerVars, queue_, task, producer, offer, taken, executed, given>>

\* take() returns an empty task once the pool has been stopped.
TakeNothing(w) ==
    /\ worker[w] = "take"
    /\ queue_ = << >> /\ ~isRunning_
    /\ worker' = [worker EXCEPT ![w] = "test"]
    /\ UNCHANGED <<ownerVars, queue_, task, producer, offer, taken, executed, given>>

\* Mutation of TakeTask: the newest task is taken, from the back of queue_.
TakeNewest(w) ==
    /\ worker[w] = "take"
    /\ queue_ # << >>
    /\ task' = [task EXCEPT ![w] = queue_[Len(queue_)]]
    /\ queue_' = SubSeq(queue_, 1, Len(queue_) - 1)
    /\ taken' = Append(taken, queue_[Len(queue_)])
    /\ worker' = [worker EXCEPT ![w] = "run"]
    /\ producer' \in IF MaxQueueSize > 0 THEN NotifyNotFull ELSE {producer}
    /\ UNCHANGED <<ownerVars, offer, executed, given>>

TakeTask(w) ==
    /\ worker[w] = "take"
    /\ queue_ # << >>
    /\ task' = [task EXCEPT ![w] = Head(queue_)]
    /\ queue_' = Tail(queue_)
    /\ taken' = Append(taken, Head(queue_))
    /\ worker' = [worker EXCEPT ![w] = "run"]
    /\ producer' \in IF MaxQueueSize > 0 THEN NotifyNotFull ELSE {producer}
    /\ UNCHANGED <<ownerVars, offer, executed, given>>

RunTask(w) ==
    /\ worker[w] = "run"
    /\ executed' = executed \union {task[w]}
    /\ task' = [task EXCEPT ![w] = None]
    /\ worker' = [worker EXCEPT ![w] = "test"]
    /\ UNCHANGED <<ownerVars, queue_, producer, offer, taken, given>>

\* pthread_cond_wait may return without a notification.
SpuriousWakeup ==
    \/ /\ \E w \in Waiting : worker' = [worker EXCEPT ![w] = "take"]
       /\ UNCHANGED <<ownerVars, queue_, task, producer, offer, taken, executed, given>>
    \/ /\ \E p \in Blocked : producer' = [producer EXCEPT ![p] = "woken"]
       /\ UNCHANGED <<ownerVars, queue_, worker, task, offer, taken, executed, given>>

-----------------------------------------------------------------------------
\* stop().

\* Mutation of Stop: notify() instead of notifyAll().
StopNotifyOne ==
    /\ control = "running"
    /\ control' = "joining"
    /\ isRunning_' = FALSE
    /\ worker' \in NotifyNotEmpty
    /\ UNCHANGED <<threads_, joined, queue_, task, producer, offer, taken, executed, given>>

\* isRunning_ = false and notEmpty_.notifyAll(), under the mutex.
Stop ==
    /\ control = "running"
    /\ control' = "joining"
    /\ isRunning_' = FALSE
    /\ worker' = [w \in Workers |-> IF w \in Waiting THEN "take" ELSE worker[w]]
    /\ UNCHANGED <<threads_, joined, queue_, task, producer, offer, taken, executed, given>>

\* t->join() for each thread in turn; Thread::join asserts started_.
Join ==
    /\ control = "joining"
    /\ joined < Len(threads_)
    /\ LET w == threads_[joined + 1] IN
         \/ /\ worker[w] = "failed"
            /\ control' = "aborted"
            /\ UNCHANGED joined
         \/ /\ worker[w] = "exited"
            /\ joined' = joined + 1
            /\ UNCHANGED control
    /\ UNCHANGED <<isRunning_, threads_, queue_, worker, task, producer, offer, taken,
                   executed, given>>

StopEnd ==
    /\ control = "joining"
    /\ joined = Len(threads_)
    /\ control' = "stopped"
    /\ UNCHANGED <<isRunning_, threads_, joined, queue_, worker, task, producer, offer,
                   taken, executed, given>>

-----------------------------------------------------------------------------
WorkerStep(w) ==
    TestRunning(w) \/ WaitNotEmpty(w) \/ TakeNothing(w) \/ TakeTask(w) \/ RunTask(w)

OwnerStep == (\E w \in Workers : StartThread(w)) \/ StartEnd \/ Join \/ StopEnd

Next ==
    \/ StartBegin \/ OwnerStep \/ Stop
    \/ \E p \in Producers, t \in Tasks : PutInline(p, t) \/ Put(p, t)
    \/ \E p \in Producers : PutAgain(p)
    \/ \E w \in Workers : WorkerStep(w)
    \/ SpuriousWakeup

\* Every thread that can run is scheduled and gets the mutex; tasks return.
\* Nobody is obliged to put a task, to stop the pool or to wake up spuriously.
Fairness ==
    /\ WF_vars(OwnerStep)
    /\ \A p \in Producers : WF_vars(PutAgain(p))
    /\ \A w \in Workers : WF_vars(WorkerStep(w))

Spec == Init /\ [][Next]_vars /\ Fairness

-----------------------------------------------------------------------------
\* The domain of every variable of the pool.
TypeOK ==
    /\ control \in {"new", "starting", "running", "joining", "stopped", "aborted"}
    /\ isRunning_ \in BOOLEAN
    /\ threads_ \in Seq(Workers)
    /\ joined \in Nat
    /\ queue_ \in Seq(Tasks)
    /\ worker \in [Workers -> {"none", "failed", "test", "take", "waiting", "run", "exited"}]
    /\ task \in [Workers -> Tasks \union {None}]
    /\ producer \in [Producers -> {"idle", "blocked", "woken"}]
    /\ offer \in [Producers -> Tasks \union {None}]
    /\ taken \in Seq(Tasks)
    /\ executed \in SUBSET Tasks
    /\ given \in SUBSET Tasks

\* A worker holds a task exactly while it executes it, a producer offers one
\* exactly while it is inside put(); workers wait only while isRunning_ is set,
\* and producers block only on a bounded queue.
ThreadsOK ==
    /\ \A w \in Workers : worker[w] = "run" <=> task[w] # None
    /\ \A p \in Producers : producer[p] # "idle" <=> offer[p] # None
    /\ Waiting # {} => isRunning_
    /\ Blocked # {} => MaxQueueSize > 0

\* put() keeps its bound although several producers wait for the same slot and
\* are woken by notify() or spuriously: this is assert(!isFull()) of put().
QueueBounded == MaxQueueSize > 0 => Len(queue_) <= MaxQueueSize

\* Workers that are on their way to the test of take().
Awake == {w \in Workers : worker[w] = "take"}

\* No worker sleeps on work: while one waits on notEmpty_, each task in the
\* queue has another worker awake that has not taken a task yet.  One notify()
\* per put() is enough, spurious wakeups and workers that overtake the
\* notified one included.
NoIdleWorker == Waiting # {} => Len(queue_) <= Cardinality(Awake)

\* Producers that left the wait of put().
Woken == {p \in Producers : producer[p] = "woken"}

\* No producer sleeps on a free slot: while one is blocked on notFull_, each
\* free slot has another producer awake to fill it.
NoStrandedProducer == Blocked # {} => MaxQueueSize <= Len(queue_) + Cardinality(Woken)

\* The inductive invariant of the pool.
IInv == TypeOK /\ ThreadsOK /\ QueueBounded /\ NoIdleWorker /\ NoStrandedProducer

\* take() hands out the tasks in the order put() accepted them, each once,
\* whichever workers take them.
FQ == INSTANCE FunctorQueue WITH Functors <- Tasks, queue <- queue_, ran <- taken
TasksAreFIFO == FQ!Spec

\* A task that put() accepted is executed, unless the pool is stopped or none
\* of its threads could be created.
AcceptedRuns ==
    \A t \in Tasks :
        (\E i \in DOMAIN queue_ : queue_[i] = t)
          ~> (t \in executed \/ ~isRunning_ \/ \A w \in Workers : worker[w] = "failed")

\* stop() ends: it wakes every worker, and join() waits for none that is
\* still in the wait of take().
StopEnds == control = "joining" ~> control \in {"stopped", "aborted"}
=============================================================================
