-------------------------- MODULE ThreadPoolProofs --------------------------
(***************************************************************************)
(* Proofs about ThreadPool and ThreadPl for any finite sets of workers and *)
(* producers, any tasks and any queue bound.  First the wrappers: each     *)
(* step of ThreadPl is a step of ThreadPool or invisible to it, and keeps  *)
(* what is true of the mutexes, their holders and the latches.  Then the   *)
(* pool, and what follows for the pool with its wrappers.                  *)
(***************************************************************************)
EXTENDS ThreadPl, FiniteSetTheorems, TLAPS

-----------------------------------------------------------------------------
\* Entering a MutexLockGuard keeps the facts about holders.
LEMMA GuardStep ==
    ASSUME LocksOK, HolderIsOwner, NEW t \in Threads, NEW m \in Mutexes,
           at[t] = "out", Guard(t, m), UNCHANGED <<owner, holder_>>,
           m \in Workers => t \in {Main, m}
    PROVE  LocksOK' /\ HolderIsOwner'
  <1>1. on[t] = None /\ m # None
    BY ThreadsAssumption, SMTT(60), Z3T(60) DEF LocksOK
  <1>2. LocksOK'
    BY <1>1, ThreadsAssumption, SMTT(60), Z3T(60) DEF LocksOK, Guard
  <1>3. \A n \in Mutexes : owner[n] # t
    <2>1. t # None /\ None \notin Mutexes
      BY ThreadsAssumption, SMTT(60), Z3T(60)
    <2>2. \A n \in Mutexes : owner[n] # None => on[owner[n]] = n
      BY SMTT(60), Z3T(60) DEF HolderIsOwner
    <2>3. QED
      BY <1>1, <2>1, <2>2, ZenonT(60), ZenonT(90)
  <1>4. HolderIsOwner'
    BY <1>1, <1>3, SMTT(60), Z3T(60) DEF LocksOK, HolderIsOwner, Guard
  <1>5. QED
    BY <1>2, <1>4, SMTT(60), Z3T(60)

\* So does what a thread does inside, waking up others.
LEMMA SectionStep ==
    ASSUME LocksOK, HolderIsOwner, NEW t \in Threads,
           at[t] = "in", at' \in [Threads -> {"out", "lock", "locked", "in", "leave", "unlock",
                                              "doze", "sleep", "asleep"}],
           at'[t] \in {"leave", "doze"},
           \A u \in Threads \ {t} : at'[u] = at[u] \/ (at[u] = "asleep" /\ at'[u] = "lock"),
           UNCHANGED <<on, owner, holder_>>
    PROVE  LocksOK' /\ HolderIsOwner'
  <1>1. LocksOK'
    BY SMTT(60), Z3T(60) DEF LocksOK
  <1>2. HolderIsOwner'
    BY DEF LocksOK, HolderIsOwner
  <1>3. QED
    BY <1>1, <1>2, SMTT(60), Z3T(60)

\* And the wrappers' own steps.
LEMMA LockStep ==
    ASSUME LocksOK, HolderIsOwner, NEW t \in Threads,
           LockMutex(t) \/ AssignHolder(t) \/ UnassignHolder(t) \/ UnlockMutex(t) \/ CondWait(t)
    PROVE  LocksOK' /\ HolderIsOwner'
  <1>1. CASE LockMutex(t)
    BY <1>1, ThreadsAssumption, SMTT(60), Z3T(60) DEF LocksOK, HolderIsOwner, LockMutex
  <1>2. CASE AssignHolder(t)
    BY <1>2, ThreadsAssumption, SMTT(60), Z3T(60) DEF LocksOK, HolderIsOwner, AssignHolder
  <1>3. CASE UnassignHolder(t)
    BY <1>3, ThreadsAssumption, SMTT(60), Z3T(60) DEF LocksOK, HolderIsOwner, UnassignHolder
  <1>4. CASE UnlockMutex(t)
    <2>1. on[t] \in Mutexes /\ owner[on[t]] = t
      BY <1>4 DEF LocksOK, HolderIsOwner, UnlockMutex
    <2>2. holder_[on[t]] = None
      BY <1>4, <2>1, ZenonT(60), ZenonT(90) DEF LocksOK, HolderIsOwner, UnlockMutex
    <2>3. LocksOK'
      <3>1. on' \in [Threads -> Mutexes \cup {None}] /\ owner' \in [Mutexes -> Threads \cup {None}]
        BY <1>4 DEF LocksOK, UnlockMutex
      <3>2. at'[t] = "out" /\ on'[t] = None
        BY <1>4, SMTT(60), Z3T(60) DEF LocksOK, UnlockMutex
      <3>3. \A u \in Threads \ {t} : at'[u] = at[u] /\ on'[u] = on[u]
        BY <1>4, SMTT(60), Z3T(60) DEF LocksOK, UnlockMutex
      <3>4. QED
        BY <1>4, <3>1, <3>2, <3>3, ThreadsAssumption, ZenonT(60), ZenonT(90) DEF LocksOK,
           UnlockMutex, Mutexes
    <2>4. \A m \in Mutexes : owner'[m] # None => owner'[m] = owner[m] /\ owner[m] # t
      BY <1>4, <2>1, SMTT(60), Z3T(60) DEF LocksOK, HolderIsOwner, UnlockMutex
    <2>5. \A u \in Threads : u # t => at'[u] = at[u] /\ on'[u] = on[u]
      BY <1>4, SMTT(60), Z3T(60) DEF LocksOK, UnlockMutex
    <2>6. \A u \in Threads : u # t /\ owner[on[u]] = u => owner'[on'[u]] = u
      BY <1>4, <2>1, <2>5, SMTT(60), Z3T(60) DEF LocksOK, UnlockMutex
    <2>7. HolderIsOwner'
      BY <1>4, <2>1, <2>2, <2>4, <2>5, <2>6, SMTT(60), Z3T(60) DEF LocksOK, HolderIsOwner,
         UnlockMutex
    <2>8. QED
      BY <2>3, <2>7, SMTT(60), Z3T(60)
  <1>5. CASE CondWait(t)
    BY <1>5, ThreadsAssumption, SMTT(60), Z3T(60) DEF LocksOK, HolderIsOwner, CondWait
  <1>6. QED
    BY <1>1, <1>2, <1>3, <1>4, <1>5, ZenonT(60), ZenonT(90)

\* Every step with the wrappers is a step of ThreadPool or leaves it unchanged.
LEMMA WrappersStepIsPoolStep == LatchOK /\ WrappersNext => [Next]_vars
  <1> SUFFICES ASSUME LatchOK, WrappersNext PROVE Next \/ UNCHANGED vars
    OBVIOUS
  <1>1. CASE Begin \/ StopCall
    BY <1>1, ZenonT(60), ZenonT(90) DEF Begin, StopCall, Next
  <1>2. CASE MainRuns
    BY <1>2, ZenonT(60), ZenonT(90) DEF MainRuns, ThreadStart, LatchWait, StopLocked, MainStep,
       Next, OwnerStep
  <1>3. ASSUME NEW w \in Workers, WorkerRuns(w) PROVE Next \/ UNCHANGED vars
    BY <1>3 DEF WorkerRuns, RunInThread, CountDown, MakeSingleton, ThreadExit, LoopTest, Take,
                ExecuteTask, Next, WorkerStep
  <1>4. ASSUME NEW p \in FineProducers, PutLocked(p) PROVE Next
    <2>1. p \in Producers /\ arg[p] \in Tasks \cup {None}
      BY ThreadsAssumption, ZenonT(60), ZenonT(90) DEF LatchOK
    <2>2. QED
      BY <1>4, <2>1, ZenonT(60), ZenonT(90) DEF PutLocked, Next
  <1>5. ASSUME NEW p \in FineProducers, NEW t \in FineTasks, PutCall(p, t)
        PROVE  Next \/ UNCHANGED vars
    <2>1. p \in Producers /\ t \in Tasks
      BY ThreadsAssumption
    <2>2. QED
      BY <1>5, <2>1, SMTT(60), Z3T(60) DEF PutCall, Next
  <1>6. ASSUME NEW t \in Threads, Acquire(t) \/ Wrapper(t) \/ SpuriousReturn(t)
        PROVE  Next \/ UNCHANGED vars
    BY <1>6, ZenonT(60), ZenonT(90) DEF Acquire, Wrapper, SpuriousReturn, Next
  <1>7. QED
    BY <1>1, <1>2, <1>3, <1>4, <1>5, <1>6, ZenonT(60), ZenonT(90) DEF WrappersNext

\* holder_ and the owner agree after every step.
LEMMA HolderStep ==
    ASSUME IInv, WrappersInv, WrappersNext PROVE LocksOK' /\ HolderIsOwner'
  <1> USE DEF WrappersInv
  <1>0. /\ Main \in Threads /\ Workers \subseteq Threads /\ FineProducers \subseteq Threads
        /\ Pool \in Mutexes /\ Workers \subseteq Mutexes /\ Pool \notin Workers
        /\ Main \notin Workers /\ Main \notin FineProducers /\ Workers \cap FineProducers = {}
    BY ThreadsAssumption, ZenonT(60), ZenonT(90) DEF Threads, Mutexes
  <1>1. CASE UNCHANGED locks
    BY <1>1, SMTT(60), Z3T(60) DEF locks, LocksOK, HolderIsOwner
  <1>2. ASSUME NEW t \in Threads, Acquire(t) \/ Wrapper(t)
        PROVE  LocksOK' /\ HolderIsOwner'
    BY <1>2, LockStep, SMTT(60), Z3T(60) DEF Acquire, Wrapper
  <1>3. ASSUME NEW t \in Threads, NEW where \in {"leave", "doze"},
               at[t] = "in", Continue(t, where), UNCHANGED <<on, owner, holder_>>
        PROVE  LocksOK' /\ HolderIsOwner'
    <2>1. /\ at' \in [Threads -> {"out", "lock", "locked", "in", "leave", "unlock",
                                  "doze", "sleep", "asleep"}]
          /\ at'[t] \in {"leave", "doze"}
          /\ \A u \in Threads \ {t} : at'[u] = at[u] \/ (at[u] = "asleep" /\ at'[u] = "lock")
      BY <1>3, SMTT(60), Z3T(60) DEF Continue, LocksOK
    <2>2. QED
      BY <1>3, <2>1, SectionStep, ZenonT(60), ZenonT(90)
  <1>4. ASSUME NEW w \in Workers, ThreadStart(w) PROVE LocksOK' /\ HolderIsOwner'
    <2>1. CASE UNCHANGED <<on, at>>
      BY <1>1, <1>4, <2>1, ZenonT(60), ZenonT(90) DEF ThreadStart, locks
    <2>2. CASE Guard(Main, w)
      BY <1>0, <1>4, <2>2, GuardStep, ZenonT(60), ZenonT(90) DEF ThreadStart
    <2>3. QED
      BY <1>4, <2>1, <2>2, SMTT(60), Z3T(60) DEF ThreadStart
  <1>5. ASSUME NEW w \in Workers, LatchWait(w) PROVE LocksOK' /\ HolderIsOwner'
    <2>1. /\ at[Main] = "in" /\ at'[Main] \in {"leave", "doze"}
          /\ at' \in [Threads -> {"out", "lock", "locked", "in", "leave", "unlock",
                                  "doze", "sleep", "asleep"}]
          /\ \A u \in Threads \ {Main} : at'[u] = at[u]
      BY <1>0, <1>5, ZenonT(60), ZenonT(90) DEF LatchWait, Inside, LocksOK
    <2>2. QED
      BY <1>0, <1>5, <2>1, SectionStep, ZenonT(60), ZenonT(90) DEF LatchWait
  <1>6. CASE StopLocked
    BY <1>0, <1>3, <1>6, Zenon DEF StopLocked, Inside
  <1>7. CASE StopCall
    BY <1>0, <1>7, GuardStep, ZenonT(60), ZenonT(90) DEF StopCall
  <1>8. ASSUME NEW w \in Workers, RunInThread(w) PROVE LocksOK' /\ HolderIsOwner'
    BY <1>0, <1>8, GuardStep, ZenonT(60), ZenonT(90) DEF RunInThread
  <1>9. ASSUME NEW w \in Workers, CountDown(w) PROVE LocksOK' /\ HolderIsOwner'
    <2>1. /\ at[w] = "in" /\ at'[w] \in {"leave", "doze"}
          /\ at' \in [Threads -> {"out", "lock", "locked", "in", "leave", "unlock",
                                  "doze", "sleep", "asleep"}]
          /\ \A u \in Threads \ {w} : at'[u] = at[u] \/ (at[u] = "asleep" /\ at'[u] = "lock")
      BY <1>0, <1>9, ZenonT(60), ZenonT(90) DEF CountDown, Inside, LocksOK
    <2>2. QED
      BY <1>0, <1>9, <2>1, SectionStep, ZenonT(60), ZenonT(90) DEF CountDown
  <1>10. ASSUME NEW w \in Workers, LoopTest(w) PROVE LocksOK' /\ HolderIsOwner'
    <2>1. CASE UNCHANGED <<on, at>>
      BY <1>1, <1>10, <2>1, ZenonT(60), ZenonT(90) DEF LoopTest, locks
    <2>2. CASE Guard(w, Pool)
      BY <1>0, <1>10, <2>2, GuardStep, ZenonT(60), ZenonT(90) DEF LoopTest
    <2>3. QED
      BY <1>10, <2>1, <2>2, ZenonT(60), ZenonT(90) DEF LoopTest
  <1>11. ASSUME NEW w \in Workers, Take(w) PROVE LocksOK' /\ HolderIsOwner'
    BY <1>0, <1>3, <1>11, ZenonT(60), ZenonT(90) DEF Take, Inside
  <1>12. ASSUME NEW p \in FineProducers, PutLocked(p) PROVE LocksOK' /\ HolderIsOwner'
    BY <1>0, <1>3, <1>12, ZenonT(60), ZenonT(90) DEF PutLocked, Inside
  <1>13. ASSUME NEW p \in FineProducers, NEW t \in FineTasks, PutCall(p, t)
         PROVE  LocksOK' /\ HolderIsOwner'
    <2>1. CASE UNCHANGED <<on, at>>
      BY <1>1, <1>13, <2>1, ZenonT(60), ZenonT(90) DEF PutCall, locks
    <2>2. CASE Guard(p, Pool)
      BY <1>0, <1>13, <2>2, GuardStep, ZenonT(60), ZenonT(90) DEF PutCall
    <2>3. QED
      BY <1>13, <2>1, <2>2, ZenonT(60), ZenonT(90) DEF PutCall
  <1>14. ASSUME NEW t \in Threads, SpuriousReturn(t) PROVE LocksOK' /\ HolderIsOwner'
    <2>1. /\ at' \in [Threads -> {"out", "lock", "locked", "in", "leave", "unlock",
                                  "doze", "sleep", "asleep"}]
          /\ \A u \in Threads : at'[u] = at[u] \/ (at[u] = "asleep" /\ at'[u] = "lock")
      BY <1>14, SMTT(60), Z3T(60) DEF SpuriousReturn, Continue, LocksOK
    <2>2. UNCHANGED <<on, owner, holder_>>
      BY <1>14 DEF SpuriousReturn
    <2>3. LocksOK'
      BY <2>1, <2>2, ZenonT(60), ZenonT(90) DEF LocksOK
    <2>4. HolderIsOwner'
      BY <2>1, <2>2, SMTT(60), Z3T(60) DEF HolderIsOwner, LocksOK
    <2>5. QED
      BY <2>3, <2>4, ZenonT(60), ZenonT(90)
  <1>15. QED
    BY <1>1, <1>2, <1>4, <1>5, <1>6, <1>7, <1>8, <1>9, <1>10, <1>11, <1>12, <1>13, <1>14,
       ZenonT(60), ZenonT(90)
       DEF WrappersNext, Begin, MainRuns, MainStep, WorkerRuns, MakeSingleton, ThreadExit, ExecuteTask

\* The latch of v after every step.
LEMMA LatchOfStep ==
    ASSUME IInv, WrappersInv, WrappersNext, NEW v \in Workers
    PROVE  LatchOf(v)'
  <1> USE DEF WrappersInv
  <1>0. /\ Main \in Threads /\ v \in Threads /\ v # Main /\ v \in Mutexes /\ v # Pool /\ v # None
        /\ Main \notin Workers /\ Main \notin FineProducers /\ Pool # None
        /\ v \notin FineProducers
    BY ThreadsAssumption, SMTT(60), Z3T(60) DEF Threads, Mutexes
  <1>t. /\ on \in [Threads -> Mutexes \cup {None}]
        /\ child \in [Workers -> {"none", "begin", "count", "func", "loop", "ended"}]
        /\ count_ \in [Workers -> {0, 1}] /\ tid_ \in [Workers -> BOOLEAN]
        /\ \A t \in Threads : at[t] = "out" <=> on[t] = None
        /\ DOMAIN at = Threads
    BY DEF LocksOK, LatchOK
  <1>l. LatchOf(v)
    BY Zenon DEF LatchOK
  <1>1. CASE UNCHANGED <<on, at, count_, tid_, child>>
    BY <1>1, <1>l, ZenonT(60), ZenonT(90) DEF LatchOf
  \* A step that changes nothing the latch of v is about.
  <1>2. ASSUME on'[v] = on[v], on'[Main] = on[Main], child'[v] = child[v], count_'[v] = count_[v],
               tid_'[v] = tid_[v], at'[Main] = at[Main] \/ on[Main] # v,
               at'[v] = at[v] \/ on[v] # v
        PROVE  LatchOf(v)'
    BY <1>2, <1>l, SMTT(60), Z3T(60) DEF LatchOf
  <1>3. ASSUME NEW w \in Workers, ThreadStart(w) PROVE LatchOf(v)'
    <2>1. CASE worker'[w] = "failed"
      BY <1>1, <1>3, <2>1, ZenonT(60), ZenonT(90) DEF ThreadStart
    <2>2. CASE worker'[w] # "failed"
      <3>1. at[Main] = "out" /\ on[Main] = None /\ worker[w] = "none" /\ child[w] = "none"
        BY <1>0, <1>t, <1>3, ZenonT(60), ZenonT(90) DEF ThreadStart, StartThread, LatchOK,
           WrappersNext
      <3>2. /\ on'[Main] = w /\ at'[Main] = "lock" /\ child'[w] = "begin"
            /\ on'[v] = on[v] /\ at'[v] = at[v] /\ count_' = count_ /\ tid_' = tid_
            /\ v # w => child'[v] = child[v]
        BY <1>0, <1>t, <1>3, <2>2, ZenonT(60), ZenonT(90) DEF ThreadStart, Guard
      <3>3. QED
        BY <1>0, <1>l, <3>1, <3>2, ZenonT(60), ZenonT(90) DEF LatchOf
    <2>3. QED
      BY <2>1, <2>2, SMTT(60), Z3T(60)
  <1>4. ASSUME NEW w \in Workers, LatchWait(w) PROVE LatchOf(v)'
    <2>1. /\ on' = on /\ child' = child /\ count_' = count_ /\ tid_' = tid_ /\ at'[v] = at[v]
          /\ at[Main] = "in" /\ on[Main] = w
          /\ at'[Main] = IF count_[w] > 0 THEN "doze" ELSE "leave"
      BY <1>0, <1>t, <1>4, ZenonT(60), ZenonT(90) DEF LatchWait, Inside, objects
    <2>2. QED
      BY <1>0, <1>t, <1>l, <2>1, SMTT(60), Z3T(60) DEF LatchOf
  <1>5. CASE StopLocked
    <2>1. /\ child' = child /\ count_' = count_ /\ tid_' = tid_ /\ on' = on /\ on[Main] = Pool
          /\ at'[v] = at[v] \/ (at[v] = "asleep" /\ at'[v] = "lock")
      BY <1>0, <1>t, <1>5, ZenonT(60), ZenonT(90) DEF StopLocked, Inside, Continue, Notified,
         objects
    <2>2. QED
      BY <1>0, <1>l, <2>1, ZenonT(60), ZenonT(90) DEF LatchOf
  <1>6. CASE StopCall
    <2>1. on[Main] = None /\ on'[Main] = Pool /\ on'[v] = on[v] /\ at'[v] = at[v]
          /\ child' = child /\ count_' = count_ /\ tid_' = tid_
      BY <1>0, <1>t, <1>6, ZenonT(60), ZenonT(90) DEF StopCall, Guard, objects
    <2>2. QED
      BY <1>0, <1>l, <2>1, ZenonT(60), ZenonT(90) DEF LatchOf
  <1>7. ASSUME NEW w \in Workers, RunInThread(w) PROVE LatchOf(v)'
    <2>1. /\ child[w] = "begin" /\ on[w] = None /\ child'[w] = "count" /\ tid_'[w] = TRUE
          /\ on'[w] = w /\ at'[w] = "lock"
          /\ on'[Main] = on[Main] /\ at'[Main] = at[Main] /\ count_' = count_
          /\ v # w => /\ child'[v] = child[v] /\ tid_'[v] = tid_[v]
                      /\ on'[v] = on[v] /\ at'[v] = at[v]
      BY <1>0, <1>t, <1>7, ThreadsAssumption, ZenonT(60), ZenonT(90) DEF RunInThread, Guard, Threads
    <2>2. QED
      BY <1>0, <1>l, <2>1, SMTT(60), Z3T(60) DEF LatchOf
  <1>8. ASSUME NEW w \in Workers, CountDown(w) PROVE LatchOf(v)'
    <2>1. w \in Threads /\ w # Main
      BY <1>0, ZenonT(60), ZenonT(90) DEF Threads
    <2>2. at[w] = "in" /\ on[w] = w /\ child[w] = "count" /\ on[Main] = w /\ count_[w] = 1
      BY <1>8, <2>1, ZenonT(60), ZenonT(90) DEF CountDown, Inside, LatchOK, LatchOf
    <2>3. owner[w] = w /\ at[Main] \notin {"in", "doze", "sleep", "locked", "leave", "unlock"}
      BY <1>0, <2>1, <2>2, SMTT(60), Z3T(60) DEF HolderIsOwner
    <2>4. /\ on' = on /\ tid_' = tid_ /\ child'[w] = "func" /\ count_'[w] = 0
          /\ at'[w] = "leave"
          /\ v # w => child'[v] = child[v] /\ count_'[v] = count_[v] /\ at'[v] = at[v]
          /\ at'[Main] = IF at[Main] = "asleep" THEN "lock" ELSE at[Main]
      BY <1>0, <1>t, <1>8, <2>1, <2>2, SMTT(60), Z3T(60) DEF CountDown
    <2>5. QED
      BY <1>0, <1>l, <2>2, <2>3, <2>4, SMTT(60), Z3T(60) DEF LatchOf
  <1>9. ASSUME NEW w \in Workers, MakeSingleton(w) \/ ThreadExit(w) PROVE LatchOf(v)'
    <2>1. /\ on' = on /\ at' = at /\ tid_' = tid_ /\ count_' = count_
          /\ v # w => child'[v] = child[v]
          /\ \/ child[w] = "func" /\ at[w] = "out" /\ child'[w] = "loop"
             \/ child[w] = "loop" /\ child'[w] = "ended"
      BY <1>t, <1>9, ZenonT(60), ZenonT(90) DEF MakeSingleton, ThreadExit, locks
    <2>2. QED
      BY <1>0, <1>t, <1>l, <2>1, ZenonT(60), ZenonT(90) DEF LatchOf
  <1>10. ASSUME NEW w \in Workers, LoopTest(w) PROVE LatchOf(v)'
    <2>1. child[w] = "loop" /\ w \in Threads /\ w # Main /\ on[w] = None
      BY <1>0, <1>t, <1>10, ZenonT(60), ZenonT(90) DEF LoopTest, Threads
    <2>2. /\ child' = child /\ count_' = count_ /\ tid_' = tid_
          /\ on'[Main] = on[Main] /\ at'[Main] = at[Main]
          /\ v # w => on'[v] = on[v] /\ at'[v] = at[v]
          /\ v = w => on'[v] \in {None, Pool}
      BY <1>0, <1>t, <1>10, <2>1, ZenonT(60), ZenonT(90) DEF LoopTest, Guard, objects
    <2>3. QED
      BY <1>0, <1>l, <2>1, <2>2, ZenonT(60), ZenonT(90) DEF LatchOf
  <1>11. ASSUME NEW w \in Workers, Take(w) PROVE LatchOf(v)'
    <2>1. /\ child' = child /\ count_' = count_ /\ tid_' = tid_ /\ on' = on
          /\ at'[Main] = at[Main] /\ on[w] = Pool
          /\ v # w => at'[v] = at[v] \/ (at[v] = "asleep" /\ at'[v] = "lock")
      BY <1>0, <1>t, <1>11, SMTT(60), Z3T(60) DEF Take, Inside, Continue, Notified, objects
    <2>2. QED
      BY <1>0, <1>l, <2>1, ZenonT(60), ZenonT(90) DEF LatchOf
  <1>12. ASSUME NEW p \in FineProducers, PutLocked(p) PROVE LatchOf(v)'
    <2>1. /\ child' = child /\ count_' = count_ /\ tid_' = tid_ /\ on' = on
          /\ at'[Main] = at[Main]
          /\ at'[v] = at[v] \/ (at[v] = "asleep" /\ at'[v] = "lock")
      BY <1>0, <1>t, <1>12, SMTT(60), Z3T(60) DEF PutLocked, Inside, Continue, Notified
    <2>2. QED
      BY <1>0, <1>l, <2>1, ZenonT(60), ZenonT(90) DEF LatchOf
  <1>13. ASSUME NEW p \in FineProducers, NEW t \in FineTasks, PutCall(p, t) PROVE LatchOf(v)'
    <2>1. p # v /\ p # Main
      BY <1>0, ZenonT(60), ZenonT(90)
    <2>2. /\ child' = child /\ count_' = count_ /\ tid_' = tid_ /\ on'[v] = on[v] /\ at'[v] = at[v]
          /\ on'[Main] = on[Main] /\ at'[Main] = at[Main]
      BY <1>0, <1>t, <1>13, <2>1, ZenonT(60), ZenonT(90) DEF PutCall, Guard
    <2>3. QED
      BY <1>l, <2>2, SMTT(60), Z3T(60) DEF LatchOf
  <1>14. ASSUME NEW t \in Threads, Acquire(t) \/ Wrapper(t) PROVE LatchOf(v)'
    <2>1. child' = child /\ count_' = count_ /\ tid_' = tid_
      BY <1>14, ZenonT(60), ZenonT(90) DEF Acquire, Wrapper, objects
    <2>2. CASE UnlockMutex(t)
      <3>1. /\ at[t] = "unlock" /\ owner[on[t]] = t /\ on'[t] = None /\ at'[t] = "out"
            /\ \A u \in Threads : u # t => on'[u] = on[u] /\ at'[u] = at[u]
        BY <1>t, <2>2, ZenonT(60), ZenonT(90) DEF UnlockMutex, HolderIsOwner
      <3>2. t = Main /\ on[Main] = v => on[v] # v
        BY <1>0, <1>l, <3>1, SMTT(60), Z3T(60) DEF LatchOf, HolderIsOwner
      <3>3. QED
        BY <1>0, <1>l, <2>1, <3>1, <3>2, ZenonT(60), ZenonT(90) DEF LatchOf
    <2>3. CASE LockMutex(t) \/ AssignHolder(t) \/ UnassignHolder(t) \/ CondWait(t)
      <3>1. /\ on' = on /\ \A u \in Threads : u # t => at'[u] = at[u]
            /\ \/ at[t] = "lock" /\ at'[t] = "locked"
               \/ at[t] = "locked" /\ at'[t] = "in"
               \/ at[t] = "leave" /\ at'[t] = "unlock"
               \/ at[t] = "doze" /\ at'[t] = "sleep"
               \/ at[t] = "sleep" /\ at'[t] = "asleep"
        BY <1>t, <2>3, ZenonT(60), ZenonT(90) DEF LockMutex, AssignHolder, UnassignHolder, CondWait
      <3>2. QED
        BY <1>0, <1>l, <2>1, <3>1, ZenonT(60), ZenonT(90) DEF LatchOf
    <2>4. QED
      BY <1>14, <2>2, <2>3, SMTT(60), Z3T(60) DEF Acquire, Wrapper
  <1>15. ASSUME NEW t \in Threads, SpuriousReturn(t) PROVE LatchOf(v)'
    <2>1. /\ child' = child /\ count_' = count_ /\ tid_' = tid_ /\ on' = on
          /\ at'[Main] = at[Main] \/ (at[Main] = "asleep" /\ at'[Main] = "lock")
          /\ at'[v] = at[v] \/ (at[v] = "asleep" /\ at'[v] = "lock")
      BY <1>0, <1>t, <1>15, SMTT(60), Z3T(60) DEF SpuriousReturn, Continue, Notified, objects
    <2>2. QED
      BY <1>0, <1>l, <2>1, ZenonT(60), ZenonT(90) DEF LatchOf
  <1>16. QED
    BY <1>1, <1>3, <1>4, <1>5, <1>6, <1>7, <1>8, <1>9, <1>10, <1>11, <1>12, <1>13, <1>14, <1>15,
       ZenonT(60), ZenonT(90)
       DEF WrappersNext, Begin, MainRuns, MainStep, WorkerRuns, ExecuteTask, locks, objects

\* A worker is in its loop only behind its singleton, and its Thread has not been
\* started before the pool has started it.
LEMMA LoopStep ==
    ASSUME IInv, WrappersInv, WrappersNext, NEW v \in Workers
    PROVE  /\ worker'[v] = "none" => child'[v] = "none"
           /\ worker'[v] \in {"take", "waiting", "run"} => child'[v] = "loop"
  <1> USE DEF WrappersInv
  <1>0. /\ worker[v] = "none" => child[v] = "none"
        /\ worker[v] \in {"take", "waiting", "run"} => child[v] = "loop"
    BY DEF WrappersNext, LatchOK
  <1>t. /\ child \in [Workers -> {"none", "begin", "count", "func", "loop", "ended"}]
        /\ worker \in [Workers -> {"none", "failed", "test", "take", "waiting", "run", "exited"}]
    BY ZenonT(60), ZenonT(90) DEF LatchOK, IInv, TypeOK
  <1>1. CASE UNCHANGED <<worker, child>>
    BY <1>0, <1>1, SMTT(60), Z3T(60)
  \* A notification only moves waiting workers.
  <1>2. CASE /\ child' = child
             /\ worker'[v] = worker[v] \/ (worker[v] = "waiting" /\ worker'[v] = "take")
    BY <1>0, <1>2, ZenonT(60), ZenonT(90)
  <1>3. ASSUME NEW w \in Workers, ThreadStart(w)
        PROVE  /\ worker'[v] = "none" => child'[v] = "none"
               /\ worker'[v] \in {"take", "waiting", "run"} => child'[v] = "loop"
    BY <1>0, <1>t, <1>3, ZenonT(60), ZenonT(90) DEF ThreadStart, StartThread
  <1>4. ASSUME NEW w \in Workers, RunInThread(w) \/ CountDown(w) \/ MakeSingleton(w) \/ ThreadExit(w)
        PROVE  /\ worker'[v] = "none" => child'[v] = "none"
               /\ worker'[v] \in {"take", "waiting", "run"} => child'[v] = "loop"
    <2>1. worker' = worker
      BY <1>4, SMTT(60), Z3T(60) DEF RunInThread, CountDown, MakeSingleton, ThreadExit, vars
    <2>2. v # w => child'[v] = child[v]
      BY <1>t, <1>4, SMTT(60), Z3T(60) DEF RunInThread, CountDown, MakeSingleton, ThreadExit
    <2>3. worker[w] \notin {"none", "take", "waiting", "run"}
      <3>1. CASE RunInThread(w) \/ MakeSingleton(w)
        BY <3>1, SMTT(60), Z3T(60) DEF RunInThread, MakeSingleton, LatchOK, WrappersNext
      <3>2. CASE ThreadExit(w)
        BY <3>2 DEF ThreadExit
      <3>3. CASE CountDown(w)
        <4>1. child[w] = "count"
          BY <3>3, ZenonT(60), ZenonT(90) DEF CountDown, Inside, LatchOK, LatchOf
        <4>2. QED
          BY <4>1, ZenonT(60), ZenonT(90) DEF LatchOK, WrappersNext
      <3>4. QED
        BY <1>4, <3>1, <3>2, <3>3, ZenonT(60), ZenonT(90)
    <2>4. QED
      BY <1>0, <2>1, <2>2, <2>3, ZenonT(60), ZenonT(90)
  <1>5. ASSUME NEW w \in Workers, LoopTest(w) \/ Take(w) \/ ExecuteTask(w)
        PROVE  /\ worker'[v] = "none" => child'[v] = "none"
               /\ worker'[v] \in {"take", "waiting", "run"} => child'[v] = "loop"
    <2>1. child' = child /\ (v # w => worker'[v] = worker[v]) /\ worker'[w] # "none"
      BY <1>t, <1>5, ZenonT(60), ZenonT(90) DEF LoopTest, Take, ExecuteTask, TestRunning,
         WaitNotEmpty, TakeNothing,
                        TakeTask, RunTask, objects
    <2>2. worker'[w] \in {"take", "waiting", "run"} => child[w] = "loop"
      BY <1>5, SMTT(60), Z3T(60) DEF LoopTest, Take, ExecuteTask, TestRunning, WaitNotEmpty,
         TakeNothing,
                  TakeTask, RunTask, LatchOK, WrappersNext
    <2>3. QED
      BY <1>0, <2>1, <2>2, ZenonT(60), ZenonT(90)
  <1>6. CASE StopLocked
    BY <1>2, <1>6, ZenonT(60), ZenonT(90) DEF StopLocked, Stop, Waiting, objects
  <1>7. ASSUME NEW p \in FineProducers, PutLocked(p)
        PROVE  /\ worker'[v] = "none" => child'[v] = "none"
               /\ worker'[v] \in {"take", "waiting", "run"} => child'[v] = "loop"
    <2>1. child' = child
      BY <1>7, ZenonT(60), ZenonT(90) DEF PutLocked
    <2>2. worker' = worker \/ worker' \in NotifyNotEmpty
      BY <1>7, ZenonT(60), ZenonT(90) DEF PutLocked, Put, PutAgain, WaitNotFull, Enqueue
    <2>3. QED
      BY <1>2, <1>t, <2>1, <2>2, ZenonT(60), ZenonT(90) DEF NotifyNotEmpty, Waiting
  <1>8. ASSUME NEW p \in FineProducers, NEW t \in FineTasks, PutCall(p, t)
        PROVE  UNCHANGED <<worker, child>>
    BY <1>8, ZenonT(60), ZenonT(90) DEF PutCall, PutInline, vars
  <1>9. ASSUME NEW t \in Threads, SpuriousReturn(t)
        PROVE  /\ worker'[v] = "none" => child'[v] = "none"
               /\ worker'[v] \in {"take", "waiting", "run"} => child'[v] = "loop"
    BY <1>2, <1>t, <1>9, SMTT(60), Z3T(60) DEF SpuriousReturn, SpuriousWakeup, Waiting, objects,
       vars
  <1>10. CASE Begin \/ MainStep \/ StopCall \/ \E w \in Workers : LatchWait(w)
    BY <1>1, <1>10, ZenonT(60), ZenonT(90) DEF Begin, StartBegin, MainStep, StartEnd, StopEnd,
       Join, StopCall, LatchWait,
                       objects, vars
  <1>11. ASSUME NEW t \in Threads, Acquire(t) \/ Wrapper(t)
         PROVE  UNCHANGED <<worker, child>>
    BY <1>11, SMTT(60), Z3T(60) DEF Acquire, Wrapper, objects, vars
  <1>12. QED
    BY <1>1, <1>3, <1>4, <1>5, <1>6, <1>7, <1>8, <1>9, <1>10, <1>11, ZenonT(60), ZenonT(90)
       DEF WrappersNext, MainRuns, WorkerRuns

LEMMA LatchStep == IInv /\ WrappersInv /\ WrappersNext => LatchOK'
  <1> SUFFICES ASSUME IInv, WrappersInv, WrappersNext PROVE LatchOK'
    BY SMTT(60), Z3T(60)
  <1>1. /\ child \in [Workers -> {"none", "begin", "count", "func", "loop", "ended"}]
        /\ count_ \in [Workers -> {0, 1}] /\ tid_ \in [Workers -> BOOLEAN]
        /\ arg \in [FineProducers -> Tasks \cup {None}]
    BY SMTT(60), Z3T(60) DEF WrappersInv, LatchOK
  <1>2. /\ child' \in [Workers -> {"none", "begin", "count", "func", "loop", "ended"}]
        /\ tid_' \in [Workers -> BOOLEAN]
    BY <1>1, ZenonT(60), ZenonT(90) DEF WrappersNext, Begin, MainRuns, MainStep, ThreadStart,
       LatchWait, StopLocked,
                StopCall, WorkerRuns, RunInThread, CountDown, MakeSingleton, ThreadExit, LoopTest,
                Take, ExecuteTask, PutLocked, PutCall, Acquire, Wrapper, SpuriousReturn, objects
  <1>3. arg' \in [FineProducers -> Tasks \cup {None}]
    BY <1>1, ThreadsAssumption, ZenonT(60), ZenonT(90)
       DEF WrappersNext, Begin, MainRuns, MainStep, ThreadStart, LatchWait, StopLocked,
                StopCall, WorkerRuns, RunInThread, CountDown, MakeSingleton, ThreadExit, LoopTest,
                Take, ExecuteTask, PutLocked, PutCall, Acquire, Wrapper, SpuriousReturn, objects
  <1>4. count_' \in [Workers -> {0, 1}]
    <2>1. ASSUME NEW w \in Workers, CountDown(w) PROVE count_' \in [Workers -> {0, 1}]
      <3>1. child[w] = "count"
        BY <2>1, ZenonT(60), ZenonT(90) DEF CountDown, Inside, WrappersInv, LatchOK, LatchOf
      <3>2. count_[w] = 1
        BY <3>1, SMTT(60), Z3T(60) DEF WrappersInv, LatchOK, LatchOf
      <3>3. QED
        BY <1>1, <2>1, <3>2 DEF CountDown
    <2>2. (\E w \in Workers : CountDown(w)) \/ count_' = count_
      BY ZenonT(60), ZenonT(90) DEF WrappersNext, Begin, MainRuns, MainStep, ThreadStart,
         LatchWait, StopLocked,
                StopCall, WorkerRuns, RunInThread, MakeSingleton, ThreadExit, LoopTest,
                Take, ExecuteTask, PutLocked, PutCall, Acquire, Wrapper, SpuriousReturn, objects
    <2>3. QED
      BY <1>1, <2>1, <2>2
  <1>5. QED
    BY <1>2, <1>3, <1>4, LatchOfStep, LoopStep, SMTT(60), Z3T(60) DEF LatchOK

-----------------------------------------------------------------------------
\* WrappersInv is inductive together with the invariant of the pool.
LEMMA WrappersStep ==
    IInv /\ WrappersInv /\ [PoolsNext]_allVars => WrappersInv' /\ [Next]_vars
  <1> SUFFICES ASSUME IInv, WrappersInv, [PoolsNext]_allVars PROVE WrappersInv' /\ [Next]_vars
    OBVIOUS
  <1>1. CASE WrappersNext
    BY <1>1, WrappersStepIsPoolStep, HolderStep, LatchStep, SMTT(60), Z3T(60) DEF WrappersInv
  <1>2. CASE SectionsNext
    <2>1. UNCHANGED <<grain, on, at, owner, holder_, count_, tid_, child, arg>> /\ grain = "sections"
      BY <1>2, ZenonT(60), ZenonT(90) DEF SectionsNext, Sections, locks, objects
    <2>2. LocksOK' /\ HolderIsOwner'
      BY <2>1, SMTT(60), Z3T(60) DEF WrappersInv, LocksOK, HolderIsOwner
    <2>3. LatchOK'
      BY <2>1 DEF WrappersInv, LatchOK, LatchOf
    <2>4. QED
      BY <1>2, <2>2, <2>3, SMTT(60), Z3T(60) DEF SectionsNext, WrappersInv
  <1>3. CASE UNCHANGED allVars
    <2>1. UNCHANGED <<grain, on, at, owner, holder_, count_, tid_, child, arg, worker>> /\ UNCHANGED vars
      BY <1>3, ZenonT(60), ZenonT(90) DEF allVars, locks, objects, vars
    <2>2. LocksOK' /\ HolderIsOwner'
      BY <2>1, SMTT(60), Z3T(60) DEF WrappersInv, LocksOK, HolderIsOwner
    <2>3. LatchOK'
      BY <2>1 DEF WrappersInv, LatchOK, LatchOf
    <2>4. QED
      BY <2>1, <2>2, <2>3, ZenonT(60), ZenonT(90) DEF WrappersInv
  <1>4. QED
    BY <1>1, <1>2, <1>3, SMTT(60), Z3T(60) DEF PoolsNext

LEMMA WrappersInitInv == WrappersInit => WrappersInv
  <1> SUFFICES ASSUME WrappersInit PROVE WrappersInv
    OBVIOUS
  <1>1. LocksOK
    BY ThreadsAssumption, ZenonT(60), ZenonT(90) DEF WrappersInit, LocksOK, Threads, Mutexes
  <1>2. HolderIsOwner
    BY ZenonT(60), ZenonT(90) DEF WrappersInit, HolderIsOwner
  <1>3. LatchOK
    BY ThreadsAssumption DEF WrappersInit, Init, LatchOK, LatchOf, Threads, Mutexes
  <1>4. QED
    BY <1>1, <1>2, <1>3, SMTT(60), Z3T(60) DEF WrappersInv

\* What start() hands over follows from the invariant.
LEMMA HandOver == WrappersInv => StartHandsOver
  <1> SUFFICES ASSUME WrappersInv, NEW w \in Workers
               PROVE  /\ child[w] # "none" /\ on[Main] # w =>
                          /\ tid_[w] /\ on[w] # w /\ owner[w] = None /\ holder_[w] = None
                          /\ child[w] \in {"func", "loop", "ended"}
                      /\ at[Main] = "asleep" /\ on[Main] = w => count_[w] > 0
                      /\ grain = "wrappers" /\ worker[w] \in {"take", "waiting", "run"} => child[w] = "loop"
    BY DEF StartHandsOver
  <1> USE DEF WrappersInv
  <1>1. LatchOf(w) /\ child[w] \in {"none", "begin", "count", "func", "loop", "ended"}
    BY Zenon DEF LatchOK
  <1>2. ASSUME child[w] # "none", on[Main] # w
        PROVE  tid_[w] = TRUE /\ on[w] # w /\ child[w] \in {"func", "loop", "ended"}
    BY <1>1, <1>2, ZenonT(60), ZenonT(90) DEF LatchOf
  <1>3. ASSUME on[Main] # w, on[w] # w
        PROVE  owner[w] = None /\ holder_[w] = None
    <2>1. w \in Mutexes /\ owner[w] \in Threads \cup {None}
      BY DEF Mutexes, LocksOK
    <2>2. owner[w] = None
      <3>1. owner[w] # None => on[owner[w]] = w
        BY <2>1, ZenonT(60), ZenonT(90) DEF HolderIsOwner
      <3>2. \A t \in Threads : on[t] = w => t \in {Main, w}
        BY ZenonT(60), ZenonT(90) DEF LocksOK
      <3>3. QED
        BY <1>3, <2>1, <3>1, <3>2, ZenonT(60), ZenonT(90)
    <2>3. QED
      BY <2>1, <2>2, ZenonT(60), ZenonT(90) DEF HolderIsOwner
  <1>4. at[Main] = "asleep" /\ on[Main] = w => count_[w] > 0
    BY <1>1, SMTT(60), Z3T(60) DEF LatchOf
  <1>5. grain = "wrappers" /\ worker[w] \in {"take", "waiting", "run"} => child[w] = "loop"
    BY DEF LatchOK
  <1>6. QED
    BY <1>2, <1>3, <1>4, <1>5, ZenonT(60), ZenonT(90)

-----------------------------------------------------------------------------
\* The sets that the two conditions count are finite.
LEMMA FiniteCounts ==
    /\ IsFiniteSet(Awake) /\ Cardinality(Awake) \in Nat
    /\ IsFiniteSet(Woken) /\ Cardinality(Woken) \in Nat
    /\ IsFiniteSet(Awake') /\ Cardinality(Awake') \in Nat
    /\ IsFiniteSet(Woken') /\ Cardinality(Woken') \in Nat
  <1>1. Awake \in SUBSET Workers /\ Awake' \in SUBSET Workers
    BY DEF Awake
  <1>2. Woken \in SUBSET Producers /\ Woken' \in SUBSET Producers
    BY DEF Woken
  <1>3. QED
    BY <1>1, <1>2, PoolAssumption, FS_Subset, FS_CardinalityType, ZenonT(60), ZenonT(90)

\* What notify() on notEmpty_ does: nothing when nobody waits, otherwise one
\* waiting worker more is awake.
LEMMA NotifyNotEmptyEffect ==
    ASSUME TypeOK, worker' \in NotifyNotEmpty
    PROVE  \/ Waiting = {} /\ worker' = worker
           \/ \E w \in Waiting : worker' = [worker EXCEPT ![w] = "take"]
  BY DEF NotifyNotEmpty

LEMMA NotifyNotFullEffect ==
    ASSUME TypeOK, producer' \in NotifyNotFull
    PROVE  \/ Blocked = {} /\ producer' = producer
           \/ \E p \in Blocked : producer' = [producer EXCEPT ![p] = "woken"]
  BY DEF NotifyNotFull

-----------------------------------------------------------------------------
\* The constructor's state satisfies the inductive invariant.
LEMMA InitIInv == Init => IInv
  <1> SUFFICES ASSUME Init PROVE IInv
    OBVIOUS
  <1>1. TypeOK
    <2>1. isRunning_ \in BOOLEAN
      BY ZenonT(60), ZenonT(90) DEF Init
    <2>2. QED
      BY <2>1, SMTT(60), Z3T(60) DEF Init, TypeOK
  <1>2. ThreadsOK
    BY SMTT(60), Z3T(60) DEF Init, ThreadsOK, Waiting, Blocked
  <1>3. QueueBounded
    BY PoolAssumption, SMTT(60), Z3T(60) DEF Init, QueueBounded
  <1>4. NoIdleWorker /\ NoStrandedProducer
    BY DEF Init, NoIdleWorker, NoStrandedProducer, Waiting, Blocked
  <1>5. QED
    BY <1>1, <1>2, <1>3, <1>4, ZenonT(60), ZenonT(90) DEF IInv

\* The types are preserved by every step of the pool.
LEMMA TypeStep == IInv /\ [Next]_vars => TypeOK'
  <1> SUFFICES ASSUME IInv, [Next]_vars PROVE TypeOK'
    OBVIOUS
  <1> USE DEF IInv, TypeOK, ownerVars
  <1>1. CASE StartBegin
    BY <1>1, ZenonT(60), ZenonT(90) DEF StartBegin
  <1>2. ASSUME NEW w \in Workers, StartThread(w) PROVE TypeOK'
    BY <1>2, SMTT(60), Z3T(60) DEF StartThread
  <1>3. CASE StartEnd \/ StopEnd
    BY <1>3, ZenonT(60), ZenonT(90) DEF StartEnd, StopEnd
  <1>4. CASE Join
    BY <1>4, SMTT(60), Z3T(60) DEF Join
  <1>5. CASE Stop
    BY <1>5, ZenonT(60), ZenonT(90) DEF Stop
  <1>6. ASSUME NEW p \in Producers, NEW t \in Tasks, PutInline(p, t) PROVE TypeOK'
    BY <1>6, ZenonT(60), ZenonT(90) DEF PutInline
  <1>7. ASSUME NEW p \in Producers, NEW t \in Tasks, Enqueue(p, t)
        PROVE  /\ queue_' \in Seq(Tasks)
               /\ worker' \in [Workers -> {"none", "failed", "test", "take", "waiting",
                                           "run", "exited"}]
               /\ producer' \in [Producers -> {"idle", "blocked", "woken"}]
               /\ offer' \in [Producers -> Tasks \union {None}]
    <2>1. worker' \in [Workers -> {"none", "failed", "test", "take", "waiting", "run",
                                   "exited"}]
      <3>1. CASE worker' = worker
        BY <3>1, ZenonT(60), ZenonT(90)
      <3>2. ASSUME NEW w \in Waiting, worker' = [worker EXCEPT ![w] = "take"]
            PROVE  worker' \in [Workers -> {"none", "failed", "test", "take", "waiting",
                                            "run", "exited"}]
        BY <3>2, ZenonT(60), ZenonT(90) DEF Waiting
      <3>3. QED
        BY <1>7, <3>1, <3>2, NotifyNotEmptyEffect, ZenonT(60), ZenonT(90) DEF Enqueue
    <2>2. QED
      BY <1>7, <2>1, SMTT(60), Z3T(60) DEF Enqueue
  <1>8. ASSUME NEW p \in Producers, NEW t \in Tasks, Put(p, t) PROVE TypeOK'
    BY <1>7, <1>8, SMTT(60), Z3T(60) DEF Put, WaitNotFull
  <1>9. ASSUME NEW p \in Producers, PutAgain(p) PROVE TypeOK'
    <2>1. offer[p] \in Tasks
      BY <1>9, SMTT(60), Z3T(60) DEF PutAgain, ThreadsOK
    <2>2. QED
      BY <1>7, <1>9, <2>1, ZenonT(60), ZenonT(90) DEF PutAgain, WaitNotFull
  <1>10. ASSUME NEW w \in Workers, TestRunning(w) \/ WaitNotEmpty(w) \/ TakeNothing(w)
         PROVE  TypeOK'
    BY <1>10, ZenonT(60), ZenonT(90) DEF TestRunning, WaitNotEmpty, TakeNothing
  <1>11. ASSUME NEW w \in Workers, TakeTask(w) PROVE TypeOK'
    <2>1. producer' \in [Producers -> {"idle", "blocked", "woken"}]
      BY <1>11, NotifyNotFullEffect, ZenonT(60), ZenonT(90) DEF TakeTask
    <2>2. Head(queue_) \in Tasks /\ Tail(queue_) \in Seq(Tasks)
      BY <1>11, SMTT(60), Z3T(60) DEF TakeTask
    <2>3. QED
      BY <1>11, <2>1, <2>2, SMTT(60), Z3T(60) DEF TakeTask
  <1>12. ASSUME NEW w \in Workers, RunTask(w) PROVE TypeOK'
    <2>1. task[w] \in Tasks
      BY <1>12, ZenonT(60), ZenonT(90) DEF RunTask, ThreadsOK
    <2>2. QED
      BY <1>12, <2>1, ZenonT(60), ZenonT(90) DEF RunTask
  <1>13. CASE SpuriousWakeup
    BY <1>13, ZenonT(60), ZenonT(90) DEF SpuriousWakeup
  <1>14. CASE UNCHANGED vars
    BY <1>14, SMTT(60), Z3T(60) DEF vars
  <1> HIDE DEF IInv, TypeOK, ownerVars
  <1>15. QED
    BY <1>1, <1>2, <1>3, <1>4, <1>5, <1>6, <1>8, <1>9, <1>10, <1>11, <1>12, <1>13, <1>14,
       ZenonT(60), ZenonT(90)
    DEF Next, OwnerStep, WorkerStep

\* Nobody waits after stop(), and a thread holds a task exactly while it uses it.
LEMMA ThreadsStep == IInv /\ [Next]_vars => ThreadsOK'
  <1> SUFFICES ASSUME IInv, [Next]_vars PROVE ThreadsOK'
    OBVIOUS
  <1> USE PoolAssumption DEF IInv, TypeOK, ThreadsOK, ownerVars, Waiting, Blocked
  <1>1. CASE StartBegin
    BY <1>1, ZenonT(60), ZenonT(90) DEF StartBegin
  <1>2. ASSUME NEW w \in Workers, StartThread(w) PROVE ThreadsOK'
    BY <1>2, ZenonT(60), ZenonT(90) DEF StartThread
  <1>3. CASE StartEnd \/ StopEnd
    BY <1>3, ZenonT(60), ZenonT(90) DEF StartEnd, StopEnd
  <1>4. CASE Join
    BY <1>4, ZenonT(60), ZenonT(90) DEF Join
  <1>5. CASE Stop
    BY <1>5, Zenon DEF Stop
  <1>6. ASSUME NEW p \in Producers, NEW t \in Tasks, PutInline(p, t) PROVE ThreadsOK'
    BY <1>6, SMTT(60), Z3T(60) DEF PutInline
  <1>7. ASSUME NEW p \in Producers, NEW t \in Tasks, Enqueue(p, t),
               UNCHANGED <<task, isRunning_>>
        PROVE  ThreadsOK'
    <2>1. CASE worker' = worker
      BY <1>7, <2>1, ZenonT(60), ZenonT(90) DEF Enqueue
    <2>2. ASSUME NEW w \in Waiting, worker' = [worker EXCEPT ![w] = "take"]
          PROVE  ThreadsOK'
      BY <1>7, <2>2, SMTT(60), Z3T(60) DEF Enqueue
    <2>3. QED
      BY <1>7, <2>1, <2>2, NotifyNotEmptyEffect, ZenonT(60), ZenonT(90) DEF Enqueue
  <1>8. ASSUME NEW p \in Producers, NEW t \in Tasks, Put(p, t) PROVE ThreadsOK'
    <2>1. CASE isFull
      BY <1>8, <2>1, SMTT(60), Z3T(60) DEF Put, WaitNotFull, isFull
    <2>2. QED
      BY <1>7, <1>8, <2>1, ZenonT(60), ZenonT(90) DEF Put
  <1>9. ASSUME NEW p \in Producers, PutAgain(p) PROVE ThreadsOK'
    <2>1. offer[p] \in Tasks
      BY <1>9, ZenonT(60), ZenonT(90) DEF PutAgain
    <2>2. CASE isFull
      BY <1>9, <2>1, <2>2, ZenonT(60), ZenonT(90) DEF PutAgain, WaitNotFull, isFull
    <2>3. QED
      BY <1>7, <1>9, <2>1, <2>2, ZenonT(60), ZenonT(90) DEF PutAgain
  <1>10. ASSUME NEW w \in Workers, TestRunning(w) PROVE ThreadsOK'
    BY <1>10, ZenonT(60), ZenonT(90) DEF TestRunning
  <1>11. ASSUME NEW w \in Workers, WaitNotEmpty(w) PROVE ThreadsOK'
    BY <1>11, ZenonT(60), ZenonT(90) DEF WaitNotEmpty
  <1>12. ASSUME NEW w \in Workers, TakeNothing(w) PROVE ThreadsOK'
    BY <1>12, SMTT(60), Z3T(60) DEF TakeNothing
  <1>13. ASSUME NEW w \in Workers, TakeTask(w) PROVE ThreadsOK'
    <2>1. Head(queue_) \in Tasks
      BY <1>13, SMTT(60), Z3T(60) DEF TakeTask
    <2>2. CASE producer' = producer
      BY <1>13, <2>1, <2>2, SMTT(60), Z3T(60) DEF TakeTask
    <2>3. ASSUME NEW p \in Blocked, producer' = [producer EXCEPT ![p] = "woken"]
          PROVE  ThreadsOK'
      BY <1>13, <2>1, <2>3, SMTT(60), Z3T(60) DEF TakeTask
    <2>4. QED
      BY <1>13, <2>2, <2>3, NotifyNotFullEffect, SMTT(60), Z3T(60) DEF TakeTask
  <1>14. ASSUME NEW w \in Workers, RunTask(w) PROVE ThreadsOK'
    BY <1>14, ZenonT(60), ZenonT(90) DEF RunTask
  <1>15. CASE SpuriousWakeup
    BY <1>15, SMTT(60), Z3T(60) DEF SpuriousWakeup
  <1>16. CASE UNCHANGED vars
    BY <1>16, SMTT(60), Z3T(60) DEF vars
  <1> HIDE DEF IInv, TypeOK, ThreadsOK, ownerVars, Waiting, Blocked
  <1>17. QED
    BY <1>1, <1>2, <1>3, <1>4, <1>5, <1>6, <1>8, <1>9, <1>10, <1>11, <1>12, <1>13, <1>14,
       <1>15, <1>16, ZenonT(60), ZenonT(90)
    DEF Next, OwnerStep, WorkerStep

\* Only Enqueue lengthens the queue, and it does so only when it is not full.
LEMMA BoundStep == IInv /\ [Next]_vars => QueueBounded'
  <1> SUFFICES ASSUME IInv, [Next]_vars PROVE QueueBounded'
    OBVIOUS
  <1> USE PoolAssumption DEF IInv, TypeOK, QueueBounded, ownerVars
  <1>1. ASSUME NEW p \in Producers, NEW t \in Tasks, Enqueue(p, t), ~isFull
        PROVE  QueueBounded'
    BY <1>1 DEF Enqueue, isFull
  <1>2. ASSUME NEW p \in Producers, NEW t \in Tasks, Put(p, t) PROVE QueueBounded'
    BY <1>1, <1>2, ZenonT(60), ZenonT(90) DEF Put, WaitNotFull
  <1>3. ASSUME NEW p \in Producers, PutAgain(p) PROVE QueueBounded'
    <2>1. offer[p] \in Tasks
      BY <1>3, ZenonT(60), ZenonT(90) DEF PutAgain, ThreadsOK
    <2>2. QED
      BY <1>1, <1>3, <2>1, SMTT(60), Z3T(60) DEF PutAgain, WaitNotFull
  <1>4. ASSUME NEW w \in Workers, TakeTask(w) PROVE QueueBounded'
    BY <1>4, SMTT(60), Z3T(60) DEF TakeTask
  <1>5. ASSUME UNCHANGED queue_ PROVE QueueBounded'
    BY <1>5, SMTT(60), Z3T(60)
  <1>6. ASSUME NEW w \in Workers,
               \/ StartThread(w) \/ TestRunning(w) \/ WaitNotEmpty(w)
               \/ TakeNothing(w) \/ RunTask(w)
        PROVE  UNCHANGED queue_
    BY <1>6, ZenonT(60), ZenonT(90) DEF StartThread, TestRunning, WaitNotEmpty, TakeNothing, RunTask
  <1>7. ASSUME NEW p \in Producers, NEW t \in Tasks, PutInline(p, t)
        PROVE  UNCHANGED queue_
    BY <1>7, SMTT(60), Z3T(60) DEF PutInline
  <1>8. ASSUME \/ StartBegin \/ StartEnd \/ Join \/ StopEnd \/ Stop \/ SpuriousWakeup
               \/ UNCHANGED vars
        PROVE  UNCHANGED queue_
    BY <1>8 DEF StartBegin, StartEnd, Join, StopEnd, Stop, SpuriousWakeup, vars
  <1> HIDE DEF IInv, TypeOK, QueueBounded, ownerVars
  <1>9. QED
    BY <1>2, <1>3, <1>4, <1>5, <1>6, <1>7, <1>8, ZenonT(60), ZenonT(90) DEF Next, OwnerStep,
       WorkerStep

\* One notify() per put() keeps enough workers awake.
LEMMA IdleStep == IInv /\ [Next]_vars => NoIdleWorker'
  <1> SUFFICES ASSUME IInv, [Next]_vars, Waiting' # {}
               PROVE  Len(queue_') <= Cardinality(Awake')
    BY SMTT(60), Z3T(60) DEF NoIdleWorker
  <1> USE DEF IInv, TypeOK, ownerVars
  <1>0. Len(queue_) \in Nat
    OBVIOUS
  <1>1. ASSUME NEW w \in Workers, worker[w] # "take", worker' = [worker EXCEPT ![w] = "take"]
        PROVE  Cardinality(Awake') = Cardinality(Awake) + 1
    <2>1. Awake' = Awake \union {w} /\ w \notin Awake
      BY <1>1, ZenonT(60), ZenonT(90) DEF Awake
    <2>2. QED
      BY <2>1, FiniteCounts, FS_AddElement, ZenonT(60), ZenonT(90)
  <1>2. ASSUME NEW p \in Producers, NEW t \in Tasks, Enqueue(p, t)
        PROVE  Len(queue_') <= Cardinality(Awake')
    <2>1. PICK w \in Waiting : worker' = [worker EXCEPT ![w] = "take"]
      BY <1>2, NotifyNotEmptyEffect, SMTT(60), Z3T(60) DEF Enqueue, Waiting
    <2>2. Cardinality(Awake') = Cardinality(Awake) + 1
      BY <1>1, <2>1, ZenonT(60), ZenonT(90) DEF Waiting
    <2>3. Len(queue_') = Len(queue_) + 1
      BY <1>2, SMTT(60), Z3T(60) DEF Enqueue
    <2>4. QED
      BY <1>0, <2>1, <2>2, <2>3, FiniteCounts, SMTT(60), Z3T(60) DEF NoIdleWorker
  <1>3. ASSUME UNCHANGED <<queue_, worker>>
        PROVE  Len(queue_') <= Cardinality(Awake')
    BY <1>3, ZenonT(60), ZenonT(90) DEF NoIdleWorker, Waiting, Awake
  <1>4. ASSUME NEW p \in Producers, NEW t \in Tasks, Put(p, t)
        PROVE  Len(queue_') <= Cardinality(Awake')
    BY <1>2, <1>3, <1>4, ZenonT(60), ZenonT(90) DEF Put, WaitNotFull
  <1>5. ASSUME NEW p \in Producers, PutAgain(p)
        PROVE  Len(queue_') <= Cardinality(Awake')
    <2>1. offer[p] \in Tasks
      BY <1>5, ZenonT(60), ZenonT(90) DEF PutAgain, ThreadsOK
    <2>2. QED
      BY <1>2, <1>3, <1>5, <2>1, ZenonT(60), ZenonT(90) DEF PutAgain, WaitNotFull
  <1>6. ASSUME NEW w \in Workers, TakeTask(w)
        PROVE  Len(queue_') <= Cardinality(Awake')
    <2>1. Awake' = Awake \ {w} /\ w \in Awake /\ Waiting' = Waiting
      BY <1>6, ZenonT(60), ZenonT(90) DEF TakeTask, Awake, Waiting
    <2>2. Cardinality(Awake') = Cardinality(Awake) - 1
      BY <2>1, FiniteCounts, FS_RemoveElement, ZenonT(60), ZenonT(90)
    <2>3. Len(queue_') = Len(queue_) - 1
      BY <1>6, SMTT(60), Z3T(60) DEF TakeTask
    <2>4. QED
      BY <1>0, <2>1, <2>2, <2>3, FiniteCounts, SMTT(60), Z3T(60) DEF NoIdleWorker
  <1>7. ASSUME NEW w \in Workers, TestRunning(w)
        PROVE  Len(queue_') <= Cardinality(Awake')
    <2>1. Waiting' = Waiting /\ queue_' = queue_
      BY <1>7, ZenonT(60), ZenonT(90) DEF TestRunning, Waiting
    <2>2. CASE isRunning_
      <3>1. worker[w] # "take" /\ worker' = [worker EXCEPT ![w] = "take"]
        BY <1>7, <2>2, SMTT(60), Z3T(60) DEF TestRunning
      <3>2. Cardinality(Awake') = Cardinality(Awake) + 1
        BY <1>1, <3>1, ZenonT(60), ZenonT(90)
      <3>3. Len(queue_) <= Cardinality(Awake)
        BY <2>1, ZenonT(60), ZenonT(90) DEF NoIdleWorker
      <3>4. QED
        BY <1>0, <2>1, <3>2, <3>3, FiniteCounts, SMTT(60), Z3T(60)
    <2>3. CASE ~isRunning_
      BY <2>1, <2>3, ZenonT(60), ZenonT(90) DEF ThreadsOK
    <2>4. QED
      BY <2>2, <2>3, ZenonT(60), ZenonT(90)
  <1>8. ASSUME NEW w \in Workers, WaitNotEmpty(w)
        PROVE  Len(queue_') <= Cardinality(Awake')
    BY <1>8, FiniteCounts, SMTT(60), Z3T(60) DEF WaitNotEmpty
  <1>9. ASSUME NEW w \in Workers, TakeNothing(w)
        PROVE  Len(queue_') <= Cardinality(Awake')
    BY <1>9, FiniteCounts, SMTT(60), Z3T(60) DEF TakeNothing
  <1>10. ASSUME NEW w \in Workers, StartThread(w) \/ RunTask(w)
         PROVE  Len(queue_') <= Cardinality(Awake')
    <2>1. Waiting' = Waiting /\ Awake' = Awake /\ queue_' = queue_
      BY <1>10, ZenonT(60), ZenonT(90) DEF StartThread, RunTask, Waiting, Awake
    <2>2. QED
      BY <2>1, ZenonT(60), ZenonT(90) DEF NoIdleWorker
  <1>11. CASE SpuriousWakeup
    <2>1. ASSUME NEW w \in Waiting, worker' = [worker EXCEPT ![w] = "take"],
                 UNCHANGED queue_
          PROVE  Len(queue_') <= Cardinality(Awake')
      <3>1. Cardinality(Awake') = Cardinality(Awake) + 1
        BY <1>1, <2>1, ZenonT(60), ZenonT(90) DEF Waiting
      <3>2. Len(queue_) <= Cardinality(Awake)
        BY <2>1, ZenonT(60), ZenonT(90) DEF NoIdleWorker
      <3>3. QED
        BY <1>0, <2>1, <3>1, <3>2, FiniteCounts, SMTT(60), Z3T(60)
    <2>2. QED
      BY <1>3, <1>11, <2>1, Zenon DEF SpuriousWakeup
  <1>12. CASE Stop
    BY <1>12, ZenonT(60), ZenonT(90) DEF Stop, Waiting
  <1>13. ASSUME NEW p \in Producers, NEW t \in Tasks, PutInline(p, t)
         PROVE  Len(queue_') <= Cardinality(Awake')
    BY <1>3, <1>13, SMTT(60), Z3T(60) DEF PutInline
  <1>14. CASE StartBegin \/ StartEnd \/ Join \/ StopEnd \/ UNCHANGED vars
    BY <1>3, <1>14, SMTT(60), Z3T(60) DEF StartBegin, StartEnd, Join, StopEnd, vars
  <1> HIDE DEF IInv, TypeOK, ownerVars
  <1>15. QED
    BY <1>4, <1>5, <1>6, <1>7, <1>8, <1>9, <1>10, <1>11, <1>12, <1>13, <1>14, ZenonT(60), ZenonT(90)
    DEF Next, OwnerStep, WorkerStep

\* One notify() per take() keeps enough producers awake.
LEMMA StrandedStep == IInv /\ [Next]_vars => NoStrandedProducer'
  <1> DEFINE Goal == MaxQueueSize <= Len(queue_') + Cardinality(Woken')
  <1> SUFFICES ASSUME IInv, [Next]_vars, Blocked' # {}
               PROVE  Goal
    BY ZenonT(60), ZenonT(90) DEF NoStrandedProducer
  <1> USE PoolAssumption DEF IInv, TypeOK, ownerVars
  <1>0. Len(queue_) \in Nat
    OBVIOUS
  <1>1. ASSUME NEW p \in Blocked, producer' = [producer EXCEPT ![p] = "woken"]
        PROVE  Cardinality(Woken') = Cardinality(Woken) + 1
    <2>1. Woken' = Woken \union {p} /\ p \notin Woken
      BY <1>1, ZenonT(60), ZenonT(90) DEF Woken, Blocked
    <2>2. QED
      BY <2>1, FiniteCounts, FS_AddElement, ZenonT(60), ZenonT(90)
  <1>2. ASSUME NEW p \in Producers, isFull, UNCHANGED queue_
        PROVE  Goal
    BY <1>0, <1>2, FiniteCounts, SMTT(60), Z3T(60) DEF isFull
  <1>3. ASSUME UNCHANGED <<queue_, producer>>
        PROVE  Goal
    BY <1>3, ZenonT(60), ZenonT(90) DEF NoStrandedProducer, Blocked, Woken
  <1>4. ASSUME NEW p \in Producers, NEW t \in Tasks, Put(p, t)
        PROVE  Goal
    <2>1. CASE isFull
      BY <1>2, <1>4, <2>1, ZenonT(60), ZenonT(90) DEF Put, WaitNotFull
    <2>2. CASE ~isFull
      <3>1. Blocked' = Blocked /\ Woken' = Woken
        BY <1>4, <2>2, SMTT(60), Z3T(60) DEF Put, Enqueue, Blocked, Woken
      <3>2. Len(queue_') = Len(queue_) + 1
        BY <1>4, <2>2, SMTT(60), Z3T(60) DEF Put, Enqueue
      <3>3. QED
        BY <1>0, <3>1, <3>2, FiniteCounts, SMTT(60), Z3T(60) DEF NoStrandedProducer
    <2>3. QED
      BY <2>1, <2>2, ZenonT(60), ZenonT(90)
  <1>5. ASSUME NEW p \in Producers, PutAgain(p)
        PROVE  Goal
    <2>1. CASE isFull
      BY <1>2, <1>5, <2>1, ZenonT(60), ZenonT(90) DEF PutAgain, WaitNotFull
    <2>2. CASE ~isFull
      <3>1. Blocked' = Blocked /\ Woken' = Woken \ {p} /\ p \in Woken
        BY <1>5, <2>2, ZenonT(60), ZenonT(90) DEF PutAgain, Enqueue, Blocked, Woken
      <3>2. Cardinality(Woken') = Cardinality(Woken) - 1
        BY <3>1, FiniteCounts, FS_RemoveElement, Zenon
      <3>3. offer[p] \in Tasks
        BY <1>5, SMTT(60), Z3T(60) DEF PutAgain, ThreadsOK
      <3>4. Len(queue_') = Len(queue_) + 1
        BY <1>5, <2>2, <3>3, SMTT(60), Z3T(60) DEF PutAgain, Enqueue
      <3>5. QED
        BY <1>0, <3>1, <3>2, <3>4, FiniteCounts, SMTT(60), Z3T(60) DEF NoStrandedProducer
    <2>3. QED
      BY <2>1, <2>2, ZenonT(60), ZenonT(90)
  <1>6. ASSUME NEW w \in Workers, TakeTask(w)
        PROVE  Goal
    <2>1. Len(queue_') = Len(queue_) - 1
      BY <1>6, SMTT(60), Z3T(60) DEF TakeTask
    <2>2. CASE producer' = producer
      <3>1. Blocked' = Blocked
        BY <2>2, ZenonT(60), ZenonT(90) DEF Blocked
      <3>2. Blocked = {}
        BY <1>6, <2>2, <3>1, ZenonT(60), ZenonT(90) DEF TakeTask, ThreadsOK, NotifyNotFull, Blocked
      <3>3. QED
        BY <3>1, <3>2, ZenonT(60), ZenonT(90)
    <2>3. ASSUME NEW p \in Blocked, producer' = [producer EXCEPT ![p] = "woken"]
          PROVE  Goal
      <3>1. Len(queue_) >= 1
        BY <1>6 DEF TakeTask
      <3>2. Cardinality(Woken') = Cardinality(Woken) + 1
        BY <1>1, <2>3, ZenonT(60), ZenonT(90)
      <3>3. MaxQueueSize <= Len(queue_) + Cardinality(Woken)
        BY <2>3, ZenonT(60), ZenonT(90) DEF NoStrandedProducer
      <3>4. QED
        BY <1>0, <2>1, <3>1, <3>2, <3>3, FiniteCounts, SMTT(60), Z3T(60)
    <2>4. QED
      BY <1>6, <2>2, <2>3, NotifyNotFullEffect, ZenonT(60), ZenonT(90) DEF TakeTask
  <1>7. ASSUME NEW w \in Workers,
               \/ StartThread(w) \/ TestRunning(w) \/ WaitNotEmpty(w)
               \/ TakeNothing(w) \/ RunTask(w)
        PROVE  UNCHANGED <<queue_, producer>>
    BY <1>7, ZenonT(60), ZenonT(90) DEF StartThread, TestRunning, WaitNotEmpty, TakeNothing, RunTask
  <1>8. CASE SpuriousWakeup
    <2>1. ASSUME NEW p \in Blocked, producer' = [producer EXCEPT ![p] = "woken"],
                 UNCHANGED queue_
          PROVE  Goal
      <3>1. Cardinality(Woken') = Cardinality(Woken) + 1
        BY <1>1, <2>1, ZenonT(60), ZenonT(90)
      <3>2. MaxQueueSize <= Len(queue_) + Cardinality(Woken)
        BY <2>1, ZenonT(60), ZenonT(90) DEF NoStrandedProducer
      <3>3. QED
        BY <1>0, <2>1, <3>1, <3>2, FiniteCounts, SMTT(60), Z3T(60)
    <2>2. QED
      BY <1>3, <1>8, <2>1, ZenonT(60), ZenonT(90) DEF SpuriousWakeup
  <1>9. ASSUME NEW p \in Producers, NEW t \in Tasks, PutInline(p, t)
        PROVE  Goal
    BY <1>3, <1>9, SMTT(60), Z3T(60) DEF PutInline
  <1>10. CASE StartBegin \/ StartEnd \/ Join \/ Stop \/ StopEnd \/ UNCHANGED vars
    BY <1>3, <1>10, ZenonT(60), ZenonT(90) DEF StartBegin, StartEnd, Join, Stop, StopEnd, vars
  <1> HIDE DEF IInv, TypeOK, ownerVars
  <1>11. QED
    BY <1>3, <1>4, <1>5, <1>6, <1>7, <1>8, <1>9, <1>10, ZenonT(60), ZenonT(90) DEF Next,
       OwnerStep, WorkerStep

-----------------------------------------------------------------------------
\* The inductive invariant holds in every state the pool reaches.
THEOREM PoolInvariant == Spec => []IInv
  <1>1. IInv /\ [Next]_vars => IInv'
    BY TypeStep, ThreadsStep, BoundStep, IdleStep, StrandedStep, ZenonT(60), ZenonT(90) DEF IInv
  <1>2. QED
    BY InitIInv, <1>1, PTL DEF Spec

\* put() never exceeds maxQueueSize_.
THEOREM PoolBounded == Spec => []QueueBounded
  <1>1. IInv => QueueBounded
    BY SMTT(60), Z3T(60) DEF IInv
  <1>2. QED
    BY PoolInvariant, <1>1, PTL

\* While a worker sleeps in take(), every queued task has a worker awake for it.
THEOREM PoolWorkConserving == Spec => []NoIdleWorker
  <1>1. IInv => NoIdleWorker
    BY SMTT(60), Z3T(60) DEF IInv
  <1>2. QED
    BY PoolInvariant, <1>1, PTL

\* While a producer sleeps in put(), every free slot has a producer awake for it.
THEOREM PoolAdmitsProducers == Spec => []NoStrandedProducer
  <1>1. IInv => NoStrandedProducer
    BY DEF IInv
  <1>2. QED
    BY PoolInvariant, <1>1, PTL

\* queue_ implements a first-in first-out queue from put() to take().
THEOREM PoolImplementsFIFO == Spec => TasksAreFIFO
  <1>1. Init => FQ!Init
    BY ZenonT(60), ZenonT(90) DEF Init, FQ!Init
  <1>2. IInv /\ [Next]_vars => [FQ!Next]_<<queue_, taken>>
    <2> SUFFICES ASSUME IInv, [Next]_vars PROVE [FQ!Next]_<<queue_, taken>>
      OBVIOUS
    <2> USE DEF IInv, TypeOK, ownerVars
    <2>1. ASSUME NEW p \in Producers, NEW t \in Tasks, Put(p, t)
          PROVE  FQ!Next \/ UNCHANGED <<queue_, taken>>
      BY <2>1, ZenonT(60), ZenonT(90) DEF Put, WaitNotFull, Enqueue, FQ!Next, FQ!Enqueue
    <2>2. ASSUME NEW p \in Producers, PutAgain(p)
          PROVE  FQ!Next \/ UNCHANGED <<queue_, taken>>
      <3>1. offer[p] \in Tasks
        BY <2>2 DEF PutAgain, ThreadsOK
      <3>2. QED
        BY <2>2, <3>1, ZenonT(60), ZenonT(90) DEF PutAgain, WaitNotFull, Enqueue, FQ!Next,
           FQ!Enqueue
    <2>3. ASSUME NEW w \in Workers, TakeTask(w)
          PROVE  FQ!Next
      BY <2>3, ZenonT(60), ZenonT(90) DEF TakeTask, FQ!Next, FQ!Execute
    <2>4. ASSUME NEW w \in Workers,
                 \/ StartThread(w) \/ TestRunning(w) \/ WaitNotEmpty(w)
                 \/ TakeNothing(w) \/ RunTask(w)
          PROVE  UNCHANGED <<queue_, taken>>
      BY <2>4, ZenonT(60), ZenonT(90) DEF StartThread, TestRunning, WaitNotEmpty, TakeNothing,
         RunTask
    <2>5. ASSUME NEW p \in Producers, NEW t \in Tasks, PutInline(p, t)
          PROVE  UNCHANGED <<queue_, taken>>
      BY <2>5, SMTT(60), Z3T(60) DEF PutInline
    <2>6. ASSUME \/ StartBegin \/ StartEnd \/ Join \/ StopEnd \/ Stop \/ SpuriousWakeup
                 \/ UNCHANGED vars
          PROVE  UNCHANGED <<queue_, taken>>
      BY <2>6, ZenonT(60), ZenonT(90) DEF StartBegin, StartEnd, Join, StopEnd, Stop,
         SpuriousWakeup, vars
    <2>7. QED
      BY <2>1, <2>2, <2>3, <2>4, <2>5, <2>6, SMTT(60), Z3T(60) DEF Next, OwnerStep, WorkerStep
  <1>3. QED
    BY <1>1, <1>2, PoolInvariant, PTL DEF Spec, TasksAreFIFO, FQ!Spec

-----------------------------------------------------------------------------
\* The pool with its wrappers: WrappersInv is inductive together with IInv.
LEMMA WrappersInvariant == WrappersSpec => [](IInv /\ WrappersInv)
  <1>1. WrappersInit => IInv /\ WrappersInv
    BY WrappersInitInv, InitIInv, ZenonT(60), ZenonT(90) DEF WrappersInit
  <1>2. IInv /\ WrappersInv /\ [PoolsNext]_allVars => (IInv /\ WrappersInv)'
    BY WrappersStep, TypeStep, ThreadsStep, BoundStep, IdleStep, StrandedStep, ZenonT(60),
       ZenonT(90) DEF IInv
  <1>3. QED
    BY <1>1, <1>2, PTL DEF WrappersSpec

\* Threads that lock, sleep, wake and unlock one by one, with the latch of each
\* Thread and the holder of each mutex, take no step that is not a step of the pool
\* or invisible to it: module ThreadPool's sections are the right grain.
THEOREM WrappersImplementPool == WrappersSpec => Init /\ [][Next]_vars
  <1>1. WrappersInit => Init
    BY DEF WrappersInit
  <1>2. IInv /\ WrappersInv /\ [PoolsNext]_allVars => [Next]_vars
    BY WrappersStep
  <1>3. QED
    BY <1>1, <1>2, WrappersInvariant, PTL DEF WrappersSpec

\* The invariant of the pool holds between any two of the wrappers' steps.
THEOREM PoolInvariantWithWrappers == WrappersSpec => []IInv
  BY WrappersInvariant, PTL

\* holder_ names the owner of the mutex exactly while it is inside the section.
THEOREM HolderAlwaysOwner == WrappersSpec => []HolderIsOwner
  <1>1. WrappersInv => HolderIsOwner
    BY DEF WrappersInv
  <1>2. QED
    BY <1>1, WrappersInvariant, PTL

\* Thread::start() hands the Thread object over only when the new thread is done with
\* it.
THEOREM LatchHandsOver == WrappersSpec => []StartHandsOver
  BY HandOver, WrappersInvariant, PTL
=============================================================================
