----------------------------- MODULE EventLoop ------------------------------
(***************************************************************************)
(* netLayer/event/eventloop/EventLoop.cpp: one reactor.  Its own thread    *)
(* runs loop(): poll, dispatch the active channels, run the functors that  *)
(* were queued.  Any other thread may call queueInLoop, runInLoop or quit, *)
(* and wakes the loop by writing to an eventfd.                            *)
(*                                                                         *)
(* The eventfd counter is abstracted to "readable or not": the code never  *)
(* looks at the value it reads.  A mutex-protected section is one step;    *)
(* whatever the code does outside the mutex is a step of its own.          *)
(***************************************************************************)
EXTENDS Naturals, Sequences

CONSTANTS Threads,    \* threads other than the one that runs loop()
          Functors,   \* callbacks handed to the loop, each of them once
          None        \* "no functor is executing"

ASSUME NoneAssumption == None \notin Functors

VARIABLES pc,                       \* where the loop thread is
          quit_,
          callingPendingFunctors_,
          pendingFunctors_,         \* guarded by mutex_
          functors,                 \* the local vector of doPendingFunctors
          current,                  \* the functor being executed, or None
          readable,                 \* the eventfd counter is not zero
          wakeupActive,             \* wakeupChannel_ is in activeChannels_
          ioActive,                 \* some other channel is in activeChannels_
          caller,                   \* where each other thread is in a call
          preloop,                  \* history: queued by the owner before loop()
          given,                    \* history: functors handed over so far
          ran                       \* history: executed from the queue, in order

vars == <<pc, quit_, callingPendingFunctors_, pendingFunctors_, functors,
          current, readable, wakeupActive, ioActive, caller, preloop, given, ran>>

loopVars == <<pc, functors, current, wakeupActive, ioActive,
              callingPendingFunctors_, ran>>

PCs == {"start", "test", "poll", "handle", "run", "exited"}

Init ==
    /\ pc = "start"
    /\ quit_ = FALSE
    /\ callingPendingFunctors_ = FALSE
    /\ pendingFunctors_ = << >>
    /\ functors = << >>
    /\ current = None
    /\ readable = FALSE
    /\ wakeupActive = FALSE
    /\ ioActive = FALSE
    /\ caller = [t \in Threads |-> "idle"]
    /\ preloop = {}
    /\ given = {}
    /\ ran = << >>

-----------------------------------------------------------------------------
\* Calls made by other threads.

\* queueInLoop: push under the mutex.  The wakeup() that follows the unlock is
\* the separate step WakeupFrom.
QueueInLoopFrom(t, f) ==
    /\ caller[t] = "idle"
    /\ f \notin given
    /\ pendingFunctors_' = Append(pendingFunctors_, f)
    /\ given' = given \union {f}
    /\ caller' = [caller EXCEPT ![t] = "pushed"]
    /\ UNCHANGED <<loopVars, quit_, readable, preloop>>

\* Mutation of QuitFrom: the wakeup() of quit() is missing.
QuitFromWithoutWakeup(t) ==
    /\ caller[t] = "idle"
    /\ quit_' = TRUE
    /\ UNCHANGED <<loopVars, pendingFunctors_, readable, preloop, given, caller>>

\* quit: set the flag first, write to the eventfd afterwards.
QuitFrom(t) ==
    /\ caller[t] = "idle"
    /\ quit_' = TRUE
    /\ caller' = [caller EXCEPT ![t] = "quitting"]
    /\ UNCHANGED <<loopVars, pendingFunctors_, readable, preloop, given>>

WakeupFrom(t) ==
    /\ caller[t] # "idle"
    /\ readable' = TRUE
    /\ caller' = [caller EXCEPT ![t] = "idle"]
    /\ UNCHANGED <<loopVars, quit_, pendingFunctors_, preloop, given>>

-----------------------------------------------------------------------------
\* Calls made by the loop's own thread: from an event handler, from a functor
\* that is executing, or by the owner before it enters loop().

InCallback == (pc = "handle" /\ ioActive) \/ current # None

\* Mutation of QueueInLoopSelf: "|| callingPendingFunctors_" is missing.
QueueInLoopSelfWithoutWakeup(f) ==
    /\ InCallback \/ pc = "start"
    /\ f \notin given
    /\ pendingFunctors_' = Append(pendingFunctors_, f)
    /\ given' = given \union {f}
    /\ preloop' = IF pc = "start" THEN preloop \union {f} ELSE preloop
    /\ UNCHANGED <<loopVars, quit_, caller, readable>>

\* queueInLoop from the loop thread wakes the loop only when the functors of
\* this round are already being called.
QueueInLoopSelf(f) ==
    /\ InCallback \/ pc = "start"
    /\ f \notin given
    /\ pendingFunctors_' = Append(pendingFunctors_, f)
    /\ given' = given \union {f}
    /\ preloop' = IF pc = "start" THEN preloop \union {f} ELSE preloop
    /\ readable' = (readable \/ callingPendingFunctors_)
    /\ UNCHANGED <<loopVars, quit_, caller>>

\* runInLoop from the loop thread executes the functor at once, ahead of the
\* queue.
RunInLoopSelf(f) ==
    /\ InCallback \/ pc = "start"
    /\ f \notin given
    /\ given' = given \union {f}
    /\ UNCHANGED <<loopVars, quit_, pendingFunctors_, readable, caller, preloop>>

QuitSelf ==
    /\ InCallback
    /\ quit_' = TRUE
    /\ UNCHANGED <<loopVars, pendingFunctors_, readable, caller, preloop, given>>

-----------------------------------------------------------------------------
\* The steps of loop().

\* looping_ = true; quit_ = false.
LoopStart ==
    /\ pc = "start"
    /\ pc' = "test"
    /\ quit_' = FALSE
    /\ UNCHANGED <<functors, current, wakeupActive, ioActive, ran, caller, given,
                   callingPendingFunctors_, pendingFunctors_, readable, preloop>>

\* while (!quit_)
LoopTest ==
    /\ pc = "test"
    /\ pc' = IF quit_ THEN "exited" ELSE "poll"
    /\ UNCHANGED <<functors, current, wakeupActive, ioActive, ran, caller, given,
                   callingPendingFunctors_, pendingFunctors_, readable, preloop, quit_>>

\* poller_->poll returns: some descriptor is ready (level triggered, so the
\* eventfd is reported as long as its counter is not zero) ...
PollReady(io) ==
    /\ pc = "poll"
    /\ readable \/ io
    /\ pc' = "handle"
    /\ wakeupActive' = readable
    /\ ioActive' = io
    /\ UNCHANGED <<functors, current, ran, caller, given, callingPendingFunctors_,
                   pendingFunctors_, readable, preloop, quit_>>

\* ... or kPollTimeMs elapsed with none ready.
PollTimeout ==
    /\ pc = "poll"
    /\ ~readable
    /\ pc' = "handle"
    /\ UNCHANGED <<functors, current, ran, caller, given, callingPendingFunctors_, quit_,
                   pendingFunctors_, readable, preloop, wakeupActive, ioActive>>

\* handleRead empties the eventfd.
HandleRead ==
    /\ pc = "handle"
    /\ wakeupActive
    /\ wakeupActive' = FALSE
    /\ readable' = FALSE
    /\ UNCHANGED <<pc, functors, current, ioActive, ran, caller, given, quit_,
                   callingPendingFunctors_, pendingFunctors_, preloop>>

\* The handlers of the other active channels return.
HandleEvents ==
    /\ pc = "handle"
    /\ ioActive
    /\ ioActive' = FALSE
    /\ UNCHANGED <<pc, functors, current, wakeupActive, ran, caller, given, quit_,
                   callingPendingFunctors_, pendingFunctors_, readable, preloop>>

\* Mutation of SwapPending: the vector is copied, not swapped.
CopyPending ==
    /\ pc = "handle"
    /\ ~wakeupActive /\ ~ioActive
    /\ pc' = "run"
    /\ callingPendingFunctors_' = TRUE
    /\ functors' = pendingFunctors_
    /\ UNCHANGED <<current, wakeupActive, ioActive, ran, caller, given, quit_,
                   readable, preloop, pendingFunctors_>>

\* doPendingFunctors up to the unlock: raise the flag, swap the vectors.
SwapPending ==
    /\ pc = "handle"
    /\ ~wakeupActive /\ ~ioActive
    /\ pc' = "run"
    /\ callingPendingFunctors_' = TRUE
    /\ functors' = pendingFunctors_
    /\ pendingFunctors_' = << >>
    /\ UNCHANGED <<current, wakeupActive, ioActive, ran, caller, given, quit_,
                   readable, preloop>>

\* One turn of the for loop: call the next functor ...
FunctorBegin ==
    /\ pc = "run"
    /\ current = None
    /\ functors # << >>
    /\ current' = Head(functors)
    /\ functors' = Tail(functors)
    /\ ran' = Append(ran, Head(functors))
    /\ UNCHANGED <<pc, wakeupActive, ioActive, caller, given, quit_, readable,
                   callingPendingFunctors_, pendingFunctors_, preloop>>

\* ... and it returns.
FunctorEnd ==
    /\ current # None
    /\ current' = None
    /\ UNCHANGED <<pc, functors, wakeupActive, ioActive, ran, caller, given, quit_,
                   readable, callingPendingFunctors_, pendingFunctors_, preloop>>

\* doPendingFunctors returns, back to the test of the while loop.
FunctorsDone ==
    /\ pc = "run"
    /\ current = None
    /\ functors = << >>
    /\ callingPendingFunctors_' = FALSE
    /\ pc' = "test"
    /\ UNCHANGED <<functors, current, wakeupActive, ioActive, ran, caller, given,
                   quit_, readable, pendingFunctors_, preloop>>

-----------------------------------------------------------------------------
LoopStep == \/ LoopStart \/ LoopTest \/ HandleRead \/ HandleEvents
            \/ SwapPending \/ FunctorBegin \/ FunctorEnd \/ FunctorsDone

Next ==
    \/ \E t \in Threads, f \in Functors : QueueInLoopFrom(t, f)
    \/ \E t \in Threads : QuitFrom(t) \/ WakeupFrom(t)
    \/ \E f \in Functors : QueueInLoopSelf(f) \/ RunInLoopSelf(f)
    \/ QuitSelf
    \/ \E io \in BOOLEAN : PollReady(io)
    \/ PollTimeout
    \/ LoopStep

\* The loop thread and a thread inside a call are scheduled; callbacks return;
\* poll returns when the eventfd is readable.  Nothing is assumed of other
\* descriptors, of the poll timeout, or of threads making new calls.
Fairness ==
    /\ WF_vars(LoopStep)
    /\ WF_vars(readable /\ \E io \in BOOLEAN : PollReady(io))
    /\ \A t \in Threads : WF_vars(WakeupFrom(t))

Spec == Init /\ [][Next]_vars /\ Fairness

-----------------------------------------------------------------------------
\* The domain of every variable of the loop.
TypeOK ==
    /\ pc \in PCs
    /\ quit_ \in BOOLEAN
    /\ callingPendingFunctors_ \in BOOLEAN
    /\ pendingFunctors_ \in Seq(Functors)
    /\ functors \in Seq(Functors)
    /\ current \in Functors \union {None}
    /\ readable \in BOOLEAN
    /\ wakeupActive \in BOOLEAN
    /\ ioActive \in BOOLEAN
    /\ caller \in [Threads -> {"idle", "pushed", "quitting"}]
    /\ preloop \in SUBSET Functors
    /\ given \in SUBSET Functors
    /\ ran \in Seq(Functors)

\* Some queued functor was queued after loop() began, or by another thread.
OwesWakeup == \E i \in DOMAIN pendingFunctors_ : pendingFunctors_[i] \notin preloop

\* queueInLoop never loses a wakeup: the loop does not sit in poll with a
\* functor in pendingFunctors_ unless the eventfd is readable or the thread
\* that pushed it is about to write to it (the condition on
\* callingPendingFunctors_ in queueInLoop, and the order of handleRead before
\* doPendingFunctors).
NoLostWakeup ==
    pc = "poll" /\ OwesWakeup
      => readable \/ \E t \in Threads : caller[t] = "pushed"

\* quit() from another thread never leaves the loop asleep: with quit_ set the
\* loop is in poll only if the eventfd is readable or quit() has not reached
\* its wakeup() yet.
NoLostQuit ==
    pc = "poll" /\ quit_
      => readable \/ \E t \in Threads : caller[t] = "quitting"

\* The flags and the local vector of the loop go with its phase:
\* callingPendingFunctors_ is set exactly while the functors of a round are
\* being called, and only then is a functor executing or left in the local
\* vector of doPendingFunctors.
PhaseOK ==
    /\ callingPendingFunctors_ <=> pc = "run"
    /\ current # None => pc = "run"
    /\ functors # << >> => pc = "run"

\* NoLostWakeup holds in every phase but the dispatch of events, which
\* doPendingFunctors always follows.
WakeupPending ==
    pc # "handle" /\ OwesWakeup
      => readable \/ \E t \in Threads : caller[t] = "pushed"

\* The inductive invariant: what loop(), queueInLoop and quit keep true in
\* every interleaving of the loop with its callers.
IInv == TypeOK /\ PhaseOK /\ WakeupPending /\ NoLostQuit

\* Functors queued by a running loop are executed without help from the poll
\* timeout, unless the loop is asked to quit: once in the queue a functor is
\* eventually executed (or quit_ is set).
QueuedRuns ==
    \A f \in Functors :
        (pc # "start" /\ f \notin preloop
            /\ \E i \in DOMAIN pendingFunctors_ : pendingFunctors_[i] = f)
          ~> (quit_ \/ \E i \in DOMAIN ran : ran[i] = f)

\* The two vectors of EventLoop implement one first-in first-out queue: no
\* functor is lost, duplicated or overtaken across the swap.
FQ == INSTANCE FunctorQueue WITH queue <- functors \o pendingFunctors_
FunctorsAreFIFO == FQ!Spec
=============================================================================
