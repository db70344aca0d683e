-------------------------- MODULE EventLoopThread ---------------------------
(***************************************************************************)
(* netLayer/event/eventloop/EventLoopThread.cpp: a thread that creates an  *)
(* EventLoop on its stack, publishes it to the thread that started it      *)
(* (mutex and condition) and runs it; the destructor quits the loop and    *)
(* joins the thread.  The loop itself is EventLoop, step by step.          *)
(***************************************************************************)
EXTENDS EventLoop

CONSTANT Owner        \* the thread that owns the EventLoopThread object

ASSUME OwnerAssumption == Owner \in Threads

VARIABLES owner,      \* where the owner is in startLoop() or the destructor
          thread,     \* where the new thread is in threadFunc()
          loop_,      \* loop_ is not NULL
          asked,      \* history: someone other than the destructor called quit()
          dangling    \* history: what was used after its destruction

threadVars == <<owner, thread, loop_, asked, dangling>>

ThreadInit ==
    /\ Init
    /\ owner = "new"
    /\ thread = "none"
    /\ loop_ = FALSE
    /\ asked = FALSE
    /\ dangling = {}

\* The EventLoop on the stack of threadFunc has been destructed.
LoopGone == thread \in {"destructed", "ended"}

-----------------------------------------------------------------------------
\* startLoop: start the thread ...
StartLoop ==
    /\ owner = "new"
    /\ owner' = "starting"
    /\ thread' = "init"
    /\ UNCHANGED <<loop_, asked, dangling, vars>>

\* ... wait on the condition while loop_ is NULL (the mutex is released) ...
WaitLoop ==
    /\ owner = "starting"
    /\ ~loop_
    /\ owner' = "waiting"
    /\ UNCHANGED <<thread, loop_, asked, dangling, vars>>

\* ... which may also wake up spuriously ...
SpuriousWakeup ==
    /\ owner = "waiting"
    /\ owner' = "starting"
    /\ UNCHANGED <<thread, loop_, asked, dangling, vars>>

\* ... and return the loop.
GotLoop ==
    /\ owner = "starting"
    /\ loop_
    /\ owner' = "started"
    /\ UNCHANGED <<thread, loop_, asked, dangling, vars>>

\* threadFunc: loop_ = &loop and notify, under the mutex.  The callback_ that
\* runs before it may call into the loop (Callback below).
Publish ==
    /\ thread = "init"
    /\ thread' = "looping"
    /\ loop_' = TRUE
    /\ owner' = IF owner = "waiting" THEN "starting" ELSE owner
    /\ UNCHANGED <<asked, dangling, vars>>

\* threadFunc: loop() has returned; lock mutex_ and loop_ = NULL ...
ClearLoop ==
    /\ thread = "looping"
    /\ pc = "exited"
    /\ thread' = "cleared"
    /\ loop_' = FALSE
    /\ UNCHANGED <<owner, asked, dangling, vars>>

\* ... the guard unlocks mutex_, a member of an object that may be gone by now ...
UnlockMutex ==
    /\ thread = "cleared"
    /\ thread' = "unlocked"
    /\ dangling' = IF owner = "gone" THEN dangling \union {"mutex_"} ELSE dangling
    /\ UNCHANGED <<owner, loop_, asked, vars>>

\* ... the loop, declared before the guard, is destructed ...
DestructLoop ==
    /\ thread = "unlocked"
    /\ thread' = "destructed"
    /\ UNCHANGED <<owner, loop_, asked, dangling, vars>>

\* ... and the thread ends.
EndThread ==
    /\ thread = "destructed"
    /\ thread' = "ended"
    /\ UNCHANGED <<owner, loop_, asked, dangling, vars>>

LeaveThreadFunc == ClearLoop \/ UnlockMutex \/ DestructLoop \/ EndThread

\* The destructor reads loop_ without the mutex; if it is NULL (the thread was
\* never started, or is past ClearLoop) nothing is joined and the members are
\* destroyed, mutex_ among them, whose destructor asserts that nobody holds it.
DtorTest ==
    /\ owner \in {"new", "started"}
    /\ caller[Owner] = "idle"
    /\ owner' = IF loop_ THEN "dtor" ELSE "gone"
    /\ dangling' = IF thread = "cleared" THEN dangling \union {"mutex_"} ELSE dangling
    /\ UNCHANGED <<thread, loop_, asked, vars>>

\* loop_->quit(): EventLoop's QuitFrom, then its WakeupFrom.
DtorQuit ==
    /\ owner = "dtor"
    /\ QuitFrom(Owner)
    /\ owner' = "joining"
    /\ dangling' = IF LoopGone THEN dangling \union {"quit_"} ELSE dangling
    /\ UNCHANGED <<thread, loop_, asked>>

\* Mutation of DtorJoin: the thread is detached, not joined.
DtorDetach ==
    /\ owner = "joining"
    /\ caller[Owner] = "idle"
    /\ owner' = "gone"
    /\ UNCHANGED <<thread, loop_, asked, dangling, vars>>

\* thread_.join() returns when the thread has ended.
DtorJoin ==
    /\ owner = "joining"
    /\ caller[Owner] = "idle"
    /\ thread = "ended"
    /\ owner' = "gone"
    /\ UNCHANGED <<thread, loop_, asked, dangling, vars>>

-----------------------------------------------------------------------------
\* The steps of the loop, taken by its thread once it has been published.
RunLoop ==
    /\ thread = "looping"
    /\ LoopStep
    /\ UNCHANGED threadVars

RunPoll ==
    /\ thread = "looping"
    /\ (\E io \in BOOLEAN : PollReady(io)) \/ PollTimeout
    /\ UNCHANGED threadVars

\* Calls into the loop by callback_, by event handlers and by functors.
Callback ==
    /\ thread = "init" \/ (thread = "looping" /\ pc # "start")
    /\ \E f \in Functors : QueueInLoopSelf(f) \/ RunInLoopSelf(f)
    /\ UNCHANGED threadVars

QuitCallback ==
    /\ thread = "looping"
    /\ QuitSelf
    /\ asked' = TRUE
    /\ UNCHANGED <<owner, thread, loop_, dangling>>

\* Calls into the loop by threads that got it from startLoop(); they begin none
\* once the loop has returned.
Call(t) ==
    /\ owner = "started"
    /\ loop_
    /\ \E f \in Functors : QueueInLoopFrom(t, f)
    /\ UNCHANGED threadVars

QuitCall(t) ==
    /\ owner = "started"
    /\ loop_
    /\ QuitFrom(t)
    /\ asked' = TRUE
    /\ UNCHANGED <<owner, thread, loop_, dangling>>

\* wakeup() writes to wakeupFd_, a member of the loop.
Wakeup(t) ==
    /\ WakeupFrom(t)
    /\ dangling' = IF LoopGone THEN dangling \union {"wakeupFd_"} ELSE dangling
    /\ UNCHANGED <<owner, thread, loop_, asked>>

OwnerStep == WaitLoop \/ GotLoop \/ DtorQuit \/ DtorJoin

ThreadNext ==
    \/ StartLoop \/ SpuriousWakeup \/ DtorTest \/ OwnerStep
    \/ Publish \/ LeaveThreadFunc \/ RunLoop \/ RunPoll \/ Callback \/ QuitCallback
    \/ \E t \in Threads : Call(t) \/ QuitCall(t) \/ Wakeup(t)

\* Both threads are scheduled, and poll returns when the eventfd is readable.
\* Nothing makes the owner start the thread or destroy the object, and nothing
\* is assumed of other descriptors or of the poll timeout.
ThreadFairness ==
    /\ WF_<<vars, threadVars>>(OwnerStep)
    /\ WF_<<vars, threadVars>>(Publish)
    /\ WF_<<vars, threadVars>>(LeaveThreadFunc)
    /\ WF_<<vars, threadVars>>(RunLoop)
    /\ WF_<<vars, threadVars>>(readable /\ RunPoll)
    /\ \A t \in Threads : WF_<<vars, threadVars>>(Wakeup(t))

ThreadSpec == ThreadInit /\ [][ThreadNext]_<<vars, threadVars>> /\ ThreadFairness

-----------------------------------------------------------------------------
\* The loop's own invariant, and what the owner may rely on.  The loop that
\* startLoop() returned is alive, with loop_ pointing at it, until loop() has
\* returned, and once the destructor is done no callback of it runs any more.  If
\* nobody but the destructor asks the loop to quit, the destructor ends after the
\* thread and the one thing used too late is the eventfd, by the wakeup() of a call
\* that was under way when the loop returned (the comment in EventLoop::quit).  If
\* someone else does, the destructor can meet the thread between loop_ = NULL and
\* the unlock, or the loop it has just tested can be gone (the comments in
\* ~EventLoopThread).
LoopOutlivesHandle ==
    /\ IInv
    /\ owner \in {"new", "starting", "waiting", "started", "dtor", "joining", "gone"}
    /\ thread \in {"none", "init", "looping", "cleared", "unlocked", "destructed", "ended"}
    /\ asked \in BOOLEAN
    /\ dangling \subseteq {"mutex_", "quit_", "wakeupFd_"}
    /\ loop_ <=> thread = "looping"
    /\ owner \in {"started", "dtor", "joining"} /\ pc # "exited" => loop_
    /\ owner = "gone" => thread = "none" \/ pc = "exited"
    /\ ~asked => /\ owner = "gone" => thread \in {"none", "ended"}
                 /\ dangling \subseteq {"wakeupFd_"}

\* What makes it inductive: the thread exists from startLoop() on, does not enter
\* loop() before it has published its loop, and leaves threadFunc only after loop()
\* has returned, which takes a quit().
ThreadIInv ==
    /\ LoopOutlivesHandle
    /\ owner = "new" => thread = "none"
    /\ thread = "none" => owner \in {"new", "gone"}
    /\ thread \in {"none", "init"} => pc = "start"
    /\ thread \in {"cleared", "unlocked", "destructed", "ended"} => pc = "exited"
    /\ pc = "exited" => quit_
    /\ quit_ /\ ~asked => owner \in {"joining", "gone"}

\* A destructor that calls quit() after loop() has begun returns: the loop
\* leaves poll, its thread ends and join() returns.
QuitWhileLoopingJoins == (owner = "joining" /\ pc # "start" /\ quit_) ~> owner = "gone"
=============================================================================
