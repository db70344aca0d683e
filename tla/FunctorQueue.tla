---------------------------- MODULE FunctorQueue ----------------------------
(***************************************************************************)
(* What EventLoop::queueInLoop promises to its callers: one first-in       *)
(* first-out queue of callbacks, each of which is executed at most once    *)
(* and in the order in which it was queued.  The two vectors, the mutex    *)
(* and the eventfd of the implementation do not appear here.               *)
(***************************************************************************)
EXTENDS Sequences

CONSTANT Functors

VARIABLES queue,   \* callbacks accepted and not yet executed
          ran      \* callbacks executed from the queue, oldest first

Init ==
    /\ queue = << >>
    /\ ran = << >>

Enqueue(f) ==
    /\ queue' = Append(queue, f)
    /\ UNCHANGED ran

Execute ==
    /\ queue # << >>
    /\ ran' = Append(ran, Head(queue))
    /\ queue' = Tail(queue)

Next ==
    \/ \E f \in Functors : Enqueue(f)
    \/ Execute

Spec == Init /\ [][Next]_<<queue, ran>>
=============================================================================
