------------------------------- MODULE Poller -------------------------------
(***************************************************************************)
(* What a Poller (netLayer/poller/Poller.h) promises to the channels of a  *)
(* loop: the kernel is asked for exactly the events that each registered   *)
(* channel has enabled.  PollPoller and EPollPoller are shown to implement *)
(* it.                                                                     *)
(***************************************************************************)
CONSTANTS Channels, Events

VARIABLES registered,  \* channels the poller knows
          enabled,     \* per channel: the events it has enabled (Channel::events_)
          interest     \* per channel: the events the kernel is asked for

Init ==
    /\ registered = {}
    /\ enabled = [c \in Channels |-> {}]
    /\ interest = [c \in Channels |-> {}]

\* Channel::enable... and disable... set the channel's events and call
\* Poller::updateChannel, which passes them on.
UpdateChannel(c, evs) ==
    /\ enabled' = [enabled EXCEPT ![c] = evs]
    /\ registered' = registered \cup {c}
    /\ interest' = [interest EXCEPT ![c] = evs]

\* Poller::removeChannel, of a channel that has disabled all events.
RemoveChannel(c) ==
    /\ c \in registered
    /\ enabled[c] = {}
    /\ registered' = registered \ {c}
    /\ UNCHANGED <<enabled, interest>>

Next ==
    \E c \in Channels :
        \/ \E evs \in SUBSET Events : UpdateChannel(c, evs)
        \/ RemoveChannel(c)

Spec == Init /\ [][Next]_<<registered, enabled, interest>>
=============================================================================
