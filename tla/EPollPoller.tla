----------------------------- MODULE EPollPoller ----------------------------
(***************************************************************************)
(* netLayer/poller/EpollPoller.cpp and the calls of netLayer/event/Channel *)
(* that reach it: a map from descriptors to channels, in each channel the  *)
(* state kNew, kAdded or kDeleted, and the kernel's interest list.         *)
(*                                                                         *)
(* A channel is <<fd, n>>, the n-th channel opened on a descriptor.  A     *)
(* failing assert, or epoll_ctl failing for ADD or MOD, sets fail.         *)
(***************************************************************************)
EXTENDS Integers, FiniteSets

CONSTANTS MaxFd,        \* descriptors are 0..MaxFd
          Generations,  \* channels opened on one descriptor
          Events,       \* {"read", "write"}
          InitSize      \* kInitEventListSize

Fds == 0..MaxFd
Channels == Fds \X (1..Generations)
Fd(c) == c[1]
None == <<-1, 0>>            \* no entry
NoEntry == [ptr |-> None, events |-> {}]

VARIABLES channels_,  \* per descriptor: its channel, or None
          index_,     \* per channel: "kNew", "kAdded" or "kDeleted"
          events_,    \* per channel: the events it has enabled
          epoll,      \* the kernel: per descriptor [ptr, events], or NoEntry
          size,       \* events_.size() of the poller's buffer
          closed,     \* channels whose descriptor has been closed
          active,     \* activeChannels_ of the current iteration
          fail

vars == <<channels_, index_, events_, epoll, size, closed, active, fail>>

Init ==
    /\ channels_ = [fd \in Fds |-> None]
    /\ index_ = [c \in Channels |-> "kNew"]
    /\ events_ = [c \in Channels |-> {}]
    /\ epoll = [fd \in Fds |-> NoEntry]
    /\ size = InitSize
    /\ closed = {}
    /\ active = {}
    /\ fail = FALSE

\* The descriptor of c is open and not used by another channel.
Usable(c) == c \notin closed /\ channels_[Fd(c)] \in {None, c}

Entry(c, evs) == [ptr |-> c, events |-> evs]

\* EPOLL_CTL_ADD fails for a descriptor that is in the list, EPOLL_CTL_MOD for
\* one that is not.
CtlAdd(c, evs) ==
    IF epoll[Fd(c)] = NoEntry THEN /\ epoll' = [epoll EXCEPT ![Fd(c)] = Entry(c, evs)]
                                   /\ UNCHANGED fail
    ELSE fail' = TRUE /\ UNCHANGED epoll
CtlMod(c, evs) ==
    IF epoll[Fd(c)] # NoEntry THEN /\ epoll' = [epoll EXCEPT ![Fd(c)] = Entry(c, evs)]
                                   /\ UNCHANGED fail
    ELSE fail' = TRUE /\ UNCHANGED epoll
CtlDel(c) == epoll' = [epoll EXCEPT ![Fd(c)] = NoEntry]

\* updateChannel of a channel that is not in the interest list: it is added,
\* also when it asks for no event.
AddChannel(c, evs) ==
    /\ ~fail /\ Usable(c)
    /\ index_[c] \in {"kNew", "kDeleted"}
    /\ events_' = [events_ EXCEPT ![c] = evs]
    /\ IF channels_[Fd(c)] = (IF index_[c] = "kNew" THEN None ELSE c)
       THEN /\ channels_' = [channels_ EXCEPT ![Fd(c)] = c]
            /\ index_' = [index_ EXCEPT ![c] = "kAdded"]
            /\ CtlAdd(c, evs)
       ELSE fail' = TRUE /\ UNCHANGED <<channels_, index_, epoll>>
    /\ UNCHANGED <<size, closed, active>>

\* Mutation of UpdateChannel: the kernel is not told that all events are disabled.
UpdateChannelWithoutDel(c, evs) ==
    /\ ~fail /\ Usable(c)
    /\ index_[c] = "kAdded"
    /\ events_' = [events_ EXCEPT ![c] = evs]
    /\ IF evs = {}
       THEN /\ index_' = [index_ EXCEPT ![c] = "kDeleted"]
            /\ UNCHANGED <<epoll, fail>>
       ELSE CtlMod(c, evs) /\ UNCHANGED index_
    /\ UNCHANGED <<channels_, size, closed, active>>

\* updateChannel of a channel that is in the interest list.
UpdateChannel(c, evs) ==
    /\ ~fail /\ Usable(c)
    /\ index_[c] = "kAdded"
    /\ events_' = [events_ EXCEPT ![c] = evs]
    /\ CASE channels_[Fd(c)] # c ->
                fail' = TRUE /\ UNCHANGED <<epoll, index_>>
         [] channels_[Fd(c)] = c /\ evs = {} ->
                /\ CtlDel(c)
                /\ index_' = [index_ EXCEPT ![c] = "kDeleted"]
                /\ UNCHANGED fail
         [] OTHER -> CtlMod(c, evs) /\ UNCHANGED index_
    /\ UNCHANGED <<channels_, size, closed, active>>

\* Mutation of RemoveChannel: a channel that was added with no events is left in
\* the interest list.
RemoveChannelLeaves(c) ==
    /\ ~fail /\ Usable(c)
    /\ events_[c] = {} /\ index_[c] # "kNew" /\ c \notin active
    /\ channels_' = [channels_ EXCEPT ![Fd(c)] = None]
    /\ index_' = [index_ EXCEPT ![c] = "kNew"]
    /\ UNCHANGED <<events_, epoll, size, closed, active, fail>>

\* Channel::remove and removeChannel.  The owner disables all events before, and
\* removes a channel after the events of the iteration have been handled
\* (EventLoop::removeChannel asserts it).
RemoveChannel(c) ==
    /\ ~fail /\ Usable(c)
    /\ events_[c] = {} /\ index_[c] # "kNew" /\ c \notin active
    /\ IF channels_[Fd(c)] = c
       THEN /\ channels_' = [channels_ EXCEPT ![Fd(c)] = None]
            /\ index_' = [index_ EXCEPT ![c] = "kNew"]
            /\ IF index_[c] = "kAdded" THEN CtlDel(c) ELSE UNCHANGED epoll
            /\ UNCHANGED fail
       ELSE fail' = TRUE /\ UNCHANGED <<channels_, index_, epoll>>
    /\ UNCHANGED <<events_, size, closed, active>>

\* The owner closes the descriptor of a channel that it has removed.
CloseFd(c) ==
    /\ ~fail
    /\ c \notin closed /\ index_[c] = "kNew" /\ events_[c] = {}
    /\ closed' = closed \cup {c}
    /\ UNCHANGED <<channels_, index_, events_, epoll, size, active, fail>>

\* poll and fillActiveChannels: the kernel reports entries that are ready, as
\* many as fit in the buffer, which is doubled when it was full.  An entry that
\* asks for nothing may still report a hang-up.
Poll(ready) ==
    LET ptrs == {epoll[fd].ptr : fd \in ready} IN
    /\ ~fail /\ active = {}
    /\ ready # {} /\ Cardinality(ready) <= size
    /\ \A fd \in ready : epoll[fd] # NoEntry
    /\ fail' = \E c \in ptrs : channels_[Fd(c)] # c
    /\ active' = ptrs
    /\ size' = IF Cardinality(ready) = size THEN 2 * size ELSE size
    /\ UNCHANGED <<channels_, index_, events_, epoll, closed>>

\* handleEvent of an active channel.  What its callbacks do are the other actions.
HandleEvent(c) ==
    /\ ~fail
    /\ c \in active
    /\ active' = active \ {c}
    /\ UNCHANGED <<channels_, index_, events_, epoll, size, closed, fail>>

Next ==
    \/ \E c \in Channels :
        \/ \E evs \in SUBSET Events : AddChannel(c, evs) \/ UpdateChannel(c, evs)
        \/ RemoveChannel(c)
        \/ CloseFd(c)
        \/ HandleEvent(c)
    \/ \E ready \in SUBSET Fds : Poll(ready)

Spec == Init /\ [][Next]_vars

-----------------------------------------------------------------------------
Registered == {c \in Channels : channels_[Fd(c)] = c}

TypeOK ==
    /\ channels_ \in [Fds -> Channels \cup {None}]
    /\ index_ \in [Channels -> {"kNew", "kAdded", "kDeleted"}]
    /\ events_ \in [Channels -> SUBSET Events]
    /\ epoll \in [Fds -> [ptr : Channels \cup {None}, events : SUBSET Events]]
    /\ size \in Nat /\ closed \subseteq Channels /\ active \subseteq Channels

\* The kernel's list has exactly the kAdded channels, each with its events and a
\* pointer to itself, and the map exactly those that are not kNew: so neither an
\* assert nor epoll_ctl fails, and no event leads to a channel that is gone.
KernelAgrees ==
    /\ \A fd \in Fds : channels_[fd] # None => Fd(channels_[fd]) = fd
    /\ \A c \in Channels : (index_[c] # "kNew") <=> (c \in Registered)
    /\ \A fd \in Fds :
        epoll[fd] = IF channels_[fd] # None /\ index_[channels_[fd]] = "kAdded"
                    THEN Entry(channels_[fd], events_[channels_[fd]]) ELSE NoEntry
    /\ \A c \in Channels : index_[c] # "kAdded" => events_[c] = {}
    /\ Registered \cap closed = {}
    /\ ~fail

IInv == TypeOK /\ KernelAgrees

\* What the kernel watches for each channel.
Watched ==
    [c \in Channels |-> IF epoll[Fd(c)].ptr = c THEN epoll[Fd(c)].events ELSE {}]

\* epoll implements the abstract poller: after every call the kernel watches
\* exactly the events that each channel has enabled.
P == INSTANCE Poller WITH registered <- Registered, enabled <- events_,
                          interest <- Watched
WatchesWhatChannelsAsk == P!Spec
=============================================================================
