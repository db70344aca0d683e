----------------------------- MODULE PollPoller -----------------------------
(***************************************************************************)
(* netLayer/poller/PollPoller.cpp and the calls of netLayer/event/Channel  *)
(* that reach it: a vector of pollfds, a map from descriptors to channels, *)
(* and in each channel the index of its pollfd.                            *)
(*                                                                         *)
(* A channel is <<fd, n>>: the n-th channel that is opened on a descriptor *)
(* (descriptors are reused when a connection is gone).  A pollfd that is   *)
(* to be ignored has the descriptor -fd-1.  A failing assert puts its      *)
(* channel in fail, and the program ends.                                  *)
(***************************************************************************)
EXTENDS Integers, Sequences

CONSTANTS MaxFd,        \* descriptors are 0..MaxFd
          Generations,  \* channels opened on one descriptor
          Events        \* {"read", "write"}

ASSUME PollAssumption == MaxFd \in Nat /\ Generations \in Nat

Fds == 0..MaxFd
Channels == Fds \X (1..Generations)
Fd(c) == c[1]
None == <<-1, 0>>   \* no entry in channels_

VARIABLES pollfds_,   \* sequence of [fd, events]
          channels_,  \* per descriptor: its channel, or None
          index_,     \* per channel: -1, or the position in pollfds_ from 0
          events_,    \* per channel: the events it has enabled
          closed,     \* channels that have been removed; they are not used again
          bare,       \* history: channels added without an event, not updated since
          fail        \* the channel in whose call an assert failed, or None

vars == <<pollfds_, channels_, index_, events_, closed, bare, fail>>

Init ==
    /\ pollfds_ = << >>
    /\ channels_ = [fd \in Fds |-> None]
    /\ index_ = [c \in Channels |-> -1]
    /\ events_ = [c \in Channels |-> {}]
    /\ closed = {}
    /\ bare = {}
    /\ fail = None

Ignored(fd) == -fd - 1
Decode(fd) == IF fd < 0 THEN -fd - 1 ELSE fd
PollFd(fd, evs) == [fd |-> fd, events |-> evs]

\* The kernel gives out a descriptor again only when it has been closed, which the
\* owner of the channel does after it has removed the channel.
Usable(c) == c \notin closed /\ channels_[Fd(c)] \in {None, c}

\* updateChannel of a new channel: the pollfd is not one to be ignored, whatever
\* the events.  Most owners enable an event first; ~Acceptor of a server that was
\* never started disables all events of a channel the poller has not seen.
AddChannel(c, evs) ==
    /\ fail = None /\ Usable(c)
    /\ index_[c] < 0
    /\ events_' = [events_ EXCEPT ![c] = evs]
    /\ pollfds_' = Append(pollfds_, PollFd(Fd(c), evs))
    /\ index_' = [index_ EXCEPT ![c] = Len(pollfds_)]
    /\ channels_' = [channels_ EXCEPT ![Fd(c)] = c]
    /\ bare' = IF evs = {} THEN bare \cup {c} ELSE bare
    /\ fail' = IF channels_[Fd(c)] # None THEN c ELSE None
    /\ UNCHANGED closed

\* The asserts of updateChannel on a channel that has an index.
Known(c) ==
    /\ channels_[Fd(c)] = c
    /\ index_[c] \in 0..(Len(pollfds_) - 1)
    /\ Decode(pollfds_[index_[c] + 1].fd) = Fd(c)

\* Mutation of UpdateChannel: pfd.events keeps the events of the first call.
UpdateChannelKeepsEvents(c, evs) ==
    /\ fail = None /\ Usable(c)
    /\ index_[c] >= 0
    /\ events_' = [events_ EXCEPT ![c] = evs]
    /\ pollfds_' = [pollfds_ EXCEPT ![index_[c] + 1].fd =
                        IF evs = {} THEN Ignored(Fd(c)) ELSE Fd(c)]
    /\ bare' = bare \ {c}
    /\ UNCHANGED <<index_, channels_, closed, fail>>

\* updateChannel of a channel that has an index.
UpdateChannel(c, evs) ==
    /\ fail = None /\ Usable(c)
    /\ index_[c] >= 0
    /\ events_' = [events_ EXCEPT ![c] = evs]
    /\ bare' = bare \ {c}
    /\ IF Known(c)
       THEN /\ pollfds_' = [pollfds_ EXCEPT ![index_[c] + 1] =
                                PollFd(IF evs = {} THEN Ignored(Fd(c)) ELSE Fd(c), evs)]
            /\ UNCHANGED fail
       ELSE fail' = c /\ UNCHANGED pollfds_
    /\ UNCHANGED <<index_, channels_, closed>>

\* The last pollfd takes the place of the one at position i (from 1).
SwapRemove(i) ==
    [j \in 1..(Len(pollfds_) - 1) |-> IF j = i THEN pollfds_[Len(pollfds_)] ELSE pollfds_[j]]

\* The channel whose pollfd is moved.
Moved == channels_[Decode(pollfds_[Len(pollfds_)].fd)]

\* Mutation of RemoveChannel: the moved channel is looked up without decoding.
RemoveChannelUndecoded(c) ==
    LET i == index_[c] + 1
        last == pollfds_[Len(pollfds_)].fd
    IN
    /\ fail = None /\ Usable(c)
    /\ events_[c] = {} /\ index_[c] >= 0
    /\ channels_' = [channels_ EXCEPT ![Fd(c)] = None]
    /\ closed' = closed \cup {c}
    /\ pollfds_' = SwapRemove(i)
    /\ index_' = IF i # Len(pollfds_) /\ last >= 0
                 THEN [index_ EXCEPT ![channels_[last]] = i - 1] ELSE index_
    /\ UNCHANGED <<events_, bare, fail>>

\* Channel::remove and removeChannel; a caller disables all events before.
RemoveChannel(c) ==
    LET i == index_[c] + 1 IN
    /\ fail = None /\ Usable(c)
    /\ events_[c] = {} /\ index_[c] >= 0
    /\ IF Known(c) /\ pollfds_[i] = PollFd(Ignored(Fd(c)), {})
       THEN /\ closed' = closed \cup {c}
            /\ channels_' = [channels_ EXCEPT ![Fd(c)] = None]
            /\ pollfds_' = SwapRemove(i)
            /\ index_' = IF i = Len(pollfds_) THEN index_
                         ELSE [index_ EXCEPT ![Moved] = i - 1]
            /\ UNCHANGED fail
       ELSE fail' = c /\ UNCHANGED <<closed, channels_, pollfds_, index_>>
    /\ UNCHANGED <<events_, bare>>

Next ==
    \E c \in Channels :
        \/ \E evs \in SUBSET Events : AddChannel(c, evs) \/ UpdateChannel(c, evs)
        \/ RemoveChannel(c)

Spec == Init /\ [][Next]_vars

-----------------------------------------------------------------------------
Registered == {c \in Channels : channels_[Fd(c)] = c}

TypeOK ==
    /\ pollfds_ \in Seq([fd : Int, events : SUBSET Events])
    /\ channels_ \in [Fds -> Channels \cup {None}]
    /\ index_ \in [Channels -> Int]
    /\ events_ \in [Channels -> SUBSET Events]
    /\ closed \subseteq Channels
    /\ bare \subseteq Channels
    /\ fail \in Channels \cup {None}

\* The index of a registered channel leads to its pollfd, which carries the
\* channel's events and is ignored exactly when there are none, unless there were
\* none from the start; and every pollfd belongs to a registered channel.  Swapping entries on removal keeps it so.
IndexesAgree ==
    /\ \A c \in Registered :
        /\ index_[c] \in 0..(Len(pollfds_) - 1)
        /\ pollfds_[index_[c] + 1] =
               PollFd(IF events_[c] = {} /\ c \notin bare THEN Ignored(Fd(c)) ELSE Fd(c),
                      events_[c])
    /\ \A i \in DOMAIN pollfds_ :
        /\ Decode(pollfds_[i].fd) \in Fds
        /\ channels_[Decode(pollfds_[i].fd)] # None
        /\ index_[channels_[Decode(pollfds_[i].fd)]] = i - 1

\* Unregistered channels are new or closed; the map has a channel under its own
\* descriptor.
MapAgrees ==
    /\ \A fd \in Fds : channels_[fd] # None => Fd(channels_[fd]) = fd
    /\ \A c \in Channels : (index_[c] >= 0) <=> (c \in Registered \cup closed)
    /\ Registered \cap closed = {}
    /\ \A c \in Channels \ Registered : events_[c] = {}

\* However channels come and go, an assert of PollPoller fails only in the removal
\* of a channel that has never enabled an event (PollPoller.cpp:117, reached from
\* ~Acceptor when the server was never started).
NoAssertFails == fail # None => fail \in bare /\ fail \in Registered

IInv == TypeOK /\ IndexesAgree /\ MapAgrees /\ NoAssertFails

\* What the kernel is asked for: the pollfds that are not ignored.
Interest ==
    [c \in Channels |->
        IF c \in Registered /\ pollfds_[index_[c] + 1].fd >= 0
        THEN pollfds_[index_[c] + 1].events ELSE {}]

\* The vector of pollfds implements the abstract poller: after every call poll()
\* is asked for exactly the events that each channel has enabled.
P == INSTANCE Poller WITH registered <- Registered, enabled <- events_,
                          interest <- Interest
PollsWhatChannelsAsk == P!Spec
=============================================================================
