------------------------------- MODULE Pollers ------------------------------
(***************************************************************************)
(* netLayer/poller/DefaultPoller.cpp: Poller::newDefaultPoller gives a     *)
(* loop a PollPoller or an EPollPoller, as the environment says, and the   *)
(* loop and its channels cannot tell which: both implement Poller.         *)
(***************************************************************************)
EXTENDS PollPoller

CONSTANT InitSize     \* kInitEventListSize of the EPollPoller

ASSUME SizeAssumption == InitSize \in Nat

VARIABLES usePoll,    \* MUDUO_USE_POLL is set
          eChannels, eIndex, eEvents, epoll, size, eClosed, active, eFail

eVars == <<eChannels, eIndex, eEvents, epoll, size, eClosed, active, eFail>>

E == INSTANCE EPollPoller WITH channels_ <- eChannels, index_ <- eIndex,
         events_ <- eEvents, closed <- eClosed, fail <- eFail

NewDefaultPoller == usePoll \in BOOLEAN /\ Init /\ E!Init

PollPollerStep == usePoll /\ Next /\ UNCHANGED <<usePoll, eVars>>
EPollPollerStep == ~usePoll /\ E!Next /\ UNCHANGED <<usePoll, vars>>

DefaultNext == PollPollerStep \/ EPollPollerStep

DefaultSpec == NewDefaultPoller /\ [][DefaultNext]_<<usePoll, vars, eVars>>

-----------------------------------------------------------------------------
\* The EPollPoller's map, its channel states and the kernel's interest list agree
\* whatever is added, disabled, removed and reused while events are pending, so
\* that no assert and no epoll_ctl fails and no event leads to a channel that is
\* gone.
EPollAgrees == E!IInv

\* EPollPoller implements the abstract poller: after every call the kernel watches
\* exactly the events that each channel has enabled.
EPollWatchesWhatChannelsAsk == E!WatchesWhatChannelsAsk
=============================================================================
