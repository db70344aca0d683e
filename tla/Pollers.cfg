\* Every channel may end up closed.
SPECIFICATION DefaultSpec
CONSTANTS
  MaxFd = 2
  Generations = 2
  Events = {"read"}
  InitSize = 1
INVARIANTS IInv EPollAgrees
PROPERTIES PollsWhatChannelsAsk EPollWatchesWhatChannelsAsk
CHECK_DEADLOCK FALSE
