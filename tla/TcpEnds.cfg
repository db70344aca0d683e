\* A client that is stopped or has given up is idle, a server that is destructed too.
SPECIFICATION EndsSpec
CONSTANTS
  MaxFds = 3
  NumLoops = 2
  MaxPeers = 4
  InitDelay = 1
  MaxDelay = 4
  MaxConns = 3
  CgiWorkers = {v1, v2}
  MaxOpen = 7
  PipeSize = 1
  MaxBody = 2
  MaxOutput = 2
  MaxCgi = 2
INVARIANTS ClientOwnsOne OwnDescriptors
PROPERTIES Reconnects StopEnds NobodyHangs
CHECK_DEADLOCK FALSE
