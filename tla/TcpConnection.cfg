\* The connection's life ends, so that the system may stop.
SPECIFICATION Spec
CONSTANTS
  Workers = {w1}
  m1 = m1
  m2 = m2
  Messages = {m1, m2}
  Usages <- LoopUsages
  HighWater = 3
  MaxTimers = 1
INVARIANTS LifecycleOnce OutputInOrder
PROPERTIES ShutdownFinishes PeerCloseEnds
CHECK_DEADLOCK FALSE
