\* The web server's workers close connections themselves.
SPECIFICATION Spec
CONSTANTS
  Workers = {w1}
  m1 = m1
  m2 = m2
  Messages = {m1, m2}
  Usages <- WebServerUsage
  HighWater = 3
  MaxTimers = 1
INVARIANTS DestructedClosed
CHECK_DEADLOCK FALSE
