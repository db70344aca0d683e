\* The clock stops at MaxTime.
SPECIFICATION Spec
CONSTANTS
  Timers = {t1, t2}
  Callers = {c1}
  Repeating = {t1}
  Interval = 1
  MaxTime = 2
INVARIANTS RunAtIsSafe
CHECK_DEADLOCK FALSE
