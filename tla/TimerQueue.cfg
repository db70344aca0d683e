\* The clock stops at MaxTime.
SPECIFICATION Spec
CONSTANTS
  Timers = {t1, t2, t3}
  Callers = {c1}
  Repeating = {t1, t2}
  Interval = 1
  MaxTime = 2
INVARIANTS IInv CancelIsFinal NoLateWakeup
CHECK_DEADLOCK FALSE
