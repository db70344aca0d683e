\* The pool is stopped at the end.
SPECIFICATION WrappersSpec
CONSTANTS
  Workers = {w1, w2}
  Producers = {p1, p2}
  Tasks = {a, b, c}
  MaxQueueSize = 2
  None = None
  Main = Main
  Pool = Pool
  FineProducers = {p1}
  FineTasks = {a, b, c}
INVARIANTS IInv HolderIsOwner StartHandsOver
PROPERTIES TasksAreFIFO AcceptedExecuted PoolStops
CHECK_DEADLOCK FALSE
