\* The writer is stopped at the end or the process aborted, and the clock is bounded.
SPECIFICATION LoggingSpec
CONSTANTS
  Capacity = 2
  MaxBuffers = 3
  RollSize = 2
  MaxLines = 8
  MaxErrors = 1
  MaxNow = 2
  Size = 4000
  kMaxNumericSize = 32
  Threads = {t1, t2}
  Texts = {20, 3929, 3946, 3961}
  Ints = {0, 77, 2147483647}
  MaxPieces = 2
INVARIANTS IInv LinesAccountedFor LinesWhole StampFresh
PROPERTIES LinesReachTheFile StopEnds
CHECK_DEADLOCK FALSE
