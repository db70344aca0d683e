\* The peers stop after their last request, and time at the first Ghost.
SPECIFICATION CodecsSpec
CONSTANTS
  kCheapPrepend = 1
  kInitialSize = 4
  ExtraBuf = 3
  MaxLength = 2
  PadTo = 2
  LongBit = 4
  MaxRequests = 2
  Requests <- MCRequests
  Outputs <- MCOutputs
  Frequency = 3
  NumLoops = 2
  Limit = 8
  Period = 3
  MaxDelay = 1
  MaxConns = 2
  MaxHangs = 1
  MaxTold = 1
INVARIANTS FastCgiExchange HttpExchange StatusTrue
CHECK_DEADLOCK FALSE
