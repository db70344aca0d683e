\* The peers, redis and the requests are bounded.
SPECIFICATION ServerSpec
CONSTANTS
  NumConns = 2
  NumLoops = 2
  MaxConns = 2
  WheelSize = 2
  Chunks = 2
  MaxRequests = 2
  Kinds = {"unusable", "empty", "file", "vip"}
  Headers = {"close", "none"}
  MaxChanges = 1
INVARIANTS LimitHolds InWheel OwnResponses NothingStuck
CHECK_DEADLOCK FALSE
