SPECIFICATION ThreadSpec
CONSTANTS
    Threads = {o, t1}
    Owner = o
    Functors = {f1, f2}
    None = None
INVARIANTS
    NoLostWakeup LoopOutlivesHandle
PROPERTIES
    FunctorsAreFIFO
    QueuedRuns
    QuitWhileLoopingJoins
CHECK_DEADLOCK FALSE
