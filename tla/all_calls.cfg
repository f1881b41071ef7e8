SPECIFICATION SafeSpec
CONSTANTS
    Contexts = {main, c1, c2}
    Main = main
    LocalFutures = {f1, f2}
    RemoteFutures = {r1}
    NULL = NULL
    Prio <- MCFlatPrio
    Calls = {"async", "schedule", "wait", "timed_wait", "sleep", "cancel", "quit", "throw"}
    Delays = {0, 1}
    RemoteOutcomes = {"value", "error"}
    MaxCalls = 2
    MaxWaiters = 2
    Numbers = {1}
    MaxTime = 1
SYMMETRY MCSymmetry
INVARIANTS 
    TypeOK
    NoTaskLost
CHECK_DEADLOCK FALSE
