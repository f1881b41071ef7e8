SPECIFICATION SafeSpec
CONSTANTS
    Contexts = {main, c1, c2}
    Main = main
    LocalFutures = {f1, f2}
    RemoteFutures = {r1}
    NULL = NULL
    Prio <- MCFlatPrio
    Calls = {"wait", "timed_wait", "sleep", "yield"}
    Delays = {0, 1, 2}
    RemoteOutcomes = {"value"}
    MaxCalls = 2
    MaxWaiters = 1
    Numbers = {1}
    MaxTime = 2
SYMMETRY MCSymmetry
INVARIANTS
    FaultOnlyLate
    IdleOnlyWhenNoWork
    Placement
    WaitHasResult
PROPERTIES
    ReuseBeforeCreate
CHECK_DEADLOCK FALSE
