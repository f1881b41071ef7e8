SPECIFICATION Spec
CONSTANTS
    Contexts = {main, c1, c2}
    Main = main
    LocalFutures = {f1, f2}
    RemoteFutures = {}
    NULL = NULL
    Prio <- MCFlatPrio
    Calls = {"schedule"}
    Delays = {1, 2}
    RemoteOutcomes = {"value"}
    MaxCalls = 2
    MaxWaiters = 1
    Numbers = {1}
    MaxTime = 2
PROPERTY ScheduledTaskStarts
CHECK_DEADLOCK FALSE
