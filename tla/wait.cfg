SPECIFICATION Spec
CONSTANTS
    Contexts = {main, c1, c2}
    Main = main
    LocalFutures = {f1, f2}
    RemoteFutures = {r1}
    NULL = NULL
    Prio <- MCTwoPrios
    Calls = {"async", "wait", "throw"}
    Delays = {1}
    RemoteOutcomes = {"value"}
    MaxCalls = 2
    MaxWaiters = 1
    Numbers = {1, 2}
    MaxTime = 0
INVARIANTS
    NoLostWakeup
    StartInOrder
PROPERTIES
    WakeupDelivered
CHECK_DEADLOCK FALSE
