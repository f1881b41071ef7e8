SPECIFICATION Spec
CONSTANTS
    Listeners = {l1, l2}
    MaxConns = 4
    MaxFails = 4
    NULL = NULL
INVARIANTS
    EachOnce
    FailureReported
PROPERTY Served
CHECK_DEADLOCK FALSE
