SPECIFICATION Spec
CONSTANTS
    Threads = {t1}
    Calls = {k1}
    Cells = {}
    Kinds <- MCSyncOnly
    k1 = k1
    k2 = k2
    MaxPosted = 1
    NULL = NULL
INVARIANT SyncEndsByResult
CHECK_DEADLOCK FALSE
