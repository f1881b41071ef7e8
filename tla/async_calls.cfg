SPECIFICATION Spec
CONSTANTS
    Threads = {t1, t2}
    Calls = {k1, k2}
    Cells = {a1, a2}
    Kinds <- MCKinds
    k1 = k1
    k2 = k2
    MaxPosted = 0
    NULL = NULL
SYMMETRY MCSymmetry
INVARIANTS
    TypeOK
    CountIsHolders
    ResultIsOwn
    WakeupOnItsWay
CHECK_DEADLOCK FALSE
