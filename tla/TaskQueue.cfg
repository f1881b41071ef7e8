SPECIFICATION Spec
CONSTANTS
    Tasks = {t1, t2, t3}
    Producers = {p1, p2}
    Self = self
    NULL = NULL
INVARIANTS
    TypeOK
    OnePlace
    NoLostWakeup
PROPERTY ImplementsTaskBag
CHECK_DEADLOCK FALSE
