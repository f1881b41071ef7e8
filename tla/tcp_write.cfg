SPECIFICATION Spec
CONSTANTS
    NULL = NULL
    Sizes = {1, 2}
    MaxBytes = 6
    MaxLoops = 3
INVARIANTS
    TypeOK
    Conservation
    InFlightUntouched
    FlushMeansSent
    FreedWhenDone
PROPERTIES
    FlushEnds
    WrittenIsSent
CHECK_DEADLOCK FALSE
