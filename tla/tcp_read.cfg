SPECIFICATION Spec
CONSTANTS
    Sizes = {0, 1, 2, 3}
    MaxBytes = 5
    MaxReturned = 5
INVARIANTS
    TypeOK
    StreamInOrder
PROPERTY CloseEndsRead
CHECK_DEADLOCK FALSE
