SPECIFICATION Spec
CONSTANTS
    BufferSize = 2
    MaxPut = 3
    MaxArrive = 2
    MaxConnects = 2
INVARIANTS
    TypeOK
    WireInOrder
    SyncMeansSent
    ReadIsStream
PROPERTY CallEnds
CHECK_DEADLOCK FALSE
