SPECIFICATION Spec
CONSTANTS
    Frames = {f1, f2}
    MaxSlots = 2
INVARIANTS
    BlockedByOne
    OnceWhenAlone
PROPERTIES
    GoneIsQuiet
    CallAnswered
CHECK_DEADLOCK FALSE
