SPECIFICATION Spec
CONSTANTS
    MaxFailures = 1
    MaxFrames = 3
    MaxConnections = 2
INVARIANTS
    TypeOK
    OwnFrames
    EventTellsSlot
CHECK_DEADLOCK FALSE
