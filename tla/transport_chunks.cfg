SPECIFICATION Spec
CONSTANTS
    ChunkSize = 2
    Sizes = {0, 1, 2, 4, 5}
    MaxMessages = 3
    MaxAttempts = 2
INVARIANTS
    TypeOK
    WholeMessages
    NothingLost
PROPERTY
    ImplementsChannel
