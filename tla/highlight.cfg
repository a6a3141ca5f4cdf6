SPECIFICATION Spec
CONSTANTS
    MaxFrames = 3
    MaxBytes = 4
    FrameBytes = {1, 2, 5}
    MaxRecorded = 6
    MaxErrors = 1
INVARIANTS
    TypeOK
    CapHonoured
    EpisodesUnbroken
    FramesOnce
    NothingSkipped
