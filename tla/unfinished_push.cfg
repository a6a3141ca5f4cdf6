SPECIFICATION Spec
CONSTANTS
    Cameras = 2
    QueueSize = 1
    MaxTakes = 3
    MaxErrors = 1
    UploadEvery = 2
    MetadataBuffer = 2
    MaxFrames = 4
INVARIANT PushedWithFooters
CHECK_DEADLOCK FALSE
