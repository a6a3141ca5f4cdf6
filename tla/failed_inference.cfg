SPECIFICATION FairSpec
CONSTANTS
    Poses = {p1, p2}
    NoObs = NoObs
    MaxSessions = 1
    MaxFaults = 1
    ActionsPerChunk = 2
    ThresholdNum = 1
    ThresholdDen = 1
    Horizon = 3
    ScanIsAtomic = TRUE
    FastMerge = TRUE
    SendThreads = {s1}
    GetThreads = {g1}
    SlowInference = TRUE
    FastPut = TRUE
    FastGet = TRUE
PROPERTIES
    EmptyQueueRefilled
