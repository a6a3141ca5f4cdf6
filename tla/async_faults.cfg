SPECIFICATION FairSpec
CONSTANTS
    Poses = {p1}
    NoObs = NoObs
    MaxSessions = 2
    MaxFaults = 1
    ActionsPerChunk = 1
    ThresholdNum = 1
    ThresholdDen = 1
    Horizon = 0
    ScanIsAtomic = TRUE
    FastMerge = TRUE
    SendThreads = {s1, s2}
    GetThreads = {g1}
    SlowInference = FALSE
    FastPut = TRUE
    FastGet = TRUE
PROPERTIES
    NewClientServed
