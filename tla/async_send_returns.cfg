SPECIFICATION FairSpec
CONSTANTS
    Poses = {p1}
    NoObs = NoObs
    MaxSessions = 1
    MaxFaults = 1
    ActionsPerChunk = 2
    ThresholdNum = 1
    ThresholdDen = 1
    Horizon = 0
    ScanIsAtomic = FALSE
    FastMerge = FALSE
    SendThreads = {s1, s2}
    GetThreads = {g1, g2}
    SlowInference = FALSE
    FastPut = TRUE
    FastGet = TRUE
PROPERTIES
    SendReturns
