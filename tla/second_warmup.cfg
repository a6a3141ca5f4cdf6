SPECIFICATION FairSpec
CONSTANTS
    Tasks = {"pick", "place"}
    Launch = "pick"
    ChunkLength = 2
    Threshold = 1
    MaxDelay = 1
    Warmups = 2
    MaxErrors = 2
    MaxDiscards = 2
    MaxSessions = 2
    MaxTaskChanges = 1
PROPERTY WarmupEnds
CHECK_DEADLOCK FALSE
