SPECIFICATION FairSpec
CONSTANTS
    Tasks = {"pick", "place"}
    Launch = "pick"
    ChunkLength = 2
    Threshold = 1
    MaxDelay = 1
    Warmups = 1
    MaxErrors = 2
    MaxDiscards = 2
    MaxSessions = 2
    MaxTaskChanges = 1
INVARIANTS
    TypeOK
    FreshActions
    LabelsTrue
PROPERTIES
    SuppliesActions
    StarvationEnds
    TaskSwitches
CHECK_DEADLOCK FALSE
