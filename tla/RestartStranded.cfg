CONSTANTS
    MaxCheckpoints = 2
    MaxBoots = 3
    MaxClears = 0
    MaxFailures = 0
    TotalAttempts = 2
    Empty = Empty
SPECIFICATION RestartSpec
CHECK_DEADLOCK FALSE
PROPERTIES
    NeverStranded
