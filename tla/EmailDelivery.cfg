CONSTANTS
    NCalls = 3
    Procs = {p1, p2}
    NAttempts = 2
    NPayloads = 3
    p1 = p1
    p2 = p2
    MaxPayloads = 2
    OldStatuses = {"absent", "uncertain"}
    None = None
    MaxCheckpoints = 2
    MaxBoots = 3
    MaxClears = 1
    MaxFailures = 1
    TotalAttempts = 2
    Empty = Empty
SPECIFICATION MCSpec
CHECK_DEADLOCK FALSE
INVARIANTS
    AtMostOnce
    SuccessIsTrue
PROPERTIES
    RetryAddsNothing
    NeverRearmed
    EveryCallEnds
    NoReplay
    
