CONSTANTS
    MaxId = 2
    MaxGen = 1
    MaxTime = 5
    Week = 2
    MaxDelay = 1
    RestartIdle = 2
    MaxRecords = 2
    FailingDeletes = {"retire"}
    c1 = c1
    c2 = c2
    c3 = c3
    c4 = c4
    Calls = {c1, c2, c3, c4}
    Text <- ThreeCallsAndAnother
    Nobody = Nobody
    Hits = {1, 2, 3}
    MaxValue = 2
    MaxEvents = 4
    MaxFaults = 2
    MaxFailures = 2
    Fires = 3
    MaxRequests = 2
    Fresh = Fresh
    Idle = Idle
SPECIFICATION MCSpec
CHECK_DEADLOCK FALSE
INVARIANTS
    AtMostOnce
    StaysEnded
    ToldRightly
    NothingMissed
    StreakIsExact
    SwitchedOffStaysOff
    AlwaysArmed
PROPERTIES
    NoSequenceSwallowed
    ImplementsDelivery
