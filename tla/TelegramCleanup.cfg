CONSTANTS
    MaxId = 2
    MaxGen = 1
    MaxTime = 5
    Week = 2
    MaxDelay = 1
    RestartIdle = 3
    MaxRecords = 2
    FailingDeletes = {"retire", "reset"}
SPECIFICATION Spec
CHECK_DEADLOCK FALSE
PROPERTIES
    FailClosedByFilename
