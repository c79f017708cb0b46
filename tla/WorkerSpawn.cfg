CONSTANTS
    c1 = c1
    c2 = c2
    c3 = c3
    c4 = c4
    k1 = k1
    k2 = k2
    NoKey = NoKey
    NoCall = NoCall
    Calls = {c1, c2, c3, c4}
    Asks <- MCAsks
    Direct <- MCDirect
    MaxWorkers = 2
SPECIFICATION Spec
SYMMETRY Symmetry
CHECK_DEADLOCK FALSE
INVARIANTS
    LaunchedOnce
    RightWorker
    QuotaKept
