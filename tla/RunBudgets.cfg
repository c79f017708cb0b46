CONSTANTS
    r1 = r1
    r2 = r2
    p1 = p1
    p2 = p2
    None = None
    Runs = {r1, r2}
    Procs = {p1, p2}
    NSpans = 2
    NRequests = 2
    MaxEstimate = 2
    Excess = 1
    Limits = {2}
    MaxLimit = 2
    MaxSpans = 2
    MaxGeneration = 2
    MaxActions <- ThreeCalls
SPECIFICATION Spec
SYMMETRY Symmetry
CHECK_DEADLOCK FALSE
CONSTRAINT OneAtATime
INVARIANTS
    Accounted
PROPERTIES
    WithinAllowance
    StoppedStaysStopped
    PauseHolds
    NoBlindRepeat
