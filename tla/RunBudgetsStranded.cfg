CONSTANTS
    r1 = r1
    r2 = r2
    p1 = p1
    p2 = p2
    None = None
    Runs = {r1}
    Procs = {p1, p2}
    NSpans = 2
    NRequests = 1
    MaxEstimate = 1
    Excess = 1
    Limits = {2}
    MaxLimit = 2
    MaxSpans = 2
    MaxGeneration = 1
    MaxActions <- NoCalls
SPECIFICATION Spec
SYMMETRY Symmetry
CHECK_DEADLOCK FALSE
INVARIANT
    NothingStranded
