CONSTANTS
    c1 = c1
    c2 = c2
    c3 = c3
    c4 = c4
    p1 = p1
    p2 = p2
    p3 = p3
    NoCall = NoCall
    Calls = {c1, c2, c3, c4}
    Procs = {p1, p2, p3}
    Host <- SharedHosts
    Windows = {}
SPECIFICATION FairSpec
CHECK_DEADLOCK FALSE
PROPERTIES
    ImplementsMutex
    NeverWedged
