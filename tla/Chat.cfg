CONSTANTS
    Attempts = {a1}
    NTurns = 3
    CrashTurns = 2
    MaxHosts = 2
    MaxEpochs = 2
    NoTurn = NoTurn
    MaxOps = 3
    NConfirms = 2
    MaxGenerations = 2
    NoOp = NoOp
    Children = {k1, k2, k3, k4}
    Cap = 3
SPECIFICATION MCSpec
CHECK_DEADLOCK FALSE
INVARIANTS
    StopReaches
    RunOnce
    ClearedStaysCleared
    ExecutedAsConfirmed
    FinalizedOnce
    HandedOnce
    SuccessIsEarned
    NoLostDrain
PROPERTIES
    AllSettle
    EventuallyFinalized
