CONSTANTS
    Attempts = {a1}
    NTurns = 3
    CrashTurns = 2
    MaxHosts = 2
    MaxEpochs = 2
    NoTurn = NoTurn
SPECIFICATION ChatSpec
CHECK_DEADLOCK FALSE
INVARIANTS
    QueuedAlone
