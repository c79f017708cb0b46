CONSTANTS
    Tasks = {t1, t2}
    Entries = {e1, e2}
    Files = {f1, f2, f3}
    Nothing = Nothing
    Unreadable = Unreadable
    Calls = {edit, team, read}
    Mutations = {edit, team}
    TeamCalls = {team}
    Budgeted = TRUE
    MaxActions = 2
    MaxResumes = 1
    MaxLives = 3
    MaxFaults = 1
    MaxAttempts = 2
    Gone = Gone
SPECIFICATION Spec
CHECK_DEADLOCK FALSE
PROPERTIES
    ImplementsLog
    ReviewedRepeats
    StopHolds
    JobSettled
