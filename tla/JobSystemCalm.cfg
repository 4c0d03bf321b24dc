SPECIFICATION LiveSpec
CONSTANTS
    Jobs = {j1, j2}
    Workers = {w1, w2}
    Clients = {c1}
    NoJob = NoJob
    MaxAttempts = 2
    SharedRegistry = TRUE
    MaxCrashes = 0
    MaxOverruns = 0
    MaxFaults = 0
    MaxDeaths = 0
    MaxCancels = 1
    MaxRetries = 0
CHECK_DEADLOCK FALSE
INVARIANTS
    NoJobLost
    DeadLetterJustified
PROPERTY
    EntriesDrain
