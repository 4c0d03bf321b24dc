SPECIFICATION Spec
CONSTANTS
    Jobs = {j1}
    Workers = {w1, w2}
    Clients = {c1}
    NoJob = NoJob
    MaxAttempts = 2
    SharedRegistry = FALSE
    MaxCrashes = 1
    MaxOverruns = 0
    MaxFaults = 0
    MaxDeaths = 0
    MaxCancels = 0
    MaxRetries = 0
CHECK_DEADLOCK FALSE
INVARIANT
    DeadLetterJustified
