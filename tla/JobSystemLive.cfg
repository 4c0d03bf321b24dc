SPECIFICATION LiveSpec
CONSTANTS
    Jobs = {j1}
    Workers = {w1, w2}
    Clients = {c1}
    NoJob = NoJob
    MaxAttempts = 2
    SharedRegistry = FALSE
    MaxCrashes = 1
    MaxOverruns = 1
    MaxFaults = 1
    MaxDeaths = 0
    MaxCancels = 1
    MaxRetries = 1
CONSTRAINT OneAdversity
CHECK_DEADLOCK FALSE
PROPERTY
    EventuallySettles
