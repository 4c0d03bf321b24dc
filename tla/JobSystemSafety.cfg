SPECIFICATION Spec
CONSTANTS
    Jobs = {j1, j2}
    Workers = {w1, w2}
    Clients = {c1, c2}
    NoJob = NoJob
    MaxAttempts = 2
    SharedRegistry = TRUE
    MaxCrashes = 1
    MaxOverruns = 0
    MaxFaults = 1
    MaxDeaths = 1
    MaxCancels = 1
    MaxRetries = 0
SYMMETRY Identities
CHECK_DEADLOCK FALSE
INVARIANTS
    JobTypeOK
    SingleExecutor
    HoldersAreLeased
    ExecutionsBounded
PROPERTIES
    LegalTransitions
    DutifulClients
