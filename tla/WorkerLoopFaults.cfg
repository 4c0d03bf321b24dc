SPECIFICATION LiveSpec
CHECK_DEADLOCK FALSE
CONSTANTS
    report = report
    agent = agent
    Types <- MCTypes
    TypeLimit <- MCTypeLimit
    Concurrency = 4
    MaxDequeueFaults = 4
PROPERTY
    PollsUntilShutdown
