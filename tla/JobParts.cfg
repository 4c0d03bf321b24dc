SPECIFICATION Spec
CHECK_DEADLOCK FALSE
CONSTANTS
    j1 = j1
    j2 = j2
    j3 = j3
    Jobs <- MCJobs
    PriorityOf <- MCPriorityOf
    Visibility = 3
    Delays <- MCDelays
    MaxTime = 8
    r1 = r1
    r2 = r2
    r3 = r3
    r4 = r4
    r5 = r5
    key = key
    NoKey = NoKey
    work = work
    otherWork = otherWork
    Requests <- MCRequests
    KeyOf <- MCKeyOf
    PayloadOf <- MCPayloadOf
    MaxDepth = 2
    MaxInFlight = 2
    MaxPushFaults = 1
    report = report
    agent = agent
    Types <- MCTypes
    TypeLimit <- MCTypeLimit
    Concurrency = 4
    MaxDequeueFaults = 3
    poller1 = poller1
    RedisJobs <- MCRedisJobs
    Pollers <- MCPollers
    NoJob = NoJob
    MaxTaskCrashes = 2
    MaxPollerCrashes = 1
INVARIANTS
    JobsKeepTheirPlace
    LimitsHold
PROPERTIES
    ImplementsLeaseQueue
    RedisImplementsQueue
    PartsGoOn
