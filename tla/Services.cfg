SPECIFICATION Spec
CHECK_DEADLOCK FALSE
CONSTANTS
    GatewayRequests = {q1, q2}
    Remote = {p1}
    Local = local
    FailureThreshold = 2
    Watchers = {w1, w2}
    CancelRequests = {k1}
    Events = 3
    Checks = {2}
    QueueSize = 2
    MaxSubscribers = 1
    MaxRestarts = 1
    Chunks = {1, 2, 3}
    MaxListed <- MCMaxListed
    Weights <- MCWeights
    TopKs = {1, 2}
    RerankLimits = {1, 3, NoLimit}
    NoLimit = NoLimit
    Ceiling = 3
    BatchSize = 2
    Permits = 1
    Scores = {1, 2}
    Missing = Missing
INVARIANTS
    ServicesTypeOK
    BreakerCountsFailures
    StreamInOrder
    RankingsAreTrue
PROPERTIES
    NobodyWaits
