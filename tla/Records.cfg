SPECIFICATION Spec
CHECK_DEADLOCK FALSE
CONSTANTS
    a1 = a1
    a2 = a2
    a3 = a3
    r1 = r1
    r2 = r2
    r3 = r3
    Ingestions <- Actors
    Schemas = {{"a"}, {"b"}}
    MaxIngestCrashes = 1
    t1 = t1
    t2 = t2
    Memories = {m1, m2}
    MemoryRequests <- MCTasks
    MaxIndexFaults = 1
    Executions <- Actors
    Cancellers = {c1}
    PlanLength = 2
    Gated = {2}
    Idempotent = {1, 2}
    Committing = {2}
    Reviewers <- MCReviewers
    Requester = r1
    MinApprovers = 2
    AllowSelf = FALSE
    AuthRequests <- Actors
    MaxTokens = 3
    MaxFamilies = 2
    SourceRequests <- MCTasks
    Parameters = {"host", "schema"}
    MaxChanges = 2
    MaxCacheFaults = 1
    Syncs <- Actors
    Objects = {"dataset", "column", "metric"}
    NoObject = "none"
    Walk <- MCWalk
    SreRequests <- MCTasks
    MaxAlerts = 2
    MaxOccurrences = 3
    EvalRuns <- MCTasks
    MaxCases = 2
    Metrics <- MCMetrics
    ReportedLower <- MCLower
    ReadLower <- MCReadLower
    BaseValues = {0, 100}
    Values = {90, 97, 110}
    Unset <- MCUnset
    Gates <- MCGates
    MaxResults = 2
SYMMETRY Identities
CONSTRAINT TwoUpdatesByThemselves
INVARIANTS
    RecordsTypeOK
    SequentialIngestionsAgree
    DeletionIsFinal
    StepsRunAsApproved
    ApprovalIsBacked
    SourcesStayInStep
    CatalogIsWalked
    ReportsAreCounted
    EvaluationsAreHonest
PROPERTIES
    ZeroDowntime
    FamiliesHold
