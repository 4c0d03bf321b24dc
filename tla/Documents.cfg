SPECIFICATION Spec
CHECK_DEADLOCK FALSE
CONSTANTS
    t1 = t1
    t2 = t2
    Uploads = {u1, u2, u3}
    MaxUploadDeaths = 1
    MaxUploadFaults = 1
    Tasks <- MCTasks
    Contents = {A, B}
    NoContent = NoContent
    Parts = {b1, b2}
    Documents <- MCDocuments
    TARGET_CHUNK_TOKENS = 6
    MAX_CHUNK_TOKENS = 9
    MAX_CHUNK_CHARACTERS = 48
    MAX_PARENT_TOKENS = 12
    SMALL_CHUNK_THRESHOLD_TOKENS = 3
    MAX_TABLE_ROWS_PER_SLICE = 2
    Tolerance = 1
    Pairs <- MCPairs
    Depths = {1, 3}
    Limits = {2, 4}
    Start = 1
    Target = 3
    Retrieved <- MCRetrieved
    EvidenceTopK = 3
    MaxPerDocument = 1
    MaxRows = 3
    MaxEvidence = 4
    SqlNumbers = {0, 100}
    DocumentNumbers <- MCDocumentNumbers
    PathCounts = {0, 2}
    MaxItems = 4
    Citable <- MCCitable
    EmbedCallers <- MCTasks
    EmbedTexts = {"x", "y", "long"}
    Unfit = {"long"}
    Inputs <- MCInputs
    BatchSize = 2
    MaxRequests = 2
    MaxRetries = 1
    NoVector = NoVector
    Malformed = Malformed
    Callers <- MCCallers
    Users = {"u1", "u2"}
    UserOf <- MCUserOf
    UserLimit = 1
    OrgLimit = 1
    Window = 2
    MaxClock = 6
    MaxRateFaults = 1
SYMMETRY Identities
CONSTRAINT WholeBatchesOverlap
INVARIANTS
    DocumentsTypeOK
    ObjectsFollowRows
    StoresAreTrue
    ChunksAreSound
    SearchesAreExact
    AnswersAreGrounded
    DecisionsAreBacked
    VectorsAreTheirOwn
    RatesAreKept
