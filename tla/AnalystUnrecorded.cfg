SPECIFICATION CalmSpec
CONSTANTS
    Retrieved <- CalmRetrieved
    EvidenceTopK = 2
    MaxPerDocument = 1
    MaxRows = 1
    MaxEvidence = 3
INVARIANT AnswersAreRecorded
CHECK_DEADLOCK FALSE
