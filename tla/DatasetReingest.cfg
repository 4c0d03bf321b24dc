SPECIFICATION DatasetSpec
CHECK_DEADLOCK FALSE
CONSTANTS
    Ingestions = {i1, i2}
    Schemas = {{"a"}, {"b"}}
    MaxIngestCrashes = 0
INVARIANT
    FailureIsMarked
