SPECIFICATION Spec
CONSTANTS
    u1 = u1
    u2 = u2
    Uids = {u1, u2}
    File <- TwoRecords
    RowOrder <- InOrder
    ChunkSize = 2
    Limit = 0
    MaxDiscoveryRetries = 1
    Found = {"DISCOVERED", "DISCOVERING", "DISCOVERY_FAILED", "halt"}
    MaxOutages = 1
    CanHitCeiling = TRUE
    InsertMayFail = TRUE
    FlushEvery = 1
    DispatchChunk = 2
    EmptyThreshold = 1
    CanStop = TRUE
    CanCrash = TRUE
    CanHalt = TRUE
    MaxStarts = 2
CHECK_DEADLOCK FALSE
INVARIANTS NoLineSkipped FinishedMeansDiscovered AcknowledgedSurvives StagesEndInOrder ReportComplete MasterMissesOnlyOvertaken
PROPERTIES RunEnds
