SPECIFICATION FairSpec
CONSTANTS
    r1 = r1
    r2 = r2
    r3 = r3
    a1 = a1
    a2 = a2
    a3 = a3
    j1 = j1
    j2 = j2
    NoEmail = NoEmail
    Emails = {a1, a2, a3}
    Records = {r1, r2, r3}
    MailOf <- OwnMail
    CachedBefore <- NothingCached
    Answers = {"valid", "circuit"}
    Uploads = {"ok", "refused"}
    JobEnds = {"complete", "failed"}
    BulkVerdicts = {"unknown"}
    Jobs = {j1}
    BulkThreshold = 2
    BatchSize = 2
    ChunkSize = 2
    Width = 1
    MinWidth = 1
    MaxWidth = 2
    ScaleUpAfter = 2
    CircuitCap = 3
    Ceiling = 1
    MaxStarts = 1
    CanStop = FALSE
    CanCrash = FALSE
    PatientRestart = TRUE
PROPERTIES EveryHandoffSettles RunEnds
CHECK_DEADLOCK FALSE
