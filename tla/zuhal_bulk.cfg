SPECIFICATION Spec
CONSTANTS
    r1 = r1
    r2 = r2
    r3 = r3
    a1 = a1
    a2 = a2
    a3 = a3
    j1 = j1
    j2 = j2
    NoEmail = NoEmail
    Emails = {a1, a2, a3}
    Records = {r1, r2}
    MailOf <- OwnMail
    CachedBefore <- NothingCached
    Answers = {"valid", "invalid"}
    Uploads = {"ok", "credits", "halt"}
    JobEnds = {"complete", "failed"}
    BulkVerdicts = {"valid", "unknown"}
    Jobs = {j1, j2}
    BulkThreshold = 1
    BatchSize = 1
    ChunkSize = 2
    Width = 1
    MinWidth = 1
    MaxWidth = 2
    ScaleUpAfter = 2
    CircuitCap = 2
    Ceiling = 2
    MaxStarts = 2
    CanStop = FALSE
    CanCrash = TRUE
    PatientRestart = FALSE
INVARIANTS WorkersOwnClaims CreditsLostAreWrittenOff
PROPERTIES KeepsLifecycle
CHECK_DEADLOCK FALSE
