SPECIFICATION Spec
CONSTANTS
    r1 = r1
    r2 = r2
    a1 = a1
    a2 = a2
    a3 = a3
    a4 = a4
    a5 = a5
    NoEmail = NoEmail
    Emails = {a1, a2, a3, a4, a5}
    Records = {r1, r2}
    Cand <- CandBest
    Microsoft = {}
    RkVerdicts = {"invalid", "greylisted"}
    BbVerdicts = {"valid", "invalid"}
    Confs <- Paid
    HarvestFinds <- MaybeScraped
    SerperFinds <- MaybeSnippet
    MaxAttempts = 1
    MaxRequeues = 1
    MaxTunnel = 1
    MaxBbops = 1
    Ceiling = 1
    SerperCalls = 1
    Concurrency = 2
    ChunkSize = 2
    MaxStarts = 2
    CanStop = TRUE
    CanReset = FALSE
    Faults = FALSE
    PatientRestart = TRUE
INVARIANTS TypeOK TasksOwnClaims SpendBounded AnsweredIsCharged ValidNeverLost
PROPERTIES ExitsDrained GiveUpOnlyAfterSerper
CHECK_DEADLOCK FALSE
