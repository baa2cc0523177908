SPECIFICATION Spec
CONSTANTS
    r1 = r1
    r2 = r2
    a1 = a1
    a2 = a2
    a3 = a3
    a4 = a4
    a5 = a5
    NoEmail = NoEmail
    Emails = {a1, a2, a3, a4, a5}
    Records = {r1}
    Cand <- CandBadBest
    Microsoft = {r1}
    RkVerdicts = {"valid", "invalid", "catch_all", "error", "tunnel_down", "greylisted", "blocked", "not_run"}
    BbVerdicts = {"valid", "invalid", "catch_all", "error", "not_run"}
    Confs <- Free
    HarvestFinds <- MaybeScraped
    SerperFinds <- MaybeSnippet
    MaxAttempts = 2
    MaxRequeues = 3
    MaxTunnel = 1
    MaxBbops = 1
    Ceiling = 2
    SerperCalls = 2
    Concurrency = 1
    ChunkSize = 1
    MaxStarts = 2
    CanStop = TRUE
    CanReset = TRUE
    Faults = TRUE
    PatientRestart = FALSE
INVARIANTS BudgetsHold IInv
PROPERTIES KeepsLifecycle
CHECK_DEADLOCK FALSE
