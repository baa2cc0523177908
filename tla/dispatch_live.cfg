SPECIFICATION FairSpec
CONSTANTS
    r1 = r1
    r2 = r2
    a1 = a1
    a2 = a2
    a3 = a3
    a4 = a4
    a5 = a5
    NoEmail = NoEmail
    Emails = {a1, a2, a3, a4, a5}
    Records = {r1, r2}
    Cand <- CandBest
    Microsoft = {}
    RkVerdicts = {"blocked", "tunnel_down", "greylisted"}
    BbVerdicts = {"invalid", "error"}
    Confs <- Free
    HarvestFinds <- Nothing
    SerperFinds <- Nothing
    MaxAttempts = 1
    MaxRequeues = 3
    MaxTunnel = 1
    MaxBbops = 1
    Ceiling = 9
    SerperCalls = 1
    Concurrency = 1
    ChunkSize = 1
    MaxStarts = 2
    CanStop = TRUE
    CanReset = FALSE
    Faults = FALSE
    PatientRestart = TRUE
PROPERTIES EveryRecordFinishes RunEnds
CHECK_DEADLOCK FALSE
