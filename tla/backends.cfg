\* Two records with one address, each raced at most twice in at most two batches
\* around one kill, or one tunnel.
SPECIFICATION Spec
CONSTANTS
  Records = {"r", "s"}
  Email <- MCEmail
  Races <- MCRaces
  MaxBatches = 2
  batch_size = 2
  max_inflight = 1
  FailThreshold = 1
  OkThreshold = 1
  BbopsStatus = {"valid"}
  Probed = {"r", "s"}
  DomainOf <- MCDomainOf
  Exchangers <- MCExchangers
  SmtpConcurrency = 1
  Threshold = 1
  MaxCrashes = 1
  ReadyRetries = 2
  MaxBackoff = 2
INVARIANTS ValidCounts NobodyForgotten DoneRowsAnswered StopIsFinal
CHECK_DEADLOCK FALSE
