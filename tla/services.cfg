\* One service at a time: three callers of the search and of Zuhal, three
\* recipients in two domains on two workers, a supervisor that may buy two
\* servers, two result files.
SPECIFICATION Spec
CONSTANTS
  Callers = {"c1", "c2", "c3"}
  Capacity = 1
  InitialTokens = 1
  Key <- MCKey
  Hinted = {"c1"}
  Named = {"c2", "c3"}
  Long = {"c1"}
  UseCache = TRUE
  MaxAttempts = 2
  Answers = {"emails", "nothing", "retryable", "credits"}
  Verifiers = {"v1", "v2", "v3"}
  ConcurrentCalls = 2
  FailMax = 2
  Attempts = 2
  Statuses = {"ok", "402", "429", "5xx", "timeout"}
  Names = {"w1", "box", "r1", "r2"}
  InitialPool = {"w1", "box"}
  Recipients = {"a", "b", "c"}
  Domain <- MCDomain
  Concurrency = 1
  DomainConcurrency = 1
  MaxGates = 1
  MaxReroutes = 1
  Cooldown = 1
  MaxFailures = 1
  MinSamples = 1
  Spawned <- MCSpawned
  Managed = {"w1", "r1", "r2"}
  Reserve = {"r2"}
  MaxReprovisions = 1
  ScaleMin = 2
  ScaleMax = 3
  Files <- MCFiles
  Results <- MCResults
  FromZuhal = {"zuhaled"}
  MaxFaults = 1
INVARIANTS ChargesBounded RateHeld RateLimitNeverBurns DomainCapHeld PoolBounded PoolHasServers HandedOffOnce
PROPERTIES EnrichEnds
CHECK_DEADLOCK FALSE
