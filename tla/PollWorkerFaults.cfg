\* Every fault: a shared and a private server that both number a row 1.
SPECIFICATION Spec
CONSTANTS
  shared = shared
  p1 = p1
  p2 = p2
  Shared = shared
  PrivateUrls <- OnePrivate
  JobId = {1}
  NoBase = NoBase
  NoJob = NoJob
  Unreadable = Unreadable
  Limit = 2
  IgnoreHealth = FALSE
  Requeues = 1
  LateBound = 1
  GetAttempts = 2
  PostAttempts = 2
  MaxPerRound = 2
  Faults = {"network", "crash", "torn_save"}
INVARIANTS
  ResultsAreTrue
  WorksOnlyWhenHealthy
PROPERTIES
  OnlyOperatorClears

