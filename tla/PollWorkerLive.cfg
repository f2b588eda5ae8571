\* Liveness, fairness between queues and the breaker: two private servers, requests that
\* may fail, crashes between any two steps but not inside a save.
SPECIFICATION FairSpec
CONSTANTS
  shared = shared
  p1 = p1
  p2 = p2
  Shared = shared
  PrivateUrls <- TwoPrivate
  JobId = {1}
  NoBase = NoBase
  NoJob = NoJob
  Unreadable = Unreadable
  Limit = 2
  IgnoreHealth = FALSE
  Requeues = 1
  LateBound = 0
  GetAttempts = 2
  PostAttempts = 2
  MaxPerRound = 1
  Faults = {"network", "crash"}
INVARIANTS
  LossBounded
  SharedWaitsOneRound
  StopTakesOneMore
PROPERTIES
  GoesDownOnlyAtLimit
  
  JobEnds
  StopEnds
  SharedKeepsBeingAsked
