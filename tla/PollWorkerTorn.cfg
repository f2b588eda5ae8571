\* worker/health.py:12-13, with a crash inside save().
SPECIFICATION Spec
CONSTANTS
  shared = shared
  p1 = p1
  p2 = p2
  Shared = shared
  PrivateUrls <- NoPrivate
  JobId = {1}
  NoBase = NoBase
  NoJob = NoJob
  Unreadable = Unreadable
  Limit = 2
  IgnoreHealth = FALSE
  Requeues = 3
  LateBound = 0
  GetAttempts = 2
  PostAttempts = 1
  MaxPerRound = 1
  Faults = {"crash", "torn_save"}
INVARIANTS
  LossBounded
