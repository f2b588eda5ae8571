\* Every fault.
SPECIFICATION FairSpec
CONSTANTS
  PublishTries = 3
  OpenTries = 3
  KeepFailedFiles = FALSE
  Faults = {"dies", "slow_quit", "probe_raises", "no_licence", "kill_fails", "locked_keys"}
INVARIANTS
  UploadsOnce
PROPERTIES
  KeepsJobContract
  KeepsOpenContract
  JobEnds
CHECK_DEADLOCK FALSE
