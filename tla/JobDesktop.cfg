\* PowerPoint may die, withstand a taskkill, or keep its keys to itself; it exits when told to.
SPECIFICATION Spec
CONSTANTS
  PublishTries = 3
  OpenTries = 3
  KeepFailedFiles = TRUE
  Faults = {"dies", "kill_fails", "locked_keys"}
INVARIANTS
  LetsGoOfFile
  PickerKnowsFolder
  RestartLoadsAddin
CHECK_DEADLOCK FALSE
