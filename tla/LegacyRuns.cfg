\* Two runs of the same job.
CONSTANTS
  j = j
  m = m
  Job = {j}
  Material = {m}
  Runs <- MCRuns
  Asset = {"data/player.js", "data/slide2.js"}
  Packages <- MCPackages
  Settings <- MCSettings
  Faults = {"dies", "interrupt"}
SPECIFICATION FairSpec
CHECK_DEADLOCK FALSE
INVARIANTS
  LinkServes
  NothingLost
  OpensOwnDeck
PROPERTIES
  OldPackageSafe
  RunEnds
