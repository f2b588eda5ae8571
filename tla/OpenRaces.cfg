\* Every race.  open_with_repair has three attempts; with two a watchdog works on into the
\* attempt after its own, which may be the last.  The theorems are for any number.
SPECIFICATION FairSpec
CONSTANTS
  MaxOpens = 2
  Faults = {"late_expiry", "outlives_join", "dies", "kill_fails"}
INVARIANTS
  InUseIsUsable
PROPERTIES
  KeepsOpenContract
  OpenEnds
\* open_with_repair returns.
CHECK_DEADLOCK FALSE
