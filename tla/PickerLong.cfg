\* The branches and the sweep as the comments and the defaults have them.
CONSTANTS
  old = old
  new = new
  Branch = {old, new}
  Order <- MCOrder
  Length <- MCLongLength
  Placements <- MCLongPlacements
  Holder = old
  Exact = {old}
  Near <- MCNear
  NoBranch = NoBranch
  Screen = 20
  StepRows = 15
  SweepSteps = 20
  SweepPasses = 4
  Rounds = 2
  Jobs = 1
  FaultSets <- MCNoFaults
SPECIFICATION Spec
CHECK_DEADLOCK FALSE
INVARIANT
  SweepSees
