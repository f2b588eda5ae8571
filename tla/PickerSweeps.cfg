\* A small picker with a branch longer than a screen, clicks that miss and folders that
\* load late; the deck is published twice.
CONSTANTS
  old = old
  new = new
  Branch = {old, new}
  Order <- MCOrder
  Length <- MCLength
  Placements <- MCPlacements
  Holder = old
  Exact = {old}
  Near <- MCNear
  NoBranch = NoBranch
  Screen = 3
  StepRows = 2
  SweepSteps = 3
  SweepPasses = 2
  Rounds = 2
  Jobs = 2
  FaultSets <- MCFaultSets
SPECIFICATION FairSpec
CHECK_DEADLOCK FALSE
INVARIANTS
  PublishesUnderHolder
  ExpandedIsOpen
  SweepSees
  NoSecondDeck
PROPERTIES
  KeepsDialogContract
  DialogEnds
