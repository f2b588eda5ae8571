\* A seeded map: with a picker that shows what is there, with other names and a picker that
\* may not, and with writes that are torn.
SPECIFICATION Spec
CONSTANTS
  old = old
  new = new
  other = other
  lawSikho = lawSikho
  lawsikho = lawsikho
  acme = acme
  Parent = {old, new, other}
  ParentFolders <- MCParentFolders
  NewParent = new
  Title = {lawSikho, lawsikho, acme}
  Institution = {lawSikho, acme}
  squash <- MCSquash
  NoEntry = NoEntry
  Unreadable = Unreadable
  PublishTries = 3
  FaultSets = {{}, {"alias", "picker_misses"}, {"torn_write", "picker_misses"}}
INVARIANTS
  MapForgetsNobody
  EnsuredIsFound
PROPERTIES
  OneHome
  NoNearPairInParent
