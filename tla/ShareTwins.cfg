\* Two jobs of the same number from two servers; the cloud lists decks late.
CONSTANTS
  first = first
  second = second
  older = older
  acme = acme
  acmeOld = acmeOld
  newAcme = newAcme
  week1 = week1
  week2 = week2
  week10 = week10
  Deck = {first, second, older}
  Published <- MCPublished
  Folder = {acme, acmeOld, newAcme}
  Title = {week1, week2, week10}
  Contained <- MCContained
  Rounds = 2
  Presses = 4
  NoDeck = NoDeck
  Scenes <- MCTwinScenes
SPECIFICATION Spec
INVARIANT
  RightLink
CHECK_DEADLOCK FALSE
