\* Two jobs after one another, in three libraries.
CONSTANTS
  first = first
  second = second
  older = older
  acme = acme
  acmeOld = acmeOld
  newAcme = newAcme
  week1 = week1
  week2 = week2
  week10 = week10
  Deck = {first, second, older}
  Published <- MCPublished
  Folder = {acme, acmeOld, newAcme}
  Title = {week1, week2, week10}
  Contained <- MCContained
  Rounds = 2
  Presses = 4
  NoDeck = NoDeck
  Scenes <- MCScenes
SPECIFICATION FairSpec
CHECK_DEADLOCK FALSE
INVARIANTS
  RightLink
  ViewableLink
PROPERTIES
  OnlyOwnSharing
  BrowsingEnds
