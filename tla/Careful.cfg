CONSTANTS
  Games = {g1, g2}
  Orders = {o1, o2}
  Slots = {s1}
  NoGame = NoGame
  Nothing = Nothing
  UserActs <- CarefulActs
  Patient = TRUE
  AutoSort = {"off", "loading"}
  UpdateBeforeSort = {TRUE, FALSE}
  Ambiguity = {TRUE, FALSE}
  MaxCount = 2
SPECIFICATION Spec
CHECK_DEADLOCK FALSE
INVARIANTS
  CountIsExact
  FeaturesDisabledWhilePending
  ProposalStaysDisplayed
  EditsGoToTheirGame
PROPERTIES
  GameFixedWhilePending
  SortedUntilReloaded
  ImplementsSortSession
  ProgressEnds
  AutoSortEnds
