CONSTANTS
  Games = {g1, g2}
  Orders = {o1, o2}
  Slots = {s1, s2}
  NoGame = NoGame
  Nothing = Nothing
  UserActs <- SwitchActs
  Patient = FALSE
  AutoSort = {"off"}
  UpdateBeforeSort = {FALSE}
  Ambiguity = {FALSE}
  MaxCount = 2
SPECIFICATION Spec
CHECK_DEADLOCK FALSE
SYMMETRY Symmetry
INVARIANTS
  TypeOK
  PendingChangesCounted
  CountCovers
  ProgressMeansWork
