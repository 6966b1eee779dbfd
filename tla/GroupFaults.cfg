CONSTANTS
  a = a
  b = b
  c = c
  d = d
  u = u
  p = p
  Base = {a, b}
  UserNames = {}
  Recovered <- AddSuffix
  Plugins = {}
  NoGroup = NoGroup
  Masterlists <- TwoGroups
  Elsewhere = TRUE
  Saves = {TRUE, FALSE}
  MaxGroups = 1
  MaxEdges = 1
SPECIFICATION Spec
INVARIANTS
  TypeOK
  DanglingOnlyMissed
PROPERTY NoCycleIntroduced
