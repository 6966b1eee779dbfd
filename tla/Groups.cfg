CONSTANTS
  a = a
  b = b
  c = c
  d = d
  u = u
  p = p
  Base = {a, b, c}
  UserNames = {}
  Recovered <- AddSuffix
  Plugins = {p}
  NoGroup = NoGroup
  Masterlists <- ThreeGroups
  Elsewhere = FALSE
  Saves = {TRUE}
  MaxGroups = 1
  MaxEdges = 2
SPECIFICATION Spec
INVARIANT
  ReferencesExist
PROPERTIES
  LoadAftersKept
  NoCycleIntroduced
  RecoveryReported
