CONSTANTS
  a = a
  b = b
  c = c
  d = d
  u = u
  p = p
  Base = {a, b, c, d}
  UserNames = {}
  Recovered <- AddSuffix
  Plugins = {p}
  NoGroup = NoGroup
  Masterlists <- Chain
  Elsewhere = FALSE
  Saves = {TRUE}
  MaxGroups = 1
  MaxEdges = 1
SPECIFICATION Spec
PROPERTY ReferencingGroupsRecovered
