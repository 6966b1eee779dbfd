CONSTANTS
  game1 = game1
  game2 = game2
  first = first
  second = second
  absent = absent
  Late = Late
  Games = {game1, game2}
  Boxes = {"bashTags", "locations", "notes", "messagelessPlugins", "loadAfterMetadata",
           "withoutLoadOrderMetadata"}
  Stored <- LastSession
  Installs <- TwoInstalls
  InitMessages = {}
  Official <- NoOfficial
  Texts <- TypedTexts
  MatchedBy <- Matching
  Empty = ""
  AnyText = {"Delev|^$"}
  Invalid = {"("}
  Failed = Failed
  None = None
  Default = Default
  FullLimit = 1
  MwseLimit = 3
  OpenMwLimit = 9
  MediumLimit = 1
  LightLimit = 2
  MaxEvents = 2
SPECIFICATION Spec
INVARIANT NothingStaleShown
PROPERTY WarningsFilterRestores
