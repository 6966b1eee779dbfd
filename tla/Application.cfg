CONSTANTS
  GameIds <- TwoGames
  Roots <- TwoRoots
  Languages <- English
  Alphabetical <- Names
  NoGame = NoGame
  NoFile = NoFile
  NoDialog = NoDialog
  Truncated = Truncated
  Worlds <- FewWorlds
  Claims <- LaterClaims
  Files <- FirstFiles
  CommandLines <- Args
  CustomNames = {"custom"}
  GeneralMessages = {"general"}
  PluginMessages = {"plugin"}
  MaxChanges = 1
  MaxEdits = 1
  MaxStarts = 2
SPECIFICATION Spec
CHECK_DEADLOCK FALSE
INVARIANTS
  TypeOK
  FoldersUnique
  CopiesAgree
  DetectionIsStable
PROPERTIES
  ConfiguredGamesKept
