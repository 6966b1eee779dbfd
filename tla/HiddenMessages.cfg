CONSTANTS
  GameIds <- TwoGames
  Roots <- TwoRoots
  Languages <- English
  Alphabetical <- Names
  NoGame = NoGame
  NoFile = NoFile
  NoDialog = NoDialog
  Truncated = Truncated
  Worlds <- FewWorlds
  Claims <- LaterClaims
  Files <- FirstFiles
  CommandLines <- Args
  CustomNames = {"custom"}
  GeneralMessages = {"general"}
  PluginMessages = {"plugin"}
  MaxChanges = 0
  MaxEdits = 1
  MaxStarts = 1
SPECIFICATION Spec
CHECK_DEADLOCK FALSE
PROPERTIES
  HiddenUntilUnhidden
