CONSTANTS
  first = first
  second = second
  Masterlist <- Referring
  Words = {"default", "(Group does not exist)", "M", "x", "y"}
  NewNames <- Typed
  Plugins <- AllPlugins
  Installed <- AllPlugins
  NonUserGroups <- ByMasterlist
  NonUserRows <- OneRow
  RowValues = {"row"}
  Blank = "blank"
  Userlists <- FirstUserlists
  NoGroup = NoGroup
  NoWindow = NoWindow
  Saves = {TRUE, FALSE}
  MaxEdits = 3
CHECK_DEADLOCK FALSE
SPECIFICATION Spec
INVARIANTS
  TypeOK
  RemovalRule
  UnsavedChangesNoticed
PROPERTIES
  SavedGraphIsReopened
  SavePaneKeeps
