SPECIFICATION Spec
CONSTANTS
  Process = {"daemon", "interface"}
  Value = {"v", "w"}
  Left = "v"
  Setting = {"language"}
  Env <- InEnvironment
  Worlds <- EveryWorld
  MaxSaves = 3
INVARIANTS
  LastSavedIsRead
  FilePairsWhole
CHECK_DEADLOCK FALSE
