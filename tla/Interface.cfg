SPECIFICATION Spec
CONSTANTS
  Model = {"big", "small", "paid", "free"}
  ProviderOf <- ProviderOfModel
  Free = {"free", "small"}
  LocalRuntime = {"ollama"}
  Row <- ProviderRows
  Catalogue <- Listed
  Fetched <- Syncs
  Discoveries <- Scans
  Queries <- Texts
  Themes = 2
  MaxChanges = 1
  Action = {"restart", "stop"}
  Container = {"a", "b", "c"}
  Fleets <- FleetLists
  Filters <- FilterTexts
  Incidents <- Known
  Results <- Suggestions
  Pinnable = {"b"}
  MaxUnderWay = 1
  Diagnosed = {"a"}
  Session = {"fleet", "settings"}
INVARIANTS
  CursorsInLists
  BrowserCursorInList
PROPERTY
  ConfirmedAsShown
CHECK_DEADLOCK FALSE
