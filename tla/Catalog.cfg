SPECIFICATION Spec
CONSTANTS
  Process = {one, two}
  Seeds <- Rescue
  FreeRouter <- Entry
  Remote <- OpenRouterLists
  Local <- OllamaLists
  Asked = {"openrouter/free"}
  Latency = {1, 9}
  Window = 2
  Enough = 2
  MaxInferences = 3
  MaxStarts = 3
SYMMETRY Interchangeable
INVARIANTS
  AssessmentsCurrent
  FreeSlotIsFree
CHECK_DEADLOCK FALSE
