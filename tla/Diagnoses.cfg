SPECIFICATION Spec
CONSTANTS
  Container = {"a"}
  Kind = {"running", "oom"}
  Keep = 2
  Threshold = 2
  Window = 2
  MaxTime = 3
  Unreadable = {}
  Route = {"openrouter", "anthropic"}
  StatusOf <- Status
  MaxCalls = 2
INVARIANTS
  CountsTrue
  MeterExact
  AnswersParsed
  RulesApt
  RequestsApt
PROPERTIES
  JournalIsFifo
  DeepOncePerCrash
  PendingEnds
CHECK_DEADLOCK FALSE
