SPECIFICATION Spec
CONSTANTS
  Container = {"api", "db", "old"}
  Meta <- AsCreated
  Busy = {"db"}
  Aspects = {"rates", "graph"}
  Peak = 2
  Collection = {"one", "two"}
  MaxDelay = 1
  MaxTime = 3
  MaxChanges = 1
INVARIANTS
  RateBounded
  GraphIgnoresOrder
CHECK_DEADLOCK FALSE
