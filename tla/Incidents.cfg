SPECIFICATION Spec
CONSTANTS
  a = a
  b = b
  c = c
  Container = {a, b, c}
  NoContainer = NoContainer
  Id <- Identifier
  Link <- RowLink
  Edge <- RowEdge
  Incident = {i1, i2}
  NoIncident = NoIncident
  Window = 1
  EdgeLimit = 3
  Near = 0
  Automatic = TRUE
  MaxTime = 3
  MaxInputs = 3
  Limited = {a}
  Unreadable = {c}
SYMMETRY Interchangeable
INVARIANTS
  TypeOK
  MembersAgree
  OriginsAreMembers
  RuleOriginIsOldest
  BudgetKept
PROPERTIES
  DiagnosisKept
  LinkedPairsTaken
  ImplementsGroups
