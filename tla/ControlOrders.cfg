SPECIFICATION Spec
CONSTANTS
  Socket = {s1, s2}
  NoSocket = NoSocket
  Command = {c1, c2}
  Callback = {b1}
  Forbidden = {}
  MaxBackoff = 1
  MaxRestarts = 1
SYMMETRY Interchangeable
INVARIANTS
  TypeOK
  ExecutedIsRecorded
PROPERTY
  ImplementsPromise
