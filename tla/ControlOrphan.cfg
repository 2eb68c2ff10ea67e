SPECIFICATION Spec
CONSTANTS
  Socket = {s1, s2, s3}
  NoSocket = NoSocket
  Command = {c1}
  Callback = {b1}
  Forbidden = {}
  MaxBackoff = 2
  MaxRestarts = 0
SYMMETRY Interchangeable
INVARIANT
  LiveConnectionRegistered
