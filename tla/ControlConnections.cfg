SPECIFICATION FairSpec
CONSTANTS
  Socket = {s1, s2}
  NoSocket = NoSocket
  Command = {c1}
  Callback = {b1, b2}
  Forbidden = {b2}
  MaxBackoff = 1
  MaxRestarts = 1
INVARIANTS
  RegisteredIsServed
  ClosedIsBeingReplaced
PROPERTIES
  EveryCallEnds
  Reconnects
