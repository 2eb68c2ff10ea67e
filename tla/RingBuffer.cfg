SPECIFICATION RingSpec
CONSTANTS
  Item = {b1, b2, b3}
  NoItem = NoItem
  Requested = 0
  DefaultCapacity = 3
INVARIANTS
  HeldSlotsWritten
PROPERTY
  ImplementsFifo
