SPECIFICATION FairSpec
CONSTANTS
  BufferCapacity = 3
  Window = 3
  SendTimeout = 1
  Skew = 1
  Keys = {k1, k2}
  AgentKey = k1
  DefaultKey = k1
  NoKey = NoKey
  Provisioned = {NoKey, k2}
  HostMayBeEmpty = TRUE
  MaxTime = 4
  MaxRestarts = 1
INVARIANTS
  TypeOK
  AcknowledgedIsStored
  UndeliveredIsHeld
PROPERTIES
  FirstStoredInOrder
  OldestKept
  RecoveryWithinWindow
