SPECIFICATION FairSpec
CONSTANTS
  BufferCapacity = 3
  Window = 1
  SendTimeout = 1
  Skew = 0
  Keys = {k1, k2}
  AgentKey = k1
  DefaultKey = k1
  NoKey = NoKey
  Provisioned = {NoKey}
  HostMayBeEmpty = FALSE
  MaxTime = 4
  MaxRestarts = 0
PROPERTY
  DeliveredOnceBack
