SPECIFICATION FairSpec
CONSTANTS
  Byte <- MCByte
  Chunks <- MCChunks
  MaxReceived = 4
INVARIANTS
  TypeOK
  FifoDelivery
  NoLostWakeup
PROPERTIES
  ImplementsMailbox
  StopReturns
