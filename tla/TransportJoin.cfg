SPECIFICATION Spec
CONSTANTS
  Byte <- MCByte
  Chunks <- MCChunks
  MaxReceived = 1
INVARIANTS
  ReaderJoined
