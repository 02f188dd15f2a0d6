SPECIFICATION FairSpec
CONSTANTS
  Retries = 2
  LastCount = 7
  AppBufferSize = 3
  Lengths = {1, 2, 3, 4}
  Faults = {"refused", "noblock", "unsupported", "undecodable", "nollc"}
  Encodes = {TRUE, FALSE}
INVARIANTS
  TypeOK
  DumpedIsWhole
  Resumable
PROPERTIES
  ImplementsDownload
  AccessReturns
