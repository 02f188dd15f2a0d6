SPECIFICATION Spec
CONSTANTS
  Retries = 2
  LastCount = 7
  AppBufferSize = 3
  Lengths = {2}
  Faults = {"noblock"}
  Encodes = {TRUE}
INVARIANTS
  SuccessMeansRead
