SPECIFICATION Spec
CONSTANTS
  Retries = 1
  LastCount = 7
  LastSeq = 2
  BufferSize = 8
  Exchanges = 3
  Segments = 1
  Window = 1
  Echo = FALSE
  AnswersRepeats = TRUE
  Timely = FALSE
  Losses = {}
  MaxLosses = 0
  SendResults = {"written"}
INVARIANTS
  OwnAnswer
