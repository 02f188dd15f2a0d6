SPECIFICATION FairSpec
CONSTANTS
  Retries = 2
  LastCount = 7
  LastSeq = 2
  BufferSize = 6
  Exchanges = 3
  Segments = 3
  Window = 2
  Echo = FALSE
  AnswersRepeats = TRUE
  Timely = TRUE
  Losses = {"answer"}
  MaxLosses = 1
  SendResults = {"written"}
INVARIANTS
  RightAnswer
  InStep
PROPERTIES
  AllAnswered
