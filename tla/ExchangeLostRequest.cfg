SPECIFICATION FairSpec
CONSTANTS
  Retries = 1
  LastCount = 7
  LastSeq = 2
  BufferSize = 8
  Exchanges = 1
  Segments = 2
  Window = 1
  Echo = FALSE
  AnswersRepeats = TRUE
  Timely = TRUE
  Losses = {"request"}
  MaxLosses = 1
  SendResults = {"written"}
PROPERTIES
  AllAnswered
