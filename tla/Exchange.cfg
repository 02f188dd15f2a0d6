SPECIFICATION FairSpec
CONSTANTS
  Retries = 1
  LastCount = 7
  LastSeq = 2
  BufferSize = 4
  Exchanges = 2
  Segments = 2
  Window = 1
  Echo = FALSE
  AnswersRepeats = TRUE
  Timely = TRUE
  Losses = {"request"}
  MaxLosses = 1
  SendResults = {"written", "error", "nothing"}
INVARIANTS
  TypeOK
  RightAnswer
  ConnectNeverResyncs
PROPERTIES
  ExchangeReturns
