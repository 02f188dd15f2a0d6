SPECIFICATION FairClientSpec
CONSTANTS
  Configurations <- MCConfigurations
  Retries = 1
  LastCount = 3
  LastAddress = 1
  ArgumentCounts = {2, 3, 5}
  Files <- MCFiles
  Span <- MCSpan
  Expected <- MCExpected
  ModemReplies <- MCReplies
  WriteResults = {"written", "error", "nothing"}
  Keys = {"k1", "k2"}
  ActionTries = 2
  MeterLevels = {"LOWEST", "LOW", "HIGH", "MD5", "SHA1", "GMAC"}
  AareFaults = {"nollc", "undecodable", "notrequired"}
  ActionFaults = {"unwritten", "unencoded", "nollc", "undecodable", "nodata", "unsupported", "noblock"}
  ByteValues = 4
  Sizes = {0, 1, 2}
  NumberTypes = {"INTEGER8", "INTEGER16"}
  Numbers <- MCNumbers
  MaxTags = 3
INVARIANTS
  ConfigurationTypeOK ConfiguredAsWritten
  ModemTypeOK AnswerWasSent TwoChunksSuffice
  AssociationTypeOK BothAssociated SameSecret SuitedAssociates
  PrinterTypeOK ClosesMatch OpensMatch SizesTrue CompleteMeansClosed TextTellsTags
  ReadOnlyWhenAssociated ReadOnlyWhenDialled
PROPERTIES
  ImplementsSession
