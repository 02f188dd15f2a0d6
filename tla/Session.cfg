SPECIFICATION FairSpec
CONSTANTS
  Configurations <- MCConfigurations
  Retries = 1
  LastCount = 7
  LastAddress = 2
  ArgumentCounts = {1, 3, 4}
INVARIANTS
  TypeOK
  AccessOnlyAssociated
  StopAtFirstFailure
  NothingSkipped
PROPERTIES
  Ends
