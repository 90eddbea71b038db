CONSTANTS
  MaxHeight = 5
  MaxPerFile = 2
  MaxFaults = 1
  LiveHeightThreshold = 2
  ReorgHeightThreshold = 1
  MigrationChunkSize = 1
  RecursionLimit = 2
  MaxRestarts = 1
SPECIFICATION FairSpec
CHECK_DEADLOCK FALSE
INVARIANTS
  FilesAdjoin
  StorageAgrees
  BulkLiveAdjoin
  HeadersServed
PROPERTIES
  StartupEnds
