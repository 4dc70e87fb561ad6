SPECIFICATION Spec
CONSTANTS
  Options <- AppOptions
  Defaults <- AppDefaults
  Dashed <- MCDashed
  IntegerOf <- MCIntegerOf
  Fractions <- MCFractions
  Lower <- MCLower
  MaxUnsigned = 65535
  Lines <- MCLines
  KnownGenerators = {"same", "normal"}
  BadLogs = {""}
  JunkCode = 1
  Kinds = {"LRU", "Concurrent", "Deferred", "HashFixed"}
  LogBucketCount = 1
  Capacities = {0, 3, 4, 8, 9, 17}
  LoadFactor = 1
  ElementSize = 2
  Keys = {1, 2, 3, 4, 5, 6}
  GetBucketNr <- MCGetBucketNr
  Garbage = Garbage
  Generators = {"trace", "disjoint", "same"}
  ThreadCount = 2
  TraceLength = 5
  SlotSize = 2
  KeyWidth = 4
  PrintFreq = 20
  Records <- MCRecords
  Width = 20
  TraceInfos <- MCInfos
  CapacityFactors <- MCFactors
  Pulls <- MCPulls
  Purges <- MCPurges
  Iterations = 2
  FilesAtFirst <- MCFilesAtFirst
  FilesLater <- MCFilesLater
INVARIANTS
  LinesAreObeyed
  AllocationIsSound
  KeysAreDealt
  TotalsAreSums
  LateCalls
  KeptTracesAreComplete
  RowsAreRight
PROPERTIES
  Ends
CHECK_DEADLOCK FALSE
