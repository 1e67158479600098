CONSTANTS
  Edges = {1, 2, 3}
  MaxInput = 4
  BufferEdges = 1
  FanIn = 2
  MaxOpenFiles = 3
  CheckInterval = 2
  NoLimit = NoLimit
  MaxTotalEdges = NoLimit
  MaxSpillBytes = 18
  MaxTemporaryBytes = 15
  HeaderBytes = 2
  RecordBytes <- MCRecordBytes
  DiskFree = {1, 2}
  IOFaults = TRUE
  MaxDamage = 1
SPECIFICATION Spec
INVARIANTS CompleteIsExact TypeOK WithinByteLimits DiskWithinLimit OpenFilesBounded NothingLeftBehind
