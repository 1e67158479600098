CONSTANTS
  Edges = {1, 2, 3}
  MaxInput = 6
  BufferEdges = 1
  FanIn = 2
  MaxOpenFiles = 3
  CheckInterval = 2
  NoLimit = NoLimit
  MaxTotalEdges = 5
  MaxSpillBytes = NoLimit
  MaxTemporaryBytes = NoLimit
  HeaderBytes = 1
  RecordBytes <- MCRecordBytes
  DiskFree = {100}
  IOFaults = FALSE
  MaxDamage = 0
SPECIFICATION FairSpec
INVARIANTS MinimalPasses
PROPERTIES ImplementsReference Terminates
