CONSTANTS
  Edges = {1, 2, 3, 4}
  Oversized = {4}
  MaxInput = 5
  BufferEdges = 1
  CheckInterval = 2
  MaxTotalEdges = 4
  MaxBytes = 5
  NoLimit = NoLimit
  RowBytes = 2
  IOFaults = TRUE
SPECIFICATION Spec
INVARIANTS MembershipExact IndexReleased
PROPERTIES ImplementsReference
