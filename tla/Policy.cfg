CONSTANTS
  Edges = {1, 2, 3}
  MaxInput = 5
  BatchEdges = 2
SPECIFICATION Spec
CHECK_DEADLOCK FALSE
INVARIANTS Cleared PassesThrough
PROPERTIES ImplementsReference
