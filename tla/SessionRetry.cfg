CONSTANTS
  Threads = {t1}
  Compilers = {k1}
  Stateful = {}
  Asserted = {}
  Composite = {k1}
  Counts = {1}
  Batch = 1
  Chunk = 1
  Nothing = Nothing
SPECIFICATION Spec
INVARIANTS Retryable
