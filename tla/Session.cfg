CONSTANTS
  Threads = {t1, t2, t3}
  Compilers = {k1, k2}
  Stateful = {k1, k2}
  Asserted = {}
  Composite = {k2}
  Counts = {0, 3}
  Batch = 2
  Chunk = 2
  Nothing = Nothing
SPECIFICATION FairSpec
INVARIANTS ExactlyOnce FailureAtomic ClaimOwned DirectRetryable
PROPERTIES RolesGrow CancelFinal CallsReturn
