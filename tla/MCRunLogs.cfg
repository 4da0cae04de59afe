SPECIFICATION MCSpec
CONSTANTS
  a1 = a1
  a2 = a2
  a3 = a3
  q1 = q1
  q2 = q2
  Attempts = {a3}
  Requests = {q1, q2}
  ChunkBytes <- Chunks
  MaxLogBytes = 2
  PageSize = 1
  MaxRollbacks = 1
  MaxDisconnects = 0
  MaxLosses = 0
SYMMETRY Symmetry
INVARIANTS
  LogStoredAsSent
  LogIsDelivered
  StepLogIsItsOutput
CHECK_DEADLOCK FALSE
