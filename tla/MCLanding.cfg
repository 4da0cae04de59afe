SPECIFICATION MCSpec
CONSTANTS
  a1 = a1
  a2 = a2
  u1 = u1
  r1 = r1
  r2 = r2
  p1 = p1
  w1 = w1
  w2 = w2
  Processes = {a1, a2}
  Nobody = Nobody
  NumMerges = 2
  MaxBatch = 2
  BatchesPerTurn = 2
  Attempts = 2
  MaxPushes = 1
  Pushes = {p1}
  Workers = {w1, w2}
  LeaseTime = 1
  RetryDelay = 1
  MaxAttempts = 2
INVARIANTS
  MergesAreQueued
  MergesLandOnce
  PushesAreFollowed
  WithdrawnMeansStopped
PROPERTIES
  LandingEnds
CHECK_DEADLOCK FALSE
