SPECIFICATION MCSpec
CONSTANTS
  u1 = u1
  r1 = r1
  r2 = r2
  d1 = d1
  m1 = m1
  Actors = {u1}
  Reconcilers = {r1, r2}
  Nobody = Nobody
  Providers = {"native", "github"}
  MaxRevisions = 2
  MaxIntents = 2
  LeaseTime = 1
  RetryDelay = 1
  Readers = {d1}
  Merges = {m1}
  Freshness = 1
  MaxTime = 2
  MaxReads = 2
  MaxMain = 1
SYMMETRY Symmetry
INVARIANTS
  IntentsAreSound
  AutoMergeWasAuthorized
  MergedOnGoodChecks
PROPERTIES
  ClaimsAreRespected
  ReadsAreOrdered
CHECK_DEADLOCK FALSE
