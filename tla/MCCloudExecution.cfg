SPECIFICATION MCSpec
CONSTANTS
  lint = lint
  pack = pack
  worker = worker
  Jobs <- TwoJobs
  Needs <- NoNeeds
  Stoppers <- OneStopper
  CapacityRetryDelays <- ShortDelays
  NumSteps = 1
  MaxRunAttempts = 2
  MaxConcurrency = 1
  MaxCapacityRetries = 1
  CapacityRetryWindow = 3
  DispatchLease = 1
  AttemptLease = 1
  MaxAttemptAge = 3
  MaxStaleness = 0
  MaxClock = 2
  StopClaimLease = 1
  RuntimeConclusions = {"Succeeded"}
SYMMETRY Symmetry
INVARIANTS
  OneTaskPerJob
  ConcurrencyRespected
CHECK_DEADLOCK FALSE
