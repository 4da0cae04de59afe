SPECIFICATION MCSpec
CONSTANTS
  build = build
  worker = worker
  other = other
  Jobs <- OneJob
  Needs <- NoNeeds
  NumSteps = 1
  MaxRunAttempts = 1
  MaxCapacityRetries = 1
  CapacityRetryWindow = 3
  CapacityRetryDelays <- ShortDelays
  DispatchLease = 1
  AttemptLease = 1
  MaxAttemptAge = 3
  MaxStaleness = 0
  MaxClock = 4
  MaxConcurrency = 1
  StopClaimLease = 2
  Stoppers <- TwoStoppers
  RuntimeConclusions = {"Succeeded", "SetupFailed", "TimedOut", "Canceled"}
INVARIANTS
  StopCompletedMeansGone
PROPERTIES
  StopsComplete
CHECK_DEADLOCK FALSE
