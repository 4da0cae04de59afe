SPECIFICATION Spec
CONSTANTS
  build = build
  test = test
  Jobs <- ChainJobs
  Needs <- ChainNeeds
  NumSteps = 2
  MaxRunAttempts = 2
  MaxCapacityRetries = 1
  CapacityRetryWindow = 2
  CapacityRetryDelays <- ShortDelays
  DispatchLease = 1
  AttemptLease = 2
  MaxAttemptAge = 2
  MaxStaleness = 1
  MaxClock = 3
CONSTRAINT FewAttempts
INVARIANTS
  NeedsSucceeded
  SuccessIsEarned
  JobsSettled
  RunReflectsJobs
  AttemptJobAgreement
PROPERTIES
  FinishedAttemptsFrozen
  CancellationHolds
CHECK_DEADLOCK FALSE
