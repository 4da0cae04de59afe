SPECIFICATION FairSpec
CONSTANTS
  first = first
  second = second
  Invocations <- TwoInvocations
  MaxTasks = 2
  MaxStarts = 2
  MaxFaults = 1
  LambdaHardTimeout = 1
  LockSeconds = 2
  ConsistencySeconds = 3
  StopCheckSeconds = 1
  ListDelay = 1
INVARIANTS
  Serialized
  OneLaunch
  StoppedMeansGone
PROPERTIES
  ImplementsTaskProvider
  CleanupCompletes
