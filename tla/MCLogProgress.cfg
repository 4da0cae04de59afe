SPECIFICATION MCSpec
CONSTANTS
  a1 = a1
  q1 = q1
  q2 = q2
  NumSteps = 1
  Streams = {"stdout"}
  MaxWrites = 2
  SpoolRecords = 1
  UploadTries = 1
  MaxLogChunks = 2
INVARIANTS
  LossIsReported
PROPERTIES
  IsAQueue
  StepsAndLogsEnd
CHECK_DEADLOCK FALSE
