SPECIFICATION Spec

CONSTANTS
  JobId = {1}
  QueueName = {q}
  Caller = {c1}
  Null = Null
  LockDuration = 1
  BatchLimit = 1
  Int64Bound = 16
  FloatExact = 8
  Int4Max = 3
  DefaultDelay = 1
  Delays = {0, 1}
  Priorities = {0}
  AttemptLimits = {4}
  Backoffs <- MCExponential
  ClockSkew = 0
  RowWait = 1
  Daemon = TRUE
  MaxTime = 4

INVARIANT FailureIsTaken

\* The clock and the number of jobs are bounded.
CHECK_DEADLOCK FALSE
