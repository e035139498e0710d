SPECIFICATION DaemonSpec

CONSTANTS
  JobId = {1, 2}
  QueueName = {q}
  Caller = {c1}
  Null = Null
  LockDuration = 0
  BatchLimit = 1
  Int64Bound = 16
  FloatExact = 8
  Int4Max = 3
  DefaultDelay = 1
  Delays = {0, 1}
  Priorities = {0, 100}
  AttemptLimits = {2}
  Backoffs <- MCPlain
  ClockSkew = 0
  RowWait = 0
  Daemon = TRUE
  MaxTime = 2

PROPERTY DueJobsReleased
PROPERTY ExpiredLocksReclaimed
PROPERTY WaitingJobsAreTried

\* The clock and the number of jobs are bounded.
CHECK_DEADLOCK FALSE
