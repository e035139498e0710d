SPECIFICATION PoolSpec

CONSTANTS
  JobId = {1}
  QueueName = {q}
  Caller = {w1, w2, c}
  Null = Null
  LockDuration = 1
  BatchLimit = 1
  Int64Bound = 16
  FloatExact = 8
  Int4Max = 3
  DefaultDelay = 0
  Delays = {0}
  Priorities = {0}
  AttemptLimits = {3}
  Backoffs <- MCPlain
  ClockSkew = 0
  RowWait = 1
  Daemon = TRUE
  MaxTime = 4
  Client = {c}
  LateCalls = TRUE
  Retries = FALSE

SYMMETRY MCSymmetry

INVARIANT HolderKeepsJob

\* The clock and the number of jobs are bounded.
CHECK_DEADLOCK FALSE
