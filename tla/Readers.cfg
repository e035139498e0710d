SPECIFICATION MCSpec

CONSTANTS
  JobId = {1, 2, 3}
  QueueName = {q, p}
  Caller = {c}
  Null = Null
  LockDuration = 0
  BatchLimit = 1
  Int64Bound = 16
  FloatExact = 8
  Int4Max = 3
  DefaultDelay = 0
  Delays = {0}
  Priorities = {0}
  AttemptLimits = {1, 2}
  Backoffs <- MCPlain
  ClockSkew = 0
  RowWait = 0
  Daemon = TRUE
  MaxTime = 2
  Any = Any
  PageSize = 2
  Filters <- MCFilters
  NoText = NoText
  Reader = {r1, r2}
  Connections = 1

INVARIANT PagesDescend
INVARIANT SteadyJobsListed
PROPERTY ViewsGoForward
PROPERTY StateExplainsFailure
INVARIANT ListingCountsEveryJob
INVARIANT IndexListsWithinTotal
PROPERTY ReadsFinish

\* The clock and the number of jobs are bounded.
CHECK_DEADLOCK FALSE
