SPECIFICATION SqliteSpec

CONSTANTS
  JobId = {1}
  QueueName = {q}
  Caller = {c}
  Null = Null
  BatchLimit = 1
  Int64Bound = 16
  FloatExact = 8
  Int4Max = 3
  DefaultDelay = 1
  Delays = {0, 1, 3}
  Priorities = {0}
  AttemptLimits = {1, 2}
  Backoffs <- MCBackoffs
  Daemon = TRUE
  TicksPerSecond = 2
  LockTicks = 2
  LockDuration = 1
  CalendarEnd = 3
  ClaimParses = TRUE
  MaxTime = 6

PROPERTY ImplementsLifecycle
PROPERTY LockLastsItsDuration
PROPERTY LessThanASecondEarly

\* The clock and the number of jobs are bounded.
CHECK_DEADLOCK FALSE
