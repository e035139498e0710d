SPECIFICATION Spec

CONSTANTS
  JobId = {1}
  QueueName = {q}
  Caller = {c1, c2}
  Null = Null
  LockDuration = 1
  BatchLimit = 1
  Int64Bound = 16
  FloatExact = 8
  Int4Max = 3
  DefaultDelay = 1
  Delays = {0, 1}
  Priorities = {0}
  AttemptLimits = {1, 2}
  Backoffs <- MCBackoffs
  ClockSkew = 1
  RowWait = 1
  Daemon = TRUE
  MaxTime = 3

SYMMETRY MCSymmetry

INVARIANT TypeOK
INVARIANT AttemptsWithinLimit
INVARIANT ErrorPerFailedAttempt
INVARIANT FinalizedExactlyWhenFinal
INVARIANT RunningIsRecoverable
INVARIANT NeverEarly
INVARIANT QueuesKnown
PROPERTY FinalIsForever
PROPERTY ImplementsLifecycle

\* The clock and the number of jobs are bounded.
CHECK_DEADLOCK FALSE
