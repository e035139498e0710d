SPECIFICATION MCSpec

CONSTANTS
  JobId = {1, 2}
  QueueName = {q}
  Caller = {c1, c2}
  Null = Null
  LockDuration = 1
  BatchLimit = 2
  Int64Bound = 16
  FloatExact = 8
  Int4Max = 3
  DefaultDelay = 0
  AttemptLimits = {1, 2}
  Statements = {"claim", "complete", "fail", "heartbeat", "cancel", "promote", "promote_due", "fail_expired"}
  MaxTime = 2

SYMMETRY MCSymmetry

PROPERTY ImplementsLifecycle
PROPERTY RenewedLockSurvives
PROPERTY PauseLetsOnlyRacersThrough
INVARIANT LocksHold
INVARIANT WaitersHoldNothing

\* The clock and the number of jobs are bounded.
CHECK_DEADLOCK FALSE
