SPECIFICATION MCSpec

CONSTANTS
  JobId = {1}
  QueueName = {q}
  Caller = {w1, anonymous}
  Null = Null
  LockDuration = 0
  BatchLimit = 1
  Int64Bound = 16
  FloatExact = 8
  Int4Max = 3
  DefaultDelay = 0
  Delays = {0}
  Priorities = {0}
  AttemptLimits = {1}
  Backoffs <- MCPlain
  ClockSkew = 0
  RowWait = 0
  Daemon = TRUE
  MaxTime = 1
  Anonymous = anonymous
  KeyId = {k}
  User = {u}
  Name = {n}
  Request = {r1, r2}
  Methods = {"create", "claim", "complete", "heartbeat", "fail", "cancel"}
  Browser = {b1, b2}
  Account = {a1, a2}
  Domain = {home, other}
  Allowed = {home}
  Nothing = Nothing
  MaxStates = 2
  MaxCodes = 3

SYMMETRY MCSymmetry

PROPERTY DeletedKeysStop
INVARIANT ClaimersAreSeen
INVARIANT SessionShowsItsAccount
INVARIANT CallbackReturnsToItsBrowser
INVARIANT StoredAddressesAreAllowed

\* The clock, the ids, the states and the codes are bounded.
CHECK_DEADLOCK FALSE
