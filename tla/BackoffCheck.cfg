SPECIFICATION CheckSpec

CONSTANTS
  Int64Bound = 256
  FloatExact = 16
  Int4Max = 127
  DefaultDelay = 10
  Delays = {0, 1, 2, 3, 10, 17, 31, 50, 127, 255}
  MaxAttempts = 6

INVARIANT DelayIsPromised
INVARIANT DelaysNeverShrink
INVARIANT EveryFailureGetsDelay

\* The attempts are bounded, and a wrapped delay stops the draw.
CHECK_DEADLOCK FALSE
