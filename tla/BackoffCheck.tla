----------------------------- MODULE BackoffCheck -----------------------------
(***************************************************************************)
(* The delays of one job's consecutive failures, as computeBackoffMs       *)
(* (internal/service/job.go) gives them, against what the options promise: *)
(* the delay, doubled by every attempt when it is exponential, and at      *)
(* least half of it when it jitters.                                       *)
(***************************************************************************)
EXTENDS Backoff

CONSTANTS Delays,      \* bound: the delays of the options
          MaxAttempts  \* bound: the failures of one job

ASSUME CheckAssumption == /\ Delays \subseteq 0 .. Int64Bound - 1
                          /\ MaxAttempts \in Nat

VARIABLES opts,      \* the options in the row's metadata
          attempt,   \* the attempt that fails next
          previous,  \* the delay after the attempt before it; -1: none yet
          delay      \* the delay after the attempt that failed last; -1: none yet

checkVars == <<opts, attempt, previous, delay>>

CheckInit ==
  /\ opts \in [type : {"fixed", "exponential"}, delay : Delays, jitter : BOOLEAN]
  /\ attempt = 1
  /\ previous = -1
  /\ delay = -1

\* computeBackoffMs for the attempt that fails.
FailAttempt ==
  /\ attempt <= MaxAttempts
  /\ delay' \in BackoffMs(opts, attempt)
  /\ previous' = delay
  /\ attempt' = attempt + 1
  /\ UNCHANGED opts

CheckSpec == CheckInit /\ [][FailAttempt]_checkVars
-----------------------------------------------------------------------------
\* The reference: the delay is doubled once for each attempt but the first.
Doubled(d, times) == LET f[n \in Nat] == IF n = 0 THEN d ELSE 2 * f[n - 1] IN f[times]

Promised(n) == IF opts.type = "exponential" THEN Doubled(opts.delay, n - 1) ELSE opts.delay

\* The delay fits an int64, also when a float made it a little longer.
InRange(n) == (FloatExact + 1) * Promised(n) < FloatExact * Int64Bound

\* FloatExact times what the float may add to a promised delay or take away:
\* nothing of a delay below FloatExact, else one part in FloatExact.
Slack(n) == IF opts.delay < FloatExact THEN 0 ELSE Promised(n)

\* The delay after an attempt is the promised one, to the millisecond unless
\* the options' delay is beyond what a float64 holds exactly, and no jitter
\* makes it longer, nor shorter than its half by more than the division's
\* rounding (computeBackoffMs).
DelayIsPromised ==
  attempt > 1 /\ InRange(attempt - 1) =>
    LET full == Promised(attempt - 1)
        least == IF opts.jitter THEN full - 1 ELSE full
        drawn == IF opts.jitter THEN 2 * delay ELSE delay
    IN  /\ FloatExact * (delay - full) <= Slack(attempt - 1)
        /\ FloatExact * (least - drawn) <= Slack(attempt - 1)

\* Neither jitter nor the float turns the order of the delays round: a job
\* waits after every failure at least as long as after the one before it, for
\* all the random draws, as long as the delays are in range (computeBackoffMs).
DelaysNeverShrink ==
  attempt > 2 /\ InRange(attempt - 1) /\ opts.type = "exponential" => previous <= delay

\* No attempt makes the draw panic while the delays are in range: a failure
\* gets a delay, also of options whose delay is 0 or 1 (rand.Intn's argument),
\* or that a float rounds up.
EveryFailureGetsDelay ==
  attempt <= MaxAttempts /\ InRange(attempt) => BackoffMs(opts, attempt) # {}
=============================================================================
