------------------------------ MODULE Backoff ------------------------------
(***************************************************************************)
(* The retry delay of JobService.computeBackoffMs (internal/service/       *)
(* job.go), at the width of the Go integers it is computed in, and the     *)
(* width of the parameter PGDriver.FailJob passes it through.              *)
(*                                                                         *)
(* Every operator returns the SET of values the code may produce: more     *)
(* than one where the code draws a random number or converts a float that  *)
(* is out of range, none where it panics.                                  *)
(***************************************************************************)
EXTENDS Integers

CONSTANTS Int64Bound,   \* 2^63: an int64 lies in -Int64Bound..Int64Bound-1
          FloatExact,   \* 2^53: a float64 holds every integer below it
          Int4Max,      \* 2^31-1: the largest PostgreSQL int4
          DefaultDelay  \* 1000: baseDelay when the metadata names no delay

ASSUME BackoffAssumption == /\ Int64Bound \in Nat \ {0}
                            /\ FloatExact \in 1 .. Int64Bound
                            /\ Int4Max \in Nat
                            /\ DefaultDelay \in 0 .. FloatExact - 1

Int64 == -Int64Bound .. Int64Bound - 1
Int4  == -(Int4Max + 1) .. Int4Max

\* The backoff options a row's metadata carries; Validate admits only the
\* two types and no negative delay.  The delay is written as a JSON number,
\* digit by digit.
BackoffOptions == [type : {"fixed", "exponential"}, delay : 0 .. Int64Bound - 1, jitter : BOOLEAN]

\* A job created without backoff options: empty metadata.  (The default delay
\* is no float, and small enough for a float to make no difference.)
NoBackoffOptions == [type |-> "fixed", delay |-> DefaultDelay, jitter |-> FALSE]

\* 2^n by repeated doubling, which unlike the operator ^ can be reasoned about.
TwoTo[n \in Nat] == IF n = 0 THEN 1 ELSE 2 * TwoTo[n - 1]

\* int64(x) of a float64: beyond the int64 range whatever the machine gives,
\* the smallest int64 on amd64, the largest on arm64.
ToInt64(x) == IF x < Int64Bound THEN {x} ELSE {-Int64Bound, Int64Bound - 1}

\* int64(math.Pow(2, n)).  Pow(2, -1) = 0.5 truncates to 0.
PowerOfTwo(n) == IF n < 0 THEN {0} ELSE ToInt64(TwoTo[n])

\* How far apart the float64s around d are: twice as far at every power of
\* two from FloatExact on.
Spacing(d) == TwoTo[CHOOSE k \in 0 .. d : /\ d < FloatExact * TwoTo[k]
                                          /\ k = 0 \/ FloatExact * TwoTo[k - 1] <= d]

\* The float64 nearest to d, and of two that are equally near the even one.
Rounded(d) ==
  LET gap  == Spacing(d)
      n    == d \div gap
      rest == d % gap
  IN  gap * (IF 2 * rest < gap \/ (2 * rest = gap /\ n % 2 = 0) THEN n ELSE n + 1)

\* The delay as the code has it: json.Unmarshal makes every number a float64.
ReadDelay(d) == ToInt64(Rounded(d))

\* The int64 product of two integers: Go wraps around.
Product64(a, b) == {y \in Int64 : (a * b - y) % (2 * Int64Bound) = 0}

\* Mutant of Jittered: the whole delay is drawn.
JitteredWhole(ms) == IF ms < 0 THEN {} ELSE {y \in Int64 : 0 <= y /\ y <= ms}

\* Mutant of Jittered: rand.Intn(ms/2).
JitteredBelow(ms) == LET half == ms \div 2
                     IN  IF half < 1 THEN {} ELSE {y \in Int64 : half <= y /\ y < 2 * half}

\* ms/2 + rand.Intn(ms/2+1).  Go's division truncates towards zero and
\* rand.Intn panics on an argument that is not positive.
Jittered(ms) == LET half == IF ms < 0 THEN 0 ELSE ms \div 2
                IN  IF ms < -1 THEN {} ELSE {y \in Int64 : half <= y /\ y <= 2 * half}

\* Mutant of BackoffMs: doubled for the first attempt already.
BackoffMsDoubled(opts, attempt) ==
  LET factors == IF opts.type = "exponential" THEN PowerOfTwo(attempt) ELSE {1}
      plain   == UNION {Product64(d, f) : d \in ReadDelay(opts.delay), f \in factors}
  IN  IF opts.jitter THEN UNION {Jittered(ms) : ms \in plain} ELSE plain

\* computeBackoffMs for a row with these options and this attempt number.
BackoffMs(opts, attempt) ==
  LET factors == IF opts.type = "exponential" THEN PowerOfTwo(attempt - 1) ELSE {1}
      plain   == UNION {Product64(d, f) : d \in ReadDelay(opts.delay), f \in factors}
  IN  IF opts.jitter THEN UNION {Jittered(ms) : ms \in plain} ELSE plain
=============================================================================
