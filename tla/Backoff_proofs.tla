--------------------------- MODULE Backoff_proofs ---------------------------
(***************************************************************************)
(* Proofs about the delays of retries, for every width of the integers,    *)
(* all options and every number of attempts.                               *)
(*                                                                         *)
(* The power the code multiplies by and the doubling it is compared with   *)
(* are functions defined by recursion.  That such functions exist and what *)
(* they return are inductions over the attempts, which rest on the natural *)
(* numbers being well-founded.                                             *)
(***************************************************************************)
EXTENDS BackoffCheck, WellFoundedInduction, TLAPS

(* Induction: a set that holds 0 and is closed under + 1 holds Nat. *)

Less == {p \in Nat \X Nat : p[1] < p[2]}

LEMMA LessIsWellFounded == IsWellFoundedOn(Less, Nat)
  BY NatLessThanWellFounded DEF Less, OpToRel

LEMMA Induction ==
  ASSUME NEW S, 0 \in S, \A n \in Nat : n \in S => n + 1 \in S
  PROVE  Nat \subseteq S
<1> DEFINE T == Nat \ S
<1> SUFFICES ASSUME T # {}
             PROVE  FALSE
  OBVIOUS
<1>1. \E x \in T : \A y \in T : <<y, x>> \notin Less
  <2> HIDE DEF T
  <2>1. T \subseteq Nat
    BY DEF T
  <2> QED
    BY <2>1, LessIsWellFounded, WFMin
<1>2. PICK x \in T : \A y \in T : <<y, x>> \notin Less
  BY <1>1
<1>3. x - 1 \in T
  OBVIOUS
<1>4. <<x - 1, x>> \in Less
  <2>1. x - 1 \in Nat /\ x \in Nat /\ x - 1 < x
    BY <1>3
  <2> QED
    BY <2>1 DEF Less
<1> QED
  BY <1>2, <1>3, <1>4
-----------------------------------------------------------------------------
(* Doubling n times, started from any integer, is a function on Nat. *)

\* The doublings of c up to the n-th.
UpTo(c, n) == {g \in [0..n -> Int] : g[0] = c /\ \A i \in 1..n : g[i] = 2 * g[i - 1]}

LEMMA UpToExists ==
  ASSUME NEW c \in Int
  PROVE  \A n \in Nat : UpTo(c, n) # {}
<1> DEFINE S == {n \in Nat : UpTo(c, n) # {}}
<1>1. 0 \in S
  <2>1. [i \in 0..0 |-> c] \in UpTo(c, 0)
    BY DEF UpTo
  <2> QED
    BY <2>1
<1>2. ASSUME NEW n \in Nat, n \in S
      PROVE  n + 1 \in S
  <2>1. PICK g \in UpTo(c, n) : TRUE
    BY <1>2
  <2> DEFINE h == [i \in 0..(n + 1) |-> IF i = n + 1 THEN 2 * g[n] ELSE g[i]]
  <2>2. /\ g \in [0..n -> Int] /\ g[0] = c
        /\ \A i \in 1..n : g[i] = 2 * g[i - 1]
    BY <2>1 DEF UpTo
  <2>3. h \in [0..(n + 1) -> Int] /\ h[0] = c
    BY <2>2
  <2>4. ASSUME NEW i \in 1..(n + 1)
        PROVE  h[i] = 2 * h[i - 1]
    BY <2>2
  <2>5. h \in UpTo(c, n + 1)
    BY <2>3, <2>4 DEF UpTo
  <2> QED
    BY <2>5
<1>3. Nat \subseteq S
  <2> HIDE DEF S
  <2> QED
    BY <1>1, <1>2, Induction
<1> QED
  BY <1>3

LEMMA UpToAgree ==
  ASSUME NEW c, NEW m \in Nat, NEW n \in Nat, m <= n, NEW g \in UpTo(c, m), NEW h \in UpTo(c, n)
  PROVE  \A i \in 0..m : g[i] = h[i]
<1> DEFINE S == {i \in Nat : i <= m => g[i] = h[i]}
<1>1. 0 \in S
  BY DEF UpTo
<1>2. ASSUME NEW i \in Nat, i \in S
      PROVE  i + 1 \in S
  <2>1. ASSUME i + 1 <= m
        PROVE  g[i + 1] = h[i + 1]
    <3>1. g[i] = h[i]
      BY <1>2, <2>1
    <3>2. i + 1 \in 1..m /\ i + 1 \in 1..n /\ (i + 1) - 1 = i
      BY <2>1
    <3>3. g[i + 1] = 2 * g[i] /\ h[i + 1] = 2 * h[i]
      BY <3>2 DEF UpTo
    <3> QED
      BY <3>1, <3>3
  <2> QED
    BY <2>1
<1>3. Nat \subseteq S
  <2> HIDE DEF S
  <2> QED
    BY <1>1, <1>2, Induction
<1> QED
  BY <1>3

LEMMA DoublingExists ==
  ASSUME NEW c \in Int
  PROVE  \E g : g = [n \in Nat |-> IF n = 0 THEN c ELSE 2 * g[n - 1]]
<1> DEFINE F == [n \in Nat |-> CHOOSE g : g \in UpTo(c, n)]
           G == [n \in Nat |-> F[n][n]]
<1>1. \A n \in Nat : F[n] \in UpTo(c, n)
  BY UpToExists
<1> HIDE DEF F
<1>2. G[0] = c
  BY <1>1 DEF UpTo
<1>3. ASSUME NEW n \in Nat, n # 0
      PROVE  G[n] = 2 * G[n - 1]
  <2>1. F[n][n] = 2 * F[n][n - 1]
    BY <1>1, <1>3 DEF UpTo
  <2>2. F[n - 1][n - 1] = F[n][n - 1]
    <3>1. n - 1 \in Nat /\ n - 1 <= n /\ n - 1 \in 0..(n - 1)
      BY <1>3
    <3> QED
      BY <1>1, <3>1, UpToAgree
  <2> QED
    BY <1>3, <2>1, <2>2
<1>4. G = [n \in Nat |-> IF n = 0 THEN c ELSE 2 * G[n - 1]]
  <2>1. \A n \in Nat : G[n] = IF n = 0 THEN c ELSE 2 * G[n - 1]
    BY <1>2, <1>3
  <2>2. G = [n \in Nat |-> G[n]]
    OBVIOUS
  <2> HIDE DEF G
  <2> QED
    BY <2>1, <2>2
<1> HIDE DEF G
<1> QED
  BY <1>4

LEMMA TwoToDoubles ==
  /\ TwoTo[0] = 1
  /\ \A n \in Nat : TwoTo[n] \in Nat /\ TwoTo[n + 1] = 2 * TwoTo[n]
<1>1. TwoTo = [n \in Nat |-> IF n = 0 THEN 1 ELSE 2 * TwoTo[n - 1]]
  <2>1. \E g : g = [n \in Nat |-> IF n = 0 THEN 1 ELSE 2 * g[n - 1]]
    BY DoublingExists
  <2> QED
    BY <2>1, Zenon DEF TwoTo
<1>2. TwoTo[0] = 1
  BY <1>1
<1>3. \A n \in Nat : TwoTo[n + 1] = 2 * TwoTo[n]
  BY <1>1
<1> DEFINE S == {n \in Nat : TwoTo[n] \in Nat}
<1>4. 0 \in S
  BY <1>2
<1>5. \A n \in Nat : n \in S => n + 1 \in S
  BY <1>3
<1>6. Nat \subseteq S
  <2> HIDE DEF S
  <2> QED
    BY <1>4, <1>5, Induction
<1> QED
  BY <1>2, <1>3, <1>6

LEMMA DoubledDoubles ==
  ASSUME NEW d \in Int
  PROVE  /\ Doubled(d, 0) = d
         /\ \A n \in Nat : Doubled(d, n + 1) = 2 * Doubled(d, n)
<1> DEFINE f == CHOOSE g : g = [n \in Nat |-> IF n = 0 THEN d ELSE 2 * g[n - 1]]
<1>1. f = [n \in Nat |-> IF n = 0 THEN d ELSE 2 * f[n - 1]]
  <2>1. \E g : g = [n \in Nat |-> IF n = 0 THEN d ELSE 2 * g[n - 1]]
    BY DoublingExists
  <2> QED
    BY <2>1, Zenon
<1>2. \A n : Doubled(d, n) = f[n]
  BY DEF Doubled
<1> HIDE DEF f
<1>3. f[0] = d /\ \A n \in Nat : f[n + 1] = 2 * f[n]
  BY <1>1
<1> QED
  BY <1>2, <1>3

\* Doubling the delay n times is multiplying it by 2^n.
LEMMA DoubledIsProduct ==
  ASSUME NEW d \in Nat
  PROVE  \A n \in Nat : Doubled(d, n) \in Nat /\ Doubled(d, n) = d * TwoTo[n]
<1> DEFINE S == {n \in Nat : Doubled(d, n) \in Nat /\ Doubled(d, n) = d * TwoTo[n]}
<1>1. 0 \in S
  BY DoubledDoubles, TwoToDoubles
<1>2. ASSUME NEW n \in Nat, n \in S
      PROVE  n + 1 \in S
  <2>1. Doubled(d, n + 1) = 2 * (d * TwoTo[n])
    BY <1>2, DoubledDoubles
  <2>2. d * TwoTo[n + 1] = d * (2 * TwoTo[n])
    BY TwoToDoubles
  <2>3. d * (2 * TwoTo[n]) = 2 * (d * TwoTo[n])
    BY TwoToDoubles
  <2> QED
    BY <1>2, <2>1, <2>2, <2>3, DoubledDoubles
<1>3. Nat \subseteq S
  <2> HIDE DEF S
  <2> QED
    BY <1>1, <1>2, Induction
<1> QED
  BY <1>3
LEMMA TwoToOutgrows == \A n \in Nat : TwoTo[n] > n
<1> DEFINE S == {n \in Nat : TwoTo[n] > n}
<1>1. 0 \in S
  BY TwoToDoubles
<1>2. \A n \in Nat : n \in S => n + 1 \in S
  BY TwoToDoubles
<1>3. Nat \subseteq S
  <2> HIDE DEF S
  <2> QED
    BY <1>1, <1>2, Induction
<1> QED
  BY <1>3

\* The first natural number of a set.
LEMMA LeastOf ==
  ASSUME NEW T, T \subseteq Nat, T # {}
  PROVE  \E n \in T : n = 0 \/ n - 1 \notin T
<1>1. PICK n \in T : \A m \in T : <<m, n>> \notin Less
  BY LessIsWellFounded, WFMin
<1>2. ASSUME n - 1 \in T, n # 0
      PROVE  FALSE
  <2>1. n - 1 \in Nat /\ n \in Nat /\ n - 1 < n
    BY <1>2
  <2>2. <<n - 1, n>> \in Less
    BY <2>1 DEF Less
  <2> QED
    BY <1>1, <1>2, <2>2
<1> QED
  BY <1>2

-----------------------------------------------------------------------------
(* The delay as a float64. *)

\* The floats around a delay are one apart, or less than a FloatExact-th of
\* the delay to both sides of it.
LEMMA SpacingSays ==
  ASSUME NEW d \in Nat
  PROVE  /\ Spacing(d) \in Nat \ {0}
         /\ d < FloatExact => Spacing(d) = 1
         /\ Spacing(d) = 1 \/ FloatExact * Spacing(d) <= 2 * d
<1> DEFINE T     == {k \in Nat : d < FloatExact * TwoTo[k]}
           P(k)  == d < FloatExact * TwoTo[k] /\ (k = 0 \/ FloatExact * TwoTo[k - 1] <= d)
           power == CHOOSE k \in 0 .. d : P(k)
<1>1. FloatExact \in Nat /\ FloatExact >= 1
  BY BackoffAssumption
<1>2. \A k \in Nat : /\ TwoTo[k] \in Nat /\ TwoTo[k] > k
                     /\ FloatExact * TwoTo[k] \in Nat /\ FloatExact * TwoTo[k] >= TwoTo[k]
  <2>1. \A a, b \in Nat : a >= 1 => a * b \in Nat /\ a * b >= b
    OBVIOUS
  <2> QED
    BY <1>1, <2>1, TwoToDoubles, TwoToOutgrows
<1>3. PICK k \in T : k = 0 \/ k - 1 \notin T
  <2>1. d \in T
    BY <1>2
  <2>2. T \subseteq Nat /\ T # {}
    BY <2>1
  <2> HIDE DEF T
  <2> QED
    BY <2>2, LeastOf
<1>4. k \in 0 .. d /\ P(k)
  <2>1. CASE k = 0
    BY <1>3, <2>1
  <2>2. CASE k # 0
    <3>1. k - 1 \in Nat /\ FloatExact * TwoTo[k - 1] <= d
      BY <1>2, <1>3, <2>2
    <3>2. k - 1 < d
      BY <1>2, <3>1
    <3> QED
      BY <1>3, <3>1, <3>2
  <2> QED
    BY <2>1, <2>2
<1>5. power \in 0 .. d /\ P(power)
  <2> HIDE DEF P
  <2> QED
    BY <1>4
<1>6. Spacing(d) = TwoTo[power]
  BY DEF Spacing
<1> HIDE DEF power
<1>7. CASE power = 0
  BY <1>6, <1>7, TwoToDoubles
<1>8. CASE power # 0
  <2>1. power - 1 \in Nat /\ FloatExact * TwoTo[power - 1] <= d
    BY <1>5, <1>8
  <2>2. TwoTo[power] = 2 * TwoTo[power - 1] /\ TwoTo[power] \in Nat /\ TwoTo[power] > 0
    <3>1. (power - 1) + 1 = power /\ power \in Nat
      BY <1>5
    <3>2. TwoTo[(power - 1) + 1] = 2 * TwoTo[power - 1]
      BY <2>1, TwoToDoubles
    <3> QED
      BY <1>2, <3>1, <3>2
  <2>3. TwoTo[power - 1] \in Nat /\ TwoTo[power - 1] >= 1
    BY <1>2, <2>1
  <2>4. FloatExact * TwoTo[power - 1] >= FloatExact
    <3>1. \A a, b \in Nat : b >= 1 => a * b >= a
      OBVIOUS
    <3> QED
      BY <1>1, <2>3, <3>1
  <2>5. FloatExact * (2 * TwoTo[power - 1]) = 2 * (FloatExact * TwoTo[power - 1])
    BY <1>1, <2>3
  <2> QED
    BY <1>1, <1>2, <1>6, <2>1, <2>2, <2>4, <2>5
<1> QED
  BY <1>7, <1>8

\* Reading a delay changes it by at most one part in FloatExact, and not at
\* all below FloatExact (json.Unmarshal in computeBackoffMs).
LEMMA RoundedIsNear ==
  ASSUME NEW d \in Nat
  PROVE  /\ Rounded(d) \in Nat
         /\ d < FloatExact => Rounded(d) = d
         /\ FloatExact * (Rounded(d) - d) <= d
         /\ FloatExact * (d - Rounded(d)) <= d
<1> DEFINE gap  == Spacing(d)
           n    == d \div gap
           rest == d % gap
           r    == gap * (IF 2 * rest < gap \/ (2 * rest = gap /\ n % 2 = 0) THEN n ELSE n + 1)
<1>1. /\ gap \in Nat \ {0} /\ (d < FloatExact => gap = 1)
      /\ gap = 1 \/ FloatExact * gap <= 2 * d
  BY SpacingSays
<1>2. Rounded(d) = r
  BY DEF Rounded
<1> HIDE DEF gap
<1>3. n \in Nat /\ rest \in Nat /\ rest < gap /\ d = gap * n + rest
  BY <1>1
<1> HIDE DEF n, rest
<1>4. gap * n \in Nat /\ gap * (n + 1) = gap * n + gap
  BY <1>1, <1>3
<1>5. r \in Nat /\ 2 * (r - d) <= gap /\ 2 * (d - r) <= gap
  BY <1>1, <1>3, <1>4
<1>6. gap = 1 => r = d
  BY <1>3, <1>4, <1>5
<1> HIDE DEF r
<1>7. FloatExact \in Nat /\ FloatExact >= 1
  BY BackoffAssumption
<1>8. CASE gap = 1
  BY <1>2, <1>6, <1>7, <1>8
<1>9. CASE FloatExact * gap <= 2 * d
  <2>1. \A x, y \in Int : 2 * x <= y => 2 * (FloatExact * x) <= FloatExact * y
    <3>1. \A f \in Nat, x, y \in Int : x <= y => f * x <= f * y
      OBVIOUS
    <3>2. \A x \in Int : FloatExact * (2 * x) = 2 * (FloatExact * x)
      BY <1>7
    <3> QED
      BY <1>7, <3>1, <3>2
  <2>2. \A x \in Int : FloatExact * x \in Int
    BY <1>7
  <2> QED
    BY <1>1, <1>2, <1>5, <1>6, <1>9, <2>1, <2>2
<1> QED
  BY <1>1, <1>8, <1>9
-----------------------------------------------------------------------------
(* The arithmetic of the code. *)

\* Two numbers less than m apart are the same modulo m only if they are equal.
LEMMA SmallMultiple ==
  ASSUME NEW m \in Nat \ {0}, NEW z \in Int, -m < z, z < m
  PROVE  z % m = 0 <=> z = 0
<1>1. CASE z = 0
  BY <1>1
<1>2. CASE z > 0
  <2>1. z % m = z
    BY <1>2
  <2> QED
    BY <1>2, <2>1
<1>3. CASE z < 0
  <2>1. (z + m) % m = z + m
    BY <1>3
  <2>2. z % m = z + m
    BY <1>3, <2>1
  <2> QED
    BY <1>3, <2>2
<1> QED
  BY <1>1, <1>2, <1>3

\* A product that fits is not wrapped.
LEMMA ProductFits ==
  ASSUME NEW a \in Int, NEW b \in Int, a * b \in Int64
  PROVE  Product64(a, b) = {a * b}
<1> DEFINE p == a * b
<1>1. p \in Int
  OBVIOUS
<1>2. p \in Int64
  OBVIOUS
<1> HIDE DEF p
<1>3. ASSUME NEW y \in Int64
      PROVE  (p - y) % (2 * Int64Bound) = 0 <=> y = p
  <2> DEFINE m == 2 * Int64Bound
             z == p - y
  <2>1. m \in Nat \ {0} /\ z \in Int /\ -m < z /\ z < m
    BY <1>1, <1>2, <1>3, BackoffAssumption DEF Int64
  <2>2. z % m = 0 <=> z = 0
    <3> HIDE DEF m, z
    <3> QED
      BY <2>1, SmallMultiple
  <2> QED
    BY <1>1, <1>3, <2>2 DEF Int64
<1>4. Product64(a, b) = {y \in Int64 : (p - y) % (2 * Int64Bound) = 0}
  BY DEF Product64, p
<1> QED
  BY <1>2, <1>3, <1>4 DEF p

\* What the draw returns lies between the half of a delay and the delay.
LEMMA JitteredHalves ==
  ASSUME NEW ms \in Int64, ms >= 0
  PROVE  /\ Jittered(ms) # {}
         /\ \A y \in Jittered(ms) : y \in Int /\ ms - 1 <= 2 * y /\ y <= ms
<1> DEFINE half == ms \div 2
<1>1. half \in Nat /\ 2 * half <= ms /\ ms <= 2 * half + 1
  BY BackoffAssumption DEF Int64
<1> HIDE DEF half
<1>2. Jittered(ms) = {y \in Int64 : half <= y /\ y <= 2 * half}
  BY BackoffAssumption DEF Jittered, Int64, half
<1>3. half \in Jittered(ms)
  BY <1>1, <1>2, BackoffAssumption DEF Int64
<1>4. ASSUME NEW y \in Jittered(ms)
      PROVE  y \in Int /\ ms - 1 <= 2 * y /\ y <= ms
  <2>1. y \in Int /\ half <= y /\ y <= 2 * half /\ ms \in Int
    BY <1>2, BackoffAssumption DEF Int64
  <2> QED
    BY <1>1, <2>1
<1> QED
  BY <1>3, <1>4

\* What the code multiplies the delay by, and what it has before the draw.
Factors(n) == IF opts.type = "exponential" THEN PowerOfTwo(n - 1) ELSE {1}
Plain(n)   == UNION {Product64(d, f) : d \in ReadDelay(opts.delay), f \in Factors(n)}

\* What would be promised of the delay as it is read.
Held(n) == IF opts.type = "exponential" THEN Doubled(Rounded(opts.delay), n - 1)
                                        ELSE Rounded(opts.delay)

\* Doubling a delay doubles what reading it has changed.
LEMMA HeldIsNear ==
  ASSUME opts \in BackoffOptions, NEW n \in Nat \ {0}
  PROVE  /\ Held(n) \in Nat /\ Promised(n) \in Nat
         /\ Rounded(opts.delay) <= Held(n)
         /\ opts.delay < FloatExact => Held(n) = Promised(n)
         /\ FloatExact * (Held(n) - Promised(n)) <= Slack(n)
         /\ FloatExact * (Promised(n) - Held(n)) <= Slack(n)
         /\ Slack(n) \in 0 .. Promised(n)
<1> DEFINE d == opts.delay
           r == Rounded(d)
<1>1. d \in Nat /\ FloatExact \in Nat
  BY BackoffAssumption DEF BackoffOptions
<1>2. r \in Nat /\ (d < FloatExact => r = d) /\ FloatExact * (r - d) <= d /\ FloatExact * (d - r) <= d
  BY <1>1, RoundedIsNear
<1>3. PICK p \in Nat : p >= 1 /\ Held(n) = r * p /\ Promised(n) = d * p
  <2>1. CASE opts.type = "exponential"
    <3>1. n - 1 \in Nat
      OBVIOUS
    <3>2. TwoTo[n - 1] \in Nat /\ TwoTo[n - 1] >= 1
      BY <3>1, TwoToDoubles, TwoToOutgrows
    <3>3. Doubled(r, n - 1) = r * TwoTo[n - 1] /\ Doubled(d, n - 1) = d * TwoTo[n - 1]
      BY <1>1, <1>2, <3>1, DoubledIsProduct
    <3> QED
      BY <2>1, <3>2, <3>3 DEF Held, Promised
  <2>2. CASE opts.type # "exponential"
    <3>1. Held(n) = r /\ Promised(n) = d
      BY <2>2 DEF Held, Promised
    <3>2. r * 1 = r /\ d * 1 = d
      BY <1>1, <1>2
    <3> QED
      BY <3>1, <3>2
  <2> QED
    BY <2>1, <2>2
<1> HIDE DEF r
<1>4. \A a, b \in Int : a <= b => a * p <= b * p
  OBVIOUS
<1>5. r * p \in Nat /\ d * p \in Nat /\ r <= r * p
  <2>1. \A a \in Nat : a * p \in Nat /\ a <= a * p
    BY <1>3
  <2> QED
    BY <1>1, <1>2, <2>1
<1>6. FloatExact * (r * p - d * p) <= d * p
  <2>1. (FloatExact * (r - d)) * p <= d * p
    <3>1. FloatExact * (r - d) \in Int
      BY <1>1, <1>2
    <3> QED
      BY <1>1, <1>2, <1>4, <3>1
  <2>2. (FloatExact * (r - d)) * p = FloatExact * (r * p - d * p)
    BY <1>1, <1>2
  <2> QED
    BY <2>1, <2>2
<1>7. FloatExact * (d * p - r * p) <= d * p
  <2>1. (FloatExact * (d - r)) * p <= d * p
    <3>1. FloatExact * (d - r) \in Int
      BY <1>1, <1>2
    <3> QED
      BY <1>1, <1>2, <1>4, <3>1
  <2>2. (FloatExact * (d - r)) * p = FloatExact * (d * p - r * p)
    BY <1>1, <1>2
  <2> QED
    BY <2>1, <2>2
<1>8. CASE d < FloatExact
  <2>1. Slack(n) = 0 /\ Held(n) = Promised(n)
    BY <1>2, <1>3, <1>8 DEF Slack
  <2> QED
    BY <1>1, <1>3, <1>5, <2>1 DEF r
<1>9. CASE ~(d < FloatExact)
  <2>1. Slack(n) = Promised(n)
    BY <1>9 DEF Slack
  <2> QED
    BY <1>3, <1>5, <1>6, <1>7, <1>9, <2>1 DEF r
<1> QED
  BY <1>8, <1>9

\* The slack InRange leaves is enough for the float.
LEMMA HeldFits ==
  ASSUME opts \in BackoffOptions, NEW n \in Nat \ {0}, InRange(n)
  PROVE  Held(n) < Int64Bound
<1> DEFINE h == Held(n)
           full == Promised(n)
<1>1. h \in Nat /\ full \in Nat /\ FloatExact * (h - full) <= full
  <2>1. h \in Nat /\ full \in Nat /\ FloatExact * (h - full) <= Slack(n) /\ Slack(n) \in 0 .. full
    BY HeldIsNear
  <2> HIDE DEF h, full
  <2>2. FloatExact * (h - full) \in Int
    BY <2>1, BackoffAssumption
  <2> QED
    BY <2>1, <2>2
<1>2. FloatExact \in Nat \ {0} /\ Int64Bound \in Nat
  BY BackoffAssumption
<1>3. (FloatExact + 1) * full < FloatExact * Int64Bound
  BY DEF InRange
<1> HIDE DEF h, full
<1>4. FloatExact * h < FloatExact * Int64Bound
  <2>1. FloatExact * h = FloatExact * (h - full) + FloatExact * full
    BY <1>1, <1>2
  <2>2. (FloatExact + 1) * full = full + FloatExact * full
    BY <1>1, <1>2
  <2>3. FloatExact * (h - full) \in Int /\ FloatExact * full \in Int /\ FloatExact * Int64Bound \in Int
    BY <1>1, <1>2
  <2> QED
    BY <1>1, <1>3, <2>1, <2>2, <2>3
<1>5. \A f \in Nat, a, b \in Nat : b <= a => f * b <= f * a
  OBVIOUS
<1>6. h < Int64Bound
  BY <1>1, <1>2, <1>4, <1>5
<1> QED
  BY <1>6 DEF h

\* Before the draw there is that delay and no other, if it fits: a power
\* that does not fit multiplies a delay of 0.
LEMMA PlainIsHeld ==
  ASSUME opts \in BackoffOptions, NEW n \in Nat \ {0}, InRange(n)
  PROVE  Plain(n) = {Held(n)}
<1> DEFINE r == Rounded(opts.delay)
<1>1. r \in Nat /\ r <= Held(n) /\ Held(n) \in Nat /\ Held(n) < Int64Bound
  <2>1. opts.delay \in Nat
    BY BackoffAssumption DEF BackoffOptions
  <2> QED
    BY <2>1, RoundedIsNear, HeldIsNear, HeldFits
<1>2. ReadDelay(opts.delay) = {r}
  BY <1>1, BackoffAssumption DEF ReadDelay, ToInt64
<1>3. Plain(n) = UNION {Product64(r, f) : f \in Factors(n)}
  BY <1>2 DEF Plain
<1>4. CASE opts.type = "exponential"
  <2> DEFINE p == TwoTo[n - 1]
  <2>1. n - 1 \in Nat
    OBVIOUS
  <2>2. p \in Nat
    BY <2>1, TwoToDoubles
  <2>3. Held(n) = r * p
    BY <1>1, <1>4, <2>1, DoubledIsProduct DEF Held
  <2> HIDE DEF r
  <2>4. Plain(n) = UNION {Product64(r, f) : f \in ToInt64(p)}
    BY <1>3, <1>4, <2>1 DEF Factors, PowerOfTwo
  <2>5. CASE p < Int64Bound
    <3>1. ToInt64(p) = {p}
      BY <2>5 DEF ToInt64
    <3>2. r * p \in Int64
      BY <1>1, <2>3, BackoffAssumption DEF Int64
    <3>3. Product64(r, p) = {r * p}
      BY <1>1, <2>2, <3>2, ProductFits
    <3> QED
      BY <2>3, <2>4, <3>1, <3>3
  <2>6. CASE ~(p < Int64Bound)
    <3>1. r = 0
      <4> SUFFICES ASSUME r >= 1
                   PROVE  FALSE
        BY <1>1
      <4>1. \A a, b \in Nat : a >= 1 => a * b >= b
        OBVIOUS
      <4>2. r * p >= p
        BY <1>1, <2>2, <4>1
      <4> QED
        BY <1>1, <2>2, <2>3, <2>6, <4>2, BackoffAssumption
    <3>2. ToInt64(p) = {-Int64Bound, Int64Bound - 1}
      BY <2>6 DEF ToInt64
    <3>3. \A f \in Int : Product64(0, f) = {0}
      <4>1. \A f \in Int : 0 * f = 0
        OBVIOUS
      <4>2. 0 \in Int64
        BY BackoffAssumption DEF Int64
      <4> QED
        BY <4>1, <4>2, ProductFits
    <3>4. Held(n) = 0
      BY <2>2, <2>3, <3>1
    <3>5. -Int64Bound \in Int /\ Int64Bound - 1 \in Int
      BY BackoffAssumption
    <3> QED
      BY <2>4, <3>1, <3>2, <3>3, <3>4, <3>5
  <2> QED
    BY <2>5, <2>6
<1>5. CASE opts.type # "exponential"
  <2>1. Held(n) = r
    BY <1>5 DEF Held
  <2> HIDE DEF r
  <2>2. r * 1 = r /\ r \in Int64
    BY <1>1, <2>1, BackoffAssumption DEF Int64
  <2>3. Product64(r, 1) = {r}
    BY <1>1, <2>2, ProductFits
  <2> QED
    BY <1>3, <1>5, <2>1, <2>3 DEF Factors
<1> QED
  BY <1>4, <1>5

\* What is near enough to a delay that is drawn from.
Near(ms, full) == IF opts.jitter THEN full - 1 <= 2 * ms /\ ms <= full ELSE ms = full

LEMMA DelaysAreNear ==
  ASSUME opts \in BackoffOptions, NEW n \in Nat \ {0}, InRange(n)
  PROVE  /\ BackoffMs(opts, n) # {}
         /\ \A ms \in BackoffMs(opts, n) : ms \in Int /\ Near(ms, Held(n))
<1>1. Held(n) \in Nat /\ Plain(n) = {Held(n)}
  BY HeldIsNear, PlainIsHeld
<1>2. BackoffMs(opts, n) = IF opts.jitter THEN UNION {Jittered(ms) : ms \in Plain(n)} ELSE Plain(n)
  BY DEF BackoffMs, Plain, Factors
<1>3. Held(n) \in Int64 /\ Held(n) >= 0
  BY <1>1, HeldFits, BackoffAssumption DEF Int64
<1>4. CASE opts.jitter
  <2>1. BackoffMs(opts, n) = Jittered(Held(n))
    BY <1>1, <1>2, <1>4
  <2> QED
    BY <1>3, <1>4, <2>1, JitteredHalves DEF Near
<1>5. CASE ~opts.jitter
  BY <1>1, <1>2, <1>5 DEF Near
<1> QED
  BY <1>4, <1>5
-----------------------------------------------------------------------------
(* The delays of one job's consecutive failures. *)

\* What is remembered of the last two failures are delays the code may give.
CheckIInv ==
  /\ opts \in BackoffOptions
  /\ attempt \in Nat \ {0}
  /\ attempt > 1 => delay \in BackoffMs(opts, attempt - 1)
  /\ attempt > 2 => previous \in BackoffMs(opts, attempt - 2)

LEMMA CheckInitOK == CheckInit => CheckIInv
<1> SUFFICES ASSUME CheckInit
             PROVE  CheckIInv
  OBVIOUS
<1>1. [type : {"fixed", "exponential"}, delay : Delays, jitter : BOOLEAN] \subseteq BackoffOptions
  <2>1. Delays \subseteq 0 .. Int64Bound - 1
    BY CheckAssumption
  <2> QED
    BY <2>1 DEF BackoffOptions
<1>2. opts \in BackoffOptions
  BY <1>1 DEF CheckInit
<1> QED
  BY <1>2 DEF CheckInit, CheckIInv

LEMMA CheckStepOK == CheckIInv /\ [FailAttempt]_checkVars => CheckIInv'
<1> SUFFICES ASSUME CheckIInv, [FailAttempt]_checkVars
             PROVE  CheckIInv'
  OBVIOUS
<1> USE DEF CheckIInv
<1>1. CASE FailAttempt
  <2>1. /\ opts' = opts /\ attempt' = attempt + 1 /\ previous' = delay
        /\ delay' \in BackoffMs(opts, attempt)
    BY <1>1 DEF FailAttempt
  <2>2. opts' \in BackoffOptions /\ attempt' \in Nat \ {0}
    BY <2>1
  <2>3. attempt' - 1 = attempt /\ attempt' - 2 = attempt - 1
    BY <2>1
  <2>4. BackoffMs(opts', attempt' - 1) = BackoffMs(opts, attempt)
    BY <2>1, <2>3 DEF BackoffMs
  <2>5. BackoffMs(opts', attempt' - 2) = BackoffMs(opts, attempt - 1)
    BY <2>1, <2>3 DEF BackoffMs
  <2>6. attempt' > 2 => attempt > 1
    BY <2>1
  <2> QED
    BY <2>1, <2>2, <2>4, <2>5, <2>6
<1>2. CASE UNCHANGED checkVars
  BY <1>2 DEF checkVars, BackoffMs
<1> QED
  BY <1>1, <1>2

LEMMA CheckInvariantHolds == CheckSpec => []CheckIInv
<1> QED
  BY CheckInitOK, CheckStepOK, PTL DEF CheckSpec

\* The delay after an attempt is the one the options promise for it, but for
\* what a float64 changes of a delay beyond 2^53, and with jitter between that
\* and its half, for every delay, attempt and width, as long as the promise
\* fits (computeBackoffMs).
THEOREM DelaysAreAsPromised == CheckSpec => []DelayIsPromised
<1>1. CheckIInv => DelayIsPromised
  <2> DEFINE n     == attempt - 1
             full  == Promised(n)
             least == IF opts.jitter THEN full - 1 ELSE full
             drawn == IF opts.jitter THEN 2 * delay ELSE delay
             held  == Held(n)
  <2> SUFFICES ASSUME CheckIInv, attempt > 1, InRange(n)
               PROVE  /\ FloatExact * (delay - full) <= Slack(n)
                      /\ FloatExact * (least - drawn) <= Slack(n)
    BY DEF DelayIsPromised
  <2>1. n \in Nat \ {0} /\ delay \in BackoffMs(opts, n) /\ opts \in BackoffOptions
    BY DEF CheckIInv
  <2>2. delay \in Int /\ Near(delay, held)
    BY <2>1, DelaysAreNear
  <2>3. /\ held \in Nat /\ full \in Nat /\ Slack(n) \in Nat
        /\ FloatExact * (held - full) <= Slack(n) /\ FloatExact * (full - held) <= Slack(n)
    <3> HIDE DEF n
    <3>1. Slack(n) \in 0 .. Promised(n) /\ Promised(n) \in Nat
      BY <2>1, HeldIsNear
    <3> QED
      BY <2>1, <3>1, HeldIsNear
  <2> HIDE DEF n, full, held
  <2>4. delay - full <= held - full /\ least - drawn <= full - held /\ least - drawn \in Int
    BY <2>2, <2>3 DEF Near
  <2> HIDE DEF least, drawn
  <2>5. \A a, b \in Int : a <= b => FloatExact * a <= FloatExact * b
    <3>1. \A f \in Nat, a, b \in Int : a <= b => f * a <= f * b
      OBVIOUS
    <3> QED
      BY <3>1, BackoffAssumption
  <2>6. /\ FloatExact * (delay - full) <= FloatExact * (held - full)
        /\ FloatExact * (least - drawn) <= FloatExact * (full - held)
    BY <2>2, <2>3, <2>4, <2>5
  <2>7. \A a \in Int : FloatExact * a \in Int
    BY BackoffAssumption
  <2> QED
    BY <2>2, <2>3, <2>4, <2>6, <2>7
<1> QED
  BY <1>1, CheckInvariantHolds, PTL

\* A job never waits less after a failure than after the one before, however
\* the draws fall and the delay is rounded (computeBackoffMs): the least that
\* the doubled delay can jitter to is what the delay before it had at most.
THEOREM DelaysAreInOrder == CheckSpec => []DelaysNeverShrink
<1>1. CheckIInv => DelaysNeverShrink
  <2> SUFFICES ASSUME CheckIInv, attempt > 2, InRange(attempt - 1), opts.type = "exponential"
               PROVE  previous <= delay
    BY DEF DelaysNeverShrink
  <2> DEFINE n    == attempt - 2
             full == Promised(n)
             held == Held(n)
  <2>1. n \in Nat \ {0} /\ n + 1 = attempt - 1 /\ opts \in BackoffOptions
    BY DEF CheckIInv
  <2>2. delay \in BackoffMs(opts, n + 1) /\ previous \in BackoffMs(opts, n)
    BY <2>1 DEF CheckIInv
  <2>3. held \in Nat /\ full \in Nat /\ Held(n + 1) = 2 * held /\ Promised(n + 1) = 2 * full
    <3> HIDE DEF n
    <3>1. n - 1 \in Nat /\ (n + 1) - 1 = (n - 1) + 1 /\ opts.delay \in Nat
      <4>1. opts.delay \in Nat
        BY <2>1, BackoffAssumption DEF BackoffOptions
      <4> QED
        BY <2>1, <4>1
    <3>2. \A d \in Nat : Doubled(d, (n - 1) + 1) = 2 * Doubled(d, n - 1)
      BY <3>1, DoubledDoubles
    <3>3. Rounded(opts.delay) \in Nat
      BY <3>1, RoundedIsNear
    <3>4. full \in Nat /\ held \in Nat
      BY <2>1, HeldIsNear
    <3> QED
      BY <3>1, <3>2, <3>3, <3>4 DEF Promised, Held
  <2>4. InRange(n) /\ InRange(n + 1)
    <3> HIDE DEF n, full
    <3>1. InRange(n + 1)
      BY <2>1
    <3>2. (FloatExact + 1) * (2 * full) < FloatExact * Int64Bound
      BY <2>3, <3>1 DEF InRange
    <3>3. (FloatExact + 1) * full <= (FloatExact + 1) * (2 * full)
      BY <2>3, BackoffAssumption
    <3>4. (FloatExact + 1) * full \in Int /\ (FloatExact + 1) * (2 * full) \in Int /\ FloatExact * Int64Bound \in Int
      BY <2>3, BackoffAssumption
    <3>5. (FloatExact + 1) * full < FloatExact * Int64Bound
      BY <3>2, <3>3, <3>4
    <3> QED
      BY <3>1, <3>5 DEF InRange, full
  <2>5. delay \in Int /\ Near(delay, 2 * held) /\ previous \in Int /\ Near(previous, held)
    <3>1. delay \in Int /\ Near(delay, Held(n + 1))
      BY <2>1, <2>2, <2>4, DelaysAreNear
    <3>2. previous \in Int /\ Near(previous, held)
      BY <2>1, <2>2, <2>4, DelaysAreNear
    <3> QED
      BY <2>3, <3>1, <3>2
  <2> HIDE DEF held
  <2> QED
    BY <2>3, <2>5 DEF Near
<1> QED
  BY <1>1, CheckInvariantHolds, PTL

\* A failure always gets a delay while the promised one fits: neither a delay
\* of 0 or 1 nor a power that does not fit makes rand.Intn panic
\* (computeBackoffMs).
THEOREM FailuresGetDelays == CheckSpec => []EveryFailureGetsDelay
<1>1. CheckIInv => EveryFailureGetsDelay
  BY DelaysAreNear DEF CheckIInv, EveryFailureGetsDelay
<1> QED
  BY <1>1, CheckInvariantHolds, PTL
-----------------------------------------------------------------------------
(* How the delays leave the parameter of FailJob's statement. *)

\* Every exponential backoff, whatever its delay, comes to an attempt after
\* which all the delays it may draw are beyond the int4 parameter although
\* they fit the int64: FailJob is refused then (computeBackoffMs, and $3::int
\* in PGDriver.FailJob).  This is the reason of the run BackoffRange, and it
\* does not depend on the values that run has.
THEOREM EveryDoublingIsRefused ==
  ASSUME 8 * (Int4Max + 1) <= Int64Bound, Int4Max < FloatExact,
         opts \in BackoffOptions, opts.type = "exponential", opts.delay \in 1..Int4Max
  PROVE  \E n \in Nat \ {0} : /\ InRange(n)
                              /\ BackoffMs(opts, n) # {}
                              /\ BackoffMs(opts, n) \cap Int4 = {}
<1> DEFINE d     == opts.delay
           limit == 2 * (Int4Max + 1)
           T     == {k \in Nat : Doubled(d, k) >= limit}
<1>1. d \in Nat /\ d >= 1 /\ d <= Int4Max /\ limit \in Nat /\ 4 * limit <= Int64Bound /\ d < limit
  BY BackoffAssumption DEF BackoffOptions
<1>2. limit \in T
  <2>1. Doubled(d, limit) = d * TwoTo[limit] /\ Doubled(d, limit) \in Nat
    BY <1>1, DoubledIsProduct
  <2>2. TwoTo[limit] \in Nat /\ TwoTo[limit] > limit
    BY <1>1, TwoToDoubles, TwoToOutgrows
  <2>3. \A a, b \in Nat : a >= 1 => a * b >= b
    OBVIOUS
  <2>4. d * TwoTo[limit] >= TwoTo[limit]
    BY <1>1, <2>2, <2>3
  <2> HIDE DEF limit
  <2> QED
    BY <1>1, <2>1, <2>2, <2>4
<1>3. PICK k \in T : k = 0 \/ k - 1 \notin T
  <2> HIDE DEF limit
  <2>1. T \subseteq Nat /\ T # {}
    BY <1>2
  <2> HIDE DEF T
  <2> QED
    BY <2>1, LeastOf
<1>4. k \in Nat /\ Doubled(d, k) >= limit /\ Doubled(d, k) \in Nat
  BY <1>1, DoubledIsProduct
<1>5. k # 0
  BY <1>1, <1>4, DoubledDoubles
<1>6. Doubled(d, k) = 2 * Doubled(d, k - 1) /\ Doubled(d, k - 1) \in Nat /\ Doubled(d, k - 1) < limit
  <2>1. k - 1 \in Nat /\ (k - 1) + 1 = k
    BY <1>4, <1>5
  <2>2. Doubled(d, (k - 1) + 1) = 2 * Doubled(d, k - 1) /\ Doubled(d, k - 1) \in Nat
    <3>1. \A m \in Nat : Doubled(d, m + 1) = 2 * Doubled(d, m)
      BY <1>1, DoubledDoubles
    <3>2. \A m \in Nat : Doubled(d, m) \in Nat
      BY <1>1, DoubledIsProduct
    <3> HIDE DEF d
    <3> QED
      BY <2>1, <3>1, <3>2
  <2>3. ~(Doubled(d, k - 1) >= limit)
    BY <1>3, <1>5, <2>1
  <2> HIDE DEF limit
  <2> QED
    BY <1>1, <2>1, <2>2, <2>3
<1> DEFINE n == k + 1
<1>7. n \in Nat \ {0} /\ Promised(n) = Doubled(d, k)
  <2>1. n - 1 = k
    BY <1>4
  <2> QED
    BY <1>4, <2>1 DEF Promised
<1>8. InRange(n)
  <2> DEFINE full == Promised(n)
  <2> HIDE DEF limit, n
  <2>1. full \in Nat /\ 2 * full < Int64Bound
    BY <1>1, <1>4, <1>6, <1>7, BackoffAssumption
  <2> HIDE DEF full
  <2>2. FloatExact \in Nat \ {0} /\ Int64Bound \in Nat
    BY BackoffAssumption
  <2>3. FloatExact * (2 * full) < FloatExact * Int64Bound
    <3>1. \A f, a, b \in Nat : f >= 1 /\ a < b => f * a < f * b
      OBVIOUS
    <3> QED
      BY <2>1, <2>2, <3>1
  <2>4. (FloatExact + 1) * full = FloatExact * full + full /\ FloatExact * (2 * full) = FloatExact * full + FloatExact * full
    BY <2>1, <2>2
  <2>5. full <= FloatExact * full
    <3>1. \A f, a \in Nat : f >= 1 => a <= f * a
      OBVIOUS
    <3> QED
      BY <2>1, <2>2, <3>1
  <2>6. FloatExact * full \in Int /\ FloatExact * Int64Bound \in Int
    BY <2>1, <2>2
  <2>7. (FloatExact + 1) * full < FloatExact * Int64Bound
    BY <2>1, <2>3, <2>4, <2>5, <2>6
  <2> QED
    BY <2>7 DEF InRange, full
<1>9. ASSUME NEW ms \in BackoffMs(opts, n)
      PROVE  ms \notin Int4
  <2>1. ms \in Int /\ Near(ms, Doubled(d, k))
    <3>1. Held(n) = Doubled(d, k)
      <4>1. opts.delay < FloatExact
        BY <1>1, BackoffAssumption
      <4> HIDE DEF n, d
      <4> QED
        BY <1>7, <4>1, HeldIsNear
    <3> HIDE DEF n, d
    <3> QED
      BY <1>7, <1>8, <1>9, <3>1, DelaysAreNear
  <2>2. ms > Int4Max
    BY <1>4, <2>1, BackoffAssumption DEF Near
  <2> QED
    BY <2>1, <2>2, BackoffAssumption DEF Int4
<1>10. BackoffMs(opts, n) # {}
  BY <1>7, <1>8, DelaysAreNear
<1> QED
  BY <1>7, <1>8, <1>9, <1>10
=============================================================================
