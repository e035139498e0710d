---------------------------- MODULE Readers_proofs ----------------------------
(***************************************************************************)
(* Proofs about those who read the queue while it goes on: JobPages,       *)
(* JobViews and QueueReads, for every number of jobs, queues and readers   *)
(* and every page size.                                                    *)
(*                                                                         *)
(* A reader shows what it read a while ago.  Each invariant therefore      *)
(* compares what the reader holds with the queue as it is by now: rows are *)
(* not deleted, do not change their queue and only add to their history.   *)
(***************************************************************************)
EXTENDS JobPages, JobViews, QueueReads, JobQueue_proofs

(* What is true of a walk through the pages. *)

WalkType == walk \in [kind   : {"none", "api", "dashboard"},
                      filter : Filters \cup {Null},
                      after  : JobId \cup {Null},
                      page   : SUBSET JobId,
                      listed : SUBSET JobId,
                      ended  : BOOLEAN,
                      whole  : BOOLEAN]

\* The cursor is at the end of what was shown.
CursorOK ==
  ~walk.ended => IF walk.after = Null THEN walk.page \cup walk.listed = {}
                 ELSE \A id \in walk.page \cup walk.listed : id >= walk.after

\* The jobs that matched throughout still match.
SteadyOK == /\ steady \subseteq DOMAIN jobs
            /\ walk # NoWalk => steady \subseteq Matching(jobs, walk.filter)
            /\ walk = NoWalk => steady = {}

PagesIInv == QueueIInv /\ WalkType /\ CursorOK /\ SteadyOK /\ PagesDescend /\ SteadyJobsListed
-----------------------------------------------------------------------------
(* What is true of a response that a poller got. *)

\* GetJob's response to a row that is now r.
SeenOf(v, r) ==
  /\ v.attempt \in Nat /\ v.attempt <= r.attempt
  /\ v.errors \in Seq({"failed", "lock_expired"})
  /\ IsPrefix(v.errors, r.errors)
  /\ v.finalized <=> v.status \in Final
  /\ v.status \in Final => /\ v = [status    |-> r.status,
                                   attempt   |-> r.attempt,
                                   errors    |-> r.errors,
                                   result    |-> r.result,
                                   attempted |-> r.attempted_at,
                                   finalized |-> r.finalized]

ResponsesOK ==
  /\ job = [id \in JobId |-> job[id]]
  /\ state = [id \in JobId |-> state[id]]
  /\ \A id \in JobId : job[id] = NotRead \/ (id \in DOMAIN jobs /\ SeenOf(job[id], jobs[id]))

\* A job that was given up, or waits for its retry, has failed before.
FailuresCounted ==
  \A id \in DOMAIN jobs : jobs[id].status \in {"retryable", "discarded"} => jobs[id].attempt > 0

ViewsIInv == IInv /\ FailuresCounted /\ ResponsesOK
-----------------------------------------------------------------------------
(* What is true of a read of several statements. *)

ReadType == [op     : {"none", "index", "queue", "queues"},
             stage  : {"list", "total", "names", "counts", "paused", "done"},
             rows   : BOOLEAN,
             todo   : SUBSET QueueName,
             queue  : QueueName \cup {Null},
             page   : SUBSET JobId,
             sum    : Nat,
             paused : BOOLEAN,
             before : Nat,
             whole  : BOOLEAN]

\* The jobs of a table in the queues names.
JobsOf(table, names) == {id \in DOMAIN table : table[id].queue \in names}

\* ListQueues: the jobs that were there are counted or still to be counted,
\* unless a result was cut short, and what is counted is there.
ListingOK(f, table) ==
  /\ f.stage \in {"names", "counts", "done"}
  /\ f.before <= Cardinality(DOMAIN table)
  /\ f.stage = "names" /\ ~f.rows => f.sum = 0
  /\ f.stage = "counts" \/ (f.stage = "names" /\ f.rows) =>
        /\ f.whole => f.before <= f.sum + Cardinality(JobsOf(table, f.todo))
        /\ f.sum <= Cardinality(JobsOf(table, QueueName \ f.todo))
  /\ f.stage = "done" => /\ f.whole => f.before <= f.sum
                         /\ f.sum <= Cardinality(DOMAIN table)

\* Index: what is listed is there, and is counted afterwards.
IndexOK(f, table) ==
  /\ f.stage \in {"list", "total", "done"}
  /\ f.stage = "list" \/ (f.stage = "total" /\ ~f.rows) => f.page \subseteq DOMAIN table /\ f.sum = 0
  /\ (f.stage = "done" \/ (f.stage = "total" /\ f.rows)) /\ f.whole => Cardinality(f.page) <= f.sum

GatheredOK(f, table) == /\ f \in ReadType
                        /\ f.op = "queues" => ListingOK(f, table)
                        /\ f.op = "index" => IndexOK(f, table)

ReadsOK == /\ read = [r \in Reader |-> read[r]]
           /\ \A r \in Reader : GatheredOK(read[r], jobs)

ReadsIInv == QueueIInv /\ ReadsOK
-----------------------------------------------------------------------------
(* Finite sets of ids. *)

\* Among finitely many sets' members there is one without smaller ones.
LEMMA MinimalSubset ==
  ASSUME NEW S, IsFiniteSet(S), NEW F, F \subseteq SUBSET S, F # {}
  PROVE  \E T \in F : \A U \in F : ~(U \subseteq T /\ U # T)
<1>1. F \subseteq FiniteSubsetsOf(S)
  BY FS_FiniteSubsetsOfFinite
<1>2. PICK T \in F : \A U \in F : <<U, T>> \notin StrictSubsetOrdering(S)
  BY <1>1, FS_StrictSubsetOrderingWellFounded, WFMin
<1>3. \A U \in F : U \in SUBSET S /\ T \in SUBSET S
  OBVIOUS
<1> QED
  BY <1>2, <1>3 DEF StrictSubsetOrdering

Above(S, x) == {y \in S : y > x}
Below(S, x) == {y \in S : y < x}

LEMMA Nested ==
  ASSUME NEW S, S \subseteq Int, NEW x \in S, NEW y \in S
  PROVE  /\ x <= y => Above(S, y) \subseteq Above(S, x) /\ Below(S, x) \subseteq Below(S, y)
         /\ ~(y <= x) => y \in Above(S, x)
         /\ ~(x <= y) => y \in Below(S, x)
         /\ x \notin Above(S, x) /\ x \notin Below(S, x)
         /\ x <= y \/ y <= x
<1>1. x \in Int /\ y \in Int
  OBVIOUS
<1>2. ASSUME NEW z \in S, x <= y
      PROVE  (z > y => z > x) /\ (z < x => z < y)
  <2>1. z \in Int
    OBVIOUS
  <2> QED
    BY <1>1, <1>2, <2>1
<1>3. x <= y => Above(S, y) \subseteq Above(S, x) /\ Below(S, x) \subseteq Below(S, y)
  BY <1>2 DEF Above, Below
<1>4. /\ ~(y <= x) => y > x
      /\ ~(x <= y) => y < x
      /\ ~(x > x) /\ ~(x < x)
      /\ x <= y \/ y <= x
  BY <1>1
<1> QED
  BY <1>3, <1>4 DEF Above, Below

LEMMA LeastAbove ==
  ASSUME NEW S, IsFiniteSet(S), S # {}
  PROVE  \E x \in S : \A y \in S : ~(Above(S, y) \subseteq Above(S, x) /\ Above(S, y) # Above(S, x))
<1> DEFINE F == {Above(S, x) : x \in S}
<1>1. F \subseteq SUBSET S /\ F # {}
  BY DEF Above
<1>2. PICK T \in F : \A U \in F : ~(U \subseteq T /\ U # T)
  <2> HIDE DEF F
  <2> QED
    BY <1>1, MinimalSubset
<1> QED
  BY <1>2

LEMMA LeastBelow ==
  ASSUME NEW S, IsFiniteSet(S), S # {}
  PROVE  \E x \in S : \A y \in S : ~(Below(S, y) \subseteq Below(S, x) /\ Below(S, y) # Below(S, x))
<1> DEFINE F == {Below(S, x) : x \in S}
<1>1. F \subseteq SUBSET S /\ F # {}
  BY DEF Below
<1>2. PICK T \in F : \A U \in F : ~(U \subseteq T /\ U # T)
  <2> HIDE DEF F
  <2> QED
    BY <1>1, MinimalSubset
<1> QED
  BY <1>2

LEMMA Greatest ==
  ASSUME NEW S, IsFiniteSet(S), S \subseteq Int, S # {}
  PROVE  \E x \in S : \A y \in S : y <= x
<1>1. PICK x \in S : \A y \in S : ~(Above(S, y) \subseteq Above(S, x) /\ Above(S, y) # Above(S, x))
  BY LeastAbove
<1>2. ASSUME NEW y \in S, ~(y <= x)
      PROVE  FALSE
  <2>1. y \in Above(S, x) /\ y \notin Above(S, y) /\ Above(S, y) \subseteq Above(S, x)
    BY <1>2, Nested
  <2> QED
    BY <1>1, <2>1
<1> QED
  BY <1>2

LEMMA Least ==
  ASSUME NEW S, IsFiniteSet(S), S \subseteq Int, S # {}
  PROVE  \E x \in S : \A y \in S : x <= y
<1>1. PICK x \in S : \A y \in S : ~(Below(S, y) \subseteq Below(S, x) /\ Below(S, y) # Below(S, x))
  BY LeastBelow
<1>2. ASSUME NEW y \in S, ~(x <= y)
      PROVE  FALSE
  <2>1. y \in Below(S, x) /\ y \notin Below(S, y) /\ Below(S, y) \subseteq Below(S, x)
    BY <1>2, Nested
  <2> QED
    BY <1>1, <2>1
<1> QED
  BY <1>2

\* What ORDER BY id DESC LIMIT n selects.
LEMMA NewestSays ==
  ASSUME NEW S, IsFiniteSet(S), S \subseteq Int, NEW n \in Nat
  PROVE  /\ Newest(S, n) \subseteq S
         /\ IsFiniteSet(Newest(S, n))
         /\ \A x \in Newest(S, n), y \in S : y >= x => y \in Newest(S, n)
         /\ n # 0 /\ S # {} => Newest(S, n) # {}
         /\ Cardinality(Newest(S, n)) < n => Newest(S, n) = S
         /\ Cardinality(S) <= n => Newest(S, n) = S
<1>1. \A x : Above(S, x) \in SUBSET S
  BY DEF Above
<1>2. \A x : IsFiniteSet(Above(S, x)) /\ Cardinality(Above(S, x)) \in Nat
  BY <1>1, FS_Subset, FS_CardinalityType
<1>3. \A x : x \in Newest(S, n) <=> x \in S /\ Cardinality(Above(S, x)) < n
  BY DEF Newest, Above
<1>4. Newest(S, n) \in SUBSET S /\ IsFiniteSet(Newest(S, n))
  BY <1>3, FS_Subset
<1>5. ASSUME NEW x \in Newest(S, n), NEW y \in S, y >= x
      PROVE  y \in Newest(S, n)
  <2>1. Above(S, y) \in SUBSET Above(S, x)
    BY <1>3, <1>5, Nested
  <2>2. Cardinality(Above(S, y)) <= Cardinality(Above(S, x))
    BY <1>2, <2>1, FS_Subset
  <2> QED
    BY <1>2, <1>3, <2>2
<1>6. ASSUME n # 0, S # {}
      PROVE  Newest(S, n) # {}
  <2>1. PICK x \in S : \A y \in S : y <= x
    BY <1>6, Greatest
  <2>2. Above(S, x) = {}
    <3>1. ASSUME NEW y \in Above(S, x) PROVE FALSE
      <4>1. y \in S /\ y > x /\ y <= x /\ x \in Int /\ y \in Int
        BY <2>1, <3>1 DEF Above
      <4> QED
        BY <4>1
    <3> QED
      BY <3>1
  <2> QED
    BY <1>3, <1>6, <2>2, FS_EmptySet
<1>7. ASSUME Cardinality(Newest(S, n)) < n
      PROVE  Newest(S, n) = S
  <2> DEFINE left == S \ Newest(S, n)
  <2>1. SUFFICES ASSUME left # {} PROVE FALSE
    BY <1>4
  <2>2. IsFiniteSet(left) /\ left \subseteq Int
    BY FS_Subset
  <2>3. PICK x \in left : \A y \in left : y <= x
    BY <2>1, <2>2, Greatest
  <2>4. Above(S, x) \in SUBSET Newest(S, n)
    <3>1. ASSUME NEW y \in Above(S, x), y \notin Newest(S, n) PROVE FALSE
      <4>1. y \in S /\ y > x /\ y <= x /\ x \in Int /\ y \in Int
        BY <2>3, <3>1 DEF Above
      <4> QED
        BY <4>1
    <3> QED
      BY <3>1
  <2>5. Cardinality(Above(S, x)) <= Cardinality(Newest(S, n)) /\ Cardinality(Newest(S, n)) \in Nat
    BY <1>4, <2>4, FS_Subset, FS_CardinalityType
  <2> QED
    BY <1>2, <1>3, <1>7, <2>3, <2>5
<1>8. ASSUME Cardinality(S) <= n
      PROVE  Newest(S, n) = S
  <2>1. ASSUME NEW x \in S
        PROVE  x \in Newest(S, n)
    <3>1. Above(S, x) \in SUBSET S /\ Above(S, x) # S
      BY DEF Above
    <3>2. Cardinality(Above(S, x)) <= Cardinality(S) /\ Cardinality(Above(S, x)) # Cardinality(S)
      BY <3>1, FS_Subset
    <3> QED
      BY <1>2, <1>3, <1>8, <3>2, FS_CardinalityType
  <2> QED
    BY <1>4, <2>1
<1> QED
  BY <1>4, <1>5, <1>6, <1>7, <1>8
-----------------------------------------------------------------------------
(* Pages. *)

LEMMA IdsAreNumbers == JobId \subseteq Int /\ Null \notin JobId
<1>1. \A n \in Nat : n \in Int
  OBVIOUS
<1>2. JobId \subseteq Nat /\ Null \notin Int
  BY JobTableAssumption
<1> QED
  BY <1>1, <1>2, Zenon

\* The jobs the next page is taken from.
Remaining == OlderThan(Matching(jobs, walk.filter), walk.after)

LEMMA OldestSays ==
  ASSUME NEW S, IsFiniteSet(S), S \subseteq Int, S # {}
  PROVE  Oldest(S) \in S /\ \A x \in S : Oldest(S) <= x
<1>1. \E x \in S : \A y \in S : x <= y
  BY Least
<1> QED
  BY <1>1 DEF Oldest

\* Nothing was cut off the rows fetched.
Whole(rows) == rows = Selected(walk.filter, PageSize + 1, walk.after)

\* What a reader gets begins at the cursor and has no gap.
LEMMA FetchedSays ==
  ASSUME QueueIInv, NEW rows \in Fetched
  PROVE  /\ rows \subseteq Remaining
         /\ IsFiniteSet(rows)
         /\ \A x \in rows, y \in Remaining : y >= x => y \in rows
         /\ Whole(rows) /\ Cardinality(rows) <= PageSize => rows = Remaining
         /\ Remaining \subseteq Int /\ Remaining \subseteq DOMAIN jobs /\ Remaining \subseteq JobId
<1>1. Remaining \in SUBSET DOMAIN jobs
  BY DEF Remaining, OlderThan, Matching
<1>2. IsFiniteSet(Remaining) /\ DOMAIN jobs \subseteq JobId
  BY <1>1, FS_Subset DEF QueueIInv, TableFinite, IInv, RowsOK
<1>3. Remaining \subseteq Int
  BY <1>1, <1>2, IdsAreNumbers, Zenon
<1>4. PageSize \in Nat /\ PageSize + 1 \in Nat
  BY JobPagesAssumption
<1> DEFINE all == Selected(walk.filter, PageSize + 1, walk.after)
<1>5. all = Newest(Remaining, PageSize + 1)
  BY DEF Selected, Remaining
<1>6. PICK n \in 0 .. Cardinality(all) : rows = Newest(all, n)
  BY DEF Fetched, ListJobs, Beginnings
<1>7. Whole(rows) <=> rows = all
  BY DEF Whole
<1> HIDE DEF Remaining, all
<1>8. /\ all \subseteq Remaining
      /\ IsFiniteSet(all)
      /\ \A x \in all, y \in Remaining : y >= x => y \in all
      /\ Cardinality(all) < PageSize + 1 => all = Remaining
  BY <1>2, <1>3, <1>4, <1>5, NewestSays
<1>9. all \subseteq Int /\ n \in Nat
  BY <1>3, <1>6, <1>8, FS_CardinalityType
<1>10. /\ rows \subseteq all
       /\ IsFiniteSet(rows)
       /\ \A x \in rows, y \in all : y >= x => y \in rows
  BY <1>6, <1>8, <1>9, NewestSays
<1>11. Whole(rows) /\ Cardinality(rows) <= PageSize => rows = Remaining
  BY <1>4, <1>7, <1>8, <1>10, FS_CardinalityType
<1> QED
  BY <1>1, <1>2, <1>3, <1>8, <1>10, <1>11

\* Nor has the page made of it, and a short one of a whole result is the last.
LEMMA PageSays ==
  ASSUME QueueIInv, NEW rows \in Fetched
  PROVE  /\ Remaining \subseteq DOMAIN jobs /\ Shown(rows) \subseteq Remaining
         /\ Remaining \subseteq JobId
         /\ Shown(rows) # {} => /\ Oldest(Shown(rows)) \in Shown(rows)
                                /\ \A id \in Shown(rows) : id >= Oldest(Shown(rows))
                                /\ \A id \in Remaining : id >= Oldest(Shown(rows)) => id \in Shown(rows)
         /\ Whole(rows) /\ Cardinality(Shown(rows)) < PageSize => Shown(rows) = Remaining
         /\ Whole(rows) /\ Cardinality(rows) <= PageSize => Shown(rows) = Remaining
         /\ Cardinality(Shown(rows)) >= PageSize \/ Cardinality(rows) > PageSize => Shown(rows) # {}
         /\ Cardinality(Shown(rows)) \in Nat /\ Cardinality(rows) \in Nat
<1> DEFINE shown == Shown(rows)
<1>1. /\ rows \subseteq Remaining
      /\ IsFiniteSet(rows)
      /\ \A x \in rows, y \in Remaining : y >= x => y \in rows
      /\ Whole(rows) /\ Cardinality(rows) <= PageSize => rows = Remaining
      /\ Remaining \subseteq Int /\ Remaining \subseteq DOMAIN jobs /\ Remaining \subseteq JobId
  BY FetchedSays
<1>2. PageSize \in Nat /\ PageSize # 0
  BY JobPagesAssumption
<1>3. shown = Newest(rows, PageSize) /\ rows \subseteq Int
  BY <1>1 DEF Shown
<1> HIDE DEF Remaining, shown
<1>4. /\ shown \subseteq rows
      /\ IsFiniteSet(shown)
      /\ \A x \in shown, y \in rows : y >= x => y \in shown
      /\ rows # {} => shown # {}
      /\ Cardinality(shown) < PageSize => shown = rows
      /\ Cardinality(rows) <= PageSize => shown = rows
  BY <1>1, <1>2, <1>3, NewestSays
<1>5. Cardinality(shown) \in Nat /\ Cardinality(rows) \in Nat
  BY <1>1, <1>4, FS_CardinalityType
<1>6. Cardinality({}) = 0
  BY FS_EmptySet
<1>7. ASSUME shown # {}
      PROVE  /\ Oldest(shown) \in shown
             /\ \A id \in shown : id >= Oldest(shown)
             /\ \A id \in Remaining : id >= Oldest(shown) => id \in shown
  <2>1. shown \subseteq Int
    BY <1>3, <1>4
  <2>2. Oldest(shown) \in shown /\ \A id \in shown : Oldest(shown) <= id
    BY <1>4, <1>7, <2>1, OldestSays
  <2>3. \A id \in shown : id >= Oldest(shown)
    BY <2>1, <2>2
  <2>4. \A id \in Remaining : id >= Oldest(shown) => id \in shown
    BY <1>1, <1>4, <2>2
  <2> QED
    BY <2>2, <2>3, <2>4
<1>8. Whole(rows) /\ Cardinality(rows) <= PageSize => shown = Remaining
  BY <1>1, <1>4
<1>9. Whole(rows) /\ Cardinality(shown) < PageSize => shown = Remaining
  BY <1>1, <1>2, <1>4, <1>5
<1>10. Cardinality(shown) >= PageSize \/ Cardinality(rows) > PageSize => shown # {}
  BY <1>2, <1>4, <1>5, <1>6
<1>11. shown \subseteq Remaining
  BY <1>1, <1>4
<1> QED
  BY <1>1, <1>5, <1>7, <1>8, <1>9, <1>10, <1>11 DEF shown

LEMMA TurnSays ==
  ASSUME WalkType, NEW rows, NEW c, NEW last, Turn(rows, c, last)
  PROVE  walk' = [kind |-> walk.kind, filter |-> walk.filter, after |-> c, page |-> Shown(rows),
                  listed |-> walk.listed \cup walk.page, ended |-> last, whole |-> Whole(rows)]
<1> DEFINE listed == walk.listed \cup walk.page
           page == Shown(rows)
           whole == Whole(rows)
<1>1. walk' = [walk EXCEPT !.listed = listed, !.page = page, !.after = c, !.ended = last, !.whole = whole]
  BY DEF Turn, Whole
<1> HIDE DEF listed, page, whole
<1>2. walk' = [kind |-> walk.kind, filter |-> walk.filter, after |-> c, page |-> page,
               listed |-> listed, ended |-> last, whole |-> whole]
  BY <1>1 DEF WalkType
<1> QED
  BY <1>2 DEF listed, page, whole

\* A page is turned, up to the end or not.
LEMMA TurnKeeps ==
  ASSUME PagesIInv, ~walk.ended, walk.kind \in {"api", "dashboard"},
         NEW rows \in Fetched, NEW c, NEW last \in BOOLEAN, Turn(rows, c, last),
         \/ last /\ c = Null /\ (Whole(rows) => Shown(rows) = Remaining)
         \/ ~last /\ c = Oldest(Shown(rows)) /\ Shown(rows) # {}
  PROVE  PagesIInv'
<1>1. walk' = [kind |-> walk.kind, filter |-> walk.filter, after |-> c, page |-> Shown(rows),
               listed |-> walk.listed \cup walk.page, ended |-> last, whole |-> Whole(rows)]
  BY TurnSays DEF PagesIInv
<1>2. /\ walk'.kind = walk.kind /\ walk'.filter = walk.filter /\ walk'.after = c
      /\ walk'.page = Shown(rows) /\ walk'.listed = walk.listed \cup walk.page /\ walk'.ended = last
      /\ walk'.whole = Whole(rows)
  BY <1>1
<1>3. QueueIInv /\ WalkType /\ CursorOK /\ SteadyOK /\ PagesDescend /\ SteadyJobsListed
  BY DEF PagesIInv
<1>4. UNCHANGED vars /\ steady' = steady
  BY DEF Turn, vars
<1>5. QueueIInv'
  BY <1>3, <1>4, QueueInvariantKept
<1>6. /\ Shown(rows) \subseteq Remaining /\ Remaining \subseteq JobId
      /\ Shown(rows) # {} => /\ Oldest(Shown(rows)) \in Shown(rows)
                             /\ \A id \in Shown(rows) : id >= Oldest(Shown(rows))
                             /\ \A id \in Remaining : id >= Oldest(Shown(rows)) => id \in Shown(rows)
  BY <1>3, PageSays
<1>7. c \in JobId \cup {Null}
  BY <1>6
<1>8. WalkType'
  <2>1. Shown(rows) \in SUBSET JobId /\ Whole(rows) \in BOOLEAN
    BY <1>6 DEF Whole
  <2> QED
    BY <1>1, <1>3, <1>7, <2>1 DEF WalkType
<1>9. JobId \subseteq Int /\ Null \notin JobId
  BY IdsAreNumbers
<1>10. walk.page \subseteq JobId /\ walk.listed \subseteq JobId /\ walk.after \in JobId \cup {Null}
  BY <1>3 DEF WalkType
<1>11. ASSUME NEW id \in Remaining
       PROVE  walk.after = Null \/ id < walk.after
  BY <1>11 DEF Remaining, OlderThan
<1>12. ASSUME NEW id \in Shown(rows), NEW earlier \in walk.listed \cup walk.page
       PROVE  id < earlier
  <2>1. walk.after # Null /\ earlier >= walk.after
    BY <1>3, <1>12 DEF CursorOK
  <2>2. id < walk.after
    BY <1>6, <1>11, <1>12, <2>1
  <2>3. id \in Int /\ earlier \in Int /\ walk.after \in Int
    BY <1>6, <1>9, <1>10, <1>12, <2>1
  <2> QED
    BY <2>1, <2>2, <2>3
<1>13. PagesDescend'
  BY <1>2, <1>12 DEF PagesDescend
<1>14. CursorOK'
  <2>1. CASE last
    BY <1>2, <2>1 DEF CursorOK
  <2>2. CASE ~last
    <3>1. c = Oldest(Shown(rows)) /\ c \in Shown(rows) /\ c \in JobId
      BY <1>6, <2>2
    <3>2. ASSUME NEW id \in walk.listed \cup walk.page
          PROVE  id >= c
      <4>1. c < id /\ c \in Int /\ id \in Int
        BY <1>9, <1>10, <1>12, <3>1, <3>2
      <4> QED
        BY <4>1
    <3>3. \A id \in Shown(rows) : id >= c
      BY <1>6, <3>1
    <3> QED
      BY <1>2, <1>9, <2>2, <3>1, <3>2, <3>3 DEF CursorOK
  <2> QED
    BY <2>1, <2>2
<1>15. steady \subseteq Matching(jobs, walk.filter) /\ walk # NoWalk /\ walk' # NoWalk
  BY <1>2, <1>3 DEF SteadyOK, NoWalk
<1>16. SteadyOK'
  BY <1>2, <1>3, <1>4, <1>15 DEF SteadyOK, vars
<1>17. ASSUME NEW id \in steady, (last /\ Whole(rows)) \/ (c # Null /\ id >= c)
       PROVE  id \in Shown(rows) \cup (walk.listed \cup walk.page)
  <2>1. CASE walk.after # Null /\ id >= walk.after
    BY <1>3, <2>1 DEF SteadyJobsListed
  <2>2. CASE walk.after = Null \/ ~(id >= walk.after)
    <3>1. id \in Matching(jobs, walk.filter) /\ id \in JobId
      BY <1>3, <1>15 DEF SteadyOK, QueueIInv, IInv, RowsOK
    <3>2. walk.after = Null \/ id < walk.after
      <4>1. walk.after # Null => id \in Int /\ walk.after \in Int
        BY <1>9, <1>10, <3>1
      <4> QED
        BY <2>2, <4>1
    <3>3. id \in Remaining
      BY <3>1, <3>2 DEF Remaining, OlderThan
    <3> QED
      BY <1>6, <1>17, <3>3
  <2> QED
    BY <2>1, <2>2
<1>18. SteadyJobsListed'
  BY <1>2, <1>4, <1>17 DEF SteadyJobsListed
<1> QED
  BY <1>5, <1>8, <1>13, <1>14, <1>16, <1>18 DEF PagesIInv

LEMMA ApiPageStep ==
  ASSUME PagesIInv, ApiPage
  PROVE  PagesIInv'
<1>1. PICK rows \in Fetched :
        LET last == Cardinality(Shown(rows)) < PageSize
        IN  Turn(rows, IF last THEN Null ELSE Oldest(Shown(rows)), last)
  BY DEF ApiPage
<1> DEFINE last == Cardinality(Shown(rows)) < PageSize
           c == IF last THEN Null ELSE Oldest(Shown(rows))
<1>2. ~walk.ended /\ walk.kind \in {"api", "dashboard"} /\ Turn(rows, c, last) /\ QueueIInv
  BY <1>1 DEF ApiPage, PagesIInv
<1>3. /\ last /\ Whole(rows) => Shown(rows) = Remaining
      /\ ~last => Shown(rows) # {}
  <2>1. Cardinality(Shown(rows)) \in Nat /\ PageSize \in Nat
    BY <1>2, PageSays, JobPagesAssumption
  <2> QED
    BY <1>2, <2>1, PageSays
<1>4. last \in BOOLEAN /\ (last => c = Null) /\ (~last => c = Oldest(Shown(rows)))
  OBVIOUS
<1> HIDE DEF last, c
<1> QED
  BY <1>2, <1>3, <1>4, TurnKeeps

LEMMA DashboardPageStep ==
  ASSUME PagesIInv, DashboardPage
  PROVE  PagesIInv'
<1>1. PICK rows \in Fetched : Turn(rows, NextCursor(rows), NextCursor(rows) = Null)
  BY DEF DashboardPage
<1> DEFINE c == NextCursor(rows)
           last == c = Null
<1>2. ~walk.ended /\ walk.kind \in {"api", "dashboard"} /\ Turn(rows, c, last) /\ QueueIInv
  BY <1>1 DEF DashboardPage, PagesIInv
<1>3. Cardinality(rows) > PageSize => c = Oldest(Shown(rows)) /\ Shown(rows) # {} /\ c # Null
  <2>1. ASSUME Cardinality(rows) > PageSize
        PROVE  c = Oldest(Shown(rows)) /\ Shown(rows) # {} /\ c \in JobId
    BY <1>2, <2>1, PageSays DEF NextCursor
  <2> QED
    BY <2>1, IdsAreNumbers
<1>4. ~(Cardinality(rows) > PageSize) => c = Null /\ (Whole(rows) => Shown(rows) = Remaining)
  <2>1. Cardinality(rows) \in Nat /\ PageSize \in Nat
    BY <1>2, PageSays, JobPagesAssumption
  <2> QED
    BY <1>2, <2>1, PageSays DEF NextCursor
<1>5. last \in BOOLEAN /\ (last <=> c = Null)
  OBVIOUS
<1> HIDE DEF last, c
<1> QED
  BY <1>2, <1>3, <1>4, <1>5, TurnKeeps

LEMMA BeginWalkStep ==
  ASSUME PagesIInv, NEW kind \in {"api", "dashboard"}, NEW f \in Filters, BeginWalk(kind, f)
  PROVE  PagesIInv'
<1>1. walk' = [kind |-> kind, filter |-> f, after |-> Null, page |-> {}, listed |-> {},
               ended |-> FALSE, whole |-> TRUE]
  BY DEF BeginWalk, NoWalk
<1>2. UNCHANGED vars /\ steady' = Matching(jobs, f)
  BY DEF BeginWalk, vars
<1>3. QueueIInv'
  BY <1>2, QueueInvariantKept DEF PagesIInv
<1>4. WalkType'
  BY <1>1 DEF WalkType
<1>5. CursorOK' /\ PagesDescend' /\ SteadyJobsListed'
  BY <1>1 DEF CursorOK, PagesDescend, SteadyJobsListed
<1>6. walk' # NoWalk /\ walk'.filter = f
  BY <1>1 DEF NoWalk
<1>7. SteadyOK'
  BY <1>2, <1>6 DEF SteadyOK, Matching, vars
<1> QED
  BY <1>3, <1>4, <1>5, <1>7 DEF PagesIInv

LEMMA QueueStepStep ==
  ASSUME PagesIInv, QueueStep
  PROVE  PagesIInv'
<1>1. walk' = walk /\ [Next]_vars
      /\ steady' = IF walk = NoWalk THEN {} ELSE steady \cap Matching(jobs', walk.filter)
  BY DEF QueueStep
<1>2. QueueIInv'
  BY <1>1, QueueInvariantKept DEF PagesIInv
<1>3. WalkType' /\ CursorOK' /\ PagesDescend'
  BY <1>1 DEF PagesIInv, WalkType, CursorOK, PagesDescend
<1>4. SteadyOK'
  BY <1>1 DEF SteadyOK, Matching
<1>5. steady' \subseteq steady
  BY <1>1
<1>6. SteadyJobsListed'
  BY <1>1, <1>5 DEF PagesIInv, SteadyJobsListed
<1> QED
  BY <1>2, <1>3, <1>4, <1>6 DEF PagesIInv

LEMMA PagesInitEstablishes == PagesInit => PagesIInv
<1> SUFFICES ASSUME PagesInit PROVE PagesIInv
  OBVIOUS
<1>1. QueueIInv /\ walk = NoWalk /\ steady = {}
  BY QueueInvariantInit DEF PagesInit
<1>2. WalkType
  BY <1>1 DEF WalkType, NoWalk
<1>3. CursorOK /\ SteadyOK /\ PagesDescend /\ SteadyJobsListed
  BY <1>1 DEF CursorOK, SteadyOK, PagesDescend, SteadyJobsListed, NoWalk
<1> QED
  BY <1>1, <1>2, <1>3 DEF PagesIInv

LEMMA PagesStep ==
  ASSUME PagesIInv, [PagesNext]_pageVars
  PROVE  PagesIInv'
<1>1. CASE UNCHANGED pageVars
  <2>1. UNCHANGED vars /\ UNCHANGED <<walk, steady>>
    BY <1>1 DEF pageVars, vars
  <2>2. QueueIInv'
    BY <2>1, QueueInvariantKept DEF PagesIInv
  <2> QED
    BY <2>1, <2>2 DEF PagesIInv, WalkType, CursorOK, SteadyOK, Matching, PagesDescend,
       SteadyJobsListed, vars
<1> QED
  BY <1>1, BeginWalkStep, ApiPageStep, DashboardPageStep, QueueStepStep DEF PagesNext

\* The inductive invariant of the walks.
THEOREM PagesInvariantHolds == PagesSpec => []PagesIInv
  BY PagesInitEstablishes, PagesStep, PTL DEF PagesSpec

\* Whatever is created or changed during a walk, no job is shown twice and
\* every page is older than all before it (ListJobs, for every page size and
\* both kinds of readers).
THEOREM PagesGoDown == PagesSpec => []PagesDescend
<1>1. PagesIInv => PagesDescend
  BY DEF PagesIInv
<1> QED
  BY <1>1, PagesInvariantHolds, PTL

\* A job that matches the filter throughout a walk is not passed over: the
\* cursors of ListJobs and Index leave no gap between two pages, and neither
\* way of telling the last page ends a walk too early.
THEOREM SteadyJobsAreListed == PagesSpec => []SteadyJobsListed
<1>1. PagesIInv => SteadyJobsListed
  BY DEF PagesIInv
<1> QED
  BY <1>1, PagesInvariantHolds, PTL
-----------------------------------------------------------------------------
(* Views. *)

\* Decoding gives back what was encoded.
LEMMA DecodingSays ==
  ASSUME NEW r \in JobRow
  PROVE  /\ AttemptErrors(ErrorsColumn(r)) = r.errors
         /\ r.errors # <<>> => LastError(ErrorsColumn(r)) = r.errors[Len(r.errors)]
<1> DEFINE column == ErrorsColumn(r)
<1>1. r.errors \in Seq({"failed", "lock_expired"})
  BY DEF JobRow
<1>2. \A m, zero : Field(Entry(m), "message", zero) = m
  BY DEF Field, Entry
<1>3. DOMAIN column = DOMAIN r.errors /\ \A i \in DOMAIN r.errors : column[i] = Entry(r.errors[i])
  BY DEF ErrorsColumn
<1>4. Len(column) = Len(r.errors)
  <2>1. column = [i \in 1 .. Len(r.errors) |-> Entry(r.errors[i])] /\ Len(r.errors) \in Nat
    BY <1>1 DEF ErrorsColumn
  <2> HIDE DEF column
  <2> QED
    BY <2>1
<1> HIDE DEF column
<1>5. AttemptErrors(column) = [i \in DOMAIN r.errors |-> r.errors[i]]
  BY <1>2, <1>3 DEF AttemptErrors
<1>6. [i \in DOMAIN r.errors |-> r.errors[i]] = r.errors
  BY <1>1
<1>7. ASSUME r.errors # <<>>
      PROVE  LastError(column) = r.errors[Len(r.errors)]
  <2>1. Len(r.errors) \in DOMAIN r.errors
    BY <1>1, <1>7
  <2>2. column # <<>>
    BY <1>3, <2>1
  <2> QED
    BY <1>2, <1>3, <1>4, <2>1, <2>2 DEF LastError
<1> QED
  BY <1>5, <1>6, <1>7 DEF column

\* GetJob's response to a row.
Response(r) == [status    |-> r.status,
                attempt   |-> r.attempt,
                errors    |-> r.errors,
                result    |-> r.result,
                attempted |-> r.attempted_at,
                finalized |-> r.finalized]

LEMMA ResponseSays ==
  ASSUME NEW t, NEW r, RowOK(r, t)
  PROVE  SeenOf(Response(r), r)
<1>1. r.attempt \in Nat /\ r.errors \in Seq({"failed", "lock_expired"})
      /\ (r.finalized <=> r.status \in Final)
  BY DEF RowOK, JobRow, FinalOK
<1>2. IsPrefix(r.errors, r.errors)
  BY <1>1 DEF IsPrefix
<1> QED
  BY <1>1, <1>2 DEF SeenOf, Response

LEMMA PrefixGrows ==
  ASSUME NEW S, NEW a \in Seq(S), NEW b \in Seq(S), NEW c \in Seq(S),
         IsPrefix(a, b), Len(b) <= Len(c), \A i \in 1 .. Len(b) : c[i] = b[i]
  PROVE  IsPrefix(a, c)
<1>1. Len(a) \in Nat /\ Len(b) \in Nat /\ Len(c) \in Nat /\ DOMAIN a = 1 .. Len(a)
  OBVIOUS
<1>2. Len(a) <= Len(b) /\ \A i \in 1 .. Len(a) : a[i] = b[i]
  BY <1>1 DEF IsPrefix
<1>3. Len(a) <= Len(c)
  BY <1>1, <1>2
<1>4. \A i \in 1 .. Len(a) : i \in 1 .. Len(b)
  BY <1>1, <1>2
<1>5. \A i \in 1 .. Len(a) : a[i] = c[i]
  BY <1>2, <1>4
<1> QED
  BY <1>1, <1>3, <1>5 DEF IsPrefix

\* A response is still right of a row that has gone on.
LEMMA SeenOfLater ==
  ASSUME NEW v, NEW r \in JobRow, NEW s \in JobRow, SeenOf(v, r), Grown(r, s),
         r.status \in Final => s = r
  PROVE  SeenOf(v, s)
<1>1. v.attempt \in Nat /\ r.attempt \in Nat /\ s.attempt \in Nat
      /\ v.errors \in Seq({"failed", "lock_expired"})
      /\ r.errors \in Seq({"failed", "lock_expired"})
      /\ s.errors \in Seq({"failed", "lock_expired"})
  BY DEF SeenOf, JobRow
<1>2. v.attempt <= s.attempt
  BY <1>1 DEF SeenOf, Grown
<1>3. IsPrefix(v.errors, s.errors)
  BY <1>1, PrefixGrows DEF SeenOf, Grown
<1>4. v.status \in Final => s = r
  BY DEF SeenOf
<1> QED
  BY <1>1, <1>2, <1>3, <1>4 DEF SeenOf

LEMMA GetJobSays ==
  ASSUME ViewsIInv, NEW id \in JobId, GetJob(id)
  PROVE  /\ id \in DOMAIN jobs /\ RowOK(jobs[id], now)
         /\ job'[id] = Response(jobs[id])
         /\ job' = [i \in JobId |-> job'[i]]
         /\ \A i \in JobId : i # id => job'[i] = job[i]
         /\ UNCHANGED <<vars, state>>
<1>1. id \in DOMAIN jobs /\ RowOK(jobs[id], now) /\ jobs[id] \in JobRow
  BY DEF GetJob, ViewsIInv, IInv, RowsOK, RowOK
<1>2. AttemptErrors(ErrorsColumn(jobs[id])) = jobs[id].errors
  BY <1>1, DecodingSays
<1>3. job' = [job EXCEPT ![id] = Response(jobs[id])] /\ job = [i \in JobId |-> job[i]]
  BY <1>2 DEF GetJob, Response, ViewsIInv, ResponsesOK
<1>4. UNCHANGED <<vars, state>>
  BY DEF GetJob, QueueOnly, vars
<1> QED
  BY <1>1, <1>3, <1>4

LEMMA FailuresCountedKept ==
  ASSUME IInv, FailuresCounted, [Next]_vars
  PROVE  FailuresCounted'
<1> SUFFICES ASSUME NEW id \in DOMAIN jobs', jobs'[id].status \in {"retryable", "discarded"}
             PROVE  jobs'[id].attempt > 0
  BY DEF FailuresCounted
<1>1. CASE id \notin DOMAIN jobs
  BY <1>1, NewRowsWait DEF NewRowsFresh, Waiting
<1>2. CASE id \in DOMAIN jobs
  <2> DEFINE r == jobs[id]
             s == jobs'[id]
  <2>1. r \in JobRow /\ AttemptsOK(r) /\ now \in Nat
    BY <1>2 DEF IInv, ControlOK, RowsOK, RowOK
  <2>2. r.attempt \in Nat /\ Len(r.errors) \in Nat
    BY <2>1 DEF JobRow
  <2>3. Grown(r, s) /\ (Managed(r, s, now) \/ \E c \in Caller : Worked(r, s, c, now - RowWait, now))
    BY <1>2, RowsGrow, EveryStepOnRows DEF RowsStepped
  <2>4. s.attempt \in Nat
    BY StepKeepsInvariant DEF IInv, RowsOK, RowOK, JobRow
  <2>5. r.attempt <= s.attempt
    BY <2>3 DEF Grown
  <2>6. r.status \in {"retryable", "discarded"} => r.attempt > 0
    BY <1>2 DEF FailuresCounted
  <2>7. s.status \in {"retryable", "discarded"}
    OBVIOUS
  <2> HIDE DEF r, s
  <2>8. r.status = "running" \/ r.status \in {"retryable", "discarded"}
    <3>1. ASSUME NEW c, NEW at,
                 s \in {ClaimedRow(r, c, now), CompletedRow(r, c), ReleasedRow(r, at),
                        PromotedRow(r), CancelledRow(r)}
          PROVE  FALSE
      BY <2>1, <2>7, <3>1
         DEF JobRow, ClaimedRow, CompletedRow, ReleasedRow, PromotedRow, CancelledRow
    <3> QED
      BY <2>3, <2>7, <3>1 DEF Managed, Worked
  <2>9. r.status = "running" => r.attempt > 0
    BY <2>1, <2>2 DEF AttemptsOK
  <2>10. s.attempt > 0
    BY <2>2, <2>4, <2>5, <2>6, <2>8, <2>9
  <2> QED
    BY <2>10 DEF s
<1> QED
  BY <1>1, <1>2

LEMMA ViewsInitEstablishes == ViewsInit => ViewsIInv
<1> SUFFICES ASSUME ViewsInit PROVE ViewsIInv
  OBVIOUS
<1>1. IInv /\ DOMAIN jobs = {}
  BY InitEstablishes DEF ViewsInit, Init
<1>2. ResponsesOK
  BY DEF ViewsInit, Unread, ResponsesOK
<1> QED
  BY <1>1, <1>2 DEF ViewsIInv, FailuresCounted

LEMMA ViewsStep ==
  ASSUME ViewsIInv, [ViewsNext]_viewVars
  PROVE  ViewsIInv'
<1>1. CASE (Next /\ UNCHANGED <<state, job>>) \/ UNCHANGED viewVars
  <2>1. [Next]_vars /\ UNCHANGED <<state, job>>
    BY <1>1 DEF viewVars, vars
  <2>2. IInv' /\ FailuresCounted' /\ Kept(jobs, jobs')
    BY <2>1, StepKeepsInvariant, FailuresCountedKept DEF ViewsIInv
  <2>3. ASSUME NEW id \in JobId, job[id] # NotRead
        PROVE  id \in DOMAIN jobs' /\ SeenOf(job[id], jobs'[id])
    <3>1. id \in DOMAIN jobs /\ SeenOf(job[id], jobs[id])
      BY <2>3 DEF ViewsIInv, ResponsesOK
    <3>2. id \in DOMAIN jobs' /\ Grown(jobs[id], jobs'[id])
      BY <2>1, <3>1, RowsGrow DEF ViewsIInv
    <3>3. jobs[id] \in JobRow /\ jobs'[id] \in JobRow
      BY <2>2, <3>1, <3>2 DEF ViewsIInv, IInv, RowsOK, RowOK
    <3>4. jobs[id].status \in Final => jobs'[id] = jobs[id]
      BY <2>2, <3>1 DEF Kept
    <3> QED
      BY <3>1, <3>2, <3>3, <3>4, SeenOfLater
  <2>4. ResponsesOK'
    BY <2>1, <2>3 DEF ViewsIInv, ResponsesOK
  <2> QED
    BY <2>2, <2>4 DEF ViewsIInv
<1>2. ASSUME NEW id \in JobId, GetJobState(id)
      PROVE  ViewsIInv'
  <2>1. UNCHANGED <<vars, job>> /\ state' = [i \in JobId |-> state'[i]]
    BY <1>2 DEF GetJobState, QueueOnly, vars, ViewsIInv, ResponsesOK
  <2> QED
    BY <2>1, StepKeepsInvariant, FailuresCountedKept DEF ViewsIInv, ResponsesOK, vars
<1>3. ASSUME NEW id \in JobId, GetJob(id)
      PROVE  ViewsIInv'
  <2>1. /\ id \in DOMAIN jobs /\ SeenOf(job'[id], jobs[id])
        /\ job' = [i \in JobId |-> job'[i]]
        /\ \A i \in JobId : i # id => job'[i] = job[i]
        /\ UNCHANGED <<vars, state>>
    BY <1>3, GetJobSays, ResponseSays
  <2>2. ResponsesOK'
    BY <2>1 DEF ViewsIInv, ResponsesOK, vars
  <2> QED
    BY <2>1, <2>2, StepKeepsInvariant, FailuresCountedKept DEF ViewsIInv, vars
<1> QED
  BY <1>1, <1>2, <1>3 DEF ViewsNext

\* The inductive invariant of the views.
THEOREM ViewsInvariantHolds == ViewsSpec => []ViewsIInv
  BY ViewsInitEstablishes, ViewsStep, PTL DEF ViewsSpec

LEMMA ViewsStepForward ==
  ASSUME ViewsIInv, [ViewsNext]_viewVars, NEW id \in JobId, job[id] # NotRead
  PROVE  /\ job[id].attempt <= job'[id].attempt
         /\ IsPrefix(job[id].errors, job'[id].errors)
         /\ job[id].status \in Final => job'[id] = job[id]
         /\ job[id].finalized => job'[id].finalized
<1>1. SeenOf(job[id], jobs[id])
  BY DEF ViewsIInv, ResponsesOK
<1>2. CASE job'[id] = job[id]
  <2>1. job[id].attempt \in Nat /\ Len(job[id].errors) \in Nat
    BY <1>1 DEF SeenOf
  <2> QED
    BY <1>2, <2>1 DEF IsPrefix
<1>3. CASE GetJob(id)
  <2>1. job'[id] = Response(jobs[id]) /\ RowOK(jobs[id], now)
    BY <1>3, GetJobSays
  <2>2. SeenOf(job'[id], jobs[id])
    BY <2>1, ResponseSays
  <2>3. job[id].status \in Final => job'[id] = job[id]
    BY <1>1, <2>1 DEF SeenOf, Response
  <2> QED
    BY <1>1, <2>1, <2>2, <2>3 DEF SeenOf, Response
<1>4. GetJob(id) \/ job'[id] = job[id]
  <2>1. ASSUME NEW i \in JobId, i # id, GetJob(i)
        PROVE  job'[id] = job[id]
    BY <2>1, GetJobSays
  <2> QED
    BY <2>1 DEF ViewsNext, GetJobState, viewVars
<1> QED
  BY <1>2, <1>3, <1>4

\* A poller of GetJob sees attempts counted up, errors appended and nothing
\* after a final status, for every number of pollers, jobs and attempts.
THEOREM PollersSeeProgress == ViewsSpec => ViewsGoForward
<1> DEFINE Forward == \A id \in JobId : job[id] # NotRead =>
                         /\ job[id].attempt <= job'[id].attempt
                         /\ IsPrefix(job[id].errors, job'[id].errors)
                         /\ job[id].status \in Final => job'[id] = job[id]
                         /\ job[id].finalized => job'[id].finalized
<1>1. ViewsIInv /\ [ViewsNext]_viewVars => [Forward]_viewVars
  BY ViewsStepForward
<1> HIDE DEF Forward
<1>2. ViewsSpec => [][Forward]_viewVars
  BY <1>1, ViewsInvariantHolds, PTL DEF ViewsSpec
<1> QED
  BY <1>2 DEF ViewsGoForward, Forward

LEMMA ViewsStepExplains ==
  ASSUME ViewsIInv, [ViewsNext]_viewVars, NEW id \in JobId,
         state'[id] # state[id], state'[id].status \in {"retryable", "discarded"}
  PROVE  state'[id].error = jobs[id].errors[jobs[id].attempt]
<1>1. GetJobState(id)
  <2>1. state = [i \in JobId |-> state[i]]
    BY DEF ViewsIInv, ResponsesOK
  <2>2. ASSUME NEW i \in JobId, i # id, GetJobState(i)
        PROVE  FALSE
    BY <2>1, <2>2 DEF GetJobState
  <2> QED
    BY <2>2 DEF ViewsNext, GetJob, viewVars
<1> DEFINE r == jobs[id]
           response == [status |-> r.status, error |-> LastError(ErrorsColumn(r))]
<1>2. id \in DOMAIN jobs /\ state'[id] = response
  BY <1>1 DEF GetJobState, ViewsIInv, ResponsesOK
<1>3. r \in JobRow /\ AttemptsOK(r)
  BY <1>2 DEF ViewsIInv, IInv, RowsOK, RowOK
<1>4. r.status \in {"retryable", "discarded"} /\ r.attempt > 0
  BY <1>2 DEF ViewsIInv, FailuresCounted
<1>5. Len(r.errors) = r.attempt
  BY <1>3, <1>4 DEF AttemptsOK, Waiting
<1>6. r.errors # <<>>
  BY <1>4, <1>5
<1>7. LastError(ErrorsColumn(r)) = r.errors[Len(r.errors)]
  BY <1>3, <1>6, DecodingSays
<1> QED
  BY <1>2, <1>5, <1>7

\* GetJobState explains every failure it reports: the message is that of the
\* attempt that was counted last.
THEOREM FailuresExplained == ViewsSpec => StateExplainsFailure
<1> DEFINE Explained == \A id \in JobId :
                           state'[id] # state[id] /\ state'[id].status \in {"retryable", "discarded"}
                           => state'[id].error = jobs[id].errors[jobs[id].attempt]
<1>1. ViewsIInv /\ [ViewsNext]_viewVars => [Explained]_viewVars
  BY ViewsStepExplains
<1> HIDE DEF Explained
<1>2. ViewsSpec => [][Explained]_viewVars
  BY <1>1, ViewsInvariantHolds, PTL DEF ViewsSpec
<1> QED
  BY <1>2 DEF StateExplainsFailure, Explained
-----------------------------------------------------------------------------
(* Reads of several statements. *)

\* The jobs of some queues, and of one more.
LEMMA JobsOfSays ==
  ASSUME NEW table, IsFiniteSet(DOMAIN table)
  PROVE  /\ Cardinality(DOMAIN table) \in Nat
         /\ JobsOf(table, {}) = {}
         /\ \A names : /\ IsFiniteSet(JobsOf(table, names))
                       /\ Cardinality(JobsOf(table, names)) \in Nat
                       /\ Cardinality(JobsOf(table, names)) <= Cardinality(DOMAIN table)
         /\ \A names, q : q \notin names =>
               Cardinality(JobsOf(table, names \cup {q}))
               = Cardinality(JobsOf(table, names)) + Cardinality(JobsOf(table, {q}))
<1>1. ASSUME NEW names
      PROVE  /\ IsFiniteSet(JobsOf(table, names))
             /\ Cardinality(JobsOf(table, names)) \in Nat
             /\ Cardinality(JobsOf(table, names)) <= Cardinality(DOMAIN table)
  <2>1. JobsOf(table, names) \in SUBSET DOMAIN table
    BY DEF JobsOf
  <2> QED
    BY <2>1, FS_Subset, FS_CardinalityType
<1>2. ASSUME NEW names, NEW q, q \notin names
      PROVE  Cardinality(JobsOf(table, names \cup {q}))
             = Cardinality(JobsOf(table, names)) + Cardinality(JobsOf(table, {q}))
  <2> DEFINE A == JobsOf(table, names)
             B == JobsOf(table, {q})
  <2>1. JobsOf(table, names \cup {q}) = A \cup B /\ A \cap B = {}
    BY <1>2 DEF JobsOf
  <2>2. IsFiniteSet(A) /\ IsFiniteSet(B) /\ Cardinality(A) \in Nat /\ Cardinality(B) \in Nat
    BY <1>1
  <2> HIDE DEF A, B
  <2>3. Cardinality(A \cup B) = Cardinality(A) + Cardinality(B) - Cardinality(A \cap B)
    BY <2>2, FS_Union
  <2>4. Cardinality(A \cap B) = 0
    BY <2>1, FS_EmptySet
  <2>5. Cardinality(A \cup B) = Cardinality(A) + Cardinality(B)
    BY <2>2, <2>3, <2>4
  <2> QED
    BY <2>1, <2>5 DEF A, B
<1>3. Cardinality(DOMAIN table) \in Nat /\ JobsOf(table, {}) = {}
  BY FS_CardinalityType DEF JobsOf
<1> QED
  BY <1>1, <1>2, <1>3

\* What was gathered of a table is still right of one with more jobs.
LEMMA GatheredLater ==
  ASSUME NEW table, NEW next, IsFiniteSet(DOMAIN table), IsFiniteSet(DOMAIN next),
         Kept(table, next), NEW f, GatheredOK(f, table)
  PROVE  GatheredOK(f, next)
<1>1. DOMAIN table \in SUBSET DOMAIN next
      /\ \A names : JobsOf(table, names) \in SUBSET JobsOf(next, names)
  BY DEF Kept, JobsOf
<1>2. Cardinality(DOMAIN table) <= Cardinality(DOMAIN next)
  BY <1>1, FS_Subset
<1>3. \A names : Cardinality(JobsOf(table, names)) <= Cardinality(JobsOf(next, names))
  BY <1>1, JobsOfSays, FS_Subset
<1>4. f \in ReadType
  BY DEF GatheredOK
<1>5. /\ f.before \in Nat /\ f.sum \in Nat
      /\ Cardinality(DOMAIN table) \in Nat /\ Cardinality(DOMAIN next) \in Nat
      /\ \A names : /\ Cardinality(JobsOf(table, names)) \in Nat
                    /\ Cardinality(JobsOf(next, names)) \in Nat
  BY <1>4, JobsOfSays DEF ReadType
<1>6. ASSUME f.op = "queues"
      PROVE  ListingOK(f, next)
  <2>1. ListingOK(f, table)
    BY <1>6 DEF GatheredOK
  <2>2. f.before <= Cardinality(DOMAIN next)
        /\ (f.stage = "done" => f.sum <= Cardinality(DOMAIN next))
    BY <1>2, <1>5, <2>1 DEF ListingOK
  <2>3. ASSUME f.stage = "counts" \/ (f.stage = "names" /\ f.rows)
        PROVE  /\ f.whole => f.before <= f.sum + Cardinality(JobsOf(next, f.todo))
               /\ f.sum <= Cardinality(JobsOf(next, QueueName \ f.todo))
    <3> DEFINE a == Cardinality(JobsOf(table, f.todo))
               b == Cardinality(JobsOf(next, f.todo))
               c == Cardinality(JobsOf(table, QueueName \ f.todo))
               d == Cardinality(JobsOf(next, QueueName \ f.todo))
    <3>1. (f.whole => f.before <= f.sum + a) /\ f.sum <= c
      BY <2>1, <2>3 DEF ListingOK
    <3>2. a <= b /\ c <= d /\ a \in Nat /\ b \in Nat /\ c \in Nat /\ d \in Nat
      BY <1>3, <1>5
    <3> HIDE DEF a, b, c, d
    <3>3. (f.whole => f.before <= f.sum + b) /\ f.sum <= d
      BY <1>5, <3>1, <3>2
    <3> QED
      BY <3>3 DEF b, d
  <2> QED
    BY <2>1, <2>2, <2>3 DEF ListingOK
<1>7. ASSUME f.op = "index"
      PROVE  IndexOK(f, next)
  BY <1>1, <1>7 DEF GatheredOK, IndexOK
<1> QED
  BY <1>4, <1>6, <1>7 DEF GatheredOK

LEMMA BeginReadStep ==
  ASSUME ReadsIInv, NEW r \in Reader, NEW op \in {"index", "queue", "queues"},
         NEW q \in QueueName \cup {Null}, op = "queue" => q \in QueueName, BeginRead(r, op, q)
  PROVE  ReadsIInv'
<1> DEFINE stage == CASE op = "index"  -> IndexStages[1]
                      [] op = "queue"  -> "counts"
                      [] op = "queues" -> "names"
           todo == IF op = "queue" THEN {q} ELSE {}
           count == Cardinality(DOMAIN jobs)
           f == [NoRead EXCEPT !.op = op, !.queue = q, !.stage = stage, !.todo = todo,
                               !.before = count]
<1>1. read' = [read EXCEPT ![r] = f] /\ UNCHANGED vars
  BY DEF BeginRead, vars
<1>2. count \in Nat
  BY JobsOfSays DEF ReadsIInv, QueueIInv, TableFinite
<1>3. stage \in {"list", "counts", "names"}
      /\ (op = "index" => stage = "list") /\ (op = "queues" => stage = "names")
  BY DEF IndexStages
<1>4. todo \in SUBSET QueueName
  OBVIOUS
<1>5. NoRead \in ReadType /\ ~NoRead.rows /\ NoRead.sum = 0 /\ NoRead.page = {}
  BY DEF NoRead, ReadType
<1>6. /\ f \in ReadType
      /\ f.before = count /\ f.stage = stage /\ f.op = op /\ ~f.rows /\ f.sum = 0 /\ f.page = {}
  <2> HIDE DEF stage, todo, count
  <2> QED
    BY <1>2, <1>3, <1>4, <1>5 DEF ReadType
<1>7. count = Cardinality(DOMAIN jobs)
  OBVIOUS
<1> HIDE DEF stage, f, count
<1>8. GatheredOK(f, jobs)
  BY <1>2, <1>3, <1>6, <1>7 DEF GatheredOK, ListingOK, IndexOK
<1>9. QueueIInv'
  BY <1>1, QueueInvariantKept DEF ReadsIInv
<1>10. ReadsOK'
  BY <1>1, <1>8 DEF ReadsIInv, ReadsOK, vars
<1> QED
  BY <1>9, <1>10 DEF ReadsIInv

\* The counts that were read are of jobs that are there; all of them, when
\* every row was read.
LEMMA TotalSays ==
  ASSUME NEW ids, IsFiniteSet(ids), NEW seen
  PROVE  /\ TotalOf(ids, seen) \in Nat
         /\ TotalOf(ids, seen) <= Cardinality(ids)
         /\ seen = Groups(ids) => TotalOf(ids, seen) = Cardinality(ids)
<1> DEFINE counted == {id \in ids : jobs[id].status \in seen}
<1>1. counted \in SUBSET ids /\ TotalOf(ids, seen) = Cardinality(counted)
  BY DEF TotalOf
<1>2. seen = Groups(ids) => counted = ids
  BY DEF Groups
<1> HIDE DEF counted
<1> QED
  BY <1>1, <1>2, FS_Subset, FS_CardinalityType

LEMMA GotSays ==
  ASSUME NEW f \in ReadType, NEW all \in BOOLEAN
  PROVE  /\ Got(f, all) \in ReadType
         /\ Got(f, all).rows
         /\ Got(f, all).whole <=> f.whole /\ all
         /\ Got(f, all).op = f.op /\ Got(f, all).stage = f.stage /\ Got(f, all).todo = f.todo
         /\ Got(f, all).sum = f.sum /\ Got(f, all).page = f.page /\ Got(f, all).before = f.before
<1> DEFINE whole == f.whole /\ all
<1>1. Got(f, all) = [f EXCEPT !.rows = TRUE, !.whole = whole]
  BY DEF Got
<1>2. whole \in BOOLEAN
  BY DEF ReadType
<1> HIDE DEF whole
<1>3. /\ Got(f, all) \in ReadType
      /\ Got(f, all).rows = TRUE /\ Got(f, all).whole = whole
      /\ Got(f, all).op = f.op /\ Got(f, all).stage = f.stage /\ Got(f, all).todo = f.todo
      /\ Got(f, all).sum = f.sum /\ Got(f, all).page = f.page /\ Got(f, all).before = f.before
  BY <1>1, <1>2 DEF ReadType
<1> QED
  BY <1>3 DEF whole

LEMMA CountedSays ==
  ASSUME NEW f \in ReadType, NEW ids, IsFiniteSet(ids), NEW seen
  PROVE  LET g == Counted(f, ids, seen)
         IN  /\ g \in ReadType /\ g.rows
             /\ g.op = f.op /\ g.stage = f.stage /\ g.todo = f.todo
             /\ g.page = f.page /\ g.before = f.before
             /\ g.sum <= f.sum + Cardinality(ids)
             /\ g.whole => f.whole /\ g.sum = f.sum + Cardinality(ids)
<1> DEFINE total == TotalOf(ids, seen)
           sum == f.sum + total
           h == [f EXCEPT !.sum = sum]
           all == seen = Groups(ids)
<1>1. Counted(f, ids, seen) = Got(h, all) /\ all \in BOOLEAN
  BY DEF Counted
<1>2. /\ total \in Nat /\ total <= Cardinality(ids) /\ Cardinality(ids) \in Nat
      /\ all => total = Cardinality(ids)
  BY TotalSays, FS_CardinalityType
<1> HIDE DEF total, all
<1>3. /\ f.sum \in Nat /\ sum \in Nat /\ sum <= f.sum + Cardinality(ids)
      /\ all => sum = f.sum + Cardinality(ids)
  BY <1>2 DEF ReadType
<1> HIDE DEF sum
<1>4. /\ h \in ReadType
      /\ h.op = f.op /\ h.stage = f.stage /\ h.todo = f.todo /\ h.sum = sum
      /\ h.page = f.page /\ h.before = f.before /\ h.whole = f.whole
  BY <1>3 DEF ReadType
<1> HIDE DEF h
<1> QED
  BY <1>1, <1>3, <1>4, GotSays

\* What a reader has gathered when the statement of its stage has run.
Queried(f, g) ==
  /\ f.stage # "done" /\ ~f.rows
  /\ \/ f.stage = "list" /\ \E page \in SUBSET DOMAIN jobs : g = Got([f EXCEPT !.page = page], TRUE)
     \/ f.stage = "total" /\ \E seen : g = Counted(f, DOMAIN jobs, seen)
     \/ f.stage = "names" /\ \E names \in SUBSET queues :
           g = Got([f EXCEPT !.todo = names], names = queues)
     \/ f.stage = "counts" /\ \E q \in f.todo : \E seen :
           g = Counted([f EXCEPT !.todo = f.todo \ {q}], JobsIn(q), seen)
     \/ f.stage = "paused" /\ \E p \in BOOLEAN : g = Got([f EXCEPT !.paused = p], TRUE)

LEMMA QuerySays ==
  ASSUME ReadsOK, NEW r \in Reader, Query(r)
  PROVE  /\ Queried(read[r], read'[r])
         /\ read' = [i \in Reader |-> read'[i]]
         /\ \A i \in Reader : i # r => read'[i] = read[i]
         /\ UNCHANGED vars
<1> DEFINE f == read[r]
<1>1. read = [i \in Reader |-> read[i]]
  BY DEF ReadsOK
<1>2. UNCHANGED vars /\ f.stage # "done" /\ ~f.rows
  BY DEF Query, vars
<1>3. ASSUME NEW g, read' = [read EXCEPT ![r] = g]
      PROVE  /\ read'[r] = g
             /\ read' = [i \in Reader |-> read'[i]]
             /\ \A i \in Reader : i # r => read'[i] = read[i]
  BY <1>1, <1>3
<1>4. \E g : read' = [read EXCEPT ![r] = g] /\ Queried(f, g)
  <2>1. ASSUME f.stage = "list", NEW page \in SUBSET DOMAIN jobs,
               read' = [read EXCEPT ![r] = Got([f EXCEPT !.page = page], TRUE)]
        PROVE  \E g : read' = [read EXCEPT ![r] = g] /\ Queried(f, g)
    BY <1>2, <2>1 DEF Queried
  <2>2. ASSUME f.stage = "total", NEW seen, read' = [read EXCEPT ![r] = Counted(f, DOMAIN jobs, seen)]
        PROVE  \E g : read' = [read EXCEPT ![r] = g] /\ Queried(f, g)
    BY <1>2, <2>2 DEF Queried
  <2>3. ASSUME f.stage = "names", NEW names \in SUBSET queues,
               read' = [read EXCEPT ![r] = Got([f EXCEPT !.todo = names], names = queues)]
        PROVE  \E g : read' = [read EXCEPT ![r] = g] /\ Queried(f, g)
    BY <1>2, <2>3 DEF Queried
  <2>4. ASSUME f.stage = "counts", NEW q \in f.todo, NEW seen,
               read' = [read EXCEPT ![r] = Counted([f EXCEPT !.todo = f.todo \ {q}], JobsIn(q), seen)]
        PROVE  \E g : read' = [read EXCEPT ![r] = g] /\ Queried(f, g)
    BY <1>2, <2>4 DEF Queried
  <2>5. ASSUME f.stage = "paused", NEW p \in BOOLEAN,
               read' = [read EXCEPT ![r] = Got([f EXCEPT !.paused = p], TRUE)]
        PROVE  \E g : read' = [read EXCEPT ![r] = g] /\ Queried(f, g)
    BY <1>2, <2>5 DEF Queried
  <2> QED
    BY <2>1, <2>2, <2>3, <2>4, <2>5 DEF Query
<1> QED
  BY <1>2, <1>3, <1>4

LEMMA QueriedOK ==
  ASSUME ReadsIInv, NEW f, GatheredOK(f, jobs), NEW g, Queried(f, g)
  PROVE  GatheredOK(g, jobs)
<1> DEFINE count == Cardinality(DOMAIN jobs)
           of(names) == Cardinality(JobsOf(jobs, names))
<1>1. f \in ReadType /\ ~f.rows /\ f.stage # "done"
  BY DEF GatheredOK, Queried
<1>2. f.before \in Nat /\ f.sum \in Nat /\ f.todo \subseteq QueueName /\ f.page \subseteq JobId
  BY <1>1 DEF ReadType
<1>3. /\ IsFiniteSet(DOMAIN jobs) /\ DOMAIN jobs \subseteq JobId
      /\ queues \subseteq QueueName /\ \A id \in DOMAIN jobs : jobs[id].queue \in queues
  BY DEF ReadsIInv, QueueIInv, TableFinite, IInv, RowsOK, ControlOK, QueuesOK
<1>4. count \in Nat /\ (\A names : of(names) \in Nat /\ of(names) <= count)
  BY <1>3, JobsOfSays
<1>5. \A names, q : q \notin names => of(names \cup {q}) = of(names) + of({q})
  BY <1>3, JobsOfSays
<1>6. of(queues) = count
  BY <1>3 DEF JobsOf
<1>7. \A q : JobsIn(q) = JobsOf(jobs, {q}) /\ IsFiniteSet(JobsIn(q))
  <2>1. \A q : JobsIn(q) = JobsOf(jobs, {q})
    BY DEF JobsIn, JobsOf
  <2> QED
    BY <1>3, <2>1, JobsOfSays
<1>8. f.op = "queues" => ListingOK(f, jobs)
  BY DEF GatheredOK
<1>9. f.op = "index" => IndexOK(f, jobs)
  BY DEF GatheredOK
<1>10. ASSUME f.stage = "list", NEW page \in SUBSET DOMAIN jobs, g = Got([f EXCEPT !.page = page], TRUE)
       PROVE  GatheredOK(g, jobs)
  <2> DEFINE h == [f EXCEPT !.page = page]
  <2>1. h \in ReadType /\ h.op = f.op /\ h.stage = f.stage /\ h.page = page /\ h.sum = f.sum
    BY <1>1, <1>3, <1>10 DEF ReadType
  <2>2. g = Got(h, TRUE)
    BY <1>10
  <2> HIDE DEF h
  <2>3. g \in ReadType /\ g.op = f.op /\ g.stage = f.stage /\ g.page = page /\ g.sum = f.sum
    BY <2>1, <2>2, GotSays
  <2>4. f.op # "queues"
    BY <1>8, <1>10 DEF ListingOK
  <2> QED
    BY <1>9, <1>10, <2>3, <2>4 DEF GatheredOK, IndexOK
<1>11. ASSUME f.stage = "total", NEW seen, g = Counted(f, DOMAIN jobs, seen)
       PROVE  GatheredOK(g, jobs)
  <2>1. /\ g \in ReadType /\ g.op = f.op /\ g.stage = f.stage /\ g.page = f.page /\ g.rows
        /\ g.whole => g.sum = f.sum + count
    BY <1>1, <1>3, <1>11, CountedSays
  <2> HIDE DEF count
  <2>2. f.op # "queues"
    BY <1>8, <1>11 DEF ListingOK
  <2>3. f.op = "index" => Cardinality(f.page) <= count /\ f.sum = 0
    BY <1>1, <1>3, <1>9, <1>11, FS_Subset DEF IndexOK, count
  <2>4. f.op = "index" /\ g.whole => Cardinality(g.page) <= g.sum
    BY <1>4, <2>1, <2>3
  <2> QED
    BY <1>11, <2>1, <2>2, <2>4 DEF GatheredOK, IndexOK
<1>12. ASSUME f.stage = "names", NEW names \in SUBSET queues,
              g = Got([f EXCEPT !.todo = names], names = queues)
       PROVE  GatheredOK(g, jobs)
  <2> DEFINE h == [f EXCEPT !.todo = names]
             all == names = queues
  <2>1. h \in ReadType /\ h.op = f.op /\ h.stage = f.stage /\ h.todo = names
        /\ h.sum = f.sum /\ h.before = f.before
    BY <1>1, <1>3, <1>12 DEF ReadType
  <2>2. g = Got(h, all) /\ all \in BOOLEAN
    BY <1>12
  <2> HIDE DEF h, all
  <2>3. /\ g \in ReadType /\ g.op = f.op /\ g.stage = f.stage /\ g.todo = names /\ g.rows
        /\ g.sum = f.sum /\ g.before = f.before /\ (g.whole => all)
    BY <2>1, <2>2, GotSays
  <2>4. f.op # "index"
    BY <1>9, <1>12 DEF IndexOK
  <2>5. ASSUME f.op = "queues"
        PROVE  ListingOK(g, jobs)
    <3>1. f.before <= count /\ f.sum = 0
      BY <1>1, <1>8, <1>12, <2>5 DEF ListingOK
    <3>2. all => f.before <= f.sum + of(names)
      <4>1. all => of(names) = count
        BY <1>6 DEF all
      <4> HIDE DEF of, count
      <4> QED
        BY <1>2, <1>4, <3>1, <4>1
    <3>3. f.sum <= of(QueueName \ names)
      <4>1. of(QueueName \ names) \in Nat
        BY <1>4
      <4> HIDE DEF of, count
      <4> QED
        BY <3>1, <4>1
    <3> QED
      BY <1>12, <2>3, <3>1, <3>2, <3>3 DEF ListingOK
  <2> QED
    BY <2>3, <2>4, <2>5 DEF GatheredOK
<1>13. ASSUME f.stage = "counts", NEW q \in f.todo, NEW seen,
              g = Counted([f EXCEPT !.todo = f.todo \ {q}], JobsIn(q), seen)
       PROVE  GatheredOK(g, jobs)
  <2> DEFINE todo == f.todo \ {q}
             h == [f EXCEPT !.todo = todo]
             ids == JobsIn(q)
  <2>1. /\ todo \in SUBSET QueueName /\ g = Counted(h, ids, seen)
        /\ Cardinality(ids) = of({q}) /\ IsFiniteSet(ids) /\ of({q}) \in Nat
    BY <1>2, <1>4, <1>7, <1>13
  <2>2. of(f.todo) = of(todo) + of({q})
    <3>1. f.todo = todo \cup {q} /\ q \notin todo
      OBVIOUS
    <3> HIDE DEF todo, of
    <3> QED
      BY <1>5, <3>1
  <2>3. of(QueueName \ todo) = of(QueueName \ f.todo) + of({q})
    <3>1. QueueName \ todo = (QueueName \ f.todo) \cup {q} /\ q \notin QueueName \ f.todo
      BY <1>2
    <3> HIDE DEF todo, of
    <3> QED
      BY <1>5, <3>1
  <2> HIDE DEF todo, ids
  <2>4. h \in ReadType /\ h.op = f.op /\ h.stage = f.stage /\ h.todo = todo
        /\ h.sum = f.sum /\ h.before = f.before /\ h.whole = f.whole
    BY <1>1, <2>1 DEF ReadType
  <2> HIDE DEF h
  <2>5. /\ g \in ReadType /\ g.op = f.op /\ g.stage = f.stage /\ g.todo = todo
        /\ g.before = f.before
        /\ g.sum <= f.sum + Cardinality(ids)
        /\ g.whole => f.whole /\ g.sum = f.sum + Cardinality(ids)
    BY <2>1, <2>4, CountedSays
  <2>6. f.op # "index"
    BY <1>9, <1>13 DEF IndexOK
  <2>7. ASSUME f.op = "queues"
        PROVE  ListingOK(g, jobs)
    <3>1. /\ f.before <= count /\ f.sum <= of(QueueName \ f.todo)
          /\ f.whole => f.before <= f.sum + of(f.todo)
      BY <1>8, <1>13, <2>7 DEF ListingOK
    <3>2. of(todo) \in Nat /\ of(QueueName \ f.todo) \in Nat /\ g.sum \in Nat
      BY <1>4, <2>5 DEF ReadType
    <3>3. (g.whole => f.before <= g.sum + of(todo)) /\ g.sum <= of(QueueName \ todo)
      <4> HIDE DEF of, count
      <4> QED
        BY <1>2, <2>1, <2>2, <2>3, <2>5, <3>1, <3>2
    <3> QED
      BY <1>13, <2>5, <3>1, <3>3 DEF ListingOK
  <2> QED
    BY <2>5, <2>6, <2>7 DEF GatheredOK
<1>14. ASSUME f.stage = "paused", NEW p \in BOOLEAN, g = Got([f EXCEPT !.paused = p], TRUE)
       PROVE  GatheredOK(g, jobs)
  <2> DEFINE h == [f EXCEPT !.paused = p]
  <2>1. h \in ReadType /\ h.op = f.op
    BY <1>1, <1>14 DEF ReadType
  <2>2. g = Got(h, TRUE)
    BY <1>14
  <2> HIDE DEF h
  <2>3. g \in ReadType /\ g.op = f.op
    BY <2>1, <2>2, GotSays
  <2>4. f.op # "queues" /\ f.op # "index"
    BY <1>8, <1>9, <1>14 DEF ListingOK, IndexOK
  <2> QED
    BY <2>3, <2>4 DEF GatheredOK
<1> QED
  BY <1>10, <1>11, <1>12, <1>13, <1>14 DEF Queried

LEMMA DrainedOK ==
  ASSUME ReadsIInv, NEW f, GatheredOK(f, jobs), f.rows,
         NEW g, g = [f EXCEPT !.rows = FALSE, !.stage = NextStage(f)]
  PROVE  GatheredOK(g, jobs)
<1> DEFINE stage == NextStage(f)
           of(names) == Cardinality(JobsOf(jobs, names))
<1>1. f \in ReadType
  BY DEF GatheredOK
<1>2. f.before \in Nat /\ f.sum \in Nat /\ f.todo \subseteq QueueName
  BY <1>1 DEF ReadType
<1>3. stage \in {"total", "counts", "paused", "done"}
  BY DEF NextStage, IndexStages
<1>4. f.op = "queues" => ListingOK(f, jobs)
  BY DEF GatheredOK
<1>5. f.op = "index" => IndexOK(f, jobs)
  BY DEF GatheredOK
<1>6. f.op = "queues" /\ f.stage \in {"names", "counts"} =>
         stage = IF f.todo # {} THEN "counts" ELSE "done"
  BY DEF NextStage, IndexStages
<1>7. f.op = "index" /\ f.stage \in {"list", "total", "done"} =>
         stage = IF f.stage = "list" THEN "total" ELSE "done"
  BY DEF NextStage, IndexStages
<1>8. f.stage = "done" => stage = "done"
  BY DEF NextStage, IndexStages
<1> HIDE DEF stage
<1>9. /\ g \in ReadType /\ g.op = f.op /\ g.stage = stage /\ ~g.rows /\ g.todo = f.todo
      /\ g.sum = f.sum /\ g.before = f.before /\ g.page = f.page
      /\ g.whole = f.whole
  <2>1. g = [f EXCEPT !.rows = FALSE, !.stage = stage]
    BY DEF stage
  <2> QED
    BY <1>1, <1>3, <2>1 DEF ReadType
<1>10. ASSUME f.op = "queues"
       PROVE  ListingOK(g, jobs)
  <2>1. ListingOK(f, jobs)
    BY <1>4, <1>10
  <2>2. CASE f.stage = "done"
    BY <1>8, <1>9, <2>1, <2>2 DEF ListingOK
  <2>3. CASE f.stage \in {"names", "counts"}
    <3>1. (f.whole => f.before <= f.sum + of(f.todo)) /\ f.sum <= of(QueueName \ f.todo)
      BY <2>1, <2>3 DEF ListingOK
    <3>2. IsFiniteSet(DOMAIN jobs)
      BY DEF ReadsIInv, QueueIInv, TableFinite
    <3>3. of({}) = 0 /\ of(QueueName) <= Cardinality(DOMAIN jobs)
          /\ of(QueueName) \in Nat /\ Cardinality(DOMAIN jobs) \in Nat
      BY <3>2, JobsOfSays, FS_EmptySet
    <3>4. ASSUME f.todo = {}
          PROVE  (f.whole => f.before <= f.sum) /\ f.sum <= Cardinality(DOMAIN jobs)
      <4>1. QueueName \ f.todo = QueueName
        BY <3>4
      <4>2. (f.whole => f.before <= f.sum + of({})) /\ f.sum <= of(QueueName)
        BY <3>1, <3>4, <4>1
      <4> HIDE DEF of
      <4> QED
        BY <1>2, <3>3, <4>2
    <3>5. f.before <= Cardinality(DOMAIN jobs)
      BY <2>1 DEF ListingOK
    <3> QED
      BY <1>6, <1>9, <1>10, <2>3, <3>1, <3>4, <3>5 DEF ListingOK
  <2> QED
    BY <2>1, <2>2, <2>3 DEF ListingOK
<1>11. ASSUME f.op = "index"
       PROVE  IndexOK(g, jobs)
  BY <1>5, <1>7, <1>9, <1>11 DEF IndexOK
<1> QED
  BY <1>9, <1>10, <1>11 DEF GatheredOK

LEMMA ReadsInitEstablishes == ReadsInit => ReadsIInv
<1> SUFFICES ASSUME ReadsInit PROVE ReadsIInv
  OBVIOUS
<1>1. QueueIInv /\ read = [r \in Reader |-> NoRead]
  BY QueueInvariantInit DEF ReadsInit
<1>2. GatheredOK(NoRead, jobs)
  BY DEF GatheredOK, ReadType, NoRead
<1>3. ReadsOK
  BY <1>1, <1>2 DEF ReadsOK
<1> QED
  BY <1>1, <1>3 DEF ReadsIInv

LEMMA ReadsStep ==
  ASSUME ReadsIInv, [ReadsNext]_readVars
  PROVE  ReadsIInv'
<1>1. CASE (Next /\ UNCHANGED read) \/ UNCHANGED readVars
  <2>1. [Next]_vars /\ UNCHANGED read
    BY <1>1 DEF readVars, vars
  <2>2. QueueIInv' /\ Kept(jobs, jobs')
    BY <2>1, QueueInvariantKept, StepKeepsInvariant DEF ReadsIInv, QueueIInv
  <2>3. IsFiniteSet(DOMAIN jobs) /\ IsFiniteSet(DOMAIN jobs')
    BY <2>2 DEF ReadsIInv, QueueIInv, TableFinite
  <2>4. \A r \in Reader : GatheredOK(read[r], jobs')
    BY <2>2, <2>3, GatheredLater DEF ReadsIInv, ReadsOK
  <2> QED
    BY <2>1, <2>2, <2>4 DEF ReadsIInv, ReadsOK
<1>2. ASSUME NEW r \in Reader, Query(r)
      PROVE  ReadsIInv'
  <2>1. /\ Queried(read[r], read'[r]) /\ UNCHANGED vars
        /\ read' = [i \in Reader |-> read'[i]]
        /\ \A i \in Reader : i # r => read'[i] = read[i]
    BY <1>2, QuerySays DEF ReadsIInv
  <2>2. GatheredOK(read'[r], jobs)
    BY <2>1, QueriedOK DEF ReadsIInv, ReadsOK
  <2>3. jobs' = jobs /\ \A i \in Reader : GatheredOK(read'[i], jobs)
    BY <2>1, <2>2 DEF ReadsIInv, ReadsOK, vars
  <2>4. QueueIInv'
    BY <2>1, QueueInvariantKept DEF ReadsIInv
  <2> QED
    BY <2>1, <2>3, <2>4 DEF ReadsIInv, ReadsOK
<1>3. ASSUME NEW r \in Reader, Drain(r)
      PROVE  ReadsIInv'
  <2> DEFINE f == read[r]
             g == [f EXCEPT !.rows = FALSE, !.stage = NextStage(f)]
  <2>1. UNCHANGED vars /\ f.rows /\ read = [i \in Reader |-> read[i]]
    BY <1>3 DEF Drain, vars, ReadsIInv, ReadsOK
  <2>2. read' = [read EXCEPT ![r] = g]
    BY <1>3, <2>1 DEF Drain
  <2>3. GatheredOK(g, jobs)
    BY <2>1, DrainedOK DEF ReadsIInv, ReadsOK
  <2> HIDE DEF g
  <2>4. /\ read' = [i \in Reader |-> read'[i]]
        /\ jobs' = jobs /\ \A i \in Reader : GatheredOK(read'[i], jobs)
    BY <2>1, <2>2, <2>3 DEF ReadsIInv, ReadsOK, vars
  <2>5. QueueIInv'
    BY <2>1, QueueInvariantKept DEF ReadsIInv
  <2> QED
    BY <2>4, <2>5 DEF ReadsIInv, ReadsOK
<1>4. ASSUME NEW r \in Reader, QueryFails(r)
      PROVE  ReadsIInv'
  <2>1. UNCHANGED vars /\ read' = [read EXCEPT ![r] = NoRead] /\ read = [i \in Reader |-> read[i]]
    BY <1>4 DEF QueryFails, vars, ReadsIInv, ReadsOK
  <2>2. GatheredOK(NoRead, jobs)
    BY DEF GatheredOK, ReadType, NoRead
  <2>3. /\ read' = [i \in Reader |-> read'[i]]
        /\ jobs' = jobs /\ \A i \in Reader : GatheredOK(read'[i], jobs)
    BY <2>1, <2>2 DEF ReadsIInv, ReadsOK, vars
  <2>4. QueueIInv'
    BY <2>1, QueueInvariantKept DEF ReadsIInv
  <2> QED
    BY <2>3, <2>4 DEF ReadsIInv, ReadsOK
<1> QED
  BY <1>1, <1>2, <1>3, <1>4, BeginReadStep DEF ReadsNext

\* The inductive invariant of the reads of several statements.
THEOREM ReadsInvariantHolds == ReadsSpec => []ReadsIInv
  BY ReadsInitEstablishes, ReadsStep, PTL DEF ReadsSpec

\* ListQueues, one count after the other, accounts for every job there was
\* when it began, unless a result was cut short, and for none that is not
\* there, for every number of queues and readers.
THEOREM ListingIsComplete == ReadsSpec => []ListingCountsEveryJob
<1>1. ReadsIInv => ListingCountsEveryJob
  BY DEF ReadsIInv, ReadsOK, GatheredOK, ListingOK, ListingCountsEveryJob
<1> QED
  BY <1>1, ReadsInvariantHolds, PTL

\* Index counts after it lists, so it never shows more than it counts, unless
\* the counts are not all there.
THEOREM IndexIsWithinTotal == ReadsSpec => []IndexListsWithinTotal
<1>1. ReadsIInv => IndexListsWithinTotal
  BY DEF ReadsIInv, ReadsOK, GatheredOK, IndexOK, IndexListsWithinTotal
<1> QED
  BY <1>1, ReadsInvariantHolds, PTL
=============================================================================
