------------------------------ MODULE JobTable ------------------------------
(***************************************************************************)
(* The rows of the jobs table (internal/db/migrations/postgres/            *)
(* 001_init.sql) and what each statement of PGDriver (internal/service/    *)
(* driver_pg.go) selects and writes: one operator per SET list, one per    *)
(* WHERE clause.  The module has no variables; t stands for NOW(), the     *)
(* database clock when the statement starts.                               *)
(***************************************************************************)
EXTENDS Backoff, Sequences, FiniteSets

CONSTANTS JobId,         \* job ids: ULIDs, ordered, so numbers here
          QueueName,     \* names a queue may have
          Caller,        \* who calls the API: workers and clients
          LockDuration,  \* JOB_LOCK_DURATION
          BatchLimit,    \* the limit both scheduler statements are called with
          Null           \* SQL NULL

ASSUME JobTableAssumption ==
         /\ JobId \subseteq Nat
         /\ LockDuration \in Nat
         /\ BatchLimit \in Nat \ {0}
         /\ Null \notin Int
         /\ Null \notin Caller

Waiting == {"pending", "scheduled", "available", "retryable"}
Final   == {"completed", "discarded", "cancelled"}
Status  == Waiting \cup {"running"} \cup Final

\* Payload, kind, progress and the creation time are carried along and
\* decide nothing; result keeps who supplied it, errors why each attempt
\* failed, finalized that finalized_at is set.
JobRow == [queue           : QueueName,
           status          : Status,
           priority        : 1..4,
           attempt         : Nat,
           max_attempts    : Nat \ {0},
           scheduled_at    : Int,
           attempted_at    : Int \cup {Null},
           lock_expires_at : Int \cup {Null},
           attempted_by    : Seq(Caller),
           errors          : Seq({"failed", "lock_expired"}),
           result          : Caller \cup {Null},
           finalized       : BOOLEAN,
           backoff         : BackoffOptions]
-----------------------------------------------------------------------------
(* The SET lists: the row a statement leaves behind. *)

\* CreateJob: the INSERT and its column defaults.
NewRow(q, status, priority, maxAttempts, scheduledAt, backoff) ==
  [queue           |-> q,
   status          |-> status,
   priority        |-> priority,
   attempt         |-> 0,
   max_attempts    |-> maxAttempts,
   scheduled_at    |-> scheduledAt,
   attempted_at    |-> Null,
   lock_expires_at |-> Null,
   attempted_by    |-> <<>>,
   errors          |-> <<>>,
   result          |-> Null,
   finalized       |-> FALSE,
   backoff         |-> backoff]

\* Mutant of ClaimedRow: the claim does not set the lock.
ClaimedRowUnlocked(r, c, t) ==
  [r EXCEPT !.status = "running", !.attempt = @ + 1, !.attempted_at = t,
            !.attempted_by = Append(@, c)]

\* Mutant of ClaimedRow: the claim does not record who made it.
ClaimedRowAnonymous(r, c, t) ==
  [r EXCEPT !.status = "running", !.attempt = @ + 1, !.attempted_at = t,
            !.lock_expires_at = t + LockDuration]

\* ClaimJob, for the caller with worker id c.
ClaimedRow(r, c, t) ==
  [r EXCEPT !.status          = "running",
            !.attempt         = @ + 1,
            !.attempted_at    = t,
            !.attempted_by    = Append(@, c),
            !.lock_expires_at = t + LockDuration]

\* CompleteJob; lock_expires_at stays as it is.
CompletedRow(r, c) ==
  [r EXCEPT !.status = "completed", !.finalized = TRUE, !.result = c]

\* Mutant of FailedRow: one attempt too many.
FailedRowOffByOne(r, t, delay, message) ==
  IF r.attempt > r.max_attempts
  THEN [r EXCEPT !.status    = "discarded",
                 !.errors    = Append(@, message),
                 !.finalized = TRUE]
  ELSE [r EXCEPT !.status       = "retryable",
                 !.scheduled_at = t + delay,
                 !.errors       = Append(@, message),
                 !.finalized    = FALSE]

\* Mutant of FailedRow: a discarded job is not finalized.
FailedRowOpen(r, t, delay, message) ==
  IF r.attempt >= r.max_attempts
  THEN [r EXCEPT !.status = "discarded", !.errors = Append(@, message)]
  ELSE [r EXCEPT !.status       = "retryable",
                 !.scheduled_at = t + delay,
                 !.errors       = Append(@, message)]

\* FailJob: discard on the last attempt, else retry after the delay.
FailedRow(r, t, delay, message) ==
  IF r.attempt >= r.max_attempts
  THEN [r EXCEPT !.status    = "discarded",
                 !.errors    = Append(@, message),
                 !.finalized = TRUE]
  ELSE [r EXCEPT !.status       = "retryable",
                 !.scheduled_at = t + delay,
                 !.errors       = Append(@, message),
                 !.finalized    = FALSE]

\* Mutant of ExpiredRow: the time of the retry is cleared along with the lock.
ExpiredRowUnscheduled(r, t) ==
  [FailedRow(r, t, 0, "lock_expired") EXCEPT !.lock_expires_at = Null, !.scheduled_at = Null]

\* FailExpiredJobs: as a failure with no delay, and the lock is cleared.
ExpiredRow(r, t) ==
  [FailedRow(r, t, 0, "lock_expired") EXCEPT !.lock_expires_at = Null]

\* Mutant of HeartbeatRow: the progress is written, the lock is not renewed.
HeartbeatRowProgress(r, t) == r

\* HeartbeatJob.
HeartbeatRow(r, t) == [r EXCEPT !.lock_expires_at = t + LockDuration]

\* PromoteJob: a pending job is released, to wait if its time has not come.
ReleasedRow(r, t) ==
  [r EXCEPT !.status = IF r.scheduled_at > t THEN "scheduled" ELSE "available"]

\* PromoteScheduledJobs.
PromotedRow(r) == [r EXCEPT !.status = "available"]

\* CancelJob: COALESCE(finalized_at, NOW()).
CancelledRow(r) == [r EXCEPT !.status = "cancelled", !.finalized = TRUE]
-----------------------------------------------------------------------------
(* The WHERE clauses, over a table: a function from the ids of the rows. *)

\* Mutant of ClaimableIds: the claim ignores scheduled_at.
ClaimableIdsEarly(table, q, t) ==
  {id \in DOMAIN table : table[id].queue = q /\ table[id].status = "available"}

\* Mutant of ClaimableIds: a row whose lock was left behind is passed over.
ClaimableIdsUnlocked(table, q, t) ==
  {id \in DOMAIN table : /\ table[id].queue = q
                         /\ table[id].status = "available"
                         /\ table[id].lock_expires_at = Null
                         /\ table[id].scheduled_at <= t}

\* The candidates of ClaimJob's inner SELECT.
ClaimableIds(table, q, t) ==
  {id \in DOMAIN table : /\ table[id].queue = q
                         /\ table[id].status = "available"
                         /\ table[id].scheduled_at <= t}

\* ORDER BY priority ASC, scheduled_at ASC, id ASC.
ClaimedBefore(table, a, b) ==
  LET r == table[a]
      s == table[b]
  IN  \/ r.priority < s.priority
      \/ r.priority = s.priority /\ r.scheduled_at < s.scheduled_at
      \/ r.priority = s.priority /\ r.scheduled_at = s.scheduled_at /\ a < b

\* Mutant of IsRunning: the status test is dropped.
IsRunningDropped(table, id) == id \in DOMAIN table

\* WHERE id = $1 AND status = 'running': CompleteJob, FailJob, HeartbeatJob.
IsRunning(table, id) == id \in DOMAIN table /\ table[id].status = "running"

\* Mutant of IsCancellable: 'discarded' is missing from the list.
IsCancellableDiscarded(table, id) ==
  id \in DOMAIN table /\ table[id].status \notin {"completed", "cancelled"}

\* CancelJob.
IsCancellable(table, id) ==
  id \in DOMAIN table /\ table[id].status \notin {"completed", "discarded", "cancelled"}

\* PromoteJob.
IsPending(table, id) == id \in DOMAIN table /\ table[id].status = "pending"

\* Mutant of DueIds: retries are forgotten.
DueIdsScheduled(table, t) ==
  {id \in DOMAIN table : table[id].status = "scheduled" /\ table[id].scheduled_at <= t}

\* PromoteScheduledJobs, before its LIMIT.
DueIds(table, t) ==
  {id \in DOMAIN table : /\ table[id].status \in {"scheduled", "retryable"}
                         /\ table[id].scheduled_at <= t}

\* Mutant of ExpiredIds: only jobs with attempts left are looked at.
ExpiredIdsRetriable(table, t) ==
  {id \in DOMAIN table : /\ table[id].status = "running"
                         /\ table[id].attempt < table[id].max_attempts
                         /\ table[id].lock_expires_at # Null
                         /\ table[id].lock_expires_at < t}

\* Mutant of ExpiredIds: a lock that runs out now counts as expired.
ExpiredIdsEarly(table, t) ==
  {id \in DOMAIN table : /\ table[id].status = "running"
                         /\ table[id].lock_expires_at # Null
                         /\ table[id].lock_expires_at <= t}

\* FailExpiredJobs, before its LIMIT.  NULL < NOW() is not true in SQL.
ExpiredIds(table, t) ==
  {id \in DOMAIN table : /\ table[id].status = "running"
                         /\ table[id].lock_expires_at # Null
                         /\ table[id].lock_expires_at < t}

\* ORDER BY key ASC LIMIT n over the rows ids: ties are broken arbitrarily.
Batches(ids, key, n) ==
  {S \in SUBSET ids : /\ Cardinality(S) = IF Cardinality(ids) < n THEN Cardinality(ids) ELSE n
                      /\ \A a \in S, b \in ids \ S : key[a] <= key[b]}

\* UPDATE jobs SET ... WHERE id IN S: image is the table after the SET list.
Updated(table, S, image) == [id \in DOMAIN table |-> IF id \in S THEN image[id] ELSE table[id]]
-----------------------------------------------------------------------------
(* The row as JobLifecycle sees it: why a job waits is left out. *)

PhaseOf(status) == IF status \in Waiting THEN "waiting" ELSE status

LifeOf(r) == [phase |-> PhaseOf(r.status), attempt |-> r.attempt, limit |-> r.max_attempts]

NoLife == [phase |-> "absent", attempt |-> 0, limit |-> 0]
=============================================================================
