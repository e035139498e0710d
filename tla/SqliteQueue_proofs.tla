------------------------- MODULE SqliteQueue_proofs -------------------------
(***************************************************************************)
(* Proofs about SqliteQueue, for every resolution of the clock, every lock *)
(* duration and every set of jobs, queues, callers and options.            *)
(*                                                                         *)
(* The rows obey RowOK in the second it is.  What was lost in cutting the  *)
(* times is bounded by relating each row to the exact times that due and   *)
(* granted remember.                                                       *)
(***************************************************************************)
EXTENDS SqliteQueue, JobTable_proofs

second == Seconds(now)

CallsOK ==
  /\ calls = [c \in Caller |-> calls[c]]
  /\ \A c \in Caller :
        calls[c] \in {Sec!Idle} \cup [op : {"create"}, queue : QueueName, scheduled : Int \cup {Null}]
                                \cup [op : {"fail"}, job : JobId, delay : Int]

\* A lock lasts from the second it was given in.
GrantedOK ==
  /\ granted \in [JobId -> Nat]
  /\ \A id \in DOMAIN jobs : jobs[id].status = "running" =>
        jobs[id].lock_expires_at = Seconds(granted[id]) + LockDuration

\* A job is scheduled for the second it is due in, or for a later one.
DueOK ==
  /\ due \in [JobId -> Int]
  /\ \A id \in DOMAIN jobs : jobs[id].status \notin Final =>
        due[id] < TicksPerSecond * (jobs[id].scheduled_at + 1)

SqliteIInv == now \in Nat /\ RowsOK(jobs, second) /\ CallsOK /\ GrantedOK /\ DueOK
-----------------------------------------------------------------------------
(* Seconds. *)

LEMMA SecondsSay ==
  ASSUME NEW n \in Int
  PROVE  /\ Seconds(n) \in Int
         /\ TicksPerSecond * Seconds(n) <= n
         /\ n < TicksPerSecond * (Seconds(n) + 1)
         /\ n \in Nat => Seconds(n) \in Nat
  BY SqliteAssumption DEF Seconds

LEMMA SecondsGrow ==
  ASSUME NEW n \in Int
  PROVE  Seconds(n) <= Seconds(n + 1)
<1>1. TicksPerSecond \in Nat \ {0} /\ Seconds(n) \in Int /\ Seconds(n + 1) \in Int
  BY SqliteAssumption, SecondsSay
<1>2. TicksPerSecond * Seconds(n) <= n /\ n + 1 < TicksPerSecond * (Seconds(n + 1) + 1)
  BY SecondsSay
<1> QED
  BY <1>1, <1>2

\* The rounded delay is not shorter.
LEMMA BackoffRoundsUp ==
  ASSUME NEW ms \in Int
  PROVE  /\ BackoffSeconds(ms) \in Int
         /\ BackoffSeconds(ms) \in Nat => ms <= TicksPerSecond * BackoffSeconds(ms)
<1> DEFINE up == ms + TicksPerSecond - 1
<1>1. TicksPerSecond \in Nat \ {0} /\ up \in Int /\ -up \in Int
  BY SqliteAssumption
<1>2. CASE up < 0
  <2>1. BackoffSeconds(ms) = -Seconds(-up)
    BY <1>2 DEF BackoffSeconds
  <2>2. -up \in Nat
    BY <1>1, <1>2
  <2>3. Seconds(-up) \in Nat
    BY <1>1, <2>2, SecondsSay
  <2>4. BackoffSeconds(ms) \in Nat => BackoffSeconds(ms) = 0
    BY <2>1, <2>3
  <2>5. ms <= 0
    BY <1>1, <1>2
  <2> QED
    BY <1>1, <2>1, <2>3, <2>4, <2>5
<1>3. CASE ~(up < 0)
  <2>1. BackoffSeconds(ms) = Seconds(up)
    BY <1>3 DEF BackoffSeconds
  <2>2. Seconds(up) \in Int /\ up < TicksPerSecond * (Seconds(up) + 1)
    BY <1>1, SecondsSay
  <2> HIDE DEF up
  <2>3. TicksPerSecond * (Seconds(up) + 1) = TicksPerSecond * Seconds(up) + TicksPerSecond
    BY <1>1, <2>2
  <2>4. TicksPerSecond * Seconds(up) \in Int
    BY <1>1, <2>2
  <2>5. ms <= TicksPerSecond * Seconds(up)
    BY <1>1, <2>2, <2>3, <2>4 DEF up
  <2> QED
    BY <2>1, <2>2, <2>5
<1> QED
  BY <1>2, <1>3

\* What is due after a rounded delay is not scheduled too early.
LEMMA RetryNotEarly ==
  ASSUME NEW n \in Int, NEW ms \in Int, NEW s \in Int, ms <= TicksPerSecond * s
  PROVE  n + ms < TicksPerSecond * (Seconds(n) + s + 1)
<1>1. TicksPerSecond \in Nat \ {0} /\ Seconds(n) \in Int /\ n < TicksPerSecond * (Seconds(n) + 1)
  BY SqliteAssumption, SecondsSay
<1> DEFINE a == TicksPerSecond * (Seconds(n) + 1)
           b == TicksPerSecond * s
<1>2. TicksPerSecond * (Seconds(n) + s + 1) = a + b
  BY <1>1
<1>3. a \in Int /\ b \in Int /\ n < a /\ ms <= b
  BY <1>1
<1> HIDE DEF a, b
<1> QED
  BY <1>2, <1>3

LEMMA Times == /\ LockDuration \in Nat /\ Null \notin Int
               /\ (now \in Nat => second \in Nat)
  BY JobTableAssumption, SecondsSay DEF second
-----------------------------------------------------------------------------
(* What the SET lists write. *)

LEMMA SetListsSay ==
  ASSUME NEW r \in JobRow, NEW c, NEW t
  PROVE  /\ LET s == ClaimedRow(r, c, t)
            IN  /\ s.status = "running" /\ s.attempt = r.attempt + 1 /\ s.max_attempts = r.max_attempts
                /\ s.lock_expires_at = t + LockDuration /\ s.scheduled_at = r.scheduled_at
                /\ s.errors = r.errors
         /\ LET s == CompletedRow(r, c)
            IN  /\ s.status = "completed" /\ s.attempt = r.attempt /\ s.max_attempts = r.max_attempts
                /\ s.errors = r.errors
         /\ LET s == CancelledRow(r)
            IN  /\ s.status = "cancelled" /\ s.attempt = r.attempt /\ s.max_attempts = r.max_attempts
                /\ s.errors = r.errors
         /\ LET s == HeartbeatRow(r, t)
            IN  /\ s.status = r.status /\ s.attempt = r.attempt /\ s.max_attempts = r.max_attempts
                /\ s.lock_expires_at = t + LockDuration /\ s.scheduled_at = r.scheduled_at
                /\ s.errors = r.errors
         /\ \A s \in {ReleasedRow(r, t), PromotedRow(r)} :
                /\ s.status \in Waiting /\ s.attempt = r.attempt /\ s.max_attempts = r.max_attempts
                /\ s.scheduled_at = r.scheduled_at
                /\ s.errors = r.errors
  BY DEF JobRow, ClaimedRow, CompletedRow, CancelledRow, HeartbeatRow, ReleasedRow, PromotedRow, Waiting

LEMMA FailureSays ==
  ASSUME NEW r \in JobRow, NEW t, NEW delay, NEW message
  PROVE  LET s == FailedRow(r, t, delay, message)
         IN  /\ s.status = IF r.attempt >= r.max_attempts THEN "discarded" ELSE "retryable"
             /\ s.attempt = r.attempt
             /\ s.errors = Append(r.errors, message)
             /\ r.attempt >= r.max_attempts \/ s.scheduled_at = t + delay
  BY DEF FailedRow, JobRow

LEMMA ExpirySays ==
  ASSUME NEW r \in JobRow, NEW t
  PROVE  LET s == ExpiredRow(r, t)
         IN  /\ s.status = IF r.attempt >= r.max_attempts THEN "discarded" ELSE "retryable"
             /\ s.attempt = r.attempt
             /\ s.errors = Append(r.errors, "lock_expired")
             /\ r.attempt >= r.max_attempts \/ s.scheduled_at = t + 0
<1> DEFINE f == FailedRow(r, t, 0, "lock_expired")
           s == [f EXCEPT !.lock_expires_at = Null]
<1>1. /\ f.status = IF r.attempt >= r.max_attempts THEN "discarded" ELSE "retryable"
      /\ f.attempt = r.attempt
      /\ f.errors = Append(r.errors, "lock_expired")
      /\ r.attempt >= r.max_attempts \/ f.scheduled_at = t + 0
  BY FailureSays
<1> HIDE DEF f
<1>2. s.status = f.status /\ s.attempt = f.attempt /\ s.errors = f.errors
      /\ s.scheduled_at = f.scheduled_at
  OBVIOUS
<1> QED
  BY <1>1, <1>2 DEF ExpiredRow, f
-----------------------------------------------------------------------------
(* Sec is JobQueue on SqliteQueue's table: its operators are JobTable's.   *)

LEMMA SecIsJobTable ==
  ASSUME NEW table, NEW id, NEW r, NEW c, NEW t, NEW q, NEW ids, NEW key, NEW n, NEW image
  PROVE  /\ Sec!ClaimedRow(r, c, t) = ClaimedRow(r, c, t)
         /\ Sec!CompletedRow(r, c) = CompletedRow(r, c)
         /\ Sec!CancelledRow(r) = CancelledRow(r)
         /\ Sec!HeartbeatRow(r, t) = HeartbeatRow(r, t)
         /\ Sec!ReleasedRow(r, t) = ReleasedRow(r, t)
         /\ Sec!PromotedRow(r) = PromotedRow(r)
         /\ Sec!ClaimableIds(table, q, t) = ClaimableIds(table, q, t)
         /\ Sec!IsRunning(table, id) = IsRunning(table, id)
         /\ Sec!IsCancellable(table, id) = IsCancellable(table, id)
         /\ Sec!IsPending(table, id) = IsPending(table, id)
         /\ Sec!DueIds(table, t) = DueIds(table, t)
         /\ ids \in Sec!Batches(q, key, n) => ids \subseteq q
         /\ Sec!Updated(table, ids, image) = Updated(table, ids, image)
<1>1. /\ Sec!ClaimedRow(r, c, t) = ClaimedRow(r, c, t)
      /\ Sec!CompletedRow(r, c) = CompletedRow(r, c)
      /\ Sec!CancelledRow(r) = CancelledRow(r)
      /\ Sec!HeartbeatRow(r, t) = HeartbeatRow(r, t)
  BY DEF Sec!ClaimedRow, ClaimedRow, Sec!CompletedRow, CompletedRow, Sec!CancelledRow, CancelledRow,
         Sec!HeartbeatRow, HeartbeatRow
<1>2. /\ Sec!ReleasedRow(r, t) = ReleasedRow(r, t)
      /\ Sec!PromotedRow(r) = PromotedRow(r)
  BY DEF Sec!ReleasedRow, ReleasedRow, Sec!PromotedRow, PromotedRow
<1>3. /\ Sec!ClaimableIds(table, q, t) = ClaimableIds(table, q, t)
      /\ Sec!IsRunning(table, id) = IsRunning(table, id)
      /\ Sec!IsCancellable(table, id) = IsCancellable(table, id)
      /\ Sec!IsPending(table, id) = IsPending(table, id)
      /\ Sec!DueIds(table, t) = DueIds(table, t)
  BY DEF Sec!ClaimableIds, ClaimableIds, Sec!IsRunning, IsRunning, Sec!IsCancellable, IsCancellable,
         Sec!IsPending, IsPending, Sec!DueIds, DueIds
<1>4. /\ ids \in Sec!Batches(q, key, n) => ids \subseteq q
      /\ Sec!Updated(table, ids, image) = Updated(table, ids, image)
  BY DEF Sec!Batches, Sec!Updated, Updated
<1> QED
  BY <1>1, <1>2, <1>3, <1>4

LEMMA SecBackoffInRange ==
  ASSUME NEW opts, NEW attempt, NEW ms \in Sec!BackoffMs(opts, attempt)
  PROVE  ms \in Int
<1>1. /\ \A a, b : Sec!Product64(a, b) \subseteq Sec!Int64
      /\ \A a : Sec!Jittered(a) \subseteq Sec!Int64
  BY DEF Sec!Product64, Sec!Jittered
<1>2. ms \in Sec!Int64
  BY <1>1 DEF Sec!BackoffMs
<1> QED
  BY <1>2, BackoffAssumption DEF Sec!Int64

\* SQLite runs one writing statement at a time: none waits for a row.
LEMMA SecStatementsAreNow ==
  ASSUME SqliteIInv
  PROVE  second \in Nat /\ Sec!StatementTimes = {second}
<1>1. second \in Nat
  BY SecondsSay DEF SqliteIInv, second
<1> QED
  BY <1>1 DEF Sec!StatementTimes, second
-----------------------------------------------------------------------------
(* What a statement makes of one job, and of what is remembered of it. *)

HistoryKept(id) == granted'[id] = granted[id] /\ due'[id] = due[id]

Same(id) == jobs'[id] = jobs[id] /\ HistoryKept(id)

Claimed(id) ==
  /\ jobs[id].status = "available"
  /\ jobs[id].scheduled_at <= second
  /\ \E c \in Caller : jobs'[id] = ClaimedRow(jobs[id], c, second)
  /\ granted'[id] = now
  /\ due'[id] = due[id]

Renewed(id) ==
  /\ jobs[id].status = "running"
  /\ jobs'[id] = HeartbeatRow(jobs[id], second)
  /\ granted'[id] = now
  /\ due'[id] = due[id]

Completed(id) ==
  /\ jobs[id].status = "running"
  /\ \E c \in Caller : jobs'[id] = CompletedRow(jobs[id], c)
  /\ HistoryKept(id)

Cancelled(id) ==
  /\ jobs[id].status \notin Final
  /\ jobs'[id] = CancelledRow(jobs[id])
  /\ HistoryKept(id)

\* By its worker, after a delay that datetime() accepted if it was evaluated.
FailedWith(id, delay) ==
  /\ jobs[id].status = "running"
  /\ jobs'[id] = FailedRow(jobs[id], second, BackoffSeconds(delay), "failed")
  /\ jobs[id].attempt >= jobs[id].max_attempts \/ BackoffSeconds(delay) \in Nat
  /\ granted'[id] = granted[id]
  /\ due'[id] = now + delay

\* By the scheduler.
LockExpired(id) ==
  /\ jobs[id].status = "running"
  /\ jobs[id].lock_expires_at < second
  /\ jobs'[id] = ExpiredRow(jobs[id], second)
  /\ granted'[id] = granted[id]
  /\ due'[id] = now

Failed(id) == LockExpired(id) \/ \E delay \in Int : FailedWith(id, delay)

Promoted(id) ==
  /\ jobs[id].status \in Waiting
  /\ jobs'[id] \in {ReleasedRow(jobs[id], second), PromotedRow(jobs[id])}
  /\ HistoryKept(id)

\* A statement on rows that are there begins or ends one attempt, fails
\* some, or leaves the attempts alone.
RowsStep ==
  /\ now' = now
  /\ DOMAIN jobs' = DOMAIN jobs
  /\ jobs' = [id \in DOMAIN jobs |-> jobs'[id]]
  /\ \/ \E id \in DOMAIN jobs : /\ Claimed(id) \/ Completed(id) \/ Cancelled(id)
                                /\ \A other \in DOMAIN jobs \ {id} : Same(other)
     \/ \A id \in DOMAIN jobs : Same(id) \/ Failed(id)
     \/ \A id \in DOMAIN jobs : Same(id) \/ Renewed(id) \/ Promoted(id)
  /\ granted' \in [JobId -> Nat]
  /\ due' \in [JobId -> Int]

\* The INSERT of a new job.
RowInserted(id) ==
  /\ now' = now
  /\ granted' = granted
  /\ id \in JobId \ DOMAIN jobs
  /\ \E q \in QueueName, status \in Waiting \ {"retryable"}, p \in 1..4, at \in Int,
        limit \in AttemptLimits, b \in BackoffOptions :
        /\ jobs' = [i \in DOMAIN jobs \cup {id} |->
                      IF i = id THEN NewRow(q, status, p, limit, Seconds(at), b) ELSE jobs[i]]
        /\ due' = [due EXCEPT ![id] = at]

\* Time passes.
ClockStep == now' = now + 1 /\ UNCHANGED <<jobs, due, granted>>

\* All that a step does to jobs and their histories.
JobsStep == RowsStep \/ (\E id \in JobId : RowInserted(id)) \/ ClockStep
-----------------------------------------------------------------------------
(* Every action is such a step. *)

\* What a statement on one row amounts to.
LEMMA OneRow ==
  ASSUME SqliteIInv, NEW id \in DOMAIN jobs, NEW row, now' = now,
         jobs' = [jobs EXCEPT ![id] = row]
  PROVE  /\ id \in JobId
         /\ DOMAIN jobs' = DOMAIN jobs
         /\ jobs' = [i \in DOMAIN jobs |-> jobs'[i]]
         /\ jobs'[id] = row
         /\ \A i \in DOMAIN jobs \ {id} : jobs'[i] = jobs[i]
         /\ DOMAIN jobs \subseteq JobId
         /\ \A i \in DOMAIN jobs : i \in JobId
  BY DEF SqliteIInv, RowsOK

LEMMA NothingOnJobs ==
  ASSUME SqliteIInv, now' = now, UNCHANGED <<jobs, due, granted>>
  PROVE  RowsStep
  BY DEF SqliteIInv, RowsOK, RowsStep, Same, HistoryKept, GrantedOK, DueOK

LEMMA ClaimJobStep ==
  ASSUME SqliteIInv, NEW c \in Caller, NEW q \in QueueName, ClaimJob(c, q)
  PROVE  RowsStep /\ CallsOK'
<1>1. PICK id \in DOMAIN jobs : Sec!ClaimRow(c, q, id) /\ granted' = [granted EXCEPT ![id] = now]
  BY DEF ClaimJob, NowFor
<1>2. now' = now /\ UNCHANGED <<due, calls>>
  BY <1>1 DEF ClaimJob, Sec!ClaimRow, Sec!JobsOnly
<1>3. id \in ClaimableIds(jobs, q, second)
      /\ jobs' = [jobs EXCEPT ![id] = ClaimedRow(jobs[id], c, second)]
  BY <1>1, SecIsJobTable DEF Sec!ClaimRow, second
<1>4. jobs[id].status = "available" /\ jobs[id].scheduled_at <= second
  BY <1>3 DEF ClaimableIds
<1>5. /\ id \in JobId
      /\ DOMAIN jobs' = DOMAIN jobs
      /\ jobs' = [i \in DOMAIN jobs |-> jobs'[i]]
      /\ jobs'[id] = ClaimedRow(jobs[id], c, second)
      /\ \A i \in DOMAIN jobs \ {id} : jobs'[i] = jobs[i]
      /\ DOMAIN jobs \subseteq JobId
  BY <1>2, <1>3, OneRow
<1>6. now \in Nat /\ granted \in [JobId -> Nat] /\ due \in [JobId -> Int]
  BY DEF SqliteIInv, GrantedOK, DueOK
<1>7. granted' \in [JobId -> Nat] /\ granted'[id] = now
      /\ \A i \in JobId \ {id} : granted'[i] = granted[i]
  BY <1>1, <1>5, <1>6
<1>8. Claimed(id)
  BY <1>2, <1>4, <1>5, <1>7 DEF Claimed
<1>9. \A i \in DOMAIN jobs \ {id} : Same(i)
  BY <1>2, <1>5, <1>7 DEF Same, HistoryKept
<1>10. CallsOK'
  BY <1>2 DEF SqliteIInv, CallsOK, Sec!Idle
<1> QED
  BY <1>2, <1>5, <1>6, <1>7, <1>8, <1>9, <1>10 DEF RowsStep

LEMMA HeartbeatJobStep ==
  ASSUME SqliteIInv, NEW c \in Caller, NEW id \in JobId, HeartbeatJob(c, id)
  PROVE  RowsStep /\ CallsOK'
<1>1. now' = now /\ UNCHANGED <<due, calls>> /\ granted' = [granted EXCEPT ![id] = now]
  BY DEF HeartbeatJob, NowFor, Sec!HeartbeatJob, Sec!HeartbeatAt, Sec!JobsOnly
<1>2. IsRunning(jobs, id) /\ jobs' = [jobs EXCEPT ![id] = HeartbeatRow(jobs[id], second)]
  BY SecIsJobTable, SecStatementsAreNow DEF HeartbeatJob, Sec!HeartbeatJob, Sec!HeartbeatAt
<1>3. id \in DOMAIN jobs /\ jobs[id].status = "running"
  BY <1>2 DEF IsRunning
<1>4. /\ DOMAIN jobs' = DOMAIN jobs
      /\ jobs' = [i \in DOMAIN jobs |-> jobs'[i]]
      /\ jobs'[id] = HeartbeatRow(jobs[id], second)
      /\ \A i \in DOMAIN jobs \ {id} : jobs'[i] = jobs[i]
      /\ DOMAIN jobs \subseteq JobId
  BY <1>1, <1>2, <1>3, OneRow
<1>5. now \in Nat /\ granted \in [JobId -> Nat] /\ due \in [JobId -> Int]
  BY DEF SqliteIInv, GrantedOK, DueOK
<1>6. granted' \in [JobId -> Nat] /\ granted'[id] = now
      /\ \A i \in JobId \ {id} : granted'[i] = granted[i]
  BY <1>1, <1>5
<1>7. Renewed(id)
  BY <1>1, <1>3, <1>4, <1>6 DEF Renewed
<1>8. \A i \in DOMAIN jobs \ {id} : Same(i)
  BY <1>1, <1>4, <1>6 DEF Same, HistoryKept
<1>9. CallsOK'
  BY <1>1 DEF SqliteIInv, CallsOK, Sec!Idle
<1> QED
  BY <1>1, <1>4, <1>5, <1>6, <1>7, <1>8, <1>9 DEF RowsStep

\* CompleteJob, CancelJob, PromoteJob: nothing is noted of them.
LEMMA UnseenRowStep ==
  ASSUME SqliteIInv, NEW id \in DOMAIN jobs, NEW row, now' = now, Unseen, calls' = calls,
         jobs' = [jobs EXCEPT ![id] = row],
         \/ jobs[id].status = "running" /\ \E c \in Caller : row = CompletedRow(jobs[id], c)
         \/ jobs[id].status \notin Final /\ row = CancelledRow(jobs[id])
         \/ jobs[id].status \in Waiting /\ row = ReleasedRow(jobs[id], second)
  PROVE  RowsStep /\ CallsOK'
<1>1. /\ DOMAIN jobs' = DOMAIN jobs
      /\ jobs' = [i \in DOMAIN jobs |-> jobs'[i]]
      /\ jobs'[id] = row
      /\ \A i \in DOMAIN jobs \ {id} : jobs'[i] = jobs[i]
  BY OneRow
<1>2. granted' = granted /\ due' = due /\ granted' \in [JobId -> Nat] /\ due' \in [JobId -> Int]
  BY DEF SqliteIInv, GrantedOK, DueOK, Unseen
<1>3. \A i \in DOMAIN jobs \ {id} : Same(i)
  BY <1>1, <1>2 DEF Same, HistoryKept
<1>4. Completed(id) \/ Cancelled(id) \/ Promoted(id)
  BY <1>1, <1>2 DEF Completed, Cancelled, Promoted, HistoryKept
<1>5. CallsOK'
  BY DEF SqliteIInv, CallsOK, Sec!Idle
<1> QED
  BY <1>1, <1>2, <1>3, <1>4, <1>5 DEF RowsStep

LEMMA CompleteJobStep ==
  ASSUME SqliteIInv, NEW c \in Caller, NEW id \in JobId, CompleteJob(c, id)
  PROVE  RowsStep /\ CallsOK'
<1>1. now' = now /\ Unseen /\ calls' = calls
  BY DEF CompleteJob, Sec!CompleteJob, Sec!JobsOnly
<1>2. IsRunning(jobs, id) /\ jobs' = [jobs EXCEPT ![id] = CompletedRow(jobs[id], c)]
  BY SecIsJobTable DEF CompleteJob, Sec!CompleteJob
<1>3. id \in DOMAIN jobs /\ jobs[id].status = "running"
  BY <1>2 DEF IsRunning
<1> QED
  BY <1>1, <1>2, <1>3, UnseenRowStep

LEMMA CancelJobStep ==
  ASSUME SqliteIInv, NEW id \in JobId, CancelJob(id)
  PROVE  RowsStep /\ CallsOK'
<1>1. now' = now /\ Unseen /\ calls' = calls
  BY DEF CancelJob, Sec!CancelJob, Sec!JobsOnly
<1>2. IsCancellable(jobs, id) /\ jobs' = [jobs EXCEPT ![id] = CancelledRow(jobs[id])]
  BY SecIsJobTable DEF CancelJob, Sec!CancelJob
<1>3. id \in DOMAIN jobs /\ jobs[id].status \notin Final
  BY <1>2 DEF IsCancellable, Final
<1> QED
  BY <1>1, <1>2, <1>3, UnseenRowStep

LEMMA PromoteJobStep ==
  ASSUME SqliteIInv, NEW id \in JobId, PromoteJob(id)
  PROVE  RowsStep /\ CallsOK'
<1>1. now' = now /\ Unseen /\ calls' = calls
  BY DEF PromoteJob, Sec!PromoteJob, Sec!JobsOnly
<1>2. IsPending(jobs, id) /\ jobs' = [jobs EXCEPT ![id] = ReleasedRow(jobs[id], second)]
  BY SecIsJobTable, SecStatementsAreNow DEF PromoteJob, Sec!PromoteJob
<1>3. id \in DOMAIN jobs /\ jobs[id].status \in Waiting
  BY <1>2 DEF IsPending, Waiting
<1> QED
  BY <1>1, <1>2, <1>3, UnseenRowStep

LEMMA PromoteScheduledJobsStep ==
  ASSUME SqliteIInv, PromoteScheduledJobs
  PROVE  RowsStep /\ CallsOK'
<1>1. /\ now' = now /\ Unseen /\ calls' = calls
      /\ Sec!PromoteScheduledJobs
  BY DEF PromoteScheduledJobs, Sec!SchedulerPromote, Sec!RunScheduler
<1>2. PICK S : /\ S \in Sec!Batches(Sec!DueIds(jobs, second),
                                    [id \in DOMAIN jobs |-> jobs[id].scheduled_at], BatchLimit)
               /\ jobs' = Sec!Updated(jobs, S, [id \in S |-> Sec!PromotedRow(jobs[id])])
  BY <1>1 DEF Sec!PromoteScheduledJobs, second
<1>3. S \subseteq DueIds(jobs, second)
  BY <1>2, SecIsJobTable
<1>4. jobs' = Updated(jobs, S, [id \in S |-> PromotedRow(jobs[id])])
  BY <1>2, SecIsJobTable
<1>5. /\ DOMAIN jobs' = DOMAIN jobs
      /\ jobs' = [i \in DOMAIN jobs |-> jobs'[i]]
      /\ \A i \in DOMAIN jobs : jobs'[i] = IF i \in S THEN PromotedRow(jobs[i]) ELSE jobs[i]
  BY <1>4 DEF Updated
<1>6. \A i \in S : i \in DOMAIN jobs /\ jobs[i].status \in Waiting
  BY <1>3 DEF DueIds, Waiting
<1>7. granted' = granted /\ due' = due /\ granted' \in [JobId -> Nat] /\ due' \in [JobId -> Int]
  BY <1>1 DEF SqliteIInv, GrantedOK, DueOK, Unseen
<1>8. \A i \in DOMAIN jobs : Same(i) \/ Promoted(i)
  BY <1>5, <1>6, <1>7 DEF Same, Promoted, HistoryKept
<1>9. CallsOK'
  BY <1>1 DEF SqliteIInv, CallsOK, Sec!Idle
<1> QED
  BY <1>1, <1>5, <1>7, <1>8, <1>9 DEF RowsStep

LEMMA FailExpiredJobsStep ==
  ASSUME SqliteIInv, FailExpiredJobs
  PROVE  RowsStep /\ CallsOK'
<1>1. now' = now /\ granted' = granted /\ calls' = calls
  BY DEF FailExpiredJobs
<1>2. PICK S \in Batches(Expired, [id \in DOMAIN jobs |-> jobs[id].lock_expires_at], BatchLimit) :
         /\ jobs' = Updated(jobs, S, [id \in S |-> ExpiredRow(jobs[id], second)])
         /\ due' = [id \in JobId |-> IF id \in S THEN now ELSE due[id]]
  BY DEF FailExpiredJobs, second
<1>3. S \subseteq Expired
  BY BatchIsSelected
<1>4. \A i \in S : /\ i \in DOMAIN jobs /\ jobs[i].status = "running"
                   /\ jobs[i].lock_expires_at < second
  BY <1>3 DEF Expired, ExpiredIds, second
<1>5. /\ DOMAIN jobs' = DOMAIN jobs
      /\ jobs' = [i \in DOMAIN jobs |-> jobs'[i]]
      /\ \A i \in DOMAIN jobs : jobs'[i] = IF i \in S THEN ExpiredRow(jobs[i], second) ELSE jobs[i]
  BY <1>2 DEF Updated
<1>6. now \in Nat /\ granted \in [JobId -> Nat] /\ due \in [JobId -> Int] /\ DOMAIN jobs \subseteq JobId
  BY DEF SqliteIInv, GrantedOK, DueOK, RowsOK
<1>7. due' \in [JobId -> Int] /\ \A i \in JobId : due'[i] = IF i \in S THEN now ELSE due[i]
  BY <1>2, <1>6
<1>8. \A i \in DOMAIN jobs : Same(i) \/ LockExpired(i)
  BY <1>1, <1>4, <1>5, <1>6, <1>7 DEF Same, LockExpired, HistoryKept
<1>9. CallsOK'
  BY <1>1 DEF SqliteIInv, CallsOK, Sec!Idle
<1> QED
  BY <1>1, <1>5, <1>6, <1>7, <1>8, <1>9 DEF RowsStep, Failed

\* A failure is being reported: what its first statement computed.
LEMMA Failing ==
  ASSUME SqliteIInv, NEW c \in Caller, calls[c].op = "fail"
  PROVE  calls[c].job \in JobId /\ calls[c].delay \in Int
  BY DEF SqliteIInv, CallsOK, Sec!Idle

LEMMA CallsChanged ==
  ASSUME SqliteIInv, NEW c \in Caller, NEW call, calls' = [calls EXCEPT ![c] = call],
         call \in {Sec!Idle} \cup [op : {"create"}, queue : QueueName, scheduled : Int \cup {Null}]
                             \cup [op : {"fail"}, job : JobId, delay : Int]
  PROVE  CallsOK'
<1>1. /\ calls' = [i \in Caller |-> calls'[i]]
      /\ \A i \in Caller : calls'[i] = IF i = c THEN call ELSE calls[i]
  BY DEF SqliteIInv, CallsOK
<1> QED
  BY <1>1 DEF SqliteIInv, CallsOK, Sec!Idle

LEMMA FailJobWriteStep ==
  ASSUME SqliteIInv, NEW c \in Caller, FailJobWrite(c)
  PROVE  RowsStep /\ CallsOK'
<1>1. now' = now /\ granted' = granted /\ calls' = [calls EXCEPT ![c] = Sec!Idle]
      /\ calls[c].op = "fail"
  BY DEF FailJobWrite
<1>2. CallsOK'
  BY <1>1, CallsChanged
<1>3. CASE UNCHANGED <<jobs, due>>
  BY <1>1, <1>2, <1>3, NothingOnJobs
<1> DEFINE id    == calls[c].job
           delay == calls[c].delay
           row   == FailedRow(jobs[id], second, BackoffSeconds(delay), "failed")
<1>4. CASE FailJobAccepted(c) /\ jobs' = [jobs EXCEPT ![id] = row]
           /\ due' = [due EXCEPT ![id] = now + delay]
  <2>1. id \in JobId /\ delay \in Int
    BY <1>1, Failing
  <2>2. /\ id \in DOMAIN jobs /\ jobs[id].status = "running"
        /\ jobs[id].attempt >= jobs[id].max_attempts \/ BackoffSeconds(delay) \in Nat
    BY <1>4, SqliteAssumption DEF FailJobAccepted, IsRunning
  <2> HIDE DEF id, delay, row
  <2>3. /\ DOMAIN jobs' = DOMAIN jobs
        /\ jobs' = [i \in DOMAIN jobs |-> jobs'[i]]
        /\ jobs'[id] = row
        /\ \A i \in DOMAIN jobs \ {id} : jobs'[i] = jobs[i]
        /\ DOMAIN jobs \subseteq JobId
    BY <1>1, <1>4, <2>2, OneRow
  <2>4. now \in Nat /\ granted \in [JobId -> Nat] /\ due \in [JobId -> Int]
    BY DEF SqliteIInv, GrantedOK, DueOK
  <2>5. due' \in [JobId -> Int] /\ due'[id] = now + delay
        /\ \A i \in JobId \ {id} : due'[i] = due[i]
    BY <1>4, <2>1, <2>4
  <2>6. FailedWith(id, delay)
    BY <1>1, <2>2, <2>3, <2>5 DEF FailedWith, row
  <2>7. \A i \in DOMAIN jobs : Same(i) \/ Failed(i)
    BY <1>1, <2>1, <2>3, <2>5, <2>6 DEF Same, HistoryKept, Failed
  <2> QED
    BY <1>1, <1>2, <2>3, <2>4, <2>5, <2>7 DEF RowsStep
<1> QED
  BY <1>3, <1>4 DEF FailJobWrite, second

LEMMA CreateJobUpsertStep ==
  ASSUME SqliteIInv, NEW c \in Caller, NEW q \in QueueName, CreateJobUpsert(c, q)
  PROVE  RowsStep /\ CallsOK'
<1>1. now' = now /\ UNCHANGED <<jobs, due, granted>>
  BY DEF CreateJobUpsert, Unseen
<1>2. PICK delay \in Delays :
         calls' = [calls EXCEPT ![c] = [op |-> "create", queue |-> q,
                                        scheduled |-> IF delay = 0 THEN Null ELSE now + delay]]
  BY DEF CreateJobUpsert
<1> DEFINE at == IF delay = 0 THEN Null ELSE now + delay
<1>3. at \in Int \cup {Null}
  BY SqliteAssumption DEF SqliteIInv
<1> HIDE DEF at
<1>4. [op |-> "create", queue |-> q, scheduled |-> at]
         \in [op : {"create"}, queue : QueueName, scheduled : Int \cup {Null}]
  BY <1>3
<1>5. CallsOK'
  BY <1>2, <1>4, CallsChanged DEF at
<1> QED
  BY <1>1, <1>5, NothingOnJobs

LEMMA CreateJobInsertStep ==
  ASSUME SqliteIInv, NEW c \in Caller, CreateJobInsert(c)
  PROVE  (\E id \in JobId : RowInserted(id)) /\ CallsOK'
<1>1. PICK id \in JobId \ DOMAIN jobs, pending \in BOOLEAN, p \in Priorities,
           limit \in AttemptLimits, b \in Backoffs :
         LET at     == IF calls[c].scheduled = Null THEN now ELSE calls[c].scheduled
             status == IF pending THEN "pending" ELSE IF at > now THEN "scheduled" ELSE "available"
             row    == NewRow(calls[c].queue, status, Sec!RowPriority(p), limit, Seconds(at), b)
         IN  /\ jobs' = [i \in DOMAIN jobs \cup {id} |-> IF i = id THEN row ELSE jobs[i]]
             /\ due' = [due EXCEPT ![id] = at]
  BY DEF CreateJobInsert
<1>2. /\ now' = now /\ granted' = granted /\ calls' = [calls EXCEPT ![c] = Sec!Idle]
      /\ calls[c].op = "create"
  BY DEF CreateJobInsert
<1>3. CallsOK'
  BY <1>2, CallsChanged
<1> DEFINE at     == IF calls[c].scheduled = Null THEN now ELSE calls[c].scheduled
           status == IF pending THEN "pending" ELSE IF at > now THEN "scheduled" ELSE "available"
           pri    == Sec!RowPriority(p)
           q      == calls[c].queue
<1>4. calls[c].queue \in QueueName /\ calls[c].scheduled \in Int \cup {Null} /\ now \in Nat
  BY <1>2 DEF SqliteIInv, CallsOK, Sec!Idle
<1>5. at \in Int /\ q \in QueueName
  BY <1>4
<1>6. status \in Waiting \ {"retryable"}
  BY DEF Waiting
<1>7. pri \in 1..4
  BY DEF Sec!RowPriority
<1>8. b \in BackoffOptions
  BY SqliteAssumption
<1>9. /\ jobs' = [i \in DOMAIN jobs \cup {id} |->
                    IF i = id THEN NewRow(q, status, pri, limit, Seconds(at), b) ELSE jobs[i]]
      /\ due' = [due EXCEPT ![id] = at]
  BY <1>1
<1> HIDE DEF at, status, pri, q
<1>10. RowInserted(id)
  BY <1>2, <1>5, <1>6, <1>7, <1>8, <1>9 DEF RowInserted
<1> QED
  BY <1>3, <1>10

LEMMA FailJobReadStep ==
  ASSUME SqliteIInv, NEW c \in Caller, NEW id \in JobId, FailJobRead(c, id)
  PROVE  RowsStep /\ CallsOK'
<1>1. now' = now /\ UNCHANGED <<jobs, due, granted>>
  BY DEF FailJobRead, Sec!FailJobRead, Unseen
<1>2. PICK ms \in Sec!BackoffMs(jobs[id].backoff, jobs[id].attempt) :
         calls' = [calls EXCEPT ![c] = [op |-> "fail", job |-> id, delay |-> ms]]
  BY DEF FailJobRead, Sec!FailJobRead
<1>3. ms \in Int
  BY SecBackoffInRange
<1>4. [op |-> "fail", job |-> id, delay |-> ms] \in [op : {"fail"}, job : JobId, delay : Int]
  BY <1>3
<1>5. CallsOK'
  BY <1>2, <1>4, CallsChanged
<1> QED
  BY <1>1, <1>5, NothingOnJobs

\* What happens to queues, to the scheduler or to a call alone.
LEMMA OtherStep ==
  ASSUME SqliteIInv,
         \/ \E c \in Caller : AbortCall(c)
         \/ \E q \in QueueName : PauseQueue(q) \/ ResumeQueue(q)
         \/ SchedulerError
         \/ UNCHANGED sqliteVars
  PROVE  RowsStep /\ CallsOK'
<1>1. now' = now /\ UNCHANGED <<jobs, due, granted>>
  BY DEF AbortCall, Sec!AbortCall, PauseQueue, Sec!PauseQueue, ResumeQueue, Sec!ResumeQueue,
         SchedulerError, Sec!SchedulerError, Unseen, sqliteVars
<1>2. CASE \E c \in Caller : AbortCall(c)
  <2>1. PICK c \in Caller : calls' = [calls EXCEPT ![c] = Sec!Idle]
    BY <1>2 DEF AbortCall, Sec!AbortCall
  <2>2. CallsOK'
    BY <2>1, CallsChanged
  <2> QED
    BY <1>1, <2>2, NothingOnJobs
<1>3. CASE calls' = calls
  <2>1. CallsOK'
    BY <1>3 DEF SqliteIInv, CallsOK, Sec!Idle
  <2> QED
    BY <1>1, <2>1, NothingOnJobs
<1>4. calls' = calls \/ \E c \in Caller : AbortCall(c)
  BY DEF PauseQueue, Sec!PauseQueue, ResumeQueue, Sec!ResumeQueue,
         SchedulerError, Sec!SchedulerError, sqliteVars
<1> QED
  BY <1>2, <1>3, <1>4

LEMMA TickStep ==
  ASSUME SqliteIInv, Tick
  PROVE  ClockStep /\ CallsOK'
<1>1. ClockStep /\ calls' = calls
  BY DEF Tick, ClockStep
<1> QED
  BY <1>1 DEF SqliteIInv, CallsOK, Sec!Idle

LEMMA EveryStep ==
  ASSUME SqliteIInv, [SqliteNext]_sqliteVars
  PROVE  JobsStep /\ CallsOK'
<1>1. CASE \E c \in Caller, q \in QueueName : CreateJobUpsert(c, q) \/ ClaimJob(c, q)
  BY <1>1, CreateJobUpsertStep, ClaimJobStep DEF JobsStep
<1>2. CASE \E c \in Caller : CreateJobInsert(c)
  BY <1>2, CreateJobInsertStep DEF JobsStep
<1>3. CASE \E c \in Caller : FailJobWrite(c)
  BY <1>3, FailJobWriteStep DEF JobsStep
<1>4. CASE \E c \in Caller, id \in JobId : CompleteJob(c, id) \/ HeartbeatJob(c, id) \/ FailJobRead(c, id)
  BY <1>4, CompleteJobStep, HeartbeatJobStep, FailJobReadStep DEF JobsStep
<1>5. CASE \E id \in JobId : CancelJob(id) \/ PromoteJob(id)
  BY <1>5, CancelJobStep, PromoteJobStep DEF JobsStep
<1>6. CASE PromoteScheduledJobs \/ FailExpiredJobs
  BY <1>6, PromoteScheduledJobsStep, FailExpiredJobsStep DEF JobsStep
<1>7. CASE \/ \E c \in Caller : AbortCall(c)
           \/ \E q \in QueueName : PauseQueue(q) \/ ResumeQueue(q)
           \/ SchedulerError
           \/ UNCHANGED sqliteVars
  BY <1>7, OtherStep DEF JobsStep
<1>8. CASE Tick
  BY <1>8, TickStep DEF JobsStep
<1> QED
  BY <1>1, <1>2, <1>3, <1>4, <1>5, <1>6, <1>7, <1>8 DEF SqliteNext
-----------------------------------------------------------------------------
(* The inductive invariant. *)

\* What is asked of a job in the second t.
JobOK(r, t, g, d) ==
  /\ RowOK(r, t)
  /\ r.status = "running" => r.lock_expires_at = Seconds(g) + LockDuration
  /\ r.status \notin Final => d < TicksPerSecond * (r.scheduled_at + 1)

LEMMA JobsAreOK ==
  ASSUME SqliteIInv, NEW id \in DOMAIN jobs
  PROVE  /\ id \in JobId /\ now \in Nat /\ second \in Nat
         /\ granted[id] \in Nat /\ due[id] \in Int
         /\ jobs[id] \in JobRow
         /\ JobOK(jobs[id], second, granted[id], due[id])
  BY Times DEF SqliteIInv, RowsOK, RowOK, GrantedOK, DueOK, JobOK

LEMMA ClaimedKeeps ==
  ASSUME SqliteIInv, NEW id \in DOMAIN jobs, Claimed(id)
  PROVE  JobOK(jobs'[id], second, granted'[id], due'[id])
<1>1. /\ now \in Nat /\ second \in Nat /\ jobs[id] \in JobRow
      /\ JobOK(jobs[id], second, granted[id], due[id])
  BY JobsAreOK
<1>2. PICK c \in Caller : jobs'[id] = ClaimedRow(jobs[id], c, second)
  BY DEF Claimed
<1>3. RowOK(jobs'[id], second)
  BY <1>1, <1>2, ClaimedRowOK DEF Claimed, JobOK
<1>4. /\ jobs'[id].lock_expires_at = second + LockDuration
      /\ jobs'[id].scheduled_at = jobs[id].scheduled_at
  BY <1>1, <1>2, SetListsSay
<1>5. jobs[id].status \notin Final
  BY DEF Claimed, Final
<1> QED
  BY <1>1, <1>3, <1>4, <1>5 DEF Claimed, JobOK, second

LEMMA RenewedKeeps ==
  ASSUME SqliteIInv, NEW id \in DOMAIN jobs, Renewed(id)
  PROVE  JobOK(jobs'[id], second, granted'[id], due'[id])
<1>1. /\ now \in Nat /\ second \in Nat /\ jobs[id] \in JobRow
      /\ JobOK(jobs[id], second, granted[id], due[id])
  BY JobsAreOK
<1>2. jobs'[id] = HeartbeatRow(jobs[id], second)
  BY DEF Renewed
<1>3. RowOK(jobs'[id], second)
  BY <1>1, <1>2, HeartbeatRowOK DEF Renewed, JobOK
<1>4. /\ jobs'[id].lock_expires_at = second + LockDuration
      /\ jobs'[id].scheduled_at = jobs[id].scheduled_at
  BY <1>1, <1>2, SetListsSay
<1>5. jobs[id].status \notin Final
  BY DEF Renewed, Final
<1> QED
  BY <1>1, <1>3, <1>4, <1>5 DEF Renewed, JobOK, second

LEMMA EndedKeeps ==
  ASSUME SqliteIInv, NEW id \in DOMAIN jobs, Completed(id) \/ Cancelled(id)
  PROVE  JobOK(jobs'[id], second, granted'[id], due'[id])
<1>1. second \in Nat /\ jobs[id] \in JobRow /\ RowOK(jobs[id], second)
  BY JobsAreOK DEF JobOK
<1>2. RowOK(jobs'[id], second)
  BY <1>1, CompletedRowOK, CancelledRowOK DEF Completed, Cancelled
<1>3. jobs'[id].status \in {"completed", "cancelled"}
  BY <1>1, SetListsSay DEF Completed, Cancelled
<1> QED
  BY <1>2, <1>3 DEF JobOK, Final

LEMMA PromotedKeeps ==
  ASSUME SqliteIInv, NEW id \in DOMAIN jobs, Promoted(id)
  PROVE  JobOK(jobs'[id], second, granted'[id], due'[id])
<1>1. /\ second \in Nat /\ jobs[id] \in JobRow
      /\ JobOK(jobs[id], second, granted[id], due[id])
  BY JobsAreOK
<1>2. RowOK(jobs'[id], second)
  BY <1>1, ReleasedRowOK DEF Promoted, JobOK
<1>3. jobs'[id].status \in Waiting /\ jobs'[id].scheduled_at = jobs[id].scheduled_at
  BY <1>1, SetListsSay DEF Promoted
<1> QED
  BY <1>1, <1>2, <1>3 DEF Promoted, HistoryKept, JobOK, Waiting, Final

\* The delay is rounded up, the second it is counted from was cut.
LEMMA FailedKeeps ==
  ASSUME SqliteIInv, NEW id \in DOMAIN jobs, Failed(id)
  PROVE  JobOK(jobs'[id], second, granted'[id], due'[id])
<1> DEFINE r == jobs[id]
           s == jobs'[id]
<1>1. /\ now \in Nat /\ second \in Nat /\ second \in Int /\ r \in JobRow
      /\ r.status = "running" /\ RowOK(r, second)
  BY JobsAreOK DEF JobOK, Failed, LockExpired, FailedWith
<1>2. TicksPerSecond \in Nat \ {0} /\ LockDuration \in Nat
  BY SqliteAssumption, Times
<1>3. CASE LockExpired(id)
  <2>1. RowOK(s, second)
    BY <1>1, <1>3, ExpiredRowOK DEF LockExpired
  <2>2. /\ s.status \in {"discarded", "retryable"}
        /\ s.status # "discarded" => s.scheduled_at = second + 0
    <3>1. s = ExpiredRow(r, second)
      BY <1>3 DEF LockExpired
    <3> HIDE DEF r, s
    <3>2. /\ s.status = IF r.attempt >= r.max_attempts THEN "discarded" ELSE "retryable"
          /\ r.attempt >= r.max_attempts \/ s.scheduled_at = second + 0
      BY <1>1, <3>1, ExpirySays
    <3> QED
      BY <3>2
  <2>3. now < TicksPerSecond * (second + 1)
    BY <1>1, SecondsSay DEF second
  <2> HIDE DEF s
  <2> QED
    BY <1>1, <1>3, <2>1, <2>2, <2>3 DEF LockExpired, JobOK, Final, s
<1>4. ASSUME NEW delay \in Int, FailedWith(id, delay)
      PROVE  JobOK(jobs'[id], second, granted'[id], due'[id])
  <2> DEFINE up == BackoffSeconds(delay)
  <2>1. up \in Int /\ (up \in Nat => delay <= TicksPerSecond * up)
    BY BackoffRoundsUp
  <2>2. s = FailedRow(r, second, up, "failed") /\ due'[id] = now + delay
        /\ (r.attempt >= r.max_attempts \/ up \in Nat)
    BY <1>4 DEF FailedWith
  <2> HIDE DEF up
  <2>3. RowOK(s, second)
    BY <1>1, <2>1, <2>2, FailedRowOK
  <2>4. /\ s.status = IF r.attempt >= r.max_attempts THEN "discarded" ELSE "retryable"
        /\ r.attempt >= r.max_attempts \/ s.scheduled_at = second + up
    BY <1>1, <2>2, FailureSays
  <2>5. s.status \in {"discarded", "retryable"}
    BY <2>4
  <2>6. CASE s.status = "discarded"
    BY <2>3, <2>6 DEF JobOK, Final
  <2>7. CASE s.status = "retryable"
    <3>1. ~(r.attempt >= r.max_attempts) /\ up \in Nat /\ s.scheduled_at = second + up
      BY <2>2, <2>4, <2>7
    <3>2. now \in Int /\ up \in Int /\ delay <= TicksPerSecond * up
      BY <1>1, <2>1, <3>1
    <3>3. now + delay < TicksPerSecond * (second + up + 1)
      BY <3>2, RetryNotEarly DEF second
    <3> QED
      BY <2>2, <2>3, <2>7, <3>1, <3>3 DEF JobOK
  <2> QED
    BY <2>5, <2>6, <2>7
<1> QED
  BY <1>3, <1>4 DEF Failed

LEMMA RowsStepKeeps ==
  ASSUME SqliteIInv, RowsStep, CallsOK'
  PROVE  SqliteIInv'
<1>1. /\ now' = now /\ second' = second /\ DOMAIN jobs' = DOMAIN jobs /\ now \in Nat
      /\ jobs' = [id \in DOMAIN jobs |-> jobs'[id]]
      /\ granted' \in [JobId -> Nat] /\ due' \in [JobId -> Int]
      /\ DOMAIN jobs \subseteq JobId
  BY DEF RowsStep, second, SqliteIInv, RowsOK
<1>2. \A id \in DOMAIN jobs : JobOK(jobs'[id], second, granted'[id], due'[id])
  <2>1. TAKE id \in DOMAIN jobs
  <2>2. \/ Same(id) \/ Claimed(id) \/ Completed(id) \/ Cancelled(id)
        \/ Failed(id) \/ Renewed(id) \/ Promoted(id)
    BY DEF RowsStep
  <2>3. CASE Same(id)
    BY <2>3, JobsAreOK DEF Same, HistoryKept
  <2> QED
    BY <2>2, <2>3, ClaimedKeeps, EndedKeeps, FailedKeeps, RenewedKeeps, PromotedKeeps
<1>3. RowsOK(jobs', second')
  BY <1>1, <1>2 DEF RowsOK, JobOK
<1>4. GrantedOK'
  BY <1>1, <1>2 DEF GrantedOK, JobOK
<1>5. DueOK'
  BY <1>1, <1>2 DEF DueOK, JobOK
<1> QED
  BY <1>1, <1>3, <1>4, <1>5 DEF SqliteIInv

LEMMA RowInsertedKeeps ==
  ASSUME SqliteIInv, NEW id \in JobId, RowInserted(id), CallsOK'
  PROVE  SqliteIInv'
<1>1. PICK q \in QueueName, status \in Waiting \ {"retryable"}, p \in 1..4, at \in Int,
           limit \in AttemptLimits, b \in BackoffOptions :
         /\ jobs' = [i \in DOMAIN jobs \cup {id} |->
                       IF i = id THEN NewRow(q, status, p, limit, Seconds(at), b) ELSE jobs[i]]
         /\ due' = [due EXCEPT ![id] = at]
  BY DEF RowInserted
<1> DEFINE row == NewRow(q, status, p, limit, Seconds(at), b)
<1>2. /\ now' = now /\ second' = second /\ granted' = granted /\ id \notin DOMAIN jobs
      /\ now \in Nat /\ second \in Nat /\ due \in [JobId -> Int] /\ granted \in [JobId -> Nat]
      /\ DOMAIN jobs \subseteq JobId
  BY Times DEF RowInserted, SqliteIInv, RowsOK, GrantedOK, DueOK, second
<1>3. Seconds(at) \in Int /\ at < TicksPerSecond * (Seconds(at) + 1)
  BY SecondsSay
<1>4. RowOK(row, second)
  BY <1>2, <1>3, NewRowOK, SqliteAssumption
<1>5. row.status = status /\ row.scheduled_at = Seconds(at)
  BY DEF NewRow
<1>6. row.status # "running"
  BY <1>5 DEF Waiting
<1> HIDE DEF row
<1>7. DOMAIN jobs' = DOMAIN jobs \cup {id} /\ jobs'[id] = row
      /\ \A i \in DOMAIN jobs : jobs'[i] = jobs[i]
  BY <1>1, <1>2 DEF row
<1>8. due' \in [JobId -> Int] /\ due'[id] = at /\ \A i \in DOMAIN jobs : due'[i] = due[i]
  BY <1>1, <1>2
<1>9. \A i \in DOMAIN jobs' : JobOK(jobs'[i], second, granted'[i], due'[i])
  <2>1. JobOK(row, second, granted'[id], due'[id])
    BY <1>3, <1>4, <1>5, <1>6, <1>8 DEF JobOK
  <2> QED
    BY <1>2, <1>7, <1>8, <2>1, JobsAreOK
<1>10. jobs' = [i \in DOMAIN jobs' |-> jobs'[i]]
  BY <1>1
<1>11. RowsOK(jobs', second')
  BY <1>2, <1>7, <1>9, <1>10 DEF RowsOK, JobOK
<1>12. GrantedOK'
  BY <1>2, <1>7, <1>9 DEF GrantedOK, JobOK
<1>13. DueOK'
  BY <1>2, <1>7, <1>8, <1>9 DEF DueOK, JobOK
<1> QED
  BY <1>2, <1>11, <1>12, <1>13 DEF SqliteIInv

LEMMA ClockStepKeeps ==
  ASSUME SqliteIInv, ClockStep, CallsOK'
  PROVE  SqliteIInv'
<1>1. /\ now \in Nat /\ now' = now + 1 /\ now' \in Nat /\ UNCHANGED <<jobs, due, granted>>
  BY DEF SqliteIInv, ClockStep
<1>2. second \in Nat /\ second' \in Nat /\ second <= second'
  BY <1>1, SecondsSay, SecondsGrow DEF second
<1>3. \A id \in DOMAIN jobs : RowOK(jobs[id], second')
  <2>1. TAKE id \in DOMAIN jobs
  <2>2. RowOK(jobs[id], second)
    BY JobsAreOK DEF JobOK
  <2>3. TimesOK(jobs[id], second')
    BY <1>2, <2>2, JobTableAssumption DEF RowOK, TimesOK
  <2> QED
    BY <2>2, <2>3 DEF RowOK
<1>4. RowsOK(jobs', second')
  BY <1>1, <1>3 DEF RowsOK, SqliteIInv
<1>5. GrantedOK' /\ DueOK'
  BY <1>1 DEF SqliteIInv, GrantedOK, DueOK
<1> QED
  BY <1>1, <1>4, <1>5 DEF SqliteIInv

LEMMA StepKeepsInvariant ==
  ASSUME SqliteIInv, [SqliteNext]_sqliteVars
  PROVE  SqliteIInv'
<1>1. JobsStep /\ CallsOK'
  BY EveryStep
<1> QED
  BY <1>1, RowsStepKeeps, RowInsertedKeeps, ClockStepKeeps DEF JobsStep

LEMMA InitEstablishes == SqliteInit => SqliteIInv
<1> SUFFICES ASSUME SqliteInit PROVE SqliteIInv
  OBVIOUS
<1>1. /\ now = 0 /\ jobs = [id \in {} |-> Null] /\ calls = [c \in Caller |-> Sec!Idle]
      /\ due = [id \in JobId |-> 0] /\ granted = [id \in JobId |-> 0]
  BY DEF SqliteInit, Sec!Init
<1>2. DOMAIN jobs = {} /\ jobs = [id \in DOMAIN jobs |-> jobs[id]]
  BY <1>1
<1>3. RowsOK(jobs, second)
  BY <1>2 DEF RowsOK
<1>4. CallsOK
  BY <1>1 DEF CallsOK, Sec!Idle
<1>5. GrantedOK /\ DueOK
  BY <1>1, <1>2 DEF GrantedOK, DueOK
<1> QED
  BY <1>1, <1>3, <1>4, <1>5 DEF SqliteIInv

\* On a clock of whole seconds the rows are still counted, finalized and
\* locked as they are in JobQueue, a lock lasts from the second it was given
\* in, and no job is scheduled for a second that ends before it is due.
THEOREM SqliteInvariantHolds == SqliteSpec => []SqliteIInv
<1>1. SqliteIInv /\ [SqliteNext]_sqliteVars => SqliteIInv'
  BY StepKeepsInvariant
<1> QED
  BY <1>1, InitEstablishes, PTL DEF SqliteSpec
-----------------------------------------------------------------------------
(* What the rounding does to delays and to locks. *)

\* Only a claim begins an attempt.
LEMMA OnlyClaimsBegin ==
  ASSUME SqliteIInv, JobsStep, NEW id \in DOMAIN jobs, jobs'[id].attempt > jobs[id].attempt
  PROVE  Claimed(id) /\ now' = now
<1>1. jobs[id] \in JobRow /\ id \in JobId
  BY JobsAreOK
<1>2. jobs[id].attempt \in Nat
  BY <1>1 DEF JobRow
<1>3. jobs'[id] # jobs[id] /\ jobs'[id].attempt # jobs[id].attempt
  BY <1>2
<1>4. RowsStep
  BY <1>1, <1>3 DEF JobsStep, RowInserted, ClockStep
<1>5. ~Same(id) /\ ~Completed(id) /\ ~Cancelled(id) /\ ~Renewed(id) /\ ~Promoted(id)
  BY <1>1, <1>3, SetListsSay DEF Same, Completed, Cancelled, Renewed, Promoted
<1>6. ~Failed(id)
  <2>1. ~LockExpired(id)
    <3>1. ExpiredRow(jobs[id], second).attempt = jobs[id].attempt
      BY <1>1, ExpirySays
    <3> QED
      BY <1>3, <3>1 DEF LockExpired
  <2>2. ASSUME NEW delay \in Int, FailedWith(id, delay) PROVE FALSE
    <3>1. FailedRow(jobs[id], second, BackoffSeconds(delay), "failed").attempt = jobs[id].attempt
      BY <1>1, FailureSays
    <3> QED
      BY <1>3, <2>2, <3>1 DEF FailedWith
  <2> QED
    BY <2>1, <2>2 DEF Failed
<1> QED
  BY <1>4, <1>5, <1>6 DEF RowsStep

LEMMA ClaimIsNotEarly ==
  ASSUME SqliteIInv, [SqliteNext]_sqliteVars, NEW id \in DOMAIN jobs,
         jobs'[id].attempt > jobs[id].attempt
  PROVE  now + TicksPerSecond > due[id]
<1>1. Claimed(id)
  BY EveryStep, OnlyClaimsBegin
<1>2. /\ now \in Nat /\ second \in Nat /\ due[id] \in Int /\ jobs[id] \in JobRow
      /\ JobOK(jobs[id], second, granted[id], due[id])
  BY JobsAreOK
<1>3. jobs[id].scheduled_at <= second /\ jobs[id].scheduled_at \in Int
      /\ due[id] < TicksPerSecond * (jobs[id].scheduled_at + 1)
  BY <1>1, <1>2 DEF Claimed, JobOK, JobRow, Final
<1>4. TicksPerSecond \in Nat \ {0} /\ TicksPerSecond * second <= now
  BY <1>2, SqliteAssumption, SecondsSay DEF second
<1>5. TicksPerSecond * (jobs[id].scheduled_at + 1) <= TicksPerSecond * second + TicksPerSecond
  BY <1>2, <1>3, <1>4
<1> DEFINE a == TicksPerSecond * (jobs[id].scheduled_at + 1)
           b == TicksPerSecond * second
<1>6. a \in Int /\ b \in Int
  BY <1>2, <1>3, <1>4
<1> HIDE DEF a, b
<1> QED
  BY <1>2, <1>3, <1>4, <1>5, <1>6 DEF a, b

\* Whatever a second is divided into, no attempt begins a whole second
\* before the delay or the backoff of its job is over.
THEOREM AttemptsHardlyEarly == SqliteSpec => LessThanASecondEarly
<1>1. ASSUME SqliteIInv, [SqliteNext]_sqliteVars
      PROVE  [\A id \in DOMAIN jobs : jobs'[id].attempt > jobs[id].attempt
                                        => now + TicksPerSecond > due[id]]_sqliteVars
  BY <1>1, ClaimIsNotEarly
<1>2. SqliteIInv /\ [SqliteNext]_sqliteVars
        => [\A id \in DOMAIN jobs : jobs'[id].attempt > jobs[id].attempt
                                        => now + TicksPerSecond > due[id]]_sqliteVars
  BY <1>1
<1> QED
  BY <1>2, SqliteInvariantHolds, PTL DEF SqliteSpec, LessThanASecondEarly

\* Only the scheduler writes that a lock has expired.
LEMMA OnlyExpiryIsRecorded ==
  ASSUME SqliteIInv, JobsStep, NEW id \in DOMAIN jobs,
         jobs'[id].errors = Append(jobs[id].errors, "lock_expired")
  PROVE  LockExpired(id)
<1> DEFINE entries == {"failed", "lock_expired"}
<1>1. jobs[id] \in JobRow /\ id \in JobId /\ jobs[id].errors \in Seq(entries)
  BY JobsAreOK DEF JobRow
<1>2. /\ jobs[id].errors # Append(jobs[id].errors, "lock_expired")
      /\ Append(jobs[id].errors, "failed") # Append(jobs[id].errors, "lock_expired")
  <2>1. "failed" \in entries /\ "lock_expired" \in entries /\ "failed" # "lock_expired"
    OBVIOUS
  <2> HIDE DEF entries
  <2> QED
    BY <1>1, <2>1, AnEntryIsNew
<1>3. jobs'[id] # jobs[id] /\ jobs'[id].errors # jobs[id].errors
  BY <1>2
<1>4. RowsStep
  BY <1>1, <1>3 DEF JobsStep, RowInserted, ClockStep
<1>5. /\ ~Same(id) /\ ~Claimed(id) /\ ~Completed(id) /\ ~Cancelled(id)
      /\ ~Renewed(id) /\ ~Promoted(id)
  <2>1. ~Same(id)
    BY <1>3 DEF Same
  <2>2. ~Claimed(id)
    BY <1>1, <1>3, SetListsSay DEF Claimed
  <2>3. ~Completed(id) /\ ~Cancelled(id)
    <3>1. CancelledRow(jobs[id]).errors = jobs[id].errors
      BY <1>1 DEF CancelledRow, JobRow
    <3>2. \A c \in Caller : CompletedRow(jobs[id], c).errors = jobs[id].errors
      BY <1>1 DEF CompletedRow, JobRow
    <3> QED
      BY <1>3, <3>1, <3>2 DEF Completed, Cancelled
  <2>4. ~Renewed(id) /\ ~Promoted(id)
    BY <1>1, <1>3, SetListsSay DEF Renewed, Promoted
  <2> QED
    BY <2>1, <2>2, <2>3, <2>4
<1>6. ASSUME NEW delay \in Int, FailedWith(id, delay)
      PROVE  FALSE
  <2>1. jobs'[id].errors = Append(jobs[id].errors, "failed")
    BY <1>1, <1>6, FailureSays DEF FailedWith
  <2> QED
    BY <1>2, <2>1
<1> QED
  BY <1>4, <1>5, <1>6 DEF RowsStep, Failed

LEMMA LockIsNotCut ==
  ASSUME SqliteIInv, [SqliteNext]_sqliteVars, LockTicks % TicksPerSecond = 0,
         NEW id \in DOMAIN jobs, jobs'[id].errors = Append(jobs[id].errors, "lock_expired")
  PROVE  now > granted[id] + LockTicks
<1>1. LockExpired(id)
  BY EveryStep, OnlyExpiryIsRecorded
<1>2. /\ now \in Nat /\ second \in Nat /\ granted[id] \in Nat
      /\ JobOK(jobs[id], second, granted[id], due[id])
  BY JobsAreOK
<1>3. TicksPerSecond \in Nat \ {0} /\ LockTicks \in Nat /\ LockDuration = Seconds(LockTicks)
  BY SqliteAssumption
<1> DEFINE g == Seconds(granted[id])
           k == Seconds(LockTicks)
<1>4. g \in Nat /\ k \in Nat /\ granted[id] < TicksPerSecond * (g + 1) /\ TicksPerSecond * second <= now
  <2>1. granted[id] \in Int /\ LockTicks \in Int /\ now \in Int
    BY <1>2, <1>3
  <2>2. g \in Nat /\ granted[id] < TicksPerSecond * (g + 1)
    BY <1>2, <2>1, SecondsSay
  <2>3. k \in Nat
    BY <1>3, <2>1, SecondsSay
  <2>4. TicksPerSecond * second <= now
    BY <2>1, SecondsSay DEF second
  <2> QED
    BY <2>2, <2>3, <2>4
<1>5. LockTicks = TicksPerSecond * k
  BY <1>3 DEF Seconds
<1>6. g + k < second
  BY <1>1, <1>2, <1>3 DEF LockExpired, JobOK
<1> HIDE DEF g, k
<1>7. TicksPerSecond * (g + 1) + TicksPerSecond * k <= TicksPerSecond * second
  <2>1. TicksPerSecond * (g + 1) + TicksPerSecond * k = TicksPerSecond * (g + k + 1)
    BY <1>3, <1>4
  <2>2. g + k + 1 <= second
    BY <1>2, <1>4, <1>6
  <2>3. g + k + 1 \in Int /\ TicksPerSecond \in Int /\ 0 <= TicksPerSecond /\ second \in Int
    BY <1>2, <1>3, <1>4
  <2> DEFINE m == g + k + 1
  <2> HIDE DEF m
  <2>4. m \in Int /\ m <= second => TicksPerSecond * m <= TicksPerSecond * second
    BY <2>3
  <2> QED
    BY <2>1, <2>2, <2>3, <2>4 DEF m
<1> DEFINE a == TicksPerSecond * (g + 1)
           b == TicksPerSecond * k
           n == TicksPerSecond * second
<1>8. a \in Int /\ b \in Int /\ n \in Int
  BY <1>2, <1>3, <1>4
<1> HIDE DEF a, b, n
<1>9. granted[id] < a /\ LockTicks = b /\ a + b <= n /\ n <= now
  BY <1>4, <1>5, <1>7 DEF a, b, n
<1> QED
  BY <1>2, <1>3, <1>8, <1>9

\* JOB_LOCK_DURATION a whole number of seconds, as its default of 30s is:
\* no attempt is failed for its lock before that long has passed since the
\* claim or the last heartbeat, whichever part of a second they came in.
THEOREM WholeSecondLocksLast ==
  ASSUME LockTicks % TicksPerSecond = 0
  PROVE  SqliteSpec => LockLastsItsDuration
<1>1. ASSUME SqliteIInv, [SqliteNext]_sqliteVars
      PROVE  [\A id \in DOMAIN jobs : jobs'[id].errors = Append(jobs[id].errors, "lock_expired")
                                        => now > granted[id] + LockTicks]_sqliteVars
  BY <1>1, LockIsNotCut
<1>2. SqliteIInv /\ [SqliteNext]_sqliteVars
        => [\A id \in DOMAIN jobs : jobs'[id].errors = Append(jobs[id].errors, "lock_expired")
                                        => now > granted[id] + LockTicks]_sqliteVars
  BY <1>1
<1> QED
  BY <1>2, SqliteInvariantHolds, PTL DEF SqliteSpec, LockLastsItsDuration
-----------------------------------------------------------------------------
(* The lives of jobs. *)

LEMMA LivesSay ==
  /\ Lives = [j \in JobId |-> Lives[j]]
  /\ Lives' = [j \in JobId |-> Lives'[j]]
  /\ \A j \in JobId : Lives[j] = IF j \in DOMAIN jobs THEN LifeOf(jobs[j]) ELSE NoLife
  /\ \A j \in JobId : Lives'[j] = IF j \in DOMAIN jobs' THEN LifeOf(jobs'[j]) ELSE NoLife
  BY DEF Lives

\* Renewing or promoting does nothing to a life.
LEMMA LifeUnchanged ==
  ASSUME SqliteIInv, NEW id \in DOMAIN jobs, Same(id) \/ Renewed(id) \/ Promoted(id)
  PROVE  LifeOf(jobs'[id]) = LifeOf(jobs[id])
<1>1. jobs[id] \in JobRow
  BY JobsAreOK
<1>2. /\ jobs'[id].attempt = jobs[id].attempt /\ jobs'[id].max_attempts = jobs[id].max_attempts
      /\ \/ jobs'[id].status = jobs[id].status
         \/ jobs'[id].status \in Waiting /\ jobs[id].status \in Waiting
  BY <1>1, SetListsSay DEF Same, Renewed, Promoted
<1> QED
  BY <1>2 DEF LifeOf, PhaseOf

LEMMA LifeFailed ==
  ASSUME SqliteIInv, NEW id \in DOMAIN jobs, Failed(id), NEW old, old = LifeOf(jobs[id])
  PROVE  /\ old.phase = "running"
         /\ LifeOf(jobs'[id]) = [old EXCEPT !.phase = IF old.attempt < old.limit
                                                      THEN "waiting" ELSE "discarded"]
<1>1. jobs[id] \in JobRow /\ jobs[id].status = "running"
  BY JobsAreOK DEF Failed, LockExpired, FailedWith
<1>2. LifeOf(jobs'[id]) = [old EXCEPT !.phase = IF jobs[id].attempt < jobs[id].max_attempts
                                                THEN "waiting" ELSE "discarded"]
  BY <1>1, LifeOfFailed DEF Failed, LockExpired, FailedWith
<1>3. old.phase = "running" /\ old.attempt = jobs[id].attempt /\ old.limit = jobs[id].max_attempts
  BY <1>1 DEF LifeOf, PhaseOf, Waiting
<1> QED
  BY <1>2, <1>3

\* A claim starts an attempt; the other two end one.
LEMMA LifeChanged ==
  ASSUME SqliteIInv, NEW id \in DOMAIN jobs, NEW old, old = LifeOf(jobs[id])
  PROVE  /\ Claimed(id) => /\ old.phase = "waiting" /\ old.attempt < old.limit
                           /\ LifeOf(jobs'[id]) = [phase |-> "running", attempt |-> old.attempt + 1,
                                                   limit |-> old.limit]
         /\ Completed(id) => /\ old.phase = "running"
                             /\ LifeOf(jobs'[id]) = [old EXCEPT !.phase = "completed"]
         /\ Cancelled(id) => /\ old.phase \in {"waiting", "running"}
                             /\ LifeOf(jobs'[id]) = [old EXCEPT !.phase = "cancelled"]
<1>1. jobs[id] \in JobRow /\ AttemptsOK(jobs[id])
  BY JobsAreOK DEF JobOK, RowOK
<1>2. old = [phase |-> PhaseOf(jobs[id].status), attempt |-> jobs[id].attempt,
             limit |-> jobs[id].max_attempts]
  BY DEF LifeOf
<1>3. ASSUME Claimed(id)
      PROVE  /\ old.phase = "waiting" /\ old.attempt < old.limit
             /\ LifeOf(jobs'[id]) = [phase |-> "running", attempt |-> old.attempt + 1,
                                     limit |-> old.limit]
  <2>1. /\ jobs[id].status = "available" /\ jobs'[id].status = "running"
        /\ jobs'[id].attempt = jobs[id].attempt + 1
        /\ jobs'[id].max_attempts = jobs[id].max_attempts
    BY <1>1, <1>3, SetListsSay DEF Claimed
  <2>2. LifeOf(jobs'[id]) = [phase |-> "running", attempt |-> jobs[id].attempt + 1,
                             limit |-> jobs[id].max_attempts]
    BY <2>1 DEF LifeOf, PhaseOf, Waiting
  <2> QED
    BY <1>1, <1>2, <2>1, <2>2 DEF AttemptsOK, PhaseOf, Waiting
<1>4. ASSUME Completed(id)
      PROVE  /\ old.phase = "running"
             /\ LifeOf(jobs'[id]) = [old EXCEPT !.phase = "completed"]
  <2>1. /\ jobs[id].status = "running" /\ jobs'[id].status = "completed"
        /\ jobs'[id].attempt = jobs[id].attempt
        /\ jobs'[id].max_attempts = jobs[id].max_attempts
    BY <1>1, <1>4, SetListsSay DEF Completed
  <2>2. LifeOf(jobs'[id]) = [phase |-> "completed", attempt |-> jobs[id].attempt,
                             limit |-> jobs[id].max_attempts]
    BY <2>1 DEF LifeOf, PhaseOf, Waiting
  <2> QED
    BY <1>2, <2>1, <2>2 DEF PhaseOf, Waiting
<1>5. ASSUME Cancelled(id)
      PROVE  /\ old.phase \in {"waiting", "running"}
             /\ LifeOf(jobs'[id]) = [old EXCEPT !.phase = "cancelled"]
  <2>1. /\ jobs[id].status \in Waiting \cup {"running"} /\ jobs'[id].status = "cancelled"
        /\ jobs'[id].attempt = jobs[id].attempt
        /\ jobs'[id].max_attempts = jobs[id].max_attempts
    BY <1>1, <1>5, SetListsSay DEF Cancelled, JobRow, Status
  <2>2. LifeOf(jobs'[id]) = [phase |-> "cancelled", attempt |-> jobs[id].attempt,
                             limit |-> jobs[id].max_attempts]
    BY <2>1 DEF LifeOf, PhaseOf, Waiting
  <2> QED
    BY <1>2, <2>1, <2>2 DEF PhaseOf
<1> QED
  BY <1>3, <1>4, <1>5

LEMMA RowsStepIsLifecycleStep ==
  ASSUME SqliteIInv, RowsStep
  PROVE  [Lifecycle!Next]_Lives
<1>1. /\ DOMAIN jobs' = DOMAIN jobs /\ DOMAIN jobs \subseteq JobId
      /\ \A id \in DOMAIN jobs : Lives[id] = LifeOf(jobs[id]) /\ Lives'[id] = LifeOf(jobs'[id])
      /\ \A j \in JobId \ DOMAIN jobs : Lives'[j] = Lives[j]
  BY LivesSay DEF RowsStep, SqliteIInv, RowsOK
<1>2. CASE \A id \in DOMAIN jobs : Same(id) \/ Renewed(id) \/ Promoted(id)
  <2>1. \A j \in JobId : Lives'[j] = Lives[j]
    BY <1>1, <1>2, LifeUnchanged
  <2> QED
    BY <2>1, LivesSay
<1>3. CASE \A id \in DOMAIN jobs : Same(id) \/ Failed(id)
  <2> DEFINE S == {id \in DOMAIN jobs : Failed(id)}
             next(j) == [Lives[j] EXCEPT !.phase = IF Lives[j].attempt < Lives[j].limit
                                                   THEN "waiting" ELSE "discarded"]
  <2>1. S \in SUBSET JobId
    BY <1>1
  <2>2. \A j \in S : Lives[j].phase = "running" /\ Lives'[j] = next(j)
    BY <1>1, LifeFailed
  <2>3. \A j \in JobId \ S : Lives'[j] = Lives[j]
    BY <1>1, <1>3, LifeUnchanged
  <2> HIDE DEF S
  <2>4. Lives' = [j \in JobId |-> IF j \notin S THEN Lives[j] ELSE next(j)]
    BY <2>1, <2>2, <2>3, LivesSay
  <2>5. Lifecycle!Fail(S)
    BY <2>2, <2>4 DEF Lifecycle!Fail
  <2> QED
    BY <2>1, <2>5 DEF Lifecycle!Next
<1>4. ASSUME NEW id \in DOMAIN jobs, Claimed(id) \/ Completed(id) \/ Cancelled(id),
             \A other \in DOMAIN jobs \ {id} : Same(other)
      PROVE  Lifecycle!Next
  <2>1. id \in JobId /\ \A j \in JobId \ {id} : Lives'[j] = Lives[j]
    BY <1>1, <1>4, LifeUnchanged
  <2>2. Lives' = [Lives EXCEPT ![id] = Lives'[id]]
    BY <2>1, LivesSay
  <2>3. CASE Claimed(id)
    BY <1>1, <2>1, <2>2, <2>3, LifeChanged DEF Lifecycle!Next, Lifecycle!Start
  <2>4. CASE Completed(id)
    <3>1. Lives[id].phase = "running" /\ Lives'[id] = [Lives[id] EXCEPT !.phase = "completed"]
      BY <1>1, <2>4, LifeChanged
    <3>2. Lives' = [Lives EXCEPT ![id].phase = "completed"]
      BY <2>2, <3>1
    <3> QED
      BY <2>1, <3>1, <3>2 DEF Lifecycle!Next, Lifecycle!Succeed
  <2>5. CASE Cancelled(id)
    <3>1. /\ Lives[id].phase \in {"waiting", "running"}
          /\ Lives'[id] = [Lives[id] EXCEPT !.phase = "cancelled"]
      BY <1>1, <2>5, LifeChanged
    <3>2. Lives' = [Lives EXCEPT ![id].phase = "cancelled"]
      BY <2>2, <3>1
    <3> QED
      BY <2>1, <3>1, <3>2 DEF Lifecycle!Next, Lifecycle!Cancel
  <2> QED
    BY <1>4, <2>3, <2>4, <2>5
<1> QED
  BY <1>2, <1>3, <1>4 DEF RowsStep

LEMMA InsertIsSubmit ==
  ASSUME SqliteIInv, NEW id \in JobId, RowInserted(id)
  PROVE  Lifecycle!Next
<1>1. PICK q \in QueueName, status \in Waiting \ {"retryable"}, p \in 1..4, at \in Int,
           limit \in AttemptLimits, b \in BackoffOptions :
         jobs' = [i \in DOMAIN jobs \cup {id} |->
                    IF i = id THEN NewRow(q, status, p, limit, Seconds(at), b) ELSE jobs[i]]
  BY DEF RowInserted
<1> DEFINE row == NewRow(q, status, p, limit, Seconds(at), b)
           life == [phase |-> "waiting", attempt |-> 0, limit |-> limit]
<1>2. LifeOf(row) = life
  BY DEF LifeOf, NewRow, PhaseOf
<1> HIDE DEF row
<1>3. Lives[id] = NoLife
  BY LivesSay DEF RowInserted
<1>4. \A j \in JobId : Lives'[j] = IF j = id THEN life ELSE Lives[j]
  BY <1>1, <1>2, LivesSay DEF row
<1>5. Lives' = [Lives EXCEPT ![id] = life]
  BY <1>4, LivesSay
<1>6. Lifecycle!Submit(id, limit)
  BY <1>3, <1>5 DEF Lifecycle!Submit, NoLife
<1> QED
  BY <1>6 DEF Lifecycle!Next

LEMMA StepIsLifecycleStep ==
  ASSUME SqliteIInv, [SqliteNext]_sqliteVars
  PROVE  [Lifecycle!Next]_Lives
<1>1. JobsStep
  BY EveryStep
<1>2. CASE ClockStep
  BY <1>2 DEF ClockStep, Lives
<1> QED
  BY <1>1, <1>2, RowsStepIsLifecycleStep, InsertIsSubmit DEF JobsStep

\* Every statement of SQLiteDriver, the claim as it is meant, is a step of
\* JobLifecycle, or changes no life: the rounded times lead no job astray.
THEOREM SqliteImplementsLifecycle == SqliteSpec => ImplementsLifecycle
<1>1. SqliteIInv /\ [SqliteNext]_sqliteVars => [Lifecycle!Next]_Lives
  BY StepIsLifecycleStep
<1>2. SqliteInit => Lifecycle!Init
  BY DEF SqliteInit, Sec!Init, Lifecycle!Init, Lifecycle!Absent, Lives, NoLife
<1> QED
  BY <1>1, <1>2, SqliteInvariantHolds, PTL DEF SqliteSpec, ImplementsLifecycle, Lifecycle!Spec
=============================================================================
