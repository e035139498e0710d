------------------------------ MODULE JobQueue ------------------------------
(***************************************************************************)
(* The job queue as its API offers it: JobService and QueueService         *)
(* (internal/service/job.go, queue.go) over PGDriver (driver_pg.go), with  *)
(* the scheduler loop of cmdScheduler (cmd/stevy/main.go) and the HTTP     *)
(* scheduler pass of Handler.RunScheduler (internal/web/web.go).           *)
(*                                                                         *)
(* Every SQL statement is one action: PostgreSQL locks the row a single-   *)
(* row statement updates and re-checks its WHERE clause on the version it  *)
(* locked.  Its NOW() is that of its beginning, and it may have waited for *)
(* the row since.  A handler that runs two statements is two actions, and  *)
(* steps of other calls, of the scheduler and of the clock come in between.*)
(* The callers are unconstrained: any call on any id at any time.          *)
(***************************************************************************)
EXTENDS JobTable

CONSTANTS Delays,         \* what a CreateJob's delay amounts to (its product with
                          \* time.Millisecond may wrap around); 0: none
          Priorities,     \* the priority options a CreateJob may carry; 0: none
          AttemptLimits,  \* the values max_attempts may get
          Backoffs,       \* the backoff options a job may carry
          ClockSkew,      \* how far a server's clock may be from the database's
          RowWait,        \* bound: how long a statement waits for the row it updates
          Daemon,         \* whether a `stevy scheduler` process is deployed
          MaxTime         \* bound: the clock stops here

ASSUME JobQueueAssumption ==
         /\ Delays \subseteq Int
         /\ Priorities \subseteq 0..100
         /\ AttemptLimits \subseteq Nat \ {0}
         /\ Backoffs \subseteq BackoffOptions
         /\ ClockSkew \in Nat
         /\ RowWait \in Nat
         /\ Daemon \in BOOLEAN
         /\ MaxTime \in Nat

VARIABLES jobs,    \* the jobs table: a function from the ids of its rows
          queues,  \* the names with a row in the queues table
          paused,  \* the names whose paused_at is not NULL
          calls,   \* per caller, the two-statement handler that is half done
          sched,   \* the statement the scheduler loop runs next
          now      \* NOW(), the database clock

vars == <<jobs, queues, paused, calls, sched, now>>

Idle == [op |-> "none"]
Call == {Idle} \cup [op : {"create"}, queue : QueueName, scheduled : Int \cup {Null}]
               \cup [op : {"fail"}, job : JobId, delay : Int64]

\* The types of the six variables.  It has some content: the delay a FailJob
\* carries between its two statements is a Go int, the paused names have a
\* row in queues, and no statement leaves a row outside the columns' types.
TypeOK == /\ DOMAIN jobs \subseteq JobId
          /\ jobs \in [DOMAIN jobs -> JobRow]
          /\ queues \subseteq QueueName
          /\ paused \subseteq queues
          /\ calls \in [Caller -> Call]
          /\ sched \in {"promote", "expire"}
          /\ now \in Nat

Init == /\ jobs = [id \in {} |-> Null]
        /\ queues = {}
        /\ paused = {}
        /\ calls = [c \in Caller |-> Idle]
        /\ sched = "promote"
        /\ now = 0
-----------------------------------------------------------------------------
(* CreateJob: upsert the queue, then insert the row. *)

\* clampPriority, and the driver's default for an absent priority.
RowPriority(p) == IF p >= 75 \/ p = 0 THEN 1
                  ELSE IF p >= 50 THEN 2
                  ELSE IF p >= 25 THEN 3
                  ELSE 4

\* The server's clock when a handler reads it.
ServerTimes == {t \in now - ClockSkew .. now + ClockSkew : t >= 0}

\* The service computes ScheduledAt before the driver's first statement; a
\* job without a delay is scheduled for the moment of its insertion.
ScheduledAt(delay) == IF delay = 0 THEN {Null} ELSE {t + delay : t \in ServerTimes}

\* Mutant of CreateJobUpsert: the upsert is forgotten.
CreateJobNoUpsert(c, q) ==
  /\ calls[c] = Idle
  /\ \E delay \in Delays : \E at \in ScheduledAt(delay) :
        calls' = [calls EXCEPT ![c] = [op |-> "create", queue |-> q, scheduled |-> at]]
  /\ UNCHANGED <<jobs, queues, paused, sched, now>>

\* INSERT INTO queues ... ON CONFLICT (name) DO UPDATE SET updated_at: an
\* existing queue keeps its paused_at.
CreateJobUpsert(c, q) ==
  /\ calls[c] = Idle
  /\ \E delay \in Delays : \E at \in ScheduledAt(delay) :
        calls' = [calls EXCEPT ![c] = [op |-> "create", queue |-> q, scheduled |-> at]]
  /\ queues' = queues \cup {q}
  /\ UNCHANGED <<jobs, paused, sched, now>>

\* INSERT INTO jobs, with an id nobody has yet (ids drawn by different
\* servers need not come in order).  The status depends on the server's
\* clock; the scheduler and the claims will use the database's.
CreateJobInsert(c) ==
  /\ calls[c].op = "create"
  /\ \E id \in JobId \ DOMAIN jobs, pending \in BOOLEAN, p \in Priorities,
        limit \in AttemptLimits, b \in Backoffs, t \in ServerTimes :
        LET at     == IF calls[c].scheduled = Null THEN t ELSE calls[c].scheduled
            status == IF pending THEN "pending" ELSE IF at > t THEN "scheduled" ELSE "available"
            row    == NewRow(calls[c].queue, status, RowPriority(p), limit, at, b)
        IN  jobs' = [i \in DOMAIN jobs \cup {id} |-> IF i = id THEN row ELSE jobs[i]]
  /\ calls' = [calls EXCEPT ![c] = Idle]
  /\ UNCHANGED <<queues, paused, sched, now>>

\* The request is cancelled, or its server dies, between two statements.
AbortCall(c) ==
  /\ calls[c] # Idle
  /\ calls' = [calls EXCEPT ![c] = Idle]
  /\ UNCHANGED <<jobs, queues, paused, sched, now>>
-----------------------------------------------------------------------------
(* The calls of workers. *)

\* What every single-row statement on jobs leaves alone.
JobsOnly == UNCHANGED <<queues, paused, calls, sched, now>>

\* NOW() in a statement that updates one row, when it has the row at last.
\* (A statement that selects its rows with SKIP LOCKED does not wait.)
StatementTimes == {t \in now - RowWait .. now : t >= 0}

\* ClaimJob, once it selected the row id.  (Its first statement, on the
\* workers table, is not part of this module's state.)
ClaimRow(c, q, id) ==
  /\ calls[c] = Idle
  /\ q \notin paused
  /\ id \in ClaimableIds(jobs, q, now)
  /\ \A other \in ClaimableIds(jobs, q, now) \ {id} : ClaimedBefore(jobs, id, other)
  /\ jobs' = [jobs EXCEPT ![id] = ClaimedRow(@, c, now)]
  /\ JobsOnly

ClaimJob(c, q) == \E id \in DOMAIN jobs : ClaimRow(c, q, id)

CompleteJob(c, id) ==
  /\ calls[c] = Idle
  /\ IsRunning(jobs, id)
  /\ jobs' = [jobs EXCEPT ![id] = CompletedRow(@, c)]
  /\ JobsOnly

\* HeartbeatJob, by a statement that began at the time at: when somebody
\* failed and claimed the job meanwhile, it takes from the new lock.
HeartbeatAt(c, id, at) ==
  /\ calls[c] = Idle
  /\ IsRunning(jobs, id)
  /\ jobs' = [jobs EXCEPT ![id] = HeartbeatRow(@, at)]
  /\ JobsOnly

HeartbeatJob(c, id) == \E at \in StatementTimes : HeartbeatAt(c, id, at)

\* FailJob, first half: computeBackoffMs reads the row, in whatever status
\* it is, and computes the delay from its attempt.  (A missing row, or a
\* panic in rand.Intn, ends the call with nothing done.)
FailJobRead(c, id) ==
  /\ calls[c] = Idle
  /\ id \in DOMAIN jobs
  /\ \E ms \in BackoffMs(jobs[id].backoff, jobs[id].attempt) :
        calls' = [calls EXCEPT ![c] = [op |-> "fail", job |-> id, delay |-> ms]]
  /\ UNCHANGED <<jobs, queues, paused, sched, now>>

\* Whether the UPDATE of a FailJob in progress takes effect: $3 is an int4.
FailJobAccepted(c) ==
  /\ calls[c].op = "fail"
  /\ IsRunning(jobs, calls[c].job)
  /\ calls[c].delay \in Int4

\* FailJob, second half: by id and status alone.
FailJobWrite(c) ==
  /\ calls[c].op = "fail"
  /\ \/ /\ FailJobAccepted(c)
        /\ \E at \in StatementTimes :
              jobs' = [jobs EXCEPT ![calls[c].job] = FailedRow(@, at, calls[c].delay, "failed")]
     \/ /\ ~FailJobAccepted(c)
        /\ UNCHANGED jobs
  /\ calls' = [calls EXCEPT ![c] = Idle]
  /\ UNCHANGED <<queues, paused, sched, now>>
-----------------------------------------------------------------------------
(* The calls of clients and of the dashboard. *)

CancelJob(id) ==
  /\ IsCancellable(jobs, id)
  /\ jobs' = [jobs EXCEPT ![id] = CancelledRow(@)]
  /\ JobsOnly

PromoteJob(id) ==
  /\ IsPending(jobs, id)
  /\ \E at \in StatementTimes : jobs' = [jobs EXCEPT ![id] = ReleasedRow(@, at)]
  /\ JobsOnly

PauseQueue(q) ==
  /\ queues' = queues \cup {q}
  /\ paused' = paused \cup {q}
  /\ UNCHANGED <<jobs, calls, sched, now>>

ResumeQueue(q) ==
  /\ paused' = paused \ {q}
  /\ UNCHANGED <<jobs, queues, calls, sched, now>>
-----------------------------------------------------------------------------
(* The scheduler. *)

\* PromoteScheduledJobs: the batch whose time came first.
PromoteScheduledJobs ==
  \E S \in Batches(DueIds(jobs, now), [id \in DOMAIN jobs |-> jobs[id].scheduled_at], BatchLimit) :
     jobs' = Updated(jobs, S, [id \in S |-> PromotedRow(jobs[id])])

\* FailExpiredJobs: the batch whose locks expired first.
FailExpiredJobs ==
  \E S \in Batches(ExpiredIds(jobs, now), [id \in DOMAIN jobs |-> jobs[id].lock_expires_at], BatchLimit) :
     jobs' = Updated(jobs, S, [id \in S |-> ExpiredRow(jobs[id], now)])

\* One tick of cmdScheduler is two statements ...
SchedulerPromote ==
  /\ Daemon
  /\ sched = "promote"
  /\ PromoteScheduledJobs
  /\ sched' = "expire"
  /\ UNCHANGED <<queues, paused, calls, now>>

SchedulerExpire ==
  /\ Daemon
  /\ sched = "expire"
  /\ FailExpiredJobs
  /\ sched' = "promote"
  /\ UNCHANGED <<queues, paused, calls, now>>

\* ... an error in one is logged and the loop goes on; a process that is
\* restarted between the two begins a new tick, which is the same step.
SchedulerError ==
  /\ Daemon
  /\ sched' = IF sched = "promote" THEN "expire" ELSE "promote"
  /\ UNCHANGED <<jobs, queues, paused, calls, now>>

\* POST /scheduler/run.
RunScheduler ==
  /\ PromoteScheduledJobs
  /\ UNCHANGED <<queues, paused, calls, sched, now>>

Tick ==
  /\ now < MaxTime
  /\ now' = now + 1
  /\ UNCHANGED <<jobs, queues, paused, calls, sched>>
-----------------------------------------------------------------------------
CallerStep(c) ==
  \/ \E q \in QueueName : CreateJobUpsert(c, q) \/ ClaimJob(c, q)
  \/ CreateJobInsert(c)
  \/ \E id \in JobId : CompleteJob(c, id) \/ HeartbeatJob(c, id) \/ FailJobRead(c, id)
  \/ FailJobWrite(c)
  \/ AbortCall(c)

ControlStep == \/ \E id \in JobId : CancelJob(id) \/ PromoteJob(id)
               \/ \E q \in QueueName : PauseQueue(q) \/ ResumeQueue(q)

SchedulerStep == SchedulerPromote \/ SchedulerExpire \/ SchedulerError \/ RunScheduler

Next == (\E c \in Caller : CallerStep(c)) \/ ControlStep \/ SchedulerStep \/ Tick

Spec == Init /\ [][Next]_vars

\* The database does not fail for ever, so each of the loop's statements is
\* executed again and again; time passes.
DaemonSpec == /\ Spec
              /\ WF_vars(Tick)
              /\ SF_vars(SchedulerPromote)
              /\ SF_vars(SchedulerExpire)

\* The deployment without a scheduler process: something outside triggers
\* POST /scheduler/run again and again.
HttpSpec == Spec /\ WF_vars(Tick) /\ WF_vars(RunScheduler)
-----------------------------------------------------------------------------
(* Safety. *)

\* No job is attempted more often than max_attempts allows, although three
\* operations of three callers share the decision: claims count an attempt,
\* FailJob and FailExpiredJobs compare, and every way back to a claimable
\* status must leave an attempt to use.
AttemptsWithinLimit ==
  \A id \in DOMAIN jobs :
     /\ jobs[id].status \in Waiting => jobs[id].attempt < jobs[id].max_attempts
     /\ jobs[id].attempt <= jobs[id].max_attempts

\* Every attempt that failed has left exactly one entry in errors, however
\* a worker's FailJob, the scheduler's FailExpiredJobs and late calls race:
\* none fails an attempt twice, none fails it silently.  A cancelled job was
\* either waiting or running its last attempt.
ErrorPerFailedAttempt ==
  \A id \in DOMAIN jobs :
     LET r == jobs[id]
         failed == Len(r.errors)
     IN  /\ Len(r.attempted_by) = r.attempt
         /\ r.status \in Waiting \cup {"discarded"} => failed = r.attempt
         /\ r.status \in {"running", "completed"} => failed = r.attempt - 1
         /\ r.status = "cancelled" => failed \in {r.attempt - 1, r.attempt}

\* finalized_at and result tell the truth about the status: the dashboard
\* and the API show them without looking at it.
FinalizedExactlyWhenFinal ==
  \A id \in DOMAIN jobs : /\ jobs[id].finalized <=> jobs[id].status \in Final
                          /\ jobs[id].result # Null <=> jobs[id].status = "completed"

\* A running job always has a lock the scheduler can see expire, whatever
\* happened to it before: not NULL, which `lock_expires_at < NOW()` never
\* selects (FailExpiredJobs clears it, FailJob and CompleteJob leave an old
\* one behind), and at most the full duration in the future.  Nothing is said
\* of a least duration: a heartbeat that waited for the row shortens the lock.
RunningIsRecoverable ==
  \A id \in DOMAIN jobs : jobs[id].status = "running" =>
     /\ jobs[id].lock_expires_at # Null
     /\ jobs[id].lock_expires_at <= now + LockDuration

\* No attempt begins before the time the job was last scheduled for, be it
\* its delay or its backoff, although the status is computed with a server's
\* clock and the claim uses the database's.
NeverEarly ==
  \A id \in DOMAIN jobs : jobs[id].status \in {"running", "completed"} =>
     jobs[id].scheduled_at <= jobs[id].attempted_at

\* Every job's queue has a row in queues: ListQueues, which starts from that
\* table, forgets no job.
QueuesKnown == \A id \in DOMAIN jobs : jobs[id].queue \in queues

\* A finished job stays as it is, whatever late, repeated or concurrent call
\* still reaches it, and rows are never deleted.
FinalIsForever ==
  [][\A id \in DOMAIN jobs : /\ id \in DOMAIN jobs'
                             /\ jobs[id].status \in Final => jobs'[id] = jobs[id]]_vars

\* What the rows say about the lives of all jobs.
Lives == [j \in JobId |-> IF j \in DOMAIN jobs THEN LifeOf(jobs[j]) ELSE NoLife]

Lifecycle == INSTANCE JobLifecycle WITH Limits <- AttemptLimits, life <- Lives

\* The API implements the life of a job as JobLifecycle promises it: an
\* attempt starts, succeeds, fails or is cancelled once, a failed one leads
\* to another exactly while attempts are left, and nothing follows the end.
ImplementsLifecycle == Lifecycle!Spec

\* README: "Fail (will retry until max_attempts, then move to discarded)".
\* A failure a worker reports of a running job is taken, not refused.
FailureIsTaken ==
  \A c \in Caller : calls[c].op = "fail" /\ IsRunning(jobs, calls[c].job) => FailJobAccepted(c)
-----------------------------------------------------------------------------
(* Liveness. *)

\* The job waits for a moment that has come, and for the scheduler.
IsOverdue(id) ==
  /\ id \in DOMAIN jobs
  /\ jobs[id].status \in {"scheduled", "retryable"}
  /\ jobs[id].scheduled_at <= now

\* A delayed or failed job whose time has come is released, batch limits,
\* scheduler errors and the steps of everybody else notwithstanding: README,
\* "The scheduler promotes them to `available` when their time arrives".
DueJobsReleased == \A id \in JobId : IsOverdue(id) ~> ~IsOverdue(id)

\* Nobody has renewed the lock in time.
IsAbandoned(id) ==
  /\ id \in DOMAIN jobs
  /\ jobs[id].status = "running"
  /\ jobs[id].lock_expires_at # Null
  /\ jobs[id].lock_expires_at < now

\* README: "If a worker dies, the scheduler fails the job on the next tick
\* and reschedules it": a running job whose lock has expired does not stay
\* so, unless somebody renews the lock after all.
ExpiredLocksReclaimed == \A id \in JobId : IsAbandoned(id) ~> ~IsAbandoned(id)
=============================================================================
