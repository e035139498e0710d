---------------------------- MODULE SqliteQueue ----------------------------
(***************************************************************************)
(* The job queue over SQLiteDriver (internal/service/driver_sqlite.go).    *)
(*                                                                         *)
(* SQLite runs one writer at a time, so a statement is a step here without *)
(* further ado, and most statements are those of JobQueue.  Not so its     *)
(* clock: CURRENT_TIMESTAMP, datetime('now') and the driver's own time     *)
(* format count whole seconds, while durations are given in milliseconds.  *)
(* The clock of this module ticks TicksPerSecond times a second, and the   *)
(* statements see the second it is in.                                     *)
(***************************************************************************)
EXTENDS JobTable

CONSTANTS Delays, Priorities, AttemptLimits, Backoffs, Daemon,  \* as in JobQueue, durations in ticks
          TicksPerSecond,  \* 1000 milliseconds make a second
          LockTicks,       \* JOB_LOCK_DURATION
          CalendarEnd,     \* the last delay, in seconds, datetime() has a date for
          ClaimParses,     \* FALSE: the program as it is, see ClaimJob
          MaxTime          \* bound: the clock stops here

\* int64(lockDuration.Seconds()) and the time formats cut off the fraction.
Seconds(ticks) == ticks \div TicksPerSecond

\* LockDuration is what the statements add to the second it is.
ASSUME SqliteAssumption == /\ TicksPerSecond \in Nat \ {0}
                           /\ LockTicks \in Nat \ {0}
                           /\ LockDuration = Seconds(LockTicks)
                           /\ Delays \subseteq Int
                           /\ Priorities \subseteq 0..100
                           /\ AttemptLimits \subseteq Nat \ {0}
                           /\ Backoffs \subseteq BackoffOptions
                           /\ CalendarEnd \in Nat
                           /\ ClaimParses \in BOOLEAN

VARIABLES jobs, queues, paused, calls, sched,  \* as in JobQueue
          now,     \* the machine's clock, in ticks: server and database share it
          due,     \* history: when, to the tick, a job was to run at the earliest
          granted  \* history: when, to the tick, its lock was given or renewed

sqliteVars == <<jobs, queues, paused, calls, sched, now, due, granted>>

\* The statements as JobQueue has them, on a clock of whole seconds.
\* The time a statement sees is read when it has the database to itself.
Sec == INSTANCE JobQueue WITH now <- Seconds(now), ClockSkew <- 0, RowWait <- 0

SqliteInit == now = 0 /\ Sec!Init /\ due = [id \in JobId |-> 0] /\ granted = [id \in JobId |-> 0]

Unseen == UNCHANGED <<now, due, granted>>

\* What was noted of a job, now that a statement has changed it.
NowFor(id, history) == [history EXCEPT ![id] = now]
-----------------------------------------------------------------------------
(* CreateJob. *)

CreateJobUpsert(c, q) ==
  /\ calls[c] = Sec!Idle
  /\ \E delay \in Delays :
        calls' = [calls EXCEPT ![c] = [op        |-> "create",
                                       queue     |-> q,
                                       scheduled |-> IF delay = 0 THEN Null ELSE now + delay]]
  /\ queues' = queues \cup {q}
  /\ UNCHANGED <<jobs, paused, sched>>
  /\ Unseen

\* The status is decided on the exact times; scheduled_at keeps the second.
CreateJobInsert(c) ==
  /\ calls[c].op = "create"
  /\ \E id \in JobId \ DOMAIN jobs, pending \in BOOLEAN, p \in Priorities,
        limit \in AttemptLimits, b \in Backoffs :
        LET at     == IF calls[c].scheduled = Null THEN now ELSE calls[c].scheduled
            status == IF pending THEN "pending" ELSE IF at > now THEN "scheduled" ELSE "available"
            row    == NewRow(calls[c].queue, status, Sec!RowPriority(p), limit, Seconds(at), b)
        IN  /\ jobs' = [i \in DOMAIN jobs \cup {id} |-> IF i = id THEN row ELSE jobs[i]]
            /\ due' = [due EXCEPT ![id] = at]
  /\ calls' = [calls EXCEPT ![c] = Sec!Idle]
  /\ UNCHANGED <<queues, paused, sched, now, granted>>

AbortCall(c) == now' = now /\ Sec!AbortCall(c) /\ Unseen
-----------------------------------------------------------------------------
(* The calls of workers. *)

\* The claim is an UPDATE inside a WITH clause, where SQLite admits nothing
\* but a SELECT: the statement is refused before it does anything.  With
\* ClaimParses the module tells how the rest of the driver would work with
\* the claim the statement means.
ClaimJob(c, q) ==
  /\ ClaimParses
  /\ now' = now
  /\ \E id \in DOMAIN jobs : Sec!ClaimRow(c, q, id) /\ granted' = NowFor(id, granted)
  /\ UNCHANGED due

CompleteJob(c, id) == now' = now /\ Sec!CompleteJob(c, id) /\ Unseen

HeartbeatJob(c, id) ==
  /\ now' = now
  /\ Sec!HeartbeatJob(c, id)
  /\ granted' = NowFor(id, granted)
  /\ UNCHANGED due

FailJobRead(c, id) == now' = now /\ Sec!FailJobRead(c, id) /\ Unseen

\* Mutant of BackoffSeconds: the fraction is cut off.
BackoffSecondsCut(ms) == Seconds(ms)

\* (backoffMs + 999) / 1000.  Go's division truncates towards zero.
BackoffSeconds(ms) == LET up == ms + TicksPerSecond - 1
                      IN  IF up < 0 THEN -Seconds(-up) ELSE Seconds(up)

\* Whether the UPDATE of a FailJob in progress takes effect: beyond the
\* calendar datetime() is NULL, which scheduled_at refuses; the last attempt
\* does not evaluate it.
FailJobAccepted(c) ==
  LET id == calls[c].job
  IN  /\ calls[c].op = "fail"
      /\ IsRunning(jobs, id)
      /\ \/ jobs[id].attempt >= jobs[id].max_attempts
         \/ BackoffSeconds(calls[c].delay) \in 0 .. CalendarEnd

FailJobWrite(c) ==
  /\ calls[c].op = "fail"
  /\ LET id == calls[c].job
     IN  \/ /\ FailJobAccepted(c)
            /\ jobs' = [jobs EXCEPT ![id] =
                          FailedRow(@, Seconds(now), BackoffSeconds(calls[c].delay), "failed")]
            /\ due' = [due EXCEPT ![id] = now + calls[c].delay]
         \/ ~FailJobAccepted(c) /\ UNCHANGED <<jobs, due>>
  /\ calls' = [calls EXCEPT ![c] = Sec!Idle]
  /\ UNCHANGED <<queues, paused, sched, now, granted>>
-----------------------------------------------------------------------------
(* Everybody else: the statements of JobQueue, in the second it is. *)

CancelJob(id) == now' = now /\ Sec!CancelJob(id) /\ Unseen

PromoteJob(id) == now' = now /\ Sec!PromoteJob(id) /\ Unseen

PauseQueue(q) == now' = now /\ Sec!PauseQueue(q) /\ Unseen

ResumeQueue(q) == now' = now /\ Sec!ResumeQueue(q) /\ Unseen

PromoteScheduledJobs == /\ now' = now
                        /\ Sec!SchedulerPromote \/ Sec!RunScheduler
                        /\ Unseen

\* Mutant of Expired: a lock that ends this second counts as expired.
ExpiredEarly == ExpiredIdsEarly(jobs, Seconds(now))

\* lock_expires_at < CURRENT_TIMESTAMP.
Expired == ExpiredIds(jobs, Seconds(now))

\* A job that is failed for its lock may run again at once.
FailExpiredJobs ==
  /\ Daemon
  /\ sched = "expire"
  /\ \E S \in Batches(Expired, [id \in DOMAIN jobs |-> jobs[id].lock_expires_at], BatchLimit) :
        /\ jobs' = Updated(jobs, S, [id \in S |-> ExpiredRow(jobs[id], Seconds(now))])
        /\ due' = [id \in JobId |-> IF id \in S THEN now ELSE due[id]]
  /\ sched' = "promote"
  /\ UNCHANGED <<queues, paused, calls, now, granted>>

\* The error is logged; SQLITE_BUSY, when another process writes, is one.
SchedulerError == now' = now /\ Sec!SchedulerError /\ Unseen

Tick == /\ now < MaxTime
        /\ now' = now + 1
        /\ UNCHANGED <<jobs, queues, paused, calls, sched, due, granted>>

SqliteNext ==
  \/ \E c \in Caller : \/ \E q \in QueueName : CreateJobUpsert(c, q) \/ ClaimJob(c, q)
                       \/ CreateJobInsert(c) \/ AbortCall(c) \/ FailJobWrite(c)
                       \/ \E id \in JobId : CompleteJob(c, id) \/ HeartbeatJob(c, id) \/ FailJobRead(c, id)
  \/ \E id \in JobId : CancelJob(id) \/ PromoteJob(id)
  \/ \E q \in QueueName : PauseQueue(q) \/ ResumeQueue(q)
  \/ PromoteScheduledJobs \/ FailExpiredJobs \/ SchedulerError
  \/ Tick

SqliteSpec == SqliteInit /\ [][SqliteNext]_sqliteVars

\* Time passes, and workers keep asking for jobs.
SqliteFairSpec == /\ SqliteSpec
                  /\ WF_sqliteVars(Tick)
                  /\ \A q \in QueueName : SF_sqliteVars(\E c \in Caller : ClaimJob(c, q))
-----------------------------------------------------------------------------
Lives == [j \in JobId |-> IF j \in DOMAIN jobs THEN LifeOf(jobs[j]) ELSE NoLife]

Lifecycle == INSTANCE JobLifecycle WITH Limits <- AttemptLimits, life <- Lives

\* The rounded times lead no job out of the life JobLifecycle promises.
ImplementsLifecycle == Lifecycle!Spec

\* README: "Workers must call `HeartbeatJob` at least once every
\* `JOB_LOCK_DURATION` to keep their lock alive": no attempt is failed for
\* its lock before that time has passed since the claim or the last
\* heartbeat, in whichever part of a second that was.  The duration has to be
\* a whole number of seconds: the driver cuts the rest off.
LockLastsItsDuration ==
  [][\A id \in DOMAIN jobs :
        jobs'[id].errors = Append(jobs[id].errors, "lock_expired") => now > granted[id] + LockTicks]_sqliteVars

\* Though times are cut to seconds and delays rounded up, no attempt begins
\* a whole second before its delay or its backoff is over.
LessThanASecondEarly ==
  [][\A id \in DOMAIN jobs :
        jobs'[id].attempt > jobs[id].attempt => now + TicksPerSecond > due[id]]_sqliteVars

\* README: "SQLite (good for dev)", and the comment of SQLiteDriver: "concurrent
\* ClaimJob calls queue but never race": a job that stays available, in a
\* queue that is not paused, is claimed when workers keep asking.
IsClaimable(id) == id \in DOMAIN jobs /\ jobs[id].status = "available" /\ jobs[id].queue \notin paused

AvailableJobsStart == \A id \in JobId : []<>~IsClaimable(id)
=============================================================================
