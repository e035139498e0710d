--------------------------- MODULE JobQueue_proofs ---------------------------
(***************************************************************************)
(* Proofs about JobQueue, for every set of jobs, queues and callers, every *)
(* lock duration, batch limit, clock skew and set of options.              *)
(*                                                                         *)
(* The argument goes row by row.  IInv says RowOK of every row, which each *)
(* statement keeps by the lemmas of JobTable_proofs, and adds the one fact *)
(* about a half-done CreateJob that QueuesKnown depends on.  The last part *)
(* shows the refinement of JobLifecycle, which rests on the same invariant.*)
(***************************************************************************)
EXTENDS JobQueue, JobTable_proofs, FiniteSetTheorems

ControlOK == /\ queues \subseteq QueueName
             /\ paused \subseteq queues
             /\ calls \in [Caller -> Call]
             /\ sched \in {"promote", "expire"}
             /\ now \in Nat

\* A queue that a job is about to be inserted into is there already.
QueuesOK == /\ \A id \in DOMAIN jobs : jobs[id].queue \in queues
            /\ \A c \in Caller : calls[c].op = "create" => calls[c].queue \in queues

IInv == RowsOK(jobs, now) /\ ControlOK /\ QueuesOK

\* The table has finitely many rows.
TableFinite == IsFiniteSet(DOMAIN jobs)

QueueIInv == IInv /\ TableFinite
-----------------------------------------------------------------------------
(* The steps of JobQueue. *)

\* A statement that changes one row.
LEMMA OneRow ==
  ASSUME IInv, NEW id \in DOMAIN jobs, NEW row, RowOK(row, now),
         row.queue = jobs[id].queue, jobs[id].status \notin Final,
         jobs' = [jobs EXCEPT ![id] = row], now' = now
  PROVE  RowsOK(jobs', now') /\ DOMAIN jobs' = DOMAIN jobs /\ Kept(jobs, jobs')
  BY RowChanged DEF IInv, ControlOK, Kept

\* A statement that changes a batch of rows.
LEMMA ManyRows ==
  ASSUME IInv, NEW S, S \subseteq DOMAIN jobs, NEW image,
         \A id \in S : /\ RowOK(image[id], now)
                       /\ image[id].queue = jobs[id].queue
                       /\ jobs[id].status \notin Final,
         jobs' = Updated(jobs, S, image), now' = now
  PROVE  RowsOK(jobs', now') /\ DOMAIN jobs' = DOMAIN jobs /\ Kept(jobs, jobs')
  BY RowsChanged DEF IInv, ControlOK, Kept

\* What is left to show once the rows are dealt with.
LEMMA QueuesKept ==
  ASSUME IInv, DOMAIN jobs' = DOMAIN jobs, Kept(jobs, jobs'), queues \subseteq queues',
         \A c \in Caller : calls'[c] = calls[c] \/ calls'[c].op # "create"
                           \/ calls'[c].queue \in queues'
  PROVE  QueuesOK'
  BY DEF IInv, QueuesOK, Kept

LEMMA InitEstablishes == Init => IInv
<1> SUFFICES ASSUME Init PROVE IInv
  OBVIOUS
<1>1. RowsOK(jobs, now)
  BY DEF Init, RowsOK
<1>2. ControlOK
  BY DEF Init, ControlOK, Call
<1>3. QueuesOK
  BY DEF Init, QueuesOK, Idle
<1> QED
  BY <1>1, <1>2, <1>3 DEF IInv

LEMMA CreateJobUpsertStep ==
  ASSUME IInv, NEW c \in Caller, NEW q \in QueueName, CreateJobUpsert(c, q)
  PROVE  IInv' /\ Kept(jobs, jobs')
<1>0. PICK delay \in Delays : \E at \in ScheduledAt(delay) :
        calls' = [calls EXCEPT ![c] = [op |-> "create", queue |-> q, scheduled |-> at]]
  BY DEF CreateJobUpsert
<1>1. PICK at \in ScheduledAt(delay) :
        calls' = [calls EXCEPT ![c] = [op |-> "create", queue |-> q, scheduled |-> at]]
  BY <1>0
<1>2. at \in Int \cup {Null}
  BY JobQueueAssumption DEF ScheduledAt, ServerTimes, IInv, ControlOK
<1>3. [op |-> "create", queue |-> q, scheduled |-> at] \in Call
  BY <1>2 DEF Call
<1>4. UNCHANGED <<jobs, paused, sched, now>> /\ queues' = queues \cup {q}
  BY DEF CreateJobUpsert
<1>5. ControlOK'
  BY <1>1, <1>3, <1>4 DEF IInv, ControlOK
<1>6. QueuesOK'
  BY <1>1, <1>4 DEF IInv, ControlOK, QueuesOK
<1> QED
  BY <1>4, <1>5, <1>6 DEF IInv, Kept

LEMMA CreateJobInsertStep ==
  ASSUME IInv, NEW c \in Caller, CreateJobInsert(c)
  PROVE  IInv' /\ Kept(jobs, jobs')
<1>1. calls[c] \in Call /\ calls[c].op = "create" /\ calls[c].queue \in queues
  BY DEF CreateJobInsert, IInv, ControlOK, QueuesOK
<1>2. calls[c].queue \in QueueName /\ calls[c].scheduled \in Int \cup {Null}
  BY <1>1 DEF Call, Idle
<1>3. PICK id \in JobId \ DOMAIN jobs, pending \in BOOLEAN, p \in Priorities,
           limit \in AttemptLimits, b \in Backoffs, t \in ServerTimes :
         LET at     == IF calls[c].scheduled = Null THEN t ELSE calls[c].scheduled
             status == IF pending THEN "pending" ELSE IF at > t THEN "scheduled" ELSE "available"
             row    == NewRow(calls[c].queue, status, RowPriority(p), limit, at, b)
         IN  jobs' = [i \in DOMAIN jobs \cup {id} |-> IF i = id THEN row ELSE jobs[i]]
  BY DEF CreateJobInsert
<1> DEFINE at     == IF calls[c].scheduled = Null THEN t ELSE calls[c].scheduled
           status == IF pending THEN "pending" ELSE IF at > t THEN "scheduled" ELSE "available"
           row    == NewRow(calls[c].queue, status, RowPriority(p), limit, at, b)
<1>4. jobs' = [i \in DOMAIN jobs \cup {id} |-> IF i = id THEN row ELSE jobs[i]]
  BY <1>3
<1>5. at \in Int /\ status \in Waiting /\ RowPriority(p) \in 1..4
  BY <1>2 DEF ServerTimes, IInv, ControlOK, Waiting, RowPriority
<1>6. limit \in Nat \ {0} /\ b \in BackoffOptions /\ now \in Nat
  BY JobQueueAssumption DEF IInv, ControlOK
<1>7. row.queue = calls[c].queue
  BY DEF NewRow
<1> HIDE DEF at, status
<1>8. RowOK(row, now)
  BY <1>2, <1>5, <1>6, NewRowOK
<1> HIDE DEF row
<1>9. /\ DOMAIN jobs' = DOMAIN jobs \cup {id} /\ jobs'[id] = row
      /\ \A i \in DOMAIN jobs : jobs'[i] = jobs[i]
  BY <1>4
<1>10. UNCHANGED <<queues, paused, sched, now>> /\ calls' = [calls EXCEPT ![c] = Idle]
  BY DEF CreateJobInsert
<1>11. RowsOK(jobs', now')
  BY <1>4, <1>8, <1>9, <1>10 DEF IInv, RowsOK
<1>12. ControlOK'
  BY <1>10 DEF IInv, ControlOK, Call
<1>13. QueuesOK'
  BY <1>1, <1>7, <1>9, <1>10 DEF IInv, ControlOK, QueuesOK, Idle
<1> QED
  BY <1>9, <1>11, <1>12, <1>13 DEF IInv, Kept

LEMMA AbortCallStep ==
  ASSUME IInv, NEW c \in Caller, AbortCall(c)
  PROVE  IInv' /\ Kept(jobs, jobs')
<1>1. UNCHANGED <<jobs, queues, paused, sched, now>> /\ calls' = [calls EXCEPT ![c] = Idle]
  BY DEF AbortCall
<1>2. ControlOK'
  BY <1>1 DEF IInv, ControlOK, Call
<1>3. QueuesOK'
  BY <1>1 DEF IInv, ControlOK, QueuesOK, Idle
<1> QED
  BY <1>1, <1>2, <1>3 DEF IInv, Kept

LEMMA ClaimRowStep ==
  ASSUME IInv, NEW c \in Caller, NEW q \in QueueName, NEW id, ClaimRow(c, q, id)
  PROVE  IInv' /\ Kept(jobs, jobs')
<1> DEFINE row == ClaimedRow(jobs[id], c, now)
<1>1. id \in DOMAIN jobs /\ jobs' = [jobs EXCEPT ![id] = row] /\ JobsOnly
  BY DEF ClaimRow, ClaimableIds
<1>2. RowOK(jobs[id], now) /\ now \in Nat
  BY <1>1 DEF IInv, RowsOK, ControlOK
<1>3. RowOK(row, now) /\ jobs[id].status \notin Final
  BY <1>2, ClaimedRowOK DEF ClaimRow, ClaimableIds, Final, Waiting
<1>4. row.queue = jobs[id].queue
  BY <1>2, NoSetListWritesQueue DEF RowOK
<1> HIDE DEF row
<1>5. RowsOK(jobs', now') /\ DOMAIN jobs' = DOMAIN jobs /\ Kept(jobs, jobs')
  BY <1>1, <1>3, <1>4, OneRow DEF JobsOnly
<1>6. ControlOK'
  BY <1>1 DEF IInv, ControlOK, JobsOnly
<1>7. QueuesOK'
  BY <1>1, <1>5, QueuesKept DEF JobsOnly
<1> QED
  BY <1>5, <1>6, <1>7 DEF IInv

LEMMA CompleteJobStep ==
  ASSUME IInv, NEW c \in Caller, NEW id, CompleteJob(c, id)
  PROVE  IInv' /\ Kept(jobs, jobs')
<1> DEFINE row == CompletedRow(jobs[id], c)
<1>1. id \in DOMAIN jobs /\ jobs' = [jobs EXCEPT ![id] = row] /\ JobsOnly
  BY DEF CompleteJob, IsRunning
<1>2. RowOK(jobs[id], now) /\ now \in Nat
  BY <1>1 DEF IInv, RowsOK, ControlOK
<1>3. RowOK(row, now) /\ jobs[id].status \notin Final
  BY <1>2, CompletedRowOK DEF CompleteJob, IsRunning, Final, Waiting
<1>4. row.queue = jobs[id].queue
  BY <1>2, NoSetListWritesQueue DEF RowOK
<1> HIDE DEF row
<1>5. RowsOK(jobs', now') /\ DOMAIN jobs' = DOMAIN jobs /\ Kept(jobs, jobs')
  BY <1>1, <1>3, <1>4, OneRow DEF JobsOnly
<1>6. ControlOK'
  BY <1>1 DEF IInv, ControlOK, JobsOnly
<1>7. QueuesOK'
  BY <1>1, <1>5, QueuesKept DEF JobsOnly
<1> QED
  BY <1>5, <1>6, <1>7 DEF IInv

\* A statement began at some time up to now.
LEMMA StatementsArePast ==
  ASSUME IInv, NEW at \in StatementTimes
  PROVE  at \in Nat /\ at <= now /\ at \in now - RowWait .. now /\ now \in Nat
  BY JobQueueAssumption DEF StatementTimes, IInv, ControlOK

LEMMA HeartbeatJobStep ==
  ASSUME IInv, NEW c \in Caller, NEW id, HeartbeatJob(c, id)
  PROVE  IInv' /\ Kept(jobs, jobs')
<1>0. PICK at \in StatementTimes : HeartbeatAt(c, id, at)
  BY DEF HeartbeatJob
<1> DEFINE row == HeartbeatRow(jobs[id], at)
<1>1. id \in DOMAIN jobs /\ jobs' = [jobs EXCEPT ![id] = row] /\ JobsOnly
  BY <1>0 DEF HeartbeatAt, IsRunning
<1>2. RowOK(jobs[id], now) /\ now \in Nat
  BY <1>1 DEF IInv, RowsOK, ControlOK
<1>3. RowOK(row, now) /\ jobs[id].status \notin Final
  <2>1. at \in Nat /\ at <= now
    BY StatementsArePast
  <2> QED
    BY <1>0, <1>2, <2>1, HeartbeatRowOK DEF HeartbeatAt, IsRunning, Final, Waiting
<1>4. row.queue = jobs[id].queue
  BY <1>2, NoSetListWritesQueue DEF RowOK
<1> HIDE DEF row
<1>5. RowsOK(jobs', now') /\ DOMAIN jobs' = DOMAIN jobs /\ Kept(jobs, jobs')
  BY <1>1, <1>3, <1>4, OneRow DEF JobsOnly
<1>6. ControlOK'
  BY <1>1 DEF IInv, ControlOK, JobsOnly
<1>7. QueuesOK'
  BY <1>1, <1>5, QueuesKept DEF JobsOnly
<1> QED
  BY <1>5, <1>6, <1>7 DEF IInv

LEMMA CancelJobStep ==
  ASSUME IInv, NEW id, CancelJob(id)
  PROVE  IInv' /\ Kept(jobs, jobs')
<1> DEFINE row == CancelledRow(jobs[id])
<1>1. id \in DOMAIN jobs /\ jobs' = [jobs EXCEPT ![id] = row] /\ JobsOnly
  BY DEF CancelJob, IsCancellable
<1>2. RowOK(jobs[id], now) /\ now \in Nat
  BY <1>1 DEF IInv, RowsOK, ControlOK
<1>3. RowOK(row, now) /\ jobs[id].status \notin Final
  BY <1>2, CancelledRowOK DEF CancelJob, IsCancellable, Final, Waiting
<1>4. row.queue = jobs[id].queue
  BY <1>2, NoSetListWritesQueue DEF RowOK
<1> HIDE DEF row
<1>5. RowsOK(jobs', now') /\ DOMAIN jobs' = DOMAIN jobs /\ Kept(jobs, jobs')
  BY <1>1, <1>3, <1>4, OneRow DEF JobsOnly
<1>6. ControlOK'
  BY <1>1 DEF IInv, ControlOK, JobsOnly
<1>7. QueuesOK'
  BY <1>1, <1>5, QueuesKept DEF JobsOnly
<1> QED
  BY <1>5, <1>6, <1>7 DEF IInv

LEMMA PromoteJobStep ==
  ASSUME IInv, NEW id, PromoteJob(id)
  PROVE  IInv' /\ Kept(jobs, jobs')
<1>0. PICK at \in StatementTimes : jobs' = [jobs EXCEPT ![id] = ReleasedRow(jobs[id], at)]
  BY DEF PromoteJob
<1> DEFINE row == ReleasedRow(jobs[id], at)
<1>1. id \in DOMAIN jobs /\ jobs' = [jobs EXCEPT ![id] = row] /\ JobsOnly
  BY <1>0 DEF PromoteJob, IsPending
<1>2. RowOK(jobs[id], now) /\ now \in Nat
  BY <1>1 DEF IInv, RowsOK, ControlOK
<1>3. RowOK(row, now) /\ jobs[id].status \notin Final
  <2>1. at \in Nat /\ at <= now
    BY StatementsArePast
  <2> QED
    BY <1>2, <2>1, ReleasedRowOK DEF PromoteJob, IsPending, Final, Waiting
<1>4. row.queue = jobs[id].queue
  BY <1>2, NoSetListWritesQueue DEF RowOK
<1> HIDE DEF row
<1>5. RowsOK(jobs', now') /\ DOMAIN jobs' = DOMAIN jobs /\ Kept(jobs, jobs')
  BY <1>1, <1>3, <1>4, OneRow DEF JobsOnly
<1>6. ControlOK'
  BY <1>1 DEF IInv, ControlOK, JobsOnly
<1>7. QueuesOK'
  BY <1>1, <1>5, QueuesKept DEF JobsOnly
<1> QED
  BY <1>5, <1>6, <1>7 DEF IInv

LEMMA FailJobReadStep ==
  ASSUME IInv, NEW c \in Caller, NEW id \in JobId, FailJobRead(c, id)
  PROVE  IInv' /\ Kept(jobs, jobs')
<1>1. PICK ms \in BackoffMs(jobs[id].backoff, jobs[id].attempt) :
        calls' = [calls EXCEPT ![c] = [op |-> "fail", job |-> id, delay |-> ms]]
  BY DEF FailJobRead
<1>2. ms \in Int64
  BY BackoffInRange
<1>3. [op |-> "fail", job |-> id, delay |-> ms] \in Call
  BY <1>2 DEF Call
<1>4. UNCHANGED <<jobs, queues, paused, sched, now>>
  BY DEF FailJobRead
<1>5. ControlOK'
  BY <1>1, <1>3, <1>4 DEF IInv, ControlOK
<1>6. QueuesOK'
  BY <1>1, <1>4 DEF IInv, ControlOK, QueuesOK
<1> QED
  BY <1>4, <1>5, <1>6 DEF IInv, Kept

LEMMA FailJobWriteStep ==
  ASSUME IInv, NEW c \in Caller, FailJobWrite(c)
  PROVE  IInv' /\ Kept(jobs, jobs')
<1> DEFINE id  == calls[c].job
<1>1. UNCHANGED <<queues, paused, sched, now>> /\ calls' = [calls EXCEPT ![c] = Idle]
  BY DEF FailJobWrite
<1>2. ControlOK'
  BY <1>1 DEF IInv, ControlOK, Call
<1>3. CASE UNCHANGED jobs
  <2>1. QueuesOK'
    BY <1>1, <1>3 DEF IInv, ControlOK, QueuesOK, Idle
  <2> QED
    BY <1>1, <1>2, <1>3, <2>1 DEF IInv, Kept
<1>4. ASSUME FailJobAccepted(c), NEW at \in StatementTimes,
             jobs' = [jobs EXCEPT ![id] = FailedRow(jobs[id], at, calls[c].delay, "failed")]
      PROVE  IInv' /\ Kept(jobs, jobs')
  <2> DEFINE row == FailedRow(jobs[id], at, calls[c].delay, "failed")
  <2>1. id \in DOMAIN jobs /\ jobs[id].status = "running" /\ calls[c].delay \in Int
    BY <1>4, BackoffAssumption DEF FailJobAccepted, IsRunning, Int4
  <2>2. RowOK(jobs[id], now) /\ now \in Nat
    BY <2>1 DEF IInv, RowsOK, ControlOK
  <2>3. RowOK(row, now) /\ jobs[id].status \notin Final
    BY <2>1, <2>2, StatementsArePast, FailedRowOK DEF Final
  <2>4. row.queue = jobs[id].queue
    BY <2>2, NoSetListWritesQueue DEF RowOK
  <2>4a. jobs' = [jobs EXCEPT ![id] = row]
    BY <1>4
  <2> HIDE DEF row, id
  <2>5. RowsOK(jobs', now') /\ DOMAIN jobs' = DOMAIN jobs /\ Kept(jobs, jobs')
    BY <1>1, <2>1, <2>3, <2>4, <2>4a, OneRow
  <2>6. QueuesOK'
    BY <1>1, <2>5, QueuesKept DEF IInv, ControlOK, Idle
  <2> QED
    BY <1>2, <2>5, <2>6 DEF IInv
<1> QED
  BY <1>3, <1>4 DEF FailJobWrite

LEMMA PauseQueueStep ==
  ASSUME IInv, NEW q \in QueueName, PauseQueue(q) \/ ResumeQueue(q)
  PROVE  IInv' /\ Kept(jobs, jobs')
<1>1. UNCHANGED <<jobs, calls, sched, now>>
      /\ queues \subseteq queues' /\ queues' \subseteq QueueName /\ paused' \subseteq queues'
  BY DEF PauseQueue, ResumeQueue, IInv, ControlOK
<1>2. ControlOK'
  BY <1>1 DEF IInv, ControlOK
<1>3. QueuesOK'
  BY <1>1 DEF IInv, QueuesOK
<1> QED
  BY <1>1, <1>2, <1>3 DEF IInv, Kept

\* The two statements of the scheduler, whoever runs them.
LEMMA PromoteScheduledJobsRows ==
  ASSUME IInv, PromoteScheduledJobs, now' = now
  PROVE  RowsOK(jobs', now') /\ DOMAIN jobs' = DOMAIN jobs /\ Kept(jobs, jobs')
<1>1. PICK S \in Batches(DueIds(jobs, now), [id \in DOMAIN jobs |-> jobs[id].scheduled_at], BatchLimit) :
        jobs' = Updated(jobs, S, [id \in S |-> PromotedRow(jobs[id])])
  BY DEF PromoteScheduledJobs
<1>2. S \subseteq DueIds(jobs, now)
  BY BatchIsSelected
<1>3. S \subseteq DOMAIN jobs /\ \A id \in S : jobs[id].status \in {"scheduled", "retryable"}
  BY <1>2 DEF DueIds
<1>4. \A id \in S : /\ RowOK(PromotedRow(jobs[id]), now)
                    /\ PromotedRow(jobs[id]).queue = jobs[id].queue
                    /\ jobs[id].status \notin Final
  <2> SUFFICES ASSUME NEW id \in S
               PROVE  /\ RowOK(PromotedRow(jobs[id]), now)
                      /\ PromotedRow(jobs[id]).queue = jobs[id].queue
                      /\ jobs[id].status \notin Final
    OBVIOUS
  <2>1. RowOK(jobs[id], now) /\ jobs[id] \in JobRow /\ now \in Nat
    BY <1>3 DEF IInv, RowsOK, ControlOK, RowOK
  <2>2. jobs[id].status \in Waiting \ Final
    BY <1>3 DEF Waiting, Final
  <2>3. RowOK(PromotedRow(jobs[id]), now)
    <3>1. now <= now
      BY <2>1
    <3> QED
      BY <2>1, <2>2, <3>1, ReleasedRowOK
  <2> QED
    BY <2>1, <2>2, <2>3, NoSetListWritesQueue
<1> DEFINE after == [id \in S |-> PromotedRow(jobs[id])]
<1>5. \A id \in S : after[id] = PromotedRow(jobs[id])
  OBVIOUS
<1>6. jobs' = Updated(jobs, S, after)
  BY <1>1
<1> HIDE DEF after
<1> QED
  BY <1>3, <1>4, <1>5, <1>6, ManyRows

LEMMA FailExpiredJobsRows ==
  ASSUME IInv, FailExpiredJobs, now' = now
  PROVE  RowsOK(jobs', now') /\ DOMAIN jobs' = DOMAIN jobs /\ Kept(jobs, jobs')
<1>1. PICK S \in Batches(ExpiredIds(jobs, now), [id \in DOMAIN jobs |-> jobs[id].lock_expires_at], BatchLimit) :
        jobs' = Updated(jobs, S, [id \in S |-> ExpiredRow(jobs[id], now)])
  BY DEF FailExpiredJobs
<1>2. S \subseteq ExpiredIds(jobs, now)
  BY BatchIsSelected
<1>3. S \subseteq DOMAIN jobs /\ \A id \in S : jobs[id].status = "running"
  BY <1>2 DEF ExpiredIds
<1>4. \A id \in S : /\ RowOK(ExpiredRow(jobs[id], now), now)
                    /\ ExpiredRow(jobs[id], now).queue = jobs[id].queue
                    /\ jobs[id].status \notin Final
  <2> SUFFICES ASSUME NEW id \in S
               PROVE  /\ RowOK(ExpiredRow(jobs[id], now), now)
                      /\ ExpiredRow(jobs[id], now).queue = jobs[id].queue
                      /\ jobs[id].status \notin Final
    OBVIOUS
  <2>1. RowOK(jobs[id], now) /\ jobs[id] \in JobRow /\ now \in Nat
    BY <1>3 DEF IInv, RowsOK, ControlOK, RowOK
  <2>2. jobs[id].status \notin Final
    BY <1>3 DEF Final
  <2> QED
    BY <1>3, <2>1, <2>2, ExpiredRowOK, NoSetListWritesQueue
<1> DEFINE after == [id \in S |-> ExpiredRow(jobs[id], now)]
<1>5. \A id \in S : after[id] = ExpiredRow(jobs[id], now)
  OBVIOUS
<1>6. jobs' = Updated(jobs, S, after)
  BY <1>1
<1> HIDE DEF after
<1> QED
  BY <1>3, <1>4, <1>5, <1>6, ManyRows

LEMMA SchedulerStepStep ==
  ASSUME IInv, SchedulerStep
  PROVE  IInv' /\ Kept(jobs, jobs')
<1>1. UNCHANGED <<queues, paused, calls, now>> /\ sched' \in {"promote", "expire"}
  BY DEF SchedulerStep, SchedulerPromote, SchedulerExpire, SchedulerError, RunScheduler,
         IInv, ControlOK
<1>2. RowsOK(jobs', now') /\ DOMAIN jobs' = DOMAIN jobs /\ Kept(jobs, jobs')
  <2>1. CASE PromoteScheduledJobs
    BY <1>1, <2>1, PromoteScheduledJobsRows
  <2>2. CASE FailExpiredJobs
    BY <1>1, <2>2, FailExpiredJobsRows
  <2>3. CASE UNCHANGED jobs
    BY <1>1, <2>3 DEF IInv, Kept
  <2> QED
    BY <2>1, <2>2, <2>3
       DEF SchedulerStep, SchedulerPromote, SchedulerExpire, SchedulerError, RunScheduler
<1>3. ControlOK'
  BY <1>1 DEF IInv, ControlOK
<1>4. QueuesOK'
  BY <1>1, <1>2, QueuesKept
<1> QED
  BY <1>2, <1>3, <1>4 DEF IInv

LEMMA TickStep ==
  ASSUME IInv, Tick
  PROVE  IInv' /\ Kept(jobs, jobs')
<1>1. now' = now + 1 /\ UNCHANGED <<jobs, queues, paused, calls, sched>> /\ now \in Nat
  BY DEF Tick, IInv, ControlOK
<1>2. RowsOK(jobs', now')
  BY <1>1, LaterRowOK DEF IInv, RowsOK
<1>3. ControlOK'
  BY <1>1 DEF IInv, ControlOK
<1>4. QueuesOK'
  BY <1>1 DEF IInv, QueuesOK
<1> QED
  BY <1>1, <1>2, <1>3, <1>4 DEF IInv, Kept
-----------------------------------------------------------------------------
(* What a step does to each row: the proofs of the modules that compose    *)
(* JobQueue with something else start from here.                           *)

AllManaged == \A id \in DOMAIN jobs : id \in DOMAIN jobs' /\ Managed(jobs[id], jobs'[id], now)

\* A statement by id leaves the other rows as they are.
LEMMA OneRowOnly ==
  ASSUME IInv, NEW id \in DOMAIN jobs, NEW row, jobs' = [jobs EXCEPT ![id] = row]
  PROVE  /\ DOMAIN jobs' = DOMAIN jobs
         /\ jobs'[id] = row
         /\ \A i \in DOMAIN jobs : i # id => jobs'[i] = jobs[i]
  BY DEF IInv, RowsOK

LEMMA SameRowsManaged ==
  ASSUME UNCHANGED jobs
  PROVE  AllManaged
  BY DEF AllManaged, Managed

LEMMA InsertManages ==
  ASSUME IInv, NEW c \in Caller, CreateJobInsert(c)
  PROVE  AllManaged
<1>1. \A id \in DOMAIN jobs : id \in DOMAIN jobs' /\ jobs'[id] = jobs[id]
  BY DEF CreateJobInsert
<1> QED
  BY <1>1 DEF AllManaged, Managed

LEMMA ControlManages ==
  ASSUME IInv, ControlStep
  PROVE  AllManaged
<1>1. ASSUME NEW id \in JobId, CancelJob(id)
      PROVE  AllManaged
  <2>1. id \in DOMAIN jobs /\ jobs' = [jobs EXCEPT ![id] = CancelledRow(jobs[id])]
        /\ jobs[id].status \notin Final
    BY <1>1 DEF CancelJob, IsCancellable, Final
  <2> QED
    BY <2>1, OneRowOnly DEF AllManaged, Managed
<1>2. ASSUME NEW id \in JobId, PromoteJob(id)
      PROVE  AllManaged
  <2>1. PICK at : id \in DOMAIN jobs /\ jobs' = [jobs EXCEPT ![id] = ReleasedRow(jobs[id], at)]
                  /\ jobs[id].status \in Waiting
    BY <1>2 DEF PromoteJob, IsPending, Waiting
  <2> QED
    BY <2>1, OneRowOnly DEF AllManaged, Managed
<1>3. ASSUME NEW q \in QueueName, PauseQueue(q) \/ ResumeQueue(q)
      PROVE  AllManaged
  BY <1>3, SameRowsManaged DEF PauseQueue, ResumeQueue
<1> QED
  BY <1>1, <1>2, <1>3 DEF ControlStep

LEMMA SchedulerManages ==
  ASSUME IInv, SchedulerStep
  PROVE  AllManaged
<1>1. CASE PromoteScheduledJobs
  <2>1. PICK S \in Batches(DueIds(jobs, now), [id \in DOMAIN jobs |-> jobs[id].scheduled_at], BatchLimit) :
          jobs' = Updated(jobs, S, [id \in S |-> PromotedRow(jobs[id])])
    BY <1>1 DEF PromoteScheduledJobs
  <2>2. \A id \in S : jobs[id].status \in Waiting
    BY <2>1, BatchIsSelected DEF DueIds, Waiting
  <2>3. \A id \in DOMAIN jobs : /\ id \in DOMAIN jobs'
                                /\ jobs'[id] = IF id \in S THEN PromotedRow(jobs[id]) ELSE jobs[id]
    BY <2>1 DEF Updated
  <2> QED
    BY <2>2, <2>3 DEF AllManaged, Managed
<1>2. CASE FailExpiredJobs
  <2>1. PICK S \in Batches(ExpiredIds(jobs, now), [id \in DOMAIN jobs |-> jobs[id].lock_expires_at], BatchLimit) :
          jobs' = Updated(jobs, S, [id \in S |-> ExpiredRow(jobs[id], now)])
    BY <1>2 DEF FailExpiredJobs
  <2>2. \A id \in S : /\ jobs[id].status = "running"
                      /\ jobs[id].lock_expires_at # Null
                      /\ jobs[id].lock_expires_at < now
    BY <2>1, BatchIsSelected DEF ExpiredIds
  <2>3. \A id \in DOMAIN jobs : /\ id \in DOMAIN jobs'
                                /\ jobs'[id] = IF id \in S THEN ExpiredRow(jobs[id], now) ELSE jobs[id]
    BY <2>1 DEF Updated
  <2> QED
    BY <2>2, <2>3 DEF AllManaged, Managed
<1> QED
  BY <1>1, <1>2, SameRowsManaged
     DEF SchedulerStep, SchedulerPromote, SchedulerExpire, SchedulerError, RunScheduler

\* The calls of workers, one by one.
LEMMA ClaimWorks ==
  ASSUME IInv, NEW c \in Caller, NEW q, NEW id, ClaimRow(c, q, id)
  PROVE  /\ id \in DOMAIN jobs /\ DOMAIN jobs' = DOMAIN jobs
         /\ jobs[id].status = "available" /\ jobs'[id] = ClaimedRow(jobs[id], c, now)
         /\ \A i \in DOMAIN jobs : i # id => jobs'[i] = jobs[i]
<1>1. id \in DOMAIN jobs /\ jobs[id].status = "available"
      /\ jobs' = [jobs EXCEPT ![id] = ClaimedRow(jobs[id], c, now)]
  BY DEF ClaimRow, ClaimableIds
<1> QED
  BY <1>1, OneRowOnly

LEMMA CompleteWorks ==
  ASSUME IInv, NEW c \in Caller, NEW id, CompleteJob(c, id)
  PROVE  /\ id \in DOMAIN jobs /\ DOMAIN jobs' = DOMAIN jobs
         /\ jobs[id].status = "running" /\ jobs'[id] = CompletedRow(jobs[id], c)
         /\ \A i \in DOMAIN jobs : i # id => jobs'[i] = jobs[i]
<1>1. id \in DOMAIN jobs /\ jobs[id].status = "running"
      /\ jobs' = [jobs EXCEPT ![id] = CompletedRow(jobs[id], c)]
  BY DEF CompleteJob, IsRunning
<1> QED
  BY <1>1, OneRowOnly

LEMMA HeartbeatWorks ==
  ASSUME IInv, NEW c \in Caller, NEW id, HeartbeatJob(c, id)
  PROVE  /\ id \in DOMAIN jobs /\ DOMAIN jobs' = DOMAIN jobs
         /\ jobs[id].status = "running"
         /\ \E at \in now - RowWait .. now : jobs'[id] = HeartbeatRow(jobs[id], at)
         /\ \A i \in DOMAIN jobs : i # id => jobs'[i] = jobs[i]
<1>1. PICK at \in StatementTimes : HeartbeatAt(c, id, at)
  BY DEF HeartbeatJob
<1>2. id \in DOMAIN jobs /\ jobs[id].status = "running"
      /\ jobs' = [jobs EXCEPT ![id] = HeartbeatRow(jobs[id], at)]
  BY <1>1 DEF HeartbeatAt, IsRunning
<1> QED
  BY <1>2, OneRowOnly, StatementsArePast

LEMMA FailWorks ==
  ASSUME IInv, NEW c \in Caller, FailJobWrite(c), jobs' # jobs
  PROVE  LET id == calls[c].job
         IN  /\ id \in DOMAIN jobs /\ DOMAIN jobs' = DOMAIN jobs
             /\ jobs[id].status = "running"
             /\ calls[c].delay \in Int
             /\ \E at \in now - RowWait .. now :
                   jobs'[id] = FailedRow(jobs[id], at, calls[c].delay, "failed")
             /\ \A i \in DOMAIN jobs : i # id => jobs'[i] = jobs[i]
<1> DEFINE id == calls[c].job
<1>1. id \in DOMAIN jobs /\ jobs[id].status = "running" /\ calls[c].delay \in Int
  BY BackoffAssumption DEF FailJobWrite, FailJobAccepted, IsRunning, Int4
<1>2. PICK at \in StatementTimes :
        jobs' = [jobs EXCEPT ![id] = FailedRow(jobs[id], at, calls[c].delay, "failed")]
  BY DEF FailJobWrite
<1> HIDE DEF id
<1>3. at \in now - RowWait .. now
  BY StatementsArePast
<1> QED
  BY <1>1, <1>2, <1>3, OneRowOnly DEF id

\* Every step does to every row one of these things.
RowsStepped ==
  \A id \in DOMAIN jobs :
     /\ id \in DOMAIN jobs'
     /\ Managed(jobs[id], jobs'[id], now) \/ \E c \in Caller : Worked(jobs[id], jobs'[id], c, now - RowWait, now)

LEMMA EveryStepOnRows ==
  ASSUME IInv, [Next]_vars
  PROVE  RowsStepped
<1>0. ASSUME AllManaged PROVE RowsStepped
  BY <1>0 DEF AllManaged, RowsStepped
<1>1. CASE UNCHANGED jobs
  BY <1>0, <1>1, SameRowsManaged
<1>2. ASSUME NEW c \in Caller, CallerStep(c), jobs' # jobs
      PROVE  RowsStepped
  <2>1. ASSUME NEW q \in QueueName, NEW id, ClaimRow(c, q, id)
        PROVE  RowsStepped
    BY <2>1, ClaimWorks DEF RowsStepped, Managed, Worked
  <2>2. ASSUME NEW id \in JobId, CompleteJob(c, id)
        PROVE  RowsStepped
    BY <2>2, CompleteWorks DEF RowsStepped, Managed, Worked
  <2>3. ASSUME NEW id \in JobId, HeartbeatJob(c, id)
        PROVE  RowsStepped
    BY <2>3, HeartbeatWorks DEF RowsStepped, Managed, Worked
  <2>4. CASE FailJobWrite(c)
    BY <1>2, <2>4, FailWorks DEF RowsStepped, Managed, Worked
  <2>5. CASE CreateJobInsert(c)
    BY <1>0, <2>5, InsertManages
  <2> QED
    BY <1>2, <2>1, <2>2, <2>3, <2>4, <2>5
       DEF CallerStep, CreateJobUpsert, ClaimJob, FailJobRead, AbortCall
<1> QED
  BY <1>0, <1>1, <1>2, ControlManages, SchedulerManages DEF Next, vars, Tick

LEMMA RowsGrow ==
  ASSUME IInv, [Next]_vars
  PROVE  \A id \in DOMAIN jobs : id \in DOMAIN jobs' /\ Grown(jobs[id], jobs'[id])
<1> SUFFICES ASSUME NEW id \in DOMAIN jobs
             PROVE  id \in DOMAIN jobs' /\ Grown(jobs[id], jobs'[id])
  OBVIOUS
<1> DEFINE r == jobs[id]
<1>1. r \in JobRow
  BY DEF IInv, RowsOK, RowOK
<1>2. id \in DOMAIN jobs'
      /\ (Managed(r, jobs'[id], now) \/ \E c \in Caller : Worked(r, jobs'[id], c, now - RowWait, now))
  BY EveryStepOnRows DEF RowsStepped
<1> HIDE DEF r
<1>3. ASSUME NEW s, Managed(r, s, now)
      PROVE  Grown(r, s)
  <2>1. s \in {r, PromotedRow(r), CancelledRow(r), ExpiredRow(r, now)} \/ \E at : s = ReleasedRow(r, at)
    BY <1>3 DEF Managed
  <2> QED
    BY <1>1, <2>1, OthersGrow, ExpiryGrows
<1>4. ASSUME NEW s, NEW c \in Caller, Worked(r, s, c, now - RowWait, now)
      PROVE  Grown(r, s)
  <2>1. \/ s \in {ClaimedRow(r, c, now), CompletedRow(r, c)}
        \/ \E at : s = HeartbeatRow(r, at)
        \/ \E at, delay : s = FailedRow(r, at, delay, "failed")
    BY <1>4 DEF Worked
  <2> QED
    BY <1>1, <2>1, OthersGrow, ClaimGrows, FailGrows
<1> QED
  BY <1>2, <1>3, <1>4 DEF r

\* Rows that are new have no history.
NewRowsFresh ==
  \A id \in DOMAIN jobs' \ DOMAIN jobs :
     /\ jobs'[id].status \in Waiting \ {"retryable"}
     /\ jobs'[id].attempt = 0
     /\ jobs'[id].attempted_by = <<>>
     /\ jobs'[id].errors = <<>>

LEMMA InsertIsFresh ==
  ASSUME NEW c \in Caller, CreateJobInsert(c)
  PROVE  NewRowsFresh
<1>1. PICK id \in JobId \ DOMAIN jobs, pending \in BOOLEAN, p \in Priorities,
           limit \in AttemptLimits, b \in Backoffs, t \in ServerTimes :
         LET at     == IF calls[c].scheduled = Null THEN t ELSE calls[c].scheduled
             status == IF pending THEN "pending" ELSE IF at > t THEN "scheduled" ELSE "available"
             row    == NewRow(calls[c].queue, status, RowPriority(p), limit, at, b)
         IN  jobs' = [i \in DOMAIN jobs \cup {id} |-> IF i = id THEN row ELSE jobs[i]]
  BY DEF CreateJobInsert
<1> DEFINE at     == IF calls[c].scheduled = Null THEN t ELSE calls[c].scheduled
           status == IF pending THEN "pending" ELSE IF at > t THEN "scheduled" ELSE "available"
           row    == NewRow(calls[c].queue, status, RowPriority(p), limit, at, b)
<1>2. jobs' = [i \in DOMAIN jobs \cup {id} |-> IF i = id THEN row ELSE jobs[i]]
  BY <1>1
<1>3. row.status \in Waiting \ {"retryable"} /\ row.attempt = 0 /\ row.attempted_by = <<>> /\ row.errors = <<>>
  BY DEF NewRow, Waiting
<1> HIDE DEF row
<1> QED
  BY <1>2, <1>3 DEF NewRowsFresh

\* No other statement adds a row.
LEMMA RowsAddedByInsert ==
  ASSUME IInv, [Next]_vars
  PROVE  DOMAIN jobs' = DOMAIN jobs \/ \E c \in Caller : CreateJobInsert(c)
<1>1. ASSUME NEW c \in Caller, CallerStep(c), jobs' # jobs, ~CreateJobInsert(c)
      PROVE  DOMAIN jobs' = DOMAIN jobs
  <2>1. ASSUME NEW q \in QueueName, NEW id, ClaimRow(c, q, id)
        PROVE  DOMAIN jobs' = DOMAIN jobs
    BY <2>1, ClaimWorks
  <2>2. ASSUME NEW id \in JobId, CompleteJob(c, id) \/ HeartbeatJob(c, id)
        PROVE  DOMAIN jobs' = DOMAIN jobs
    BY <2>2, CompleteWorks, HeartbeatWorks
  <2>3. CASE FailJobWrite(c)
    BY <1>1, <2>3, FailWorks
  <2> QED
    BY <1>1, <2>1, <2>2, <2>3
       DEF CallerStep, CreateJobUpsert, ClaimJob, FailJobRead, AbortCall
<1>2. CASE ControlStep
  <2>1. ASSUME NEW id \in JobId, CancelJob(id) \/ PromoteJob(id)
        PROVE  DOMAIN jobs' = DOMAIN jobs
    BY <2>1 DEF CancelJob, PromoteJob, IsCancellable, IsPending
  <2> QED
    BY <1>2, <2>1 DEF ControlStep, PauseQueue, ResumeQueue
<1>3. CASE SchedulerStep
  BY <1>3 DEF SchedulerStep, SchedulerPromote, SchedulerExpire, SchedulerError,
     RunScheduler, PromoteScheduledJobs, FailExpiredJobs, Updated
<1>4. CASE jobs' = jobs
  BY <1>4
<1> QED
  BY <1>1, <1>2, <1>3, <1>4 DEF Next, vars, Tick

LEMMA NewRowsWait ==
  ASSUME IInv, [Next]_vars
  PROVE  NewRowsFresh
  BY RowsAddedByInsert, InsertIsFresh DEF NewRowsFresh
-----------------------------------------------------------------------------
(* The theorems. *)

LEMMA StepKeepsInvariant ==
  ASSUME IInv, [Next]_vars
  PROVE  IInv' /\ Kept(jobs, jobs')
<1>1. CASE UNCHANGED vars
  BY <1>1 DEF vars, IInv, RowsOK, ControlOK, QueuesOK, Kept
<1>2. ASSUME NEW c \in Caller, CallerStep(c)
      PROVE  IInv' /\ Kept(jobs, jobs')
  <2>1. ASSUME NEW q \in QueueName, ClaimJob(c, q)
        PROVE  IInv' /\ Kept(jobs, jobs')
    BY <2>1, ClaimRowStep DEF ClaimJob
  <2> QED
    BY <1>2, <2>1, CreateJobUpsertStep, CreateJobInsertStep, CompleteJobStep, HeartbeatJobStep,
       FailJobReadStep, FailJobWriteStep, AbortCallStep DEF CallerStep
<1>3. CASE ControlStep
  BY <1>3, CancelJobStep, PromoteJobStep, PauseQueueStep DEF ControlStep
<1> QED
  BY <1>1, <1>2, <1>3, SchedulerStepStep, TickStep DEF Next

\* The inductive invariant holds in every reachable state.
THEOREM InvariantHolds == Spec => []IInv
<1>1. IInv /\ [Next]_vars => IInv'
  BY StepKeepsInvariant
<1> QED
  BY <1>1, InitEstablishes, PTL DEF Spec

\* Every variable has its type in every reachable state: no statement, in
\* whatever order the calls interleave, leaves a row with a value its column
\* does not admit, and a FailJob's delay never leaves the int64 range.
THEOREM TypesCorrect == Spec => []TypeOK
<1>1. IInv => TypeOK
  BY DEF IInv, RowsOK, RowOK, ControlOK, TypeOK
<1> QED
  BY <1>1, InvariantHolds, PTL

\* ClaimJob, FailJob and FailExpiredJobs together never attempt a job more
\* often than max_attempts allows.
THEOREM AttemptsBounded == Spec => []AttemptsWithinLimit
<1>1. IInv => AttemptsWithinLimit
  BY DEF IInv, RowsOK, RowOK, AttemptsOK, AttemptsWithinLimit
<1> QED
  BY <1>1, InvariantHolds, PTL

\* Each failed attempt leaves one entry in errors, whoever declares it failed.
THEOREM FailuresRecorded == Spec => []ErrorPerFailedAttempt
<1>1. IInv => ErrorPerFailedAttempt
  BY DEF IInv, RowsOK, RowOK, AttemptsOK, ErrorPerFailedAttempt
<1> QED
  BY <1>1, InvariantHolds, PTL

\* finalized_at and result agree with the status.
THEOREM FinalizedAgrees == Spec => []FinalizedExactlyWhenFinal
<1>1. IInv => FinalizedExactlyWhenFinal
  BY DEF IInv, RowsOK, RowOK, FinalOK, FinalizedExactlyWhenFinal
<1> QED
  BY <1>1, InvariantHolds, PTL

\* Every running job has a lock that FailExpiredJobs will see expire.
THEOREM RunningRecoverable == Spec => []RunningIsRecoverable
<1>1. IInv => RunningIsRecoverable
  BY JobTableAssumption
     DEF IInv, RowsOK, RowOK, TimesOK, RunningIsRecoverable
<1> QED
  BY <1>1, InvariantHolds, PTL

\* No attempt begins before the job's scheduled time, for every clock skew.
THEOREM StartsOnTime == Spec => []NeverEarly
<1>1. IInv => NeverEarly
  BY DEF IInv, RowsOK, RowOK, TimesOK, NeverEarly
<1> QED
  BY <1>1, InvariantHolds, PTL

\* CreateJob's two statements never leave a job whose queue is not listed.
THEOREM QueuesListed == Spec => []QueuesKnown
<1>1. IInv => QueuesKnown
  BY DEF IInv, QueuesOK, QueuesKnown
<1> QED
  BY <1>1, InvariantHolds, PTL

\* No call, late, repeated or concurrent, touches a job that is finished.
THEOREM FinalForever == Spec => FinalIsForever
<1> DEFINE Step == \A id \in DOMAIN jobs :
                      /\ id \in DOMAIN jobs'
                      /\ jobs[id].status \in Final => jobs'[id] = jobs[id]
<1>1. IInv /\ [Next]_vars => [Step]_vars
  BY StepKeepsInvariant DEF Kept
<1> HIDE DEF Step
<1>2. Spec => [][Step]_vars
  BY <1>1, InvariantHolds, PTL DEF Spec
<1> QED
  BY <1>2 DEF FinalIsForever, Step
-----------------------------------------------------------------------------
(* JobQueue implements JobLifecycle: every step maps to a step of the      *)
(* abstract specification or leaves the lives of all jobs as they are.     *)

\* A row that is there is the life of its id.
LEMMA LifeOfRow ==
  ASSUME IInv, NEW j \in DOMAIN jobs
  PROVE  j \in JobId /\ Lives[j] = LifeOf(jobs[j]) /\ RowOK(jobs[j], now)
  BY DEF IInv, RowsOK, Lives

\* The life of a row that has changed.
LEMMA OneLife ==
  ASSUME IInv, NEW id \in DOMAIN jobs, NEW row, jobs' = [jobs EXCEPT ![id] = row]
  PROVE  Lives' = [Lives EXCEPT ![id] = LifeOf(row)]
<1>1. DOMAIN jobs' = DOMAIN jobs /\ \A i \in DOMAIN jobs : jobs'[i] = IF i = id THEN row ELSE jobs[i]
  BY DEF IInv, RowsOK
<1>2. \A j \in JobId : Lives'[j] = IF j = id THEN LifeOf(row) ELSE Lives[j]
  BY <1>1 DEF Lives
<1>3. Lives \in [JobId -> {Lives[j] : j \in JobId}] /\ Lives' = [j \in JobId |-> Lives'[j]]
  BY DEF Lives
<1> QED
  BY <1>2, <1>3

\* A statement that leaves every life as it is.
LEMMA SameLife ==
  ASSUME IInv, NEW id \in DOMAIN jobs, NEW row, jobs' = [jobs EXCEPT ![id] = row],
         LifeOf(row) = LifeOf(jobs[id])
  PROVE  Lives' = Lives
<1>1. DOMAIN jobs' = DOMAIN jobs /\ \A i \in DOMAIN jobs : jobs'[i] = IF i = id THEN row ELSE jobs[i]
  BY DEF IInv, RowsOK
<1> QED
  BY <1>1 DEF Lives

LEMMA InsertIsSubmit ==
  ASSUME IInv, NEW c \in Caller, CreateJobInsert(c)
  PROVE  Lifecycle!Next
<1>1. PICK id \in JobId \ DOMAIN jobs, pending \in BOOLEAN, p \in Priorities,
           limit \in AttemptLimits, b \in Backoffs, t \in ServerTimes :
         LET at     == IF calls[c].scheduled = Null THEN t ELSE calls[c].scheduled
             status == IF pending THEN "pending" ELSE IF at > t THEN "scheduled" ELSE "available"
             row    == NewRow(calls[c].queue, status, RowPriority(p), limit, at, b)
         IN  jobs' = [i \in DOMAIN jobs \cup {id} |-> IF i = id THEN row ELSE jobs[i]]
  BY DEF CreateJobInsert
<1> DEFINE at     == IF calls[c].scheduled = Null THEN t ELSE calls[c].scheduled
           status == IF pending THEN "pending" ELSE IF at > t THEN "scheduled" ELSE "available"
           row    == NewRow(calls[c].queue, status, RowPriority(p), limit, at, b)
<1>2. jobs' = [i \in DOMAIN jobs \cup {id} |-> IF i = id THEN row ELSE jobs[i]]
  BY <1>1
<1>3. LifeOf(row) = [phase |-> "waiting", attempt |-> 0, limit |-> limit]
  BY DEF LifeOf, NewRow, PhaseOf, Waiting
<1> HIDE DEF row
<1>4. Lives[id] = NoLife
  BY DEF Lives
<1>5. Lives' = [Lives EXCEPT ![id] = [phase |-> "waiting", attempt |-> 0, limit |-> limit]]
  <2>1. \A j \in JobId : Lives'[j] = IF j = id THEN LifeOf(row) ELSE Lives[j]
    BY <1>2 DEF Lives
  <2>2. Lives' = [j \in JobId |-> Lives'[j]] /\ Lives = [j \in JobId |-> Lives[j]]
    BY DEF Lives
  <2> QED
    BY <1>3, <2>1, <2>2
<1>6. Lifecycle!Submit(id, limit)
  BY <1>4, <1>5 DEF Lifecycle!Submit, NoLife
<1> QED
  BY <1>6 DEF Lifecycle!Next

LEMMA ClaimIsStart ==
  ASSUME IInv, NEW c \in Caller, NEW q, NEW id, ClaimRow(c, q, id)
  PROVE  Lifecycle!Next
<1> DEFINE row == ClaimedRow(jobs[id], c, now)
<1>1. id \in DOMAIN jobs /\ jobs' = [jobs EXCEPT ![id] = row] /\ jobs[id].status = "available"
  BY DEF ClaimRow, ClaimableIds
<1>2. id \in JobId /\ Lives[id] = LifeOf(jobs[id]) /\ RowOK(jobs[id], now)
  BY <1>1, LifeOfRow
<1>3. jobs[id].attempt < jobs[id].max_attempts
  BY <1>1, <1>2 DEF RowOK, AttemptsOK, Waiting
<1>4. LifeOf(row) = [phase   |-> "running",
                     attempt |-> Lives[id].attempt + 1,
                     limit   |-> Lives[id].limit]
  <2>1. row.status = "running" /\ row.attempt = jobs[id].attempt + 1
        /\ row.max_attempts = jobs[id].max_attempts
    BY <1>2 DEF ClaimedRow, RowOK, JobRow
  <2>2. Lives[id].attempt = jobs[id].attempt /\ Lives[id].limit = jobs[id].max_attempts
    BY <1>2 DEF LifeOf
  <2> QED
    BY <2>1, <2>2 DEF LifeOf, PhaseOf, Waiting
<1> HIDE DEF row
<1>5. Lives' = [Lives EXCEPT ![id] = LifeOf(row)]
  BY <1>1, OneLife
<1>6. Lives[id].phase = "waiting" /\ Lives[id].attempt < Lives[id].limit
  BY <1>1, <1>2, <1>3 DEF LifeOf, PhaseOf, Waiting
<1>7. Lifecycle!Start(id)
  BY <1>4, <1>5, <1>6 DEF Lifecycle!Start
<1> QED
  BY <1>2, <1>7 DEF Lifecycle!Next

LEMMA CompleteIsSucceed ==
  ASSUME IInv, NEW c \in Caller, NEW id, CompleteJob(c, id)
  PROVE  Lifecycle!Next
<1> DEFINE row == CompletedRow(jobs[id], c)
<1>1. id \in DOMAIN jobs /\ jobs' = [jobs EXCEPT ![id] = row] /\ jobs[id].status = "running"
  BY DEF CompleteJob, IsRunning
<1>2. id \in JobId /\ Lives[id] = LifeOf(jobs[id]) /\ RowOK(jobs[id], now)
  BY <1>1, LifeOfRow
<1>3. LifeOf(row) = [LifeOf(jobs[id]) EXCEPT !.phase = "completed"]
  <2>1. row.status = "completed" /\ row.attempt = jobs[id].attempt
        /\ row.max_attempts = jobs[id].max_attempts
    BY <1>2 DEF CompletedRow, RowOK, JobRow
  <2> QED
    BY <2>1 DEF LifeOf, PhaseOf, Waiting
<1> HIDE DEF row
<1>4. Lives' = [Lives EXCEPT ![id] = LifeOf(row)]
  BY <1>1, OneLife
<1>5. Lives' = [Lives EXCEPT ![id].phase = "completed"]
  BY <1>2, <1>3, <1>4 DEF Lives
<1>6. Lives[id].phase = "running"
  BY <1>1, <1>2 DEF LifeOf, PhaseOf, Waiting
<1>7. Lifecycle!Succeed(id)
  BY <1>5, <1>6 DEF Lifecycle!Succeed
<1> QED
  BY <1>2, <1>7 DEF Lifecycle!Next

LEMMA CancelIsCancel ==
  ASSUME IInv, NEW id, CancelJob(id)
  PROVE  Lifecycle!Next
<1> DEFINE row == CancelledRow(jobs[id])
<1>1. id \in DOMAIN jobs /\ jobs' = [jobs EXCEPT ![id] = row]
      /\ jobs[id].status \notin {"completed", "discarded", "cancelled"}
  BY DEF CancelJob, IsCancellable
<1>2. id \in JobId /\ Lives[id] = LifeOf(jobs[id]) /\ RowOK(jobs[id], now)
  BY <1>1, LifeOfRow
<1>3. LifeOf(row) = [LifeOf(jobs[id]) EXCEPT !.phase = "cancelled"]
  <2>1. row.status = "cancelled" /\ row.attempt = jobs[id].attempt
        /\ row.max_attempts = jobs[id].max_attempts
    BY <1>2 DEF CancelledRow, RowOK, JobRow
  <2> QED
    BY <2>1 DEF LifeOf, PhaseOf, Waiting
<1> HIDE DEF row
<1>4. Lives' = [Lives EXCEPT ![id] = LifeOf(row)]
  BY <1>1, OneLife
<1>5. Lives' = [Lives EXCEPT ![id].phase = "cancelled"]
  BY <1>2, <1>3, <1>4 DEF Lives
<1>6. Lives[id].phase \in {"waiting", "running"}
  <2>1. jobs[id].status \in Waiting \cup {"running"}
    BY <1>1, <1>2 DEF RowOK, JobRow, Status, Final
  <2> QED
    BY <1>2, <2>1 DEF LifeOf, PhaseOf
<1>7. Lifecycle!Cancel(id)
  BY <1>5, <1>6 DEF Lifecycle!Cancel
<1> QED
  BY <1>2, <1>7 DEF Lifecycle!Next

LEMMA FailIsFail ==
  ASSUME IInv, NEW c \in Caller, FailJobWrite(c)
  PROVE  [Lifecycle!Next]_Lives
<1>1. CASE UNCHANGED jobs
  BY <1>1 DEF Lives
<1> DEFINE id == calls[c].job
<1>2. ASSUME FailJobAccepted(c), NEW at,
             jobs' = [jobs EXCEPT ![id] = FailedRow(jobs[id], at, calls[c].delay, "failed")]
      PROVE  [Lifecycle!Next]_Lives
  <2> DEFINE row == FailedRow(jobs[id], at, calls[c].delay, "failed")
  <2>1. id \in DOMAIN jobs /\ jobs[id].status = "running"
    BY <1>2 DEF FailJobAccepted, IsRunning
  <2>2. id \in JobId /\ Lives[id] = LifeOf(jobs[id]) /\ jobs[id] \in JobRow
    BY <2>1, LifeOfRow DEF RowOK
  <2>3. LifeOf(row) = [Lives[id] EXCEPT !.phase = IF Lives[id].attempt < Lives[id].limit
                                                  THEN "waiting" ELSE "discarded"]
    <3>1. Lives[id].attempt = jobs[id].attempt /\ Lives[id].limit = jobs[id].max_attempts
      BY <2>2 DEF LifeOf
    <3>2. LifeOf(row) = [LifeOf(jobs[id]) EXCEPT !.phase = IF jobs[id].attempt < jobs[id].max_attempts
                                                           THEN "waiting" ELSE "discarded"]
      BY <2>2, LifeOfFailed
    <3> HIDE DEF row
    <3> QED
      BY <2>2, <3>1, <3>2
  <2>3a. jobs' = [jobs EXCEPT ![id] = row]
    BY <1>2
  <2> HIDE DEF id, row
  <2>4. Lives' = [Lives EXCEPT ![id] = LifeOf(row)]
    BY <2>1, <2>3a, OneLife
  <2>5. Lives' = [j \in JobId |->
                    IF j \notin {id} THEN Lives[j]
                    ELSE [Lives[j] EXCEPT !.phase = IF Lives[j].attempt < Lives[j].limit
                                                    THEN "waiting" ELSE "discarded"]]
    BY <2>2, <2>3, <2>4 DEF Lives
  <2>6. Lives[id].phase = "running"
    BY <2>1, <2>2 DEF LifeOf, PhaseOf, Waiting
  <2>7. Lifecycle!Fail({id})
    BY <2>5, <2>6 DEF Lifecycle!Fail
  <2> QED
    BY <2>2, <2>7 DEF Lifecycle!Next
<1> QED
  BY <1>1, <1>2 DEF FailJobWrite

\* A batch whose locks expired fails at once.
LEMMA ExpireIsFail ==
  ASSUME IInv, FailExpiredJobs
  PROVE  Lifecycle!Next
<1>1. PICK S \in Batches(ExpiredIds(jobs, now), [id \in DOMAIN jobs |-> jobs[id].lock_expires_at], BatchLimit) :
        jobs' = Updated(jobs, S, [id \in S |-> ExpiredRow(jobs[id], now)])
  BY DEF FailExpiredJobs
<1>2. S \subseteq ExpiredIds(jobs, now)
  BY BatchIsSelected
<1>3. S \subseteq DOMAIN jobs /\ \A id \in S : jobs[id].status = "running"
  BY <1>2 DEF ExpiredIds
<1>4. \A j \in S : j \in JobId /\ Lives[j] = LifeOf(jobs[j]) /\ jobs[j] \in JobRow
  BY <1>3, LifeOfRow DEF RowOK
<1>5. DOMAIN jobs' = DOMAIN jobs
      /\ \A j \in DOMAIN jobs : jobs'[j] = IF j \in S THEN ExpiredRow(jobs[j], now) ELSE jobs[j]
  BY <1>1, <1>3 DEF Updated
<1>6. ASSUME NEW j \in JobId
      PROVE  Lives'[j] = IF j \notin S THEN Lives[j]
                         ELSE [Lives[j] EXCEPT !.phase = IF Lives[j].attempt < Lives[j].limit
                                                         THEN "waiting" ELSE "discarded"]
  <2>1. CASE j \notin S
    BY <1>5, <2>1 DEF Lives
  <2>2. CASE j \in S
    <3>1. Lives'[j] = LifeOf(ExpiredRow(jobs[j], now))
      BY <1>3, <1>5, <2>2 DEF Lives
    <3>2. LifeOf(ExpiredRow(jobs[j], now)) =
            [LifeOf(jobs[j]) EXCEPT !.phase = IF jobs[j].attempt < jobs[j].max_attempts
                                              THEN "waiting" ELSE "discarded"]
      BY <1>4, <2>2, LifeOfFailed
    <3>3. Lives[j] = LifeOf(jobs[j])
      BY <1>4, <2>2
    <3>4. Lives[j].attempt = jobs[j].attempt /\ Lives[j].limit = jobs[j].max_attempts
      BY <3>3 DEF LifeOf
    <3> QED
      BY <2>2, <3>1, <3>2, <3>3, <3>4
  <2> QED
    BY <2>1, <2>2
<1>7. ASSUME NEW j \in S
      PROVE  Lives[j].phase = "running"
  <2>1. Lives[j] = LifeOf(jobs[j]) /\ jobs[j].status = "running"
    BY <1>3, <1>4
  <2> QED
    BY <2>1 DEF LifeOf, PhaseOf, Waiting
<1>8. Lives' = [j \in JobId |-> Lives'[j]]
  BY DEF Lives
<1>9. Lifecycle!Fail(S)
  BY <1>6, <1>7, <1>8 DEF Lifecycle!Fail
<1> QED
  BY <1>4, <1>9 DEF Lifecycle!Next

\* Promotion only changes why a job waits.
LEMMA PromoteIsStutter ==
  ASSUME IInv, PromoteScheduledJobs
  PROVE  Lives' = Lives
<1>1. PICK S \in Batches(DueIds(jobs, now), [id \in DOMAIN jobs |-> jobs[id].scheduled_at], BatchLimit) :
        jobs' = Updated(jobs, S, [id \in S |-> PromotedRow(jobs[id])])
  BY DEF PromoteScheduledJobs
<1>2. S \subseteq DueIds(jobs, now)
  BY BatchIsSelected
<1>3. S \subseteq DOMAIN jobs /\ \A id \in S : jobs[id].status \in {"scheduled", "retryable"}
  BY <1>2 DEF DueIds
<1>4. DOMAIN jobs' = DOMAIN jobs
      /\ \A j \in DOMAIN jobs : jobs'[j] = IF j \in S THEN PromotedRow(jobs[j]) ELSE jobs[j]
  BY <1>1, <1>3 DEF Updated
<1>5. ASSUME NEW j \in S
      PROVE  LifeOf(PromotedRow(jobs[j])) = LifeOf(jobs[j])
  <2>1. jobs[j] \in JobRow
    BY <1>3, LifeOfRow DEF RowOK
  <2> QED
    BY <1>3, <2>1 DEF LifeOf, PromotedRow, PhaseOf, Waiting, JobRow
<1> QED
  BY <1>4, <1>5 DEF Lives

LEMMA RenewalIsStutter ==
  ASSUME IInv, NEW id, (\E c \in Caller : HeartbeatJob(c, id)) \/ PromoteJob(id)
  PROVE  Lives' = Lives
<1>1. PICK at \in StatementTimes :
        /\ id \in DOMAIN jobs
        /\ \/ /\ jobs[id].status = "running"
              /\ jobs' = [jobs EXCEPT ![id] = HeartbeatRow(jobs[id], at)]
           \/ /\ jobs[id].status = "pending"
              /\ jobs' = [jobs EXCEPT ![id] = ReleasedRow(jobs[id], at)]
  <2>1. ASSUME NEW c \in Caller, HeartbeatJob(c, id)
        PROVE  \E at \in StatementTimes : IsRunning(jobs, id) /\ jobs' = [jobs EXCEPT ![id] = HeartbeatRow(jobs[id], at)]
    BY <2>1 DEF HeartbeatJob, HeartbeatAt
  <2>2. ASSUME PromoteJob(id)
        PROVE  \E at \in StatementTimes : IsPending(jobs, id) /\ jobs' = [jobs EXCEPT ![id] = ReleasedRow(jobs[id], at)]
    BY <2>2 DEF PromoteJob
  <2> QED
    BY <2>1, <2>2 DEF IsRunning, IsPending
<1>2. jobs[id] \in JobRow
  BY <1>1, LifeOfRow DEF RowOK
<1>3. /\ jobs[id].status = "running" => LifeOf(HeartbeatRow(jobs[id], at)) = LifeOf(jobs[id])
      /\ jobs[id].status = "pending" => LifeOf(ReleasedRow(jobs[id], at)) = LifeOf(jobs[id])
  BY <1>2 DEF LifeOf, HeartbeatRow, ReleasedRow, PhaseOf, Waiting, JobRow
<1> QED
  BY <1>1, <1>3, SameLife

LEMMA StepIsLifecycleStep ==
  ASSUME IInv, [Next]_vars
  PROVE  [Lifecycle!Next]_Lives
<1>1. CASE UNCHANGED jobs
  BY <1>1 DEF Lives
<1>2. ASSUME NEW c \in Caller, CallerStep(c)
      PROVE  [Lifecycle!Next]_Lives
  <2>1. ASSUME NEW q \in QueueName, CreateJobUpsert(c, q) \/ ClaimJob(c, q)
        PROVE  [Lifecycle!Next]_Lives
    BY <1>1, <2>1, ClaimIsStart DEF CreateJobUpsert, ClaimJob
  <2>2. ASSUME NEW id \in JobId, CompleteJob(c, id) \/ HeartbeatJob(c, id) \/ FailJobRead(c, id)
        PROVE  [Lifecycle!Next]_Lives
    BY <1>1, <2>2, CompleteIsSucceed, RenewalIsStutter DEF FailJobRead
  <2>3. CASE CreateJobInsert(c)
    BY <2>3, InsertIsSubmit
  <2>4. CASE FailJobWrite(c)
    BY <2>4, FailIsFail
  <2>5. CASE AbortCall(c)
    BY <1>1, <2>5 DEF AbortCall
  <2> QED
    BY <1>2, <2>1, <2>2, <2>3, <2>4, <2>5 DEF CallerStep
<1>3. CASE ControlStep
  BY <1>1, <1>3, CancelIsCancel, RenewalIsStutter DEF ControlStep, PauseQueue, ResumeQueue
<1>4. CASE SchedulerStep
  BY <1>1, <1>4, PromoteIsStutter, ExpireIsFail
     DEF SchedulerStep, SchedulerPromote, SchedulerExpire, SchedulerError, RunScheduler
<1>5. CASE Tick
  BY <1>1, <1>5 DEF Tick
<1> QED
  BY <1>1, <1>2, <1>3, <1>4, <1>5 DEF Next, vars

LEMMA InitIsLifecycleInit == Init => Lifecycle!Init
  BY DEF Init, Lifecycle!Init, Lifecycle!Absent, Lives, NoLife

\* The job service implements JobLifecycle, for any number of jobs, callers
\* and servers: CreateJob submits, ClaimJob starts, CompleteJob succeeds,
\* FailJob and FailExpiredJobs fail, CancelJob cancels, and no other call
\* changes the life of any job.
THEOREM LifecycleImplemented == Spec => ImplementsLifecycle
<1>1. IInv /\ [Next]_vars => [Lifecycle!Next]_Lives
  BY StepIsLifecycleStep
<1> QED
  BY <1>1, InvariantHolds, InitIsLifecycleInit, PTL
     DEF Spec, ImplementsLifecycle, Lifecycle!Spec
-----------------------------------------------------------------------------
(* The table is finite: a step adds one row at most. *)

LEMMA QueueInvariantInit == Init => QueueIInv
<1>1. Init => DOMAIN jobs = {}
  BY DEF Init
<1> QED
  BY <1>1, InitEstablishes, FS_EmptySet DEF QueueIInv, TableFinite

LEMMA QueueInvariantKept ==
  ASSUME QueueIInv, [Next]_vars
  PROVE  QueueIInv'
<1>1. IInv'
  BY StepKeepsInvariant DEF QueueIInv
<1>2. ASSUME NEW c \in Caller, CreateJobInsert(c)
      PROVE  \E id : DOMAIN jobs' = DOMAIN jobs \cup {id}
  BY <1>2 DEF CreateJobInsert
<1>3. DOMAIN jobs' = DOMAIN jobs \/ \E id : DOMAIN jobs' = DOMAIN jobs \cup {id}
  BY <1>2, RowsAddedByInsert DEF QueueIInv
<1>4. IsFiniteSet(DOMAIN jobs')
  BY <1>3, FS_AddElement DEF QueueIInv, TableFinite
<1> QED
  BY <1>1, <1>4 DEF QueueIInv, TableFinite
-----------------------------------------------------------------------------
(* The progress of FailExpiredJobs.  Locks are reclaimed in the order they *)
(* ran out in, a batch at a time.  Nobody can get in before an abandoned   *)
(* job: a lock that is taken or renewed ends later than all that ran out,  *)
(* provided no heartbeat waits for its row longer than a lock lasts.       *)

\* The abandoned jobs that may be reclaimed before this one.
Ahead(id) == {other \in ExpiredIds(jobs, now) \ {id} :
                jobs[other].lock_expires_at <= jobs[id].lock_expires_at}

\* A lock that ran out has not been touched by the last step.
LEMMA OldLocksUntouched ==
  ASSUME RowWait <= LockDuration, IInv, [Next]_vars, NEW id \in DOMAIN jobs',
         jobs'[id].status = "running", jobs'[id].lock_expires_at < now
  PROVE  /\ id \in DOMAIN jobs
         /\ jobs[id].status = "running"
         /\ jobs'[id].lock_expires_at = jobs[id].lock_expires_at
<1>1. id \in DOMAIN jobs
  <2>1. \A other \in DOMAIN jobs' \ DOMAIN jobs : jobs'[other].status \in Waiting
    BY NewRowsWait DEF NewRowsFresh
  <2> QED
    BY <2>1 DEF Waiting
<1> DEFINE r == jobs[id]
           s == jobs'[id]
<1>2. r \in JobRow /\ now \in Nat
  BY <1>1 DEF IInv, RowsOK, RowOK, ControlOK
<1>3. Managed(r, s, now) \/ \E c \in Caller : Worked(r, s, c, now - RowWait, now)
  BY <1>1, EveryStepOnRows DEF RowsStepped
<1>4. s.status = "running" /\ s.lock_expires_at < now
  OBVIOUS
<1> HIDE DEF r, s
<1>5. \A t, delay, message : FailedRow(r, t, delay, message).status \in {"retryable", "discarded"}
  BY <1>2 DEF JobRow, FailedRow
<1>6. ASSUME Managed(r, s, now)
      PROVE  s = r
  <2>1. s \notin {PromotedRow(r), CancelledRow(r)} /\ \A at : s # ReleasedRow(r, at)
    BY <1>2, <1>4 DEF JobRow, ReleasedRow, PromotedRow, CancelledRow
  <2>2. s # ExpiredRow(r, now)
    <3>1. ExpiredRow(r, now).status \in {"retryable", "discarded"}
      BY <1>2, <1>5 DEF ExpiredRow, JobRow, FailedRow
    <3> QED
      BY <1>4, <3>1
  <2> QED
    BY <1>6, <2>1, <2>2 DEF Managed
<1>7. ASSUME NEW c \in Caller, Worked(r, s, c, now - RowWait, now)
      PROVE  FALSE
  <2>1. s # ClaimedRow(r, c, now) /\ \A at \in now - RowWait .. now : s # HeartbeatRow(r, at)
    <3>1. /\ ClaimedRow(r, c, now).lock_expires_at = now + LockDuration
          /\ \A at : HeartbeatRow(r, at).lock_expires_at = at + LockDuration
      BY <1>2 DEF JobRow, ClaimedRow, HeartbeatRow
    <3>2. /\ ~(now + LockDuration < now)
          /\ \A at \in now - RowWait .. now : ~(at + LockDuration < now)
      BY <1>2, JobTableAssumption, JobQueueAssumption
    <3> QED
      BY <1>4, <3>1, <3>2
  <2>2. s # CompletedRow(r, c)
    BY <1>2, <1>4 DEF JobRow, CompletedRow
  <2>3. \A at, delay : s # FailedRow(r, at, delay, "failed")
    BY <1>4, <1>5
  <2> QED
    BY <1>7, <2>1, <2>2, <2>3 DEF Worked
<1> QED
  BY <1>1, <1>3, <1>4, <1>6, <1>7 DEF r, s

\* Only the clock's own step moves the clock, and it moves nothing else.
LEMMA ClockStep ==
  ASSUME [Next]_vars
  PROVE  jobs' = jobs \/ now' = now
  BY DEF Next, vars, CallerStep, ControlStep, SchedulerStep, Tick, CreateJobUpsert, CreateJobInsert,
     ClaimJob, ClaimRow, CompleteJob, HeartbeatJob, HeartbeatAt, FailJobRead, FailJobWrite, AbortCall, CancelJob,
     PromoteJob, PauseQueue, ResumeQueue, SchedulerPromote, SchedulerExpire, SchedulerError,
     RunScheduler, JobsOnly

LEMMA AbandonedKeepsLock ==
  ASSUME RowWait <= LockDuration, IInv, [Next]_vars, NEW id, IsAbandoned(id), IsAbandoned(id)'
  PROVE  /\ jobs'[id].lock_expires_at = jobs[id].lock_expires_at
         /\ jobs[id].lock_expires_at \in Int
         /\ jobs[id].lock_expires_at < now
<1>1. id \in DOMAIN jobs /\ jobs[id].status = "running" /\ jobs[id].lock_expires_at < now
  BY DEF IsAbandoned
<1>2. jobs[id].lock_expires_at \in Int
  BY <1>1 DEF IInv, RowsOK, RowOK, TimesOK
<1>3. CASE jobs' = jobs
  BY <1>1, <1>2, <1>3
<1>4. CASE now' = now
  <2>1. id \in DOMAIN jobs' /\ jobs'[id].status = "running" /\ jobs'[id].lock_expires_at < now
    BY <1>4 DEF IsAbandoned
  <2> QED
    BY <1>1, <1>2, <2>1, OldLocksUntouched
<1> QED
  BY <1>3, <1>4, ClockStep

\* No step brings a job in before an abandoned one.
LEMMA AheadShrinks ==
  ASSUME RowWait <= LockDuration, IInv, [Next]_vars, NEW id, IsAbandoned(id), IsAbandoned(id)'
  PROVE  Ahead(id)' \subseteq Ahead(id)
<1> SUFFICES ASSUME NEW other \in Ahead(id)'
             PROVE  other \in Ahead(id)
  OBVIOUS
<1> DEFINE lock == jobs[id].lock_expires_at
<1>1. jobs'[id].lock_expires_at = lock /\ lock \in Int /\ lock < now /\ now \in Nat
  BY AbandonedKeepsLock DEF IInv, ControlOK
<1>2. /\ other \in DOMAIN jobs' /\ other # id /\ jobs'[other].status = "running"
      /\ jobs'[other].lock_expires_at # Null
      /\ jobs'[other].lock_expires_at <= jobs'[id].lock_expires_at
  BY DEF Ahead, ExpiredIds
<1>3. jobs'[other].lock_expires_at \in Int
  <2>1. IInv'
    BY StepKeepsInvariant
  <2> QED
    BY <1>2, <2>1 DEF IInv, RowsOK, RowOK, TimesOK
<1>4. jobs'[other].lock_expires_at <= lock /\ jobs'[other].lock_expires_at < now
  <2> HIDE DEF lock
  <2> QED
    BY <1>1, <1>2, <1>3
<1>5. /\ other \in DOMAIN jobs /\ jobs[other].status = "running"
      /\ jobs'[other].lock_expires_at = jobs[other].lock_expires_at
  BY <1>2, <1>4, OldLocksUntouched
<1>6. jobs[other].lock_expires_at # Null
  BY <1>2, <1>5
<1> QED
  BY <1>2, <1>4, <1>5, <1>6 DEF Ahead, ExpiredIds

LEMMA AheadFinite ==
  ASSUME QueueIInv, NEW id
  PROVE  IsFiniteSet(Ahead(id)) /\ Cardinality(Ahead(id)) \in Nat
<1>1. Ahead(id) \in SUBSET DOMAIN jobs
  BY DEF Ahead, ExpiredIds
<1> QED
  BY <1>1, FS_Subset, FS_CardinalityType DEF QueueIInv, TableFinite

\* A batch without an abandoned job is a full one, of jobs ahead of it.
LEMMA FullBatchAhead ==
  ASSUME QueueIInv, NEW id, IsAbandoned(id),
         NEW S \in Batches(ExpiredIds(jobs, now), [i \in DOMAIN jobs |-> jobs[i].lock_expires_at], BatchLimit),
         id \notin S
  PROVE  S \subseteq Ahead(id) /\ IsFiniteSet(S) /\ Cardinality(S) = BatchLimit
<1> DEFINE ids == ExpiredIds(jobs, now)
<1>1. id \in ids /\ ids \in SUBSET DOMAIN jobs
  BY DEF IsAbandoned, ExpiredIds
<1>2. IsFiniteSet(ids)
  BY <1>1, FS_Subset DEF QueueIInv, TableFinite
<1> HIDE DEF ids
<1>3. /\ S \in SUBSET ids
      /\ Cardinality(S) = IF Cardinality(ids) < BatchLimit THEN Cardinality(ids) ELSE BatchLimit
      /\ \A a \in S, b \in ids \ S : [i \in DOMAIN jobs |-> jobs[i].lock_expires_at][a]
                                     <= [i \in DOMAIN jobs |-> jobs[i].lock_expires_at][b]
  BY DEF Batches, ids
<1>4. S # ids
  BY <1>1
<1>5. Cardinality(S) = BatchLimit
  BY <1>2, <1>3, <1>4, FS_Subset
<1>6. IsFiniteSet(S)
  BY <1>2, <1>3, FS_Subset
<1>7. \A a \in S : a \in ids /\ a # id /\ jobs[a].lock_expires_at <= jobs[id].lock_expires_at
  BY <1>1, <1>3
<1> QED
  BY <1>5, <1>6, <1>7 DEF Ahead, ids

\* One run of FailExpiredJobs reclaims an abandoned job, or a full batch of
\* those ahead of it.
LEMMA ReclaimMovesUp ==
  ASSUME RowWait <= LockDuration, QueueIInv, SchedulerExpire, NEW id, IsAbandoned(id), IsAbandoned(id)'
  PROVE  Cardinality(Ahead(id)') + BatchLimit <= Cardinality(Ahead(id))
<1>1. PICK S \in Batches(ExpiredIds(jobs, now), [i \in DOMAIN jobs |-> jobs[i].lock_expires_at], BatchLimit) :
        jobs' = Updated(jobs, S, [i \in S |-> ExpiredRow(jobs[i], now)])
  BY DEF SchedulerExpire, FailExpiredJobs
<1>2. IInv /\ [Next]_vars
  BY DEF QueueIInv, Next, SchedulerStep
<1>3. \A i \in S : i \in DOMAIN jobs /\ jobs'[i].status # "running"
  <2> SUFFICES ASSUME NEW i \in S
               PROVE  i \in DOMAIN jobs /\ jobs'[i].status # "running"
    OBVIOUS
  <2>1. i \in DOMAIN jobs
    BY BatchIsSelected DEF ExpiredIds
  <2>2. jobs'[i] = ExpiredRow(jobs[i], now)
    BY <1>1, <2>1 DEF Updated
  <2>3. jobs[i] \in JobRow
    BY <1>2, <2>1 DEF IInv, RowsOK, RowOK
  <2>4. ExpiredRow(jobs[i], now).status \in {"retryable", "discarded"}
    BY <2>3 DEF ExpiredRow, JobRow, FailedRow
  <2> QED
    BY <2>1, <2>2, <2>4
<1>4. id \notin S
  BY <1>3 DEF IsAbandoned
<1>5. S \subseteq Ahead(id) /\ IsFiniteSet(S) /\ Cardinality(S) = BatchLimit
  BY <1>4, FullBatchAhead
<1>6. Ahead(id)' \subseteq Ahead(id) \ S
  <2>1. Ahead(id)' \subseteq Ahead(id)
    BY <1>2, AheadShrinks
  <2>2. \A i \in Ahead(id)' : jobs'[i].status = "running"
    BY DEF Ahead, ExpiredIds
  <2> QED
    BY <1>3, <2>1, <2>2
<1>7. IsFiniteSet(Ahead(id)) /\ Cardinality(Ahead(id)) \in Nat
  BY AheadFinite
<1>8. /\ IsFiniteSet(Ahead(id) \ S)
      /\ Cardinality(Ahead(id) \ S) = Cardinality(Ahead(id)) - BatchLimit
  <2> DEFINE rest == Ahead(id) \ S
  <2>1. rest \in SUBSET Ahead(id) /\ rest \cup S = Ahead(id) /\ rest \cap S = {}
    BY <1>5
  <2> HIDE DEF rest
  <2>2. IsFiniteSet(rest) /\ Cardinality(rest) \in Nat
    BY <1>7, <2>1, FS_Subset, FS_CardinalityType
  <2>3. Cardinality(rest \cup S) = Cardinality(rest) + Cardinality(S) - Cardinality(rest \cap S)
    BY <1>5, <2>2, FS_Union
  <2>4. Cardinality(rest \cap S) = 0
    BY <2>1, FS_EmptySet
  <2>5. Cardinality(Ahead(id)) = Cardinality(rest) + BatchLimit
    <3>1. Cardinality(rest \cup S) = Cardinality(Ahead(id))
      BY <2>1
    <3>2. Cardinality(Ahead(id)) = Cardinality(rest) + Cardinality(S) - 0
      BY <2>3, <2>4, <3>1
    <3> QED
      BY <1>5, <2>2, <3>2, JobTableAssumption
  <2> QED
    BY <2>2, <2>5, JobTableAssumption DEF rest
<1>9. Cardinality(Ahead(id)') <= Cardinality(Ahead(id) \ S) /\ Cardinality(Ahead(id)') \in Nat
  BY <1>6, <1>8, FS_Subset, FS_CardinalityType
<1> QED
  BY <1>7, <1>8, <1>9, JobTableAssumption

\* An abandoned job with at most n others ahead of it.
WaitsBehind(id, n) == IsAbandoned(id) /\ Cardinality(Ahead(id)) <= n

\* It is not abandoned any more, or a full batch fewer are ahead of it.
MovedUp(id, n) == ~IsAbandoned(id) \/ Cardinality(Ahead(id)) + BatchLimit <= n

THEOREM QueueInvariantHolds == Spec => []QueueIInv
<1>1. QueueIInv /\ [Next]_vars => QueueIInv'
  BY QueueInvariantKept
<1> QED
  BY <1>1, QueueInvariantInit, PTL DEF Spec

LEMMA NobodyGetsAhead ==
  ASSUME RowWait <= LockDuration, NEW id, NEW n \in Nat
  PROVE  QueueIInv /\ WaitsBehind(id, n) /\ [Next]_vars => WaitsBehind(id, n)' \/ MovedUp(id, n)'
<1> SUFFICES ASSUME QueueIInv, WaitsBehind(id, n), [Next]_vars, IsAbandoned(id)'
             PROVE  Cardinality(Ahead(id)') <= n
  BY DEF WaitsBehind, MovedUp
<1>1. Ahead(id)' \subseteq Ahead(id)
  BY AheadShrinks DEF QueueIInv, WaitsBehind
<1>2. IsFiniteSet(Ahead(id)) /\ Cardinality(Ahead(id)) \in Nat /\ Cardinality(Ahead(id)) <= n
  BY AheadFinite DEF WaitsBehind
<1>3. Cardinality(Ahead(id)') \in Nat /\ Cardinality(Ahead(id)') <= Cardinality(Ahead(id))
  BY <1>1, <1>2, FS_Subset, FS_CardinalityType
<1> QED
  BY <1>2, <1>3

LEMMA BatchMovesUp ==
  ASSUME RowWait <= LockDuration, NEW id, NEW n \in Nat
  PROVE  QueueIInv /\ WaitsBehind(id, n) /\ <<SchedulerExpire>>_vars => MovedUp(id, n)'
<1> SUFFICES ASSUME QueueIInv, WaitsBehind(id, n), SchedulerExpire, IsAbandoned(id)'
             PROVE  Cardinality(Ahead(id)') + BatchLimit <= n
  BY DEF MovedUp
<1>1. Cardinality(Ahead(id)') + BatchLimit <= Cardinality(Ahead(id)) /\ Cardinality(Ahead(id)) <= n
  BY ReclaimMovesUp DEF WaitsBehind
<1>2. Cardinality(Ahead(id)') \in Nat /\ Cardinality(Ahead(id)) \in Nat
  <2>1. IsFiniteSet(Ahead(id)) /\ Cardinality(Ahead(id)) \in Nat
    BY AheadFinite
  <2>2. Ahead(id)' \subseteq Ahead(id)
    BY AheadShrinks DEF QueueIInv, WaitsBehind, Next, SchedulerStep
  <2> QED
    BY <2>1, <2>2, FS_Subset, FS_CardinalityType
<1> QED
  BY <1>1, <1>2, JobTableAssumption

\* A scheduler that runs FailExpiredJobs again and again (cmdScheduler's loop;
\* any of its runs may fail) moves every abandoned job up by full batches:
\* jobs that come, fail, or lose their workers meanwhile, and all the calls of
\* everybody else, never put one back in the line, as long as no heartbeat
\* waits for its row longer than a lock lasts.
THEOREM AbandonedJobsMoveUp ==
  ASSUME RowWait <= LockDuration, NEW id \in JobId, NEW n \in Nat
  PROVE  Spec /\ []<><<SchedulerExpire>>_vars => (WaitsBehind(id, n) ~> MovedUp(id, n))
<1>1. QueueIInv /\ WaitsBehind(id, n) /\ [Next]_vars => WaitsBehind(id, n)' \/ MovedUp(id, n)'
  BY NobodyGetsAhead
<1>2. QueueIInv /\ WaitsBehind(id, n) /\ <<SchedulerExpire>>_vars => MovedUp(id, n)'
  BY BatchMovesUp
<1> QED
  BY <1>1, <1>2, QueueInvariantHolds, PTL DEF Spec

\* In particular one that comes within the next batch does not stay abandoned:
\* README, "If a worker dies, the scheduler fails the job on the next tick".
THEOREM NextBatchIsReclaimed ==
  ASSUME RowWait <= LockDuration, NEW id \in JobId
  PROVE  Spec /\ []<><<SchedulerExpire>>_vars =>
           ((IsAbandoned(id) /\ Cardinality(Ahead(id)) < BatchLimit) ~> ~IsAbandoned(id))
<1> DEFINE n == BatchLimit - 1
<1>1. n \in Nat
  BY JobTableAssumption
<1>2. QueueIInv => (IsAbandoned(id) /\ Cardinality(Ahead(id)) < BatchLimit => WaitsBehind(id, n))
  BY AheadFinite, JobTableAssumption DEF WaitsBehind
<1>3. QueueIInv => (MovedUp(id, n) => ~IsAbandoned(id))
  BY AheadFinite, JobTableAssumption DEF MovedUp
<1> HIDE DEF n
<1>4. QueueIInv /\ WaitsBehind(id, n) /\ [Next]_vars => WaitsBehind(id, n)' \/ MovedUp(id, n)'
  BY <1>1, NobodyGetsAhead
<1>5. QueueIInv /\ WaitsBehind(id, n) /\ <<SchedulerExpire>>_vars => MovedUp(id, n)'
  BY <1>1, BatchMovesUp
<1> QED
  BY <1>2, <1>3, <1>4, <1>5, QueueInvariantHolds, PTL DEF Spec
=============================================================================
