----------------------------- MODULE JobProgress -----------------------------
(***************************************************************************)
(* The queue with everybody at work: the scheduler process, workers that   *)
(* go on asking for jobs of every queue (README, the worker loop), servers *)
(* that finish or drop the calls they began, and users who resume what     *)
(* they paused, though they may pause it again at any time.                *)
(***************************************************************************)
EXTENDS JobQueue

\* The second statement of a call, or its end without one.
EndCall(c) == CreateJobInsert(c) \/ FailJobWrite(c) \/ AbortCall(c)

\* The queue is resumed while some worker is between its calls.
ResumeForWorkers(q) == ResumeQueue(q) /\ \E c \in Caller : calls[c] = Idle

\* What the others have to do for a job to be tried.  Strong fairness where
\* the step comes and goes: a claim is impossible while the queue is paused or
\* the workers are in a call.
Served == /\ \A c \in Caller : WF_vars(EndCall(c))
          /\ \A q \in QueueName : /\ SF_vars(\E c \in Caller : ClaimJob(c, q))
                                  /\ SF_vars(ResumeForWorkers(q))
-----------------------------------------------------------------------------
\* The job may be attempted now, whatever the status that says so.
MayStart(id) == /\ id \in DOMAIN jobs
                /\ jobs[id].status \in {"scheduled", "available", "retryable"}
                /\ jobs[id].scheduled_at <= now

\* A job whose time has come is attempted or cancelled, however often it is
\* put back: after its delay, after a failure with a backoff, after a lock that
\* expired, behind the finitely many jobs that are more urgent, through pauses
\* of the queue, and through a scheduler that handles one row at a time (the
\* composition of PGDriver's claim, failure, expiry and promotion).
WaitingJobsAreTried == Served => \A id \in JobId : MayStart(id) ~> ~MayStart(id)
=============================================================================
