------------------------------ MODULE JobViews ------------------------------
(***************************************************************************)
(* What clients that poll are shown of a job while the queue goes on:      *)
(* GetJob and GetJobState (internal/service/job.go).  Each reads the row   *)
(* in one statement and decodes the errors column, a JSON array.           *)
(***************************************************************************)
EXTENDS JobQueue

CONSTANT NoText  \* the empty string: Go's zero value, and no error

ASSUME JobViewsAssumption == NoText \notin {"failed", "lock_expired"}

VARIABLES state,  \* per job, the GetJobState response its poller got last
          job     \* per job, the GetJob response its poller got last

viewVars == <<jobs, queues, paused, calls, sched, now, state, job>>

NotRead == [status |-> "unknown"]

Unread == [id \in JobId |-> NotRead]

ViewsInit == Init /\ state = Unread /\ job = Unread
-----------------------------------------------------------------------------
(* The errors column and its two readers. *)

\* An entry as FailJob and FailExpiredJobs write it.
Entry(message) == [at |-> "some time", message |-> message]

ErrorsColumn(r) == [i \in DOMAIN r.errors |-> Entry(r.errors[i])]

\* Decoding leaves a field the entry has no key for at its zero value.
Field(entry, key, zero) == IF key \in DOMAIN entry THEN entry[key] ELSE zero

\* Mutant of LastError: the first entry instead of the last.
LastErrorFirst(column) ==
  IF column = <<>> THEN NoText ELSE Field(Head(column), "message", NoText)

\* lastError: the message of the last entry.
LastError(column) ==
  IF column = <<>> THEN NoText ELSE Field(column[Len(column)], "message", NoText)

\* parseAttemptErrors.
AttemptErrors(column) == [i \in DOMAIN column |-> Field(column[i], "message", NoText)]
-----------------------------------------------------------------------------
(* The reads. *)

QueueOnly == UNCHANGED <<jobs, queues, paused, calls, sched, now>>

GetJobState(id) ==
  /\ id \in DOMAIN jobs
  /\ state' = [state EXCEPT ![id] = [status |-> jobs[id].status,
                                     error  |-> LastError(ErrorsColumn(jobs[id]))]]
  /\ UNCHANGED job
  /\ QueueOnly

\* rowToProto.
GetJob(id) ==
  /\ id \in DOMAIN jobs
  /\ job' = [job EXCEPT ![id] = [status    |-> jobs[id].status,
                                 attempt   |-> jobs[id].attempt,
                                 errors    |-> AttemptErrors(ErrorsColumn(jobs[id])),
                                 result    |-> jobs[id].result,
                                 attempted |-> jobs[id].attempted_at,
                                 finalized |-> jobs[id].finalized]]
  /\ UNCHANGED state
  /\ QueueOnly

ViewsNext == \/ \E id \in JobId : GetJobState(id) \/ GetJob(id)
             \/ Next /\ UNCHANGED <<state, job>>

ViewsSpec == ViewsInit /\ [][ViewsNext]_viewVars
-----------------------------------------------------------------------------
IsPrefix(s, t) == Len(s) <= Len(t) /\ \A i \in DOMAIN s : s[i] = t[i]

\* A client that polls GetJob sees a job's history grow and never change:
\* attempts are not uncounted, errors are appended, and a response that says
\* final, or brings a result, is confirmed by every later one.
ViewsGoForward ==
  [][\A id \in JobId : job[id] # NotRead =>
        LET old == job[id]
            new == job'[id]
        IN  /\ old.attempt <= new.attempt
            /\ IsPrefix(old.errors, new.errors)
            /\ old.status \in Final => new = old
            /\ old.finalized => new.finalized]_viewVars

\* Whoever polls GetJobState and sees the job wait for a retry, or given up,
\* is told why the attempt that was counted last failed.
StateExplainsFailure ==
  [][\A id \in JobId :
        state'[id] # state[id] /\ state'[id].status \in {"retryable", "discarded"}
        => state'[id].error = jobs[id].errors[jobs[id].attempt]]_viewVars
=============================================================================
