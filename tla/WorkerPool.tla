----------------------------- MODULE WorkerPool -----------------------------
(***************************************************************************)
(* The job queue with workers that follow the README's "Worker flow": a    *)
(* worker claims a job, heartbeats while it works, and completes or fails  *)
(* it.  The workers are not part of the repository; what they believe is   *)
(* the variable held, and their calls are those of JobQueue.               *)
(*                                                                         *)
(* No call names the attempt or the worker it is for: CompleteJob, FailJob *)
(* and HeartbeatJob go by id and status = 'running'.  A call that takes    *)
(* effect after its caller's lock ran out, or for a second time, goes      *)
(* astray: the workers may make such calls as far as LateCalls and Retries *)
(* let them, and the module notes when one has.                            *)
(***************************************************************************)
EXTENDS JobQueue

CONSTANTS Client,     \* the callers that create jobs; all others are workers
          LateCalls,  \* calls may take effect after the caller's lock ran out
          Retries     \* a FailJob whose answer was lost may be called again

ASSUME WorkerPoolAssumption ==
         /\ Client \subseteq Caller
         /\ LateCalls \in BOOLEAN
         /\ Retries \in BOOLEAN

VARIABLES held,   \* per worker, the job it believes it holds
          astray  \* history: whether a call has come late or twice

poolVars == <<jobs, queues, paused, calls, sched, now, held, astray>>

Worker == Caller \ Client

\* A worker believes in one job at a time; the deadline is when the lock it
\* renewed in time runs out, Null once it reported its failure and never
\* learnt whether the report arrived.
Free == [job |-> Null]
Holding == [job : JobId, attempt : Nat \ {0}, deadline : Nat \cup {Null}]

PoolInit == Init /\ held = [w \in Worker |-> Free] /\ astray = FALSE

\* The worker holds a job and has renewed its lock in time.
InTime(w) == held[w] # Free /\ held[w].deadline # Null /\ now <= held[w].deadline

\* The worker works on a job, and the calls it makes arrive in time.
MayCall(w) == held[w] # Free /\ held[w].deadline # Null /\ (LateCalls \/ InTime(w))

\* The worker calls FailJob again because the first answer was lost.
MayRetry(w) == Retries /\ held[w] # Free /\ held[w].deadline = Null

\* A call of w comes; it counts when it takes effect.
Noted(w) == astray' = (astray \/ (~InTime(w) /\ jobs' # jobs))
-----------------------------------------------------------------------------
\* The answer to a claim says which job and which attempt; the worker counts
\* the lock from the database's clock.
ClaimAnswered(w, q) ==
  /\ held[w] = Free
  /\ \E id \in DOMAIN jobs :
        /\ ClaimRow(w, q, id)
        /\ held' = [held EXCEPT ![w] = [job      |-> id,
                                        attempt  |-> jobs[id].attempt + 1,
                                        deadline |-> now + LockDuration]]
  /\ UNCHANGED astray

\* The row is claimed but the answer is lost: nobody works on the job.
ClaimLost(w, q) ==
  /\ held[w] = Free
  /\ ClaimJob(w, q)
  /\ UNCHANGED <<held, astray>>

\* The worker counts from the renewal, or from the one before when it never
\* learns of this one; a renewal that comes too late gives it no new claim.
\* It makes one call after the other, so that the statement began after the
\* one it counts from; a statement may still wait for the row, and grant less
\* than the full duration.
Heartbeat(w) ==
  /\ MayCall(w)
  /\ \E at \in StatementTimes :
        /\ held[w].deadline <= at + LockDuration
        /\ HeartbeatAt(w, held[w].job, at)
        /\ \/ InTime(w) /\ held' = [held EXCEPT ![w].deadline = at + LockDuration]
           \/ UNCHANGED held
  /\ Noted(w)

Complete(w) ==
  /\ MayCall(w)
  /\ CompleteJob(w, held[w].job)
  /\ held' = [held EXCEPT ![w] = Free]
  /\ Noted(w)

FailBegin(w) ==
  /\ MayCall(w) \/ MayRetry(w)
  /\ FailJobRead(w, held[w].job)
  /\ UNCHANGED <<held, astray>>

\* The failure is answered, taken or refused; or the answer is lost, and the
\* worker will call again.
FailEnd(w) ==
  /\ MayCall(w) \/ MayRetry(w)
  /\ FailJobWrite(w)
  /\ \/ held' = [held EXCEPT ![w] = Free]
     \/ Retries /\ held' = [held EXCEPT ![w].deadline = Null]
  /\ Noted(w)

\* The worker dies, or a call is refused, or it loses interest; a request it
\* had under way is cancelled with its connection.
GiveUp(w) ==
  /\ held[w] # Free
  /\ held' = [held EXCEPT ![w] = Free]
  /\ calls' = [calls EXCEPT ![w] = Idle]
  /\ UNCHANGED <<jobs, queues, paused, sched, now, astray>>

WorkerStep(w) ==
  \/ \E q \in QueueName : ClaimAnswered(w, q) \/ ClaimLost(w, q)
  \/ Heartbeat(w) \/ Complete(w) \/ FailBegin(w) \/ FailEnd(w) \/ GiveUp(w)

\* Everybody else; the dashboard and the clients with an API key cancel,
\* promote and pause at will.
ClientStep(c) == (\E q \in QueueName : CreateJobUpsert(c, q)) \/ CreateJobInsert(c)

OtherStep == /\ \/ \E c \in Client : ClientStep(c)
                \/ \E c \in Caller : AbortCall(c)
                \/ ControlStep
                \/ SchedulerStep
                \/ Tick
             /\ UNCHANGED <<held, astray>>

PoolNext == (\E w \in Worker : WorkerStep(w)) \/ OtherStep

PoolSpec == PoolInit /\ [][PoolNext]_poolVars
-----------------------------------------------------------------------------
\* README: "Workers must call `HeartbeatJob` at least once every
\* `JOB_LOCK_DURATION` to keep their lock alive".  The job of a worker that
\* does so is running, in the attempt the worker claimed, unless a client
\* cancelled it: neither the scheduler nor another worker takes it away.
HolderKeepsJob ==
  \A w \in Worker : InTime(w) =>
     LET r == jobs[held[w].job]
     IN  \/ r.status = "cancelled"
         \/ r.status = "running" /\ r.attempt = held[w].attempt

\* It is so as long as every call takes effect once, and while its caller's
\* lock lasts, whatever answers are lost and whichever workers die: neither
\* FailExpiredJobs nor a claim, nor their order with the heartbeats of the
\* worker, takes the job away.
PunctualPoolKeepsJobs == astray \/ HolderKeepsJob

\* And then at most one worker has a valid lock on a job.
OneHolder ==
  astray \/ \A v, w \in Worker : InTime(v) /\ InTime(w) /\ held[v].job = held[w].job => v = w

\* Whatever calls come late or twice, the history of a job knows its workers:
\* the attempt a worker holds has begun, is recorded in attempted_by as that
\* worker's, and so is nobody else's.
AttemptBelongsToItsWorker ==
  \A w \in Worker : held[w] # Free =>
     LET r == jobs[held[w].job]
     IN  /\ held[w].attempt <= r.attempt
         /\ held[w].attempt <= Len(r.attempted_by)
         /\ r.attempted_by[held[w].attempt] = w

\* The result of a completed job is that of the worker whose attempt was the
\* last to begin, never that of an earlier one that was given up for dead,
\* unless a call went astray.
ResultOfLastAttempt ==
  astray \/ \A id \in DOMAIN jobs : jobs[id].status = "completed" =>
              jobs[id].result = jobs[id].attempted_by[Len(jobs[id].attempted_by)]
=============================================================================
