-------------------------- MODULE WorkerPool_proofs --------------------------
(***************************************************************************)
(* Proofs about WorkerPool, for every set of workers and clients and every *)
(* policy of late and repeated calls.                                      *)
(*                                                                         *)
(* The steps of the pool are steps of JobQueue, so the invariant of        *)
(* JobQueue holds and rows only grow.  What a worker holds is tied to the  *)
(* row by attempted_by, which tells the attempts of two workers apart: of  *)
(* two workers with the same job and the same attempt there is one.  That  *)
(* is why no punctual call of one worker disturbs another.                 *)
(***************************************************************************)
EXTENDS WorkerPool, JobQueue_proofs

HeldOK == held \in [Worker -> {Free} \cup Holding] /\ astray \in BOOLEAN

\* A FailJob that a worker has begun is about the job it holds.
CallsOK == \A w \in Worker : calls[w].op = "fail" => held[w] # Free /\ calls[w].job = held[w].job

\* The attempt a worker holds is in the row's history, as its own.
OwnsAttempt(w) ==
  held[w] # Free =>
     /\ held[w].job \in DOMAIN jobs
     /\ held[w].attempt <= jobs[held[w].job].attempt
     /\ jobs[held[w].job].attempted_by[held[w].attempt] = w

\* The row is in the attempt a, and if it has not been cancelled, it is
\* running under a lock that lasts until d.
HoldsRow(r, a, d) ==
  /\ r.attempt = a
  /\ r.status = "cancelled" \/ (r.status = "running" /\ r.lock_expires_at >= d)

\* The lock a worker counts on is the row's, and lasts as long as it thinks.
KeepsJob(w) ==
  InTime(w) => HoldsRow(jobs[held[w].job], held[w].attempt, held[w].deadline)

LastAttemptWon(r) == r.status = "completed" => r.result = r.attempted_by[Len(r.attempted_by)]

PoolIInv == /\ IInv /\ HeldOK /\ CallsOK
            /\ \A w \in Worker : OwnsAttempt(w)
            /\ astray \/ /\ \A w \in Worker : KeepsJob(w)
                         /\ \A id \in DOMAIN jobs : LastAttemptWon(jobs[id])
-----------------------------------------------------------------------------
(* Consequences of the invariant. *)

LEMMA NullIsNoNumber == Null \notin Nat /\ Null \notin JobId /\ Free \notin Holding
<1>1. Null \notin Nat /\ Null \notin JobId
  <2>1. \A n \in Nat : n \in Int
    OBVIOUS
  <2> QED
    BY <2>1, JobTableAssumption
<1> QED
  BY <1>1 DEF Free, Holding

\* What is known of a worker that counts on its lock.
LEMMA InTimeHolds ==
  ASSUME PoolIInv, NEW w \in Worker, InTime(w)
  PROVE  /\ w \in Caller
         /\ held[w] \in Holding /\ held[w] # Free
         /\ held[w].deadline \in Nat /\ now \in Nat
         /\ now <= held[w].deadline
         /\ held[w].job \in DOMAIN jobs
         /\ RowOK(jobs[held[w].job], now)
<1>1. held[w] \in Holding /\ held[w].deadline \in Nat /\ w \in Caller
  BY DEF PoolIInv, HeldOK, InTime, Holding, Worker
<1>2. held[w].job \in DOMAIN jobs
  BY DEF PoolIInv, OwnsAttempt, InTime
<1> QED
  BY <1>1, <1>2 DEF PoolIInv, IInv, RowsOK, ControlOK, InTime

\* Two workers that count on their locks have different jobs.
LEMMA SoleHolder ==
  ASSUME PoolIInv, ~astray, NEW v \in Worker, NEW w \in Worker,
         InTime(v), InTime(w), held[v].job = held[w].job
  PROVE  v = w
<1>1. KeepsJob(v) /\ KeepsJob(w) /\ OwnsAttempt(v) /\ OwnsAttempt(w)
  BY DEF PoolIInv
<1>2. held[v].attempt = held[w].attempt
  BY <1>1 DEF KeepsJob, HoldsRow
<1>3. held[v] # Free /\ held[w] # Free
  BY DEF InTime
<1> QED
  BY <1>1, <1>2, <1>3 DEF OwnsAttempt

\* What a worker's heartbeat is to the queue.
LEMMA HeartbeatIsCall ==
  ASSUME NEW w, Heartbeat(w)
  PROVE  HeartbeatJob(w, held[w].job)
  BY DEF Heartbeat, HeartbeatJob

\* Every step of the pool is one of the queue.
LEMMA PoolStepIsQueueStep ==
  ASSUME PoolIInv, [PoolNext]_poolVars
  PROVE  [Next]_vars
<1>1. CASE UNCHANGED poolVars
  BY <1>1 DEF poolVars, vars
<1>2. CASE OtherStep
  BY <1>2, WorkerPoolAssumption DEF OtherStep, ClientStep, Next, CallerStep
<1>3. ASSUME NEW w \in Worker, WorkerStep(w)
      PROVE  [Next]_vars
  <2>1. w \in Caller
    BY DEF Worker
  <2>2. ASSUME held[w] # Free PROVE held[w].job \in JobId
    BY <2>2 DEF PoolIInv, HeldOK, Holding
  <2>3. ASSUME NEW q \in QueueName, ClaimAnswered(w, q) \/ ClaimLost(w, q)
        PROVE  [Next]_vars
    <3>1. ClaimJob(w, q)
      BY <2>3 DEF ClaimAnswered, ClaimLost, ClaimJob
    <3> QED
      BY <2>1, <3>1 DEF Next, CallerStep
  <2>4. CASE Heartbeat(w)
    BY <2>1, <2>2, <2>4, HeartbeatIsCall DEF Heartbeat, MayCall, Next, CallerStep
  <2>5. CASE Complete(w)
    BY <2>1, <2>2, <2>5 DEF Complete, MayCall, Next, CallerStep
  <2>6. CASE FailBegin(w)
    BY <2>1, <2>2, <2>6 DEF FailBegin, MayCall, MayRetry, Next, CallerStep
  <2>7. CASE FailEnd(w)
    BY <2>1, <2>7 DEF FailEnd, Next, CallerStep
  <2>8. CASE GiveUp(w)
    <3>1. CASE calls[w] = Idle
      <4>1. calls' = calls
        BY <2>8, <3>1 DEF GiveUp, PoolIInv, IInv, ControlOK
      <4> QED
        BY <2>8, <4>1 DEF GiveUp, vars
    <3>2. CASE calls[w] # Idle
      BY <2>1, <2>8, <3>2 DEF GiveUp, AbortCall, Next, CallerStep
    <3> QED
      BY <3>1, <3>2
  <2> QED
    BY <1>3, <2>3, <2>4, <2>5, <2>6, <2>7, <2>8 DEF WorkerStep
<1> QED
  BY <1>1, <1>2, <1>3 DEF PoolNext
-----------------------------------------------------------------------------
(* The parts of the invariant, step by step. *)

LEMMA HeldOKKept ==
  ASSUME PoolIInv, [PoolNext]_poolVars
  PROVE  HeldOK'
<1>1. CASE UNCHANGED <<held, astray>>
  BY <1>1 DEF PoolIInv, HeldOK
<1>2. ASSUME NEW w \in Worker, WorkerStep(w)
      PROVE  HeldOK'
  <2>1. held \in [Worker -> {Free} \cup Holding] /\ astray \in BOOLEAN /\ now \in Nat
    BY DEF PoolIInv, HeldOK, IInv, ControlOK
  <2>2. ASSUME held[w] # Free, NEW d \in Nat \cup {Null}, held' = [held EXCEPT ![w].deadline = d]
        PROVE  held' \in [Worker -> {Free} \cup Holding]
    <3>1. held[w] \in Holding
      BY <2>1, <2>2
    <3>2. [held[w] EXCEPT !.deadline = d] \in Holding
      BY <2>2, <3>1 DEF Holding
    <3> QED
      BY <2>1, <2>2, <3>2
  <2>3. astray' \in BOOLEAN
    BY <1>2, <2>1 DEF WorkerStep, ClaimAnswered, ClaimLost, Heartbeat, Complete, FailBegin,
       FailEnd, GiveUp, Noted
  <2>4. ASSUME NEW q, ClaimAnswered(w, q)
        PROVE  held' \in [Worker -> {Free} \cup Holding]
    <3>1. PICK id \in DOMAIN jobs :
            held' = [held EXCEPT ![w] = [job      |-> id,
                                         attempt  |-> jobs[id].attempt + 1,
                                         deadline |-> now + LockDuration]]
      BY <2>4 DEF ClaimAnswered
    <3>2. id \in JobId /\ jobs[id].attempt \in Nat
      BY DEF PoolIInv, IInv, RowsOK, RowOK, JobRow
    <3>3. [job |-> id, attempt |-> jobs[id].attempt + 1, deadline |-> now + LockDuration] \in Holding
      BY <2>1, <3>2, JobTableAssumption DEF Holding
    <3> QED
      BY <2>1, <3>1, <3>3
  <2>5. CASE held' = [held EXCEPT ![w] = Free]
    BY <2>1, <2>3, <2>5 DEF HeldOK
  <2>6. \A at \in StatementTimes : at + LockDuration \in Nat
    BY <2>1, JobTableAssumption DEF StatementTimes
  <2>7. CASE Heartbeat(w)
    BY <2>1, <2>2, <2>3, <2>6, <2>7 DEF HeldOK, Heartbeat, MayCall
  <2>8. CASE FailEnd(w)
    BY <2>1, <2>2, <2>3, <2>5, <2>8 DEF HeldOK, FailEnd, MayCall, MayRetry
  <2>9. CASE held' = held
    BY <2>1, <2>3, <2>9 DEF HeldOK
  <2> QED
    BY <1>2, <2>3, <2>4, <2>5, <2>7, <2>8, <2>9
       DEF HeldOK, WorkerStep, ClaimLost, Complete, FailBegin, GiveUp
<1> QED
  BY <1>1, <1>2 DEF PoolNext, OtherStep, poolVars

LEMMA CallsOKKept ==
  ASSUME PoolIInv, [PoolNext]_poolVars
  PROVE  CallsOK'
<1>1. calls \in [Caller -> Call] /\ CallsOK /\ \A w \in Worker : w \in Caller
  BY DEF PoolIInv, IInv, ControlOK, Worker
<1>2. CASE UNCHANGED <<calls, held>>
  BY <1>1, <1>2 DEF CallsOK
<1>3. ASSUME UNCHANGED held, NEW c \in Caller, calls' = [calls EXCEPT ![c] = Idle]
      PROVE  CallsOK'
  BY <1>1, <1>3 DEF CallsOK, Idle
<1>4. ASSUME NEW c \in Client, ClientStep(c), UNCHANGED held
      PROVE  CallsOK'
  <2>1. c \notin Worker /\ c \in Caller
    BY WorkerPoolAssumption DEF Worker
  <2>2. \A w \in Worker : calls'[w] = calls[w]
    BY <1>1, <1>4, <2>1 DEF ClientStep, CreateJobUpsert, CreateJobInsert
  <2> QED
    BY <1>1, <1>4, <2>2 DEF CallsOK
<1>5. CASE OtherStep
  BY <1>2, <1>3, <1>4, <1>5
     DEF OtherStep, AbortCall, ControlStep, CancelJob, PromoteJob, JobsOnly, PauseQueue, ResumeQueue,
         SchedulerStep, SchedulerPromote, SchedulerExpire, SchedulerError, RunScheduler, Tick
<1>6. ASSUME NEW v \in Worker, WorkerStep(v)
      PROVE  CallsOK'
  <2>1. \A w \in Worker \ {v} : calls'[w] = calls[w] /\ held'[w] = held[w]
    BY <1>1, <1>6 DEF WorkerStep, ClaimAnswered, ClaimLost, ClaimJob, ClaimRow, Heartbeat, HeartbeatAt,
       Complete, CompleteJob, JobsOnly, FailBegin, FailJobRead, FailEnd, FailJobWrite, GiveUp,
       PoolIInv, HeldOK
  <2>2. calls'[v].op = "fail" => held'[v] # Free /\ calls'[v].job = held'[v].job
    <3>1. CASE calls'[v] = Idle
      BY <3>1 DEF Idle
    <3>2. CASE FailBegin(v)
      <4>1. held[v] # Free /\ held' = held
        BY <3>2 DEF FailBegin, MayCall, MayRetry
      <4>2. PICK ms : calls' = [calls EXCEPT ![v] = [op |-> "fail", job |-> held[v].job, delay |-> ms]]
        BY <3>2 DEF FailBegin, FailJobRead
      <4> QED
        BY <1>1, <4>1, <4>2
    <3> QED
      BY <1>1, <1>6, <3>1, <3>2 DEF WorkerStep, ClaimAnswered, ClaimLost, ClaimJob, ClaimRow, Heartbeat,
         HeartbeatAt, Complete, CompleteJob, JobsOnly, FailEnd, FailJobWrite, GiveUp
  <2> QED
    BY <1>1, <2>1, <2>2 DEF CallsOK
<1> QED
  BY <1>2, <1>5, <1>6 DEF PoolNext, poolVars

\* Rows only grow, so an attempt that is held stays in the history.
LEMMA HistoryKept ==
  ASSUME PoolIInv, [Next]_vars, NEW w \in Worker, held[w] # Free, held'[w] # Free,
         held'[w].job = held[w].job, held'[w].attempt = held[w].attempt
  PROVE  OwnsAttempt(w)'
<1> DEFINE r == jobs[held[w].job]
           s == jobs'[held[w].job]
           i == held[w].attempt
<1>1. i \in Nat \ {0}
  BY DEF PoolIInv, HeldOK, Holding
<1>2. held[w].job \in DOMAIN jobs /\ i <= r.attempt /\ r.attempted_by[i] = w
  BY DEF PoolIInv, OwnsAttempt
<1>3. r \in JobRow /\ Len(r.attempted_by) = r.attempt
  BY <1>2 DEF PoolIInv, IInv, RowsOK, RowOK, AttemptsOK
<1>4. held[w].job \in DOMAIN jobs' /\ Grown(r, s)
  BY <1>2, RowsGrow DEF PoolIInv
<1>5. IInv'
  BY StepKeepsInvariant DEF PoolIInv
<1>6. s.attempt \in Nat /\ r.attempt \in Nat
  BY <1>3, <1>4, <1>5 DEF IInv, RowsOK, RowOK, JobRow
<1> HIDE DEF r, s, i
<1>7. i <= s.attempt /\ s.attempted_by[i] = w
  BY <1>1, <1>2, <1>3, <1>4, <1>6 DEF Grown
<1> QED
  BY <1>4, <1>7 DEF OwnsAttempt, s, i

LEMMA OwnershipKept ==
  ASSUME PoolIInv, [PoolNext]_poolVars
  PROVE  \A w \in Worker : OwnsAttempt(w)'
<1>1. [Next]_vars /\ HeldOK'
  BY PoolStepIsQueueStep, HeldOKKept
<1>2. ASSUME NEW w \in Worker, held'[w] = held[w]
      PROVE  OwnsAttempt(w)'
  BY <1>1, <1>2, HistoryKept DEF OwnsAttempt
<1>3. ASSUME NEW v \in Worker, WorkerStep(v)
      PROVE  OwnsAttempt(v)'
  <2>1. held \in [Worker -> {Free} \cup Holding] /\ v \in Caller
    BY DEF PoolIInv, HeldOK, Worker
  <2>2. CASE held'[v] = Free
    BY <2>2 DEF OwnsAttempt
  <2>3. ASSUME NEW q \in QueueName, ClaimAnswered(v, q)
        PROVE  OwnsAttempt(v)'
    <3>1. PICK id \in DOMAIN jobs :
            /\ ClaimRow(v, q, id)
            /\ held' = [held EXCEPT ![v] = [job      |-> id,
                                            attempt  |-> jobs[id].attempt + 1,
                                            deadline |-> now + LockDuration]]
      BY <2>3 DEF ClaimAnswered
    <3>2. id \in DOMAIN jobs' /\ jobs'[id] = ClaimedRow(jobs[id], v, now)
      BY <2>1, <3>1, ClaimWorks DEF PoolIInv
    <3>3. jobs[id] \in JobRow /\ Len(jobs[id].attempted_by) = jobs[id].attempt
      BY DEF PoolIInv, IInv, RowsOK, RowOK, AttemptsOK
    <3>4. jobs[id].attempted_by \in Seq(Caller) /\ jobs[id].attempt \in Nat
      BY <3>3 DEF JobRow
    <3>5. Append(jobs[id].attempted_by, v)[Len(jobs[id].attempted_by) + 1] = v
      BY <2>1, <3>4, AppendKeeps
    <3>6. jobs'[id].attempt = jobs[id].attempt + 1
          /\ jobs'[id].attempted_by = Append(jobs[id].attempted_by, v)
      BY <3>2, <3>3 DEF ClaimedRow, JobRow
    <3>7. held'[v].job = id /\ held'[v].attempt = jobs[id].attempt + 1
      BY <2>1, <3>1
    <3> QED
      BY <3>2, <3>3, <3>4, <3>5, <3>6, <3>7 DEF OwnsAttempt
  <2>4. ASSUME held[v] # Free, NEW d, held' = [held EXCEPT ![v].deadline = d]
        PROVE  OwnsAttempt(v)'
    <3>1. held[v] \in Holding
      BY <2>1, <2>4
    <3>2. held'[v].job = held[v].job /\ held'[v].attempt = held[v].attempt
      BY <2>1, <2>4, <3>1 DEF Holding
    <3> QED
      BY <1>1, <2>2, <2>4, <3>2, HistoryKept
  <2>5. CASE Heartbeat(v)
    BY <1>2, <2>4, <2>5 DEF Heartbeat, MayCall
  <2>6. CASE FailEnd(v)
    BY <2>1, <2>2, <2>4, <2>6 DEF FailEnd, MayCall, MayRetry
  <2> QED
    BY <1>2, <1>3, <2>1, <2>2, <2>3, <2>5, <2>6 DEF WorkerStep, ClaimLost, Complete, FailBegin, GiveUp
<1>4. ASSUME NEW v \in Worker, WorkerStep(v), NEW w \in Worker \ {v}
      PROVE  held'[w] = held[w]
  BY <1>4 DEF WorkerStep, ClaimAnswered, ClaimLost, Heartbeat, Complete, FailBegin, FailEnd, GiveUp,
     PoolIInv, HeldOK
<1> QED
  BY <1>2, <1>3, <1>4 DEF PoolNext, OtherStep, poolVars

\* Neither a client nor the scheduler takes a job away under a valid lock.
LEMMA ManagedKeepsHold ==
  ASSUME NEW t \in Nat, NEW r, RowOK(r, t), NEW s, Managed(r, s, t),
         NEW a, NEW d \in Nat, t <= d, HoldsRow(r, a, d)
  PROVE  HoldsRow(s, a, d)
<1>1. r.status \in {"running", "cancelled"} /\ r.status \notin Waiting
  BY DEF HoldsRow, Waiting
<1>2. CASE s = r
  BY <1>2
<1>3. CASE r.status = "running" /\ s = CancelledRow(r)
  BY <1>3 DEF HoldsRow, CancelledRow, RowOK, JobRow
<1>4. CASE r.status = "running" /\ r.lock_expires_at # Null /\ r.lock_expires_at < t
  <2>1. r.lock_expires_at \in Int /\ r.lock_expires_at >= d
    BY <1>4 DEF HoldsRow, RowOK, JobRow
  <2> QED
    BY <1>4, <2>1
<1> QED
  BY <1>1, <1>2, <1>3, <1>4 DEF Managed, Final

\* Nor does anything that leaves the row to them.
LEMMA HoldKept ==
  ASSUME PoolIInv, ~astray, NEW w \in Worker, InTime(w)', held'[w] = held[w],
         now' \in Nat, now <= now',
         Managed(jobs[held[w].job], jobs'[held[w].job], now)
  PROVE  KeepsJob(w)'
<1>1. held[w] # Free /\ held[w].deadline # Null /\ now' <= held[w].deadline
  BY DEF InTime
<1>2. held[w].deadline \in Nat /\ now \in Nat
  BY <1>1 DEF PoolIInv, HeldOK, Holding, IInv, ControlOK
<1>3. InTime(w)
  BY <1>1, <1>2 DEF InTime
<1>4. RowOK(jobs[held[w].job], now) /\ now <= held[w].deadline
  BY <1>3, InTimeHolds
<1>5. HoldsRow(jobs[held[w].job], held[w].attempt, held[w].deadline)
  BY <1>3 DEF PoolIInv, KeepsJob
<1>6. HoldsRow(jobs'[held[w].job], held[w].attempt, held[w].deadline)
  BY <1>2, <1>4, <1>5, ManagedKeepsHold
<1> QED
  BY <1>6 DEF KeepsJob

\* A punctual call of one worker is not about the job of another.
LEMMA OthersUndisturbed ==
  ASSUME PoolIInv, ~astray', NEW v \in Worker, WorkerStep(v), NEW w \in Worker \ {v}, InTime(w)
  PROVE  jobs'[held[w].job] = jobs[held[w].job]
<1> DEFINE j == held[w].job
<1>1. j \in DOMAIN jobs /\ v \in Caller /\ held[w] # Free
  BY InTimeHolds DEF Worker
<1>2. ~astray /\ (jobs' = jobs \/ InTime(v) \/ \E q \in QueueName, id \in DOMAIN jobs : ClaimRow(v, q, id))
  BY DEF WorkerStep, ClaimAnswered, ClaimLost, ClaimJob, Heartbeat, Complete, FailBegin, FailEnd,
     FailJobRead, GiveUp, Noted, PoolIInv, HeldOK
<1>3. ASSUME NEW q \in QueueName, NEW id \in DOMAIN jobs, ClaimRow(v, q, id)
      PROVE  jobs'[j] = jobs[j]
  <2>1. jobs[j].status # "available"
    BY <1>2 DEF PoolIInv, KeepsJob, HoldsRow
  <2> QED
    BY <1>1, <1>3, <2>1, ClaimWorks DEF PoolIInv
<1>4. CASE InTime(v) /\ jobs' # jobs
  <2>1. j # held[v].job
    BY <1>2, <1>4, SoleHolder
  <2>2. CASE Heartbeat(v)
    BY <1>1, <2>1, <2>2, HeartbeatIsCall, HeartbeatWorks DEF PoolIInv
  <2>3. CASE Complete(v)
    BY <1>1, <2>1, <2>3, CompleteWorks DEF Complete, PoolIInv
  <2>4. CASE FailEnd(v)
    <3>1. calls[v].job = held[v].job
      BY <2>4 DEF PoolIInv, CallsOK, FailEnd, FailJobWrite
    <3> QED
      BY <1>1, <1>4, <2>1, <2>4, <3>1, FailWorks DEF FailEnd, PoolIInv
  <2> QED
    BY <1>1, <1>3, <1>4, <2>2, <2>3, <2>4
       DEF WorkerStep, ClaimAnswered, ClaimLost, ClaimJob, FailBegin, FailJobRead, GiveUp
<1> QED
  BY <1>1, <1>2, <1>3, <1>4

\* What a worker's own calls do to what it holds.
LEMMA OwnCallKeeps ==
  ASSUME PoolIInv, ~astray', NEW v \in Worker, WorkerStep(v)
  PROVE  KeepsJob(v)'
<1>1. v \in Caller /\ held \in [Worker -> {Free} \cup Holding] /\ ~astray /\ now' = now /\ now \in Nat
  BY DEF WorkerStep, ClaimAnswered, ClaimLost, ClaimJob, ClaimRow, JobsOnly, Heartbeat, HeartbeatAt,
     Complete, CompleteJob, FailBegin, FailJobRead, FailEnd, FailJobWrite, GiveUp, Noted,
     PoolIInv, HeldOK, IInv, ControlOK, Worker
<1>2. ASSUME held'[v] = Free \/ held'[v].deadline = Null
      PROVE  KeepsJob(v)'
  BY <1>2 DEF KeepsJob, InTime
<1>3. ASSUME UNCHANGED <<jobs, held>>
      PROVE  KeepsJob(v)'
  BY <1>1, <1>3 DEF KeepsJob, InTime, PoolIInv
<1>4. ASSUME NEW q \in QueueName, ClaimAnswered(v, q)
      PROVE  KeepsJob(v)'
  <2>1. PICK id \in DOMAIN jobs :
          /\ ClaimRow(v, q, id)
          /\ held' = [held EXCEPT ![v] = [job      |-> id,
                                          attempt  |-> jobs[id].attempt + 1,
                                          deadline |-> now + LockDuration]]
    BY <1>4 DEF ClaimAnswered
  <2>2. jobs[id] \in JobRow /\ jobs'[id] = ClaimedRow(jobs[id], v, now)
    BY <1>1, <2>1, ClaimWorks DEF PoolIInv, IInv, RowsOK, RowOK
  <2>3. jobs'[id].status = "running" /\ jobs'[id].attempt = jobs[id].attempt + 1
        /\ jobs'[id].lock_expires_at = now + LockDuration
    BY <2>2 DEF ClaimedRow, JobRow
  <2>4. held'[v].job = id /\ held'[v].attempt = jobs[id].attempt + 1
        /\ held'[v].deadline = now + LockDuration
    BY <1>1, <2>1
  <2>5. now + LockDuration >= now + LockDuration
    BY <1>1, JobTableAssumption
  <2> QED
    BY <2>3, <2>4, <2>5 DEF KeepsJob, HoldsRow
<1>5. CASE Heartbeat(v)
  <2> DEFINE id == held[v].job
  <2>1. PICK at \in StatementTimes :
          /\ held[v].deadline <= at + LockDuration
          /\ HeartbeatAt(v, id, at)
          /\ (InTime(v) /\ held' = [held EXCEPT ![v].deadline = at + LockDuration]) \/ UNCHANGED held
    BY <1>5 DEF Heartbeat
  <2>2. held[v] \in Holding /\ held[v].deadline \in Nat
    BY <1>1, <1>5 DEF Heartbeat, MayCall, Holding
  <2>3. jobs[id].status = "running" /\ jobs'[id] = HeartbeatRow(jobs[id], at) /\ jobs[id] \in JobRow
    BY <2>1 DEF HeartbeatAt, IsRunning, PoolIInv, IInv, RowsOK, RowOK
  <2>4. /\ jobs'[id].status = "running" /\ jobs'[id].attempt = jobs[id].attempt
        /\ jobs'[id].lock_expires_at = at + LockDuration
    BY <2>3 DEF HeartbeatRow, JobRow
  <2>5. CASE InTime(v)
    <3>1. jobs[id].attempt = held[v].attempt
      BY <1>1, <2>3, <2>5 DEF PoolIInv, KeepsJob, HoldsRow
    <3>2. held[v].deadline <= at + LockDuration /\ at + LockDuration \in Nat
      BY <2>1, JobTableAssumption DEF StatementTimes
    <3>3. held'[v].job = id /\ held'[v].attempt = held[v].attempt
          /\ held'[v].deadline \in {held[v].deadline, at + LockDuration}
      BY <1>1, <2>1, <2>2 DEF Holding
    <3> QED
      BY <2>2, <2>4, <3>1, <3>2, <3>3 DEF KeepsJob, HoldsRow
  <2>6. CASE ~InTime(v)
    BY <1>1, <2>1, <2>6 DEF KeepsJob, InTime
  <2> QED
    BY <2>5, <2>6
<1>6. ASSUME NEW q \in QueueName, ClaimLost(v, q)
      PROVE  KeepsJob(v)'
  BY <1>2, <1>6 DEF ClaimLost
<1>7. ASSUME FailEnd(v), held' = [held EXCEPT ![v].deadline = Null]
      PROVE  KeepsJob(v)'
  <2>1. held[v] \in Holding
    BY <1>1, <1>7 DEF FailEnd, MayCall, MayRetry
  <2> QED
    BY <1>1, <1>2, <1>7, <2>1 DEF Holding
<1>8. ASSUME held' = [held EXCEPT ![v] = Free]
      PROVE  KeepsJob(v)'
  BY <1>1, <1>2, <1>8
<1>9. CASE FailBegin(v)
  BY <1>3, <1>9 DEF FailBegin, FailJobRead
<1> QED
  BY <1>4, <1>5, <1>6, <1>7, <1>8, <1>9 DEF WorkerStep, Complete, FailEnd, GiveUp

LEMMA LocksKept ==
  ASSUME PoolIInv, [PoolNext]_poolVars, ~astray'
  PROVE  ~astray /\ \A w \in Worker : KeepsJob(w)'
<1>1. IInv /\ IInv' /\ now \in Nat /\ now' \in Nat
  BY PoolStepIsQueueStep, StepKeepsInvariant DEF PoolIInv, IInv, ControlOK
<1>2. ASSUME NEW v \in Worker, WorkerStep(v)
      PROVE  ~astray /\ \A w \in Worker : KeepsJob(w)'
  <2>1. ~astray /\ now' = now /\ \A w \in Worker \ {v} : held'[w] = held[w]
    BY <1>2 DEF WorkerStep, ClaimAnswered, ClaimLost, ClaimJob, ClaimRow, JobsOnly, Heartbeat,
       HeartbeatAt, Complete, CompleteJob, FailBegin, FailJobRead, FailEnd, FailJobWrite, GiveUp,
       Noted, PoolIInv, HeldOK
  <2>2. ASSUME NEW w \in Worker \ {v}
        PROVE  KeepsJob(w)'
    <3>1. CASE InTime(w)'
      <4>1. InTime(w)
        BY <2>1, <3>1 DEF InTime
      <4>2. jobs'[held[w].job] = jobs[held[w].job]
        BY <1>2, <4>1, OthersUndisturbed
      <4> QED
        BY <1>1, <2>1, <3>1, <4>2, HoldKept DEF Managed
    <3>2. CASE ~InTime(w)'
      BY <3>2 DEF KeepsJob
    <3> QED
      BY <3>1, <3>2
  <2> QED
    BY <1>2, <2>1, <2>2, OwnCallKeeps
<1>3. ASSUME UNCHANGED <<held, astray>>, AllManaged, now <= now'
      PROVE  ~astray /\ \A w \in Worker : KeepsJob(w)'
  <2> SUFFICES ASSUME NEW w \in Worker
               PROVE  KeepsJob(w)'
    BY <1>3
  <2>1. CASE InTime(w)'
    <3>1. held[w].job \in DOMAIN jobs
      BY <1>3, <2>1 DEF PoolIInv, OwnsAttempt, InTime
    <3> QED
      BY <1>1, <1>3, <2>1, <3>1, HoldKept DEF AllManaged
  <2>2. CASE ~InTime(w)'
    BY <2>2 DEF KeepsJob
  <2> QED
    BY <2>1, <2>2
<1>4. CASE OtherStep
  <2>1. UNCHANGED <<held, astray>>
    BY <1>4 DEF OtherStep
  <2>2. CASE Tick
    BY <1>1, <1>3, <2>1, <2>2, SameRowsManaged DEF Tick
  <2>3. ASSUME NEW c \in Client, ClientStep(c)
        PROVE  AllManaged /\ now' = now
    BY <1>1, <2>3, WorkerPoolAssumption, InsertManages, SameRowsManaged
       DEF ClientStep, CreateJobUpsert, CreateJobInsert
  <2>4. ASSUME NEW c \in Caller, AbortCall(c)
        PROVE  AllManaged /\ now' = now
    BY <2>4, SameRowsManaged DEF AbortCall
  <2>5. CASE ControlStep
    BY <1>1, <1>3, <2>1, <2>5, ControlManages
       DEF ControlStep, CancelJob, PromoteJob, JobsOnly, PauseQueue, ResumeQueue
  <2>6. CASE SchedulerStep
    BY <1>1, <1>3, <2>1, <2>6, SchedulerManages
       DEF SchedulerStep, SchedulerPromote, SchedulerExpire, SchedulerError, RunScheduler
  <2> QED
    BY <1>1, <1>3, <1>4, <2>1, <2>2, <2>3, <2>4, <2>5, <2>6 DEF OtherStep
<1>5. CASE UNCHANGED poolVars
  BY <1>1, <1>3, <1>5, SameRowsManaged DEF poolVars
<1> QED
  BY <1>2, <1>4, <1>5 DEF PoolNext

\* A completed row names the worker of its last attempt.
LEMMA ResultsKept ==
  ASSUME PoolIInv, [PoolNext]_poolVars, ~astray'
  PROVE  \A id \in DOMAIN jobs' : LastAttemptWon(jobs'[id])
<1>1. IInv /\ [Next]_vars /\ ~astray
  BY PoolStepIsQueueStep, LocksKept DEF PoolIInv
<1>2. ASSUME NEW id \in DOMAIN jobs' \ DOMAIN jobs
      PROVE  LastAttemptWon(jobs'[id])
  BY <1>1, NewRowsWait DEF NewRowsFresh, LastAttemptWon, Waiting
<1> SUFFICES ASSUME NEW id \in DOMAIN jobs, id \in DOMAIN jobs'
             PROVE  LastAttemptWon(jobs'[id])
  BY <1>2
<1> DEFINE r == jobs[id]
           s == jobs'[id]
<1>3. r \in JobRow /\ LastAttemptWon(r)
  BY <1>1 DEF PoolIInv, IInv, RowsOK, RowOK
<1>4. ASSUME s.status # "completed" \/ s = r
      PROVE  LastAttemptWon(s)
  BY <1>3, <1>4 DEF LastAttemptWon
<1>5. ASSUME Managed(r, s, now)
      PROVE  LastAttemptWon(s)
  <2>1. s = r \/ s.status # "completed"
    BY <1>3, <1>5 DEF Managed, ReleasedRow, PromotedRow, CancelledRow, ExpiredRow, FailedRow, JobRow
  <2> QED
    BY <1>4, <2>1
<1>6. ASSUME NEW v \in Worker, WorkerStep(v)
      PROVE  LastAttemptWon(s)
  <2>1. v \in Caller
    BY DEF Worker
  <2>2. ASSUME NEW q \in QueueName, NEW i, ClaimRow(v, q, i)
        PROVE  LastAttemptWon(s)
    BY <1>1, <1>3, <1>4, <2>1, <2>2, ClaimWorks DEF ClaimedRow, JobRow
  <2>3. CASE Heartbeat(v)
    <3>1. s = r \/ (r.status = "running" /\ \E at : s = HeartbeatRow(r, at))
      BY <1>1, <2>1, <2>3, HeartbeatIsCall, HeartbeatWorks
    <3>2. \A at : HeartbeatRow(r, at).status = r.status
      BY <1>3 DEF HeartbeatRow, JobRow
    <3> QED
      BY <1>4, <3>1, <3>2
  <2>4. CASE FailEnd(v)
    BY <1>1, <1>3, <1>4, <2>1, <2>4, FailWorks DEF FailEnd, FailedRow, JobRow
  <2>5. CASE Complete(v)
    <3>1. CompleteJob(v, held[v].job) /\ held[v] # Free
      BY <2>5 DEF Complete, MayCall
    <3>2. CASE id # held[v].job
      BY <1>1, <1>4, <2>1, <3>1, <3>2, CompleteWorks
    <3>3. CASE id = held[v].job
      <4>1. r.status = "running" /\ s = CompletedRow(r, v)
        BY <1>1, <2>1, <3>1, <3>3, CompleteWorks
      <4>2. s.status = "completed" /\ s.result = v /\ s.attempted_by = r.attempted_by
        BY <1>3, <4>1 DEF CompletedRow, JobRow
      <4>3. jobs' # jobs
        BY <1>4, <4>1, <4>2
      <4>4. InTime(v)
        BY <1>1, <2>5, <4>3 DEF Complete, Noted, PoolIInv, HeldOK
      <4>5. r.attempt = held[v].attempt /\ r.attempted_by[held[v].attempt] = v
        BY <1>1, <3>1, <3>3, <4>4 DEF PoolIInv, KeepsJob, HoldsRow, OwnsAttempt
      <4>6. Len(r.attempted_by) = r.attempt
        BY <1>1 DEF IInv, RowsOK, RowOK, AttemptsOK
      <4> QED
        BY <4>2, <4>5, <4>6 DEF LastAttemptWon
    <3> QED
      BY <3>2, <3>3
  <2> QED
    BY <1>4, <1>6, <2>2, <2>3, <2>4, <2>5
       DEF WorkerStep, ClaimAnswered, ClaimLost, ClaimJob, FailBegin, FailJobRead, GiveUp
<1>7. CASE OtherStep
  <2>1. ASSUME NEW c \in Client, ClientStep(c)
        PROVE  AllManaged
    BY <1>1, <2>1, WorkerPoolAssumption, InsertManages, SameRowsManaged DEF ClientStep, CreateJobUpsert
  <2> QED
    BY <1>1, <1>5, <1>7, <2>1, ControlManages, SchedulerManages, SameRowsManaged
       DEF OtherStep, AllManaged, AbortCall, Tick
<1> QED
  BY <1>4, <1>6, <1>7 DEF PoolNext, poolVars
-----------------------------------------------------------------------------
(* The theorems. *)

LEMMA PoolInvariantHolds == PoolSpec => []PoolIInv
<1>1. PoolInit => PoolIInv
  <2> SUFFICES ASSUME PoolInit PROVE PoolIInv
    OBVIOUS
  <2>1. IInv /\ DOMAIN jobs = {} /\ \A w \in Worker : held[w] = Free /\ calls[w] = Idle
    BY InitEstablishes DEF PoolInit, Init, Worker
  <2>2. HeldOK
    BY DEF PoolInit, HeldOK
  <2> QED
    BY <2>1, <2>2 DEF PoolIInv, CallsOK, OwnsAttempt, KeepsJob, InTime, Idle
<1>2. PoolIInv /\ [PoolNext]_poolVars => PoolIInv'
  <2> SUFFICES ASSUME PoolIInv, [PoolNext]_poolVars
               PROVE  PoolIInv'
    OBVIOUS
  <2>1. IInv'
    BY PoolStepIsQueueStep, StepKeepsInvariant DEF PoolIInv
  <2> QED
    BY <2>1, HeldOKKept, CallsOKKept, OwnershipKept, LocksKept, ResultsKept DEF PoolIInv
<1> QED
  BY <1>1, <1>2, PTL DEF PoolSpec

\* A worker that heartbeats in time keeps its job in the attempt it claimed,
\* for any number of workers, lock duration and order of ClaimJob,
\* HeartbeatJob and FailExpiredJobs, while no call takes effect late or twice.
THEOREM PunctualWorkerKeepsItsJob == PoolSpec => []PunctualPoolKeepsJobs
<1>1. PoolIInv => PunctualPoolKeepsJobs
  BY DEF PoolIInv, KeepsJob, HoldsRow, PunctualPoolKeepsJobs, HolderKeepsJob
<1> QED
  BY <1>1, PoolInvariantHolds, PTL

\* ClaimJob never gives a job to a second worker while the first one counts
\* on a lock it has renewed in time.
THEOREM AtMostOneHolder == PoolSpec => []OneHolder
<1>1. PoolIInv => OneHolder
  BY SoleHolder DEF OneHolder
<1> QED
  BY <1>1, PoolInvariantHolds, PTL

\* Whatever calls come late or twice, attempted_by records each attempt as
\* that of the worker whose claim began it.
THEOREM AttemptsAreOwned == PoolSpec => []AttemptBelongsToItsWorker
<1>1. PoolIInv => AttemptBelongsToItsWorker
  <2> SUFFICES ASSUME PoolIInv, NEW w \in Worker, held[w] # Free
               PROVE  LET r == jobs[held[w].job]
                      IN  /\ held[w].attempt <= r.attempt
                          /\ held[w].attempt <= Len(r.attempted_by)
                          /\ r.attempted_by[held[w].attempt] = w
    BY DEF AttemptBelongsToItsWorker
  <2>1. OwnsAttempt(w) /\ IInv
    BY DEF PoolIInv
  <2>2. Len(jobs[held[w].job].attempted_by) = jobs[held[w].job].attempt
    BY <2>1 DEF OwnsAttempt, IInv, RowsOK, RowOK, AttemptsOK
  <2> QED
    BY <2>1, <2>2 DEF OwnsAttempt
<1> QED
  BY <1>1, PoolInvariantHolds, PTL

\* CompleteJob stores the result of the attempt that began last: that of an
\* earlier worker, given up for dead by FailExpiredJobs, is never the one
\* that counts unless its call took effect late.
THEOREM ResultIsOfLastAttempt == PoolSpec => []ResultOfLastAttempt
<1>1. PoolIInv => ResultOfLastAttempt
  BY DEF PoolIInv, LastAttemptWon, ResultOfLastAttempt
<1> QED
  BY <1>1, PoolInvariantHolds, PTL
=============================================================================
