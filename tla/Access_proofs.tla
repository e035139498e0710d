---------------------------- MODULE Access_proofs ----------------------------
(***************************************************************************)
(* Proofs about Registry and Login, the two ways to be let in: for every   *)
(* set of workers, keys, users, requests and methods, and for every set of *)
(* browsers, accounts and domains and every number of sign-ins.            *)
(*                                                                         *)
(* The lookup of a key and the statements it admits are far apart; what    *)
(* holds in between is said of the request: its key is still there, or it  *)
(* is one of those the deletion overtook.  And a worker's id is in the     *)
(* table or retired before it is in any job's history, so a new worker's   *)
(* row, whose last_seen_at is NULL, is never that of a claimer.            *)
(*                                                                         *)
(* Two chains lead from a sign-in to what is shown of it: the state, from  *)
(* the cookie through the callback back to the browser that drew it, and   *)
(* the row's id, from the upsert through the callback to the session.  The *)
(* invariant follows each from end to end.                                 *)
(***************************************************************************)
EXTENDS Registry, Login, JobQueue_proofs

(* Requests and keys. *)

WorkerRow  == [owner : User, name : Name, seen : Nat \cup {Null}]
RequestRow == [stage  : {"admitted", "seen", "half"},
               key    : WorkerId \cup KeyId,
               by     : Caller,
               method : Methods]

RegistryTypes ==
  /\ DOMAIN workers \subseteq WorkerId
  /\ workers \in [DOMAIN workers -> WorkerRow]
  /\ request \in [Request -> {NoRequest} \cup RequestRow]

UnderWay(r) == request[r].stage # "none"

\* The lookup's answer still holds, or the history knows that it does not;
\* and a request speaks for the worker whose key it came with.
KeysOK ==
  \A r \in Request : UnderWay(r) =>
     /\ r \in stale \/ request[r].key \in DOMAIN workers \cup DOMAIN keys
     /\ request[r].by = IF request[r].key \in WorkerId THEN request[r].key ELSE Anonymous

\* The workers that the requests and the histories of the jobs name.
Known(w) == w # Anonymous => w \in DOMAIN workers \cup retired

Attempted(table) == UNION {{table[id].attempted_by[i] : i \in DOMAIN table[id].attempted_by} :
                             id \in DOMAIN table}

NamesOK == /\ \A r \in Request : UnderWay(r) => Known(request[r].by)
           /\ \A w \in Attempted(jobs) : Known(w)

WasSeen(w) == w \in DOMAIN workers => workers[w].seen # Null

SeenOK == /\ \A r \in Request : request[r].stage = "seen" => WasSeen(request[r].by)
          /\ \A w \in Attempted(jobs) : WasSeen(w)

RegistryIInv == IInv /\ RegistryTypes /\ KeysOK /\ NamesOK /\ SeenOK
-----------------------------------------------------------------------------
(* The steps of the registry are steps of the queue. *)

LEMMA RequestCells ==
  ASSUME RegistryTypes, NEW r \in Request
  PROVE  /\ UnderWay(r) <=> request[r] \in RequestRow
         /\ ~UnderWay(r) <=> request[r] = NoRequest
<1>1. request[r] \in {NoRequest} \cup RequestRow
  BY DEF RegistryTypes
<1>2. NoRequest.stage = "none" /\ \A q \in RequestRow : q.stage # "none"
  BY DEF NoRequest, RequestRow
<1> QED
  BY <1>1, <1>2 DEF UnderWay

LEMMA RegistryStepIsQueueStep ==
  ASSUME IInv, RegistryTypes, [RegistryNext]_registryVars
  PROVE  [Next]_vars
<1>1. CASE UNCHANGED TheQueue
  BY <1>1 DEF TheQueue, vars
<1>2. ASSUME NEW r \in Request, UnderWay(r)
      PROVE  request[r].by \in Caller
  BY <1>2, RequestCells DEF RequestRow
<1>3. ASSUME NEW r \in Request, HalfDone(r)
      PROVE  [Next]_vars
  <2>1. UnderWay(r)
    BY <1>3 DEF HalfDone, UnderWay
  <2> QED
    BY <1>2, <1>3, <2>1 DEF HalfDone, Next, CallerStep
<1>4. ASSUME NEW r \in Request, Finish(r)
      PROVE  [Next]_vars
  <2>1. UnderWay(r)
    BY <1>4 DEF Finish, UnderWay
  <2> QED
    BY <1>2, <1>4, <2>1 DEF Finish, Next, CallerStep, ControlStep
<1>5. ASSUME NEW r \in Request, EndWithoutEffect(r)
      PROVE  [Next]_vars
  <2>1. UnderWay(r) /\ UNCHANGED <<jobs, queues, paused, sched, now>>
    BY <1>5 DEF EndWithoutEffect, UnderWay
  <2>2. CASE calls' = calls
    BY <2>1, <2>2 DEF vars
  <2>3. CASE calls' # calls
    <3> DEFINE c == request[r].by
    <3>1. c \in Caller
      BY <1>2, <2>1
    <3>2. calls' = [calls EXCEPT ![c] = Idle]
      BY <1>5, <2>3 DEF EndWithoutEffect
    <3>3. calls[c] # Idle
      BY <2>3, <3>2 DEF IInv, ControlOK
    <3>4. AbortCall(c)
      BY <2>1, <3>2, <3>3 DEF AbortCall
    <3> QED
      BY <3>1, <3>4 DEF Next, CallerStep
  <2> QED
    BY <2>2, <2>3
<1>6. CASE Rest
  BY <1>6 DEF Rest, Next, ControlStep
<1> QED
  BY <1>1, <1>3, <1>4, <1>5, <1>6
     DEF RegistryNext, registryVars, TheQueue, CreateWorker, DeleteWorker, CreateAPIKey, DeleteAPIKey,
         Admit, ClaimBegins
-----------------------------------------------------------------------------
(* Who is named in the histories of the jobs. *)

\* Every step but a claim leaves the histories of the jobs as they are.
LEMMA OthersNameNobody ==
  ASSUME IInv, [Next]_vars,
         \A id \in DOMAIN jobs : jobs'[id].attempted_by = jobs[id].attempted_by
  PROVE  Attempted(jobs') = Attempted(jobs)
<1>1. \A id \in DOMAIN jobs : id \in DOMAIN jobs'
  BY RowsGrow
<1>2. \A id \in DOMAIN jobs' \ DOMAIN jobs : DOMAIN jobs'[id].attempted_by = {}
  BY NewRowsWait DEF NewRowsFresh
<1> QED
  BY <1>1, <1>2 DEF Attempted

LEMMA RestNamesNobody ==
  ASSUME RegistryIInv, [RegistryNext]_registryVars,
         \A r \in Request, q \in QueueName : Finish(r) => ~ClaimJob(request[r].by, q)
  PROVE  Attempted(jobs') = Attempted(jobs)
<1> USE DEF RegistryIInv
<1>1. [Next]_vars
  BY RegistryStepIsQueueStep
<1>2. ASSUME NEW id \in DOMAIN jobs
      PROVE  jobs[id] \in JobRow
  BY DEF IInv, RowsOK, RowOK
<1>3. ASSUME AllManaged
      PROVE  \A id \in DOMAIN jobs : jobs'[id].attempted_by = jobs[id].attempted_by
  BY <1>2, <1>3, ManagedKeepsAttempts DEF AllManaged
<1>4. ASSUME NEW r \in Request, Finish(r), NEW id \in DOMAIN jobs
      PROVE  jobs'[id].attempted_by = jobs[id].attempted_by
  <2> DEFINE c == request[r].by
  <2>1. UnderWay(r)
    BY <1>4 DEF Finish, UnderWay
  <2>2. c \in Caller
    BY <2>1, RequestCells DEF RequestRow
  <2>3. ASSUME NEW i, CompleteJob(c, i)
        PROVE  jobs'[id].attempted_by = jobs[id].attempted_by
    <3>1. jobs'[id] \in {jobs[id], CompletedRow(jobs[id], c)}
      BY <2>2, <2>3, CompleteWorks
    <3> QED
      BY <1>2, <3>1, ManagedKeepsAttempts DEF Managed
  <2>4. ASSUME NEW i, HeartbeatJob(c, i)
        PROVE  jobs'[id].attempted_by = jobs[id].attempted_by
    <3>1. jobs'[id] = jobs[id] \/ \E at : jobs'[id] = HeartbeatRow(jobs[id], at)
      BY <2>2, <2>4, HeartbeatWorks
    <3> QED
      BY <1>2, <3>1, ManagedKeepsAttempts DEF Managed
  <2>5. CASE FailJobWrite(c)
    <3>1. jobs'[id] = jobs[id] \/ \E at, delay : jobs'[id] = FailedRow(jobs[id], at, delay, "failed")
      BY <2>2, <2>5, FailWorks
    <3> QED
      BY <1>2, <3>1, ManagedKeepsAttempts
  <2>6. CASE CreateJobInsert(c)
    BY <1>3, <2>2, <2>6, InsertManages
  <2>7. ASSUME NEW i \in JobId, CancelJob(i)
        PROVE  jobs'[id].attempted_by = jobs[id].attempted_by
    BY <1>3, <2>7, ControlManages DEF ControlStep
  <2> QED
    BY <1>4, <2>3, <2>4, <2>5, <2>6, <2>7 DEF Finish
<1>5. ASSUME Rest
      PROVE  \A id \in DOMAIN jobs : jobs'[id].attempted_by = jobs[id].attempted_by
  <2>1. CASE SchedulerStep
    BY <1>3, <2>1, SchedulerManages
  <2>2. CASE UNCHANGED jobs
    BY <1>3, <2>2, SameRowsManaged
  <2> QED
    BY <1>5, <2>1, <2>2 DEF Rest, PauseQueue, ResumeQueue, Tick
<1>6. CASE UNCHANGED jobs
  BY <1>3, <1>6, SameRowsManaged
<1> QED
  BY <1>1, <1>3, <1>4, <1>5, <1>6, OthersNameNobody
     DEF RegistryNext, registryVars, TheQueue, CreateWorker, DeleteWorker, CreateAPIKey, DeleteAPIKey,
         Admit, ClaimBegins, HalfDone, CreateJobUpsert, FailJobRead, EndWithoutEffect

\* A claim names the caller.
LEMMA ClaimNamesCaller ==
  ASSUME IInv, NEW c \in Caller, NEW q, ClaimJob(c, q)
  PROVE  Attempted(jobs') \subseteq Attempted(jobs) \cup {c}
<1>1. PICK id \in DOMAIN jobs : ClaimRow(c, q, id)
  BY DEF ClaimJob
<1>2. /\ DOMAIN jobs' = DOMAIN jobs
      /\ jobs'[id] = ClaimedRow(jobs[id], c, now)
      /\ \A i \in DOMAIN jobs : i # id => jobs'[i] = jobs[i]
  BY <1>1, ClaimWorks
<1>3. jobs[id] \in JobRow
  BY DEF IInv, RowsOK, RowOK
<1>4. jobs'[id].attempted_by = Append(jobs[id].attempted_by, c) /\ jobs[id].attempted_by \in Seq(Caller)
  BY <1>2, <1>3 DEF ClaimedRow, JobRow
<1>5. \A i \in DOMAIN jobs'[id].attempted_by :
         jobs'[id].attempted_by[i] = c \/ /\ i \in DOMAIN jobs[id].attempted_by
                                          /\ jobs'[id].attempted_by[i] = jobs[id].attempted_by[i]
  BY <1>4
<1> QED
  BY <1>2, <1>5 DEF Attempted

-----------------------------------------------------------------------------
(* The parts of the invariant, step by step. *)

LEMMA RegistryTypesKept ==
  ASSUME IInv, RegistryTypes, RegistryNext
  PROVE  RegistryTypes'
<1>1. ASSUME UNCHANGED <<workers, request>> PROVE RegistryTypes'
  BY <1>1 DEF RegistryTypes
<1>2. ASSUME UNCHANGED workers, NEW r \in Request, NEW next \in {NoRequest} \cup RequestRow,
             request' = [request EXCEPT ![r] = next]
      PROVE  RegistryTypes'
  BY <1>2 DEF RegistryTypes
<1>3. ASSUME NEW r \in Request, UnderWay(r), NEW stage \in {"seen", "half"}
      PROVE  [request[r] EXCEPT !.stage = stage] \in RequestRow
  BY <1>3, RequestCells DEF RequestRow
<1>4. ASSUME NEW u \in User, NEW w \in WorkerId, NEW n \in Name, CreateWorker(u, w, n)
      PROVE  RegistryTypes'
  BY <1>4 DEF CreateWorker, With, RegistryTypes, WorkerRow
<1>5. ASSUME NEW u \in User, NEW w \in WorkerId, DeleteWorker(u, w)
      PROVE  RegistryTypes'
  BY <1>5 DEF DeleteWorker, Without, RegistryTypes
<1>6. ASSUME NEW r \in Request, NEW key \in WorkerId \cup KeyId, NEW m \in Methods, Admit(r, key, m)
      PROVE  RegistryTypes'
  <2> DEFINE next == [stage |-> "admitted", key |-> key,
                      by |-> IF key \in WorkerId THEN key ELSE Anonymous, method |-> m]
  <2>1. next \in RequestRow
    BY RegistryAssumption DEF RequestRow, WorkerId
  <2>2. request' = [request EXCEPT ![r] = next] /\ UNCHANGED workers
    BY <1>6 DEF Admit
  <2> QED
    BY <1>2, <2>1, <2>2
<1>7. ASSUME NEW r \in Request, ClaimBegins(r)
      PROVE  RegistryTypes'
  <2>1. [request[r] EXCEPT !.stage = "seen"] \in RequestRow
    BY <1>3, <1>7 DEF ClaimBegins, UnderWay
  <2>2. DOMAIN workers' = DOMAIN workers /\ workers' \in [DOMAIN workers -> WorkerRow]
    BY <1>7 DEF ClaimBegins, Seen, RegistryTypes, WorkerRow, IInv, ControlOK
  <2> QED
    BY <1>7, <2>1, <2>2 DEF ClaimBegins, RegistryTypes
<1>8. ASSUME NEW r \in Request, HalfDone(r)
      PROVE  RegistryTypes'
  <2>1. [request[r] EXCEPT !.stage = "half"] \in RequestRow
    BY <1>3, <1>8 DEF HalfDone, UnderWay
  <2> QED
    BY <1>2, <1>8, <2>1 DEF HalfDone
<1> QED
  BY <1>1, <1>2, <1>4, <1>5, <1>6, <1>7, <1>8
     DEF RegistryNext, CreateAPIKey, DeleteAPIKey, Finish, Answered, EndWithoutEffect, Rest

\* What a step may do to a request: it is admitted, goes on or ends.
LEMMA RequestStep ==
  ASSUME RegistryTypes, RegistryNext, NEW r \in Request, UnderWay(r)'
  PROVE  \/ /\ UnderWay(r)
            /\ request'[r].key = request[r].key /\ request'[r].by = request[r].by
            /\ r \in stale => r \in stale'
            /\ request'[r].stage = request[r].stage \/ ClaimBegins(r) \/ HalfDone(r)
         \/ \E key \in WorkerId \cup KeyId, m \in Methods : Admit(r, key, m)
<1>1. ASSUME request'[r] = request[r], r \in stale => r \in stale'
      PROVE  UnderWay(r) /\ request'[r].key = request[r].key /\ request'[r].by = request[r].by
             /\ request'[r].stage = request[r].stage
  BY <1>1 DEF UnderWay
<1>2. ASSUME NEW o \in Request, NEW next, request' = [request EXCEPT ![o] = next], r # o
      PROVE  request'[r] = request[r]
  BY <1>2 DEF RegistryTypes
<1>3. ASSUME NEW o \in Request, Finish(o) \/ EndWithoutEffect(o)
      PROVE  r # o /\ request'[r] = request[r] /\ (r \in stale => r \in stale')
  <2>1. request' = [request EXCEPT ![o] = NoRequest] /\ stale' = stale \ {o}
    BY <1>3 DEF Finish, Answered, EndWithoutEffect
  <2>2. r # o
    BY <2>1 DEF UnderWay, NoRequest, RegistryTypes
  <2> QED
    BY <1>2, <2>1, <2>2
<1>4. ASSUME NEW o \in Request, ClaimBegins(o) \/ HalfDone(o)
      PROVE  IF r = o
             THEN /\ UnderWay(r) /\ request'[r].key = request[r].key /\ request'[r].by = request[r].by
                  /\ r \in stale => r \in stale'
             ELSE request'[r] = request[r] /\ (r \in stale => r \in stale')
  <2>1. stale' = stale /\ UnderWay(o)
    BY <1>4 DEF ClaimBegins, HalfDone, UnderWay
  <2>2. PICK stage \in {"seen", "half"} : request' = [request EXCEPT ![o].stage = stage]
    BY <1>4 DEF ClaimBegins, HalfDone
  <2>3. request[o] \in RequestRow
    BY <2>1, RequestCells
  <2> QED
    BY <2>1, <2>2, <2>3 DEF RegistryTypes, RequestRow
<1>5. ASSUME NEW o \in Request, NEW key \in WorkerId \cup KeyId, NEW m \in Methods, Admit(o, key, m), r # o
      PROVE  request'[r] = request[r] /\ (r \in stale => r \in stale')
  BY <1>5 DEF Admit, RegistryTypes
<1>6. ASSUME request' = request, stale \subseteq stale'
      PROVE  request'[r] = request[r] /\ (r \in stale => r \in stale')
  BY <1>6
<1> QED
  BY <1>1, <1>3, <1>4, <1>5, <1>6
     DEF RegistryNext, CreateWorker, DeleteWorker, CreateAPIKey, DeleteAPIKey, Rest

\* What a step may do to the workers: they come new, are seen, and retire.
LEMMA WorkersStep ==
  ASSUME IInv, RegistryTypes, RegistryNext
  PROVE  /\ \A w : w \in DOMAIN workers \cup retired => w \in DOMAIN workers' \cup retired'
         /\ \A w \in DOMAIN workers' \ DOMAIN workers : w \in WorkerId \ retired
         /\ \A w \in DOMAIN workers' \cap DOMAIN workers :
               workers[w].seen # Null => workers'[w].seen # Null
<1>1. CASE UNCHANGED workers /\ retired \subseteq retired'
  BY <1>1
<1>2. ASSUME NEW u \in User, NEW w \in WorkerId, NEW n \in Name, CreateWorker(u, w, n)
      PROVE  /\ DOMAIN workers' = DOMAIN workers \cup {w} /\ w \notin retired /\ retired' = retired
             /\ \A o \in DOMAIN workers : workers'[o] = workers[o]
  BY <1>2 DEF CreateWorker, With
<1>3. ASSUME NEW u \in User, NEW w \in WorkerId, DeleteWorker(u, w)
      PROVE  /\ DOMAIN workers' = DOMAIN workers \ {w} /\ retired' = retired \cup {w}
             /\ \A o \in DOMAIN workers' : workers'[o] = workers[o]
  BY <1>3 DEF DeleteWorker, Without
<1>4. ASSUME NEW r \in Request, ClaimBegins(r)
      PROVE  /\ DOMAIN workers' = DOMAIN workers /\ retired' = retired
             /\ \A w \in DOMAIN workers : workers[w].seen # Null => workers'[w].seen # Null
  <2>1. now \in Nat /\ now # Null
    BY JobTableAssumption DEF IInv, ControlOK
  <2> QED
    BY <1>4, <2>1 DEF ClaimBegins, Seen, RegistryTypes, WorkerRow
<1>5. CASE \E u \in User, w \in WorkerId, n \in Name : CreateWorker(u, w, n)
  BY <1>2, <1>5
<1>6. CASE \E u \in User, w \in WorkerId : DeleteWorker(u, w)
  BY <1>3, <1>6
<1>7. CASE \E r \in Request : ClaimBegins(r)
  BY <1>4, <1>7
<1> QED
  BY <1>1, <1>5, <1>6, <1>7
     DEF RegistryNext, CreateAPIKey, DeleteAPIKey, Admit, HalfDone, Finish, Answered,
         EndWithoutEffect, Rest

LEMMA KeysKept ==
  ASSUME IInv, RegistryTypes, KeysOK, RegistryNext
  PROVE  KeysOK'
<1> SUFFICES ASSUME NEW r \in Request, UnderWay(r)'
             PROVE  /\ r \in stale' \/ request'[r].key \in DOMAIN workers' \cup DOMAIN keys'
                    /\ request'[r].by = IF request'[r].key \in WorkerId THEN request'[r].key ELSE Anonymous
  BY DEF KeysOK
<1>1. ASSUME NEW key \in WorkerId \cup KeyId, NEW m \in Methods, Admit(r, key, m)
      PROVE  /\ request'[r].key \in DOMAIN workers' \cup DOMAIN keys'
             /\ request'[r].by = IF request'[r].key \in WorkerId THEN request'[r].key ELSE Anonymous
  <2>1. /\ request' = [request EXCEPT ![r] =
             [stage |-> "admitted", key |-> key,
              by |-> IF key \in WorkerId THEN key ELSE Anonymous, method |-> m]]
        /\ key \in DOMAIN workers \cup DOMAIN keys
        /\ UNCHANGED <<workers, keys>>
    BY <1>1 DEF Admit, LookupWorkerKey, LookupAPIKey
  <2> QED
    BY <2>1 DEF RegistryTypes
<1>2. ASSUME UnderWay(r), request'[r].key = request[r].key, request'[r].by = request[r].by,
             r \in stale => r \in stale'
      PROVE  /\ r \in stale' \/ request'[r].key \in DOMAIN workers' \cup DOMAIN keys'
             /\ request'[r].by = IF request'[r].key \in WorkerId THEN request'[r].key ELSE Anonymous
  <2>1. /\ r \in stale \/ request[r].key \in DOMAIN workers \cup DOMAIN keys
        /\ request[r].by = IF request[r].key \in WorkerId THEN request[r].key ELSE Anonymous
    BY <1>2 DEF KeysOK
  <2>2. ASSUME NEW u \in User, NEW w \in WorkerId, DeleteWorker(u, w)
        PROVE  r \in stale' \/ request[r].key \in DOMAIN workers' \cup DOMAIN keys'
    <3>1. request[r].key = w => request[r].by = w
      BY <2>1
    <3> QED
      BY <1>2, <2>1, <2>2, <3>1 DEF DeleteWorker, Without, UnderWay
  <2>3. ASSUME NEW u \in User, NEW k \in KeyId, DeleteAPIKey(u, k)
        PROVE  r \in stale' \/ request[r].key \in DOMAIN workers' \cup DOMAIN keys'
    BY <1>2, <2>1, <2>3 DEF DeleteAPIKey, Without, UnderWay
  <2>4. CASE DOMAIN workers \subseteq DOMAIN workers' /\ DOMAIN keys \subseteq DOMAIN keys'
    BY <1>2, <2>1, <2>4
  <2>5. ASSUME NEW o \in Request, ClaimBegins(o)
        PROVE  DOMAIN workers' = DOMAIN workers /\ keys' = keys
    BY <2>5 DEF ClaimBegins, Seen, RegistryTypes
  <2> QED
    BY <1>2, <2>1, <2>2, <2>3, <2>4, <2>5
       DEF RegistryNext, CreateWorker, CreateAPIKey, With, Admit, HalfDone, Finish, Answered,
           EndWithoutEffect, Rest
<1> QED
  BY <1>1, <1>2, RequestStep

LEMMA StaysKnown ==
  ASSUME IInv, RegistryTypes, RegistryNext, NEW w, Known(w)
  PROVE  w # Anonymous => w \in DOMAIN workers' \cup retired'
BY WorkersStep DEF Known

\* An id that is known is not given to a new worker.
LEMMA StaysSeen ==
  ASSUME IInv, RegistryTypes, RegistryNext, NEW w, Known(w), WasSeen(w)
  PROVE  w \in DOMAIN workers' => workers'[w].seen # Null
<1> SUFFICES ASSUME w \in DOMAIN workers'
             PROVE  workers'[w].seen # Null
  OBVIOUS
<1>1. w \in DOMAIN workers
  BY WorkersStep DEF Known, WorkerId
<1> QED
  BY <1>1, WorkersStep DEF WasSeen

\* Whom a step adds to the histories: nobody, or the caller of a claim that
\* has been noted as seen.
LEMMA WhoIsNamed ==
  ASSUME RegistryIInv, RegistryNext, NEW w \in Attempted(jobs') \ Attempted(jobs)
  PROVE  \E r \in Request : UnderWay(r) /\ request[r].stage = "seen" /\ request[r].by = w
<1>1. PICK r \in Request, q \in QueueName : Finish(r) /\ ClaimJob(request[r].by, q)
  BY RestNamesNobody
<1>2. UnderWay(r)
  BY <1>1 DEF Finish, UnderWay
<1>3. request[r].by \in Caller
  BY <1>2, RequestCells DEF RegistryIInv, RequestRow
<1>4. w = request[r].by
  BY <1>1, <1>3, ClaimNamesCaller DEF RegistryIInv
<1>5. request[r].stage = "seen"
  <2> SUFFICES ASSUME request[r].stage # "seen"
               PROVE  Attempted(jobs') = Attempted(jobs)
    BY <1>4
  <2> DEFINE c == request[r].by
  <2>1. UNCHANGED <<workers, keys>> /\ [Next]_vars
    BY <1>1, RegistryStepIsQueueStep DEF Finish, Answered, RegistryIInv
  <2>2. PICK id \in DOMAIN jobs : ClaimRow(c, q, id)
    BY <1>1 DEF ClaimJob
  <2>3. jobs[id].status = "available" /\ jobs'[id] = ClaimedRow(jobs[id], c, now)
        /\ calls[c] = Idle /\ jobs[id] \in JobRow
    BY <1>3, <2>2, ClaimWorks DEF ClaimRow, RegistryIInv, IInv, RowsOK, RowOK
  <2>4. jobs'[id].attempt = jobs[id].attempt + 1 /\ jobs'[id].status = "running"
    BY <2>3 DEF ClaimedRow, JobRow
  <2>5. ASSUME NEW i, CompleteJob(c, i) \/ HeartbeatJob(c, i)
        PROVE  FALSE
    BY <1>3, <2>3, <2>4, <2>5, CompleteWorks, HeartbeatWorks DEF RegistryIInv
  <2>6. ASSUME NEW i, CancelJob(i)
        PROVE  FALSE
    <3>1. jobs'[id] \in {jobs[id], CancelledRow(jobs[id])}
      BY <2>6, OneRowOnly DEF CancelJob, IsCancellable, RegistryIInv
    <3> QED
      BY <2>3, <2>4, <3>1 DEF CancelledRow, JobRow
  <2>7. ~CreateJobInsert(c) /\ ~FailJobWrite(c)
    BY <2>3 DEF CreateJobInsert, FailJobWrite, Idle
  <2> QED
    BY <1>1, <2>5, <2>6, <2>7 DEF Finish
<1> QED
  BY <1>2, <1>4, <1>5

LEMMA NamesKept ==
  ASSUME RegistryIInv, RegistryNext
  PROVE  NamesOK'
<1> USE DEF RegistryIInv
<1>1. ASSUME NEW r \in Request, UnderWay(r)'
      PROVE  Known(request[r].by)'
  <2>1. ASSUME NEW key \in WorkerId \cup KeyId, NEW m \in Methods, Admit(r, key, m)
        PROVE  Known(request[r].by)'
    <3>1. /\ request' = [request EXCEPT ![r] =
               [stage |-> "admitted", key |-> key,
                by |-> IF key \in WorkerId THEN key ELSE Anonymous, method |-> m]]
          /\ key \in WorkerId => key \in DOMAIN workers
          /\ UNCHANGED workers
      BY <2>1, RegistryAssumption DEF Admit, LookupWorkerKey, WorkerId
    <3> QED
      BY <3>1 DEF RegistryTypes, Known
  <2>2. CASE UnderWay(r) /\ request'[r].by = request[r].by
    <3>1. Known(request[r].by)
      BY <2>2 DEF NamesOK
    <3> QED
      BY <2>2, <3>1, StaysKnown DEF Known
  <2> QED
    BY <1>1, <2>1, <2>2, RequestStep
<1>2. ASSUME NEW w \in Attempted(jobs')
      PROVE  w # Anonymous => w \in DOMAIN workers' \cup retired'
  <2>1. Known(w)
    BY WhoIsNamed DEF NamesOK
  <2> QED
    BY <2>1, StaysKnown
<1> QED
  BY <1>1, <1>2 DEF NamesOK, Known

LEMMA SeenKept ==
  ASSUME RegistryIInv, RegistryNext
  PROVE  SeenOK'
<1> USE DEF RegistryIInv
<1>1. ASSUME NEW r \in Request, request'[r].stage = "seen"
      PROVE  WasSeen(request[r].by)'
  <2>1. UnderWay(r)'
    BY <1>1 DEF UnderWay
  <2>2. ASSUME NEW key, NEW m, Admit(r, key, m)
        PROVE  FALSE
    BY <1>1, <2>2 DEF Admit, RegistryTypes
  <2>3. CASE HalfDone(r)
    BY <1>1, <2>3, RequestCells DEF HalfDone, UnderWay, RegistryTypes, RequestRow
  <2>4. CASE ClaimBegins(r)
    <3>1. request'[r].by = request[r].by /\ UnderWay(r)
      BY <2>1, <2>2, <2>4, RequestStep
    <3>2. now # Null
      BY JobTableAssumption DEF IInv, ControlOK
    <3> QED
      BY <2>4, <3>1, <3>2 DEF ClaimBegins, Seen, WasSeen, RegistryTypes, WorkerRow
  <2>5. CASE UnderWay(r) /\ request'[r].by = request[r].by /\ request[r].stage = "seen"
    <3>1. Known(request[r].by) /\ WasSeen(request[r].by)
      BY <2>5 DEF NamesOK, SeenOK
    <3> QED
      BY <2>5, <3>1, StaysSeen DEF WasSeen
  <2> QED
    BY <1>1, <2>1, <2>2, <2>3, <2>4, <2>5, RequestStep
<1>2. ASSUME NEW w \in Attempted(jobs')
      PROVE  w \in DOMAIN workers' => workers'[w].seen # Null
  <2>1. Known(w) /\ WasSeen(w)
    BY WhoIsNamed DEF NamesOK, SeenOK
  <2> QED
    BY <2>1, StaysSeen
<1> QED
  BY <1>1, <1>2 DEF SeenOK, WasSeen
-----------------------------------------------------------------------------
(* The theorems. *)

\* The inductive invariant holds in every reachable state.
THEOREM RegistryInvariantHolds == RegistrySpec => []RegistryIInv
<1>1. RegistryInit => RegistryIInv
  <2> SUFFICES ASSUME RegistryInit PROVE RegistryIInv
    OBVIOUS
  <2>1. IInv /\ DOMAIN jobs = {} /\ DOMAIN workers = {}
    BY InitEstablishes DEF RegistryInit, Init
  <2>2. RegistryTypes /\ \A r \in Request : request[r].stage = "none"
    BY <2>1 DEF RegistryInit, RegistryTypes, NoRequest
  <2> QED
    BY <2>1, <2>2 DEF RegistryIInv, KeysOK, NamesOK, SeenOK, Attempted, UnderWay
<1>2. RegistryIInv /\ [RegistryNext]_registryVars => RegistryIInv'
  <2> SUFFICES ASSUME RegistryIInv, [RegistryNext]_registryVars
               PROVE  RegistryIInv'
    OBVIOUS
  <2>1. IInv'
    BY RegistryStepIsQueueStep, StepKeepsInvariant DEF RegistryIInv
  <2>2. CASE UNCHANGED registryVars
    BY <2>1, <2>2 DEF registryVars, RegistryIInv, RegistryTypes, KeysOK, NamesOK, SeenOK, Attempted,
       UnderWay, Known, WasSeen
  <2>3. CASE RegistryNext
    BY <2>1, <2>3, RegistryTypesKept, KeysKept, NamesKept, SeenKept DEF RegistryIInv
  <2> QED
    BY <2>2, <2>3
<1> QED
  BY <1>1, <1>2, PTL DEF RegistrySpec

\* DeleteWorker and DeleteAPIKey stop a key: whatever a job gets after that
\* on its behalf comes from a request that LookupWorkerKey or LookupAPIKey
\* had let pass before.
THEOREM DeletedKeysAreDead == RegistrySpec => DeletedKeysStop
<1> DEFINE Step == \A r \in Request :
                      /\ request[r].stage # "none"
                      /\ request'[r] = NoRequest
                      /\ jobs' # jobs
                      => r \in stale \/ request[r].key \in DOMAIN workers \cup DOMAIN keys
<1>1. RegistryIInv => Step
  BY DEF RegistryIInv, KeysOK, UnderWay
<1> HIDE DEF Step
<1>2. RegistrySpec => [][Step]_registryVars
  BY <1>1, RegistryInvariantHolds, PTL DEF RegistrySpec
<1> QED
  BY <1>2 DEF DeletedKeysStop, Step

\* A worker that ClaimJob gave a job to has been seen, on the workers page
\* too, however its row and other workers' rows come and go.
THEOREM ClaimersWereSeen == RegistrySpec => []ClaimersAreSeen
<1>1. RegistryIInv => ClaimersAreSeen
  BY DEF RegistryIInv, SeenOK, WasSeen, Attempted, ClaimersAreSeen
<1> QED
  BY <1>1, RegistryInvariantHolds, PTL
-----------------------------------------------------------------------------
(* Sign-ins. *)

Info    == [id : Account \cup {Nothing}, domain : Domain \cup {Nothing}]
UserRow == [id : Code, domain : Domain \cup {Nothing}]
Begun   == [stage   : {"exchanged", "fetched", "upserted"},
            browser : Browser,
            state   : Nat,
            account : Account,
            info    : Info,
            user    : Code \cup {Nothing}]

LoginTypes ==
  /\ beganBy \in Seq(Browser)
  /\ domain \in [Account -> Domain]
  /\ users \in [DOMAIN users -> UserRow]
  /\ stateOf \in [Browser -> Nat \cup {Nothing}]
  /\ session \in [Browser -> Code \cup {Nothing}]
  /\ signedAs \in [Browser -> Account \cup {Nothing}]
  /\ callback \in [Code -> {NoCallback, Over} \cup Begun]

\* State s was drawn for browser b.
DrawnFor(log, s, b) == s \in DOMAIN log /\ log[s] = b

StatesOK ==
  /\ \A b \in Browser : stateOf[b] # Nothing => DrawnFor(beganBy, stateOf[b], b)
  /\ \A c \in Code : callback[c] \in Begun => DrawnFor(beganBy, callback[c].state, callback[c].browser)

AddressesOK ==
  /\ StoredAddressesAreAllowed
  /\ \A c \in Code : callback[c].stage = "fetched" => Admitted(callback[c].info)

\* A row's id is that of a code whose upsert is over, and of no other row.
IdsOK ==
  /\ \A a \in DOMAIN users : callback[users[a].id].stage \in {"upserted", "over"}
  /\ \A a, b \in DOMAIN users : users[a].id = users[b].id => a = b

IsRowOf(table, a, id) == a \in DOMAIN table /\ table[a].id = id

\* What the callbacks and the sessions carry is the account's, and its row's.
SessionsOK ==
  /\ \A c \in Code : /\ callback[c].stage = "fetched" => callback[c].info.id = callback[c].account
                     /\ callback[c].stage = "upserted" => IsRowOf(users, callback[c].account, callback[c].user)
  /\ \A b \in Browser : session[b] # Nothing => IsRowOf(users, signedAs[b], session[b])

LoginIInv == LoginTypes /\ StatesOK /\ AddressesOK /\ IdsOK

\* With a restriction of the domains, also what sessions show.
RestrictedIInv == LoginIInv /\ (Allowed # {} => SessionsOK)
-----------------------------------------------------------------------------
(* The cells of callback. *)

LEMMA CodeIsNat == Code \subseteq Nat /\ Nothing \notin Code
BY LoginAssumption DEF Code

LEMMA Stages ==
  ASSUME LoginTypes, NEW c \in Code
  PROVE  /\ callback[c] \in {NoCallback, Over} \cup Begun
         /\ callback[c].stage \in {"exchanged", "fetched", "upserted"} <=> callback[c] \in Begun
         /\ callback[c] = NoCallback <=> callback[c].stage = "none"
         /\ callback[c] = Over <=> callback[c].stage = "over"
<1>1. callback[c] \in {NoCallback, Over} \cup Begun
  BY DEF LoginTypes
<1> QED
  BY <1>1 DEF NoCallback, Over, Begun

\* A step of a callback that has begun: its stage, and perhaps what it read.
LEMMA NextStage ==
  ASSUME NEW call \in Begun, NEW stage \in {"fetched", "upserted"},
         NEW info \in Info, NEW user \in Code
  PROVE  /\ [call EXCEPT !.stage = stage, !.info = info] \in Begun
         /\ [call EXCEPT !.stage = stage, !.user = user] \in Begun
         /\ [call EXCEPT !.stage = stage, !.info = info].stage = stage
         /\ [call EXCEPT !.stage = stage, !.user = user].stage = stage
         /\ [call EXCEPT !.stage = stage, !.info = info].state = call.state
         /\ [call EXCEPT !.stage = stage, !.user = user].state = call.state
         /\ [call EXCEPT !.stage = stage, !.info = info].browser = call.browser
         /\ [call EXCEPT !.stage = stage, !.user = user].browser = call.browser
         /\ [call EXCEPT !.stage = stage, !.info = info].account = call.account
         /\ [call EXCEPT !.stage = stage, !.user = user].account = call.account
         /\ [call EXCEPT !.stage = stage, !.info = info].info = info
         /\ [call EXCEPT !.stage = stage, !.user = user].user = user
BY DEF Begun

\* The step of the callback of code c, as far as the others are concerned.
LEMMA OneCallback ==
  ASSUME LoginTypes, NEW c \in Code, NEW next, callback' = [callback EXCEPT ![c] = next]
  PROVE  callback'[c] = next /\ \A d \in Code \ {c} : callback'[d] = callback[d]
BY DEF LoginTypes
-----------------------------------------------------------------------------
(* What each step of a callback does to its cell, in the words of the      *)
(* invariant.                                                              *)

LEMMA BeginCallbackDoes ==
  ASSUME LoginTypes, NEW c \in Code, NEW b \in Browser, NEW s, NEW a \in Account,
         BeginCallback(c, b, s, a)
  PROVE  /\ callback[c].stage = "none"
         /\ callback'[c] \in Begun /\ callback'[c].stage = "exchanged"
         /\ callback'[c].browser = b /\ callback'[c].state = s /\ callback'[c].account = a
         /\ stateOf[b] = s /\ s \in DOMAIN beganBy
         /\ callback' = [callback EXCEPT ![c] = callback'[c]]
<1> DEFINE call == [stage |-> "exchanged", browser |-> b, state |-> s, account |-> a,
                    info |-> Blank, user |-> Nothing]
<1>1. s \in DOMAIN beganBy /\ stateOf[b] = s /\ s \in Nat
  BY DEF BeginCallback, StateMatches, LoginTypes
<1>2. callback' = [callback EXCEPT ![c] = call] /\ callback[c].stage = "none"
  BY Stages DEF BeginCallback
<1>3. call \in Begun
  BY <1>1 DEF Begun, Blank, Info
<1>4. call.stage = "exchanged" /\ call.browser = b /\ call.state = s /\ call.account = a
  OBVIOUS
<1> HIDE DEF call
<1>5. callback'[c] = call
  BY <1>2, OneCallback
<1> QED
  BY <1>1, <1>2, <1>3, <1>4, <1>5

LEMMA FetchUserInfoDoes ==
  ASSUME LoginTypes, NEW c \in Code, FetchUserInfo(c)
  PROVE  /\ callback[c] \in Begun /\ callback[c].stage = "exchanged"
         /\ callback' = [callback EXCEPT ![c] = callback'[c]]
         /\ \/ callback'[c] = Over
            \/ /\ callback'[c] \in Begun /\ callback'[c].stage = "fetched"
               /\ callback'[c].browser = callback[c].browser
               /\ callback'[c].state = callback[c].state
               /\ callback'[c].account = callback[c].account
               /\ Admitted(callback'[c].info)
               /\ callback'[c].info \in UserInfos(callback[c].account)
<1>1. callback[c] \in Begun /\ callback[c].stage = "exchanged"
  BY Stages DEF FetchUserInfo
<1>2. PICK info \in UserInfos(callback[c].account) :
        callback' = [callback EXCEPT ![c] =
           IF Admitted(info) THEN [callback[c] EXCEPT !.stage = "fetched", !.info = info] ELSE Over]
  BY DEF FetchUserInfo
<1>3. info \in Info
  BY <1>1 DEF UserInfos, Blank, Info, LoginTypes, Begun
<1>4. callback'[c] = IF Admitted(info) THEN [callback[c] EXCEPT !.stage = "fetched", !.info = info]
                                       ELSE Over
  BY <1>2, OneCallback
<1>5. CASE Admitted(info)
  <2> DEFINE next == [callback[c] EXCEPT !.stage = "fetched", !.info = info]
  <2>1. /\ next \in Begun /\ next.stage = "fetched" /\ next.browser = callback[c].browser
        /\ next.state = callback[c].state /\ next.account = callback[c].account /\ next.info = info
    BY <1>1, <1>3 DEF Begun
  <2>2. callback'[c] = next
    BY <1>4, <1>5
  <2> QED
    BY <1>1, <1>2, <1>4, <1>5, <2>1, <2>2
<1>6. CASE ~Admitted(info)
  BY <1>1, <1>2, <1>4, <1>6
<1> QED
  BY <1>5, <1>6

LEMMA UpsertUserDoes ==
  ASSUME LoginTypes, NEW c \in Code, UpsertUser(c)
  PROVE  LET a  == callback[c].info.id
             id == RowId(a, c)
         IN  /\ callback[c] \in Begun /\ callback[c].stage = "fetched"
             /\ callback' = [callback EXCEPT ![c] = callback'[c]]
             /\ callback'[c] \in Begun /\ callback'[c].stage = "upserted"
             /\ callback'[c].browser = callback[c].browser
             /\ callback'[c].state = callback[c].state
             /\ callback'[c].account = callback[c].account
             /\ callback'[c].user = id /\ id \in Code
             /\ users' \in [DOMAIN users \cup {a} -> UserRow]
             /\ users'[a].id = id /\ users'[a].domain = callback[c].info.domain
             /\ \A o \in DOMAIN users \ {a} : users'[o] = users[o]
<1> DEFINE a    == callback[c].info.id
           id   == RowId(a, c)
           row  == [id |-> id, domain |-> callback[c].info.domain]
           next == [callback[c] EXCEPT !.stage = "upserted", !.user = id]
<1>1. callback[c] \in Begun /\ callback[c].stage = "fetched"
  BY Stages DEF UpsertUser
<1>2. id \in Code
  BY DEF RowId, LoginTypes, UserRow
<1>3. row \in UserRow /\ row.id = id /\ row.domain = callback[c].info.domain
  BY <1>1, <1>2 DEF Begun, Info, UserRow
<1>4. /\ users' = [o \in DOMAIN users \cup {a} |-> IF o = a THEN row ELSE users[o]]
      /\ callback' = [callback EXCEPT ![c] = next]
  BY DEF UpsertUser
<1> HIDE DEF row
<1>5. /\ users' \in [DOMAIN users \cup {a} -> UserRow]
      /\ users'[a] = row /\ \A o \in DOMAIN users \ {a} : users'[o] = users[o]
  BY <1>3, <1>4 DEF LoginTypes
<1> HIDE DEF id
<1>6. /\ next \in Begun /\ next.stage = "upserted" /\ next.browser = callback[c].browser
      /\ next.state = callback[c].state /\ next.account = callback[c].account /\ next.user = id
  BY <1>1, <1>2 DEF Begun
<1>7. callback'[c] = next
  BY <1>4, OneCallback
<1> QED
  BY <1>1, <1>2, <1>3, <1>4, <1>5, <1>6, <1>7 DEF id

-----------------------------------------------------------------------------
(* The parts of the invariant, step by step. *)

\* What may happen to the callback of a code.
LEMMA CellStep ==
  ASSUME LoginTypes, LoginNext, NEW c \in Code
  PROVE  \/ callback'[c] = callback[c]
         \/ \E b \in Browser, s \in 1 .. MaxStates, a \in Account : BeginCallback(c, b, s, a)
         \/ FetchUserInfo(c)
         \/ UpsertUser(c)
         \/ (SetSession(c) \/ DropCallback(c)) /\ callback'[c] = Over
<1>1. ASSUME NEW d \in Code \ {c}, NEW next, callback' = [callback EXCEPT ![d] = next]
      PROVE  callback'[c] = callback[c]
  BY <1>1, OneCallback
<1>2. ASSUME SetSession(c) \/ DropCallback(c)
      PROVE  callback'[c] = Over
  BY <1>2, OneCallback DEF SetSession, DropCallback
<1>3. ASSUME NEW d \in Code \ {c}, FetchUserInfo(d)
      PROVE  callback'[c] = callback[c]
  BY <1>1, <1>3, FetchUserInfoDoes
<1>4. ASSUME NEW d \in Code \ {c},
             \/ \E b \in Browser, s \in 1 .. MaxStates, a \in Account : BeginCallback(d, b, s, a)
             \/ UpsertUser(d) \/ SetSession(d) \/ DropCallback(d)
      PROVE  callback'[c] = callback[c]
  BY <1>1, <1>4 DEF BeginCallback, UpsertUser, SetSession, DropCallback
<1>5. ASSUME NEW b \in Browser, BeginLogin(b) \/ EndSession(b) \/ ExpireState(b)
      PROVE  callback'[c] = callback[c]
  BY <1>5 DEF BeginLogin, EndSession, ExpireState
<1>6. ASSUME NEW a \in Account, NEW d \in Domain, ChangeAddress(a, d)
      PROVE  callback'[c] = callback[c]
  BY <1>6 DEF ChangeAddress
<1> QED
  BY <1>2, <1>3, <1>4, <1>5, <1>6 DEF LoginNext

LEMMA TypesKept ==
  ASSUME LoginTypes, LoginNext
  PROVE  LoginTypes'
<1> USE DEF LoginTypes
<1>1. ASSUME NEW c \in Code, NEW next \in {NoCallback, Over} \cup Begun,
             callback' = [callback EXCEPT ![c] = next]
      PROVE  callback' \in [Code -> {NoCallback, Over} \cup Begun]
  BY <1>1
<1>2. ASSUME NEW b \in Browser, BeginLogin(b)
      PROVE  LoginTypes'
  <2>1. Append(beganBy, b) \in Seq(Browser) /\ Len(beganBy) + 1 \in Nat
    OBVIOUS
  <2> QED
    BY <1>2, <2>1 DEF BeginLogin
<1>3. ASSUME NEW b \in Browser, EndSession(b) \/ ExpireState(b)
      PROVE  LoginTypes'
  BY <1>3 DEF EndSession, ExpireState
<1>4. ASSUME NEW a \in Account, NEW d \in Domain, ChangeAddress(a, d)
      PROVE  LoginTypes'
  BY <1>4 DEF ChangeAddress, Cookies
<1>5. ASSUME NEW c \in Code, NEW b \in Browser, NEW s, NEW a \in Account, BeginCallback(c, b, s, a)
      PROVE  LoginTypes'
  BY <1>1, <1>5, BeginCallbackDoes DEF BeginCallback, Cookies
<1>6. ASSUME NEW c \in Code, FetchUserInfo(c)
      PROVE  LoginTypes'
  <2>1. callback'[c] \in {NoCallback, Over} \cup Begun
        /\ callback' = [callback EXCEPT ![c] = callback'[c]]
    BY <1>6, FetchUserInfoDoes
  <2>2. callback' \in [Code -> {NoCallback, Over} \cup Begun]
    BY <1>1, <2>1
  <2> QED
    BY <1>6, <2>2 DEF FetchUserInfo, Cookies
<1>7. ASSUME NEW c \in Code, UpsertUser(c)
      PROVE  LoginTypes'
  BY <1>1, <1>7, UpsertUserDoes DEF UpsertUser, Cookies
<1>8. ASSUME NEW c \in Code, SetSession(c)
      PROVE  LoginTypes'
  <2>1. callback[c] \in Begun
    BY <1>8, Stages DEF SetSession
  <2>2. callback[c].user \in Code \cup {Nothing} /\ callback[c].account \in Account
    BY <2>1 DEF Begun
  <2> QED
    BY <1>1, <1>8, <2>2 DEF SetSession
<1>9. ASSUME NEW c \in Code, DropCallback(c)
      PROVE  LoginTypes'
  BY <1>1, <1>9 DEF DropCallback, Cookies
<1> QED
  BY <1>2, <1>3, <1>4, <1>5, <1>6, <1>7, <1>8, <1>9 DEF LoginNext

\* The state leads back to the browser it was drawn for.
LEMMA StatesKept ==
  ASSUME LoginTypes, StatesOK, LoginNext
  PROVE  StatesOK'
<1>1. ASSUME NEW s \in Nat, NEW b, DrawnFor(beganBy, s, b)
      PROVE  DrawnFor(beganBy', s, b)
  <2>1. beganBy' = beganBy \/ \E o \in Browser : beganBy' = Append(beganBy, o)
    BY DEF LoginNext, BeginLogin, EndSession, ExpireState, BeginCallback, FetchUserInfo, UpsertUser,
       SetSession, DropCallback, ChangeAddress
  <2>2. ASSUME NEW o \in Browser, beganBy' = Append(beganBy, o)
        PROVE  DrawnFor(beganBy', s, b)
    <3>1. s \in 1..Len(beganBy) /\ beganBy \in Seq(Browser)
      BY <1>1 DEF DrawnFor, LoginTypes
    <3> QED
      BY <1>1, <2>2, <3>1 DEF DrawnFor
  <2> QED
    BY <1>1, <2>1, <2>2
<1>2. ASSUME NEW b \in Browser, stateOf'[b] # Nothing
      PROVE  DrawnFor(beganBy', stateOf'[b], b)
  <2>1. CASE stateOf'[b] = stateOf[b]
    <3>1. stateOf[b] \in Nat
      BY <1>2, <2>1 DEF LoginTypes
    <3> QED
      BY <1>1, <1>2, <2>1, <3>1 DEF StatesOK
  <2>2. CASE stateOf'[b] # stateOf[b]
    <3>1. beganBy' = Append(beganBy, b) /\ stateOf'[b] = Len(beganBy) + 1
      BY <1>2, <2>2 DEF LoginTypes, LoginNext, BeginLogin, EndSession, ExpireState, BeginCallback,
         FetchUserInfo, UpsertUser, SetSession, DropCallback, ChangeAddress, Cookies
    <3>2. /\ Len(beganBy) + 1 \in DOMAIN Append(beganBy, b)
          /\ Append(beganBy, b)[Len(beganBy) + 1] = b
      BY DEF LoginTypes
    <3> QED
      BY <3>1, <3>2 DEF DrawnFor
  <2> QED
    BY <2>1, <2>2
<1>3. ASSUME NEW c \in Code, callback'[c] \in Begun
      PROVE  DrawnFor(beganBy', callback'[c].state, callback'[c].browser)
  <2>1. CASE callback[c] \in Begun /\ callback'[c].state = callback[c].state
             /\ callback'[c].browser = callback[c].browser
    <3>1. callback[c].state \in Nat /\ DrawnFor(beganBy, callback[c].state, callback[c].browser)
      BY <2>1 DEF Begun, StatesOK
    <3> QED
      BY <1>1, <2>1, <3>1
  <2>2. ASSUME NEW b \in Browser, NEW s, NEW a \in Account, BeginCallback(c, b, s, a)
        PROVE  DrawnFor(beganBy', callback'[c].state, callback'[c].browser)
    <3>1. /\ callback'[c].browser = b /\ callback'[c].state = s
          /\ stateOf[b] = s /\ s \in DOMAIN beganBy
      BY <2>2, BeginCallbackDoes
    <3>2. s \in Nat /\ s # Nothing
      BY <3>1, LoginAssumption DEF LoginTypes
    <3>3. DrawnFor(beganBy, s, b)
      BY <3>1, <3>2 DEF StatesOK
    <3> QED
      BY <1>1, <3>1, <3>2, <3>3
  <2>3. CASE FetchUserInfo(c)
    BY <1>3, <2>1, <2>3, FetchUserInfoDoes DEF Over, Begun
  <2>4. CASE UpsertUser(c)
    BY <2>1, <2>4, UpsertUserDoes
  <2>5. CASE callback'[c] = Over
    BY <1>3, <2>5 DEF Over, Begun
  <2>6. CASE callback'[c] = callback[c]
    BY <1>3, <2>1, <2>6
  <2> QED
    BY <2>2, <2>3, <2>4, <2>5, <2>6, CellStep
<1> QED
  BY <1>2, <1>3 DEF StatesOK

\* The address that is tested is the one that is stored.
LEMMA AddressesKept ==
  ASSUME LoginTypes, AddressesOK, LoginNext
  PROVE  AddressesOK'
<1>1. ASSUME NEW a \in DOMAIN users'
      PROVE  EmailAllowed(users'[a].domain)
  <2>1. CASE a \in DOMAIN users /\ users'[a] = users[a]
    BY <2>1 DEF AddressesOK, StoredAddressesAreAllowed
  <2>2. ASSUME NEW c \in Code, UpsertUser(c), ~(a \in DOMAIN users /\ users'[a] = users[a])
        PROVE  EmailAllowed(users'[a].domain)
    <3> DEFINE o == callback[c].info.id
    <3>1. /\ callback[c].stage = "fetched"
          /\ users' \in [DOMAIN users \cup {o} -> UserRow]
          /\ users'[o].domain = callback[c].info.domain
          /\ \A i \in DOMAIN users \ {o} : users'[i] = users[i]
      BY <2>2, UpsertUserDoes
    <3>2. a = o
      BY <2>2, <3>1
    <3> QED
      BY <3>1, <3>2 DEF AddressesOK, Admitted
  <2>3. CASE users' = users
    BY <2>1, <2>3
  <2> QED
    BY <2>1, <2>2, <2>3 DEF LoginNext, BeginLogin, EndSession, ExpireState, BeginCallback,
       FetchUserInfo, SetSession, DropCallback, ChangeAddress, Cookies
<1>2. ASSUME NEW c \in Code, callback'[c].stage = "fetched"
      PROVE  Admitted(callback'[c].info)
  <2>1. CASE callback'[c] = callback[c]
    BY <1>2, <2>1 DEF AddressesOK
  <2>2. CASE FetchUserInfo(c)
    BY <1>2, <2>2, FetchUserInfoDoes DEF Over
  <2>3. callback'[c] # Over
    BY <1>2 DEF Over
  <2> QED
    BY <1>2, <2>1, <2>2, <2>3, CellStep, BeginCallbackDoes, UpsertUserDoes
<1> QED
  BY <1>1, <1>2 DEF AddressesOK, StoredAddressesAreAllowed

\* An upsert keeps the ids of the rows that are there, and gives a new row
\* the id that its own code drew.
LEMMA IdsStay ==
  ASSUME LoginTypes, LoginNext
  PROVE  /\ \A a \in DOMAIN users : a \in DOMAIN users' /\ users'[a].id = users[a].id
         /\ \A a \in DOMAIN users' \ DOMAIN users :
               \E c \in Code : UpsertUser(c) /\ a = callback[c].info.id /\ users'[a].id = c
<1>1. ASSUME NEW c \in Code, UpsertUser(c)
      PROVE  /\ \A a \in DOMAIN users : a \in DOMAIN users' /\ users'[a].id = users[a].id
             /\ \A a \in DOMAIN users' \ DOMAIN users :
                   a = callback[c].info.id /\ users'[a].id = c
  <2> DEFINE a == callback[c].info.id
  <2>1. /\ users' \in [DOMAIN users \cup {a} -> UserRow]
        /\ users'[a].id = RowId(a, c)
        /\ \A o \in DOMAIN users \ {a} : users'[o] = users[o]
    BY <1>1, UpsertUserDoes
  <2>2. a \in DOMAIN users => RowId(a, c) = users[a].id
    BY DEF RowId
  <2>3. a \notin DOMAIN users => RowId(a, c) = c
    BY DEF RowId
  <2> HIDE DEF a
  <2> QED
    BY <2>1, <2>2, <2>3 DEF a
<1>2. CASE users' = users
  BY <1>2
<1> QED
  BY <1>1, <1>2 DEF LoginNext, BeginLogin, EndSession, ExpireState, BeginCallback, FetchUserInfo,
     SetSession, DropCallback, ChangeAddress, Cookies

\* Codes are never used again, so no two rows get the same id.
LEMMA IdsKept ==
  ASSUME LoginTypes, IdsOK, LoginNext
  PROVE  IdsOK'
<1>1. ASSUME NEW c \in Code, callback[c].stage \in {"upserted", "over"} \/ UpsertUser(c)
      PROVE  callback'[c].stage \in {"upserted", "over"}
  <2>1. CASE UpsertUser(c)
    BY <2>1, UpsertUserDoes
  <2>2. CASE callback[c].stage \in {"upserted", "over"}
    <3>1. callback[c].stage \notin {"none", "exchanged", "fetched"} /\ Over.stage = "over"
      BY <2>2 DEF Over
    <3>2. ~FetchUserInfo(c) /\ ~UpsertUser(c)
      BY <3>1, FetchUserInfoDoes, UpsertUserDoes
    <3>3. \A b \in Browser, s \in 1 .. MaxStates, a \in Account : ~BeginCallback(c, b, s, a)
      BY <3>1, BeginCallbackDoes
    <3> QED
      BY <2>2, <3>1, <3>2, <3>3, CellStep
  <2> QED
    BY <1>1, <2>1, <2>2
<1>2. \A a \in DOMAIN users : users[a].id \in Code
  BY DEF LoginTypes, UserRow
<1>3. ASSUME NEW a \in DOMAIN users'
      PROVE  callback'[users'[a].id].stage \in {"upserted", "over"}
  BY <1>1, <1>2, <1>3, IdsStay DEF IdsOK
<1>4. ASSUME NEW a \in DOMAIN users' \ DOMAIN users, NEW b \in DOMAIN users
      PROVE  users'[a].id # users'[b].id
  <2>1. PICK c \in Code : UpsertUser(c) /\ users'[a].id = c
    BY IdsStay
  <2>2. callback[c].stage = "fetched"
    BY <2>1, UpsertUserDoes
  <2>3. callback[users[b].id].stage # "fetched"
    BY DEF IdsOK
  <2> QED
    BY <2>1, <2>2, <2>3, IdsStay
<1>5. ASSUME NEW a \in DOMAIN users' \ DOMAIN users, NEW b \in DOMAIN users' \ DOMAIN users,
             users'[a].id = users'[b].id
      PROVE  a = b
  BY <1>5, IdsStay
<1>6. ASSUME NEW a \in DOMAIN users', NEW b \in DOMAIN users', users'[a].id = users'[b].id
      PROVE  a = b
  <2>1. CASE a \in DOMAIN users /\ b \in DOMAIN users
    BY <1>6, <2>1, IdsStay DEF IdsOK
  <2> QED
    BY <1>4, <1>5, <1>6, <2>1
<1> QED
  BY <1>3, <1>6 DEF IdsOK

\* With a restriction, the blank answer is refused, so what is upserted is
\* the account's row, and its id is what the session gets.
LEMMA SessionsKept ==
  ASSUME LoginTypes, SessionsOK, LoginNext, Allowed # {}
  PROVE  SessionsOK'
<1>1. ASSUME NEW a, NEW id, IsRowOf(users, a, id)
      PROVE  IsRowOf(users', a, id)
  BY <1>1, IdsStay DEF IsRowOf
<1>2. ASSUME NEW c \in Code, callback'[c].stage = "fetched"
      PROVE  callback'[c].info.id = callback'[c].account
  <2>1. CASE callback'[c] = callback[c]
    BY <1>2, <2>1 DEF SessionsOK
  <2>2. CASE FetchUserInfo(c)
    <3>1. /\ callback'[c].account = callback[c].account
          /\ Admitted(callback'[c].info)
          /\ callback'[c].info \in UserInfos(callback[c].account)
      BY <1>2, <2>2, FetchUserInfoDoes DEF Over
    <3>2. callback'[c].info # Blank
      BY <3>1, LoginAssumption DEF Admitted, EmailAllowed, Blank
    <3> QED
      BY <3>1, <3>2 DEF UserInfos
  <2>3. callback'[c] # Over
    BY <1>2 DEF Over
  <2> QED
    BY <1>2, <2>1, <2>2, <2>3, CellStep, BeginCallbackDoes, UpsertUserDoes
<1>3. ASSUME NEW c \in Code, callback'[c].stage = "upserted"
      PROVE  IsRowOf(users', callback'[c].account, callback'[c].user)
  <2>1. CASE callback'[c] = callback[c]
    BY <1>1, <1>3, <2>1 DEF SessionsOK, IsRowOf
  <2>2. CASE UpsertUser(c)
    <3> DEFINE a == callback[c].info.id
    <3>1. /\ callback[c].stage = "fetched"
          /\ callback'[c].account = callback[c].account
          /\ callback'[c].user = RowId(a, c)
          /\ users' \in [DOMAIN users \cup {a} -> UserRow]
          /\ users'[a].id = RowId(a, c)
      BY <2>2, UpsertUserDoes
    <3>2. a = callback[c].account
      BY <3>1 DEF SessionsOK
    <3> QED
      BY <3>1, <3>2 DEF IsRowOf
  <2>3. callback'[c] # Over
    BY <1>3 DEF Over
  <2> QED
    BY <1>3, <2>1, <2>2, <2>3, CellStep, BeginCallbackDoes, FetchUserInfoDoes
<1>4. ASSUME NEW b \in Browser, session'[b] # Nothing
      PROVE  IsRowOf(users', signedAs'[b], session'[b])
  <2>1. CASE session'[b] = session[b] /\ signedAs'[b] = signedAs[b]
    BY <1>1, <1>4, <2>1 DEF SessionsOK, IsRowOf
  <2>2. ASSUME NEW c \in Code, SetSession(c)
        PROVE  IsRowOf(users', signedAs'[b], session'[b])
    <3>1. /\ callback[c].stage = "upserted" /\ users' = users
          /\ session' = [session EXCEPT ![callback[c].browser] = callback[c].user]
          /\ signedAs' = [signedAs EXCEPT ![callback[c].browser] = callback[c].account]
      BY <2>2 DEF SetSession
    <3>2. IsRowOf(users, callback[c].account, callback[c].user)
      BY <3>1 DEF SessionsOK
    <3>3. CASE b = callback[c].browser
      BY <3>1, <3>2, <3>3 DEF LoginTypes, IsRowOf
    <3>4. CASE b # callback[c].browser
      BY <2>1, <3>1, <3>4 DEF LoginTypes
    <3> QED
      BY <3>3, <3>4
  <2>3. ASSUME NEW o \in Browser, EndSession(o)
        PROVE  IsRowOf(users', signedAs'[b], session'[b])
    BY <1>4, <2>1, <2>3 DEF EndSession, LoginTypes
  <2> QED
    BY <2>1, <2>2, <2>3 DEF LoginNext, BeginLogin, ExpireState, BeginCallback, FetchUserInfo,
       UpsertUser, DropCallback, ChangeAddress, Cookies
<1> QED
  BY <1>2, <1>3, <1>4 DEF SessionsOK
-----------------------------------------------------------------------------
(* The theorems. *)

LEMMA LoginInitEstablishes ==
  ASSUME LoginInit
  PROVE  RestrictedIInv
<1>1. LoginTypes
  BY DEF LoginInit, LoginTypes
<1>2. \A c \in Code : callback[c].stage = "none" /\ callback[c] \notin Begun
  BY DEF LoginInit, NoCallback, Begun
<1>3. DOMAIN users = {} /\ \A b \in Browser : stateOf[b] = Nothing /\ session[b] = Nothing
  BY DEF LoginInit
<1> QED
  BY <1>1, <1>2, <1>3 DEF RestrictedIInv, LoginIInv, StatesOK, AddressesOK, IdsOK, SessionsOK,
     StoredAddressesAreAllowed

\* The inductive invariant holds in every reachable state.
THEOREM LoginInvariantHolds == LoginSpec => []RestrictedIInv
<1>1. RestrictedIInv /\ [LoginNext]_loginVars => RestrictedIInv'
  <2>1. CASE UNCHANGED loginVars
    BY <2>1 DEF loginVars, RestrictedIInv, LoginIInv, LoginTypes, StatesOK, AddressesOK, IdsOK,
       SessionsOK, StoredAddressesAreAllowed, DrawnFor, IsRowOf
  <2>2. ASSUME RestrictedIInv, LoginNext
        PROVE  RestrictedIInv'
    BY <2>2, TypesKept, StatesKept, AddressesKept, IdsKept, SessionsKept
       DEF RestrictedIInv, LoginIInv
  <2> QED
    BY <2>1, <2>2
<1> QED
  BY <1>1, LoginInitEstablishes, PTL DEF LoginSpec

\* OAuthHandler.Callback signs a browser in only by a sign-in that began in
\* it, for every number of browsers, states and codes under way.
THEOREM CallbacksStayHome == LoginSpec => []CallbackReturnsToItsBrowser
<1>1. RestrictedIInv => CallbackReturnsToItsBrowser
  <2> SUFFICES ASSUME RestrictedIInv, NEW c \in Code,
                      callback[c].stage \in {"exchanged", "fetched", "upserted"}
               PROVE  callback[c].browser = beganBy[callback[c].state]
    BY DEF CallbackReturnsToItsBrowser
  <2>1. callback[c] \in Begun
    BY Stages DEF RestrictedIInv, LoginIInv
  <2> QED
    BY <2>1 DEF RestrictedIInv, LoginIInv, StatesOK, DrawnFor
<1> QED
  BY <1>1, LoginInvariantHolds, PTL

\* The users table holds no address at a domain that ALLOWED_DOMAINS refuses,
\* whenever accounts change their addresses.
THEOREM AddressesAllowed == LoginSpec => []StoredAddressesAreAllowed
<1>1. RestrictedIInv => StoredAddressesAreAllowed
  BY DEF RestrictedIInv, LoginIInv, AddressesOK
<1> QED
  BY <1>1, LoginInvariantHolds, PTL

\* With ALLOWED_DOMAINS set, the row that a session's id leads to is the one
\* of the account its browser signed in with, and the only one.
THEOREM SessionsShowTheirAccounts ==
  ASSUME Allowed # {}
  PROVE  LoginSpec => []SessionShowsItsAccount
<1>1. RestrictedIInv => SessionShowsItsAccount
  <2> SUFFICES ASSUME RestrictedIInv, NEW b \in Browser, session[b] # Nothing
               PROVE  CurrentUser(b) = {signedAs[b]}
    BY DEF SessionShowsItsAccount
  <2>1. IsRowOf(users, signedAs[b], session[b])
    BY DEF RestrictedIInv, SessionsOK
  <2>2. \A a \in DOMAIN users : users[a].id = users[signedAs[b]].id => a = signedAs[b]
    BY <2>1 DEF RestrictedIInv, LoginIInv, IdsOK, IsRowOf
  <2> QED
    BY <2>1, <2>2 DEF CurrentUser, IsRowOf
<1> QED
  BY <1>1, LoginInvariantHolds, PTL
=============================================================================
