------------------------------ MODULE Registry ------------------------------
(***************************************************************************)
(* The workers and api_keys tables (internal/db/db.go), their management   *)
(* by signed-in users (internal/web/web.go, internal/auth/apikey.go), and  *)
(* the requests the keys admit to the job service: APIKeyInterceptor       *)
(* (internal/auth/middleware.go) looks the key up in one statement, then   *)
(* the handler runs its own, and the key may be deleted in between.        *)
(*                                                                         *)
(* A worker's id stands for its key: both are drawn once and never again.  *)
(***************************************************************************)
EXTENDS JobQueue

CONSTANTS Anonymous,    \* the worker id of a request with a client key: ''
          KeyId,        \* ids of client keys
          User,         \* signed-in users
          Name,         \* names of workers
          Request,      \* the requests under way
          Methods       \* bound: the methods that are called

WorkerMethods == {"claim", "complete", "fail", "heartbeat"}

ASSUME RegistryAssumption == /\ Anonymous \in Caller
                             /\ KeyId \cap Caller = {}
                             /\ Methods \subseteq WorkerMethods \cup {"create", "cancel"}

VARIABLES workers,  \* the workers table: owner, name and last_seen_at by id
          keys,     \* the api_keys table: owner by id
          request,  \* per request, what it may do and how far it is
          retired,  \* history: the ids of deleted workers and keys
          stale     \* history: the requests whose key was deleted on their way

registryVars == <<jobs, queues, paused, calls, sched, now, workers, keys, request, retired, stale>>

WorkerId == Caller \ {Anonymous}

NoRequest == [stage |-> "none"]

RegistryInit == /\ Init
                /\ workers = [w \in {} |-> Null]
                /\ keys = [k \in {} |-> Null]
                /\ request = [r \in Request |-> NoRequest]
                /\ retired = {}
                /\ stale = {}

TheQueue == <<jobs, queues, paused, calls, sched, now>>

With(table, id, row) == [i \in DOMAIN table \cup {id} |-> IF i = id THEN row ELSE table[i]]

Without(table, id) == [i \in DOMAIN table \ {id} |-> table[i]]
-----------------------------------------------------------------------------
(* Workers and keys come and go. *)

\* Handler.CreateWorker, DB.CreateWorkerKey: UNIQUE (name) refuses a name
\* that is taken.
CreateWorker(u, w, n) ==
  /\ w \notin DOMAIN workers \cup retired
  /\ \A other \in DOMAIN workers : workers[other].name # n
  /\ workers' = With(workers, w, [owner |-> u, name |-> n, seen |-> Null])
  /\ UNCHANGED <<TheQueue, keys, request, retired, stale>>

\* Handler.DeleteWorker: by its creator only.
DeleteWorker(u, w) ==
  /\ w \in DOMAIN workers
  /\ workers[w].owner = u
  /\ workers' = Without(workers, w)
  /\ retired' = retired \cup {w}
  /\ stale' = stale \cup {r \in Request : request[r].stage # "none" /\ request[r].by = w}
  /\ UNCHANGED <<TheQueue, keys, request>>

CreateAPIKey(u, k) ==
  /\ k \notin DOMAIN keys \cup retired
  /\ keys' = With(keys, k, u)
  /\ UNCHANGED <<TheQueue, workers, request, retired, stale>>

DeleteAPIKey(u, k) ==
  /\ k \in DOMAIN keys
  /\ keys[k] = u
  /\ keys' = Without(keys, k)
  /\ retired' = retired \cup {k}
  /\ stale' = stale \cup {r \in Request : request[r].stage # "none" /\ request[r].key = k}
  /\ UNCHANGED <<TheQueue, workers, request>>
-----------------------------------------------------------------------------
(* Requests. *)

\* Mutant of LookupWorkerKey: the key is trusted once it was issued.
LookupWorkerKeyIssued(w) == w \in DOMAIN workers \cup retired

LookupWorkerKey(w) == w \in DOMAIN workers

\* A key without a row ends the request; last_used_at decides nothing.
LookupAPIKey(k) == k \in DOMAIN keys

\* APIKeyInterceptor: worker keys for the worker methods, client keys for
\* every method; the handler learns the id of a worker, and of no client.
Admit(r, key, method) ==
  /\ request[r] = NoRequest
  /\ \/ key \in WorkerId /\ method \in WorkerMethods /\ LookupWorkerKey(key)
     \/ key \in KeyId /\ LookupAPIKey(key)
  /\ request' = [request EXCEPT ![r] =
        [stage |-> "admitted", key |-> key, by |-> IF key \in WorkerId THEN key ELSE Anonymous, method |-> method]]
  /\ UNCHANGED <<TheQueue, workers, keys, retired, stale>>

\* Mutant of Seen: ClaimJob leaves last_seen_at alone.
SeenNever(w) == workers

\* ClaimJob's first statement: UPDATE workers SET last_seen_at ... WHERE id.
Seen(w) == IF w \in DOMAIN workers THEN [workers EXCEPT ![w].seen = now] ELSE workers

ClaimBegins(r) ==
  /\ request[r].stage = "admitted"
  /\ request[r].method = "claim"
  /\ workers' = Seen(request[r].by)
  /\ request' = [request EXCEPT ![r].stage = "seen"]
  /\ UNCHANGED <<TheQueue, keys, retired, stale>>

\* The response is sent.
Answered(r) ==
  /\ request' = [request EXCEPT ![r] = NoRequest]
  /\ stale' = stale \ {r}
  /\ UNCHANGED <<workers, keys, retired>>

\* The handler's only or last statement.  A claim may also find no job.
Finish(r) ==
  LET c == request[r].by
      m == request[r].method
  IN  /\ request[r].stage # "none"
      /\ \/ m = "claim" /\ request[r].stage = "seen" /\ \E q \in QueueName : ClaimJob(c, q)
         \/ m = "complete" /\ \E id \in JobId : CompleteJob(c, id)
         \/ m = "heartbeat" /\ \E id \in JobId : HeartbeatJob(c, id)
         \/ m = "cancel" /\ \E id \in JobId : CancelJob(id)
         \/ m = "create" /\ request[r].stage = "half" /\ CreateJobInsert(c)
         \/ m = "fail" /\ request[r].stage = "half" /\ FailJobWrite(c)
      /\ Answered(r)

\* The first statement of a handler that has two.  (Requests of one identity
\* share its entry in calls: a bound, one half-done handler for each.)
HalfDone(r) ==
  LET c == request[r].by
      m == request[r].method
  IN  /\ request[r].stage = "admitted"
      /\ \/ m = "create" /\ \E q \in QueueName : CreateJobUpsert(c, q)
         \/ m = "fail" /\ \E id \in JobId : FailJobRead(c, id)
      /\ request' = [request EXCEPT ![r].stage = "half"]
      /\ UNCHANGED <<workers, keys, retired, stale>>

\* Nothing to claim, the wrong state, an error, a client that went away.
EndWithoutEffect(r) ==
  /\ request[r].stage # "none"
  /\ request' = [request EXCEPT ![r] = NoRequest]
  /\ stale' = stale \ {r}
  /\ calls' = IF request[r].stage = "half" THEN [calls EXCEPT ![request[r].by] = Idle] ELSE calls
  /\ UNCHANGED <<jobs, queues, paused, sched, now, workers, keys, retired>>

Rest == /\ SchedulerStep \/ Tick \/ \E q \in QueueName : PauseQueue(q) \/ ResumeQueue(q)
        /\ UNCHANGED <<workers, keys, request, retired, stale>>

RegistryNext ==
  \/ \E u \in User : \/ \E w \in WorkerId : DeleteWorker(u, w) \/ \E n \in Name : CreateWorker(u, w, n)
                     \/ \E k \in KeyId : CreateAPIKey(u, k) \/ DeleteAPIKey(u, k)
  \/ \E r \in Request : \/ \E key \in WorkerId \cup KeyId, m \in Methods : Admit(r, key, m)
                        \/ ClaimBegins(r) \/ HalfDone(r) \/ Finish(r) \/ EndWithoutEffect(r)
  \/ Rest

RegistrySpec == RegistryInit /\ [][RegistryNext]_registryVars
-----------------------------------------------------------------------------
\* Once a key is deleted, nothing happens to a job on its behalf, except by
\* requests the lookup had already let pass: its worker's jobs fall to the
\* scheduler, since nobody with this key renews their locks.
DeletedKeysStop ==
  [][\A r \in Request :
        /\ request[r].stage # "none"
        /\ request'[r] = NoRequest
        /\ jobs' # jobs
        => r \in stale \/ request[r].key \in DOMAIN workers \cup DOMAIN keys]_registryVars

\* A worker that was given a job, by whichever attempt of whichever job, is
\* not shown on the workers page as one that was never seen.
ClaimersAreSeen ==
  \A id \in DOMAIN jobs : \A i \in DOMAIN jobs[id].attempted_by :
     LET w == jobs[id].attempted_by[i]
     IN  w \in DOMAIN workers => workers[w].seen # Null
=============================================================================
