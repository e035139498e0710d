------------------------------ MODULE MCReaders ------------------------------
(***************************************************************************)
(* Instances of JobPages, JobViews and QueueReads for TLC: what is read of *)
(* the queue while it goes on.  Readers change nothing that others see, so *)
(* one kind of reader at a time shows all that can happen to it; each kind *)
(* gets the smallest queue in which it can go wrong.                       *)
(***************************************************************************)
EXTENDS JobPages, JobViews, QueueReads

VARIABLE kind  \* the kind of reader, chosen once

readersVars == <<jobs, queues, paused, calls, sched, now, walk, steady, state, job, read, kind>>

MCPlain == {NoBackoffOptions}

\* All jobs, and those that wait: a filter jobs enter and leave.
MCFilters == [queue : {Any}, status : {Any, "available"}]

AQueue == CHOOSE q \in QueueName : TRUE

\* Bounds: the ids, the queues, the statuses and the attempts of jobs, the
\* readers, the end of time, and whether queues are paused and the scheduler's
\* loop runs.  A walk of several pages needs three jobs that enter and leave
\* the filter; a poller a job that fails twice, once by the scheduler; a
\* listing two queues; the wait for a connection two readers.
Bound(ids, names, statuses, limit, readers, time, control) ==
  [ids |-> ids, names |-> names, statuses |-> statuses, limit |-> limit,
   readers |-> readers, time |-> time, control |-> control]

Moving == {"pending", "available", "running"}

Bounds == [walks   |-> Bound({1, 2, 3}, {AQueue},  Moving, 1, 0, 0, FALSE),
           polls   |-> Bound({1},       {AQueue},  Status, 2, 0, 2, TRUE),
           counts  |-> Bound({1, 2},    QueueName, Moving, 1, 1, 0, FALSE),
           waiting |-> Bound({1},       {AQueue},  Moving, 1, 2, 0, TRUE)]

Within(b) == /\ DOMAIN jobs' \subseteq b.ids
             /\ queues' \subseteq b.names
             /\ \A id \in DOMAIN jobs' : jobs'[id].max_attempts = b.limit /\ jobs'[id].status \in b.statuses
             /\ now' <= b.time
             /\ b.control \/ UNCHANGED <<paused, sched>>
             /\ Cardinality({r \in Reader : read'[r] # NoRead}) <= b.readers

MCInit == PagesInit /\ ViewsInit /\ ReadsInit /\ kind \in DOMAIN Bounds

MCNext == /\ \/ kind = "walks" /\ PagesNext /\ UNCHANGED <<state, job, read>>
             \/ kind = "polls" /\ ViewsNext /\ UNCHANGED <<walk, steady, read>>
             \/ kind \in {"counts", "waiting"} /\ ReadsNext /\ UNCHANGED <<walk, steady, state, job>>
          /\ Within(Bounds[kind])
          /\ UNCHANGED kind

\* The fairness of ReadsFairSpec.
MCSpec == /\ MCInit /\ [][MCNext]_readersVars
          /\ \A r \in Reader : SF_readVars(Query(r)) /\ WF_readVars(Drain(r))
=============================================================================
