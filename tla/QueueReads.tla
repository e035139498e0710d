----------------------------- MODULE QueueReads -----------------------------
(***************************************************************************)
(* Reads of more than one statement: QueueService.ListQueues and GetQueue  *)
(* (internal/service/queue.go), the dashboard's QueuesPage and Index       *)
(* (internal/web/web.go), over ListQueues, QueueInfo, ListJobs and         *)
(* JobCountsByStatus of PGDriver and, statement by statement the same, of  *)
(* SQLiteDriver.  The queue goes on between two statements.                *)
(*                                                                         *)
(* A statement occupies a connection of the pool until its rows are read   *)
(* to the end; on SQLite the pool has one (openBackend, cmd/stevy/main.go).*)
(***************************************************************************)
EXTENDS JobQueue

CONSTANTS Reader,      \* handlers that read, side by side
          Connections  \* the size of the pool

ASSUME QueueReadsAssumption == Connections \in Nat \ {0}

VARIABLE read  \* per reader, how far it is and what it has gathered

readVars == <<jobs, queues, paused, calls, sched, now, read>>

\* rows: a result set is open; todo: the queues to count; before: the number
\* of jobs when the read began; whole: no result so far was cut short.
NoRead == [op |-> "none", stage |-> "done", rows |-> FALSE, todo |-> {}, queue |-> Null,
           page |-> {}, sum |-> 0, paused |-> FALSE, before |-> 0, whole |-> TRUE]

ReadsInit == Init /\ read = [r \in Reader |-> NoRead]
-----------------------------------------------------------------------------
\* SELECT status, COUNT(*) FROM jobs ... GROUP BY status, for the jobs ids:
\* one row per status.
Groups(ids) == {jobs[id].status : id \in ids}

JobsIn(q) == {id \in DOMAIN jobs : jobs[id].queue = q}

\* The counts of the rows that were read, summed.
TotalOf(ids, seen) == Cardinality({id \in ids : jobs[id].status \in seen})

\* Mutant of IndexStages: the pills are counted before the list is read.
IndexStagesSwapped == <<"total", "list">>

\* Index: ListJobs, then JobCountsByStatus.
IndexStages == <<"list", "total">>

BeginRead(r, op, q) ==
  /\ read[r].stage = "done"
  /\ op = "queue" <=> q # Null
  /\ read' = [read EXCEPT ![r] =
        [NoRead EXCEPT !.op     = op,
                       !.queue  = q,
                       !.stage  = CASE op = "index"  -> IndexStages[1]
                                    [] op = "queue"  -> "counts"
                                    [] op = "queues" -> "names",
                       !.todo   = IF op = "queue" THEN {q} ELSE {},
                       !.before = Cardinality(DOMAIN jobs)]]
  /\ UNCHANGED <<jobs, queues, paused, calls, sched, now>>

\* Mutant of Occupied: ListQueues counts inside the loop over the names.
OccupiedByLoop == Cardinality({r \in Reader : read[r].rows})
                  + Cardinality({r \in Reader : read[r].op = "queues" /\ read[r].stage = "counts"})

\* Next closes the rows, and frees the connection, when it finds no more.
Occupied == Cardinality({r \in Reader : read[r].rows})

\* A result is there to be read, to its end or not: an error ends the loop
\* over the rows like their end, for nobody asks rows.Err().
Got(f, all) == [f EXCEPT !.rows = TRUE, !.whole = @ /\ all]

Counted(f, ids, seen) == Got([f EXCEPT !.sum = @ + TotalOf(ids, seen)], seen = Groups(ids))

\* The statement of r's stage runs.  Index drops the errors of its two: it
\* shows no job, or counts none.
Query(r) ==
  LET f == read[r]
  IN  /\ f.stage # "done" /\ ~f.rows
      /\ Occupied < Connections
      /\ \/ /\ f.stage = "list"  \* the limit leaves some out as well
            /\ \E page \in SUBSET DOMAIN jobs :
                  read' = [read EXCEPT ![r] = Got([f EXCEPT !.page = page], TRUE)]
         \/ /\ f.stage = "total"
            /\ \E seen \in SUBSET Groups(DOMAIN jobs) :
                  read' = [read EXCEPT ![r] = Counted(f, DOMAIN jobs, seen)]
         \/ /\ f.stage = "names"
            /\ \E names \in SUBSET queues :
                  read' = [read EXCEPT ![r] = Got([f EXCEPT !.todo = names], names = queues)]
         \/ /\ f.stage = "counts"
            /\ \E q \in f.todo : \E seen \in SUBSET Groups(JobsIn(q)) :
                  read' = [read EXCEPT ![r] = Counted([f EXCEPT !.todo = @ \ {q}], JobsIn(q), seen)]
         \/ /\ f.stage = "paused"
            /\ \E failed \in BOOLEAN :  \* the error is dropped: not paused
                  read' = [read EXCEPT ![r] = Got([f EXCEPT !.paused = ~failed /\ f.queue \in paused], TRUE)]
      /\ UNCHANGED <<jobs, queues, paused, calls, sched, now>>

\* A statement of ListQueues or QueueInfo fails, and with it the read.
QueryFails(r) ==
  /\ read[r].stage \in {"names", "counts"} /\ ~read[r].rows
  /\ read' = [read EXCEPT ![r] = NoRead]
  /\ UNCHANGED <<jobs, queues, paused, calls, sched, now>>

\* Where a read goes on when its rows are read.
NextStage(f) ==
  CASE f.stage = IndexStages[1]                    -> IndexStages[2]
    [] f.stage \in {"names", "counts"} /\ f.todo # {} -> "counts"
    [] f.stage = "counts" /\ f.op = "queue"        -> "paused"
    [] OTHER                                       -> "done"

Drain(r) ==
  /\ read[r].rows
  /\ read' = [read EXCEPT ![r].rows = FALSE, ![r].stage = NextStage(read[r])]
  /\ UNCHANGED <<jobs, queues, paused, calls, sched, now>>

ReadsNext == \/ \E r \in Reader : \/ \E q \in QueueName : BeginRead(r, "queue", q)
                                  \/ \E op \in {"index", "queues"} : BeginRead(r, op, Null)
                                  \/ Query(r) \/ QueryFails(r) \/ Drain(r)
             \/ Next /\ UNCHANGED read

ReadsSpec == ReadsInit /\ [][ReadsNext]_readVars

\* The pool serves whoever waits for a connection in turn.
ReadsFairSpec == ReadsSpec /\ \A r \in Reader : SF_readVars(Query(r)) /\ WF_readVars(Drain(r))
-----------------------------------------------------------------------------
\* The list of queues accounts for every job: those there when the reading
\* began are all in some count, unless a result was cut short, and none is
\* counted twice or is not there in the end, although each queue is counted by
\* a statement of its own.
ListingCountsEveryJob ==
  \A r \in Reader : read[r].op = "queues" /\ read[r].stage = "done" =>
     /\ read[r].sum <= Cardinality(DOMAIN jobs)
     /\ read[r].whole => read[r].before <= read[r].sum

\* The dashboard never lists more jobs than it says there are, unless the
\* counts, read after the list, failed or were cut short.
IndexListsWithinTotal ==
  \A r \in Reader : read[r].op = "index" /\ read[r].stage = "done" /\ read[r].whole =>
     Cardinality(read[r].page) <= read[r].sum

\* No read waits for ever for a connection, least of all for its own.
ReadsFinish == \A r \in Reader : read[r].stage # "done" ~> read[r].stage = "done"
=============================================================================
