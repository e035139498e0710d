------------------------------ MODULE JobPages ------------------------------
(***************************************************************************)
(* Reading the list of jobs page by page while the queue goes on:          *)
(* JobService.ListJobs (internal/service/job.go) and the dashboard's Index *)
(* (internal/web/web.go) over PGDriver.ListJobs.  A page is one statement, *)
(* a walk is many, and every step of JobQueue may come in between.         *)
(***************************************************************************)
EXTENDS JobQueue

CONSTANTS Any,       \* no filter: the empty string
          PageSize,  \* the request's limit, or jobsPageSize
          Filters    \* the filters a reader may choose

ASSUME JobPagesAssumption ==
         /\ Any \notin QueueName \cup Status
         /\ PageSize \in Nat \ {0}
         /\ Filters \subseteq [queue : QueueName \cup {Any}, status : Status \cup {Any}]

VARIABLES walk,    \* what the reader asks for, and what it has been shown
          steady   \* history: the jobs that matched ever since the walk began

pageVars == <<jobs, queues, paused, calls, sched, now, walk, steady>>

\* after is the cursor the reader passes next, page what it was shown last,
\* listed what it was shown before; whole: the last result was not cut short.
NoWalk == [kind |-> "none", filter |-> Null, after |-> Null, page |-> {}, listed |-> {},
           ended |-> TRUE, whole |-> TRUE]

PagesInit == Init /\ walk = NoWalk /\ steady = {}
-----------------------------------------------------------------------------
Matching(table, f) ==
  {id \in DOMAIN table : /\ f.queue \in {Any, table[id].queue}
                         /\ f.status \in {Any, table[id].status}}

\* Mutant of OlderThan: the cursor's own job is listed again.
OlderThanOrAt(ids, after) == {id \in ids : after = Null \/ id <= after}

\* AND id < $n, when there is a cursor.
OlderThan(ids, after) == {id \in ids : after = Null \/ id < after}

\* ORDER BY id DESC LIMIT n.
Newest(ids, n) == {id \in ids : Cardinality({newer \in ids : newer > id}) < n}

Oldest(ids) == CHOOSE id \in ids : \A other \in ids : id <= other

\* The rows the statement of PGDriver.ListJobs selects.
Selected(f, limit, after) == Newest(OlderThan(Matching(jobs, f), after), limit)

Beginnings(ids) == {Newest(ids, n) : n \in 0 .. Cardinality(ids)}

\* PGDriver.ListJobs.  An error while the rows are read ends its loop like
\* their end: nobody asks rows.Err().
ListJobs(f, limit, after) == Beginnings(Selected(f, limit, after))

\* Both readers fetch one row more than they show.
Fetched == ListJobs(walk.filter, PageSize + 1, walk.after)
Shown(rows) == Newest(rows, PageSize)

\* Index has no queue filter.
BeginWalk(kind, f) ==
  /\ walk.ended
  /\ kind = "dashboard" => f.queue = Any
  /\ walk' = [NoWalk EXCEPT !.kind = kind, !.filter = f, !.ended = FALSE]
  /\ steady' = Matching(jobs, f)
  /\ UNCHANGED <<jobs, queues, paused, calls, sched, now>>

\* The rows fetched, the cursor c for the next page, and whether this is the last.
Turn(rows, c, last) ==
  /\ walk' = [walk EXCEPT !.listed = @ \cup walk.page, !.page = Shown(rows), !.after = c, !.ended = last,
                          !.whole = rows = Selected(walk.filter, PageSize + 1, walk.after)]
  /\ UNCHANGED <<jobs, queues, paused, calls, sched, now, steady>>

\* README: pass the last job's id as after; "When fewer than `limit` jobs
\* come back, you've reached the end."  (After an error answer the reader
\* asks again.)
ApiPage ==
  /\ walk.kind = "api"
  /\ ~walk.ended
  /\ \E rows \in Fetched :
        LET last == Cardinality(Shown(rows)) < PageSize
        IN  Turn(rows, IF last THEN Null ELSE Oldest(Shown(rows)), last)

\* Mutant of NextCursor: the cursor is the extra row, which is not shown.
NextCursorExtra(rows) == IF Cardinality(rows) > PageSize THEN Oldest(rows) ELSE Null

\* Index: the extra row tells that an older page exists; the cursor is the
\* last row shown.
NextCursor(rows) == IF Cardinality(rows) > PageSize THEN Oldest(Shown(rows)) ELSE Null

\* Index drops an error of ListJobs: it shows no job and no next page, as
\* for a result that is cut short before its first row.
DashboardPage ==
  /\ walk.kind = "dashboard"
  /\ ~walk.ended
  /\ \E rows \in Fetched : Turn(rows, NextCursor(rows), NextCursor(rows) = Null)

\* A step of the queue; the history follows it.
QueueStep ==
  /\ Next
  /\ steady' = IF walk = NoWalk THEN {} ELSE steady \cap Matching(jobs', walk.filter)
  /\ UNCHANGED walk

PagesNext == \/ \E kind \in {"api", "dashboard"}, f \in Filters : BeginWalk(kind, f)
             \/ ApiPage \/ DashboardPage
             \/ QueueStep

PagesSpec == PagesInit /\ [][PagesNext]_pageVars
-----------------------------------------------------------------------------
\* No job is shown twice, and every page is older than all before it,
\* whatever is created or changes its status during the walk; so a walk ends
\* (ListJobs, with the cursors its readers pass).
PagesDescend == \A id \in walk.page, earlier \in walk.listed : id < earlier

\* A job that matched the filter throughout is not passed over: it has been
\* shown once the cursor is past it, whichever pages were cut short, and at
\* the end of the walk unless the result of the last page was.
SteadyJobsListed ==
  \A id \in steady :
     (walk.ended /\ walk.whole) \/ (walk.after # Null /\ id >= walk.after)
     => id \in walk.page \cup walk.listed
=============================================================================
