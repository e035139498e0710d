---------------------------- MODULE PgStatements ----------------------------
(***************************************************************************)
(* JobQueue takes every SQL statement for one step.  Here the statements   *)
(* of PGDriver (internal/service/driver_pg.go) run in PostgreSQL sessions, *)
(* side by side, at READ COMMITTED: a statement picks its candidates in    *)
(* the snapshot it begins with, locks them one by one, evaluates its WHERE *)
(* clause again on the version it locked, and writes when it commits.      *)
(* NOW() stays the moment the statement began.                             *)
(*                                                                         *)
(* That the sessions together still implement JobLifecycle is what allows  *)
(* JobQueue its atomic steps.                                              *)
(***************************************************************************)
EXTENDS JobTable

CONSTANTS AttemptLimits,  \* the values max_attempts may get
          Statements,     \* bound: the statements the sessions execute
          MaxTime         \* bound: the clock stops here

ASSUME PgStatementsAssumption == AttemptLimits \subseteq Nat \ {0} /\ MaxTime \in Nat

ByRow == {"complete", "fail", "heartbeat", "cancel", "promote"}
Batch == {"promote_due", "fail_expired"}

VARIABLES rows,    \* the committed rows of jobs
          paused,  \* the committed names with a paused_at
          stmt,    \* per session, the statement it executes
          racing,  \* history: the claims a pause of their queue found under way
          now      \* the database clock

pgVars == <<rows, paused, stmt, racing, now>>

\* A Caller is a session here: a pool connection serving a call or the
\* scheduler.
Nothing == [op |-> "none", got |-> {}]

PgInit == /\ rows = [id \in {} |-> Null]
          /\ paused = {}
          /\ stmt = [c \in Caller |-> Nothing]
          /\ racing = {}
          /\ now = 0
-----------------------------------------------------------------------------
(* What the statements say: WHERE, ORDER BY, LIMIT, SKIP LOCKED, SET. *)

\* The rows of a table that statement s asks for.
Where(s, table) ==
  CASE s.op = "claim"        -> ClaimableIds(table, s.arg, s.at)
    [] s.op = "promote_due"  -> DueIds(table, s.at)
    [] s.op = "fail_expired" -> ExpiredIds(table, s.at)
    [] s.op = "cancel"       -> {id \in {s.arg} : IsCancellable(table, id)}
    [] s.op = "promote"      -> {id \in {s.arg} : IsPending(table, id)}
    [] OTHER                 -> {id \in {s.arg} : IsRunning(table, id)}

\* a comes before b in the order of s.
Precedes(s, a, b) ==
  CASE s.op = "claim"        -> ClaimedBefore(s.left, a, b)
    [] s.op = "promote_due"  -> s.left[a].scheduled_at < s.left[b].scheduled_at
    [] s.op = "fail_expired" -> s.left[a].lock_expires_at < s.left[b].lock_expires_at
    [] OTHER                 -> FALSE

Limit(op) == IF op \in Batch THEN BatchLimit ELSE 1

\* Mutant of SkipsLocked: FOR UPDATE without SKIP LOCKED in the batches.
SkipsLockedClaims(op) == op = "claim"

\* FOR UPDATE SKIP LOCKED; an UPDATE by id waits for the row instead.
SkipsLocked(op) == op \in Batch \cup {"claim"}

\* The new version of row r.
Image(s, c, r) ==
  CASE s.op = "claim"        -> ClaimedRow(r, c, s.at)
    [] s.op = "complete"     -> CompletedRow(r, c)
    [] s.op = "fail"         -> FailedRow(r, s.at, DefaultDelay, "failed")
    [] s.op = "heartbeat"    -> HeartbeatRow(r, s.at)
    [] s.op = "cancel"       -> CancelledRow(r)
    [] s.op = "promote"      -> ReleasedRow(r, s.at)
    [] s.op = "promote_due"  -> PromotedRow(r)
    [] s.op = "fail_expired" -> ExpiredRow(r, s.at)
-----------------------------------------------------------------------------
(* The life of a statement. *)

\* Its candidates as of its snapshot; it has locked none.
Begun(op, arg) ==
  LET s == [op |-> op, arg |-> arg, at |-> now, got |-> {}, left |-> rows]
  IN  [s EXCEPT !.left = [id \in Where(s, rows) |-> rows[id]]]

Begin(c, op, arg) ==
  /\ op \in Statements
  /\ stmt[c] = Nothing
  /\ stmt' = [stmt EXCEPT ![c] = Begun(op, arg)]
  /\ UNCHANGED <<rows, paused, racing, now>>

\* Mutant of BeginClaim: the claim does not look at paused_at.
BeginClaimAlways(c, q) == Begin(c, "claim", q)

\* paused_at is read in the snapshot the candidates come from, and nowhere
\* else: a claim of a paused queue finds no row.
BeginClaim(c, q) == q \notin paused /\ Begin(c, "claim", q)

\* By id: CompleteJob, FailJob's second statement, HeartbeatJob, CancelJob
\* and PromoteJob.
BeginByRow(c, op, id) == Begin(c, op, id)

\* PromoteScheduledJobs and FailExpiredJobs, of any number of processes.
BeginBatch(c, op) == Begin(c, op, Null)

Locked(id, c) == \E other \in Caller \ {c} : id \in stmt[other].got

\* The statement comes to id next.
ComesTo(c, id) ==
  /\ stmt[c] # Nothing
  /\ Cardinality(stmt[c].got) < Limit(stmt[c].op)
  /\ id \in DOMAIN stmt[c].left
  /\ \A other \in DOMAIN stmt[c].left : ~Precedes(stmt[c], other, id)

\* Mutant of Qualifies: what held in the snapshot is taken to hold still.
QualifiesOnce(c, id) == id \in DOMAIN rows

\* The WHERE clause, on the version that is locked.
Qualifies(c, id) == id \in Where(stmt[c], rows)

Without(left, id) == [other \in DOMAIN left \ {id} |-> left[other]]

LockRow(c, id) ==
  /\ ComesTo(c, id)
  /\ ~Locked(id, c)
  /\ Qualifies(c, id)
  /\ stmt' = [stmt EXCEPT ![c].got = @ \cup {id}, ![c].left = Without(@, id)]
  /\ UNCHANGED <<rows, paused, racing, now>>

PassOver(c, id) ==
  /\ ComesTo(c, id)
  /\ IF Locked(id, c) THEN SkipsLocked(stmt[c].op) ELSE ~Qualifies(c, id)
  /\ stmt' = [stmt EXCEPT ![c].left = Without(@, id)]
  /\ UNCHANGED <<rows, paused, racing, now>>

Commit(c) ==
  /\ stmt[c] # Nothing
  /\ DOMAIN stmt[c].left = {} \/ Cardinality(stmt[c].got) = Limit(stmt[c].op)
  /\ rows' = Updated(rows, stmt[c].got, [id \in stmt[c].got |-> Image(stmt[c], c, rows[id])])
  /\ stmt' = [stmt EXCEPT ![c] = Nothing]
  /\ racing' = racing \ {c}
  /\ UNCHANGED <<paused, now>>

\* The connection breaks, the request is cancelled, the server stops.
RollBack(c) ==
  /\ stmt[c] # Nothing
  /\ stmt' = [stmt EXCEPT ![c] = Nothing]
  /\ racing' = racing \ {c}
  /\ UNCHANGED <<rows, paused, now>>
-----------------------------------------------------------------------------
(* Statements nothing here can disturb. *)

\* CreateJob's INSERT.
InsertRow(q) ==
  /\ \E id \in JobId \ DOMAIN rows, at \in {now, now + 1}, limit \in AttemptLimits, pending \in BOOLEAN :
        LET status == IF pending THEN "pending" ELSE IF at > now THEN "scheduled" ELSE "available"
            row == NewRow(q, status, 1, limit, at, NoBackoffOptions)
        IN  rows' = [i \in DOMAIN rows \cup {id} |-> IF i = id THEN row ELSE rows[i]]
  /\ UNCHANGED <<paused, stmt, racing, now>>

PauseQueue(q) ==
  /\ paused' = paused \cup {q}
  /\ racing' = racing \cup {c \in Caller : stmt[c].op = "claim" /\ stmt[c].arg = q}
  /\ UNCHANGED <<rows, stmt, now>>

ResumeQueue(q) ==
  /\ paused' = paused \ {q}
  /\ UNCHANGED <<rows, stmt, racing, now>>

Tick == /\ now < MaxTime
        /\ now' = now + 1
        /\ UNCHANGED <<rows, paused, stmt, racing>>

Proceed(c) == Commit(c) \/ \E id \in JobId : LockRow(c, id) \/ PassOver(c, id)

SessionStep(c) ==
  \/ \E q \in QueueName : BeginClaim(c, q)
  \/ \E op \in ByRow, id \in DOMAIN rows : BeginByRow(c, op, id)
  \/ \E op \in Batch : BeginBatch(c, op)
  \/ Proceed(c)
  \/ RollBack(c)

PgNext == \/ \E c \in Caller : SessionStep(c)
          \/ \E q \in QueueName : InsertRow(q) \/ PauseQueue(q) \/ ResumeQueue(q)
          \/ Tick

PgSpec == PgInit /\ [][PgNext]_pgVars
-----------------------------------------------------------------------------
\* Everything a statement locked satisfies its WHERE clause until it
\* commits, no row is locked twice, and no statement exceeds its LIMIT.
LocksHold ==
  \A c \in Caller : stmt[c] # Nothing =>
     /\ stmt[c].got \subseteq Where(stmt[c], rows)
     /\ Cardinality(stmt[c].got) <= Limit(stmt[c].op)
     /\ \A id \in stmt[c].got : ~Locked(id, c)

Lives == [j \in JobId |-> IF j \in DOMAIN rows THEN LifeOf(rows[j]) ELSE NoLife]

Lifecycle == INSTANCE JobLifecycle WITH Limits <- AttemptLimits, life <- Lives

\* Statements that run side by side on the same rows still take every job
\* through one life: one claim per attempt, one end per attempt, nothing
\* after the end, although each chose its rows in an older snapshot.
ImplementsLifecycle == Lifecycle!Spec

\* A heartbeat that commits while FailExpiredJobs is under way saves its
\* job: an attempt is failed for its lock only if the lock, as last
\* committed, has run out.
RenewedLockSurvives ==
  [][\A id \in DOMAIN rows :
        rows'[id].errors = Append(rows[id].errors, "lock_expired") => rows[id].lock_expires_at < now]_pgVars

\* An attempt that begins in a paused queue belongs to a claim that was
\* already under way when the queue was paused.
PauseLetsOnlyRacersThrough ==
  [][\A id \in DOMAIN rows :
        /\ rows'[id].attempt > rows[id].attempt
        /\ rows[id].queue \in paused
        => \E c \in racing : stmt[c].got = {id} /\ stmt'[c] = Nothing]_pgVars

\* "Bounded LIMIT + SKIP LOCKED so a backlog doesn't block writers": a
\* statement that has to wait for a row has locked none itself, so no two
\* wait for each other, in whichever orders batches, claims and calls by id
\* come to their rows (PGDriver's statements, all sessions together).
WaitersHoldNothing ==
  \A c \in Caller, id \in JobId :
     ComesTo(c, id) /\ Locked(id, c) /\ ~SkipsLocked(stmt[c].op) => stmt[c].got = {}
=============================================================================
