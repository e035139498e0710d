------------------------- MODULE PgStatements_proofs -------------------------
(***************************************************************************)
(* Proofs about PgStatements, for every set of rows and sessions, every    *)
(* batch limit and every choice of statements.                             *)
(*                                                                         *)
(* What JobQueue_proofs shows of a row remains true while statements       *)
(* overlap (RowOK); and, the heart of it, what a statement has locked      *)
(* satisfies its WHERE clause until it commits, because nobody else can    *)
(* have locked it.                                                         *)
(***************************************************************************)
EXTENDS PgStatements, JobTable_proofs, FiniteSetTheorems

TableOK == /\ DOMAIN rows \subseteq JobId
           /\ rows = [id \in DOMAIN rows |-> rows[id]]
           /\ \A id \in DOMAIN rows : RowOK(rows[id], now)
           /\ now \in Nat

Op == ByRow \cup Batch \cup {"claim"}

IsStatement(s) ==
  /\ s = [op |-> s.op, arg |-> s.arg, at |-> s.at, got |-> s.got, left |-> s.left]
  /\ s.op \in Op
  /\ s.at \in Nat
  /\ IsFiniteSet(s.got)

SessionsOK == /\ stmt = [c \in Caller |-> stmt[c]]
              /\ \A c \in Caller : stmt[c] = Nothing \/ (IsStatement(stmt[c]) /\ stmt[c].at <= now)

\* What a session has locked is its own, and what its statement asks for.
LocksOK == \A c \in Caller :
             /\ stmt[c] # Nothing => /\ stmt[c].got \subseteq Where(stmt[c], rows)
                                     /\ Cardinality(stmt[c].got) <= Limit(stmt[c].op)
             /\ \A d \in Caller \ {c} : stmt[c].got \cap stmt[d].got = {}

\* A claim of a queue that is paused was under way before.
RacersOK == \A c \in Caller : stmt[c].op = "claim" /\ stmt[c].arg \in paused => c \in racing

PgIInv == TableOK /\ SessionsOK /\ LocksOK /\ RacersOK
-----------------------------------------------------------------------------
(* The clauses of a statement. *)

LEMMA LimitType == \A op : Limit(op) \in Nat /\ Limit(op) >= 1
BY JobTableAssumption DEF Limit

\* Whether a statement asks for a row is up to that row.
LEMMA WhereIsLocal ==
  ASSUME NEW s, s.op \in Op, NEW t, NEW u, NEW id,
         id \in DOMAIN t, id \in DOMAIN u, t[id] = u[id], id \in Where(s, t)
  PROVE  id \in Where(s, u)
<1>1. CASE s.op = "claim"
  BY <1>1 DEF Where, ClaimableIds
<1>2. CASE s.op = "promote_due"
  BY <1>2 DEF Where, DueIds
<1>3. CASE s.op = "fail_expired"
  BY <1>3 DEF Where, ExpiredIds
<1>4. CASE s.op = "cancel"
  BY <1>4 DEF Where, IsCancellable
<1>5. CASE s.op = "promote"
  BY <1>5 DEF Where, IsPending
<1>6. CASE s.op \in {"complete", "fail", "heartbeat"}
  BY <1>6 DEF Where, IsRunning
<1> QED
  BY <1>1, <1>2, <1>3, <1>4, <1>5, <1>6 DEF Op, ByRow, Batch

\* What a row that a statement asks for is like.
LEMMA WhereSays ==
  ASSUME NEW s, s.op \in Op, NEW t, NEW id \in Where(s, t)
  PROVE  /\ id \in DOMAIN t
         /\ s.op = "claim" => /\ t[id].queue = s.arg /\ t[id].status = "available"
                              /\ t[id].scheduled_at <= s.at
         /\ s.op = "promote_due" => t[id].status \in {"scheduled", "retryable"}
         /\ s.op = "fail_expired" => /\ t[id].status = "running"
                                     /\ t[id].lock_expires_at # Null
                                     /\ t[id].lock_expires_at < s.at
         /\ s.op = "cancel" => t[id].status \notin Final
         /\ s.op = "promote" => t[id].status = "pending"
         /\ s.op \in {"complete", "fail", "heartbeat"} => t[id].status = "running"
<1>1. CASE s.op = "claim"
  BY <1>1 DEF Where, ClaimableIds
<1>2. CASE s.op = "promote_due"
  BY <1>2 DEF Where, DueIds
<1>3. CASE s.op = "fail_expired"
  BY <1>3 DEF Where, ExpiredIds
<1>4. CASE s.op = "cancel"
  BY <1>4 DEF Where, IsCancellable, Final
<1>5. CASE s.op = "promote"
  BY <1>5 DEF Where, IsPending
<1>6. CASE s.op \in {"complete", "fail", "heartbeat"}
  BY <1>6 DEF Where, IsRunning
<1> QED
  BY <1>1, <1>2, <1>3, <1>4, <1>5, <1>6 DEF Op, ByRow, Batch

\* The SET list of each statement.
LEMMA ImageSays ==
  ASSUME NEW s, NEW c, NEW r
  PROVE  /\ s.op = "claim" => Image(s, c, r) = ClaimedRow(r, c, s.at)
         /\ s.op = "complete" => Image(s, c, r) = CompletedRow(r, c)
         /\ s.op = "fail" => Image(s, c, r) = FailedRow(r, s.at, DefaultDelay, "failed")
         /\ s.op = "heartbeat" => Image(s, c, r) = HeartbeatRow(r, s.at)
         /\ s.op = "cancel" => Image(s, c, r) = CancelledRow(r)
         /\ s.op = "promote" => Image(s, c, r) = ReleasedRow(r, s.at)
         /\ s.op = "promote_due" => Image(s, c, r) = PromotedRow(r)
         /\ s.op = "fail_expired" => Image(s, c, r) = ExpiredRow(r, s.at)
BY DEF Image

\* What a statement writes into a row it asks for, at any time after it began.
LEMMA ImageSound ==
  ASSUME NEW s, s.op \in Op, s.at \in Nat, NEW time \in Nat, s.at <= time,
         NEW c \in Caller, NEW t, NEW id \in Where(s, t), RowOK(t[id], time)
  PROVE  /\ RowOK(Image(s, c, t[id]), time)
         /\ s.op # "claim" => Image(s, c, t[id]).attempt = t[id].attempt
         /\ s.op # "fail_expired" => \/ Image(s, c, t[id]).errors = t[id].errors
                                     \/ Image(s, c, t[id]).errors = Append(t[id].errors, "failed")
<1> DEFINE r == t[id]
<1>1. r \in JobRow
  BY DEF RowOK
<1>2. CASE s.op = "claim"
  <2>1. r.status = "available" /\ r.scheduled_at <= s.at
    BY <1>2, WhereSays
  <2>2. RowOK(ClaimedRow(r, c, s.at), time)
    BY <2>1, ClaimedRowOK
  <2>3. ClaimedRow(r, c, s.at).errors = r.errors
    BY <1>1 DEF ClaimedRow, JobRow
  <2> QED
    BY <1>2, <2>2, <2>3, ImageSays
<1>3. CASE s.op \in {"fail", "fail_expired"}
  <2>1. r.status = "running"
    BY <1>3, WhereSays
  <2>2. RowOK(FailedRow(r, s.at, DefaultDelay, "failed"), time) /\ RowOK(ExpiredRow(r, s.at), time)
    BY <2>1, FailedRowOK, ExpiredRowOK, BackoffAssumption
  <2>3. /\ FailedRow(r, s.at, DefaultDelay, "failed").attempt = r.attempt
        /\ FailedRow(r, s.at, DefaultDelay, "failed").errors = Append(r.errors, "failed")
    BY <1>1 DEF FailedRow, JobRow
  <2>4. ExpiredRow(r, s.at).attempt = r.attempt
    <3> DEFINE f == FailedRow(r, s.at, 0, "lock_expired")
    <3>1. f \in JobRow
      BY <1>1, FailedRowType
    <3>2. f.attempt = r.attempt
      BY <1>1 DEF FailedRow, JobRow
    <3> HIDE DEF f
    <3>3. [f EXCEPT !.lock_expires_at = Null].attempt = f.attempt
      BY <3>1 DEF JobRow
    <3> QED
      BY <3>2, <3>3 DEF f, ExpiredRow
  <2> QED
    BY <1>3, <2>2, <2>3, <2>4, ImageSays
<1>4. CASE s.op = "complete"
  <2>1. r.status = "running"
    BY <1>4, WhereSays
  <2>2. RowOK(CompletedRow(r, c), time)
    BY <2>1, CompletedRowOK
  <2>3. CompletedRow(r, c).attempt = r.attempt /\ CompletedRow(r, c).errors = r.errors
    BY <1>1 DEF CompletedRow, JobRow
  <2> QED
    BY <1>4, <2>2, <2>3, ImageSays
<1>5. CASE s.op = "heartbeat"
  <2>1. r.status = "running"
    BY <1>5, WhereSays
  <2>2. RowOK(HeartbeatRow(r, s.at), time)
    BY <2>1, HeartbeatRowOK
  <2>3. HeartbeatRow(r, s.at).attempt = r.attempt /\ HeartbeatRow(r, s.at).errors = r.errors
    BY <1>1 DEF HeartbeatRow, JobRow
  <2> QED
    BY <1>5, <2>2, <2>3, ImageSays
<1>6. CASE s.op = "cancel"
  <2>1. r.status \notin Final
    BY <1>6, WhereSays
  <2>2. RowOK(CancelledRow(r), time)
    BY <2>1, CancelledRowOK
  <2>3. CancelledRow(r).attempt = r.attempt /\ CancelledRow(r).errors = r.errors
    BY <1>1 DEF CancelledRow, JobRow
  <2> QED
    BY <1>6, <2>2, <2>3, ImageSays
<1>7. CASE s.op \in {"promote", "promote_due"}
  <2>1. r.status \in Waiting
    BY <1>7, WhereSays DEF Waiting
  <2>2. RowOK(ReleasedRow(r, s.at), time) /\ RowOK(PromotedRow(r), time)
    BY <2>1, ReleasedRowOK
  <2>3. \A n \in {ReleasedRow(r, s.at), PromotedRow(r)} : n.attempt = r.attempt /\ n.errors = r.errors
    BY <1>1 DEF ReleasedRow, PromotedRow, JobRow
  <2> QED
    BY <1>7, <2>2, <2>3, ImageSays
<1> QED
  BY <1>2, <1>3, <1>4, <1>5, <1>6, <1>7 DEF Op, ByRow, Batch
-----------------------------------------------------------------------------
(* A session moves, the rows stay. *)

LEMMA OneSession ==
  ASSUME SessionsOK, NEW c \in Caller, NEW s, stmt' = [stmt EXCEPT ![c] = s]
  PROVE  /\ stmt' = [d \in Caller |-> stmt'[d]]
         /\ \A d \in Caller : stmt'[d] = IF d = c THEN s ELSE stmt[d]
BY DEF SessionsOK

LEMMA NotNothing == ASSUME NEW s, s.op \in Op PROVE s # Nothing
BY DEF Op, ByRow, Batch, Nothing

\* A session may go on with any statement whose locks are its own.
LEMMA SessionMoves ==
  ASSUME TableOK, SessionsOK, LocksOK, NEW c \in Caller, NEW s,
         stmt' = [stmt EXCEPT ![c] = s], UNCHANGED <<rows, now>>,
         \/ s = Nothing
         \/ /\ IsStatement(s)
            /\ s.at <= now
            /\ s.got \subseteq Where(s, rows)
            /\ Cardinality(s.got) <= Limit(s.op)
            /\ \A d \in Caller \ {c} : s.got \cap stmt[d].got = {}
  PROVE  TableOK' /\ SessionsOK' /\ LocksOK'
<1>1. /\ stmt' = [d \in Caller |-> stmt'[d]]
      /\ \A d \in Caller : stmt'[d] = IF d = c THEN s ELSE stmt[d]
  BY OneSession
<1>2. TableOK'
  BY DEF TableOK
<1>3. SessionsOK'
  BY <1>1 DEF SessionsOK
<1>4. \A d \in Caller \ {c} : s.got \cap stmt[d].got = {}
  BY DEF Nothing
<1>5. s # Nothing => s.got \subseteq Where(s, rows) /\ Cardinality(s.got) <= Limit(s.op)
  OBVIOUS
<1>6. ASSUME NEW d \in Caller
      PROVE  /\ stmt'[d] # Nothing => /\ stmt'[d].got \subseteq Where(stmt'[d], rows)
                                      /\ Cardinality(stmt'[d].got) <= Limit(stmt'[d].op)
             /\ \A e \in Caller \ {d} : stmt'[d].got \cap stmt'[e].got = {}
  <2>1. CASE d = c
    BY <1>1, <1>4, <1>5, <2>1
  <2>2. CASE d # c
    <3>1. stmt'[d] = stmt[d] /\ stmt[d].got \cap s.got = {}
      BY <1>1, <1>4, <2>2
    <3>2. \A e \in Caller \ {d} : stmt'[d].got \cap stmt'[e].got = {}
      BY <1>1, <3>1 DEF LocksOK
    <3> QED
      BY <3>1, <3>2 DEF LocksOK
  <2> QED
    BY <2>1, <2>2
<1>7. LocksOK'
  BY <1>6 DEF LocksOK
<1> QED
  BY <1>2, <1>3, <1>7

LEMMA BeginKeeps ==
  ASSUME PgIInv, NEW c \in Caller, NEW op \in Op, NEW arg, Begin(c, op, arg)
  PROVE  /\ TableOK' /\ SessionsOK' /\ LocksOK'
         /\ \A d \in Caller : stmt'[d] = IF d = c THEN Begun(op, arg) ELSE stmt[d]
         /\ Begun(op, arg).op = op /\ Begun(op, arg).arg = arg
<1> DEFINE s == Begun(op, arg)
<1>1. s.op = op /\ s.arg = arg /\ s.at = now /\ s.got = {}
      /\ s = [op |-> s.op, arg |-> s.arg, at |-> s.at, got |-> s.got, left |-> s.left]
  <2> DEFINE b == [op |-> op, arg |-> arg, at |-> now, got |-> {}, left |-> rows]
             l == [id \in Where(b, rows) |-> rows[id]]
  <2>1. s = [b EXCEPT !.left = l]
    BY DEF Begun
  <2> HIDE DEF s, l
  <2>2. s = [op |-> op, arg |-> arg, at |-> now, got |-> {}, left |-> l]
    BY <2>1
  <2> QED
    BY <2>2
<1>2. stmt' = [stmt EXCEPT ![c] = s] /\ UNCHANGED <<rows, now>>
  BY DEF Begin
<1> HIDE DEF s
<1>3. IsStatement(s) /\ s.at <= now
  BY <1>1, FS_EmptySet DEF IsStatement, PgIInv, TableOK
<1>4. Cardinality(s.got) <= Limit(s.op)
  BY <1>1, FS_EmptySet, LimitType
<1>5. TableOK' /\ SessionsOK' /\ LocksOK'
  BY <1>1, <1>2, <1>3, <1>4, SessionMoves DEF PgIInv
<1>6. \A d \in Caller : stmt'[d] = IF d = c THEN s ELSE stmt[d]
  BY <1>2, OneSession DEF PgIInv
<1> QED
  BY <1>1, <1>5, <1>6 DEF s

\* What a statement asks for is settled when it begins.
LEMMA SameClause ==
  ASSUME NEW s, NEW u, NEW t, s.op = u.op, s.arg = u.arg, s.at = u.at
  PROVE  Where(s, t) = Where(u, t)
BY DEF Where

LEMMA StatementWith ==
  ASSUME NEW s, IsStatement(s), NEW got, NEW left
  PROVE  [s EXCEPT !.got = got, !.left = left] =
           [op |-> s.op, arg |-> s.arg, at |-> s.at, got |-> got, left |-> left]
<1> DEFINE u == [s EXCEPT !.got = got]
           v == [u EXCEPT !.left = left]
<1>1. u = [op |-> s.op, arg |-> s.arg, at |-> s.at, got |-> got, left |-> s.left]
  BY DEF IsStatement
<1> HIDE DEF u
<1>2. v = [op |-> s.op, arg |-> s.arg, at |-> s.at, got |-> got, left |-> left]
  BY <1>1
<1> QED
  BY <1>2 DEF u

\* A statement that comes to a row stays what it is, but for the row.
LEMMA ComingTo ==
  ASSUME PgIInv, NEW c \in Caller, NEW id, ComesTo(c, id), NEW got, NEW left
  PROVE  /\ IsStatement(stmt[c])
         /\ stmt[c].at <= now
         /\ [stmt EXCEPT ![c].got = got, ![c].left = left] =
               [stmt EXCEPT ![c] = [op |-> stmt[c].op, arg |-> stmt[c].arg, at |-> stmt[c].at,
                                    got |-> got, left |-> left]]
         /\ [stmt EXCEPT ![c].left = left] = [stmt EXCEPT ![c] = [stmt[c] EXCEPT !.left = left]]
<1>1. stmt[c] # Nothing
  BY DEF ComesTo
<1>2. IsStatement(stmt[c]) /\ stmt[c].at <= now /\ stmt = [d \in Caller |-> stmt[d]]
  BY <1>1 DEF PgIInv, SessionsOK
<1> DEFINE s == [op |-> stmt[c].op, arg |-> stmt[c].arg, at |-> stmt[c].at, got |-> got, left |-> left]
<1>3. [stmt[c] EXCEPT !.got = got, !.left = left] = s
  BY <1>2, StatementWith
<1>4. [stmt EXCEPT ![c].got = got, ![c].left = left] =
        [stmt EXCEPT ![c] = [stmt[c] EXCEPT !.got = got, !.left = left]]
  BY <1>2
<1>5. [stmt EXCEPT ![c].left = left] = [stmt EXCEPT ![c] = [stmt[c] EXCEPT !.left = left]]
  BY <1>2
<1> QED
  BY <1>2, <1>3, <1>4, <1>5

LEMMA LockRowKeeps ==
  ASSUME PgIInv, NEW c \in Caller, NEW id, LockRow(c, id)
  PROVE  /\ TableOK' /\ SessionsOK' /\ LocksOK'
         /\ \A d \in Caller : stmt'[d].op = stmt[d].op /\ (stmt[d].op # "none" => stmt'[d].arg = stmt[d].arg)
<1> DEFINE old == stmt[c]
           left == Without(old.left, id)
           got == old.got \cup {id}
           s == [op |-> old.op, arg |-> old.arg, at |-> old.at, got |-> got, left |-> left]
<1>1. ComesTo(c, id) /\ ~Locked(id, c) /\ Qualifies(c, id)
  BY DEF LockRow
<1>2. stmt' = [stmt EXCEPT ![c].got = got, ![c].left = left] /\ UNCHANGED <<rows, now>>
  BY DEF LockRow
<1>3. IsStatement(old) /\ old.at <= now
      /\ [stmt EXCEPT ![c].got = got, ![c].left = left] = [stmt EXCEPT ![c] = s]
  <2> HIDE DEF got, left
  <2> QED
    BY <1>1, ComingTo
<1> HIDE DEF left
<1>4. s.op = old.op /\ s.arg = old.arg /\ s.at = old.at /\ s.got = got
      /\ s = [op |-> s.op, arg |-> s.arg, at |-> s.at, got |-> s.got, left |-> s.left]
  OBVIOUS
<1> HIDE DEF s
<1>5. stmt' = [stmt EXCEPT ![c] = s]
  BY <1>2, <1>3
<1>6. old # Nothing /\ Cardinality(old.got) < Limit(old.op)
  BY <1>1 DEF ComesTo
<1>7. IsFiniteSet(got) /\ Cardinality(got) <= Limit(s.op)
  <2>1. IsFiniteSet(old.got) /\ Cardinality(old.got) \in Nat
    BY <1>3, FS_CardinalityType DEF IsStatement
  <2>2. IsFiniteSet(got) /\ Cardinality(got) = IF id \in old.got THEN Cardinality(old.got) ELSE Cardinality(old.got) + 1
    BY <2>1, FS_AddElement
  <2> QED
    BY <1>4, <1>6, <2>1, <2>2, LimitType
<1>8. s.got \subseteq Where(s, rows)
  <2>1. old.got \subseteq Where(old, rows) /\ id \in Where(old, rows)
    BY <1>1, <1>6 DEF PgIInv, LocksOK, Qualifies
  <2>2. Where(s, rows) = Where(old, rows)
    BY <1>4, SameClause
  <2> QED
    BY <1>4, <2>1, <2>2
<1>9. \A d \in Caller \ {c} : s.got \cap stmt[d].got = {}
  BY <1>1, <1>4 DEF Locked, PgIInv, LocksOK
<1>10. IsStatement(s) /\ s.at <= now
  BY <1>3, <1>4, <1>7 DEF IsStatement
<1>11. TableOK' /\ SessionsOK' /\ LocksOK'
  BY <1>2, <1>4, <1>5, <1>7, <1>8, <1>9, <1>10, SessionMoves DEF PgIInv
<1>12. \A d \in Caller : stmt'[d] = IF d = c THEN s ELSE stmt[d]
  BY <1>5, OneSession DEF PgIInv
<1> QED
  BY <1>4, <1>11, <1>12

LEMMA PassOverKeeps ==
  ASSUME PgIInv, NEW c \in Caller, NEW id, PassOver(c, id)
  PROVE  /\ TableOK' /\ SessionsOK' /\ LocksOK'
         /\ \A d \in Caller : stmt'[d].op = stmt[d].op /\ (stmt[d].op # "none" => stmt'[d].arg = stmt[d].arg)
<1> DEFINE old == stmt[c]
           left == Without(old.left, id)
           s == [old EXCEPT !.left = left]
<1>1. ComesTo(c, id)
  BY DEF PassOver
<1>2. stmt' = [stmt EXCEPT ![c].left = left] /\ UNCHANGED <<rows, now>>
  BY DEF PassOver
<1> HIDE DEF left
<1>3. IsStatement(old) /\ old.at <= now
      /\ [stmt EXCEPT ![c].left = left] = [stmt EXCEPT ![c] = s]
  BY <1>1, ComingTo
<1>4. s.op = old.op /\ s.arg = old.arg /\ s.at = old.at /\ s.got = old.got
      /\ s = [op |-> s.op, arg |-> s.arg, at |-> s.at, got |-> s.got, left |-> s.left]
  BY <1>3 DEF IsStatement
<1> HIDE DEF s
<1>5. stmt' = [stmt EXCEPT ![c] = s]
  BY <1>2, <1>3
<1>6. old # Nothing
  BY <1>1 DEF ComesTo
<1>7. Where(s, rows) = Where(old, rows)
  BY <1>4, SameClause
<1>8. IsStatement(s) /\ s.at <= now
  BY <1>3, <1>4 DEF IsStatement
<1>9. /\ s.got \subseteq Where(s, rows)
      /\ Cardinality(s.got) <= Limit(s.op)
      /\ \A d \in Caller \ {c} : s.got \cap stmt[d].got = {}
  BY <1>4, <1>6, <1>7 DEF PgIInv, LocksOK
<1>10. TableOK' /\ SessionsOK' /\ LocksOK'
  BY <1>2, <1>5, <1>8, <1>9, SessionMoves DEF PgIInv
<1>11. \A d \in Caller : stmt'[d] = IF d = c THEN s ELSE stmt[d]
  BY <1>5, OneSession DEF PgIInv
<1> QED
  BY <1>4, <1>10, <1>11
-----------------------------------------------------------------------------
(* A statement commits. *)

\* Before a commit: the statement, its rows and the rest of the table.
LEMMA Committing ==
  ASSUME PgIInv, NEW c \in Caller, Commit(c)
  PROVE  /\ stmt[c] # Nothing /\ IsStatement(stmt[c]) /\ stmt[c].at <= now
         /\ stmt[c].got \subseteq Where(stmt[c], rows)
         /\ stmt[c].got \subseteq DOMAIN rows
         /\ DOMAIN rows' = DOMAIN rows
         /\ rows' = [id \in DOMAIN rows |-> rows'[id]]
         /\ \A id \in DOMAIN rows :
               rows'[id] = IF id \in stmt[c].got THEN Image(stmt[c], c, rows[id]) ELSE rows[id]
         /\ stmt' = [d \in Caller |-> stmt'[d]]
         /\ \A d \in Caller : stmt'[d] = IF d = c THEN Nothing ELSE stmt[d]
         /\ now' = now
<1>1. stmt[c] # Nothing /\ IsStatement(stmt[c]) /\ stmt[c].at <= now
  BY DEF Commit, PgIInv, SessionsOK
<1>2. stmt[c].got \subseteq Where(stmt[c], rows)
  BY <1>1 DEF PgIInv, LocksOK
<1>3. stmt[c].got \subseteq DOMAIN rows
  BY <1>1, <1>2, WhereSays DEF IsStatement
<1>4. rows' = Updated(rows, stmt[c].got, [id \in stmt[c].got |-> Image(stmt[c], c, rows[id])])
  BY DEF Commit
<1>5. /\ DOMAIN rows' = DOMAIN rows
      /\ rows' = [id \in DOMAIN rows |-> rows'[id]]
      /\ \A id \in DOMAIN rows :
            rows'[id] = IF id \in stmt[c].got THEN Image(stmt[c], c, rows[id]) ELSE rows[id]
  BY <1>4 DEF Updated
<1>6. stmt' = [stmt EXCEPT ![c] = Nothing] /\ now' = now
  BY DEF Commit
<1>7. /\ stmt' = [d \in Caller |-> stmt'[d]]
      /\ \A d \in Caller : stmt'[d] = IF d = c THEN Nothing ELSE stmt[d]
  BY <1>6, OneSession DEF PgIInv
<1> QED
  BY <1>1, <1>2, <1>3, <1>5, <1>6, <1>7

LEMMA CommitKeeps ==
  ASSUME PgIInv, NEW c \in Caller, Commit(c)
  PROVE  TableOK' /\ SessionsOK' /\ LocksOK'
<1> DEFINE s == stmt[c]
<1>1. /\ s # Nothing /\ IsStatement(s) /\ s.at <= now
      /\ s.got \subseteq Where(s, rows)
      /\ s.got \subseteq DOMAIN rows
      /\ DOMAIN rows' = DOMAIN rows
      /\ rows' = [id \in DOMAIN rows |-> rows'[id]]
      /\ \A id \in DOMAIN rows :
            rows'[id] = IF id \in s.got THEN Image(s, c, rows[id]) ELSE rows[id]
      /\ stmt' = [d \in Caller |-> stmt'[d]]
      /\ \A d \in Caller : stmt'[d] = IF d = c THEN Nothing ELSE stmt[d]
      /\ now' = now
  BY Committing
<1>2. TableOK'
  <2>1. ASSUME NEW id \in DOMAIN rows
        PROVE  RowOK(rows'[id], now)
    <3>1. RowOK(rows[id], now)
      BY DEF PgIInv, TableOK
    <3>2. CASE id \in s.got
      <4>1. id \in Where(s, rows) /\ s.op \in Op /\ s.at \in Nat /\ s.at <= now /\ now \in Nat
        BY <1>1, <3>2 DEF IsStatement, PgIInv, TableOK
      <4>2. RowOK(Image(s, c, rows[id]), now)
        BY <3>1, <4>1, ImageSound
      <4> QED
        BY <1>1, <3>2, <4>2
    <3> QED
      BY <1>1, <3>1, <3>2
  <2> QED
    BY <1>1, <2>1 DEF PgIInv, TableOK
<1>3. SessionsOK'
  BY <1>1 DEF PgIInv, SessionsOK
<1>4. ASSUME NEW d \in Caller, d # c, stmt[d] # Nothing, NEW id \in stmt[d].got
      PROVE  id \in Where(stmt[d], rows')
  <2>1. IsStatement(stmt[d])
    BY <1>4 DEF PgIInv, SessionsOK
  <2>2. id \in Where(stmt[d], rows)
    BY <1>4 DEF PgIInv, LocksOK
  <2>3. id \notin s.got
    BY <1>4 DEF PgIInv, LocksOK
  <2>4. id \in DOMAIN rows /\ stmt[d].op \in Op
    BY <2>1, <2>2, WhereSays DEF IsStatement
  <2>5. rows'[id] = rows[id] /\ id \in DOMAIN rows'
    BY <1>1, <2>3, <2>4
  <2> QED
    BY <2>2, <2>4, <2>5, WhereIsLocal
<1>5. ASSUME NEW d \in Caller
      PROVE  /\ stmt'[d] # Nothing => /\ stmt'[d].got \subseteq Where(stmt'[d], rows')
                                      /\ Cardinality(stmt'[d].got) <= Limit(stmt'[d].op)
             /\ \A e \in Caller \ {d} : stmt'[d].got \cap stmt'[e].got = {}
  <2>1. Nothing.got = {}
    BY DEF Nothing
  <2>2. CASE d = c
    BY <1>1, <2>1, <2>2
  <2>3. CASE d # c
    <3>1. stmt'[d] = stmt[d]
      BY <1>1, <2>3
    <3>2. stmt[d] # Nothing => stmt[d].got \subseteq Where(stmt[d], rows')
      BY <1>4, <2>3
    <3>3. stmt[d] # Nothing => Cardinality(stmt[d].got) <= Limit(stmt[d].op)
      BY DEF PgIInv, LocksOK
    <3>4. \A e \in Caller \ {d} : stmt[d].got \cap stmt'[e].got = {}
      BY <1>1, <2>1 DEF PgIInv, LocksOK
    <3> QED
      BY <3>1, <3>2, <3>3, <3>4
  <2> QED
    BY <2>2, <2>3
<1>6. LocksOK'
  BY <1>5 DEF LocksOK
<1> QED
  BY <1>2, <1>3, <1>6

LEMMA InsertKeeps ==
  ASSUME PgIInv, NEW q \in QueueName, InsertRow(q)
  PROVE  /\ TableOK' /\ SessionsOK' /\ LocksOK'
         /\ \A id \in DOMAIN rows : id \in DOMAIN rows' /\ rows'[id] = rows[id]
<1>1. PICK id \in JobId \ DOMAIN rows, at \in {now, now + 1}, limit \in AttemptLimits, pending \in BOOLEAN :
         LET status == IF pending THEN "pending" ELSE IF at > now THEN "scheduled" ELSE "available"
             row == NewRow(q, status, 1, limit, at, NoBackoffOptions)
         IN  rows' = [i \in DOMAIN rows \cup {id} |-> IF i = id THEN row ELSE rows[i]]
  BY DEF InsertRow
<1> DEFINE status == IF pending THEN "pending" ELSE IF at > now THEN "scheduled" ELSE "available"
           row == NewRow(q, status, 1, limit, at, NoBackoffOptions)
<1>2. rows' = [i \in DOMAIN rows \cup {id} |-> IF i = id THEN row ELSE rows[i]]
  BY <1>1
<1>3. status \in Waiting
  BY DEF Waiting
<1>4. at \in Nat /\ limit \in Nat \ {0} /\ 1 \in 1..4
  BY PgStatementsAssumption DEF PgIInv, TableOK
<1>5. NoBackoffOptions \in BackoffOptions
  BY BackoffAssumption DEF NoBackoffOptions, BackoffOptions
<1> HIDE DEF status
<1>6. now \in Nat /\ at \in Int
  BY <1>4 DEF PgIInv, TableOK
<1>7. RowOK(row, now)
  BY <1>3, <1>4, <1>5, <1>6, NewRowOK
<1> HIDE DEF row
<1>8. /\ DOMAIN rows' = DOMAIN rows \cup {id}
      /\ rows' = [i \in DOMAIN rows' |-> rows'[i]]
      /\ \A i \in DOMAIN rows : i \in DOMAIN rows' /\ rows'[i] = rows[i]
      /\ rows'[id] = row
  BY <1>1, <1>2
<1>9. now' = now /\ stmt' = stmt
  BY DEF InsertRow
<1>10. TableOK'
  BY <1>7, <1>8, <1>9 DEF PgIInv, TableOK
<1>11. SessionsOK'
  BY <1>9 DEF PgIInv, SessionsOK
<1>12. ASSUME NEW d \in Caller, stmt[d] # Nothing, NEW i \in stmt[d].got
       PROVE  i \in Where(stmt[d], rows')
  <2>1. stmt[d].op \in Op
    BY <1>12 DEF PgIInv, SessionsOK, IsStatement
  <2>2. i \in Where(stmt[d], rows)
    BY <1>12 DEF PgIInv, LocksOK
  <2>3. i \in DOMAIN rows
    BY <2>1, <2>2, WhereSays
  <2> QED
    BY <1>8, <2>1, <2>2, <2>3, WhereIsLocal
<1>13. LocksOK'
  BY <1>9, <1>12 DEF PgIInv, LocksOK
<1> QED
  BY <1>8, <1>10, <1>11, <1>13
-----------------------------------------------------------------------------
(* The invariant. *)

LEMMA RollBackKeeps ==
  ASSUME PgIInv, NEW c \in Caller, RollBack(c)
  PROVE  /\ TableOK' /\ SessionsOK' /\ LocksOK'
         /\ \A d \in Caller : stmt'[d] = IF d = c THEN Nothing ELSE stmt[d]
<1>1. stmt' = [stmt EXCEPT ![c] = Nothing] /\ UNCHANGED <<rows, now>>
  BY DEF RollBack
<1> QED
  BY <1>1, SessionMoves, OneSession DEF PgIInv

LEMMA PgInvariantInit == PgInit => PgIInv
<1> SUFFICES ASSUME PgInit
             PROVE  PgIInv
  OBVIOUS
<1>1. TableOK
  BY DEF PgInit, TableOK
<1>2. SessionsOK /\ LocksOK
  BY DEF PgInit, SessionsOK, LocksOK, Nothing
<1>3. RacersOK
  BY DEF PgInit, RacersOK, Nothing
<1> QED
  BY <1>1, <1>2, <1>3 DEF PgIInv

\* Which claims are under way when their queue is paused.
LEMMA RacersKept ==
  ASSUME PgIInv, PgNext
  PROVE  RacersOK'
<1>1. RacersOK
  BY DEF PgIInv
<1>2. Nothing.op # "claim" /\ Nothing.op = "none"
  BY DEF Nothing
<1>3. ASSUME NEW c \in Caller, NEW q \in QueueName, BeginClaim(c, q)
      PROVE  RacersOK'
  <2>1. /\ \A d \in Caller : stmt'[d] = IF d = c THEN Begun("claim", q) ELSE stmt[d]
        /\ Begun("claim", q).arg = q
    BY <1>3, BeginKeeps DEF BeginClaim, Op
  <2>2. q \notin paused /\ UNCHANGED <<paused, racing>>
    BY <1>3 DEF BeginClaim, Begin
  <2> QED
    BY <1>1, <2>1, <2>2 DEF RacersOK
<1>4. ASSUME NEW c \in Caller, NEW op \in ByRow \cup Batch, NEW arg, Begin(c, op, arg)
      PROVE  RacersOK'
  <2>1. /\ \A d \in Caller : stmt'[d] = IF d = c THEN Begun(op, arg) ELSE stmt[d]
        /\ Begun(op, arg).op = op
    BY <1>4, BeginKeeps DEF Op
  <2>2. op # "claim" /\ UNCHANGED <<paused, racing>>
    BY <1>4 DEF Begin, ByRow, Batch
  <2> QED
    BY <1>1, <2>1, <2>2 DEF RacersOK
<1>5. ASSUME NEW c \in Caller, Commit(c) \/ RollBack(c)
      PROVE  RacersOK'
  <2>1. \A d \in Caller : stmt'[d] = IF d = c THEN Nothing ELSE stmt[d]
    BY <1>5, Committing, RollBackKeeps
  <2>2. paused' = paused /\ racing' = racing \ {c}
    BY <1>5 DEF Commit, RollBack
  <2> QED
    BY <1>1, <1>2, <2>1, <2>2 DEF RacersOK
<1>6. ASSUME NEW c \in Caller, NEW id, LockRow(c, id) \/ PassOver(c, id)
      PROVE  RacersOK'
  <2>1. \A d \in Caller : stmt'[d].op = stmt[d].op /\ (stmt[d].op # "none" => stmt'[d].arg = stmt[d].arg)
    BY <1>6, LockRowKeeps, PassOverKeeps
  <2>2. UNCHANGED <<paused, racing>>
    BY <1>6 DEF LockRow, PassOver
  <2> QED
    BY <1>1, <2>1, <2>2 DEF RacersOK
<1>7. ASSUME NEW q \in QueueName, InsertRow(q) \/ PauseQueue(q) \/ ResumeQueue(q)
      PROVE  RacersOK'
  BY <1>1, <1>7 DEF RacersOK, InsertRow, PauseQueue, ResumeQueue
<1>8. CASE Tick
  BY <1>1, <1>8 DEF RacersOK, Tick
<1> QED
  BY <1>3, <1>4, <1>5, <1>6, <1>7, <1>8
     DEF PgNext, SessionStep, Proceed, BeginByRow, BeginBatch

LEMMA PgInvariantKept == PgIInv /\ [PgNext]_pgVars => PgIInv'
<1> SUFFICES ASSUME PgIInv, [PgNext]_pgVars
             PROVE  PgIInv'
  OBVIOUS
<1>1. CASE UNCHANGED pgVars
  BY <1>1 DEF PgIInv, TableOK, SessionsOK, LocksOK, RacersOK, pgVars
<1>2. CASE PgNext
  <2>1. ASSUME NEW c \in Caller, NEW op \in Op, NEW arg, Begin(c, op, arg)
        PROVE  TableOK' /\ SessionsOK' /\ LocksOK'
    BY <2>1, BeginKeeps
  <2>2. ASSUME NEW c \in Caller, Proceed(c) \/ RollBack(c)
        PROVE  TableOK' /\ SessionsOK' /\ LocksOK'
    BY <2>2, LockRowKeeps, PassOverKeeps, CommitKeeps, RollBackKeeps DEF Proceed
  <2>3. ASSUME NEW q \in QueueName, InsertRow(q)
        PROVE  TableOK' /\ SessionsOK' /\ LocksOK'
    BY <2>3, InsertKeeps
  <2>4. ASSUME NEW q \in QueueName, PauseQueue(q) \/ ResumeQueue(q)
        PROVE  TableOK' /\ SessionsOK' /\ LocksOK'
    BY <2>4 DEF PgIInv, TableOK, SessionsOK, LocksOK, PauseQueue, ResumeQueue
  <2>5. ASSUME Tick
        PROVE  TableOK' /\ SessionsOK' /\ LocksOK'
    <3>1. now \in Nat /\ now' = now + 1 /\ UNCHANGED <<rows, stmt>>
      BY <2>5 DEF PgIInv, TableOK, Tick
    <3>2. TableOK'
      BY <3>1, LaterRowOK DEF PgIInv, TableOK
    <3>3. \A c \in Caller : stmt[c] = Nothing \/ (IsStatement(stmt[c]) /\ stmt[c].at <= now')
      <4>1. ASSUME NEW c \in Caller, IsStatement(stmt[c]), stmt[c].at <= now
            PROVE  stmt[c].at <= now'
        BY <3>1, <4>1 DEF IsStatement
      <4> QED
        BY <4>1 DEF PgIInv, SessionsOK
    <3>4. SessionsOK'
      BY <3>1, <3>3 DEF PgIInv, SessionsOK
    <3>5. LocksOK'
      BY <3>1 DEF PgIInv, LocksOK
    <3> QED
      BY <3>2, <3>4, <3>5
  <2>6. TableOK' /\ SessionsOK' /\ LocksOK'
    BY <1>2, <2>1, <2>2, <2>3, <2>4, <2>5
       DEF PgNext, SessionStep, BeginClaim, BeginByRow, BeginBatch, Op
  <2> QED
    BY <1>2, <2>6, RacersKept DEF PgIInv
<1> QED
  BY <1>1, <1>2

\* What a statement has locked is what it asks for and nobody else's,
\* whatever the other sessions do; a waiting row always has an attempt left.
THEOREM PgInvariantHolds == PgSpec => []PgIInv
<1> QED
  BY PgInvariantInit, PgInvariantKept, PTL DEF PgSpec

\* However statements overlap, a row counts its attempts and failures right,
\* is finalized and has a result exactly when its status says so, was not
\* claimed early, and, if it is running, has a lock that FailExpiredJobs will
\* see expire within LockDuration from now unless somebody renews it.  These
\* are JobQueue's AttemptsWithinLimit, ErrorPerFailedAttempt,
\* FinalizedExactlyWhenFinal, NeverEarly and all of RunningIsRecoverable but
\* its lower bound, of PGDriver's statements in sessions side by side.
THEOREM RowsStaySound == PgSpec => [](\A id \in DOMAIN rows : RowOK(rows[id], now))
<1>1. PgIInv => \A id \in DOMAIN rows : RowOK(rows[id], now)
  BY DEF PgIInv, TableOK
<1> QED
  BY <1>1, PgInvariantHolds, PTL

\* FOR UPDATE and the WHERE clause evaluated again on the locked version:
\* what a statement of PGDriver has locked satisfies its clause until it
\* commits, no row is locked twice and no LIMIT is exceeded, for any number
\* of sessions.
THEOREM LockedRowsStaySelected == PgSpec => []LocksHold
<1>1. PgIInv => LocksHold
  BY DEF PgIInv, LocksOK, LocksHold, Locked
<1> QED
  BY <1>1, PgInvariantHolds, PTL

\* The statements that wait for a row, the UPDATEs by id, have no row while
\* they wait, and the others skip what is locked: no set of sessions waits
\* in a circle.
THEOREM NobodyWaitsInACircle == PgSpec => []WaitersHoldNothing
<1>1. ASSUME PgIInv, NEW c \in Caller, NEW id \in JobId, ComesTo(c, id), ~SkipsLocked(stmt[c].op)
      PROVE  stmt[c].got = {}
  <2>1. stmt[c] # Nothing /\ Cardinality(stmt[c].got) < Limit(stmt[c].op)
    BY <1>1 DEF ComesTo
  <2>2. Limit(stmt[c].op) = 1
    BY <1>1 DEF SkipsLocked, Limit
  <2>3. IsFiniteSet(stmt[c].got)
    BY <1>1, <2>1 DEF PgIInv, SessionsOK, IsStatement
  <2>4. Cardinality(stmt[c].got) = 0
    BY <2>1, <2>2, <2>3, FS_CardinalityType
  <2> QED
    BY <2>3, <2>4, FS_EmptySet
<1>2. PgIInv => WaitersHoldNothing
  BY <1>1 DEF WaitersHoldNothing
<1> QED
  BY <1>2, PgInvariantHolds, PTL
-----------------------------------------------------------------------------
(* What a step may do to a row that is there. *)

\* Only a commit writes such a row.
LEMMA WrittenByCommit ==
  ASSUME PgIInv, [PgNext]_pgVars, NEW id \in DOMAIN rows, rows'[id] # rows[id]
  PROVE  \E c \in Caller : Commit(c)
<1>1. ASSUME NEW q \in QueueName, InsertRow(q)
      PROVE  rows'[id] = rows[id]
  BY <1>1, InsertKeeps
<1>2. PgNext /\ rows' # rows /\ ~\E q \in QueueName : InsertRow(q)
  BY <1>1 DEF pgVars
<1> QED
  BY <1>2 DEF PgNext, SessionStep, Proceed, BeginClaim, BeginByRow, BeginBatch, Begin,
              LockRow, PassOver, RollBack, PauseQueue, ResumeQueue, Tick

\* And only the rows it has locked.
LEMMA CommitWrites ==
  ASSUME PgIInv, NEW c \in Caller, Commit(c), NEW id \in DOMAIN rows, rows'[id] # rows[id]
  PROVE  /\ id \in stmt[c].got
         /\ IsStatement(stmt[c]) /\ stmt[c].at <= now
         /\ id \in Where(stmt[c], rows)
         /\ RowOK(rows[id], now)
         /\ rows'[id] = Image(stmt[c], c, rows[id])
  BY Committing DEF PgIInv, TableOK

LEMMA OnlyExpiryBlamesTheLock ==
  ASSUME PgIInv, [PgNext]_pgVars, NEW id \in DOMAIN rows,
         rows'[id].errors = Append(rows[id].errors, "lock_expired")
  PROVE  rows[id].lock_expires_at < now
<1> DEFINE Messages == {"failed", "lock_expired"}
<1>1. rows[id].errors \in Seq(Messages) /\ rows[id] \in JobRow
  BY DEF PgIInv, TableOK, RowOK, JobRow
<1>2. \A a \in Messages : /\ rows[id].errors # Append(rows[id].errors, a)
                          /\ Append(rows[id].errors, a) = Append(rows[id].errors, "lock_expired") => a = "lock_expired"
  BY <1>1, AnEntryIsNew
<1>3. rows'[id] # rows[id]
  BY <1>2
<1>4. PICK c \in Caller : Commit(c)
  BY <1>3, WrittenByCommit
<1>5. /\ IsStatement(stmt[c]) /\ stmt[c].at <= now
      /\ id \in Where(stmt[c], rows)
      /\ RowOK(rows[id], now)
      /\ rows'[id] = Image(stmt[c], c, rows[id])
  BY <1>3, <1>4, CommitWrites
<1>6. stmt[c].op \in Op /\ stmt[c].at \in Nat /\ now \in Nat
  BY <1>5 DEF IsStatement, PgIInv, TableOK
<1>7. stmt[c].op = "fail_expired"
  BY <1>2, <1>5, <1>6, ImageSound
<1>8. rows[id].lock_expires_at # Null /\ rows[id].lock_expires_at < stmt[c].at
  BY <1>5, <1>6, <1>7, WhereSays
<1>9. rows[id].lock_expires_at \in Int /\ now \in Nat
  BY <1>1, <1>8 DEF JobRow, PgIInv, TableOK
<1> QED
  BY <1>5, <1>6, <1>8, <1>9

\* FailExpiredJobs looks at the lock again once it has the row: whenever it
\* fails an attempt, the lock of that attempt, as last committed, has run
\* out, so a heartbeat that commits first saves its job.
THEOREM RenewalsAreSeen == PgSpec => RenewedLockSurvives
<1>1. ASSUME PgIInv, [PgNext]_pgVars, NEW id \in DOMAIN rows
      PROVE  rows'[id].errors = Append(rows[id].errors, "lock_expired") => rows[id].lock_expires_at < now
  BY <1>1, OnlyExpiryBlamesTheLock
<1>2. PgIInv /\ [PgNext]_pgVars =>
        [\A id \in DOMAIN rows :
           rows'[id].errors = Append(rows[id].errors, "lock_expired") => rows[id].lock_expires_at < now]_pgVars
  BY <1>1
<1> QED
  BY <1>2, PgInvariantHolds, PTL DEF PgSpec, RenewedLockSurvives

\* No statement under way when a job finishes can still touch its row,
\* although it may have chosen the row while the job was not finished; and
\* no row vanishes.  FinalIsForever of JobQueue, of overlapping statements.
THEOREM FinishedRowsStay ==
  PgSpec => [][\A id \in DOMAIN rows :
                 /\ id \in DOMAIN rows'
                 /\ rows[id].status \in Final => rows'[id] = rows[id]]_pgVars
<1>1. ASSUME PgIInv, [PgNext]_pgVars, NEW id \in DOMAIN rows, rows[id].status \in Final
      PROVE  rows'[id] = rows[id]
  <2> SUFFICES ASSUME rows'[id] # rows[id]
               PROVE  FALSE
    OBVIOUS
  <2>1. PICK c \in Caller : Commit(c)
    BY <1>1, WrittenByCommit
  <2>2. IsStatement(stmt[c]) /\ id \in Where(stmt[c], rows)
    BY <1>1, <2>1, CommitWrites
  <2>3. rows[id].status \notin Final
    BY <2>2, WhereSays DEF IsStatement, Op, ByRow, Batch, Final
  <2> QED
    BY <1>1, <2>3
<1>2. ASSUME PgIInv, [PgNext]_pgVars, NEW id \in DOMAIN rows
      PROVE  id \in DOMAIN rows'
  <2>1. ASSUME NEW c \in Caller, Commit(c)
        PROVE  id \in DOMAIN rows'
    BY <1>2, <2>1, Committing
  <2>2. ASSUME NEW q \in QueueName, InsertRow(q)
        PROVE  id \in DOMAIN rows'
    BY <1>2, <2>2, InsertKeeps
  <2>3. CASE rows' = rows
    BY <2>3
  <2> QED
    BY <1>2, <2>1, <2>2, <2>3
       DEF PgNext, SessionStep, Proceed, BeginClaim, BeginByRow, BeginBatch, Begin,
           LockRow, PassOver, RollBack, PauseQueue, ResumeQueue, Tick, pgVars
<1>3. PgIInv /\ [PgNext]_pgVars =>
        [\A id \in DOMAIN rows :
           /\ id \in DOMAIN rows'
           /\ rows[id].status \in Final => rows'[id] = rows[id]]_pgVars
  BY <1>1, <1>2
<1> QED
  BY <1>3, PgInvariantHolds, PTL DEF PgSpec

\* A statement that is not a batch has a LIMIT of one, or one id.
LEMMA OneRowAtMost ==
  ASSUME PgIInv, NEW c \in Caller, stmt[c].op \in Op \ Batch
  PROVE  stmt[c].got = {} \/ \E id : stmt[c].got = {id}
<1>1. stmt[c] # Nothing /\ Limit(stmt[c].op) = 1
  BY NotNothing DEF Limit
<1>2. Cardinality(stmt[c].got) <= 1 /\ IsFiniteSet(stmt[c].got)
  BY <1>1 DEF PgIInv, LocksOK, SessionsOK, IsStatement
<1>3. Cardinality(stmt[c].got) \in Nat
  BY <1>2, FS_CardinalityType
<1>4. Cardinality(stmt[c].got) = 0 \/ Cardinality(stmt[c].got) = 1
  BY <1>2, <1>3
<1> QED
  BY <1>2, <1>4, FS_EmptySet, FS_Singleton

LEMMA AttemptsBeginByClaim ==
  ASSUME PgIInv, [PgNext]_pgVars, NEW id \in DOMAIN rows,
         rows'[id].attempt > rows[id].attempt, rows[id].queue \in paused
  PROVE  \E c \in racing : stmt[c].got = {id} /\ stmt'[c] = Nothing
<1>1. rows[id].attempt \in Nat
  BY DEF PgIInv, TableOK, RowOK, JobRow
<1>2. rows'[id] # rows[id]
  BY <1>1
<1>3. PICK c \in Caller : Commit(c)
  BY <1>2, WrittenByCommit
<1>4. /\ id \in stmt[c].got
      /\ IsStatement(stmt[c]) /\ stmt[c].at <= now
      /\ id \in Where(stmt[c], rows)
      /\ RowOK(rows[id], now)
      /\ rows'[id] = Image(stmt[c], c, rows[id])
  BY <1>2, <1>3, CommitWrites
<1>5. stmt[c].op \in Op /\ stmt[c].at \in Nat /\ IsFiniteSet(stmt[c].got) /\ now \in Nat
  BY <1>4 DEF IsStatement, PgIInv, TableOK
<1>6. stmt[c].op = "claim"
  <2>1. stmt[c].op # "claim" => rows'[id].attempt = rows[id].attempt
    BY <1>4, <1>5, ImageSound
  <2> QED
    BY <1>1, <2>1
<1>7. stmt[c].arg \in paused
  BY <1>4, <1>5, <1>6, WhereSays
<1>8. c \in racing
  BY <1>6, <1>7 DEF PgIInv, RacersOK
<1>9. stmt[c].got = {id}
  BY <1>4, <1>6, OneRowAtMost DEF Op, Batch
<1>10. stmt'[c] = Nothing
  BY <1>3, Committing
<1> QED
  BY <1>8, <1>9, <1>10

\* ClaimJob reads paused_at in the snapshot its candidates come from: an
\* attempt that begins in a paused queue belongs to a claim that was under
\* way when the queue was paused.
THEOREM OnlyRacersPassAPause == PgSpec => PauseLetsOnlyRacersThrough
<1>1. ASSUME PgIInv, [PgNext]_pgVars, NEW id \in DOMAIN rows
      PROVE  /\ rows'[id].attempt > rows[id].attempt
             /\ rows[id].queue \in paused
             => \E c \in racing : stmt[c].got = {id} /\ stmt'[c] = Nothing
  BY <1>1, AttemptsBeginByClaim
<1>2. PgIInv /\ [PgNext]_pgVars =>
        [\A id \in DOMAIN rows :
           /\ rows'[id].attempt > rows[id].attempt
           /\ rows[id].queue \in paused
           => \E c \in racing : stmt[c].got = {id} /\ stmt'[c] = Nothing]_pgVars
  BY <1>1
<1> QED
  BY <1>2, PgInvariantHolds, PTL DEF PgSpec, PauseLetsOnlyRacersThrough
-----------------------------------------------------------------------------
(* The sessions together implement JobLifecycle. *)

LEMMA LifeOfRow ==
  ASSUME PgIInv, NEW j \in DOMAIN rows
  PROVE  j \in JobId /\ Lives[j] = LifeOf(rows[j]) /\ RowOK(rows[j], now)
  BY DEF PgIInv, TableOK, Lives

\* What a statement makes of the life of a row it has locked.
LifeStep(op, old, new) ==
  /\ op = "claim" => /\ old.phase = "waiting" /\ old.attempt < old.limit
                     /\ new = [phase |-> "running", attempt |-> old.attempt + 1, limit |-> old.limit]
  /\ op = "complete" => old.phase = "running" /\ new = [old EXCEPT !.phase = "completed"]
  /\ op = "cancel" => old.phase \in {"waiting", "running"} /\ new = [old EXCEPT !.phase = "cancelled"]
  /\ op \in {"fail", "fail_expired"} =>
        /\ old.phase = "running"
        /\ new = [old EXCEPT !.phase = IF old.attempt < old.limit THEN "waiting" ELSE "discarded"]
  /\ op \in {"heartbeat", "promote", "promote_due"} => new = old

LEMMA LifeOfImage ==
  ASSUME NEW s, s.op \in Op, NEW c, NEW t, NEW id \in Where(s, t),
         NEW time, RowOK(t[id], time)
  PROVE  LifeStep(s.op, LifeOf(t[id]), LifeOf(Image(s, c, t[id])))
<1> SUFFICES ASSUME NEW old, old = LifeOf(t[id]), NEW new, new = LifeOf(Image(s, c, t[id]))
             PROVE  LifeStep(s.op, old, new)
  OBVIOUS
<1> DEFINE r == t[id]
<1>1. r \in JobRow /\ (r.status \in Waiting => r.attempt < r.max_attempts)
  BY DEF RowOK, AttemptsOK
<1>2. old = [phase |-> PhaseOf(r.status), attempt |-> r.attempt, limit |-> r.max_attempts]
  BY DEF LifeOf
<1>3. CASE s.op = "claim"
  <2>1. r.status = "available"
    BY <1>3, WhereSays
  <2>2. LET n == ClaimedRow(r, c, s.at)
        IN  n.status = "running" /\ n.attempt = r.attempt + 1 /\ n.max_attempts = r.max_attempts
    BY <1>1 DEF ClaimedRow, JobRow
  <2>3. new = LifeOf(ClaimedRow(r, c, s.at))
    BY <1>3, ImageSays
  <2> QED
    BY <1>1, <1>2, <1>3, <2>1, <2>2, <2>3 DEF LifeStep, LifeOf, PhaseOf, Waiting
<1>4. CASE s.op = "complete"
  <2>1. r.status = "running"
    BY <1>4, WhereSays
  <2>2. LET n == CompletedRow(r, c)
        IN  n.status = "completed" /\ n.attempt = r.attempt /\ n.max_attempts = r.max_attempts
    BY <1>1 DEF CompletedRow, JobRow
  <2>3. new = LifeOf(CompletedRow(r, c))
    BY <1>4, ImageSays
  <2> QED
    BY <1>1, <1>2, <1>4, <2>1, <2>2, <2>3 DEF LifeStep, LifeOf, PhaseOf, Waiting
<1>5. CASE s.op = "cancel"
  <2>1. r.status \in Waiting \cup {"running"}
    BY <1>1, <1>5, WhereSays DEF JobRow, Status
  <2>2. LET n == CancelledRow(r)
        IN  n.status = "cancelled" /\ n.attempt = r.attempt /\ n.max_attempts = r.max_attempts
    BY <1>1 DEF CancelledRow, JobRow
  <2>3. new = LifeOf(CancelledRow(r))
    BY <1>5, ImageSays
  <2> QED
    BY <1>1, <1>2, <1>5, <2>1, <2>2, <2>3 DEF LifeStep, LifeOf, PhaseOf, Waiting
<1>6. CASE s.op \in {"fail", "fail_expired"}
  <2>1. r.status = "running"
    BY <1>6, WhereSays
  <2>2. new = [old EXCEPT !.phase = IF r.attempt < r.max_attempts THEN "waiting" ELSE "discarded"]
    BY <1>1, <1>6, ImageSays, LifeOfFailed
  <2>3. old.phase = "running" /\ old.attempt = r.attempt /\ old.limit = r.max_attempts
    BY <2>1 DEF LifeStep, LifeOf, PhaseOf, Waiting
  <2> QED
    BY <1>6, <2>2, <2>3 DEF LifeStep
<1>7. CASE s.op = "heartbeat"
  <2>1. LET n == HeartbeatRow(r, s.at)
        IN  n.status = r.status /\ n.attempt = r.attempt /\ n.max_attempts = r.max_attempts
    BY <1>1 DEF HeartbeatRow, JobRow
  <2>2. new = LifeOf(HeartbeatRow(r, s.at))
    BY <1>7, ImageSays
  <2> QED
    BY <1>7, <2>1, <2>2 DEF LifeStep, LifeOf
<1>8. CASE s.op \in {"promote", "promote_due"}
  <2>1. r.status \in Waiting
    BY <1>8, WhereSays DEF Waiting
  <2>2. PICK status \in Waiting : Image(s, c, r) = [r EXCEPT !.status = status]
    BY <1>8, ImageSays DEF ReleasedRow, PromotedRow, Waiting
  <2>3. LET n == [r EXCEPT !.status = status]
        IN  n.status \in Waiting /\ n.attempt = r.attempt /\ n.max_attempts = r.max_attempts
    BY <1>1 DEF JobRow
  <2> QED
    BY <1>8, <2>1, <2>2, <2>3 DEF LifeStep, LifeOf, PhaseOf
<1> QED
  BY <1>3, <1>4, <1>5, <1>6, <1>7, <1>8 DEF Op, ByRow, Batch

\* The lives after a commit.
LEMMA LivesAfterCommit ==
  ASSUME PgIInv, NEW c \in Caller, Commit(c)
  PROVE  /\ stmt[c].op \in Op
         /\ stmt[c].got \subseteq JobId
         /\ Lives' = [j \in JobId |-> Lives'[j]]
         /\ \A j \in JobId : j \notin stmt[c].got => Lives'[j] = Lives[j]
         /\ \A j \in stmt[c].got : /\ j \in Where(stmt[c], rows)
                                   /\ RowOK(rows[j], now)
                                   /\ Lives[j] = LifeOf(rows[j])
                                   /\ Lives'[j] = LifeOf(Image(stmt[c], c, rows[j]))
<1>1. /\ IsStatement(stmt[c])
      /\ stmt[c].got \subseteq Where(stmt[c], rows)
      /\ stmt[c].got \subseteq DOMAIN rows
      /\ DOMAIN rows' = DOMAIN rows
      /\ \A id \in DOMAIN rows :
            rows'[id] = IF id \in stmt[c].got THEN Image(stmt[c], c, rows[id]) ELSE rows[id]
  BY Committing
<1>2. \A j \in DOMAIN rows : j \in JobId /\ Lives[j] = LifeOf(rows[j]) /\ RowOK(rows[j], now)
  BY LifeOfRow
<1>3. Lives' = [j \in JobId |-> Lives'[j]]
  BY DEF Lives
<1>4. \A j \in JobId : Lives'[j] = IF j \in DOMAIN rows THEN LifeOf(rows'[j]) ELSE NoLife
  BY <1>1 DEF Lives
<1>5. \A j \in JobId : Lives[j] = IF j \in DOMAIN rows THEN LifeOf(rows[j]) ELSE NoLife
  BY DEF Lives
<1>6. \A j \in JobId : j \notin stmt[c].got => Lives'[j] = Lives[j]
  BY <1>1, <1>4, <1>5
<1>7. \A j \in stmt[c].got : Lives'[j] = LifeOf(Image(stmt[c], c, rows[j]))
  BY <1>1, <1>2, <1>4
<1> QED
  BY <1>1, <1>2, <1>3, <1>6, <1>7 DEF IsStatement

LEMMA CommitIsLifecycleStep ==
  ASSUME PgIInv, NEW c \in Caller, Commit(c)
  PROVE  [Lifecycle!Next]_Lives
<1> DEFINE s == stmt[c]
<1>1. /\ s.op \in Op
      /\ s.got \subseteq JobId
      /\ Lives' = [j \in JobId |-> Lives'[j]]
      /\ \A j \in JobId : j \notin s.got => Lives'[j] = Lives[j]
      /\ \A j \in s.got : /\ j \in Where(s, rows)
                          /\ RowOK(rows[j], now)
                          /\ Lives[j] = LifeOf(rows[j])
                          /\ Lives'[j] = LifeOf(Image(s, c, rows[j]))
  BY LivesAfterCommit
<1>2. Lives = [j \in JobId |-> Lives[j]]
  BY DEF Lives
<1> HIDE DEF s
<1>3. ASSUME NEW j \in s.got
      PROVE  LifeStep(s.op, Lives[j], Lives'[j])
  <2>1. s.op \in Op /\ j \in Where(s, rows) /\ RowOK(rows[j], now)
    BY <1>1
  <2>2. Lives[j] = LifeOf(rows[j]) /\ Lives'[j] = LifeOf(Image(s, c, rows[j]))
    BY <1>1
  <2>3. LifeStep(s.op, LifeOf(rows[j]), LifeOf(Image(s, c, rows[j])))
    BY <2>1, LifeOfImage
  <2> QED
    BY <2>2, <2>3
<1>4. CASE s.got = {} \/ s.op \in {"heartbeat", "promote", "promote_due"}
  <2>1. \A j \in JobId : Lives'[j] = Lives[j]
    BY <1>1, <1>3, <1>4 DEF LifeStep
  <2> QED
    BY <1>1, <1>2, <2>1
<1>5. CASE s.op \in {"fail", "fail_expired"}
  <2>1. Lives' = [j \in JobId |->
                    IF j \notin s.got THEN Lives[j]
                    ELSE [Lives[j] EXCEPT !.phase = IF Lives[j].attempt < Lives[j].limit
                                                    THEN "waiting" ELSE "discarded"]]
    BY <1>1, <1>3, <1>5 DEF LifeStep
  <2>2. Lifecycle!Fail(s.got)
    BY <1>3, <1>5, <2>1 DEF LifeStep, Lifecycle!Fail
  <2> QED
    BY <1>1, <2>2 DEF Lifecycle!Next
<1>6. ASSUME NEW id, s.got = {id}, s.op \in {"claim", "complete", "cancel"}
      PROVE  Lifecycle!Next
  <2>1. id \in JobId /\ Lives' = [Lives EXCEPT ![id] = Lives'[id]]
    BY <1>1, <1>2, <1>6
  <2>2. CASE s.op = "claim"
    BY <1>3, <1>6, <2>1, <2>2 DEF LifeStep, Lifecycle!Next, Lifecycle!Start
  <2>3. CASE s.op = "complete"
    <3>1. Lives' = [Lives EXCEPT ![id].phase = "completed"]
      BY <1>2, <1>3, <1>6, <2>1, <2>3 DEF LifeStep
    <3> QED
      BY <1>3, <1>6, <2>1, <2>3, <3>1 DEF LifeStep, Lifecycle!Next, Lifecycle!Succeed
  <2>4. CASE s.op = "cancel"
    <3>1. Lives' = [Lives EXCEPT ![id].phase = "cancelled"]
      BY <1>2, <1>3, <1>6, <2>1, <2>4 DEF LifeStep
    <3> QED
      BY <1>3, <1>6, <2>1, <2>4, <3>1 DEF LifeStep, Lifecycle!Next, Lifecycle!Cancel
  <2> QED
    BY <1>6, <2>2, <2>3, <2>4
<1>7. CASE s.op \in {"claim", "complete", "cancel"}
  <2>1. s.got = {} \/ \E id : s.got = {id}
    BY <1>7, OneRowAtMost DEF s, Op, ByRow, Batch
  <2> QED
    BY <1>4, <1>6, <1>7, <2>1
<1> QED
  BY <1>1, <1>4, <1>5, <1>7 DEF Op, ByRow, Batch

LEMMA InsertIsSubmit ==
  ASSUME PgIInv, NEW q \in QueueName, InsertRow(q)
  PROVE  Lifecycle!Next
<1>1. PICK id \in JobId \ DOMAIN rows, at \in {now, now + 1}, limit \in AttemptLimits, pending \in BOOLEAN :
         LET status == IF pending THEN "pending" ELSE IF at > now THEN "scheduled" ELSE "available"
             row == NewRow(q, status, 1, limit, at, NoBackoffOptions)
         IN  rows' = [i \in DOMAIN rows \cup {id} |-> IF i = id THEN row ELSE rows[i]]
  BY DEF InsertRow
<1> DEFINE status == IF pending THEN "pending" ELSE IF at > now THEN "scheduled" ELSE "available"
           row == NewRow(q, status, 1, limit, at, NoBackoffOptions)
           life == [phase |-> "waiting", attempt |-> 0, limit |-> limit]
<1>2. rows' = [i \in DOMAIN rows \cup {id} |-> IF i = id THEN row ELSE rows[i]]
  BY <1>1
<1>3. LifeOf(row) = life
  BY DEF LifeOf, NewRow, PhaseOf, Waiting
<1> HIDE DEF row
<1>4. Lives[id] = NoLife
  BY DEF Lives
<1>5. Lives' = [Lives EXCEPT ![id] = life]
  <2>1. \A j \in JobId : Lives'[j] = IF j = id THEN life ELSE Lives[j]
    BY <1>2, <1>3 DEF Lives
  <2>2. Lives' = [j \in JobId |-> Lives'[j]] /\ Lives = [j \in JobId |-> Lives[j]]
    BY DEF Lives
  <2> QED
    BY <2>1, <2>2
<1>6. Lifecycle!Submit(id, limit)
  BY <1>4, <1>5 DEF Lifecycle!Submit, NoLife
<1> QED
  BY <1>6 DEF Lifecycle!Next

LEMMA PgStepIsLifecycleStep ==
  ASSUME PgIInv, [PgNext]_pgVars
  PROVE  [Lifecycle!Next]_Lives
<1>1. CASE UNCHANGED rows
  BY <1>1 DEF Lives
<1>2. CASE \E c \in Caller : Commit(c)
  BY <1>2, CommitIsLifecycleStep
<1>3. CASE \E q \in QueueName : InsertRow(q)
  BY <1>3, InsertIsSubmit
<1>4. CASE /\ ~UNCHANGED rows
           /\ ~\E c \in Caller : Commit(c)
           /\ ~\E q \in QueueName : InsertRow(q)
  BY <1>4 DEF PgNext, pgVars, SessionStep, Proceed, BeginClaim, BeginByRow, BeginBatch, Begin,
              LockRow, PassOver, RollBack, PauseQueue, ResumeQueue, Tick
<1> QED
  BY <1>1, <1>2, <1>3, <1>4

\* The statements of PGDriver, executed side by side at READ COMMITTED by
\* any number of sessions, take every job through one life: a commit starts,
\* ends or fails the attempts of the rows it has locked, or changes no life.
\* This is what allows JobQueue its atomic steps.
THEOREM StatementsImplementLifecycle == PgSpec => ImplementsLifecycle
<1>1. PgIInv /\ [PgNext]_pgVars => [Lifecycle!Next]_Lives
  BY PgStepIsLifecycleStep
<1>2. PgInit => Lifecycle!Init
  BY DEF PgInit, Lifecycle!Init, Lifecycle!Absent, Lives, NoLife
<1> QED
  BY <1>1, <1>2, PgInvariantHolds, PTL DEF PgSpec, ImplementsLifecycle, Lifecycle!Spec
=============================================================================
