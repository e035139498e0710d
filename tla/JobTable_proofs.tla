-------------------------- MODULE JobTable_proofs --------------------------
(***************************************************************************)
(* Lemmas about the operators of JobTable, for every row and every table:  *)
(* what each SET list keeps of a row, given its WHERE clause, and what it  *)
(* may do to the row's history.  They know nothing of the order in which   *)
(* statements run; the proofs about JobQueue, whose statements are atomic, *)
(* and about PgStatements, whose statements overlap, both start here.      *)
(*                                                                         *)
(* RowOK says what is true of a row at time t.  A statement may have begun *)
(* at an earlier time, at.                                                 *)
(***************************************************************************)
EXTENDS JobTable, TLAPS

\* The attempts of a row are counted right.
AttemptsOK(r) ==
  /\ r.attempt <= r.max_attempts
  /\ r.status \in Waiting => r.attempt < r.max_attempts
  /\ Len(r.attempted_by) = r.attempt
  /\ r.status \in Waiting \cup {"discarded"} => Len(r.errors) = r.attempt
  /\ r.status \in {"running", "completed"} => Len(r.errors) = r.attempt - 1
  /\ r.status = "cancelled" => Len(r.errors) \in {r.attempt - 1, r.attempt}

FinalOK(r) ==
  /\ r.finalized <=> r.status \in Final
  /\ r.result # Null <=> r.status = "completed"

\* The times of the current attempt and of its lock.
TimesOK(r, t) ==
  /\ r.status \in {"running", "completed"} =>
        r.attempted_at \in Int /\ r.scheduled_at <= r.attempted_at
  /\ r.status = "running" =>
        r.lock_expires_at \in Int /\ r.lock_expires_at <= t + LockDuration

RowOK(r, t) == r \in JobRow /\ AttemptsOK(r) /\ FinalOK(r) /\ TimesOK(r, t)

RowsOK(table, t) == /\ DOMAIN table \subseteq JobId
                    /\ table = [id \in DOMAIN table |-> table[id]]
                    /\ \A id \in DOMAIN table : RowOK(table[id], t)
-----------------------------------------------------------------------------
(* What the SET lists do to a row. *)

LEMMA NewRowOK ==
  ASSUME NEW q \in QueueName, NEW status \in Waiting, NEW p \in 1..4,
         NEW n \in Nat \ {0}, NEW at \in Int, NEW b \in BackoffOptions, NEW t \in Nat
  PROVE  RowOK(NewRow(q, status, p, n, at, b), t)
<1> DEFINE row == NewRow(q, status, p, n, at, b)
<1>1. row \in JobRow
  BY DEF NewRow, JobRow, Status, Waiting
<1>2. row.status = status /\ row.attempt = 0 /\ row.max_attempts = n
      /\ row.attempted_by = <<>> /\ row.errors = <<>> /\ row.result = Null
      /\ row.finalized = FALSE
  BY DEF NewRow
<1>3. AttemptsOK(row)
  BY <1>2 DEF AttemptsOK, Waiting
<1>4. FinalOK(row)
  BY <1>2 DEF FinalOK, Waiting, Final
<1>5. TimesOK(row, t)
  BY <1>2 DEF TimesOK, Waiting
<1> QED
  BY <1>1, <1>3, <1>4, <1>5 DEF RowOK

LEMMA AppendKeeps ==
  ASSUME NEW S, NEW s \in Seq(S), NEW e \in S
  PROVE  /\ Append(s, e) \in Seq(S)
         /\ Len(s) \in Nat
         /\ Len(Append(s, e)) = Len(s) + 1
         /\ \A i \in 1 .. Len(s) : Append(s, e)[i] = s[i]
         /\ Append(s, e)[Len(s) + 1] = e
  OBVIOUS

LEMMA AnEntryIsNew ==
  ASSUME NEW S, NEW s \in Seq(S), NEW a \in S, NEW b \in S
  PROVE  /\ s # Append(s, a)
         /\ Append(s, a) = Append(s, b) => a = b
<1>1. Len(s) \in Nat /\ Len(Append(s, a)) = Len(s) + 1
      /\ Append(s, a)[Len(s) + 1] = a /\ Append(s, b)[Len(s) + 1] = b
  BY AppendKeeps
<1> QED
  BY <1>1

LEMMA ClaimedRowType ==
  ASSUME NEW r \in JobRow, NEW c \in Caller, NEW t \in Nat
  PROVE  ClaimedRow(r, c, t) \in JobRow
<1> DEFINE attempt == r.attempt + 1
           by == Append(r.attempted_by, c)
           lock == t + LockDuration
<1>1. attempt \in Nat /\ t \in Int \cup {Null} /\ lock \in Int \cup {Null}
      /\ "running" \in Status
  BY JobTableAssumption DEF JobRow, Status
<1>2. r.attempted_by \in Seq(Caller)
  BY DEF JobRow
<1>3. by \in Seq(Caller)
  BY <1>2, AppendKeeps
<1> HIDE DEF attempt, by, lock
<1>4. [r EXCEPT !.status = "running", !.attempt = attempt, !.attempted_at = t,
                !.attempted_by = by, !.lock_expires_at = lock] \in JobRow
  BY <1>1, <1>3 DEF JobRow
<1> QED
  BY <1>4 DEF ClaimedRow, attempt, by, lock

LEMMA ClaimedRowOK ==
  ASSUME NEW t \in Nat, NEW at \in Nat, at <= t, NEW r, RowOK(r, t), NEW c \in Caller,
         r.status = "available", r.scheduled_at <= at
  PROVE  RowOK(ClaimedRow(r, c, at), t)
<1> DEFINE row == ClaimedRow(r, c, at)
<1>1. r \in JobRow /\ AttemptsOK(r) /\ FinalOK(r)
  BY DEF RowOK
<1>2. r.attempted_by \in Seq(Caller) /\ r.attempt \in Nat /\ r.max_attempts \in Nat
      /\ r.scheduled_at \in Int /\ LockDuration \in Nat
  BY <1>1, JobTableAssumption DEF JobRow
<1>3. Len(Append(r.attempted_by, c)) = Len(r.attempted_by) + 1
  BY <1>2, AppendKeeps
<1>4. /\ row.status = "running" /\ row.attempt = r.attempt + 1 /\ row.attempted_at = at
      /\ row.attempted_by = Append(r.attempted_by, c)
      /\ row.lock_expires_at = at + LockDuration
      /\ row.max_attempts = r.max_attempts /\ row.errors = r.errors
      /\ row.finalized = r.finalized /\ row.result = r.result
      /\ row.scheduled_at = r.scheduled_at
  BY <1>1 DEF ClaimedRow, JobRow
<1>5. row \in JobRow
  BY <1>1, ClaimedRowType
<1> HIDE DEF row
<1>6. AttemptsOK(row)
  BY <1>1, <1>2, <1>3, <1>4 DEF AttemptsOK, Waiting
<1>7. FinalOK(row)
  BY <1>1, <1>4 DEF FinalOK, Final
<1>8. TimesOK(row, t)
  BY <1>2, <1>4 DEF TimesOK
<1> QED
  BY <1>5, <1>6, <1>7, <1>8 DEF RowOK, row

LEMMA CompletedRowOK ==
  ASSUME NEW t \in Nat, NEW r, RowOK(r, t), NEW c \in Caller, r.status = "running"
  PROVE  RowOK(CompletedRow(r, c), t)
<1> DEFINE row == CompletedRow(r, c)
<1>1. row \in JobRow
  BY DEF CompletedRow, RowOK, JobRow, Status, Final
<1>2. AttemptsOK(row)
  BY DEF CompletedRow, RowOK, JobRow, AttemptsOK, Waiting
<1>3. FinalOK(row)
  BY JobTableAssumption DEF CompletedRow, RowOK, JobRow, FinalOK, Final
<1>4. TimesOK(row, t)
  BY DEF CompletedRow, RowOK, JobRow, TimesOK
<1> QED
  BY <1>1, <1>2, <1>3, <1>4 DEF RowOK

LEMMA FailedRowType ==
  ASSUME NEW r \in JobRow, NEW t \in Nat, NEW delay \in Int,
         NEW message \in {"failed", "lock_expired"}
  PROVE  FailedRow(r, t, delay, message) \in JobRow
<1> DEFINE errors == Append(r.errors, message)
           scheduled == t + delay
<1>1. scheduled \in Int
  OBVIOUS
<1>2. r.errors \in Seq({"failed", "lock_expired"})
  BY DEF JobRow
<1>3. errors \in Seq({"failed", "lock_expired"})
  BY <1>2, AppendKeeps
<1> HIDE DEF errors, scheduled
<1>4. [r EXCEPT !.status = "discarded", !.errors = errors, !.finalized = TRUE] \in JobRow
  BY <1>3 DEF JobRow, Status, Final
<1>5. [r EXCEPT !.status = "retryable", !.scheduled_at = scheduled, !.errors = errors,
                !.finalized = FALSE] \in JobRow
  BY <1>1, <1>3 DEF JobRow, Status, Waiting
<1> QED
  BY <1>4, <1>5 DEF FailedRow, errors, scheduled

LEMMA FailedRowOK ==
  ASSUME NEW t \in Nat, NEW at \in Nat, at <= t, NEW r, RowOK(r, t), r.status = "running",
         NEW delay \in Int, NEW message \in {"failed", "lock_expired"}
  PROVE  RowOK(FailedRow(r, at, delay, message), t)
<1> DEFINE row == FailedRow(r, at, delay, message)
<1>1. r \in JobRow /\ AttemptsOK(r) /\ FinalOK(r)
  BY DEF RowOK
<1>2. r.errors \in Seq({"failed", "lock_expired"}) /\ r.attempt \in Nat
      /\ r.max_attempts \in Nat
  BY <1>1 DEF JobRow
<1>3. Len(Append(r.errors, message)) = Len(r.errors) + 1
  BY <1>2, AppendKeeps
<1>4. /\ row.errors = Append(r.errors, message)
      /\ row.attempt = r.attempt /\ row.max_attempts = r.max_attempts
      /\ row.attempted_by = r.attempted_by /\ row.result = r.result
      /\ \/ r.attempt >= r.max_attempts /\ row.status = "discarded" /\ row.finalized
         \/ r.attempt < r.max_attempts /\ row.status = "retryable" /\ ~row.finalized
  <2>1. CASE r.attempt >= r.max_attempts
    <3>1. row = [r EXCEPT !.status = "discarded", !.errors = Append(r.errors, message),
                          !.finalized = TRUE]
      BY <2>1 DEF FailedRow
    <3> QED
      BY <1>1, <2>1, <3>1 DEF JobRow
  <2>2. CASE r.attempt < r.max_attempts
    <3>1. row = [r EXCEPT !.status = "retryable", !.scheduled_at = at + delay,
                          !.errors = Append(r.errors, message), !.finalized = FALSE]
      BY <1>2, <2>2 DEF FailedRow
    <3> QED
      BY <1>1, <2>2, <3>1 DEF JobRow
  <2> QED
    BY <1>2, <2>1, <2>2
<1>5. row \in JobRow
  BY <1>1, FailedRowType
<1> HIDE DEF row
<1>6. AttemptsOK(row)
  BY <1>1, <1>2, <1>3, <1>4 DEF AttemptsOK, Waiting
<1>7. FinalOK(row)
  BY <1>1, <1>4 DEF FinalOK, Final
<1>8. TimesOK(row, t)
  BY <1>4 DEF TimesOK
<1> QED
  BY <1>5, <1>6, <1>7, <1>8 DEF RowOK, row

LEMMA ExpiredRowOK ==
  ASSUME NEW t \in Nat, NEW at \in Nat, at <= t, NEW r, RowOK(r, t), r.status = "running"
  PROVE  RowOK(ExpiredRow(r, at), t)
<1> DEFINE failed == FailedRow(r, at, 0, "lock_expired")
           row == [failed EXCEPT !.lock_expires_at = Null]
<1>1. RowOK(failed, t)
  BY FailedRowOK
<1>2. failed.status \in {"discarded", "retryable"}
  BY DEF FailedRow, RowOK, JobRow
<1> HIDE DEF failed
<1>3. row \in JobRow
  BY <1>1 DEF RowOK, JobRow
<1>4. /\ row.status = failed.status /\ row.attempt = failed.attempt
      /\ row.max_attempts = failed.max_attempts /\ row.attempted_by = failed.attempted_by
      /\ row.errors = failed.errors /\ row.result = failed.result
      /\ row.finalized = failed.finalized
  BY <1>1 DEF RowOK, JobRow
<1> HIDE DEF row
<1>5. AttemptsOK(row) /\ FinalOK(row) /\ TimesOK(row, t)
  BY <1>1, <1>2, <1>4 DEF RowOK, AttemptsOK, FinalOK, TimesOK
<1> QED
  BY <1>3, <1>5 DEF RowOK, row, failed, ExpiredRow

LEMMA HeartbeatRowOK ==
  ASSUME NEW t \in Nat, NEW at \in Nat, at <= t, NEW r, RowOK(r, t), r.status = "running"
  PROVE  RowOK(HeartbeatRow(r, at), t)
<1> DEFINE row == HeartbeatRow(r, at)
<1>1. row \in JobRow
  <2>1. at + LockDuration \in Int \cup {Null}
    BY JobTableAssumption
  <2> QED
    BY <2>1 DEF HeartbeatRow, RowOK, JobRow
<1>2. AttemptsOK(row)
  BY DEF HeartbeatRow, RowOK, JobRow, AttemptsOK
<1>3. FinalOK(row)
  BY DEF HeartbeatRow, RowOK, JobRow, FinalOK
<1>4. TimesOK(row, t)
  BY JobTableAssumption DEF HeartbeatRow, RowOK, JobRow, TimesOK
<1> QED
  BY <1>1, <1>2, <1>3, <1>4 DEF RowOK

\* A row that waits may be given another waiting status.
LEMMA ReleasedRowOK ==
  ASSUME NEW t \in Nat, NEW at \in Nat, at <= t, NEW r, RowOK(r, t), r.status \in Waiting
  PROVE  RowOK(ReleasedRow(r, at), t) /\ RowOK(PromotedRow(r), t)
<1>1. ASSUME NEW s \in {"scheduled", "available"}
      PROVE  RowOK([r EXCEPT !.status = s], t)
  <2> DEFINE row == [r EXCEPT !.status = s]
  <2>1. row \in JobRow
    BY DEF RowOK, JobRow, Status, Waiting
  <2>2. AttemptsOK(row)
    BY DEF RowOK, JobRow, AttemptsOK, Waiting
  <2>3. FinalOK(row)
    BY DEF RowOK, JobRow, FinalOK, Final, Waiting
  <2>4. TimesOK(row, t)
    BY DEF RowOK, JobRow, TimesOK
  <2> QED
    BY <2>1, <2>2, <2>3, <2>4 DEF RowOK
<1> QED
  BY <1>1 DEF ReleasedRow, PromotedRow

LEMMA CancelledRowOK ==
  ASSUME NEW t \in Nat, NEW r, RowOK(r, t), r.status \notin Final
  PROVE  RowOK(CancelledRow(r), t)
<1> DEFINE row == CancelledRow(r)
<1>1. row \in JobRow
  BY DEF CancelledRow, RowOK, JobRow, Status, Final
<1>2. AttemptsOK(row)
  BY DEF CancelledRow, RowOK, JobRow, AttemptsOK, Status, Waiting, Final
<1>3. FinalOK(row)
  BY DEF CancelledRow, RowOK, JobRow, FinalOK, Final
<1>4. TimesOK(row, t)
  BY DEF CancelledRow, RowOK, JobRow, TimesOK
<1> QED
  BY <1>1, <1>2, <1>3, <1>4 DEF RowOK

\* Time only loosens what is asked of a row.
LEMMA LaterRowOK ==
  ASSUME NEW t \in Nat, NEW r
  PROVE  RowOK(r, t) => RowOK(r, t + 1)
<1>1. TimesOK(r, t) => TimesOK(r, t + 1)
  BY JobTableAssumption DEF TimesOK
<1> QED
  BY <1>1 DEF RowOK
-----------------------------------------------------------------------------
(* From rows to tables. *)

LEMMA RowChanged ==
  ASSUME NEW t \in Nat, NEW table, RowsOK(table, t),
         NEW id \in DOMAIN table, NEW row, RowOK(row, t)
  PROVE  /\ RowsOK([table EXCEPT ![id] = row], t)
         /\ DOMAIN [table EXCEPT ![id] = row] = DOMAIN table
         /\ \A i \in DOMAIN table : [table EXCEPT ![id] = row][i] = IF i = id THEN row ELSE table[i]
  BY DEF RowsOK

LEMMA RowsChanged ==
  ASSUME NEW t \in Nat, NEW table, RowsOK(table, t),
         NEW S, NEW image, \A id \in S \cap DOMAIN table : RowOK(image[id], t)
  PROVE  /\ RowsOK(Updated(table, S, image), t)
         /\ DOMAIN Updated(table, S, image) = DOMAIN table
         /\ \A i \in DOMAIN table :
               Updated(table, S, image)[i] = IF i \in S THEN image[i] ELSE table[i]
  BY DEF RowsOK, Updated

\* A batch is taken from the rows the WHERE clause selects.
LEMMA BatchIsSelected ==
  ASSUME NEW ids, NEW key, NEW n, NEW S \in Batches(ids, key, n)
  PROVE  S \subseteq ids
  BY DEF Batches
-----------------------------------------------------------------------------
(* What statements do to a row that is there. *)

\* What no statement may do to a row that is there.
Kept(table, next) ==
  \A id \in DOMAIN table : /\ id \in DOMAIN next
                           /\ next[id].queue = table[id].queue
                           /\ table[id].status \in Final => next[id] = table[id]

LEMMA NoSetListWritesQueue ==
  ASSUME NEW r \in JobRow, NEW c, NEW t, NEW d, NEW m
  PROVE  /\ ClaimedRow(r, c, t).queue = r.queue
         /\ CompletedRow(r, c).queue = r.queue
         /\ FailedRow(r, t, d, m).queue = r.queue
         /\ ExpiredRow(r, t).queue = r.queue
         /\ HeartbeatRow(r, t).queue = r.queue
         /\ ReleasedRow(r, t).queue = r.queue
         /\ PromotedRow(r).queue = r.queue
         /\ CancelledRow(r).queue = r.queue
<1>1. ClaimedRow(r, c, t).queue = r.queue /\ CompletedRow(r, c).queue = r.queue
  BY DEF JobRow, ClaimedRow, CompletedRow
<1>2. \A e, n : FailedRow(r, t, e, n).queue = r.queue
  BY DEF JobRow, FailedRow
<1>3. ExpiredRow(r, t).queue = r.queue
  <2>1. FailedRow(r, t, 0, "lock_expired").queue = r.queue
    BY <1>2
  <2> QED
    BY <2>1 DEF ExpiredRow
<1>4. HeartbeatRow(r, t).queue = r.queue /\ ReleasedRow(r, t).queue = r.queue
      /\ PromotedRow(r).queue = r.queue /\ CancelledRow(r).queue = r.queue
  BY DEF JobRow, HeartbeatRow, ReleasedRow, PromotedRow, CancelledRow
<1> QED
  BY <1>1, <1>2, <1>3, <1>4

\* A row r becomes s at time t by a client, the dashboard, the scheduler or
\* nobody.
Managed(r, s, t) ==
  \/ s = r
  \/ r.status \in Waiting /\ (s = PromotedRow(r) \/ \E at : s = ReleasedRow(r, at))
  \/ r.status \notin Final /\ s = CancelledRow(r)
  \/ /\ r.status = "running"
     /\ r.lock_expires_at # Null
     /\ r.lock_expires_at < t
     /\ s = ExpiredRow(r, t)

\* By the call of a worker c; a statement that had to wait for the row began
\* at the time since at the earliest.
Worked(r, s, c, since, t) ==
  \/ r.status = "available" /\ s = ClaimedRow(r, c, t)
  \/ /\ r.status = "running"
     /\ \/ s = CompletedRow(r, c)
        \/ \E at \in since .. t : s = HeartbeatRow(r, at)
        \/ \E at \in since .. t, delay \in Int : s = FailedRow(r, at, delay, "failed")

\* What every one of these things leaves of a row's history: attempts are
\* counted up, and what was recorded of an attempt stays.
Grown(r, s) ==
  /\ r.attempt <= s.attempt
  /\ Len(r.attempted_by) <= Len(s.attempted_by)
  /\ \A i \in 1 .. Len(r.attempted_by) : s.attempted_by[i] = r.attempted_by[i]
  /\ Len(r.errors) <= Len(s.errors)
  /\ \A i \in 1 .. Len(r.errors) : s.errors[i] = r.errors[i]
  /\ s.max_attempts = r.max_attempts

\* A statement that writes neither of the two histories.
LEMMA SameHistoryGrown ==
  ASSUME NEW r \in JobRow, NEW s, s.attempt = r.attempt, s.attempted_by = r.attempted_by,
         s.errors = r.errors, s.max_attempts = r.max_attempts
  PROVE  Grown(r, s)
<1>1. r.attempt \in Nat /\ Len(r.attempted_by) \in Nat /\ Len(r.errors) \in Nat
  BY DEF JobRow
<1> QED
  BY <1>1 DEF Grown

LEMMA ClaimGrows ==
  ASSUME NEW r \in JobRow, NEW c \in Caller, NEW t
  PROVE  Grown(r, ClaimedRow(r, c, t))
<1> DEFINE s == ClaimedRow(r, c, t)
<1>1. r.attempt \in Nat /\ r.attempted_by \in Seq(Caller) /\ Len(r.errors) \in Nat
  BY DEF JobRow
<1>2. /\ s.attempt = r.attempt + 1 /\ s.attempted_by = Append(r.attempted_by, c)
      /\ s.errors = r.errors /\ s.max_attempts = r.max_attempts
  BY DEF ClaimedRow, JobRow
<1>3. /\ Len(r.attempted_by) \in Nat
      /\ Len(Append(r.attempted_by, c)) = Len(r.attempted_by) + 1
      /\ \A i \in 1 .. Len(r.attempted_by) : Append(r.attempted_by, c)[i] = r.attempted_by[i]
  BY <1>1, AppendKeeps
<1> HIDE DEF s
<1> QED
  BY <1>1, <1>2, <1>3 DEF Grown, s

LEMMA FailGrows ==
  ASSUME NEW r \in JobRow, NEW t, NEW delay, NEW message \in {"failed", "lock_expired"}
  PROVE  Grown(r, FailedRow(r, t, delay, message))
<1> DEFINE s == FailedRow(r, t, delay, message)
<1>1. r.attempt \in Nat /\ r.errors \in Seq({"failed", "lock_expired"})
      /\ Len(r.attempted_by) \in Nat
  BY DEF JobRow
<1>2. /\ s.attempt = r.attempt /\ s.attempted_by = r.attempted_by
      /\ s.errors = Append(r.errors, message) /\ s.max_attempts = r.max_attempts
  BY DEF FailedRow, JobRow
<1>3. /\ Len(r.errors) \in Nat
      /\ Len(Append(r.errors, message)) = Len(r.errors) + 1
      /\ \A i \in 1 .. Len(r.errors) : Append(r.errors, message)[i] = r.errors[i]
  BY <1>1, AppendKeeps
<1> HIDE DEF s
<1> QED
  BY <1>1, <1>2, <1>3 DEF Grown, s

LEMMA ExpiryGrows ==
  ASSUME NEW r \in JobRow, NEW t
  PROVE  Grown(r, ExpiredRow(r, t))
<1> DEFINE f == FailedRow(r, t, 0, "lock_expired")
           s == [f EXCEPT !.lock_expires_at = Null]
<1>1. Grown(r, f)
  BY FailGrows
<1>2. f.attempt = s.attempt /\ f.attempted_by = s.attempted_by /\ f.errors = s.errors
      /\ f.max_attempts = s.max_attempts
  BY DEF FailedRow, JobRow
<1> HIDE DEF f, s
<1>3. Grown(r, s)
  BY <1>1, <1>2 DEF Grown
<1> QED
  BY <1>3 DEF ExpiredRow, f, s

LEMMA OthersGrow ==
  ASSUME NEW r \in JobRow, NEW c, NEW t
  PROVE  /\ Grown(r, r) /\ Grown(r, ReleasedRow(r, t)) /\ Grown(r, PromotedRow(r))
         /\ Grown(r, CancelledRow(r)) /\ Grown(r, CompletedRow(r, c)) /\ Grown(r, HeartbeatRow(r, t))
<1>1. ASSUME NEW s \in {r, ReleasedRow(r, t), PromotedRow(r), CancelledRow(r),
                        CompletedRow(r, c), HeartbeatRow(r, t)}
      PROVE  Grown(r, s)
  <2>1. s.attempt = r.attempt /\ s.attempted_by = r.attempted_by /\ s.errors = r.errors
        /\ s.max_attempts = r.max_attempts
    BY DEF JobRow, ReleasedRow, PromotedRow, CancelledRow, CompletedRow, HeartbeatRow
  <2> QED
    BY <2>1, SameHistoryGrown
<1> QED
  BY <1>1

\* The history of attempts is written by claims only.
LEMMA ManagedKeepsAttempts ==
  ASSUME NEW r \in JobRow, NEW s, NEW t, NEW c,
         \/ Managed(r, s, t)
         \/ s = CompletedRow(r, c)
         \/ \E at : s = HeartbeatRow(r, at)
         \/ \E at, delay : s = FailedRow(r, at, delay, "failed")
  PROVE  s.attempted_by = r.attempted_by
<1>1. CASE \/ s \in {r, PromotedRow(r), CancelledRow(r), CompletedRow(r, c)}
           \/ \E at : s \in {ReleasedRow(r, at), HeartbeatRow(r, at)}
  BY <1>1 DEF JobRow, ReleasedRow, PromotedRow, CancelledRow, CompletedRow, HeartbeatRow
<1>2. \A at, delay, message : FailedRow(r, at, delay, message).attempted_by = r.attempted_by
  BY DEF JobRow, FailedRow
<1>3. CASE s = ExpiredRow(r, t)
  <2>1. FailedRow(r, t, 0, "lock_expired").attempted_by = r.attempted_by
    BY <1>2
  <2> QED
    BY <1>3, <2>1 DEF ExpiredRow
<1> QED
  BY <1>1, <1>2, <1>3 DEF Managed

-----------------------------------------------------------------------------
(* Rows as lives. *)

\* What a failed attempt does to a life, by whomever it is declared.
LEMMA LifeOfFailed ==
  ASSUME NEW r \in JobRow, NEW t, NEW delay, NEW message
  PROVE  /\ LifeOf(FailedRow(r, t, delay, message)) =
              [LifeOf(r) EXCEPT !.phase = IF r.attempt < r.max_attempts
                                          THEN "waiting" ELSE "discarded"]
         /\ LifeOf(ExpiredRow(r, t)) =
              [LifeOf(r) EXCEPT !.phase = IF r.attempt < r.max_attempts
                                          THEN "waiting" ELSE "discarded"]
<1>1. ASSUME NEW d, NEW m
      PROVE  LET row == FailedRow(r, t, d, m)
             IN  /\ row.status = IF r.attempt < r.max_attempts THEN "retryable" ELSE "discarded"
                 /\ row.attempt = r.attempt
                 /\ row.max_attempts = r.max_attempts
  BY DEF FailedRow, JobRow
<1>2. LET row == ExpiredRow(r, t)
      IN  /\ row.status = IF r.attempt < r.max_attempts THEN "retryable" ELSE "discarded"
          /\ row.attempt = r.attempt
          /\ row.max_attempts = r.max_attempts
  BY <1>1 DEF ExpiredRow
<1> QED
  BY <1>1, <1>2 DEF LifeOf, PhaseOf, Waiting
-----------------------------------------------------------------------------
\* Whatever wraps around or is drawn at random, the delay is an int64.
LEMMA BackoffInRange ==
  ASSUME NEW opts, NEW attempt, NEW ms \in BackoffMs(opts, attempt)
  PROVE  ms \in Int64
<1> DEFINE factors == IF opts.type = "exponential" THEN PowerOfTwo(attempt - 1) ELSE {1}
           plain   == UNION {Product64(d, f) : d \in ReadDelay(opts.delay), f \in factors}
<1>1. CASE opts.jitter
  <2>1. ms \in UNION {Jittered(m) : m \in plain}
    BY <1>1 DEF BackoffMs
  <2> HIDE DEF plain
  <2>2. PICK m \in plain : ms \in Jittered(m)
    BY <2>1
  <2> QED
    BY <2>2 DEF Jittered
<1>2. CASE ~opts.jitter
  <2>1. ms \in plain
    BY <1>2 DEF BackoffMs
  <2> HIDE DEF factors
  <2>2. PICK d \in ReadDelay(opts.delay), f \in factors : ms \in Product64(d, f)
    BY <2>1
  <2> QED
    BY <2>2 DEF Product64
<1> QED
  BY <1>1, <1>2
=============================================================================
