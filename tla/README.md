# stevy: a formal model of the job queue

`stevy` is a job queue on PostgreSQL or SQLite with a gRPC/Connect/REST API, a
dashboard, and a scheduler. This directory keeps TLA+ modules that model it,
the TLC configurations that check them on small instances, and proofs for all
instances: of every safety property that is checked, and of the progress the
scheduler makes. Paths below are relative to the repository's root (`src/`).

## The system

### Components, their state and their operations

| Component | Code | State | Operations |
|---|---|---|---|
| Job operations | `internal/service/job.go` over `driver_pg.go` | table `jobs` | `CreateJob`, `ClaimJob`, `CompleteJob`, `FailJob`, `HeartbeatJob`, `CancelJob`, `PromoteJob`, and the reads `GetJob`, `GetJobState`, `ListJobs` |
| Backoff | `job.go`, `computeBackoffMs` | none | the delay of a retry |
| Queue control | `internal/service/queue.go`, `internal/web/web.go` | table `queues` | `PauseQueue`, `ResumeQueue`, and the reads `ListQueues`, `GetQueue` |
| Scheduler | `cmd/stevy/main.go` (`cmdScheduler`), `web.go` (`RunScheduler`) | the place in the loop | `PromoteScheduledJobs`, `FailExpiredJobs` |
| SQLite driver | `internal/service/driver_sqlite.go` | the same tables | the same operations in another dialect |
| Worker registry, API keys | `internal/db/db.go`, `internal/web/web.go`, `internal/auth/apikey.go`, `internal/auth/middleware.go` | tables `workers`, `api_keys` | create, look up, list and delete keys; `last_seen_at`; the key interceptor |
| Sign-in | `internal/auth/oauth.go`, `session.go` | table `users`, cookies of the browser | the OAuth login, sessions |
| Validation | `internal/middleware/validate.go`, `proto/` | none | rejects requests outside the declared ranges |
| Setup | `main.go`, `db/migrate.go`, `dialect/` | none | opens the database, migrates, registers handlers |
| Dashboard | `internal/web/` | none of its own | pages over the reads above |
| Workers | not in the repository; `README.md`, "Worker flow" | what each believes it holds | the loop claim, heartbeat, complete or fail |

All processes (any number of servers, a scheduler) share nothing but the
database. There are no locks in the Go code and no transactions: a handler is
one SQL statement, or two with anything in between. A worker and the service
share a job's *lock*, a deadline in the row, that nobody but the scheduler
enforces.

### What is hard

* **Two-statement handlers.** `CreateJob` upserts the queue and then inserts the
  row; `FailJob` reads the row to compute the delay and then updates it; a tick
  of the scheduler is two statements; a claim marks the worker as seen first; a
  key is looked up before the handler runs. Everything else may happen in
  between, and the request may die there.
* **Statements side by side.** A statement chooses rows in a snapshot, locks them
  one by one, and must notice what changed in the meantime.
* **Calls without identity.** `CompleteJob`, `FailJob` and `HeartbeatJob` go by
  job id and `status = 'running'`. Which worker calls, and about which attempt,
  is not part of the test.
* **Leases.** Locks expire by the clock, are renewed by heartbeats and reclaimed
  in batches; answers are lost, workers die, calls come late or twice.
* **Clocks.** Servers compute `scheduled_at` and the initial status with their
  own clock; claims and the scheduler use the database's. On SQLite the clock
  counts whole seconds and durations do not.
* **Integer widths.** The delay is read back from JSON as a `float64`, becomes an
  `int64`, is multiplied by a float power and goes through an `int4` parameter.
* **Reads of several statements.** Pages, queue statistics and the index page are
  put together from statements of different moments; on SQLite the pool has one
  connection, and a reader may wait for the one it holds. No loop over rows asks
  whether it ended because of an error, and some errors are dropped.
* **Liveness.** A waiting job moves only if the scheduler runs; the deployment
  without a scheduler process runs only one of its two statements.
* **Sign-in.** The server keeps nothing between the steps of a sign-in: its
  state is a cookie, and callbacks arrive in any order and in any browser.

### What makes each component correct

* Job operations: attempts never exceed `max_attempts`; each failed attempt
  leaves one entry in `errors`; a finished job never changes; `finalized_at`
  and `result` agree with the status; a running job can always be reclaimed;
  no attempt begins early; every job's queue is listed; all statements,
  however they overlap, take a job through one life.
* Scheduler: what is due is eventually released, what expired is eventually
  reclaimed; batches do not block anybody for ever.
* Workers with the service: a worker that renews its lock in time keeps its job,
  a job's result comes from the attempt that was last to begin, and a job whose
  time has come is tried.
* Backoff: a retry's delay is what the options say, and one the driver accepts.
* Reads: a walk over pages repeats nothing and misses nothing that did not
  change; what a client is shown of a job only goes forward and explains itself;
  a listing accounts for every job.
* Registry: a deleted key stops working. Sign-in: a session is its account's,
  and begins in the browser that asked for it.

## The modules

| Module | What it is | Extends |
|---|---|---|
| `Backoff` | `computeBackoffMs` as a function from the options and the attempt to the *set* of delays it may return, at the width of its integers | |
| `BackoffCheck` | the delays of consecutive failures against a reference | `Backoff` |
| `JobTable` | the rows of `jobs`, one operator per SQL `SET` list (`ClaimedRow`, `FailedRow`, ...) and per `WHERE` clause (`ClaimableIds`, `ExpiredIds`, ...); no variables | `Backoff` |
| `JobQueue` | the system: tables, half-done handlers, scheduler, clock; one action per SQL statement | `JobTable` |
| `JobLifecycle` | the abstract specification: what the owner of a job is promised | |
| `PgStatements` | the statements in PostgreSQL sessions: snapshot, row locks, re-check, commit | `JobTable` |
| `SqliteQueue` | the service over `SQLiteDriver`, on a clock finer than the database's | `JobTable`, instance of `JobQueue` |
| `WorkerPool` | `JobQueue` composed with workers that hold jobs | `JobQueue` |
| `JobProgress` | `JobQueue` with everybody at work: liveness of a job | `JobQueue` |
| `JobPages` | walks over the pages of `ListJobs` | `JobQueue` |
| `JobViews` | pollers of `GetJob` and `GetJobState` | `JobQueue` |
| `QueueReads` | reads of several statements, and the connections they hold | `JobQueue` |
| `Registry` | workers, keys, and the requests they admit to `JobQueue` | `JobQueue` |
| `Login` | sign-ins, cookies, users | |
| `MC...` | values, bounds and symmetry for TLC | |
| `Backoff_proofs` | the theorems about the delays | `BackoffCheck` |
| `JobTable_proofs` | lemmas about the `SET` lists and `WHERE` clauses, for every row and table | `JobTable` |
| `JobQueue_proofs` | the theorems about `JobQueue`: safety, that it implements `JobLifecycle`, and how far each run of `FailExpiredJobs` gets | `JobQueue`, `JobTable_proofs` |
| `PgStatements_proofs` | the theorems about `PgStatements` | `PgStatements`, `JobTable_proofs` |
| `SqliteQueue_proofs` | the theorems about `SqliteQueue` | `SqliteQueue`, `JobTable_proofs` |
| `WorkerPool_proofs` | the theorems about `WorkerPool` | `WorkerPool`, `JobQueue_proofs` |
| `Readers_proofs` | the theorems about the three kinds of readers | `JobPages`, `JobViews`, `QueueReads`, `JobQueue_proofs` |
| `Access_proofs` | the theorems about who gets in: `Registry` and `Login` | `Registry`, `Login`, `JobQueue_proofs` |

### `JobQueue`

| Variable | Code |
|---|---|
| `jobs` | table `jobs`, a function from the ids that have a row. `payload`, `kind`, `progress` and `created_at` decide nothing and are left out. `errors` keeps only why each attempt failed, `result` only whose it is, `finalized` whether `finalized_at` is set |
| `queues`, `paused` | table `queues`: the names, and those with `paused_at` |
| `calls[c]` | the two-statement handler a caller is in the middle of, with the Go variables it carries over: the queue and `ScheduledAt` of a `CreateJob`, the id and the delay of a `FailJob` |
| `sched` | which statement of the loop in `cmdScheduler` comes next |
| `now` | `NOW()`, the database clock |

Each action is one SQL statement with the Go code around it, taken as atomic;
`PgStatements` is what justifies this (below). The callers are unconstrained:
any call on any id at any time, which covers workers, clients and the dashboard.

The server's clock (`ServerTimes`) is anything within `ClockSkew` of `now`, at
each reading anew. A `CreateJob` with `pending` and a delay, priorities through
`clampPriority`, and delays of either sign are inputs. Ids may be inserted in
any order: different servers draw their ULIDs from different clocks. The `int4`
parameter of `FailJob`'s statement is `FailJobAccepted`: pgx refuses a value
that does not fit before the statement runs. An unexpected panic (`rand.Intn` of
a negative number) is an action that is not enabled.

`NOW()` is the time a statement began, and a statement that updates one row may
have waited for it: `HeartbeatJob`, `FailJob` and `PromoteJob` write a time of
`StatementTimes`, up to `RowWait` before `now`. So a heartbeat that waited while
its job was failed and claimed again leaves a shorter lock than the claim's.
This allows a little more than PostgreSQL does (such a statement takes effect
here also on a row that did not qualify when it began); `PgStatements` has the
exact rule. The batches and the claim pass over locked rows and wait for none.

Mutant definitions (`FailedRowOffByOne`, ...) stand beside what they mutate; no
action uses them. They record, for each property, a plausible bug that the
property would catch.

### `Backoff`

`BackoffMs` follows the delay on its whole way. `CreateJob` writes it into the
metadata digit by digit; `computeBackoffMs` unmarshals it as a `float64`
(`Rounded`: to the nearest float, the even one of two, with floats exact below
`FloatExact` and twice as far apart at every power of two from there) and
converts that to an `int64` (`ToInt64`: out of range it is the smallest or the
largest value, depending on the machine). The power, the wrapping product and
the draw follow.

### `PgStatements`

A session executes one statement at a time at READ COMMITTED. `stmt[c]` is the
statement: its operation, the time it began (its `NOW()`), the candidates of its
snapshot still to come (`left`) and the rows it has locked (`got`). `LockRow`
takes the next candidate in the statement's `ORDER BY` if its newest version
still satisfies the `WHERE` clause; `PassOver` skips one that does not, or, with
`SKIP LOCKED`, one that somebody else has locked; a statement by id waits
instead. `Commit` writes, `RollBack` is a broken connection. `ClaimJob` reads
`paused_at` in its snapshot only, so a pause lets claims through that were
already under way. The module uses the `SET` and `WHERE` operators of `JobTable`,
the same as `JobQueue`, and refines the same `JobLifecycle`.

What it does not show is the order among claims: with `SKIP LOCKED` a claim may
take a less urgent row while a more urgent one is locked. No property here says
that claims are ordered; `JobQueue`'s exact order is used by no theorem.

### `SqliteQueue`

SQLite has one writer, so statements are atomic; its times are not the
program's. `now` counts ticks, `TicksPerSecond` to a second, and the statements
see `Seconds(now)`: `SqliteQueue` instantiates `JobQueue` with that clock, with
`LockDuration` the truncated `LockTicks` (an assumption says so), and has actions
of its own where the driver differs: `CreateJob` decides the status on exact
times and stores the second, `FailJob` rounds the delay up (with a division that,
like Go's, truncates towards zero), `FailExpiredJobs` is as on PostgreSQL. `due` and `granted`
remember the exact times. `ClaimJob` is an `UPDATE` inside a `WITH` clause, which
SQLite refuses: with `ClaimParses = FALSE` the module is the program as it is,
with `TRUE` it tells how the rest would work with the claim the text means.

### `WorkerPool` and `JobProgress`

`held[w]` is what a worker believes: a job, the attempt it was given, and until
when its lock lasts, counted from the last renewal it made in time. The belief
is external to the repository; the calls are the actions of `JobQueue`. Answers
to claims, heartbeats and failures get lost, workers die at any moment, clients
cancel, pause and promote. Two constants say what the workers may do that the
README does not tell them not to:

* `LateCalls`: a call takes effect after its caller's lock ran out (a slow
  network, a paused process, or the README's own loop, which calls `fail_job`
  after a refused heartbeat);
* `Retries`: a `FailJob` whose answer was lost is called again.

`astray` notes when such a call has taken effect; the promises to workers hold
until then, and the README's (`HolderKeepsJob`) does not say so.

`JobProgress` adds nothing but fairness: see below.

### The readers

They add a reader to `JobQueue` and change nothing else.

* `JobPages`: `walk` is what a reader asks for and has been shown. `ApiPage` is a
  client that follows the README, `DashboardPage` is `Index` with its one extra
  row; both go through `ListJobs`. `ListJobs` may return any beginning of what
  its statement selects: the loops end at an error as at the end of the rows.
  Nothing at all is also what `Index` shows when it drops `ListJobs`' error.
  `walk.whole` remembers whether the last result was the whole one. `steady` remembers the jobs that matched the
  filter throughout.
* `JobViews`: `state` and `job` are the last responses of `GetJobState` and
  `GetJob`, decoded from the entries of the `errors` column by field name.
* `QueueReads`: `read[r]` is how far `ListQueues`, `GetQueue` or `Index` is.
  `Query` needs a free connection and holds it until `Drain` has read the rows
  to their end. Names and counts may be cut short without anybody's noticing, and
  `Index` and `QueueInfo` drop errors (a total of 0, a queue that is not paused);
  `QueryFails` is an error that ends the read. `whole` remembers whether anything
  was cut.

### `Registry` and `Login`

`Registry` puts requests in front of `JobQueue`: `Admit` is `APIKeyInterceptor`
(worker keys for worker methods only, client keys for all), then the handler's
statements follow, the first of a claim being the update of `last_seen_at`. Keys
are created and deleted by signed-in users at any moment, also between these
steps; `stale` remembers the requests that were overtaken. `Login` is a machine
of its own: the state cookie, the callback with its two calls to Google, the
upsert and the session cookie as separate steps of several browsers. A call to
Google may fail, or answer with an error, which `fetchUserInfo` decodes into
empty fields.

## What the runs show

| Run | Module | Result | Question |
|---|---|---|---|
| `OneJob` | `MCJobQueue` | holds | safety of one row, and its life as `JobLifecycle` promises it, under every interleaving of two callers, the scheduler, the clock |
| `Daemon` | `MCJobProgress` | holds | liveness with a scheduler process: due jobs, expired locks, every waiting job |
| `HttpPassExpired` | `MCJobQueue` | **violated** | expired locks are reclaimed by the HTTP pass alone |
| `BackoffRange` | `MCJobQueue` | **violated** | a reported failure of a running job is taken |
| `BackoffCheck` | `BackoffCheck` | holds | the delays are those of the reference, for all draws, up to and past the width |
| `Pool` | `MCWorkerPool` | holds | a punctual worker keeps its job until a call goes astray; `attempted_by` tells the truth whatever is called |
| `PoolLate` | `MCWorkerPool` | **violated** | a punctual worker keeps its job although others call late |
| `Statements` | `MCPgStatements` | holds | statements side by side implement `JobLifecycle`, respect heartbeats and pauses, and never wait in a circle |
| `Readers` | `MCReaders` | holds | pages, polls and listings while the queue goes on |
| `Sqlite` | `MCSqliteQueue` | holds | the driver on whole seconds, with the claim its text means |
| `SqliteClaim` | `MCSqliteQueue` | **violated** | with the claim as it is, an available job is claimed |
| `Access` | `MCAccess` | holds | deleted keys, sign-ins of several browsers |

The four violations are disagreements between the code and what the repository
says of it, listed with their lines in `PROJECT.json` under `findings`:

1. `POST /scheduler/run` only promotes. Deployed "instead" of the scheduler
   process, as the README offers, it never reclaims the job of a dead worker.
   (It does release due jobs.)
2. The exponential backoff outgrows the `int4` parameter (from the 23rd attempt
   with a base of one second); from then on `FailJob` is refused.
3. A worker that heartbeats in time can lose its job to a late call of the
   worker before it, because no call names its attempt. With `LateCalls = FALSE`
   and `Retries = TRUE` the same property fails for a repeated `FailJob`.
4. On SQLite `ClaimJob` is a statement SQLite does not parse.

Smaller divergences met while modelling, which no run is spent on:

* On SQLite a delayed job may be released up to a second early, because
  `scheduled_at` is cut to the second; `LessThanASecondEarly` is the bound that
  holds. A lock duration that is no whole number of seconds is cut too: with
  `LockTicks = 3` in `Sqlite.cfg`, `LockLastsItsDuration` fails.
* The ids of jobs are in the order of creation only per server:
  a job created during a walk may stand on a page already shown. What holds of
  a walk is `PagesDescend` and `SteadyJobsListed`.
* Without `ALLOWED_DOMAINS` (`Allowed = {}` in `Access.cfg`) an error answer of
  Google's userinfo call signs the browser in as the user with the empty
  `google_id`, and `SessionShowsItsAccount` fails.
* The dashboard's job page decodes `errors` with the fields `attempt` and
  `error` (`internal/web/web.go:365`), while the drivers write `at` and
  `message`: the page shows attempt 0 and no reason.
* `README.md:113` says of pages "When fewer than `limit` jobs come back, you've
  reached the end". `ListJobs` never asks `rows.Err()`
  (`internal/service/driver_pg.go:398`, `driver_sqlite.go:438`), so fewer may come
  back because the connection broke, and a client that follows the README misses
  the rest: without `walk.whole`, `SteadyJobsListed` fails. `Index` drops
  `ListJobs`' error altogether (`web.go:138`), and that of the counts
  (`web.go:153`), so that it may show jobs beside a total of 0.
* A delay beyond 2^53 milliseconds is not the one the options say, and one close
  to 2^63 may wrap, or make the draw panic, where the exact product would fit: hence
  `Slack` and `InRange` in `BackoffCheck`. (Such delays are beyond the `int4`
  parameter anyhow, finding 2.)
* A worker is shown as offline 90 seconds after its last *claim*: heartbeats do
  not write `last_seen_at`.

### Bounds

* `OneJob`: one job and two callers are enough for the races on a row: a
  statement touches one row or a batch, and every handler is at most two
  statements. `LockDuration` is 1 and the clock goes to 3, which leaves room for
  a claim, an expiry, a reclaim, a second claim and a late call about the first.
  `AttemptLimits` up to 2 covers "not the last attempt" and "the last attempt".
  `RowWait` 1 lets a heartbeat from before an expiry take effect after the next
  claim.
* `Daemon`: two jobs of two priorities and a batch limit of one add what batches
  and the order of claims can do; two attempts each; `LockDuration` 0, so that a
  lock expires with the next tick and two ticks suffice for both attempts.
* `Pool`: two workers and a client, three attempts, the clock to 4: the second
  worker's attempt may be hit by the first's late call and be tried again.
  `RowWait` is 1 here and in `PoolLate`, and 0 in `Daemon`, `Readers` and `Access`,
  where waiting would only add to the number of states.
* `BackoffRange`: `Int64Bound` 16 and `Int4Max` 3 shrink the integers so that
  delays reach and pass their limits. `BackoffCheck` has 256, floats exact
  below 16, and delays up to 255 over six attempts, so that delays are exact, are
  rounded up and down, round to 256 itself, and products stay inside, wrap to
  positive and wrap to negative numbers.
* `Statements`: two sessions; `Within` gives one row every statement and both
  limits, two rows the statements that choose among rows and a call by id.
  Deadlocks and lost updates need two sessions and two rows.
* `Readers`: `Bounds` gives each kind of reader the smallest queue in which it
  can go wrong: three jobs and pages of two for a walk, which so has a last page
  that is not full; a job that fails twice, once by the scheduler, for a poller;
  two queues for a listing; two readers and one connection for the wait.
  Readers write nothing, so one kind at a time is all that can happen to it.
* `Sqlite`: two ticks a second, so that everything can begin in either half;
  three seconds; `CalendarEnd` 3 stands for the last date `datetime()` knows.
* `Access`: one worker key, one client key, two requests under way, of which at
  most one per identity is half done; two browsers, two accounts, two states
  (`MaxStates`) and three codes (`MaxCodes`), enough for two sign-ins in one
  browser to overlap with one in the other.

Callers, sessions, requests and browsers are symmetric where a run has no
liveness property. Ids are never reused and the number of rows is bounded by
`JobId`; when the clock stops and every job is finished the model stops, hence
`CHECK_DEADLOCK FALSE`.

### Fairness

* `DaemonSpec` assumes that time passes and strong fairness of each of the
  scheduler's two statements: the loop in `cmdScheduler` runs them in turn for
  ever and logs their errors, and the database does not fail for ever.
  `SchedulerError` lets each fail any finite number of times in a row. It
  assumes nothing about workers or clients.
* `HttpSpec` assumes weak fairness of the HTTP pass: something outside calls it
  again and again.
* `Served`, the premise of `WaitingJobsAreTried`, is what others owe a job
  besides: calls end (a server finishes the second statement or drops the
  request), workers go on claiming in every queue (strong fairness: the claim
  comes and goes with pauses and calls), and a paused queue is resumed while
  some worker is between calls, though it may be paused again at any time.
  There are finitely many jobs, so finitely many that are more urgent.
* `SqliteFairSpec`: time passes and workers keep asking; so the violation of
  `SqliteClaim` is the statement's doing, not theirs.
* `ReadsFairSpec`: the pool of `database/sql` serves those who wait for a
  connection in turn (strong fairness of `Query`), and a handler reads the rows
  it has (weak fairness of `Drain`).

## What is proved

TLC checks small instances; the theorems hold for every value of the constants
that the modules' assumptions allow: any number of jobs, queues, callers,
sessions, readers, requests and browsers, any lock duration, batch limit, page
size, clock skew, clock resolution and integer width, any options. Every safety
property of the passing runs is a theorem.

| Property | Theorem | Rests on |
|---|---|---|
| `TypeOK`, `AttemptsWithinLimit`, `ErrorPerFailedAttempt`, `FinalizedExactlyWhenFinal`, `RunningIsRecoverable`, `NeverEarly`, `QueuesKnown`, `FinalIsForever`, `ImplementsLifecycle` | `JobQueue_proofs` | `IInv` |
| `DelayIsPromised`, `DelaysNeverShrink`, `EveryFailureGetsDelay` | `Backoff_proofs` | `CheckIInv` |
| `ImplementsLifecycle`, `LocksHold`, `WaitersHoldNothing`, `RenewedLockSurvives`, `PauseLetsOnlyRacersThrough` | `PgStatements_proofs` | `PgIInv` |
| `ImplementsLifecycle`, `LockLastsItsDuration`, `LessThanASecondEarly` | `SqliteQueue_proofs` | `SqliteIInv` |
| `PunctualPoolKeepsJobs`, `OneHolder`, `AttemptBelongsToItsWorker`, `ResultOfLastAttempt` | `WorkerPool_proofs` | `PoolIInv` |
| `PagesDescend`, `SteadyJobsListed`, `ViewsGoForward`, `StateExplainsFailure`, `ListingCountsEveryJob`, `IndexListsWithinTotal` | `Readers_proofs` | `PagesIInv`, `ViewsIInv`, `ReadsIInv` |
| `DeletedKeysStop`, `ClaimersAreSeen` | `Access_proofs` | `RegistryIInv` |
| `CallbackReturnsToItsBrowser`, `StoredAddressesAreAllowed`, `SessionShowsItsAccount` | `Access_proofs` | `RestrictedIInv` |

Five theorems state what no run has as a property: `EveryDoublingIsRefused`
(`Backoff_proofs`), `AbandonedJobsMoveUp` and `NextBatchIsReclaimed`
(`JobQueue_proofs`), `RowsStaySound` and `FinishedRowsStay`
(`PgStatements_proofs`). They are described below.

Each proof shows that the initial states satisfy the inductive invariant, that
every action keeps it, and that it implies the property; an action property or a
refinement is shown of each step that begins in the invariant. The invariants
were checked by TLC before they were proved.

**Assumptions.** The `ASSUME`s of the modules, which TLC evaluates in every run:
they give the constants their types, and say that `Null`, `Nothing` and the like
are none of the values they stand beside, that ids of keys are no callers, and
that SQLite's `LockDuration` is `LockTicks` cut to seconds. Five theorems have a
hypothesis besides. Two of them are the condition under which the code keeps the
promise: `WholeSecondLocksLast` has a `JOB_LOCK_DURATION` of whole seconds, as its
default of 30s is, and `SessionsShowTheirAccounts` that `ALLOWED_DOMAINS` is set;
without them TLC finds the properties violated (above, the smaller divergences).
`EveryDoublingIsRefused` needs `int64` to be at least three bits wider than `int4`
and floats to hold every `int4`; the two theorems on progress need that the
scheduler runs, and that no statement waits for its row longer than a lock
lasts (`RowWait <= LockDuration`): a heartbeat that did could write a lock already
past, in front of others.

### Delays (`Backoff_proofs`)

`computeBackoffMs` multiplies by a power that the model, like Go, computes in one
step; the reference of `BackoffCheck` doubles once per attempt. That both come to
the same for every attempt is an induction, and the library's rule for it cannot
be instantiated here. The proof takes induction from the natural numbers being
well-founded instead (`Induction`): a set that holds 0 and is closed under adding
one holds them all. From it follow that the two recursive functions exist, and
that the doubled delay is the product (`DoubledIsProduct`). The power is the
function `TwoTo`, because the prover knows no laws of `^`. The rest is the
arithmetic of the code: a product that fits is not wrapped (`ProductFits`), and
jitter takes at most half (`JitteredHalves`); so all that may be drawn is near
the promise (`DelaysAreNear`), and doubling makes up for the jitter. Reading the
delay as a float changes it by one part in `FloatExact` at most (`RoundedIsNear`): with `InRange` the promised delay leaves room for that, and the rounding
cannot turn the order of two delays round, because both are multiples of the same rounded one (`HeldIsNear`, `HeldFits`).

`EveryDoublingIsRefused` is the general form of finding 2: whatever the options'
delay, there is an attempt whose drawn delays all fit an `int64`, and none the
`int4` parameter. The run has small integers; the theorem shows that these are
not the reason.

### Rows (`JobTable_proofs`, `JobQueue_proofs`)

`RowOK(r, t)` says of a row all that is true of it at time `t`. One lemma per
`SET` list shows that the statement keeps it, given what its `WHERE` clause
tested. None of the listed properties is inductive alone: that a failed job may
be retried (`attempt < max_attempts`) needs the bound that claims keep; that
`errors` has one entry per failed attempt needs to know how many a running job
has. `RowsOK` says `RowOK` of every row, and `OneRow` and
`ManyRows` lift the lemmas to statements on one row and on a batch. `QueuesOK`
adds the one fact about a half-done handler that matters: the queue a
`CreateJob` is about to insert into is there. Together with the types of the
other variables this is `IInv`. What steps do to existing rows is collected once
(`Kept`, `Managed`, `Worked`, `Grown`: rows stay, keep their queue and only add to
their histories); `FinalIsForever` and the proofs about workers, readers and keys
use it instead of going through the actions again.

`LifecycleImplemented` maps each action to `Submit`, `Start`, `Succeed`,
`Cancel` or `Fail` of `JobLifecycle`, or to a stutter. That a claimed job has an
attempt left is `AttemptsOK`.

### Progress of the scheduler (`JobQueue_proofs`)

Which other jobs may `FailExpiredJobs` take before an abandoned one? Those in
`Ahead(id)`: running, expired, with a lock no later. The set only shrinks
(`AheadShrinks`): a new claim writes a lock that lies after `now` or at it, and so
does a heartbeat, unless it waited longer than a lock lasts, hence after the
abandoned one, and a job's own lock stays
(`AbandonedKeepsLock`). A batch that leaves the job out is a full one, of jobs
ahead of it (`FullBatchAhead`). So under `[]<><<SchedulerExpire>>_vars`, that the
statement runs again and again, each run takes the job or moves it up by
`BatchLimit` (`AbandonedJobsMoveUp`), and with fewer than a batch ahead it is
reclaimed (`NextBatchIsReclaimed`). The premise replaces the fairness of
`DaemonSpec`, whose `ENABLED` the prover does not handle; `cmdScheduler`'s loop is
what makes it true, as it runs the statement on every tick while the database
answers. The theorems hold without any bound on the jobs, callers or failures in
between, which `ExpiredLocksReclaimed` has only on the instance of `Daemon`.

### Statements side by side (`PgStatements_proofs`)

`RowsStaySound` shows `RowOK` of every row, for statements that began earlier than
the row is looked at: attempts, error entries, `finalized_at` and `result` are
right, and a running job can be reclaimed `LockDuration` from now at the latest.
A lock need not cover the attempt from its start, and `RowOK` does not say so: a
heartbeat that began before its job was reclaimed and claimed again counts from
its own, earlier `NOW()`. `FinishedRowsStay` is `FinalIsForever` for overlapping
statements. The heart of `PgIInv` is `LocksOK`: the rows a session has locked are locked by no
other and satisfy its `WHERE` clause *as the table is now*, not as it was in the
snapshot. It is kept because a `WHERE` clause speaks of one row at a time
(`WhereIsLocal`) and a commit changes only rows that its session has locked.
With it, every commit is a step of `JobLifecycle`, which is what allows
`JobQueue` its atomic statements. That nobody waits in a circle follows from the
limits: only statements by id wait, and they have nothing yet.

### Times cut to seconds (`SqliteQueue_proofs`)

The rows satisfy `RowOK` in the second it is. `GrantedOK` and `DueOK` relate them
to the exact times: a running job's lock lasts from the second it was given in,
and a job's `scheduled_at` is a second that ends after it is due. The second is
the bound on what cutting and rounding up lose together: the delay is rounded up
by less than is needed to make good the cut (`BackoffRoundsUp`,
`RetryNotEarly`). The proof shows first that every action does to the rows one of
a few things (`JobsStep`), and works with those from then on.

### Workers (`WorkerPool_proofs`)

`OwnsAttempt` ties what a worker holds to the row by `attempted_by`, whatever
calls are late or repeated. `KeepsJob` says that a worker in time has its row
running in its own attempt, under a lock at least as long as it believes, or
cancelled; it holds until `astray`. A punctual call of another worker cannot
disturb it: that worker would hold the same job in the same attempt, and
`attempted_by` has one name for it.

### Readers, keys and sign-ins

A reader shows what it read a while ago, so each invariant compares it with the
queue of now. For a walk that is the cursor: what was shown is at or above it,
and the jobs that matched throughout are shown or below it; a page cut short is
still the newest part of what is below. For a poller the
last response is an earlier state of the row (`SeenOf`). For a listing the jobs
counted so far and those in queues still to be counted cover all that were there,
unless something was cut, and are never counted twice (`ListingOK`); this needs finite sets and their cardinalities.

`RegistryIInv` follows a request from the lookup to its last statement: its key
is there, or the deletion overtook it (`KeysOK`); and every name in a job's
history is a worker's that is known and was seen, so a new worker, whose
`last_seen_at` is NULL, is never one of them. `RestrictedIInv` follows a sign-in
by its two links: the state from the cookie back to the browser that drew it, and
the row's id from the upsert to the session.

### What TLC alone shows

* Liveness: `DueJobsReleased`, `ExpiredLocksReclaimed`, `WaitingJobsAreTried` and
  `ReadsFinish` rest on fairness, and fairness on `ENABLED`, which the prover does
  not handle. Of `ExpiredLocksReclaimed` the single step is proved (above); that
  finitely many such steps reach the front of the line is an induction over a
  temporal formula, which the prover does not do either.
* The order among claims, by design: see `PgStatements`.

## What is not modelled

* Setup, migrations, routing and the dialect's placeholders: done once at start,
  or pure functions on text; no later step depends on a state of theirs.
* Templates, and the dashboard's job page, which is one read of one row.
* Request validation beyond its effect, the range of the inputs: the interceptor
  hands each message to a library.
* The text of error entries. On SQLite they are put together by hand, and a
  message with a control character makes `json()` refuse the statement.
* The lists of keys and workers, single reads of the tables of `Registry`; the
  texts and hashes of keys, which stand for their rows; signatures of cookies.
* Workers with several jobs at a time, `progress`, payloads and messages, which
  are carried along and decide nothing.
* The wrap-around of `delay * time.Millisecond` itself: its effect, a
  `scheduled_at` of any sign, is an input (`Delays` may be negative).

## Plan

Done: all modules above, their runs, the proofs of every safety property the
passing runs check, of what remains true while statements overlap, and of the
progress of `FailExpiredJobs`.

Next, in this order:

1. The same progress for `PromoteScheduledJobs`. It is harder: a retry may be
   scheduled at a moment already past, and so come in before a job that waits.
2. That `PgStatements` implements `JobQueue` itself for the statements by id, row
   by row, beyond the lives of jobs.
3. Workers that hold several jobs at once, in `WorkerPool`.
4. The registration of workers and keys with the dashboard's lists, if their
   state grows beyond single reads.
