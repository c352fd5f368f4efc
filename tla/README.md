# A verification project for Queue Max

Queue Max is a job queue in Python that keeps its jobs in several SQLite files
(shards) and hands them to worker threads.  This directory holds TLA+ modules of
its parts, configurations with which TLC checks them on small instances, and
theorems with proofs that TLAPS checks.  `PROJECT.json` lists the runs, the
theorems, the lines of code each definition stands for, the hazards of the code
and the properties aimed at them, and for each property a mutant of the model
that it rejects.

Paths below are relative to `src/queue_max/`.

## 1. The system

| part | code | state | operations |
|---|---|---|---|
| Shard repository | `core/db/repository.py`, SQL in `core/db/constants.py` | tables `fila`, `dead_letter_queue`, `shard_metadata` of one shard | insert (one, batch), pop, complete, fail, retry, requeue, heartbeat, recover orphans, purge, clean up, metrics, vacuum |
| Connections and schema | `core/db/connection.py` | a connection per thread and shard, the schema version | open, create shard, migrate, roll back, close |
| Shard manager | `core/db/manager.py` | none | passes calls on |
| Shard groups | `core/db/shard_group.py` | the grouping | shuffle, group of a shard |
| Circuit breaker | `core/circuit_breaker.py` | state, failure count, probe flag, pending notification | is_allowed, record_success, record_failure, call, reset |
| Rate limiter | `core/rate_limiter.py` | tokens, time of the last refill, waiters | acquire, try_acquire, update_rate_limit, reset, looks |
| Queue | `core/queue/queue.py` | shard locks, batch flag, listeners | enqueue, pop, complete, fail, maintenance, statistics, waiting |
| Worker | `core/workers/base.py`, `async_worker.py` | state, stop event, thread, executor, current job | start, stop, loop, process, heartbeat |
| Worker pool | `core/workers/pool.py` | the list of workers, counter, scaler thread | add, remove, start_all, stop_all, scale |
| Events | `contrib/events.py` | subscriptions | publish, expect, bridge of queue callbacks |
| Tasks | `core/tasks/` | none | decorators that enqueue |
| Job model, helpers, CLI, integrations | `models/`, `utils/`, `cli.py`, `contrib/` | none | conversions, formatting |

How they interact.  A worker's thread calls `pop_job`, which passes the rate
limiter and the circuit breaker and then visits the shards, group by group in
random order, each under its lock, until one gives it a row.  The worker runs the
job, in its own thread or in an executor, and calls `complete_job` or `fail_job`,
which write to the job's shard and then tell the breaker.  Between two jobs it
refreshes the heartbeats of its rows.  Operators call `recover_orphans`,
`retry_failed_jobs`, `retry_job`, `purge_queue` and `cleanup_old_jobs` at any
time.  The pool starts and stops workers from a scaler thread and from its caller.

What is hard about it, and what makes each part correct:

* **Shard.**  Operations of several connections interleave between a read and the
  write transaction, times are read before a wait for the lock, and nothing in a
  report says which claim it belongs to.  Correct: a failed row has a dead letter,
  a row in processing has a lease, attempts are counted once, a deleted row stays
  deleted, a claim is never handed over silently.
* **Job lifecycle.**  Workers die, restart under their id, and lose claims to
  recovery.  Correct: one holder unless somebody intervened, a bounded number of
  attempts, no job stranded but by a death.
* **Breaker.**  Outcomes come in any order, of calls admitted in any state.
  Correct: it trips at the threshold, stays open for the timeout, probes, decides.
* **Limiter.**  Lazy refills, waiters with deadlines, notifications.  Correct: it
  grants what a continuously filled bucket would, and `acquire` ends.
* **Queue.**  A scan is not a snapshot, nor is a sum of counts over shards.
  Correct: no job that is there all the time is missed.
* **Connections.**  A statement that raises leaves its transaction, its snapshot and
  perhaps the write lock to the thread's next operation, whatever that is.  Correct: a
  job that was accepted is not lost, what is committed is a legal life of a job, and
  nobody who goes on working keeps the others out.
* **Events.**  They are emitted after the commit, by threads that race and die, and one
  flag silences all of them.  Correct: an event that says a job is over is true when it
  is heard, and silence ends with the batch.
* **Worker and pool.**  `stop` gives up after a timeout while threads live on, the
  scaler acts on old counts.  Correct: one loop per worker, nothing is taken after
  a stop, no job forgotten, no worker lost.

## 2. Modules

```
ShardRepository                     ShardRepositoryProofs
   |
JobLifecycle ------ JobContract     LifecycleProofs       (abstract: the life of a job)
   |                    |
QueueEvents         ShardConnection ShardConnectionProofs
CircuitBreaker                      QueueScanProofs
   |
QueueScan
RateLimiter ------- TokenBucket     RateLimiterProofs     (abstract: a bucket that fills
WorkerControl                       WorkerControlProofs    every tick)
WorkerPool                          WorkerPoolProofs
ShardSchema                         ShardSchemaProofs
MC<module>                          (instances for TLC)
```

A module extends the one above it; a dashed line is a refinement; the right column has the
theorems and their proofs.  `LifecycleProofs` covers QueueEvents too, and `QueueScanProofs`
the breaker.

**ShardRepository.**  `fila` is a function from ids to rows, with the columns that
decide anything: status, priority, tentativas, max_tentativas, worker_id,
heartbeat, next_retry_at, created_at.  `dlq` is a set of letters (job, time),
`processed` and `failed` the metadata counters, `clock` the wall clock, and
`call[t]` what a thread has read in an operation that is not atomic.  An operation
that runs in one write transaction is one action; the four that read before it are
split: `pop_job`, `heartbeat` and `recover_orphans` read the time before they wait
for the write lock, and `fail_job` reads the row in autocommit mode before its first
UPDATE opens the transaction.  Any thread may call anything with any id.  An
operation that raises rolls back (`PopError`, `FailError`), or waited for the lock in vain
and has changed nothing (`UpdateError`, of `heartbeat` and `recover_orphans`).  Dates are ticks of the
clock; `SqlOlder` models that `created_at` and the cutoff of `cleanup_old_jobs` have
two formats and are compared as strings, which compares days.  The time in
`_schedule_retry` and in the cleanup cutoff is read as of the write.  `backoff_delay`
is any member of `RetryDelays`.

**JobLifecycle** extends it with the loop of `Worker`: `pc`, the `Job` a worker
holds (`held`, built by `Job.from_row` from the row *before* the claim, which is why
its attempts lag by one), a worker's death at any step and its restart under the same
id, several threads under one id, and an operator.  `rescues` and `orphaned` are
history variables.  **JobContract** tells the life of a job without rows and threads;
`LifeOf` is the refinement mapping.

**QueueEvents** extends it with what `complete_job` and `fail_job` of `Queue` do after
the shard has committed: an event is decided (`Outcome`, by the argument `permanent`),
owed (`outbox`) and emitted (`Emit`), unless the worker dies first or some thread is
inside `batch()`.  `batchActive` is the code's one flag, `inBatch` the sessions that are
really inside, `told` the history of what listeners heard of a job's end.  The steps of
JobLifecycle are taken whole (`Complete` is `Succeed` and more).

**ShardConnection** is the same repository one level below: a statement is a step, and
each may raise.  `txn[t]` is the transaction of a thread's connection (`begun`: opened by
a statement that raised; `reading`, `stale`: pinned to a snapshot that is the file, or
was; `writing`: it has the lock), `view[t]` what the thread sees in it, `file` what is
committed.  The operators `Write`, `Read`, `BeginImmediate`, `BeginRaises`, `Commit` and
`RollBack` are SQLite 3.40 in WAL mode under Python's `sqlite3` with implicit
transactions; they are the only part of the project that models code from outside this
repository, and were compared with its behaviour statement by statement.  `fail_job` rolls
back whatever raises, `pop_job` what is an OperationalError (a lock in vain, a transaction
left open, a full disk; other errors there take a corrupt file), the other operations
nothing.  A consumer's `process_function` may enqueue on the consumer's own connection.
Payloads, times, priorities and recovery are left to ShardRepository.  It refines
JobContract as JobLifecycle does: the life of a job *in the file*.

**CircuitBreaker.**  One action is one critical section of `_mutex`; `is_allowed`
is two of them (`Ask`, `Flush`).  `failureCount` and the time since the last failure
saturate where the code no longer tells values apart.  `probing` and `lost` are
history: who was admitted as the probe, and how a probe ended without the breaker
being told.

**RateLimiter / TokenBucket.**  Tokens are counted in units of which a token costs
`Cost`, instead of floats.  `Refilled` is what `_refill` would make of the bucket, and
is the refinement mapping for the level of the abstract bucket.

**QueueScan** extends CircuitBreaker with `pop_job` (the groups, the shard locks, a
shard that raises), the settling of jobs, and the survey behind `is_empty`.  A job is
followed by its place; what happens to its row is in ShardRepository.  `late[t]` are the
jobs that fell due after the time a thread inside a shard has read: `pop_job` of the
repository reads it before it waits for the write lock, and does not see them.  `owed` and
`survey.owed` are history: jobs that were there all the time.

**WorkerControl.**  One worker with its `state`, stop event, `_thread`, executor
(open, shut or none), the executor's queue and single thread, and the loops started so
far.  A loop whose `stop()` timed out goes on when `start()` makes another.  The worker
may be an `AsyncWorker` (`async`): it ignores `job_timeout`, and `eventLoop` is what its
attribute `_loop` names, which all its loops share: nothing, an event loop that is free,
or one that runs in a thread.

**WorkerPool.**  The list, the counter, who runs and who is told to stop, the caller
of the public methods and the scalers.  A section under `_lock` is one action.  A
scaler reads the pending jobs and the count of workers, and uses them later.

**ShardSchema.**  The constructor of `ConnectionManager` in several processes on one
directory.  Each file has the set of `objects` created in it and its row of
`shard_metadata`, or none.  In Python's `sqlite3` a PRAGMA, a script and DDL commit by
themselves, so each statement is a step; one table index stands for the five, one
legacy index for the two.  `End` is a death, a closed queue or a statement that raises.
A directory may hold shards of version 1.  `orphans` and `skipped` are history: files
whose creator ended too early, and migration steps that failed and were logged.

## 3. Runs

| run | instance | what it shows |
|---|---|---|
| `shard` | 2 threads, 1 worker id, 1 job, up to 3 claims, 3 ticks, days of 2 ticks | rows, letters, counters and leases stay consistent, and `cleanup_old_jobs` spares what is young |
| `workers` | 2 workers, an operator, 2 sessions of batch(), 1 job, up to 4 claims, 1 tick | holders, stranded jobs, what listeners hear; refinement of JobContract |
| `connection` | a producer, a consumer, and a consumer that produces; 2 jobs, alone or as a batch, 2 attempts | nothing lost, letters, the write lock given back; refinement of JobContract |
| `breaker` | 3 threads, threshold 2, timeout 2, an exception that is not counted | the flag of the probe, the open time, and that half open ends |
| `limiter` | 2 threads, capacity of 2 tokens, rates 1 and 3 | refinement of TokenBucket, and `acquire` returns |
| `queue` | 2 threads, 2 shards, 2 jobs; groups of 1 to 40 shards | nothing missed, probe accounted for, sums that do not lie about what stays |
| `control` | 2 live loops of a Worker or an AsyncWorker, 1 job given out up to 3 times, with and without job_timeout | one loop, stops, timeouts, no job forgotten |
| `pool` | 3 initial and 1 added worker, up to 4 built, bounds 1 to 2, 2 scalers | no strays, stop_all |
| `schema` | 2 processes asking for 1 or 2 shards, 0 to 2 of them old, 1 counted job | whoever interferes or dies: complete schema, metadata rows, what a version is worth |
| `recovers_the_dead`, `probe_decides`, `wait_sees_empty` | as above; the last with a producer that enqueues two jobs one by one and waits, and a consumer | disagreements of code and documentation, section 6 |

The runs check the inductive invariants of the proofs (`RepoInv`, `EventsInv` with `LifeInv`,
`ConnInv`, `QueueInv`, `ControlInv`, `PoolInv`, `SchemaInv`), which contain the type
invariants, beside the properties that follow from them.

Bounds and why they are enough.  Rows do not influence each other except through
`pop_job`'s order and statements over many rows, so one job carries the interleavings;
that nothing goes wrong with many rows, batches and priorities, more threads, shards or
workers, and longer times is what the proofs add, for every value of the constants.
Two threads are enough for every race in the code, which is
between one operation that has read and others that write; the breaker has a third so
that an old call, a probe and a caller meet.  `MaxClaims` of 3 or 4 allows a claim, a
retry, a claim after recovery and one more; `MaxClock` allows a lease to go stale, a
day to pass and a stale time to be used (in `workers` with the one tick that does it: a
claim of the tick before, or one dated with a time read then, is stale).  Two sessions of
`batch()` overlap.  In `connection` a batch of 2 may fail before, between and after its
rows, and 2 jobs let one be settled in a transaction that another one's insert left open;
`Limit` of 2 has a retry and a burial.  `MeterCap`, `MaxElapsed` and the saturating
counters stop where values are no longer told apart.  `MaxTries` of 3 lets one delivery
hang in the executor, a second wait behind it and a third be refused.  `MaxCounter`
bounds the workers the pool builds; 4 of them, with 3 at the start, the fourth added by the
caller or a scaler and a maximum of 2, have the scaler shrink a pool that is over its
maximum, and build again after that.  In the
`queue` run both shards are one group, since groups exist from 8 shards on: their order
is not exercised there, but it only restricts `NextShards`; that they cover all shards
is `GroupsCover`, over 1 to 40 shards.  Deadlock is checked in every run.

Symmetry is used only in runs without liveness, over threads (in `workers` over the
workers, each of which has an id of its own name, and over the sessions; in `pool` over
the scalers).

Fairness.  `FairBreaker`: an admitted call ends, and nobody has to make one; nothing
is assumed of the clock.  `FairLimiter`: time passes, and a thread that can go on in
`acquire` does.  `FairQueue`: a thread polls and settles what it has (weak fairness);
a scan step is strongly fair, since a shard lock becomes free again and again but may
be taken by another thread each time; Python locks do not starve a waiter for ever.
`FairControl`: loops run and `join` returns after its timeout; a `process_function`
called directly, or awaited, ends; **nothing** is assumed of one in the executor, so that `StopEnds`
covers a function that hangs.  `FairConn`: a consumer goes on with what it began and
polls, as `_run_loop` does; any of its statements may raise every time, so nothing is
assumed of their success, and producers may stop anywhere.  `FairWait` adds that
`wait_until_empty` without a timeout looks again and again, on a thread that calls no
maintenance.

## 4. Proofs

Every invariant, every safety property of steps and every refinement that a passing run
checks is also a theorem, proved for any value of the constants.  A run shows the property
where the reader can see a counterexample; the theorem says that the instance was not too
small.

| module | theorem | says |
|---|---|---|
| `ShardRepositoryProofs` | `TypeCorrect`, `RepoCorrect` | types, and the inductive invariant `RepoInv` |
| | `LettersCorrect`, `LeaseColumnsCorrect` | `FailedHasDeadLetter`, `LeaseColumns` |
| | `LeaseKeptCorrect`, `AttemptsCorrect`, `NoResurrectionCorrect`, `CleanupCorrect` | the four action properties |
| `LifecycleProofs` | `LifeUsesShard` | JobLifecycle implements ShardRepository, whose theorems hold in it |
| | `LifeCorrect`, `SoleHolderCorrect`, `StrandedCorrect` | `LifeInv` and what follows |
| | `LifeKeepsContract`, `QueueKeepsContract` | JobLifecycle, and QueueEvents, implement JobContract |
| | `EventsOnlyTell` | QueueEvents implements JobLifecycle |
| | `EventsCorrect`, `AnnouncedCorrect`, `QuietCorrect` | `EventsInv` and what follows |
| `ShardConnectionProofs` | `ConnCorrect`, `NothingLostCorrect`, `DeadHasLetterCorrect` | `ConnInv` and what follows |
| | `ConnKeepsContract` | what statements commit implements JobContract |
| `QueueScanProofs` | `BreakerCorrect`, `HalfOpenCorrect`, `OpenCorrect` | CircuitBreaker by itself |
| | `QueueCorrect`, `ScanMissesNothing`, `ScanGoesOn`, `SurveyCorrect`, `ProbesCorrect`, `QueueKeepsOpen` | the breaker inside the queue, scans and surveys |
| `RateLimiterProofs` | `LimiterTyping`, `LimiterKeepsBucket` | RateLimiter implements TokenBucket |
| `WorkerControlProofs` | `ControlCorrect`, `OneLoopCorrect`, `StopHeededCorrect`, `ForgetsNothing` | `ControlInv` and what follows |
| `WorkerPoolProofs` | `PoolCorrect`, `PoolLosesNobody`, `StopAllCorrect` | `PoolInv` and what follows |
| `ShardSchemaProofs` | `SchemaCorrect`, `ReadyCorrect`, `CountedCorrect`, `VersionCorrect` | `SchemaInv` and what follows |

Assumptions.  The proofs use the named assumptions of the modules and no others:
`ConstantsAssumption`, `WorkerAssumption`, `MessageAssumption`, `ConnAssumption`,
`BreakerAssumption`, `ScanAssumption`, `LimiterAssumption`, `ControlAssumption`,
`PoolAssumption`, `SchemaAssumption`.  TLC evaluates each on the runs.  They are the types
of the parameters; that what the code divides by, waits for or counts up to is at least one
(thresholds, retries, the cost of a token, shards), and that a pool starts with a worker, since
one without has no queue to scale by; and that `NULL`, which is Python's None, is not a value of
the kind it stands beside: an id, a time, a job, a row.

**Shard.**  `FailedHasDeadLetter` is not inductive.  `MoveToDeadLetter` inserts a letter
only if the row was there when it was read; so one needs that a row not found then is
not there now (`CallsInPast`: ids are not reused, `IdsAhead`, and deleted rows do not
come back).  `cleanup_old_jobs` deletes rows by `created_at` and letters by
`failed_at`; so one needs that some letter is no older than the row (`LetterNotOlder`,
from `RowsInPast`: a letter is dated now, a row in the past) and that a day's number
grows with time (`DayMonotone`).  `LeaseColumns` needs that the times operations have
read are not ahead of the clock (`CallsInPast`).  `RepoInv` is the conjunction.  It is
proved in lemmas that say, per conjunct, what a step of each kind does
(`RowSteps`, `CallSteps`, `LetterSteps`), combined in `RepoInvStep`.  `CleanupCorrect`
bounds what a comparison of days can lose (`DayBounds`, `OlderByDays`).

**Workers.**  `LifeInv` adds to `RepoInv` where each worker is (`InShard`, `Blank`), that a
holder whose job nobody requeued finds its row in processing under its id (`HolderFinds`)
with the attempts it remembers (`Numbered`), and `Budget`.  The contract limits the claims
of a job by `max_tentativas + rescues`, which is not inductive: several holders of one job
may each still schedule a retry.  `Foreseen` is the potential that is: claims made, holders
that may yet retry, the claim a pending row still owes, and the retries its attempts leave.
A step takes from one of these what it adds to another, unless an operator requeues, which
is a rescue.  Each action is put into one of six effects on a job (`Untouched`,
`WasInserted`, `WasRemoved`, `WasRequeued`, `WasTaken`, `WasSettled`), and the contract, the
potential and the holders are followed through the effects, not through the actions.

**Events.**  `EventsInv` says of whoever owes an event where it is in its loop (`Owing`), and
of a final event owed or told that the job is over and held by nobody, unless it was requeued
from outside (`OwedIsFinal`).

**Connections.**  `ConnInv` says of each thread what a transaction it left open may contain:
a draft differs from the file only in rows its own thread has inserted, holds or has
settled (`ThreadSound`), and no two threads hold one job (`HeldOnce`).  So whatever operation
commits a draft, and however late, each row in it takes a legal step of its life
(`Committed`).  The lemmas are about the statements (`WriteTouches`, `ReadTouches`,
`CommitKeeps`, `RollBackKeeps`, `RaisedKeeps`), and an operation composes them.

**Queue.**  A job that was there all the time lies in the shards a scan has still to visit,
or in one that raised, and is never late for it (`OwedAhead`); one that a survey has not
counted lies ahead of it (`SurveyAhead`).  Jobs that move leave `owed`.  `ProbeAccounted` is inductive together with
the flag.  That the groups partition the shards (`PartitionedAlways`) is arithmetic, for every
number of shards.

**Limiter.**  A step that refills late must equal the ticks that passed: `Cap` of a sum may be
taken in parts (`CapInParts`), a tick adds its rate (`OneMoreTick`), and the clock that stops
at `MaxElapsed` hides nothing because the bucket is full by then (`FullAtLast`).

**Worker, pool, schema.**  `ControlInv` relates the job given out to the loop or executor that
has it (`OwnsItsJob`, `HeldByOne`), the stop event to what loops have taken (`StopSeen`) and
the event loop to the loop in it (`EventLoopOwned`).  `PoolInv` says what a stop_all that
waited for the scalers leaves (`StoppedForGood`).  The attempt to prove its type invariant
refuted it: a pool filled beyond `max_workers` by its caller is scaled to a target beyond
it, which the instance was too small to show; the type and the instance were corrected.
`SchemaInv` says, per step of the constructor, what the
process may count on in each file although others change it (`OpenerSound`), and who may have
left a file without its row (`FilesAccounted`).

Model-checked only: the liveness properties `AcquireReturns`, `HalfOpenEnds`, `StopEnds` and
`ConsumersLetGo`, since neither fairness nor ENABLED is in the prover's reach; and the three
runs that expect a violation.

## 5. Not modelled

* A file that is corrupt: in it `pop_job` may raise something else than an
  OperationalError, and then does not roll back.  A PRAGMA that raises when a thread first
  connects: the connection is not kept and the next call tries again.  A shard
  made by a version newer than this one.  `wait_for_jobs`, which is `wait_until_empty` with
  another test.
* `job_enqueued`, `alert` and `enqueue_from_file`; the bridge of `contrib/events.py`, whose
  deliveries are those of the library bubus.
* Tasks: the decorators of `core/tasks/` enqueue a payload and keep no state in the queue.
  The delay computed by `backoff_delay` is any member of `RetryDelays`.
* `wait_for_idle` and other methods that only read; statistics; callbacks of users,
  whose exceptions are caught.
* Listeners of the breaker: `_pending_notify` is a variable, what they see is not.
* CLI, framework integrations, the `Job` class beyond what a worker holds.

`VACUUM` and `last_vacuum` change nothing that other operations read.

## 6. Disagreements with the documentation

Shown by a run that expects a violation:

* `recovers_the_dead`: README.md:439 says recovery takes jobs whose worker died; the
  heartbeat is sent only after a job (`base.py:163`), so a long job of a live worker is
  taken away and run a second time.
* `probe_decides`: README.md:407-408 lets the next job decide; `pop_job` may be admitted
  as the probe and find no job, and then no `pop_job` is admitted again until `reset()`.
* `wait_sees_empty`: `queue.py:420` waits until the queue is empty.  A thread has enqueued
  a job, its INSERT of the next one raises, and it waits: `get_stats` reads in the
  transaction that INSERT left open (`repository.py:75`), which pins a snapshot with the
  first job in it.  A worker completes that job and its row is deleted, but the wait does
  not end.

Seen while modelling and not turned into a run of their own:

* `circuit_breaker.py:31` guarantees one probe; any late outcome clears
  `_probe_in_flight` or moves the state, and a second probe is admitted while the first
  runs.  `HalfOpenIsProbing` and `ProbeAccounted` state what holds.
* `rate_limiter.py:35` says waiters are woken when a token becomes available; they are
  woken by refills of others only (`rate_limiter.py:128`), and when all wait each sleeps
  until its deadline though tokens accrue.  `AcquireReturns` states what holds.
* A batch whose insert fails half way is not undone: the thread's next insert or heartbeat
  commits the rows before the failure, though `queue.py:178` promises a single transaction
  per shard.  Until then the thread keeps the write lock, further batches on it raise
  "cannot start a transaction within a transaction", and all other threads wait 30 s and
  get "database is locked".  A thread that ends in that state keeps the lock for good:
  `_all_connections` (`connection.py:150`) holds its connection, though `connection.py:33`
  ties the connection to its thread.  `NothingLost` and `ConsumersLetGo` state what holds.
* When `complete_job` raises after its DELETE, the worker's `fail_job` reads inside that
  transaction, finds no row and commits the DELETE: the job is gone as it should be, and is
  announced as `job_retried`.
* `fail_job` announces by its argument: a job whose retries are exhausted is announced as
  `job_retried`, though `events.py:62` has JobFailed for "retries exhausted or
  permanent=True".  Overlapping sessions of `batch()` end each other's silence
  (`queue.py:136`).  `alert` is emitted with `type=`, which the class Alert of `events.py`
  does not have (`alert_type`): the bridge drops every alert.
* `schedule_in` and `schedule_at` of a task put `scheduled_at` into the payload
  (`core/tasks/base.py:171`), where nothing looks: the job is due at once.  The timeout of a
  task called directly is raised only when the function has ended, since the `with` of the
  executor waits for it (`core/tasks/base.py:96`).
* The loops of an AsyncWorker that overlap after a `stop()` that timed out take the event
  loop away from each other (`async_worker.py:33`), and end with a job in hand.
  `NoJobForgotten` says when.
* `recover_orphans` and `retry_failed_jobs` ignore `max_tentativas`: a job may be given
  out once more per intervention (README.md:396 says N + 1 in total).  `JobContract`
  has the bound that holds.
* `cleanup_old_jobs` removes rows up to a day early (`repository.py:294`).
  `CleanupAgeBound` states the bound that holds.
* A probe whose exception `failure_predicate` ignores leaves the circuit half open
  (`circuit_breaker.py:219`): the exception in `HalfOpenEnds`.
* A state change overwrites a notification not yet delivered (`circuit_breaker.py:236`).
* `is_empty` can be true though at every moment some job was pending, and an unreadable
  shard counts as empty (`repository.py:257`).  `SurveySound` states what holds.
* After `stop()` the executor is shut for good: a restarted worker with a job_timeout
  fails every job.  A job that timed out keeps running, and jobs behind it time out
  without having run.  A worker whose `fail_job` raised stays RUNNING without a loop.
* CHANGELOG.md:12 says the schema version is tracked per shard; GET_SCHEMA_VERSION_SQL
  and UPDATE_SCHEMA_VERSION_SQL look for `shard_id=0` in every file
  (`constants.py:191-196`), so the shards from 1 on are migrated at every start and keep
  the version they had.  A shard whose creator died before INSERT_META_SQL gets no
  metadata row ever after, and its counters stay 0 (`CountedUnlessOrphaned` states what
  holds).  A migration step that fails is logged and the version written all the same
  (`VersionTellsMigrated`); `constants.py:111` expects ALTER TABLE ADD CONSTRAINT to
  work, which SQLite 3.40 rejects.
* `HEARTBEAT_SQL` goes by worker id: a worker restarted under its id keeps the job its
  predecessor died with looking alive, and recovery does not find it.
* The scaler may shrink a pool under load, or grow an idle one, when workers were added
  or removed since it counted; it cannot grow an empty pool (`workers[0]`).

## 7. Plan

Done: the modules of section 2 and the theorems of section 4.

To come:

1. Orphan recovery as liveness in JobLifecycle, under an operator that recovers again and
   again.
2. Tasks and backoff as pure functions against reference definitions.
