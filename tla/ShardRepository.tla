-------------------------- MODULE ShardRepository --------------------------
(***************************************************************************)
(* One shard of the queue: the SQLite file behind ShardRepository          *)
(* (core/db/repository.py) with the SQL of core/db/constants.py.           *)
(*                                                                         *)
(* The shard holds the job table fila, the dead letter queue and the two   *)
(* counters of shard_metadata.  Shards are independent files and no row    *)
(* ever moves between them, so one shard is modelled.  SQLite serialises   *)
(* writers: an operation that runs in one write transaction is one atomic  *)
(* action.  Four operations are not atomic in the code and are split here:  *)
(*   - pop_job reads the time before it waits for the write lock           *)
(*     (BeginPop, then ClaimJob, PopNothing or PopError);                  *)
(*   - fail_job reads the row in autocommit mode, before the UPDATE opens  *)
(*     the write transaction (FailJob, then ReadPayload, MoveToDeadLetter  *)
(*     or ScheduleRetry).                                                  *)
(*   - heartbeat and recover_orphans read the time before they wait for    *)
(*     the write lock (BeginHeartbeat, Heartbeat; BeginRecover,            *)
(*     RecoverOrphans).                                                    *)
(* The part an operation has already executed is kept in call[t].          *)
(*                                                                         *)
(* The callers are left open: any thread may call any operation with any   *)
(* job id at any time, as the public API allows.                           *)
(***************************************************************************)
EXTENDS Naturals, Sequences, FiniteSets

CONSTANTS
    Thread,         \* threads with a connection of their own to the shard
    WorkerId,       \* the strings workers sign their claims with
    NULL,           \* SQL NULL
    Priorities,     \* priorities that are enqueued, a subset of {0, 1, 2}
    Retries,        \* values of max_retries that are enqueued
    RetryDelays,    \* results of backoff_delay, in ticks of the clock
    StuckTimeout,   \* STUCK_TIMEOUT, in ticks
    TicksPerDay,    \* ticks in a calendar day
    RetentionDays,  \* values of "days" given to cleanup_old_jobs
    BatchSizes,     \* sizes of the batches given to insert_jobs_batch
    MaxJobs,        \* bound: rows ever inserted
    MaxClaims,      \* bound: times one row is claimed
    MaxClock,       \* bound: ticks of the clock
    MeterCap        \* bound: the metadata counters stop counting here

ASSUME ConstantsAssumption ==
    /\ NULL \notin Nat
    /\ NULL \notin WorkerId
    /\ Priorities \subseteq {0, 1, 2}
    /\ Retries \subseteq Nat \ {0}
    /\ RetryDelays \subseteq Nat
    /\ StuckTimeout \in Nat
    /\ TicksPerDay \in Nat \ {0}
    /\ RetentionDays \subseteq Nat
    /\ BatchSizes \subseteq Nat \ {0}
    /\ MaxJobs \in Nat
    /\ MaxClaims \in Nat
    /\ MaxClock \in Nat
    /\ MeterCap \in Nat

JobId == 1 .. MaxJobs

VARIABLES
    fila,       \* the job table: the row of each id, AbsentRow if there is none
    nextId,     \* the next AUTOINCREMENT id of fila
    dlq,        \* the rows of dead_letter_queue
    processed,  \* shard_metadata.total_jobs_processed
    failed,     \* shard_metadata.total_jobs_failed
    call,       \* the operation each thread is in the middle of
    clock       \* the wall clock

repoVars == <<fila, nextId, dlq, processed, failed, call, clock>>

----------------------------------------------------------------------------
(* Rows *)

\* No code writes the statuses completed, cancelled and scheduled that the
\* CHECK constraint also admits: a completed job is deleted.
Status == {"absent", "pending", "processing", "failed"}

Row == [status         : Status,
        priority       : {0, 1, 2},
        tentativas     : Nat,
        max_tentativas : Nat,
        worker_id      : WorkerId \cup {NULL},
        heartbeat      : Nat \cup {NULL},
        next_retry_at  : Nat \cup {NULL},
        created_at     : Nat]

AbsentRow == [status |-> "absent", priority |-> 0, tentativas |-> 0,
              max_tentativas |-> 0, worker_id |-> NULL, heartbeat |-> NULL,
              next_retry_at |-> NULL, created_at |-> 0]

NewRow(priority, maxRetries) ==
    [status |-> "pending", priority |-> priority, tentativas |-> 0,
     max_tentativas |-> maxRetries + 1, worker_id |-> NULL,
     heartbeat |-> NULL, next_retry_at |-> NULL, created_at |-> clock]

Present(j) == fila[j].status # "absent"

\* An entry of the dead letter queue.  Entries of the same job made in the
\* same tick are one element of the set.
DeadLetter == [original_job_id : JobId, failed_at : Nat]

\* What a thread in the middle of an operation has already done.
Call == [op : {"none"}]
        \cup [op : {"pop", "heartbeat"}, worker : WorkerId, stamp : Nat]
        \cup [op : {"recover"}, stamp : Nat]
        \cup [op : {"reschedule", "exhausted"}, job : JobId]
        \cup [op : {"move"}, job : JobId, present : BOOLEAN]

NoCall == [op |-> "none"]

Idle(t) == call[t] = NoCall

Return(t) == call' = [call EXCEPT ![t] = NoCall]

Bump(meter) == IF meter < MeterCap THEN meter + 1 ELSE meter

----------------------------------------------------------------------------
(* insert_job and insert_jobs_batch: one transaction, consecutive ids. *)

InsertRows(rows) ==
    /\ nextId + Len(rows) <= MaxJobs + 1
    /\ fila' = [j \in JobId |->
                  IF j >= nextId /\ j < nextId + Len(rows)
                  THEN NewRow(rows[j - nextId + 1][1], rows[j - nextId + 1][2])
                  ELSE fila[j]]
    /\ nextId' = nextId + Len(rows)
    /\ UNCHANGED <<dlq, processed, failed, call, clock>>

InsertJob(priority, maxRetries) == InsertRows(<< <<priority, maxRetries>> >>)

InsertJobsBatch ==
    \E n \in BatchSizes :
        \E rows \in [1 .. n -> Priorities \X Retries] : InsertRows(rows)

----------------------------------------------------------------------------
(* pop_job *)

\* Mutant of Due: POP_JOB_SELECT_SQL forgets the status.
DueAnyStatus(stamp) ==
    {j \in JobId : /\ fila[j].status \in {"pending", "processing"}
                   /\ \/ fila[j].next_retry_at = NULL
                      \/ fila[j].next_retry_at <= stamp}

\* The rows POP_JOB_SELECT_SQL keeps, for the time the caller read.
Due(stamp) ==
    {j \in JobId : /\ fila[j].status = "pending"
                   /\ \/ fila[j].next_retry_at = NULL
                      \/ fila[j].next_retry_at <= stamp}

\* ORDER BY priority DESC, id ASC
Precedes(j, k) ==
    \/ fila[j].priority > fila[k].priority
    \/ fila[j].priority = fila[k].priority /\ j <= k

IsNext(j, stamp) == j \in Due(stamp) /\ \A k \in Due(stamp) : Precedes(j, k)

\* Mutant of Claimed: the claim does not write the heartbeat.
ClaimedNoHeartbeat(row, worker, stamp) ==
    [row EXCEPT !.status = "processing", !.worker_id = worker,
                !.tentativas = @ + 1]

\* CLAIM_JOB_SQL
Claimed(row, worker, stamp) ==
    [row EXCEPT !.status = "processing", !.worker_id = worker,
                !.heartbeat = stamp, !.tentativas = @ + 1]

\* now_iso() is read, then BEGIN IMMEDIATE waits for the write lock.
BeginPop(t, worker) ==
    /\ Idle(t)
    /\ call' = [call EXCEPT ![t] = [op |-> "pop", worker |-> worker,
                                    stamp |-> clock]]
    /\ UNCHANGED <<fila, nextId, dlq, processed, failed, clock>>

ClaimJob(t, j) ==
    /\ call[t].op = "pop"
    /\ IsNext(j, call[t].stamp)
    /\ fila[j].tentativas < MaxClaims
    /\ fila' = [fila EXCEPT ![j] =
                  Claimed(fila[j], call[t].worker, call[t].stamp)]
    /\ Return(t)
    /\ UNCHANGED <<nextId, dlq, processed, failed, clock>>

PopNothing(t) ==
    /\ call[t].op = "pop"
    /\ Due(call[t].stamp) = {}
    /\ Return(t)
    /\ UNCHANGED <<fila, nextId, dlq, processed, failed, clock>>

\* OperationalError, such as a lock timeout: rollback, and None is returned.
PopError(t) ==
    /\ call[t].op = "pop"
    /\ Return(t)
    /\ UNCHANGED <<fila, nextId, dlq, processed, failed, clock>>

----------------------------------------------------------------------------
(* complete_job: the row is deleted whoever asks; the counter counts the   *)
(* call, whether or not there was a row.                                   *)

CompleteJob(t, j) ==
    /\ Idle(t)
    /\ fila' = [fila EXCEPT ![j] = AbsentRow]
    /\ processed' = Bump(processed)
    /\ UNCHANGED <<nextId, dlq, failed, call, clock>>

----------------------------------------------------------------------------
(* fail_job *)

\* Mutant of Exhausted: the attempt that failed is not counted.
ExhaustedLate(row) == row.tentativas > row.max_tentativas

Exhausted(row) == row.tentativas + 1 > row.max_tentativas

\* The first SELECT, in autocommit mode.  It selects the payload if the
\* failure is permanent, else the attempt counters: the row decides then
\* between a retry and _fail_permanent, and a missing row ends the call.
FailJob(t, j, permanent) ==
    /\ Idle(t)
    /\ call' = [call EXCEPT ![t] =
                  CASE permanent -> [op |-> "move", job |-> j,
                                     present |-> Present(j)]
                    [] ~permanent /\ ~Present(j) -> NoCall
                    [] OTHER -> [op |-> IF Exhausted(fila[j])
                                        THEN "exhausted" ELSE "reschedule",
                                 job |-> j]]
    /\ UNCHANGED <<fila, nextId, dlq, processed, failed, clock>>

\* The SELECT payload of _fail_permanent, when _fail_with_retry calls it.
ReadPayload(t) ==
    /\ call[t].op = "exhausted"
    /\ call' = [call EXCEPT ![t] = [op |-> "move", job |-> call[t].job,
                                    present |-> Present(call[t].job)]]
    /\ UNCHANGED <<fila, nextId, dlq, processed, failed, clock>>

\* Mutant of DeadRow: FAIL_JOB_SQL inserts the row it does not find.
DeadRowUpsert(row) ==
    [row EXCEPT !.status = "failed", !.worker_id = NULL, !.heartbeat = NULL]

\* FAIL_JOB_SQL
DeadRow(row) ==
    IF row.status = "absent" THEN row
    ELSE [row EXCEPT !.status = "failed", !.worker_id = NULL,
                     !.heartbeat = NULL]

\* FAIL_JOB_SQL, MOVE_TO_DLQ_SQL if the SELECT found the row, and
\* UPDATE_META_FAILED_SQL in any case, in one transaction.
MoveToDeadLetter(t) ==
    /\ call[t].op = "move"
    /\ fila' = [fila EXCEPT ![call[t].job] = DeadRow(@)]
    /\ dlq' = IF call[t].present
              THEN dlq \cup {[original_job_id |-> call[t].job,
                              failed_at |-> clock]}
              ELSE dlq
    /\ failed' = Bump(failed)
    /\ Return(t)
    /\ UNCHANGED <<nextId, processed, clock>>

\* Mutant of Rescheduled: the reschedule gives the attempt back.
RescheduledRefunded(row, delay) ==
    IF row.status = "absent" THEN row
    ELSE [row EXCEPT !.status = "pending", !.next_retry_at = clock + delay,
                     !.tentativas = IF @ = 0 THEN 0 ELSE @ - 1]

\* Mutant of Rescheduled: RETRY_SCHEDULE_SQL forgets the status.
RescheduledInPlace(row, delay) ==
    IF row.status = "absent" THEN row
    ELSE [row EXCEPT !.next_retry_at = clock + delay]

\* RETRY_SCHEDULE_SQL: worker_id and heartbeat keep their values.
Rescheduled(row, delay) ==
    IF row.status = "absent" THEN row
    ELSE [row EXCEPT !.status = "pending", !.next_retry_at = clock + delay]

ScheduleRetry(t, delay) ==
    /\ call[t].op = "reschedule"
    /\ fila' = [fila EXCEPT ![call[t].job] = Rescheduled(@, delay)]
    /\ Return(t)
    /\ UNCHANGED <<nextId, dlq, processed, failed, clock>>

\* A statement of fail_job raises: get_connection rolls back and re-raises.
FailError(t) ==
    /\ call[t].op \in {"reschedule", "exhausted", "move"}
    /\ Return(t)
    /\ UNCHANGED <<fila, nextId, dlq, processed, failed, clock>>

----------------------------------------------------------------------------
(* heartbeat and recover_orphans: the time is read, then the UPDATE waits  *)
(* for the write lock.                                                     *)

\* Every row that satisfies the WHERE clause is updated by one statement.
UpdateWhere(Where(_), Set(_)) ==
    fila' = [j \in JobId |-> IF Where(fila[j]) THEN Set(fila[j]) ELSE fila[j]]

BeginHeartbeat(t, worker) ==
    /\ Idle(t)
    /\ call' = [call EXCEPT ![t] = [op |-> "heartbeat", worker |-> worker,
                                    stamp |-> clock]]
    /\ UNCHANGED <<fila, nextId, dlq, processed, failed, clock>>

\* The WHERE clause of HEARTBEAT_SQL: all the rows signed with the id,
\* whoever claimed them.
Signed(row, worker) == row.status = "processing" /\ row.worker_id = worker

Heartbeat(t) ==
    /\ call[t].op = "heartbeat"
    /\ UpdateWhere(LAMBDA row : Signed(row, call[t].worker),
                   LAMBDA row : [row EXCEPT !.heartbeat = call[t].stamp])
    /\ Return(t)
    /\ UNCHANGED <<nextId, dlq, processed, failed, clock>>

BeginRecover(t) ==
    /\ Idle(t)
    /\ call' = [call EXCEPT ![t] = [op |-> "recover", stamp |-> clock]]
    /\ UNCHANGED <<fila, nextId, dlq, processed, failed, clock>>

\* The WHERE clause of RECOVER_ORPHAN_SQL.
Orphan(row, stamp) ==
    /\ row.status = "processing"
    /\ row.heartbeat = NULL \/ row.heartbeat + StuckTimeout < stamp

\* What RECOVER_ORPHAN_SQL, RETRY_FAILED_SQL and the UPDATE of retry_job set:
\* tentativas is not reset.
Requeued(row, stamp) ==
    [row EXCEPT !.status = "pending", !.next_retry_at = stamp,
                !.worker_id = NULL, !.heartbeat = NULL]

RecoverOrphans(t) ==
    /\ call[t].op = "recover"
    /\ UpdateWhere(LAMBDA row : Orphan(row, call[t].stamp),
                   LAMBDA row : Requeued(row, call[t].stamp))
    /\ Return(t)
    /\ UNCHANGED <<nextId, dlq, processed, failed, clock>>

\* The UPDATE of heartbeat or recover_orphans raises, as when it waited for the
\* lock in vain.
UpdateError(t) ==
    /\ call[t].op \in {"heartbeat", "recover"}
    /\ Return(t)
    /\ UNCHANGED <<fila, nextId, dlq, processed, failed, clock>>

----------------------------------------------------------------------------
(* Operations of the administrator *)

RetryFailedJobs ==
    /\ UpdateWhere(LAMBDA row : row.status = "failed",
                   LAMBDA row : Requeued(row, clock))
    /\ UNCHANGED <<nextId, dlq, processed, failed, call, clock>>

RetryJob(j) ==
    /\ fila[j].status = "failed"
    /\ fila' = [fila EXCEPT ![j] = Requeued(@, clock)]
    /\ UNCHANGED <<nextId, dlq, processed, failed, call, clock>>

PurgeJobs(statuses) ==
    /\ UpdateWhere(LAMBDA row : row.status \in statuses,
                   LAMBDA row : AbsentRow)
    /\ UNCHANGED <<nextId, dlq, processed, failed, call, clock>>

Day(time) == time \div TicksPerDay

\* Mutant of SqlOlder: a cutoff on the wrong side of its day.
SqlOlderByADay(time, days) == Day(time) + days <= Day(clock) + 1

\* created_at and failed_at are written by datetime('now') as
\* "YYYY-MM-DD HH:MM:SS" and compared, as strings, with a cutoff written as
\* "YYYY-MM-DDTHH:MM:SS.mmmZ".  A blank sorts before a T, so a time of the
\* cutoff's own day is below the cutoff whatever the hour.
SqlOlder(time, days) == Day(time) + days <= Day(clock)

\* Mutant of ExpiredLetter: letters are kept a day less than jobs.
ExpiredLetterEarly(letter, days) ==
    Day(letter.failed_at) + days <= Day(clock) + 1

ExpiredLetter(letter, days) == SqlOlder(letter.failed_at, days)

CleanupOldJobs(days) ==
    /\ UpdateWhere(LAMBDA row : row.status = "failed"
                                /\ SqlOlder(row.created_at, days),
                   LAMBDA row : AbsentRow)
    /\ dlq' = {d \in dlq : ~ExpiredLetter(d, days)}
    /\ UNCHANGED <<nextId, processed, failed, call, clock>>

----------------------------------------------------------------------------

Tick ==
    /\ clock < MaxClock
    /\ clock' = clock + 1
    /\ UNCHANGED <<fila, nextId, dlq, processed, failed, call>>

RepoInit ==
    /\ fila = [j \in JobId |-> AbsentRow]
    /\ nextId = 1
    /\ dlq = {}
    /\ processed = 0
    /\ failed = 0
    /\ call = [t \in Thread |-> NoCall]
    /\ clock = 0

Enqueue ==
    \/ \E p \in Priorities, m \in Retries : InsertJob(p, m)
    \/ InsertJobsBatch

Maintenance ==
    \/ RetryFailedJobs
    \/ \E j \in JobId : RetryJob(j)
    \/ \E s \in Status \ {"absent"} : PurgeJobs({s})
    \/ PurgeJobs(Status \ {"absent"})
    \/ \E days \in RetentionDays : CleanupOldJobs(days)

\* Any thread, any worker id, any job that was ever inserted.
RepoNext ==
    \/ Enqueue
    \/ \E t \in Thread :
          \/ \E w \in WorkerId : BeginPop(t, w)
          \/ \E j \in JobId : ClaimJob(t, j)
          \/ PopNothing(t)
          \/ PopError(t)
          \/ \E j \in JobId : j < nextId /\ CompleteJob(t, j)
          \/ \E j \in JobId, permanent \in BOOLEAN :
                j < nextId /\ FailJob(t, j, permanent)
          \/ ReadPayload(t)
          \/ MoveToDeadLetter(t)
          \/ \E d \in RetryDelays : ScheduleRetry(t, d)
          \/ FailError(t)
          \/ \E w \in WorkerId : BeginHeartbeat(t, w)
          \/ Heartbeat(t)
          \/ BeginRecover(t)
          \/ RecoverOrphans(t)
          \/ UpdateError(t)
    \/ Maintenance
    \/ Tick

RepoSpec == RepoInit /\ [][RepoNext]_repoVars

----------------------------------------------------------------------------
(* Properties *)

TypeOK ==
    /\ fila \in [JobId -> Row]
    /\ nextId \in 1 .. MaxJobs + 1
    /\ dlq \subseteq DeadLetter
    /\ processed \in Nat
    /\ failed \in Nat
    /\ call \in [Thread -> Call]
    /\ clock \in Nat

\* A job that stands as failed in the table can be inspected in the dead
\* letter queue.  fail_job inserts the letter from what it read before its
\* transaction, and cleanup_old_jobs deletes rows and letters by two different
\* columns (created_at and failed_at): neither may leave a failed row alone.
FailedHasDeadLetter ==
    \A j \in JobId :
        fila[j].status = "failed" => \E d \in dlq : d.original_job_id = j

\* A row that is being processed names its worker and has a heartbeat that is
\* not in the future, so that RECOVER_ORPHAN_SQL can tell when it goes stale;
\* a failed row belongs to nobody.
LeaseColumns ==
    \A j \in JobId :
        /\ fila[j].status = "processing" =>
              /\ fila[j].worker_id # NULL
              /\ fila[j].heartbeat # NULL
              /\ fila[j].heartbeat <= clock
        /\ fila[j].status = "failed" =>
              fila[j].worker_id = NULL /\ fila[j].heartbeat = NULL

\* Ids not given out yet have no row.
IdsAhead == \A j \in JobId : j >= nextId => ~Present(j)

\* Rows were created in the past.
RowsInPast == \A j \in JobId : Present(j) => fila[j].created_at <= clock

\* What an operation has read stays true enough: its time is not ahead of the
\* clock, its job was inserted, and a job it did not find is not there.
CallsInPast ==
    \A t \in Thread :
        /\ call[t].op \in {"pop", "heartbeat", "recover"} => call[t].stamp <= clock
        /\ call[t].op \in {"reschedule", "exhausted", "move"} => call[t].job < nextId
        /\ call[t].op = "move" =>
              (~call[t].present => ~Present(call[t].job))

\* A failed row has a letter that is no older than the row, so that
\* cleanup_old_jobs never finds the letter expired and the row not.
LetterNotOlder ==
    \A j \in JobId :
        fila[j].status = "failed" =>
           \E d \in dlq : /\ d.original_job_id = j
                         /\ d.failed_at >= fila[j].created_at

\* The inductive invariant behind FailedHasDeadLetter, LeaseColumns and the
\* action properties below.
RepoInv ==
    /\ TypeOK
    /\ IdsAhead
    /\ RowsInPast
    /\ CallsInPast
    /\ LeaseColumns
    /\ LetterNotOlder

\* A claim changes hands only through the pending status, by a new claim that
\* spends an attempt: while a row stays in processing, neither its worker nor
\* its attempt counter changes, in spite of the heartbeats, claims, recoveries
\* and reschedules that act on a time or a row read earlier.
LeaseKept ==
    [][\A j \in JobId :
         fila[j].status = "processing" /\ fila'[j].status = "processing" =>
            /\ fila'[j].worker_id = fila[j].worker_id
            /\ fila'[j].tentativas = fila[j].tentativas]_repoVars

\* tentativas counts claims and nothing else, and never starts again while the
\* row lives: retries, recoveries and manual requeues keep it.
AttemptsCountClaims ==
    [][\A j \in JobId :
         Present(j) /\ fila'[j].status # "absent" =>
            fila'[j].tentativas = fila[j].tentativas
               + (IF fila[j].status = "pending" /\ fila'[j].status = "processing"
                  THEN 1 ELSE 0)]_repoVars

\* A deleted job never comes back: a late fail_job, reschedule or requeue of a
\* job that was completed or purged meanwhile finds no row to write.
NoResurrection ==
    [][\A j \in JobId :
         ~Present(j) /\ j < nextId => fila'[j].status = "absent"]_repoVars

\* cleanup_old_jobs removes no row that is younger than the days it was given,
\* less a day: dates in two formats are compared as strings, which is right
\* about the day and wrong about the time of day.
CleanupAgeBound ==
    [][\A days \in RetentionDays : CleanupOldJobs(days) =>
          \A j \in JobId :
             Present(j) /\ fila'[j].status = "absent" =>
                fila[j].created_at + (days - 1) * TicksPerDay < clock]_repoVars

=============================================================================
