-------------------------- MODULE ShardConnection --------------------------
(***************************************************************************)
(* The connections of threads to one shard file, and the transactions they *)
(* leave open (core/db/connection.py, under the operations of              *)
(* core/db/repository.py).                                                 *)
(*                                                                         *)
(* ShardRepository takes an operation for atomic; here each statement is a *)
(* step that may raise, and SQLite in WAL mode with Python's implicit      *)
(* transactions is what it is under the code:                              *)
(*   - one connection at a time holds the write lock;                      *)
(*   - INSERT, UPDATE and DELETE open a transaction that lasts until the   *)
(*     thread commits or rolls back, also when the statement itself raises;*)
(*   - the first read in a transaction takes a snapshot, which nothing but *)
(*     the end of the transaction renews, and which cannot be written to   *)
(*     once another connection has committed;                              *)
(*   - BEGIN IMMEDIATE in an open transaction raises, but not before it    *)
(*     has taken the write lock if that is free.                           *)
(* Only pop_job and fail_job (through get_connection) roll back.  What any *)
(* other operation leaves open is there for the thread's next one.         *)
(*                                                                         *)
(* A crash of the process leaves "file" as it is.  A thread that ends      *)
(* without a crash leaves its connection, with its transaction, in         *)
(* _all_connections: it is a thread that does nothing more.                *)
(***************************************************************************)
EXTENDS Naturals

CONSTANTS
    Producer,   \* threads that enqueue and wait
    Consumer,   \* threads that pop and settle jobs; they may produce, too
    MaxJobs,    \* bound: jobs handed to enqueue and enqueue_batch
    Limit,      \* max_tentativas of every job
    BatchSize,  \* jobs in a call of enqueue_batch
    NULL

Job == 1 .. MaxJobs

\* A row that was deleted stays in the model as "gone", one whose insert was
\* rolled back was never there.
Row == [status : {"absent", "pending", "processing", "failed", "gone"},
        claims : Nat]

Content == [rows : [Job -> Row], letters : SUBSET Job]

ASSUME ConnAssumption ==
    /\ MaxJobs \in Nat
    /\ Limit \in Nat \ {0}
    /\ BatchSize \in Nat \ {0}
    /\ NULL \notin Nat
    /\ NULL \notin Content

Thread == Producer \cup Consumer

VARIABLES
    file,       \* what is committed: rows and dead letters
    txn,        \* the transaction of each thread's connection
    view,       \* what that transaction sees, NULL until it reads or writes
    stage,      \* the statement each thread is about to execute
    sending,    \* the jobs of an insert in progress
    held,       \* the job a consumer claimed
    offered,    \* history: the jobs handed to an insert so far
    acked,      \* history: the jobs whose insert returned
    ran         \* history: the jobs whose process_function returned

connVars == <<file, txn, view, stage, sending, held, offered, acked, ran>>

----------------------------------------------------------------------------
(* Content of the file *)

NoRow == [status |-> "absent", claims |-> 0]

Present(content, j) == content.rows[j].status \notin {"absent", "gone"}

PendingIn(content) == {j \in Job : content.rows[j].status = "pending"}

SetStatus(content, j, status) == [content EXCEPT !.rows[j].status = status]

----------------------------------------------------------------------------
(* SQLite and sqlite3 *)

Sees(t) == IF view[t] = NULL THEN file ELSE view[t]

LockFree == \A t \in Thread : txn[t] # "writing"

MayWrite(t) == txn[t] = "writing" \/ (LockFree /\ txn[t] # "stale")

\* An INSERT, UPDATE or DELETE that leaves the thread seeing the content.
Write(t, content) ==
    /\ MayWrite(t)
    /\ txn' = [txn EXCEPT ![t] = "writing"]
    /\ view' = [view EXCEPT ![t] = content]
    /\ UNCHANGED file

\* A SELECT outside a transaction leaves nothing behind, inside it takes the
\* snapshot.
Read(t) ==
    /\ txn' = [txn EXCEPT ![t] = IF @ = "begun" THEN "reading" ELSE @]
    /\ view' = [view EXCEPT ![t] = IF txn[t] = "begun" THEN file ELSE @]
    /\ UNCHANGED file

RollBack(t) ==
    /\ txn' = [txn EXCEPT ![t] = "none"]
    /\ view' = [view EXCEPT ![t] = NULL]
    /\ UNCHANGED file

\* A statement raises: the lock timed out, the snapshot is stale, a value
\* cannot be bound, or the disk is full, when SQLite may roll back by itself.
WriteRaises(t) ==
    \/ /\ txn' = [txn EXCEPT ![t] = IF @ = "none" THEN "begun" ELSE @]
       /\ UNCHANGED <<file, view>>
    \/ RollBack(t)

BeginImmediate(t) ==
    /\ txn[t] = "none"
    /\ LockFree
    /\ txn' = [txn EXCEPT ![t] = "writing"]
    /\ view' = [view EXCEPT ![t] = file]
    /\ UNCHANGED file

BeginRaises(t) ==
    /\ IF txn[t] \in {"begun", "reading"} /\ LockFree
       THEN /\ txn' = [txn EXCEPT ![t] = "writing"]
            /\ view' = [view EXCEPT ![t] = file]
       ELSE UNCHANGED <<txn, view>>
    /\ UNCHANGED file

\* A commit that wrote makes the snapshots of others stale; one that leaves
\* the content as it was may have written nothing.
Commit(t) ==
    \E wrote \in BOOLEAN :
       /\ wrote => txn[t] = "writing"
       /\ Sees(t) # file => wrote \/ txn[t] # "writing"
       /\ file' = IF txn[t] = "writing" THEN view[t] ELSE file
       /\ txn' = [u \in Thread |->
                    CASE u = t -> "none"
                      [] u # t /\ wrote /\ txn[u] = "reading" -> "stale"
                      [] OTHER -> txn[u]]
       /\ view' = [view EXCEPT ![t] = NULL]

Goto(t, s) == stage' = [stage EXCEPT ![t] = s]

\* Where a thread goes on when an operation is over: a process_function that
\* enqueues runs on the connection of its worker.
Back(t) == Goto(t, IF held[t] = NULL THEN "idle" ELSE "running")

MayCall(t) == stage[t] = IF held[t] = NULL THEN "idle" ELSE "running"

----------------------------------------------------------------------------
(* insert_job and insert_jobs_batch: no rollback *)

\* The jobs of the next call.
Batch(n) == offered + 1 .. offered + n

Inserted(content, j) ==
    [content EXCEPT !.rows[j] = [NoRow EXCEPT !.status = "pending"]]

\* The INSERT of insert_job.
InsertJob(t) ==
    /\ MayCall(t)
    /\ offered < MaxJobs
    /\ offered' = offered + 1
    /\ \/ /\ Write(t, Inserted(Sees(t), offered + 1))
          /\ sending' = [sending EXCEPT ![t] = Batch(1)]
          /\ Goto(t, "inserted")
       \/ WriteRaises(t) /\ UNCHANGED <<sending, stage>>
    /\ UNCHANGED <<held, acked, ran>>

\* The BEGIN IMMEDIATE of insert_jobs_batch.
InsertJobsBatch(t) ==
    /\ MayCall(t)
    /\ offered + BatchSize <= MaxJobs
    /\ offered' = offered + BatchSize
    /\ \/ /\ BeginImmediate(t)
          /\ sending' = [sending EXCEPT ![t] = Batch(BatchSize)]
          /\ Goto(t, "batching")
       \/ BeginRaises(t) /\ UNCHANGED <<sending, stage>>
    /\ UNCHANGED <<held, acked, ran>>

Unsent(t) == {j \in sending[t] : view[t].rows[j] = NoRow}

\* One row of executemany, in the order of the list.
InsertRow(t) ==
    /\ stage[t] = "batching"
    /\ \E j \in Unsent(t) :
          /\ \A k \in Unsent(t) : j <= k
          /\ Write(t, Inserted(Sees(t), j))
          /\ Goto(t, IF Unsent(t) = {j} THEN "inserted" ELSE "batching")
    /\ UNCHANGED <<sending, held, offered, acked, ran>>

\* Mutant of FinishInsert: the commit is left to the next call.
FinishInsertOpen(t) ==
    /\ stage[t] = "inserted"
    /\ acked' = acked \cup sending[t]
    /\ sending' = [sending EXCEPT ![t] = {}]
    /\ Back(t)
    /\ UNCHANGED <<file, txn, view, held, offered, ran>>

\* The commit, and the call returns.
FinishInsert(t) ==
    /\ stage[t] = "inserted"
    /\ Commit(t)
    /\ acked' = acked \cup sending[t]
    /\ sending' = [sending EXCEPT ![t] = {}]
    /\ Back(t)
    /\ UNCHANGED <<held, offered, ran>>

\* A row of executemany raises, or the commit does, after which SQLite has
\* rolled back.
InsertRaises(t) ==
    /\ \/ stage[t] = "batching" /\ WriteRaises(t)
       \/ stage[t] = "inserted" /\ RollBack(t)
    /\ sending' = [sending EXCEPT ![t] = {}]
    /\ Back(t)
    /\ UNCHANGED <<held, offered, acked, ran>>

----------------------------------------------------------------------------
(* pop_job: an OperationalError is rolled back and is None to the caller.  A   *)
(* lock that timed out, a transaction that was left open and a disk that is    *)
(* full are such errors; others take a file that is corrupt, and are left out. *)

BeginPop(t) ==
    /\ stage[t] = "idle"
    /\ BeginImmediate(t)
    /\ Goto(t, "popping")
    /\ UNCHANGED <<sending, held, offered, acked, ran>>

\* Mutant of Claimed: the attempt is not counted.
ClaimedUncounted(row) == [row EXCEPT !.status = "processing"]

\* CLAIM_JOB_SQL
Claimed(row) == [row EXCEPT !.status = "processing", !.claims = @ + 1]

ClaimJob(t) ==
    /\ stage[t] = "popping"
    /\ \E j \in PendingIn(view[t]) :
          /\ \A k \in PendingIn(view[t]) : j <= k
          /\ Write(t, [view[t] EXCEPT !.rows[j] = Claimed(@)])
          /\ held' = [held EXCEPT ![t] = j]
    /\ Goto(t, "claimed")
    /\ UNCHANGED <<sending, offered, acked, ran>>

\* The commit, and the job is returned; or there was none.
Take(t) ==
    /\ \/ stage[t] = "claimed" /\ Goto(t, "running")
       \/ stage[t] = "popping" /\ PendingIn(view[t]) = {} /\ Goto(t, "idle")
    /\ Commit(t)
    /\ UNCHANGED <<sending, held, offered, acked, ran>>

\* Mutant of PopRaises: the claim is rolled back, the job returned.
PopRaisesLate(t) ==
    /\ stage[t] \in {"idle", "popping", "claimed"}
    /\ RollBack(t)
    /\ Goto(t, IF held[t] = NULL THEN "idle" ELSE "running")
    /\ UNCHANGED <<sending, held, offered, acked, ran>>

\* Mutant of PopRaises: no rollback.
PopRaisesOpen(t) ==
    /\ stage[t] \in {"idle", "popping", "claimed"}
    /\ held' = [held EXCEPT ![t] = NULL]
    /\ Goto(t, "idle")
    /\ UNCHANGED <<file, txn, view, sending, offered, acked, ran>>

\* The except clause.  At stage "idle" it is BEGIN IMMEDIATE that raised: the
\* lock timed out, or an earlier operation left its transaction open.
PopRaises(t) ==
    /\ stage[t] \in {"idle", "popping", "claimed"}
    /\ RollBack(t)
    /\ held' = [held EXCEPT ![t] = NULL]
    /\ Goto(t, "idle")
    /\ UNCHANGED <<sending, offered, acked, ran>>

----------------------------------------------------------------------------
(* complete_job: no rollback, but the worker's handler calls fail_job *)

BeginComplete(t) ==
    /\ stage[t] = "running"
    /\ \/ BeginImmediate(t) /\ Goto(t, "deleting")
       \/ BeginRaises(t) /\ Goto(t, "failing")
    /\ ran' = ran \cup {held[t]}
    /\ UNCHANGED <<sending, held, offered, acked>>

Delete(t) ==
    /\ stage[t] = "deleting"
    /\ Write(t, SetStatus(view[t], held[t], "gone"))
    /\ Goto(t, "deleted")
    /\ UNCHANGED <<sending, held, offered, acked, ran>>

\* UPDATE_META_PROCESSED_SQL and the commit.
FinishComplete(t) ==
    /\ stage[t] = "deleted"
    /\ Commit(t)
    /\ held' = [held EXCEPT ![t] = NULL]
    /\ Goto(t, "idle")
    /\ UNCHANGED <<sending, offered, acked, ran>>

CompleteRaises(t) ==
    /\ stage[t] \in {"deleting", "deleted"}
    /\ WriteRaises(t)
    /\ Goto(t, "failing")
    /\ UNCHANGED <<sending, held, offered, acked, ran>>

----------------------------------------------------------------------------
(* fail_job, under get_connection: rolled back and raised again *)

\* process_function raises.
Raise(t) ==
    /\ stage[t] = "running"
    /\ Goto(t, "failing")
    /\ UNCHANGED <<file, txn, view, sending, held, offered, acked, ran>>

\* The first SELECT, and what it decides.
ReadRow(t) ==
    /\ stage[t] = "failing"
    /\ Read(t)
    /\ LET row == Sees(t).rows[held[t]] IN
       \E permanent \in BOOLEAN :
          Goto(t, CASE ~permanent /\ ~Present(Sees(t), held[t]) -> "written"
                    [] permanent \/ row.claims + 1 > Limit -> "burying"
                    [] OTHER -> "retrying")
    /\ UNCHANGED <<sending, held, offered, acked, ran>>

\* An UPDATE by id of a row that is not there changes nothing.
ScheduleRetry(t) ==
    /\ stage[t] = "retrying"
    /\ Write(t, IF Present(Sees(t), held[t])
                THEN SetStatus(Sees(t), held[t], "pending") ELSE Sees(t))
    /\ Goto(t, "written")
    /\ UNCHANGED <<sending, held, offered, acked, ran>>

\* FAIL_JOB_SQL
FailPermanent(t) ==
    /\ stage[t] = "burying"
    /\ Write(t, IF Present(Sees(t), held[t])
                THEN SetStatus(Sees(t), held[t], "failed") ELSE Sees(t))
    /\ Goto(t, "buried")
    /\ UNCHANGED <<sending, held, offered, acked, ran>>

\* MOVE_TO_DLQ_SQL and UPDATE_META_FAILED_SQL
MoveToDlq(t) ==
    /\ stage[t] = "buried"
    /\ Write(t, IF Present(view[t], held[t])
                THEN [view[t] EXCEPT !.letters = @ \cup {held[t]}] ELSE view[t])
    /\ Goto(t, "written")
    /\ UNCHANGED <<sending, held, offered, acked, ran>>

FinishFail(t) ==
    /\ stage[t] = "written"
    /\ Commit(t)
    /\ held' = [held EXCEPT ![t] = NULL]
    /\ Goto(t, "idle")
    /\ UNCHANGED <<sending, offered, acked, ran>>

\* Mutant of AfterFail: the transaction stays as it is.
AfterFailNothing(t) == WriteRaises(t)

\* The except clause of get_connection.
AfterFail(t) == RollBack(t)

\* A Worker's thread ends with the exception; a consumer's own loop may go on.
FailRaises(t) ==
    /\ stage[t] \in {"failing", "retrying", "burying", "buried", "written"}
    /\ AfterFail(t)
    /\ held' = [held EXCEPT ![t] = NULL]
    /\ \E s \in {"idle", "dead"} : Goto(t, s)
    /\ UNCHANGED <<sending, offered, acked, ran>>

----------------------------------------------------------------------------
(* Operations of one implicit transaction: no rollback *)

\* heartbeat, for all of them: what they change does not matter here.
Update(t) ==
    /\ stage[t] = "idle"
    /\ \/ Write(t, Sees(t)) /\ Goto(t, "updated")
       \/ WriteRaises(t) /\ UNCHANGED stage
    /\ UNCHANGED <<sending, held, offered, acked, ran>>

FinishUpdate(t) ==
    /\ stage[t] = "updated"
    /\ Commit(t) \/ RollBack(t)
    /\ Goto(t, "idle")
    /\ UNCHANGED <<sending, held, offered, acked, ran>>

----------------------------------------------------------------------------
(* wait_until_empty, and close *)

BeginWait(t) ==
    /\ stage[t] = "idle"
    /\ Goto(t, "waiting")
    /\ UNCHANGED <<file, txn, view, sending, held, offered, acked, ran>>

\* get_stats, and the test of is_empty.
Look(t) ==
    /\ stage[t] = "waiting"
    /\ Read(t)
    /\ IF PendingIn(Sees(t)) = {} THEN Goto(t, "idle") ELSE UNCHANGED stage
    /\ UNCHANGED <<sending, held, offered, acked, ran>>

\* The timeout, if the caller gave one.
WaitTimesOut(t) ==
    /\ stage[t] = "waiting"
    /\ Goto(t, "idle")
    /\ UNCHANGED <<file, txn, view, sending, held, offered, acked, ran>>

\* close_all: the caller's own connection.
Close(t) ==
    /\ stage[t] = "idle"
    /\ RollBack(t)
    /\ UNCHANGED <<stage, sending, held, offered, acked, ran>>

----------------------------------------------------------------------------

ConnInit ==
    /\ file = [rows |-> [j \in Job |-> NoRow], letters |-> {}]
    /\ txn = [t \in Thread |-> "none"]
    /\ view = [t \in Thread |-> NULL]
    /\ stage = [t \in Thread |-> "idle"]
    /\ sending = [t \in Thread |-> {}]
    /\ held = [t \in Thread |-> NULL]
    /\ offered = 0
    /\ acked = {}
    /\ ran = {}

\* What a thread goes on with once it has begun.
GoOn(t) ==
    \/ InsertRow(t) \/ FinishInsert(t) \/ InsertRaises(t)
    \/ FinishUpdate(t)

\* The loop of a consumer.
Consume(t) ==
    \/ BeginPop(t) \/ ClaimJob(t) \/ Take(t) \/ PopRaises(t)
    \/ BeginComplete(t) \/ Delete(t) \/ FinishComplete(t) \/ CompleteRaises(t)
    \/ Raise(t) \/ ReadRow(t) \/ ScheduleRetry(t)
    \/ FailPermanent(t) \/ MoveToDlq(t) \/ FinishFail(t) \/ FailRaises(t)

Produce(t) == InsertJob(t) \/ InsertJobsBatch(t)

Operate(t) == BeginWait(t) \/ WaitTimesOut(t) \/ Close(t)

ConnNext ==
    \/ \E t \in Thread : GoOn(t) \/ Update(t)
    \/ \E t \in Consumer : Consume(t)
    \/ \E t \in Producer : Produce(t)
    \/ \E t \in Producer \ Consumer : Operate(t) \/ Look(t)

ConnSpec == ConnInit /\ [][ConnNext]_connVars

\* Consumers go on with what they began and poll; nobody has to enqueue.
ConsumersFair == \A t \in Consumer : WF_connVars(GoOn(t) \/ Consume(t))

FairConn == ConnSpec /\ ConsumersFair

\* Producers that enqueue and wait, and leave maintenance to the consumers.
WaitNext ==
    \/ \E t \in Thread : GoOn(t)
    \/ \E t \in Consumer : Consume(t) \/ Update(t)
    \/ \E t \in Producer : Produce(t)
    \/ \E t \in Producer \ Consumer : Operate(t) \/ Look(t)

\* Who waits without a timeout looks again and again.
FairWait ==
    /\ ConnInit /\ [][WaitNext]_connVars
    /\ ConsumersFair
    /\ \A t \in Producer \ Consumer : WF_connVars(Look(t))

----------------------------------------------------------------------------
(* Properties *)

ConnTypeOK ==
    /\ file \in Content
    /\ txn \in [Thread -> {"none", "begun", "reading", "stale", "writing"}]
    /\ view \in [Thread -> Content \cup {NULL}]
    /\ \A t \in Thread :
          /\ view[t] = NULL <=> txn[t] \in {"none", "begun"}
          /\ txn[t] = "reading" => view[t] = file
    /\ \A t, u \in Thread : txn[t] = "writing" /\ txn[u] = "writing" => t = u
    /\ stage \in [Thread -> {"idle", "batching", "inserted", "popping",
                             "claimed", "running", "deleting", "deleted",
                             "failing", "retrying", "burying", "buried",
                             "written", "updated", "waiting", "dead"}]
    /\ sending \in [Thread -> SUBSET Job]
    /\ held \in [Thread -> Job \cup {NULL}]
    /\ offered \in 0 .. MaxJobs
    /\ acked \subseteq Job
    /\ ran \subseteq Job

\* A job whose insert returned is in the file, and leaves it only after its
\* process_function returned: whatever transactions were left open, joined,
\* rolled back or committed by somebody's next operation.
NothingLost ==
    \A j \in acked :
        /\ file.rows[j].status # "absent"
        /\ file.rows[j].status = "gone" => j \in ran

\* In the file a failed row has its letter: fail_job that raises between its
\* statements leaves nothing of them for a later commit of the thread.
DeadHasLetter ==
    \A j \in Job : file.rows[j].status = "failed" => j \in file.letters

\* A commit adds new rows to the file, and changes no other row but that of
\* the job its thread holds, as far as the thread has come with it.
Draft(t, j) ==
    LET was == file.rows[j]
        now == view[t].rows[j]
    IN  IF j = held[t]
        THEN \/ /\ stage[t] = "claimed"
                /\ was.status = "pending" /\ now = Claimed(was)
             \/ stage[t] \notin {"claimed", "deleted", "buried"} /\ now = was
             \/ /\ stage[t] \in {"deleted", "failing", "retrying", "burying",
                                 "buried", "written"}
                /\ now = [was EXCEPT !.status = "gone"] /\ j \in ran
             \/ /\ stage[t] = "written" /\ was.claims < Limit
                /\ now = [was EXCEPT !.status = "pending"]
             \/ /\ stage[t] \in {"buried", "written"}
                /\ now = [was EXCEPT !.status = "failed"]
        ELSE \/ now = was
             \/ was = NoRow /\ now.status = "pending" /\ now.claims = 0 /\ j <= offered

\* The one who may write has a draft of the next content of the file.
DraftSound(t) ==
    txn[t] = "writing" =>
       /\ \A j \in Job : Draft(t, j)
       /\ file.letters \subseteq view[t].letters
       /\ \A j \in Job :
             view[t].rows[j].status = "failed" =>
                j \in view[t].letters \/ (stage[t] = "buried" /\ j = held[t])

\* What a thread may rely on at each of its statements.
ThreadSound(t) ==
    /\ held[t] = NULL => stage[t] \in {"idle", "batching", "inserted", "popping",
                                     "updated", "waiting", "dead"}
    /\ held[t] # NULL =>
          /\ stage[t] \notin {"idle", "popping", "updated", "waiting", "dead"}
          /\ t \in Consumer
          /\ stage[t] # "claimed" => file.rows[held[t]].status = "processing"
          /\ stage[t] = "deleting" => held[t] \in ran
          /\ stage[t] = "retrying" => file.rows[held[t]].claims < Limit
    /\ stage[t] \in {"batching", "inserted", "popping", "claimed", "deleting",
                    "deleted", "buried", "updated"} => txn[t] = "writing"
    /\ stage[t] = "popping" => view[t] = file
    /\ t \in Consumer /\ txn[t] \in {"reading", "stale"} =>
          stage[t] \in {"retrying", "burying", "written"}
    /\ stage[t] = "batching" => \A j \in sending[t] : j <= offered
    /\ stage[t] = "inserted" => \A j \in sending[t] : view[t].rows[j] # NoRow
    /\ DraftSound(t)

FileSound ==
    \A j \in Job :
       LET row == file.rows[j] IN
       /\ row.status = "absent" => row = NoRow
       /\ row.status = "pending" => row.claims < Limit
       /\ row.status = "gone" => j \in ran
       /\ j > offered => row = NoRow

\* Two threads never hold one job.
HeldOnce ==
    \A t, u \in Thread : held[t] # NULL /\ held[t] = held[u] => t = u

ConnInv ==
    /\ ConnTypeOK
    /\ FileSound
    /\ \A t \in Thread : ThreadSound(t)
    /\ HeldOnce
    /\ NothingLost
    /\ DeadHasLetter

\* The life of each job in the file.
LifeOf(j) ==
    LET row == file.rows[j] IN
    [state   |-> CASE row.status = "absent" -> "unborn"
                   [] row.status = "pending" -> "waiting"
                   [] row.status = "processing" -> "running"
                   [] row.status = "failed" -> "dead"
                   [] row.status = "gone" -> "gone",
     claims  |-> IF row.status = "gone" THEN 0 ELSE row.claims,
     limit   |-> IF Present(file, j) THEN Limit ELSE 0,
     rescues |-> 0]

Contract == INSTANCE JobContract WITH life <- [j \in Job |-> LifeOf(j)]

\* What is committed keeps the contract of JobContract, statement by statement:
\* the atomicity that ShardRepository assumes is there for every job.
KeepsContract == Contract!Spec

\* A consumer that was left with the write lock, by itself or by a
\* process_function that enqueues, gives it back.
ConsumersLetGo ==
    \A t \in Consumer : txn[t] = "writing" ~> txn[t] = "none"

\* queue.py:420-423: wait_until_empty returns once the queue is empty, as it is
\* for good when all its jobs were processed and their rows deleted.
WaitSeesEmpty ==
    \A t \in Producer \ Consumer :
        <>[](\A j \in Job : ~Present(file, j)) => []<>(stage[t] # "waiting")

=============================================================================
