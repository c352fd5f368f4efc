---------------------------- MODULE JobLifecycle ----------------------------
(***************************************************************************)
(* Workers on one shard: the loop of Worker (core/workers/base.py) over    *)
(* the operations of ShardRepository, with an operator that recovers       *)
(* orphans, requeues, purges and cleans up.                                *)
(*                                                                         *)
(* A worker pops a job, runs it, and completes or fails it by the job id   *)
(* alone: nothing it sends says which claim it speaks for.  A claim can be *)
(* taken away (recover_orphans, retry_job, purge) while its worker runs.   *)
(* A worker may die at any step and be started again under the same id,    *)
(* and several threads may share an id (WorkerOf): stop() that times out,  *)
(* followed by start(), leaves two.                                        *)
(***************************************************************************)
EXTENDS ShardRepository

CONSTANTS
    Worker,     \* the threads that run Worker._run_loop; the others operate
    WorkerOf    \* the worker_id of each

\* The Job that pop_job returns.
Holding == [job : JobId, attempts : Nat, max_attempts : Nat]

ASSUME WorkerAssumption ==
    /\ Worker \subseteq Thread
    /\ WorkerOf \in [Worker -> WorkerId]
    /\ NULL \notin Holding

VARIABLES
    pc,         \* where each worker is in _run_loop
    held,       \* the Job each worker got from pop_job, NULL if none
    rescues,    \* history: times a job was requeued other than by its worker
    orphaned    \* history: the jobs one of whose workers died

lifeVars == <<fila, nextId, dlq, processed, failed, call, clock,
              pc, held, rescues, orphaned>>

Stage == {"polling", "popping", "processing", "failing", "beating", "dead"}

Goto(t, stage) == pc' = [pc EXCEPT ![t] = stage]

Drop(t) == held' = [held EXCEPT ![t] = NULL]

----------------------------------------------------------------------------
(* One iteration of _run_loop *)

Poll(t) ==
    /\ pc[t] = "polling"
    /\ BeginPop(t, WorkerOf[t])
    /\ Goto(t, "popping")
    /\ UNCHANGED <<held, rescues, orphaned>>

\* Job.from_row of the row as it was before the claim.
JobOf(j, row) ==
    [job |-> j, attempts |-> row.tentativas,
     max_attempts |-> row.max_tentativas]

Take(t, j) ==
    /\ pc[t] = "popping"
    /\ ClaimJob(t, j)
    /\ held' = [held EXCEPT ![t] = JobOf(j, fila[j])]
    /\ Goto(t, "processing")
    /\ UNCHANGED <<rescues, orphaned>>

FindNothing(t) ==
    /\ pc[t] = "popping"
    /\ PopNothing(t) \/ PopError(t)
    /\ Goto(t, "polling")
    /\ UNCHANGED <<held, rescues, orphaned>>

\* process_function returns and complete_job commits.
Succeed(t) ==
    /\ pc[t] = "processing"
    /\ CompleteJob(t, held[t].job)
    /\ Goto(t, "beating")
    /\ Drop(t)
    /\ UNCHANGED <<rescues, orphaned>>

\* process_function raises, or complete_job does (the lock timed out): the
\* handler calls fail_job, which ends at once if there is no row to retry.
Raise(t, permanent) ==
    /\ pc[t] = "processing"
    /\ FailJob(t, held[t].job, permanent)
    /\ IF call'[t] = NoCall
       THEN Goto(t, "beating") /\ Drop(t)
       ELSE Goto(t, "failing") /\ UNCHANGED held
    /\ UNCHANGED <<rescues, orphaned>>

GiveUp(t) ==
    /\ pc[t] = "failing"
    /\ ReadPayload(t)
    /\ UNCHANGED <<pc, held, rescues, orphaned>>

\* fail_job returns.
Settle(t) ==
    /\ pc[t] = "failing"
    /\ MoveToDeadLetter(t) \/ \E d \in RetryDelays : ScheduleRetry(t, d)
    /\ Goto(t, "beating")
    /\ Drop(t)
    /\ UNCHANGED <<rescues, orphaned>>

\* The thread ends: fail_job raised out of _run_loop, or the process died.
\* SQLite rolls back what was not committed; the row stays as it is.
Die(t) ==
    /\ pc[t] # "dead"
    /\ Return(t)
    /\ Goto(t, "dead")
    /\ Drop(t)
    /\ orphaned' = IF held[t] = NULL THEN orphaned
                   ELSE orphaned \cup {held[t].job}
    /\ UNCHANGED <<fila, nextId, dlq, processed, failed, clock, rescues>>

\* start() of a worker with the same worker_id.
Restart(t) ==
    /\ pc[t] = "dead"
    /\ Goto(t, "polling")
    /\ UNCHANGED <<repoVars, held, rescues, orphaned>>

\* _send_heartbeat, only between two jobs.
Beat(t) ==
    /\ pc[t] = "beating"
    /\ \/ BeginHeartbeat(t, WorkerOf[t]) /\ UNCHANGED pc
       \/ Heartbeat(t) /\ Goto(t, "polling")
    /\ UNCHANGED <<held, rescues, orphaned>>

\* The heartbeat interval has not passed, or the heartbeat raised.
SkipBeat(t) ==
    /\ pc[t] = "beating"
    /\ Return(t)
    /\ Goto(t, "polling")
    /\ UNCHANGED <<fila, nextId, dlq, processed, failed, clock>>
    /\ UNCHANGED <<held, rescues, orphaned>>

----------------------------------------------------------------------------
(* The operator *)

Rescued(j) == fila[j].status # "pending" /\ fila'[j].status = "pending"

Operate ==
    /\ \/ \E t \in Thread \ Worker : BeginRecover(t) \/ RecoverOrphans(t)
       \/ Maintenance
    /\ rescues' = [j \in JobId |->
                     IF Rescued(j) THEN rescues[j] + 1 ELSE rescues[j]]
    /\ UNCHANGED <<pc, held, orphaned>>

LifeInit ==
    /\ RepoInit
    /\ pc = [t \in Worker |-> "polling"]
    /\ held = [t \in Worker |-> NULL]
    /\ rescues = [j \in JobId |-> 0]
    /\ orphaned = {}

LifeNext ==
    \/ (Enqueue \/ Tick) /\ UNCHANGED <<pc, held, rescues, orphaned>>
    \/ \E t \in Worker :
          \/ Poll(t)
          \/ \E j \in JobId : Take(t, j)
          \/ FindNothing(t)
          \/ Succeed(t)
          \/ \E permanent \in BOOLEAN : Raise(t, permanent)
          \/ GiveUp(t)
          \/ Settle(t)
          \/ Die(t)
          \/ Restart(t)
          \/ Beat(t)
          \/ SkipBeat(t)
    \/ Operate

LifeSpec == LifeInit /\ [][LifeNext]_lifeVars

----------------------------------------------------------------------------
(* Properties *)

LifeTypeOK ==
    /\ TypeOK
    /\ pc \in [Worker -> Stage]
    /\ held \in [Worker -> Holding \cup {NULL}]
    /\ rescues \in [JobId -> Nat]
    /\ orphaned \subseteq JobId

Holds(t, j) == held[t] # NULL /\ held[t].job = j

\* Two workers run the same job at once only if it was requeued under one of
\* them by recover_orphans or by hand: pop_job, retries, crashes, restarts and
\* shared worker ids alone never do that.
SoleHolder ==
    \A j \in JobId :
        rescues[j] = 0 => Cardinality({t \in Worker : Holds(t, j)}) <= 1

\* A row in processing that nobody works on is the work of a death: none of
\* the races between workers and operator strands a job by itself.
StrandedByDeath ==
    \A j \in JobId :
        fila[j].status = "processing" =>
           j \in orphaned \/ \E t \in Worker : Holds(t, j)

\* Where a worker is tells what it has done in the shard, and for which job.
InShard ==
    \A t \in Worker :
        /\ call[t].op = "pop" <=> pc[t] = "popping"
        /\ call[t].op \in {"reschedule", "exhausted", "move"} <=> pc[t] = "failing"
        /\ call[t].op = "heartbeat" => pc[t] = "beating"
        /\ call[t].op # "recover"
        /\ held[t] # NULL <=> pc[t] \in {"processing", "failing"}
        /\ pc[t] = "failing" => call[t].job = held[t].job
        /\ held[t] # NULL => held[t].job < nextId

\* What is not there has no attempts, and was not requeued before it was there.
Blank ==
    \A j \in JobId :
        /\ ~Present(j) => fila[j] = AbsentRow
        /\ j >= nextId => rescues[j] = 0

\* The one holder of a job that was never requeued from outside finds its row
\* in processing, or gone.
HolderFinds ==
    \A j \in JobId : rescues[j] = 0 =>
        \A t, u \in Worker : Holds(t, j) =>
            /\ fila[j].status \in {"processing", "absent"}
            /\ Holds(u, j) => u = t

\* The claims of those who hold a job are among those its row counts, and who
\* is about to reschedule it has not the last one.
Numbered ==
    \A t \in Worker, j \in JobId : Holds(t, j) /\ Present(j) =>
        /\ held[t].attempts + 1 <= fila[j].tentativas
        /\ call[t].op = "reschedule" =>
              held[t].attempts + 1 < fila[j].max_tentativas

\* Those whose failure may yet be followed by a retry.
MayRetry(j) ==
    {t \in Worker : Holds(t, j) /\ held[t].attempts + 1 < fila[j].max_tentativas}

\* The claims of a job, made and to come, if n holders may retry: the pending
\* row is claimed, and every claim but the last may be followed by another.
Foreseen(row, n) ==
    row.tentativas + n
      + (IF row.status = "pending" THEN 1 ELSE 0)
      + (IF row.tentativas + 1 < row.max_tentativas
         THEN row.max_tentativas - 1 - row.tentativas ELSE 0)

\* A requeue from outside adds one claim to those of the retries.
Budget ==
    \A j \in JobId : Present(j) =>
        /\ IsFiniteSet(MayRetry(j))
        /\ Foreseen(fila[j], Cardinality(MayRetry(j))) <=
              fila[j].max_tentativas + rescues[j]

\* The inductive invariant behind SoleHolder, StrandedByDeath and KeepsContract.
LifeInv ==
    /\ RepoInv
    /\ LifeTypeOK
    /\ InShard
    /\ Blank
    /\ HolderFinds
    /\ Numbered
    /\ Budget
    /\ StrandedByDeath

\* The life of each job, as JobContract tells it.
LifeOf(j) ==
    LET row == fila[j] IN
    [state   |-> CASE row.status = "pending" -> "waiting"
                   [] row.status = "processing" -> "running"
                   [] row.status = "failed" -> "dead"
                   [] row.status = "absent" /\ j < nextId -> "gone"
                   [] OTHER -> "unborn",
     claims  |-> row.tentativas,
     limit   |-> row.max_tentativas,
     rescues |-> rescues[j]]

Contract == INSTANCE JobContract WITH Job <- JobId,
                                      life <- [j \in JobId |-> LifeOf(j)]

\* The shard and its workers keep the contract: claims are limited, what is
\* gone stays gone, and only jobs requeued from outside are touched by anyone
\* but the worker that runs them.
KeepsContract == Contract!Spec

\* README.md:439: what recovery takes is a job whose "worker died without
\* completing or failing".
RecoversTheDead ==
    [][\A j \in JobId :
         fila[j].status = "processing" /\ rescues'[j] > rescues[j] =>
            ~ \E t \in Worker : /\ Holds(t, j)
                               /\ held[t].attempts + 1 = fila[j].tentativas
         ]_lifeVars

=============================================================================
