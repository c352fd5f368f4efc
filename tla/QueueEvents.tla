---------------------------- MODULE QueueEvents ----------------------------
(***************************************************************************)
(* What the listeners of a Queue hear (Queue.on, _emit and batch of        *)
(* core/queue/queue.py) while workers run, die and are overtaken: an event *)
(* of a job is emitted after the transaction that settled it, by the       *)
(* thread that settled it, unless some thread is inside batch().           *)
(*                                                                         *)
(* Callbacks only listen: _emit catches what they raise.  What enqueue()   *)
(* emits (job_enqueued, alert) is left out.                                *)
(***************************************************************************)
EXTENDS JobLifecycle

CONSTANT Session    \* the threads that use batch()

JobEvent == {"job_completed", "job_failed", "job_retried"}

Message == [event : JobEvent, job : JobId]

ASSUME MessageAssumption == NULL \notin Message

VARIABLES
    outbox,         \* what each worker has still to emit: an event of a job
    batchActive,    \* _batch_active, one flag for all threads
    inBatch,        \* the sessions inside batch()
    told            \* history: the final events heard of each job

batchVars == <<batchActive, inBatch>>

eventVars == <<lifeVars, outbox, batchVars, told>>

\* The events after which a listener expects no more of the job.
Final == {"job_completed", "job_failed"}

----------------------------------------------------------------------------
(* complete_job and fail_job: the shard first, then the event *)

\* Mutant of Outcome: a retry is announced as a failure.
OutcomeFailed(permanent) == "job_failed"

\* The event goes by what the caller asked for, not by what became of the row.
Outcome(permanent) == IF permanent THEN "job_failed" ELSE "job_retried"

Owe(t, event) ==
    outbox' = [outbox EXCEPT ![t] = [event |-> event, job |-> held[t].job]]

Complete(t) ==
    /\ Succeed(t)
    /\ Owe(t, "job_completed")
    /\ UNCHANGED <<batchVars, told>>

\* fail_job of the shard has read the row, or found none; the event is decided
\* here and emitted when it has returned.
Fail(t, permanent) ==
    /\ Raise(t, permanent)
    /\ Owe(t, Outcome(permanent))
    /\ UNCHANGED <<batchVars, told>>

\* _emit of what the thread owes.
Emit(t) ==
    /\ pc[t] = "beating"
    /\ outbox[t] # NULL
    /\ told' = IF batchActive THEN told
               ELSE [told EXCEPT ![outbox[t].job] =
                       @ \cup ({outbox[t].event} \cap Final)]
    /\ outbox' = [outbox EXCEPT ![t] = NULL]
    /\ UNCHANGED <<lifeVars, batchVars>>

\* A thread that dies tells nobody what it has committed.
DieSilent(t) ==
    /\ Die(t)
    /\ outbox' = [outbox EXCEPT ![t] = NULL]
    /\ UNCHANGED <<batchVars, told>>

----------------------------------------------------------------------------
(* batch() *)

EnterBatch(s) ==
    /\ s \notin inBatch
    /\ batchActive' = TRUE
    /\ inBatch' = inBatch \cup {s}
    /\ UNCHANGED <<lifeVars, outbox, told>>

\* Mutant of FlagAfter: a body that raises leaves the flag as it is.
FlagAfterNoFinally(raised) == raised /\ batchActive

\* The finally clause: whether or not the body raised, and whoever else is
\* inside.
FlagAfter(raised) == FALSE

LeaveBatch(s, raised) ==
    /\ s \in inBatch
    /\ batchActive' = FlagAfter(raised)
    /\ inBatch' = inBatch \ {s}
    /\ UNCHANGED <<lifeVars, outbox, told>>

----------------------------------------------------------------------------

EventsInit ==
    /\ LifeInit
    /\ outbox = [t \in Worker |-> NULL]
    /\ batchActive = FALSE
    /\ inBatch = {}
    /\ told = [j \in JobId |-> {}]

\* The steps of a worker that emit nothing and decide no event; the heartbeat
\* comes after the event.
Proceed(t) ==
    /\ \/ Poll(t)
       \/ \E j \in JobId : Take(t, j)
       \/ FindNothing(t)
       \/ GiveUp(t)
       \/ Settle(t)
       \/ Restart(t)
       \/ outbox[t] = NULL /\ (Beat(t) \/ SkipBeat(t))
    /\ UNCHANGED <<outbox, batchVars, told>>

Others ==
    /\ \/ (Enqueue \/ Tick) /\ UNCHANGED <<pc, held, rescues, orphaned>>
       \/ Operate
    /\ UNCHANGED <<outbox, batchVars, told>>

EventsNext ==
    \/ \E t \in Worker :
          \/ Proceed(t)
          \/ Complete(t)
          \/ \E permanent \in BOOLEAN : Fail(t, permanent)
          \/ Emit(t)
          \/ DieSilent(t)
    \/ \E s \in Session :
          EnterBatch(s) \/ \E raised \in BOOLEAN : LeaveBatch(s, raised)
    \/ Others

EventsSpec == EventsInit /\ [][EventsNext]_eventVars

----------------------------------------------------------------------------
(* Properties *)

EventsTypeOK ==
    /\ LifeTypeOK
    /\ outbox \in [Worker -> Message \cup {NULL}]
    /\ batchActive \in BOOLEAN
    /\ inBatch \subseteq Session
    /\ told \in [JobId -> SUBSET Final]

\* A listener may act on what it hears, late as it is: of a job that was
\* announced as completed there is no row and never will be, and one announced
\* as failed is dead or gone and was not announced as completed as well,
\* unless it was requeued from outside in between.
AnnouncedIsFinal ==
    \A j \in JobId :
        /\ "job_completed" \in told[j] => ~Present(j)
        /\ "job_failed" \in told[j] /\ rescues[j] = 0 =>
              /\ "job_completed" \notin told[j]
              /\ fila[j].status \in {"failed", "absent"}

\* A batch() silences listeners only while some thread is inside one: however
\* sessions overlap and end, by an exception or not, none leaves the queue
\* silent for good.
QuietOnlyInBatch == batchActive => inBatch # {}

\* Somebody completed the job, and said so or is about to.
Completed(j) ==
    \/ "job_completed" \in told[j]
    \/ \E t \in Worker : outbox[t] = [event |-> "job_completed", job |-> j]

\* The job failed for good, and somebody said so or is about to.
Failed(j) ==
    \/ "job_failed" \in told[j]
    \/ \E t \in Worker : /\ pc[t] = "beating"
                         /\ outbox[t] = [event |-> "job_failed", job |-> j]

\* A worker owes the event of what it did to the job it has or had last.
Owing ==
    \A t \in Worker : outbox[t] # NULL =>
        /\ pc[t] \in {"failing", "beating"}
        /\ pc[t] = "failing" =>
              /\ outbox[t].job = held[t].job
              /\ outbox[t].event # "job_completed"
              /\ outbox[t].event = "job_failed" => call[t].op = "move"

\* What was said or is owed about a job is true of it, and unless it was
\* requeued from outside nobody has it any more.
OwedIsFinal ==
    \A j \in JobId :
        /\ Completed(j) => ~Present(j) /\ j < nextId
        /\ Failed(j) /\ rescues[j] = 0 =>
              /\ ~Completed(j)
              /\ fila[j].status \in {"failed", "absent"}
              /\ j < nextId
        /\ (Completed(j) \/ Failed(j)) /\ rescues[j] = 0 =>
              \A t \in Worker : ~Holds(t, j)

\* The inductive invariant behind AnnouncedIsFinal and QuietOnlyInBatch.
EventsInv ==
    /\ LifeInv
    /\ EventsTypeOK
    /\ Owing
    /\ OwedIsFinal
    /\ QuietOnlyInBatch

=============================================================================
