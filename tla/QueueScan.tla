----------------------------- MODULE QueueScan -----------------------------
(***************************************************************************)
(* Queue (core/queue/queue.py): pop_job scans the shards under their locks *)
(* after the circuit breaker let it through, complete_job and fail_job     *)
(* settle the job in its shard and tell the breaker, and get_stats looks   *)
(* at one shard after the other while all that goes on.                    *)
(*                                                                         *)
(* A job is followed by its place: what ShardRepository does with its row  *)
(* is in that module.  A rate limiter without tokens makes pop_job return  *)
(* None before anything else happens: it changes nothing here.             *)
(***************************************************************************)
EXTENDS CircuitBreaker

CONSTANTS
    NumShards,  \* num_shards
    Job,
    ShardOf,    \* the shard determine_shard chose for each job
    MaxShards   \* GroupsCover looks at 1 to MaxShards shards

Shard == 0 .. NumShards - 1

ASSUME ScanAssumption ==
    /\ NumShards \in Nat \ {0}
    /\ ShardOf \in [Job -> Shard]
    /\ MaxShards \in Nat
    /\ NULL \notin Job \cup Shard

VARIABLES
    place,      \* where each job is
    at,         \* where each thread is in pop_job and after it
    left,       \* the shards its scan has still to visit
    inside,     \* the shard whose lock it holds, NULL if none
    late,       \* jobs there that fell due after the time it has read
    job,        \* the job it works on
    owed,       \* history: jobs it could have taken ever since its scan began
    survey      \* a call of is_empty

scanVars == <<place, at, left, inside, late, job, owed, survey>>

queueVars == <<breakerVars, scanVars>>

\* A delayed job is pending with a next_retry_at to come; a job that is not
\* born or gone has no row.
Place == {"unborn", "waiting", "delayed", "taken", "dead", "gone"}

Waiting == {j \in Job : place[j] = "waiting"}

Pending == {j \in Job : place[j] \in {"waiting", "delayed"}}

In(jobs, s) == {j \in jobs : ShardOf[j] = s}

Move(j, to) == place' = [place EXCEPT ![j] = to]

Stand(t, where) == at' = [at EXCEPT ![t] = where]

\* What a step that moves jobs does to the histories: each thread is owed no
\* longer what it missed and what somebody took.
Follow(missed) ==
    /\ owed' = [t \in Thread |-> {j \in owed[t] \ missed[t] : place'[j] = "waiting"}]
    /\ survey' = [survey EXCEPT !.owed = {j \in @ : place'[j] \in {"waiting", "delayed"}}]

NoneMissed == [t \in Thread |-> {}]

----------------------------------------------------------------------------
(* ShardGroup *)

Least(a, b) == IF a <= b THEN a ELSE b

ShardsPerGroup(n) == IF n >= 8 THEN Least(4, n \div 4) ELSE n

\* Mutant of NumGroups: the last, shorter group is forgotten.
NumGroupsDown(n) == n \div ShardsPerGroup(n)

NumGroups(n) == (n + ShardsPerGroup(n) - 1) \div ShardsPerGroup(n)

\* Group g of n shards; groups are numbered from 0.
Group(g, n) ==
    g * ShardsPerGroup(n) .. Least((g + 1) * ShardsPerGroup(n), n) - 1

Groups == {Group(g, NumShards) : g \in 0 .. NumGroups(NumShards) - 1}

\* Mutant of Grouped: the first shard of every group is skipped.
GroupedButFirst ==
    {s \in UNION Groups : \E g \in Groups : s \in g /\ s - 1 \in g}

\* The shards of all groups: those pop_job visits.
Grouped == UNION Groups

\* group_for_shard
GroupFor(s, n) == Group(s \div ShardsPerGroup(n), n)

\* A group in random order, then the next group.
NextShards(t) ==
    LET begun == {g \in Groups : g \cap left[t] # {} /\ ~(g \subseteq left[t])}
    IN  left[t] \cap (IF begun # {} THEN UNION begun ELSE Grouped)

----------------------------------------------------------------------------
(* pop_job *)

AskToPop(t) ==
    /\ at[t] = "out"
    /\ Ask(t)
    /\ UNCHANGED scanVars

BeginScan(t) ==
    /\ at[t] = "out"
    /\ Flush(t)
    /\ IF pc[t] = "admitted"
       THEN /\ Stand(t, "scanning")
            /\ left' = [left EXCEPT ![t] = Grouped]
            /\ owed' = [owed EXCEPT ![t] = Waiting]
       ELSE UNCHANGED <<at, left, owed>>
    /\ UNCHANGED <<place, inside, late, job, survey>>

\* The lock of the shard, and the time by which pop_job of the repository is
\* going to choose, after it has waited for the write lock of the file.
Lock(t, s) ==
    /\ at[t] = "scanning" /\ inside[t] = NULL
    /\ s \in NextShards(t)
    /\ \A u \in Thread : inside[u] # s
    /\ inside' = [inside EXCEPT ![t] = s]
    /\ left' = [left EXCEPT ![t] = @ \ {s}]
    /\ UNCHANGED <<breakerVars, place, at, late, job, owed, survey>>

Unlock(t) ==
    /\ inside' = [inside EXCEPT ![t] = NULL]
    /\ late' = [late EXCEPT ![t] = {}]

\* The jobs POP_JOB_SELECT_SQL finds due at the time that was read.
Due(t) == In(Waiting \ late[t], inside[t])

TakeJob(t, j) ==
    /\ inside[t] # NULL
    /\ j \in Due(t)
    /\ Move(j, "taken")
    /\ job' = [job EXCEPT ![t] = j]
    /\ Stand(t, "working")
    /\ left' = [left EXCEPT ![t] = {}]
    /\ Unlock(t)
    /\ Follow([NoneMissed EXCEPT ![t] = Job])
    /\ UNCHANGED breakerVars

\* Mutant of SeeNothing: pop_job returns None with the first shard that does.
SeeNothingReturns(t) ==
    /\ inside[t] # NULL
    /\ Due(t) = {}
    /\ Unlock(t)
    /\ left' = [left EXCEPT ![t] = {}]
    /\ UNCHANGED <<breakerVars, place, at, job, owed, survey>>

SeeNothing(t) ==
    /\ inside[t] # NULL
    /\ Due(t) = {}
    /\ Unlock(t)
    /\ UNCHANGED <<breakerVars, place, at, left, job, owed, survey>>

\* The shard raises, or its lock timed out and it returns None: next shard.
SeeError(t) ==
    /\ inside[t] # NULL
    /\ Unlock(t)
    /\ UNCHANGED <<breakerVars, place, at, left, job>>
    /\ Follow([NoneMissed EXCEPT ![t] = In(Job, inside[t])])

\* The thread is out of the queue and the breaker was not told.
Leave(t, why) ==
    /\ Stand(t, "out")
    /\ Untold(t, why)
    /\ job' = [job EXCEPT ![t] = NULL]
    /\ owed' = [owed EXCEPT ![t] = {}]
    /\ UNCHANGED <<place, left, inside, late, survey>>

FindNothing(t) ==
    /\ at[t] = "scanning"
    /\ left[t] = {} /\ inside[t] = NULL
    /\ Leave(t, "no job")

----------------------------------------------------------------------------
(* complete_job and fail_job: the shard first, then the breaker *)

CompleteInShard(t) ==
    /\ at[t] = "working"
    /\ Move(job[t], "gone")
    /\ Stand(t, "completed")
    /\ Follow(NoneMissed)
    /\ UNCHANGED <<breakerVars, left, inside, late, job>>

\* The job is retried or buried, unless its row is gone.
FailInShard(t) ==
    /\ at[t] = "working"
    /\ \E to \in {"delayed", "dead"} :
          Move(job[t], IF place[job[t]] = "gone" THEN "gone" ELSE to)
    /\ Stand(t, "failed")
    /\ Follow(NoneMissed)
    /\ UNCHANGED <<breakerVars, left, inside, late, job>>

\* fail_job raises and takes the worker's thread down.
FailRaises(t) == at[t] = "working" /\ Leave(t, "raised")

\* Mutant of Told: complete_job does not call record_success.
ToldOfFailures(t) ==
    \/ at[t] = "failed" /\ Fail(t)
    \/ /\ at[t] = "completed"
       /\ Become(t, "idle")
       /\ probing' = [probing EXCEPT ![t] = FALSE]
       /\ UNCHANGED <<state, failureCount, sinceFailure, probeInFlight,
                      pendingNotify, lost>>

\* record_success or record_failure.
Told(t) ==
    \/ at[t] = "completed" /\ Succeed(t)
    \/ at[t] = "failed" /\ Fail(t)

TellBreaker(t) ==
    /\ at[t] \in {"completed", "failed"}
    /\ Told(t)
    /\ Stand(t, "out")
    /\ job' = [job EXCEPT ![t] = NULL]
    /\ UNCHANGED <<place, left, inside, late, owed, survey>>

----------------------------------------------------------------------------
(* What happens to jobs and to the breaker meanwhile *)

Carry(j, from, to) ==
    /\ place[j] \in from
    /\ Move(j, to)
    /\ Follow(NoneMissed)
    /\ UNCHANGED <<breakerVars, at, left, inside, job>>

Inside == {t \in Thread : inside[t] # NULL}

\* The job is now due later than the times that these threads have read, and
\* no others.
TooLateFor(j, threads) ==
    late' = [t \in Thread |->
               IF t \in threads THEN late[t] \cup {j} ELSE late[t] \ {j}]

\* A new row is due at any time.
Enqueue(j) == Carry(j, {"unborn"}, "waiting") /\ UNCHANGED late

FallDue(j) == Carry(j, {"delayed"}, "waiting") /\ TooLateFor(j, Inside)

\* recover_orphans, retry_failed_jobs, retry_job: due at a time that was read
\* before the write, in the millisecond of a thread's own or not.
Requeue(j) ==
    /\ Carry(j, {"taken", "dead"}, "waiting")
    /\ \E threads \in SUBSET Inside : TooLateFor(j, threads)

\* purge_queue, cleanup_old_jobs
Remove(j) ==
    /\ Carry(j, {"waiting", "delayed", "taken", "dead"}, "gone")
    /\ UNCHANGED late

BreakerAlone ==
    /\ Tick \/ Reset
    /\ UNCHANGED <<place, at, left, inside, late, job, owed, survey>>

----------------------------------------------------------------------------
(* is_empty: get_all_stats adds up the pending jobs, shard after shard *)

BeginSurvey ==
    /\ survey.next = NumShards
    /\ survey' = [next |-> 0, found |-> FALSE, erred |-> FALSE,
                  owed |-> Pending]
    /\ UNCHANGED <<breakerVars, place, at, left, inside, late, job, owed>>

\* Mutant of CountsPending: delayed jobs are not counted.
CountsDue(s) == In(Waiting, s) # {}

CountsPending(s) == In(Pending, s) # {}

\* get_metrics of one shard; an exception counts as no jobs at all.
CountShard(erred) ==
    /\ survey.next < NumShards
    /\ survey' =
         [survey EXCEPT
            !.next = @ + 1,
            !.found = @ \/ (~erred /\ CountsPending(survey.next)),
            !.erred = @ \/ erred]
    /\ UNCHANGED <<breakerVars, place, at, left, inside, late, job, owed>>

SaysEmpty == survey.next = NumShards /\ ~survey.found

----------------------------------------------------------------------------

QueueInit ==
    /\ BreakerInit
    /\ place = [j \in Job |-> "unborn"]
    /\ at = [t \in Thread |-> "out"]
    /\ left = [t \in Thread |-> {}]
    /\ inside = [t \in Thread |-> NULL]
    /\ late = [t \in Thread |-> {}]
    /\ job = [t \in Thread |-> NULL]
    /\ owed = [t \in Thread |-> {}]
    /\ survey = [next |-> NumShards, found |-> TRUE, erred |-> FALSE,
                 owed |-> {}]

\* The steps of a thread inside pop_job, and those after it.
Scan(t) ==
    \/ BeginScan(t)
    \/ \E s \in Shard : Lock(t, s)
    \/ \E j \in Job : TakeJob(t, j)
    \/ SeeNothing(t)
    \/ SeeError(t)
    \/ FindNothing(t)

Settle(t) ==
    \/ CompleteInShard(t)
    \/ FailInShard(t)
    \/ FailRaises(t)
    \/ TellBreaker(t)

QueueNext ==
    \/ \E t \in Thread : AskToPop(t) \/ Scan(t) \/ Settle(t)
    \/ \E j \in Job : Enqueue(j) \/ FallDue(j) \/ Requeue(j) \/ Remove(j)
    \/ BreakerAlone
    \/ BeginSurvey
    \/ \E erred \in BOOLEAN : CountShard(erred)

QueueSpec == QueueInit /\ [][QueueNext]_queueVars

\* Workers poll in a loop, finish their jobs, and get a lock that becomes free
\* again and again.
QueueFairness ==
    \A t \in Thread : /\ WF_queueVars(AskToPop(t))
                      /\ SF_queueVars(Scan(t))
                      /\ WF_queueVars(Settle(t))

FairQueue == QueueSpec /\ QueueFairness

----------------------------------------------------------------------------
(* Properties *)

QueueTypeOK ==
    /\ BreakerTypeOK
    /\ place \in [Job -> Place]
    /\ at \in [Thread -> {"out", "scanning", "working", "completed", "failed"}]
    /\ left \in [Thread -> SUBSET Shard]
    /\ inside \in [Thread -> Shard \cup {NULL}]
    /\ late \in [Thread -> SUBSET Job]
    /\ job \in [Thread -> Job \cup {NULL}]
    /\ owed \in [Thread -> SUBSET Job]
    /\ survey \in [next : 0 .. NumShards, found : BOOLEAN, erred : BOOLEAN,
                   owed : SUBSET Job]

\* pop_job returns None only if no job was there for it: a job that waited
\* all through the scan, in a shard that raised nothing, is not missed, though
\* shards are visited one by one and jobs come and go behind the scan's back.
NothingMissed ==
    \A t \in Thread :
        at[t] = "scanning" /\ left[t] = {} /\ inside[t] = NULL => owed[t] = {}

\* Each of n shards is in one group and no other, the one group_for_shard
\* returns, no group is empty, and from 8 shards on there are the "at least 4
\* groups" that keep contention low.
Partitioned(n) ==
    /\ \A s \in 0 .. n - 1 :
          \E g \in 0 .. NumGroups(n) - 1 :
             /\ GroupFor(s, n) = Group(g, n)
             /\ \A h \in 0 .. NumGroups(n) - 1 : s \in Group(h, n) <=> h = g
    /\ \A g \in 0 .. NumGroups(n) - 1 : Group(g, n) # {}
    /\ n >= 8 => NumGroups(n) >= 4

AllPartitioned == \A n \in 1 .. MaxShards : Partitioned(n)

\* A scan that has shards left finds a next one, because the groups it goes by
\* cover the shards once each, however many shards there are.
GroupsCover ==
    \A t \in Thread : left[t] # {} => NextShards(t) # {} /\ AllPartitioned

\* A sum of counts that skipped no shard has counted every job that was
\* pending all the time: is_empty does not call the queue empty over it.
SurveySound == SaysEmpty /\ ~survey.erred => survey.owed = {}

\* What a scan owes lies ahead of it: it has not yet been in the shard, or is
\* inside.
OwedAhead ==
    \A t \in Thread :
        /\ at[t] # "scanning" => owed[t] = {} /\ inside[t] = NULL
        /\ inside[t] = NULL => late[t] = {}
        /\ \A j \in owed[t] : /\ place[j] = "waiting" /\ j \notin late[t]
                              /\ ShardOf[j] \in left[t] \cup {inside[t]}

\* What a survey that found nothing owes lies in the shards to come.
SurveyAhead ==
    ~survey.found /\ ~survey.erred =>
        \A j \in survey.owed : j \in Pending /\ ShardOf[j] >= survey.next

\* The inductive invariant behind NothingMissed, GroupsCover, SurveySound and
\* ProbeAccounted: threads in a scan, the survey and the breaker keep account
\* of what happens to the jobs while they look elsewhere.
QueueInv ==
    /\ QueueTypeOK
    /\ HalfOpenIsProbing
    /\ ProbeAccounted
    /\ OwedAhead
    /\ SurveyAhead

\* README.md:408: "If the next job succeeds -> CLOSED. If it fails -> OPEN
\* again": half open ends, unless the job's own fail_job raised.
ProbeDecides ==
    state = "half_open" ~> state # "half_open" \/ "raised" \in lost

=============================================================================
