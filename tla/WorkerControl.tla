--------------------------- MODULE WorkerControl ---------------------------
(***************************************************************************)
(* One Worker (core/workers/base.py) or AsyncWorker (async_worker.py) seen *)
(* from outside: start() and stop() against the processing loops they      *)
(* start and stop, and job_timeout, which runs the jobs of a Worker in an  *)
(* executor with one thread and gives up waiting for them.  An AsyncWorker *)
(* ignores job_timeout; its loops share the attribute _loop, the asyncio   *)
(* event loop they run the jobs on.  JobLifecycle has the other side, what *)
(* the loop does to the rows of the queue; here the queue only gives jobs  *)
(* out and takes them back.                                                *)
(*                                                                         *)
(* start() and stop() are called by one thread.  A loop that is told to    *)
(* stop and does not within the timeout of stop() goes on, and start()     *)
(* then begins another: Loop bounds how many are alive at once.            *)
(***************************************************************************)
EXTENDS Naturals, Sequences, FiniteSets

CONSTANTS
    Job,
    Loop,       \* the threads start() makes: as many as can be alive at once
    MaxTries,   \* how often the queue gives out one job
    NULL

ASSUME ControlAssumption ==
    /\ MaxTries \in Nat \ {0}
    /\ {NULL, "none", "free"} \cap Loop = {}
    /\ NULL \notin Job \X Nat

VARIABLES
    state,
    stopEvent,
    thread,     \* the loop that _thread names
    caller,     \* where the caller of start() and stop() is
    executor,   \* "none" without job_timeout
    backlog,    \* deliveries submitted to the executor, not yet begun
    running,    \* the delivery its thread executes
    async,      \* whether the worker is an AsyncWorker
    eventLoop,  \* what _loop names: "none", or an event loop that is "free"
                \* or runs in one of the loops
    pc,         \* where each loop is
    holds,      \* the delivery each loop works on
    place,      \* where the queue has each job
    tries,      \* how often it gave it out
    outcome,    \* how the process_function ended, for each delivery
    taken,      \* history: jobs each loop took since the stop event was set
    overrun     \* history: stop() timed out with the loop alive

callerVars == <<state, stopEvent, thread, caller, overrun>>
executorVars == <<executor, backlog, running>>
asyncVars == <<async, eventLoop>>
jobVars == <<place, tries>>
controlVars == <<callerVars, executorVars, asyncVars, jobVars, pc, holds,
                 outcome, taken>>

\* A delivery is a job and the number of times it was given out.
Delivery == Job \X (1 .. MaxTries)

Alive == {l \in Loop : pc[l] \notin {"unborn", "dead"}}

Goto(l, stage) == pc' = [pc EXCEPT ![l] = stage]

----------------------------------------------------------------------------
(* start and stop *)

\* Mutant of MayStart: start() looks only for RUNNING.
MayStartAgain == state # "running"

MayStart == state \notin {"running", "starting"}

Start(l) ==
    /\ caller = "idle"
    /\ MayStart
    /\ l \notin Alive
    /\ state' = "starting"
    /\ stopEvent' = FALSE
    /\ thread' = l
    /\ Goto(l, "born")
    /\ taken' = [k \in Loop |-> 0]
    /\ UNCHANGED <<caller, overrun, executorVars, asyncVars, jobVars, holds,
                   outcome>>

\* executor.shutdown(wait=False): what was submitted still runs.
ShutDown == executor' = IF executor = "open" THEN "shut" ELSE executor

\* Mutant of MustJoin: a loop that does not say RUNNING yet is not waited for.
MustJoinRunning == thread \in Alive /\ state = "running"

MustJoin == thread \in Alive

\* stop() of a worker whose loop died: nobody to join, STOPPING it stays.
Stop ==
    /\ caller = "idle"
    /\ state \in {"running", "starting"}
    /\ state' = "stopping"
    /\ stopEvent' = TRUE
    /\ IF MustJoin
       THEN caller' = "joining" /\ UNCHANGED executor
       ELSE ShutDown /\ UNCHANGED caller
    /\ UNCHANGED <<thread, overrun, backlog, running, asyncVars, jobVars, pc,
                   holds, outcome, taken>>

AfterJoin == IF thread \in Alive THEN "error" ELSE "stopped"

\* join() returned: the loop is dead or the timeout is over.
Joined ==
    /\ caller = "joining"
    /\ state' = AfterJoin
    /\ caller' = "idle"
    /\ overrun' = (overrun \/ thread \in Alive)
    /\ ShutDown
    /\ UNCHANGED <<stopEvent, thread, backlog, running, asyncVars, jobVars, pc,
                   holds, outcome, taken>>

----------------------------------------------------------------------------
(* _run_loop *)

\* The loop says RUNNING, whatever stop() said in the meantime, and puts an
\* event loop of its own in the place of another's.
Run(l) ==
    /\ pc[l] = "born"
    /\ state' = "running"
    /\ eventLoop' = IF async THEN "free" ELSE eventLoop
    /\ Goto(l, "looping")
    /\ UNCHANGED <<stopEvent, thread, caller, overrun, executorVars, async,
                   jobVars, holds, outcome, taken>>

\* Mutant of Onward: the loop looks at the event only before it waits idle.
OnwardAlways(l) == "popping"

\* The end of a loop; an AsyncWorker has its event loop to close.
AtEnd == IF async THEN "leaving" ELSE "dead"

Onward(l) == IF stopEvent THEN AtEnd ELSE "popping"

LookAtEvent(l) ==
    /\ pc[l] = "looping"
    /\ Goto(l, Onward(l))
    /\ UNCHANGED <<callerVars, executorVars, asyncVars, jobVars, holds, outcome, taken>>

PopJob(l, j) ==
    /\ pc[l] = "popping"
    /\ place[j] = "waiting"
    /\ tries[j] < MaxTries
    /\ place' = [place EXCEPT ![j] = "taken"]
    /\ tries' = [tries EXCEPT ![j] = @ + 1]
    /\ holds' = [holds EXCEPT ![l] = <<j, tries'[j]>>]
    /\ taken' = IF stopEvent THEN [taken EXCEPT ![l] = @ + 1] ELSE taken
    /\ Goto(l, "processing")
    /\ UNCHANGED <<callerVars, executorVars, asyncVars, outcome>>

\* pop_job returns None, or raises: wait and look again.
PopNothing(l) ==
    /\ pc[l] = "popping"
    /\ Goto(l, "looping")
    /\ UNCHANGED <<callerVars, executorVars, asyncVars, jobVars, holds, outcome, taken>>

----------------------------------------------------------------------------
(* _process_job and _execute_with_timeout *)

\* Mutant of Refused: nobody catches what submit raises.
RefusedSilently(l) == holds' = [holds EXCEPT ![l] = NULL] /\ Goto(l, "looping")

\* submit raises after the shutdown: the job fails without having run.
Refused(l) == Goto(l, "failing") /\ UNCHANGED holds

Submit(l) ==
    /\ pc[l] = "processing" /\ executor # "none" /\ ~async
    /\ IF executor = "open"
       THEN /\ backlog' = Append(backlog, holds[l])
            /\ Goto(l, "waiting")
            /\ UNCHANGED holds
       ELSE Refused(l) /\ UNCHANGED backlog
    /\ UNCHANGED <<callerVars, executor, running, asyncVars, jobVars, outcome,
                   taken>>

\* Without job_timeout the loop calls process_function itself.
Call(l) ==
    /\ pc[l] = "processing" /\ executor = "none" /\ ~async
    /\ outcome' = [outcome EXCEPT ![holds[l]] = "begun"]
    /\ Goto(l, "calling")
    /\ UNCHANGED <<callerVars, executorVars, asyncVars, jobVars, holds, taken>>

\* run_until_complete on the event loop that _loop names, whoever made it.
Await(l) ==
    /\ pc[l] = "processing" /\ async
    /\ eventLoop = "free"
    /\ eventLoop' = l
    /\ outcome' = [outcome EXCEPT ![holds[l]] = "begun"]
    /\ Goto(l, "calling")
    /\ UNCHANGED <<callerVars, executorVars, async, jobVars, holds, taken>>

\* The event loop runs in another loop, or was closed by one: _run_loop ends
\* with a job that nobody has called.
Abandon(l) ==
    /\ pc[l] = "processing" /\ async
    /\ eventLoop # "free"
    /\ place' = [place EXCEPT ![holds[l][1]] = "dropped"]
    /\ holds' = [holds EXCEPT ![l] = NULL]
    /\ Goto(l, "leaving")
    /\ UNCHANGED <<callerVars, executorVars, asyncVars, tries, outcome, taken>>

\* The finally clause of _run_loop closes what _loop names, unless that is
\* nothing or runs elsewhere: then it raises.
CloseEventLoop(l) ==
    /\ pc[l] = "leaving"
    /\ eventLoop' = IF eventLoop = "free" THEN "none" ELSE eventLoop
    /\ Goto(l, "dead")
    /\ UNCHANGED <<callerVars, executorVars, async, jobVars, holds, outcome, taken>>

\* run_until_complete returns or raises.
Release(l) == eventLoop' = IF eventLoop = l THEN "free" ELSE eventLoop

Return(l) ==
    /\ pc[l] = "calling"
    /\ \E how \in {"returned", "raised"} :
          outcome' = [outcome EXCEPT ![holds[l]] = how]
    /\ Goto(l, "waiting")
    /\ UNCHANGED <<callerVars, executorVars, asyncVars, jobVars, holds, taken>>

BeginNext ==
    /\ running = NULL /\ backlog # <<>>
    /\ running' = Head(backlog)
    /\ backlog' = Tail(backlog)
    /\ outcome' = [outcome EXCEPT ![running'] = "begun"]
    /\ UNCHANGED <<callerVars, executor, asyncVars, jobVars, pc, holds, taken>>

EndRunning ==
    /\ running # NULL
    /\ \E how \in {"returned", "raised"} :
          outcome' = [outcome EXCEPT ![running] = how]
    /\ running' = NULL
    /\ UNCHANGED <<callerVars, executor, backlog, asyncVars, jobVars, pc, holds,
                   taken>>

\* future.result() has the outcome.
SeeOutcome(l) ==
    /\ pc[l] = "waiting"
    /\ \/ outcome[holds[l]] = "returned" /\ Goto(l, "completing")
       \/ outcome[holds[l]] = "raised" /\ Goto(l, "failing")
    /\ UNCHANGED <<callerVars, executorVars, asyncVars, jobVars, holds, outcome, taken>>

\* TimeoutError is raised to the loop; the future is left as it is.
Verdict == "failing"

TimeOut(l) ==
    /\ pc[l] = "waiting"
    /\ outcome[holds[l]] \in {"none", "begun"}
    /\ Goto(l, Verdict)
    /\ UNCHANGED <<callerVars, executorVars, asyncVars, jobVars, holds, outcome, taken>>

\* fail_job: retried as long as the queue gives it out again.
GiveBack(j) == IF tries[j] < MaxTries THEN "waiting" ELSE "failed"

Report(l, where) ==
    /\ place' = [place EXCEPT ![holds[l][1]] = where]
    /\ holds' = [holds EXCEPT ![l] = NULL]
    /\ Release(l)
    /\ Goto(l, "looping")
    /\ UNCHANGED <<callerVars, executorVars, async, tries, outcome, taken>>

Complete(l) == pc[l] = "completing" /\ Report(l, "done")

\* An exception in complete_job is caught like one in process_function.
CompleteRaises(l) ==
    /\ pc[l] = "completing"
    /\ Goto(l, "failing")
    /\ UNCHANGED <<callerVars, executorVars, asyncVars, jobVars, holds, outcome, taken>>

Fail(l) == pc[l] = "failing" /\ Report(l, GiveBack(holds[l][1]))

\* fail_job raises: the end of the loop, which still says RUNNING.
FailRaises(l) ==
    /\ pc[l] = "failing"
    /\ Goto(l, AtEnd)
    /\ place' = [place EXCEPT ![holds[l][1]] = "stranded"]
    /\ holds' = [holds EXCEPT ![l] = NULL]
    /\ Release(l)
    /\ UNCHANGED <<callerVars, executorVars, async, tries, outcome, taken>>

\* recover_orphans
Recover(j) ==
    /\ place[j] \in {"stranded", "dropped"}
    /\ place' = [place EXCEPT ![j] = GiveBack(j)]
    /\ UNCHANGED <<callerVars, executorVars, asyncVars, tries, pc, holds, outcome,
                   taken>>

----------------------------------------------------------------------------

ControlInit ==
    /\ state = "initialized"
    /\ stopEvent = FALSE
    /\ thread = NULL
    /\ caller = "idle"
    /\ executor \in {"none", "open"}
    /\ async \in BOOLEAN
    /\ eventLoop = "none"
    /\ backlog = <<>>
    /\ running = NULL
    /\ pc = [l \in Loop |-> "unborn"]
    /\ holds = [l \in Loop |-> NULL]
    /\ place = [j \in Job |-> "waiting"]
    /\ tries = [j \in Job |-> 0]
    /\ outcome = [d \in Delivery |-> "none"]
    /\ taken = [l \in Loop |-> 0]
    /\ overrun = FALSE

\* What a loop does on its own: all but the call of process_function, which
\* may take as long as it likes.
Step(l) ==
    \/ Run(l) \/ LookAtEvent(l)
    \/ (\E j \in Job : PopJob(l, j)) \/ PopNothing(l)
    \/ Submit(l) \/ Call(l) \/ SeeOutcome(l) \/ TimeOut(l)
    \/ Await(l) \/ Abandon(l) \/ CloseEventLoop(l)
    \/ Complete(l) \/ CompleteRaises(l) \/ Fail(l) \/ FailRaises(l)

ControlNext ==
    \/ \E l \in Loop : Start(l) \/ Step(l) \/ Return(l)
    \/ Stop \/ Joined
    \/ BeginNext \/ EndRunning
    \/ \E j \in Job : Recover(j)

ControlSpec == ControlInit /\ [][ControlNext]_controlVars

\* Loops run and join() returns.  A function called without job_timeout ends;
\* nothing is assumed of one that runs in the executor.
ControlFairness ==
    /\ WF_controlVars(Joined)
    /\ \A l \in Loop : WF_controlVars(Step(l)) /\ WF_controlVars(Return(l))

FairControl == ControlSpec /\ ControlFairness

----------------------------------------------------------------------------
(* Properties *)

ControlTypeOK ==
    /\ state \in {"initialized", "starting", "running", "stopping", "stopped", "error"}
    /\ stopEvent \in BOOLEAN /\ overrun \in BOOLEAN
    /\ thread \in Loop \cup {NULL}
    /\ caller \in {"idle", "joining"}
    /\ async \in BOOLEAN
    /\ eventLoop \in {"none", "free"} \cup Loop
    /\ executor \in {"none", "open", "shut"}
    /\ backlog \in Seq(Delivery)
    /\ running \in Delivery \cup {NULL}
    /\ pc \in [Loop -> {"unborn", "born", "looping", "popping", "processing",
                        "waiting", "calling", "completing", "failing", "leaving",
                        "dead"}]
    /\ holds \in [Loop -> Delivery \cup {NULL}]
    /\ place \in [Job -> {"waiting", "taken", "stranded", "dropped", "done",
                        "failed"}]
    /\ tries \in [Job -> 0 .. MaxTries]
    /\ outcome \in [Delivery -> {"none", "begun", "returned", "raised"}]
    /\ taken \in [Loop -> Nat]

\* A worker has one loop, however start() and stop() are called, unless a
\* stop() timed out: calls of start() that see the loop not running yet, a
\* loop that died, or one that says RUNNING after it was told to stop make no
\* second one.
OneLoop == overrun \/ Cardinality(Alive) <= 1

\* stop() lets a loop take the one job it was about to pop and no other,
\* whatever the outcome of the jobs it has.
StopHeeded == stopEvent => \A l \in Loop : taken[l] <= 1

\* A job that was given out is on the hands of a live loop, until its fail_job
\* raises: timeouts, refusals, stops and loops that overlap lose no job, but
\* for the loops of an AsyncWorker that overlap after a stop() that timed out,
\* which take the event loop away from each other.
NoJobForgotten ==
    \A j \in Job :
        /\ place[j] = "taken" => \E l \in Alive : holds[l] = <<j, tries[j]>>
        /\ place[j] = "dropped" => overrun

\* Where a loop has a job on its hands.
Busy == {"processing", "waiting", "calling", "completing", "failing"}

\* A loop has the last delivery of a job that the queue counts as taken.
OwnsItsJob ==
    \A l \in Loop :
        /\ holds[l] # NULL <=> pc[l] \in Busy
        /\ holds[l] # NULL =>
              /\ place[holds[l][1]] = "taken"
              /\ holds[l][2] = tries[holds[l][1]]

HeldByOne ==
    \A l, k \in Loop :
        holds[l] # NULL /\ holds[k] # NULL /\ holds[l][1] = holds[k][1] => l = k

\* While no stop() timed out, only the loop that _thread names is alive, and
\* a caller who may call start() sees by the state that it is.
OneAtWork ==
    ~overrun =>
        /\ Alive \subseteq {thread}
        /\ caller = "idle" /\ thread \in Alive => state \in {"starting", "running"}

\* That loop has the event loop to itself.
EventLoopOwned ==
    ~overrun /\ async =>
        \A l \in Loop :
            /\ pc[l] \in {"looping", "popping", "processing"} => eventLoop = "free"
            /\ pc[l] \in Busy \ {"processing"} => eventLoop = l

\* A loop that took a job after the stop event is set pops no other.
StopSeen ==
    \A l \in Loop :
        /\ taken[l] <= 1
        /\ taken[l] = 1 => stopEvent /\ pc[l] # "popping"

ControlInv ==
    /\ ControlTypeOK
    /\ OwnsItsJob
    /\ HeldByOne
    /\ NoJobForgotten
    /\ OneAtWork
    /\ EventLoopOwned
    /\ StopSeen

\* Told to stop, all loops end, unless start() is called before: with the
\* job_timeout of a Worker even if process_function hangs for ever.
StopEnds == stopEvent ~> ~stopEvent \/ Alive = {}

=============================================================================
