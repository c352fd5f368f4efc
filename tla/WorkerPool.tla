----------------------------- MODULE WorkerPool -----------------------------
(***************************************************************************)
(* WorkerPool (core/workers/pool.py): one thread that starts, stops, adds  *)
(* to and removes from the pool, against the auto-scaler's thread, which   *)
(* decides on counts it read some time ago.                                *)
(*                                                                         *)
(* What happens under the pool's _lock is one action, the joins of workers *)
(* that stop included: a worker is told to stop and ends when it is done.  *)
(* A worker told to stop that is started again goes on; that it may then   *)
(* have two loops is the subject of WorkerControl.                         *)
(***************************************************************************)
EXTENDS Integers, Sequences, FiniteSets

CONSTANTS
    Initial,            \* how many workers the pool is made with
    Extra,              \* how many more add_worker may be given
    MaxCounter,         \* bound of _worker_counter
    MinWorkers,         \* min_workers
    MaxWorkers,         \* max_workers
    UpThreshold,        \* scale_up_threshold
    DownThreshold,      \* scale_down_threshold
    MaxPending,         \* bound of the pending jobs get_stats reports
    Scaler,             \* threads that may run _scale_loop at once
    NULL

ASSUME PoolAssumption ==
    /\ Extra \in Nat /\ MaxCounter \in Nat /\ Initial \in 1 .. MaxCounter
    /\ MinWorkers \in Nat /\ MaxWorkers \in Nat
    /\ UpThreshold \in Nat \ {0} /\ DownThreshold \in Nat
    /\ MaxPending \in Nat
    /\ NULL \notin Int /\ NULL \notin Scaler

\* The workers the pool builds have positive numbers, those added others.
Worker == (-Extra .. -1) \cup (1 .. MaxCounter)

Added == {w \in Worker : w < 0}

VARIABLES
    workers,    \* self.workers
    counter,    \* _worker_counter
    on,         \* workers whose loop runs
    told,       \* workers whose stop event is set
    caller,     \* where the caller is
    removing,   \* the worker it removes
    stopScale,
    scaler,     \* the thread _scale_thread names
    pc,         \* where each scaler is
    target,     \* what it wants to scale to
    cooling,    \* the last change is less than scale_cooldown ago
    settled     \* history: stop_all saw the end of all scalers

callerVars == <<caller, removing, settled>>
scalerVars == <<stopScale, scaler, pc, target, cooling>>
poolVars == <<workers, counter, on, told, callerVars, scalerVars>>

Listed == {workers[i] : i \in DOMAIN workers}

Goto(s, stage) == pc' = [pc EXCEPT ![s] = stage]

Start(some) == on' = on \cup some /\ told' = told \ some

\* A worker that does not run is not told anything.
StopEach(some) == told' = told \cup (some \cap on)

End(w) ==
    /\ w \in on \cap told
    /\ on' = on \ {w}
    /\ told' = told \ {w}
    /\ UNCHANGED <<workers, counter, callerVars, scalerVars>>

----------------------------------------------------------------------------
(* The caller *)

AddWorker(w) ==
    /\ caller = "idle"
    /\ w \in Added \ (Listed \cup on)
    /\ workers' = Append(workers, w)
    /\ UNCHANGED <<counter, on, told, callerVars, scalerVars>>

RemoveWorker(i) ==
    /\ caller = "idle"
    /\ removing' = workers[i]
    /\ workers' = SubSeq(workers, 1, i - 1) \o SubSeq(workers, i + 1, Len(workers))
    /\ caller' = "removing"
    /\ UNCHANGED <<counter, on, told, settled, scalerVars>>

StopRemoved ==
    /\ caller = "removing"
    /\ StopEach({removing})
    /\ removing' = NULL
    /\ caller' = "idle"
    /\ UNCHANGED <<workers, counter, on, settled, scalerVars>>

StartWorkers ==
    /\ caller = "idle"
    /\ Start(Listed)
    /\ caller' = "starting"
    /\ settled' = FALSE
    /\ UNCHANGED <<workers, counter, removing, scalerVars>>

\* _start_auto_scaling: a scaler that has not seen the event yet goes on.
StartScaler(s) ==
    /\ caller = "starting"
    /\ pc[s] = "off"
    /\ stopScale' = FALSE
    /\ scaler' = s
    /\ Goto(s, "looping")
    /\ caller' = "idle"
    /\ UNCHANGED <<workers, counter, on, told, removing, settled, target, cooling>>

\* auto_scale is off.
StartNoScaler ==
    /\ caller = "starting"
    /\ caller' = "idle"
    /\ UNCHANGED <<workers, counter, on, told, removing, settled, scalerVars>>

StopScaler ==
    /\ caller = "idle"
    /\ stopScale' = TRUE
    /\ caller' = "joining"
    /\ UNCHANGED <<workers, counter, on, told, removing, settled, scaler, pc, target, cooling>>

\* Mutant of ScalerOver: stop_all does not wait for the scaler.
ScalerOverAlways == TRUE

ScalerOver == \A s \in Scaler : s = scaler => pc[s] = "off"

\* A scaler that an earlier start_all began is not joined.
JoinScaler ==
    /\ caller = "joining"
    /\ ScalerOver
    /\ settled' = \A s \in Scaler \ {scaler} : pc[s] = "off"
    /\ caller' = "stopping"
    /\ UNCHANGED <<workers, counter, on, told, removing, scalerVars>>

JoinTimesOut ==
    /\ caller = "joining"
    /\ settled' = FALSE
    /\ caller' = "stopping"
    /\ UNCHANGED <<workers, counter, on, told, removing, scalerVars>>

StopWorkers ==
    /\ caller = "stopping"
    /\ StopEach(Listed)
    /\ caller' = "idle"
    /\ UNCHANGED <<workers, counter, on, removing, settled, scalerVars>>

----------------------------------------------------------------------------
(* _scale_loop *)

LookAtEvent(s) ==
    /\ pc[s] = "looping"
    /\ IF stopScale THEN Goto(s, "off") ELSE ~cooling /\ Goto(s, "asking")
    /\ UNCHANGED <<workers, counter, on, told, callerVars, stopScale, scaler,
                   target, cooling>>

Least(a, b) == IF a <= b THEN a ELSE b
Greatest(a, b) == IF a <= b THEN b ELSE a

Target(n, current) ==
    IF n > UpThreshold /\ current < MaxWorkers
    THEN Least(MaxWorkers, current + Greatest(1, n \div UpThreshold))
    ELSE IF n < DownThreshold /\ current > MinWorkers
         THEN Greatest(MinWorkers, current - 1)
         ELSE NULL

\* get_stats raises, or returns after a while some number of pending jobs;
\* workers are counted under _lock, which is released before _scale_to.
Decide(s) ==
    /\ pc[s] = "asking"
    /\ \/ Goto(s, "looping") /\ UNCHANGED target
       \/ \E n \in 0 .. MaxPending :
             /\ target' = [target EXCEPT ![s] = Target(n, Len(workers))]
             /\ Goto(s, IF target'[s] = NULL THEN "looping" ELSE "scaling")
    /\ UNCHANGED <<workers, counter, on, told, callerVars, stopScale, scaler,
                   cooling>>

\* Mutant of NewId: numbered from 0.
NewIdFromZero(k) == k - 1

NewId(k) == counter + k

Missing(s) == target[s] - Len(workers)

\* built < Missing(s) if _build_worker raises, as it does for an empty pool,
\* whose first worker is the model of the new ones.
ScaleUp(s, built) ==
    LET new == [k \in 1 .. built |-> NewId(k)]
        raised == built < Missing(s)
    IN  /\ workers = <<>> => built = 0
        /\ counter' = counter + built + (IF raised THEN 1 ELSE 0)
        /\ counter' <= MaxCounter
        /\ Start({new[k] : k \in 1 .. built})
        /\ workers' = workers \o new
        /\ cooling' = (cooling \/ ~raised)

\* Mutant of ScaleDown: the workers are dropped without a stop.
ScaleDownSilently(s) ==
    /\ workers' = SubSeq(workers, 1, target[s])
    /\ cooling' = TRUE
    /\ UNCHANGED <<on, told, counter>>

ScaleDown(s) ==
    /\ StopEach({workers[i] : i \in target[s] + 1 .. Len(workers)})
    /\ workers' = SubSeq(workers, 1, target[s])
    /\ cooling' = TRUE
    /\ UNCHANGED <<on, counter>>

ScaleTo(s) ==
    /\ pc[s] = "scaling"
    /\ \/ target[s] > Len(workers) /\ \E built \in 0 .. Missing(s) : ScaleUp(s, built)
       \/ target[s] < Len(workers) /\ ScaleDown(s)
       \/ target[s] = Len(workers) /\ UNCHANGED <<workers, counter, on, told, cooling>>
    /\ Goto(s, "looping")
    /\ target' = [target EXCEPT ![s] = NULL]
    /\ UNCHANGED <<callerVars, stopScale, scaler>>

CoolDown ==
    /\ cooling
    /\ cooling' = FALSE
    /\ UNCHANGED <<workers, counter, on, told, callerVars, stopScale, scaler,
                   pc, target>>

----------------------------------------------------------------------------

PoolInit ==
    /\ workers = [i \in 1 .. Initial |-> i]
    /\ counter = Initial
    /\ on = {} /\ told = {}
    /\ caller = "idle"
    /\ removing = NULL
    /\ stopScale = FALSE
    /\ scaler = NULL
    /\ pc = [s \in Scaler |-> "off"]
    /\ target = [s \in Scaler |-> NULL]
    /\ cooling = FALSE
    /\ settled = FALSE

Scale(s) ==
    \/ LookAtEvent(s)
    \/ Decide(s)
    \/ ScaleTo(s)

PoolNext ==
    \/ \E w \in Worker : End(w) \/ AddWorker(w)
    \/ \E i \in DOMAIN workers : RemoveWorker(i)
    \/ StopRemoved
    \/ StartWorkers
    \/ \E s \in Scaler : StartScaler(s) \/ Scale(s)
    \/ StartNoScaler
    \/ StopScaler
    \/ JoinScaler
    \/ JoinTimesOut
    \/ StopWorkers
    \/ CoolDown

PoolSpec == PoolInit /\ [][PoolNext]_poolVars

----------------------------------------------------------------------------
(* Properties *)

PoolTypeOK ==
    /\ workers \in Seq(Worker)
    /\ counter \in 0 .. MaxCounter
    /\ on \subseteq Worker /\ told \subseteq on
    /\ caller \in {"idle", "removing", "starting", "joining", "stopping"}
    /\ removing \in Worker \cup {NULL}
    /\ stopScale \in BOOLEAN /\ cooling \in BOOLEAN /\ settled \in BOOLEAN
    /\ scaler \in Scaler \cup {NULL}
    /\ pc \in [Scaler -> {"off", "looping", "asking", "scaling"}]
    /\ target \in [Scaler -> Nat \cup {NULL}]

\* A worker that runs and was not told to stop is in the pool, where stop_all
\* finds it, or on its way out in remove_worker: none is lost by a scale-down
\* while the caller adds, removes and starts workers.
NoStrays == on \ told \subseteq Listed \cup {removing}

\* After a stop_all that saw the end of the scalers, no worker goes on: none
\* was started behind its back, whatever a scaler was about to do.
StopAllStops == settled /\ caller = "idle" => on \subseteq told

\* Whom remove_worker is to stop is known only while it is under way.
RemovingIsBrief == removing # NULL => caller = "removing"

\* Between a stop_all that saw the end of the scalers and the next start_all
\* nobody can start a worker, and once those in the pool are told to stop none
\* goes on.
StoppedForGood ==
    settled => /\ caller # "starting"
               /\ \A s \in Scaler : pc[s] = "off"
               /\ caller # "stopping" => on \subseteq told

\* A scaler that is about to scale knows to how many workers.
ScalingHasTarget == \A s \in Scaler : pc[s] = "scaling" => target[s] # NULL

\* The inductive invariant behind NoStrays and StopAllStops.
PoolInv ==
    /\ PoolTypeOK
    /\ NoStrays
    /\ RemovingIsBrief
    /\ StoppedForGood
    /\ ScalingHasTarget

=============================================================================
