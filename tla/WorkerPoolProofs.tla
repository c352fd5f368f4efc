-------------------------- MODULE WorkerPoolProofs --------------------------
(* Theorems about WorkerPool for every value of its constants: any number   *)
(* of workers to begin with and to add, any bounds and thresholds of the    *)
(* scaling, and any number of scaler threads at once.                       *)
EXTENDS WorkerPool, SequenceTheorems, TLAPS

----------------------------------------------------------------------------
(* Lists of workers *)

ListedIn(list) == {list[i] : i \in DOMAIN list}

LEMMA ListBasics ==
    ASSUME NEW list \in Seq(Worker)
    PROVE  /\ Len(list) \in Nat
           /\ DOMAIN list = 1 .. Len(list)
           /\ \A i \in 1 .. Len(list) : list[i] \in Worker
           /\ ListedIn(list) \subseteq Worker
  BY DEF ListedIn

LEMMA ListedAppended ==
    ASSUME NEW list \in Seq(Worker), NEW w \in Worker
    PROVE  /\ Append(list, w) \in Seq(Worker)
           /\ ListedIn(list) \subseteq ListedIn(Append(list, w))
  BY AppendProperties DEF ListedIn

LEMMA ListedJoined ==
    ASSUME NEW a \in Seq(Worker), NEW b \in Seq(Worker)
    PROVE  /\ a \o b \in Seq(Worker)
           /\ ListedIn(a) \cup ListedIn(b) \subseteq ListedIn(a \o b)
<1>1. /\ a \o b \in Seq(Worker)
      /\ Len(a \o b) = Len(a) + Len(b)
      /\ \A i \in 1 .. Len(a) + Len(b) :
            (a \o b)[i] = IF i <= Len(a) THEN a[i] ELSE b[i - Len(a)]
  BY ConcatProperties
<1>2. DOMAIN (a \o b) = 1 .. Len(a) + Len(b) /\ Len(a) \in Nat /\ Len(b) \in Nat
  BY <1>1, ListBasics
<1>3. ASSUME NEW i \in 1 .. Len(a) PROVE a[i] \in ListedIn(a \o b)
  <2>1. i \in 1 .. Len(a) + Len(b) /\ (a \o b)[i] = a[i]
    BY <1>1, <1>2
  <2> QED
    BY <1>2, <2>1 DEF ListedIn
<1>4. ASSUME NEW i \in 1 .. Len(b) PROVE b[i] \in ListedIn(a \o b)
  <2>1. /\ Len(a) + i \in 1 .. Len(a) + Len(b)
        /\ (a \o b)[Len(a) + i] = b[i]
    BY <1>1, <1>2
  <2> QED
    BY <1>2, <2>1 DEF ListedIn
<1> QED
  BY <1>1, <1>3, <1>4, ListBasics DEF ListedIn

\* What a cut of the list has.
LEMMA ListedCut ==
    ASSUME NEW list \in Seq(Worker), NEW m \in 1 .. Len(list) + 1,
           NEW n \in 0 .. Len(list)
    PROVE  /\ SubSeq(list, m, n) \in Seq(Worker)
           /\ \A i \in m .. n : list[i] \in ListedIn(SubSeq(list, m, n))
<1> DEFINE cut == SubSeq(list, m, n)
<1>1. \A i \in m .. n : list[i] \in Worker
  BY ListBasics
<1>2. /\ cut \in Seq(Worker)
      /\ Len(cut) = IF m <= n THEN n - m + 1 ELSE 0
      /\ \A i \in 1 .. n - m + 1 : cut[i] = list[m + i - 1]
  BY <1>1, SubSeqProperties
<1>3. ASSUME NEW i \in m .. n PROVE list[i] \in ListedIn(cut)
  <2>1. /\ i - m + 1 \in 1 .. n - m + 1 /\ m + (i - m + 1) - 1 = i
        /\ Len(cut) = n - m + 1
    BY <1>2
  <2>2. cut[i - m + 1] = list[i] /\ i - m + 1 \in DOMAIN cut
    BY <1>2, <2>1, ListBasics
  <2> QED
    BY <2>2 DEF ListedIn
<1> QED
  BY <1>2, <1>3

----------------------------------------------------------------------------
(* The caller *)

LEMMA PoolInitInv == PoolInit => PoolInv
<1> SUFFICES ASSUME PoolInit PROVE PoolInv
  OBVIOUS
<1>1. counter \in 0 .. MaxCounter /\ workers \in Seq(Worker)
  BY PoolAssumption DEF PoolInit, Worker
<1> QED
  BY <1>1 DEF PoolInit, PoolInv, PoolTypeOK, NoStrays, RemovingIsBrief,
              StoppedForGood, ScalingHasTarget

LEMMA ListedIsListed == Listed = ListedIn(workers)
  BY DEF Listed, ListedIn

LEMMA WorkerIsNotNull == NULL \notin Worker
  BY PoolAssumption DEF Worker

\* A step that changes no list, no worker and none of the scalers.
LEMMA CallerInv ==
    ASSUME PoolInv, UNCHANGED <<workers, counter, on, told, removing, target>>,
           caller' \in {"idle", "starting", "joining", "stopping"},
           caller # "removing", removing = NULL,
           stopScale' \in BOOLEAN, cooling' \in BOOLEAN, settled' \in BOOLEAN,
           scaler' \in Scaler \cup {NULL},
           pc' \in [Scaler -> {"off", "looping", "asking", "scaling"}],
           \A s \in Scaler : pc'[s] = "scaling" => pc[s] = "scaling",
           settled' => StoppedForGood'
    PROVE  PoolInv'
<1>1. PoolTypeOK'
  BY DEF PoolInv, PoolTypeOK
<1>2. NoStrays' /\ RemovingIsBrief'
  BY DEF PoolInv, NoStrays, Listed, RemovingIsBrief
<1>3. StoppedForGood'
  BY DEF StoppedForGood
<1>4. ScalingHasTarget'
  BY DEF PoolInv, ScalingHasTarget
<1> QED
  BY <1>1, <1>2, <1>3, <1>4 DEF PoolInv

LEMMA EndInv ==
    ASSUME PoolInv, NEW w \in Worker, End(w)
    PROVE  PoolInv'
<1>1. PoolTypeOK'
  BY DEF PoolInv, PoolTypeOK, End, callerVars, scalerVars
<1>2. NoStrays' /\ RemovingIsBrief'
  BY DEF PoolInv, NoStrays, RemovingIsBrief, Listed, End, callerVars
<1>3. StoppedForGood' /\ ScalingHasTarget'
  BY DEF PoolInv, StoppedForGood, ScalingHasTarget, End, callerVars, scalerVars
<1> QED
  BY <1>1, <1>2, <1>3 DEF PoolInv

LEMMA AddWorkerInv ==
    ASSUME PoolInv, NEW w \in Worker, AddWorker(w)
    PROVE  PoolInv'
<1>1. /\ workers \in Seq(Worker)
      /\ workers' = Append(workers, w)
      /\ UNCHANGED <<counter, on, told, callerVars, scalerVars>>
  BY DEF PoolInv, PoolTypeOK, AddWorker
<1>2. workers' \in Seq(Worker) /\ Listed \subseteq Listed'
  BY <1>1, ListedAppended DEF Listed, ListedIn
<1>3. PoolTypeOK'
  BY <1>1, <1>2 DEF PoolInv, PoolTypeOK, callerVars, scalerVars
<1>4. NoStrays' /\ RemovingIsBrief'
  BY <1>1, <1>2 DEF PoolInv, NoStrays, RemovingIsBrief, callerVars
<1>5. StoppedForGood' /\ ScalingHasTarget'
  BY <1>1 DEF PoolInv, StoppedForGood, ScalingHasTarget, callerVars, scalerVars
<1> QED
  BY <1>3, <1>4, <1>5 DEF PoolInv

\* The worker leaves the list and is the one that is being removed.
LEMMA RemoveWorkerInv ==
    ASSUME PoolInv, NEW i \in DOMAIN workers, RemoveWorker(i)
    PROVE  PoolInv'
<1> DEFINE before == SubSeq(workers, 1, i - 1)
           after == SubSeq(workers, i + 1, Len(workers))
<1>1. /\ caller = "idle" /\ caller' = "removing"
      /\ removing' = workers[i]
      /\ workers' = before \o after
      /\ UNCHANGED <<counter, on, told, settled, scalerVars>>
  BY DEF RemoveWorker
<1>2. /\ workers \in Seq(Worker) /\ Len(workers) \in Nat
      /\ DOMAIN workers = 1 .. Len(workers)
      /\ i \in 1 .. Len(workers) /\ workers[i] \in Worker
  BY ListBasics DEF PoolInv, PoolTypeOK
<1>3. /\ before \in Seq(Worker) /\ after \in Seq(Worker)
      /\ \A k \in 1 .. i - 1 : workers[k] \in ListedIn(before)
      /\ \A k \in i + 1 .. Len(workers) : workers[k] \in ListedIn(after)
  <2>1. 1 \in 1 .. Len(workers) + 1 /\ i - 1 \in 0 .. Len(workers)
    BY <1>2
  <2>2. i + 1 \in 1 .. Len(workers) + 1 /\ Len(workers) \in 0 .. Len(workers)
    BY <1>2
  <2>3. /\ before \in Seq(Worker)
        /\ \A k \in 1 .. i - 1 : workers[k] \in ListedIn(before)
    BY <1>2, <2>1, ListedCut
  <2> QED
    BY <1>2, <2>2, <2>3, ListedCut
<1> HIDE DEF before, after
<1>4. /\ workers' \in Seq(Worker)
      /\ ListedIn(before) \cup ListedIn(after) \subseteq Listed'
  <2>1. /\ before \o after \in Seq(Worker)
        /\ ListedIn(before) \cup ListedIn(after) \subseteq ListedIn(before \o after)
    BY <1>3, ListedJoined
  <2>2. Listed' = ListedIn(workers')
    BY DEF Listed, ListedIn
  <2> QED
    BY <1>1, <2>1, <2>2
<1>5. Listed \subseteq Listed' \cup {workers[i]}
  <2>1. ASSUME NEW k \in 1 .. Len(workers), k # i PROVE workers[k] \in Listed'
    <3>1. k \in 1 .. i - 1 \/ k \in i + 1 .. Len(workers)
      BY <1>2, <2>1
    <3> QED
      BY <1>3, <1>4, <3>1
  <2> QED
    BY <1>2, <2>1 DEF Listed
<1>6. PoolTypeOK'
  BY <1>1, <1>2, <1>4 DEF PoolInv, PoolTypeOK, scalerVars
<1>7. NoStrays' /\ RemovingIsBrief'
  BY <1>1, <1>5, WorkerIsNotNull
     DEF PoolInv, PoolTypeOK, NoStrays, RemovingIsBrief
<1>8. StoppedForGood' /\ ScalingHasTarget'
  BY <1>1 DEF PoolInv, StoppedForGood, ScalingHasTarget, scalerVars
<1> QED
  BY <1>6, <1>7, <1>8 DEF PoolInv

LEMMA StopRemovedInv ==
    ASSUME PoolInv, StopRemoved
    PROVE  PoolInv'
<1>1. PoolTypeOK'
  BY DEF PoolInv, PoolTypeOK, StopRemoved, StopEach, scalerVars
<1>2. NoStrays' /\ RemovingIsBrief'
  BY DEF PoolInv, NoStrays, RemovingIsBrief, Listed, StopRemoved, StopEach
<1>3. StoppedForGood' /\ ScalingHasTarget'
  BY DEF PoolInv, StoppedForGood, ScalingHasTarget, StopRemoved, StopEach, scalerVars
<1> QED
  BY <1>1, <1>2, <1>3 DEF PoolInv

LEMMA StartWorkersInv ==
    ASSUME PoolInv, StartWorkers
    PROVE  PoolInv'
<1>1. Listed \subseteq Worker
  BY ListBasics, ListedIsListed DEF PoolInv, PoolTypeOK
<1>2. PoolTypeOK'
  BY <1>1 DEF PoolInv, PoolTypeOK, StartWorkers, Start, scalerVars
<1>3. NoStrays' /\ RemovingIsBrief'
  BY DEF PoolInv, NoStrays, RemovingIsBrief, Listed, StartWorkers, Start
<1>4. StoppedForGood' /\ ScalingHasTarget'
  BY DEF PoolInv, StoppedForGood, ScalingHasTarget, StartWorkers, scalerVars
<1> QED
  BY <1>2, <1>3, <1>4 DEF PoolInv

LEMMA StopWorkersInv ==
    ASSUME PoolInv, StopWorkers
    PROVE  PoolInv'
<1>1. PoolTypeOK'
  BY DEF PoolInv, PoolTypeOK, StopWorkers, StopEach, scalerVars
<1>2. NoStrays' /\ RemovingIsBrief'
  BY DEF PoolInv, NoStrays, RemovingIsBrief, Listed, StopWorkers, StopEach
<1>3. removing = NULL
  BY DEF PoolInv, RemovingIsBrief, StopWorkers
<1>4. on' \subseteq told'
  BY <1>3, WorkerIsNotNull
     DEF PoolInv, PoolTypeOK, NoStrays, StopWorkers, StopEach
<1>5. StoppedForGood' /\ ScalingHasTarget'
  BY <1>4 DEF PoolInv, StoppedForGood, ScalingHasTarget, StopWorkers, scalerVars
<1> QED
  BY <1>1, <1>2, <1>5 DEF PoolInv

\* The steps of the caller that touch no worker.
LEMMA CallerStepInv ==
    ASSUME PoolInv,
           \/ \E s \in Scaler : StartScaler(s)
           \/ StartNoScaler \/ StopScaler \/ JoinScaler \/ JoinTimesOut
    PROVE  PoolInv'
<1>1. caller # "removing" /\ removing = NULL
  BY DEF PoolInv, RemovingIsBrief, StartScaler, StartNoScaler, StopScaler,
         JoinScaler, JoinTimesOut
<1>2. ASSUME NEW s \in Scaler, StartScaler(s) PROVE PoolInv'
  <2>1. ~settled'
    BY <1>2 DEF PoolInv, StoppedForGood, StartScaler
  <2> QED
    BY <1>1, <1>2, <2>1, CallerInv DEF PoolInv, PoolTypeOK, StartScaler, Goto
<1>3. CASE StartNoScaler \/ StopScaler
  <2>1. settled' => StoppedForGood'
    BY <1>3 DEF PoolInv, StoppedForGood, StartNoScaler, StopScaler, scalerVars
  <2> QED
    BY <1>1, <1>3, <2>1, CallerInv
       DEF PoolInv, PoolTypeOK, StartNoScaler, StopScaler, scalerVars
<1>4. CASE JoinScaler
  <2>1. settled' => \A s \in Scaler : pc'[s] = "off"
    BY <1>4 DEF JoinScaler, ScalerOver, scalerVars
  <2>2. settled' => StoppedForGood'
    BY <1>4, <2>1 DEF StoppedForGood, JoinScaler
  <2>3. settled' \in BOOLEAN
    BY <1>4 DEF JoinScaler
  <2> QED
    BY <1>1, <1>4, <2>2, <2>3, CallerInv
       DEF PoolInv, PoolTypeOK, JoinScaler, scalerVars
<1>5. CASE JoinTimesOut
  BY <1>1, <1>5, CallerInv DEF PoolInv, PoolTypeOK, JoinTimesOut, scalerVars
<1> QED
  BY <1>2, <1>3, <1>4, <1>5

----------------------------------------------------------------------------
(* The scaler *)

\* While a scaler is under way no stop_all has seen the end of all of them.
LEMMA ScalersUnsettle ==
    ASSUME PoolInv, NEW s \in Scaler, pc[s] # "off"
    PROVE  ~settled
  BY DEF PoolInv, StoppedForGood

\* What a scaler wants is a number of workers.
LEMMA TargetTyped ==
    ASSUME NEW n \in Nat, NEW current \in Nat
    PROVE  Target(n, current) \in Nat \cup {NULL}
<1>1. /\ MinWorkers \in Nat /\ MaxWorkers \in Nat
      /\ UpThreshold \in Nat \ {0}
  BY PoolAssumption
<1>2. n \div UpThreshold \in Nat
  BY <1>1, SMTT(30)
<1> QED
  BY <1>1, <1>2 DEF Target, Least, Greatest

LEMMA LookAtEventInv ==
    ASSUME PoolInv, NEW s \in Scaler, LookAtEvent(s)
    PROVE  PoolInv'
<1>1. ~settled
  BY ScalersUnsettle DEF LookAtEvent
<1>2. PoolTypeOK'
  BY DEF PoolInv, PoolTypeOK, LookAtEvent, Goto, callerVars
<1>3. NoStrays' /\ RemovingIsBrief' /\ StoppedForGood'
  BY <1>1 DEF PoolInv, NoStrays, RemovingIsBrief, StoppedForGood, Listed,
              LookAtEvent, callerVars
<1>4. ScalingHasTarget'
  BY DEF PoolInv, PoolTypeOK, ScalingHasTarget, LookAtEvent, Goto
<1> QED
  BY <1>2, <1>3, <1>4 DEF PoolInv

LEMMA DecideInv ==
    ASSUME PoolInv, NEW s \in Scaler, Decide(s)
    PROVE  PoolInv'
<1>1. ~settled
  BY ScalersUnsettle DEF Decide
<1>2. target' \in [Scaler -> Nat \cup {NULL}]
  <2>1. Len(workers) \in Nat /\ \A n \in 0 .. MaxPending : n \in Nat
    BY ListBasics, PoolAssumption DEF PoolInv, PoolTypeOK
  <2>2. \A n \in 0 .. MaxPending : Target(n, Len(workers)) \in Nat \cup {NULL}
    BY <2>1, TargetTyped
  <2> QED
    BY <2>2 DEF PoolInv, PoolTypeOK, Decide
<1>3. pc' \in [Scaler -> {"off", "looping", "asking", "scaling"}]
  BY DEF PoolInv, PoolTypeOK, Decide, Goto
<1>4. UNCHANGED <<workers, counter, on, told, callerVars, stopScale, scaler, cooling>>
  BY DEF Decide
<1>5. PoolTypeOK'
  BY <1>2, <1>3, <1>4 DEF PoolInv, PoolTypeOK, callerVars
<1>6. NoStrays' /\ RemovingIsBrief' /\ StoppedForGood'
  BY <1>1, <1>4 DEF PoolInv, NoStrays, RemovingIsBrief, StoppedForGood, Listed,
                    callerVars
<1>7. ScalingHasTarget'
  BY <1>2, <1>3 DEF PoolInv, PoolTypeOK, ScalingHasTarget, Decide, Goto
<1> QED
  BY <1>5, <1>6, <1>7 DEF PoolInv

\* The workers a scaler starts are the ones it appends.
LEMMA ScaleUpWorkers ==
    ASSUME PoolInv, NEW s \in Scaler, target[s] \in Nat, target[s] > Len(workers),
           NEW built \in 0 .. Missing(s), ScaleUp(s, built)
    PROVE  /\ workers' \in Seq(Worker)
           /\ counter' \in 0 .. MaxCounter
           /\ on' \subseteq Worker /\ told' \subseteq on'
           /\ cooling' \in BOOLEAN
           /\ on' \ told' \subseteq Listed' \cup {removing}
<1> DEFINE new == [k \in 1 .. built |-> NewId(k)]
           ids == {new[k] : k \in 1 .. built}
<1>1. /\ workers' = workers \o new
      /\ on' = on \cup ids /\ told' = told \ ids
      /\ cooling' \in BOOLEAN
  BY DEF ScaleUp, Start
<1>2. /\ built \in Nat /\ counter \in Nat
      /\ counter' = counter + built + (IF built < Missing(s) THEN 1 ELSE 0)
      /\ counter' <= MaxCounter
  BY ListBasics, PoolAssumption DEF ScaleUp, Missing, PoolInv, PoolTypeOK
<1>3. counter' \in 0 .. MaxCounter /\ counter + built <= MaxCounter
  BY <1>2, PoolAssumption
<1>4. \A k \in 1 .. built : NewId(k) \in Worker
  BY <1>2, <1>3, PoolAssumption DEF NewId, Worker
<1>5. new \in Seq(Worker) /\ DOMAIN new = 1 .. built
  BY <1>2, <1>4, IsASeq
<1>6. ids = ListedIn(new)
  BY <1>5 DEF ListedIn
<1>7. workers' \in Seq(Worker) /\ Listed \cup ids \subseteq Listed'
  <2>1. workers \in Seq(Worker)
    BY DEF PoolInv, PoolTypeOK
  <2>2. /\ workers \o new \in Seq(Worker)
        /\ ListedIn(workers) \cup ListedIn(new) \subseteq ListedIn(workers \o new)
    BY <1>5, <2>1, ListedJoined
  <2>3. Listed = ListedIn(workers) /\ Listed' = ListedIn(workers')
    BY DEF Listed, ListedIn
  <2> QED
    BY <1>1, <1>6, <2>2, <2>3
<1>8. ids \subseteq Worker
  BY <1>4
<1> HIDE DEF new, ids
<1> QED
  BY <1>1, <1>3, <1>7, <1>8 DEF PoolInv, PoolTypeOK, NoStrays

\* The workers a scaler drops are told to stop.
LEMMA ScaleDownWorkers ==
    ASSUME PoolInv, NEW s \in Scaler, target[s] \in Nat, target[s] < Len(workers),
           ScaleDown(s)
    PROVE  /\ workers' \in Seq(Worker)
           /\ counter' \in 0 .. MaxCounter
           /\ on' \subseteq Worker /\ told' \subseteq on'
           /\ cooling' \in BOOLEAN
           /\ on' \ told' \subseteq Listed' \cup {removing}
<1> DEFINE n == target[s]
<1>1. /\ workers \in Seq(Worker) /\ Len(workers) \in Nat
      /\ DOMAIN workers = 1 .. Len(workers)
  BY ListBasics DEF PoolInv, PoolTypeOK
<1>2. /\ workers' = SubSeq(workers, 1, n)
      /\ told' = told \cup ({workers[i] : i \in n + 1 .. Len(workers)} \cap on)
      /\ cooling' = TRUE /\ UNCHANGED <<on, counter>>
  BY DEF ScaleDown, StopEach
<1>3. /\ SubSeq(workers, 1, n) \in Seq(Worker)
      /\ \A i \in 1 .. n : workers[i] \in ListedIn(SubSeq(workers, 1, n))
  <2>1. 1 \in 1 .. Len(workers) + 1 /\ n \in 0 .. Len(workers)
    BY <1>1
  <2> QED
    BY <1>1, <2>1, ListedCut
<1>4. ASSUME NEW w \in on' \ told' PROVE w \in Listed' \cup {removing}
  <2>1. CASE w \in Listed
    <3>1. PICK i \in 1 .. Len(workers) : w = workers[i]
      BY <1>1, <2>1 DEF Listed
    <3>2. i \notin n + 1 .. Len(workers)
      BY <1>2, <1>4, <3>1
    <3>3. i \in 1 .. n
      BY <1>1, <3>1, <3>2
    <3> QED
      BY <1>2, <1>3, <3>1, <3>3 DEF Listed, ListedIn
  <2>2. CASE w \notin Listed
    BY <1>2, <2>2, <1>4 DEF PoolInv, NoStrays
  <2> QED
    BY <2>1, <2>2
<1> QED
  BY <1>2, <1>3, <1>4 DEF PoolInv, PoolTypeOK

LEMMA ScaleToInv ==
    ASSUME PoolInv, NEW s \in Scaler, ScaleTo(s)
    PROVE  PoolInv'
<1>1. ~settled /\ UNCHANGED <<callerVars, stopScale, scaler>>
  BY ScalersUnsettle DEF ScaleTo
<1>2. /\ pc' \in [Scaler -> {"off", "looping", "asking", "scaling"}]
      /\ target' \in [Scaler -> Nat \cup {NULL}]
  BY DEF PoolInv, PoolTypeOK, ScaleTo, Goto
<1>3. /\ workers' \in Seq(Worker)
      /\ counter' \in 0 .. MaxCounter
      /\ on' \subseteq Worker /\ told' \subseteq on'
      /\ cooling' \in BOOLEAN
      /\ on' \ told' \subseteq Listed' \cup {removing}
  <2>1. target[s] \in Nat
    BY DEF PoolInv, PoolTypeOK, ScalingHasTarget, ScaleTo
  <2>2. CASE target[s] > Len(workers) /\ \E built \in 0 .. Missing(s) : ScaleUp(s, built)
    BY <2>1, <2>2, ScaleUpWorkers
  <2>3. CASE target[s] < Len(workers) /\ ScaleDown(s)
    BY <2>1, <2>3, ScaleDownWorkers
  <2>4. CASE UNCHANGED <<workers, counter, on, told, cooling>>
    BY <2>4 DEF PoolInv, PoolTypeOK, NoStrays, Listed
  <2> QED
    BY <2>2, <2>3, <2>4 DEF ScaleTo
<1>4. PoolTypeOK'
  BY <1>1, <1>2, <1>3 DEF PoolInv, PoolTypeOK, callerVars
<1>5. NoStrays' /\ RemovingIsBrief' /\ StoppedForGood'
  BY <1>1, <1>3 DEF PoolInv, NoStrays, RemovingIsBrief, StoppedForGood, callerVars
<1>6. ScalingHasTarget'
  BY DEF PoolInv, PoolTypeOK, ScalingHasTarget, ScaleTo, Goto
<1> QED
  BY <1>4, <1>5, <1>6 DEF PoolInv

----------------------------------------------------------------------------

LEMMA PoolInvStep ==
    ASSUME PoolInv, [PoolNext]_poolVars
    PROVE  PoolInv'
<1>1. ASSUME NEW w \in Worker, End(w) \/ AddWorker(w) PROVE PoolInv'
  BY <1>1, EndInv, AddWorkerInv
<1>2. ASSUME NEW i \in DOMAIN workers, RemoveWorker(i) PROVE PoolInv'
  BY <1>2, RemoveWorkerInv
<1>3. ASSUME NEW s \in Scaler, StartScaler(s) \/ Scale(s) PROVE PoolInv'
  BY <1>3, CallerStepInv, LookAtEventInv, DecideInv, ScaleToInv DEF Scale
<1>4. CASE CoolDown
  <2>1. PoolTypeOK'
    BY <1>4 DEF PoolInv, PoolTypeOK, CoolDown, callerVars
  <2> QED
    BY <1>4, <2>1 DEF PoolInv, NoStrays, RemovingIsBrief, StoppedForGood,
                      ScalingHasTarget, Listed, CoolDown, callerVars
<1>5. CASE UNCHANGED poolVars
  <2>1. PoolTypeOK'
    BY <1>5 DEF PoolInv, PoolTypeOK, poolVars, callerVars, scalerVars
  <2> QED
    BY <1>5, <2>1 DEF PoolInv, NoStrays, RemovingIsBrief, StoppedForGood,
                      ScalingHasTarget, Listed, poolVars, callerVars, scalerVars
<1> QED
  BY <1>1, <1>2, <1>3, <1>4, <1>5, StopRemovedInv, StartWorkersInv,
     StopWorkersInv, CallerStepInv
     DEF PoolNext

\* What the caller of the pool and its scalers rely on.
THEOREM PoolCorrect == PoolSpec => []PoolInv
  BY PoolInitInv, PoolInvStep, PTL DEF PoolSpec

\* No worker that runs is lost: stop_all and remove_worker find them all.
THEOREM PoolLosesNobody == PoolSpec => []NoStrays
<1>1. PoolInv => NoStrays
  BY DEF PoolInv
<1> QED
  BY <1>1, PoolCorrect, PTL

\* After a stop_all that saw the end of the scalers nobody goes on, whatever
\* the scalers of earlier start_alls were about to do.
THEOREM StopAllCorrect == PoolSpec => []StopAllStops
<1>1. PoolInv => StopAllStops
  BY DEF PoolInv, StoppedForGood, StopAllStops
<1> QED
  BY <1>1, PoolCorrect, PTL

=============================================================================
