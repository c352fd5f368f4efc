------------------------ MODULE WorkerControlProofs ------------------------
(* Theorems about WorkerControl for every set of jobs and of loops, and any  *)
(* number of times the queue gives out a job.                                *)
EXTENDS WorkerControl, SequenceTheorems, FiniteSetTheorems, TLAPS

----------------------------------------------------------------------------
(* Types *)

States == {"initialized", "starting", "running", "stopping", "stopped", "error"}

Stages == {"unborn", "born", "looping", "popping", "processing", "waiting",
           "calling", "completing", "failing", "leaving", "dead"}

Places == {"waiting", "taken", "stranded", "dropped", "done", "failed"}

Outcomes == {"none", "begun", "returned", "raised"}

CallerOK ==
    /\ state \in States
    /\ stopEvent \in BOOLEAN /\ overrun \in BOOLEAN
    /\ thread \in Loop \cup {NULL}
    /\ caller \in {"idle", "joining"}

ExecutorOK ==
    /\ executor \in {"none", "open", "shut"}
    /\ backlog \in Seq(Delivery)
    /\ running \in Delivery \cup {NULL}

AsyncOK == async \in BOOLEAN /\ eventLoop \in {"none", "free"} \cup Loop

JobsOK == place \in [Job -> Places] /\ tries \in [Job -> 0 .. MaxTries]

LoopsOK ==
    /\ pc \in [Loop -> Stages]
    /\ holds \in [Loop -> Delivery \cup {NULL}]
    /\ outcome \in [Delivery -> Outcomes]
    /\ taken \in [Loop -> Nat]

LEMMA TypeParts ==
    ControlTypeOK <=> CallerOK /\ ExecutorOK /\ AsyncOK /\ JobsOK /\ LoopsOK
  BY DEF ControlTypeOK, CallerOK, ExecutorOK, AsyncOK, JobsOK, LoopsOK, States,
         Stages, Places, Outcomes

LEMMA TypePartsNext ==
    ControlTypeOK' <=> CallerOK' /\ ExecutorOK' /\ AsyncOK' /\ JobsOK' /\ LoopsOK'
  BY DEF ControlTypeOK, CallerOK, ExecutorOK, AsyncOK, JobsOK, LoopsOK, States,
         Stages, Places, Outcomes

LEMMA Kept ==
    /\ CallerOK /\ UNCHANGED callerVars => CallerOK'
    /\ ExecutorOK /\ UNCHANGED executorVars => ExecutorOK'
    /\ AsyncOK /\ UNCHANGED asyncVars => AsyncOK'
    /\ JobsOK /\ UNCHANGED jobVars => JobsOK'
  BY DEF CallerOK, callerVars, ExecutorOK, executorVars, AsyncOK, asyncVars,
         JobsOK, jobVars

LEMMA DeliveryTyped ==
    ASSUME NEW d \in Delivery
    PROVE  /\ d # NULL /\ d[1] \in Job /\ d[2] \in 1 .. MaxTries
           /\ d = <<d[1], d[2]>>
<1>1. d \in Job \X Nat
  BY ControlAssumption DEF Delivery
<1> QED
  BY <1>1, ControlAssumption DEF Delivery

LEMMA Onwards ==
    /\ \A l \in Loop : Onward(l) \in {"popping", "leaving", "dead"}
    /\ AtEnd \in {"leaving", "dead"}
    /\ \A l \in Loop : stopEvent => Onward(l) # "popping"
  BY DEF Onward, AtEnd

LEMMA GaveBack == \A j \in Job : GiveBack(j) \in {"waiting", "failed"}
  BY DEF GiveBack

----------------------------------------------------------------------------
(* Jobs and the loops that have them *)

\* What relates jobs and deliveries.
Owned == OwnsItsJob /\ HeldByOne

TakenHeld ==
    \A j \in Job : place[j] = "taken" =>
                      \E l \in Loop : holds[l] = <<j, tries[j]>>

DroppedByOverrun == \A j \in Job : place[j] = "dropped" => overrun

LEMMA Forgotten ==
    ASSUME OwnsItsJob, LoopsOK, JobsOK
    PROVE  NoJobForgotten <=> TakenHeld /\ DroppedByOverrun
<1>1. ASSUME NEW j \in Job, NEW l \in Loop, holds[l] = <<j, tries[j]>>
      PROVE  l \in Alive
  <2>1. holds[l] # NULL
    <3>1. <<j, tries[j]>> \in Job \X Nat
      BY ControlAssumption DEF JobsOK
    <3> QED
      BY <1>1, <3>1, ControlAssumption
  <2> QED
    BY <2>1 DEF OwnsItsJob, Alive, Busy
<1>2. Alive \subseteq Loop
  BY DEF Alive
<1> QED
  BY <1>1, <1>2 DEF NoJobForgotten, TakenHeld, DroppedByOverrun

\* Jobs, deliveries and who is busy stay as they are.
LEMMA SameJobs ==
    ASSUME LoopsOK, Owned, TakenHeld, DroppedByOverrun,
           UNCHANGED jobVars, UNCHANGED holds, overrun => overrun',
           \A l \in Loop : pc'[l] \in Busy <=> pc[l] \in Busy
    PROVE  Owned' /\ TakenHeld' /\ DroppedByOverrun'
<1>1. place' = place /\ tries' = tries /\ holds' = holds
  BY DEF jobVars
<1>2. OwnsItsJob' /\ HeldByOne'
  BY <1>1 DEF Owned, OwnsItsJob, HeldByOne
<1>3. TakenHeld' /\ DroppedByOverrun'
  BY <1>1 DEF TakenHeld, DroppedByOverrun
<1> QED
  BY <1>2, <1>3 DEF Owned

\* A loop gives its job back, to wherever, and is not busy any more.
LEMMA GivenBack ==
    ASSUME LoopsOK, JobsOK, Owned, TakenHeld, DroppedByOverrun,
           NEW l \in Loop, pc[l] \in Busy,
           NEW where \in Places \ {"taken"},
           place' = [place EXCEPT ![holds[l][1]] = where],
           holds' = [holds EXCEPT ![l] = NULL],
           tries' = tries, overrun => overrun',
           where = "dropped" => overrun,
           NEW s \in Stages \ Busy, Goto(l, s)
    PROVE  /\ Owned' /\ TakenHeld' /\ DroppedByOverrun'
           /\ JobsOK' /\ pc' \in [Loop -> Stages] /\ pc'[l] = s
           /\ \A k \in Loop \ {l} : pc'[k] = pc[k]
           /\ holds' \in [Loop -> Delivery \cup {NULL}]
<1>1. holds[l] # NULL /\ holds[l] \in Delivery
  BY DEF Owned, OwnsItsJob, LoopsOK
<1> DEFINE j == holds[l][1]
<1>2. j \in Job /\ \A i \in Job \ {j} : place'[i] = place[i]
  BY <1>1, DeliveryTyped DEF JobsOK
<1>3. place'[j] = where /\ JobsOK'
  BY <1>2 DEF JobsOK
<1>4. /\ pc' \in [Loop -> Stages] /\ pc'[l] = s
      /\ \A k \in Loop \ {l} : pc'[k] = pc[k]
  BY DEF LoopsOK, Goto
<1>5. /\ holds' \in [Loop -> Delivery \cup {NULL}] /\ holds'[l] = NULL
      /\ \A k \in Loop \ {l} : holds'[k] = holds[k]
  BY DEF LoopsOK
<1> HIDE DEF j
<1>6. ASSUME NEW k \in Loop \ {l}, holds[k] # NULL
      PROVE  holds[k][1] # j /\ holds[k][1] \in Job
  <2>1. holds[k] \in Delivery
    BY <1>6 DEF LoopsOK
  <2> QED
    BY <1>1, <1>6, <2>1, DeliveryTyped DEF Owned, HeldByOne, j
<1>7. OwnsItsJob'
  <2> SUFFICES ASSUME NEW k \in Loop
               PROVE  /\ holds'[k] # NULL <=> pc'[k] \in Busy
                      /\ holds'[k] # NULL => /\ place'[holds'[k][1]] = "taken"
                                             /\ holds'[k][2] = tries'[holds'[k][1]]
    BY DEF OwnsItsJob
  <2>1. CASE k = l
    BY <1>4, <1>5, <2>1
  <2>2. CASE k # l
    BY <1>2, <1>4, <1>5, <1>6, <2>2 DEF Owned, OwnsItsJob
  <2> QED
    BY <2>1, <2>2
<1>8. HeldByOne'
  BY <1>5 DEF Owned, HeldByOne
<1>9. TakenHeld'
  <2> SUFFICES ASSUME NEW i \in Job, place'[i] = "taken"
               PROVE  \E k \in Loop : holds'[k] = <<i, tries'[i]>>
    BY DEF TakenHeld
  <2>1. i # j
    BY <1>3
  <2>2. PICK k \in Loop : holds[k] = <<i, tries[i]>>
    BY <1>2, <2>1 DEF TakenHeld
  <2>3. k # l
    BY <2>1, <2>2 DEF j
  <2> QED
    BY <1>5, <2>2, <2>3
<1>10. DroppedByOverrun'
  BY <1>2, <1>3 DEF DroppedByOverrun
<1> QED
  BY <1>3, <1>4, <1>5, <1>7, <1>8, <1>9, <1>10 DEF Owned

\* One loop moves on; what it means for the type of the loops.
LEMMA Moved ==
    ASSUME LoopsOK, NEW l \in Loop, NEW s \in Stages, Goto(l, s)
    PROVE  /\ pc' \in [Loop -> Stages] /\ pc'[l] = s
           /\ \A k \in Loop \ {l} : pc'[k] = pc[k]
  BY DEF LoopsOK, Goto

----------------------------------------------------------------------------
(* One loop at work, its event loop, and the stop event *)

\* What does not depend on the jobs.
Ordered == OneAtWork /\ EventLoopOwned /\ StopSeen

\* A live loop moves on; the caller does nothing.
LEMMA MovedOn ==
    ASSUME LoopsOK, Ordered, NEW l \in Loop, l \in Alive,
           NEW s \in Stages, Goto(l, s),
           UNCHANGED <<callerVars, async, taken>>,
           \/ ~async
           \/ /\ s \in {"looping", "popping", "processing"} => eventLoop' = "free"
              /\ s \in Busy \ {"processing"} => eventLoop' = l
           \/ overrun,
           s = "popping" => ~stopEvent
    PROVE  Ordered'
<1>1. /\ pc'[l] = s /\ \A k \in Loop \ {l} : pc'[k] = pc[k]
      /\ state' = state /\ stopEvent' = stopEvent /\ thread' = thread
      /\ caller' = caller /\ overrun' = overrun /\ async' = async
      /\ taken' = taken
  BY Moved DEF callerVars
<1>2. Alive' \subseteq Alive
  BY <1>1 DEF Alive
<1>3. OneAtWork'
  BY <1>1, <1>2 DEF Ordered, OneAtWork
<1>4. EventLoopOwned'
  <2> SUFFICES ASSUME ~overrun, async, NEW k \in Loop
               PROVE  /\ pc'[k] \in {"looping", "popping", "processing"} => eventLoop' = "free"
                      /\ pc'[k] \in Busy \ {"processing"} => eventLoop' = k
    BY <1>1 DEF EventLoopOwned
  <2>1. CASE k = l
    BY <1>1, <2>1
  <2>2. CASE k # l
    <3>1. k \notin Alive
      BY <2>2 DEF Ordered, OneAtWork
    <3> QED
      BY <1>1, <2>2, <3>1 DEF Alive, Busy
  <2> QED
    BY <2>1, <2>2
<1>5. StopSeen'
  <2> SUFFICES ASSUME NEW k \in Loop
               PROVE  /\ taken'[k] <= 1
                      /\ taken'[k] = 1 => stopEvent' /\ pc'[k] # "popping"
    BY DEF StopSeen
  <2>1. taken[k] <= 1 /\ (taken[k] = 1 => stopEvent /\ pc[k] # "popping")
    BY DEF Ordered, StopSeen
  <2>2. CASE k = l
    BY <1>1, <2>1, <2>2
  <2>3. CASE k # l
    BY <1>1, <2>1, <2>3
  <2> QED
    BY <2>2, <2>3
<1> QED
  BY <1>3, <1>4, <1>5 DEF Ordered

\* What is left to show of a step.
LEMMA Assembled ==
    ASSUME CallerOK', ExecutorOK', AsyncOK', JobsOK', LoopsOK',
           Owned', TakenHeld', DroppedByOverrun', Ordered'
    PROVE  ControlInv'
<1>1. ControlTypeOK'
  BY TypePartsNext
<1>2. NoJobForgotten'
  <2>1. ASSUME NEW j \in Job, NEW l \in Loop, holds'[l] = <<j, tries'[j]>>
        PROVE  l \in Alive'
    <3>1. <<j, tries'[j]>> \in Job \X Nat
      BY ControlAssumption DEF JobsOK
    <3>2. holds'[l] # NULL
      BY <2>1, <3>1, ControlAssumption
    <3> QED
      BY <3>2 DEF Owned, OwnsItsJob, Alive, Busy
  <2> QED
    BY <2>1 DEF NoJobForgotten, TakenHeld, DroppedByOverrun
<1> QED
  BY <1>1, <1>2 DEF ControlInv, Owned, Ordered

LEMMA Disassembled ==
    ASSUME ControlInv
    PROVE  /\ CallerOK /\ ExecutorOK /\ AsyncOK /\ JobsOK /\ LoopsOK
           /\ Owned /\ TakenHeld /\ DroppedByOverrun /\ Ordered
<1>1. CallerOK /\ ExecutorOK /\ AsyncOK /\ JobsOK /\ LoopsOK
  BY TypeParts DEF ControlInv
<1> QED
  BY <1>1, Forgotten DEF ControlInv, Owned, Ordered

----------------------------------------------------------------------------
(* start and stop *)

LEMMA StartInv ==
    ASSUME ControlInv, NEW l \in Loop, Start(l) PROVE ControlInv'
<1>1. /\ CallerOK /\ ExecutorOK /\ AsyncOK /\ JobsOK /\ LoopsOK
      /\ Owned /\ TakenHeld /\ DroppedByOverrun /\ Ordered
  BY Disassembled
<1>2. /\ caller = "idle" /\ state \notin {"running", "starting"} /\ l \notin Alive
      /\ state' = "starting" /\ stopEvent' = FALSE /\ thread' = l
      /\ Goto(l, "born") /\ taken' = [k \in Loop |-> 0]
      /\ UNCHANGED <<caller, overrun>> /\ UNCHANGED executorVars
      /\ UNCHANGED asyncVars /\ UNCHANGED jobVars
      /\ UNCHANGED holds /\ UNCHANGED outcome
  BY DEF Start, MayStart
<1>3. /\ pc' \in [Loop -> Stages] /\ pc'[l] = "born"
      /\ \A k \in Loop \ {l} : pc'[k] = pc[k]
  BY <1>1, <1>2, Moved DEF Stages
<1>4. CallerOK' /\ LoopsOK'
  BY <1>1, <1>2, <1>3 DEF CallerOK, States, LoopsOK
<1>5. ExecutorOK' /\ AsyncOK' /\ JobsOK'
  BY <1>1, <1>2, Kept
<1>6. Owned' /\ TakenHeld' /\ DroppedByOverrun'
  <2>1. \A k \in Loop : pc'[k] \in Busy <=> pc[k] \in Busy
    BY <1>2, <1>3 DEF Alive, Busy
  <2> QED
    BY <1>1, <1>2, <2>1, SameJobs
<1>7. ~overrun => \A k \in Loop : k \notin Alive
  BY <1>1, <1>2 DEF Ordered, OneAtWork
<1>8. OneAtWork'
  BY <1>2, <1>3, <1>7 DEF OneAtWork, Alive
<1>9. EventLoopOwned'
  BY <1>2, <1>3, <1>7 DEF EventLoopOwned, Alive, Busy, asyncVars
<1>10. StopSeen'
  BY <1>2 DEF StopSeen
<1> QED
  BY <1>4, <1>5, <1>6, <1>8, <1>9, <1>10, Assembled DEF Ordered

\* stop() and the end of its join() leave the loops alone.
LEMMA CallerMoves ==
    ASSUME ControlInv, CallerOK', ExecutorOK', UNCHANGED asyncVars,
           UNCHANGED jobVars, UNCHANGED <<pc, holds, outcome, taken>>,
           thread' = thread, overrun => overrun', stopEvent => stopEvent',
           ~overrun' /\ caller' = "idle" => thread \notin Alive
    PROVE  ControlInv'
<1>1. /\ CallerOK /\ ExecutorOK /\ AsyncOK /\ JobsOK /\ LoopsOK
      /\ Owned /\ TakenHeld /\ DroppedByOverrun /\ Ordered
  BY Disassembled
<1>2. AsyncOK' /\ JobsOK' /\ LoopsOK' /\ Alive' = Alive
  BY <1>1, Kept DEF LoopsOK, Alive
<1>3. Owned' /\ TakenHeld' /\ DroppedByOverrun'
  BY <1>1, SameJobs
<1>4. OneAtWork'
  BY <1>1, <1>2 DEF Ordered, OneAtWork
<1>5. EventLoopOwned'
  BY <1>1 DEF Ordered, EventLoopOwned, asyncVars
<1>6. StopSeen'
  BY <1>1 DEF Ordered, StopSeen
<1> QED
  BY <1>2, <1>3, <1>4, <1>5, <1>6, Assembled DEF Ordered

LEMMA StopInv ==
    ASSUME ControlInv, Stop PROVE ControlInv'
<1>1. CallerOK /\ ExecutorOK
  BY Disassembled
<1>2. /\ state' = "stopping" /\ stopEvent' = TRUE
      /\ \/ thread \in Alive /\ caller' = "joining" /\ UNCHANGED executor
         \/ thread \notin Alive /\ ShutDown /\ UNCHANGED caller
      /\ thread' = thread /\ overrun' = overrun /\ UNCHANGED <<backlog, running>>
      /\ UNCHANGED asyncVars /\ UNCHANGED jobVars
      /\ UNCHANGED <<pc, holds, outcome, taken>> /\ caller = "idle"
  BY DEF Stop, MustJoin
<1>3. CallerOK'
  BY <1>1, <1>2 DEF CallerOK, States
<1>4. ExecutorOK'
  BY <1>1, <1>2 DEF ExecutorOK, ShutDown
<1> QED
  BY <1>2, <1>3, <1>4, CallerMoves

LEMMA JoinedInv ==
    ASSUME ControlInv, Joined PROVE ControlInv'
<1>1. CallerOK /\ ExecutorOK
  BY Disassembled
<1>2. /\ state' \in {"error", "stopped"} /\ caller' = "idle"
      /\ overrun' = (overrun \/ thread \in Alive) /\ ShutDown
      /\ thread' = thread /\ stopEvent' = stopEvent /\ UNCHANGED <<backlog, running>>
      /\ UNCHANGED asyncVars /\ UNCHANGED jobVars
      /\ UNCHANGED <<pc, holds, outcome, taken>>
  BY DEF Joined, AfterJoin
<1>3. CallerOK'
  <2>1. overrun' \in BOOLEAN
    BY <1>2
  <2> QED
    BY <1>1, <1>2, <2>1 DEF CallerOK, States
<1>4. ExecutorOK'
  BY <1>1, <1>2 DEF ExecutorOK, ShutDown
<1>5. /\ overrun => overrun'
      /\ ~overrun' => thread \notin Alive
  BY <1>2
<1> QED
  BY <1>2, <1>3, <1>4, <1>5, CallerMoves

----------------------------------------------------------------------------
(* The loop *)

LEMMA RunInv ==
    ASSUME ControlInv, NEW l \in Loop, Run(l) PROVE ControlInv'
<1>1. /\ CallerOK /\ ExecutorOK /\ AsyncOK /\ JobsOK /\ LoopsOK
      /\ Owned /\ TakenHeld /\ DroppedByOverrun /\ Ordered
  BY Disassembled
<1>2. /\ pc[l] = "born" /\ state' = "running" /\ Goto(l, "looping")
      /\ eventLoop' = IF async THEN "free" ELSE eventLoop
      /\ stopEvent' = stopEvent /\ thread' = thread /\ caller' = caller
      /\ overrun' = overrun /\ UNCHANGED executorVars /\ async' = async
      /\ UNCHANGED jobVars /\ UNCHANGED holds /\ outcome' = outcome /\ taken' = taken
  BY DEF Run
<1>3. /\ pc' \in [Loop -> Stages] /\ pc'[l] = "looping"
      /\ \A k \in Loop \ {l} : pc'[k] = pc[k]
  BY <1>1, <1>2, Moved DEF Stages
<1>4. CallerOK' /\ AsyncOK' /\ ExecutorOK' /\ JobsOK' /\ LoopsOK'
  <2>1. CallerOK'
    BY <1>1, <1>2 DEF CallerOK, States
  <2>2. AsyncOK'
    BY <1>1, <1>2 DEF AsyncOK
  <2>3. LoopsOK'
    BY <1>1, <1>2, <1>3 DEF LoopsOK
  <2> QED
    BY <1>1, <1>2, <2>1, <2>2, <2>3, Kept
<1>5. Owned' /\ TakenHeld' /\ DroppedByOverrun'
  <2>1. \A k \in Loop : pc'[k] \in Busy <=> pc[k] \in Busy
    BY <1>2, <1>3 DEF Busy
  <2> QED
    BY <1>1, <1>2, <2>1, SameJobs
<1>6. OneAtWork'
  <2>1. l \in Alive /\ Alive' \subseteq Alive
    BY <1>2, <1>3 DEF Alive
  <2> QED
    BY <1>1, <1>2, <2>1 DEF Ordered, OneAtWork
<1>7. EventLoopOwned'
  <2> SUFFICES ASSUME ~overrun, async, NEW k \in Loop
               PROVE  /\ pc'[k] \in {"looping", "popping", "processing"} => eventLoop' = "free"
                      /\ pc'[k] \in Busy \ {"processing"} => eventLoop' = k
    BY <1>2 DEF EventLoopOwned
  <2>1. CASE k = l
    BY <1>2, <1>3, <2>1 DEF Busy
  <2>2. CASE k # l
    <3>1. k \notin Alive
      BY <1>1, <1>2, <2>2 DEF Ordered, OneAtWork, Alive
    <3> QED
      BY <1>3, <2>2, <3>1 DEF Alive, Busy
  <2> QED
    BY <2>1, <2>2
<1>8. StopSeen'
  <2> SUFFICES ASSUME NEW k \in Loop
               PROVE  /\ taken'[k] <= 1
                      /\ taken'[k] = 1 => stopEvent' /\ pc'[k] # "popping"
    BY DEF StopSeen
  <2>1. taken[k] <= 1 /\ (taken[k] = 1 => stopEvent /\ pc[k] # "popping")
    BY <1>1 DEF Ordered, StopSeen
  <2>2. pc'[k] # "popping" \/ pc'[k] = pc[k]
    BY <1>3
  <2> QED
    BY <1>2, <2>1, <2>2
<1> QED
  BY <1>4, <1>5, <1>6, <1>7, <1>8, Assembled DEF Ordered

\* A live loop moves on with the jobs where they are.
LEMMA MovedOnKeeps ==
    ASSUME ControlInv, NEW l \in Loop, l \in Alive,
           NEW s \in Stages, Goto(l, s),
           UNCHANGED callerVars, async' = async, taken' = taken,
           UNCHANGED jobVars, holds' = holds, ExecutorOK', AsyncOK',
           outcome' \in [Delivery -> Outcomes],
           s \in Busy <=> pc[l] \in Busy,
           \/ ~async
           \/ /\ s \in {"looping", "popping", "processing"} => eventLoop' = "free"
              /\ s \in Busy \ {"processing"} => eventLoop' = l
           \/ overrun,
           s = "popping" => ~stopEvent
    PROVE  ControlInv'
<1>1. /\ CallerOK /\ JobsOK /\ LoopsOK
      /\ Owned /\ TakenHeld /\ DroppedByOverrun /\ Ordered
  BY Disassembled
<1>2. /\ pc' \in [Loop -> Stages] /\ pc'[l] = s
      /\ \A k \in Loop \ {l} : pc'[k] = pc[k]
  BY <1>1, Moved
<1>3. CallerOK' /\ JobsOK' /\ LoopsOK'
  <2>1. LoopsOK'
    BY <1>1, <1>2 DEF LoopsOK
  <2> QED
    BY <1>1, <2>1, Kept
<1>4. Owned' /\ TakenHeld' /\ DroppedByOverrun'
  <2>1. \A k \in Loop : pc'[k] \in Busy <=> pc[k] \in Busy
    BY <1>2
  <2>2. overrun => overrun'
    BY DEF callerVars
  <2> QED
    BY <1>1, <2>1, <2>2, SameJobs
<1>5. Ordered'
  BY <1>1, MovedOn
<1> QED
  BY <1>3, <1>4, <1>5, Assembled

\* What the event loop is to a live loop.
LEMMA EventLoopOf ==
    ASSUME ControlInv, NEW l \in Loop
    PROVE  \/ ~async
           \/ /\ pc[l] \in {"looping", "popping", "processing"} => eventLoop = "free"
              /\ pc[l] \in Busy \ {"processing"} => eventLoop = l
           \/ overrun
  BY DEF ControlInv, EventLoopOwned

LEMMA LookAtEventInv ==
    ASSUME ControlInv, NEW l \in Loop, LookAtEvent(l) PROVE ControlInv'
<1>1. /\ ExecutorOK /\ AsyncOK /\ LoopsOK
  BY Disassembled
<1>2. /\ pc[l] = "looping" /\ Goto(l, Onward(l)) /\ UNCHANGED callerVars
      /\ UNCHANGED executorVars /\ UNCHANGED asyncVars /\ UNCHANGED jobVars
      /\ holds' = holds /\ outcome' = outcome /\ taken' = taken
  BY DEF LookAtEvent
<1>3. PICK s \in {"popping", "leaving", "dead"} :
         Goto(l, s) /\ (stopEvent => s # "popping")
  BY <1>2, Onwards
<1>4. ExecutorOK' /\ AsyncOK' /\ async' = async /\ eventLoop' = eventLoop
  BY <1>1, <1>2, Kept DEF asyncVars
<1>5. /\ l \in Alive /\ s \in Stages /\ s \notin Busy /\ pc[l] \notin Busy
      /\ outcome' \in [Delivery -> Outcomes]
  BY <1>1, <1>2 DEF Alive, Stages, Busy, LoopsOK
<1> QED
  BY <1>2, <1>3, <1>4, <1>5, EventLoopOf, MovedOnKeeps

LEMMA PopNothingInv ==
    ASSUME ControlInv, NEW l \in Loop, PopNothing(l) PROVE ControlInv'
<1>1. /\ ExecutorOK /\ AsyncOK /\ LoopsOK
  BY Disassembled
<1>2. /\ pc[l] = "popping" /\ Goto(l, "looping") /\ UNCHANGED callerVars
      /\ UNCHANGED executorVars /\ UNCHANGED asyncVars /\ UNCHANGED jobVars
      /\ holds' = holds /\ outcome' = outcome /\ taken' = taken
  BY DEF PopNothing
<1>3. ExecutorOK' /\ AsyncOK' /\ async' = async /\ eventLoop' = eventLoop
  BY <1>1, <1>2, Kept DEF asyncVars
<1>4. /\ l \in Alive /\ "looping" \in Stages /\ "looping" \notin Busy
      /\ pc[l] \notin Busy /\ outcome' \in [Delivery -> Outcomes]
  BY <1>1, <1>2 DEF Alive, Stages, Busy, LoopsOK
<1> QED
  BY <1>2, <1>3, <1>4, EventLoopOf, MovedOnKeeps

LEMMA PopJobInv ==
    ASSUME ControlInv, NEW l \in Loop, NEW j \in Job, PopJob(l, j)
    PROVE  ControlInv'
<1>1. /\ CallerOK /\ ExecutorOK /\ AsyncOK /\ JobsOK /\ LoopsOK
      /\ Owned /\ TakenHeld /\ DroppedByOverrun /\ Ordered
  BY Disassembled
<1>2. /\ pc[l] = "popping" /\ place[j] = "waiting" /\ tries[j] < MaxTries
      /\ place' = [place EXCEPT ![j] = "taken"]
      /\ tries' = [tries EXCEPT ![j] = tries[j] + 1]
      /\ holds' = [holds EXCEPT ![l] = <<j, tries'[j]>>]
      /\ taken' = IF stopEvent THEN [taken EXCEPT ![l] = taken[l] + 1] ELSE taken
      /\ Goto(l, "processing")
      /\ UNCHANGED callerVars /\ UNCHANGED executorVars /\ UNCHANGED asyncVars
      /\ outcome' = outcome
  BY DEF PopJob
<1> DEFINE d == <<j, tries[j] + 1>>
<1>3. /\ tries[j] \in 0 .. MaxTries /\ MaxTries \in Nat
      /\ tries[j] + 1 \in 1 .. MaxTries /\ tries[j] + 1 \in 0 .. MaxTries
  BY <1>1, <1>2, ControlAssumption DEF JobsOK
<1>4. /\ tries'[j] = tries[j] + 1 /\ place'[j] = "taken" /\ JobsOK'
      /\ \A i \in Job \ {j} : tries'[i] = tries[i] /\ place'[i] = place[i]
  BY <1>1, <1>2, <1>3 DEF JobsOK, Places
<1>5. /\ d \in Delivery /\ d # NULL /\ d[1] = j /\ d[2] = tries[j] + 1
      /\ holds' = [holds EXCEPT ![l] = d]
  <2>1. d \in Delivery
    BY <1>3 DEF Delivery
  <2> QED
    BY <1>2, <1>4, <2>1, DeliveryTyped
<1> HIDE DEF d
<1>6. /\ holds' \in [Loop -> Delivery \cup {NULL}] /\ holds'[l] = d
      /\ \A k \in Loop \ {l} : holds'[k] = holds[k]
  BY <1>1, <1>5 DEF LoopsOK
<1>7. /\ pc' \in [Loop -> Stages] /\ pc'[l] = "processing"
      /\ \A k \in Loop \ {l} : pc'[k] = pc[k]
  BY <1>1, <1>2, Moved DEF Stages
<1>8. ASSUME NEW k \in Loop, holds[k] # NULL
      PROVE  holds[k][1] # j /\ holds[k][1] \in Job /\ k # l
  <2>1. holds[k] \in Delivery
    BY <1>1, <1>8 DEF LoopsOK
  <2>2. place[holds[k][1]] = "taken" /\ pc[k] \in Busy
    BY <1>1, <1>8 DEF Owned, OwnsItsJob
  <2> QED
    BY <1>2, <2>1, <2>2, DeliveryTyped DEF Busy
<1>9. OwnsItsJob'
  <2> SUFFICES ASSUME NEW k \in Loop
               PROVE  /\ holds'[k] # NULL <=> pc'[k] \in Busy
                      /\ holds'[k] # NULL => /\ place'[holds'[k][1]] = "taken"
                                             /\ holds'[k][2] = tries'[holds'[k][1]]
    BY DEF OwnsItsJob
  <2>1. CASE k = l
    BY <1>4, <1>5, <1>6, <1>7, <2>1 DEF Busy
  <2>2. CASE k # l
    BY <1>1, <1>4, <1>6, <1>7, <1>8, <2>2 DEF Owned, OwnsItsJob
  <2> QED
    BY <2>1, <2>2
<1>10. HeldByOne'
  <2> SUFFICES ASSUME NEW k \in Loop, NEW m \in Loop,
                      holds'[k] # NULL, holds'[m] # NULL, holds'[k][1] = holds'[m][1]
               PROVE  k = m
    BY DEF HeldByOne
  <2>1. CASE k = l /\ m # l
    BY <1>5, <1>6, <1>8, <2>1
  <2>2. CASE k # l /\ m = l
    BY <1>5, <1>6, <1>8, <2>2
  <2>3. CASE k # l /\ m # l
    BY <1>1, <1>6, <2>3 DEF Owned, HeldByOne
  <2> QED
    BY <2>1, <2>2, <2>3
<1>11. TakenHeld'
  <2> SUFFICES ASSUME NEW i \in Job, place'[i] = "taken"
               PROVE  \E k \in Loop : holds'[k] = <<i, tries'[i]>>
    BY DEF TakenHeld
  <2>1. CASE i = j
    BY <1>4, <1>6, <2>1 DEF d
  <2>2. CASE i # j
    <3>1. PICK k \in Loop : holds[k] = <<i, tries[i]>>
      BY <1>1, <1>4, <2>2 DEF TakenHeld
    <3>2. holds[l] = NULL
      BY <1>1, <1>2 DEF Owned, OwnsItsJob, Busy
    <3>3. <<i, tries[i]>> \in Job \X Nat
      BY <1>1, ControlAssumption DEF JobsOK
    <3>4. k # l
      BY <3>1, <3>2, <3>3, ControlAssumption
    <3> QED
      BY <1>4, <1>6, <2>2, <3>1, <3>4
  <2> QED
    BY <2>1, <2>2
<1>12. DroppedByOverrun'
  BY <1>1, <1>2, <1>4 DEF DroppedByOverrun, callerVars
<1>13. OneAtWork'
  <2>1. Alive' \subseteq Alive
    BY <1>2, <1>7 DEF Alive
  <2> QED
    BY <1>1, <1>2, <2>1 DEF Ordered, OneAtWork, callerVars
<1>14. EventLoopOwned'
  <2> SUFFICES ASSUME ~overrun, async, NEW k \in Loop
               PROVE  /\ pc'[k] \in {"looping", "popping", "processing"} => eventLoop' = "free"
                      /\ pc'[k] \in Busy \ {"processing"} => eventLoop' = k
    BY <1>2 DEF EventLoopOwned, callerVars, asyncVars
  <2>1. eventLoop' = eventLoop
    BY <1>2 DEF asyncVars
  <2>2. CASE k = l
    BY <1>1, <1>2, <1>7, <2>1, <2>2 DEF Ordered, EventLoopOwned
  <2>3. CASE k # l
    BY <1>1, <1>7, <2>1, <2>3 DEF Ordered, EventLoopOwned
  <2> QED
    BY <2>2, <2>3
<1>15. taken' \in [Loop -> Nat] /\ StopSeen'
  <2>1. taken[l] \in Nat /\ taken[l] # 1 /\ taken[l] <= 1
    BY <1>1, <1>2 DEF LoopsOK, Ordered, StopSeen
  <2>2. taken[l] + 1 = 1 /\ taken[l] + 1 \in Nat
    BY <2>1
  <2>3. /\ taken' \in [Loop -> Nat]
        /\ \A k \in Loop : taken'[k] = taken[k] \/ (k = l /\ stopEvent /\ taken'[k] = 1)
    BY <1>1, <1>2, <2>2 DEF LoopsOK
  <2>4. ASSUME NEW k \in Loop
        PROVE  taken'[k] <= 1 /\ (taken'[k] = 1 => stopEvent' /\ pc'[k] # "popping")
    <3>1. taken[k] <= 1 /\ (taken[k] = 1 => stopEvent /\ pc[k] # "popping")
      BY <1>1 DEF Ordered, StopSeen
    <3>2. stopEvent' = stopEvent
      BY <1>2 DEF callerVars
    <3>3. CASE k = l
      BY <1>7, <2>3, <3>1, <3>2, <3>3
    <3>4. CASE k # l
      BY <1>7, <2>3, <3>1, <3>2, <3>4
    <3> QED
      BY <3>3, <3>4
  <2> QED
    BY <2>3, <2>4 DEF StopSeen
<1>16. CallerOK' /\ ExecutorOK' /\ AsyncOK' /\ LoopsOK'
  BY <1>1, <1>2, <1>6, <1>7, <1>15, Kept DEF LoopsOK
<1> QED
  BY <1>4, <1>9, <1>10, <1>11, <1>12, <1>13, <1>14, <1>15, <1>16, Assembled
     DEF Owned, Ordered

----------------------------------------------------------------------------
(* The job in the loop, the executor and the event loop *)

LEMMA HeldTyped ==
    ASSUME ControlInv, NEW l \in Loop, pc[l] \in Busy
    PROVE  holds[l] \in Delivery /\ holds[l][1] \in Job
<1>1. holds[l] # NULL /\ holds[l] \in Delivery \cup {NULL}
  BY Disassembled DEF Owned, OwnsItsJob, LoopsOK
<1> QED
  BY <1>1, DeliveryTyped

\* The outcome of one delivery is set.
LEMMA OutcomeSet ==
    ASSUME LoopsOK, NEW d \in Delivery, NEW how \in Outcomes,
           outcome' = [outcome EXCEPT ![d] = how]
    PROVE  outcome' \in [Delivery -> Outcomes]
  BY DEF LoopsOK

LEMMA SubmitInv ==
    ASSUME ControlInv, NEW l \in Loop, Submit(l) PROVE ControlInv'
<1>1. /\ ExecutorOK /\ AsyncOK /\ LoopsOK
  BY Disassembled
<1>2. /\ pc[l] = "processing" /\ ~async /\ UNCHANGED callerVars
      /\ executor' = executor /\ running' = running
      /\ UNCHANGED asyncVars /\ UNCHANGED jobVars /\ outcome' = outcome
      /\ taken' = taken /\ holds' = holds
      /\ \/ backlog' = Append(backlog, holds[l]) /\ Goto(l, "waiting")
         \/ backlog' = backlog /\ Goto(l, "failing")
  BY DEF Submit, Refused
<1>3. PICK s \in {"waiting", "failing"} : Goto(l, s)
  BY <1>2
<1>4. ExecutorOK'
  <2>1. Append(backlog, holds[l]) \in Seq(Delivery)
    BY <1>1, <1>2, HeldTyped, AppendProperties DEF Busy, ExecutorOK
  <2> QED
    BY <1>1, <1>2, <2>1 DEF ExecutorOK
<1>5. AsyncOK' /\ async' = async
  BY <1>1, <1>2, Kept DEF asyncVars
<1>6. /\ l \in Alive /\ s \in Stages /\ s \in Busy /\ pc[l] \in Busy
      /\ s # "popping" /\ outcome' \in [Delivery -> Outcomes]
  BY <1>1, <1>2 DEF Alive, Stages, Busy, LoopsOK
<1> QED
  BY <1>2, <1>3, <1>4, <1>5, <1>6, MovedOnKeeps

LEMMA CallInv ==
    ASSUME ControlInv, NEW l \in Loop, Call(l) PROVE ControlInv'
<1>1. /\ ExecutorOK /\ AsyncOK /\ LoopsOK
  BY Disassembled
<1>2. /\ pc[l] = "processing" /\ ~async /\ UNCHANGED callerVars
      /\ UNCHANGED executorVars /\ UNCHANGED asyncVars /\ UNCHANGED jobVars
      /\ outcome' = [outcome EXCEPT ![holds[l]] = "begun"]
      /\ taken' = taken /\ holds' = holds /\ Goto(l, "calling")
  BY DEF Call
<1>3. ExecutorOK' /\ AsyncOK' /\ async' = async
  BY <1>1, <1>2, Kept DEF asyncVars
<1>4. /\ l \in Alive /\ "calling" \in Stages /\ "calling" \in Busy /\ pc[l] \in Busy
  BY <1>2 DEF Alive, Stages, Busy
<1>5. outcome' \in [Delivery -> Outcomes]
  BY <1>1, <1>2, <1>4, HeldTyped, OutcomeSet DEF Outcomes
<1> QED
  BY <1>2, <1>3, <1>4, <1>5, MovedOnKeeps

LEMMA AwaitInv ==
    ASSUME ControlInv, NEW l \in Loop, Await(l) PROVE ControlInv'
<1>1. /\ ExecutorOK /\ AsyncOK /\ LoopsOK
  BY Disassembled
<1>2. /\ pc[l] = "processing" /\ UNCHANGED callerVars /\ eventLoop' = l
      /\ UNCHANGED executorVars /\ async' = async /\ UNCHANGED jobVars
      /\ outcome' = [outcome EXCEPT ![holds[l]] = "begun"]
      /\ taken' = taken /\ holds' = holds /\ Goto(l, "calling")
  BY DEF Await
<1>3. ExecutorOK' /\ AsyncOK'
  BY <1>1, <1>2, Kept DEF AsyncOK
<1>4. /\ l \in Alive /\ "calling" \in Stages /\ "calling" \in Busy /\ pc[l] \in Busy
  BY <1>2 DEF Alive, Stages, Busy
<1>5. outcome' \in [Delivery -> Outcomes]
  BY <1>1, <1>2, <1>4, HeldTyped, OutcomeSet DEF Outcomes
<1> QED
  BY <1>2, <1>3, <1>4, <1>5, MovedOnKeeps

LEMMA ReturnInv ==
    ASSUME ControlInv, NEW l \in Loop, Return(l) PROVE ControlInv'
<1>1. /\ ExecutorOK /\ AsyncOK /\ LoopsOK
  BY Disassembled
<1>2. PICK how \in {"returned", "raised"} :
        outcome' = [outcome EXCEPT ![holds[l]] = how]
  BY DEF Return
<1>3. /\ pc[l] = "calling" /\ UNCHANGED callerVars
      /\ UNCHANGED executorVars /\ UNCHANGED asyncVars /\ UNCHANGED jobVars
      /\ taken' = taken /\ holds' = holds /\ Goto(l, "waiting")
  BY DEF Return
<1>4. ExecutorOK' /\ AsyncOK' /\ async' = async /\ eventLoop' = eventLoop
  BY <1>1, <1>3, Kept DEF asyncVars
<1>5. /\ l \in Alive /\ "waiting" \in Stages /\ "waiting" \in Busy \ {"processing"}
      /\ pc[l] \in Busy \ {"processing"}
  BY <1>3 DEF Alive, Stages, Busy
<1>6. outcome' \in [Delivery -> Outcomes]
  BY <1>1, <1>2, <1>5, HeldTyped, OutcomeSet DEF Outcomes
<1> QED
  BY <1>3, <1>4, <1>5, <1>6, EventLoopOf, MovedOnKeeps

\* SeeOutcome, TimeOut and CompleteRaises: on to the verdict.
LEMMA VerdictInv ==
    ASSUME ControlInv, NEW l \in Loop,
           SeeOutcome(l) \/ TimeOut(l) \/ CompleteRaises(l)
    PROVE  ControlInv'
<1>1. /\ ExecutorOK /\ AsyncOK /\ LoopsOK
  BY Disassembled
<1>2. /\ pc[l] \in {"waiting", "completing"} /\ UNCHANGED callerVars
      /\ UNCHANGED executorVars /\ UNCHANGED asyncVars /\ UNCHANGED jobVars
      /\ taken' = taken /\ holds' = holds /\ outcome' = outcome
  BY DEF SeeOutcome, TimeOut, CompleteRaises
<1>3. PICK s \in {"completing", "failing"} : Goto(l, s)
  BY DEF SeeOutcome, TimeOut, CompleteRaises, Verdict
<1>4. ExecutorOK' /\ AsyncOK' /\ async' = async /\ eventLoop' = eventLoop
  BY <1>1, <1>2, Kept DEF asyncVars
<1>5. /\ l \in Alive /\ s \in Stages /\ s \in Busy \ {"processing"}
      /\ pc[l] \in Busy \ {"processing"}
      /\ outcome' \in [Delivery -> Outcomes]
  BY <1>1, <1>2 DEF Alive, Stages, Busy, LoopsOK
<1> QED
  BY <1>2, <1>3, <1>4, <1>5, EventLoopOf, MovedOnKeeps

LEMMA CloseEventLoopInv ==
    ASSUME ControlInv, NEW l \in Loop, CloseEventLoop(l) PROVE ControlInv'
<1>1. /\ ExecutorOK /\ AsyncOK /\ LoopsOK
  BY Disassembled
<1>2. /\ pc[l] = "leaving" /\ UNCHANGED callerVars /\ Goto(l, "dead")
      /\ eventLoop' = IF eventLoop = "free" THEN "none" ELSE eventLoop
      /\ UNCHANGED executorVars /\ async' = async /\ UNCHANGED jobVars
      /\ taken' = taken /\ holds' = holds /\ outcome' = outcome
  BY DEF CloseEventLoop
<1>3. ExecutorOK' /\ AsyncOK'
  BY <1>1, <1>2, Kept DEF AsyncOK
<1>4. /\ l \in Alive /\ "dead" \in Stages /\ "dead" \notin Busy /\ pc[l] \notin Busy
      /\ outcome' \in [Delivery -> Outcomes]
  BY <1>1, <1>2 DEF Alive, Stages, Busy, LoopsOK
<1> QED
  BY <1>2, <1>3, <1>4, MovedOnKeeps
\* A busy loop is done with its job, and the queue has it somewhere else.
LEMMA LetGo ==
    ASSUME ControlInv, NEW l \in Loop, pc[l] \in Busy,
           NEW where \in Places \ {"taken"},
           place' = [place EXCEPT ![holds[l][1]] = where],
           holds' = [holds EXCEPT ![l] = NULL],
           NEW s \in {"looping", "leaving", "dead"}, Goto(l, s),
           UNCHANGED callerVars, UNCHANGED executorVars, async' = async,
           tries' = tries, outcome' = outcome, taken' = taken, AsyncOK',
           where = "dropped" => overrun,
           ~async \/ (s = "looping" => eventLoop' = "free") \/ overrun
    PROVE  ControlInv'
<1>1. /\ CallerOK /\ ExecutorOK /\ JobsOK /\ LoopsOK
      /\ Owned /\ TakenHeld /\ DroppedByOverrun /\ Ordered
  BY Disassembled
<1>2. s \in Stages \ Busy /\ s \in Stages /\ s # "popping" /\ l \in Alive
  BY DEF Stages, Busy, Alive
<1>3. overrun => overrun'
  BY DEF callerVars
<1>4. /\ Owned' /\ TakenHeld' /\ DroppedByOverrun'
      /\ JobsOK' /\ pc' \in [Loop -> Stages]
      /\ holds' \in [Loop -> Delivery \cup {NULL}]
  BY <1>1, <1>2, <1>3, GivenBack
<1>5. CallerOK' /\ ExecutorOK' /\ LoopsOK'
  <2>1. LoopsOK'
    BY <1>1, <1>4 DEF LoopsOK
  <2> QED
    BY <1>1, <2>1, Kept
<1>6. Ordered'
  <2>1. s \notin Busy \ {"processing"} /\ s # "processing"
    BY DEF Busy
  <2> QED
    BY <1>1, <1>2, <2>1, MovedOn
<1> QED
  BY <1>4, <1>5, <1>6, Assembled

LEMMA AbandonInv ==
    ASSUME ControlInv, NEW l \in Loop, Abandon(l) PROVE ControlInv'
<1>1. AsyncOK
  BY Disassembled
<1>2. /\ pc[l] = "processing" /\ async /\ eventLoop # "free"
      /\ place' = [place EXCEPT ![holds[l][1]] = "dropped"]
      /\ holds' = [holds EXCEPT ![l] = NULL]
      /\ Goto(l, "leaving")
      /\ UNCHANGED callerVars /\ UNCHANGED executorVars /\ UNCHANGED asyncVars
      /\ tries' = tries /\ outcome' = outcome /\ taken' = taken
  BY DEF Abandon
<1>3. AsyncOK' /\ async' = async
  BY <1>1, <1>2, Kept DEF asyncVars
<1>4. pc[l] \in Busy /\ "dropped" \in Places \ {"taken"}
  BY <1>2 DEF Busy, Places
<1>5. overrun
  BY <1>2, EventLoopOf
<1> QED
  BY <1>2, <1>3, <1>4, <1>5, LetGo

\* What a report of the loop leaves of the event loop.
LEMMA Released ==
    ASSUME ControlInv, NEW l \in Loop, pc[l] \in {"completing", "failing"},
           Release(l), async' = async
    PROVE  AsyncOK' /\ (~async \/ eventLoop' = "free" \/ overrun)
<1>1. AsyncOK
  BY Disassembled
<1>2. AsyncOK'
  BY <1>1 DEF AsyncOK, Release
<1>3. ~async \/ eventLoop = l \/ overrun
  BY EventLoopOf DEF Busy
<1> QED
  BY <1>2, <1>3 DEF Release

LEMMA ReportInv ==
    ASSUME ControlInv, NEW l \in Loop, pc[l] \in {"completing", "failing"},
           NEW where \in {"done", "waiting", "failed"}, Report(l, where)
    PROVE  ControlInv'
<1>1. /\ place' = [place EXCEPT ![holds[l][1]] = where]
      /\ holds' = [holds EXCEPT ![l] = NULL]
      /\ Release(l) /\ Goto(l, "looping")
      /\ UNCHANGED callerVars /\ UNCHANGED executorVars /\ async' = async
      /\ tries' = tries /\ outcome' = outcome /\ taken' = taken
  BY DEF Report
<1>2. AsyncOK' /\ (~async \/ eventLoop' = "free" \/ overrun)
  BY <1>1, Released
<1>3. pc[l] \in Busy /\ where \in Places \ {"taken"} /\ where # "dropped"
  BY DEF Busy, Places
<1> QED
  BY <1>1, <1>2, <1>3, LetGo

LEMMA CompleteFailInv ==
    ASSUME ControlInv, NEW l \in Loop, Complete(l) \/ Fail(l)
    PROVE  ControlInv'
<1>1. CASE Complete(l)
  <2>1. pc[l] \in {"completing", "failing"} /\ Report(l, "done")
    BY <1>1 DEF Complete
  <2> QED
    BY <2>1, ReportInv
<1>2. CASE Fail(l)
  <2>1. pc[l] = "failing" /\ Report(l, GiveBack(holds[l][1]))
    BY <1>2 DEF Fail
  <2>2. GiveBack(holds[l][1]) \in {"done", "waiting", "failed"}
    BY <2>1, HeldTyped, GaveBack DEF Busy
  <2> QED
    BY <2>1, <2>2, ReportInv
<1> QED
  BY <1>1, <1>2

LEMMA FailRaisesInv ==
    ASSUME ControlInv, NEW l \in Loop, FailRaises(l) PROVE ControlInv'
<1>1. /\ pc[l] = "failing" /\ Goto(l, AtEnd)
      /\ place' = [place EXCEPT ![holds[l][1]] = "stranded"]
      /\ holds' = [holds EXCEPT ![l] = NULL] /\ Release(l)
      /\ UNCHANGED callerVars /\ UNCHANGED executorVars /\ async' = async
      /\ tries' = tries /\ outcome' = outcome /\ taken' = taken
  BY DEF FailRaises
<1>2. AsyncOK'
  BY <1>1, Released
<1>3. pc[l] \in Busy /\ "stranded" \in Places \ {"taken"}
  BY <1>1 DEF Busy, Places
<1>4. PICK s \in {"leaving", "dead"} : Goto(l, s)
  BY <1>1, Onwards
<1> QED
  BY <1>1, <1>2, <1>3, <1>4, LetGo

----------------------------------------------------------------------------
(* The thread of the executor, and the queue *)

\* Neither the caller nor a loop does anything.
LEMMA LoopsRest ==
    ASSUME ControlInv, UNCHANGED callerVars, UNCHANGED asyncVars,
           UNCHANGED <<pc, taken>>
    PROVE  CallerOK' /\ AsyncOK' /\ Ordered'
<1>1. CallerOK /\ AsyncOK /\ Ordered
  BY Disassembled
<1>2. CallerOK' /\ AsyncOK'
  BY <1>1, Kept
<1>3. OneAtWork'
  BY <1>1 DEF Ordered, OneAtWork, Alive, callerVars
<1>4. EventLoopOwned'
  BY <1>1 DEF Ordered, EventLoopOwned, callerVars, asyncVars
<1>5. StopSeen'
  BY <1>1 DEF Ordered, StopSeen, callerVars
<1> QED
  BY <1>2, <1>3, <1>4, <1>5 DEF Ordered

LEMMA ExecutorMoves ==
    ASSUME ControlInv, UNCHANGED callerVars, UNCHANGED asyncVars,
           UNCHANGED jobVars, pc' = pc, holds' = holds, taken' = taken,
           ExecutorOK', outcome' \in [Delivery -> Outcomes]
    PROVE  ControlInv'
<1>1. /\ JobsOK /\ LoopsOK /\ Owned /\ TakenHeld /\ DroppedByOverrun
  BY Disassembled
<1>2. JobsOK' /\ LoopsOK'
  BY <1>1, Kept DEF LoopsOK
<1>3. Owned' /\ TakenHeld' /\ DroppedByOverrun'
  <2>1. overrun => overrun'
    BY DEF callerVars
  <2> QED
    BY <1>1, <2>1, SameJobs
<1> QED
  BY <1>2, <1>3, LoopsRest, Assembled

LEMMA BeginNextInv ==
    ASSUME ControlInv, BeginNext PROVE ControlInv'
<1>1. ExecutorOK /\ LoopsOK
  BY Disassembled
<1>2. /\ backlog # <<>> /\ running' = Head(backlog) /\ backlog' = Tail(backlog)
      /\ outcome' = [outcome EXCEPT ![running'] = "begun"]
      /\ UNCHANGED callerVars /\ executor' = executor /\ UNCHANGED asyncVars
      /\ UNCHANGED jobVars /\ pc' = pc /\ holds' = holds /\ taken' = taken
  BY DEF BeginNext
<1>3. running' \in Delivery /\ backlog' \in Seq(Delivery)
  <2>1. backlog \in Seq(Delivery)
    BY <1>1 DEF ExecutorOK
  <2> QED
    BY <1>2, <2>1, HeadTailProperties
<1>4. ExecutorOK'
  BY <1>1, <1>2, <1>3 DEF ExecutorOK
<1>5. outcome' \in [Delivery -> Outcomes]
  BY <1>1, <1>2, <1>3, OutcomeSet DEF Outcomes
<1> QED
  BY <1>2, <1>4, <1>5, ExecutorMoves

LEMMA EndRunningInv ==
    ASSUME ControlInv, EndRunning PROVE ControlInv'
<1>1. ExecutorOK /\ LoopsOK
  BY Disassembled
<1>2. /\ running # NULL /\ running' = NULL /\ backlog' = backlog
      /\ UNCHANGED callerVars /\ executor' = executor /\ UNCHANGED asyncVars
      /\ UNCHANGED jobVars /\ pc' = pc /\ holds' = holds /\ taken' = taken
  BY DEF EndRunning
<1>3. PICK how \in {"returned", "raised"} :
        outcome' = [outcome EXCEPT ![running] = how]
  BY DEF EndRunning
<1>4. ExecutorOK'
  BY <1>1, <1>2 DEF ExecutorOK
<1>5. outcome' \in [Delivery -> Outcomes]
  <2>1. running \in Delivery /\ how \in Outcomes
    BY <1>1, <1>2 DEF ExecutorOK, Outcomes
  <2> QED
    BY <1>1, <1>3, <2>1, OutcomeSet
<1> QED
  BY <1>2, <1>4, <1>5, ExecutorMoves

\* A recovered job is on nobody's hands.
LEMMA RecoverInv ==
    ASSUME ControlInv, NEW j \in Job, Recover(j) PROVE ControlInv'
<1>1. /\ ExecutorOK /\ JobsOK /\ LoopsOK
      /\ Owned /\ TakenHeld /\ DroppedByOverrun
  BY Disassembled
<1>2. /\ place[j] \in {"stranded", "dropped"}
      /\ place' = [place EXCEPT ![j] = GiveBack(j)]
      /\ UNCHANGED callerVars /\ UNCHANGED executorVars /\ UNCHANGED asyncVars
      /\ tries' = tries /\ pc' = pc /\ holds' = holds /\ outcome' = outcome
      /\ taken' = taken
  BY DEF Recover
<1>3. /\ place'[j] \in {"waiting", "failed"} /\ JobsOK'
      /\ \A i \in Job \ {j} : place'[i] = place[i]
  BY <1>1, <1>2, GaveBack DEF JobsOK, Places
<1>4. ExecutorOK' /\ LoopsOK'
  BY <1>1, <1>2, Kept DEF LoopsOK
<1>5. OwnsItsJob'
  <2> SUFFICES ASSUME NEW l \in Loop
               PROVE  /\ holds'[l] # NULL <=> pc'[l] \in Busy
                      /\ holds'[l] # NULL => /\ place'[holds'[l][1]] = "taken"
                                             /\ holds'[l][2] = tries'[holds'[l][1]]
    BY DEF OwnsItsJob
  <2>1. holds[l] # NULL => holds[l][1] \in Job \ {j}
    <3>1. holds[l] # NULL => holds[l] \in Delivery /\ place[holds[l][1]] = "taken"
      BY <1>1 DEF LoopsOK, Owned, OwnsItsJob
    <3> QED
      BY <1>2, <3>1, DeliveryTyped
  <2> QED
    BY <1>1, <1>2, <1>3, <2>1 DEF Owned, OwnsItsJob
<1>6. HeldByOne'
  BY <1>1, <1>2 DEF Owned, HeldByOne
<1>7. TakenHeld' /\ DroppedByOverrun'
  BY <1>1, <1>2, <1>3 DEF TakenHeld, DroppedByOverrun, callerVars
<1> QED
  BY <1>2, <1>3, <1>4, <1>5, <1>6, <1>7, LoopsRest, Assembled DEF Owned

----------------------------------------------------------------------------
(* The invariant *)

LEMMA ControlInvInit ==
    ASSUME ControlInit PROVE ControlInv
<1>1. ControlTypeOK
  <2>1. place \in [Job -> Places] /\ tries \in [Job -> 0 .. MaxTries]
    BY ControlAssumption DEF ControlInit, Places
  <2>2. backlog \in Seq(Delivery)
    BY DEF ControlInit
  <2>3. /\ pc \in [Loop -> Stages] /\ holds \in [Loop -> Delivery \cup {NULL}]
        /\ outcome \in [Delivery -> Outcomes] /\ taken \in [Loop -> Nat]
    BY DEF ControlInit, Stages, Outcomes
  <2> QED
    BY <2>1, <2>2, <2>3, TypeParts
       DEF ControlInit, CallerOK, States, ExecutorOK, AsyncOK, JobsOK, LoopsOK
<1>2. \A l \in Loop : pc[l] = "unborn" /\ holds[l] = NULL /\ taken[l] = 0
  BY DEF ControlInit
<1>3. OwnsItsJob /\ HeldByOne
  BY <1>2 DEF OwnsItsJob, HeldByOne, Busy
<1>4. NoJobForgotten
  BY DEF ControlInit, NoJobForgotten
<1>5. OneAtWork /\ EventLoopOwned /\ StopSeen
  BY <1>2 DEF OneAtWork, EventLoopOwned, StopSeen, Alive, Busy
<1> QED
  BY <1>1, <1>3, <1>4, <1>5 DEF ControlInv

LEMMA LoopInv ==
    ASSUME ControlInv, NEW l \in Loop, Step(l) PROVE ControlInv'
<1>1. CASE Run(l)
  BY <1>1, RunInv
<1>2. CASE LookAtEvent(l)
  BY <1>2, LookAtEventInv
<1>3. CASE \E j \in Job : PopJob(l, j)
  BY <1>3, PopJobInv
<1>4. CASE PopNothing(l)
  BY <1>4, PopNothingInv
<1>5. CASE Submit(l)
  BY <1>5, SubmitInv
<1>6. CASE Call(l)
  BY <1>6, CallInv
<1>7. CASE SeeOutcome(l) \/ TimeOut(l) \/ CompleteRaises(l)
  BY <1>7, VerdictInv
<1>8. CASE Await(l)
  BY <1>8, AwaitInv
<1>9. CASE Abandon(l)
  BY <1>9, AbandonInv
<1>10. CASE CloseEventLoop(l)
  BY <1>10, CloseEventLoopInv
<1>11. CASE Complete(l) \/ Fail(l)
  BY <1>11, CompleteFailInv
<1>12. CASE FailRaises(l)
  BY <1>12, FailRaisesInv
<1> QED
  BY <1>1, <1>2, <1>3, <1>4, <1>5, <1>6, <1>7, <1>8, <1>9, <1>10, <1>11, <1>12
     DEF Step

LEMMA ControlInvStep ==
    ASSUME ControlInv, [ControlNext]_controlVars PROVE ControlInv'
<1>1. CASE \E l \in Loop : Start(l) \/ Step(l) \/ Return(l)
  BY <1>1, StartInv, LoopInv, ReturnInv
<1>2. CASE Stop
  BY <1>2, StopInv
<1>3. CASE Joined
  BY <1>3, JoinedInv
<1>4. CASE BeginNext
  BY <1>4, BeginNextInv
<1>5. CASE EndRunning
  BY <1>5, EndRunningInv
<1>6. CASE \E j \in Job : Recover(j)
  BY <1>6, RecoverInv
<1>7. CASE UNCHANGED controlVars
  <2>1. /\ UNCHANGED callerVars /\ UNCHANGED executorVars /\ UNCHANGED asyncVars
        /\ UNCHANGED jobVars /\ UNCHANGED <<pc, holds, outcome, taken>>
    BY <1>7 DEF controlVars
  <2>2. ExecutorOK' /\ outcome' \in [Delivery -> Outcomes]
    BY <2>1, Disassembled, Kept DEF LoopsOK
  <2> QED
    BY <2>1, <2>2, ExecutorMoves
<1> QED
  BY <1>1, <1>2, <1>3, <1>4, <1>5, <1>6, <1>7 DEF ControlNext

\* The invariant of a worker: types, which loop has which job, that no job is
\* forgotten, that one loop is at work until a stop() times out and has the
\* event loop to itself, and how the stop event is seen.
THEOREM ControlCorrect == ControlSpec => []ControlInv
<1> QED
  BY ControlInvInit, ControlInvStep, PTL DEF ControlSpec

\* However start() and stop() are called, a worker has one loop, unless a
\* stop() timed out.
THEOREM OneLoopCorrect == ControlSpec => []OneLoop
<1>1. ControlInv => OneLoop
  <2> SUFFICES ASSUME ControlInv, ~overrun PROVE Cardinality(Alive) <= 1
    BY DEF OneLoop
  <2>1. Alive \subseteq {thread}
    BY DEF ControlInv, OneAtWork
  <2>2. Alive = {} \/ Alive = {thread}
    BY <2>1
  <2>3. Cardinality({}) = 0 /\ Cardinality({thread}) = 1
    BY FS_EmptySet, FS_Singleton
  <2> QED
    BY <2>2, <2>3
<1> QED
  BY <1>1, ControlCorrect, PTL

\* stop() lets a loop take the one job it was about to pop, and no other.
THEOREM StopHeededCorrect == ControlSpec => []StopHeeded
<1>1. ControlInv => StopHeeded
  BY DEF ControlInv, StopSeen, StopHeeded
<1> QED
  BY <1>1, ControlCorrect, PTL

\* A job that was given out is on the hands of a live loop, or was dropped by
\* loops that overlap after a stop() that timed out.
THEOREM ForgetsNothing == ControlSpec => []NoJobForgotten
<1>1. ControlInv => NoJobForgotten
  BY DEF ControlInv
<1> QED
  BY <1>1, ControlCorrect, PTL


=============================================================================
