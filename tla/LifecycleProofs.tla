-------------------------- MODULE LifecycleProofs --------------------------
(* Theorems about JobLifecycle and QueueEvents, for every value of their    *)
(* constants, on top of the theorems about ShardRepository.                 *)
EXTENDS QueueEvents, ShardRepositoryProofs, FiniteSetTheorems

----------------------------------------------------------------------------
(* The steps of the workers are steps of the shard *)

\* The constants of JobLifecycle.
LEMMA WorkersAreThreads ==
    ASSUME NEW t \in Worker
    PROVE  t \in Thread /\ WorkerOf[t] \in WorkerId
  BY WorkerAssumption

\* What a worker has in the shard and on its hands, one worker at a time.
LEMMA AtWork ==
    ASSUME RepoInv, LifeTypeOK, InShard, NEW t \in Worker
    PROVE  /\ t \in Thread /\ call[t] \in Call
           /\ held[t] \in Holding \cup {NULL}
           /\ held[t] # NULL => /\ held[t] \in Holding
                                /\ held[t].job \in JobId /\ held[t].job < nextId
           /\ call[t].op = "pop" <=> pc[t] = "popping"
           /\ call[t].op \in {"reschedule", "exhausted", "move"} <=> pc[t] = "failing"
           /\ call[t].op = "heartbeat" => pc[t] = "beating"
           /\ call[t].op # "recover"
           /\ held[t] # NULL <=> pc[t] \in {"processing", "failing"}
           /\ pc[t] = "failing" => call[t].job = held[t].job
<1>1. t \in Thread
  BY WorkersAreThreads
<1>2. call[t] \in Call /\ held[t] \in Holding \cup {NULL}
  BY <1>1 DEF RepoInv, TypeOK, LifeTypeOK
<1>3. held[t] # NULL => held[t] \in Holding /\ held[t].job \in JobId
  BY <1>2 DEF Holding
<1> QED
  BY <1>1, <1>2, <1>3 DEF InShard

\* What one step of JobLifecycle is, a worker or the operator at a time.
LEMMA LifeCases ==
    ASSUME LifeNext
    PROVE  \/ (Enqueue \/ Tick) /\ UNCHANGED <<pc, held, rescues, orphaned>>
           \/ Operate
           \/ \E t \in Worker :
                 \/ Poll(t) \/ FindNothing(t) \/ Succeed(t) \/ GiveUp(t)
                 \/ Settle(t) \/ Die(t) \/ Restart(t) \/ Beat(t) \/ SkipBeat(t)
                 \/ \E j \in JobId : Take(t, j)
                 \/ \E permanent \in BOOLEAN : Raise(t, permanent)
  BY Zenon DEF LifeNext

\* A thread breaks off what it is doing in the shard.
LEMMA BreakOff ==
    ASSUME TypeOK, NEW t \in Thread, call[t].op # "none" \/ call[t] = NoCall,
           Return(t), UNCHANGED <<fila, nextId, dlq, processed, failed, clock>>
    PROVE  [RepoNext]_repoVars
<1>1. call[t] \in Call /\ call \in [Thread -> Call]
  BY DEF TypeOK
<1>2. CASE call[t] = NoCall
  BY <1>1, <1>2 DEF Return, repoVars
<1>3. CASE call[t].op = "pop"
  BY <1>3, Zenon DEF PopError, RepoNext
<1>4. CASE call[t].op \in {"heartbeat", "recover"}
  BY <1>4, Zenon DEF UpdateError, RepoNext
<1>5. CASE call[t].op \in {"reschedule", "exhausted", "move"}
  BY <1>5, Zenon DEF FailError, RepoNext
<1> QED
  BY <1>1, <1>2, <1>3, <1>4, <1>5, CallTyped

LEMMA NoneIsNoCall ==
    ASSUME NEW c \in Call, c.op = "none" PROVE c = NoCall
  BY DEF Call, NoCall

LEMMA WorkerInShard ==
    ASSUME RepoInv, LifeTypeOK, InShard, NEW t \in Worker,
           \/ Poll(t) \/ FindNothing(t) \/ Succeed(t) \/ GiveUp(t)
           \/ Settle(t) \/ Die(t) \/ Restart(t) \/ Beat(t) \/ SkipBeat(t)
           \/ \E j \in JobId : Take(t, j)
           \/ \E permanent \in BOOLEAN : Raise(t, permanent)
    PROVE  [RepoNext]_repoVars
<1>1. /\ t \in Thread /\ TypeOK /\ WorkerOf[t] \in WorkerId /\ call[t] \in Call
      /\ pc[t] \in {"processing", "failing"} =>
            held[t].job \in JobId /\ held[t].job < nextId
  BY AtWork, WorkersAreThreads DEF RepoInv
<1>2. CASE Poll(t)
  BY <1>1, <1>2, Zenon DEF Poll, RepoNext
<1>3. CASE FindNothing(t)
  BY <1>1, <1>3, Zenon DEF FindNothing, RepoNext
<1>4. CASE Succeed(t)
  BY <1>1, <1>4, Zenon DEF Succeed, RepoNext
<1>5. CASE GiveUp(t)
  BY <1>1, <1>5, Zenon DEF GiveUp, RepoNext
<1>6. CASE Settle(t)
  BY <1>1, <1>6, Zenon DEF Settle, RepoNext
<1>7. CASE Die(t) \/ SkipBeat(t)
  <2>1. /\ Return(t)
        /\ UNCHANGED <<fila, nextId, dlq, processed, failed, clock>>
    BY <1>7 DEF Die, SkipBeat
  <2> QED
    BY <1>1, <2>1, NoneIsNoCall, BreakOff
<1>8. CASE Restart(t)
  BY <1>8 DEF Restart
<1>9. CASE Beat(t)
  BY <1>1, <1>9, Zenon DEF Beat, RepoNext
<1>10. ASSUME NEW j \in JobId, Take(t, j) PROVE [RepoNext]_repoVars
  BY <1>1, <1>10, Zenon DEF Take, RepoNext
<1>11. ASSUME NEW permanent \in BOOLEAN, Raise(t, permanent)
       PROVE  [RepoNext]_repoVars
  BY <1>1, <1>11, Zenon DEF Raise, RepoNext
<1> QED
  BY <1>2, <1>3, <1>4, <1>5, <1>6, <1>7, <1>8, <1>9, <1>10, <1>11

LEMMA LifeIsRepo ==
    ASSUME RepoInv, LifeTypeOK, InShard, [LifeNext]_lifeVars
    PROVE  [RepoNext]_repoVars
<1>1. CASE (Enqueue \/ Tick) /\ UNCHANGED <<pc, held, rescues, orphaned>>
  BY <1>1, Zenon DEF RepoNext
<1>2. CASE Operate
  <2>1. CASE Maintenance
    BY <2>1, Zenon DEF RepoNext
  <2>2. ASSUME NEW t \in Thread, BeginRecover(t) \/ RecoverOrphans(t)
        PROVE  RepoNext
    BY <2>2, Zenon DEF RepoNext
  <2> QED
    BY <1>2, <2>1, <2>2 DEF Operate
<1>3. CASE UNCHANGED lifeVars
  BY <1>3 DEF lifeVars, repoVars
<1> QED
  BY <1>1, <1>2, <1>3, LifeCases, WorkerInShard

----------------------------------------------------------------------------
(* Types, and where the workers are *)

\* InShard for one worker.
Placed(t) ==
    /\ call[t].op = "pop" <=> pc[t] = "popping"
    /\ call[t].op \in {"reschedule", "exhausted", "move"} <=> pc[t] = "failing"
    /\ call[t].op = "heartbeat" => pc[t] = "beating"
    /\ call[t].op # "recover"
    /\ held[t] # NULL <=> pc[t] \in {"processing", "failing"}
    /\ pc[t] = "failing" => call[t].job = held[t].job
    /\ held[t] # NULL => held[t].job < nextId

\* A worker that does nothing stays in its place.
LEMMA StaysPlaced ==
    ASSUME LifeTypeOK, InShard, LifeTypeOK', nextId <= nextId',
           NEW u \in Worker,
           pc'[u] = pc[u], held'[u] = held[u], call'[u] = call[u]
    PROVE  Placed(u)'
<1>1. nextId \in Nat /\ nextId' \in Nat
  BY ConstantsAssumption DEF LifeTypeOK, TypeOK
<1>2. Placed(u)
  BY DEF InShard, Placed
<1>3. held[u] # NULL => held[u].job \in Nat
  BY DEF LifeTypeOK, Holding, JobId
<1>4. held'[u] # NULL => held'[u].job < nextId'
  BY <1>1, <1>2, <1>3 DEF Placed
<1>5. /\ call'[u].op = "pop" <=> pc'[u] = "popping"
      /\ call'[u].op \in {"reschedule", "exhausted", "move"} <=> pc'[u] = "failing"
      /\ call'[u].op = "heartbeat" => pc'[u] = "beating"
      /\ call'[u].op # "recover"
      /\ held'[u] # NULL <=> pc'[u] \in {"processing", "failing"}
      /\ pc'[u] = "failing" => call'[u].job = held'[u].job
  BY <1>2 DEF Placed
<1> QED
  BY <1>4, <1>5 DEF Placed

LEMMA OthersStay ==
    ASSUME LifeTypeOK, InShard, LifeTypeOK', nextId <= nextId',
           NEW t \in Worker, Placed(t)',
           \A u \in Worker \ {t} : /\ pc'[u] = pc[u] /\ held'[u] = held[u]
                                   /\ call'[u] = call[u]
    PROVE  InShard'
<1>1. ASSUME NEW u \in Worker \ {t} PROVE Placed(u)'
  BY StaysPlaced
<1>2. ASSUME NEW u \in Worker
      PROVE  /\ call'[u].op = "pop" <=> pc'[u] = "popping"
             /\ call'[u].op \in {"reschedule", "exhausted", "move"} <=>
                   pc'[u] = "failing"
             /\ call'[u].op = "heartbeat" => pc'[u] = "beating"
             /\ call'[u].op # "recover"
             /\ held'[u] # NULL <=> pc'[u] \in {"processing", "failing"}
             /\ pc'[u] = "failing" => call'[u].job = held'[u].job
             /\ held'[u] # NULL => held'[u].job < nextId'
  <2>1. CASE u = t
    BY <2>1, Zenon DEF Placed
  <2>2. CASE u # t
    <3>1. Placed(u)'
      BY <1>1, <2>2
    <3> QED
      BY <3>1 DEF Placed
  <2> QED
    BY <2>1, <2>2
<1> QED
  BY <1>2 DEF InShard

\* What a thread does in the shard for others to see.
LEMMA CallMoves ==
    ASSUME TypeOK, NEW t \in Thread, NEW c, call' = [call EXCEPT ![t] = c]
    PROVE  call'[t] = c /\ \A u \in Thread \ {t} : call'[u] = call[u]
  BY DEF TypeOK

LEMMA PcMoves ==
    ASSUME LifeTypeOK, NEW t \in Worker, NEW stage \in Stage, Goto(t, stage)
    PROVE  /\ pc' \in [Worker -> Stage] /\ pc'[t] = stage
           /\ \A u \in Worker \ {t} : pc'[u] = pc[u]
  BY DEF LifeTypeOK, Goto

LEMMA HeldMoves ==
    ASSUME LifeTypeOK, NEW t \in Worker, NEW h \in Holding \cup {NULL},
           held' = [held EXCEPT ![t] = h]
    PROVE  /\ held' \in [Worker -> Holding \cup {NULL}] /\ held'[t] = h
           /\ \A u \in Worker \ {t} : held'[u] = held[u]
  BY DEF LifeTypeOK

\* A worker moves to a stage, with this in the shard and that on its hands.
LEMMA Moves ==
    ASSUME LifeTypeOK, InShard, TypeOK', nextId' = nextId, rescues' = rescues,
           orphaned' \subseteq JobId,
           NEW t \in Worker, NEW stage \in Stage, Goto(t, stage),
           NEW c \in Call, call' = [call EXCEPT ![t] = c],
           NEW h \in Holding \cup {NULL}, held' = [held EXCEPT ![t] = h],
           c.op = "pop" <=> stage = "popping",
           c.op \in {"reschedule", "exhausted", "move"} <=> stage = "failing",
           c.op = "heartbeat" => stage = "beating",
           c.op # "recover",
           h # NULL <=> stage \in {"processing", "failing"},
           stage = "failing" => c.job = h.job,
           h # NULL => h.job < nextId
    PROVE  LifeTypeOK' /\ InShard'
<1>1. TypeOK /\ t \in Thread /\ Worker \subseteq Thread
  BY WorkerAssumption DEF LifeTypeOK
<1>2. /\ pc' \in [Worker -> Stage] /\ pc'[t] = stage
      /\ \A u \in Worker \ {t} : pc'[u] = pc[u]
  BY PcMoves
<1>3. /\ held' \in [Worker -> Holding \cup {NULL}] /\ held'[t] = h
      /\ \A u \in Worker \ {t} : held'[u] = held[u]
  BY HeldMoves
<1>4. call'[t] = c /\ \A u \in Worker \ {t} : call'[u] = call[u]
  BY <1>1, CallMoves
<1>5. LifeTypeOK'
  BY <1>2, <1>3 DEF LifeTypeOK
<1>6. Placed(t)'
  BY <1>2, <1>3, <1>4 DEF Placed
<1>7. nextId <= nextId'
  BY ConstantsAssumption DEF LifeTypeOK, TypeOK
<1> QED
  BY <1>2, <1>3, <1>4, <1>5, <1>6, <1>7, OthersStay

\* It has no job and nothing in the shard.
LEMMA AtRest ==
    ASSUME LifeTypeOK, InShard, TypeOK', nextId' = nextId, rescues' = rescues,
           orphaned' \subseteq JobId, NEW t \in Worker,
           NEW stage \in {"polling", "beating", "dead"}, Goto(t, stage),
           call' = [call EXCEPT ![t] = NoCall],
           held' = [held EXCEPT ![t] = NULL]
    PROVE  LifeTypeOK' /\ InShard'
<1>1. NoCall \in Call /\ NoCall.op = "none" /\ stage \in Stage
  BY DEF NoCall, Call, Stage
<1> QED
  BY <1>1, Moves
\* What does not change for lack of an EXCEPT.
LEMMA AsItWas ==
    ASSUME LifeTypeOK, NEW t \in Worker
    PROVE  /\ held = [held EXCEPT ![t] = held[t]]
           /\ call = [call EXCEPT ![t] = call[t]]
           /\ pc = [pc EXCEPT ![t] = pc[t]]
           /\ t \in Thread /\ call[t] \in Call
           /\ held[t] \in Holding \cup {NULL} /\ pc[t] \in Stage
<1>1. t \in Thread /\ call \in [Thread -> Call]
  BY WorkersAreThreads DEF LifeTypeOK, TypeOK
<1> QED
  BY <1>1 DEF LifeTypeOK

LEMMA PollPlaced ==
    ASSUME LifeTypeOK, InShard, TypeOK', NEW t \in Worker, Poll(t)
    PROVE  LifeTypeOK' /\ InShard'
<1>1. /\ pc[t] = "polling" /\ Goto(t, "popping") /\ held' = held
      /\ nextId' = nextId /\ rescues' = rescues /\ orphaned' = orphaned
  BY DEF Poll, BeginPop
<1> DEFINE c == [op |-> "pop", worker |-> WorkerOf[t], stamp |-> clock]
<1>2. call' = [call EXCEPT ![t] = c] /\ c.op = "pop"
  BY DEF Poll, BeginPop
<1>3. c \in Call
  BY WorkersAreThreads DEF Call, LifeTypeOK, TypeOK
<1>4. held[t] = NULL
  BY <1>1 DEF InShard
<1>5. "popping" \in Stage /\ orphaned' \subseteq JobId
  BY <1>1 DEF Stage, LifeTypeOK
<1> HIDE DEF c
<1> QED
  BY <1>1, <1>2, <1>3, <1>4, <1>5, AsItWas, Moves

LEMMA TakePlaced ==
    ASSUME LifeTypeOK, IdsAhead, InShard, TypeOK', NEW t \in Worker,
           NEW j \in JobId, Take(t, j)
    PROVE  LifeTypeOK' /\ InShard'
<1>1. /\ Goto(t, "processing") /\ held' = [held EXCEPT ![t] = JobOf(j, fila[j])]
      /\ call' = [call EXCEPT ![t] = NoCall]
      /\ nextId' = nextId /\ rescues' = rescues /\ orphaned' = orphaned
      /\ fila[j].status = "pending"
  BY DEF Take, ClaimJob, Return, IsNext, Due
<1>2. j < nextId
  <2>1. j \in Nat /\ nextId \in Nat
    BY ConstantsAssumption DEF LifeTypeOK, TypeOK, JobId
  <2> QED
    BY <1>1, <2>1 DEF IdsAhead, Present
<1>3. JobOf(j, fila[j]) \in Holding /\ JobOf(j, fila[j]).job = j
  <2>1. fila[j] \in Row
    BY DEF LifeTypeOK, TypeOK
  <2>2. fila[j].tentativas \in Nat /\ fila[j].max_tentativas \in Nat
    BY <2>1 DEF Row
  <2> QED
    BY <2>2 DEF JobOf, Holding
<1>4. JobOf(j, fila[j]) # NULL
  BY <1>3, WorkerAssumption
<1>5. NoCall \in Call /\ NoCall.op = "none" /\ "processing" \in Stage
  BY DEF NoCall, Call, Stage
<1>6. orphaned' \subseteq JobId
  BY <1>1 DEF LifeTypeOK
<1> QED
  BY <1>1, <1>2, <1>3, <1>4, <1>5, <1>6, Moves

\* The steps that end with the worker at rest.
LEMMA RestPlaced ==
    ASSUME LifeTypeOK, InShard, TypeOK', NEW t \in Worker,
           FindNothing(t) \/ Succeed(t) \/ Settle(t) \/ Die(t) \/ Restart(t)
             \/ SkipBeat(t)
    PROVE  LifeTypeOK' /\ InShard'
<1>1. PICK stage \in {"polling", "beating", "dead"} : Goto(t, stage)
  BY DEF FindNothing, Succeed, Settle, Die, Restart, SkipBeat
<1>2. nextId' = nextId /\ rescues' = rescues
  BY DEF FindNothing, PopNothing, PopError, Succeed, CompleteJob, Settle,
         MoveToDeadLetter, ScheduleRetry, Die, Restart, repoVars, SkipBeat
<1>3. orphaned' \subseteq JobId
  <2>1. CASE Die(t)
    <3>1. held[t] # NULL => held[t].job \in JobId
      BY DEF LifeTypeOK, Holding
    <3> QED
      BY <2>1, <3>1 DEF Die, LifeTypeOK
  <2>2. CASE ~Die(t)
    BY <2>2 DEF FindNothing, Succeed, Settle, Restart, SkipBeat, LifeTypeOK
  <2> QED
    BY <2>1, <2>2
<1>4. call' = [call EXCEPT ![t] = NoCall]
  <2>1. CASE Restart(t)
    <3>1. call[t] = NoCall
      <4>1. call[t].op = "none"
        BY <2>1, AsItWas, CallTyped DEF Restart, InShard
      <4> QED
        BY <4>1, AsItWas, NoneIsNoCall
    <3> QED
      BY <2>1, <3>1, AsItWas DEF Restart, repoVars
  <2>2. CASE Succeed(t)
    BY <2>2, AsItWas DEF Succeed, CompleteJob, Idle
  <2>3. CASE ~Restart(t) /\ ~Succeed(t)
    BY <2>3 DEF FindNothing, PopNothing, PopError, Settle, MoveToDeadLetter,
                ScheduleRetry, Die, SkipBeat, Return
  <2> QED
    BY <2>1, <2>2, <2>3
<1>5. held' = [held EXCEPT ![t] = NULL]
  <2>1. CASE FindNothing(t) \/ Restart(t) \/ SkipBeat(t)
    <3>1. held' = held /\ held[t] = NULL
      BY <2>1 DEF FindNothing, Restart, SkipBeat, InShard
    <3> QED
      BY <3>1, AsItWas
  <2>2. CASE Succeed(t) \/ Settle(t) \/ Die(t)
    BY <2>2 DEF Succeed, Settle, Die, Drop
  <2> QED
    BY <2>1, <2>2
<1> QED
  BY <1>1, <1>2, <1>3, <1>4, <1>5, AtRest

LEMMA BeatPlaced ==
    ASSUME LifeTypeOK, InShard, TypeOK', NEW t \in Worker, Beat(t)
    PROVE  LifeTypeOK' /\ InShard'
<1>1. /\ pc[t] = "beating" /\ held' = held /\ rescues' = rescues
      /\ orphaned' = orphaned /\ nextId' = nextId
  BY DEF Beat, BeginHeartbeat, Heartbeat
<1>2. held[t] = NULL /\ orphaned' \subseteq JobId
  BY <1>1 DEF InShard, LifeTypeOK
<1>3. CASE Heartbeat(t) /\ Goto(t, "polling")
  <2>1. held' = [held EXCEPT ![t] = NULL]
    BY <1>1, <1>2, AsItWas
  <2>2. call' = [call EXCEPT ![t] = NoCall]
    BY <1>3 DEF Heartbeat, Return
  <2> QED
    BY <1>1, <1>2, <1>3, <2>1, <2>2, AtRest
<1>4. CASE BeginHeartbeat(t, WorkerOf[t]) /\ UNCHANGED pc
  <2> DEFINE c == [op |-> "heartbeat", worker |-> WorkerOf[t], stamp |-> clock]
  <2>1. call' = [call EXCEPT ![t] = c] /\ c.op = "heartbeat"
    BY <1>4 DEF BeginHeartbeat
  <2>2. c \in Call
    BY WorkersAreThreads DEF Call, LifeTypeOK, TypeOK
  <2>3. Goto(t, "beating") /\ "beating" \in Stage
    BY <1>1, <1>4, AsItWas DEF Goto, Stage
  <2> HIDE DEF c
  <2> QED
    BY <1>1, <1>2, <2>1, <2>2, <2>3, AsItWas, Moves
<1> QED
  BY <1>3, <1>4 DEF Beat

LEMMA GiveUpPlaced ==
    ASSUME LifeTypeOK, InShard, TypeOK', NEW t \in Worker, GiveUp(t)
    PROVE  LifeTypeOK' /\ InShard'
<1>1. /\ pc[t] = "failing" /\ pc' = pc /\ held' = held /\ rescues' = rescues
      /\ orphaned' = orphaned /\ nextId' = nextId /\ call[t].op = "exhausted"
  BY DEF GiveUp, ReadPayload
<1> DEFINE c == [op |-> "move", job |-> call[t].job,
                 present |-> Present(call[t].job)]
<1>2. call' = [call EXCEPT ![t] = c] /\ c.op = "move" /\ c.job = call[t].job
  BY DEF GiveUp, ReadPayload
<1>3. c \in Call
  <2>1. call[t].job \in JobId
    BY <1>1, AsItWas, CallTyped
  <2> QED
    BY <2>1 DEF Call, Present
<1>4. Goto(t, "failing") /\ "failing" \in Stage /\ orphaned' \subseteq JobId
  BY <1>1, AsItWas DEF Goto, Stage, LifeTypeOK
<1>5. held[t] # NULL /\ c.job = held[t].job /\ held[t].job < nextId
  BY <1>1, <1>2 DEF InShard
<1> HIDE DEF c
<1> QED
  BY <1>1, <1>2, <1>3, <1>4, <1>5, AsItWas, Moves

\* What the first SELECT of fail_job makes of the call.
LEMMA FailJobCall ==
    ASSUME TypeOK, NEW t \in Thread, NEW j \in JobId, NEW permanent \in BOOLEAN,
           FailJob(t, j, permanent)
    PROVE  /\ call' = [call EXCEPT ![t] = call'[t]] /\ call'[t] \in Call
           /\ \/ permanent /\ call'[t].op = "move" /\ call'[t].job = j
              \/ ~permanent /\ ~Present(j) /\ call'[t] = NoCall
              \/ /\ ~permanent /\ Present(j) /\ call'[t].job = j
                 /\ call'[t].op = IF Exhausted(fila[j]) THEN "exhausted"
                                  ELSE "reschedule"
<1>1. CASE permanent
  <2> DEFINE c == [op |-> "move", job |-> j, present |-> Present(j)]
  <2>1. c \in Call /\ c.op = "move" /\ c.job = j
    BY DEF Call, Present
  <2>2. call' = [call EXCEPT ![t] = c]
    BY <1>1 DEF FailJob
  <2> HIDE DEF c
  <2>3. call'[t] = c
    BY <2>2, CallMoves
  <2> QED
    BY <1>1, <2>1, <2>2, <2>3
<1>2. CASE ~permanent /\ ~Present(j)
  <2>1. call' = [call EXCEPT ![t] = NoCall]
    BY <1>2 DEF FailJob
  <2>2. call'[t] = NoCall /\ NoCall \in Call
    BY <2>1, CallMoves DEF NoCall, Call
  <2> QED
    BY <1>2, <2>1, <2>2
<1>3. CASE ~permanent /\ Present(j)
  <2> DEFINE o == IF Exhausted(fila[j]) THEN "exhausted" ELSE "reschedule"
             c == [op |-> o, job |-> j]
  <2>1. c \in Call /\ c.op = o /\ c.job = j
    BY DEF Call
  <2>2. call' = [call EXCEPT ![t] = c]
    BY <1>3 DEF FailJob
  <2> HIDE DEF c
  <2>3. call'[t] = c
    BY <2>2, CallMoves
  <2> QED
    BY <1>3, <2>1, <2>2, <2>3
<1> QED
  BY <1>1, <1>2, <1>3

LEMMA RaisePlaced ==
    ASSUME LifeTypeOK, InShard, TypeOK', NEW t \in Worker,
           NEW permanent \in BOOLEAN, Raise(t, permanent)
    PROVE  LifeTypeOK' /\ InShard'
<1>1. /\ pc[t] = "processing" /\ FailJob(t, held[t].job, permanent)
      /\ \/ call'[t] = NoCall /\ Goto(t, "beating") /\ Drop(t)
         \/ call'[t] # NoCall /\ Goto(t, "failing") /\ held' = held
      /\ rescues' = rescues /\ orphaned' = orphaned /\ nextId' = nextId
  BY DEF Raise, FailJob
<1>2. TypeOK /\ t \in Thread /\ orphaned' \subseteq JobId
  BY <1>1, WorkersAreThreads DEF LifeTypeOK
<1>3. held[t] # NULL /\ held[t].job < nextId /\ held[t].job \in JobId
  <2>1. held[t] # NULL /\ held[t].job < nextId
    BY <1>1 DEF InShard
  <2> QED
    BY <2>1 DEF LifeTypeOK, Holding
<1>4. /\ call' = [call EXCEPT ![t] = call'[t]] /\ call'[t] \in Call
      /\ \/ call'[t] = NoCall
         \/ /\ call'[t].op \in {"reschedule", "exhausted", "move"}
            /\ call'[t].job = held[t].job
  BY <1>1, <1>2, <1>3, FailJobCall
<1>5. CASE call'[t] = NoCall
  <2>1. call' = [call EXCEPT ![t] = NoCall]
    BY <1>4, <1>5
  <2>2. Goto(t, "beating") /\ held' = [held EXCEPT ![t] = NULL]
    BY <1>1, <1>5 DEF Drop
  <2> QED
    BY <1>1, <1>2, <2>1, <2>2, AtRest
<1>6. CASE call'[t] # NoCall
  <2>1. Goto(t, "failing") /\ held' = held /\ "failing" \in Stage
    BY <1>1, <1>6 DEF Stage
  <2> QED
    BY <1>1, <1>2, <1>3, <1>4, <1>6, <2>1, AsItWas, Moves
<1> QED
  BY <1>5, <1>6

\* No worker does anything in the shard.
LEMMA WorkersStay ==
    ASSUME LifeTypeOK, InShard, TypeOK', nextId <= nextId',
           UNCHANGED <<pc, held, orphaned>>, rescues' \in [JobId -> Nat],
           \A t \in Worker : call'[t] = call[t]
    PROVE  LifeTypeOK' /\ InShard'
<1>1. LifeTypeOK'
  BY DEF LifeTypeOK
<1>2. ASSUME NEW u \in Worker
      PROVE  /\ call'[u].op = "pop" <=> pc'[u] = "popping"
             /\ call'[u].op \in {"reschedule", "exhausted", "move"} <=>
                   pc'[u] = "failing"
             /\ call'[u].op = "heartbeat" => pc'[u] = "beating"
             /\ call'[u].op # "recover"
             /\ held'[u] # NULL <=> pc'[u] \in {"processing", "failing"}
             /\ pc'[u] = "failing" => call'[u].job = held'[u].job
             /\ held'[u] # NULL => held'[u].job < nextId'
  <2>1. Placed(u)'
    BY <1>1, StaysPlaced
  <2> QED
    BY <2>1 DEF Placed
<1> QED
  BY <1>1, <1>2 DEF InShard

LEMMA MaintenanceCalls ==
    ASSUME Maintenance PROVE call' = call /\ nextId' = nextId /\ clock' = clock
  BY DEF Maintenance, RetryFailedJobs, RetryJob, PurgeJobs, CleanupOldJobs

\* The operator does nothing in the shard in the name of a worker.
LEMMA OperateCalls ==
    ASSUME TypeOK, Operate, NEW t \in Worker
    PROVE  call'[t] = call[t]
<1>1. CASE Maintenance
  BY <1>1, MaintenanceCalls
<1>2. ASSUME NEW u \in Thread \ Worker, BeginRecover(u) \/ RecoverOrphans(u)
      PROVE  call'[t] = call[t]
  <2>1. \E c : call' = [call EXCEPT ![u] = c]
    BY <1>2 DEF BeginRecover, RecoverOrphans, Return
  <2>2. t \in Thread \ {u}
    BY <1>2, WorkersAreThreads
  <2> QED
    BY <2>1, <2>2, CallMoves
<1> QED
  BY <1>1, <1>2 DEF Operate

LEMMA OperatePlaced ==
    ASSUME LifeTypeOK, InShard, TypeOK', Operate
    PROVE  LifeTypeOK' /\ InShard'
<1>1. UNCHANGED <<pc, held, orphaned>> /\ TypeOK
  BY DEF Operate, LifeTypeOK
<1>2. rescues' \in [JobId -> Nat]
  <2>1. \A j \in JobId : rescues[j] \in Nat /\ rescues[j] + 1 \in Nat
    BY DEF LifeTypeOK
  <2> QED
    BY <2>1 DEF Operate
<1>3. nextId' = nextId /\ \A t \in Worker : call'[t] = call[t]
  <2>1. nextId' = nextId
    BY MaintenanceCalls DEF Operate, BeginRecover, RecoverOrphans
  <2> QED
    BY <1>1, <2>1, OperateCalls
<1>4. nextId <= nextId'
  BY <1>1, <1>3, ConstantsAssumption DEF TypeOK
<1> QED
  BY <1>1, <1>2, <1>3, <1>4, WorkersStay

LEMMA EnqueueTickPlaced ==
    ASSUME LifeTypeOK, InShard, TypeOK', nextId <= nextId', Enqueue \/ Tick,
           UNCHANGED <<pc, held, rescues, orphaned>>
    PROVE  LifeTypeOK' /\ InShard'
<1>1. call' = call
  BY DEF Enqueue, InsertJob, InsertJobsBatch, InsertRows, Tick
<1>2. rescues' \in [JobId -> Nat]
  BY DEF LifeTypeOK
<1> QED
  BY <1>1, <1>2, WorkersStay

LEMMA PlacedStep ==
    ASSUME RepoInv, LifeTypeOK, InShard, [LifeNext]_lifeVars
    PROVE  RepoInv' /\ LifeTypeOK' /\ InShard' /\ nextId <= nextId'
<1>1. RepoInv' /\ TypeOK' /\ TypeOK /\ IdsAhead /\ nextId <= nextId'
  BY LifeIsRepo, RepoInvStep, LetterSteps DEF RepoInv
<1>2. CASE UNCHANGED lifeVars
  <2>1. /\ rescues' \in [JobId -> Nat] /\ UNCHANGED <<pc, held, orphaned>>
        /\ call' = call
    BY <1>2 DEF lifeVars, LifeTypeOK
  <2> QED
    BY <1>1, <2>1, WorkersStay
<1>3. CASE LifeNext
  <2>1. CASE (Enqueue \/ Tick) /\ UNCHANGED <<pc, held, rescues, orphaned>>
    BY <1>1, <2>1, EnqueueTickPlaced
  <2>2. CASE Operate
    BY <1>1, <2>2, OperatePlaced
  <2>3. ASSUME NEW t \in Worker, Poll(t) \/ GiveUp(t) \/ Beat(t)
        PROVE  LifeTypeOK' /\ InShard'
    BY <1>1, <2>3, PollPlaced, GiveUpPlaced, BeatPlaced
  <2>4. ASSUME NEW t \in Worker,
               FindNothing(t) \/ Succeed(t) \/ Settle(t) \/ Die(t) \/ Restart(t)
                 \/ SkipBeat(t)
        PROVE  LifeTypeOK' /\ InShard'
    BY <1>1, <2>4, RestPlaced
  <2>5. ASSUME NEW t \in Worker, NEW j \in JobId, Take(t, j)
        PROVE  LifeTypeOK' /\ InShard'
    BY <1>1, <2>5, TakePlaced
  <2>6. ASSUME NEW t \in Worker, NEW permanent \in BOOLEAN, Raise(t, permanent)
        PROVE  LifeTypeOK' /\ InShard'
    BY <1>1, <2>6, RaisePlaced
  <2> QED
    BY <1>1, <1>3, <2>1, <2>2, <2>3, <2>4, <2>5, <2>6, LifeCases
<1> QED
  BY <1>2, <1>3

----------------------------------------------------------------------------
(* What a step does to one job *)

\* The columns that limit attempts.
LEMMA LimitWritten ==
    ASSUME NEW row \in Row
    PROVE  /\ \A p \in Priorities, m \in Retries :
                 NewRow(p, m).max_tentativas = m + 1
           /\ \A w \in WorkerId, stamp \in Nat :
                 Claimed(row, w, stamp).max_tentativas = row.max_tentativas
           /\ \A stamp \in Nat :
                 /\ Requeued(row, stamp).max_tentativas = row.max_tentativas
                 /\ [row EXCEPT !.heartbeat = stamp].max_tentativas =
                       row.max_tentativas
           /\ DeadRow(row).max_tentativas = row.max_tentativas
           /\ \A d \in RetryDelays :
                 Rescheduled(row, d).max_tentativas = row.max_tentativas
<1>1. \A p \in Priorities, m \in Retries : NewRow(p, m).max_tentativas = m + 1
  BY DEF NewRow
<1>2. \A w \in WorkerId, stamp \in Nat :
         Claimed(row, w, stamp).max_tentativas = row.max_tentativas
  BY DEF Claimed, Row
<1>3. \A stamp \in Nat :
         /\ Requeued(row, stamp).max_tentativas = row.max_tentativas
         /\ [row EXCEPT !.heartbeat = stamp].max_tentativas = row.max_tentativas
  BY DEF Requeued, Row
<1>4. DeadRow(row).max_tentativas = row.max_tentativas
  BY DEF DeadRow, Row
<1>5. \A d \in RetryDelays :
         Rescheduled(row, d).max_tentativas = row.max_tentativas
  BY DEF Rescheduled, Row
<1> QED
  BY <1>1, <1>2, <1>3, <1>4, <1>5

\* What a job says of itself but the status stays.
SameCounts(j) ==
    /\ fila'[j].tentativas = fila[j].tentativas
    /\ fila'[j].max_tentativas = fila[j].max_tentativas

\* Nobody gets the job.
NoNewHolder(j) ==
    \A t \in Worker : held'[t] # NULL /\ held'[t].job = j => held'[t] = held[t]

\* Nobody who has the job in processing loses it, but by death.
NoLoss(j) ==
    \A t \in Worker : Holds(t, j) =>
        \/ held'[t] = held[t]
        \/ fila[j].status # "processing"
        \/ j \in orphaned'

Untouched(j) ==
    /\ fila'[j].status = fila[j].status
    /\ SameCounts(j)
    /\ fila[j].status = "absent" => fila'[j] = fila[j]
    /\ rescues'[j] = rescues[j]
    /\ NoNewHolder(j) /\ NoLoss(j)

WasInserted(j) ==
    /\ j >= nextId /\ j < nextId'
    /\ \E p \in Priorities, m \in Retries : fila'[j] = NewRow(p, m)
    /\ rescues'[j] = rescues[j]
    /\ held' = held

WasRemoved(j) ==
    /\ Present(j)
    /\ fila'[j] = AbsentRow
    /\ rescues'[j] = rescues[j]
    /\ NoNewHolder(j)

WasRequeued(j) ==
    /\ fila[j].status \in {"processing", "failed"}
    /\ fila'[j].status = "pending"
    /\ SameCounts(j)
    /\ rescues'[j] = rescues[j] + 1
    /\ held' = held

WasTaken(t, j) ==
    /\ fila[j].status = "pending" /\ fila'[j].status = "processing"
    /\ fila'[j].tentativas = fila[j].tentativas + 1
    /\ fila'[j].max_tentativas = fila[j].max_tentativas
    /\ rescues'[j] = rescues[j]
    /\ held[t] = NULL /\ call'[t] = NoCall
    /\ held' = [held EXCEPT ![t] = JobOf(j, fila[j])]

WasSettled(t, j) ==
    /\ Holds(t, j) /\ Present(j)
    /\ \/ fila'[j].status = "failed"
       \/ fila'[j].status = "pending" /\ call[t].op = "reschedule"
    /\ SameCounts(j)
    /\ rescues'[j] = rescues[j]
    /\ held' = [held EXCEPT ![t] = NULL]

Effect(j) ==
    \/ Untouched(j) \/ WasInserted(j) \/ WasRemoved(j) \/ WasRequeued(j)
    \/ \E t \in Worker : WasTaken(t, j) \/ WasSettled(t, j)

\* No row is written, and jobs are lost by death only.
LEMMA NothingWritten ==
    ASSUME LifeTypeOK, NEW j \in JobId, fila'[j] = fila[j],
           rescues'[j] = rescues[j], NoNewHolder(j), NoLoss(j)
    PROVE  Effect(j)
  BY DEF Effect, Untouched, SameCounts

LEMMA SameHolders ==
    ASSUME held' = held, NEW j
    PROVE  NoNewHolder(j) /\ NoLoss(j)
  BY DEF NoNewHolder, NoLoss

\* A worker drops its job, or has none.
LEMMA Dropped ==
    ASSUME LifeTypeOK, NEW t \in Worker, held' = [held EXCEPT ![t] = NULL],
           NEW j
    PROVE  /\ NoNewHolder(j)
           /\ ~Holds(t, j) \/ fila[j].status # "processing" \/ j \in orphaned' =>
                 NoLoss(j)
<1>1. held'[t] = NULL /\ \A u \in Worker \ {t} : held'[u] = held[u]
  BY DEF LifeTypeOK
<1> QED
  BY <1>1 DEF NoNewHolder, NoLoss

LEMMA TakeEffect ==
    ASSUME LifeTypeOK, InShard, NEW t \in Worker, NEW k \in JobId, Take(t, k),
           NEW j \in JobId
    PROVE  Effect(j)
<1>1. /\ pc[t] = "popping" /\ held' = [held EXCEPT ![t] = JobOf(k, fila[k])]
      /\ fila[k].status = "pending" /\ call[t].op = "pop"
      /\ fila' = [fila EXCEPT ![k] =
                    Claimed(fila[k], call[t].worker, call[t].stamp)]
      /\ rescues' = rescues /\ orphaned' = orphaned
  BY DEF Take, ClaimJob, IsNext, Due
<1>2. fila \in [JobId -> Row] /\ fila[k] \in Row /\ held[t] = NULL
  BY <1>1 DEF LifeTypeOK, TypeOK, InShard
<1>3. call[t].worker \in WorkerId /\ call[t].stamp \in Nat
  BY <1>1, AsItWas, CallTyped
<1>4. CASE j = k
  <2>1. fila'[j] = Claimed(fila[j], call[t].worker, call[t].stamp)
    BY <1>1, <1>2, <1>4
  <2>2. call'[t] = NoCall
    BY AsItWas, CallMoves DEF Take, ClaimJob, Return, LifeTypeOK
  <2>3. WasTaken(t, j)
    BY <1>1, <1>2, <1>3, <1>4, <2>1, <2>2, WrittenFields, LimitWritten
       DEF WasTaken
  <2> QED
    BY <2>3 DEF Effect
<1>5. CASE j # k
  <2>1. fila'[j] = fila[j]
    BY <1>1, <1>2, <1>5
  <2>2. JobOf(k, fila[k]).job = k
    BY DEF JobOf
  <2>3. \A u \in Worker : held'[u] = held[u] \/ (u = t /\ held'[u].job = k)
    BY <1>1, <2>2 DEF LifeTypeOK
  <2>4. NoNewHolder(j) /\ NoLoss(j)
    BY <1>2, <1>5, <2>3 DEF NoNewHolder, NoLoss, Holds
  <2> QED
    BY <1>1, <2>1, <2>4, NothingWritten
<1> QED
  BY <1>4, <1>5

LEMMA SucceedEffect ==
    ASSUME LifeTypeOK, InShard, Blank, NEW t \in Worker, Succeed(t), NEW j \in JobId
    PROVE  Effect(j)
<1>1. /\ pc[t] = "processing" /\ held' = [held EXCEPT ![t] = NULL]
      /\ fila' = [fila EXCEPT ![held[t].job] = AbsentRow]
      /\ rescues' = rescues
  BY DEF Succeed, CompleteJob, Drop
<1>2. fila \in [JobId -> Row] /\ rescues'[j] = rescues[j]
  BY <1>1 DEF LifeTypeOK, TypeOK
<1>3. CASE Holds(t, j) /\ Present(j)
  <2>1. fila'[j] = AbsentRow
    BY <1>1, <1>2, <1>3 DEF Holds
  <2> QED
    BY <1>1, <1>2, <1>3, <2>1, Dropped DEF Effect, WasRemoved
<1>4. CASE Holds(t, j) /\ ~Present(j)
  <2>1. fila'[j] = fila[j] /\ fila[j].status = "absent"
    BY <1>1, <1>2, <1>4 DEF Holds, Present, Blank
  <2>2. fila[j].status # "processing"
    BY <2>1
  <2> QED
    BY <1>1, <1>2, <2>1, <2>2, Dropped, NothingWritten
<1>5. CASE ~Holds(t, j)
  <2>1. held[t] # NULL /\ held[t].job # j
    BY <1>1, <1>5 DEF Holds, InShard
  <2>2. fila'[j] = fila[j]
    BY <1>1, <1>2, <2>1
  <2> QED
    BY <1>1, <1>2, <1>5, <2>2, Dropped, NothingWritten
<1> QED
  BY <1>3, <1>4, <1>5

LEMMA RaiseEffect ==
    ASSUME LifeTypeOK, InShard, NEW t \in Worker, NEW permanent \in BOOLEAN,
           Raise(t, permanent), NEW j \in JobId
    PROVE  Effect(j)
<1>1. /\ pc[t] = "processing" /\ FailJob(t, held[t].job, permanent)
      /\ \/ call'[t] = NoCall /\ Drop(t)
         \/ held' = held
      /\ rescues'[j] = rescues[j] /\ fila'[j] = fila[j]
  BY DEF Raise, FailJob
<1>2. TypeOK /\ t \in Thread /\ held[t].job \in JobId
  BY <1>1, WorkersAreThreads DEF LifeTypeOK, InShard, Holding
<1>3. CASE held' = held
  BY <1>1, <1>3, SameHolders, NothingWritten
<1>4. CASE call'[t] = NoCall /\ Drop(t)
  <2>1. ~Present(held[t].job)
    BY <1>1, <1>2, <1>4, FailJobCall DEF NoCall
  <2>2. ~Holds(t, j) \/ fila[j].status # "processing"
    BY <2>1 DEF Holds, Present
  <2>3. held' = [held EXCEPT ![t] = NULL]
    BY <1>4 DEF Drop
  <2> QED
    BY <1>1, <2>2, <2>3, Dropped, NothingWritten
<1> QED
  BY <1>1, <1>3, <1>4

LEMMA SettleEffect ==
    ASSUME LifeTypeOK, InShard, NEW t \in Worker, Settle(t), NEW j \in JobId
    PROVE  Effect(j)
<1>1. /\ pc[t] = "failing" /\ held' = [held EXCEPT ![t] = NULL]
      /\ rescues'[j] = rescues[j]
      /\ \/ fila' = [fila EXCEPT ![call[t].job] = DeadRow(fila[call[t].job])]
         \/ /\ call[t].op = "reschedule"
            /\ \E d \in RetryDelays :
                  fila' = [fila EXCEPT ![call[t].job] =
                             Rescheduled(fila[call[t].job], d)]
  BY DEF Settle, MoveToDeadLetter, ScheduleRetry, Drop
<1>2. /\ fila \in [JobId -> Row] /\ fila[j] \in Row
      /\ held[t] # NULL /\ call[t].job = held[t].job
  BY <1>1 DEF LifeTypeOK, TypeOK, InShard
<1>3. CASE ~Holds(t, j)
  <2>1. j # call[t].job
    BY <1>2, <1>3 DEF Holds
  <2>2. fila'[j] = fila[j]
    BY <1>1, <1>2, <2>1
  <2> QED
    BY <1>1, <1>3, <2>2, Dropped, NothingWritten
<1>4. CASE Holds(t, j)
  <2>1. \/ fila'[j] = DeadRow(fila[j])
        \/ /\ call[t].op = "reschedule"
           /\ \E d \in RetryDelays : fila'[j] = Rescheduled(fila[j], d)
    BY <1>1, <1>2, <1>4 DEF Holds
  <2>2. CASE Present(j)
    <3>1. WasSettled(t, j)
      BY <1>1, <1>2, <1>4, <2>1, <2>2, WrittenIfPresent, LimitWritten
         DEF WasSettled, Present, SameCounts
    <3> QED
      BY <3>1 DEF Effect
  <2>3. CASE ~Present(j)
    <3>1. fila'[j] = fila[j] /\ fila[j].status # "processing"
      BY <1>2, <2>1, <2>3, WrittenIfPresent DEF Present
    <3> QED
      BY <1>1, <3>1, Dropped, NothingWritten
  <2> QED
    BY <2>2, <2>3
<1> QED
  BY <1>3, <1>4

LEMMA DieEffect ==
    ASSUME LifeTypeOK, NEW t \in Worker, Die(t), NEW j \in JobId
    PROVE  Effect(j)
<1>1. /\ held' = [held EXCEPT ![t] = NULL] /\ rescues'[j] = rescues[j]
      /\ fila'[j] = fila[j]
      /\ ~Holds(t, j) \/ j \in orphaned'
  BY DEF Die, Drop, Holds
<1> QED
  BY <1>1, Dropped, NothingWritten

LEMMA BeatEffect ==
    ASSUME LifeTypeOK, NEW t \in Worker, Beat(t), NEW j \in JobId
    PROVE  Effect(j)
<1>1. held' = held /\ rescues'[j] = rescues[j]
  BY DEF Beat
<1>2. CASE fila'[j] = fila[j]
  BY <1>1, <1>2, SameHolders, NothingWritten
<1>3. CASE Heartbeat(t) /\ fila'[j] # fila[j]
  <2>1. /\ call[t].op = "heartbeat" /\ fila[j].status = "processing"
        /\ fila'[j] = [fila[j] EXCEPT !.heartbeat = call[t].stamp]
    BY <1>3 DEF Heartbeat, UpdateWhere, Signed
  <2>2. call[t].stamp \in Nat /\ fila[j] \in Row
    BY <2>1, AsItWas, CallTyped DEF LifeTypeOK, TypeOK
  <2>3. Untouched(j)
    BY <1>1, <2>1, <2>2, SameHolders, WrittenFields, LimitWritten
       DEF Untouched, SameCounts
  <2> QED
    BY <2>3 DEF Effect
<1> QED
  BY <1>2, <1>3 DEF Beat, BeginHeartbeat

\* The steps of a worker that write no row and leave it what it holds.
LEMMA QuietEffect ==
    ASSUME LifeTypeOK, NEW t \in Worker, NEW j \in JobId,
           Poll(t) \/ FindNothing(t) \/ GiveUp(t) \/ Restart(t) \/ SkipBeat(t)
    PROVE  Effect(j)
<1>1. held' = held /\ rescues'[j] = rescues[j] /\ fila'[j] = fila[j]
  BY DEF Poll, BeginPop, FindNothing, PopNothing, PopError, GiveUp, ReadPayload,
         Restart, repoVars, SkipBeat
<1> QED
  BY <1>1, SameHolders, NothingWritten

\* What the operator does to a row.
LEMMA OperatedRow ==
    ASSUME TypeOK, Operate, NEW j \in JobId
    PROVE  \/ fila'[j] = fila[j]
           \/ Present(j) /\ fila'[j] = AbsentRow
           \/ /\ fila[j].status \in {"processing", "failed"}
              /\ \E stamp \in Nat : fila'[j] = Requeued(fila[j], stamp)
<1>1. fila \in [JobId -> Row] /\ clock \in Nat
  BY DEF TypeOK
<1>2. ASSUME NEW t \in Thread, RecoverOrphans(t)
      PROVE  \/ fila'[j] = fila[j]
             \/ /\ fila[j].status \in {"processing", "failed"}
                /\ \E stamp \in Nat : fila'[j] = Requeued(fila[j], stamp)
  <2>1. call[t].stamp \in Nat
    BY <1>2, CallTyped DEF TypeOK, RecoverOrphans
  <2> QED
    BY <1>2, <2>1 DEF RecoverOrphans, UpdateWhere, Orphan
<1>3. ASSUME RetryFailedJobs \/ \E k \in JobId : RetryJob(k)
      PROVE  \/ fila'[j] = fila[j]
             \/ /\ fila[j].status \in {"processing", "failed"}
                /\ \E stamp \in Nat : fila'[j] = Requeued(fila[j], stamp)
  BY <1>1, <1>3 DEF RetryFailedJobs, RetryJob, UpdateWhere
<1>4. ASSUME NEW statuses \in SUBSET (Status \ {"absent"}), PurgeJobs(statuses)
      PROVE  fila'[j] = fila[j] \/ (Present(j) /\ fila'[j] = AbsentRow)
  BY <1>4 DEF PurgeJobs, UpdateWhere, Present
<1>5. ASSUME NEW days \in RetentionDays, CleanupOldJobs(days)
      PROVE  fila'[j] = fila[j] \/ (Present(j) /\ fila'[j] = AbsentRow)
  BY <1>5 DEF CleanupOldJobs, UpdateWhere, Present
<1>6. CASE Maintenance
  <2>1. \A s \in Status \ {"absent"} : {s} \in SUBSET (Status \ {"absent"})
    OBVIOUS
  <2> QED
    BY <1>3, <1>4, <1>5, <1>6, <2>1 DEF Maintenance
<1>7. ASSUME NEW t \in Thread, BeginRecover(t) PROVE fila'[j] = fila[j]
  BY <1>7 DEF BeginRecover
<1> QED
  BY <1>2, <1>6, <1>7 DEF Operate

LEMMA OperateEffect ==
    ASSUME LifeTypeOK, Operate, NEW j \in JobId
    PROVE  Effect(j)
<1>1. /\ held' = held /\ fila[j] \in Row /\ TypeOK
      /\ rescues'[j] = IF Rescued(j) THEN rescues[j] + 1 ELSE rescues[j]
  BY DEF Operate, LifeTypeOK, TypeOK
<1>2. CASE fila'[j] = fila[j]
  <2>1. ~Rescued(j)
    BY <1>2 DEF Rescued
  <2> QED
    BY <1>1, <1>2, <2>1, SameHolders, NothingWritten
<1>3. CASE Present(j) /\ fila'[j] = AbsentRow
  <2>1. ~Rescued(j)
    BY <1>3 DEF Rescued, AbsentRow
  <2> QED
    BY <1>1, <1>3, <2>1, SameHolders DEF Effect, WasRemoved
<1>4. ASSUME fila[j].status \in {"processing", "failed"}, NEW stamp \in Nat,
             fila'[j] = Requeued(fila[j], stamp)
      PROVE  Effect(j)
  <2>1. fila'[j].status = "pending" /\ SameCounts(j)
    BY <1>1, <1>4, WrittenFields, LimitWritten DEF SameCounts
  <2>2. Rescued(j)
    BY <1>4, <2>1 DEF Rescued
  <2> QED
    BY <1>1, <1>4, <2>1, <2>2 DEF Effect, WasRequeued
<1> QED
  BY <1>1, <1>2, <1>3, <1>4, OperatedRow

LEMMA InsertedRow ==
    ASSUME TypeOK, NEW rows \in Seq(Priorities \X Retries), InsertRows(rows),
           NEW j \in JobId
    PROVE  \/ fila'[j] = fila[j]
           \/ /\ j >= nextId /\ j < nextId'
              /\ \E p \in Priorities, m \in Retries : fila'[j] = NewRow(p, m)
<1>1. Len(rows) \in Nat /\ nextId \in Nat
  BY ConstantsAssumption DEF TypeOK
<1>2. CASE j >= nextId /\ j < nextId + Len(rows)
  <2>1. j - nextId + 1 \in 1 .. Len(rows)
    BY <1>1, <1>2 DEF JobId
  <2>2. rows[j - nextId + 1] \in Priorities \X Retries
    BY <2>1
  <2>3. fila'[j] = NewRow(rows[j - nextId + 1][1], rows[j - nextId + 1][2])
    BY <1>2 DEF InsertRows
  <2> QED
    BY <1>2, <2>2, <2>3 DEF InsertRows
<1>3. CASE ~(j >= nextId /\ j < nextId + Len(rows))
  BY <1>3 DEF InsertRows
<1> QED
  BY <1>2, <1>3

LEMMA EnqueueTickEffect ==
    ASSUME LifeTypeOK, Enqueue \/ Tick,
           UNCHANGED <<pc, held, rescues, orphaned>>, NEW j \in JobId
    PROVE  Effect(j)
<1>1. TypeOK /\ held' = held /\ rescues'[j] = rescues[j]
  BY DEF LifeTypeOK
<1>2. ASSUME NEW p \in Priorities, NEW m \in Retries, InsertJob(p, m)
      PROVE  \E rows \in Seq(Priorities \X Retries) : InsertRows(rows)
  <2>1. << <<p, m>> >> \in Seq(Priorities \X Retries)
    OBVIOUS
  <2> QED
    BY <1>2, <2>1 DEF InsertJob
<1>3. ASSUME InsertJobsBatch
      PROVE  \E rows \in Seq(Priorities \X Retries) : InsertRows(rows)
  <2>1. PICK n \in BatchSizes : \E rows \in [1 .. n -> Priorities \X Retries] :
                                    InsertRows(rows)
    BY <1>3 DEF InsertJobsBatch
  <2>2. PICK rows \in [1 .. n -> Priorities \X Retries] : InsertRows(rows)
    BY <2>1
  <2> QED
    BY <2>2, ConstantsAssumption, BatchIsSeq
<1>4. CASE Enqueue
  <2>1. PICK rows \in Seq(Priorities \X Retries) : InsertRows(rows)
    BY <1>2, <1>3, <1>4 DEF Enqueue
  <2>2. CASE fila'[j] = fila[j]
    BY <1>1, <2>2, SameHolders, NothingWritten
  <2>3. CASE fila'[j] # fila[j]
    BY <1>1, <2>1, <2>3, InsertedRow DEF Effect, WasInserted
  <2> QED
    BY <2>2, <2>3
<1>5. CASE Tick
  <2>1. fila'[j] = fila[j]
    BY <1>5 DEF Tick
  <2> QED
    BY <1>1, <2>1, SameHolders, NothingWritten
<1> QED
  BY <1>4, <1>5

\* Every step of the workers and the operator does one of these to each job.
LEMMA Effects ==
    ASSUME LifeTypeOK, InShard, Blank, [LifeNext]_lifeVars, NEW j \in JobId
    PROVE  Effect(j)
<1>1. CASE UNCHANGED lifeVars
  <2>1. held' = held /\ rescues'[j] = rescues[j] /\ fila'[j] = fila[j]
    BY <1>1 DEF lifeVars
  <2> QED
    BY <2>1, SameHolders, NothingWritten
<1>2. ASSUME NEW t \in Worker,
             \/ Poll(t) \/ FindNothing(t) \/ Succeed(t) \/ GiveUp(t)
             \/ Settle(t) \/ Die(t) \/ Restart(t) \/ Beat(t) \/ SkipBeat(t)
             \/ \E k \in JobId : Take(t, k)
             \/ \E permanent \in BOOLEAN : Raise(t, permanent)
      PROVE  Effect(j)
  BY <1>2, QuietEffect, SucceedEffect, SettleEffect, DieEffect, BeatEffect,
     TakeEffect, RaiseEffect
<1> QED
  BY <1>1, <1>2, LifeCases, OperateEffect, EnqueueTickEffect

----------------------------------------------------------------------------
(* The invariants of one job *)

LEMMA OrphansStay == [LifeNext]_lifeVars => orphaned \subseteq orphaned'
<1> SUFFICES ASSUME [LifeNext]_lifeVars PROVE orphaned \subseteq orphaned'
  OBVIOUS
<1>1. CASE UNCHANGED lifeVars
  BY <1>1 DEF lifeVars
<1>2. ASSUME NEW t \in Worker,
             \/ Poll(t) \/ FindNothing(t) \/ Succeed(t) \/ GiveUp(t)
             \/ Settle(t) \/ Die(t) \/ Restart(t) \/ Beat(t) \/ SkipBeat(t)
             \/ \E k \in JobId : Take(t, k)
             \/ \E permanent \in BOOLEAN : Raise(t, permanent)
      PROVE  orphaned \subseteq orphaned'
  BY <1>2 DEF Poll, FindNothing, Succeed, GiveUp, Settle, Die, Restart, Beat,
              SkipBeat, Take, Raise
<1> QED
  BY <1>1, <1>2, LifeCases DEF Operate

\* A holder after the step, of a row that is there, has just taken it or held
\* it before.
LEMMA HolderBefore ==
    ASSUME RepoInv, LifeTypeOK, InShard, NEW j \in JobId, Effect(j),
           NEW t \in Worker, held'[t] # NULL, held'[t].job = j
    PROVE  \/ WasTaken(t, j)
           \/ /\ held'[t] = held[t] /\ Holds(t, j)
              /\ fila'[j].status # "absent" =>
                   /\ Present(j)
                   /\ fila[j].tentativas <= fila'[j].tentativas
                   /\ fila'[j].max_tentativas = fila[j].max_tentativas
<1>1. fila[j] \in Row /\ fila[j].tentativas \in Nat
  BY DEF LifeTypeOK, TypeOK, Row
<1>2. ASSUME held' = held PROVE Holds(t, j) /\ j < nextId
  BY <1>2, AtWork DEF Holds
<1>3. CASE Untouched(j) \/ WasRemoved(j)
  BY <1>1, <1>3 DEF Untouched, WasRemoved, NoNewHolder, Holds, SameCounts,
                    Present, AbsentRow
<1>4. CASE WasInserted(j)
  <2>1. j \in Nat /\ nextId \in Nat
    BY ConstantsAssumption DEF LifeTypeOK, TypeOK, JobId
  <2> QED
    BY <1>2, <1>4, <2>1 DEF WasInserted
<1>5. CASE WasRequeued(j)
  BY <1>1, <1>2, <1>5 DEF WasRequeued, SameCounts, Present
<1>6. ASSUME NEW u \in Worker, WasTaken(u, j), u # t
      PROVE  /\ held'[t] = held[t] /\ Holds(t, j)
             /\ Present(j)
             /\ fila[j].tentativas <= fila'[j].tentativas
             /\ fila'[j].max_tentativas = fila[j].max_tentativas
  <2>1. held'[t] = held[t]
    BY <1>6 DEF WasTaken, LifeTypeOK
  <2> QED
    BY <1>1, <1>6, <2>1 DEF WasTaken, Holds, Present
<1>7. ASSUME NEW u \in Worker, WasSettled(u, j)
      PROVE  /\ held'[t] = held[t] /\ Holds(t, j)
             /\ Present(j)
             /\ fila[j].tentativas <= fila'[j].tentativas
             /\ fila'[j].max_tentativas = fila[j].max_tentativas
  <2>1. held'[t] = held[t]
    BY <1>7 DEF WasSettled, LifeTypeOK
  <2> QED
    BY <1>1, <1>7, <2>1 DEF WasSettled, SameCounts, Holds
<1> QED
  BY <1>3, <1>4, <1>5, <1>6, <1>7 DEF Effect

LEMMA BlankStep ==
    ASSUME RepoInv, LifeTypeOK, InShard, Blank, nextId <= nextId', LifeTypeOK',
           \A j \in JobId : Effect(j)
    PROVE  Blank'
<1> SUFFICES ASSUME NEW j \in JobId
             PROVE  /\ fila'[j].status = "absent" => fila'[j] = AbsentRow
                    /\ j >= nextId' => rescues'[j] = 0
  BY DEF Blank, Present
<1>1. /\ fila[j].status = "absent" => fila[j] = AbsentRow
      /\ j >= nextId => rescues[j] = 0 /\ fila[j].status = "absent"
  BY DEF Blank, Present, RepoInv, IdsAhead
<1>2. j >= nextId' => j >= nextId
  <2>1. j \in Nat /\ nextId \in Nat /\ nextId' \in Nat
    BY ConstantsAssumption DEF LifeTypeOK, TypeOK, JobId
  <2> QED
    BY <2>1
<1>3. CASE Untouched(j) \/ WasRemoved(j)
  BY <1>1, <1>2, <1>3 DEF Untouched, WasRemoved
<1>4. CASE WasInserted(j)
  BY <1>1, <1>2, <1>4 DEF WasInserted, NewRow
<1>5. CASE WasRequeued(j) \/ \E t \in Worker : WasTaken(t, j) \/ WasSettled(t, j)
  BY <1>1, <1>2, <1>5 DEF WasRequeued, WasTaken, WasSettled, Present
<1> QED
  BY <1>3, <1>4, <1>5 DEF Effect

\* A requeue from outside is counted and never forgotten.
LEMMA RescuesGrow ==
    ASSUME LifeTypeOK, NEW j \in JobId, Effect(j)
    PROVE  /\ rescues'[j] \in Nat /\ rescues[j] \in Nat
           /\ rescues'[j] = rescues[j] \/ rescues'[j] = rescues[j] + 1
           /\ rescues'[j] = 0 => rescues[j] = 0 /\ ~WasRequeued(j)
<1>1. rescues[j] \in Nat
  BY DEF LifeTypeOK
<1>2. rescues'[j] = rescues[j] \/ (WasRequeued(j) /\ rescues'[j] = rescues[j] + 1)
  BY DEF Effect, Untouched, WasInserted, WasRemoved, WasRequeued, WasTaken,
         WasSettled
<1>3. WasRequeued(j) => rescues'[j] = rescues[j] + 1
  BY DEF WasRequeued
<1> QED
  BY <1>1, <1>2, <1>3

LEMMA HolderFindsStep ==
    ASSUME RepoInv, LifeTypeOK, InShard, HolderFinds,
           \A j \in JobId : Effect(j)
    PROVE  HolderFinds'
<1> SUFFICES ASSUME NEW j \in JobId, rescues'[j] = 0,
                    NEW t \in Worker, held'[t] # NULL, held'[t].job = j
             PROVE  /\ fila'[j].status \in {"processing", "absent"}
                    /\ \A u \in Worker :
                          held'[u] # NULL /\ held'[u].job = j => u = t
  BY DEF HolderFinds, Holds
<1>1. Effect(j) /\ rescues[j] = 0 /\ ~WasRequeued(j)
  BY RescuesGrow
<1>2. \A u, v \in Worker : Holds(u, j) =>
         /\ fila[j].status \in {"processing", "absent"}
         /\ Holds(v, j) => v = u
  BY <1>1 DEF HolderFinds
<1>3. \A u \in Worker : held'[u] # NULL /\ held'[u].job = j =>
         WasTaken(u, j) \/ Holds(u, j)
  BY <1>1, HolderBefore
<1>4. CASE \E u \in Worker : WasTaken(u, j)
  <2>1. PICK u \in Worker : WasTaken(u, j)
    BY <1>4
  <2>2. /\ fila[j].status = "pending" /\ fila'[j].status = "processing"
        /\ \A v \in Worker : ~Holds(v, j)
    BY <1>2, <2>1 DEF WasTaken
  <2>3. \A v \in Worker : held'[v] # NULL /\ held'[v].job = j => v = u
    <3>1. \A v \in Worker \ {u} : held'[v] = held[v]
      BY <2>1 DEF WasTaken, LifeTypeOK
    <3> QED
      BY <2>2, <3>1 DEF Holds
  <2> QED
    BY <2>2, <2>3
<1>5. CASE ~ \E u \in Worker : WasTaken(u, j)
  <2>1. \A u \in Worker : held'[u] # NULL /\ held'[u].job = j => Holds(u, j)
    BY <1>3, <1>5
  <2>2. \A u \in Worker : held'[u] # NULL /\ held'[u].job = j => u = t
    BY <1>2, <2>1
  <2>3. Holds(t, j) /\ fila[j].status \in {"processing", "absent"}
    BY <1>2, <2>1
  <2>4. CASE Untouched(j) \/ WasRemoved(j)
    BY <2>2, <2>3, <2>4 DEF Untouched, WasRemoved, AbsentRow
  <2>5. CASE WasInserted(j)
    <3>1. held[t].job < nextId /\ j \in Nat /\ nextId \in Nat
      BY <2>3, AtWork, ConstantsAssumption
         DEF LifeTypeOK, TypeOK, JobId, Holds
    <3> QED
      BY <2>3, <2>5, <3>1 DEF WasInserted, Holds
  <2>6. ASSUME NEW u \in Worker, WasSettled(u, j) PROVE FALSE
    <3>1. u = t
      BY <1>2, <2>3, <2>6 DEF WasSettled
    <3>2. held'[t] = NULL
      BY <2>6, <3>1 DEF WasSettled, LifeTypeOK
    <3> QED
      BY <3>2
  <2> QED
    BY <1>1, <1>5, <2>2, <2>4, <2>5, <2>6 DEF Effect
<1> QED
  BY <1>4, <1>5

LEMMA StrandedStep ==
    ASSUME RepoInv, LifeTypeOK, StrandedByDeath, orphaned \subseteq orphaned',
           \A j \in JobId : Effect(j)
    PROVE  StrandedByDeath'
<1> SUFFICES ASSUME NEW j \in JobId, fila'[j].status = "processing"
             PROVE  \/ j \in orphaned'
                    \/ \E t \in Worker : held'[t] # NULL /\ held'[t].job = j
  BY DEF StrandedByDeath, Holds
<1>1. Effect(j)
  OBVIOUS
<1>2. CASE Untouched(j)
  <2>1. fila[j].status = "processing"
    BY <1>2 DEF Untouched
  <2>2. CASE j \in orphaned
    BY <2>2
  <2>3. ASSUME NEW t \in Worker, Holds(t, j)
        PROVE  j \in orphaned' \/ (held'[t] # NULL /\ held'[t].job = j)
    BY <1>2, <2>1, <2>3 DEF Untouched, NoLoss, Holds
  <2> QED
    BY <2>1, <2>2, <2>3 DEF StrandedByDeath
<1>3. ASSUME NEW t \in Worker, WasTaken(t, j)
      PROVE  held'[t] # NULL /\ held'[t].job = j
  <2>1. held'[t] = JobOf(j, fila[j]) /\ fila[j] \in Row
    BY <1>3 DEF WasTaken, LifeTypeOK, TypeOK
  <2>2. fila[j].tentativas \in Nat /\ fila[j].max_tentativas \in Nat
    BY <2>1 DEF Row
  <2>3. held'[t] \in Holding /\ held'[t].job = j
    BY <2>1, <2>2 DEF JobOf, Holding
  <2> QED
    BY <2>3, WorkerAssumption
<1>4. ~WasInserted(j)
  <2>1. \A p, m : NewRow(p, m).status = "pending"
    BY DEF NewRow
  <2> QED
    BY <2>1 DEF WasInserted
<1>5. ~WasRemoved(j) /\ ~WasRequeued(j)
  BY DEF WasRemoved, AbsentRow, WasRequeued
<1>6. \A t \in Worker : ~WasSettled(t, j)
  BY DEF WasSettled
<1> QED
  BY <1>1, <1>2, <1>3, <1>4, <1>5, <1>6 DEF Effect

\* Only Raise begins a reschedule.
LEMMA RescheduleBegins ==
    ASSUME LifeTypeOK, InShard, [LifeNext]_lifeVars, NEW t \in Worker,
           call'[t].op = "reschedule"
    PROVE  \/ call'[t] = call[t]
           \/ \E permanent \in BOOLEAN : Raise(t, permanent)
<1>1. TypeOK
  BY DEF LifeTypeOK
<1>2. ASSUME NEW u \in Thread, NEW c, c.op # "reschedule",
             call' = [call EXCEPT ![u] = c]
      PROVE  call'[t] = call[t]
  <2>1. t \in Thread
    BY WorkersAreThreads
  <2> QED
    BY <1>1, <1>2, <2>1, CallMoves
<1>3. ASSUME NEW u \in Thread, Return(u) PROVE call'[t] = call[t]
  <2>1. NoCall.op # "reschedule"
    BY DEF NoCall
  <2> QED
    BY <1>2, <1>3, <2>1 DEF Return
<1>4. CASE UNCHANGED lifeVars
  BY <1>4 DEF lifeVars
<1>5. ASSUME NEW u \in Worker, Poll(u) \/ GiveUp(u) PROVE call'[t] = call[t]
  <2>1. \E c : c.op # "reschedule" /\ call' = [call EXCEPT ![u] = c]
    BY <1>5 DEF Poll, BeginPop, GiveUp, ReadPayload
  <2> QED
    BY <1>2, <2>1, WorkersAreThreads
<1>6. ASSUME NEW u \in Worker,
             \/ FindNothing(u) \/ Settle(u) \/ Die(u) \/ SkipBeat(u)
             \/ \E j \in JobId : Take(u, j)
      PROVE  call'[t] = call[t]
  <2>1. Return(u)
    BY <1>6 DEF FindNothing, PopNothing, PopError, Settle, MoveToDeadLetter,
                ScheduleRetry, Die, SkipBeat, Take, ClaimJob
  <2> QED
    BY <1>3, <2>1, WorkersAreThreads
<1>7. ASSUME NEW u \in Worker, Succeed(u) \/ Restart(u) PROVE call'[t] = call[t]
  BY <1>7 DEF Succeed, CompleteJob, Restart, repoVars
<1>8. ASSUME NEW u \in Worker, Beat(u) PROVE call'[t] = call[t]
  <2>1. CASE BeginHeartbeat(u, WorkerOf[u])
    <3>1. \E c : c.op # "reschedule" /\ call' = [call EXCEPT ![u] = c]
      BY <2>1 DEF BeginHeartbeat
    <3> QED
      BY <1>2, <3>1, WorkersAreThreads
  <2>2. CASE Heartbeat(u)
    BY <1>3, <2>2, WorkersAreThreads DEF Heartbeat
  <2> QED
    BY <1>8, <2>1, <2>2 DEF Beat
<1>9. ASSUME NEW u \in Worker, NEW permanent \in BOOLEAN, Raise(u, permanent),
             u # t
      PROVE  call'[t] = call[t]
  <2>1. FailJob(u, held[u].job, permanent)
    BY <1>9 DEF Raise
  <2>2. \E c : call' = [call EXCEPT ![u] = c]
    BY <2>1 DEF FailJob
  <2>3. t \in Thread \ {u} /\ u \in Thread
    BY <1>9, WorkersAreThreads
  <2> QED
    BY <1>1, <2>2, <2>3, CallMoves
<1>10. CASE Enqueue \/ Tick
  BY <1>10 DEF Enqueue, InsertJob, InsertJobsBatch, InsertRows, Tick
<1> QED
  BY <1>1, <1>4, <1>5, <1>6, <1>7, <1>8, <1>9, <1>10, LifeCases, OperateCalls

\* Whoever is about to reschedule a job had it with an attempt left.
LEMMA RescheduleRead ==
    ASSUME LifeTypeOK, InShard, NEW t \in Worker, NEW permanent \in BOOLEAN,
           Raise(t, permanent), call'[t].op = "reschedule"
    PROVE  ~Exhausted(fila[held[t].job])
<1>1. FailJob(t, held[t].job, permanent) /\ TypeOK /\ t \in Thread
  BY WorkersAreThreads DEF Raise, LifeTypeOK
<1>2. held[t].job \in JobId
  BY DEF Raise, LifeTypeOK, InShard, Holding
<1>3. call'[t] # NoCall
  BY DEF NoCall
<1> QED
  BY <1>1, <1>2, <1>3, FailJobCall

LEMMA NumberedStep ==
    ASSUME RepoInv, LifeTypeOK, InShard, Numbered, [LifeNext]_lifeVars,
           \A j \in JobId : Effect(j)
    PROVE  Numbered'
<1> SUFFICES ASSUME NEW t \in Worker, NEW j \in JobId,
                    held'[t] # NULL, held'[t].job = j, fila'[j].status # "absent"
             PROVE  /\ held'[t].attempts + 1 <= fila'[j].tentativas
                    /\ call'[t].op = "reschedule" =>
                          held'[t].attempts + 1 < fila'[j].max_tentativas
  BY DEF Numbered, Holds, Present
<1>1. fila[j].tentativas \in Nat /\ fila[j].max_tentativas \in Nat
  BY DEF LifeTypeOK, TypeOK, Row
<1>2. CASE WasTaken(t, j)
  <2>1. held'[t].attempts = fila[j].tentativas
    BY <1>2 DEF WasTaken, LifeTypeOK, JobOf
  <2>2. fila'[j].tentativas = fila[j].tentativas + 1 /\ call'[t].op # "reschedule"
    BY <1>2 DEF WasTaken, NoCall
  <2> QED
    BY <1>1, <2>1, <2>2
<1>3. CASE ~WasTaken(t, j)
  <2>1. /\ held'[t] = held[t] /\ Holds(t, j) /\ Present(j)
        /\ fila[j].tentativas <= fila'[j].tentativas
        /\ fila'[j].max_tentativas = fila[j].max_tentativas
    BY <1>3, HolderBefore
  <2>2. held[t].attempts \in Nat /\ fila'[j].tentativas \in Nat
    <3>1. held[t] \in Holding
      BY <2>1, AtWork DEF Holds
    <3>2. fila'[j].tentativas \in Nat
      BY PlacedStep DEF LifeTypeOK, TypeOK, Row
    <3> QED
      BY <3>1, <3>2 DEF Holding
  <2>3. held[t].attempts + 1 <= fila[j].tentativas
    BY <2>1 DEF Numbered
  <2>4. ASSUME call'[t].op = "reschedule"
        PROVE  held[t].attempts + 1 < fila[j].max_tentativas
    <3>1. CASE call'[t] = call[t]
      BY <2>1, <2>4, <3>1 DEF Numbered
    <3>2. ASSUME NEW permanent \in BOOLEAN, Raise(t, permanent)
          PROVE  held[t].attempts + 1 < fila[j].max_tentativas
      <4>1. ~Exhausted(fila[j])
        BY <2>1, <2>4, <3>2, RescheduleRead DEF Holds
      <4> QED
        BY <1>1, <2>2, <2>3, <4>1 DEF Exhausted
    <3> QED
      BY <2>4, <3>1, <3>2, RescheduleBegins
  <2> QED
    BY <1>1, <2>1, <2>2, <2>3, <2>4
<1> QED
  BY <1>2, <1>3

\* Those who may retry a job after a step could do so before, or just took it.
LEMMA MayRetryBefore ==
    ASSUME RepoInv, LifeTypeOK, InShard, NEW j \in JobId, Effect(j),
           fila'[j].status # "absent", NEW t \in Worker, t \in MayRetry(j)'
    PROVE  WasTaken(t, j) \/ (Present(j) /\ t \in MayRetry(j) /\ held'[t] = held[t])
<1>1. /\ held'[t] # NULL /\ held'[t].job = j
      /\ held'[t].attempts + 1 < fila'[j].max_tentativas
  BY DEF MayRetry, Holds
<1> QED
  BY <1>1, HolderBefore DEF MayRetry

\* The arithmetic of the budget: what the steps of a row do to what is foreseen
\* of it.
LEMMA ForeseenSteps ==
    ASSUME NEW a \in Row, NEW b \in Row, NEW n \in Nat, NEW k \in Nat,
           b.max_tentativas = a.max_tentativas
    PROVE  /\ b.status = a.status /\ b.tentativas = a.tentativas /\ k <= n =>
                 Foreseen(b, k) <= Foreseen(a, n)
           /\ b.tentativas = a.tentativas /\ k <= n =>
                 Foreseen(b, k) <= Foreseen(a, n) + 1
           /\ b.tentativas = a.tentativas /\ k + 1 <= n =>
                 Foreseen(b, k) <= Foreseen(a, n)
           /\ b.tentativas = a.tentativas /\ b.status # "pending" /\ k <= n =>
                 Foreseen(b, k) <= Foreseen(a, n)
           /\ a.status = "pending" /\ b.status = "processing"
                 /\ b.tentativas = a.tentativas + 1
                 /\ k <= (IF a.tentativas + 1 < a.max_tentativas
                          THEN n + 1 ELSE n) =>
                 Foreseen(b, k) <= Foreseen(a, n)
<1>1. /\ a.tentativas \in Nat /\ a.max_tentativas \in Nat
      /\ b.tentativas \in Nat /\ b.max_tentativas \in Nat
  BY DEF Row
<1>2. /\ b.status = a.status /\ b.tentativas = a.tentativas /\ k <= n =>
            Foreseen(b, k) <= Foreseen(a, n)
      /\ b.tentativas = a.tentativas /\ b.status # "pending" /\ k <= n =>
            Foreseen(b, k) <= Foreseen(a, n)
  BY <1>1 DEF Foreseen
<1>3. /\ b.tentativas = a.tentativas /\ k <= n =>
            Foreseen(b, k) <= Foreseen(a, n) + 1
      /\ b.tentativas = a.tentativas /\ k + 1 <= n =>
            Foreseen(b, k) <= Foreseen(a, n)
  BY <1>1 DEF Foreseen
<1>4. ASSUME a.status = "pending", b.status = "processing",
             b.tentativas = a.tentativas + 1,
             k <= (IF a.tentativas + 1 < a.max_tentativas THEN n + 1 ELSE n)
      PROVE  Foreseen(b, k) <= Foreseen(a, n)
  <2>1. b.status # "pending"
    BY <1>4
  <2>2. CASE a.tentativas + 1 < a.max_tentativas
    BY <1>1, <1>4, <2>1, <2>2 DEF Foreseen
  <2>3. CASE ~(a.tentativas + 1 < a.max_tentativas)
    BY <1>1, <1>4, <2>1, <2>3 DEF Foreseen
  <2> QED
    BY <2>2, <2>3
<1> QED
  BY <1>2, <1>3, <1>4

LEMMA SmallerSet ==
    ASSUME NEW S, IsFiniteSet(S), NEW T, T \subseteq S
    PROVE  /\ IsFiniteSet(T) /\ IsFiniteSet(S)
           /\ Cardinality(T) \in Nat /\ Cardinality(S) \in Nat
           /\ Cardinality(T) <= Cardinality(S)
  BY FS_Subset, FS_CardinalityType

\* Budget for one job.
Affords(j) ==
    /\ IsFiniteSet(MayRetry(j))
    /\ Foreseen(fila[j], Cardinality(MayRetry(j))) <=
          fila[j].max_tentativas + rescues[j]

\* A new row has all its attempts ahead and nobody holds it.
LEMMA InsertedAffords ==
    ASSUME RepoInv, LifeTypeOK, InShard, NEW j \in JobId, WasInserted(j),
           rescues'[j] \in Nat
    PROVE  Affords(j)'
<1>1. PICK p \in Priorities, m \in Retries : fila'[j] = NewRow(p, m)
  BY DEF WasInserted
<1>2. /\ fila'[j].tentativas = 0 /\ fila'[j].status = "pending"
      /\ fila'[j].max_tentativas = m + 1 /\ m \in Nat /\ m > 0
  BY <1>1, ConstantsAssumption DEF NewRow
<1>3. MayRetry(j)' = {}
  <2>1. ASSUME NEW t \in Worker, held'[t] # NULL, held'[t].job = j PROVE FALSE
    <3>1. held[t].job < nextId /\ j \in Nat /\ nextId \in Nat /\ held[t].job = j
      BY <2>1, AtWork, ConstantsAssumption
         DEF WasInserted, LifeTypeOK, TypeOK, JobId
    <3> QED
      BY <3>1 DEF WasInserted
  <2> QED
    BY <2>1 DEF MayRetry, Holds
<1>4. IsFiniteSet({}) /\ Cardinality({}) = 0
  BY FS_EmptySet
<1>5. Foreseen(fila'[j], 0) <= fila'[j].max_tentativas + rescues'[j]
  BY <1>2 DEF Foreseen
<1> QED
  BY <1>3, <1>4, <1>5 DEF Affords

LEMMA AffordsStep ==
    ASSUME RepoInv, LifeTypeOK, InShard, Numbered, Budget, LifeTypeOK',
           NEW j \in JobId, Effect(j), fila'[j].status # "absent"
    PROVE  Affords(j)'
<1> DEFINE M == MayRetry(j)
           N == MayRetry(j)'
<1>1. /\ fila[j] \in Row /\ fila'[j] \in Row
      /\ rescues[j] \in Nat /\ rescues'[j] \in Nat
      /\ fila[j].max_tentativas \in Nat /\ fila[j].tentativas \in Nat
  BY DEF LifeTypeOK, TypeOK, Row
<1>2. CASE WasInserted(j)
  BY <1>1, <1>2, InsertedAffords
<1>3. CASE ~WasInserted(j)
  <2>1. Present(j)
    BY <1>3 DEF Effect, Untouched, WasRemoved, AbsentRow, WasRequeued, WasTaken,
                WasSettled, Present
  <2>2. /\ IsFiniteSet(M) /\ Cardinality(M) \in Nat
        /\ Foreseen(fila[j], Cardinality(M)) <= fila[j].max_tentativas + rescues[j]
    BY <2>1, FS_CardinalityType DEF Budget
  <2>3. Foreseen(fila[j], Cardinality(M)) \in Nat
    BY <1>1, <2>2 DEF Foreseen
  <2>4. \A t \in N : t \in Worker /\ (WasTaken(t, j) \/ t \in M)
    <3>1. \A t \in N : t \in Worker
      BY DEF MayRetry
    <3> QED
      BY <3>1, MayRetryBefore
  <2> HIDE DEF M, N
  <2>5. CASE \A t \in Worker : ~WasTaken(t, j)
    <3>1. N \subseteq M
      BY <2>4, <2>5
    <3>2. /\ IsFiniteSet(N) /\ Cardinality(N) \in Nat
          /\ Cardinality(N) <= Cardinality(M)
      BY <2>2, <3>1, SmallerSet
    <3>3. Foreseen(fila'[j], Cardinality(N)) \in Nat
      BY <1>1, <3>2 DEF Foreseen, Row
    <3>4. CASE Untouched(j)
      <4>1. Foreseen(fila'[j], Cardinality(N)) <= Foreseen(fila[j], Cardinality(M))
        BY <1>1, <2>2, <3>2, <3>4, ForeseenSteps DEF Untouched, SameCounts
      <4>2. Foreseen(fila'[j], Cardinality(N)) <=
               fila'[j].max_tentativas + rescues'[j]
        BY <1>1, <2>2, <2>3, <3>3, <3>4, <4>1 DEF Untouched, SameCounts
      <4> QED
        BY <3>2, <4>2 DEF Affords, N
    <3>5. CASE WasRequeued(j)
      <4>1. Foreseen(fila'[j], Cardinality(N)) <=
               Foreseen(fila[j], Cardinality(M)) + 1
        BY <1>1, <2>2, <3>2, <3>5, ForeseenSteps DEF WasRequeued, SameCounts
      <4>2. Foreseen(fila'[j], Cardinality(N)) <=
               fila'[j].max_tentativas + rescues'[j]
        BY <1>1, <2>2, <2>3, <3>3, <3>5, <4>1 DEF WasRequeued, SameCounts
      <4> QED
        BY <3>2, <4>2 DEF Affords, N
    <3>6. ASSUME NEW t \in Worker, WasSettled(t, j) PROVE Affords(j)'
      <4>1. fila'[j].status # "pending" \/ call[t].op = "reschedule"
        BY <3>6 DEF WasSettled
      <4>2. call[t].op = "reschedule" => t \in M
        <5>1. Holds(t, j)
          BY <3>6 DEF WasSettled
        <5>2. call[t].op = "reschedule" =>
                 held[t].attempts + 1 < fila[j].max_tentativas
          BY <2>1, <5>1 DEF Numbered
        <5> QED
          BY <5>1, <5>2 DEF M, MayRetry
      <4>3. t \notin N
        <5>1. held'[t] = NULL
          BY <3>6 DEF WasSettled, LifeTypeOK
        <5> QED
          BY <5>1 DEF N, MayRetry, Holds
      <4>4. call[t].op = "reschedule" => Cardinality(N) + 1 <= Cardinality(M)
        <5>1. N \subseteq M \ {t}
          BY <3>1, <4>3
        <5>2. IsFiniteSet(M \ {t})
          BY <2>2, FS_RemoveElement
        <5>3. Cardinality(N) <= Cardinality(M \ {t})
          BY <5>1, <5>2, SmallerSet
        <5>4. t \in M => Cardinality(M \ {t}) = Cardinality(M) - 1
          BY <2>2, FS_RemoveElement
        <5> QED
          BY <2>2, <3>2, <4>2, <5>3, <5>4
      <4>5. Foreseen(fila'[j], Cardinality(N)) <= Foreseen(fila[j], Cardinality(M))
        BY <1>1, <2>2, <3>2, <3>6, <4>1, <4>4, ForeseenSteps
           DEF WasSettled, SameCounts
      <4>6. Foreseen(fila'[j], Cardinality(N)) <=
               fila'[j].max_tentativas + rescues'[j]
        BY <1>1, <2>2, <2>3, <3>3, <3>6, <4>5 DEF WasSettled, SameCounts
      <4> QED
        BY <3>2, <4>6 DEF Affords, N
    <3>7. ~WasRemoved(j)
      BY DEF WasRemoved, AbsentRow
    <3> QED
      BY <1>3, <2>5, <3>4, <3>5, <3>6, <3>7 DEF Effect
  <2>6. ASSUME NEW t \in Worker, WasTaken(t, j) PROVE Affords(j)'
    <3>1. /\ fila[j].status = "pending" /\ fila'[j].status = "processing"
          /\ fila'[j].tentativas = fila[j].tentativas + 1
          /\ fila'[j].max_tentativas = fila[j].max_tentativas
          /\ rescues'[j] = rescues[j]
      BY <2>6 DEF WasTaken
    <3>2. held'[t].attempts = fila[j].tentativas /\ held[t] = NULL
      BY <2>6 DEF WasTaken, LifeTypeOK, JobOf
    <3>3. \A u \in Worker : WasTaken(u, j) => u = t
      <4>1. ASSUME NEW u \in Worker, u # t PROVE held'[u] = held[u]
        BY <2>6, <4>1 DEF WasTaken, LifeTypeOK
      <4>2. ASSUME NEW u \in Worker, WasTaken(u, j), u # t PROVE FALSE
        <5>1. held'[u] = JobOf(j, fila[j]) /\ held[u] = NULL
          BY <4>2 DEF WasTaken, LifeTypeOK
        <5>2. JobOf(j, fila[j]) \in Holding
          BY <1>1 DEF JobOf, Holding
        <5> QED
          BY <4>1, <4>2, <5>1, <5>2, WorkerAssumption
      <4> QED
        BY <4>2
    <3>4. N \subseteq M \cup {t}
      BY <2>4, <3>3
    <3>5. ~(fila[j].tentativas + 1 < fila[j].max_tentativas) => N \subseteq M
      <4>1. t \in N => fila[j].tentativas + 1 < fila[j].max_tentativas
        BY <3>1, <3>2 DEF N, MayRetry
      <4> QED
        BY <3>4, <4>1
    <3>6. IsFiniteSet(M \cup {t}) /\ Cardinality(M \cup {t}) <= Cardinality(M) + 1
      <4>1. /\ IsFiniteSet(M \cup {t})
            /\ Cardinality(M \cup {t}) =
                  IF t \in M THEN Cardinality(M) ELSE Cardinality(M) + 1
        BY <2>2, FS_AddElement
      <4> QED
        BY <2>2, <4>1
    <3>7. /\ IsFiniteSet(N) /\ Cardinality(N) \in Nat
          /\ Cardinality(N) <= Cardinality(M) + 1
      <4>1. /\ IsFiniteSet(N) /\ Cardinality(N) \in Nat
            /\ Cardinality(M \cup {t}) \in Nat
            /\ Cardinality(N) <= Cardinality(M \cup {t})
        BY <3>4, <3>6, SmallerSet
      <4> QED
        BY <2>2, <3>6, <4>1
    <3>8. Cardinality(N) <= (IF fila[j].tentativas + 1 < fila[j].max_tentativas
                             THEN Cardinality(M) + 1 ELSE Cardinality(M))
      BY <2>2, <3>5, <3>7, SmallerSet
    <3>9. Foreseen(fila'[j], Cardinality(N)) <= Foreseen(fila[j], Cardinality(M))
      BY <1>1, <2>2, <3>1, <3>7, <3>8, ForeseenSteps
    <3>10. Foreseen(fila'[j], Cardinality(N)) \in Nat
      BY <1>1, <3>7 DEF Foreseen, Row
    <3>11. Foreseen(fila'[j], Cardinality(N)) <=
              fila'[j].max_tentativas + rescues'[j]
      BY <1>1, <2>2, <2>3, <3>1, <3>9, <3>10
    <3> QED
      BY <3>7, <3>11 DEF Affords, N
  <2> QED
    BY <2>5, <2>6
<1> QED
  BY <1>2, <1>3

LEMMA BudgetStep ==
    ASSUME RepoInv, LifeTypeOK, InShard, Numbered, Budget, LifeTypeOK',
           \A j \in JobId : Effect(j)
    PROVE  Budget'
<1> SUFFICES ASSUME NEW j \in JobId, fila'[j].status # "absent"
             PROVE  /\ IsFiniteSet(MayRetry(j)')
                    /\ Foreseen(fila'[j], Cardinality(MayRetry(j)')) <=
                          fila'[j].max_tentativas + rescues'[j]
  BY DEF Budget, Present
<1>1. Affords(j)'
  BY AffordsStep
<1> QED
  BY <1>1 DEF Affords

----------------------------------------------------------------------------
(* The invariant, and what follows from it *)

LEMMA LifeInvInit == LifeInit => LifeInv
<1> SUFFICES ASSUME LifeInit PROVE LifeInv
  OBVIOUS
<1>1. RepoInv /\ TypeOK
  BY RepoInvInit DEF LifeInit, RepoInv
<1>2. LifeTypeOK
  BY <1>1 DEF LifeInit, LifeTypeOK, Stage
<1>3. /\ \A j \in JobId : fila[j] = AbsentRow /\ fila[j].status = "absent"
      /\ \A j \in JobId : rescues[j] = 0
  BY DEF LifeInit, RepoInit, AbsentRow
<1>4. \A t \in Worker : pc[t] = "polling" /\ held[t] = NULL /\ call[t].op = "none"
  BY WorkersAreThreads DEF LifeInit, RepoInit, NoCall
<1>5. InShard
  BY <1>4 DEF InShard
<1>6. Blank /\ Budget /\ StrandedByDeath
  BY <1>3 DEF Blank, Budget, StrandedByDeath, Present
<1>7. HolderFinds /\ Numbered
  BY <1>4 DEF HolderFinds, Numbered, Holds
<1> QED
  BY <1>1, <1>2, <1>5, <1>6, <1>7 DEF LifeInv

LEMMA LifeInvStep == LifeInv /\ [LifeNext]_lifeVars => LifeInv'
<1> SUFFICES ASSUME LifeInv, [LifeNext]_lifeVars PROVE LifeInv'
  OBVIOUS
<1>1. /\ RepoInv /\ LifeTypeOK /\ InShard /\ Blank /\ HolderFinds /\ Numbered
      /\ Budget /\ StrandedByDeath
  BY DEF LifeInv
<1>2. RepoInv' /\ LifeTypeOK' /\ InShard' /\ nextId <= nextId'
  BY <1>1, PlacedStep
<1>3. /\ \A j \in JobId : Effect(j)
      /\ orphaned \subseteq orphaned'
  BY <1>1, Effects, OrphansStay
<1>4. Blank'
  BY <1>1, <1>2, <1>3, BlankStep
<1>5. HolderFinds' /\ StrandedByDeath'
  BY <1>1, <1>3, HolderFindsStep, StrandedStep
<1>6. Numbered'
  BY <1>1, <1>3, NumberedStep
<1>7. Budget'
  BY <1>1, <1>2, <1>3, BudgetStep
<1> QED
  BY <1>2, <1>4, <1>5, <1>6, <1>7 DEF LifeInv

\* Workers, the operator and the shard agree in every reachable state: where
\* each worker is, what it holds and what the row of its job says.
THEOREM LifeCorrect == LifeSpec => []LifeInv
  BY LifeInvInit, LifeInvStep, PTL DEF LifeSpec

\* The loop of Worker uses the shard as ShardRepository lets it be used, so
\* that everything proved of the shard holds under the workers too: leases,
\* attempts, letters, and jobs that do not come back.
THEOREM LifeUsesShard == LifeSpec => RepoSpec
<1>1. LifeInit => RepoInit
  BY DEF LifeInit
<1>2. LifeInv /\ [LifeNext]_lifeVars => [RepoNext]_repoVars
  BY LifeIsRepo DEF LifeInv
<1> QED
  BY <1>1, <1>2, LifeCorrect, PTL DEF LifeSpec, RepoSpec

LEMMA OneHolder == LifeInv => SoleHolder
<1> SUFFICES ASSUME LifeInv, NEW j \in JobId, rescues[j] = 0
             PROVE  Cardinality({t \in Worker : Holds(t, j)}) <= 1
  BY DEF SoleHolder
<1> DEFINE H == {t \in Worker : Holds(t, j)}
<1>1. \A t, u \in H : u = t
  BY DEF LifeInv, HolderFinds
<1>2. H = {} \/ \E t : H = {t}
  BY <1>1
<1> HIDE DEF H
<1>3. Cardinality({}) = 0 /\ \A t : Cardinality({t}) = 1
  BY FS_EmptySet, FS_Singleton
<1>4. Cardinality(H) = 0 \/ Cardinality(H) = 1
  BY <1>2, <1>3
<1>5. Cardinality(H) <= 1
  BY <1>4
<1> QED
  BY <1>5 DEF H

\* pop_job, retries, crashes, restarts and shared worker ids never put two
\* workers on one job; only a requeue from outside does.
THEOREM SoleHolderCorrect == LifeSpec => []SoleHolder
  BY LifeCorrect, OneHolder, PTL

\* No race between workers and operator strands a job in processing: a death
\* does.
THEOREM StrandedCorrect == LifeSpec => []StrandedByDeath
  BY LifeCorrect, PTL DEF LifeInv

----------------------------------------------------------------------------
(* The contract *)

\* Ids that are given out get rows.
LEMMA NewIdsWait ==
    ASSUME TypeOK, [LifeNext]_lifeVars, NEW j \in JobId, j >= nextId, j < nextId'
    PROVE  fila'[j].status = "pending"
<1>1. nextId \in Nat /\ j \in Nat
  BY ConstantsAssumption DEF TypeOK, JobId
<1>2. \A p, m : NewRow(p, m).status = "pending"
  BY DEF NewRow
<1>3. ASSUME NEW rows, InsertRows(rows) PROVE fila'[j].status = "pending"
  <2>1. fila'[j] = NewRow(rows[j - nextId + 1][1], rows[j - nextId + 1][2])
    BY <1>3 DEF InsertRows
  <2> QED
    BY <1>2, <2>1
<1>4. CASE Enqueue
  BY <1>3, <1>4 DEF Enqueue, InsertJob, InsertJobsBatch
<1>5. CASE nextId' = nextId
  BY <1>1, <1>5
<1>6. ASSUME NEW t \in Worker,
             \/ Poll(t) \/ FindNothing(t) \/ Succeed(t) \/ GiveUp(t)
             \/ Settle(t) \/ Die(t) \/ Restart(t) \/ Beat(t) \/ SkipBeat(t)
             \/ \E k \in JobId : Take(t, k)
             \/ \E permanent \in BOOLEAN : Raise(t, permanent)
      PROVE  nextId' = nextId
  BY <1>6 DEF Poll, BeginPop, FindNothing, PopNothing, PopError, Succeed,
              CompleteJob, GiveUp, ReadPayload, Settle, MoveToDeadLetter,
              ScheduleRetry, Die, Restart, repoVars, Beat, BeginHeartbeat,
              Heartbeat, SkipBeat, Take, ClaimJob, Raise, FailJob
<1>7. ASSUME Operate PROVE nextId' = nextId
  BY <1>7, MaintenanceCalls DEF Operate, BeginRecover, RecoverOrphans
<1>8. ASSUME Tick \/ UNCHANGED lifeVars PROVE nextId' = nextId
  BY <1>8 DEF Tick, lifeVars
<1> QED
  BY <1>4, <1>5, <1>6, <1>7, <1>8, LifeCases

\* The life of a job by its columns.
LEMMA LifeShown ==
    ASSUME NEW j
    PROVE  /\ LifeOf(j).claims = fila[j].tentativas
           /\ LifeOf(j).limit = fila[j].max_tentativas
           /\ LifeOf(j).rescues = rescues[j]
           /\ LifeOf(j) = [state |-> LifeOf(j).state,
                           claims |-> fila[j].tentativas,
                           limit |-> fila[j].max_tentativas,
                           rescues |-> rescues[j]]
           /\ fila[j].status = "pending" => LifeOf(j).state = "waiting"
           /\ fila[j].status = "processing" => LifeOf(j).state = "running"
           /\ fila[j].status = "failed" => LifeOf(j).state = "dead"
           /\ fila[j].status = "absent" /\ j < nextId => LifeOf(j).state = "gone"
           /\ fila[j].status = "absent" /\ ~(j < nextId) =>
                 LifeOf(j).state = "unborn"
  BY DEF LifeOf

LEMMA LifeShownNext ==
    ASSUME NEW j
    PROVE  /\ LifeOf(j)' = [state |-> LifeOf(j)'.state,
                            claims |-> fila'[j].tentativas,
                            limit |-> fila'[j].max_tentativas,
                            rescues |-> rescues'[j]]
           /\ fila'[j].status = "pending" => LifeOf(j)'.state = "waiting"
           /\ fila'[j].status = "processing" => LifeOf(j)'.state = "running"
           /\ fila'[j].status = "failed" => LifeOf(j)'.state = "dead"
           /\ fila'[j].status = "absent" /\ j < nextId' => LifeOf(j)'.state = "gone"
           /\ fila'[j].status = "absent" /\ ~(j < nextId') =>
                 LifeOf(j)'.state = "unborn"
  BY DEF LifeOf

\* The steps of the contract, column by column.
LEMMA ContractSteps ==
    ASSUME NEW a, NEW b, NEW s, NEW c, NEW l, NEW r,
           a = [state |-> s, claims |-> c, limit |-> l, rescues |-> r]
    PROVE  /\ s = "waiting" /\ c < l + r
                 /\ b = [state |-> "running", claims |-> c + 1,
                         limit |-> l, rescues |-> r] =>
                 Contract!Granted(a, b)
           /\ s \in {"running", "dead"}
                 /\ b = [state |-> "waiting", claims |-> c,
                         limit |-> l, rescues |-> r + 1] =>
                 Contract!Requeued(a, b)
           /\ s \notin {"unborn", "gone"}
                 /\ b = [state |-> "gone", claims |-> 0,
                         limit |-> 0, rescues |-> r] =>
                 Contract!Ended(a, b)
           /\ a = Contract!Unborn /\ b.limit > 0
                 /\ b = [state |-> "waiting", claims |-> 0,
                         limit |-> b.limit, rescues |-> 0] =>
                 Contract!Submitted(a, b)
<1>1. ASSUME s = "waiting", c < l + r,
             b = [state |-> "running", claims |-> c + 1, limit |-> l, rescues |-> r]
      PROVE  Contract!Granted(a, b)
  <2> DEFINE w == [a EXCEPT !.state = "running"]
  <2>1. w = [state |-> "running", claims |-> c, limit |-> l, rescues |-> r]
    OBVIOUS
  <2>2. b = [w EXCEPT !.claims = w.claims + 1] /\ w.claims = a.claims
    <3> HIDE DEF w
    <3> QED
      BY <1>1, <2>1
  <2>3. a.state = "waiting" /\ a.claims < a.limit + a.rescues
    BY <1>1
  <2> QED
    BY <2>2, <2>3 DEF Contract!Granted
<1>2. ASSUME s \in {"running", "dead"},
             b = [state |-> "waiting", claims |-> c, limit |-> l, rescues |-> r + 1]
      PROVE  Contract!Requeued(a, b)
  <2> DEFINE w == [a EXCEPT !.state = "waiting"]
  <2>1. w = [state |-> "waiting", claims |-> c, limit |-> l, rescues |-> r]
    OBVIOUS
  <2>2. b = [w EXCEPT !.rescues = w.rescues + 1] /\ w.rescues = a.rescues
    <3> HIDE DEF w
    <3> QED
      BY <1>2, <2>1
  <2>3. a.state \in {"running", "dead"}
    BY <1>2
  <2> QED
    BY <2>2, <2>3 DEF Contract!Requeued
<1>3. ASSUME s \notin {"unborn", "gone"},
             b = [state |-> "gone", claims |-> 0, limit |-> 0, rescues |-> r]
      PROVE  Contract!Ended(a, b)
  <2> DEFINE w == [Contract!Unborn EXCEPT !.state = "gone"]
  <2>1. w = [state |-> "gone", claims |-> 0, limit |-> 0, rescues |-> 0]
    BY DEF Contract!Unborn
  <2>2. b = [w EXCEPT !.rescues = a.rescues]
    <3> HIDE DEF w
    <3> QED
      BY <1>3, <2>1
  <2>3. a.state \notin {"unborn", "gone"}
    BY <1>3
  <2> QED
    BY <2>2, <2>3 DEF Contract!Ended
<1>4. ASSUME a = Contract!Unborn, b.limit > 0,
             b = [state |-> "waiting", claims |-> 0, limit |-> b.limit, rescues |-> 0]
      PROVE  Contract!Submitted(a, b)
  <2> DEFINE w == [a EXCEPT !.state = "waiting"]
  <2>1. w = [state |-> "waiting", claims |-> 0, limit |-> 0, rescues |-> 0]
    BY <1>4 DEF Contract!Unborn
  <2>2. b = [w EXCEPT !.limit = b.limit]
    <3> HIDE DEF w
    <3> QED
      BY <1>4, <2>1
  <2> QED
    BY <1>4, <2>2 DEF Contract!Submitted
<1> QED
  BY <1>1, <1>2, <1>3, <1>4

\* Each effect on a job is a step of its life, or none.
LEMMA LifeMoves ==
    ASSUME LifeInv, [LifeNext]_lifeVars, NEW j \in JobId
    PROVE  LifeOf(j)' = LifeOf(j) \/ Contract!Step(LifeOf(j), LifeOf(j)')
<1> DEFINE a == LifeOf(j)
           b == LifeOf(j)'
<1>1. /\ RepoInv /\ LifeTypeOK /\ InShard /\ Blank /\ HolderFinds /\ Budget
      /\ TypeOK /\ IdsAhead
  BY DEF LifeInv, RepoInv
<1>2. /\ nextId \in Nat /\ nextId' \in Nat /\ j \in Nat /\ nextId <= nextId'
      /\ fila[j] \in Row /\ fila'[j] \in Row
      /\ fila[j].tentativas \in Nat /\ fila[j].max_tentativas \in Nat
      /\ rescues[j] \in Nat
  <2>1. LifeTypeOK' /\ nextId <= nextId'
    BY <1>1, PlacedStep
  <2>2. /\ nextId \in Nat /\ nextId' \in Nat /\ j \in Nat
        /\ fila[j] \in Row /\ fila'[j] \in Row /\ rescues[j] \in Nat
    BY <1>1, <2>1, ConstantsAssumption DEF LifeTypeOK, TypeOK, JobId
  <2>3. fila[j].tentativas \in Nat /\ fila[j].max_tentativas \in Nat
    BY <2>2 DEF Row
  <2> QED
    BY <2>1, <2>2, <2>3
<1>3. Effect(j)
  BY <1>1, Effects
<1>4. Present(j) => j < nextId /\ j < nextId'
  BY <1>1, <1>2 DEF IdsAhead
<1>5. fila[j].status \in Status /\ fila'[j].status \in Status
  BY <1>2 DEF Row
<1>6. a = [state |-> a.state, claims |-> fila[j].tentativas,
           limit |-> fila[j].max_tentativas, rescues |-> rescues[j]]
  BY LifeShown
<1>7. b = [state |-> b.state, claims |-> fila'[j].tentativas,
           limit |-> fila'[j].max_tentativas, rescues |-> rescues'[j]]
  BY LifeShownNext
<1>8. /\ fila[j].status = "pending" => a.state = "waiting"
      /\ fila[j].status = "processing" => a.state = "running"
      /\ fila[j].status = "failed" => a.state = "dead"
      /\ fila[j].status = "absent" /\ j < nextId => a.state = "gone"
      /\ fila[j].status = "absent" /\ ~(j < nextId) => a.state = "unborn"
  BY LifeShown
<1>9. /\ fila'[j].status = "pending" => b.state = "waiting"
      /\ fila'[j].status = "processing" => b.state = "running"
      /\ fila'[j].status = "failed" => b.state = "dead"
      /\ fila'[j].status = "absent" /\ j < nextId' => b.state = "gone"
      /\ fila'[j].status = "absent" /\ ~(j < nextId') => b.state = "unborn"
  BY LifeShownNext
<1> HIDE DEF a, b
<1>10. CASE Untouched(j)
  <2>1. fila'[j].status = "absent" => (j < nextId <=> j < nextId')
    BY <1>1, <1>2, NewIdsWait
  <2>2. a.state = b.state
    BY <1>5, <1>8, <1>9, <1>10, <2>1 DEF Untouched, Status
  <2>3. a = b
    BY <1>6, <1>7, <1>10, <2>2 DEF Untouched, SameCounts
  <2> QED
    BY <2>3 DEF a, b
<1>11. CASE WasInserted(j)
  <2>1. PICK p \in Priorities, m \in Retries : fila'[j] = NewRow(p, m)
    BY <1>11 DEF WasInserted
  <2>2. /\ ~(j < nextId) /\ fila[j] = AbsentRow /\ rescues[j] = 0
        /\ rescues'[j] = 0 /\ fila[j].status = "absent"
    BY <1>1, <1>2, <1>11 DEF WasInserted, Blank, IdsAhead, Present
  <2>3. a = Contract!Unborn
    BY <1>6, <1>8, <2>2 DEF Contract!Unborn, AbsentRow
  <2>4. /\ fila'[j].tentativas = 0 /\ fila'[j].status = "pending"
        /\ fila'[j].max_tentativas = m + 1 /\ m + 1 > 0
    BY <2>1, ConstantsAssumption DEF NewRow
  <2>5. b = [state |-> "waiting", claims |-> 0, limit |-> m + 1, rescues |-> 0]
    BY <1>7, <1>9, <2>2, <2>4
  <2>6. /\ a = [state |-> a.state, claims |-> 0, limit |-> 0, rescues |-> 0]
        /\ b.limit > 0
        /\ b = [state |-> "waiting", claims |-> 0, limit |-> b.limit, rescues |-> 0]
    BY <2>3, <2>4, <2>5 DEF Contract!Unborn
  <2>7. Contract!Submitted(a, b)
    BY <2>3, <2>6, ContractSteps
  <2> QED
    BY <2>7 DEF Contract!Step, a, b
<1>12. CASE WasRemoved(j)
  <2>1. fila'[j] = AbsentRow /\ j < nextId' /\ rescues'[j] = rescues[j]
    BY <1>4, <1>12 DEF WasRemoved
  <2>2. b = [state |-> "gone", claims |-> 0, limit |-> 0, rescues |-> rescues[j]]
    BY <1>7, <1>9, <2>1 DEF AbsentRow
  <2>3. a.state \notin {"unborn", "gone"} /\ a.rescues = rescues[j]
    BY <1>5, <1>6, <1>8, <1>12 DEF WasRemoved, Present, Status
  <2>4. Contract!Ended(a, b)
    BY <1>6, <2>2, <2>3, ContractSteps
  <2> QED
    BY <2>4 DEF Contract!Step, a, b
<1>13. CASE WasRequeued(j)
  <2>1. /\ a.state \in {"running", "dead"}
        /\ b = [state |-> "waiting", claims |-> fila[j].tentativas,
                limit |-> fila[j].max_tentativas, rescues |-> rescues[j] + 1]
    BY <1>7, <1>8, <1>9, <1>13 DEF WasRequeued, SameCounts
  <2>2. Contract!Requeued(a, b)
    BY <1>6, <2>1, ContractSteps
  <2> QED
    BY <2>2 DEF Contract!Step, a, b
<1>14. ASSUME NEW t \in Worker, WasTaken(t, j) PROVE Contract!Step(a, b)
  <2>1. /\ a.state = "waiting" /\ Present(j) /\ fila[j].status = "pending"
        /\ b = [state |-> "running", claims |-> fila[j].tentativas + 1,
                limit |-> fila[j].max_tentativas, rescues |-> rescues[j]]
    BY <1>7, <1>8, <1>9, <1>14 DEF WasTaken, Present
  <2>2. fila[j].tentativas < fila[j].max_tentativas + rescues[j]
    <3>1. /\ IsFiniteSet(MayRetry(j))
          /\ Foreseen(fila[j], Cardinality(MayRetry(j))) <=
                fila[j].max_tentativas + rescues[j]
      BY <1>1, <2>1 DEF Budget
    <3>2. Cardinality(MayRetry(j)) \in Nat
      BY <3>1, FS_CardinalityType
    <3> QED
      BY <1>2, <2>1, <3>1, <3>2 DEF Foreseen
  <2>3. Contract!Granted(a, b)
    BY <1>6, <2>1, <2>2, ContractSteps
  <2> QED
    BY <2>3 DEF Contract!Step
<1>15. ASSUME NEW t \in Worker, WasSettled(t, j) PROVE Contract!Step(a, b)
  <2>1. /\ Present(j) /\ Holds(t, j)
        /\ fila'[j].status \in {"failed", "pending"}
        /\ rescues'[j] = rescues[j] /\ SameCounts(j)
    BY <1>15 DEF WasSettled
  <2>2. PICK s \in {"waiting", "dead"} : b.state = s
    BY <1>9, <2>1
  <2>3. b = [a EXCEPT !.state = s]
    BY <1>6, <1>7, <2>1, <2>2 DEF SameCounts
  <2>4. a.state = "running" \/ (a.state \in {"waiting", "dead"} /\ a.rescues > 0)
    <3>1. CASE rescues[j] = 0
      <4>1. fila[j].status = "processing"
        BY <1>1, <2>1, <3>1 DEF HolderFinds, Present
      <4> QED
        BY <1>8, <4>1
    <3>2. CASE rescues[j] # 0
      BY <1>2, <1>5, <1>6, <1>8, <2>1, <3>2 DEF Present, Status
    <3> QED
      BY <3>1, <3>2
  <2>5. Contract!Reported(a, b)
    BY <2>3, <2>4 DEF Contract!Reported
  <2> QED
    BY <2>5 DEF Contract!Step
<1> QED
  BY <1>3, <1>10, <1>11, <1>12, <1>13, <1>14, <1>15 DEF Effect, a, b

LEMMA ContractInit == LifeInit => Contract!Init
<1> SUFFICES ASSUME LifeInit PROVE \A j \in JobId : LifeOf(j) = Contract!Unborn
  BY DEF Contract!Init
<1> TAKE j \in JobId
<1>1. fila[j] = AbsentRow /\ rescues[j] = 0 /\ ~(j < nextId)
  BY DEF LifeInit, RepoInit, JobId
<1> QED
  BY <1>1, LifeShown DEF AbsentRow, Contract!Unborn

LEMMA ContractStep ==
    LifeInv /\ [LifeNext]_lifeVars => [Contract!Next]_([j \in JobId |-> LifeOf(j)])
<1> SUFFICES ASSUME LifeInv, [LifeNext]_lifeVars
             PROVE  [Contract!Next]_([j \in JobId |-> LifeOf(j)])
  OBVIOUS
<1>1. \A j \in JobId : LifeOf(j)' = LifeOf(j) \/ Contract!Step(LifeOf(j), LifeOf(j)')
  BY LifeMoves
<1> QED
  BY <1>1 DEF Contract!Next

\* The shard and its workers implement JobContract: no job is given out more
\* often than its limit and its requeues allow, what is gone stays gone, and
\* what was never requeued from outside changes only by its own worker.
THEOREM LifeKeepsContract == LifeSpec => KeepsContract
  BY ContractInit, ContractStep, LifeCorrect, PTL
     DEF LifeSpec, KeepsContract, Contract!Spec

----------------------------------------------------------------------------
(* The events *)

LEMMA EventCases ==
    ASSUME [EventsNext]_eventVars
    PROVE  \/ \E t \in Worker : Proceed(t)
           \/ \E t \in Worker : Complete(t)
           \/ \E t \in Worker, permanent \in BOOLEAN : Fail(t, permanent)
           \/ \E t \in Worker : Emit(t)
           \/ \E t \in Worker : DieSilent(t)
           \/ \E s \in Session : EnterBatch(s)
           \/ \E s \in Session, raised \in BOOLEAN : LeaveBatch(s, raised)
           \/ Others
           \/ UNCHANGED eventVars
  BY Zenon DEF EventsNext

\* The events add nothing to what workers and operator do.
LEMMA EventsAreLife ==
    ASSUME [EventsNext]_eventVars
    PROVE  [LifeNext]_lifeVars
<1>1. ASSUME NEW t \in Worker, Proceed(t) PROVE LifeNext
  BY <1>1, Zenon DEF Proceed, LifeNext
<1>2. ASSUME NEW t \in Worker, Complete(t) PROVE LifeNext
  BY <1>2, Zenon DEF Complete, LifeNext
<1>3. ASSUME NEW t \in Worker, NEW permanent \in BOOLEAN, Fail(t, permanent)
      PROVE  LifeNext
  BY <1>3, Zenon DEF Fail, LifeNext
<1>4. ASSUME NEW t \in Worker, Emit(t) PROVE UNCHANGED lifeVars
  BY <1>4 DEF Emit
<1>5. ASSUME NEW t \in Worker, DieSilent(t) PROVE LifeNext
  BY <1>5, Zenon DEF DieSilent, LifeNext
<1>6. ASSUME NEW s \in Session, EnterBatch(s) PROVE UNCHANGED lifeVars
  BY <1>6 DEF EnterBatch
<1>7. ASSUME NEW s \in Session, NEW raised \in BOOLEAN, LeaveBatch(s, raised)
      PROVE  UNCHANGED lifeVars
  BY <1>7 DEF LeaveBatch
<1>8. CASE Others
  BY <1>8, Zenon DEF Others, LifeNext
<1>9. CASE UNCHANGED eventVars
  BY <1>9 DEF eventVars
<1> QED
  BY <1>1, <1>2, <1>3, <1>4, <1>5, <1>6, <1>7, <1>8, <1>9, EventCases

\* What workers do is theirs alone.
LEMMA WorkerFrame ==
    ASSUME LifeTypeOK, NEW t \in Worker,
           \/ Poll(t) \/ FindNothing(t) \/ Succeed(t) \/ GiveUp(t)
           \/ Settle(t) \/ Die(t) \/ Restart(t) \/ Beat(t) \/ SkipBeat(t)
           \/ \E j \in JobId : Take(t, j)
           \/ \E permanent \in BOOLEAN : Raise(t, permanent),
           NEW u \in Worker, u # t
    PROVE  pc'[u] = pc[u] /\ held'[u] = held[u] /\ call'[u] = call[u]
<1>1. pc' = pc \/ \E stage : pc' = [pc EXCEPT ![t] = stage]
  BY DEF Poll, FindNothing, Succeed, GiveUp, Settle, Die, Restart, Beat,
         SkipBeat, Take, Raise, Goto
<1>2. held' = held \/ \E h : held' = [held EXCEPT ![t] = h]
  BY DEF Poll, FindNothing, Succeed, GiveUp, Settle, Die, Restart, Beat,
         SkipBeat, Take, Raise, Drop
<1>3. call' = call \/ \E c : call' = [call EXCEPT ![t] = c]
  <2>1. CASE Poll(t) \/ FindNothing(t) \/ Succeed(t) \/ GiveUp(t) \/ Restart(t)
    BY <2>1 DEF Poll, BeginPop, FindNothing, PopNothing, PopError, Return,
                Succeed, CompleteJob, GiveUp, ReadPayload, Restart, repoVars
  <2>2. CASE Settle(t) \/ Die(t) \/ Beat(t) \/ SkipBeat(t)
               \/ \E j \in JobId : Take(t, j)
    BY <2>2 DEF Settle, MoveToDeadLetter, ScheduleRetry, Return, Die, Beat,
                BeginHeartbeat, Heartbeat, SkipBeat, Take, ClaimJob
  <2>3. CASE \E permanent \in BOOLEAN : Raise(t, permanent)
    BY <2>3 DEF Raise, FailJob
  <2> QED
    BY <2>1, <2>2, <2>3
<1>4. pc'[u] = pc[u] /\ held'[u] = held[u]
  BY <1>1, <1>2 DEF LifeTypeOK
<1>5. call'[u] = call[u]
  BY <1>3, WorkersAreThreads, CallMoves DEF LifeTypeOK
<1> QED
  BY <1>4, <1>5

LEMMA OthersFrame ==
    ASSUME LifeTypeOK, Others, NEW u \in Worker
    PROVE  pc'[u] = pc[u] /\ held'[u] = held[u] /\ call'[u] = call[u]
<1>1. CASE Operate
  BY <1>1, OperateCalls DEF Operate, LifeTypeOK
<1>2. CASE (Enqueue \/ Tick) /\ UNCHANGED <<pc, held, rescues, orphaned>>
  BY <1>2 DEF Enqueue, InsertJob, InsertJobsBatch, InsertRows, Tick
<1> QED
  BY <1>1, <1>2 DEF Others

\* What a step does to the outboxes: nothing, or one worker owes an event of
\* its job, or owes nothing any more.
LEMMA OutboxMoves ==
    ASSUME EventsTypeOK, NEW t \in Worker, NEW m \in Message \cup {NULL},
           outbox' = [outbox EXCEPT ![t] = m]
    PROVE  /\ outbox' \in [Worker -> Message \cup {NULL}]
           /\ outbox'[t] = m
           /\ \A u \in Worker \ {t} : outbox'[u] = outbox[u]
  BY DEF EventsTypeOK

\* The event of a job that was just worked on.
LEMMA OweMoves ==
    ASSUME EventsTypeOK, InShard, NEW t \in Worker, NEW event \in JobEvent,
           pc[t] = "processing", Owe(t, event)
    PROVE  /\ outbox' \in [Worker -> Message \cup {NULL}]
           /\ outbox'[t] = [event |-> event, job |-> held[t].job]
           /\ outbox'[t].event = event /\ outbox'[t].job = held[t].job
           /\ held[t].job \in JobId
           /\ \A u \in Worker \ {t} : outbox'[u] = outbox[u]
<1> DEFINE m == [event |-> event, job |-> held[t].job]
<1>1. held[t] # NULL /\ held[t] \in Holding \cup {NULL}
  BY DEF InShard, EventsTypeOK, LifeTypeOK
<1>2. held[t].job \in JobId
  BY <1>1 DEF Holding
<1>3. m \in Message /\ m.event = event /\ m.job = held[t].job
  BY <1>2 DEF Message
<1>4. outbox' = [outbox EXCEPT ![t] = m]
  BY DEF Owe
<1> HIDE DEF m
<1>5. /\ outbox' \in [Worker -> Message \cup {NULL}] /\ outbox'[t] = m
      /\ \A u \in Worker \ {t} : outbox'[u] = outbox[u]
  BY <1>3, <1>4, OutboxMoves
<1> QED
  BY <1>2, <1>3, <1>5 DEF m

LEMMA EventsTypeStep ==
    ASSUME EventsTypeOK, InShard, LifeTypeOK', [EventsNext]_eventVars
    PROVE  EventsTypeOK'
<1> USE DEF EventsTypeOK
<1>1. ASSUME NEW t \in Worker, Proceed(t) PROVE EventsTypeOK'
  BY <1>1 DEF Proceed, batchVars
<1>2. ASSUME NEW t \in Worker, Complete(t) PROVE EventsTypeOK'
  <2>1. pc[t] = "processing" /\ Owe(t, "job_completed")
        /\ UNCHANGED <<batchActive, inBatch, told>>
    BY <1>2 DEF Complete, Succeed, batchVars
  <2>2. outbox' \in [Worker -> Message \cup {NULL}]
    BY <2>1, OweMoves DEF JobEvent
  <2> QED
    BY <2>1, <2>2
<1>3. ASSUME NEW t \in Worker, NEW permanent \in BOOLEAN, Fail(t, permanent)
      PROVE  EventsTypeOK'
  <2>1. pc[t] = "processing" /\ Owe(t, Outcome(permanent))
        /\ UNCHANGED <<batchActive, inBatch, told>>
    BY <1>3 DEF Fail, Raise, batchVars
  <2>2. outbox' \in [Worker -> Message \cup {NULL}]
    BY <2>1, OweMoves DEF JobEvent, Outcome
  <2> QED
    BY <2>1, <2>2
<1>4. ASSUME NEW t \in Worker, Emit(t) PROVE EventsTypeOK'
  <2>1. outbox' \in [Worker -> Message \cup {NULL}]
    BY <1>4, OutboxMoves DEF Emit
  <2>2. told' \in [JobId -> SUBSET Final]
    <3>1. told \in [JobId -> SUBSET Final] /\ outbox[t].job \in JobId
      BY <1>4 DEF Emit, Message
    <3>2. told[outbox[t].job] \cup ({outbox[t].event} \cap Final) \in SUBSET Final
      BY <3>1
    <3> QED
      BY <1>4, <3>1, <3>2 DEF Emit
  <2> QED
    BY <1>4, <2>1, <2>2 DEF Emit, batchVars
<1>5. ASSUME NEW t \in Worker, DieSilent(t) PROVE EventsTypeOK'
  <2>1. outbox' \in [Worker -> Message \cup {NULL}]
    BY <1>5, OutboxMoves DEF DieSilent
  <2> QED
    BY <1>5, <2>1 DEF DieSilent, batchVars
<1>6. ASSUME NEW s \in Session, EnterBatch(s) PROVE EventsTypeOK'
  BY <1>6 DEF EnterBatch
<1>7. ASSUME NEW s \in Session, NEW raised \in BOOLEAN, LeaveBatch(s, raised)
      PROVE  EventsTypeOK'
  BY <1>7 DEF LeaveBatch, FlagAfter
<1>8. CASE Others
  BY <1>8 DEF Others, batchVars
<1>9. CASE UNCHANGED eventVars
  BY <1>9 DEF eventVars, batchVars
<1> QED
  BY <1>1, <1>2, <1>3, <1>4, <1>5, <1>6, <1>7, <1>8, <1>9, EventCases

LEMMA QuietStep ==
    ASSUME QuietOnlyInBatch, [EventsNext]_eventVars
    PROVE  QuietOnlyInBatch'
<1> USE DEF QuietOnlyInBatch
<1>1. ASSUME NEW s \in Session, EnterBatch(s) PROVE QuietOnlyInBatch'
  BY <1>1 DEF EnterBatch
<1>2. ASSUME NEW s \in Session, NEW raised \in BOOLEAN, LeaveBatch(s, raised)
      PROVE  QuietOnlyInBatch'
  BY <1>2 DEF LeaveBatch, FlagAfter
<1>3. CASE UNCHANGED batchVars
  BY <1>3 DEF batchVars
<1>4. ASSUME NEW t \in Worker,
             \/ Proceed(t) \/ Complete(t) \/ Emit(t) \/ DieSilent(t)
             \/ \E permanent \in BOOLEAN : Fail(t, permanent)
      PROVE  UNCHANGED batchVars
  BY <1>4 DEF Proceed, Complete, Emit, DieSilent, Fail, batchVars
<1>5. ASSUME Others \/ UNCHANGED eventVars PROVE UNCHANGED batchVars
  BY <1>5 DEF Others, eventVars, batchVars
<1> QED
  BY <1>1, <1>2, <1>3, <1>4, <1>5, EventCases

\* Owing for one worker.
Owes(t) ==
    outbox[t] # NULL =>
        /\ pc[t] \in {"failing", "beating"}
        /\ pc[t] = "failing" =>
              /\ outbox[t].job = held[t].job
              /\ outbox[t].event # "job_completed"
              /\ outbox[t].event = "job_failed" => call[t].op = "move"

LEMMA OwesStays ==
    ASSUME Owing, NEW u \in Worker, pc'[u] = pc[u], held'[u] = held[u],
           call'[u] = call[u], outbox'[u] = outbox[u]
    PROVE  Owes(u)'
<1>1. Owes(u)
  BY DEF Owing, Owes
<1> QED
  BY <1>1 DEF Owes

\* A worker that goes on to something else owes nothing, or what it owed.
LEMMA ProceedOwes ==
    ASSUME EventsTypeOK, InShard, Owing, NEW t \in Worker, Proceed(t)
    PROVE  Owes(t)'
<1>1. outbox' = outbox /\ Owes(t) /\ LifeTypeOK
  BY DEF Proceed, Owing, Owes, EventsTypeOK
<1>2. CASE Poll(t) \/ (\E j \in JobId : Take(t, j)) \/ FindNothing(t) \/ Restart(t)
  <2>1. pc[t] \notin {"failing", "beating"}
    BY <1>2 DEF Poll, Take, FindNothing, Restart
  <2> QED
    BY <1>1, <2>1 DEF Owes
<1>3. CASE GiveUp(t)
  <2>1. /\ pc[t] = "failing" /\ pc' = pc /\ held' = held
        /\ call[t].op = "exhausted"
    BY <1>3 DEF GiveUp, ReadPayload
  <2> QED
    BY <1>1, <2>1 DEF Owes
<1>4. CASE Settle(t)
  <2>1. pc'[t] = "beating"
    BY <1>1, <1>4 DEF Settle, Goto, LifeTypeOK
  <2> QED
    BY <2>1 DEF Owes
<1>5. CASE outbox[t] = NULL
  BY <1>1, <1>5 DEF Owes
<1> QED
  BY <1>2, <1>3, <1>4, <1>5 DEF Proceed

LEMMA FailOwes ==
    ASSUME EventsTypeOK, InShard, NEW t \in Worker, NEW permanent \in BOOLEAN,
           Fail(t, permanent)
    PROVE  /\ Owes(t)'
           /\ outbox'[t].event # "job_completed"
           /\ outbox'[t].event = "job_failed" => pc'[t] = "failing"
<1>1. /\ pc[t] = "processing" /\ FailJob(t, held[t].job, permanent)
      /\ \/ call'[t] = NoCall /\ Goto(t, "beating")
         \/ call'[t] # NoCall /\ Goto(t, "failing") /\ held' = held
  BY DEF Fail, Raise
<1>2. /\ outbox'[t].event = Outcome(permanent) /\ outbox'[t].job = held[t].job
      /\ held[t].job \in JobId
  <2>1. Owe(t, Outcome(permanent)) /\ Outcome(permanent) \in JobEvent
    BY DEF Fail, Outcome, JobEvent
  <2> QED
    BY <1>1, <2>1, OweMoves
<1>3. TypeOK /\ t \in Thread
  BY WorkersAreThreads DEF EventsTypeOK, LifeTypeOK
<1>4. permanent => call'[t].op = "move" /\ call'[t] # NoCall
  <2>1. permanent => call'[t].op = "move"
    BY <1>1, <1>2, <1>3, FailJobCall
  <2> QED
    BY <2>1 DEF NoCall
<1>5. Outcome(permanent) \in JobEvent /\ Outcome(permanent) # "job_completed"
      /\ (Outcome(permanent) = "job_failed" => permanent)
  BY DEF Outcome, JobEvent
<1>6. pc'[t] \in {"failing", "beating"} /\ (pc'[t] = "failing" => held'[t] = held[t])
      /\ (permanent => pc'[t] = "failing")
  BY <1>1, <1>4 DEF Goto, EventsTypeOK, LifeTypeOK
<1> QED
  BY <1>2, <1>4, <1>5, <1>6 DEF Owes

LEMMA OwingStep ==
    ASSUME EventsTypeOK, InShard, Owing, [EventsNext]_eventVars
    PROVE  Owing'
<1> SUFFICES ASSUME NEW u \in Worker PROVE Owes(u)'
  BY DEF Owing, Owes
<1>1. LifeTypeOK
  BY DEF EventsTypeOK
<1>2. ASSUME NEW t \in Worker, Proceed(t) PROVE Owes(u)'
  <2>1. CASE u = t
    BY <1>2, <2>1, ProceedOwes
  <2>2. CASE u # t
    <3>1. pc'[u] = pc[u] /\ held'[u] = held[u] /\ call'[u] = call[u]
      BY <1>1, <1>2, <2>2, WorkerFrame DEF Proceed
    <3> QED
      BY <1>2, <3>1, OwesStays DEF Proceed
  <2> QED
    BY <2>1, <2>2
<1>3. ASSUME NEW t \in Worker, Complete(t) PROVE Owes(u)'
  <2>1. Succeed(t) /\ pc[t] = "processing" /\ Owe(t, "job_completed")
    BY <1>3 DEF Complete, Succeed
  <2>2. CASE u = t
    <3>1. pc'[t] = "beating"
      BY <1>1, <2>1 DEF Succeed, Goto, LifeTypeOK
    <3> QED
      BY <2>2, <3>1 DEF Owes
  <2>3. CASE u # t
    <3>1. pc'[u] = pc[u] /\ held'[u] = held[u] /\ call'[u] = call[u]
      BY <1>1, <2>1, <2>3, WorkerFrame
    <3>2. outbox'[u] = outbox[u]
      BY <2>1, <2>3, OweMoves DEF JobEvent
    <3> QED
      BY <3>1, <3>2, OwesStays
  <2> QED
    BY <2>2, <2>3
<1>4. ASSUME NEW t \in Worker, NEW permanent \in BOOLEAN, Fail(t, permanent)
      PROVE  Owes(u)'
  <2>1. /\ Raise(t, permanent) /\ pc[t] = "processing"
        /\ Owe(t, Outcome(permanent)) /\ Outcome(permanent) \in JobEvent
    BY <1>4 DEF Fail, Raise, Outcome, JobEvent
  <2>2. CASE u = t
    BY <1>4, <2>2, FailOwes
  <2>3. CASE u # t
    <3>1. pc'[u] = pc[u] /\ held'[u] = held[u] /\ call'[u] = call[u]
      BY <1>1, <2>1, <2>3, WorkerFrame
    <3>2. outbox'[u] = outbox[u]
      BY <2>1, <2>3, OweMoves
    <3> QED
      BY <3>1, <3>2, OwesStays
  <2> QED
    BY <2>2, <2>3
<1>5. ASSUME NEW t \in Worker, Emit(t) \/ DieSilent(t) PROVE Owes(u)'
  <2>1. outbox' = [outbox EXCEPT ![t] = NULL]
    BY <1>5 DEF Emit, DieSilent
  <2>2. outbox'[t] = NULL /\ (u # t => outbox'[u] = outbox[u])
    BY <2>1, OutboxMoves
  <2>3. CASE u = t
    BY <2>2, <2>3 DEF Owes
  <2>4. CASE u # t
    <3>1. pc'[u] = pc[u] /\ held'[u] = held[u] /\ call'[u] = call[u]
      <4>1. CASE Emit(t)
        BY <4>1 DEF Emit, lifeVars
      <4>2. CASE DieSilent(t)
        BY <1>1, <2>4, <4>2, WorkerFrame DEF DieSilent
      <4> QED
        BY <1>5, <4>1, <4>2
    <3> QED
      BY <2>2, <2>4, <3>1, OwesStays
  <2> QED
    BY <2>3, <2>4
<1>6. CASE Others
  BY <1>1, <1>6, OthersFrame, OwesStays DEF Others
<1>7. ASSUME \/ \E s \in Session : EnterBatch(s)
             \/ \E s \in Session, raised \in BOOLEAN : LeaveBatch(s, raised)
             \/ UNCHANGED eventVars
      PROVE  Owes(u)'
  <2>1. UNCHANGED lifeVars /\ outbox' = outbox
    BY <1>7 DEF EnterBatch, LeaveBatch, eventVars
  <2> QED
    BY <2>1, OwesStays DEF lifeVars
<1> QED
  BY <1>2, <1>3, <1>4, <1>5, <1>6, <1>7, EventCases

\* No step makes more of what was said and is owed of a job.
NoNews(j) ==
    /\ Completed(j)' => Completed(j)
    /\ Failed(j)' => Failed(j)

LEMMA SaysNoMore ==
    ASSUME NEW j, told'[j] \subseteq told[j], outbox' = outbox,
           \A u \in Worker : pc'[u] = "beating" => pc[u] = "beating"
                                \/ outbox[u] # [event |-> "job_failed", job |-> j]
    PROVE  NoNews(j)
<1>1. Completed(j)' => Completed(j)
  BY DEF Completed
<1>2. Failed(j)' => Failed(j)
  BY DEF Failed
<1> QED
  BY <1>1, <1>2 DEF NoNews

\* A job is settled for its listeners by complete_job, or when fail_job that
\* was permanent returns; nothing else adds to what is said and owed of it.
LEMMA NewsOf ==
    ASSUME EventsTypeOK, InShard, Owing, [EventsNext]_eventVars, NEW j \in JobId
    PROVE  \/ NoNews(j)
           \/ \E t \in Worker :
                 /\ Succeed(t) /\ held[t].job = j
                 /\ Failed(j)' => Failed(j)
           \/ \E t \in Worker :
                 /\ Settle(t) /\ outbox[t] = [event |-> "job_failed", job |-> j]
                 /\ Completed(j)' => Completed(j)
<1>1. LifeTypeOK /\ pc \in [Worker -> Stage]
  BY DEF EventsTypeOK, LifeTypeOK
<1>2. ASSUME NEW t \in Worker, Proceed(t), ~NoNews(j)
      PROVE  /\ Settle(t) /\ outbox[t] = [event |-> "job_failed", job |-> j]
             /\ Completed(j)' => Completed(j)
  <2>1. outbox' = outbox /\ told' = told
    BY <1>2 DEF Proceed
  <2>2. Completed(j)' => Completed(j)
    BY <2>1 DEF Completed
  <2>3. \A u \in Worker \ {t} : pc'[u] = pc[u]
    BY <1>1, <1>2, WorkerFrame DEF Proceed
  <2>4. pc'[t] = "beating" => pc[t] = "beating" \/ Settle(t)
    BY <1>1, <1>2 DEF Proceed, Poll, Take, FindNothing, GiveUp, Restart, Beat,
                      SkipBeat, Goto
  <2>5. Settle(t) /\ outbox[t] = [event |-> "job_failed", job |-> j]
    BY <1>2, <2>1, <2>3, <2>4, SaysNoMore
  <2> QED
    BY <2>2, <2>5
<1>3. ASSUME NEW t \in Worker, Complete(t)
      PROVE  NoNews(j) \/ (/\ Succeed(t) /\ held[t].job = j
                           /\ Failed(j)' => Failed(j))
  <2>1. /\ Succeed(t) /\ pc[t] = "processing" /\ Owe(t, "job_completed")
        /\ told' = told
    BY <1>3 DEF Complete, Succeed
  <2>2. /\ outbox'[t] = [event |-> "job_completed", job |-> held[t].job]
        /\ \A u \in Worker \ {t} : outbox'[u] = outbox[u]
    BY <2>1, OweMoves DEF JobEvent
  <2>3. \A u \in Worker \ {t} : pc'[u] = pc[u]
    BY <1>1, <2>1, WorkerFrame
  <2>4. Failed(j)' => Failed(j)
    BY <2>1, <2>2, <2>3 DEF Failed
  <2>5. held[t].job # j => (Completed(j)' => Completed(j))
    BY <2>1, <2>2 DEF Completed
  <2> QED
    BY <2>1, <2>4, <2>5 DEF NoNews
<1>4. ASSUME NEW t \in Worker, NEW permanent \in BOOLEAN, Fail(t, permanent)
      PROVE  NoNews(j)
  <2>1. /\ Raise(t, permanent) /\ pc[t] = "processing"
        /\ Owe(t, Outcome(permanent)) /\ Outcome(permanent) \in JobEvent
        /\ told' = told
    BY <1>4 DEF Fail, Raise, Outcome, JobEvent
  <2>2. \A u \in Worker \ {t} : outbox'[u] = outbox[u] /\ pc'[u] = pc[u]
    BY <1>1, <2>1, OweMoves, WorkerFrame
  <2>3. /\ outbox'[t].event # "job_completed"
        /\ outbox'[t].event = "job_failed" => pc'[t] # "beating"
    BY <1>4, FailOwes
  <2>4. Completed(j)' => Completed(j)
    BY <2>1, <2>2, <2>3 DEF Completed
  <2>5. Failed(j)' => Failed(j)
    BY <2>1, <2>2, <2>3 DEF Failed
  <2> QED
    BY <2>4, <2>5 DEF NoNews
<1>5. ASSUME NEW t \in Worker, Emit(t) PROVE NoNews(j)
  <2>1. outbox'[t] = NULL /\ \A u \in Worker \ {t} : outbox'[u] = outbox[u]
    BY <1>5, OutboxMoves DEF Emit
  <2>2. /\ pc' = pc /\ pc[t] = "beating"
        /\ outbox[t] \in Message
    BY <1>5 DEF Emit, lifeVars, EventsTypeOK
  <2>3. outbox[t] = [event |-> outbox[t].event, job |-> outbox[t].job]
    BY <2>2 DEF Message
  <2>4. \/ told'[j] = told[j]
        \/ /\ outbox[t].job = j
           /\ told'[j] = told[j] \cup ({outbox[t].event} \cap Final)
    BY <1>5 DEF Emit, EventsTypeOK
  <2>5. NULL # [event |-> "job_completed", job |-> j]
        /\ NULL # [event |-> "job_failed", job |-> j]
    BY MessageAssumption DEF Message, JobEvent
  <2>6. Completed(j)' => Completed(j)
    BY <2>1, <2>3, <2>4, <2>5 DEF Completed
  <2>7. Failed(j)' => Failed(j)
    BY <2>1, <2>2, <2>3, <2>4, <2>5 DEF Failed
  <2> QED
    BY <2>6, <2>7 DEF NoNews
<1>6. ASSUME NEW t \in Worker, DieSilent(t) PROVE NoNews(j)
  <2>1. outbox'[t] = NULL /\ \A u \in Worker \ {t} : outbox'[u] = outbox[u]
    BY <1>6, OutboxMoves DEF DieSilent
  <2>2. told' = told /\ \A u \in Worker \ {t} : pc'[u] = pc[u]
    BY <1>1, <1>6, WorkerFrame DEF DieSilent
  <2>3. NULL # [event |-> "job_completed", job |-> j]
        /\ NULL # [event |-> "job_failed", job |-> j]
    BY MessageAssumption DEF Message, JobEvent
  <2>4. Completed(j)' => Completed(j)
    BY <2>1, <2>2, <2>3 DEF Completed
  <2>5. Failed(j)' => Failed(j)
    BY <2>1, <2>2, <2>3 DEF Failed
  <2> QED
    BY <2>4, <2>5 DEF NoNews
<1>7. CASE Others
  <2>1. outbox' = outbox /\ told' = told /\ \A u \in Worker : pc'[u] = pc[u]
    BY <1>1, <1>7, OthersFrame DEF Others
  <2> QED
    BY <2>1, SaysNoMore
<1>8. ASSUME \/ \E s \in Session : EnterBatch(s)
             \/ \E s \in Session, raised \in BOOLEAN : LeaveBatch(s, raised)
             \/ UNCHANGED eventVars
      PROVE  NoNews(j)
  <2>1. outbox' = outbox /\ told' = told /\ pc' = pc
    BY <1>8 DEF EnterBatch, LeaveBatch, eventVars, lifeVars
  <2> QED
    BY <2>1, SaysNoMore
<1> QED
  BY <1>2, <1>3, <1>4, <1>5, <1>6, <1>7, <1>8, EventCases

\* What was settled stays settled, and nobody gets the job.
LEMMA FinalStays ==
    ASSUME RepoInv, LifeTypeOK, InShard, OwedIsFinal, nextId <= nextId',
           LifeTypeOK', NEW j \in JobId, Effect(j)
    PROVE  /\ Completed(j) => fila'[j].status = "absent" /\ j < nextId'
           /\ Failed(j) /\ rescues'[j] = 0 =>
                 fila'[j].status \in {"failed", "absent"} /\ j < nextId'
           /\ (Completed(j) \/ Failed(j)) /\ rescues'[j] = 0 =>
                 \A u \in Worker : held'[u] # NULL => held'[u].job # j
<1>1. nextId \in Nat /\ nextId' \in Nat /\ j \in Nat
  BY ConstantsAssumption DEF LifeTypeOK, TypeOK, JobId
<1>2. /\ Completed(j) => fila[j].status = "absent" /\ j < nextId
      /\ Failed(j) /\ rescues[j] = 0 =>
            fila[j].status \in {"failed", "absent"} /\ j < nextId
      /\ (Completed(j) \/ Failed(j)) /\ rescues[j] = 0 =>
            \A u \in Worker : ~Holds(u, j)
  BY DEF OwedIsFinal, Present
<1>3. rescues'[j] = 0 => rescues[j] = 0 /\ ~WasRequeued(j)
  BY RescuesGrow
<1>4. j < nextId => j < nextId'
  BY <1>1
<1>5. j < nextId => ~WasInserted(j)
  BY <1>1 DEF WasInserted
<1>6. ASSUME Completed(j) PROVE fila'[j].status = "absent"
  <2>1. Untouched(j)
    BY <1>2, <1>5, <1>6 DEF Effect, WasRemoved, WasRequeued, WasTaken, WasSettled,
                            Present
  <2> QED
    BY <1>2, <1>6, <2>1 DEF Untouched
<1>7. ASSUME Failed(j), rescues'[j] = 0
      PROVE  fila'[j].status \in {"failed", "absent"}
  <2>1. \A u \in Worker : ~WasSettled(u, j) /\ ~WasTaken(u, j)
    BY <1>2, <1>3, <1>7 DEF WasSettled, WasTaken
  <2>2. Untouched(j) \/ WasRemoved(j)
    BY <1>2, <1>3, <1>5, <1>7, <2>1 DEF Effect
  <2> QED
    BY <1>2, <1>3, <1>7, <2>2 DEF Untouched, WasRemoved, AbsentRow
<1>8. ASSUME Completed(j) \/ Failed(j), rescues'[j] = 0, NEW u \in Worker,
             held'[u] # NULL, held'[u].job = j
      PROVE  FALSE
  <2>1. ~WasTaken(u, j)
    BY <1>2, <1>3, <1>8 DEF WasTaken
  <2>2. Holds(u, j)
    BY <1>8, <2>1, HolderBefore
  <2> QED
    BY <1>2, <1>3, <1>8, <2>2
<1> QED
  BY <1>2, <1>3, <1>4, <1>6, <1>7, <1>8

\* Where the one holder of a job let it go and the row is not in processing,
\* nobody has it.
LEMMA LetGo ==
    ASSUME RepoInv, LifeTypeOK, InShard, HolderFinds, NEW j \in JobId, Effect(j),
           NEW t \in Worker, Holds(t, j), held'[t] = NULL,
           fila'[j].status # "processing", rescues[j] = 0
    PROVE  \A u \in Worker : held'[u] # NULL => held'[u].job # j
<1> SUFFICES ASSUME NEW u \in Worker, held'[u] # NULL, held'[u].job = j
             PROVE  FALSE
  OBVIOUS
<1>1. ~WasTaken(u, j)
  BY DEF WasTaken
<1>2. Holds(u, j)
  BY <1>1, HolderBefore
<1>3. u = t
  BY <1>2 DEF HolderFinds
<1> QED
  BY <1>3

LEMMA OwedIsFinalStep ==
    ASSUME LifeInv, EventsTypeOK, Owing, OwedIsFinal, [EventsNext]_eventVars
    PROVE  OwedIsFinal'
<1> SUFFICES ASSUME NEW j \in JobId
             PROVE  /\ Completed(j)' => fila'[j].status = "absent" /\ j < nextId'
                    /\ Failed(j)' /\ rescues'[j] = 0 =>
                          /\ ~Completed(j)'
                          /\ fila'[j].status \in {"failed", "absent"}
                          /\ j < nextId'
                    /\ (Completed(j)' \/ Failed(j)') /\ rescues'[j] = 0 =>
                          \A u \in Worker : held'[u] # NULL => held'[u].job # j
  BY DEF OwedIsFinal, Present, Holds
<1>1. /\ RepoInv /\ LifeTypeOK /\ InShard /\ Blank /\ HolderFinds
      /\ [LifeNext]_lifeVars
  BY EventsAreLife DEF LifeInv
<1>2. LifeTypeOK' /\ nextId <= nextId' /\ Effect(j)
  BY <1>1, PlacedStep, Effects
<1>3. /\ Completed(j) => fila'[j].status = "absent" /\ j < nextId'
      /\ Failed(j) /\ rescues'[j] = 0 =>
            fila'[j].status \in {"failed", "absent"} /\ j < nextId'
      /\ (Completed(j) \/ Failed(j)) /\ rescues'[j] = 0 =>
            \A u \in Worker : held'[u] # NULL => held'[u].job # j
  BY <1>1, <1>2, FinalStays
<1>4. rescues'[j] = 0 => rescues[j] = 0
  BY <1>1, <1>2, RescuesGrow
<1>5. /\ Failed(j) /\ rescues[j] = 0 => ~Completed(j)
      /\ (Completed(j) \/ Failed(j)) /\ rescues[j] = 0 =>
            \A u \in Worker : ~Holds(u, j)
  BY DEF OwedIsFinal
<1>6. CASE NoNews(j)
  BY <1>3, <1>4, <1>5, <1>6 DEF NoNews
<1>7. ASSUME NEW t \in Worker, Succeed(t), held[t].job = j, Failed(j)' => Failed(j)
      PROVE  /\ fila'[j].status = "absent" /\ j < nextId'
             /\ rescues'[j] = 0 =>
                   /\ ~Failed(j)'
                   /\ \A u \in Worker : held'[u] # NULL => held'[u].job # j
  <2>1. /\ fila' = [fila EXCEPT ![held[t].job] = AbsentRow]
        /\ held' = [held EXCEPT ![t] = NULL]
        /\ nextId' = nextId /\ pc[t] = "processing"
    BY <1>7 DEF Succeed, CompleteJob, Drop
  <2>2. Holds(t, j) /\ j < nextId'
    BY <1>1, <1>7, <2>1 DEF InShard, Holds
  <2>3. fila'[j] = AbsentRow /\ held'[t] = NULL
    BY <1>1, <1>7, <2>1 DEF LifeTypeOK, TypeOK
  <2>4. fila'[j].status = "absent"
    BY <2>3 DEF AbsentRow
  <2>5. rescues[j] = 0 =>
           \A u \in Worker : held'[u] # NULL => held'[u].job # j
    BY <1>1, <1>2, <2>2, <2>3, <2>4, LetGo
  <2> QED
    BY <1>4, <1>5, <1>7, <2>2, <2>4, <2>5
<1>8. ASSUME NEW t \in Worker, Settle(t),
             outbox[t] = [event |-> "job_failed", job |-> j],
             Completed(j)' => Completed(j)
      PROVE  rescues'[j] = 0 =>
                /\ ~Completed(j)'
                /\ fila'[j].status \in {"failed", "absent"} /\ j < nextId'
                /\ \A u \in Worker : held'[u] # NULL => held'[u].job # j
  <2>1. outbox[t] # NULL /\ outbox[t].event = "job_failed" /\ outbox[t].job = j
    BY <1>8, MessageAssumption DEF Message, JobEvent
  <2>2. pc[t] = "failing" /\ held' = [held EXCEPT ![t] = NULL]
    BY <1>8 DEF Settle, Drop
  <2>3. /\ held[t].job = j /\ call[t].op = "move" /\ call[t].job = j
        /\ Holds(t, j) /\ j < nextId
    BY <1>1, <2>1, <2>2 DEF Owing, InShard, Holds
  <2>4. MoveToDeadLetter(t)
    BY <1>8, <2>3 DEF Settle, ScheduleRetry
  <2>5. fila'[j] = DeadRow(fila[j]) /\ nextId' = nextId /\ held'[t] = NULL
    BY <1>1, <2>2, <2>3, <2>4 DEF MoveToDeadLetter, LifeTypeOK, TypeOK
  <2>6. fila'[j].status \in {"failed", "absent"}
    <3>1. fila[j] \in Row
      BY <1>1 DEF LifeTypeOK, TypeOK
    <3> QED
      BY <2>5, <3>1 DEF DeadRow, Row
  <2>7. rescues[j] = 0 =>
           \A u \in Worker : held'[u] # NULL => held'[u].job # j
    BY <1>1, <1>2, <2>3, <2>5, <2>6, LetGo
  <2> QED
    BY <1>4, <1>5, <1>8, <2>3, <2>5, <2>6, <2>7
<1>9. NoNews(j) \/ (\E t \in Worker :
                       /\ Succeed(t) /\ held[t].job = j
                       /\ Failed(j)' => Failed(j))
         \/ (\E t \in Worker :
                /\ Settle(t) /\ outbox[t] = [event |-> "job_failed", job |-> j]
                /\ Completed(j)' => Completed(j))
  BY <1>1, NewsOf
<1> QED
  BY <1>3, <1>6, <1>7, <1>8, <1>9

LEMMA EventsInvInit == EventsInit => EventsInv
<1> SUFFICES ASSUME EventsInit PROVE EventsInv
  OBVIOUS
<1>1. LifeInv
  BY LifeInvInit DEF EventsInit
<1>2. EventsTypeOK
  BY <1>1 DEF LifeInv, EventsInit, EventsTypeOK
<1>3. \A t \in Worker : outbox[t] = NULL
  BY DEF EventsInit
<1>4. Owing /\ QuietOnlyInBatch
  BY <1>3 DEF EventsInit, Owing, QuietOnlyInBatch
<1>5. \A j \in JobId : ~Completed(j) /\ ~Failed(j)
  <2>1. \A j \in JobId : /\ NULL # [event |-> "job_completed", job |-> j]
                        /\ NULL # [event |-> "job_failed", job |-> j]
    BY MessageAssumption DEF Message, JobEvent
  <2> QED
    BY <1>3, <2>1 DEF EventsInit, Completed, Failed
<1>6. OwedIsFinal
  BY <1>5 DEF OwedIsFinal
<1> QED
  BY <1>1, <1>2, <1>4, <1>6 DEF EventsInv

LEMMA EventsInvStep == EventsInv /\ [EventsNext]_eventVars => EventsInv'
<1> SUFFICES ASSUME EventsInv, [EventsNext]_eventVars PROVE EventsInv'
  OBVIOUS
<1>1. LifeInv /\ EventsTypeOK /\ Owing /\ OwedIsFinal /\ QuietOnlyInBatch /\ InShard
  BY DEF EventsInv, LifeInv
<1>2. LifeInv'
  BY <1>1, EventsAreLife, LifeInvStep
<1>3. EventsTypeOK'
  BY <1>1, <1>2, EventsTypeStep DEF LifeInv
<1>4. Owing' /\ OwedIsFinal' /\ QuietOnlyInBatch'
  BY <1>1, OwingStep, OwedIsFinalStep, QuietStep
<1> QED
  BY <1>2, <1>3, <1>4 DEF EventsInv

\* What the workers owe their listeners and what those have heard agrees with
\* the rows and with who works on them, whatever dies, is requeued or is
\* silenced by batch().
THEOREM EventsCorrect == EventsSpec => []EventsInv
  BY EventsInvInit, EventsInvStep, PTL DEF EventsSpec

\* Listeners change nothing: with its events the queue is still the workers
\* and the shard of JobLifecycle, so that what is proved of those holds here.
THEOREM EventsOnlyTell == EventsSpec => LifeSpec
<1>1. EventsInit => LifeInit
  BY DEF EventsInit
<1> QED
  BY <1>1, EventsAreLife, PTL DEF EventsSpec, LifeSpec

\* A listener may act on job_completed and job_failed, however late: there is
\* no row and never will be, or the job is dead or gone unless it was requeued
\* from outside.
THEOREM AnnouncedCorrect == EventsSpec => []AnnouncedIsFinal
<1>1. EventsInv => AnnouncedIsFinal
  BY DEF EventsInv, OwedIsFinal, AnnouncedIsFinal, Completed, Failed
<1> QED
  BY <1>1, EventsCorrect, PTL

\* No overlap of batch() sessions, ended by exceptions or not, leaves the
\* queue silent with nobody inside.
THEOREM QuietCorrect == EventsSpec => []QuietOnlyInBatch
  BY EventsCorrect, PTL DEF EventsInv

\* The queue as its listeners know it keeps the contract with each producer.
THEOREM QueueKeepsContract == EventsSpec => KeepsContract
  BY EventsOnlyTell, LifeKeepsContract, PTL

=============================================================================
