----------------------- MODULE ShardRepositoryProofs -----------------------
(* Theorems about ShardRepository, for every value of its constants. *)
EXTENDS ShardRepository, Integers, TLAPS

\* One step of RepoNext is one of these (the disjuncts with their parameters
\* in scope); stated once for the proofs below.
LEMMA StepCases ==
    ASSUME RepoNext
    PROVE  \/ \E p \in Priorities, m \in Retries : InsertJob(p, m)
           \/ InsertJobsBatch
           \/ \E t \in Thread :
                 \/ \E w \in WorkerId : BeginPop(t, w) \/ BeginHeartbeat(t, w)
                 \/ \E j \in JobId : ClaimJob(t, j)
                 \/ PopNothing(t) \/ PopError(t)
                 \/ \E j \in JobId : j < nextId /\ CompleteJob(t, j)
                 \/ \E j \in JobId, permanent \in BOOLEAN :
                       j < nextId /\ FailJob(t, j, permanent)
                 \/ ReadPayload(t) \/ MoveToDeadLetter(t)
                 \/ \E d \in RetryDelays : ScheduleRetry(t, d)
                 \/ FailError(t) \/ UpdateError(t)
                 \/ Heartbeat(t) \/ BeginRecover(t) \/ RecoverOrphans(t)
           \/ RetryFailedJobs
           \/ \E j \in JobId : RetryJob(j)
           \/ \E statuses \in SUBSET (Status \ {"absent"}) : PurgeJobs(statuses)
           \/ \E days \in RetentionDays : CleanupOldJobs(days)
           \/ Tick
  BY Zenon DEF RepoNext, Enqueue, Maintenance

\* Rows stay rows under every way the code has to write them.
LEMMA RowsTyped ==
    ASSUME NEW row \in Row, NEW stamp \in Nat,
           clock \in Nat
    PROVE  /\ AbsentRow \in Row
           /\ \A w \in WorkerId : Claimed(row, w, stamp) \in Row
           /\ DeadRow(row) \in Row
           /\ \A d \in RetryDelays : Rescheduled(row, d) \in Row
           /\ Requeued(row, stamp) \in Row
           /\ [row EXCEPT !.heartbeat = stamp] \in Row
<1>1. AbsentRow \in Row
  BY DEF Row, Status, AbsentRow
<1>2. ASSUME NEW w \in WorkerId
      PROVE  Claimed(row, w, stamp) \in Row
  <2>1. row.tentativas + 1 \in Nat
    BY DEF Row
  <2> QED
    BY <2>1 DEF Row, Status, Claimed
<1>3. DeadRow(row) \in Row
  BY DEF Row, Status, DeadRow
<1>4. ASSUME NEW d \in RetryDelays
      PROVE  Rescheduled(row, d) \in Row
  <2>1. clock + d \in Nat
    BY ConstantsAssumption
  <2> QED
    BY <2>1 DEF Row, Status, Rescheduled
<1>5. Requeued(row, stamp) \in Row
  BY DEF Row, Status, Requeued
<1>6. [row EXCEPT !.heartbeat = stamp] \in Row
  BY DEF Row
<1> QED
  BY <1>1, <1>2, <1>3, <1>4, <1>5, <1>6

LEMMA NewRowTyped ==
    ASSUME NEW p \in Priorities, NEW m \in Retries,
           clock \in Nat
    PROVE  NewRow(p, m) \in Row
<1>1. p \in {0, 1, 2} /\ m + 1 \in Nat
  BY ConstantsAssumption
<1> QED
  BY <1>1 DEF NewRow, Row, Status

LEMMA InsertTyped ==
    ASSUME TypeOK,
           NEW rows \in Seq(Priorities \X Retries), InsertRows(rows)
    PROVE  TypeOK'
<1>1. Len(rows) \in Nat /\ nextId \in Nat /\ MaxJobs \in Nat
  BY ConstantsAssumption DEF TypeOK
<1>2. nextId' \in 1 .. MaxJobs + 1
  BY <1>1 DEF InsertRows, TypeOK
<1>3. ASSUME NEW j \in JobId
      PROVE  fila'[j] \in Row
  <2>1. CASE j >= nextId /\ j < nextId + Len(rows)
    <3>1. j - nextId + 1 \in 1 .. Len(rows)
      BY <1>1, <2>1 DEF JobId
    <3>2. rows[j - nextId + 1] \in Priorities \X Retries
      BY <3>1
    <3>3. fila'[j] = NewRow(rows[j - nextId + 1][1], rows[j - nextId + 1][2])
      BY <2>1 DEF InsertRows
    <3> QED
      BY <3>2, <3>3, NewRowTyped DEF TypeOK
  <2>2. CASE ~(j >= nextId /\ j < nextId + Len(rows))
    BY <2>2 DEF InsertRows, TypeOK
  <2> QED
    BY <2>1, <2>2
<1>4. fila' \in [JobId -> Row]
  BY <1>3 DEF InsertRows
<1> QED
  BY <1>2, <1>4 DEF InsertRows, TypeOK

LEMMA BatchIsSeq ==
    ASSUME NEW S, NEW n \in Nat, NEW rows \in [1 .. n -> S]
    PROVE  rows \in Seq(S)
  OBVIOUS

\* The operation in progress has the fields its name calls for.
LEMMA CallTyped ==
    ASSUME NEW c \in Call
    PROVE  /\ c.op \in {"none", "pop", "heartbeat", "recover", "reschedule",
                        "exhausted", "move"}
           /\ c.op \in {"pop", "heartbeat"} => c.worker \in WorkerId
           /\ c.op \in {"pop", "heartbeat", "recover"} => c.stamp \in Nat
           /\ c.op \in {"reschedule", "exhausted", "move"} => c.job \in JobId
           /\ c.op = "move" => c.present \in BOOLEAN
  BY DEF Call

----------------------------------------------------------------------------
(* Type correctness *)

\* Steps that change no row keep the type of the rest.
LEMMA CallStepTyped ==
    ASSUME TypeOK, NEW t \in Thread, NEW c \in Call,
           call' = [call EXCEPT ![t] = c],
           UNCHANGED <<fila, nextId, dlq, processed, failed, clock>>
    PROVE  TypeOK'
  BY DEF TypeOK

\* Statements that write rows, one by one.
LEMMA RowStepTyped ==
    ASSUME TypeOK, fila' \in [JobId -> Row],
           call' = call \/ \E t \in Thread : Return(t),
           UNCHANGED <<nextId, dlq, processed, failed, clock>>
    PROVE  TypeOK'
<1>1. NoCall \in Call
  BY DEF NoCall, Call
<1>2. call' \in [Thread -> Call]
  BY <1>1 DEF TypeOK, Return
<1> QED
  BY <1>2 DEF TypeOK

LEMMA TypeStep ==
    ASSUME TypeOK, [RepoNext]_repoVars
    PROVE  TypeOK'
<1> USE DEF Idle
<1>0. NoCall \in Call /\ \A m \in Nat : Bump(m) \in Nat
  BY DEF NoCall, Call, Bump
<1>1. /\ clock \in Nat /\ clock \in Nat
      /\ \A t \in Thread : call[t] \in Call
      /\ \A j \in JobId : fila[j] \in Row
  BY DEF TypeOK
<1>2. CASE UNCHANGED repoVars
  BY <1>2 DEF repoVars, TypeOK
<1>3. ASSUME NEW p \in Priorities, NEW m \in Retries, InsertJob(p, m)
      PROVE  TypeOK'
  <2>1. << <<p, m>> >> \in Seq(Priorities \X Retries)
    OBVIOUS
  <2> QED
    BY <1>3, <2>1, InsertTyped DEF InsertJob
<1>4. CASE InsertJobsBatch
  <2>1. PICK n \in BatchSizes : \E rows \in [1 .. n -> Priorities \X Retries] :
                                    InsertRows(rows)
    BY <1>4 DEF InsertJobsBatch
  <2>2. n \in Nat
    BY ConstantsAssumption
  <2>3. PICK rows \in [1 .. n -> Priorities \X Retries] : InsertRows(rows)
    BY <2>1
  <2> QED
    BY <2>2, <2>3, BatchIsSeq, InsertTyped
<1>5. ASSUME NEW t \in Thread, NEW w \in WorkerId,
             BeginPop(t, w) \/ BeginHeartbeat(t, w)
      PROVE  TypeOK'
  <2>1. \A o \in {"pop", "heartbeat"} :
           [op |-> o, worker |-> w, stamp |-> clock] \in Call
    BY <1>1 DEF Call
  <2> QED
    BY <1>5, <2>1, CallStepTyped DEF BeginPop, BeginHeartbeat
<1>6. ASSUME NEW t \in Thread, NEW j \in JobId, ClaimJob(t, j)
      PROVE  TypeOK'
  <2>1. call[t].worker \in WorkerId /\ call[t].stamp \in Nat
    BY <1>1, <1>6, CallTyped DEF ClaimJob
  <2>2. Claimed(fila[j], call[t].worker, call[t].stamp) \in Row
    BY <1>1, <2>1, RowsTyped
  <2>3. fila' \in [JobId -> Row]
    BY <1>6, <2>2 DEF ClaimJob, TypeOK
  <2> QED
    BY <1>6, <2>3, RowStepTyped DEF ClaimJob
<1>7. ASSUME NEW t \in Thread, PopNothing(t) \/ PopError(t) \/ FailError(t) \/ UpdateError(t)
      PROVE  TypeOK'
  BY <1>0, <1>7, CallStepTyped
     DEF PopNothing, PopError, FailError, UpdateError, Return
<1>8. ASSUME NEW t \in Thread, NEW j \in JobId, CompleteJob(t, j)
      PROVE  TypeOK'
  <2>1. AbsentRow \in Row
    BY <1>1, RowsTyped
  <2> QED
    BY <1>0, <1>8, <2>1 DEF CompleteJob, TypeOK
<1>9. ASSUME NEW t \in Thread, NEW j \in JobId, NEW permanent \in BOOLEAN,
             FailJob(t, j, permanent)
      PROVE  TypeOK'
  <2>1. /\ [op |-> "move", job |-> j, present |-> Present(j)] \in Call
        /\ \A o \in {"reschedule", "exhausted"} : [op |-> o, job |-> j] \in Call
    BY DEF Call, Present
  <2>2. \E c \in Call : call' = [call EXCEPT ![t] = c]
    BY <1>0, <1>9, <2>1 DEF FailJob
  <2> QED
    BY <1>9, <2>2, CallStepTyped DEF FailJob
<1>10. ASSUME NEW t \in Thread, ReadPayload(t)
       PROVE  TypeOK'
  <2>1. call[t].job \in JobId
    BY <1>1, <1>10, CallTyped DEF ReadPayload
  <2>2. [op |-> "move", job |-> call[t].job, present |-> Present(call[t].job)]
           \in Call
    BY <2>1 DEF Call, Present
  <2> QED
    BY <1>10, <2>2, CallStepTyped DEF ReadPayload
<1>11. ASSUME NEW t \in Thread, MoveToDeadLetter(t)
       PROVE  TypeOK'
  <2>1. call[t].job \in JobId
    BY <1>1, <1>11, CallTyped DEF MoveToDeadLetter
  <2>2. fila' \in [JobId -> Row]
    BY <1>1, <1>11, <2>1, RowsTyped DEF MoveToDeadLetter, TypeOK
  <2>3. dlq' \subseteq DeadLetter
    BY <1>1, <1>11, <2>1 DEF MoveToDeadLetter, TypeOK, DeadLetter
  <2> QED
    BY <1>0, <1>11, <2>2, <2>3 DEF MoveToDeadLetter, TypeOK, Return
<1>12. ASSUME NEW t \in Thread, NEW d \in RetryDelays, ScheduleRetry(t, d)
       PROVE  TypeOK'
  <2>1. call[t].job \in JobId
    BY <1>1, <1>12, CallTyped DEF ScheduleRetry
  <2>2. fila' \in [JobId -> Row]
    BY <1>1, <1>12, <2>1, RowsTyped DEF ScheduleRetry, TypeOK
  <2> QED
    BY <1>12, <2>2, RowStepTyped DEF ScheduleRetry
<1>13. ASSUME NEW t \in Thread, Heartbeat(t)
       PROVE  TypeOK'
  <2>1. call[t].stamp \in Nat
    BY <1>1, <1>13, CallTyped DEF Heartbeat
  <2>2. fila' \in [JobId -> Row]
    BY <1>1, <1>13, <2>1, RowsTyped DEF Heartbeat, UpdateWhere
  <2> QED
    BY <1>13, <2>2, RowStepTyped DEF Heartbeat
<1>14. ASSUME NEW t \in Thread, BeginRecover(t)
       PROVE  TypeOK'
  <2>1. [op |-> "recover", stamp |-> clock] \in Call
    BY <1>1 DEF Call
  <2> QED
    BY <1>14, <2>1, CallStepTyped DEF BeginRecover
<1>15. ASSUME NEW t \in Thread, RecoverOrphans(t)
       PROVE  TypeOK'
  <2>1. call[t].stamp \in Nat
    BY <1>1, <1>15, CallTyped DEF RecoverOrphans
  <2>2. fila' \in [JobId -> Row]
    BY <1>1, <1>15, <2>1, RowsTyped DEF RecoverOrphans, UpdateWhere
  <2> QED
    BY <1>15, <2>2, RowStepTyped DEF RecoverOrphans
<1>16. CASE RetryFailedJobs
  <2>1. fila' \in [JobId -> Row]
    BY <1>1, <1>16, RowsTyped DEF RetryFailedJobs, UpdateWhere
  <2> QED
    BY <1>16, <2>1, RowStepTyped DEF RetryFailedJobs
<1>17. ASSUME NEW j \in JobId, RetryJob(j)
       PROVE  TypeOK'
  <2>1. fila' \in [JobId -> Row]
    BY <1>1, <1>17, RowsTyped DEF RetryJob, TypeOK
  <2> QED
    BY <1>17, <2>1, RowStepTyped DEF RetryJob
<1>18. ASSUME NEW statuses \in SUBSET (Status \ {"absent"}), PurgeJobs(statuses)
       PROVE  TypeOK'
  <2>1. fila' \in [JobId -> Row]
    BY <1>1, <1>18, RowsTyped DEF PurgeJobs, UpdateWhere
  <2> QED
    BY <1>18, <2>1, RowStepTyped DEF PurgeJobs
<1>19. ASSUME NEW days \in RetentionDays, CleanupOldJobs(days)
       PROVE  TypeOK'
  <2>1. fila' \in [JobId -> Row]
    BY <1>1, <1>19, RowsTyped DEF CleanupOldJobs, UpdateWhere
  <2> QED
    BY <1>19, <2>1 DEF CleanupOldJobs, TypeOK
<1>20. CASE Tick
  BY <1>20 DEF Tick, TypeOK
<1> QED
  BY StepCases, <1>2, <1>3, <1>4, <1>5, <1>6, <1>7, <1>8, <1>9, <1>10, <1>11,
     <1>12, <1>13, <1>14, <1>15, <1>16, <1>17, <1>18, <1>19, <1>20

LEMMA TypeInit == RepoInit => TypeOK
<1>1. AbsentRow \in Row /\ NoCall \in Call
  BY DEF AbsentRow, Row, Status, NoCall, Call
<1> QED
  BY <1>1, ConstantsAssumption DEF RepoInit, TypeOK

\* The table, the dead letter queue and the operations in progress have their
\* types at all times: no operation writes a status the CHECK constraint of
\* the schema refuses, or loses a column of a row.
THEOREM TypeCorrect == RepoSpec => []TypeOK
<1>1. TypeOK /\ [RepoNext]_repoVars => TypeOK'
  BY TypeStep
<1> QED
  BY <1>1, TypeInit, PTL DEF RepoSpec

----------------------------------------------------------------------------
(* What one step does to a row, to the letters and to the calls *)

\* Everything the code may do to a row.
RowStep(j) ==
    \/ fila'[j] = fila[j]
    \/ /\ j >= nextId /\ j < nextId'
       /\ \E p \in Priorities, m \in Retries : fila'[j] = NewRow(p, m)
    \/ j < nextId /\ fila'[j] = AbsentRow
    \/ /\ fila[j].status = "pending"
       /\ \E w \in WorkerId, stamp \in Nat :
             stamp <= clock /\ fila'[j] = Claimed(fila[j], w, stamp)
    \/ \E t \in Thread : /\ MoveToDeadLetter(t)
                         /\ call[t].job = j
                         /\ fila'[j] = DeadRow(fila[j])
    \/ \E d \in RetryDelays : fila'[j] = Rescheduled(fila[j], d)
    \/ /\ fila[j].status \in {"processing", "failed"}
       /\ \E stamp \in Nat : fila'[j] = Requeued(fila[j], stamp)
    \/ /\ fila[j].status = "processing"
       /\ \E stamp \in Nat : /\ stamp <= clock
                             /\ fila'[j] = [fila[j] EXCEPT !.heartbeat = stamp]

LEMMA InsertRowStep ==
    ASSUME TypeOK, NEW rows \in Seq(Priorities \X Retries), InsertRows(rows),
           NEW j \in JobId
    PROVE  RowStep(j)
<1>1. Len(rows) \in Nat /\ nextId \in Nat
  BY ConstantsAssumption DEF TypeOK
<1>2. CASE j >= nextId /\ j < nextId + Len(rows)
  <2>1. j - nextId + 1 \in 1 .. Len(rows)
    BY <1>1, <1>2 DEF JobId
  <2>2. rows[j - nextId + 1] \in Priorities \X Retries
    BY <2>1
  <2>3. fila'[j] = NewRow(rows[j - nextId + 1][1], rows[j - nextId + 1][2])
    BY <1>2 DEF InsertRows
  <2> QED
    BY <1>2, <2>2, <2>3 DEF RowStep, InsertRows
<1>3. CASE ~(j >= nextId /\ j < nextId + Len(rows))
  BY <1>3 DEF InsertRows, RowStep
<1> QED
  BY <1>2, <1>3

LEMMA RowSteps ==
    ASSUME TypeOK, IdsAhead, CallsInPast, [RepoNext]_repoVars, NEW j \in JobId
    PROVE  RowStep(j)
<1>1. /\ \A t \in Thread : call[t] \in Call
      /\ fila \in [JobId -> Row]
      /\ clock \in Nat
      /\ nextId \in Nat
  BY ConstantsAssumption DEF TypeOK
<1>2. ASSUME UNCHANGED fila PROVE RowStep(j)
  BY <1>2 DEF RowStep
<1>3. ASSUME NEW p \in Priorities, NEW m \in Retries, InsertJob(p, m)
      PROVE  RowStep(j)
  <2>1. << <<p, m>> >> \in Seq(Priorities \X Retries)
    OBVIOUS
  <2> QED
    BY <1>3, <2>1, InsertRowStep DEF InsertJob
<1>4. CASE InsertJobsBatch
  <2>1. PICK n \in BatchSizes : \E rows \in [1 .. n -> Priorities \X Retries] :
                                    InsertRows(rows)
    BY <1>4 DEF InsertJobsBatch
  <2>2. PICK rows \in [1 .. n -> Priorities \X Retries] : InsertRows(rows)
    BY <2>1
  <2> QED
    BY <2>2, ConstantsAssumption, BatchIsSeq, InsertRowStep
<1>5. ASSUME NEW t \in Thread, NEW k \in JobId, ClaimJob(t, k)
      PROVE  RowStep(j)
  <2>1. /\ call[t].worker \in WorkerId
        /\ call[t].stamp \in Nat /\ call[t].stamp <= clock
    BY <1>1, <1>5, CallTyped DEF ClaimJob, CallsInPast
  <2>2. fila[k].status = "pending"
    BY <1>5 DEF ClaimJob, IsNext, Due
  <2> QED
    BY <1>1, <1>5, <2>1, <2>2 DEF ClaimJob, RowStep
<1>6. ASSUME NEW t \in Thread, NEW k \in JobId, k < nextId, CompleteJob(t, k)
      PROVE  RowStep(j)
  BY <1>1, <1>6 DEF CompleteJob, RowStep
<1>7. ASSUME NEW t \in Thread, MoveToDeadLetter(t)
      PROVE  RowStep(j)
  <2>1. CASE j = call[t].job
    <3>1. fila'[j] = DeadRow(fila[j])
      BY <1>1, <1>7, <2>1 DEF MoveToDeadLetter
    <3> QED
      BY <1>7, <2>1, <3>1 DEF RowStep
  <2>2. CASE j # call[t].job
    BY <1>1, <1>7, <2>2 DEF MoveToDeadLetter, RowStep
  <2> QED
    BY <2>1, <2>2
<1>8. ASSUME NEW t \in Thread, NEW d \in RetryDelays, ScheduleRetry(t, d)
      PROVE  RowStep(j)
  BY <1>1, <1>8 DEF ScheduleRetry, RowStep
<1>9. ASSUME NEW t \in Thread, Heartbeat(t)
      PROVE  RowStep(j)
  <2>1. call[t].stamp \in Nat /\ call[t].stamp <= clock
    BY <1>1, <1>9, CallTyped DEF Heartbeat, CallsInPast
  <2> QED
    BY <1>9, <2>1 DEF Heartbeat, UpdateWhere, Signed, RowStep
<1>10. ASSUME NEW t \in Thread, RecoverOrphans(t)
       PROVE  RowStep(j)
  <2>1. call[t].stamp \in Nat
    BY <1>1, <1>10, CallTyped DEF RecoverOrphans
  <2> QED
    BY <1>10, <2>1 DEF RecoverOrphans, UpdateWhere, Orphan, RowStep
<1>11. CASE RetryFailedJobs
  BY <1>1, <1>11 DEF RetryFailedJobs, UpdateWhere, RowStep
<1>12. ASSUME NEW k \in JobId, RetryJob(k)
       PROVE  RowStep(j)
  BY <1>1, <1>12 DEF RetryJob, RowStep
<1>13. ASSUME fila'[j] = AbsentRow, Present(j)
       PROVE  RowStep(j)
  BY <1>1, <1>13 DEF RowStep, IdsAhead, JobId
<1>14. ASSUME NEW statuses \in SUBSET (Status \ {"absent"}), PurgeJobs(statuses)
       PROVE  RowStep(j)
  <2>1. fila'[j] = fila[j] \/ (fila'[j] = AbsentRow /\ Present(j))
    BY <1>14 DEF PurgeJobs, UpdateWhere, Present
  <2> QED
    BY <1>13, <2>1 DEF RowStep
<1>15. ASSUME NEW days \in RetentionDays, CleanupOldJobs(days)
       PROVE  RowStep(j)
  <2>1. fila'[j] = fila[j] \/ (fila'[j] = AbsentRow /\ Present(j))
    BY <1>15 DEF CleanupOldJobs, UpdateWhere, Present
  <2> QED
    BY <1>13, <2>1 DEF RowStep
<1> QED
  BY StepCases, <1>2, <1>3, <1>4, <1>5, <1>6, <1>7, <1>8, <1>9, <1>10, <1>11,
     <1>12, <1>14, <1>15
     DEF repoVars, BeginPop, BeginHeartbeat, PopNothing, PopError, FailJob,
         ReadPayload, FailError, UpdateError, BeginRecover, Tick

\* What one step makes of the operation a thread is in the middle of.
CallStep(t) ==
    \/ call'[t] = call[t]
    \/ call'[t] = NoCall
    \/ call'[t].op \in {"pop", "heartbeat", "recover"} /\ call'[t].stamp = clock
    \/ /\ call'[t].op \in {"reschedule", "exhausted"}
       /\ call'[t].job < nextId
    \/ /\ UNCHANGED fila
       /\ call'[t].op = "move"
       /\ call'[t].job < nextId
       /\ call'[t].present = Present(call'[t].job)

LEMMA CallSteps ==
    ASSUME TypeOK, CallsInPast, [RepoNext]_repoVars, NEW t \in Thread
    PROVE  CallStep(t)
<1>1. call \in [Thread -> Call]
  BY DEF TypeOK
<1>2. ASSUME UNCHANGED call PROVE CallStep(t)
  BY <1>2 DEF CallStep
<1>3. ASSUME NEW u \in Thread, Return(u) PROVE CallStep(t)
  BY <1>1, <1>3 DEF Return, CallStep
<1>4. ASSUME NEW u \in Thread, NEW w \in WorkerId,
             BeginPop(u, w) \/ BeginHeartbeat(u, w)
      PROVE  CallStep(t)
  BY <1>1, <1>4 DEF BeginPop, BeginHeartbeat, CallStep
<1>5. ASSUME NEW u \in Thread, BeginRecover(u) PROVE CallStep(t)
  BY <1>1, <1>5 DEF BeginRecover, CallStep
<1>6. ASSUME NEW u \in Thread, NEW j \in JobId, NEW permanent \in BOOLEAN,
             j < nextId, FailJob(u, j, permanent)
      PROVE  CallStep(t)
  <2>1. CASE permanent
    BY <1>1, <1>6, <2>1 DEF FailJob, CallStep
  <2>2. CASE ~permanent /\ ~Present(j)
    BY <1>1, <1>6, <2>2 DEF FailJob, CallStep
  <2>3. CASE ~permanent /\ Present(j)
    BY <1>1, <1>6, <2>3 DEF FailJob, CallStep
  <2> QED
    BY <2>1, <2>2, <2>3
<1>7. ASSUME NEW u \in Thread, ReadPayload(u) PROVE CallStep(t)
  BY <1>1, <1>7 DEF ReadPayload, CallStep, CallsInPast
<1> QED
  BY StepCases, <1>2, <1>3, <1>4, <1>5, <1>6, <1>7
     DEF repoVars, InsertJob, InsertJobsBatch, InsertRows, ClaimJob, PopNothing,
         PopError, CompleteJob, MoveToDeadLetter, ScheduleRetry, FailError,
         UpdateError, Heartbeat, RecoverOrphans, RetryFailedJobs, RetryJob, PurgeJobs,
         CleanupOldJobs, Tick

\* Only a cleanup takes letters away, and ids and time only grow.
LEMMA LetterSteps ==
    ASSUME TypeOK, [RepoNext]_repoVars
    PROVE  /\ dlq \subseteq dlq' \/ \E days \in RetentionDays : CleanupOldJobs(days)
           /\ nextId <= nextId'
           /\ clock <= clock'
<1>1. clock \in Nat /\ nextId \in Nat
  BY ConstantsAssumption DEF TypeOK
<1>2. ASSUME NEW rows \in Seq(Priorities \X Retries), InsertRows(rows)
      PROVE  dlq \subseteq dlq' /\ nextId <= nextId' /\ clock <= clock'
  BY <1>1, <1>2 DEF InsertRows
<1>3. ASSUME NEW p \in Priorities, NEW m \in Retries, InsertJob(p, m)
      PROVE  dlq \subseteq dlq' /\ nextId <= nextId' /\ clock <= clock'
  BY <1>2, <1>3 DEF InsertJob
<1>4. CASE InsertJobsBatch
  <2>1. PICK n \in BatchSizes : \E rows \in [1 .. n -> Priorities \X Retries] :
                                    InsertRows(rows)
    BY <1>4 DEF InsertJobsBatch
  <2>2. PICK rows \in [1 .. n -> Priorities \X Retries] : InsertRows(rows)
    BY <2>1
  <2> QED
    BY <1>2, <2>2, ConstantsAssumption, BatchIsSeq
<1>5. ASSUME NEW t \in Thread, MoveToDeadLetter(t)
      PROVE  dlq \subseteq dlq' /\ nextId <= nextId' /\ clock <= clock'
  BY <1>1, <1>5 DEF MoveToDeadLetter
<1>6. ASSUME UNCHANGED <<dlq, nextId, clock>>
      PROVE  dlq \subseteq dlq' /\ nextId <= nextId' /\ clock <= clock'
  BY <1>1, <1>6
<1>7. ASSUME NEW days \in RetentionDays, CleanupOldJobs(days)
      PROVE  nextId <= nextId' /\ clock <= clock'
  BY <1>1, <1>7 DEF CleanupOldJobs
<1>8. CASE Tick
  BY <1>1, <1>8 DEF Tick
<1> QED
  BY StepCases, <1>3, <1>4, <1>5, <1>6, <1>7, <1>8
     DEF repoVars, BeginPop, BeginHeartbeat, ClaimJob, PopNothing, PopError,
         CompleteJob, FailJob, ReadPayload, ScheduleRetry, FailError,
         UpdateError, Heartbeat, BeginRecover, RecoverOrphans, RetryFailedJobs, RetryJob,
         PurgeJobs

----------------------------------------------------------------------------
(* The inductive invariant *)

\* The ticks of a day.
LEMMA DayBounds ==
    ASSUME NEW time \in Nat
    PROVE  /\ Day(time) \in Nat
           /\ TicksPerDay * Day(time) <= time
           /\ time < TicksPerDay * (Day(time) + 1)
<1>1. TicksPerDay \in Nat /\ TicksPerDay > 0
  BY ConstantsAssumption
<1> QED
  BY <1>1, SMTT(30) DEF Day

\* A later time is not on an earlier day.
LEMMA DayMonotone ==
    ASSUME NEW a \in Nat, NEW b \in Nat, a <= b
    PROVE  Day(a) \in Nat /\ Day(b) \in Nat /\ Day(a) <= Day(b)
<1>1. TicksPerDay \in Nat /\ TicksPerDay > 0
  BY ConstantsAssumption
<1>2. ASSUME NEW time \in Nat
      PROVE  /\ Day(time) \in Nat
             /\ TicksPerDay * Day(time) <= time
             /\ time < TicksPerDay * (Day(time) + 1)
  BY DayBounds
<1>3. ASSUME Day(b) + 1 <= Day(a) PROVE FALSE
  <2>1. TicksPerDay * (Day(b) + 1) <= TicksPerDay * Day(a)
    BY <1>1, <1>2, <1>3, SMTT(30)
  <2>2. b < a
    <3> DEFINE x == TicksPerDay * (Day(b) + 1)
               y == TicksPerDay * Day(a)
    <3>1. x \in Nat /\ y \in Nat /\ b < x /\ x <= y /\ y <= a
      BY <1>1, <1>2, <2>1
    <3> HIDE DEF x, y
    <3> QED
      BY <3>1
  <2> QED
    BY <2>2
<1> QED
  BY <1>2, <1>3

\* The fields of the rows that the SQL statements write.
LEMMA WrittenFields ==
    ASSUME NEW row \in Row
    PROVE  /\ AbsentRow.status = "absent"
           /\ \A p \in Priorities, m \in Retries :
                 /\ NewRow(p, m).status = "pending"
                 /\ NewRow(p, m).created_at = clock
                 /\ NewRow(p, m).tentativas = 0
           /\ \A w \in WorkerId, stamp \in Nat :
                 /\ Claimed(row, w, stamp).status = "processing"
                 /\ Claimed(row, w, stamp).created_at = row.created_at
                 /\ Claimed(row, w, stamp).worker_id = w
                 /\ Claimed(row, w, stamp).heartbeat = stamp
                 /\ Claimed(row, w, stamp).tentativas = row.tentativas + 1
           /\ \A stamp \in Nat :
                 /\ Requeued(row, stamp).status = "pending"
                 /\ Requeued(row, stamp).created_at = row.created_at
                 /\ Requeued(row, stamp).tentativas = row.tentativas
           /\ \A stamp \in Nat :
                 LET beaten == [row EXCEPT !.heartbeat = stamp]
                 IN  /\ beaten.status = row.status
                     /\ beaten.created_at = row.created_at
                     /\ beaten.worker_id = row.worker_id
                     /\ beaten.heartbeat = stamp
                     /\ beaten.tentativas = row.tentativas
<1>1. AbsentRow.status = "absent"
  BY DEF AbsentRow
<1>2. ASSUME NEW p \in Priorities, NEW m \in Retries
      PROVE  /\ NewRow(p, m).status = "pending"
             /\ NewRow(p, m).created_at = clock
             /\ NewRow(p, m).tentativas = 0
  BY DEF NewRow
<1>3. ASSUME NEW w \in WorkerId, NEW stamp \in Nat
      PROVE  /\ Claimed(row, w, stamp).status = "processing"
             /\ Claimed(row, w, stamp).created_at = row.created_at
             /\ Claimed(row, w, stamp).worker_id = w
             /\ Claimed(row, w, stamp).heartbeat = stamp
             /\ Claimed(row, w, stamp).tentativas = row.tentativas + 1
  BY DEF Claimed, Row
<1>4. ASSUME NEW stamp \in Nat
      PROVE  /\ Requeued(row, stamp).status = "pending"
             /\ Requeued(row, stamp).created_at = row.created_at
             /\ Requeued(row, stamp).tentativas = row.tentativas
  BY DEF Requeued, Row
<1> QED
  BY <1>1, <1>2, <1>3, <1>4 DEF Row

\* A failure and a reschedule leave an absent row absent.
LEMMA WrittenIfPresent ==
    ASSUME NEW row \in Row
    PROVE  /\ row.status = "absent" => DeadRow(row) = row
           /\ row.status # "absent" =>
                 /\ DeadRow(row).status = "failed"
                 /\ DeadRow(row).created_at = row.created_at
                 /\ DeadRow(row).worker_id = NULL
                 /\ DeadRow(row).heartbeat = NULL
                 /\ DeadRow(row).tentativas = row.tentativas
           /\ \A d \in RetryDelays :
                 /\ row.status = "absent" => Rescheduled(row, d) = row
                 /\ row.status # "absent" =>
                       /\ Rescheduled(row, d).status = "pending"
                       /\ Rescheduled(row, d).created_at = row.created_at
                       /\ Rescheduled(row, d).tentativas = row.tentativas
<1>1. row.status # "absent" =>
         /\ DeadRow(row).status = "failed"
         /\ DeadRow(row).created_at = row.created_at
         /\ DeadRow(row).worker_id = NULL
         /\ DeadRow(row).heartbeat = NULL
         /\ DeadRow(row).tentativas = row.tentativas
  BY DEF DeadRow, Row
<1>2. ASSUME NEW d \in RetryDelays, row.status # "absent"
      PROVE  /\ Rescheduled(row, d).status = "pending"
             /\ Rescheduled(row, d).created_at = row.created_at
             /\ Rescheduled(row, d).tentativas = row.tentativas
  BY <1>2 DEF Rescheduled, Row
<1> QED
  BY <1>1, <1>2 DEF DeadRow, Rescheduled

\* A row that is there after the step, and was there before, keeps the time of
\* its creation; one that was not there is new.
LEMMA CreationKept ==
    ASSUME TypeOK, NEW j \in JobId, RowStep(j), fila'[j].status # "absent"
    PROVE  \/ Present(j) /\ fila'[j].created_at = fila[j].created_at
           \/ fila'[j].status = "pending" /\ fila'[j].created_at = clock
<1>1. fila[j] \in Row
  BY DEF TypeOK
<1>2. CASE \/ fila'[j] = DeadRow(fila[j])
           \/ \E d \in RetryDelays : fila'[j] = Rescheduled(fila[j], d)
  BY <1>1, <1>2, WrittenIfPresent DEF Present
<1>3. CASE /\ fila[j].status = "pending"
           /\ \E w \in WorkerId, stamp \in Nat :
                 fila'[j] = Claimed(fila[j], w, stamp)
  BY <1>1, <1>3, WrittenFields DEF Present
<1>4. CASE /\ fila[j].status = "processing"
           /\ \E stamp \in Nat : fila'[j] = [fila[j] EXCEPT !.heartbeat = stamp]
  BY <1>1, <1>4, WrittenFields DEF Present
<1>5. CASE /\ fila[j].status \in {"processing", "failed"}
           /\ \E stamp \in Nat : fila'[j] = Requeued(fila[j], stamp)
  BY <1>1, <1>5, WrittenFields DEF Present
<1>6. CASE \E p \in Priorities, m \in Retries : fila'[j] = NewRow(p, m)
  BY <1>1, <1>6, WrittenFields
<1>7. CASE fila'[j] = fila[j] \/ fila'[j] = AbsentRow
  BY <1>1, <1>7, WrittenFields DEF Present
<1> QED
  BY <1>2, <1>3, <1>4, <1>5, <1>6, <1>7 DEF RowStep

LEMMA IdsAheadStep ==
    ASSUME TypeOK, IdsAhead, CallsInPast, [RepoNext]_repoVars
    PROVE  IdsAhead'
<1> SUFFICES ASSUME NEW j \in JobId, j >= nextId' PROVE fila'[j].status = "absent"
  BY DEF IdsAhead, Present
<1>1. j >= nextId /\ ~(j < nextId) /\ ~(j < nextId')
  <2>1. nextId \in Nat /\ nextId' \in Nat /\ j \in Nat
    BY TypeStep, ConstantsAssumption DEF TypeOK, JobId
  <2> QED
    BY <2>1, LetterSteps
<1>2. fila[j].status = "absent" /\ fila[j] \in Row
  BY <1>1 DEF IdsAhead, Present, TypeOK
<1>3. RowStep(j)
  BY RowSteps
<1> QED
  BY <1>1, <1>2, <1>3 DEF RowStep, DeadRow, Rescheduled, AbsentRow

LEMMA RowsInPastStep ==
    ASSUME TypeOK, IdsAhead, CallsInPast, RowsInPast, [RepoNext]_repoVars
    PROVE  RowsInPast'
<1> SUFFICES ASSUME NEW j \in JobId, fila'[j].status # "absent"
             PROVE  fila'[j].created_at <= clock'
  BY DEF RowsInPast, Present
<1>1. fila[j].created_at \in Nat /\ clock \in Nat /\ clock' \in Nat
  BY TypeStep DEF TypeOK, Row
<1> QED
  BY <1>1, RowSteps, CreationKept, LetterSteps DEF RowsInPast

LEMMA CallsInPastStep ==
    ASSUME TypeOK, IdsAhead, CallsInPast, [RepoNext]_repoVars
    PROVE  CallsInPast'
<1> SUFFICES ASSUME NEW t \in Thread
    PROVE  /\ call'[t].op \in {"pop", "heartbeat", "recover"} =>
                  call'[t].stamp <= clock'
           /\ call'[t].op \in {"reschedule", "exhausted", "move"} =>
                  call'[t].job < nextId'
           /\ call'[t].op = "move" =>
                  (~call'[t].present => fila'[call'[t].job].status = "absent")
  BY DEF CallsInPast, Present
<1>1. /\ nextId \in Nat /\ nextId' \in Nat /\ nextId <= nextId'
      /\ clock \in Nat /\ clock' \in Nat /\ clock <= clock'
      /\ call[t] \in Call /\ call'[t] \in Call
  BY TypeStep, LetterSteps, ConstantsAssumption DEF TypeOK
<1>2. CASE call'[t] = call[t]
  <2>1. ASSUME call[t].op = "move", ~call[t].present
        PROVE  fila'[call[t].job].status = "absent"
    <3>1. /\ call[t].job \in JobId /\ call[t].job < nextId
          /\ fila[call[t].job].status = "absent"
      BY <1>1, <2>1, CallTyped DEF CallsInPast, Present
    <3>2. RowStep(call[t].job) /\ call[t].job \in Nat
      BY <3>1, RowSteps DEF JobId
    <3> QED
      BY <1>1, <3>1, <3>2 DEF RowStep, DeadRow, Rescheduled, AbsentRow, JobId
  <2>2. call[t].op \in {"reschedule", "exhausted", "move"} =>
           call[t].job \in Nat
    BY <1>1, CallTyped DEF JobId
  <2>3. call[t].op \in {"pop", "heartbeat", "recover"} => call[t].stamp \in Nat
    BY <1>1, CallTyped
  <2> QED
    BY <1>1, <1>2, <2>1, <2>2, <2>3 DEF CallsInPast
<1>3. CASE call'[t] = NoCall
  BY <1>3 DEF NoCall
<1>4. CASE call'[t].op \in {"pop", "heartbeat", "recover"} /\ call'[t].stamp = clock
  BY <1>1, <1>4
<1>5. CASE call'[t].op \in {"reschedule", "exhausted"} /\ call'[t].job < nextId
  <2>1. call'[t].job \in Nat
    BY <1>1, <1>5, CallTyped DEF JobId
  <2> QED
    BY <1>1, <1>5, <2>1
<1>6. CASE /\ UNCHANGED fila
           /\ call'[t].op = "move"
           /\ call'[t].job < nextId
           /\ call'[t].present = Present(call'[t].job)
  <2>1. call'[t].job \in Nat
    BY <1>1, <1>6, CallTyped DEF JobId
  <2>2. ASSUME ~call'[t].present
        PROVE  fila'[call'[t].job].status = "absent"
    <3>1. ~Present(call'[t].job)
      BY <1>6, <2>2
    <3> QED
      BY <1>6, <3>1 DEF Present
  <2> QED
    BY <1>1, <1>6, <2>1, <2>2
<1> QED
  BY <1>2, <1>3, <1>4, <1>5, <1>6, CallSteps DEF CallStep

LEMMA LeaseColumnsStep ==
    ASSUME TypeOK, IdsAhead, CallsInPast, LeaseColumns, [RepoNext]_repoVars
    PROVE  LeaseColumns'
<1> SUFFICES ASSUME NEW j \in JobId
    PROVE  /\ fila'[j].status = "processing" =>
                 /\ fila'[j].worker_id # NULL
                 /\ fila'[j].heartbeat # NULL
                 /\ fila'[j].heartbeat <= clock'
           /\ fila'[j].status = "failed" =>
                 fila'[j].worker_id = NULL /\ fila'[j].heartbeat = NULL
  BY DEF LeaseColumns
<1>1. /\ clock \in Nat /\ clock' \in Nat /\ clock <= clock'
      /\ fila[j] \in Row
  BY TypeStep, LetterSteps DEF TypeOK
<1>2. /\ fila[j].status = "processing" =>
            /\ fila[j].worker_id # NULL
            /\ fila[j].heartbeat # NULL
            /\ fila[j].heartbeat <= clock
      /\ fila[j].status = "failed" =>
            fila[j].worker_id = NULL /\ fila[j].heartbeat = NULL
  BY DEF LeaseColumns
<1>3. fila[j].status = "processing" =>
         fila[j].heartbeat \in Nat /\ fila[j].heartbeat <= clock'
  BY <1>1, <1>2 DEF Row
<1>4. CASE fila'[j] = fila[j]
  BY <1>2, <1>3, <1>4
<1>5. CASE \/ \E p \in Priorities, m \in Retries : fila'[j] = NewRow(p, m)
           \/ fila'[j] = AbsentRow
           \/ \E stamp \in Nat : fila'[j] = Requeued(fila[j], stamp)
  BY <1>1, <1>5, WrittenFields
<1>6. ASSUME NEW w \in WorkerId, NEW stamp \in Nat, stamp <= clock,
             fila'[j] = Claimed(fila[j], w, stamp)
      PROVE  /\ fila'[j].status = "processing"
             /\ fila'[j].worker_id # NULL
             /\ fila'[j].heartbeat # NULL
             /\ fila'[j].heartbeat <= clock'
  BY <1>1, <1>6, ConstantsAssumption DEF Claimed, Row
<1>7. CASE fila'[j] = DeadRow(fila[j])
  BY <1>1, <1>7 DEF DeadRow, Row
<1>8. CASE \E d \in RetryDelays : fila'[j] = Rescheduled(fila[j], d)
  BY <1>1, <1>8 DEF Rescheduled, Row
<1>9. ASSUME NEW stamp \in Nat, stamp <= clock, fila[j].status = "processing",
             fila'[j] = [fila[j] EXCEPT !.heartbeat = stamp]
      PROVE  /\ fila'[j].status = "processing"
             /\ fila'[j].worker_id # NULL
             /\ fila'[j].heartbeat # NULL
             /\ fila'[j].heartbeat <= clock'
  BY <1>1, <1>2, <1>9, ConstantsAssumption DEF Row
<1> QED
  BY <1>4, <1>5, <1>6, <1>7, <1>8, <1>9, RowSteps DEF RowStep

LEMMA LetterNotOlderStep ==
    ASSUME RepoInv, [RepoNext]_repoVars
    PROVE  LetterNotOlder'
<1> USE DEF RepoInv
<1> SUFFICES ASSUME NEW j \in JobId, fila'[j].status = "failed"
    PROVE  \E d \in dlq' : /\ d.original_job_id = j
                          /\ d.failed_at >= fila'[j].created_at
  BY DEF LetterNotOlder
<1>1. clock \in Nat /\ fila[j] \in Row /\ dlq \subseteq DeadLetter
  BY DEF TypeOK
<1>2. ASSUME NEW t \in Thread, MoveToDeadLetter(t), call[t].job = j,
             fila'[j] = DeadRow(fila[j])
      PROVE  \E d \in dlq' : /\ d.original_job_id = j
                            /\ d.failed_at >= fila'[j].created_at
  <2>1. Present(j)
    BY <1>2 DEF DeadRow, Present
  <2>2. call[t].present
    BY <1>2, <2>1 DEF CallsInPast, MoveToDeadLetter
  <2>3. [original_job_id |-> j, failed_at |-> clock] \in dlq'
    BY <1>2, <2>2 DEF MoveToDeadLetter
  <2>4. fila'[j].created_at = fila[j].created_at
    BY <1>1, <1>2, <2>1 DEF DeadRow, Present, Row
  <2>5. clock >= fila[j].created_at
    BY <1>1, <2>1 DEF RowsInPast, Row
  <2> QED
    BY <2>3, <2>4, <2>5
<1>3. CASE fila'[j] = fila[j]
  <2>1. PICK d \in dlq : /\ d.original_job_id = j
                         /\ d.failed_at >= fila[j].created_at
    BY <1>3 DEF LetterNotOlder
  <2>2. CASE dlq \subseteq dlq'
    BY <1>3, <2>1, <2>2
  <2>3. ASSUME NEW days \in RetentionDays, CleanupOldJobs(days)
        PROVE  d \in dlq'
    <3>1. ~SqlOlder(fila[j].created_at, days)
      BY <1>1, <1>3, <2>3 DEF CleanupOldJobs, UpdateWhere, AbsentRow
    <3>2. /\ fila[j].created_at \in Nat /\ d.failed_at \in Nat
          /\ fila[j].created_at <= d.failed_at
      BY <1>1, <2>1 DEF Row, DeadLetter
    <3>3. /\ Day(fila[j].created_at) \in Nat /\ Day(d.failed_at) \in Nat
          /\ Day(fila[j].created_at) <= Day(d.failed_at)
      BY <3>2, DayMonotone
    <3>4. Day(clock) \in Nat /\ days \in Nat
      BY <1>1, DayMonotone, ConstantsAssumption
    <3>5. ~SqlOlder(d.failed_at, days)
      BY <3>1, <3>3, <3>4 DEF SqlOlder
    <3> QED
      BY <2>3, <3>5 DEF CleanupOldJobs, ExpiredLetter
  <2> QED
    BY <1>3, <2>1, <2>2, <2>3, LetterSteps
<1>4. CASE \/ \E p \in Priorities, m \in Retries : fila'[j] = NewRow(p, m)
           \/ fila'[j] = AbsentRow
           \/ \E w \in WorkerId, stamp \in Nat :
                 fila'[j] = Claimed(fila[j], w, stamp)
           \/ \E stamp \in Nat : fila'[j] = Requeued(fila[j], stamp)
  BY <1>1, <1>4, WrittenFields
<1>5. CASE \E d \in RetryDelays : fila'[j] = Rescheduled(fila[j], d)
  BY <1>1, <1>5 DEF Rescheduled, Row
<1>6. CASE /\ fila[j].status = "processing"
           /\ \E stamp \in Nat : fila'[j] = [fila[j] EXCEPT !.heartbeat = stamp]
  BY <1>1, <1>6 DEF Row
<1> QED
  BY <1>2, <1>3, <1>4, <1>5, <1>6, RowSteps DEF RowStep

----------------------------------------------------------------------------
(* The theorems *)

LEMMA RepoInvInit == RepoInit => RepoInv
<1> SUFFICES ASSUME RepoInit PROVE RepoInv
  OBVIOUS
<1>1. TypeOK
  BY TypeInit
<1>2. \A j \in JobId : fila[j].status = "absent"
  BY DEF RepoInit, AbsentRow
<1>3. \A t \in Thread : call[t].op = "none"
  BY DEF RepoInit, NoCall
<1> QED
  BY <1>1, <1>2, <1>3 DEF RepoInv, IdsAhead, RowsInPast, CallsInPast,
                          LeaseColumns, LetterNotOlder, Present

LEMMA RepoInvStep == RepoInv /\ [RepoNext]_repoVars => RepoInv'
  BY TypeStep, IdsAheadStep, RowsInPastStep, CallsInPastStep, LeaseColumnsStep,
     LetterNotOlderStep DEF RepoInv

\* In every reachable state of the shard the rows, the letters and the
\* operations in flight agree: what each operation of repository.py may rely
\* on, whatever the callers do.
THEOREM RepoCorrect == RepoSpec => []RepoInv
  BY RepoInvInit, RepoInvStep, PTL DEF RepoSpec

\* fail_job and cleanup_old_jobs never leave a failed row without a letter.
THEOREM LettersCorrect == RepoSpec => []FailedHasDeadLetter
<1>1. RepoInv => FailedHasDeadLetter
  BY DEF RepoInv, LetterNotOlder, FailedHasDeadLetter
<1> QED
  BY <1>1, RepoCorrect, PTL

\* The columns that RECOVER_ORPHAN_SQL reads can be relied on.
THEOREM LeaseColumnsCorrect == RepoSpec => []LeaseColumns
<1>1. RepoInv => LeaseColumns
  BY DEF RepoInv
<1> QED
  BY <1>1, RepoCorrect, PTL

\* No step takes a claim from its worker without passing through pending.
THEOREM LeaseKeptCorrect == RepoSpec => LeaseKept
<1>1. ASSUME RepoInv, [RepoNext]_repoVars, NEW j \in JobId,
             fila[j].status = "processing", fila'[j].status = "processing"
      PROVE  /\ fila'[j].worker_id = fila[j].worker_id
             /\ fila'[j].tentativas = fila[j].tentativas
  <2>1. fila[j] \in Row /\ RowStep(j)
    BY <1>1, RowSteps DEF RepoInv, TypeOK
  <2>2. CASE \E stamp \in Nat : fila'[j] = [fila[j] EXCEPT !.heartbeat = stamp]
    BY <2>1, <2>2, WrittenFields
  <2>3. CASE \/ fila'[j] = DeadRow(fila[j])
             \/ \E d \in RetryDelays : fila'[j] = Rescheduled(fila[j], d)
    BY <1>1, <2>1, <2>3, WrittenIfPresent
  <2>4. CASE \/ \E p \in Priorities, m \in Retries : fila'[j] = NewRow(p, m)
             \/ fila'[j] = AbsentRow
             \/ \E stamp \in Nat : fila'[j] = Requeued(fila[j], stamp)
    BY <1>1, <2>1, <2>4, WrittenFields
  <2> QED
    BY <1>1, <2>1, <2>2, <2>3, <2>4 DEF RowStep
<1> QED
  <2>1. RepoInv /\ [RepoNext]_repoVars =>
    [\A j \in JobId :
       fila[j].status = "processing" /\ fila'[j].status = "processing" =>
          /\ fila'[j].worker_id = fila[j].worker_id
          /\ fila'[j].tentativas = fila[j].tentativas]_repoVars
    BY <1>1
  <2> QED
    BY <2>1, RepoCorrect, PTL DEF RepoSpec, LeaseKept

\* Retries, recoveries and requeues keep the attempt counter: only a claim
\* raises it, and by one.
THEOREM AttemptsCorrect == RepoSpec => AttemptsCountClaims
<1>1. ASSUME RepoInv, [RepoNext]_repoVars, NEW j \in JobId,
             Present(j), fila'[j].status # "absent"
      PROVE  fila'[j].tentativas = fila[j].tentativas
                + (IF fila[j].status = "pending" /\ fila'[j].status = "processing"
                   THEN 1 ELSE 0)
  <2>1. /\ fila[j] \in Row /\ RowStep(j)
        /\ fila[j].tentativas \in Nat /\ ~(j >= nextId)
    BY <1>1, RowSteps DEF RepoInv, TypeOK, IdsAhead, Row
  <2>2. CASE fila'[j] = fila[j] \/ fila'[j] = AbsentRow
    BY <1>1, <2>1, <2>2, WrittenFields
  <2>3. CASE /\ fila[j].status = "pending"
             /\ \E w \in WorkerId, stamp \in Nat :
                   fila'[j] = Claimed(fila[j], w, stamp)
    BY <2>1, <2>3, WrittenFields
  <2>4. CASE \/ fila'[j] = DeadRow(fila[j])
             \/ \E d \in RetryDelays : fila'[j] = Rescheduled(fila[j], d)
    BY <1>1, <2>1, <2>4, WrittenIfPresent DEF Present
  <2>5. CASE \E stamp \in Nat : fila'[j] = Requeued(fila[j], stamp)
    BY <2>1, <2>5, WrittenFields
  <2>6. CASE /\ fila[j].status = "processing"
             /\ \E stamp \in Nat : fila'[j] = [fila[j] EXCEPT !.heartbeat = stamp]
    BY <2>1, <2>6, WrittenFields
  <2> QED
    BY <2>1, <2>2, <2>3, <2>4, <2>5, <2>6 DEF RowStep
<1> QED
  <2>1. RepoInv /\ [RepoNext]_repoVars =>
    [\A j \in JobId :
       Present(j) /\ fila'[j].status # "absent" =>
          fila'[j].tentativas = fila[j].tentativas
             + (IF fila[j].status = "pending" /\ fila'[j].status = "processing"
                THEN 1 ELSE 0)]_repoVars
    BY <1>1
  <2> QED
    BY <2>1, RepoCorrect, PTL DEF RepoSpec, AttemptsCountClaims

\* A late failure, reschedule or requeue finds no row of a deleted job.
THEOREM NoResurrectionCorrect == RepoSpec => NoResurrection
<1>1. ASSUME RepoInv, [RepoNext]_repoVars, NEW j \in JobId,
             ~Present(j), j < nextId
      PROVE  fila'[j].status = "absent"
  <2>1. fila[j] \in Row /\ RowStep(j) /\ fila[j].status = "absent" /\ ~(j >= nextId)
    <3>1. nextId \in Nat /\ j \in Nat
      BY ConstantsAssumption, <1>1 DEF RepoInv, TypeOK, JobId
    <3> QED
      BY <1>1, <3>1, RowSteps DEF RepoInv, TypeOK, Present
  <2>2. CASE fila'[j] = fila[j] \/ fila'[j] = AbsentRow
    BY <2>1, <2>2, WrittenFields
  <2>3. CASE \/ fila'[j] = DeadRow(fila[j])
             \/ \E d \in RetryDelays : fila'[j] = Rescheduled(fila[j], d)
    BY <2>1, <2>3, WrittenIfPresent
  <2> QED
    BY <2>1, <2>2, <2>3 DEF RowStep
<1> QED
  <2>1. RepoInv /\ [RepoNext]_repoVars =>
           [\A j \in JobId :
              ~Present(j) /\ j < nextId => fila'[j].status = "absent"]_repoVars
    BY <1>1
  <2> QED
    BY <2>1, RepoCorrect, PTL DEF RepoSpec, NoResurrection

\* What SqlOlder admits is old enough, less a day.
LEMMA OlderByDays ==
    ASSUME NEW time \in Nat, clock \in Nat, NEW days \in Nat, SqlOlder(time, days)
    PROVE  time + (days - 1) * TicksPerDay < clock
<1> DEFINE T == TicksPerDay
           p == Day(time)
           q == Day(clock)
<1>1. T \in Nat /\ T > 0
  BY ConstantsAssumption
<1>2. /\ p \in Nat /\ q \in Nat /\ p + days <= q
      /\ time < T * (p + 1) /\ T * q <= clock
  BY DayBounds DEF SqlOlder
<1> HIDE DEF T, p, q
<1>3. T * (p + days) <= T * q
  BY <1>1, <1>2, SMTT(30)
<1>4. T * (p + 1) + (days - 1) * T = T * (p + days)
  BY <1>1, <1>2, SMTT(30)
<1>5. (days - 1) * T \in Int /\ T * (p + 1) \in Nat /\ T * (p + days) \in Nat
      /\ T * q \in Nat
  BY <1>1, <1>2
<1> DEFINE u == (days - 1) * T
           v == T * (p + 1)
           w == T * (p + days)
           x == T * q
<1>6. /\ u \in Int /\ v \in Nat /\ w \in Nat /\ x \in Nat
      /\ time < v /\ v + u = w /\ w <= x /\ x <= clock
  BY <1>2, <1>3, <1>4, <1>5
<1>7. time + u < clock
  <2> HIDE DEF u, v, w, x
  <2> QED
    BY <1>6
<1> QED
  BY <1>7 DEF T

\* cleanup_old_jobs removes no row that is younger than the days it was given,
\* less a day, for any length of the day and any retention.
THEOREM CleanupCorrect == RepoSpec => CleanupAgeBound
<1>1. ASSUME TypeOK, NEW days \in RetentionDays, CleanupOldJobs(days),
             NEW j \in JobId, Present(j), fila'[j].status = "absent"
      PROVE  fila[j].created_at + (days - 1) * TicksPerDay < clock
  <2>1. fila[j].created_at \in Nat /\ clock \in Nat /\ days \in Nat
    BY <1>1, ConstantsAssumption DEF TypeOK, Row
  <2>2. SqlOlder(fila[j].created_at, days)
    BY <1>1 DEF CleanupOldJobs, UpdateWhere, Present
  <2> QED
    BY <2>1, <2>2, OlderByDays
<1>2. TypeOK /\ [RepoNext]_repoVars =>
         [\A days \in RetentionDays : CleanupOldJobs(days) =>
            \A j \in JobId :
               Present(j) /\ fila'[j].status = "absent" =>
                  fila[j].created_at + (days - 1) * TicksPerDay < clock]_repoVars
  BY <1>1
<1> QED
  BY <1>2, TypeCorrect, PTL DEF RepoSpec, CleanupAgeBound

=============================================================================
