-------------------------- MODULE QueueScanProofs --------------------------
(* Theorems about CircuitBreaker alone and in QueueScan, for every value of *)
(* their constants.                                                         *)
EXTENDS QueueScan, TLAPS

----------------------------------------------------------------------------
(* The breaker.  Queue and call() use it by the same critical sections, so  *)
(* what they do to its state is stated once for both.                       *)

\* What the breaker relies on.
BreakerInv == BreakerTypeOK /\ HalfOpenIsProbing /\ ProbeAccounted

\* The ways a call can end without a word to the breaker.
Why == {"ignored", "no job", "raised"}

\* A critical section of _mutex, or the end of a call that has none.
BreakerStep ==
    \/ \E t \in Thread :
          \/ Ask(t) \/ Flush(t) \/ Succeed(t) \/ Fail(t)
          \/ \E why \in Why : Untold(t, why)
    \/ Reset
    \/ Tick
    \/ UNCHANGED breakerVars

\* The bounds as numbers.
LEMMA BoundsTyped ==
    /\ FailureThreshold \in Nat /\ RecoveryTimeout \in Nat
    /\ 0 \in 0 .. FailureThreshold
    /\ 0 \in 0 .. RecoveryTimeout /\ RecoveryTimeout \in 0 .. RecoveryTimeout
  BY BreakerAssumption

LEMMA BreakerInitInv == BreakerInit => BreakerInv
<1> SUFFICES ASSUME BreakerInit PROVE BreakerInv
  OBVIOUS
<1>2. BreakerTypeOK
  BY BoundsTyped DEF BreakerInit, BreakerTypeOK, CircuitState
<1> QED
  BY <1>2 DEF BreakerInit, BreakerInv, HalfOpenIsProbing, ProbeAccounted

\* The values the outcomes of calls give the state and the failure count.
LEMMA OutcomeTyped ==
    ASSUME BreakerTypeOK
    PROVE  /\ AfterSuccess(state) \in {"closed", "open"}
           /\ Increment(failureCount) \in 0 .. FailureThreshold
           /\ \A n \in 0 .. FailureThreshold :
                 AfterFailure(state, n) \in {"closed", "open"}
<1>1. Increment(failureCount) \in 0 .. FailureThreshold
  <2>1. failureCount \in 0 .. FailureThreshold
    BY DEF BreakerTypeOK
  <2> QED
    BY <2>1, BoundsTyped DEF Increment
<1>2. state \in {"closed", "open", "half_open"}
  BY DEF BreakerTypeOK, CircuitState
<1> QED
  BY <1>1, <1>2 DEF AfterSuccess, AfterFailure

LEMMA AskInv ==
    ASSUME BreakerInv, NEW t \in Thread, Ask(t)
    PROVE  BreakerInv'
<1> USE DEF BreakerInv, BreakerTypeOK, Ask, Become
<1>1. CASE AllowClosed(t)
  BY <1>1 DEF AllowClosed, HalfOpenIsProbing, ProbeAccounted
<1>2. CASE AllowProbe(t)
  <2>1. probing' \in [Thread -> BOOLEAN] /\ probing'[t]
    BY <1>2 DEF AllowProbe
  <2>2. BreakerTypeOK'
    BY <1>2, <2>1 DEF AllowProbe, SetState, CircuitState
  <2>3. HalfOpenIsProbing' /\ ProbeAccounted'
    BY <1>2, <2>1 DEF AllowProbe, SetState, HalfOpenIsProbing, ProbeAccounted
  <2> QED
    BY <2>2, <2>3
<1>3. CASE Reject(t)
  BY <1>3 DEF Reject, HalfOpenIsProbing, ProbeAccounted
<1> QED
  BY <1>1, <1>2, <1>3

\* A probe that goes away untold is written down in "lost".
LEMMA UntoldInv ==
    ASSUME BreakerInv, NEW t \in Thread, NEW why \in Why, Untold(t, why)
    PROVE  BreakerInv'
<1>1. BreakerTypeOK' /\ HalfOpenIsProbing'
  BY DEF BreakerInv, BreakerTypeOK, HalfOpenIsProbing, Untold, Become, Why
<1>2. ProbeAccounted'
  <2>1. CASE probing[t] /\ state = "half_open"
    BY <2>1 DEF Untold, ProbeAccounted
  <2>2. CASE ~(probing[t] /\ state = "half_open")
    BY <2>2 DEF BreakerInv, BreakerTypeOK, Untold, ProbeAccounted
  <2> QED
    BY <2>1, <2>2
<1> QED
  BY <1>1, <1>2 DEF BreakerInv

\* A recorded outcome, whosever it is, ends the half-open state and the probe.
LEMMA OutcomeInv ==
    ASSUME BreakerInv, NEW t \in Thread, Succeed(t) \/ Fail(t)
    PROVE  BreakerInv' /\ state' # "half_open"
<1>1. /\ state' \in {"closed", "open"}
      /\ failureCount' \in 0 .. FailureThreshold
      /\ sinceFailure' \in 0 .. RecoveryTimeout
      /\ probeInFlight' = FALSE
      /\ Done(t)
  <2>1. CASE Succeed(t)
    BY <2>1, OutcomeTyped, BoundsTyped DEF BreakerInv, BreakerTypeOK, Succeed
  <2>2. CASE Fail(t)
    BY <2>2, OutcomeTyped, BoundsTyped DEF BreakerInv, Fail
  <2> QED
    BY <2>1, <2>2
<1>2. BreakerTypeOK'
  BY <1>1 DEF BreakerInv, BreakerTypeOK, Done, Become, Forget, CircuitState
<1>3. HalfOpenIsProbing' /\ ProbeAccounted' /\ state' # "half_open"
  BY <1>1 DEF HalfOpenIsProbing, ProbeAccounted
<1> QED
  BY <1>2, <1>3 DEF BreakerInv

LEMMA BreakerInvStep ==
    ASSUME BreakerInv, BreakerStep
    PROVE  BreakerInv'
<1>1. ASSUME NEW t \in Thread, Flush(t) PROVE BreakerInv'
  <2>1. BreakerTypeOK'
    BY <1>1 DEF BreakerInv, BreakerTypeOK, Flush, Become
  <2> QED
    BY <1>1, <2>1
       DEF BreakerInv, HalfOpenIsProbing, ProbeAccounted, Flush
<1>2. CASE Reset
  <2>2. BreakerTypeOK'
    BY <1>2, BoundsTyped
       DEF BreakerInv, BreakerTypeOK, Reset, Forget, CircuitState
  <2> QED
    BY <1>2, <2>2 DEF BreakerInv, HalfOpenIsProbing, ProbeAccounted, Reset
<1>3. CASE Tick
  <2>1. sinceFailure \in 0 .. RecoveryTimeout
    BY DEF BreakerInv, BreakerTypeOK
  <2>2. sinceFailure' \in 0 .. RecoveryTimeout
    BY <1>3, <2>1, BoundsTyped DEF Tick
  <2>3. BreakerTypeOK'
    BY <1>3, <2>2 DEF BreakerInv, BreakerTypeOK, Tick
  <2> QED
    BY <1>3, <2>3 DEF BreakerInv, HalfOpenIsProbing, ProbeAccounted, Tick
<1>4. CASE UNCHANGED breakerVars
  BY <1>4 DEF BreakerInv, BreakerTypeOK, HalfOpenIsProbing, ProbeAccounted,
              breakerVars
<1> QED
  BY <1>1, <1>2, <1>3, <1>4, AskInv, UntoldInv, OutcomeInv DEF BreakerStep

\* Only the clock and a reset() take a circuit out of "open".
LEMMA OpenStep ==
    ASSUME BreakerInv, BreakerStep, state = "open", state' # "open"
    PROVE  \/ sinceFailure = RecoveryTimeout /\ state' = "half_open"
           \/ Reset
<1>1. ASSUME NEW t \in Thread, Ask(t)
      PROVE  sinceFailure = RecoveryTimeout /\ state' = "half_open"
  BY <1>1 DEF Ask, AllowClosed, AllowProbe, Reject, MayProbe, SetState
<1>2. ASSUME NEW t \in Thread, Succeed(t) \/ Fail(t) PROVE FALSE
  BY <1>2 DEF Succeed, Fail, AfterSuccess, AfterFailure
<1> QED
  BY <1>1, <1>2 DEF BreakerStep, Flush, Untold, Tick, breakerVars

LEMMA BreakerNextIsStep == [BreakerNext]_breakerVars => BreakerStep
  BY DEF BreakerNext, BreakerStep, Record, Ignore, Why

\* The breaker by itself: the flag of the probe agrees with the state, and a
\* half-open circuit has its probe accounted for, for any threads, thresholds,
\* timeouts and exceptions, in whatever order outcomes arrive.
THEOREM BreakerCorrect == BreakerSpec => []BreakerInv
<1>1. BreakerInv /\ [BreakerNext]_breakerVars => BreakerInv'
  BY BreakerInvStep, BreakerNextIsStep
<1> QED
  BY <1>1, BreakerInitInv, PTL DEF BreakerSpec

\* _probe_in_flight is set exactly in the half-open state.
THEOREM HalfOpenCorrect == BreakerSpec => []HalfOpenIsProbing
<1>1. BreakerInv => HalfOpenIsProbing
  BY DEF BreakerInv
<1> QED
  BY <1>1, BreakerCorrect, PTL

\* No late outcome opens up an open circuit.
THEOREM OpenCorrect == BreakerSpec => OpenHolds
<1>1. BreakerInv /\ [BreakerNext]_breakerVars =>
         [state = "open" /\ state' # "open" =>
            \/ sinceFailure = RecoveryTimeout /\ state' = "half_open"
            \/ Reset]_breakerVars
  BY OpenStep, BreakerNextIsStep
<1> QED
  BY <1>1, BreakerCorrect, PTL DEF BreakerSpec, OpenHolds

----------------------------------------------------------------------------
(* The groups of shards, for every number of shards *)

\* Division with remainder, as the code's // is.
LEMMA DivisionBounds ==
    ASSUME NEW a \in Nat, NEW k \in Nat \ {0}
    PROVE  /\ a \div k \in Nat
           /\ k * (a \div k) <= a
           /\ a < k * (a \div k) + k
  BY SMTT(30)

LEMMA ProductTyped ==
    ASSUME NEW k \in Nat, NEW a \in Nat
    PROVE  k * a \in Nat
  OBVIOUS

\* Multiples of k are k apart.
LEMMA Multiples ==
    ASSUME NEW k \in Nat, NEW a \in Nat, NEW b \in Nat
    PROVE  /\ a <= b => k * a <= k * b
           /\ a < b => k * a + k <= k * b
  BY SMTT(30)

\* The quotient is the only number with these bounds.
LEMMA Quotient ==
    ASSUME NEW k \in Nat \ {0}, NEW s \in Nat, NEW h \in Nat
    PROVE  h = s \div k <=> k * h <= s /\ s < k * h + k
<1> DEFINE q == s \div k
<1>1. q \in Nat /\ k * q <= s /\ s < k * q + k
  BY DivisionBounds
<1>2. k * h \in Nat /\ k * q \in Nat
  BY <1>1, ProductTyped
<1>3. ASSUME h < q PROVE s >= k * h + k
  BY <1>1, <1>2, <1>3, Multiples
<1>4. ASSUME q < h PROVE k * h > s
  BY <1>1, <1>2, <1>4, Multiples
<1> HIDE DEF q
<1> QED
  BY <1>1, <1>2, <1>3, <1>4 DEF q

\* The groups of up to seven shards are one; those of eight and more have two
\* to four shards each.
LEMMA GroupSizes ==
    ASSUME NEW n \in Nat \ {0}
    PROVE  \/ n < 8 /\ ShardsPerGroup(n) = n
           \/ n >= 8 /\ n < 12 /\ ShardsPerGroup(n) = 2
           \/ n >= 12 /\ n < 16 /\ ShardsPerGroup(n) = 3
           \/ n >= 16 /\ ShardsPerGroup(n) = 4
  BY DEF ShardsPerGroup, Least

LEMMA GroupBounds ==
    ASSUME NEW n \in Nat \ {0}, NEW h \in Nat, NEW s \in Nat, s < n,
           ShardsPerGroup(n) \in Nat
    PROVE  s \in Group(h, n) <=>
              /\ ShardsPerGroup(n) * h <= s
              /\ s < ShardsPerGroup(n) * h + ShardsPerGroup(n)
<1> DEFINE k == ShardsPerGroup(n)
<1>1. k * h \in Nat /\ h * k = k * h /\ (h + 1) * k = k * h + k
  BY SMTT(30)
<1> QED
  BY <1>1 DEF Group, Least

\* Each of n shards is in one group and no other, the one group_for_shard
\* returns, no group is empty, and there are at least four groups from eight
\* shards on.
LEMMA PartitionedAlways ==
    ASSUME NEW n \in Nat \ {0}
    PROVE  Partitioned(n)
<1> DEFINE k == ShardsPerGroup(n)
           m == NumGroups(n)
<1>1. k \in Nat \ {0} /\ k <= n /\ (n >= 8 => k <= 4 /\ n >= 4 * k)
  BY GroupSizes
<1>2. /\ m \in Nat
      /\ k * m <= n + k - 1
      /\ n + k - 1 < k * m + k
  <2>1. n + k - 1 \in Nat
    BY <1>1
  <2> QED
    BY <1>1, <2>1, DivisionBounds DEF NumGroups
<1>3. ASSUME NEW s \in 0 .. n - 1, NEW h \in Nat
      PROVE  /\ s \div k \in 0 .. m - 1
             /\ s \in Group(h, n) <=> h = s \div k
  <2>1. /\ s \in Nat /\ s < n
        /\ s \div k \in Nat
        /\ k * (s \div k) <= s /\ s < k * (s \div k) + k
    BY <1>1, DivisionBounds
  <2>2. s \div k < m
    <3>1. SUFFICES ASSUME m <= s \div k PROVE FALSE
      BY <1>2, <2>1
    <3>2. k * m <= k * (s \div k)
      BY <1>1, <1>2, <2>1, <3>1, Multiples
    <3> QED
      BY <1>1, <1>2, <2>1, <3>2, ProductTyped
  <2>3. s \in Group(h, n) <=> k * h <= s /\ s < k * h + k
    BY <1>1, <2>1, GroupBounds
  <2>4. h = s \div k <=> k * h <= s /\ s < k * h + k
    BY <1>1, <2>1, Quotient
  <2> QED
    BY <1>2, <2>1, <2>2, <2>3, <2>4
<1>4. ASSUME NEW g \in 0 .. m - 1
      PROVE  Group(g, n) # {}
  <2>1. k * g + k <= k * m
    BY <1>1, <1>2, Multiples
  <2>2. k * g \in Nat /\ k * m \in Nat /\ k * g < n
    BY <1>1, <1>2, <2>1, ProductTyped
  <2>3. k * g \in Group(g, n)
    BY <1>1, <2>2, GroupBounds
  <2> QED
    BY <2>3
<1>5. n >= 8 => m >= 4
  <2>1. SUFFICES ASSUME n >= 8, m <= 3 PROVE FALSE
    BY <1>2
  <2>2. k * m <= k * 3
    BY <1>1, <1>2, <2>1, Multiples
  <2> QED
    BY <1>1, <1>2, <2>1, <2>2, ProductTyped
<1> QED
  <2>1. ASSUME NEW s \in 0 .. n - 1
        PROVE  /\ s \div k \in 0 .. m - 1
               /\ GroupFor(s, n) = Group(s \div k, n)
               /\ \A h \in 0 .. m - 1 : s \in Group(h, n) <=> h = s \div k
    BY <1>3 DEF GroupFor
  <2> QED
    BY <1>4, <1>5, <2>1 DEF Partitioned

\* The groups have all shards, and only them.
LEMMA GroupedIsShard == Grouped = Shard
<1> DEFINE n == NumShards
<1>1. n \in Nat \ {0}
  BY ScanAssumption
<1>2. ShardsPerGroup(n) \in Nat
  BY <1>1, GroupSizes
<1>3. ASSUME NEW s \in Shard PROVE s \in Grouped
  <2>1. PICK g \in 0 .. NumGroups(n) - 1 :
           \A h \in 0 .. NumGroups(n) - 1 : s \in Group(h, n) <=> h = g
    BY <1>1, PartitionedAlways DEF Partitioned, Shard
  <2> QED
    BY <2>1 DEF Grouped, Groups
<1>4. ASSUME NEW s \in Grouped PROVE s \in Shard
  <2>1. PICK g \in 0 .. NumGroups(n) - 1 : s \in Group(g, n)
    BY DEF Grouped, Groups
  <2>2. /\ g * ShardsPerGroup(n) \in Nat
        /\ (g + 1) * ShardsPerGroup(n) \in Nat
    BY <1>2, <2>1, SMTT(30)
  <2> QED
    BY <1>1, <2>1, <2>2 DEF Group, Least, Shard
<1> QED
  BY <1>3, <1>4

----------------------------------------------------------------------------
(* Queue *)

\* Every step of the queue does to the breaker what some call of it does.
LEMMA QueueBreakerStep == [QueueNext]_queueVars => BreakerStep
<1> SUFFICES ASSUME [QueueNext]_queueVars PROVE BreakerStep
  OBVIOUS
<1>1. ASSUME NEW t \in Thread, AskToPop(t) \/ Scan(t) \/ Settle(t)
      PROVE  BreakerStep
  BY <1>1 DEF AskToPop, Scan, BeginScan, Lock, TakeJob, SeeNothing, SeeError,
              FindNothing, Leave, Settle, CompleteInShard, FailInShard,
              FailRaises, TellBreaker, Told, BreakerStep, Why
<1>2. ASSUME NEW j \in Job, Enqueue(j) \/ FallDue(j) \/ Requeue(j) \/ Remove(j)
      PROVE  BreakerStep
  BY <1>2 DEF Enqueue, FallDue, Requeue, Remove, Carry, BreakerStep
<1>3. CASE BreakerAlone
  BY <1>3 DEF BreakerAlone, BreakerStep
<1>4. CASE BeginSurvey \/ \E erred \in BOOLEAN : CountShard(erred)
  BY <1>4 DEF BeginSurvey, CountShard, BreakerStep
<1>5. CASE UNCHANGED queueVars
  BY <1>5 DEF queueVars, BreakerStep
<1> QED
  BY <1>1, <1>2, <1>3, <1>4, <1>5 DEF QueueNext

\* What Follow leaves owed: nothing that was missed, moved or not owed before.
LEMMA Followed ==
    ASSUME QueueTypeOK, place' \in [Job -> Place],
           NEW missed \in [Thread -> SUBSET Job], Follow(missed)
    PROVE  /\ owed' \in [Thread -> SUBSET Job]
           /\ \A t \in Thread :
                 owed'[t] = {j \in owed[t] \ missed[t] : place'[j] = "waiting"}
           /\ survey' \in [next : 0 .. NumShards, found : BOOLEAN,
                           erred : BOOLEAN, owed : SUBSET Job]
           /\ survey'.next = survey.next
           /\ survey'.found = survey.found
           /\ survey'.erred = survey.erred
           /\ survey'.owed =
                 {j \in survey.owed : place'[j] \in {"waiting", "delayed"}}
<1>1. /\ owed \in [Thread -> SUBSET Job]
      /\ survey \in [next : 0 .. NumShards, found : BOOLEAN,
                     erred : BOOLEAN, owed : SUBSET Job]
  BY DEF QueueTypeOK
<1>2. /\ owed' = [t \in Thread |->
                    {j \in owed[t] \ missed[t] : place'[j] = "waiting"}]
      /\ survey' = [survey EXCEPT !.owed =
                      {j \in survey.owed : place'[j] \in {"waiting", "delayed"}}]
  BY DEF Follow
<1> QED
  BY <1>1, <1>2

\* Nobody is ever said to have missed what is not a job.
LEMMA MissedTyped ==
    ASSUME NEW t \in Thread, NEW jobs \in SUBSET Job
    PROVE  /\ NoneMissed \in [Thread -> SUBSET Job]
           /\ [NoneMissed EXCEPT ![t] = jobs] \in [Thread -> SUBSET Job]
  BY DEF NoneMissed

\* The invariant of the scans and the survey.
ScanInv == QueueTypeOK /\ OwedAhead /\ SurveyAhead

\* Jobs that move change nothing of what threads in a scan and the survey look
\* at, and what is owed shrinks with them.
LEMMA FollowInv ==
    ASSUME ScanInv, BreakerTypeOK',
           place' \in [Job -> Place],
           NEW missed \in [Thread -> SUBSET Job], Follow(missed),
           UNCHANGED <<left, inside, job>>,
           late' \in [Thread -> SUBSET Job],
           \A t \in Thread : inside[t] = NULL => late'[t] = {},
           \A t \in Thread : \A j \in late'[t] \ late[t] : place[j] # "waiting",
           at' \in [Thread -> {"out", "scanning", "working", "completed", "failed"}],
           \A t \in Thread : at[t] = "scanning" => at'[t] = "scanning"
    PROVE  ScanInv'
<1>1. QueueTypeOK'
  BY Followed DEF ScanInv, QueueTypeOK
<1>2. OwedAhead'
  BY Followed DEF ScanInv, OwedAhead
<1>3. SurveyAhead'
  BY Followed DEF ScanInv, SurveyAhead, Pending, QueueTypeOK
<1> QED
  BY <1>1, <1>2, <1>3 DEF ScanInv

LEMMA BeginScanInv ==
    ASSUME ScanInv, BreakerTypeOK', NEW t \in Thread, BeginScan(t)
    PROVE  ScanInv'
<1>1. CASE pc[t] = "admitted"
  <2>1. Grouped = Shard /\ Waiting \in SUBSET Job
    BY GroupedIsShard DEF Waiting
  <2>2. /\ at' = [at EXCEPT ![t] = "scanning"]
        /\ left' = [left EXCEPT ![t] = Shard]
        /\ owed' = [owed EXCEPT ![t] = Waiting]
        /\ UNCHANGED <<place, inside, late, job, survey>>
    BY <1>1, <2>1 DEF BeginScan, Stand
  <2>3. QueueTypeOK'
    BY <2>1, <2>2 DEF ScanInv, QueueTypeOK
  <2>4. OwedAhead'
    <3>1. inside[t] = NULL /\ late[t] = {}
      BY DEF BeginScan, ScanInv, OwedAhead
    <3> QED
      BY <2>1, <2>2, <3>1, ScanAssumption
         DEF ScanInv, QueueTypeOK, OwedAhead, Waiting
  <2>5. SurveyAhead'
    BY <2>2 DEF ScanInv, SurveyAhead, Pending
  <2> QED
    BY <2>3, <2>4, <2>5 DEF ScanInv
<1>2. CASE pc[t] # "admitted"
  BY <1>2 DEF BeginScan, ScanInv, QueueTypeOK, OwedAhead, SurveyAhead, Pending
<1> QED
  BY <1>1, <1>2

\* The thread goes into a shard that was ahead of it.
LEMMA LockInv ==
    ASSUME ScanInv, BreakerTypeOK', NEW t \in Thread, NEW s \in Shard, Lock(t, s)
    PROVE  ScanInv'
<1>1. /\ at[t] = "scanning" /\ inside[t] = NULL
      /\ inside' = [inside EXCEPT ![t] = s]
      /\ left' = [left EXCEPT ![t] = left[t] \ {s}]
      /\ UNCHANGED <<place, at, late, job, owed, survey>>
  BY DEF Lock
<1>2. QueueTypeOK'
  BY <1>1 DEF ScanInv, QueueTypeOK
<1>3. OwedAhead'
  <2>1. ASSUME NEW j \in owed[t] PROVE ShardOf[j] \in left'[t] \cup {inside'[t]}
    <3>1. ShardOf[j] \in left[t] \cup {NULL} /\ ShardOf[j] \in Shard
      BY <1>1, ScanAssumption DEF ScanInv, OwedAhead, QueueTypeOK
    <3> QED
      BY <1>1, <3>1, ScanAssumption DEF ScanInv, QueueTypeOK
  <2> QED
    BY <1>1, <2>1 DEF ScanInv, OwedAhead, QueueTypeOK
<1>4. SurveyAhead'
  BY <1>1 DEF ScanInv, SurveyAhead, Pending
<1> QED
  BY <1>2, <1>3, <1>4 DEF ScanInv

\* A thread that leaves a shard with nothing owed in it.
LEMMA UnlockInv ==
    ASSUME ScanInv, BreakerTypeOK', NEW t \in Thread, Unlock(t),
           UNCHANGED <<place, at, left, job, owed, survey>>,
           \A j \in owed[t] : ShardOf[j] # inside[t]
    PROVE  ScanInv'
<1>1. QueueTypeOK'
  BY DEF ScanInv, QueueTypeOK, Unlock
<1>2. OwedAhead'
  BY DEF ScanInv, QueueTypeOK, OwedAhead, Unlock
<1>3. SurveyAhead'
  BY DEF ScanInv, SurveyAhead, Pending
<1> QED
  BY <1>1, <1>2, <1>3 DEF ScanInv

LEMMA SeeNothingInv ==
    ASSUME ScanInv, BreakerTypeOK', NEW t \in Thread, SeeNothing(t)
    PROVE  ScanInv'
<1>1. ASSUME NEW j \in owed[t] PROVE ShardOf[j] # inside[t]
  <2>1. j \in Waiting
    BY DEF ScanInv, OwedAhead, QueueTypeOK, Waiting
  <2>2. j \notin late[t]
    BY DEF ScanInv, OwedAhead
  <2> QED
    BY <2>1, <2>2 DEF SeeNothing, Due, In
<1> QED
  BY <1>1, UnlockInv DEF SeeNothing

LEMMA SeeErrorInv ==
    ASSUME ScanInv, BreakerTypeOK', NEW t \in Thread, SeeError(t)
    PROVE  ScanInv'
<1> DEFINE missed == [NoneMissed EXCEPT ![t] = In(Job, inside[t])]
<1>1. /\ missed \in [Thread -> SUBSET Job]
      /\ missed[t] = In(Job, inside[t])
  BY MissedTyped DEF In, NoneMissed
<1>2. place' = place /\ Follow(missed)
  BY DEF SeeError
<1>3. place' \in [Job -> Place]
  BY <1>2 DEF ScanInv, QueueTypeOK
<1> HIDE DEF missed
<1>4. QueueTypeOK'
  BY <1>1, <1>2, <1>3, Followed DEF ScanInv, QueueTypeOK, SeeError, Unlock
<1>5. OwedAhead'
  <2>1. ASSUME NEW u \in Thread, NEW j \in owed'[u]
        PROVE  /\ place'[j] = "waiting" /\ j \notin late'[u]
               /\ ShardOf[j] \in left'[u] \cup {inside'[u]}
    <3>1. /\ j \in owed[u] \ missed[u] /\ place'[j] = "waiting"
          /\ ShardOf[j] \in left[u] \cup {inside[u]} /\ j \in Job
          /\ j \notin late[u]
      BY <1>1, <1>2, <1>3, Followed DEF ScanInv, OwedAhead, QueueTypeOK
    <3>2. u = t => ShardOf[j] # inside[t]
      BY <1>1, <3>1 DEF In
    <3> QED
      BY <3>1, <3>2 DEF ScanInv, QueueTypeOK, SeeError, Unlock
  <2>2. ASSUME NEW u \in Thread, at'[u] # "scanning"
        PROVE  owed'[u] = {} /\ inside'[u] = NULL
    BY <1>1, <1>2, <1>3, <2>2, Followed
       DEF ScanInv, OwedAhead, QueueTypeOK, SeeError, Unlock
  <2>3. ASSUME NEW u \in Thread, inside'[u] = NULL PROVE late'[u] = {}
    BY <2>3 DEF ScanInv, OwedAhead, QueueTypeOK, SeeError, Unlock
  <2> QED
    BY <2>1, <2>2, <2>3 DEF OwedAhead
<1>6. SurveyAhead'
  BY <1>1, <1>2, <1>3, Followed DEF ScanInv, SurveyAhead, Pending, QueueTypeOK
<1> QED
  BY <1>4, <1>5, <1>6 DEF ScanInv

\* The thread that takes a job is owed nothing any more; the job it takes
\* leaves every other account.
LEMMA TakeJobInv ==
    ASSUME ScanInv, BreakerTypeOK', NEW t \in Thread, NEW j \in Job, TakeJob(t, j)
    PROVE  ScanInv'
<1> DEFINE missed == [NoneMissed EXCEPT ![t] = Job]
<1>1. missed \in [Thread -> SUBSET Job] /\ missed[t] = Job
  BY MissedTyped DEF NoneMissed
<1>2. /\ place' = [place EXCEPT ![j] = "taken"]
      /\ job' = [job EXCEPT ![t] = j]
      /\ at' = [at EXCEPT ![t] = "working"]
      /\ left' = [left EXCEPT ![t] = {}]
      /\ inside' = [inside EXCEPT ![t] = NULL]
      /\ late' = [late EXCEPT ![t] = {}]
      /\ Follow(missed)
  BY DEF TakeJob, Move, Stand, Unlock
<1>3. place' \in [Job -> Place]
  BY <1>2 DEF ScanInv, QueueTypeOK, Place
<1> HIDE DEF missed
<1>4. QueueTypeOK'
  BY <1>1, <1>2, <1>3, Followed DEF ScanInv, QueueTypeOK
<1>5. OwedAhead'
  <2>1. owed'[t] = {}
    BY <1>1, <1>2, <1>3, Followed DEF ScanInv, QueueTypeOK
  <2>2. ASSUME NEW u \in Thread, u # t
        PROVE  /\ at'[u] = at[u] /\ left'[u] = left[u] /\ inside'[u] = inside[u]
               /\ late'[u] = late[u]
               /\ owed'[u] \subseteq owed[u]
               /\ \A k \in owed'[u] : place'[k] = "waiting"
    BY <1>1, <1>2, <1>3, <2>2, Followed DEF ScanInv, QueueTypeOK
  <2>3. inside'[t] = NULL /\ late'[t] = {}
    BY <1>2 DEF ScanInv, QueueTypeOK
  <2> QED
    BY <2>1, <2>2, <2>3 DEF ScanInv, OwedAhead
<1>6. SurveyAhead'
  BY <1>1, <1>2, <1>3, Followed DEF ScanInv, SurveyAhead, Pending, QueueTypeOK
<1> QED
  BY <1>4, <1>5, <1>6 DEF ScanInv

\* A thread goes out of the queue; only one that scans is in a shard, and not
\* when it leaves.
LEMMA LeaveInv ==
    ASSUME ScanInv, BreakerTypeOK', NEW t \in Thread, inside[t] = NULL,
           at' = [at EXCEPT ![t] = "out"],
           job' = [job EXCEPT ![t] = NULL],
           owed'[t] = {}, \A u \in Thread \ {t} : owed'[u] = owed[u],
           owed' \in [Thread -> SUBSET Job],
           UNCHANGED <<place, left, inside, late, survey>>
    PROVE  ScanInv'
<1>1. QueueTypeOK'
  BY DEF ScanInv, QueueTypeOK
<1>2. OwedAhead'
  BY DEF ScanInv, OwedAhead, QueueTypeOK
<1>3. SurveyAhead'
  BY DEF ScanInv, SurveyAhead, Pending
<1> QED
  BY <1>1, <1>2, <1>3 DEF ScanInv

LEMMA LeaveUntoldInv ==
    ASSUME ScanInv, BreakerTypeOK', NEW t \in Thread, inside[t] = NULL,
           NEW why, Leave(t, why)
    PROVE  ScanInv'
<1>1. /\ at' = [at EXCEPT ![t] = "out"]
      /\ job' = [job EXCEPT ![t] = NULL]
      /\ owed' = [owed EXCEPT ![t] = {}]
      /\ UNCHANGED <<place, left, inside, late, survey>>
  BY DEF Leave, Stand
<1> QED
  BY <1>1, LeaveInv DEF ScanInv, QueueTypeOK

LEMMA ScanStepInv ==
    ASSUME ScanInv, BreakerTypeOK', NEW t \in Thread, Scan(t)
    PROVE  ScanInv'
<1>1. CASE FindNothing(t)
  BY <1>1, LeaveUntoldInv DEF FindNothing
<1>2. ASSUME NEW s \in Shard, Lock(t, s) PROVE ScanInv'
  BY <1>2, LockInv
<1>3. ASSUME NEW j \in Job, TakeJob(t, j) PROVE ScanInv'
  BY <1>3, TakeJobInv
<1>4. CASE BeginScan(t) \/ SeeNothing(t) \/ SeeError(t)
  BY <1>4, BeginScanInv, SeeNothingInv, SeeErrorInv
<1> QED
  BY <1>1, <1>2, <1>3, <1>4 DEF Scan

LEMMA SettleInv ==
    ASSUME ScanInv, BreakerTypeOK', NEW t \in Thread, Settle(t)
    PROVE  ScanInv'
<1>1. CASE CompleteInShard(t) \/ FailInShard(t)
  <2>1. NoneMissed \in [Thread -> SUBSET Job] /\ Follow(NoneMissed)
    BY <1>1, MissedTyped DEF CompleteInShard, FailInShard
  <2>2. place' \in [Job -> Place]
    BY <1>1 DEF CompleteInShard, FailInShard, Move, Place, ScanInv, QueueTypeOK
  <2>3. /\ at' \in [Thread -> {"out", "scanning", "working", "completed", "failed"}]
        /\ \A u \in Thread : at[u] = "scanning" => at'[u] = "scanning"
    BY <1>1 DEF CompleteInShard, FailInShard, Stand, ScanInv, QueueTypeOK
  <2>4. UNCHANGED <<left, inside, late, job>>
    BY <1>1 DEF CompleteInShard, FailInShard
  <2> QED
    BY <2>1, <2>2, <2>3, <2>4, FollowInv DEF ScanInv, QueueTypeOK, OwedAhead
<1>2. CASE FailRaises(t)
  <2>1. inside[t] = NULL
    BY <1>2 DEF FailRaises, ScanInv, OwedAhead
  <2> QED
    BY <1>2, <2>1, LeaveUntoldInv DEF FailRaises
<1>3. CASE TellBreaker(t)
  BY <1>3, LeaveInv DEF TellBreaker, Stand, ScanInv, OwedAhead, QueueTypeOK
<1> QED
  BY <1>1, <1>2, <1>3 DEF Settle

\* Only threads inside a shard have read a time, and only a job that was not
\* waiting falls due after it.
LateBecomesOf(j) ==
    /\ late' \in [Thread -> SUBSET Job]
    /\ \A t \in Thread : inside[t] = NULL => late'[t] = {}
    /\ \A t \in Thread : late'[t] \subseteq late[t] \cup {j}

LEMMA TooLateTyped ==
    ASSUME ScanInv, NEW j \in Job, NEW threads \in SUBSET Inside,
           TooLateFor(j, threads)
    PROVE  LateBecomesOf(j)
<1>1. late \in [Thread -> SUBSET Job] /\ threads \subseteq Thread
  BY DEF ScanInv, QueueTypeOK, Inside
<1>2. \A t \in Thread : late'[t] = IF t \in threads THEN late[t] \cup {j}
                                                   ELSE late[t] \ {j}
  BY DEF TooLateFor
<1>3. late' \in [Thread -> SUBSET Job]
  BY <1>1 DEF TooLateFor
<1>4. \A t \in Thread : inside[t] = NULL => t \notin threads /\ late[t] = {}
  BY DEF ScanInv, OwedAhead, Inside
<1> QED
  BY <1>2, <1>3, <1>4 DEF LateBecomesOf

LEMMA CarryInv ==
    ASSUME ScanInv, BreakerTypeOK', NEW j \in Job, NEW from \in SUBSET Place,
           NEW to \in Place, Carry(j, from, to),
           late' = late \/ ("waiting" \notin from /\ LateBecomesOf(j))
    PROVE  ScanInv'
<1>1. NoneMissed \in [Thread -> SUBSET Job] /\ Follow(NoneMissed)
  BY DEF Carry, NoneMissed
<1>2. place' \in [Job -> Place]
  BY DEF Carry, Move, ScanInv, QueueTypeOK
<1>3. UNCHANGED <<at, left, inside, job>> /\ place[j] \in from
  BY DEF Carry
<1>4. /\ late' \in [Thread -> SUBSET Job]
      /\ \A t \in Thread : inside[t] = NULL => late'[t] = {}
      /\ \A t \in Thread : \A k \in late'[t] \ late[t] : place[k] # "waiting"
  BY <1>3 DEF LateBecomesOf, ScanInv, QueueTypeOK, OwedAhead
<1> QED
  BY <1>1, <1>2, <1>3, <1>4, FollowInv DEF ScanInv, QueueTypeOK

\* The survey goes past a shard only after it counted what was pending there.
LEMMA SurveyInv ==
    ASSUME ScanInv, BreakerTypeOK',
           BeginSurvey \/ \E erred \in BOOLEAN : CountShard(erred)
    PROVE  ScanInv'
<1>1. UNCHANGED <<place, at, left, inside, late, job, owed>>
  BY DEF BeginSurvey, CountShard
<1>2. NumShards \in Nat /\ 0 \in 0 .. NumShards
  BY ScanAssumption
<1>3. CASE BeginSurvey
  <2>1. survey' = [next |-> 0, found |-> FALSE, erred |-> FALSE, owed |-> Pending]
    BY <1>3 DEF BeginSurvey
  <2>2. QueueTypeOK'
    BY <1>1, <1>2, <2>1 DEF ScanInv, QueueTypeOK, Pending
  <2>3. OwedAhead'
    BY <1>1 DEF ScanInv, OwedAhead
  <2>4. SurveyAhead'
    BY <1>1, <2>1, ScanAssumption DEF SurveyAhead, Pending, Shard
  <2> QED
    BY <2>2, <2>3, <2>4 DEF ScanInv
<1>4. ASSUME NEW erred \in BOOLEAN, CountShard(erred) PROVE ScanInv'
  <2>1. /\ survey.next \in 0 .. NumShards /\ survey.next < NumShards
        /\ survey.owed \in SUBSET Job
        /\ survey.found \in BOOLEAN /\ survey.erred \in BOOLEAN
    BY <1>4 DEF ScanInv, QueueTypeOK, CountShard
  <2>2. /\ survey' \in [next : 0 .. NumShards, found : BOOLEAN,
                        erred : BOOLEAN, owed : SUBSET Job]
        /\ survey'.next = survey.next + 1
        /\ survey'.owed = survey.owed
    <3>1. survey.next + 1 \in 0 .. NumShards
      BY <1>2, <2>1
    <3> QED
      BY <1>4, <2>1, <3>1 DEF ScanInv, QueueTypeOK, CountShard
  <2>3. /\ survey'.found = (survey.found \/ (~erred /\ CountsPending(survey.next)))
        /\ survey'.erred = (survey.erred \/ erred)
    BY <1>4 DEF ScanInv, QueueTypeOK, CountShard
  <2>4. QueueTypeOK'
    BY <1>1, <2>2 DEF ScanInv, QueueTypeOK
  <2>5. OwedAhead'
    BY <1>1 DEF ScanInv, OwedAhead
  <2>6. SurveyAhead'
    <3> SUFFICES ASSUME ~survey'.found, ~survey'.erred, NEW j \in survey'.owed
                 PROVE  j \in Pending' /\ ShardOf[j] >= survey'.next
      BY DEF SurveyAhead
    <3>1. /\ ~survey.found /\ ~survey.erred /\ ~CountsPending(survey.next)
      BY <2>3
    <3>2. j \in Pending /\ ShardOf[j] >= survey.next
      BY <2>2, <3>1 DEF ScanInv, SurveyAhead
    <3>3. ShardOf[j] # survey.next
      BY <3>1, <3>2 DEF CountsPending, In
    <3>4. ShardOf[j] \in Nat
      BY <3>2, ScanAssumption DEF Pending, Shard
    <3> QED
      BY <1>1, <2>1, <2>2, <3>2, <3>3, <3>4 DEF Pending
  <2> QED
    BY <2>4, <2>5, <2>6 DEF ScanInv
<1> QED
  BY <1>3, <1>4

LEMMA ScanInvStep ==
    ASSUME ScanInv, BreakerTypeOK', [QueueNext]_queueVars
    PROVE  ScanInv'
<1>1. ASSUME UNCHANGED scanVars PROVE ScanInv'
  BY <1>1 DEF scanVars, ScanInv, QueueTypeOK, OwedAhead, SurveyAhead, Pending
<1>2. ASSUME NEW j \in Job, Enqueue(j) \/ FallDue(j) \/ Requeue(j) \/ Remove(j)
      PROVE  ScanInv'
  <2>1. CASE Enqueue(j) \/ Remove(j)
    BY <2>1, CarryInv DEF Enqueue, Remove, Place
  <2>2. CASE FallDue(j) \/ Requeue(j)
    <3>1. LateBecomesOf(j)
      BY <2>2, TooLateTyped DEF FallDue, Requeue
    <3> QED
      BY <2>2, <3>1, CarryInv DEF FallDue, Requeue, Place
  <2> QED
    BY <1>2, <2>1, <2>2
<1> QED
  BY <1>1, <1>2, ScanStepInv, SettleInv, SurveyInv
     DEF QueueNext, AskToPop, BreakerAlone, scanVars, queueVars

LEMMA QueueInvParts == QueueInv <=> BreakerInv /\ ScanInv
  BY DEF QueueInv, BreakerInv, ScanInv, QueueTypeOK

LEMMA QueueInitInv == QueueInit => QueueInv
<1> SUFFICES ASSUME QueueInit PROVE QueueInv
  OBVIOUS
<1>1. BreakerInv
  BY BreakerInitInv DEF QueueInit
<1>2. NumShards \in 0 .. NumShards
  BY ScanAssumption
<1>3. QueueTypeOK
  <2>1. survey \in [next : 0 .. NumShards, found : BOOLEAN, erred : BOOLEAN,
                    owed : SUBSET Job]
    BY <1>2 DEF QueueInit
  <2> QED
    BY <1>1, <2>1 DEF QueueInit, QueueTypeOK, BreakerInv, Place
<1>4. OwedAhead /\ SurveyAhead
  BY DEF QueueInit, OwedAhead, SurveyAhead
<1> QED
  BY <1>1, <1>3, <1>4, QueueInvParts DEF ScanInv

LEMMA QueueInvStep ==
    ASSUME QueueInv, [QueueNext]_queueVars
    PROVE  QueueInv'
<1>1. BreakerInv'
  BY BreakerInvStep, QueueBreakerStep, QueueInvParts
<1>2. ScanInv'
  BY <1>1, ScanInvStep, QueueInvParts DEF BreakerInv
<1> QED
  BY <1>1, <1>2 DEF BreakerInv, ScanInv, QueueInv, QueueTypeOK

\* What the threads in a scan, the survey and the breaker rely on, for any
\* threads, jobs, number of shards and choice of shard for each job.
THEOREM QueueCorrect == QueueSpec => []QueueInv
  BY QueueInitInv, QueueInvStep, PTL DEF QueueSpec

\* pop_job says there is no job only if it missed none.
THEOREM ScanMissesNothing == QueueSpec => []NothingMissed
<1>1. QueueInv => NothingMissed
  <2> SUFFICES ASSUME QueueInv, NEW t \in Thread, left[t] = {}, inside[t] = NULL
               PROVE  owed[t] = {}
    BY DEF NothingMissed
  <2>1. ASSUME NEW j \in owed[t] PROVE ShardOf[j] = NULL /\ ShardOf[j] \in Shard
    BY ScanAssumption DEF QueueInv, QueueTypeOK, OwedAhead
  <2> QED
    BY <2>1, ScanAssumption
<1> QED
  BY <1>1, QueueCorrect, PTL

\* A scan with shards left always has a next one, and every number of shards
\* is split into groups that have each shard once.
THEOREM ScanGoesOn == QueueSpec => []GroupsCover
<1>1. QueueInv => GroupsCover
  <2> SUFFICES ASSUME QueueInv, NEW t \in Thread, left[t] # {}
               PROVE  NextShards(t) # {} /\ AllPartitioned
    BY DEF GroupsCover
  <2>1. AllPartitioned
    BY PartitionedAlways, ScanAssumption DEF AllPartitioned
  <2>2. NextShards(t) # {}
    <3>1. left[t] \cap Grouped # {}
      BY GroupedIsShard DEF QueueInv, QueueTypeOK
    <3> QED
      BY <3>1 DEF NextShards
  <2> QED
    BY <2>1, <2>2
<1> QED
  BY <1>1, QueueCorrect, PTL

\* is_empty does not call a queue empty over a job that was pending all the
\* time, unless a shard failed to answer.
THEOREM SurveyCorrect == QueueSpec => []SurveySound
<1>1. QueueInv => SurveySound
  <2> SUFFICES ASSUME QueueInv, SaysEmpty, ~survey.erred, NEW j \in survey.owed
               PROVE  FALSE
    BY DEF SurveySound
  <2>1. j \in Job /\ ShardOf[j] >= NumShards
    BY DEF QueueInv, SurveyAhead, SaysEmpty, Pending
  <2> QED
    BY <2>1, ScanAssumption DEF Shard
<1> QED
  BY <1>1, QueueCorrect, PTL

\* A half-open circuit waits for a probe under way or one known to be lost,
\* however pop_job, complete_job and fail_job of the workers interleave.
THEOREM ProbesCorrect == QueueSpec => []ProbeAccounted
<1>1. QueueInv => ProbeAccounted
  BY DEF QueueInv
<1> QED
  BY <1>1, QueueCorrect, PTL

\* Nor does any step of the queue open up an open circuit before its time.
THEOREM QueueKeepsOpen == QueueSpec => OpenHolds
<1>1. QueueInv /\ [QueueNext]_queueVars =>
         [state = "open" /\ state' # "open" =>
            \/ sinceFailure = RecoveryTimeout /\ state' = "half_open"
            \/ Reset]_breakerVars
  BY OpenStep, QueueBreakerStep, QueueInvParts
<1> QED
  BY <1>1, QueueCorrect, PTL DEF QueueSpec, OpenHolds

=============================================================================
