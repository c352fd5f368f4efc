-------------------------- MODULE RateLimiterProofs -------------------------
(* Theorems about RateLimiter for every capacity, cost of a token, set of   *)
(* rates and number of threads.                                             *)
EXTENDS RateLimiter, TLAPS

----------------------------------------------------------------------------
(* Arithmetic of the bucket *)

LEMMA CapTyped ==
    ASSUME NEW x \in Nat
    PROVE  /\ Cap(x) \in 0 .. Capacity
           /\ x <= Capacity => Cap(x) = x
           /\ x >= Capacity => Cap(x) = Capacity
  BY LimiterAssumption DEF Cap

\* Filling in two parts fills as much as filling at once.
LEMMA CapInParts ==
    ASSUME NEW x \in Nat, NEW y \in Nat
    PROVE  Cap(Cap(x) + y) = Cap(x + y)
  BY LimiterAssumption DEF Cap

\* What accrues in one more tick.
LEMMA OneMoreTick ==
    ASSUME NEW e \in Nat, NEW r \in Nat
    PROVE  e * r \in Nat /\ (e + 1) * r = e * r + r
  BY SMTT(30)

\* A bucket is full after as many ticks as it has units.
LEMMA FullAtLast ==
    ASSUME NEW e \in Nat, NEW r \in Nat \ {0}
    PROVE  e * r \in Nat /\ e * r >= e
<1>1. e * r \in Nat
  BY SMTT(30)
<1>2. PICK k \in Nat : r = k + 1
  <2>1. r - 1 \in Nat /\ r = (r - 1) + 1
    OBVIOUS
  <2> QED
    BY <2>1
<1>3. e * (k + 1) = e * k + e /\ e * k \in Nat
  BY SMTT(30)
<1> QED
  BY <1>1, <1>2, <1>3

LEMMA LimiterTyped ==
    ASSUME LimiterTypeOK
    PROVE  /\ tokens \in Nat /\ tokens <= Capacity
           /\ rate \in Nat \ {0} /\ elapsed \in Nat
           /\ elapsed * rate \in Nat
           /\ Refilled \in 0 .. Capacity
<1>1. /\ tokens \in Nat /\ tokens <= Capacity /\ rate \in Nat \ {0}
      /\ elapsed \in Nat
  BY LimiterAssumption DEF LimiterTypeOK
<1>2. elapsed * rate \in Nat
  BY <1>1, FullAtLast
<1> QED
  BY <1>1, <1>2, CapTyped DEF Refilled

----------------------------------------------------------------------------
(* The critical sections *)

\* A step that begins with _refill and takes some units.
Takes(units) == tokens' = Refilled - units /\ elapsed' = 0 /\ rate' = rate

LEMMA TakesLeaves ==
    ASSUME LimiterTypeOK, NEW units \in 0 .. Refilled, Takes(units)
    PROVE  /\ tokens' \in 0 .. Capacity
           /\ elapsed' \in 0 .. MaxElapsed /\ rate' \in Rates
           /\ Refilled' = Refilled - units
<1>1. Refilled \in Nat /\ Refilled <= Capacity /\ Capacity \in Nat
  BY LimiterTyped, LimiterAssumption
<1>2. Refilled - units \in 0 .. Capacity
  BY <1>1
<1>3. rate \in Rates /\ rate \in Nat /\ 0 \in 0 .. MaxElapsed
  BY LimiterTyped, LimiterAssumption DEF LimiterTypeOK
<1>4. Cap(Refilled - units + 0 * rate) = Refilled - units
  <2>1. 0 * rate = 0 /\ Refilled - units + 0 = Refilled - units
    BY <1>1, <1>3
  <2>2. Cap(Refilled - units) = Refilled - units
    BY <1>1, <1>2, CapTyped
  <2> QED
    BY <2>1, <2>2
<1> QED
  BY <1>2, <1>3, <1>4 DEF Takes, Refilled

\* The units a step takes: those of a token if it grants one.
LEMMA SectionTakes ==
    ASSUME LimiterTypeOK
    PROVE  /\ \A t \in Thread : Grant(t) => Refilled >= Cost /\ Takes(Cost)
           /\ \A t \in Thread : Wait(t) \/ Deny(t) => Takes(0)
           /\ TryAcquire => \/ Refilled >= Cost /\ Takes(Cost)
                            \/ Takes(0)
           /\ Look => Takes(0)
<1>1. Refilled \in Nat /\ Refilled - 0 = Refilled
  BY LimiterTyped, LimiterAssumption
<1> QED
  BY <1>1 DEF Takes, Grant, Wait, Deny, TryAcquire, Look, Refill

\* Where the threads can be after a critical section of any of them.
LEMMA WakeTyped ==
    ASSUME LimiterTypeOK, NEW t \in Thread, NEW n \in BOOLEAN,
           NEW stage \in {"idle", "checking", "waiting", "woken"}
    PROVE  /\ Wake(n) \in [Thread -> {"idle", "checking", "waiting", "woken"}]
           /\ [Wake(n) EXCEPT ![t] = stage]
                 \in [Thread -> {"idle", "checking", "waiting", "woken"}]
  BY DEF LimiterTypeOK, Wake

LEMMA NotifiedTyped == Notified \subseteq BOOLEAN
  BY DEF Notified

\* What a step does to the bucket, whatever it does to the threads.
BucketStep ==
    \/ Takes(0)
    \/ Refilled >= Cost /\ Takes(Cost)
    \/ rate' \in Rates /\ tokens' = Refilled /\ elapsed' = 0
    \/ tokens' = Capacity /\ elapsed' = 0 /\ rate' = rate
    \/ /\ elapsed' = IF elapsed < MaxElapsed THEN elapsed + 1 ELSE elapsed
       /\ UNCHANGED <<tokens, rate>>
    \/ UNCHANGED <<tokens, rate, elapsed>>

LEMMA NextIsBucketStep ==
    ASSUME LimiterTypeOK, [LimiterNext]_limiterVars
    PROVE  BucketStep
<1>1. ASSUME NEW t \in Thread, Call(t) \/ TimeOut(t) PROVE BucketStep
  BY <1>1 DEF BucketStep, Call, TimeOut
<1>2. ASSUME NEW t \in Thread, Grant(t) \/ Wait(t) \/ Deny(t) PROVE BucketStep
  BY <1>2, SectionTakes DEF BucketStep
<1>3. ASSUME NEW r \in Rates, UpdateRateLimit(r) PROVE BucketStep
  BY <1>3 DEF BucketStep, UpdateRateLimit, Refill
<1>4. CASE TryAcquire \/ Look
  BY <1>4, SectionTakes DEF BucketStep
<1>5. CASE ResetLimiter
  BY <1>5 DEF BucketStep, ResetLimiter
<1>6. CASE Tick
  BY <1>6 DEF BucketStep, Tick
<1>7. CASE UNCHANGED limiterVars
  BY <1>7 DEF BucketStep, limiterVars
<1> QED
  BY <1>1, <1>2, <1>3, <1>4, <1>5, <1>6, <1>7 DEF LimiterNext, Acquire

\* Every step keeps the bucket in its bounds, and its level is that of a
\* bucket that was filled all the time.
LEMMA BucketStepLevel ==
    ASSUME LimiterTypeOK, BucketStep
    PROVE  /\ tokens' \in 0 .. Capacity /\ rate' \in Rates
           /\ elapsed' \in 0 .. MaxElapsed
           /\ \/ Refilled' = Cap(Refilled + rate) /\ rate' = rate
              \/ Refilled >= Cost /\ Refilled' = Refilled - Cost /\ rate' = rate
              \/ rate' \in Rates /\ Refilled' = Refilled
              \/ Refilled' = Capacity /\ rate' = rate
              \/ Refilled' = Refilled /\ rate' = rate
<1>1. /\ tokens \in Nat /\ tokens <= Capacity /\ tokens \in 0 .. Capacity
      /\ rate \in Nat \ {0} /\ rate \in Rates
      /\ elapsed \in Nat /\ elapsed \in 0 .. MaxElapsed
      /\ elapsed * rate \in Nat
      /\ Refilled \in Nat /\ Refilled <= Capacity
      /\ Capacity \in Nat /\ Cost \in Nat /\ Rates \subseteq Nat
      /\ MaxElapsed \in Nat /\ MaxElapsed >= Capacity
  BY LimiterTyped, LimiterAssumption DEF LimiterTypeOK
<1>2. CASE Takes(0)
  <2>1. 0 \in 0 .. Refilled /\ Refilled - 0 = Refilled
    BY <1>1
  <2> QED
    BY <1>2, <2>1, TakesLeaves DEF Takes
<1>3. CASE Refilled >= Cost /\ Takes(Cost)
  <2>1. Cost \in 0 .. Refilled
    BY <1>1, <1>3
  <2> QED
    BY <1>3, <2>1, TakesLeaves DEF Takes
\* An empty elapsed time adds nothing, at any rate.
<1>4. ASSUME NEW x \in 0 .. Capacity, tokens' = x, elapsed' = 0, rate' \in Rates
      PROVE  Refilled' = x
  <2>1. rate' \in Nat /\ x \in Nat /\ x <= Capacity
    BY <1>1, <1>4
  <2>2. 0 * rate' = 0 /\ x + 0 = x
    <3>1. \A m \in Nat : 0 * m = 0
      OBVIOUS
    <3>2. x + 0 = x
      BY <2>1
    <3>3. 0 * rate' = 0
      BY <2>1, <3>1
    <3> QED
      BY <3>2, <3>3
  <2>3. Cap(x) = x
    BY <2>1, CapTyped
  <2> QED
    BY <1>4, <2>2, <2>3 DEF Refilled
<1>5. CASE rate' \in Rates /\ tokens' = Refilled /\ elapsed' = 0
  <2>1. Refilled \in 0 .. Capacity /\ 0 \in 0 .. MaxElapsed
    BY <1>1
  <2>2. Refilled' = Refilled
    BY <1>4, <1>5, <2>1
  <2> QED
    BY <1>5, <2>1, <2>2
<1>6. CASE tokens' = Capacity /\ elapsed' = 0 /\ rate' = rate
  <2>1. Capacity \in 0 .. Capacity /\ 0 \in 0 .. MaxElapsed
    BY <1>1
  <2> QED
    BY <1>1, <1>4, <1>6, <2>1
<1>7. CASE /\ elapsed' = IF elapsed < MaxElapsed THEN elapsed + 1 ELSE elapsed
           /\ UNCHANGED <<tokens, rate>>
  <2>1. elapsed' \in 0 .. MaxElapsed
    BY <1>1, <1>7
  <2>2. Refilled' = Cap(Refilled + rate)
    <3>1. CASE elapsed < MaxElapsed
      <4>1. elapsed' * rate' = elapsed * rate + rate
        BY <1>1, <1>7, <3>1, OneMoreTick
      <4>2. Refilled' = Cap(tokens + (elapsed * rate + rate))
        BY <1>7, <4>1 DEF Refilled
      <4>3. /\ tokens + elapsed * rate \in Nat
            /\ tokens + (elapsed * rate + rate) = tokens + elapsed * rate + rate
        BY <1>1
      <4>4. Cap(Refilled + rate) = Cap(tokens + elapsed * rate + rate)
        BY <1>1, <4>3, CapInParts DEF Refilled
      <4> QED
        BY <4>2, <4>3, <4>4
    <3>2. CASE ~(elapsed < MaxElapsed)
      <4>1. elapsed' = elapsed /\ elapsed >= Capacity
        BY <1>1, <1>7, <3>2
      <4>2. elapsed * rate >= elapsed
        BY <1>1, FullAtLast
      <4>3. tokens + elapsed * rate \in Nat /\ tokens + elapsed * rate >= Capacity
        BY <1>1, <4>1, <4>2
      <4>4. Refilled = Capacity
        BY <4>3, CapTyped DEF Refilled
      <4>5. Refilled' = Refilled
        BY <1>7, <4>1 DEF Refilled
      <4>6. Cap(Refilled + rate) = Capacity
        <5>1. Refilled + rate \in Nat /\ Refilled + rate >= Capacity
          BY <1>1, <4>4
        <5> QED
          BY <5>1, CapTyped
      <4> QED
        BY <4>4, <4>5, <4>6
    <3> QED
      BY <3>1, <3>2
  <2> QED
    BY <1>1, <1>7, <2>1, <2>2
<1>8. CASE UNCHANGED <<tokens, rate, elapsed>>
  BY <1>1, <1>8 DEF Refilled
<1> QED
  BY <1>2, <1>3, <1>5, <1>6, <1>7, <1>8 DEF BucketStep

----------------------------------------------------------------------------

LEMMA LimiterInitTyped == LimiterInit => LimiterTypeOK
<1>1. Capacity \in 0 .. Capacity /\ 0 \in 0 .. MaxElapsed /\ 0 \in 0 .. Timeout
  BY LimiterAssumption
<1> QED
  BY <1>1 DEF LimiterInit, LimiterTypeOK

LEMMA LimiterTypeStep ==
    ASSUME LimiterTypeOK, [LimiterNext]_limiterVars
    PROVE  LimiterTypeOK'
<1>1. /\ tokens' \in 0 .. Capacity /\ rate' \in Rates
      /\ elapsed' \in 0 .. MaxElapsed
  BY NextIsBucketStep, BucketStepLevel
<1>2. /\ pc' \in [Thread -> {"idle", "checking", "waiting", "woken"}]
      /\ left' \in [Thread -> 0 .. Timeout]
  <2>1. ASSUME NEW t \in Thread, Call(t) \/ Acquire(t)
        PROVE  /\ pc' \in [Thread -> {"idle", "checking", "waiting", "woken"}]
               /\ left' \in [Thread -> 0 .. Timeout]
    <3>1. Timeout \in 0 .. Timeout
      BY LimiterAssumption
    <3>2. CASE Call(t) \/ TimeOut(t)
      BY <3>1, <3>2 DEF Call, TimeOut, LimiterTypeOK
    <3>3. CASE Grant(t) \/ Wait(t) \/ Deny(t)
      <4>1. left' = left
        BY <3>3 DEF Grant, Wait, Deny
      <4>2. PICK n \in Notified : \E stage \in {"idle", "waiting"} :
               pc' = [Wake(n) EXCEPT ![t] = stage]
        BY <3>3 DEF Grant, Wait, Deny
      <4>3. PICK stage \in {"idle", "waiting"} : pc' = [Wake(n) EXCEPT ![t] = stage]
        BY <4>2
      <4>4. pc' \in [Thread -> {"idle", "checking", "waiting", "woken"}]
        BY <4>3, WakeTyped, NotifiedTyped
      <4> QED
        BY <4>1, <4>4 DEF LimiterTypeOK
    <3> QED
      BY <2>1, <3>2, <3>3 DEF Acquire
  <2>2. CASE TryAcquire \/ Look \/ \E r \in Rates : UpdateRateLimit(r)
    <3>1. left' = left /\ \E n \in BOOLEAN : pc' = Wake(n)
      BY <2>2, NotifiedTyped DEF TryAcquire, Look, UpdateRateLimit
    <3> QED
      BY <3>1 DEF LimiterTypeOK, Wake
  <2>3. CASE Tick
    <3>1. \A x \in 0 .. Timeout : (IF x > 0 THEN x - 1 ELSE 0) \in 0 .. Timeout
      BY LimiterAssumption
    <3> QED
      BY <2>3, <3>1 DEF Tick, LimiterTypeOK
  <2>4. CASE ResetLimiter \/ UNCHANGED limiterVars
    BY <2>4 DEF ResetLimiter, limiterVars, LimiterTypeOK
  <2> QED
    BY <2>1, <2>2, <2>3, <2>4 DEF LimiterNext
<1> QED
  BY <1>1, <1>2 DEF LimiterTypeOK

\* The bucket never overflows, is never overdrawn, and no deadline is later
\* than the timeout, for any parameters.
THEOREM LimiterTyping == LimiterSpec => []LimiterTypeOK
  BY LimiterInitTyped, LimiterTypeStep, PTL DEF LimiterSpec

\* The lazily filled bucket implements the one that fills at every tick: each
\* step of the code earns, spends, sets the rate, restores, or stutters.
THEOREM LimiterKeepsBucket == LimiterSpec => KeepsBucket
<1>1. LimiterInit => Bucket!Init
  <2> SUFFICES ASSUME LimiterInit PROVE Refilled = Capacity /\ rate \in Rates
    BY DEF Bucket!Init
  <2>1. rate \in Nat /\ Capacity \in Nat /\ rate \in Rates
    BY LimiterAssumption DEF LimiterInit
  <2>2. Capacity + 0 * rate = Capacity /\ Cap(Capacity) = Capacity
    BY <2>1, CapTyped
  <2> QED
    BY <2>1, <2>2 DEF LimiterInit, Refilled
<1>2. ASSUME LimiterTypeOK, [LimiterNext]_limiterVars
      PROVE  [Bucket!Next]_<<Refilled, rate>>
  <2>1. BucketStep
    BY <1>2, NextIsBucketStep
  <2>2. \/ Refilled' = Cap(Refilled + rate) /\ rate' = rate
        \/ Refilled >= Cost /\ Refilled' = Refilled - Cost /\ rate' = rate
        \/ rate' \in Rates /\ Refilled' = Refilled
        \/ Refilled' = Capacity /\ rate' = rate
        \/ Refilled' = Refilled /\ rate' = rate
    BY <1>2, <2>1, BucketStepLevel
  <2> QED
    BY <2>2 DEF Bucket!Next, Bucket!Earn, Bucket!Spend, Bucket!SetRate,
                Bucket!Restore, Bucket!Cap, Cap
<1> QED
  BY <1>1, <1>2, LimiterTyping, PTL DEF LimiterSpec, KeepsBucket, Bucket!Spec

=============================================================================
