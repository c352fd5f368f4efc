---------------------------- MODULE RateLimiter ----------------------------
(***************************************************************************)
(* The token bucket of core/rate_limiter.py and the threads that acquire   *)
(* from it.                                                                *)
(*                                                                         *)
(* The bucket is filled lazily: a critical section begins with _refill,    *)
(* which adds what accrued since the last one and notifies the waiters.    *)
(* acquire() waits on the condition for the whole time it has left; it is  *)
(* woken by somebody else's _refill or by its deadline.                    *)
(*                                                                         *)
(* Tokens are counted in units: rate units accrue in a tick, and a token   *)
(* costs Cost units, so that a token may take several ticks.               *)
(***************************************************************************)
EXTENDS Naturals

CONSTANTS
    Thread,
    Capacity,   \* burst_capacity, in units
    Cost,       \* units in a token
    Rates,      \* rates given to __init__ and update_rate_limit
    Timeout,    \* timeout of acquire, in ticks
    MaxElapsed  \* the elapsed time saturates here: a bucket fills before

ASSUME LimiterAssumption ==
    /\ Cost \in Nat \ {0}
    /\ Capacity \in Nat /\ Capacity >= Cost
    /\ Rates \subseteq Nat \ {0}
    /\ Timeout \in Nat
    /\ MaxElapsed \in Nat /\ MaxElapsed >= Capacity

VARIABLES
    tokens,     \* _tokens
    rate,       \* rate_limit
    elapsed,    \* time since _last_refill
    pc,         \* where each thread is in acquire
    left        \* time left until its deadline

limiterVars == <<tokens, rate, elapsed, pc, left>>

Cap(x) == IF x <= Capacity THEN x ELSE Capacity

\* Mutant of Refilled: what accrues is not capped.
RefilledUncapped == tokens + elapsed * rate

\* _tokens after _refill
Refilled == Cap(tokens + elapsed * rate)

\* _last_refill = now
Refill == elapsed' = 0

\* _refill notifies if any time has passed at all, be it less than a tick.
Notified == IF elapsed > 0 THEN {TRUE} ELSE BOOLEAN

\* Where the threads are after notify_all.
Wake(notified) ==
    [t \in Thread |-> IF notified /\ pc[t] = "waiting" THEN "woken" ELSE pc[t]]

----------------------------------------------------------------------------
(* acquire *)

\* The deadline is set before the lock is taken.
Call(t) ==
    /\ pc[t] = "idle"
    /\ pc' = [pc EXCEPT ![t] = "checking"]
    /\ left' = [left EXCEPT ![t] = Timeout]
    /\ UNCHANGED <<tokens, rate, elapsed>>

\* Mutant of Blocks: the deadline is not looked at.
BlocksForever(t) == Refilled < Cost

Blocks(t) == Refilled < Cost /\ left[t] > 0

\* The critical section of a thread that holds the lock, up to the next wait.
Grant(t) ==
    /\ pc[t] \in {"checking", "woken"}
    /\ Refilled >= Cost
    /\ tokens' = Refilled - Cost
    /\ Refill
    /\ \E n \in Notified : pc' = [Wake(n) EXCEPT ![t] = "idle"]
    /\ UNCHANGED <<rate, left>>

Wait(t) ==
    /\ pc[t] \in {"checking", "woken"}
    /\ Blocks(t)
    /\ tokens' = Refilled
    /\ Refill
    /\ \E n \in Notified : pc' = [Wake(n) EXCEPT ![t] = "waiting"]
    /\ UNCHANGED <<rate, left>>

\* RateLimitError
Deny(t) ==
    /\ pc[t] \in {"checking", "woken"}
    /\ Refilled < Cost /\ ~Blocks(t)
    /\ tokens' = Refilled
    /\ Refill
    /\ \E n \in Notified : pc' = [Wake(n) EXCEPT ![t] = "idle"]
    /\ UNCHANGED <<rate, left>>

\* cond.wait(timeout=remaining) ends by itself.
TimeOut(t) ==
    /\ pc[t] = "waiting" /\ left[t] = 0
    /\ pc' = [pc EXCEPT ![t] = "woken"]
    /\ UNCHANGED <<tokens, rate, elapsed, left>>

----------------------------------------------------------------------------
(* The other operations hold the lock throughout. *)

\* try_acquire
TryAcquire ==
    /\ tokens' = IF Refilled >= Cost THEN Refilled - Cost ELSE Refilled
    /\ Refill
    /\ \E n \in Notified : pc' = Wake(n)
    /\ UNCHANGED <<rate, left>>

\* get_remaining_tokens, get_retry_after, get_stats
Look ==
    /\ tokens' = Refilled
    /\ Refill
    /\ \E n \in Notified : pc' = Wake(n)
    /\ UNCHANGED <<rate, left>>

\* Mutant of UpdateRateLimit: the new rate counts for the time already past.
UpdateRateLimitEarly(r) ==
    /\ rate' = r
    /\ UNCHANGED <<tokens, elapsed, pc, left>>

UpdateRateLimit(r) ==
    /\ tokens' = Refilled
    /\ Refill
    /\ \E n \in Notified : pc' = Wake(n)
    /\ rate' = r
    /\ UNCHANGED left

\* reset() fills the bucket and notifies nobody.
ResetLimiter ==
    /\ tokens' = Capacity
    /\ elapsed' = 0
    /\ UNCHANGED <<rate, pc, left>>

Tick ==
    /\ elapsed' = IF elapsed < MaxElapsed THEN elapsed + 1 ELSE elapsed
    /\ left' = [t \in Thread |-> IF left[t] > 0 THEN left[t] - 1 ELSE 0]
    /\ UNCHANGED <<tokens, rate, pc>>

LimiterInit ==
    /\ tokens = Capacity
    /\ rate \in Rates
    /\ elapsed = 0
    /\ pc = [t \in Thread |-> "idle"]
    /\ left = [t \in Thread |-> 0]

Acquire(t) == Grant(t) \/ Wait(t) \/ Deny(t) \/ TimeOut(t)

LimiterNext ==
    \/ \E t \in Thread : Call(t) \/ Acquire(t)
    \/ TryAcquire
    \/ Look
    \/ \E r \in Rates : UpdateRateLimit(r)
    \/ ResetLimiter
    \/ Tick

LimiterSpec == LimiterInit /\ [][LimiterNext]_limiterVars

\* Time passes, and a thread that can go on in acquire does.
LimiterFairness ==
    /\ WF_limiterVars(Tick)
    /\ \A t \in Thread : WF_limiterVars(Acquire(t))

FairLimiter == LimiterSpec /\ LimiterFairness

----------------------------------------------------------------------------
(* Properties *)

LimiterTypeOK ==
    /\ tokens \in 0 .. Capacity
    /\ rate \in Rates
    /\ elapsed \in 0 .. MaxElapsed
    /\ pc \in [Thread -> {"idle", "checking", "waiting", "woken"}]
    /\ left \in [Thread -> 0 .. Timeout]

Bucket == INSTANCE TokenBucket WITH level <- Refilled

\* The lazy bucket grants exactly what a bucket that fills at every tick
\* would: no wait, wake-up, denial, look or change of the rate loses a unit,
\* counts the same time twice, or lends a token.
KeepsBucket == Bucket!Spec

\* acquire() returns or raises, whoever else keeps taking the tokens and
\* waking the waiters.
AcquireReturns == \A t \in Thread : pc[t] # "idle" ~> pc[t] = "idle"

=============================================================================
