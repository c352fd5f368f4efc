--------------------------- MODULE CircuitBreaker ---------------------------
(***************************************************************************)
(* The circuit breaker (core/circuit_breaker.py) under the threads that    *)
(* share it.  Queue uses it in two halves, is_allowed in pop_job and       *)
(* record_success or record_failure when the job is over; call() does both *)
(* around one function.  Either way a thread asks (Ask, then Flush), runs  *)
(* if it was allowed, and records the outcome (Succeed or Fail).           *)
(*                                                                         *)
(* One action is one critical section of _mutex.  The notification of a    *)
(* state change waits in the single slot _pending_notify until some thread *)
(* takes it out; the listener itself runs outside the lock and is left out.*)
(* Nothing ties an outcome to the admission it belongs to, so outcomes of  *)
(* calls admitted long ago arrive in any state.                            *)
(***************************************************************************)
EXTENDS Naturals, FiniteSets

CONSTANTS
    Thread,
    Error,              \* kinds of exception a call may raise
    Counted,            \* those failure_predicate counts; Error if it is None
    FailureThreshold,   \* failure_threshold
    RecoveryTimeout,    \* recovery_timeout, in ticks of the clock
    NULL

ASSUME BreakerAssumption ==
    /\ Counted \subseteq Error
    /\ FailureThreshold \in Nat \ {0}
    /\ RecoveryTimeout \in Nat \ {0}
    /\ NULL \notin {"closed", "open", "half_open"} \X {"closed", "open", "half_open"}

VARIABLES
    state,
    failureCount,   \* _failure_count, saturated at the threshold
    sinceFailure,   \* time since _last_failure_time, saturated at the timeout
    probeInFlight,
    pendingNotify,
    pc,             \* where each thread is
    probing,        \* history: admitted as a probe, outcome not recorded yet
    lost            \* history: how probes of this half-open time ended untold

breakerVars == <<state, failureCount, sinceFailure, probeInFlight,
                 pendingNotify, pc, probing, lost>>

CircuitState == {"closed", "open", "half_open"}

\* _set_state_unlocked
SetState(new) ==
    /\ state' = new
    /\ pendingNotify' = IF new = state THEN pendingNotify ELSE <<state, new>>

Become(t, stage) == pc' = [pc EXCEPT ![t] = stage]

\* Only a change of state forgets how probes got lost.
Forget == lost' = IF state' = "half_open" THEN lost ELSE {}

\* The call of t is over and the breaker is not told.
Untold(t, why) ==
    /\ Become(t, "idle")
    /\ probing' = [probing EXCEPT ![t] = FALSE]
    /\ lost' = IF probing[t] /\ state = "half_open" THEN lost \cup {why} ELSE lost
    /\ UNCHANGED <<state, failureCount, sinceFailure, probeInFlight,
                   pendingNotify>>

----------------------------------------------------------------------------
(* is_allowed: _try_call, then _flush_pending_notify *)

AllowClosed(t) ==
    /\ state = "closed"
    /\ Become(t, "admitted")
    /\ UNCHANGED <<state, probeInFlight, pendingNotify, probing>>

\* Mutant of MayProbe: the circuit does not stay open for the timeout.
MayProbeEarly == state = "open" \/ (state = "half_open" /\ ~probeInFlight)

MayProbe ==
    \/ state = "open" /\ sinceFailure = RecoveryTimeout
    \/ state = "half_open" /\ ~probeInFlight

AllowProbe(t) ==
    /\ MayProbe
    /\ SetState("half_open")
    /\ probeInFlight' = TRUE
    /\ probing' = [probing EXCEPT ![t] = TRUE]
    /\ Become(t, "admitted")

Reject(t) ==
    /\ state # "closed" /\ ~MayProbe
    /\ Become(t, "refused")
    /\ UNCHANGED <<state, probeInFlight, pendingNotify, probing>>

Ask(t) ==
    /\ pc[t] = "idle"
    /\ AllowClosed(t) \/ AllowProbe(t) \/ Reject(t)
    /\ UNCHANGED <<failureCount, sinceFailure, lost>>

Flush(t) ==
    /\ pc[t] \in {"admitted", "refused"}
    /\ pendingNotify' = NULL
    /\ Become(t, IF pc[t] = "admitted" THEN "running" ELSE "idle")
    /\ UNCHANGED <<state, failureCount, sinceFailure, probeInFlight, probing,
                   lost>>

----------------------------------------------------------------------------
(* The outcome of a call.  Whatever notification waits in the slot is taken *)
(* out by the same critical section that may have put one there.            *)

AfterSuccess(s) == IF s = "half_open" THEN "closed" ELSE s

\* Mutant of AfterFailure: a failed probe leaves the circuit half open.
AfterFailureHalf(s, count) ==
    IF s = "closed" /\ count >= FailureThreshold THEN "open" ELSE s

AfterFailure(s, count) ==
    IF s = "half_open" \/ count >= FailureThreshold THEN "open" ELSE s

Done(t) ==
    /\ pendingNotify' = NULL
    /\ Become(t, "idle")
    /\ probing' = [probing EXCEPT ![t] = FALSE]
    /\ Forget

Succeed(t) ==
    /\ pc[t] = "running"
    /\ state' = AfterSuccess(state)
    /\ failureCount' = 0
    /\ probeInFlight' = FALSE
    /\ Done(t)
    /\ UNCHANGED sinceFailure

Increment(count) == IF count < FailureThreshold THEN count + 1 ELSE count

\* record_failure
Fail(t) ==
    /\ pc[t] = "running"
    /\ \E e \in Counted : TRUE
    /\ failureCount' = Increment(failureCount)
    /\ state' = AfterFailure(state, failureCount')
    /\ sinceFailure' = 0
    /\ probeInFlight' = FALSE
    /\ Done(t)

\* _on_failure of an exception the predicate does not count: no record.
Ignore(t) ==
    /\ pc[t] = "running"
    /\ \E e \in Error : e \notin Counted
    /\ Untold(t, "ignored")

\* _last_failure_time = 0.0 is a time long ago.
Reset ==
    /\ state' = "closed"
    /\ failureCount' = 0
    /\ sinceFailure' = RecoveryTimeout
    /\ probeInFlight' = FALSE
    /\ pendingNotify' = NULL
    /\ Forget
    /\ UNCHANGED <<pc, probing>>

Tick ==
    /\ sinceFailure < RecoveryTimeout
    /\ sinceFailure' = sinceFailure + 1
    /\ UNCHANGED <<state, failureCount, probeInFlight, pendingNotify, pc,
                   probing, lost>>

BreakerInit ==
    /\ state = "closed"
    /\ failureCount = 0
    /\ sinceFailure = RecoveryTimeout
    /\ probeInFlight = FALSE
    /\ pendingNotify = NULL
    /\ pc = [t \in Thread |-> "idle"]
    /\ probing = [t \in Thread |-> FALSE]
    /\ lost = {}

Record(t) == Succeed(t) \/ Fail(t) \/ Ignore(t)

BreakerNext ==
    \/ \E t \in Thread : Ask(t) \/ Flush(t) \/ Record(t)
    \/ Reset
    \/ Tick

BreakerSpec == BreakerInit /\ [][BreakerNext]_breakerVars

\* Threads finish the calls they make; nobody has to make one.
BreakerFairness == \A t \in Thread : WF_breakerVars(Flush(t) \/ Record(t))

FairBreaker == BreakerSpec /\ BreakerFairness

----------------------------------------------------------------------------
(* Properties *)

BreakerTypeOK ==
    /\ state \in CircuitState
    /\ failureCount \in 0 .. FailureThreshold
    /\ sinceFailure \in 0 .. RecoveryTimeout
    /\ probeInFlight \in BOOLEAN
    /\ pendingNotify \in (CircuitState \X CircuitState) \cup {NULL}
    /\ pc \in [Thread -> {"idle", "admitted", "refused", "running"}]
    /\ probing \in [Thread -> BOOLEAN]
    /\ lost \subseteq {"ignored", "no job", "raised"}

\* The flag _probe_in_flight and the state, written by different code paths,
\* never disagree: a half-open circuit that forgot its probe would admit two,
\* and a flag left behind in another state would admit none the next time.
HalfOpenIsProbing == state = "half_open" <=> probeInFlight

\* A half-open circuit waits for a probe that is still under way, unless the
\* probe went away without a word: outcomes of older calls, in any order, do
\* not leave it waiting for nobody.
ProbeAccounted ==
    state = "half_open" => lost # {} \/ \E t \in Thread : probing[t]

\* An open circuit opens up only after recovery_timeout without a recorded
\* failure, and only to half open, or by reset(): the late success of a call
\* admitted before the circuit opened does not close it.
OpenHolds ==
    [][state = "open" /\ state' # "open" =>
          \/ sinceFailure = RecoveryTimeout /\ state' = "half_open"
          \/ Reset]_breakerVars

\* Half open is a passing state: some outcome ends it, unless the outcome of
\* the probe was one nobody reports.
HalfOpenEnds == state = "half_open" ~> state # "half_open" \/ lost # {}

=============================================================================
