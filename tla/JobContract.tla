---------------------------- MODULE JobContract ----------------------------
(***************************************************************************)
(* What the queue promises about a job, said without rows, claims,         *)
(* heartbeats or threads: the life of a job as its producer sees it.       *)
(*                                                                         *)
(* A job waits, is given to a worker, and then waits again, is buried in   *)
(* the dead letter queue or is gone for good.  It is given out at most     *)
(* "limit" times, and once more for each time somebody requeued it from    *)
(* outside.  A job that was never requeued from outside changes only by    *)
(* what the worker that runs it reports.                                   *)
(***************************************************************************)
EXTENDS Naturals

CONSTANT Job

VARIABLE life

State == {"unborn", "waiting", "running", "dead", "gone"}

Unborn == [state |-> "unborn", claims |-> 0, limit |-> 0, rescues |-> 0]

Submitted(a, b) ==
    /\ a = Unborn
    /\ b.limit > 0
    /\ b = [a EXCEPT !.state = "waiting", !.limit = b.limit]

Granted(a, b) ==
    /\ a.state = "waiting"
    /\ a.claims < a.limit + a.rescues
    /\ b = [a EXCEPT !.state = "running", !.claims = @ + 1]

\* A worker reports a failure: one that lost its job may do so late.
Reported(a, b) ==
    /\ \/ a.state = "running"
       \/ a.state \in {"waiting", "dead"} /\ a.rescues > 0
    /\ \E s \in {"waiting", "dead"} : b = [a EXCEPT !.state = s]

Requeued(a, b) ==
    /\ a.state \in {"running", "dead"}
    /\ b = [a EXCEPT !.state = "waiting", !.rescues = @ + 1]

\* Completed, purged or cleaned up.
Ended(a, b) ==
    /\ a.state \notin {"unborn", "gone"}
    /\ b = [Unborn EXCEPT !.state = "gone", !.rescues = a.rescues]

Step(a, b) ==
    \/ Submitted(a, b)
    \/ Granted(a, b)
    \/ Reported(a, b)
    \/ Requeued(a, b)
    \/ Ended(a, b)

Init == life = [j \in Job |-> Unborn]

\* One statement may change several jobs.
Next == \A j \in Job : life'[j] = life[j] \/ Step(life[j], life'[j])

Spec == Init /\ [][Next]_life

=============================================================================
