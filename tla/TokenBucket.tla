---------------------------- MODULE TokenBucket ----------------------------
(***************************************************************************)
(* What the rate limiter promises: a bucket that fills continuously, one   *)
(* tick at a time, up to its capacity, and that every grant empties by one *)
(* token.  Over any span of d ticks at rate r it grants at most            *)
(* (capacity + r * d) / cost tokens.                                       *)
(***************************************************************************)
EXTENDS Naturals

CONSTANTS
    Capacity,   \* burst_capacity, in units of which a token is Cost
    Cost,
    Rates

VARIABLES level, rate

Cap(x) == IF x <= Capacity THEN x ELSE Capacity

Init == level = Capacity /\ rate \in Rates

Earn == level' = Cap(level + rate) /\ UNCHANGED rate

Spend == level >= Cost /\ level' = level - Cost /\ UNCHANGED rate

SetRate == rate' \in Rates /\ UNCHANGED level

Restore == level' = Capacity /\ UNCHANGED rate

Next == Earn \/ Spend \/ SetRate \/ Restore

Spec == Init /\ [][Next]_<<level, rate>>

=============================================================================
