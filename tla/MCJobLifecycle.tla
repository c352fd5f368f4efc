--------------------------- MODULE MCJobLifecycle ---------------------------
(* Instances of JobLifecycle for TLC. *)
EXTENDS JobLifecycle, TLC

CONSTANT SharedId

\* Every worker has an id of its own: its thread's name.
OwnId == [t \in Worker |-> t]

\* All workers sign with the same id.
OneId == [t \in Worker |-> SharedId]

Symmetry == Permutations(Worker)

=============================================================================
