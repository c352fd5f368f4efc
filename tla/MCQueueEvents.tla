---------------------------- MODULE MCQueueEvents ----------------------------
(* Instances of QueueEvents for TLC. *)
EXTENDS QueueEvents, TLC

\* Every worker has an id of its own: its thread's name.
OwnId == [t \in Worker |-> t]

Symmetry == Permutations(Worker) \cup Permutations(Session)

=============================================================================
