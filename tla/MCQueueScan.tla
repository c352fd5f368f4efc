----------------------------- MODULE MCQueueScan ----------------------------
(* Instances of QueueScan for TLC. *)
EXTENDS QueueScan, TLC

CONSTANTS j1, j2

\* Both jobs in one shard; one in the first shard and one in the last.
SameShard == [j \in Job |-> 0]

FirstAndLast == [j \in Job |-> IF j = j1 THEN 0 ELSE NumShards - 1]

Symmetry == Permutations(Thread)

=============================================================================
