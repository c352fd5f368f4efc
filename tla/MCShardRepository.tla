------------------------- MODULE MCShardRepository -------------------------
(* Instances of ShardRepository for TLC. *)
EXTENDS ShardRepository, TLC

\* Threads and worker ids are interchangeable.
Symmetry == Permutations(Thread) \cup Permutations(WorkerId)

=============================================================================
