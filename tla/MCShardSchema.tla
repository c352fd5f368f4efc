--------------------------- MODULE MCShardSchema ----------------------------
(* Instances of ShardSchema for TLC. *)
EXTENDS ShardSchema, TLC

Symmetry == Permutations(Opener)

=============================================================================
