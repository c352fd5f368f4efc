------------------------- MODULE MCShardConnection -------------------------
(* Instances of ShardConnection for TLC. *)
EXTENDS ShardConnection

=============================================================================
