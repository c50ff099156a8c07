--------------------------- MODULE MCRedisStream ---------------------------
(* Instances of RedisStream for TLC. *)
EXTENDS RedisStream, TLC

Symmetry == Permutations(Groups) \cup Permutations(Ids)
=============================================================================
