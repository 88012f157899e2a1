-------------------------- MODULE MC_TelepathPull --------------------------
(* Two pulls, in one node or in two, of a model of three shards and two      *)
(* versions.                                                               *)
EXTENDS TelepathPull, TLC

\* The second version of the second shard does not fit into the cache.
MCSizeOf == [c \in (1..3) \X (1..2) |-> IF c = <<2, 2>> THEN 4 ELSE c[2]]

MCSymmetry == Permutations(Nodes) \cup Permutations(Pulls)

=============================================================================
