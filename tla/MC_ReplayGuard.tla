--------------------------- MODULE MC_ReplayGuard ---------------------------
(* ReplayGuard with small constants for TLC. *)
EXTENDS ReplayGuard, TLC

CONSTANTS k1, k2, k3, h1, h2

Symmetry == Permutations({k1, k2, k3}) \cup Permutations({h1, h2})

=============================================================================
