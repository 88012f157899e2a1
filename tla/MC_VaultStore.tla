--------------------------- MODULE MC_VaultStore ---------------------------
(* VaultStore with small constants for TLC. *)
EXTENDS VaultStore

CONSTANTS p1, p2, p3, m1, m2, w1, w2

MCSymmetry ==
    Permutations({p1, p2, p3}) \cup Permutations({m1, m2}) \cup Permutations({w1, w2})

=============================================================================
