------------------------- MODULE MC_TelepathServer -------------------------
(* TelepathServer with small constants for TLC. *)
EXTENDS TelepathServer, TLC

CONSTANTS p1, p2, m1, n1, n2, n3

\* p1 may use the model, p2 may not.
FirstRules == {<<p1, m1>>}

NonceSymmetry == Permutations(Keys)

=============================================================================
