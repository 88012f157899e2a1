-------------------------- MODULE MC_TelepathMesh --------------------------
(* TelepathMesh with small constants for TLC. *)
EXTENDS TelepathMesh

\* A clock that is behind by more than the skew, and one that is ahead.
MCOffsets == {-4, 1}

=============================================================================
