--------------------------- MODULE MC_MerkleProof ---------------------------
(* MerkleProof with small constants for TLC. *)
EXTENDS MerkleProof

=============================================================================
