----------------------------- MODULE MerkleTree -----------------------------
(***************************************************************************)
(* The Merkle root of a list of hashes, as vault/access.py computes it for *)
(* the shards of a model and decillion/receipts.py for an owner's          *)
(* receipts: level by level, an odd level repeating its last hash.         *)
(*                                                                         *)
(* The hash of two hashes is the pair of them: SHA-256 is taken to be      *)
(* injective.                                                              *)
(***************************************************************************)
EXTENDS Integers, Sequences

CONSTANT EmptyRoot   \* the root of no leaves

Hash(left, right) == <<left, right>>

WrapAround(level) ==                                             \* faulty variant
    IF Len(level) % 2 = 1 THEN Append(level, level[1]) ELSE level
Padded(level) ==
    IF Len(level) % 2 = 1 THEN Append(level, level[Len(level)]) ELSE level

LevelUp(level) ==
    LET even == Padded(level) IN
    [i \in 1..(Len(even) \div 2) |-> Hash(even[2 * i - 1], even[2 * i])]

\* The loop: up[k] is the level after k rounds.
Levels(leaves) ==
    LET up[k \in 0..Len(leaves)] ==
          IF k = 0 THEN leaves
          ELSE IF Len(up[k - 1]) > 1 THEN LevelUp(up[k - 1]) ELSE up[k - 1]
    IN up

MerkleRoot(leaves) ==
    IF leaves = <<>> THEN EmptyRoot ELSE Levels(leaves)[Len(leaves)][1]

=============================================================================
