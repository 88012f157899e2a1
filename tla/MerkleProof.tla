---------------------------- MODULE MerkleProof ----------------------------
(***************************************************************************)
(* merkle_proof and verify_merkle of vault/access.py, round by round: the  *)
(* siblings on the way from a leaf to the root are collected, and a        *)
(* claimed leaf is then carried up along them.                             *)
(***************************************************************************)
EXTENDS MerkleTree, SequencesExt

CONSTANTS
    Values,      \* hashes of leaves
    MaxLeaves    \* bound on the number of leaves

ASSUME ProofAssumption == MaxLeaves \in Nat

Lists == {l \in BoundedSeq(Values, MaxLeaves) : l # <<>>}

VARIABLES
    leaves,   \* the list
    index,    \* the leaf the proof is for, counted from 0
    level,    \* merkle_proof: current
    cursor,   \* merkle_proof: cursor, counted from 0
    proof,    \* merkle_proof: the siblings and their sides
    claim,    \* verify_merkle: the claimed leaf
    carried,  \* verify_merkle: current
    used,     \* verify_merkle: elements of the proof used so far
    at        \* "climb", "verify" or "done"

input == <<leaves, index>>
proofVars == <<input, level, cursor, proof, claim, carried, used, at>>

ProofInit ==
    /\ leaves \in Lists
    /\ index \in 0..(Len(leaves) - 1)
    /\ level = leaves
    /\ cursor = index
    /\ proof = <<>>
    /\ claim = EmptyRoot
    /\ carried = EmptyRoot
    /\ used = 0
    /\ at = "climb"

\* cursor ^ 1: the other half of the pair.
Sibling == IF cursor % 2 = 0 THEN cursor + 1 ELSE cursor - 1

AlwaysRight == "right"                                           \* faulty variant
Side == IF cursor % 2 = 0 THEN "right" ELSE "left"

Climb ==
    /\ at = "climb"
    /\ Len(level) > 1
    /\ proof' = Append(proof, [hash |-> Padded(level)[Sibling + 1], side |-> Side])
    /\ level' = LevelUp(level)
    /\ cursor' = cursor \div 2
    /\ UNCHANGED <<input, claim, carried, used, at>>

\* The proof is complete; somebody claims that v is the leaf.
Claim(v) ==
    /\ at = "climb"
    /\ Len(level) = 1
    /\ claim' = v
    /\ carried' = v
    /\ at' = "verify"
    /\ UNCHANGED <<input, level, cursor, proof, used>>

Combine(hash, element) ==
    IF element.side = "right" THEN Hash(hash, element.hash) ELSE Hash(element.hash, hash)

Carry ==
    /\ at = "verify"
    /\ used < Len(proof)
    /\ carried' = Combine(carried, proof[used + 1])
    /\ used' = used + 1
    /\ UNCHANGED <<input, level, cursor, proof, claim, at>>

Finish ==
    /\ at = "verify"
    /\ used = Len(proof)
    /\ at' = "done"
    /\ UNCHANGED <<input, level, cursor, proof, claim, carried, used>>

ProofNext == Climb \/ (\E v \in Values : Claim(v)) \/ Carry \/ Finish

ProofSpec == ProofInit /\ [][ProofNext]_proofVars

-----------------------------------------------------------------------------
(***************************************************************************)
(* Properties.                                                             *)
(***************************************************************************)

\* verify_merkle returns current == root.
Accepted == at = "done" /\ carried = MerkleRoot(leaves)

\* The hashes on the way up from a leaf along a path of siblings.
Upward(hash, path) ==
    LET on[k \in 0..Len(path)] ==
          IF k = 0 THEN hash ELSE Combine(on[k - 1], path[k])
    IN on

\* The proof of a leaf verifies for that leaf and for no other value, in every
\* position of lists of every length; at every round of merkle_proof the
\* siblings found so far lead from the leaf to the cursor's place in the level.
ProofSound ==
    /\ at = "climb" =>
         Upward(leaves[index + 1], proof)[Len(proof)] = level[cursor + 1]
    /\ at = "done" => (Accepted <=> claim = leaves[index + 1])

\* Two lists with one root: of the same length they are equal; otherwise the
\* longer one is the shorter one with leaves of its end repeated, the ambiguity
\* that the repeated hash of an odd level brings in.  The root with the number
\* of leaves, as manifests and receipt roots state them, fixes the list.
RootFixesLeaves ==
    at = "done" /\ index = 0 =>
        \A other \in Lists : MerkleRoot(other) = MerkleRoot(leaves) =>
            /\ Len(other) = Len(leaves) => other = leaves
            /\ Len(other) > Len(leaves) =>
                 /\ IsPrefix(leaves, other)
                 /\ \A i \in (Len(leaves) + 1)..Len(other) :
                      \E j \in 1..Len(leaves) : 2 * j > Len(leaves) /\ other[i] = leaves[j]

=============================================================================
