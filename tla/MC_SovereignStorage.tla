------------------------ MODULE MC_SovereignStorage ------------------------
(* Two workers; one owner with two tokens and, in development, the default *)
(* one.                                                                    *)
EXTENDS SovereignStorage

CONSTANTS w1, w2, f1, f2

MCSymmetry == Permutations(Workers) \cup Permutations(Names)

MCConfigured == "new-token" :> "owner" @@ "old-token" :> "owner"

=============================================================================
