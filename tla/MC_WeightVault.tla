--------------------------- MODULE MC_WeightVault ---------------------------
(* Two processes; three revisions that may be mirrored and one whose       *)
(* license nobody requires.                                                *)
EXTENDS WeightVault, TLC

CONSTANTS p1, p2, r1, r2, r3, r4

MCSymmetry == Permutations({p1, p2})

MCLicense == r1 :> "MIT" @@ r2 :> "Apache 2.0" @@ r3 :> "mit"
    @@ r4 :> "unknown"

MCLower ==
    "MIT" :> "mit" @@ "mit" :> "mit" @@ "Apache 2.0" :> "apache 2.0"
    @@ "apache-2.0" :> "apache-2.0" @@ "unknown" :> "unknown"

\* A destination that is empty, holds models, or lost them with the marker.
MCForeign == {{}, {"models"}, {".staging", ".locks"}}

=============================================================================
