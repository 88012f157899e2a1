-------------------------- MODULE MC_ProofBackend --------------------------
(* Three handlers and two claims, with an attempt at each that passes and  *)
(* submissions that each fail one check.                                   *)
EXTENDS ProofBackend, TLC

CONSTANTS c1, c2, none, r1, r2, k1, e1

MCSymmetry == Permutations(Handlers) \cup Permutations({c1, c2})

Good(c) ==
    [contract |-> [claim |-> c, criteria |-> 1, requiredChecks |-> {{k1}},
                   evidenceRequirements |-> {{e1}}, requiredEvidence |-> {{e1}}, budget |-> 1],
     attempt |-> [claim |-> c, criteria |-> 1, generator |-> r2, satisfied |-> TRUE,
                  blocked |-> FALSE, checksPassed |-> {k1},
                  evidence |-> [e \in {e1} |-> "digest"], spent |-> 1],
     reviewer |-> r1, signed |-> TRUE]

\* Contracts without one of the lists: evidence under the reference's name or
\* under the service's name only, or no checks.
Incomplete(c) ==
    {[Good(c) EXCEPT !.contract.evidenceRequirements = {}, !.attempt.evidence[e1] = "absent"],
     [Good(c) EXCEPT !.contract.requiredEvidence = {}],
     [Good(c) EXCEPT !.contract.requiredChecks = {}]}

Bad(c) ==
    {[Good(c) EXCEPT !.reviewer = r2, !.attempt.generator = r1],
     [Good(c) EXCEPT !.contract.claim = none, !.attempt.claim = none],
     [Good(c) EXCEPT !.attempt.criteria = 2],
     [Good(c) EXCEPT !.attempt.generator = r1],
     [Good(c) EXCEPT !.signed = FALSE],
     [Good(c) EXCEPT !.attempt.satisfied = FALSE],
     [Good(c) EXCEPT !.attempt.blocked = TRUE],
     [Good(c) EXCEPT !.attempt.checksPassed = {}],
     [Good(c) EXCEPT !.attempt.evidence[e1] = "text"],
     [Good(c) EXCEPT !.attempt.spent = 2],
     [Good(c) EXCEPT !.attempt.spent = -1]}

MCAmounts == {-1, 1, 2}

MCSubmissions ==
    UNION {{Good(c)} \cup Incomplete(c) \cup Bad(c) : c \in {c1, c2}}
        \cup {[Good(c1) EXCEPT !.attempt.claim = c2], [Good(c2) EXCEPT !.attempt.claim = c1]}

=============================================================================
