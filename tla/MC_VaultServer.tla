--------------------------- MODULE MC_VaultServer ---------------------------
(* VaultServer with small constants for TLC. *)
EXTENDS VaultServer, TLC

CONSTANTS t1, t2, tool, server, admin, cli, m1, alice, bob, n1, n2

\* Two threads of the server process and the tool's own process.
Connected == [e \in {t1, t2, tool} |-> IF e = tool THEN cli ELSE server]

Signers == [n \in {n1, n2} |-> IF n = n1 THEN alice ELSE bob]

SomeRequests ==
    {[nonce |-> n1, model |-> m1, op |-> "read"],
     [nonce |-> n2, model |-> m1, op |-> "open"]}

\* A rule for the model and one for all.
SomeRules == {m1, Star} \X {alice}

=============================================================================
