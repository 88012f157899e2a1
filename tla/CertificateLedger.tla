------------------------- MODULE CertificateLedger -------------------------
(***************************************************************************)
(* What the Buddy Proof service promises its clients: a ledger in which a  *)
(* claim is certified once and for all.  Certifying is a single step,      *)
(* which stores the certificate, links its event to the chain and may let  *)
(* the client know; a request is turned away in a single step, at a moment *)
(* when its claim has the certificate of another request.  There are no    *)
(* transactions, locks, failures or crashes.                               *)
(***************************************************************************)
EXTENDS Integers, Sequences

CONSTANT Certificates    \* the certificates that there may be

VARIABLES issued, events, returned, refused

Init ==
    /\ issued = {}
    /\ events = <<>>
    /\ returned = {}
    /\ refused = {}

SameClaim(c, d) == c.submission.contract.claim = d.submission.contract.claim

Last == IF events = <<>> THEN 0 ELSE events[Len(events)].id

Certify(cert) ==
    /\ \A c \in issued : ~SameClaim(c, cert) /\ c.request # cert.request
    /\ issued' = issued \cup {cert}
    /\ events' = Append(events, [id |-> cert.request, prev |-> Last])
    /\ returned' \in {returned, returned \cup {cert}}
    /\ UNCHANGED refused

TurnAway(cert) ==
    /\ \E c \in issued : SameClaim(c, cert) /\ c.request # cert.request
    /\ refused' = refused \cup {cert}
    /\ UNCHANGED <<issued, events, returned>>

Next == \E cert \in Certificates : Certify(cert) \/ TurnAway(cert)

Spec == Init /\ [][Next]_<<issued, events, returned, refused>>

=============================================================================
