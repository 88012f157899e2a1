---------------------------- MODULE ProofBackend ----------------------------
(***************************************************************************)
(* The Buddy Proof service (proof-process/backend.py): it certifies an     *)
(* attempt at a claim once for each claim and version, and logs every      *)
(* certificate in a chain of events, in one SQLite transaction.            *)
(*                                                                         *)
(* Handlers run in a thread pool, each with a connection of its own.  The  *)
(* INSERT of the certificate opens the transaction and takes the           *)
(* database's write lock, which commit, rollback, closing the connection   *)
(* or the end of the process gives back; other writers wait or give up.    *)
(*                                                                         *)
(* A certificate is the submission it is for; its signature and digests    *)
(* are functions of it.  An event is the certificate and the one before it *)
(* in the chain.                                                           *)
(***************************************************************************)
EXTENDS Integers, Sequences

CONSTANTS
    Handlers,     \* requests handled at once
    Submissions,  \* what clients submit: see AllSubmissions
    Claims,       \* claim ids with their versions, NoClaim for an empty one
    NoClaim,
    Criteria,     \* criteria versions
    Reviewers,    \* public keys of reviewers and generators
    Registered,   \* BUDDY_REVIEWER_KEYS_JSON
    Checks,       \* names of checks
    Evidence,     \* names of pieces of evidence
    Amounts,      \* budgets and amounts spent
    MaxRequests   \* bound on requests

Genesis == 0

\* A contract need not have the keys that list its requirements: a key is {}
\* when it is absent, and otherwise holds the one set that it lists.
Optional(S) == {{}} \cup {{list} : list \in SUBSET S}
Listed(key) == UNION key            \* contract.get(key, [])

Contracts ==
    [claim : Claims, criteria : Criteria, requiredChecks : Optional(Checks),
     evidenceRequirements : Optional(Evidence), requiredEvidence : Optional(Evidence),
     budget : Amounts]

\* An attempt is satisfied if it was executed, with the decision
\* REQUIREMENTS_SATISFIED, and blocked if checks failed or issues block it.
Attempts ==
    [claim : Claims, criteria : Criteria, generator : Reviewers, satisfied : BOOLEAN,
     blocked : BOOLEAN, checksPassed : SUBSET Checks,
     evidence : [Evidence -> {"absent", "text", "digest"}], spent : Amounts]

\* signed: the reviewer's signature over contract and attempt is valid.
AllSubmissions ==
    [contract : Contracts, attempt : Attempts, reviewer : Reviewers, signed : BOOLEAN]

ASSUME ProofAssumption ==
    /\ Genesis \notin Handlers
    /\ Registered \subseteq Reviewers
    /\ Amounts \subseteq Int
    /\ Submissions \subseteq AllSubmissions
    /\ MaxRequests \in Nat

\* A certificate carries the number of the request it was issued to.
Certificates == [request : 1..MaxRequests, submission : Submissions]

VARIABLES
    issued,     \* committed certificates
    events,     \* the committed chain of events
    txnIssued,  \* the certificates of the open transaction
    txnEvents,  \* its events
    holder,     \* the handler that holds the write lock, or Genesis
    pc,         \* where each handler is
    request,    \* the certificate each handler works on
    requests,   \* requests so far
    returned,   \* history: certificates sent to clients
    refused     \* history: requests refused as already issued

database == <<issued, events, txnIssued, txnEvents, holder>>
vars == <<database, pc, request, requests, returned, refused>>

NoRequest == [request |-> 0]

Init ==
    /\ issued = {}
    /\ events = <<>>
    /\ txnIssued = {}
    /\ txnEvents = <<>>
    /\ holder = Genesis
    /\ pc = [h \in Handlers |-> "idle"]
    /\ request = [h \in Handlers |-> NoRequest]
    /\ requests = 0
    /\ returned = {}
    /\ refused = {}

Claim(cert) == cert.submission.contract.claim

-----------------------------------------------------------------------------
(***************************************************************************)
(* submit.                                                                 *)
(***************************************************************************)

\* The checks before anything is opened or written.
Unexecuted(s) ==                                                 \* faulty variant
    LET c == s.contract  a == s.attempt IN
    /\ s.reviewer \in Registered
    /\ c.claim = a.claim /\ c.claim # NoClaim
    /\ c.criteria = a.criteria
    /\ a.generator # s.reviewer
    /\ s.signed
    /\ ~a.blocked
    /\ Listed(c.requiredChecks) \subseteq a.checksPassed
    /\ \A name \in Listed(c.evidenceRequirements) : a.evidence[name] = "digest"
    /\ 0 <= a.spent /\ a.spent <= c.budget
Admissible(s) ==
    LET c == s.contract  a == s.attempt IN
    /\ s.reviewer \in Registered
    /\ c.claim = a.claim /\ c.claim # NoClaim
    /\ c.criteria = a.criteria
    /\ a.generator # s.reviewer
    /\ s.signed
    /\ a.satisfied
    /\ ~a.blocked
    /\ Listed(c.requiredChecks) \subseteq a.checksPassed
    /\ \A name \in Listed(c.evidenceRequirements) : a.evidence[name] = "digest"
    /\ 0 <= a.spent /\ a.spent <= c.budget

Submit(h, s) ==
    /\ pc[h] = "idle"
    /\ requests < MaxRequests
    /\ Admissible(s)
    /\ requests' = requests + 1
    /\ request' = [request EXCEPT ![h] = [request |-> requests + 1, submission |-> s]]
    /\ pc' = [pc EXCEPT ![h] = "signed"]
    /\ UNCHANGED <<database, returned, refused>>

\* INSERT INTO issued, with the lock: the primary key is the claim.
InsertAny(h) ==                                                  \* faulty variant
    /\ pc[h] = "signed"
    /\ holder = Genesis
    /\ holder' = h
    /\ txnIssued' = {request[h]}
    /\ pc' = [pc EXCEPT ![h] = "inserted"]
    /\ UNCHANGED <<issued, events, txnEvents, request, requests, returned, refused>>
InsertIssued(h) ==
    /\ pc[h] = "signed"
    /\ holder = Genesis
    /\ \A cert \in issued : Claim(cert) # Claim(request[h])
    /\ holder' = h
    /\ txnIssued' = {request[h]}
    /\ pc' = [pc EXCEPT ![h] = "inserted"]
    /\ UNCHANGED <<issued, events, txnEvents, request, requests, returned, refused>>

\* The INSERT finds the claim: IntegrityError, rollback, status 409.
RefusePending(h) ==                                              \* faulty variant
    /\ pc[h] = "signed"
    /\ \E g \in Handlers \ {h} : pc[g] # "idle" /\ Claim(request[g]) = Claim(request[h])
    /\ refused' = refused \cup {request[h]}
    /\ request' = [request EXCEPT ![h] = NoRequest]
    /\ pc' = [pc EXCEPT ![h] = "idle"]
    /\ UNCHANGED <<database, requests, returned>>
RefuseIssued(h) ==
    /\ pc[h] = "signed"
    /\ holder = Genesis
    /\ \E cert \in issued : Claim(cert) = Claim(request[h])
    /\ refused' = refused \cup {request[h]}
    /\ request' = [request EXCEPT ![h] = NoRequest]
    /\ pc' = [pc EXCEPT ![h] = "idle"]
    /\ UNCHANGED <<database, requests, returned>>

\* event: read the last digest and insert the next event.
LastEvent == IF events = <<>> THEN Genesis ELSE events[Len(events)].id

InsertEvent(h) ==
    /\ pc[h] = "inserted"
    /\ txnEvents' = <<[id |-> request[h].request, prev |-> LastEvent]>>
    /\ pc' = [pc EXCEPT ![h] = "logged"]
    /\ UNCHANGED <<issued, events, txnIssued, holder, request, requests, returned,
                   refused>>

\* The transaction ends and gives its lock back.
EndTransaction ==
    /\ txnIssued' = {}
    /\ txnEvents' = <<>>
    /\ holder' = Genesis

CommitEarly(h) ==                                                \* faulty variant
    /\ pc[h] \in {"inserted", "logged"}
    /\ issued' = issued \cup txnIssued
    /\ events' = events \o txnEvents
    /\ EndTransaction
    /\ returned' = returned \cup {request[h]}
    /\ request' = [request EXCEPT ![h] = NoRequest]
    /\ pc' = [pc EXCEPT ![h] = "idle"]
    /\ UNCHANGED <<requests, refused>>
\* Commit and the response, which the client may not get.
Commit(h) ==
    /\ pc[h] = "logged"
    /\ issued' = issued \cup txnIssued
    /\ events' = events \o txnEvents
    /\ EndTransaction
    /\ returned' \in {returned, returned \cup {request[h]}}
    /\ request' = [request EXCEPT ![h] = NoRequest]
    /\ pc' = [pc EXCEPT ![h] = "idle"]
    /\ UNCHANGED <<requests, refused>>

\* Without a transaction a failing event leaves the certificate behind.
FailKeeping(h) ==                                                \* faulty variant
    /\ pc[h] # "idle"
    /\ IF holder = h THEN EndTransaction
       ELSE UNCHANGED <<txnIssued, txnEvents, holder>>
    /\ issued' = IF holder = h THEN issued \cup txnIssued ELSE issued
    /\ request' = [request EXCEPT ![h] = NoRequest]
    /\ pc' = [pc EXCEPT ![h] = "idle"]
    /\ UNCHANGED <<events, requests, returned, refused>>
\* A statement or the commit fails, or the wait for the lock is over: the
\* connection is closed, which rolls back.
Fail(h) ==
    /\ pc[h] # "idle"
    /\ IF holder = h THEN EndTransaction
       ELSE UNCHANGED <<txnIssued, txnEvents, holder>>
    /\ request' = [request EXCEPT ![h] = NoRequest]
    /\ pc' = [pc EXCEPT ![h] = "idle"]
    /\ UNCHANGED <<issued, events, requests, returned, refused>>

\* The process stops: every handler is gone, and its transaction with it.
Crash ==
    /\ \E h \in Handlers : pc[h] # "idle"
    /\ EndTransaction
    /\ request' = [h \in Handlers |-> NoRequest]
    /\ pc' = [h \in Handlers |-> "idle"]
    /\ UNCHANGED <<issued, events, requests, returned, refused>>

Next ==
    \/ \E h \in Handlers :
        \/ \E s \in Submissions : Submit(h, s)
        \/ InsertIssued(h) \/ RefuseIssued(h) \/ InsertEvent(h) \/ Commit(h) \/ Fail(h)
    \/ Crash

Spec == Init /\ [][Next]_vars

-----------------------------------------------------------------------------
\* status: the certificates that a request for a claim may be answered with.
Status(claim) == {cert \in issued : Claim(cert) = claim}

\* contract_fixture.py: the decision of the dependency-free reference, on a
\* contract with a claim.  It takes both lists for granted: where one that it
\* comes to is missing it raises KeyError.
Decide(c, a) ==
    IF c.claim # a.claim \/ ~a.satisfied \/ a.blocked THEN "NOT_CERTIFIED"
    ELSE IF c.requiredChecks = {} THEN "KeyError"
    ELSE IF ~(Listed(c.requiredChecks) \subseteq a.checksPassed) THEN "NOT_CERTIFIED"
    ELSE IF c.requiredEvidence = {} THEN "KeyError"
    ELSE IF \E name \in Listed(c.requiredEvidence) : a.evidence[name] = "absent"
         THEN "NOT_CERTIFIED"
    ELSE "CHECKS_SATISFIED_NOT_SIGNED"

-----------------------------------------------------------------------------
(***************************************************************************)
(* Properties.                                                             *)
(***************************************************************************)

Event == [id : 1..MaxRequests, prev : 0..MaxRequests]

\* Types; a transaction is open exactly while a handler is in it, and only the
\* lock's holder has anything uncommitted.
TypeOK ==
    /\ issued \subseteq Certificates
    /\ events \in Seq(Event)
    /\ txnIssued \subseteq Certificates
    /\ txnEvents \in Seq(Event)
    /\ holder \in Handlers \cup {Genesis}
    /\ pc \in [Handlers -> {"idle", "signed", "inserted", "logged"}]
    /\ request \in [Handlers -> Certificates \cup {NoRequest}]
    /\ \A h \in Handlers : pc[h] \in {"inserted", "logged"} <=> holder = h
    /\ holder = Genesis => txnIssued = {} /\ txnEvents = <<>>
    /\ requests \in 0..MaxRequests
    /\ returned \subseteq Certificates
    /\ refused \subseteq Certificates

\* At most one certificate for a claim and version is ever stored, and a
\* certificate that a client got is the one that status shows from then on,
\* whoever raced, failed or crashed.
IssuedOnce ==
    /\ \A c, d \in issued : Claim(c) = Claim(d) => c = d
    /\ \A c \in returned : Status(Claim(c)) = {c}

\* A certificate is issued for exactly those requests that are in the chain of
\* events, once each, and the chain has no gap and no fork.
EventsMatch ==
    /\ {events[i].id : i \in 1..Len(events)} = {c.request : c \in issued}
    /\ \A i \in 1..Len(events) :
        events[i].prev = IF i = 1 THEN Genesis ELSE events[i - 1].id
    /\ \A i, j \in 1..Len(events) : events[i].id = events[j].id => i = j

\* A request is refused as already issued only if another certificate for its
\* claim is stored: one that failed or was cut off does not block a retry.
RefusalsJustified ==
    \A r \in refused : \E c \in issued : Claim(c) = Claim(r) /\ c # r

\* How the reference decides on what the service certified.  It accepts it,
\* except that submit reads evidence_requirements where the reference reads
\* required_evidence, and takes a missing list for an empty one: the reference
\* raises KeyError exactly where a list is missing, and rejects exactly where
\* the attempt lacks evidence that the contract lists under the other name only.
CertifiedAsDecided ==
    \A cert \in issued :
        LET c == cert.submission.contract
            a == cert.submission.attempt
            unread == Listed(c.requiredEvidence) \ Listed(c.evidenceRequirements)
        IN Decide(c, a) =
             IF c.requiredChecks = {} \/ c.requiredEvidence = {} THEN "KeyError"
             ELSE IF \E name \in unread : a.evidence[name] = "absent" THEN "NOT_CERTIFIED"
             ELSE "CHECKS_SATISFIED_NOT_SIGNED"

\* Seen through what is committed and answered, the service is the ledger: each
\* step of each handler, failure or crash certifies a claim, turns a request
\* away, or changes nothing.
Ledger == INSTANCE CertificateLedger
ImplementsLedger == Ledger!Spec

=============================================================================
