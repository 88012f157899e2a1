------------------------- MODULE ProofBackendProofs -------------------------
(***************************************************************************)
(* Proofs about ProofBackend, for any handlers, submissions and numbers of *)
(* requests.                                                               *)
(***************************************************************************)
EXTENDS ProofBackend, SequenceTheorems, TLAPS

Active(h) == pc[h] # "idle"

\* Every request has a number of its own, which the certificate it may lead to
\* carries; what is refused, issued or under way are different requests.
Numbered ==
    /\ \A h \in Handlers : Active(h) =>
         /\ request[h] \in Certificates
         /\ request[h].request <= requests
         /\ Admissible(request[h].submission)
    /\ \A g, h \in Handlers :
         Active(g) /\ Active(h) /\ request[g].request = request[h].request => g = h
    /\ \A c \in issued \cup refused :
         /\ c.request <= requests
         /\ \A h \in Handlers : Active(h) => request[h].request # c.request
    /\ \A c \in issued, r \in refused : c.request # r.request
    /\ \A c, d \in issued : c.request = d.request => c = d

\* What the open transaction holds: the certificate of the lock's holder, for
\* a claim that is not issued, and its event once it is logged.
Transaction ==
    \A h \in Handlers : holder = h =>
        /\ txnIssued = {request[h]}
        /\ \A c \in issued : Claim(c) # Claim(request[h])
        /\ txnEvents = IF pc[h] = "logged"
                       THEN <<[id |-> request[h].request, prev |-> LastEvent]>>
                       ELSE <<>>

\* What is committed.
Committed ==
    /\ \A c, d \in issued : Claim(c) = Claim(d) => c = d
    /\ returned \subseteq issued
    /\ \A c \in issued : Admissible(c.submission)
    /\ \A r \in refused : \E c \in issued : Claim(c) = Claim(r)

IInv == TypeOK /\ Numbered /\ Transaction /\ Committed /\ EventsMatch

-----------------------------------------------------------------------------
LEMMA InitIInv == Init => IInv
<1> SUFFICES ASSUME Init PROVE IInv
  OBVIOUS
<1> USE ProofAssumption
<1>1. TypeOK
  <2>1. <<>> \in Seq(Event)
    BY EmptySeq
  <2>2. QED
    BY <2>1 DEF Init, TypeOK
<1>2. Numbered
  BY DEF Init, Numbered, Active
<1>3. Transaction
  BY DEF Init, Transaction, Genesis
<1>4. Committed
  BY DEF Init, Committed
<1>5. EventsMatch
  BY EmptySeq DEF Init, EventsMatch
<1>6. QED
  BY <1>1, <1>2, <1>3, <1>4, <1>5 DEF IInv

\* The event that a handler logs follows the last one committed.
LEMMA LastEventTyped ==
    ASSUME TypeOK PROVE LastEvent \in 0..MaxRequests
<1>1. CASE events = <<>>
  BY <1>1, ProofAssumption DEF LastEvent, Genesis
<1>2. CASE events # <<>>
  <2>1. events[Len(events)] \in Event
    BY <1>2, EmptySeq, ElementOfSeq DEF TypeOK
  <2>2. QED
    BY <1>2, <2>1 DEF LastEvent, Event
<1>3. QED
  BY <1>1, <1>2

LEMMA NextTypeOK == IInv /\ [Next]_vars => TypeOK'
<1> SUFFICES ASSUME IInv, [Next]_vars PROVE TypeOK'
  OBVIOUS
<1> USE ProofAssumption DEF IInv
<1>1. ASSUME NEW h \in Handlers, NEW s \in Submissions, Submit(h, s) PROVE TypeOK'
  <2>1. [request |-> requests + 1, submission |-> s] \in Certificates
    BY <1>1 DEF Submit, TypeOK, Certificates
  <2>2. QED
    BY <1>1, <2>1 DEF Submit, TypeOK, database
<1>2. ASSUME NEW h \in Handlers, InsertIssued(h) PROVE TypeOK'
  <2>1. request[h] \in Certificates
    BY <1>2 DEF InsertIssued, Numbered, Active
  <2>2. QED
    BY <1>2, <2>1 DEF InsertIssued, TypeOK, Genesis
<1>3. ASSUME NEW h \in Handlers, RefuseIssued(h) PROVE TypeOK'
  <2>1. request[h] \in Certificates
    BY <1>3 DEF RefuseIssued, Numbered, Active
  <2>2. QED
    BY <1>3, <2>1 DEF RefuseIssued, TypeOK, database
<1>4. ASSUME NEW h \in Handlers, InsertEvent(h) PROVE TypeOK'
  <2>1. [id |-> request[h].request, prev |-> LastEvent] \in Event
    BY <1>4, LastEventTyped DEF InsertEvent, Numbered, Active, Certificates, Event
  <2>2. <<[id |-> request[h].request, prev |-> LastEvent]>> \in Seq(Event)
    BY <2>1
  <2>3. QED
    BY <1>4, <2>2 DEF InsertEvent, TypeOK
<1>5. ASSUME NEW h \in Handlers, Commit(h) PROVE TypeOK'
  <2>1. events \o txnEvents \in Seq(Event) /\ <<>> \in Seq(Event)
    BY ConcatProperties, EmptySeq DEF TypeOK
  <2>2. request[h] \in Certificates
    BY <1>5 DEF Commit, Numbered, Active
  <2>3. QED
    BY <1>5, <2>1, <2>2 DEF Commit, EndTransaction, TypeOK, Genesis
<1>6. ASSUME NEW h \in Handlers, Fail(h) PROVE TypeOK'
  <2>1. <<>> \in Seq(Event)
    BY EmptySeq
  <2>2. QED
    BY <1>6, <2>1 DEF Fail, EndTransaction, TypeOK, Genesis
<1>7. CASE Crash
  <2>1. <<>> \in Seq(Event)
    BY EmptySeq
  <2>2. QED
    BY <1>7, <2>1 DEF Crash, EndTransaction, TypeOK, Genesis
<1>8. CASE UNCHANGED vars
  BY <1>8 DEF vars, database, TypeOK
<1>9. QED
  BY <1>1, <1>2, <1>3, <1>4, <1>5, <1>6, <1>7, <1>8 DEF Next

LEMMA NextNumbered == IInv /\ [Next]_vars => Numbered'
<1> SUFFICES ASSUME IInv, [Next]_vars PROVE Numbered'
  OBVIOUS
<1> USE ProofAssumption DEF IInv, Active
<1>1. ASSUME NEW h \in Handlers, NEW s \in Submissions, Submit(h, s) PROVE Numbered'
  <2>1. [request |-> requests + 1, submission |-> s] \in Certificates
    BY <1>1 DEF Submit, TypeOK, Certificates
  <2>2. QED
    BY <1>1, <2>1 DEF Submit, TypeOK, Certificates, Numbered, database
<1>2. ASSUME NEW h \in Handlers, InsertIssued(h) PROVE Numbered'
  BY <1>2 DEF InsertIssued, TypeOK, Numbered
<1>3. ASSUME NEW h \in Handlers, RefuseIssued(h) PROVE Numbered'
  BY <1>3 DEF RefuseIssued, TypeOK, Numbered, database
<1>4. ASSUME NEW h \in Handlers, InsertEvent(h) PROVE Numbered'
  BY <1>4 DEF InsertEvent, TypeOK, Numbered
<1>5. ASSUME NEW h \in Handlers, Commit(h) PROVE Numbered'
  <2>1. holder = h /\ txnIssued = {request[h]}
    BY <1>5 DEF Commit, TypeOK, Transaction
  <2>2. QED
    BY <1>5, <2>1 DEF Commit, TypeOK, Numbered
<1>6. ASSUME NEW h \in Handlers, Fail(h) PROVE Numbered'
  BY <1>6 DEF Fail, TypeOK, Numbered
<1>7. CASE Crash
  BY <1>7 DEF Crash, TypeOK, Numbered
<1>8. CASE UNCHANGED vars
  BY <1>8 DEF vars, database, Numbered
<1>9. QED
  BY <1>1, <1>2, <1>3, <1>4, <1>5, <1>6, <1>7, <1>8 DEF Next

LEMMA NextTransaction == IInv /\ [Next]_vars => Transaction'
<1> SUFFICES ASSUME IInv, [Next]_vars PROVE Transaction'
  OBVIOUS
<1> USE ProofAssumption DEF IInv, LastEvent
<1>1. ASSUME NEW h \in Handlers, NEW s \in Submissions, Submit(h, s) PROVE Transaction'
  BY <1>1 DEF Submit, TypeOK, Transaction, database
<1>2. ASSUME NEW h \in Handlers, InsertIssued(h) PROVE Transaction'
  BY <1>2 DEF InsertIssued, TypeOK, Transaction, Genesis
<1>3. ASSUME NEW h \in Handlers, RefuseIssued(h) PROVE Transaction'
  BY <1>3 DEF RefuseIssued, TypeOK, Transaction, database
<1>4. ASSUME NEW h \in Handlers, InsertEvent(h) PROVE Transaction'
  BY <1>4 DEF InsertEvent, TypeOK, Transaction
<1>5. ASSUME NEW h \in Handlers, Commit(h) PROVE Transaction'
  BY <1>5 DEF Commit, EndTransaction, Transaction, Genesis
<1>6. ASSUME NEW h \in Handlers, Fail(h) PROVE Transaction'
  BY <1>6 DEF Fail, EndTransaction, TypeOK, Transaction, Genesis
<1>7. CASE Crash
  BY <1>7 DEF Crash, EndTransaction, Transaction, Genesis
<1>8. CASE UNCHANGED vars
  BY <1>8 DEF vars, database, Transaction
<1>9. QED
  BY <1>1, <1>2, <1>3, <1>4, <1>5, <1>6, <1>7, <1>8 DEF Next

LEMMA NextCommitted == IInv /\ [Next]_vars => Committed'
<1> SUFFICES ASSUME IInv, [Next]_vars PROVE Committed'
  OBVIOUS
<1> USE DEF IInv
<1>1. ASSUME NEW h \in Handlers, NEW s \in Submissions, Submit(h, s) PROVE Committed'
  BY <1>1 DEF Submit, Committed, database
<1>2. ASSUME NEW h \in Handlers, InsertIssued(h) PROVE Committed'
  BY <1>2 DEF InsertIssued, Committed
<1>3. ASSUME NEW h \in Handlers, RefuseIssued(h) PROVE Committed'
  BY <1>3 DEF RefuseIssued, Committed, database
<1>4. ASSUME NEW h \in Handlers, InsertEvent(h) PROVE Committed'
  BY <1>4 DEF InsertEvent, Committed
<1>5. ASSUME NEW h \in Handlers, Commit(h) PROVE Committed'
  <2>1. txnIssued = {request[h]} /\ \A c \in issued : Claim(c) # Claim(request[h])
    BY <1>5 DEF Commit, TypeOK, Transaction
  <2>2. Admissible(request[h].submission)
    BY <1>5 DEF Commit, Numbered, Active
  <2>3. QED
    BY <1>5, <2>1, <2>2 DEF Commit, Committed
<1>6. ASSUME NEW h \in Handlers, Fail(h) PROVE Committed'
  BY <1>6 DEF Fail, Committed
<1>7. CASE Crash
  BY <1>7 DEF Crash, Committed
<1>8. CASE UNCHANGED vars
  BY <1>8 DEF vars, database, Committed
<1>9. QED
  BY <1>1, <1>2, <1>3, <1>4, <1>5, <1>6, <1>7, <1>8 DEF Next

\* Only a commit touches the chain of events, and it adds one to the end.
LEMMA NextEventsMatch == IInv /\ [Next]_vars => EventsMatch'
<1> SUFFICES ASSUME IInv, [Next]_vars PROVE EventsMatch'
  OBVIOUS
<1> USE DEF IInv
<1>1. ASSUME NEW h \in Handlers, Commit(h) PROVE EventsMatch'
  <2> DEFINE n == Len(events)
             e == [id |-> request[h].request, prev |-> LastEvent]
  <2>1. /\ issued' = issued \cup {request[h]}
        /\ events' = events \o <<e>>
    BY <1>1 DEF Commit, TypeOK, Transaction
  <2>2. events \in Seq(Event) /\ n \in Nat
    BY DEF TypeOK
  <2>3. /\ Len(events') = n + 1
        /\ \A i \in 1..n : events'[i] = events[i]
        /\ events'[n + 1] = e
    BY <2>1, <2>2
  <2>4. \A c \in issued : c.request # request[h].request
    BY <1>1 DEF Commit, Numbered, Active
  <2>5. {events'[i].id : i \in 1..Len(events')} = {c.request : c \in issued'}
    <3>1. {events'[i].id : i \in 1..Len(events')}
            = {events[i].id : i \in 1..n} \cup {request[h].request}
      BY <2>2, <2>3
    <3>2. {c.request : c \in issued'} = {c.request : c \in issued} \cup {request[h].request}
      BY <2>1
    <3>3. {events[i].id : i \in 1..n} = {c.request : c \in issued}
      BY Zenon DEF EventsMatch
    <3>4. QED
      BY <3>1, <3>2, <3>3, Zenon
  <2>6. \A i \in 1..Len(events') :
          events'[i].prev = IF i = 1 THEN Genesis ELSE events'[i - 1].id
    <3>1. SUFFICES ASSUME NEW i \in 1..(n + 1)
                   PROVE  events'[i].prev = IF i = 1 THEN Genesis ELSE events'[i - 1].id
      BY <2>3
    <3>2. CASE i = n + 1
      <4>1. LastEvent = IF n = 0 THEN Genesis ELSE events[n].id
        BY <2>2, EmptySeq DEF LastEvent
      <4>2. QED
        BY <2>2, <2>3, <3>2, <4>1
    <3>3. CASE i # n + 1
      <4>1. i \in 1..n /\ (i # 1 => i - 1 \in 1..n)
        BY <2>2, <3>3
      <4>2. events[i].prev = IF i = 1 THEN Genesis ELSE events[i - 1].id
        BY <4>1 DEF EventsMatch
      <4>3. QED
        BY <2>3, <4>1, <4>2
    <3>4. QED
      BY <3>2, <3>3
  <2>7. \A i, j \in 1..Len(events') : events'[i].id = events'[j].id => i = j
    <3>1. \A i \in 1..n : events[i].id # request[h].request
      <4>1. {events[i].id : i \in 1..n} = {c.request : c \in issued}
        BY Zenon DEF EventsMatch
      <4>2. \A i \in 1..n : events[i].id \in {c.request : c \in issued}
        BY <4>1, Zenon
      <4>3. QED
        BY <2>4, <4>2, Zenon
    <3>2. QED
      BY <2>2, <2>3, <3>1 DEF EventsMatch
  <2>8. QED
    BY <2>5, <2>6, <2>7 DEF EventsMatch
<1>2. ASSUME UNCHANGED <<issued, events>> PROVE EventsMatch'
  <2>1. issued' = issued /\ events' = events
    BY <1>2
  <2>2. {events'[i].id : i \in 1..Len(events')} = {c.request : c \in issued'}
    <3>1. {events[i].id : i \in 1..Len(events)} = {c.request : c \in issued}
      BY Zenon DEF EventsMatch
    <3>2. QED
      BY ONLY <2>1, <3>1, Zenon
  <2>3. \A i \in 1..Len(events') :
          events'[i].prev = IF i = 1 THEN Genesis ELSE events'[i - 1].id
    BY <2>1 DEF EventsMatch
  <2>4. \A i, j \in 1..Len(events') : events'[i].id = events'[j].id => i = j
    BY <2>1 DEF EventsMatch
  <2>5. QED
    BY <2>2, <2>3, <2>4, Zenon DEF EventsMatch
<1>3. QED
  BY <1>1, <1>2
  DEF Next, Submit, InsertIssued, RefuseIssued, InsertEvent, Fail, Crash, vars, database

LEMMA Inductive == Spec => []IInv
<1>1. IInv /\ [Next]_vars => IInv'
  BY NextTypeOK, NextNumbered, NextTransaction, NextCommitted, NextEventsMatch DEF IInv
<1>2. QED
  BY InitIInv, <1>1, PTL DEF Spec

-----------------------------------------------------------------------------
\* Types; and a transaction is open exactly while a handler is in it.
THEOREM TypeCorrect == Spec => []TypeOK
<1>1. IInv => TypeOK
  BY DEF IInv
<1>2. QED
  BY Inductive, <1>1, PTL

\* Whoever races, fails or crashes in submit, a claim and version has at most
\* one certificate, and status shows the one that a client got.
THEOREM IssuedOnceThm == Spec => []IssuedOnce
<1>1. IInv => IssuedOnce
  BY DEF IInv, Committed, IssuedOnce, Status
<1>2. QED
  BY Inductive, <1>1, PTL

\* Certificates and events are committed together: the chain has one event for
\* each certificate, without a gap or a fork.
THEOREM EventsMatchThm == Spec => []EventsMatch
<1>1. IInv => EventsMatch
  BY DEF IInv
<1>2. QED
  BY Inductive, <1>1, PTL

\* Status 409 is given only to a request whose claim another request got the
\* certificate for.
THEOREM RefusalsJustifiedThm == Spec => []RefusalsJustified
<1>1. IInv => RefusalsJustified
  BY DEF IInv, Numbered, Committed, RefusalsJustified
<1>2. QED
  BY Inductive, <1>1, PTL

\* decide of contract_fixture.py accepts what submit certifies, raises KeyError
\* where the contract lacks a list that submit takes for empty, and rejects only
\* for evidence under the name that submit does not read.
THEOREM CertifiedAsDecidedThm == Spec => []CertifiedAsDecided
<1>1. ASSUME IInv PROVE CertifiedAsDecided
  <2> SUFFICES ASSUME NEW cert \in issued
               PROVE  LET c == cert.submission.contract
                          a == cert.submission.attempt
                          unread == Listed(c.requiredEvidence) \ Listed(c.evidenceRequirements)
                      IN Decide(c, a) =
                           IF c.requiredChecks = {} \/ c.requiredEvidence = {} THEN "KeyError"
                           ELSE IF \E name \in unread : a.evidence[name] = "absent"
                                THEN "NOT_CERTIFIED"
                           ELSE "CHECKS_SATISFIED_NOT_SIGNED"
    BY DEF CertifiedAsDecided
  <2> DEFINE c == cert.submission.contract
             a == cert.submission.attempt
  <2>1. /\ c.claim = a.claim /\ a.satisfied /\ ~a.blocked
        /\ Listed(c.requiredChecks) \subseteq a.checksPassed
        /\ \A name \in Listed(c.evidenceRequirements) : a.evidence[name] = "digest"
    BY <1>1 DEF IInv, Committed, Admissible
  <2> HIDE DEF c, a
  <2>2. (\E name \in Listed(c.requiredEvidence) : a.evidence[name] = "absent")
          <=> \E name \in Listed(c.requiredEvidence) \ Listed(c.evidenceRequirements) :
                a.evidence[name] = "absent"
    BY <2>1
  <2>3. QED
    BY <2>1, <2>2 DEF Decide, c, a
<1>2. QED
  BY Inductive, <1>1, PTL

\* With its transactions hidden, submit certifies in one step: the commit stores
\* a certificate for a claim that has none, links its event to the last one, and
\* may answer.  Nothing else shows, except that a request whose claim another has
\* is refused.
THEOREM ImplementsLedgerThm == Spec => ImplementsLedger
<1>1. Init => Ledger!Init
  BY DEF Init, Ledger!Init
<1>2. ASSUME IInv, [Next]_vars
      PROVE  [Ledger!Next]_<<issued, events, returned, refused>>
  <2> USE <1>2 DEF IInv
  <2>1. ASSUME NEW h \in Handlers, Commit(h) PROVE Ledger!Next
    <3>1. /\ txnIssued = {request[h]}
          /\ txnEvents = <<[id |-> request[h].request, prev |-> LastEvent]>>
          /\ \A c \in issued : Claim(c) # Claim(request[h])
      BY <2>1 DEF Commit, TypeOK, Transaction
    <3>2. /\ request[h] \in Certificates
          /\ \A c \in issued : c.request # request[h].request
      BY <2>1 DEF Commit, Numbered, Active
    <3>3. events' = Append(events, [id |-> request[h].request, prev |-> Ledger!Last])
      <4>1. LastEvent = Ledger!Last
        BY DEF LastEvent, Ledger!Last, Genesis
      <4>2. events' = events \o <<[id |-> request[h].request, prev |-> LastEvent]>>
        BY <2>1, <3>1 DEF Commit
      <4>3. events \in Seq(Event)
        BY DEF TypeOK
      <4>4. [id |-> request[h].request, prev |-> LastEvent] \in Event
        BY <3>2, LastEventTyped DEF Certificates, Event
      <4>5. QED
        BY <4>1, <4>2, <4>3, <4>4, AppendIsConcat
    <3>4. Ledger!Certify(request[h])
      BY <2>1, <3>1, <3>2, <3>3 DEF Commit, Ledger!Certify, Ledger!SameClaim, Claim
    <3>5. QED
      BY <3>2, <3>4 DEF Ledger!Next
  <2>2. ASSUME NEW h \in Handlers, RefuseIssued(h) PROVE Ledger!Next
    <3>1. /\ request[h] \in Certificates
          /\ \A c \in issued : c.request # request[h].request
      BY <2>2 DEF RefuseIssued, Numbered, Active
    <3>2. Ledger!TurnAway(request[h])
      BY <2>2, <3>1 DEF RefuseIssued, Ledger!TurnAway, Ledger!SameClaim, Claim, database
    <3>3. QED
      BY <3>1, <3>2 DEF Ledger!Next
  <2>3. CASE UNCHANGED <<issued, events, returned, refused>>
    BY <2>3
  <2>4. QED
    BY <2>1, <2>2, <2>3
    DEF Next, Submit, InsertIssued, InsertEvent, Fail, Crash, vars, database
<1>3. QED
  BY Inductive, <1>1, <1>2, PTL DEF Spec, ImplementsLedger, Ledger!Spec

=============================================================================
