------------------------ MODULE TelepathServerProofs ------------------------
(***************************************************************************)
(* Proofs about the two sides of a Telepath node, for every set of peers,  *)
(* models, rules, nonces, nodes and pulls and every value of the bounds:   *)
(* TelepathServer, which serves, and then TelepathPull, which pulls and    *)
(* caches.  The two specifications have no variable in common.             *)
(***************************************************************************)
EXTENDS TelepathServer, TelepathPull, FiniteSetTheorems, WellFoundedInduction,
        TLAPS

\* The default ttl_s of NonceCache is twice the max_skew_s of verify: as long as
\* the window in which a message is fresh, which begins before its timestamp
\* when the sender's clock is ahead.
TtlCoversWindow == NonceTtl >= 2 * MaxSkew

-----------------------------------------------------------------------------
(***************************************************************************)
(* The inductive invariant.                                                *)
(***************************************************************************)

\* A nonce names one message; a message names a session id that was handed out.
Sent ==
    /\ \A m, o \in network : m.nonce = o.nonce => m = o
    /\ \A m \in network : m.kind = "REQUEST_SHARD" => m.sid <= issued

\* BudgetKept, and only a session that was opened is in the registry.
Accounts ==
    /\ BudgetKept
    /\ \A s \in Sids : sessions[s] # NoSession => opens[s] # NoSession

\* The rule a session was opened under, if the node has an access list, is still
\* loaded, or it went missing after the session was opened.
Entitled ==
    \A s \in Sids : opens[s] # NoSession =>
        LET rule == <<opens[s].peer, opens[s].model>> IN
        /\ rule \in Rules
        /\ opens[s].opened <= clock
        /\ opens[s].ttl <= MaxTtl
        /\ UsesAcl => rule \in acl \/ revoked[rule] >= opens[s].opened

Capacity == Size(sessions) <= MaxSessions

IInv == TypeOK /\ Sent /\ Accounts /\ Entitled /\ Capacity

\* A nonce is in the cache until the time t at least, or t has come.
KeptUntil(n, t) == seen[n] >= t \/ clock >= t

\* A message that was charged keeps its nonce in the cache until its window
\* ends, and one that was charged again until its window is over; or its session
\* left the registry with the cache that forgot the nonce.
Settled(m) ==
    /\ m.kind = "REQUEST_SHARD"
    /\ \/ sessions[m.sid] = NoSession
       \/ /\ KeptUntil(m.nonce, m.ts + MaxSkew)
          /\ charges[m.nonce] > 1 => KeptUntil(m.nonce, m.ts + MaxSkew + 1)

Billed ==
    /\ \A n \in Keys : charges[n] > 0 => \E m \in network : m.nonce = n
    /\ \A m \in network : charges[m.nonce] > 0 => Settled(m)

-----------------------------------------------------------------------------
(***************************************************************************)
(* What the operators of the registry and of the cache do.                 *)
(***************************************************************************)

Registries == [Sids -> Sessions \cup {NoSession}]

\* Making room in the cache forgets no nonce that has not expired.
LEMMA RoomKeeps ==
    ASSUME NEW c \in [Keys -> Nat], NEW now \in Nat
    PROVE  /\ MakeRoom(c, now) \in [Keys -> Nat]
           /\ \A n \in Keys : c[n] > now => MakeRoom(c, now)[n] = c[n]
BY DEF MakeRoom, Sweep, Absent

\* _gc removes exactly the sessions whose lifetime is over.
LEMMA CollectedEffect ==
    ASSUME TypeOK
    PROVE  /\ Collected \in Registries
           /\ \A s \in Sids :
                /\ Collected[s] # NoSession <=>
                     /\ sessions[s] # NoSession
                     /\ clock <= sessions[s].opened + sessions[s].ttl
                /\ Collected[s] # NoSession => Collected[s] = sessions[s]
<1>1. sessions \in Registries /\ clock \in Int
  BY ServerAssumption DEF TypeOK, Registries
<1>2. \A s \in Sids : Collected[s] = IF sessions[s] # NoSession /\ Expired(sessions[s])
                                     THEN NoSession ELSE sessions[s]
  BY DEF Collected
<1>3. \A s \in Sids : sessions[s] # NoSession =>
        sessions[s].opened \in Int /\ sessions[s].ttl \in Int
  BY <1>1 DEF Registries, Sessions
<1>4. Collected \in Registries
  BY <1>1 DEF Collected, Registries
<1>5. QED
  BY <1>1, <1>2, <1>3, <1>4 DEF Expired

\* The sets of session ids that Size counts are finite.
LEMMA SizeFinite ==
    ASSUME NEW R \in Registries
    PROVE  /\ IsFiniteSet({s \in Sids : R[s] # NoSession})
           /\ Size(R) \in Nat
<1>1. IsFiniteSet(Sids)
  BY FS_Interval, ServerAssumption DEF Sids
<1>2. IsFiniteSet({s \in Sids : R[s] # NoSession})
  BY <1>1, FS_Subset
<1>3. QED
  BY <1>2, FS_CardinalityType DEF Size

\* A registry with fewer sessions is no larger.
LEMMA SizeSubset ==
    ASSUME NEW R \in Registries, NEW Q \in Registries,
           \A s \in Sids : Q[s] # NoSession => R[s] # NoSession
    PROVE  Size(Q) <= Size(R)
<1>1. {s \in Sids : Q[s] # NoSession} \subseteq {s \in Sids : R[s] # NoSession}
  OBVIOUS
<1>2. QED
  BY <1>1, SizeFinite, FS_Subset DEF Size

\* Popping an oldest session at capacity leaves room for one more.
LEMMA RoomForOne ==
    ASSUME NEW R \in Registries, Size(R) <= MaxSessions, NEW Q \in WithRoom(R)
    PROVE  /\ Q \in Registries
           /\ Size(Q) < MaxSessions
           /\ \A s \in Sids : Q[s] = R[s] \/ Q[s] = NoSession
           /\ \A s \in Sids : R[s] # NoSession /\ Q[s] = NoSession =>
                Size(R) >= MaxSessions /\ s \in Oldest(R)
<1>1. CASE Size(R) >= MaxSessions
  <2>1. PICK o \in Oldest(R) : Q = [R EXCEPT ![o] = NoSession]
    BY <1>1 DEF WithRoom
  <2>2. o \in Sids /\ R[o] # NoSession
    BY DEF Oldest
  <2>3. /\ Q \in Registries
        /\ \A s \in Sids : Q[s] = IF s = o THEN NoSession ELSE R[s]
    BY <2>1, <2>2 DEF Registries
  <2> DEFINE S == {s \in Sids : R[s] # NoSession}
             T == {s \in Sids : Q[s] # NoSession}
  <2>4. T = S \ {o} /\ o \in S
    BY <2>2, <2>3
  <2>5. IsFiniteSet(S) /\ Size(R) \in Nat /\ Size(Q) \in Nat
    BY <2>3, SizeFinite
  <2>6. Cardinality(S \ {o}) = Cardinality(S) - 1
    BY <2>4, <2>5, FS_RemoveElement
  <2>7. Size(R) = Cardinality(S) /\ Size(Q) = Cardinality(T)
    BY DEF Size
  <2>8. Size(Q) = Size(R) - 1
    BY <2>4, <2>6, <2>7
  <2>9. MaxSessions \in Nat
    BY ServerAssumption
  <2>10. Size(Q) < MaxSessions
    BY <2>5, <2>8, <2>9
  <2>11. QED
    BY <1>1, <2>1, <2>3, <2>10
<1>2. CASE ~(Size(R) >= MaxSessions)
  <2>1. Q = R
    BY <1>2 DEF WithRoom
  <2>2. Size(R) \in Nat /\ MaxSessions \in Nat
    BY SizeFinite, ServerAssumption
  <2>3. Size(R) < MaxSessions
    BY <1>2, <2>2
  <2>4. QED
    BY <2>1, <2>3
<1>3. QED
  BY <1>1, <1>2

\* One registration adds at most one session.
LEMMA SizeRegister ==
    ASSUME NEW R \in Registries, NEW s \in Sids, NEW x \in Sessions
    PROVE  /\ [R EXCEPT ![s] = x] \in Registries
           /\ Size([R EXCEPT ![s] = x]) <= Size(R) + 1
<1> DEFINE Q == [R EXCEPT ![s] = x]
           S == {u \in Sids : R[u] # NoSession}
<1>1. Q \in Registries
  BY DEF Registries
<1>2. {u \in Sids : Q[u] # NoSession} \subseteq S \cup {s}
  BY DEF Registries
<1>3. IsFiniteSet(S) /\ Cardinality(S) \in Nat
  BY SizeFinite, FS_CardinalityType
<1>4. IsFiniteSet(S \cup {s}) /\ Cardinality(S \cup {s}) <= Cardinality(S) + 1
  <2> HIDE DEF S
  <2>1. /\ IsFiniteSet(S \cup {s})
        /\ Cardinality(S \cup {s}) = IF s \in S THEN Cardinality(S) ELSE Cardinality(S) + 1
    BY <1>3, FS_AddElement
  <2>2. QED
    BY <1>3, <2>1
<1>5. Cardinality({u \in Sids : Q[u] # NoSession}) <= Cardinality(S \cup {s})
  BY <1>2, <1>4, FS_Subset
<1>6. Size(Q) = Cardinality({u \in Sids : Q[u] # NoSession}) /\ Size(R) = Cardinality(S)
  BY DEF Size
<1>7. Size(Q) \in Nat /\ Size(R) \in Nat /\ Cardinality(S \cup {s}) \in Nat
  BY <1>1, <1>4, SizeFinite, FS_CardinalityType
<1>8. QED
  BY <1>1, <1>3, <1>4, <1>5, <1>6, <1>7

-----------------------------------------------------------------------------
(***************************************************************************)
(* What the steps do.                                                      *)
(***************************************************************************)

\* The part of an accepted message that the steps read.
LEMMA MessageType ==
    ASSUME TypeOK, NEW m \in network
    PROVE  /\ m.nonce \in Keys /\ m.ts \in Int /\ m.sender \in Peers
           /\ m.kind = "SESSION_OPEN" =>
                m.model \in Models /\ m.budget \in Int /\ m.ttl \in Int
           /\ m.kind = "REQUEST_SHARD" => m.sid \in Sids
<1>1. m \in OpenRequests \/ m \in ShardRequests
  BY DEF TypeOK
<1>2. QED
  BY <1>1, ServerAssumption DEF OpenRequests, ShardRequests

\* A message whose nonce the cache still holds is not accepted; an accepted
\* one is remembered from now on, and nothing unexpired is forgotten.
LEMMA AcceptEffect ==
    ASSUME TypeOK, NEW m \in network, Accept(m)
    PROVE  /\ InWindow(clock, m.ts)
           /\ seen' \in [Keys -> Nat]
           /\ seen[m.nonce] <= clock
           /\ seen'[m.nonce] = clock + NonceTtl
           /\ \A n \in Keys : seen[n] > clock => seen'[n] = seen[n]
           /\ UNCHANGED <<clock, boot, aclFile, acl, changes, network, revoked>>
<1> DEFINE room == MakeRoom(seen, clock)
<1>1. clock \in Nat /\ seen \in [Keys -> Nat] /\ m.nonce \in Keys
  BY MessageType, ServerAssumption DEF TypeOK
<1>2. /\ room \in [Keys -> Nat]
      /\ \A n \in Keys : seen[n] > clock => room[n] = seen[n]
  BY <1>1, RoomKeeps
<1>3. ~(room[m.nonce] > clock)
  BY DEF Accept, Replayed, Remembers
<1>4. seen' = [room EXCEPT ![m.nonce] = clock + NonceTtl]
  BY DEF Accept, Remember, Expiry
<1>5. seen[m.nonce] <= clock
  BY <1>1, <1>2, <1>3
<1> HIDE DEF room
<1>6. QED
  BY <1>1, <1>2, <1>4, <1>5, CacheAssumption DEF Accept

\* The handlers that answer with a denial, or drop the message.
Declines(m) ==
    \/ Refuse(m) \/ DenyOpen(m) \/ RejectBounds(m) \/ DenyShard(m) \/ MalformedIndex(m)

\* They only collect expired sessions and keep what the cache has to remember.
LEMMA DeclineEffect ==
    ASSUME TypeOK, NEW m \in network, Declines(m)
    PROVE  /\ seen' \in [Keys -> Nat]
           /\ \A n \in Keys : seen[n] > clock => seen'[n] = seen[n]
           /\ sessions' = sessions \/ sessions' = Collected
           /\ UNCHANGED <<clock, boot, aclFile, acl, changes, network, revoked,
                          issued, receipts, opens, charges, spent>>
<1>1. CASE Refuse(m)
  <2>1. clock \in Nat /\ seen \in [Keys -> Nat]
    BY ServerAssumption DEF TypeOK
  <2>2. /\ seen' = seen \/ seen' = MakeRoom(seen, clock)
        /\ sessions' = sessions
        /\ UNCHANGED <<clock, boot, aclFile, acl, changes, network, revoked,
                       issued, receipts, opens, charges, spent>>
    BY <1>1 DEF Refuse
  <2>3. QED
    BY <2>1, <2>2, RoomKeeps
<1>2. CASE ~Refuse(m)
  <2>1. /\ Accept(m)
        /\ sessions' = sessions \/ sessions' = Collected
        /\ UNCHANGED <<issued, receipts, opens, charges, spent>>
    BY <1>2 DEF Declines, DenyOpen, RejectBounds, DenyShard, MalformedIndex
  <2>2. QED
    BY <2>1, AcceptEffect
<1>3. QED
  BY <1>1, <1>2

\* The session that _open_session makes of a message.
Opening(m) ==
    [peer |-> m.sender, model |-> m.model, budget |-> m.budget, used |-> 0,
     opened |-> clock, ttl |-> m.ttl]

\* Opening registers one session under a new id; besides expired sessions only
\* an oldest one, and only at capacity, gives way to it.
LEMMA OpenEffect ==
    ASSUME TypeOK, Capacity, NEW m \in network, OpenSession(m)
    PROVE  /\ Accept(m) /\ Admitted(m) /\ InBounds(m)
           /\ issued + 1 \in Sids /\ issued' = issued + 1
           /\ Opening(m) \in Sessions
           /\ opens' = [opens EXCEPT ![issued + 1] = Opening(m)]
           /\ sessions' \in Registries
           /\ sessions'[issued + 1] = Opening(m)
           /\ \A s \in Sids : s # issued + 1 =>
                sessions'[s] = sessions[s] \/ sessions'[s] = NoSession
           /\ \A s \in Sids : sessions[s] # NoSession /\ sessions'[s] = NoSession =>
                \/ Collected[s] = NoSession
                \/ Size(Collected) >= MaxSessions /\ s \in Oldest(Collected)
           /\ Size(sessions') <= MaxSessions
           /\ receipts' = receipts
           /\ UNCHANGED <<charges, spent>>
<1>1. /\ m.kind = "SESSION_OPEN"
      /\ Accept(m) /\ Admitted(m) /\ InBounds(m)
      /\ issued + 1 \in Sids /\ issued' = issued + 1
      /\ opens' = [opens EXCEPT ![issued + 1] = Opening(m)]
      /\ receipts' = receipts
      /\ UNCHANGED <<charges, spent>>
      /\ \E Q \in WithRoom(Collected) : sessions' = [Q EXCEPT ![issued + 1] = Opening(m)]
  BY DEF OpenSession, Opening
<1>2. PICK Q \in WithRoom(Collected) : sessions' = [Q EXCEPT ![issued + 1] = Opening(m)]
  BY <1>1
<1>3. Opening(m) \in Sessions
  BY <1>1, MessageType, ServerAssumption DEF Opening, Sessions, TypeOK
<1>4. /\ sessions \in Registries /\ Collected \in Registries
      /\ \A s \in Sids : Collected[s] = sessions[s] \/ Collected[s] = NoSession
      /\ Size(Collected) <= MaxSessions
  <2>1. sessions \in Registries /\ Collected \in Registries
    BY CollectedEffect DEF TypeOK, Registries
  <2>2. \A s \in Sids : Collected[s] # NoSession => sessions[s] # NoSession
    BY CollectedEffect
  <2>3. Size(Collected) <= Size(sessions)
    BY <2>1, <2>2, SizeSubset
  <2>4. Size(Collected) \in Nat /\ Size(sessions) \in Nat /\ Size(sessions) <= MaxSessions
    BY <2>1, SizeFinite DEF Capacity
  <2>5. Size(Collected) <= MaxSessions
    BY <2>3, <2>4, ServerAssumption
  <2>6. QED
    BY <2>1, <2>5, CollectedEffect
<1>5. /\ Q \in Registries
      /\ Size(Q) < MaxSessions
      /\ \A s \in Sids : Q[s] = Collected[s] \/ Q[s] = NoSession
      /\ \A s \in Sids : Collected[s] # NoSession /\ Q[s] = NoSession =>
           Size(Collected) >= MaxSessions /\ s \in Oldest(Collected)
  BY <1>4, RoomForOne
<1>6. sessions' \in Registries /\ Size(sessions') <= Size(Q) + 1
  BY <1>1, <1>2, <1>3, <1>5, SizeRegister
<1>7. Size(sessions') <= MaxSessions
  <2>1. Size(Q) \in Nat /\ Size(sessions') \in Nat
    BY <1>5, <1>6, SizeFinite
  <2>2. QED
    BY <1>5, <1>6, <2>1, ServerAssumption
<1>8. \A s \in Sids : sessions'[s] = IF s = issued + 1 THEN Opening(m) ELSE Q[s]
  BY <1>2, <1>5 DEF Registries
<1>9. Opening(m) # NoSession
  BY <1>3, NoSessionAssumption
<1>10. QED
  BY <1>1, <1>3, <1>4, <1>5, <1>6, <1>7, <1>8, <1>9

\* A charge goes to a live session of the sender that has budget left.
LEMMA ChargeEffect ==
    ASSUME TypeOK, NEW m \in network, Charge(m)
    PROVE  /\ m.kind = "REQUEST_SHARD" /\ m.sid \in Sids
           /\ Accept(m)
           /\ sessions[m.sid] \in Sessions
           /\ sessions[m.sid] # NoSession
           /\ sessions[m.sid].peer = m.sender
           /\ sessions[m.sid].used < sessions[m.sid].budget
           /\ clock <= sessions[m.sid].opened + sessions[m.sid].ttl
           /\ sessions' \in Registries
           /\ sessions'[m.sid] = [sessions[m.sid] EXCEPT !.used = @ + 1]
           /\ \A s \in Sids : s # m.sid => sessions'[s] = Collected[s]
           /\ charges' = [charges EXCEPT ![m.nonce] = @ + 1]
           /\ spent' = [spent EXCEPT ![m.sid] = @ + 1]
           /\ UNCHANGED <<issued, opens>>
<1>1. /\ m.kind = "REQUEST_SHARD" /\ Accept(m) /\ Chargeable(m)
      /\ sessions' = [Collected EXCEPT ![m.sid].used = @ + 1]
      /\ charges' = [charges EXCEPT ![m.nonce] = @ + 1]
      /\ spent' = [spent EXCEPT ![m.sid] = @ + 1]
      /\ UNCHANGED <<issued, opens>>
  BY DEF Charge
<1>2. m.sid \in Sids
  BY <1>1, MessageType
<1>3. /\ Collected[m.sid] # NoSession
      /\ Collected[m.sid].peer = m.sender
      /\ Collected[m.sid].used < Collected[m.sid].budget
  BY <1>1 DEF Chargeable, HasBudget
<1>4. /\ Collected \in Registries
      /\ Collected[m.sid] = sessions[m.sid]
      /\ clock <= sessions[m.sid].opened + sessions[m.sid].ttl
  BY <1>2, <1>3, CollectedEffect
<1>5. Collected[m.sid] \in Sessions
  BY <1>2, <1>3, <1>4 DEF Registries
<1>6. /\ sessions'[m.sid] = [Collected[m.sid] EXCEPT !.used = @ + 1]
      /\ \A s \in Sids : s # m.sid => sessions'[s] = Collected[s]
  BY <1>1, <1>2, <1>4 DEF Registries
<1>7. [Collected[m.sid] EXCEPT !.used = @ + 1] \in Sessions
  BY <1>5 DEF Sessions
<1>8. sessions' \in Registries
  BY <1>1, <1>2, <1>4, <1>6, <1>7 DEF Registries
<1>9. QED
  BY <1>1, <1>2, <1>3, <1>4, <1>5, <1>6, <1>8

\* Every step is one of these.
Step ==
    \/ \E p \in Peers, k \in Models, b \in Budgets, t \in Ttls, n \in Keys, d \in Offsets :
         SendOpen(p, k, b, t, n, d)
    \/ \E p \in Peers, s \in Sids, n \in Keys, d \in Offsets : SendShard(p, s, n, d)
    \/ \E rules \in SUBSET Rules : ChangeRules(rules)
    \/ \E r \in Rules : ChangeFile(r)
    \/ Tick
    \/ Restart
    \/ \E m \in network : Declines(m)
    \/ \E m \in network : OpenSession(m)
    \/ \E m \in network : Charge(m) /\
         (receipts' = receipts \/ receipts' = receipts \cup {m.nonce})
    \/ UNCHANGED vars

LEMMA StepCases ==
    ASSUME TypeOK, [Next]_vars PROVE Step
<1>1. CASE UNCHANGED vars
  BY <1>1 DEF Step
<1>2. ASSUME NEW r \in Rules, Allow(r) \/ Revoke(r) PROVE Step
  <2>1. acl \cup {r} \in SUBSET Rules /\ acl \ {r} \in SUBSET Rules
    BY DEF TypeOK
  <2>2. QED
    BY <1>2, <2>1 DEF Allow, Revoke, Step
<1>3. ASSUME NEW m \in network, FailShard(m) \/ ServeShard(m) PROVE Step
  BY <1>3 DEF FailShard, ServeShard, Step
<1>4. CASE Environment
  BY <1>2, <1>4 DEF Environment, Step
<1>5. CASE Node
  BY <1>3, <1>5 DEF Node, Step, Declines
<1>6. QED
  BY <1>1, <1>4, <1>5 DEF Next

-----------------------------------------------------------------------------
(***************************************************************************)
(* The invariant is inductive: one lemma per part.                         *)
(***************************************************************************)

LEMMA InitInv == Init => IInv
<1> SUFFICES ASSUME Init PROVE IInv
  OBVIOUS
<1>1. TypeOK
  BY ServerAssumption, RulesAssumption
     DEF Init, TypeOK, EmptyCache, Absent, Sids
<1>2. Sent /\ Accounts /\ Entitled
  BY DEF Init, Sent, Accounts, BudgetKept, Entitled
<1>3. Capacity
  <2>1. {s \in Sids : sessions[s] # NoSession} = {}
    BY DEF Init
  <2>2. QED
    BY <2>1, FS_EmptySet, ServerAssumption DEF Capacity, Size
<1>4. QED
  BY <1>1, <1>2, <1>3 DEF IInv

LEMMA NextTyped == IInv /\ [Next]_vars => TypeOK'
<1> SUFFICES ASSUME IInv, [Next]_vars PROVE TypeOK'
  OBVIOUS
<1> USE DEF IInv
<1>1. ASSUME NEW p \in Peers, NEW k \in Models, NEW b \in Budgets, NEW t \in Ttls,
             NEW n \in Keys, NEW d \in Offsets, SendOpen(p, k, b, t, n, d)
      PROVE  TypeOK'
  <2> DEFINE m == [kind |-> "SESSION_OPEN", nonce |-> n, ts |-> clock + d, sender |-> p,
                   model |-> k, budget |-> b, ttl |-> t]
  <2>1. m \in OpenRequests
    BY ServerAssumption DEF OpenRequests, TypeOK
  <2>2. network' = network \cup {m}
    BY <1>1 DEF SendOpen
  <2> HIDE DEF m
  <2>3. network' \subseteq OpenRequests \cup ShardRequests
    BY <2>1, <2>2 DEF TypeOK
  <2>4. QED
    BY <1>1, <2>3 DEF SendOpen, TypeOK
<1>2. ASSUME NEW p \in Peers, NEW s \in Sids, NEW n \in Keys, NEW d \in Offsets,
             SendShard(p, s, n, d)
      PROVE  TypeOK'
  <2> DEFINE m == [kind |-> "REQUEST_SHARD", nonce |-> n, ts |-> clock + d, sender |-> p,
                   sid |-> s]
  <2>1. m \in ShardRequests
    BY ServerAssumption DEF ShardRequests, TypeOK
  <2>2. network' = network \cup {m}
    BY <1>2 DEF SendShard
  <2> HIDE DEF m
  <2>3. network' \subseteq OpenRequests \cup ShardRequests
    BY <2>1, <2>2 DEF TypeOK
  <2>4. QED
    BY <1>2, <2>3 DEF SendShard, TypeOK
<1>3. ASSUME NEW rules \in SUBSET Rules PROVE RevokedSince(rules) \in [Rules -> 0..MaxClock]
  BY ServerAssumption DEF RevokedSince, TypeOK
<1>4. ASSUME NEW rules \in SUBSET Rules, ChangeRules(rules) PROVE TypeOK'
  BY <1>3, <1>4, ServerAssumption DEF ChangeRules, TypeOK
<1>5. ASSUME NEW r \in Rules, ChangeFile(r) PROVE TypeOK'
  BY <1>5, ServerAssumption DEF ChangeFile, TypeOK
<1>6. CASE Tick
  BY <1>6, ServerAssumption DEF Tick, TypeOK
<1>7. CASE Restart
  <2>1. revoked' \in [Rules -> 0..MaxClock]
    BY <1>3, <1>7 DEF Restart, TypeOK
  <2>2. /\ boot' \in 0..MaxUpsets
        /\ seen' \in [Keys -> Nat]
        /\ sessions' \in [Sids -> Sessions \cup {NoSession}]
    BY <1>7, ServerAssumption DEF Restart, TypeOK, EmptyCache, Absent
  <2>3. QED
    BY <1>7, <2>1, <2>2 DEF Restart, TypeOK
<1>8. ASSUME NEW m \in network, Declines(m) PROVE TypeOK'
  <2>1. sessions' \in [Sids -> Sessions \cup {NoSession}]
    BY <1>8, DeclineEffect, CollectedEffect DEF TypeOK, Registries
  <2>2. QED
    BY <1>8, <2>1, DeclineEffect DEF TypeOK
<1>9. ASSUME NEW m \in network, OpenSession(m) PROVE TypeOK'
  <2>1. /\ Accept(m)
        /\ issued + 1 \in Sids /\ issued' = issued + 1
        /\ Opening(m) \in Sessions
        /\ opens' = [opens EXCEPT ![issued + 1] = Opening(m)]
        /\ sessions' \in Registries
        /\ receipts' = receipts
        /\ UNCHANGED <<charges, spent>>
    BY <1>9, OpenEffect
  <2>2. /\ seen' \in [Keys -> Nat]
        /\ UNCHANGED <<clock, boot, aclFile, acl, changes, network, revoked>>
    BY <2>1, AcceptEffect
  <2>3. /\ opens' \in [Sids -> Sessions \cup {NoSession}]
        /\ \A s \in Sids : opens'[s] # NoSession <=> s <= issued'
    BY <2>1, NoSessionAssumption DEF TypeOK, Sids
  <2>4. receipts' \subseteq Keys
    BY <2>1, MessageType DEF TypeOK
  <2>5. QED
    BY <2>1, <2>2, <2>3, <2>4 DEF TypeOK, Registries
<1>10. ASSUME NEW m \in network, Charge(m),
              receipts' = receipts \/ receipts' = receipts \cup {m.nonce}
       PROVE  TypeOK'
  <2>1. /\ m.sid \in Sids /\ m.nonce \in Keys
        /\ Accept(m)
        /\ sessions' \in Registries
        /\ charges' = [charges EXCEPT ![m.nonce] = @ + 1]
        /\ spent' = [spent EXCEPT ![m.sid] = @ + 1]
        /\ UNCHANGED <<issued, opens>>
    BY <1>10, ChargeEffect, MessageType
  <2>2. /\ seen' \in [Keys -> Nat]
        /\ UNCHANGED <<clock, boot, aclFile, acl, changes, network, revoked>>
    BY <2>1, AcceptEffect
  <2>3. charges' \in [Keys -> Nat] /\ spent' \in [Sids -> Nat]
    BY <2>1 DEF TypeOK
  <2>4. receipts' \subseteq Keys
    BY <1>10, <2>1 DEF TypeOK
  <2>5. QED
    BY <2>1, <2>2, <2>3, <2>4 DEF TypeOK, Registries
<1>11. CASE UNCHANGED vars
  BY <1>11 DEF vars, TypeOK
<1>12. QED
  BY <1>1, <1>2, <1>4, <1>5, <1>6, <1>7, <1>8, <1>9, <1>10, <1>11, StepCases DEF Step

LEMMA NextSent == IInv /\ [Next]_vars => Sent'
<1> SUFFICES ASSUME IInv, [Next]_vars PROVE Sent'
  OBVIOUS
<1> USE DEF IInv
<1>1. issued \in Nat
  BY DEF TypeOK
<1>2. ASSUME NEW x, network' = network \cup {x}, x.nonce \in Unused,
             x.kind = "REQUEST_SHARD" => x.sid <= issued,
             issued' = issued
      PROVE  Sent'
  BY <1>1, <1>2 DEF Sent, Unused
<1>3. ASSUME NEW p \in Peers, NEW k \in Models, NEW b \in Budgets, NEW t \in Ttls,
             NEW n \in Keys, NEW d \in Offsets, SendOpen(p, k, b, t, n, d)
      PROVE  Sent'
  <2> DEFINE m == [kind |-> "SESSION_OPEN", nonce |-> n, ts |-> clock + d, sender |-> p,
                   model |-> k, budget |-> b, ttl |-> t]
  <2>1. /\ m.nonce \in Unused
        /\ m.kind = "REQUEST_SHARD" => m.sid <= issued
    BY <1>3 DEF SendOpen
  <2>2. network' = network \cup {m} /\ issued' = issued
    BY <1>3 DEF SendOpen
  <2> HIDE DEF m
  <2>3. QED
    BY <1>2, <2>1, <2>2
<1>4. ASSUME NEW p \in Peers, NEW s \in Sids, NEW n \in Keys, NEW d \in Offsets,
             SendShard(p, s, n, d)
      PROVE  Sent'
  <2> DEFINE m == [kind |-> "REQUEST_SHARD", nonce |-> n, ts |-> clock + d, sender |-> p,
                   sid |-> s]
  <2>1. /\ m.nonce \in Unused
        /\ m.kind = "REQUEST_SHARD" => m.sid <= issued
    BY <1>4 DEF SendShard
  <2>2. network' = network \cup {m} /\ issued' = issued
    BY <1>4 DEF SendShard
  <2> HIDE DEF m
  <2>3. QED
    BY <1>2, <2>1, <2>2
<1>5. ASSUME network' = network, issued' \in {issued, issued + 1}
      PROVE  Sent'
  <2>1. \A m \in network : m.kind = "REQUEST_SHARD" => m.sid <= issued'
    <3>1. \A m \in network : m.kind = "REQUEST_SHARD" => m.sid \in Int
      BY MessageType DEF Sids
    <3>2. QED
      BY <1>1, <1>5, <3>1 DEF Sent
  <2>2. QED
    BY <1>5, <2>1 DEF Sent
<1>6. ASSUME NEW m \in network, Declines(m) PROVE Sent'
  BY <1>5, <1>6, DeclineEffect
<1>7. ASSUME NEW m \in network, OpenSession(m) PROVE Sent'
  BY <1>5, <1>7, OpenEffect, AcceptEffect
<1>8. ASSUME NEW m \in network, Charge(m) PROVE Sent'
  BY <1>5, <1>8, ChargeEffect, AcceptEffect
<1>9. QED
  BY <1>3, <1>4, <1>5, <1>6, <1>7, <1>8, StepCases
     DEF Step, ChangeRules, ChangeFile, Tick, Restart, vars

LEMMA NextAccounts == IInv /\ [Next]_vars => Accounts'
<1> SUFFICES ASSUME IInv, [Next]_vars PROVE Accounts'
  OBVIOUS
<1> USE DEF IInv
<1>1. ASSUME \A s \in Sids : sessions'[s] = sessions[s] \/ sessions'[s] = NoSession,
             UNCHANGED <<opens, spent>>
      PROVE  Accounts'
  BY <1>1 DEF Accounts, BudgetKept
<1>2. CASE Restart
  BY <1>1, <1>2 DEF Restart
<1>3. ASSUME NEW m \in network, Declines(m) PROVE Accounts'
  <2>1. \A s \in Sids : sessions'[s] = sessions[s] \/ sessions'[s] = NoSession
    BY <1>3, DeclineEffect, CollectedEffect
  <2>2. QED
    BY <1>1, <1>3, <2>1, DeclineEffect
<1>4. ASSUME NEW m \in network, OpenSession(m) PROVE Accounts'
  <2> DEFINE i == issued + 1
  <2>1. /\ i \in Sids /\ InBounds(m)
        /\ Opening(m) \in Sessions
        /\ opens' = [opens EXCEPT ![i] = Opening(m)]
        /\ sessions'[i] = Opening(m)
        /\ \A s \in Sids : s # i => sessions'[s] = sessions[s] \/ sessions'[s] = NoSession
        /\ spent' = spent
    BY <1>4, OpenEffect
  <2>2. Opening(m).used = 0 /\ Opening(m).budget >= 0
    BY <2>1 DEF Opening, InBounds
  <2>3. opens[i] = NoSession /\ spent[i] = 0
    BY <2>1 DEF TypeOK, Accounts, BudgetKept
  <2>4. Opening(m) = [Opening(m) EXCEPT !.used = 0]
    BY DEF Opening
  <2>5. Opening(m) # NoSession
    BY <2>1, NoSessionAssumption
  <2>6. opens'[i] = Opening(m) /\ \A s \in Sids : s # i => opens'[s] = opens[s]
    BY <2>1 DEF TypeOK
  <2> HIDE DEF i
  <2>7. ASSUME NEW s \in Sids
        PROVE  /\ opens'[s] = NoSession => spent'[s] = 0
               /\ opens'[s] # NoSession => spent'[s] <= opens'[s].budget
               /\ sessions'[s] # NoSession => sessions'[s] = [opens'[s] EXCEPT !.used = spent'[s]]
               /\ sessions'[s] # NoSession => opens'[s] # NoSession
    <3>1. CASE s = i
      BY <3>1, <2>1, <2>2, <2>3, <2>4, <2>5, <2>6
    <3>2. CASE s # i
      BY <3>2, <2>1, <2>6 DEF Accounts, BudgetKept
    <3>3. QED
      BY <3>1, <3>2
  <2>8. QED
    BY <2>7 DEF Accounts, BudgetKept
<1>5. ASSUME NEW m \in network, Charge(m) PROVE Accounts'
  <2> DEFINE i == m.sid
  <2>1. /\ i \in Sids
        /\ sessions[i] \in Sessions /\ sessions[i] # NoSession
        /\ sessions[i].used < sessions[i].budget
        /\ sessions'[i] = [sessions[i] EXCEPT !.used = @ + 1]
        /\ \A s \in Sids : s # i => sessions'[s] = Collected[s]
        /\ spent' = [spent EXCEPT ![i] = @ + 1]
        /\ opens' = opens
    BY <1>5, ChargeEffect
  <2>2. /\ opens[i] \in Sessions /\ opens[i] # NoSession
        /\ sessions[i] = [opens[i] EXCEPT !.used = spent[i]]
        /\ spent[i] \in Nat
    BY <2>1 DEF Accounts, BudgetKept, TypeOK
  <2>3. sessions[i].used = spent[i] /\ sessions[i].budget = opens[i].budget
    BY <2>2 DEF Sessions
  <2>4. spent'[i] = spent[i] + 1 /\ \A s \in Sids : s # i => spent'[s] = spent[s]
    BY <2>1 DEF TypeOK
  <2>5. sessions'[i] = [opens[i] EXCEPT !.used = spent'[i]]
    BY <2>1, <2>2, <2>3, <2>4 DEF Sessions
  <2>6. spent'[i] <= opens[i].budget
    <3>1. opens[i].budget \in Int
      BY <2>2 DEF Sessions
    <3>2. QED
      BY <2>1, <2>2, <2>3, <2>4, <3>1
  <2>7. \A s \in Sids : s # i => sessions'[s] = sessions[s] \/ sessions'[s] = NoSession
    BY <2>1, CollectedEffect
  <2> HIDE DEF i
  <2>8. ASSUME NEW s \in Sids
        PROVE  /\ opens'[s] = NoSession => spent'[s] = 0
               /\ opens'[s] # NoSession => spent'[s] <= opens'[s].budget
               /\ sessions'[s] # NoSession => sessions'[s] = [opens'[s] EXCEPT !.used = spent'[s]]
               /\ sessions'[s] # NoSession => opens'[s] # NoSession
    <3>1. CASE s = i
      BY <3>1, <2>1, <2>2, <2>5, <2>6
    <3>2. CASE s # i
      BY <3>2, <2>1, <2>4, <2>7 DEF Accounts, BudgetKept
    <3>3. QED
      BY <3>1, <3>2
  <2>9. QED
    BY <2>8 DEF Accounts, BudgetKept
<1>6. QED
  BY <1>1, <1>2, <1>3, <1>4, <1>5, StepCases
     DEF Step, SendOpen, SendShard, ChangeRules, ChangeFile, Tick, vars

\* A message that is charged again is charged for the second time, and its
\* window ends: its nonce would still be in the cache otherwise.
LEMMA ChargedAgain ==
    ASSUME IInv, Billed, NEW m \in network, Charge(m), charges[m.nonce] > 0
    PROVE  charges[m.nonce] = 1 /\ clock = m.ts + MaxSkew
<1>1. /\ Accept(m) /\ m.sid \in Sids /\ sessions[m.sid] # NoSession
  BY ChargeEffect DEF IInv
<1>2. /\ clock \in Nat /\ m.ts \in Int /\ m.nonce \in Keys
      /\ seen[m.nonce] \in Nat /\ seen[m.nonce] <= clock
      /\ clock - m.ts <= MaxSkew /\ MaxSkew \in Nat
      /\ charges[m.nonce] \in Nat
  BY <1>1, AcceptEffect, MessageType, ServerAssumption, CacheAssumption
     DEF IInv, TypeOK, InWindow
<1>3. /\ KeptUntil(m.nonce, m.ts + MaxSkew)
      /\ charges[m.nonce] > 1 => KeptUntil(m.nonce, m.ts + MaxSkew + 1)
  BY <1>1 DEF Billed, Settled
<1>4. clock = m.ts + MaxSkew
  BY <1>2, <1>3 DEF KeptUntil
<1>5. ~(charges[m.nonce] > 1)
  BY <1>2, <1>3 DEF KeptUntil
<1>6. QED
  BY <1>2, <1>4, <1>5

LEMMA NextBilled ==
    ASSUME TtlCoversWindow PROVE IInv /\ Billed /\ [Next]_vars => Billed'
<1> SUFFICES ASSUME IInv, Billed, [Next]_vars PROVE Billed'
  OBVIOUS
<1> USE DEF IInv
<1>1. /\ clock \in Nat /\ seen \in [Keys -> Nat] /\ MaxSkew \in Nat
      /\ \A m \in network : m.ts \in Int /\ m.nonce \in Keys
      /\ \A m \in network : m.kind = "REQUEST_SHARD" => m.sid \in Sids
  BY MessageType, ServerAssumption, CacheAssumption DEF TypeOK
  \* The nonce of a charged message that has not expired stays.
<1>2. ASSUME NEW m \in network,
             charges[m.nonce] > 0, charges'[m.nonce] = charges[m.nonce],
             \A n \in Keys : seen[n] > clock => seen'[n] = seen[n],
             sessions[m.sid] = NoSession => sessions'[m.sid] = NoSession,
             clock' \in {clock, clock + 1}
      PROVE  Settled(m)'
  <2>1. Settled(m)
    BY <1>2 DEF Billed
  <2>2. m.ts \in Int /\ m.nonce \in Keys /\ seen[m.nonce] \in Nat
    BY <1>1
  <2>3. \A t \in Int : KeptUntil(m.nonce, t) => seen'[m.nonce] >= t \/ clock' >= t
    BY <1>1, <1>2, <2>2 DEF KeptUntil
  <2>4. m.ts + MaxSkew \in Int /\ m.ts + MaxSkew + 1 \in Int
    BY <1>1, <2>2
  <2>5. QED
    BY <1>2, <2>1, <2>3, <2>4 DEF Settled, KeptUntil
<1>3. ASSUME NEW x, network' = network \cup {x}, x.nonce \in Unused,
             UNCHANGED <<clock, seen, sessions, charges>>
      PROVE  Billed'
  <2>1. x.nonce \in Keys /\ ~(charges[x.nonce] > 0)
    BY <1>3 DEF Billed, Unused
  <2>2. \A m \in network : charges[m.nonce] > 0 => Settled(m)'
    BY <1>3 DEF Billed, Settled, KeptUntil
  <2>3. QED
    BY <1>3, <2>1, <2>2 DEF Billed
<1>4. ASSUME NEW p \in Peers, NEW k \in Models, NEW b \in Budgets, NEW t \in Ttls,
             NEW n \in Keys, NEW d \in Offsets, SendOpen(p, k, b, t, n, d)
      PROVE  Billed'
  <2> DEFINE m == [kind |-> "SESSION_OPEN", nonce |-> n, ts |-> clock + d, sender |-> p,
                   model |-> k, budget |-> b, ttl |-> t]
  <2>1. m.nonce \in Unused
    BY <1>4 DEF SendOpen
  <2>2. network' = network \cup {m} /\ UNCHANGED <<clock, seen, sessions, charges>>
    BY <1>4 DEF SendOpen
  <2> HIDE DEF m
  <2>3. QED
    BY <1>3, <2>1, <2>2
<1>5. ASSUME NEW p \in Peers, NEW s \in Sids, NEW n \in Keys, NEW d \in Offsets,
             SendShard(p, s, n, d)
      PROVE  Billed'
  <2> DEFINE m == [kind |-> "REQUEST_SHARD", nonce |-> n, ts |-> clock + d, sender |-> p,
                   sid |-> s]
  <2>1. m.nonce \in Unused
    BY <1>5 DEF SendShard
  <2>2. network' = network \cup {m} /\ UNCHANGED <<clock, seen, sessions, charges>>
    BY <1>5 DEF SendShard
  <2> HIDE DEF m
  <2>3. QED
    BY <1>3, <2>1, <2>2
<1>6. ASSUME \A n \in Keys : seen[n] > clock => seen'[n] = seen[n],
             \A s \in Sids : s <= issued /\ sessions[s] = NoSession => sessions'[s] = NoSession,
             clock' \in {clock, clock + 1},
             UNCHANGED <<network, charges>>
      PROVE  Billed'
  <2>1. \A m \in network : charges[m.nonce] > 0 =>
          m.kind = "REQUEST_SHARD" /\ m.sid \in Sids /\ m.sid <= issued
    BY <1>1 DEF Billed, Settled, Sent
  <2>2. \A m \in network : charges[m.nonce] > 0 => Settled(m)'
    BY <1>2, <1>6, <2>1
  <2>3. QED
    BY <1>6, <2>2 DEF Billed
<1>7. CASE Tick
  BY <1>6, <1>7 DEF Tick
<1>8. CASE Restart
  <2>1. UNCHANGED <<network, charges>> /\ \A s \in Sids : sessions'[s] = NoSession
    BY <1>8 DEF Restart
  <2>2. \A m \in network : charges[m.nonce] > 0 => m.kind = "REQUEST_SHARD" /\ m.sid \in Sids
    BY <1>1 DEF Billed, Settled
  <2>3. \A m \in network : charges[m.nonce] > 0 => Settled(m)'
    BY <2>1, <2>2 DEF Settled
  <2>4. QED
    BY <2>1, <2>3 DEF Billed
<1>9. ASSUME NEW m \in network, Declines(m) PROVE Billed'
  <2>1. /\ \A n \in Keys : seen[n] > clock => seen'[n] = seen[n]
        /\ \A s \in Sids : sessions[s] = NoSession => sessions'[s] = NoSession
        /\ UNCHANGED <<clock, network, charges>>
    BY <1>9, DeclineEffect, CollectedEffect
  <2>2. QED
    BY <1>6, <2>1
<1>10. ASSUME NEW m \in network, OpenSession(m) PROVE Billed'
  <2>1. /\ \A n \in Keys : seen[n] > clock => seen'[n] = seen[n]
        /\ \A s \in Sids : s # issued + 1 /\ sessions[s] = NoSession => sessions'[s] = NoSession
        /\ UNCHANGED <<clock, network, charges>>
    BY <1>10, OpenEffect, AcceptEffect
  <2>2. \A s \in Sids : s <= issued => s # issued + 1
    BY ServerAssumption DEF TypeOK, Sids
  <2>3. QED
    BY <1>6, <2>1, <2>2
<1>11. ASSUME NEW m \in network, Charge(m) PROVE Billed'
  <2>1. /\ m.kind = "REQUEST_SHARD" /\ m.sid \in Sids /\ m.nonce \in Keys /\ m.ts \in Int
        /\ Accept(m)
        /\ \A s \in Sids : s # m.sid => sessions'[s] = Collected[s]
        /\ sessions[m.sid] # NoSession
        /\ charges' = [charges EXCEPT ![m.nonce] = @ + 1]
    BY <1>1, <1>11, ChargeEffect
  <2>2. /\ InWindow(clock, m.ts)
        /\ seen'[m.nonce] = clock + NonceTtl
        /\ \A n \in Keys : seen[n] > clock => seen'[n] = seen[n]
        /\ UNCHANGED <<clock, network>>
    BY <2>1, AcceptEffect
  <2>3. /\ charges[m.nonce] \in Nat
        /\ charges'[m.nonce] = charges[m.nonce] + 1
        /\ \A n \in Keys : n # m.nonce => charges'[n] = charges[n]
    BY <2>1 DEF TypeOK
  <2>4. charges[m.nonce] > 0 => clock = m.ts + MaxSkew
    BY <1>11, ChargedAgain
  <2>5. \A o \in network : o.nonce = m.nonce => o = m
    BY DEF Sent
  <2>6. \A s \in Sids : sessions[s] = NoSession => sessions'[s] = NoSession
    BY <2>1, CollectedEffect
  <2>7. Settled(m)'
    <3>1. seen'[m.nonce] >= m.ts + MaxSkew
      BY <1>1, <2>1, <2>2, CacheAssumption, TtlCoversWindow DEF InWindow, TtlCoversWindow
    <3>2. charges'[m.nonce] > 1 => seen'[m.nonce] >= m.ts + MaxSkew + 1
      BY <1>1, <2>1, <2>2, <2>3, <2>4, CacheAssumption
    <3>3. QED
      BY <2>1, <3>1, <3>2 DEF Settled, KeptUntil
  <2>8. ASSUME NEW o \in network, charges'[o.nonce] > 0 PROVE Settled(o)'
    <3>1. CASE o = m
      BY <2>7, <3>1
    <3>2. CASE o # m
      <4>1. charges'[o.nonce] = charges[o.nonce] /\ charges[o.nonce] > 0
        BY <1>1, <2>3, <2>5, <2>8, <3>2
      <4>2. o.sid \in Sids
        BY <1>1, <4>1 DEF Billed, Settled
      <4>3. QED
        BY <1>2, <2>2, <2>6, <4>1, <4>2
    <3>3. QED
      BY <3>1, <3>2
  <2>9. \A n \in Keys : charges'[n] > 0 => \E o \in network : o.nonce = n
    BY <2>3 DEF Billed
  <2>10. QED
    BY <2>2, <2>8, <2>9 DEF Billed
<1>12. ASSUME UNCHANGED <<clock, network, seen, sessions, charges>> PROVE Billed'
  BY <1>6, <1>12
<1>13. QED
  BY <1>4, <1>5, <1>7, <1>8, <1>9, <1>10, <1>11, <1>12, StepCases
     DEF Step, ChangeRules, ChangeFile, vars

LEMMA NextEntitled == IInv /\ [Next]_vars => Entitled'
<1> SUFFICES ASSUME IInv, [Next]_vars PROVE Entitled'
  OBVIOUS
<1> USE DEF IInv
<1>1. clock \in Nat /\ \A s \in Sids : opens[s] # NoSession => opens[s] \in Sessions
  BY ServerAssumption DEF TypeOK
<1>2. ASSUME UNCHANGED <<clock, acl, revoked, opens>> PROVE Entitled'
  BY <1>2 DEF Entitled
<1>3. ASSUME NEW rules \in SUBSET Rules, acl' = rules, revoked' = RevokedSince(rules),
             UNCHANGED <<clock, opens>>
      PROVE  Entitled'
  <2>1. ASSUME NEW r \in Rules, NEW t \in Int, t <= clock, r \in acl \/ revoked[r] >= t
        PROVE  r \in acl' \/ revoked'[r] >= t
    BY <1>1, <1>3, <2>1 DEF RevokedSince
  <2>2. \A s \in Sids : opens[s] # NoSession => opens[s].opened \in Int
    BY <1>1 DEF Sessions
  <2>3. QED
    BY <1>3, <2>1, <2>2 DEF Entitled
<1>4. CASE Tick
  <2>1. \A s \in Sids : opens[s] # NoSession => opens[s].opened \in Int
    BY <1>1 DEF Sessions
  <2>2. QED
    BY <1>1, <1>4, <2>1 DEF Tick, Entitled
<1>5. ASSUME NEW m \in network, OpenSession(m) PROVE Entitled'
  <2>1. /\ issued + 1 \in Sids /\ Admitted(m) /\ InBounds(m)
        /\ opens' = [opens EXCEPT ![issued + 1] = Opening(m)]
        /\ UNCHANGED <<clock, acl, revoked>>
    BY <1>5, OpenEffect, AcceptEffect
  <2>2. /\ UsesAcl => <<m.sender, m.model>> \in acl
        /\ <<m.sender, m.model>> \in Rules
        /\ m.ttl <= MaxTtl
    <3>1. m.sender \in Peers /\ m.model \in Models
      BY <1>5, MessageType, ServerAssumption DEF OpenSession
    <3>2. QED
      BY <2>1, <3>1, MessageType, ServerAssumption DEF Admitted, InBounds, Rules
  <2>3. /\ Opening(m).peer = m.sender /\ Opening(m).model = m.model
        /\ Opening(m).opened = clock /\ Opening(m).ttl = m.ttl
    BY DEF Opening
  <2>4. \A s \in Sids : opens'[s] = IF s = issued + 1 THEN Opening(m) ELSE opens[s]
    BY <2>1 DEF TypeOK
  <2>5. QED
    BY <1>1, <2>1, <2>2, <2>3, <2>4 DEF Entitled
<1>6. ASSUME NEW m \in network, Declines(m) PROVE Entitled'
  BY <1>2, <1>6, DeclineEffect
<1>7. ASSUME NEW m \in network, Charge(m) PROVE Entitled'
  BY <1>2, <1>7, ChargeEffect, AcceptEffect
<1>8. CASE Restart
  BY <1>3, <1>8 DEF Restart, TypeOK
<1>9. ASSUME NEW rules \in SUBSET Rules, ChangeRules(rules) PROVE Entitled'
  BY <1>3, <1>9 DEF ChangeRules
<1>10. QED
  BY <1>2, <1>4, <1>5, <1>6, <1>7, <1>8, <1>9, StepCases
     DEF Step, SendOpen, SendShard, ChangeFile, vars

LEMMA NextCapacity == IInv /\ [Next]_vars => Capacity'
<1> SUFFICES ASSUME IInv, [Next]_vars PROVE Capacity'
  OBVIOUS
<1> USE DEF IInv
<1>1. sessions \in Registries /\ Size(sessions) \in Nat
  BY SizeFinite DEF TypeOK, Registries
<1>2. ASSUME sessions' \in Registries,
             \A s \in Sids : sessions'[s] # NoSession => sessions[s] # NoSession
      PROVE  Capacity'
  <2>1. Size(sessions') <= Size(sessions) /\ Size(sessions') \in Nat
    BY <1>1, <1>2, SizeSubset, SizeFinite
  <2>2. Size(sessions') <= MaxSessions
    BY <1>1, <2>1, ServerAssumption DEF Capacity
  <2>3. QED
    BY <2>2 DEF Capacity, Size
<1>3. CASE Restart
  BY <1>2, <1>3 DEF Restart, Registries
<1>4. ASSUME NEW m \in network, Declines(m) PROVE Capacity'
  BY <1>1, <1>2, <1>4, DeclineEffect, CollectedEffect
<1>5. ASSUME NEW m \in network, OpenSession(m) PROVE Capacity'
  BY <1>5, OpenEffect DEF Capacity, Size
<1>6. ASSUME NEW m \in network, Charge(m) PROVE Capacity'
  <2>1. \A s \in Sids : sessions'[s] # NoSession => sessions[s] # NoSession
    BY <1>6, ChargeEffect, CollectedEffect
  <2>2. QED
    BY <1>2, <1>6, <2>1, ChargeEffect
<1>7. ASSUME sessions' = sessions PROVE Capacity'
  BY <1>1, <1>2, <1>7
<1>8. QED
  BY <1>3, <1>4, <1>5, <1>6, <1>7, StepCases
     DEF Step, SendOpen, SendShard, ChangeRules, ChangeFile, Tick, vars

LEMMA Inductive == Spec => []IInv
<1>1. Init => IInv
  BY InitInv
<1>2. IInv /\ [Next]_vars => IInv'
  BY NextTyped, NextSent, NextAccounts, NextEntitled, NextCapacity DEF IInv
<1>3. QED
  BY <1>1, <1>2, PTL DEF Spec

-----------------------------------------------------------------------------
(***************************************************************************)
(* The theorems.                                                           *)
(***************************************************************************)

\* Every variable keeps its type, and session ids are handed out in order.
THEOREM TypeCorrect == Spec => []TypeOK
<1>1. IInv => TypeOK
  BY DEF IInv
<1>2. QED
  BY Inductive, <1>1, PTL

\* A session keeps what it was opened with, counts what was charged to it and
\* is never charged past its budget (Session.consume, SessionRegistry), over
\* evictions, failed reads and receipts, and restarts.
THEOREM BudgetKeptThm == Spec => []BudgetKept
<1>1. IInv => BudgetKept
  BY DEF IInv, Accounts
<1>2. QED
  BY Inductive, <1>1, PTL

\* A shard request uses up budget a second time at most once and only when its
\* window ends, however often it is delivered (NonceCache.accept in
\* _handle_connection), restarts of the node included: what a new cache has
\* forgotten names a session that is gone.
THEOREM ChargedAgainOnlyAtWindowEndThm ==
    ASSUME TtlCoversWindow PROVE Spec => ChargedAgainOnlyAtWindowEnd
<1> DEFINE AtEnd ==
      \A m \in network : charges'[m.nonce] > charges[m.nonce] /\ charges[m.nonce] > 0 =>
         /\ charges[m.nonce] = 1
         /\ clock = m.ts + MaxSkew
<1>1. Init => Billed
  BY DEF Init, Billed
<1>2. IInv /\ Billed /\ [Next]_vars => Billed'
  BY NextBilled, TtlCoversWindow
<1>3. IInv /\ Billed /\ [Next]_vars => AtEnd
  <2> SUFFICES ASSUME IInv, Billed, [Next]_vars, NEW m \in network,
                      charges'[m.nonce] > charges[m.nonce], charges[m.nonce] > 0
               PROVE  charges[m.nonce] = 1 /\ clock = m.ts + MaxSkew
    OBVIOUS
  <2> USE DEF IInv
  <2>1. charges \in [Keys -> Nat] /\ m.nonce \in Keys
    BY MessageType DEF TypeOK
  <2>2. charges' # charges
    BY <2>1
  <2>3. \A o \in network : Declines(o) => charges' = charges
    BY DeclineEffect
  <2>4. \A o \in network : OpenSession(o) => charges' = charges
    BY OpenEffect
  <2>5. PICK o \in network : Charge(o)
    BY <2>2, <2>3, <2>4, StepCases
       DEF Step, SendOpen, SendShard, ChangeRules, ChangeFile, Tick, Restart, vars
  <2>6. charges' = [charges EXCEPT ![o.nonce] = @ + 1] /\ o.nonce \in Keys
    BY <2>5, ChargeEffect, MessageType
  <2>7. o.nonce = m.nonce
    BY <2>1, <2>6
  <2>8. o = m
    BY <2>7 DEF Sent
  <2>9. QED
    BY <2>5, <2>8, ChargedAgain
<1>4. QED
  BY <1>1, <1>2, <1>3, Inductive, PTL DEF Spec, ChargedAgainOnlyAtWindowEnd

\* Shard data is served (_serve_shard) only to the peer that opened the session
\* and within its lifetime, and at most the longest lifetime after the rule
\* that the session was opened under went missing.
THEOREM ServiceJustifiedThm == Spec => ServiceJustified
<1> DEFINE Justified ==
      \A m \in network : m.nonce \in receipts' \ receipts =>
        LET session == opens[m.sid]
            rule == <<m.sender, session.model>> IN
        /\ session # NoSession
        /\ session.peer = m.sender
        /\ clock <= session.opened + session.ttl
        /\ UsesAcl /\ rule \notin acl => clock <= revoked[rule] + MaxTtl
<1>1. IInv /\ [Next]_vars => Justified
  <2> SUFFICES ASSUME IInv, [Next]_vars, NEW m \in network,
                      m.nonce \in receipts' \ receipts
               PROVE  LET session == opens[m.sid]
                          rule == <<m.sender, session.model>> IN
                      /\ session # NoSession
                      /\ session.peer = m.sender
                      /\ clock <= session.opened + session.ttl
                      /\ UsesAcl /\ rule \notin acl => clock <= revoked[rule] + MaxTtl
    OBVIOUS
  <2> USE DEF IInv
  <2>1. PICK o \in network : /\ Charge(o)
                             /\ receipts' = receipts \cup {o.nonce}
    <3>1. \A o \in network : Declines(o) => receipts' = receipts
      BY DeclineEffect
    <3>2. \A o \in network : OpenSession(o) => receipts' = receipts
      BY OpenEffect
    <3>3. QED
      BY <3>1, <3>2, StepCases
         DEF Step, SendOpen, SendShard, ChangeRules, ChangeFile, Tick, Restart, vars
  <2>2. o = m
    BY <2>1 DEF Sent
  <2>3. /\ m.sid \in Sids
        /\ sessions[m.sid] # NoSession
        /\ sessions[m.sid].peer = m.sender
        /\ clock <= sessions[m.sid].opened + sessions[m.sid].ttl
    BY <2>1, <2>2, ChargeEffect
  <2>4. /\ opens[m.sid] # NoSession /\ opens[m.sid] \in Sessions
        /\ sessions[m.sid] = [opens[m.sid] EXCEPT !.used = spent[m.sid]]
    BY <2>3 DEF Accounts, BudgetKept, TypeOK
  <2>5. /\ opens[m.sid].peer = m.sender
        /\ clock <= opens[m.sid].opened + opens[m.sid].ttl
    BY <2>3, <2>4 DEF Sessions
  <2>6. /\ <<m.sender, opens[m.sid].model>> \in Rules
        /\ opens[m.sid].ttl <= MaxTtl
        /\ \/ ~UsesAcl
           \/ <<m.sender, opens[m.sid].model>> \in acl
           \/ revoked[<<m.sender, opens[m.sid].model>>] >= opens[m.sid].opened
    BY <2>3, <2>4, <2>5 DEF Entitled
  <2>7. ASSUME NEW r \in Rules, revoked[r] >= opens[m.sid].opened
        PROVE  clock <= revoked[r] + MaxTtl
    <3>1. /\ clock \in Int /\ revoked[r] \in Int
          /\ opens[m.sid].opened \in Int /\ opens[m.sid].ttl \in Int
      BY <2>4, ServerAssumption DEF TypeOK, Sessions
    <3>2. QED
      BY <2>5, <2>6, <2>7, <3>1, ServerAssumption
  <2>8. QED
    BY <2>4, <2>5, <2>6, <2>7
<1>2. QED
  BY Inductive, <1>1, PTL DEF Spec, ServiceJustified

\* The registry holds at most max_sessions sessions, and a session leaves it
\* only by a restart, when it has expired (_gc), or as an oldest one of a
\* registry full of sessions that have not (SessionRegistry.open).
THEOREM SessionsEndProperlyThm == Spec => SessionsEndProperly
<1> DEFINE Proper ==
      /\ Cardinality(Live') <= MaxSessions
      /\ \A s \in Sids : sessions[s] # NoSession /\ sessions'[s] = NoSession =>
           \/ boot' # boot
           \/ clock > sessions[s].opened + sessions[s].ttl
           \/ LET unexpired == {t \in Live : clock <= sessions[t].opened + sessions[t].ttl}
              IN /\ Cardinality(unexpired) >= MaxSessions
                 /\ \A t \in unexpired : sessions[s].opened <= sessions[t].opened
<1>1. IInv /\ [Next]_vars => Proper
  <2> SUFFICES ASSUME IInv, [Next]_vars PROVE Proper
    OBVIOUS
  <2> USE DEF IInv
  <2>1. Cardinality(Live') <= MaxSessions
    BY NextCapacity DEF Capacity, Size, Live
  <2> DEFINE unexpired == {t \in Live : clock <= sessions[t].opened + sessions[t].ttl}
  <2>2. unexpired = {t \in Sids : Collected[t] # NoSession}
    BY CollectedEffect DEF Live
  <2>3. ASSUME NEW s \in Sids, sessions[s] # NoSession, sessions'[s] = NoSession
        PROVE  \/ boot' # boot
               \/ clock > sessions[s].opened + sessions[s].ttl
               \/ /\ Cardinality(unexpired) >= MaxSessions
                  /\ \A t \in unexpired : sessions[s].opened <= sessions[t].opened
    <3>1. clock \in Int /\ sessions[s].opened \in Int /\ sessions[s].ttl \in Int
      BY <2>3, ServerAssumption DEF TypeOK, Sessions
    <3>2. Collected[s] = NoSession => clock > sessions[s].opened + sessions[s].ttl
      BY <2>3, <3>1, CollectedEffect
    <3>3. CASE Restart
      BY <3>3, ServerAssumption DEF Restart, TypeOK
    <3>4. ASSUME NEW m \in network, Declines(m) PROVE Collected[s] = NoSession
      BY <2>3, <3>4, DeclineEffect
    <3>5. ASSUME NEW m \in network, OpenSession(m)
          PROVE  \/ Collected[s] = NoSession
                 \/ /\ Cardinality(unexpired) >= MaxSessions
                    /\ \A t \in unexpired : sessions[s].opened <= sessions[t].opened
      <4>1. \/ Collected[s] = NoSession
            \/ Size(Collected) >= MaxSessions /\ s \in Oldest(Collected)
        BY <2>3, <3>5, OpenEffect
      <4>2. Size(Collected) = Cardinality(unexpired)
        BY <2>2 DEF Size
      <4>3. ASSUME s \in Oldest(Collected), NEW t \in unexpired
            PROVE  sessions[s].opened <= sessions[t].opened
        <5>1. Collected[s] # NoSession /\ t \in Sids /\ Collected[t] # NoSession
          BY <2>2, <4>3 DEF Oldest
        <5>2. Collected[s].opened <= Collected[t].opened
          BY <4>3, <5>1 DEF Oldest
        <5>3. QED
          BY <5>1, <5>2, CollectedEffect
      <4>4. QED
        BY <4>1, <4>2, <4>3
    <3>6. ASSUME NEW m \in network, Charge(m) PROVE Collected[s] = NoSession
      <4>1. sessions'[m.sid] # NoSession
        <5>1. sessions[m.sid] \in Sessions /\ sessions'[m.sid] = [sessions[m.sid] EXCEPT !.used = @ + 1]
          BY <3>6, ChargeEffect
        <5>2. sessions'[m.sid] \in Sessions
          BY <5>1 DEF Sessions
        <5>3. QED
          BY <5>2, NoSessionAssumption
      <4>2. QED
        BY <2>3, <3>6, <4>1, ChargeEffect
    <3>7. sessions' # sessions
      BY <2>3
    <3> HIDE DEF unexpired
    <3>8. QED
      BY <3>2, <3>3, <3>4, <3>5, <3>6, <3>7, StepCases
         DEF Step, SendOpen, SendShard, ChangeRules, ChangeFile, Tick, vars
  <2>4. QED
    BY <2>1, <2>3
<1>2. QED
  BY Inductive, <1>1, PTL DEF Spec, SessionsEndProperly

-----------------------------------------------------------------------------
(***************************************************************************)
(* TelepathPull: induction over a set of numbers, for Total.               *)
(***************************************************************************)

Below == {pair \in Nat \X Nat : pair[1] < pair[2]}

LEMMA LeastNat ==
    ASSUME NEW T, T \subseteq Nat, T # {}
    PROVE  \E n \in T : \A m \in T : n <= m
<1>1. IsWellFoundedOn(Below, Nat)
  <2>1. Below = OpToRel(<, Nat)
    BY Zenon DEF Below, OpToRel
  <2>2. QED
    BY <2>1, NatLessThanWellFounded, Zenon
<1>2. PICK n \in T : \A m \in T : <<m, n>> \notin Below
  BY <1>1, WFMin
<1>3. ASSUME NEW m \in T PROVE n <= m
  <2>1. m \in Nat /\ n \in Nat /\ <<m, n>> \in Nat \X Nat
    OBVIOUS
  <2>2. ~(m < n)
    BY <1>2, <2>1 DEF Below
  <2>3. QED
    BY <2>1, <2>2
<1>4. QED
  BY <1>3

LEMMA NatInductionSet ==
    ASSUME NEW S, 0 \in S, \A n \in Nat : n \in S => n + 1 \in S
    PROVE  \A n \in Nat : n \in S
<1> DEFINE T == Nat \ S
<1> SUFFICES ASSUME T # {} PROVE FALSE
  OBVIOUS
<1>1. PICK n \in T : \A m \in T : n <= m
  BY LeastNat
<1>2. n # 0 /\ n \in Nat /\ n - 1 \in Nat /\ ~(n <= n - 1) /\ (n - 1) + 1 = n
  OBVIOUS
<1>3. n - 1 \in S
  BY <1>1, <1>2
<1>4. QED
  BY <1>2, <1>3

-----------------------------------------------------------------------------
(***************************************************************************)
(* TelepathPull: the inductive invariant.                                  *)
(***************************************************************************)

CachesGood ==
    /\ cache \in [Nodes -> Seq(Chunks)]
    /\ bytesUsed \in [Nodes -> Nat]
    /\ CacheKeepsBounds

\* What a node has in its cache or has fetched is of a version that the peer
\* served since the node started.
Since(n, v) == born[n] <= v /\ v <= version

RecentCaches ==
    \A n \in Nodes :
        /\ Since(n, version)
        /\ \A j \in 1..Len(cache[n]) : Since(n, cache[n][j][2])

RecentPulls ==
    \A p \in Busy :
        /\ Since(node[p], expected[p])
        /\ \A j \in 1..Len(fetched[p]) :
             fetched[p][j][1] = j /\ Since(node[p], fetched[p][j][2])
        /\ pc[p] = "answered" => reply[p] # None /\ Since(node[p], reply[p])
        /\ pc[p] \in {"asked", "answered"} => Len(fetched[p]) < NShards

\* A pull that overlaps no other is alone, and model.part is what it wrote.
Alone ==
    \A p \in Busy \ shared :
        /\ Busy = {p}
        /\ pc[p] # "cleanup" =>
             /\ part = handle[p]
             /\ \A j \in 1..Len(fetched[p]) : disk[part][j] = fetched[p][j]

\* model.bin is nobody's model.part, and nobody writes to it any more.
Placed ==
    /\ part # None => part # target
    /\ ~tainted => \A p \in Busy : pc[p] # "cleanup" => handle[p] # target
    /\ TargetSound

PullInv == PullTypeOK /\ CachesGood /\ RecentCaches /\ RecentPulls /\ Alone /\ Placed

-----------------------------------------------------------------------------
(***************************************************************************)
(* The bytes in a sequence of chunks.                                      *)
(***************************************************************************)

Sums(s) ==
    CHOOSE f : f = [k \in 0..Len(s) |-> IF k = 0 THEN 0 ELSE f[k - 1] + SizeOf[s[k]]]

LEMMA SumsExist ==
    ASSUME NEW s \in Seq(Chunks)
    PROVE  /\ Total(s) = Sums(s)[Len(s)]
           /\ Sums(s)[0] = 0
           /\ \A k \in 1..Len(s) : Sums(s)[k] = Sums(s)[k - 1] + SizeOf[s[k]]
<1> DEFINE Loop(f, n) == [k \in 0..n |-> IF k = 0 THEN 0 ELSE f[k - 1] + SizeOf[s[k]]]
           S == {n \in Nat : \E f : f = Loop(f, n)}
<1>1. 0 \in S
  <2> DEFINE f == [k \in 0..0 |-> 0]
  <2>1. f = Loop(f, 0)
    OBVIOUS
  <2>2. QED
    BY <2>1
<1>2. ASSUME NEW n \in Nat, n \in S PROVE n + 1 \in S
  <2>1. PICK f : f = Loop(f, n)
    BY <1>2
  <2> DEFINE g == [k \in 0..(n + 1) |-> IF k <= n THEN f[k] ELSE f[n] + SizeOf[s[n + 1]]]
             h == Loop(g, n + 1)
  <2>2. \A k \in 0..n : f[k] = IF k = 0 THEN 0 ELSE f[k - 1] + SizeOf[s[k]]
    <3>1. \A k \in 0..n : Loop(f, n)[k] = IF k = 0 THEN 0 ELSE f[k - 1] + SizeOf[s[k]]
      OBVIOUS
    <3> HIDE DEF Loop
    <3>2. QED
      BY <3>1, <2>1
  <2>3. \A k \in 0..(n + 1) : h[k] = IF k = 0 THEN 0 ELSE g[k - 1] + SizeOf[s[k]]
    OBVIOUS
  <2>4. \A k \in 0..(n + 1) : g[k] = IF k <= n THEN f[k] ELSE f[n] + SizeOf[s[n + 1]]
    OBVIOUS
  <2>5. g = [k \in 0..(n + 1) |-> g[k]] /\ h = [k \in 0..(n + 1) |-> h[k]]
    OBVIOUS
  <2> HIDE DEF g, h
  <2>6. ASSUME NEW k \in 0..(n + 1) PROVE g[k] = h[k]
    <3>1. CASE k = 0
      <4>1. k <= n /\ k \in 0..n
        BY <3>1
      <4>2. g[k] = f[k] /\ h[k] = 0
        BY <3>1, <4>1, <2>3, <2>4
      <4>3. f[k] = 0
        BY <3>1, <4>1, <2>2
      <4>4. QED
        BY <4>2, <4>3
    <3>2. CASE k # 0
      <4>1. k - 1 \in 0..n /\ g[k - 1] = f[k - 1]
        BY <3>2, <2>4
      <4>2. h[k] = f[k - 1] + SizeOf[s[k]]
        BY <4>1, <3>2, <2>3
      <4>3. k <= n => f[k] = f[k - 1] + SizeOf[s[k]]
        BY <3>2, <2>2
      <4>4. ~(k <= n) => k - 1 = n /\ k = n + 1
        OBVIOUS
      <4>5. QED
        BY <4>2, <4>3, <4>4, <2>4
    <3>3. QED
      BY <3>1, <3>2
  <2>7. g = h
    BY <2>5, <2>6
  <2>8. QED
    <3>1. g = Loop(g, n + 1)
      BY <2>7 DEF h
    <3>2. n + 1 \in Nat
      OBVIOUS
    <3> HIDE DEF Loop
    <3>3. QED
      BY <3>1, <3>2, Zenon
<1>3. Len(s) \in S
  <2> HIDE DEF S
  <2>1. \A n \in Nat : n \in S
    BY <1>1, <1>2, NatInductionSet
  <2>2. QED
    BY <2>1
<1>4. Sums(s) = Loop(Sums(s), Len(s))
  <2> DEFINE sums == CHOOSE f : f = Loop(f, Len(s))
  <2>1. \E f : f = Loop(f, Len(s))
    BY <1>3
  <2>2. Sums(s) = sums
    BY DEF Sums
  <2> HIDE DEF Loop
  <2>3. sums = Loop(sums, Len(s))
    BY <2>1
  <2> HIDE DEF sums
  <2>4. QED
    BY <2>2, <2>3
<1>5. \A k \in 0..Len(s) :
        Loop(Sums(s), Len(s))[k] = IF k = 0 THEN 0 ELSE Sums(s)[k - 1] + SizeOf[s[k]]
  OBVIOUS
<1>6. \A k \in 0..Len(s) : Sums(s)[k] = IF k = 0 THEN 0 ELSE Sums(s)[k - 1] + SizeOf[s[k]]
  <2> HIDE DEF Loop
  <2>1. QED
    BY <1>4, <1>5
<1>7. Total(s) = Sums(s)[Len(s)]
  BY DEF Total, Sums
<1>8. QED
  BY <1>6, <1>7

LEMMA SumsNat ==
    ASSUME NEW s \in Seq(Chunks)
    PROVE  \A k \in 0..Len(s) : Sums(s)[k] \in Nat
<1> DEFINE S == {k \in Nat : k <= Len(s) => Sums(s)[k] \in Nat}
<1>1. 0 \in S
  BY SumsExist
<1>2. ASSUME NEW k \in Nat, k \in S PROVE k + 1 \in S
  <2> SUFFICES ASSUME k + 1 <= Len(s) PROVE Sums(s)[k + 1] \in Nat
    OBVIOUS
  <2>1. k + 1 \in 1..Len(s) /\ (k + 1) - 1 = k /\ k <= Len(s)
    OBVIOUS
  <2>2. Sums(s)[k + 1] = Sums(s)[k] + SizeOf[s[k + 1]]
    BY <2>1, SumsExist
  <2>3. s[k + 1] \in Chunks
    BY <2>1
  <2>4. SizeOf[s[k + 1]] \in Nat
    BY <2>3, PullAssumption
  <2>5. Sums(s)[k] \in Nat
    BY <1>2, <2>1
  <2>6. QED
    BY <2>2, <2>4, <2>5
<1>3. QED
  <2> HIDE DEF S
  <2>1. \A k \in Nat : k \in S
    BY <1>1, <1>2, NatInductionSet
  <2>2. QED
    BY <2>1 DEF S

LEMMA TotalNat ==
    ASSUME NEW s \in Seq(Chunks)
    PROVE  Total(s) \in Nat
<1>1. Len(s) \in 0..Len(s)
  OBVIOUS
<1>2. QED
  BY <1>1, SumsExist, SumsNat

LEMMA TotalEmpty == Total(<<>>) = 0
<1>1. <<>> \in Seq(Chunks) /\ Len(<<>>) = 0
  OBVIOUS
<1>2. QED
  BY <1>1, SumsExist

\* Sums of the first entries depend on nothing else.
LEMMA SumsPrefix ==
    ASSUME NEW s \in Seq(Chunks), NEW t \in Seq(Chunks), NEW n \in Nat,
           n <= Len(s), n <= Len(t), \A k \in 1..n : s[k] = t[k]
    PROVE  Sums(s)[n] = Sums(t)[n]
<1> DEFINE S == {k \in Nat : k <= n => Sums(s)[k] = Sums(t)[k]}
<1>1. 0 \in S
  BY SumsExist
<1>2. ASSUME NEW k \in Nat, k \in S PROVE k + 1 \in S
  <2> SUFFICES ASSUME k + 1 <= n PROVE Sums(s)[k + 1] = Sums(t)[k + 1]
    OBVIOUS
  <2>1. k + 1 \in 1..Len(s) /\ k + 1 \in 1..Len(t) /\ k + 1 \in 1..n /\ (k + 1) - 1 = k /\ k <= n
    OBVIOUS
  <2>2. Sums(s)[k + 1] = Sums(s)[k] + SizeOf[s[k + 1]]
    BY <2>1, SumsExist
  <2>3. Sums(t)[k + 1] = Sums(t)[k] + SizeOf[t[k + 1]]
    BY <2>1, SumsExist
  <2>4. QED
    BY <1>2, <2>1, <2>2, <2>3
<1>3. n \in S
  <2> HIDE DEF S
  <2>1. QED
    BY <1>1, <1>2, NatInductionSet
<1>4. QED
  BY <1>3

LEMMA TotalAppend ==
    ASSUME NEW s \in Seq(Chunks), NEW c \in Chunks
    PROVE  Total(Append(s, c)) = Total(s) + SizeOf[c]
<1>1. PICK t : t = Append(s, c)
  OBVIOUS
<1>2. /\ t \in Seq(Chunks) /\ Len(t) = Len(s) + 1 /\ Len(t) \in 1..Len(t)
      /\ Len(t) - 1 = Len(s) /\ t[Len(t)] = c
      /\ \A k \in 1..Len(s) : s[k] = t[k]
  BY <1>1
<1>3. Sums(t)[Len(t)] = Sums(t)[Len(s)] + SizeOf[c]
  BY <1>2, SumsExist
<1>4. Sums(s)[Len(s)] = Sums(t)[Len(s)]
  BY <1>2, SumsPrefix
<1>5. QED
  BY <1>1, <1>2, <1>3, <1>4, SumsExist

LEMMA TotalConcat ==
    ASSUME NEW s \in Seq(Chunks), NEW t \in Seq(Chunks)
    PROVE  Total(s \o t) = Total(s) + Total(t)
<1>1. PICK u : u = s \o t
  OBVIOUS
<1>2. /\ u \in Seq(Chunks) /\ Len(u) = Len(s) + Len(t)
      /\ \A k \in 1..Len(s) : s[k] = u[k]
      /\ \A k \in 1..Len(t) : u[Len(s) + k] = t[k]
  BY <1>1
<1> DEFINE S == {k \in Nat : k <= Len(t) => Sums(u)[Len(s) + k] = Total(s) + Sums(t)[k]}
<1>3. 0 \in S
  <2>1. Sums(s)[Len(s)] = Sums(u)[Len(s)]
    <3>1. PICK n \in Nat : n = Len(s)
      OBVIOUS
    <3>2. u \in Seq(Chunks) /\ n <= Len(s) /\ n <= Len(u) /\ \A k \in 1..n : s[k] = u[k]
      BY <1>2, <3>1
    <3>3. Sums(s)[n] = Sums(u)[n]
      BY <3>2, SumsPrefix
    <3>4. QED
      BY <3>1, <3>3
  <2>2. Sums(t)[0] = 0 /\ Total(s) = Sums(s)[Len(s)] /\ Total(s) \in Nat
    BY SumsExist, TotalNat
  <2>3. Len(s) + 0 = Len(s)
    OBVIOUS
  <2>4. QED
    BY <2>1, <2>2, <2>3
<1>4. ASSUME NEW k \in Nat, k \in S PROVE k + 1 \in S
  <2> SUFFICES ASSUME k + 1 <= Len(t)
               PROVE  Sums(u)[Len(s) + (k + 1)] = Total(s) + Sums(t)[k + 1]
    OBVIOUS
  <2>1. PICK m : m = Len(s) + (k + 1)
    OBVIOUS
  <2>2. /\ m \in 1..Len(u) /\ m - 1 = Len(s) + k
        /\ k + 1 \in 1..Len(t) /\ (k + 1) - 1 = k /\ k \in 0..Len(t)
    BY <1>2, <2>1
  <2>3. Sums(u)[m] = Sums(u)[m - 1] + SizeOf[u[m]]
    BY <1>2, <2>2, SumsExist
  <2>4. u[m] = t[k + 1] /\ t[k + 1] \in Chunks
    BY <1>2, <2>1, <2>2
  <2>5. SizeOf[t[k + 1]] \in Nat
    BY <2>4, PullAssumption
  <2>6. Sums(t)[k + 1] = Sums(t)[k] + SizeOf[t[k + 1]]
    BY <2>2, SumsExist
  <2>7. Sums(u)[m - 1] = Total(s) + Sums(t)[k]
    BY <1>4, <2>2
  <2>8. Total(s) \in Nat /\ Sums(t)[k] \in Nat
    BY <2>2, TotalNat, SumsNat
  <2>9. QED
    BY <2>1, <2>3, <2>4, <2>5, <2>6, <2>7, <2>8
<1>5. Len(t) \in S
  <2> HIDE DEF S
  <2>1. QED
    BY <1>3, <1>4, NatInductionSet
<1>6. Sums(u)[Len(s) + Len(t)] = Total(s) + Sums(t)[Len(t)]
  BY <1>5
<1>7. QED
  BY <1>1, <1>2, <1>6, SumsExist

-----------------------------------------------------------------------------
(***************************************************************************)
(* What the operators of the shard cache do.                               *)
(***************************************************************************)

Distinct(s) == \A j, k \in 1..Len(s) : s[j][1] = s[k][1] => j = k

LEMMA SameSeq ==
    ASSUME NEW s \in Seq(Chunks), NEW t \in Seq(Chunks), Len(s) = Len(t),
           \A k \in 1..Len(s) : s[k] = t[k]
    PROVE  s = t
<1>1. s \in [1..Len(s) -> Chunks] /\ t \in [1..Len(s) -> Chunks]
  OBVIOUS
<1>2. QED
  BY <1>1

LEMMA ConcatIs ==
    ASSUME NEW s \in Seq(Chunks), NEW t \in Seq(Chunks)
    PROVE  /\ s \o t \in Seq(Chunks)
           /\ Len(s \o t) = Len(s) + Len(t)
           /\ \A k \in 1..Len(s) : (s \o t)[k] = s[k]
           /\ \A k \in (Len(s) + 1)..(Len(s) + Len(t)) : (s \o t)[k] = t[k - Len(s)]
  OBVIOUS

\* An entry in the middle of the cache.
LEMMA Removed ==
    ASSUME NEW s \in Seq(Chunks), NEW j \in 1..Len(s)
    PROVE  /\ RemoveAt(s, j) \in Seq(Chunks)
           /\ Len(RemoveAt(s, j)) = Len(s) - 1
           /\ \A k \in 1..(Len(s) - 1) : RemoveAt(s, j)[k] = IF k < j THEN s[k] ELSE s[k + 1]
           /\ Total(RemoveAt(s, j)) + SizeOf[s[j]] = Total(s)
<1>1. PICK a, b : a = SubSeq(s, 1, j - 1) /\ b = SubSeq(s, j + 1, Len(s))
  OBVIOUS
<1>2. /\ a \in Seq(Chunks) /\ Len(a) = j - 1 /\ \A k \in 1..(j - 1) : a[k] = s[k]
      /\ b \in Seq(Chunks) /\ Len(b) = Len(s) - j
      /\ \A k \in 1..(Len(s) - j) : b[k] = s[j + k]
  <2>1. a \in Seq(Chunks) /\ Len(a) = j - 1
    BY <1>1
  <2>2. \A k \in 1..(j - 1) : a[k] = s[k]
    BY <1>1
  <2>3. b \in Seq(Chunks) /\ Len(b) = Len(s) - j
    BY <1>1
  <2>4. \A k \in 1..(Len(s) - j) : b[k] = s[j + k]
    BY <1>1
  <2>5. QED
    BY <2>1, <2>2, <2>3, <2>4
<1>3. RemoveAt(s, j) = a \o b
  BY <1>1 DEF RemoveAt
<1>4. s[j] \in Chunks /\ SizeOf[s[j]] \in Nat
  BY PullAssumption
<1>5. PICK c : c = Append(a, s[j])
  OBVIOUS
<1>6. /\ c \in Seq(Chunks) /\ Len(c) = j /\ c[j] = s[j]
      /\ \A k \in 1..(j - 1) : c[k] = s[k]
  BY <1>2, <1>4, <1>5
<1>7. s = c \o b
  <2>1. PICK u : u = c \o b
    OBVIOUS
  <2>2. /\ u \in Seq(Chunks) /\ Len(u) = Len(s)
        /\ \A k \in 1..j : u[k] = c[k]
        /\ \A k \in (j + 1)..Len(s) : u[k] = b[k - j]
    <3>1. Len(c) + Len(b) = Len(s)
      <4>1. j \in Nat /\ Len(s) \in Nat /\ Len(c) = j /\ Len(b) = Len(s) - j
        BY <1>2, <1>6
      <4>2. QED
        BY <4>1
    <3>2. /\ u \in Seq(Chunks) /\ Len(u) = Len(c) + Len(b)
          /\ \A k \in 1..Len(c) : u[k] = c[k]
          /\ \A k \in (Len(c) + 1)..(Len(c) + Len(b)) : u[k] = b[k - Len(c)]
      <4>1. b \in Seq(Chunks) /\ c \in Seq(Chunks)
        BY <1>2, <1>6
      <4>2. QED
        BY <2>1, <4>1, ConcatIs
    <3>3. QED
      BY <1>6, <3>1, <3>2
  <2>3. ASSUME NEW k \in 1..Len(s) PROVE s[k] = u[k]
    <3>1. CASE k \in 1..j
      <4>1. k \in 1..(j - 1) \/ k = j
        BY <3>1
      <4>2. QED
        BY <1>6, <2>2, <3>1, <4>1
    <3>2. CASE k \notin 1..j
      <4>1. k - j \in 1..(Len(s) - j) /\ j + (k - j) = k /\ k \in (j + 1)..Len(s)
        BY <3>2
      <4>2. QED
        BY <1>2, <2>2, <4>1
    <3>3. QED
      BY <3>1, <3>2
  <2>4. s = u
    BY <2>2, <2>3, SameSeq
  <2>5. QED
    BY <2>1, <2>4
<1>8. Total(s) = Total(c) + Total(b)
  BY <1>2, <1>6, <1>7, TotalConcat
<1>9. Total(c) = Total(a) + SizeOf[s[j]]
  BY <1>2, <1>4, <1>5, TotalAppend
<1>10. Total(a \o b) = Total(a) + Total(b)
  BY <1>2, TotalConcat
<1>11. Total(a) \in Nat /\ Total(b) \in Nat
  BY <1>2, TotalNat
<1>12. Total(RemoveAt(s, j)) + SizeOf[s[j]] = Total(s)
  BY <1>3, <1>4, <1>8, <1>9, <1>10, <1>11
<1>13. RemoveAt(s, j) \in Seq(Chunks) /\ Len(RemoveAt(s, j)) = Len(s) - 1
  BY <1>2, <1>3
<1>14. ASSUME NEW k \in 1..(Len(s) - 1)
       PROVE  RemoveAt(s, j)[k] = IF k < j THEN s[k] ELSE s[k + 1]
  <2>1. CASE k < j
    <3>1. (a \o b)[k] = a[k] /\ a[k] = s[k]
      BY <1>2, <2>1
    <3>2. QED
      BY <1>3, <2>1, <3>1
  <2>2. CASE ~(k < j)
    <3>1. k - (j - 1) \in 1..(Len(s) - j) /\ j + (k - (j - 1)) = k + 1
      BY <2>2
    <3>2. (a \o b)[k] = b[k - (j - 1)]
      BY <1>2, <2>2
    <3>3. QED
      BY <1>2, <1>3, <2>2, <3>1, <3>2
  <2>3. QED
    BY <2>1, <2>2
<1>15. QED
  BY <1>12, <1>13, <1>14

\* What is left of the entries without one key.
LEMMA WithoutIs ==
    ASSUME NEW s \in Seq(Chunks), NEW i, Distinct(s)
    PROVE  LET w == Without(s, i) IN
           /\ w \in Seq(Chunks)
           /\ Len(w) <= Len(s)
           /\ \A k \in 1..Len(w) : w[k][1] # i /\ \E j \in 1..Len(s) : w[k] = s[j]
           /\ Distinct(w)
           /\ \A j \in 1..Len(s) :
                s[j][1] = i => Len(w) = Len(s) - 1 /\ Total(w) + SizeOf[s[j]] = Total(s)
<1>1. CASE \E j \in 1..Len(s) : s[j][1] = i
  <2>1. PICK j \in 1..Len(s) : s[j][1] = i /\ Without(s, i) = RemoveAt(s, j)
    <3> DEFINE j == CHOOSE k \in 1..Len(s) : s[k][1] = i
    <3>1. j \in 1..Len(s) /\ s[j][1] = i
      BY <1>1
    <3>2. Without(s, i) = RemoveAt(s, j)
      BY <1>1 DEF Without
    <3> HIDE DEF j
    <3>3. QED
      BY <3>1, <3>2
  <2>2. \A k \in 1..Len(s) : s[k][1] = i => k = j
    BY <2>1 DEF Distinct
  <2>3. PICK w : w = RemoveAt(s, j)
    OBVIOUS
  <2>4. /\ w \in Seq(Chunks) /\ Len(w) = Len(s) - 1
        /\ \A k \in 1..Len(w) : w[k] = IF k < j THEN s[k] ELSE s[k + 1]
        /\ Total(w) + SizeOf[s[j]] = Total(s)
    BY <2>3, Removed
  <2> DEFINE at(k) == IF k < j THEN k ELSE k + 1
  <2>5. \A k \in 1..Len(w) : at(k) \in 1..Len(s) /\ at(k) # j /\ w[k] = s[at(k)]
    BY <2>4
  <2>6. \A k, l \in 1..Len(w) : at(k) = at(l) => k = l
    BY <2>4
  <2> HIDE DEF at
  <2>7. \A k \in 1..Len(w) : w[k][1] # i /\ \E l \in 1..Len(s) : w[k] = s[l]
    BY <2>2, <2>5
  <2>8. Distinct(w)
    BY <2>5, <2>6 DEF Distinct
  <2>9. Len(w) <= Len(s)
    BY <2>4
  <2>10. QED
    BY <2>1, <2>2, <2>3, <2>4, <2>7, <2>8, <2>9
<1>2. CASE ~\E j \in 1..Len(s) : s[j][1] = i
  <2>1. Without(s, i) = s
    BY <1>2 DEF Without
  <2>2. QED
    BY <1>2, <2>1
<1>3. QED
  BY <1>1, <1>2

\* A chunk in the place of the entry of the same key.
LEMMA Replaced ==
    ASSUME NEW s \in Seq(Chunks), Distinct(s), NEW c \in Chunks
    PROVE  LET t == Append(Without(s, c[1]), c) IN
           /\ t \in Seq(Chunks)
           /\ Len(t) <= Len(s) + 1
           /\ \A k \in 1..Len(t) : t[k] = c \/ \E j \in 1..Len(s) : t[k] = s[j]
           /\ Distinct(t)
           /\ Total(t) = Total(Without(s, c[1])) + SizeOf[c]
<1>1. PICK w : w = Without(s, c[1])
  OBVIOUS
<1>2. /\ w \in Seq(Chunks) /\ Len(w) <= Len(s) /\ Distinct(w)
      /\ \A k \in 1..Len(w) : w[k][1] # c[1] /\ \E j \in 1..Len(s) : w[k] = s[j]
  BY <1>1, WithoutIs
<1>3. PICK t : t = Append(w, c)
  OBVIOUS
<1>4. /\ t \in Seq(Chunks) /\ Len(t) = Len(w) + 1 /\ t[Len(t)] = c
      /\ \A k \in 1..Len(w) : t[k] = w[k]
  BY <1>2, <1>3
<1>5. Distinct(t)
  <2> SUFFICES ASSUME NEW j \in 1..Len(t), NEW k \in 1..Len(t), t[j][1] = t[k][1]
               PROVE  j = k
    BY DEF Distinct
  <2>1. CASE j \in 1..Len(w) /\ k \in 1..Len(w)
    BY <1>2, <1>4, <2>1 DEF Distinct
  <2>2. CASE j \notin 1..Len(w)
    <3>1. j = Len(t) /\ t[j] = c
      BY <1>2, <1>4, <2>2
    <3>2. k \notin 1..Len(w)
      BY <1>2, <1>4, <3>1
    <3>3. QED
      BY <1>2, <1>4, <3>1, <3>2
  <2>3. CASE k \notin 1..Len(w)
    <3>1. k = Len(t) /\ t[k] = c
      BY <1>2, <1>4, <2>3
    <3>2. j \notin 1..Len(w)
      BY <1>2, <1>4, <3>1
    <3>3. QED
      BY <1>2, <1>4, <3>1, <3>2
  <2>4. QED
    BY <2>1, <2>2, <2>3
<1>6. ASSUME NEW k \in 1..Len(t) PROVE t[k] = c \/ \E j \in 1..Len(s) : t[k] = s[j]
  <2>1. k \in 1..Len(w) \/ k = Len(t)
    BY <1>2, <1>4
  <2>2. QED
    BY <1>2, <1>4, <2>1
<1>7. Total(t) = Total(w) + SizeOf[c]
  BY <1>2, <1>3, TotalAppend
<1>8. Len(t) <= Len(s) + 1
  BY <1>2, <1>4
<1>9. QED
  BY <1>1, <1>3, <1>4, <1>5, <1>6, <1>7, <1>8

\* The entries that put keeps.
LEMMA Kept ==
    ASSUME NEW s \in Seq(Chunks), Distinct(s)
    PROVE  LET k == Evictions(s, Total(s))
               t == SubSeq(s, k + 1, Len(s))
           IN /\ t \in Seq(Chunks)
              /\ Len(t) <= MaxCached
              /\ Total(s) - Total(SubSeq(s, 1, k)) = Total(t)
              /\ Total(t) <= MaxBytes
              /\ \A l \in 1..Len(t) : \E j \in 1..Len(s) : t[l] = s[j]
              /\ Distinct(t)
<1> DEFINE fits(j) == /\ Len(s) - j <= MaxCached
                      /\ Total(s) - Total(SubSeq(s, 1, j)) <= MaxBytes
           T == {j \in 0..Len(s) : fits(j)}
<1>1. Total(s) \in Nat /\ Len(s) \in Nat /\ MaxCached \in Nat /\ MaxBytes \in Nat
  BY TotalNat, PullAssumption
<1>2. Len(s) \in T
  <2>1. SubSeq(s, 1, Len(s)) = s
    OBVIOUS
  <2>2. Len(s) - Len(s) <= MaxCached /\ Total(s) - Total(s) <= MaxBytes
    BY <1>1
  <2>3. fits(Len(s))
    BY <2>1, <2>2, Zenon
  <2>4. Len(s) \in 0..Len(s)
    BY <1>1
  <2> HIDE DEF fits
  <2>5. QED
    BY <2>3, <2>4
<1>3. PICK first \in T : \A j \in T : first <= j
  <2>1. T \subseteq Nat
    BY <1>1
  <2> HIDE DEF T
  <2>2. QED
    BY <1>2, <2>1, LeastNat
<1>4. \E k \in 0..Len(s) : fits(k) /\ \A j \in 0..(k - 1) : ~fits(j)
  <2>1. first \in 0..Len(s) /\ fits(first)
    BY <1>3
  <2>2. ASSUME NEW j \in 0..(first - 1) PROVE ~fits(j)
    <3>1. j \in 0..Len(s) /\ ~(first <= j)
      BY <1>1, <2>1
    <3> HIDE DEF fits
    <3>2. QED
      BY <1>3, <3>1
  <2> HIDE DEF fits, T
  <2>3. QED
    BY <2>1, <2>2
<1>5. PICK k \in 0..Len(s) : fits(k) /\ k = Evictions(s, Total(s))
  <2> DEFINE k == CHOOSE k \in 0..Len(s) : fits(k) /\ \A j \in 0..(k - 1) : ~fits(j)
  <2>1. k = Evictions(s, Total(s))
    BY DEF Evictions
  <2> HIDE DEF fits
  <2>2. k \in 0..Len(s) /\ fits(k)
    BY <1>4
  <2> HIDE DEF k
  <2>3. QED
    BY <2>1, <2>2
<1>6. Len(s) - k <= MaxCached /\ Total(s) - Total(SubSeq(s, 1, k)) <= MaxBytes
  BY <1>5
<1> HIDE DEF fits, T
<1>7. PICK a, t : a = SubSeq(s, 1, k) /\ t = SubSeq(s, k + 1, Len(s))
  OBVIOUS
<1>8. /\ a \in Seq(Chunks) /\ Len(a) = k /\ \A j \in 1..k : a[j] = s[j]
      /\ t \in Seq(Chunks) /\ Len(t) = Len(s) - k
      /\ \A j \in 1..(Len(s) - k) : t[j] = s[k + j]
  BY <1>7
<1>9. s = a \o t
  <2>1. PICK u : u = a \o t
    OBVIOUS
  <2>2. /\ u \in Seq(Chunks) /\ Len(u) = Len(s)
        /\ \A j \in 1..k : u[j] = a[j]
        /\ \A j \in (k + 1)..Len(s) : u[j] = t[j - k]
    <3>1. Len(a) + Len(t) = Len(s)
      BY <1>1, <1>8
    <3>2. /\ u \in Seq(Chunks) /\ Len(u) = Len(a) + Len(t)
          /\ \A j \in 1..Len(a) : u[j] = a[j]
          /\ \A j \in (Len(a) + 1)..(Len(a) + Len(t)) : u[j] = t[j - Len(a)]
      BY <1>8, <2>1, ConcatIs
    <3>3. QED
      BY <1>8, <3>1, <3>2
  <2>3. ASSUME NEW j \in 1..Len(s) PROVE s[j] = u[j]
    <3>1. CASE j \in 1..k
      BY <1>8, <2>2, <3>1
    <3>2. CASE j \notin 1..k
      <4>1. j - k \in 1..(Len(s) - k) /\ k + (j - k) = j /\ j \in (k + 1)..Len(s)
        BY <1>1, <3>2
      <4>2. QED
        BY <1>8, <2>2, <4>1
    <3>3. QED
      BY <3>1, <3>2
  <2>4. s = u
    BY <2>2, <2>3, SameSeq
  <2>5. QED
    BY <2>1, <2>4
<1>10. Total(s) = Total(a) + Total(t) /\ Total(a) \in Nat /\ Total(t) \in Nat
  BY <1>8, <1>9, TotalConcat, TotalNat
<1>11. Total(s) - Total(a) = Total(t) /\ Total(t) <= MaxBytes /\ Len(t) <= MaxCached
  BY <1>1, <1>6, <1>7, <1>8, <1>10
<1>12. \A l \in 1..Len(t) : k + l \in 1..Len(s) /\ t[l] = s[k + l]
  BY <1>8
<1>13. Distinct(t)
  <2> SUFFICES ASSUME NEW j \in 1..Len(t), NEW l \in 1..Len(t), t[j][1] = t[l][1]
               PROVE  j = l
    BY DEF Distinct
  <2>1. /\ k + j \in 1..Len(s) /\ t[j] = s[k + j]
        /\ k + l \in 1..Len(s) /\ t[l] = s[k + l]
    BY <1>12
  <2>2. k + j = k + l
    BY <2>1 DEF Distinct
  <2>3. j \in Nat /\ l \in Nat /\ k \in Nat
    BY <1>1, <1>8
  <2>4. QED
    BY <2>2, <2>3
<1>14. QED
  BY <1>5, <1>7, <1>8, <1>11, <1>12, <1>13

\* get leaves the bounds and the counter as they are.
LEMMA TouchKeeps ==
    ASSUME CachesGood, NEW n \in Nodes, NEW i \in 1..Len(cache[n]), Touch(n, cache[n][i])
    PROVE  /\ CachesGood'
           /\ \A m \in Nodes : \A k \in 1..Len(cache'[m]) :
                \E l \in 1..Len(cache[m]) : cache'[m][k] = cache[m][l]
<1>1. PICK s, c : s = cache[n] /\ c = cache[n][i]
  OBVIOUS
<1>2. /\ s \in Seq(Chunks) /\ Distinct(s) /\ i \in 1..Len(s) /\ c = s[i] /\ c \in Chunks
      /\ Len(s) <= MaxCached /\ bytesUsed[n] = Total(s) /\ bytesUsed[n] <= MaxBytes
  <2>1. s \in Seq(Chunks)
    BY <1>1 DEF CachesGood
  <2>2. i \in 1..Len(s) /\ c = s[i]
    BY <1>1
  <2>3. c \in Chunks
    BY <2>1, <2>2
  <2>4. Distinct(s)
    BY <1>1 DEF CachesGood, CacheKeepsBounds, Distinct
  <2>5. Len(s) <= MaxCached /\ bytesUsed[n] = Total(s) /\ bytesUsed[n] <= MaxBytes
    BY <1>1 DEF CachesGood, CacheKeepsBounds
  <2>6. QED
    BY <2>1, <2>2, <2>3, <2>4, <2>5
<1>3. PICK w, t : w = Without(s, c[1]) /\ t = Append(w, c)
  OBVIOUS
<1>4. w \in Seq(Chunks) /\ Len(w) = Len(s) - 1 /\ Total(w) + SizeOf[c] = Total(s)
  BY <1>2, <1>3, WithoutIs
<1>5. /\ t \in Seq(Chunks) /\ Distinct(t) /\ Total(t) = Total(w) + SizeOf[c]
      /\ \A k \in 1..Len(t) : t[k] = c \/ \E j \in 1..Len(s) : t[k] = s[j]
  BY <1>2, <1>3, Replaced
<1>6. Len(t) = Len(s)
  BY <1>2, <1>3, <1>4
<1>7. cache' = [cache EXCEPT ![n] = t] /\ bytesUsed' = bytesUsed
  BY <1>1, <1>3 DEF Touch
<1>8. /\ cache' \in [Nodes -> Seq(Chunks)] /\ cache'[n] = t
      /\ \A m \in Nodes \ {n} : cache'[m] = cache[m]
  BY <1>5, <1>7 DEF CachesGood
<1>9. CacheKeepsBounds'
  <2> SUFFICES ASSUME NEW m \in Nodes
               PROVE  /\ Len(cache'[m]) <= MaxCached
                      /\ bytesUsed'[m] = Total(cache'[m])
                      /\ bytesUsed'[m] <= MaxBytes
                      /\ Distinct(cache'[m])
    BY DEF CacheKeepsBounds, Distinct
  <2>1. CASE m = n
    BY <1>2, <1>4, <1>5, <1>6, <1>7, <1>8, <2>1
  <2>2. CASE m # n
    BY <1>7, <1>8, <2>2 DEF CachesGood, CacheKeepsBounds, Distinct
  <2>3. QED
    BY <2>1, <2>2
<1>10. CachesGood'
  BY <1>7, <1>8, <1>9 DEF CachesGood
<1>11. ASSUME NEW m \in Nodes, NEW k \in 1..Len(cache'[m])
       PROVE  \E l \in 1..Len(cache[m]) : cache'[m][k] = cache[m][l]
  <2>1. CASE m = n
    BY <1>1, <1>2, <1>5, <1>8, <2>1
  <2>2. CASE m # n
    BY <1>8, <2>2
  <2>3. QED
    BY <2>1, <2>2
<1>12. QED
  BY <1>10, <1>11

\* put keeps the bounds and the counter, and stores no other chunk.
LEMMA PutKeeps ==
    ASSUME CachesGood, NEW n \in Nodes, NEW c \in Chunks, Put(n, c)
    PROVE  /\ CachesGood'
           /\ \A m \in Nodes : \A k \in 1..Len(cache'[m]) :
                \/ m = n /\ cache'[m][k] = c
                \/ \E l \in 1..Len(cache[m]) : cache'[m][k] = cache[m][l]
<1>1. CASE SizeOf[c] > MaxBytes
  <2>1. UNCHANGED <<cache, bytesUsed>>
    BY <1>1 DEF Put, caches
  <2>2. QED
    BY <2>1 DEF CachesGood, CacheKeepsBounds
<1>2. CASE ~(SizeOf[c] > MaxBytes)
  <2>1. PICK s : s = cache[n]
    OBVIOUS
  <2>2. s \in Seq(Chunks) /\ Distinct(s) /\ bytesUsed[n] = Total(s)
    BY <2>1 DEF CachesGood, CacheKeepsBounds, Distinct
  <2>3. PICK w, e : w = Without(s, c[1]) /\ e = Append(w, c)
    OBVIOUS
  <2>4. w \in Seq(Chunks)
    BY <2>2, <2>3, WithoutIs
  <2>5. /\ e \in Seq(Chunks) /\ Distinct(e) /\ Total(e) = Total(w) + SizeOf[c]
        /\ \A k \in 1..Len(e) : e[k] = c \/ \E j \in 1..Len(s) : e[k] = s[j]
    BY <2>2, <2>3, Replaced
  <2>6. bytesUsed[n] - (Total(s) - Total(w)) + SizeOf[c] = Total(e)
    <3>1. Total(s) \in Nat /\ Total(w) \in Nat /\ SizeOf[c] \in Nat
      BY <2>2, <2>4, TotalNat, PullAssumption
    <3>2. QED
      BY <2>2, <2>5, <3>1
  <2>7. PICK k : k = Evictions(e, Total(e))
    OBVIOUS
  <2>8. PICK t : t = SubSeq(e, k + 1, Len(e))
    OBVIOUS
  <2>9. /\ t \in Seq(Chunks) /\ Len(t) <= MaxCached
        /\ Total(e) - Total(SubSeq(e, 1, k)) = Total(t)
        /\ Total(t) <= MaxBytes
        /\ \A l \in 1..Len(t) : \E j \in 1..Len(e) : t[l] = e[j]
        /\ Distinct(t)
    BY <2>5, <2>7, <2>8, Kept
  <2>10. /\ cache' = [cache EXCEPT ![n] = t]
         /\ bytesUsed' = [bytesUsed EXCEPT ![n] = Total(t)]
    <3>1. /\ cache' = [cache EXCEPT ![n] = SubSeq(e, k + 1, Len(e))]
          /\ bytesUsed' = [bytesUsed EXCEPT ![n] = Total(e) - Total(SubSeq(e, 1, k))]
      BY <1>2, <2>1, <2>3, <2>6, <2>7 DEF Put
    <3>2. QED
      BY <2>8, <2>9, <3>1
  <2>11. /\ cache' \in [Nodes -> Seq(Chunks)] /\ cache'[n] = t
         /\ bytesUsed' \in [Nodes -> Nat] /\ bytesUsed'[n] = Total(t)
         /\ \A m \in Nodes \ {n} : cache'[m] = cache[m] /\ bytesUsed'[m] = bytesUsed[m]
    <3>1. Total(t) \in Nat
      BY <2>9, TotalNat
    <3>2. QED
      BY <2>9, <2>10, <3>1 DEF CachesGood
  <2>12. CacheKeepsBounds'
    <3> SUFFICES ASSUME NEW m \in Nodes
                 PROVE  /\ Len(cache'[m]) <= MaxCached
                        /\ bytesUsed'[m] = Total(cache'[m])
                        /\ bytesUsed'[m] <= MaxBytes
                        /\ Distinct(cache'[m])
      BY DEF CacheKeepsBounds, Distinct
    <3>1. CASE m = n
      BY <2>9, <2>11, <3>1
    <3>2. CASE m # n
      BY <2>11, <3>2 DEF CachesGood, CacheKeepsBounds, Distinct
    <3>3. QED
      BY <3>1, <3>2
  <2>13. ASSUME NEW m \in Nodes, NEW j \in 1..Len(cache'[m])
         PROVE  \/ m = n /\ cache'[m][j] = c
                \/ \E l \in 1..Len(cache[m]) : cache'[m][j] = cache[m][l]
    <3>1. CASE m = n
      <4>1. PICK l \in 1..Len(e) : t[j] = e[l]
        BY <2>9, <2>11, <3>1
      <4>2. QED
        BY <2>1, <2>5, <2>11, <3>1, <4>1
    <3>2. CASE m # n
      BY <2>11, <3>2
    <3>3. QED
      BY <3>1, <3>2
  <2>14. QED
    BY <2>11, <2>12, <2>13 DEF CachesGood
<1>3. QED
  BY <1>1, <1>2

-----------------------------------------------------------------------------
(***************************************************************************)
(* TelepathPull: the steps of a pull.                                      *)
(***************************************************************************)

\* There is a file that nobody uses when a pull begins.
LEMMA FreeFile ==
    ASSUME PullTypeOK, NEW p \in Pulls, pc[p] = "idle", part = None
    PROVE  Free # {}
<1> DEFINE Q == Pulls \ {p}
           H == {handle[q] : q \in Q}
<1>1. IsFiniteSet(Pulls) /\ Cardinality(Pulls) \in Nat
  BY PullAssumption, FS_CardinalityType
<1>2. IsFiniteSet(Q) /\ Cardinality(Q) = Cardinality(Pulls) - 1
  BY <1>1, FS_RemoveElement
<1>3. IsFiniteSet(H) /\ Cardinality(H) <= Cardinality(Q) /\ Cardinality(H) \in Nat
  <2>1. [q \in Q |-> handle[q]] \in Surjection(Q, H)
    BY DEF Surjection
  <2>2. IsFiniteSet(H) /\ Cardinality(H) <= Cardinality(Q)
    <3> HIDE DEF Q, H
    <3>1. QED
      BY <1>2, <2>1, FS_Surjection
  <2>3. QED
    BY <2>2, FS_CardinalityType
<1> HIDE DEF H
<1>4. /\ IsFiniteSet(H \cup {target})
      /\ Cardinality(H \cup {target}) \in Nat
      /\ Cardinality(H \cup {target}) <= Cardinality(H) + 1
  <2>1. /\ IsFiniteSet(H \cup {target})
        /\ Cardinality(H \cup {target}) = IF target \in H THEN Cardinality(H)
                                                         ELSE Cardinality(H) + 1
    BY <1>3, FS_AddElement
  <2>2. QED
    BY <1>3, <2>1
<1>5. IsFiniteSet(Inodes) /\ Cardinality(Inodes) = Cardinality(Pulls) + 2
  <2>1. 1 \in Int /\ Cardinality(Pulls) + 2 \in Int /\ ~(1 > Cardinality(Pulls) + 2)
    BY <1>1
  <2>2. Cardinality(Inodes) = (Cardinality(Pulls) + 2) - 1 + 1
    BY <2>1, FS_Interval DEF Inodes
  <2>3. IsFiniteSet(Inodes)
    BY <2>1, FS_Interval DEF Inodes
  <2>4. QED
    BY <1>1, <2>2, <2>3
<1>6. ~(Inodes \subseteq H \cup {target})
  <2> SUFFICES ASSUME Inodes \subseteq H \cup {target} PROVE FALSE
    OBVIOUS
  <2>1. Cardinality(Inodes) <= Cardinality(H \cup {target})
    BY <1>4, FS_Subset
  <2>2. QED
    BY <1>1, <1>2, <1>3, <1>4, <1>5, <2>1
<1>7. PICK f \in Inodes : f \notin H /\ f # target
  BY <1>6
<1>8. f # None
  BY <1>1 DEF Inodes, None
<1>9. \A q \in Busy : handle[q] \in H
  BY DEF Busy, H
<1>10. f \in Free
  BY <1>7, <1>8, <1>9 DEF Free
<1>11. QED
  BY <1>10

\* What a write does to the file and to the chunks of its pull.
LEMMA WriteIs ==
    ASSUME PullTypeOK, NEW p \in Busy, NEW c \in Chunks, Len(fetched[p]) < NShards, Write(p, c)
    PROVE  /\ fetched' \in [Pulls -> Seq(Chunks)]
           /\ Len(fetched'[p]) = Len(fetched[p]) + 1
           /\ \A j \in 1..Len(fetched[p]) : fetched'[p][j] = fetched[p][j]
           /\ fetched'[p][Len(fetched[p]) + 1] = c
           /\ \A q \in Pulls \ {p} : fetched'[q] = fetched[q]
           /\ disk' \in [Inodes -> [Shards -> Chunks \cup {Hole}]]
           /\ disk'[handle[p]][Len(fetched[p]) + 1] = c
           /\ \A i \in Shards : i # Len(fetched[p]) + 1 =>
                disk'[handle[p]][i] = disk[handle[p]][i]
           /\ \A f \in Inodes : f # handle[p] => disk'[f] = disk[f]
<1>1. /\ p \in Pulls /\ fetched[p] \in Seq(Chunks) /\ handle[p] \in Inodes
      /\ Len(fetched[p]) + 1 \in Shards
  BY PullAssumption DEF PullTypeOK, Busy, Shards
<1>2. /\ fetched' = [fetched EXCEPT ![p] = Append(@, c)]
      /\ disk' = [disk EXCEPT ![handle[p]][Len(fetched[p]) + 1] = c]
  BY DEF Write
<1>3. /\ Append(fetched[p], c) \in Seq(Chunks)
      /\ Len(Append(fetched[p], c)) = Len(fetched[p]) + 1
      /\ \A j \in 1..Len(fetched[p]) : Append(fetched[p], c)[j] = fetched[p][j]
      /\ Append(fetched[p], c)[Len(fetched[p]) + 1] = c
  BY <1>1
<1>4. fetched'[p] = Append(fetched[p], c) /\ \A q \in Pulls \ {p} : fetched'[q] = fetched[q]
  BY <1>1, <1>2 DEF PullTypeOK
<1>5. fetched' \in [Pulls -> Seq(Chunks)]
  BY <1>1, <1>2, <1>3 DEF PullTypeOK
<1>6. /\ disk' \in [Inodes -> [Shards -> Chunks \cup {Hole}]]
      /\ disk'[handle[p]] = [disk[handle[p]] EXCEPT ![Len(fetched[p]) + 1] = c]
      /\ \A f \in Inodes : f # handle[p] => disk'[f] = disk[f]
  <2>1. PICK f, k : f = handle[p] /\ k = Len(fetched[p]) + 1
    OBVIOUS
  <2>2. disk' = [disk EXCEPT ![f] = [disk[f] EXCEPT ![k] = c]]
    BY <1>2, <2>1
  <2>3. f \in Inodes /\ k \in Shards /\ disk \in [Inodes -> [Shards -> Chunks \cup {Hole}]]
    BY <1>1, <2>1 DEF PullTypeOK
  <2>4. [disk[f] EXCEPT ![k] = c] \in [Shards -> Chunks \cup {Hole}]
    BY <2>3
  <2>5. QED
    BY <2>1, <2>2, <2>3, <2>4
<1>7. disk[handle[p]] \in [Shards -> Chunks \cup {Hole}]
  BY <1>1 DEF PullTypeOK
<1>8. QED
  BY <1>1, <1>3, <1>4, <1>5, <1>6, <1>7

\* A chunk arrives, from the cache or from the peer.
LEMMA Arrives ==
    ASSUME PullInv, NEW p \in Busy, NEW c \in Chunks, pc[p] # "cleanup",
           Len(fetched[p]) < NShards, c[1] = Len(fetched[p]) + 1, Since(node[p], c[2]),
           Write(p, c), UNCHANGED <<version, born, promised, shared, tainted>>,
           pc' = [pc EXCEPT ![p] = "fetching"],
           reply' \in [Pulls -> Versions \cup {None}], \A q \in Pulls \ {p} : reply'[q] = reply[q],
           CachesGood', \A m \in Nodes : \A k \in 1..Len(cache'[m]) :
                           \/ m = node[p] /\ cache'[m][k] = c
                           \/ \E l \in 1..Len(cache[m]) : cache'[m][k] = cache[m][l]
    PROVE  PullInv'
<1>1. PullTypeOK
  BY DEF PullInv
<1>2. p \in Pulls /\ handle[p] \in Inodes /\ Len(fetched[p]) \in Nat
  BY <1>1 DEF PullTypeOK, Busy
<1>3. UNCHANGED <<part, target, node, expected, handle, begun>>
  BY DEF Write
<1>4. /\ pc' \in [Pulls -> {"idle", "fetching", "asked", "answered", "cleanup"}]
      /\ pc'[p] = "fetching" /\ \A q \in Pulls \ {p} : pc'[q] = pc[q]
  BY <1>1, <1>2 DEF PullTypeOK
<1>5. Busy' = Busy
  BY <1>2, <1>4 DEF Busy
<1>6. \A q \in Pulls : Len(fetched'[q]) <= NShards
  <2>1. \A q \in Pulls \ {p} : Len(fetched'[q]) <= NShards
    BY <1>1, WriteIs DEF PullTypeOK
  <2>2. Len(fetched'[p]) = Len(fetched[p]) + 1
    BY <1>1, WriteIs
  <2>3. NShards \in Nat
    BY PullAssumption
  <2>4. Len(fetched'[p]) <= NShards
    BY <1>2, <2>2, <2>3
  <2>5. QED
    BY <2>1, <2>4
<1>7. PullTypeOK'
  <2>1. /\ fetched' \in [Pulls -> Seq(Chunks)]
        /\ disk' \in [Inodes -> [Shards -> Chunks \cup {Hole}]]
    BY <1>1, WriteIs
  <2>2. cache' \in [Nodes -> Seq(Chunks)] /\ bytesUsed' \in [Nodes -> Nat]
    BY DEF CachesGood
  <2>3. QED
    BY <1>1, <1>3, <1>4, <1>5, <1>6, <2>1, <2>2 DEF PullTypeOK
<1>8. RecentCaches'
  <2> SUFFICES ASSUME NEW n \in Nodes
               PROVE  /\ Since(n, version)
                      /\ \A j \in 1..Len(cache'[n]) : Since(n, cache'[n][j][2])
    BY DEF RecentCaches, Since
  <2>1. Since(n, version) /\ \A j \in 1..Len(cache[n]) : Since(n, cache[n][j][2])
    BY DEF PullInv, RecentCaches
  <2>2. ASSUME NEW j \in 1..Len(cache'[n]) PROVE Since(n, cache'[n][j][2])
    BY <2>1
  <2>3. QED
    BY <2>1, <2>2
<1>9. RecentPulls'
  <2> SUFFICES ASSUME NEW q \in Busy
               PROVE  /\ Since(node[q], expected[q])
                      /\ \A j \in 1..Len(fetched'[q]) :
                           fetched'[q][j][1] = j /\ Since(node[q], fetched'[q][j][2])
                      /\ pc'[q] = "answered" => reply'[q] # None /\ Since(node[q], reply'[q])
                      /\ pc'[q] \in {"asked", "answered"} => Len(fetched'[q]) < NShards
    BY <1>3, <1>5 DEF RecentPulls, Since
  <2>1. /\ Since(node[q], expected[q])
        /\ \A j \in 1..Len(fetched[q]) :
             fetched[q][j][1] = j /\ Since(node[q], fetched[q][j][2])
        /\ pc[q] = "answered" => reply[q] # None /\ Since(node[q], reply[q])
        /\ pc[q] \in {"asked", "answered"} => Len(fetched[q]) < NShards
    BY DEF PullInv, RecentPulls
  <2>2. CASE q # p
    <3>1. q \in Pulls /\ fetched'[q] = fetched[q] /\ pc'[q] = pc[q] /\ reply'[q] = reply[q]
      BY <1>1, <1>4, <2>2, WriteIs DEF Busy
    <3>2. QED
      BY <2>1, <3>1
  <2>3. CASE q = p
    <3>1. ASSUME NEW j \in 1..Len(fetched'[p])
          PROVE  fetched'[p][j][1] = j /\ Since(node[p], fetched'[p][j][2])
      <4>1. j \in 1..Len(fetched[p]) \/ j = Len(fetched[p]) + 1
        BY <1>1, <1>2, WriteIs
      <4>2. CASE j \in 1..Len(fetched[p])
        BY <1>1, <2>1, <2>3, <4>2, WriteIs
      <4>3. CASE j = Len(fetched[p]) + 1
        BY <1>1, <4>3, WriteIs
      <4>4. QED
        BY <4>1, <4>2, <4>3
    <3>2. QED
      BY <1>4, <2>1, <2>3, <3>1
  <2>4. QED
    BY <2>2, <2>3
<1>10. Alone'
  <2> SUFFICES ASSUME NEW q \in Busy \ shared
               PROVE  /\ Busy = {q}
                      /\ pc'[q] # "cleanup" =>
                           /\ part = handle[q]
                           /\ \A j \in 1..Len(fetched'[q]) : disk'[part][j] = fetched'[q][j]
    BY <1>3, <1>5 DEF Alone
  <2>1. Busy = {q} /\ q = p
    BY DEF PullInv, Alone
  <2>2. part = handle[p] /\ \A j \in 1..Len(fetched[p]) : disk[part][j] = fetched[p][j]
    BY <2>1 DEF PullInv, Alone
  <2>3. ASSUME NEW j \in 1..Len(fetched'[p]) PROVE disk'[part][j] = fetched'[p][j]
    <3>1. j \in 1..Len(fetched[p]) \/ j = Len(fetched[p]) + 1
      BY <1>1, <1>2, WriteIs
    <3>2. CASE j = Len(fetched[p]) + 1
      BY <1>1, <2>2, <3>2, WriteIs
    <3>3. CASE j \in 1..Len(fetched[p])
      <4>1. j \in Shards /\ j # Len(fetched[p]) + 1
        BY <1>2, <3>3, PullAssumption DEF Shards
      <4>2. disk'[handle[p]][j] = disk[handle[p]][j]
        BY <1>1, <4>1, WriteIs
      <4>3. fetched'[p][j] = fetched[p][j]
        BY <1>1, <3>3, WriteIs
      <4>4. QED
        BY <2>2, <3>3, <4>2, <4>3
    <3>4. QED
      BY <3>1, <3>2, <3>3
  <2>4. QED
    BY <2>1, <2>2, <2>3
<1>11. Placed'
  <2>1. ~tainted => handle[p] # target
    BY DEF PullInv, Placed
  <2>2. ASSUME ~tainted, target # None PROVE disk'[target] = disk[target]
    <3>1. target \in Inodes
      BY <1>1, <2>2 DEF PullTypeOK
    <3>2. QED
      BY <1>1, <2>1, <2>2, <3>1, WriteIs
  <2>3. TargetSound'
    BY <1>3, <2>2 DEF PullInv, Placed, TargetSound
  <2>4. \A q \in Busy : pc'[q] # "cleanup" => pc[q] # "cleanup"
    BY <1>2, <1>4 DEF Busy
  <2>5. QED
    BY <1>3, <1>5, <2>3, <2>4 DEF PullInv, Placed
<1>12. QED
  BY <1>7, <1>8, <1>9, <1>10, <1>11 DEF PullInv

\* A step that touches neither files nor caches and no pull but p, which goes on
\* or fails.
LEMMA Goes ==
    ASSUME PullInv, NEW p \in Busy, NEW where \in {"asked", "answered", "cleanup"},
           pc' = [pc EXCEPT ![p] = where],
           UNCHANGED <<peer, caches, files, work, promised, shared, tainted>>,
           pc[p] # "cleanup",
           where = "asked" => Len(fetched[p]) < NShards /\ UNCHANGED reply,
           where = "answered" => Len(fetched[p]) < NShards /\ reply' = [reply EXCEPT ![p] = version],
           where = "cleanup" => UNCHANGED reply
    PROVE  PullInv'
<1>1. UNCHANGED <<version, born, cache, bytesUsed, part, target, disk, node, expected, fetched,
                  handle, begun, promised, shared, tainted>>
  BY DEF peer, caches, files, work
<1>2. p \in Pulls /\ PullTypeOK /\ pc[p] # "idle"
  BY DEF PullInv, Busy
<1>3. /\ pc' \in [Pulls -> {"idle", "fetching", "asked", "answered", "cleanup"}]
      /\ pc'[p] = where /\ \A q \in Pulls \ {p} : pc'[q] = pc[q]
  BY <1>2 DEF PullTypeOK
<1>4. Busy' = Busy
  BY <1>2, <1>3 DEF Busy
<1>5. /\ reply' \in [Pulls -> Versions \cup {None}]
      /\ \A q \in Pulls \ {p} : reply'[q] = reply[q]
      /\ where = "answered" => reply'[p] = version
  <2>1. reply \in [Pulls -> Versions \cup {None}] /\ version \in Versions
    BY <1>2 DEF PullTypeOK
  <2>2. CASE where = "answered"
    BY <1>2, <2>1, <2>2
  <2>3. CASE where # "answered"
    <3>1. UNCHANGED reply
      BY <2>3
    <3>2. QED
      BY <2>1, <2>3, <3>1
  <2>4. QED
    BY <2>2, <2>3
<1>6. PullTypeOK'
  BY <1>1, <1>2, <1>3, <1>4, <1>5 DEF PullTypeOK
<1>7. CachesGood' /\ RecentCaches'
  BY <1>1 DEF PullInv, CachesGood, CacheKeepsBounds, RecentCaches, Since
<1>8. RecentPulls'
  <2>1. version # None /\ version \in Versions
    BY <1>2 DEF PullTypeOK, Versions, None
  <2>2. Since(node[p], version)
    BY <1>2 DEF PullInv, RecentCaches, PullTypeOK
  <2> SUFFICES ASSUME NEW q \in Busy
               PROVE  /\ pc'[q] = "answered" => reply'[q] # None /\ Since(node[q], reply'[q])
                      /\ pc'[q] \in {"asked", "answered"} => Len(fetched[q]) < NShards
    BY <1>1, <1>4 DEF PullInv, RecentPulls, Since
  <2>3. CASE q = p
    BY <1>3, <1>5, <2>1, <2>2, <2>3
  <2>4. CASE q # p
    <3>1. q \in Pulls /\ pc'[q] = pc[q] /\ reply'[q] = reply[q]
      BY <1>3, <1>5, <2>4 DEF Busy
    <3>2. QED
      BY <3>1 DEF PullInv, RecentPulls
  <2>5. QED
    BY <2>3, <2>4
<1>9. \A q \in Busy : pc'[q] # "cleanup" => pc[q] # "cleanup"
  BY <1>2, <1>3 DEF Busy
<1>10. Alone'
  BY <1>1, <1>4, <1>9 DEF PullInv, Alone
<1>11. Placed'
  BY <1>1, <1>4, <1>9 DEF PullInv, Placed, TargetSound
<1>12. QED
  BY <1>6, <1>7, <1>8, <1>10, <1>11 DEF PullInv

\* The digest was the announced one: what was written gets the name model.bin.
LEMMA RenamePull ==
    ASSUME PullInv, NEW p \in Pulls, Rename(p)
    PROVE  PullInv'
<1>1. /\ pc[p] = "fetching" /\ Len(fetched[p]) = NShards /\ part # None
      /\ \A i \in Shards : fetched[p][i] = <<i, expected[p]>>
      /\ target' = part /\ part' = None /\ promised' = expected[p] /\ tainted' = (p \in shared)
      /\ pc' = [pc EXCEPT ![p] = "cleanup"]
  BY DEF Rename, Written, DigestMatches
<1>2. UNCHANGED <<version, born, cache, bytesUsed, disk, node, expected, fetched, handle, begun,
                  reply, shared>>
  BY DEF Rename, peer, caches, work
<1>3. PullTypeOK /\ p \in Busy
  BY <1>1 DEF PullInv, Busy
<1>4. /\ pc' \in [Pulls -> {"idle", "fetching", "asked", "answered", "cleanup"}]
      /\ pc'[p] = "cleanup" /\ \A q \in Pulls \ {p} : pc'[q] = pc[q]
  BY <1>1, <1>3 DEF PullTypeOK
<1>5. Busy' = Busy
  BY <1>3, <1>4 DEF Busy
<1>6. expected[p] \in Versions /\ expected[p] # None
  BY <1>3 DEF PullTypeOK
<1>7. PullTypeOK'
  BY <1>1, <1>2, <1>3, <1>4, <1>5, <1>6 DEF PullTypeOK
<1>8. CachesGood' /\ RecentCaches'
  BY <1>2 DEF PullInv, CachesGood, CacheKeepsBounds, RecentCaches, Since
<1>9. RecentPulls'
  <2>1. \A q \in Busy : pc'[q] \in {"asked", "answered"} => pc'[q] = pc[q]
    BY <1>3, <1>4 DEF Busy
  <2>2. QED
    BY <1>2, <1>5, <2>1 DEF PullInv, RecentPulls, Since
<1>10. ASSUME NEW q \in Busy \ shared PROVE Busy = {q}
  BY DEF PullInv, Alone
<1>11. Alone'
  <2> SUFFICES ASSUME NEW q \in Busy \ shared PROVE Busy = {q} /\ pc'[q] = "cleanup"
    BY <1>2, <1>5 DEF Alone
  <2>1. QED
    BY <1>3, <1>4, <1>10
<1>12. Placed'
  <2>1. ASSUME p \notin shared
        PROVE  /\ \A q \in Busy : pc'[q] = "cleanup"
               /\ \A i \in Shards : disk[part][i] = <<i, expected[p]>>
    <3>1. Busy = {p}
      BY <1>3, <1>10, <2>1
    <3>2. \A i \in 1..Len(fetched[p]) : disk[part][i] = fetched[p][i]
      BY <1>1, <1>3, <2>1 DEF PullInv, Alone
    <3>3. QED
      BY <1>1, <1>4, <3>1, <3>2 DEF Shards
  <2>2. TargetSound'
    BY <1>1, <1>2, <1>6, <2>1 DEF TargetSound
  <2>3. QED
    BY <1>1, <1>2, <1>5, <2>1, <2>2 DEF Placed
<1>13. QED
  BY <1>7, <1>8, <1>9, <1>11, <1>12 DEF PullInv

\* Pulls end: their tasks are done, or their node is killed.
LEMMA Ends ==
    ASSUME PullInv, NEW ps \in SUBSET Pulls, Stop(ps),
           UNCHANGED <<version, target, disk, promised, tainted>>,
           part' = part \/ (part' = None /\ \E p \in ps \cap Busy : pc[p] = "cleanup"),
           CachesGood', RecentCaches', born' \in [Nodes -> Versions],
           \A q \in Busy \ ps : born'[node[q]] = born[node[q]]
    PROVE  PullInv'
<1>1. /\ pc' = [p \in Pulls |-> IF p \in ps THEN "idle" ELSE pc[p]]
      /\ node' = [p \in Pulls |-> IF p \in ps THEN None ELSE node[p]]
      /\ expected' = [p \in Pulls |-> IF p \in ps THEN None ELSE expected[p]]
      /\ fetched' = [p \in Pulls |-> IF p \in ps THEN <<>> ELSE fetched[p]]
      /\ reply' = [p \in Pulls |-> IF p \in ps THEN None ELSE reply[p]]
      /\ handle' = [p \in Pulls |-> IF p \in ps THEN None ELSE handle[p]]
      /\ shared' = shared \ ps
      /\ begun' = begun
  BY DEF Stop
<1>2. PullTypeOK
  BY DEF PullInv
<1>3. Busy' = Busy \ ps
  BY <1>1 DEF Busy
<1>4. \A q \in Busy \ ps : /\ pc'[q] = pc[q] /\ node'[q] = node[q] /\ expected'[q] = expected[q]
                           /\ fetched'[q] = fetched[q] /\ reply'[q] = reply[q]
                           /\ handle'[q] = handle[q] /\ q \in Pulls
  BY <1>1 DEF Busy
<1>5. PullTypeOK'
  <2>1. <<>> \in Seq(Chunks) /\ Len(<<>>) <= NShards
    BY PullAssumption
  <2>2. /\ fetched' \in [Pulls -> Seq(Chunks)]
        /\ \A p \in Pulls : Len(fetched'[p]) <= NShards
    BY <1>1, <1>2, <2>1 DEF PullTypeOK
  <2>3. /\ pc' \in [Pulls -> {"idle", "fetching", "asked", "answered", "cleanup"}]
        /\ expected' \in [Pulls -> Versions \cup {None}]
        /\ reply' \in [Pulls -> Versions \cup {None}]
        /\ handle' \in [Pulls -> Inodes \cup {None}]
        /\ node' \in [Pulls -> Nodes \cup {None}]
    BY <1>1, <1>2 DEF PullTypeOK
  <2>4. \A q \in Busy' : node'[q] \in Nodes /\ handle'[q] # None /\ expected'[q] # None
    BY <1>2, <1>3, <1>4 DEF PullTypeOK
  <2>5. /\ cache' \in [Nodes -> Seq(Chunks)] /\ bytesUsed' \in [Nodes -> Nat]
        /\ part' \in Inodes \cup {None} /\ shared' \subseteq Pulls
    BY <1>1, <1>2 DEF PullTypeOK, CachesGood
  <2>6. QED
    BY <1>1, <1>2, <2>2, <2>3, <2>4, <2>5 DEF PullTypeOK
<1>6. RecentPulls'
  BY <1>3, <1>4 DEF PullInv, RecentPulls, Since
<1>7. Alone'
  <2> SUFFICES ASSUME NEW q \in Busy' \ shared'
               PROVE  /\ Busy' = {q}
                      /\ pc'[q] # "cleanup" =>
                           /\ part' = handle'[q]
                           /\ \A j \in 1..Len(fetched'[q]) : disk'[part'][j] = fetched'[q][j]
    BY DEF Alone
  <2>1. q \in Busy \ ps /\ q \in Busy \ shared
    BY <1>1, <1>3
  <2>2. /\ Busy = {q}
        /\ pc[q] # "cleanup" =>
             /\ part = handle[q]
             /\ \A j \in 1..Len(fetched[q]) : disk[part][j] = fetched[q][j]
    BY <2>1 DEF PullInv, Alone
  <2>3. part' = part
    BY <2>1, <2>2
  <2>4. Busy' = {q}
    BY <1>3, <2>1, <2>2
  <2>5. pc'[q] = pc[q] /\ handle'[q] = handle[q] /\ fetched'[q] = fetched[q] /\ disk' = disk
    BY <1>4, <2>1
  <2>6. QED
    BY <2>2, <2>3, <2>4, <2>5
<1>8. Placed'
  BY <1>3, <1>4 DEF PullInv, Placed, TargetSound
<1>9. QED
  BY <1>5, <1>6, <1>7, <1>8 DEF PullInv

\* A pull begins: it takes over model.part, or creates it.
LEMMA BeginPull ==
    ASSUME PullInv, NEW p \in Pulls, NEW n \in Nodes, Begin(p, n)
    PROVE  PullInv'
<1>1. PICK f : /\ f \in IF part = None THEN {CHOOSE g \in Free : TRUE} ELSE {part}
               /\ part' = f
               /\ handle' = [handle EXCEPT ![p] = f]
               /\ disk' = [g \in Inodes |-> IF g \in Free \cup {f} THEN Empty ELSE disk[g]]
  BY DEF Begin
<1>2. /\ pc[p] = "idle" /\ begun < MaxPulls /\ begun' = begun + 1
      /\ node' = [node EXCEPT ![p] = n]
      /\ pc' = [pc EXCEPT ![p] = "fetching"]
      /\ expected' = [expected EXCEPT ![p] = version]
      /\ fetched' = [fetched EXCEPT ![p] = <<>>]
      /\ shared' = IF Busy = {} THEN {} ELSE shared \cup Busy \cup {p}
      /\ UNCHANGED <<version, born, cache, bytesUsed, target, reply, promised, tainted>>
  BY DEF Begin, peer, caches
<1>3. PullTypeOK
  BY DEF PullInv
<1>4. f \in Inodes /\ f # target /\ f # None
  <2>1. CASE part = None
    <3>1. f \in Free
      BY <1>1, <1>2, <1>3, <2>1, FreeFile
    <3>2. Free \subseteq Inodes \ {target}
      BY DEF Free
    <3>3. None \notin Inodes
      BY PullAssumption, FS_CardinalityType DEF Inodes, None
    <3>4. QED
      BY <3>1, <3>2, <3>3
  <2>2. CASE part # None
    BY <1>1, <1>3, <2>2 DEF PullTypeOK, PullInv, Placed
  <2>3. QED
    BY <2>1, <2>2
<1>5. /\ pc' \in [Pulls -> {"idle", "fetching", "asked", "answered", "cleanup"}]
      /\ pc'[p] = "fetching" /\ node'[p] = n /\ expected'[p] = version
      /\ fetched'[p] = <<>> /\ handle'[p] = f
      /\ \A q \in Pulls \ {p} : /\ pc'[q] = pc[q] /\ node'[q] = node[q] /\ handle'[q] = handle[q]
                                /\ expected'[q] = expected[q] /\ fetched'[q] = fetched[q]
  BY <1>1, <1>2, <1>3 DEF PullTypeOK
<1>6. Busy' = Busy \cup {p} /\ p \notin Busy
  BY <1>2, <1>5 DEF Busy
<1>7. version \in Versions /\ version # None
  BY <1>3 DEF PullTypeOK, Versions, None
<1>8. PullTypeOK'
  <2>1. <<>> \in Seq(Chunks) /\ Len(<<>>) <= NShards /\ begun + 1 \in 0..MaxPulls
    BY <1>2, <1>3, PullAssumption DEF PullTypeOK
  <2>2. /\ fetched' \in [Pulls -> Seq(Chunks)]
        /\ \A q \in Pulls : Len(fetched'[q]) <= NShards
    BY <1>2, <1>3, <2>1 DEF PullTypeOK
  <2>3. disk' \in [Inodes -> [Shards -> Chunks \cup {Hole}]]
    <3>1. Empty \in [Shards -> Chunks \cup {Hole}]
      BY DEF Empty
    <3>2. QED
      BY <1>1, <1>3, <3>1 DEF PullTypeOK
  <2>4. /\ expected' \in [Pulls -> Versions \cup {None}]
        /\ handle' \in [Pulls -> Inodes \cup {None}]
        /\ node' \in [Pulls -> Nodes \cup {None}]
        /\ shared' \subseteq Pulls
    BY <1>1, <1>2, <1>3, <1>4, <1>7 DEF PullTypeOK, Busy
  <2>5. \A q \in Busy' : node'[q] \in Nodes /\ handle'[q] # None /\ expected'[q] # None
    <3>1. \A q \in Busy : q \in Pulls \ {p}
      BY <1>6 DEF Busy
    <3>2. QED
      BY <1>3, <1>4, <1>5, <1>6, <1>7, <3>1 DEF PullTypeOK
  <2>6. QED
    BY <1>1, <1>2, <1>3, <1>4, <1>5, <2>1, <2>2, <2>3, <2>4, <2>5 DEF PullTypeOK
<1>9. CachesGood' /\ RecentCaches'
  BY <1>2 DEF PullInv, CachesGood, CacheKeepsBounds, RecentCaches, Since
<1>10. RecentPulls'
  <2> SUFFICES ASSUME NEW q \in Busy \cup {p}
               PROVE  /\ Since(node'[q], expected'[q])
                      /\ \A j \in 1..Len(fetched'[q]) :
                           fetched'[q][j][1] = j /\ Since(node'[q], fetched'[q][j][2])
                      /\ pc'[q] = "answered" => reply[q] # None /\ Since(node'[q], reply[q])
                      /\ pc'[q] \in {"asked", "answered"} => Len(fetched'[q]) < NShards
    BY <1>2, <1>6 DEF RecentPulls, Since
  <2>1. CASE q = p
    BY <1>5, <2>1 DEF PullInv, RecentCaches
  <2>2. CASE q # p
    BY <1>5, <2>2 DEF PullInv, RecentPulls, Busy
  <2>3. QED
    BY <2>1, <2>2
<1>11. Alone'
  <2> SUFFICES ASSUME NEW q \in Busy' \ shared'
               PROVE  /\ Busy' = {q}
                      /\ part' = handle'[q]
                      /\ \A j \in 1..Len(fetched'[q]) : disk'[part'][j] = fetched'[q][j]
    BY DEF Alone
  <2>1. Busy = {} /\ q = p
    BY <1>2, <1>6
  <2>2. Len(fetched'[p]) = 0
    BY <1>5
  <2>3. QED
    BY <1>1, <1>5, <1>6, <2>1, <2>2
<1>12. Placed'
  <2>1. ASSUME target # None PROVE disk'[target] = disk[target]
    <3>1. target \notin Free \cup {f} /\ target \in Inodes
      BY <1>3, <1>4, <2>1 DEF Free, PullTypeOK
    <3>2. QED
      BY <1>1, <3>1
  <2>2. TargetSound'
    BY <1>2, <2>1 DEF PullInv, Placed, TargetSound
  <2>3. ASSUME ~tainted, NEW q \in Busy \cup {p}, pc'[q] # "cleanup" PROVE handle'[q] # target
    <3>1. CASE q = p
      BY <1>4, <1>5, <3>1
    <3>2. CASE q # p
      BY <1>5, <2>3, <3>2 DEF PullInv, Placed, Busy
    <3>3. QED
      BY <3>1, <3>2
  <2>4. QED
    BY <1>1, <1>2, <1>4, <1>6, <2>2, <2>3 DEF Placed
<1>13. QED
  BY <1>8, <1>9, <1>10, <1>11, <1>12 DEF PullInv

LEMMA InitPullInv == PullInit => PullInv
<1> SUFFICES ASSUME PullInit PROVE PullInv
  OBVIOUS
<1>1. Busy = {}
  BY DEF PullInit, Busy
<1>2. <<>> \in Seq(Chunks) /\ Len(<<>>) = 0 /\ 1 \in Versions
  BY PullAssumption DEF Versions
<1>3. PullTypeOK
  <2>1. Empty \in [Shards -> Chunks \cup {Hole}]
    BY DEF Empty
  <2>2. disk \in [Inodes -> [Shards -> Chunks \cup {Hole}]]
    BY <2>1 DEF PullInit
  <2>3. fetched \in [Pulls -> Seq(Chunks)] /\ \A p \in Pulls : Len(fetched[p]) <= NShards
    BY <1>2, PullAssumption DEF PullInit
  <2>4. cache \in [Nodes -> Seq(Chunks)] /\ bytesUsed \in [Nodes -> Nat]
    BY <1>2 DEF PullInit
  <2>5. begun \in 0..MaxPulls
    BY PullAssumption DEF PullInit
  <2>6. QED
    BY <1>1, <1>2, <2>2, <2>3, <2>4, <2>5 DEF PullInit, PullTypeOK
<1>4. CachesGood
  <2>1. cache \in [Nodes -> Seq(Chunks)] /\ bytesUsed \in [Nodes -> Nat]
    BY <1>2 DEF PullInit
  <2>2. ASSUME NEW n \in Nodes
        PROVE  /\ Len(cache[n]) <= MaxCached
               /\ bytesUsed[n] = Total(cache[n])
               /\ bytesUsed[n] <= MaxBytes
               /\ \A j, k \in 1..Len(cache[n]) : cache[n][j][1] = cache[n][k][1] => j = k
    <3>1. cache[n] = <<>> /\ bytesUsed[n] = 0
      BY DEF PullInit
    <3>2. 1..Len(cache[n]) = {}
      BY <1>2, <3>1
    <3>3. QED
      BY <1>2, <3>1, <3>2, TotalEmpty, PullAssumption
  <2>3. QED
    BY <2>1, <2>2 DEF CachesGood, CacheKeepsBounds
<1>5. RecentCaches
  BY <1>2 DEF PullInit, RecentCaches, Since
<1>6. RecentPulls /\ Alone
  BY <1>1 DEF RecentPulls, Alone
<1>7. Placed
  BY <1>1 DEF PullInit, Placed, TargetSound
<1>8. QED
  BY <1>3, <1>4, <1>5, <1>6, <1>7 DEF PullInv

LEMMA StepPullInv == PullInv /\ [PullNext]_pullVars => PullInv'
<1> SUFFICES ASSUME PullInv, [PullNext]_pullVars PROVE PullInv'
  OBVIOUS
<1>0. PullTypeOK
  BY DEF PullInv
<1>1. ASSUME NEW p \in Pulls, NEW n \in Nodes, Begin(p, n) PROVE PullInv'
  BY <1>1, BeginPull
<1>2. ASSUME NEW p \in Pulls, Hit(p) PROVE PullInv'
  <2>1. p \in Busy /\ pc[p] = "fetching" /\ Len(fetched[p]) < NShards /\ node[p] \in Nodes
    BY <1>0, <1>2 DEF Hit, Fetching, Busy, PullTypeOK
  <2>2. PICK c \in Cached(node[p], Len(fetched[p]) + 1) : Touch(node[p], c) /\ Write(p, c)
    BY <1>2 DEF Hit
  <2>3. cache[node[p]] \in Seq(Chunks)
    BY <1>0, <2>1 DEF PullTypeOK
  <2>4. PICK i \in 1..Len(cache[node[p]]) : c = cache[node[p]][i]
    BY <2>2, <2>3 DEF Cached, ToSet
  <2>5. c \in Chunks /\ c[1] = Len(fetched[p]) + 1 /\ Since(node[p], c[2])
    <3>1. c \in Chunks
      BY <2>3, <2>4
    <3>2. c[1] = Len(fetched[p]) + 1
      BY <2>2 DEF Cached
    <3>3. Since(node[p], c[2])
      BY <2>1, <2>4 DEF PullInv, RecentCaches
    <3>4. QED
      BY <3>1, <3>2, <3>3
  <2>6. Touch(node[p], cache[node[p]][i]) /\ CachesGood
    BY <2>2, <2>4 DEF PullInv
  <2>7. /\ CachesGood'
        /\ \A m \in Nodes : \A k \in 1..Len(cache'[m]) :
             \E l \in 1..Len(cache[m]) : cache'[m][k] = cache[m][l]
    BY <2>1, <2>4, <2>6, TouchKeeps
  <2>8. UNCHANGED <<version, born, pc, reply, promised, shared, tainted>>
    BY <1>2 DEF Hit, peer
  <2>9. pc' = [pc EXCEPT ![p] = "fetching"] /\ reply' \in [Pulls -> Versions \cup {None}]
    BY <1>0, <2>1, <2>8 DEF PullTypeOK
  <2>10. UNCHANGED <<version, born, promised, shared, tainted>> /\ pc[p] # "cleanup"
    BY <2>1, <2>8
  <2>11. \A q \in Pulls \ {p} : reply'[q] = reply[q]
    BY <2>8
  <2>12. \A m \in Nodes : \A k \in 1..Len(cache'[m]) :
           \/ m = node[p] /\ cache'[m][k] = c
           \/ \E l \in 1..Len(cache[m]) : cache'[m][k] = cache[m][l]
    BY <2>7
  <2>13. c \in Chunks /\ p \in Busy /\ Write(p, c) /\ CachesGood'
    BY <2>1, <2>2, <2>5, <2>7
  <2>14. QED
    BY <2>1, <2>5, <2>9, <2>10, <2>11, <2>12, <2>13, Arrives
<1>3. ASSUME NEW p \in Pulls, Ask(p) PROVE PullInv'
  <2>1. /\ p \in Busy /\ pc[p] = "fetching" /\ Len(fetched[p]) < NShards
        /\ pc' = [pc EXCEPT ![p] = "asked"]
        /\ UNCHANGED <<peer, caches, files, work, reply, promised, shared, tainted>>
    BY <1>3 DEF Ask, Fetching, Busy
  <2>2. QED
    BY <2>1, Goes
<1>4. ASSUME NEW p \in Pulls, Serve(p) PROVE PullInv'
  <2>1. /\ p \in Busy /\ pc[p] = "asked"
        /\ pc' = [pc EXCEPT ![p] = "answered"]
        /\ reply' = [reply EXCEPT ![p] = version]
        /\ UNCHANGED <<peer, caches, files, work, promised, shared, tainted>>
    BY <1>4 DEF Serve, Busy
  <2>2. Len(fetched[p]) < NShards
    BY <2>1 DEF PullInv, RecentPulls
  <2>3. QED
    BY <2>1, <2>2, Goes
<1>5. ASSUME NEW p \in Pulls, Receive(p) PROVE PullInv'
  <2>1. PICK c : c = <<Len(fetched[p]) + 1, reply[p]>>
    OBVIOUS
  <2>2. /\ p \in Busy /\ pc[p] = "answered" /\ Put(node[p], c) /\ Write(p, c)
        /\ pc' = [pc EXCEPT ![p] = "fetching"]
        /\ reply' = [reply EXCEPT ![p] = None]
        /\ UNCHANGED <<version, born, promised, shared, tainted>>
    BY <1>5, <2>1 DEF Receive, Busy, peer
  <2>3. /\ Len(fetched[p]) < NShards /\ reply[p] # None /\ Since(node[p], reply[p])
        /\ node[p] \in Nodes /\ Len(fetched[p]) \in Nat /\ reply[p] \in Versions
    <3>1. Len(fetched[p]) < NShards /\ reply[p] # None /\ Since(node[p], reply[p])
      BY <2>2 DEF PullInv, RecentPulls
    <3>2. node[p] \in Nodes /\ fetched[p] \in Seq(Chunks) /\ reply[p] \in Versions \cup {None}
      BY <1>0, <2>2 DEF PullTypeOK
    <3>3. QED
      BY <3>1, <3>2
  <2>4. c \in Chunks /\ c[1] = Len(fetched[p]) + 1 /\ Since(node[p], c[2])
    <3>1. Len(fetched[p]) + 1 \in Shards
      BY <2>3, PullAssumption DEF Shards
    <3>2. QED
      BY <2>1, <2>3, <3>1 DEF Chunks
  <2>5. CachesGood
    BY DEF PullInv
  <2>6. /\ CachesGood'
        /\ \A m \in Nodes : \A k \in 1..Len(cache'[m]) :
             \/ m = node[p] /\ cache'[m][k] = c
             \/ \E l \in 1..Len(cache[m]) : cache'[m][k] = cache[m][l]
    BY <2>2, <2>3, <2>4, <2>5, PutKeeps
  <2>7. /\ reply' \in [Pulls -> Versions \cup {None}]
        /\ \A q \in Pulls \ {p} : reply'[q] = reply[q]
    BY <1>0, <2>2 DEF PullTypeOK
  <2>8. UNCHANGED <<version, born, promised, shared, tainted>> /\ pc[p] # "cleanup"
    BY <2>2
  <2>9. c \in Chunks /\ p \in Busy /\ Write(p, c) /\ CachesGood'
    BY <2>2, <2>4, <2>6
  <2>10. /\ Len(fetched[p]) < NShards /\ c[1] = Len(fetched[p]) + 1 /\ Since(node[p], c[2])
         /\ pc' = [pc EXCEPT ![p] = "fetching"]
    BY <2>2, <2>3, <2>4
  <2>11. QED
    BY <2>6, <2>7, <2>8, <2>9, <2>10, Arrives
<1>6. ASSUME NEW p \in Pulls, Fail(p) PROVE PullInv'
  <2>1. /\ p \in Busy /\ pc[p] # "cleanup" /\ pc' = [pc EXCEPT ![p] = "cleanup"]
        /\ UNCHANGED <<peer, caches, files, work, reply, promised, shared, tainted>>
    BY <1>6 DEF Fail, Busy
  <2>2. QED
    BY <2>1, Goes
<1>7. ASSUME NEW p \in Pulls, Rename(p) PROVE PullInv'
  BY <1>7, RenamePull
<1>8. ASSUME NEW p \in Pulls, Reject(p) PROVE PullInv'
  <2>1. /\ p \in Busy /\ pc[p] # "cleanup" /\ pc' = [pc EXCEPT ![p] = "cleanup"]
        /\ UNCHANGED <<peer, caches, files, work, reply, promised, shared, tainted>>
    BY <1>8 DEF Reject, Written, Busy
  <2>2. QED
    BY <2>1, Goes
<1>9. ASSUME NEW p \in Pulls, CleanUp(p) PROVE PullInv'
  <2>1. /\ pc[p] = "cleanup" /\ p \in Busy /\ part' = None /\ Stop({p})
        /\ UNCHANGED <<version, born, cache, bytesUsed, target, disk, promised, tainted>>
    BY <1>9 DEF CleanUp, Busy, peer, caches
  <2>2. CachesGood' /\ RecentCaches'
    BY <2>1 DEF PullInv, CachesGood, CacheKeepsBounds, RecentCaches, Since
  <2>3. born' \in [Nodes -> Versions] /\ born' = born /\ {p} \in SUBSET Pulls
    BY <1>0, <2>1 DEF PullTypeOK
  <2>4. QED
    BY <2>1, <2>2, <2>3, Ends
<1>10. CASE Republish
  <2>1. /\ version < MaxVersion /\ version' = version + 1
        /\ UNCHANGED <<born, cache, bytesUsed, part, target, disk, pc, reply, node, expected,
                       fetched, handle, begun, promised, shared, tainted>>
    BY <1>10 DEF Republish, caches, files, pulls, work
  <2>2. version \in Nat /\ version' \in Versions /\ MaxVersion \in Nat
    BY <1>0, <2>1, PullAssumption DEF PullTypeOK, Versions
  <2>3. PullTypeOK'
    BY <1>0, <2>1, <2>2 DEF PullTypeOK, Busy
  <2>4. ASSUME NEW n \in Nodes, NEW v \in Nat, Since(n, v) PROVE Since(n, v)'
    <3>1. born[n] \in Nat
      BY <1>0, PullAssumption DEF PullTypeOK, Versions
    <3>2. QED
      BY <2>1, <2>2, <2>4, <3>1 DEF Since
  <2>5. Chunks = Shards \X Versions /\ Versions \subseteq Nat
    BY PullAssumption DEF Chunks, Versions
  <2>6. RecentCaches'
    <3> SUFFICES ASSUME NEW n \in Nodes
                 PROVE  /\ Since(n, version)'
                        /\ \A j \in 1..Len(cache[n]) : Since(n, cache[n][j][2])'
      BY <2>1 DEF RecentCaches
    <3>1. Since(n, version) /\ \A j \in 1..Len(cache[n]) : Since(n, cache[n][j][2])
      BY DEF PullInv, RecentCaches
    <3>2. Since(n, version)'
      BY <2>1, <2>2, <3>1, <1>0, PullAssumption DEF Since, PullTypeOK, Versions
    <3>3. ASSUME NEW j \in 1..Len(cache[n]) PROVE Since(n, cache[n][j][2])'
      <4>1. cache[n][j] \in Chunks
        BY <1>0 DEF PullTypeOK
      <4>2. cache[n][j][2] \in Nat
        BY <2>5, <4>1
      <4>3. PICK v : v = cache[n][j][2]
        OBVIOUS
      <4>4. born[n] \in Nat
        BY <1>0, PullAssumption DEF PullTypeOK, Versions
      <4>5. QED
        BY <2>1, <2>2, <3>1, <4>2, <4>4 DEF Since
    <3>4. QED
      BY <3>2, <3>3
  <2>7. RecentPulls'
    <3> SUFFICES ASSUME NEW q \in Busy
                 PROVE  /\ Since(node[q], expected[q])'
                        /\ \A j \in 1..Len(fetched[q]) :
                             fetched[q][j][1] = j /\ Since(node[q], fetched[q][j][2])'
                        /\ pc[q] = "answered" => reply[q] # None /\ Since(node[q], reply[q])'
                        /\ pc[q] \in {"asked", "answered"} => Len(fetched[q]) < NShards
      BY <2>1 DEF RecentPulls, Busy
    <3>1. /\ Since(node[q], expected[q])
          /\ \A j \in 1..Len(fetched[q]) :
               fetched[q][j][1] = j /\ Since(node[q], fetched[q][j][2])
          /\ pc[q] = "answered" => reply[q] # None /\ Since(node[q], reply[q])
          /\ pc[q] \in {"asked", "answered"} => Len(fetched[q]) < NShards
      BY DEF PullInv, RecentPulls
    <3>2. /\ q \in Pulls /\ node[q] \in Nodes /\ born[node[q]] \in Nat
          /\ expected[q] \in Nat /\ reply[q] \in Nat /\ fetched[q] \in Seq(Chunks)
      <4>1. q \in Pulls /\ node[q] \in Nodes /\ fetched[q] \in Seq(Chunks)
        BY <1>0 DEF PullTypeOK, Busy
      <4>2. /\ born[node[q]] \in Versions
            /\ expected[q] \in Versions \cup {0} /\ reply[q] \in Versions \cup {0}
        BY <1>0, <4>1 DEF PullTypeOK, None
      <4>3. \A v \in Versions \cup {0} : v \in Nat
        BY <2>5
      <4>4. born[node[q]] \in Nat /\ expected[q] \in Nat /\ reply[q] \in Nat
        BY <4>2, <4>3
      <4>5. QED
        BY <4>1, <4>4
    <3>3. ASSUME NEW v \in Nat, Since(node[q], v)
          PROVE  born'[node'[q]] <= v /\ v <= version'
      BY <2>1, <2>2, <3>2, <3>3 DEF Since
    <3>4. \A j \in 1..Len(fetched[q]) : fetched[q][j][2] \in Nat
      <4> SUFFICES ASSUME NEW j \in 1..Len(fetched[q]) PROVE fetched[q][j][2] \in Nat
        OBVIOUS
      <4>1. fetched[q][j] \in Chunks
        BY <3>2
      <4>2. QED
        BY <2>5, <4>1
    <3>5. QED
      BY <2>1, <3>1, <3>2, <3>3, <3>4 DEF Since
  <2>8. CachesGood' /\ Alone' /\ Placed'
    BY <2>1 DEF PullInv, CachesGood, CacheKeepsBounds, Alone, Placed, TargetSound, Busy
  <2>9. QED
    BY <2>3, <2>6, <2>7, <2>8 DEF PullInv
<1>11. ASSUME NEW n \in Nodes, Crash(n) PROVE PullInv'
  <2>1. /\ cache' = [cache EXCEPT ![n] = <<>>]
        /\ bytesUsed' = [bytesUsed EXCEPT ![n] = 0]
        /\ Stop({p \in Pulls : node[p] = n})
        /\ born' = [born EXCEPT ![n] = version]
        /\ UNCHANGED <<version, part, target, disk, promised, tainted>>
    BY <1>11 DEF Crash, files
  <2>2. <<>> \in Seq(Chunks) /\ Len(<<>>) = 0
    OBVIOUS
  <2>3. /\ cache' \in [Nodes -> Seq(Chunks)] /\ cache'[n] = <<>>
        /\ bytesUsed' \in [Nodes -> Nat] /\ bytesUsed'[n] = 0
        /\ born' \in [Nodes -> Versions] /\ born'[n] = version
        /\ \A m \in Nodes \ {n} : /\ cache'[m] = cache[m] /\ bytesUsed'[m] = bytesUsed[m]
                                  /\ born'[m] = born[m]
    BY <1>0, <2>1, <2>2 DEF PullTypeOK
  <2>4. CachesGood'
    <3> SUFFICES ASSUME NEW m \in Nodes
                 PROVE  /\ Len(cache'[m]) <= MaxCached
                        /\ bytesUsed'[m] = Total(cache'[m])
                        /\ bytesUsed'[m] <= MaxBytes
                        /\ \A j, k \in 1..Len(cache'[m]) : cache'[m][j][1] = cache'[m][k][1] => j = k
      BY <2>3 DEF CachesGood, CacheKeepsBounds
    <3>1. CASE m = n
      BY <2>2, <2>3, <3>1, TotalEmpty, PullAssumption
    <3>2. CASE m # n
      BY <2>3, <3>2 DEF PullInv, CachesGood, CacheKeepsBounds
    <3>3. QED
      BY <3>1, <3>2
  <2>5. RecentCaches'
    <3> SUFFICES ASSUME NEW m \in Nodes
                 PROVE  /\ born'[m] <= version
                        /\ \A j \in 1..Len(cache'[m]) :
                             born'[m] <= cache'[m][j][2] /\ cache'[m][j][2] <= version
      BY <2>1, <1>0 DEF RecentCaches, Since, PullTypeOK, Versions
    <3>1. CASE m = n
      BY <1>0, <2>2, <2>3, <3>1, PullAssumption DEF PullTypeOK, Versions
    <3>2. CASE m # n
      BY <2>3, <3>2 DEF PullInv, RecentCaches, Since
    <3>3. QED
      BY <3>1, <3>2
  <2>6. \A q \in Busy \ {p \in Pulls : node[p] = n} : born'[node[q]] = born[node[q]]
    BY <1>0, <2>3 DEF PullTypeOK, Busy
  <2>7. {p \in Pulls : node[p] = n} \in SUBSET Pulls
    OBVIOUS
  <2>8. QED
    BY <2>1, <2>3, <2>4, <2>5, <2>6, <2>7, Ends
<1>12. CASE UNCHANGED pullVars
  <2>1. UNCHANGED <<version, born, cache, bytesUsed, part, target, disk, pc, reply, node, expected,
                    fetched, handle, begun, promised, shared, tainted>>
    BY <1>12 DEF pullVars, peer, caches, files, pulls, work
  <2>2. PullTypeOK' /\ CachesGood'
    BY <2>1 DEF PullInv, PullTypeOK, CachesGood, CacheKeepsBounds, Busy
  <2>3. RecentCaches' /\ RecentPulls'
    BY <2>1 DEF PullInv, RecentCaches, RecentPulls, Since, Busy
  <2>4. Alone' /\ Placed'
    BY <2>1 DEF PullInv, Alone, Placed, TargetSound, Busy
  <2>5. QED
    BY <2>2, <2>3, <2>4 DEF PullInv
<1>13. QED
  BY <1>1, <1>2, <1>3, <1>4, <1>5, <1>6, <1>7, <1>8, <1>9, <1>10, <1>11, <1>12 DEF PullNext

LEMMA PullInvHolds == PullSpec => []PullInv
  BY InitPullInv, StepPullInv, PTL DEF PullSpec

-----------------------------------------------------------------------------
\* Types; a pull works in a node, writes to a file and never past the shards.
THEOREM PullTypeCorrect == PullSpec => []PullTypeOK
<1>1. PullInv => PullTypeOK
  BY DEF PullInv
<1>2. QED
  BY PullInvHolds, <1>1, PTL

\* pull_model: a pull that had the destination to itself leaves model.bin whole
\* and of the version it reported, whatever other pulls do later.
THEOREM TargetSoundThm == PullSpec => []TargetSound
<1>1. PullInv => TargetSound
  BY DEF PullInv, Placed
<1>2. QED
  BY PullInvHolds, <1>1, PTL

\* ShardCache: get and put keep both bounds and the byte counter exact.
THEOREM CacheKeepsBoundsThm == PullSpec => []CacheKeepsBounds
<1>1. PullInv => CacheKeepsBounds
  BY DEF PullInv, CachesGood
<1>2. QED
  BY PullInvHolds, <1>1, PTL

\* fetch_shard and pull_model: a digest does not match only if the peer
\* republished the model since the pulling node started.
THEOREM MismatchOnlyAfterRepublishThm == PullSpec => []MismatchOnlyAfterRepublish
<1>1. PullInv => MismatchOnlyAfterRepublish
  <2> SUFFICES ASSUME PullInv, NEW p \in Pulls, pc[p] = "fetching",
                      Len(fetched[p]) = NShards, ~(born[node[p]] < version)
               PROVE  DigestMatches(p)
    BY DEF MismatchOnlyAfterRepublish
  <2>1. PullTypeOK /\ p \in Busy
    BY DEF PullInv, Busy
  <2>2. /\ node[p] \in Nodes /\ born[node[p]] \in Nat /\ version \in Nat
        /\ fetched[p] \in Seq(Chunks) /\ expected[p] \in Nat
    BY <2>1, PullAssumption DEF PullTypeOK, Versions, None
  <2>3. /\ Since(node[p], expected[p])
        /\ \A j \in 1..Len(fetched[p]) :
             fetched[p][j][1] = j /\ Since(node[p], fetched[p][j][2])
    BY <2>1 DEF PullInv, RecentPulls
  <2>4. \A v \in Nat : Since(node[p], v) => v = version
    BY <2>2 DEF Since
  <2>5. ASSUME NEW i \in Shards PROVE fetched[p][i] = <<i, expected[p]>>
    <3>1. i \in 1..Len(fetched[p]) /\ fetched[p][i] \in Chunks
      BY <2>2 DEF Shards
    <3>2. fetched[p][i][2] \in Nat /\ fetched[p][i] = <<fetched[p][i][1], fetched[p][i][2]>>
      BY <3>1, PullAssumption DEF Chunks, Versions
    <3>3. QED
      BY <2>2, <2>3, <2>4, <3>1, <3>2
  <2>6. QED
    BY <2>5 DEF DigestMatches
<1>2. QED
  BY PullInvHolds, <1>1, PTL

=============================================================================
