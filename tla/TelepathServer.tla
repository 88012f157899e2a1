--------------------------- MODULE TelepathServer ---------------------------
(***************************************************************************)
(* The serving side of a Telepath node: signed requests arrive from a      *)
(* network that delays, reorders, repeats and loses them; the node checks  *)
(* freshness and replay, opens peer-bound sessions for models its access   *)
(* list allows, and serves shards against a session's budget and lifetime  *)
(* (telepath/node.py, session.py, with the ACL and NonceCache of           *)
(* vault/access.py).                                                       *)
(*                                                                         *)
(* A handler runs between two awaits of one event loop, so it is one       *)
(* action.  Sessions, replay cache and the loaded access rules live in     *)
(* memory and a restart loses them; acl.json and the receipt database are  *)
(* on disk.  Reputation counters and latencies are left out: no decision   *)
(* reads them.                                                             *)
(***************************************************************************)
EXTENDS NonceCache

CONSTANTS
    Peers,        \* requester public keys
    Models,       \* model ids requests may name
    Vault,        \* the model ids with a manifest
    MaxSids,      \* bound on session ids ever handed out
    UsesAcl,      \* whether the node was given an access list
    InitialRules, \* the rules in acl.json at first
    MaxBudget,    \* largest shard budget a session may ask for
    MaxTtl,       \* longest lifetime a session may ask for
    Budgets,      \* budgets that requests carry
    Ttls,         \* lifetimes that requests carry
    Offsets,      \* how far a sender's clock may be ahead of the node's
    MaxSessions,  \* max_sessions of the registry
    MaxUpsets,    \* bound on changes of the access list and restarts, together
    MaxClock,     \* bound on the clock
    NoSession     \* a session id that is not in the registry

ASSUME ServerAssumption ==
    /\ Vault \subseteq Models
    /\ MaxSids \in Nat
    /\ MaxBudget \in Nat /\ MaxTtl \in Nat
    /\ Budgets \subseteq Int /\ Ttls \subseteq Int /\ Offsets \subseteq Int
    /\ UsesAcl \in BOOLEAN
    /\ MaxSessions \in Nat \ {0}
    /\ MaxUpsets \in Nat /\ MaxClock \in Nat

\* Session ids, in the order they are handed out.
Sids == 1..MaxSids

Rules == Peers \X Models

OpenRequests ==
    [kind : {"SESSION_OPEN"}, nonce : Keys, ts : Int, sender : Peers,
     model : Models, budget : Budgets, ttl : Ttls]

ShardRequests ==
    [kind : {"REQUEST_SHARD"}, nonce : Keys, ts : Int, sender : Peers,
     sid : Sids]

Sessions ==
    [peer : Peers, model : Models, budget : Int, used : Nat, opened : Int, ttl : Int]

ASSUME RulesAssumption == InitialRules \subseteq Rules

ASSUME NoSessionAssumption == NoSession \notin Sessions

VARIABLES
    clock,     \* time.time()
    boot,      \* restarts so far
    aclFile,   \* the rules in acl.json
    acl,       \* the rules the node has in memory
    changes,   \* changes of the rules so far
    network,   \* every message sent, each with its own nonce
    seen,      \* the replay cache
    sessions,  \* the registry: a session or NoSession for each session id
    issued,    \* session ids handed out so far
    receipts,  \* receipts of shards served: the messages they answer
    opens,     \* history: the session as it was opened, for each id
    charges,   \* history: how often each message used up budget
    spent,     \* history: the budget each session has used up
    revoked    \* history: since when a rule is missing from acl, or 0

vars == <<clock, boot, aclFile, acl, changes, network, seen, sessions, issued,
          receipts, opens, charges, spent, revoked>>

Live == {s \in Sids : sessions[s] # NoSession}

Init ==
    /\ clock = 0
    /\ boot = 0
    /\ aclFile = InitialRules
    /\ acl = aclFile
    /\ changes = 0
    /\ network = {}
    /\ seen = EmptyCache
    /\ sessions = [s \in Sids |-> NoSession]
    /\ issued = 0
    /\ receipts = {}
    /\ opens = [s \in Sids |-> NoSession]
    /\ charges = [n \in Keys |-> 0]
    /\ spent = [s \in Sids |-> 0]
    /\ revoked = [r \in Rules |-> 0]

-----------------------------------------------------------------------------
(***************************************************************************)
(* The environment: requesters, the operator's command line, time.         *)
(***************************************************************************)

\* Nonces are random: each message gets one that no other message has.  It is
\* stamped with the sender's own clock, which may be ahead of the node's or
\* behind it.
Unused == Keys \ {m.nonce : m \in network}

SendOpen(p, m, b, t, n, d) ==
    /\ n \in Unused
    /\ network' = network \cup
         {[kind |-> "SESSION_OPEN", nonce |-> n, ts |-> clock + d, sender |-> p,
           model |-> m, budget |-> b, ttl |-> t]}
    /\ UNCHANGED <<clock, boot, aclFile, acl, changes, seen, sessions, issued,
                   receipts, opens, charges, spent, revoked>>

SendShard(p, s, n, d) ==
    /\ s <= issued
    /\ n \in Unused
    /\ network' = network \cup
         {[kind |-> "REQUEST_SHARD", nonce |-> n, ts |-> clock + d, sender |-> p,
           sid |-> s]}
    /\ UNCHANGED <<clock, boot, aclFile, acl, changes, seen, sessions, issued,
                   receipts, opens, charges, spent, revoked>>

\* Since when each rule is missing from the rules in memory.
RevokedSince(rules) ==
    [r \in Rules |-> IF r \in acl \ rules THEN clock
                     ELSE IF r \in rules THEN 0 ELSE revoked[r]]

\* allow and revoke on the node's own ACL: memory and then the whole file.
ChangeRules(rules) ==
    /\ boot + changes < MaxUpsets
    /\ changes' = changes + 1
    /\ acl' = rules
    /\ aclFile' = rules
    /\ revoked' = RevokedSince(rules)
    /\ UNCHANGED <<clock, boot, network, seen, sessions, issued, receipts, opens,
                   charges, spent>>

Allow(r) == r \notin acl /\ ChangeRules(acl \cup {r})
Revoke(r) == r \in acl /\ ChangeRules(acl \ {r})

\* The same commands in another process change the file only.
ChangeFile(r) ==
    /\ boot + changes < MaxUpsets
    /\ changes' = changes + 1
    /\ aclFile' = IF r \in aclFile THEN aclFile \ {r} ELSE aclFile \cup {r}
    /\ UNCHANGED <<clock, boot, acl, network, seen, sessions, issued, receipts,
                   opens, charges, spent, revoked>>

Tick ==
    /\ clock < MaxClock
    /\ clock' = clock + 1
    /\ UNCHANGED <<boot, aclFile, acl, changes, network, seen, sessions, issued,
                   receipts, opens, charges, spent, revoked>>

\* The node stops and a new one starts on the same files.
Restart ==
    /\ boot + changes < MaxUpsets
    /\ boot' = boot + 1
    /\ acl' = aclFile
    /\ revoked' = RevokedSince(aclFile)
    /\ seen' = EmptyCache
    /\ sessions' = [s \in Sids |-> NoSession]
    /\ UNCHANGED <<clock, aclFile, changes, network, issued, receipts, opens,
                   charges, spent>>

-----------------------------------------------------------------------------
(***************************************************************************)
(* The session registry.                                                   *)
(***************************************************************************)

NeverOver(session) == FALSE                                      \* faulty variant
ExpiredAtEnd(session) == clock >= session.opened + session.ttl   \* faulty variant
Expired(session) == clock > session.opened + session.ttl

\* _gc: every expired session leaves the registry.
Uncollected == sessions                                          \* faulty variant
Collected ==
    [s \in Sids |-> IF sessions[s] # NoSession /\ Expired(sessions[s])
                    THEN NoSession ELSE sessions[s]]

\* The sessions min() may return: those with the earliest opening time.
Oldest(registry) ==
    {s \in Sids : registry[s] # NoSession /\
        \A t \in Sids : registry[t] # NoSession
            => registry[s].opened <= registry[t].opened}

Size(registry) == Cardinality({s \in Sids : registry[s] # NoSession})

\* The registries that popping the oldest session at capacity can leave.
WithRoom(registry) ==
    IF Size(registry) >= MaxSessions
    THEN {[registry EXCEPT ![s] = NoSession] : s \in Oldest(registry)}
    ELSE {registry}

NoLongest(m) == m.budget \in 1..MaxBudget /\ m.ttl >= 1            \* faulty variant
InBounds(m) == m.budget \in 1..MaxBudget /\ m.ttl \in 1..MaxTtl

\* consume: a session that has expired or spent its budget is not charged.
OverBudget(session) == session.used <= session.budget            \* faulty variant
HasBudget(session) == session.used < session.budget

-----------------------------------------------------------------------------
(***************************************************************************)
(* _handle_connection: verify, accept, then one of the two handlers below. *)
(* The reply echoes the request nonce and is signed again before it is     *)
(* sent; a reply with shard data is known by its receipt.                  *)
(***************************************************************************)

Replayed(m) ==
    LET room == MakeRoom(seen, clock) IN
    IsFull(room) \/ Remembers(room, m.nonce, clock)

Forgetful(m) ==                                                  \* faulty variant
    /\ m \in network
    /\ InWindow(clock, m.ts)
    /\ UNCHANGED <<clock, boot, aclFile, acl, changes, network, revoked, seen>>
Accept(m) ==
    /\ m \in network
    /\ InWindow(clock, m.ts)
    /\ ~Replayed(m)
    /\ seen' = Remember(MakeRoom(seen, clock), m.nonce, clock)
    /\ UNCHANGED <<clock, boot, aclFile, acl, changes, network, revoked>>

Refuse(m) ==
    /\ m \in network
    /\ seen' = IF InWindow(clock, m.ts) THEN MakeRoom(seen, clock) ELSE seen
    /\ InWindow(clock, m.ts) => Replayed(m)
    /\ UNCHANGED <<clock, boot, aclFile, acl, changes, network, sessions, issued,
                   receipts, opens, charges, spent, revoked>>

(***************************************************************************)
(* _open_session.                                                          *)
(***************************************************************************)

\* A node without an access list admits everyone to what its vault holds.
Admitted(m) ==
    /\ m.model \in Vault
    /\ UsesAcl => <<m.sender, m.model>> \in acl

DenyOpen(m) ==
    /\ m.kind = "SESSION_OPEN"
    /\ Accept(m)
    /\ ~Admitted(m)
    /\ UNCHANGED <<sessions, issued, receipts, opens, charges, spent>>

RejectBounds(m) ==
    /\ m.kind = "SESSION_OPEN"
    /\ Accept(m)
    /\ Admitted(m)
    /\ ~InBounds(m)
    /\ sessions' = Collected
    /\ UNCHANGED <<issued, receipts, opens, charges, spent>>

\* The session is registered before its receipt: whether that can be written, or
\* the connection is dropped, the session stays.
OpenSession(m) ==
    /\ m.kind = "SESSION_OPEN"
    /\ Accept(m)
    /\ Admitted(m)
    /\ InBounds(m)
    /\ issued + 1 \in Sids
    /\ LET session == [peer |-> m.sender, model |-> m.model, budget |-> m.budget,
                       used |-> 0, opened |-> clock, ttl |-> m.ttl]
       IN /\ \E registry \in WithRoom(Collected) :
                sessions' = [registry EXCEPT ![issued + 1] = session]
          /\ opens' = [opens EXCEPT ![issued + 1] = session]
    /\ issued' = issued + 1
    /\ UNCHANGED <<receipts, charges, spent>>

(***************************************************************************)
(* _serve_shard.                                                           *)
(***************************************************************************)

\* The session exists, belongs to the sender and can be charged.
AnyHolder(m) ==                                                  \* faulty variant
    /\ Collected[m.sid] # NoSession
    /\ HasBudget(Collected[m.sid])
Chargeable(m) ==
    /\ Collected[m.sid] # NoSession
    /\ Collected[m.sid].peer = m.sender
    /\ HasBudget(Collected[m.sid])

DenyShard(m) ==
    /\ m.kind = "REQUEST_SHARD"
    /\ Accept(m)
    /\ ~Chargeable(m)
    /\ sessions' = Collected
    /\ UNCHANGED <<issued, receipts, opens, charges, spent>>

\* A shard index that is no number: int() raises before anything is charged.
MalformedIndex(m) ==
    /\ m.kind = "REQUEST_SHARD"
    /\ Accept(m)
    /\ sessions' = Collected
    /\ UNCHANGED <<issued, receipts, opens, charges, spent>>

Charge(m) ==
    /\ m.kind = "REQUEST_SHARD"
    /\ Accept(m)
    /\ Chargeable(m)
    /\ sessions' = [Collected EXCEPT ![m.sid].used = @ + 1]
    /\ charges' = [charges EXCEPT ![m.nonce] = @ + 1]
    /\ spent' = [spent EXCEPT ![m.sid] = @ + 1]
    /\ UNCHANGED <<issued, opens>>

\* The index is out of range, the read fails or the receipt cannot be written:
\* a denial or a dropped connection, but the budget is spent.
FailShard(m) ==
    /\ Charge(m)
    /\ UNCHANGED receipts

\* The shard is read, its receipt written, and the data sent.
ServeShard(m) ==
    /\ Charge(m)
    /\ receipts' = receipts \cup {m.nonce}

-----------------------------------------------------------------------------
Environment ==
    \/ \E p \in Peers, n \in Keys, d \in Offsets :
        \/ \E m \in Models, b \in Budgets, t \in Ttls : SendOpen(p, m, b, t, n, d)
        \/ \E s \in Sids : SendShard(p, s, n, d)
    \/ \E r \in Rules : Allow(r) \/ Revoke(r) \/ ChangeFile(r)
    \/ Tick
    \/ Restart

Node ==
    \E m \in network :
        \/ Refuse(m)
        \/ DenyOpen(m)
        \/ RejectBounds(m)
        \/ OpenSession(m)
        \/ DenyShard(m)
        \/ MalformedIndex(m)
        \/ FailShard(m)
        \/ ServeShard(m)

Next == Environment \/ Node

Spec == Init /\ [][Next]_vars

-----------------------------------------------------------------------------
(***************************************************************************)
(* Properties.                                                             *)
(***************************************************************************)

\* Types; session ids are handed out in order and never twice.
TypeOK ==
    /\ clock \in 0..MaxClock
    /\ boot \in 0..MaxUpsets
    /\ aclFile \subseteq Rules
    /\ acl \subseteq Rules
    /\ changes \in 0..MaxUpsets
    /\ network \subseteq OpenRequests \cup ShardRequests
    /\ seen \in [Keys -> Nat]
    /\ sessions \in [Sids -> Sessions \cup {NoSession}]
    /\ issued \in Nat
    /\ opens \in [Sids -> Sessions \cup {NoSession}]
    /\ \A s \in Sids : opens[s] # NoSession <=> s <= issued
    /\ receipts \subseteq Keys
    /\ charges \in [Keys -> Nat]
    /\ spent \in [Sids -> Nat]
    /\ revoked \in [Rules -> 0..MaxClock]

\* A session keeps the peer, model, budget and lifetime it was opened with,
\* counts exactly what was charged to it, and is never charged past its
\* budget, over evictions, failures and restarts.
BudgetKept ==
    \A s \in Sids :
        /\ opens[s] = NoSession => spent[s] = 0
        /\ opens[s] # NoSession => spent[s] <= opens[s].budget
        /\ sessions[s] # NoSession => sessions[s] = [opens[s] EXCEPT !.used = spent[s]]

\* A shard request spends budget a second time at most once, however often the
\* network delivers it, and only in the last instant of its window, when it was
\* first taken as early as its timestamp allowed: the cache forgets a nonce no
\* earlier than that, and after a restart the session is gone.
ChargedAgainOnlyAtWindowEnd ==
    [][\A m \in network : charges'[m.nonce] > charges[m.nonce] /\ charges[m.nonce] > 0 =>
         /\ charges[m.nonce] = 1
         /\ clock = m.ts + MaxSkew]_vars

\* Shard data goes only to the peer that opened the session, within the
\* session's lifetime; and since a revocation does not close sessions, a node
\* with an access list serves a revoked model on for at most the longest
\* lifetime after it.
ServiceJustified ==
    [][\A m \in network : m.nonce \in receipts' \ receipts =>
        LET session == opens[m.sid]
            rule == <<m.sender, session.model>> IN
        /\ session # NoSession
        /\ session.peer = m.sender
        /\ clock <= session.opened + session.ttl
        /\ UsesAcl /\ rule \notin acl => clock <= revoked[rule] + MaxTtl]_vars

\* The registry never holds more than max_sessions sessions, and a session
\* ends only by a restart, by its expiry, or as an oldest one when the registry
\* is full of sessions that have not expired.
SessionsEndProperly ==
    [][/\ Cardinality(Live') <= MaxSessions
       /\ \A s \in Sids : sessions[s] # NoSession /\ sessions'[s] = NoSession =>
            \/ boot' # boot
            \/ clock > sessions[s].opened + sessions[s].ttl
            \/ LET unexpired == {t \in Live : clock <= sessions[t].opened + sessions[t].ttl}
               IN /\ Cardinality(unexpired) >= MaxSessions
                  /\ \A t \in unexpired : sessions[s].opened <= sessions[t].opened]_vars

=============================================================================
