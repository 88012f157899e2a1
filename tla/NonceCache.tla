----------------------------- MODULE NonceCache -----------------------------
(***************************************************************************)
(* The freshness test of a signed request and the bounded replay cache of  *)
(* src/src/vault/access.py, as operators over a cache value.  The cache is *)
(* the dict _seen, from a (sender, nonce) key to the time its entry        *)
(* expires; Absent stands for a key with no entry, as in _seen.get(key, 0).*)
(* Both the vault server and the Telepath node use this class.             *)
(***************************************************************************)
EXTENDS Integers, FiniteSets

CONSTANTS
    Keys,        \* the (sender, nonce) pairs a request may carry
    MaxSkew,     \* max_skew_s of verify_request and protocol.verify
    NonceTtl,    \* ttl_s of the cache
    MaxEntries   \* max_entries of the cache

ASSUME CacheAssumption ==
    /\ MaxSkew \in Nat
    /\ NonceTtl \in Nat \ {0}
    /\ MaxEntries \in Nat \ {0}

Absent == 0

EmptyCache == [k \in Keys |-> Absent]

Entries(seen) == {k \in Keys : seen[k] # Absent}

\* verify: a timestamp is good when it is at most MaxSkew away, either side.
NoOldBound(now, ts) == ts - now <= MaxSkew                        \* faulty variant
InWindow(now, ts) == now - ts <= MaxSkew /\ ts - now <= MaxSkew

AtLeastFull(seen) == Cardinality(Entries(seen)) > MaxEntries      \* faulty variant
IsFull(seen) == Cardinality(Entries(seen)) >= MaxEntries

\* The rebuild of the dict: only the entries that have not expired are kept.
KeepAll(seen, now) == seen                                        \* faulty variant
DropAll(seen, now) == [k \in Keys |-> Absent]                     \* faulty variant
Sweep(seen, now) == [k \in Keys |-> IF seen[k] > now THEN seen[k] ELSE Absent]

MakeRoom(seen, now) == IF IsFull(seen) THEN Sweep(seen, now) ELSE seen

Remembers(seen, key, now) == seen[key] > now

ShortExpiry(now) == now + MaxSkew                                 \* faulty variant
Expiry(now) == now + NonceTtl

Remember(seen, key, now) == [seen EXCEPT ![key] = Expiry(now)]

=============================================================================
