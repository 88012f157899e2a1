---------------------------- MODULE TelepathPull ----------------------------
(***************************************************************************)
(* Pulling a model from a peer (telepath/node.py: open_session,            *)
(* fetch_shard, pull_model; telepath/cache.py): one model, one peer, one   *)
(* destination, and every pull that writes there.                          *)
(*                                                                         *)
(* Pulls are coroutines of one node, which share its shard cache, or run   *)
(* in nodes of their own; all of them share the directory, where each      *)
(* writes model.part, checks the digest of what it wrote, renames it to    *)
(* model.bin and unlinks model.part.  Opening model.part while it exists   *)
(* truncates the file its writer has open.  The peer may replace the model *)
(* it serves by another version under the same name.                       *)
(*                                                                         *)
(* A chunk is the shard <<index, version>>; the peer is honest, and what   *)
(* goes wrong on the way is a request that fails.  All versions have the   *)
(* same number of shards.  Reputation, tiers and receipts are left out.    *)
(***************************************************************************)
EXTENDS Integers, SequencesExt

CONSTANTS
    Nodes,       \* processes that pull
    Pulls,       \* pulls that may be in progress at once
    NShards,     \* shards of the model
    MaxPulls,    \* bound on pulls ever begun
    MaxVersion,  \* bound on versions the peer publishes
    SizeOf,      \* bytes in each chunk
    MaxCached,   \* max_entries of the cache
    MaxBytes     \* max_bytes of the cache

None == 0           \* no such file, node or version
Hole == <<0, 0>>    \* bytes of a file that nobody wrote

Shards == 1..NShards
Versions == 1..MaxVersion
Chunks == Shards \X Versions

\* Files: one for each open pull, model.part and model.bin.
Inodes == 1..(Cardinality(Pulls) + 2)

ASSUME PullAssumption ==
    /\ IsFiniteSet(Pulls)
    /\ None \notin Nodes
    /\ NShards \in Nat \ {0}
    /\ MaxPulls \in Nat
    /\ MaxVersion \in Nat \ {0}
    /\ SizeOf \in [Chunks -> Nat]
    /\ MaxCached \in Nat /\ MaxBytes \in Nat

Empty == [i \in Shards |-> Hole]

VARIABLES
    version,    \* the version the peer serves
    cache,      \* each node's cached chunks, the least recently used first
    bytesUsed,  \* bytes_used of each cache
    part,       \* the file named model.part, or None
    target,     \* the file named model.bin, or None
    disk,       \* the contents of each file
    pc,         \* where each pull is
    node,       \* the node each pull runs in
    expected,   \* the version whose digest each pull's session announced
    fetched,    \* the chunks each pull has written and hashed
    reply,      \* the version in the peer's answer to each pull
    handle,     \* the file each pull writes to
    begun,      \* pulls begun so far
    promised,   \* history: the version of the last pull that renamed
    born,       \* history: the version served when each node started
    shared,     \* history: pulls that overlap another one
    tainted     \* history: the last pull that renamed was one of them

peer == <<version, born>>
caches == <<cache, bytesUsed>>
files == <<part, target, disk>>
work == <<node, expected, fetched, handle, begun>>
pulls == <<pc, reply, work>>
pullVars == <<peer, caches, files, pulls, promised, shared, tainted>>

PullInit ==
    /\ version = 1
    /\ cache = [n \in Nodes |-> <<>>]
    /\ bytesUsed = [n \in Nodes |-> 0]
    /\ part = None
    /\ target = None
    /\ disk = [f \in Inodes |-> Empty]
    /\ pc = [p \in Pulls |-> "idle"]
    /\ node = [p \in Pulls |-> None]
    /\ expected = [p \in Pulls |-> None]
    /\ fetched = [p \in Pulls |-> <<>>]
    /\ reply = [p \in Pulls |-> None]
    /\ handle = [p \in Pulls |-> None]
    /\ begun = 0
    /\ promised = None
    /\ born = [n \in Nodes |-> 1]
    /\ shared = {}
    /\ tainted = FALSE

Busy == {p \in Pulls : pc[p] # "idle"}

-----------------------------------------------------------------------------
(***************************************************************************)
(* ShardCache, keyed by the peer, the model and the index: the version is  *)
(* no part of the key.                                                     *)
(***************************************************************************)

\* The bytes in a sequence of chunks.
Total(chunks) ==
    LET sum[k \in 0..Len(chunks)] ==
          IF k = 0 THEN 0 ELSE sum[k - 1] + SizeOf[chunks[k]]
    IN sum[Len(chunks)]

AnyShard(n, i) == ToSet(cache[n])                               \* faulty variant
Cached(n, i) == {c \in ToSet(cache[n]) : c[1] = i}

Without(chunks, i) ==
    IF \E j \in 1..Len(chunks) : chunks[j][1] = i
    THEN RemoveAt(chunks, CHOOSE j \in 1..Len(chunks) : chunks[j][1] = i)
    ELSE chunks

\* get, on a hit: the entry becomes the most recently used.
Touch(n, c) ==
    /\ cache' = [cache EXCEPT ![n] = Append(Without(@, c[1]), c)]
    /\ bytesUsed' = bytesUsed

\* How many of the oldest entries put evicts: the fewest that bring both
\* bounds back.
ByCountOnly(chunks, bytes) ==                                    \* faulty variant
    CHOOSE k \in 0..Len(chunks) :
        /\ Len(chunks) - k <= MaxCached
        /\ \A j \in 0..(k - 1) : Len(chunks) - j > MaxCached
Evictions(chunks, bytes) ==
    LET fits(k) == /\ Len(chunks) - k <= MaxCached
                   /\ bytes - Total(SubSeq(chunks, 1, k)) <= MaxBytes
    IN CHOOSE k \in 0..Len(chunks) : fits(k) /\ \A j \in 0..(k - 1) : ~fits(j)

\* put: a chunk larger than the cache is not stored, and an older version of
\* it stays.
Put(n, c) ==
    LET entries == Append(Without(cache[n], c[1]), c)
        replaced == Total(cache[n]) - Total(Without(cache[n], c[1]))
        bytes == bytesUsed[n] - replaced + SizeOf[c]
        k == Evictions(entries, bytes)
    IN IF SizeOf[c] > MaxBytes THEN UNCHANGED caches
       ELSE /\ cache' = [cache EXCEPT ![n] = SubSeq(entries, k + 1, Len(entries))]
            /\ bytesUsed' = [bytesUsed EXCEPT ![n] = bytes - Total(SubSeq(entries, 1, k))]

-----------------------------------------------------------------------------
(***************************************************************************)
(* pull_model.                                                             *)
(***************************************************************************)

\* From its last chunk on a pull runs without an await: other coroutines of its
\* node wait.
Finishing(q) ==
    pc[q] = "cleanup" \/ (pc[q] = "fetching" /\ Len(fetched[q]) = NShards)
Scheduled(p, n) == \A q \in Busy \ {p} : node[q] = n => ~Finishing(q)
Running(p) == Scheduled(p, node[p])

\* Files that no name refers to and no pull writes to.
Free == Inodes \ ({part, target} \cup {handle[p] : p \in Busy})

\* The pulls in ps are over and forget what they worked on.
Stop(ps) ==
    /\ pc' = [p \in Pulls |-> IF p \in ps THEN "idle" ELSE pc[p]]
    /\ node' = [p \in Pulls |-> IF p \in ps THEN None ELSE node[p]]
    /\ expected' = [p \in Pulls |-> IF p \in ps THEN None ELSE expected[p]]
    /\ fetched' = [p \in Pulls |-> IF p \in ps THEN <<>> ELSE fetched[p]]
    /\ reply' = [p \in Pulls |-> IF p \in ps THEN None ELSE reply[p]]
    /\ handle' = [p \in Pulls |-> IF p \in ps THEN None ELSE handle[p]]
    /\ shared' = shared \ ps
    /\ begun' = begun

\* open_session, then open("wb") of model.part.
Begin(p, n) ==
    /\ pc[p] = "idle" /\ Scheduled(p, n)
    /\ begun < MaxPulls
    /\ begun' = begun + 1
    /\ node' = [node EXCEPT ![p] = n]
    /\ \E f \in IF part = None THEN {CHOOSE f \in Free : TRUE} ELSE {part} :
        /\ part' = f
        /\ handle' = [handle EXCEPT ![p] = f]
        /\ disk' = [g \in Inodes |-> IF g \in Free \cup {f} THEN Empty ELSE disk[g]]
    /\ pc' = [pc EXCEPT ![p] = "fetching"]
    /\ expected' = [expected EXCEPT ![p] = version]
    /\ fetched' = [fetched EXCEPT ![p] = <<>>]
    /\ shared' = IF Busy = {} THEN {} ELSE shared \cup Busy \cup {p}
    /\ UNCHANGED <<peer, caches, target, reply, promised, tainted>>

\* handle.write and digest.update.
Write(p, c) ==
    /\ disk' = [disk EXCEPT ![handle[p]][Len(fetched[p]) + 1] = c]
    /\ fetched' = [fetched EXCEPT ![p] = Append(@, c)]
    /\ UNCHANGED <<part, target, node, expected, handle, begun>>

Fetching(p) == pc[p] = "fetching" /\ Running(p) /\ Len(fetched[p]) < NShards

\* fetch_shard finds the shard in the cache.
Hit(p) ==
    /\ Fetching(p)
    /\ \E c \in Cached(node[p], Len(fetched[p]) + 1) :
        /\ Touch(node[p], c)
        /\ Write(p, c)
    /\ UNCHANGED <<peer, pc, reply, promised, shared, tainted>>

\* It does not, and asks the peer ...
Ask(p) ==
    /\ Fetching(p)
    /\ Cached(node[p], Len(fetched[p]) + 1) = {}
    /\ pc' = [pc EXCEPT ![p] = "asked"]
    /\ UNCHANGED <<peer, caches, files, work, reply, promised, shared, tainted>>

\* ... which answers with what it serves at that time ...
Serve(p) ==
    /\ pc[p] = "asked"
    /\ pc' = [pc EXCEPT ![p] = "answered"]
    /\ reply' = [reply EXCEPT ![p] = version]
    /\ UNCHANGED <<peer, caches, files, work, promised, shared, tainted>>

\* ... and the answer is cached and written.
Receive(p) ==
    /\ pc[p] = "answered" /\ Running(p)
    /\ LET c == <<Len(fetched[p]) + 1, reply[p]>> IN
        /\ Put(node[p], c)
        /\ Write(p, c)
    /\ pc' = [pc EXCEPT ![p] = "fetching"]
    /\ reply' = [reply EXCEPT ![p] = None]
    /\ UNCHANGED <<peer, promised, shared, tainted>>

\* A request is denied, times out or returns garbage, or a write fails.
Fail(p) ==
    /\ pc[p] \in {"fetching", "asked", "answered"} /\ Running(p)
    /\ pc' = [pc EXCEPT ![p] = "cleanup"]
    /\ UNCHANGED <<peer, caches, files, work, reply, promised, shared, tainted>>

Written(p) == pc[p] = "fetching" /\ Running(p) /\ Len(fetched[p]) = NShards
Always(p) == TRUE                                                \* faulty variant
DigestMatches(p) == \A i \in Shards : fetched[p][i] = <<i, expected[p]>>

\* temporary.replace(target): whatever file has the name model.part by now.
Rename(p) ==
    /\ Written(p) /\ DigestMatches(p) /\ part # None
    /\ target' = part
    /\ part' = None
    /\ promised' = expected[p]
    /\ tainted' = (p \in shared)
    /\ pc' = [pc EXCEPT ![p] = "cleanup"]
    /\ UNCHANGED <<peer, caches, disk, work, reply, shared>>

\* The digest is not the announced one, or model.part is gone.
Reject(p) ==
    /\ Written(p) /\ (DigestMatches(p) => part = None)
    /\ pc' = [pc EXCEPT ![p] = "cleanup"]
    /\ UNCHANGED <<peer, caches, files, work, reply, promised, shared, tainted>>

\* finally: unlink model.part, whoever wrote it.
CleanUp(p) ==
    /\ pc[p] = "cleanup"
    /\ part' = None
    /\ Stop({p})
    /\ UNCHANGED <<peer, caches, target, disk, promised, tainted>>

-----------------------------------------------------------------------------
\* The peer serves another version under the same model id.
Republish ==
    /\ version < MaxVersion
    /\ version' = version + 1
    /\ UNCHANGED <<caches, files, pulls, promised, born, shared, tainted>>

\* A pulling node stops and starts again with an empty cache.
Crash(n) ==
    /\ \E p \in Busy : node[p] = n
    /\ cache' = [cache EXCEPT ![n] = <<>>]
    /\ bytesUsed' = [bytesUsed EXCEPT ![n] = 0]
    /\ Stop({p \in Pulls : node[p] = n})
    /\ born' = [born EXCEPT ![n] = version]
    /\ UNCHANGED <<version, files, promised, tainted>>

PullNext ==
    \/ \E p \in Pulls :
        \/ \E n \in Nodes : Begin(p, n)
        \/ Hit(p) \/ Ask(p) \/ Serve(p) \/ Receive(p)
        \/ Fail(p) \/ Rename(p) \/ Reject(p) \/ CleanUp(p)
    \/ Republish
    \/ \E n \in Nodes : Crash(n)

PullSpec == PullInit /\ [][PullNext]_pullVars

-----------------------------------------------------------------------------
(***************************************************************************)
(* Properties.                                                             *)
(***************************************************************************)

\* Types; a pull writes to a file and never past the shards of the model.
PullTypeOK ==
    /\ version \in Versions
    /\ cache \in [Nodes -> Seq(Chunks)]
    /\ bytesUsed \in [Nodes -> Nat]
    /\ part \in Inodes \cup {None} /\ target \in Inodes \cup {None}
    /\ disk \in [Inodes -> [Shards -> Chunks \cup {Hole}]]
    /\ pc \in [Pulls -> {"idle", "fetching", "asked", "answered", "cleanup"}]
    /\ expected \in [Pulls -> Versions \cup {None}]
    /\ fetched \in [Pulls -> Seq(Chunks)]
    /\ \A p \in Pulls : Len(fetched[p]) <= NShards
    /\ reply \in [Pulls -> Versions \cup {None}]
    /\ handle \in [Pulls -> Inodes \cup {None}]
    /\ node \in [Pulls -> Nodes \cup {None}]
    /\ \A p \in Busy : node[p] \in Nodes
    /\ \A p \in Busy : handle[p] # None /\ expected[p] # None
    /\ begun \in 0..MaxPulls
    /\ promised \in Versions \cup {None}
    /\ born \in [Nodes -> Versions]
    /\ shared \subseteq Pulls
    /\ tainted \in BOOLEAN

\* model.bin is whole and all of the version that the last successful pull
\* reported, through failures, crashes, retries and republished versions and
\* whatever overlapping pulls do later, if that pull had the destination to
\* itself.
TargetSound ==
    ~tainted =>
        /\ target = None <=> promised = None
        /\ target # None => \A i \in Shards : disk[target][i] = <<i, promised>>

\* The cache keeps its bounds, its byte counter is the sum of its entries and
\* no shard is in it twice.
CacheKeepsBounds ==
    \A n \in Nodes :
        /\ Len(cache[n]) <= MaxCached
        /\ bytesUsed[n] = Total(cache[n])
        /\ bytesUsed[n] <= MaxBytes
        /\ \A j, k \in 1..Len(cache[n]) : cache[n][j][1] = cache[n][k][1] => j = k

\* The chunks of a pull fail the digest check only if the peer republished
\* the model since the pulling node started: before the pull, if the cache
\* still holds chunks of the old version.
MismatchOnlyAfterRepublish ==
    \A p \in Pulls :
        pc[p] = "fetching" /\ Len(fetched[p]) = NShards /\ ~DigestMatches(p)
            => born[node[p]] < version

=============================================================================
