# Decillion in TLA+

A verification development for the Decillion repository: TLA+ models of its
stateful components, TLC configurations that check them on small instances, and
TLAPS proofs of all they check but one liveness property. Source paths below are
relative to the repository root; `PROJECT.json` maps every definition to the lines
it models.

## 1. The system

Decillion is a set of Python services that keep encrypted model weights and
objects, hand them out to authorized peers, and leave signed, chained records of
what they did.

| Component | State it keeps | Operations | Talks to |
| --- | --- | --- | --- |
| Signed requests, replay cache (`src/vault/access.py`, `src/telepath/protocol.py`) | `_seen`: (sender, nonce) to expiry time | `verify`, `verify_request`, `NonceCache.accept` | called by the Telepath node (event loop) and the vault server (thread pool) |
| Access list (`src/vault/access.py`) | rules in memory; `acl.json` | `ACL()`, `allow`, `revoke`, `save`, `is_allowed` | every process that opens the vault |
| Vault server (`src/vault/server.py`) | the store, access list, chain and replay cache | `open_model`, `shard` | HTTP clients; threads of one pool |
| Receipt chain (`src/vault/receipts.py`) | SQLite table of rows signed over the previous row | `emit`, `verify_chain` | threads of the server, nodes, command line |
| Sharded vault store (`src/vault/store.py`) | `vault.json`, shards, wrapped keys, manifests | `_ensure_config`, `add_file`, reads, `verify` | processes sharing one directory |
| Merkle trees (`src/vault/access.py`, `src/decillion/receipts.py`) | none | `merkle_root`, `merkle_proof`, `verify_merkle` | store, gateway |
| Telepath node, serving (`src/telepath/node.py`, `session.py`) | session registry, rules, replay cache | `SESSION_OPEN`, `REQUEST_SHARD`, restart | peers over TCP, vault store, receipt chain |
| Telepath node, pulling (`node.py`, `cache.py`) | LRU shard cache; `model.part`, `model.bin` | `open_session`, `fetch_shard`, `pull_model` | a serving node; other pulls through the directory |
| Telepath peers (`node.py`) | `peers` | `connect`, `HELLO`, `broadcast_ram`, `RAM_BROADCAST` | nodes that stop and restart |
| External weight vault (`src/decillion/vault.py`, `models.py`) | marker, directories, lock files, staging, snapshots | `initialize`, `require_capacity`, `download_slot`, `commit_snapshot`, `verify`, `mirror` | processes sharing one volume |
| Object gateway (`src/decillion/api.py`, `engine.py`, `objects.py`, `catalog.py`, `receipts.py`, `keys.py`) | signing key file, objects, SQLite catalog | service start, upload, download, receipt root | API workers sharing a data directory |
| Buddy Proof service (`proof-process/backend.py`, `contract_fixture.py`) | SQLite tables of certificates and events | submit, status, reference decision | HTTP clients; handlers in a thread pool |

What is hard here, and what the properties are about:

- **Threads without locks.** The vault server's endpoints run in a thread pool,
  over a replay cache and a receipt chain whose check and update are separate
  statements, and over one SQLite connection whose transaction they share.
- **Processes without locks.** The store, the weight vault and the gateway rely
  on the order of file operations and on rename, link or exclusive create.
- **An unreliable network.** Signed requests can be delivered late, repeatedly
  and out of order, also after a restart that lost the replay cache.
- **Waiting for others.** A broadcast awaits one peer after the other while the
  dictionary of peers, the peers and the age of the message change.
- **Failures in the middle.** Budgets are charged before a shard is read,
  sessions registered before their receipt, objects stored before their catalog
  row.
- **Limits.** Replay cache, session registry, shard cache, quota and reserve.
- **Ends of intervals.** Skew, TTL and session lifetime compare clock readings
  that were taken at different moments.

`PROJECT.json` lists these as hazards, each at its line and with the properties
that would notice it going wrong.

## 2. Modules

| Module | Models | Checked by | Proofs |
| --- | --- | --- | --- |
| `NonceCache` | the timestamp window and the replay cache, as operators | (extended below) | |
| `ReplayGuard` | `accept` step by step, in turns or in threads, with a moving clock | `replay_guard`, `replay_threads` | `ReplayGuardProofs` |
| `TelepathServer` | serving side; extends `NonceCache` | `telepath_server` | `TelepathServerProofs` |
| `ReceiptChain` | `emit` statement by statement | `vault_server`, `receipt_fork` | `VaultServerProofs` |
| `AclFile` | the access list, file operation by file operation | `vault_server` | `VaultServerProofs` |
| `VaultServer` | the endpoints of the vault server; composes `AclFile`, `ReceiptChain`, the replay cache and the command line | `vault_server` | `VaultServerProofs` |
| `MerkleTree` | `merkle_root` as a function of a list | (extended below) | |
| `MerkleProof` | `merkle_proof` and `verify_merkle`, round by round | `merkle` | `SovereignStorageProofs` |
| `VaultStore` | creating the vault, `add_file` file by file, reading, `verify`; extends `MerkleTree` | `vault_store` | `VaultStoreProofs` |
| `WeightVault` | `initialize`, `mirror`, `verify` | `weight_vault` | `WeightVaultProofs` |
| `TelepathPull` | pulling side and shard cache | `telepath_pull` | `TelepathServerProofs` |
| `TelepathMesh` | peers and `broadcast_ram`, with timeouts and fairness | `telepath_mesh` | `TelepathMeshProofs` |
| `SovereignStorage` | the object gateway; extends `MerkleTree` | `sovereign_storage` | `SovereignStorageProofs` |
| `CertificateLedger` | abstract: what the Buddy Proof service promises, in atomic steps | | |
| `ProofBackend` | the Buddy Proof service; refines `CertificateLedger` | `proof_backend` | `ProofBackendProofs` |

Each `MC_<module>` extends its module and adds model values, functions for the
configuration and a symmetry set. Definitions marked *faulty variant* are
plausible mistakes in the code; nothing of a specification uses them.
`PROJECT.json` pairs each property with one that violates it.

### How the models correspond to the code

**Steps.** One action is what runs without another actor being able to
intervene. On a Telepath node this is a handler between two awaits; in a thread
pool, one statement that touches shared state; between processes, one file
operation. `_handle_connection` in `TelepathServer` is therefore one action for
each outcome (`Refuse`, `DenyOpen`, `RejectBounds`, `OpenSession`, `DenyShard`,
`MalformedIndex`, `FailShard`, `ServeShard`), while `emit` in `ReceiptChain` is
`Select`, `Insert`, then `Commit` or `Fail`.

**ReplayGuard.** A handler verifies the timestamp at one clock reading
(`Verify`), reads the clock again in `accept` (`EnterAccept`), looks the key up
(`Lookup`) and stores it (`Record`). When the cache is full it first rebuilds it:
the comprehension reads the dict (`EndSweep`), the attribute is assigned and the
length tested once more (`Assign`). In the thread pool another thread may store a
key in between. That key is lost with the old dict, or the comprehension notices
that the dict grew and raises `RuntimeError` (`FailSweep`), which answers the request
with a 500. `overlapped` remembers that two handlers were in progress at once: in an
event loop none ever are, so what holds unless it is set is what a node has, and
what holds in any case is what the vault server has, too. `MaxLag` bounds the time
between the two readings. A restart empties the cache; the histories `times`, `last`
and `overlapped` start again there. Signatures are abstracted: a request in the
model is genuine.

**TelepathServer.** The network is the set of all messages ever sent, so each can
be delivered any number of times, in any order, or never. A message is dated by its
sender's clock, which differs from the node's by a member of `Offsets`, behind or
ahead. A restart loses sessions, replay cache and the rules in memory and reloads
`acl.json`; a node without an access list (`UsesAcl` is FALSE) admits everyone.
Session ids are random in the code and numbered in the model. The handler reads the
clock once here; what may pass between two readings is `ReplayGuard`'s `MaxLag`.
`MaxUpsets` bounds rule changes and restarts together. `opens`, `charges`, `spent`
and `revoked` are history.

**ReceiptChain.** `ConnOf` says which emitters share a connection. Threads on one
connection see, commit and roll back each other's uncommitted rows; SQLite
allows one writing connection. A row is its identity and its predecessor's; the
HMAC covers both.

**AclFile.** Names refer to inodes, because `save` always uses the temporary name
`acl.json.tmp`: opening it truncates what another process may be writing, and
`replace` moves whatever the name refers to by then. A process may stop between
any two file operations. `aclRaced` remembers that a save began during another
one or from rules older than the file; `allowed` adds up the changes that returned.

**VaultServer.** Two threads take a request from the manifest lookup to the answer:
`Begin`, `Lookup`, then `Deny`, `FailRead` or `Proceed`, then the steps of `emit`.
The server uses the rules it loaded when it started. `Add` is `cmd_add`, which
emits its receipt on another connection. Everything happens within the lifetime
of a nonce and below the cache's bound; expiry and the rebuild of a full cache are
the subject of `ReplayGuard`. `released` is the history of
answers. `AdminStep` stands for `cmd_init` and for programs that call `allow` and
`revoke`; the repository's command line has no command for these two.

**MerkleTree, MerkleProof.** A hash of two hashes is the pair, so hashes are
injective and a leaf is never mistaken for an inner node, which holds for SHA-256
as long as leaves are digests. Both implementations of the root agree up to the
root of the empty list (`EmptyRoot`).

**VaultStore.** A process may fail or be killed between any two file operations;
files written before stay. This is the stop of a process, not loss of power: a
rename that returned is durable. An add is a number; its shards, key and manifest
carry it. A wrapped key remembers the salt and the passphrase it was wrapped under,
and each process may have a passphrase of its own. The disk may change or lose
shards (`DamageShard`) and key files (`DamageKey`); `vault.json` and the manifests
stay as written.

**WeightVault.** Stops are as in `VaultStore`. Space is counted in units: files,
manifests (`ManifestSize`), staging and what is left of killed downloads. The size
that a download turns out to have may differ from the announced one, or from another
download of the revision (`allow_patterns`). The destination may hold some of the
three directories before `initialize` (`Foreign`); `mkdir` fails on those, on one
that another process made, and for whatever else the system reports
(`FailInitialize`). `Damage` changes or removes files of what is published; `told`
is what `mirror` reports.

**TelepathPull.** Files are inodes: opening `model.part` truncates the inode it
names, a rename moves the name, and a handle keeps its inode. The peer is honest
and may publish a new version; all versions have the same number of shards.

**TelepathMesh.** The broadcasting node is seen from inside, its peers as addresses
where nodes stop and start under a new key (the command line makes one at each
start). `entry` and `size` are the state of the iterator over `peers`; a request
is `connecting`, then `waiting`. Time is counted in units of the timeout's
granularity, and `age` is the age of the one message that all peers get. Every
address has a clock of its own, `offset` away from the broadcasting node's: it
verifies the message by that clock and dates its answer by it, and the broadcasting
node verifies the answer in turn. A peer's replay cache may be full, which refuses
the message like a late one.

**SovereignStorage.** The signing key is created by a hard link of a private
file, so the first wins and the others load it. Upload is two actions (object,
then catalog); download and `receipt_root` are operators that give the answers
the code can produce. A receipt is dated before it is cataloged, by a clock that
may read the same for two workers. The operator may replace the master key.

**ProofBackend.** The first INSERT takes the write lock; certificate and event are
uncommitted until the commit, and vanish with a failure, a timeout or a crash.
Submissions are one that meets every requirement of `submit`, for each
requirement one that misses it, and some under contracts that lack a list: a list is
optional, `submit` takes an absent one for empty, and the reference decision raises
`KeyError` where it comes to one (`Decide`). `CertificateLedger` has only what is
committed and answered, and certifies in one step; `ImplementsLedger` is that
specification as a property of this one.

**Left out of these modules.** Reputation, tiers, latencies and log output, which
no decision reads; temporary file names that are random; the size limit on frames
(4 MiB, against shards of 1 MiB by default). Destination paths of pulls are
distinct for distinct models, although the code maps `a/b__c` and `a__b/c` to one
name. `TelepathServer` has no `*` rule (it is in `VaultServer`).

## 3. Runs

All runs are exhaustive for their bounds. The interleavings, failures and
restarts in question are over within the named number of operations, which the
violating variants confirm: each property is violated under the same
configuration as soon as the code it is about is changed.

| Run | Instance | Distinct states | Shows |
| --- | --- | --- | --- |
| `replay_guard` | 2 handlers, 3 keys, 1 timestamp, cache of 2, skew 1, TTL 2, lag 1, clock to 4, 1 restart | 1,485,726 | unless handlers overlap, a request is accepted again in a boot only in the last instant of its window, acceptances of a key are a TTL apart and the cache is bounded; overlap or not, refusals are justified, so a full cache recovers |
| `telepath_server` | 2 peers, clocks 1 ahead, skew 1, TTL 2, 3 session ids, registry of 2, lifetimes asked 1 to 3 (bound 2), budget 2, 1 change of a rule or restart, clock to 3 | 1,918,177 | budgets kept; a request charged again only in the last instant of its window, and then for the last time; data only for the session's peer and lifetime, to a revoked one for a bounded time; sessions end for a reason and within the registry's bound |
| `vault_server` | 2 threads, the add command, 1 administrator, 2 senders, 1 model, a rule for it and one for all, 2 rows, 1 change of rules, 2 starts | 947,100 | every answer has its receipt, was allowed when the server started and is given once; `acl.json` holds what returned changes add up to; forks only by overlap, no transaction outlives its emit |
| `vault_store` | 3 processes, 2 models, 2 passphrases, 2 shards, 3 adds, 2 salts, 1 damaged shard or key | 2,976,481 | published models readable unless their key was damaged or the vault was created twice; `verify` tells which are, up to keys; manifests replaced only by overlapping adds |
| `weight_vault` | 2 processes, 3 licensed revisions and 1 other, sizes 0 to 2, manifests of 1, three kinds of destination, disk 8, quota 3, reserve 3, 3 mirrors | 1,946,268 | one writer for each revision; locks justified; vault complete up to directories that were there before, unless initialization was cut short; snapshots whole, licensed and fixed; limits kept up to a manifest by mirrors that do not overlap; reports true |
| `telepath_pull` | 2 nodes, 2 pulls at once, 3 in all, 3 shards, 2 versions, cache of 2 entries and 3 bytes | 365,818 | `model.bin` whole and of the promised version; cache bounds and byte counter; digest failures explained |
| `telepath_mesh` | 2 addresses, 2 starts each, 1 broadcast, timeout 1, skew 3, clocks 4 behind or 1 ahead, full caches | 597,408 | a broadcast that returns was answered by every peer it knew, one that stopped reached those before; refusals that go unnoticed need a full cache or a late message; every broadcast ends |
| `sovereign_storage` | 2 workers, 3 tokens of 2 owners, an unknown token and none, 2 names, 2 uploads, 3 keys, 2 masters, list limit 2 | 427,358 | one signing key; returned receipts honoured by every worker, for their owner's tokens and name only; orphans only by failures; the receipt root shows every new receipt |
| `proof_backend` | 3 handlers, 2 claims, submissions missing one requirement each, contracts without one of the lists, 4 requests | 356,365 | one certificate for each claim; events match certificates; 409 only for a claim that is issued; what the reference decision answers on everything certified; implements `CertificateLedger` |
| `merkle` | all lists of 1 to 7 leaves over 2 hashes, every index and claimed leaf | 21,202 | proofs verify for their leaf and no other; root and length fix the list |

Two peers, threads or processes suffice for the races, which are between a check
and an update; the third handler, process or message brings the cases in which a
limit of two is reached or a bystander is affected. In `vault_server` the second
row lets two emits overlap (the add command may stop before its own). In
`weight_vault` three licensed revisions are needed for two killed downloads to
bring the third to the reserve. Seven leaves reach every pattern of odd and even
levels up to three levels. Timing bounds keep the ratio of the deployed values
where it matters: where requests expire the TTL is twice the skew, as 600 s and
300 s are (`replay_threads` has a longer one, so that the race alone is left); in
`telepath_mesh` the timeouts of two entries exceed the skew, as those of six do with
30 s and 300 s. In `telepath_server` lifetimes shorter than the run let sessions
expire, be evicted and outlive a revocation, and clocks ahead by the whole skew let a
message pass for as long as the window is.
Deadlock is not checked where `CHECK_DEADLOCK FALSE` stands: the bounds on
operations, and services that merely have nothing to do, end behaviours there.

### Fairness

Only `TelepathMesh` assumes any: `WF_vars(Tick)` and `WF_vars(Step(b))` for each
broadcast. asyncio's event loop runs every callback that is ready, and
`asyncio.wait_for` puts a timer on connecting and on receiving. Sending and
closing wait without a timer, but the frame of a broadcast is a few hundred bytes
and fits the socket's buffer, so neither waits for the peer. Nothing is assumed
of other nodes: they may stop or never answer. On that basis `BroadcastEnds` is
a liveness property of the code. No such property is stated for pulls, whose
number of rounds depends on the peer, for a connection on the serving side, where
`recv_frame` has no timeout (`src/telepath/node.py:79`), or for SQLite's lock,
which gives no fairness.

### Disagreements with the documentation

Two runs show the code breaking what the repository says of it (`findings` in
`PROJECT.json` has the quotations):

- `replay_threads`: two threads of the vault server look up the same nonce before
  either stores it; both requests are accepted (`src/vault/access.py:88`).
- `receipt_fork`: two threads or processes read the same last signature; both rows
  commit and `verify_chain` fails from then on (`src/vault/receipts.py:61`).

Further exposures appear as the exceptions that passing properties name:

- the cache keeps a nonce for 600 s, exactly as long as the window in which its
  timestamp passes (`src/vault/access.py:90`), while `docs/SHARDED_WEIGHT_VAULT.md:12`
  says that reused nonces are rejected. A request taken when it was dated 300 s ahead
  is taken again 600 s later, with one handler and no restart, and a Telepath
  session is charged for it twice (`TwiceOnlyAtWindowEnd`,
  `ChargedAgainOnlyAtWindowEnd`: then, and at no other time);
- `status` counts manifests as used and `require_capacity` is asked for the files only
  (`src/decillion/vault.py:174` and `200`): one mirror that fills the quota exactly
  leaves the vault above it by its manifest. Mirrors of two revisions that overlap
  exceed quota or reserve together by more (`PublishKeepsLimits`);
- `submit` never reads `required_evidence` (`proof-process/backend.py:109-114`), under
  which the reference decision and its fixture name what an attempt must have, and
  takes any list that a contract lacks for empty, where the reference decision raises
  `KeyError` (`CertifiedAsDecided`);
- `verify` looks at no key: it passes a model whose key file was lost or changed, and
  one whose salt was replaced when two processes created the vault at once
  (`ReadableUnlessInitRaced`, `VerifyTellsReadable`);
- `initialize` writes its marker before its directories: where a `mkdir` fails, also on
  a directory that was there, the marker makes every later `initialize` skip the rest
  (`CompleteUnlessCut`);
- saves of `acl.json` that overlap, or that start from old rules, lose changes or
  publish a file that is not whole (`FileKeepsChanges`, `ReleasedAllowed`);
- a rollback takes back the receipt of another thread, whose answer goes out
  (`ReleasedReceipted`);
- a peer whose replay cache is full refuses a broadcast that was on time, with an
  ERROR that the sender counts as delivered (`RefusedOnlyLate`);
- a peer that restarts under a new key stops every later broadcast at its old entry
  (`BroadcastReach` says what was reached by then).

## 4. Proofs

All proofs hold for arbitrary sets of keys, handlers, emitters, processes, peers
and so on, and for all values of the numeric constants that satisfy the named
`ASSUME`s, which say little more than that bounds are numbers. Each module has
the same shape: an inductive invariant (`IInv` or a named one), one lemma per part
or per action that steps keep it, and theorems that read a property off it. TLC
checked every one of these invariants on the run's instance first.

**Loops and sums.** What a loop of the code computes is a recursive function here
(`Levels`, `Whole`, `Total`) or a fold over a set (`Used`, `Staged`). A property of
such a value is proved with `NatInductionSet`: a set of numbers that contains 0 and
with each number the next one contains all of them, because a smallest number
outside it would have a predecessor inside. It follows from the well-foundedness of
`<` and takes the property as a set, so it can be cited where the library's
induction theorems, which take an operator, cannot. That the recursive function
exists is proved the same way, once for each, by extending it one number at a time.

**ReplayGuardProofs.** No theorem assumes a schedule. Three of the properties speak of
a boot in which handlers have not overlapped so far; `OverlapStays` and the lemma for
`Restart` carry their invariants through the others. One theorem has two hypotheses,
which the deployed values meet: `TtlCoversWindow` is `NonceTtl >= 2 * MaxSkew` (600 s
and 300 s), `LagBelowWindow` is `MaxLag < 2 * MaxSkew`: from `verify` to the end of
`accept`, which on a node lie between two awaits, less than ten minutes pass.

- `TypeCorrect`: types and ranges.
- `CacheBoundedThm`: at most `max_entries` keys. The bound is not inductive by itself;
  `BoundInv` adds that a handler past the capacity test has room for one more key, and
  that a rebuild is no larger than the cache was.
- `AcceptancesSpacedThm`: two acceptances of a key within a boot are at least a TTL
  apart.
- `TwiceOnlyAtWindowEndThm` (both hypotheses): a request is accepted at most twice
  within a boot, and a second time only at the last instant of its window. `MemoryInv`
  carries both: `Remembered` says that the cache has each key's last acceptance until
  its TTL has passed, `InsideWindow` that a request was not accepted before its window
  opened, `HandlerInv` what a handler in progress knows of the key and of its rebuild.
- `RefusalsJustifiedThm` (overlap or not, so in the thread pool, too): a request is
  refused only for a recent acceptance of its key or `max_entries` recent acceptances.
  `EntriesJustified` says that no entry of the cache, or of a rebuild of it, outlives
  its key's last acceptance by more than the TTL; that inserts get lost does no harm.

**VaultServerProofs.** First the receipt chain by itself (`Spec`), under
`ChainAssumption` only (every emitter has a connection, the bound is a number).

- `TypeCorrect`: types, and no row is in the table twice. The strengthening
  `IdsOnce` keeps the ids of committed, uncommitted and merely signed rows apart;
  with `OneWriter` it survives a commit that publishes the rows of several threads.
- `OneWriterThm`: one connection at most has uncommitted rows, and an emit is in
  progress on it.
- `ForkOnlyByOverlapThm`: the links verify as long as no two emits overlapped,
  whatever failed or crashed. `Quiet` says what holds until an overlap: one busy
  emitter at most, whose row follows the last committed one and is all that is
  uncommitted.

Then the composition (`ServerSpec`). `ImplementsReceiptChain` proves
`ServerSpec => Spec`: whatever threads, the add command, administrators and
restarts do is a step of the chain or leaves it alone. `ServerOneWriter` and
`ServerForkOnlyByOverlap` follow from it.

- `FileKeepsChangesThm`: `acl.json` holds what the returned changes add up to,
  until saves race. `AclInv` needs to know the inodes: no inode has both names, and
  until a race (`SavesApart`) the one process that saves writes to the file that
  the temporary name still refers to, from rules that are those of `acl.json` and
  its own change.
- `ReleasedReceiptedThm`, `ReleasedOnceThm`, `ReleasedAllowedThm`: what an answer
  that went out implies. `ServerInv` follows a request from `Begin` to its answer:
  `RowsApart` and `RowsPlaced` say where the row of each emit is (in the shared
  transaction, in the table because another thread committed it, or undone by
  another thread), `NoncesApart` that a thread past the lookup is the only one with
  its nonce, `RulesKept` that the server's rules are those of its start. The last
  two hold until the race that the property names as its exception.

**TelepathServerProofs.**

- `TypeCorrect`; `BudgetKeptThm`; `ServiceJustifiedThm`, for which `Entitled` says
  that the rule under which a session was opened is loaded or went missing later;
  `SessionsEndProperlyThm`, for which lemmas say what `_gc` and the eviction of the
  oldest session remove from the registry, in terms of its cardinality.
- `ChargedAgainOnlyAtWindowEndThm` has the hypothesis `TtlCoversWindow`, as above: a
  request is charged at most twice, and again only at the moment `ts + MaxSkew`.
  `Billed` gives the reasons for which a charged message can do no more: its nonce is
  in the cache until its window ends, and past that once it was charged again
  (`KeptUntil`), or its session left the registry with the cache that a restart
  emptied (`Settled`).

Then the pulling side (`PullSpec`), whose variables are others; the two share the
module, not the argument. `PullInv` is the invariant, and TLC checked it.

- `PullTypeCorrect`: types of pulls, files and caches.
- `CacheKeepsBoundsThm`: `put` drops the old entry of a shard, appends the new one
  and evicts the oldest ones until both bounds hold. The lemmas on `Total` say what
  removing, appending and dropping a prefix do to the byte counter, and that some
  prefix, at most the whole list, is enough to drop.
- `TargetSoundThm`: `Alone` says that a pull that overlaps no other has `model.part`
  and its inode to itself and that the inode holds what was fetched so far, `Placed`
  that nobody writes to the inode of `model.bin` any more. Both stop at the overlap
  that `tainted` remembers.
- `MismatchOnlyAfterRepublishThm`: `RecentCaches` and `RecentPulls` say that every
  chunk in a cache or a pull is of a version the peer served since the node started,
  so if there was only one, all chunks agree with the manifest.

**TelepathMeshProofs.** `BroadcastReachThm` and `RefusedOnlyLateThm`, without
fairness and for any number of addresses, restarts and broadcasts. `OneRequest`
says that a running broadcast has one message under way at most and was handled by
nobody but the entries it passed and the one that answers now, `Addressed` that
messages go only where the loop has come to, `OnTime` that the message is no older
than twice the timeout for each entry so far. `Excused` says what an ERROR shows of the
peer: that its cache was full, that the message was late by its clock, or that its
clock is so far behind that the answer, dated while the request waited
(`DatedInWait`), is refused in turn.

**VaultStoreProofs.** `TypeCorrect`, `ReadableUnlessInitRacedThm`,
`ReplacedOnlyByOverlapThm` and `VerifyTellsReadableThm`. `InOrder` says that
shards are written before the key and the key before the manifest, `OneSalt` that
there is one salt until two processes create the vault at once, `OneKey` that an add
has one wrapped key, or had one that was damaged, from before its manifest on, `Fresh`
that no number of an add is used again, `LateKnown` that whoever works on a published
model began before it was published, `IntactOrNot` that a shard that was damaged
is no longer among the intact ones. `verify` collects the shards that are whole in
a loop (`Whole`) and compares the root of what it found; by induction over the
shards, that is all of them, in order, when none is bad.

**WeightVaultProofs.** `TypeCorrect`, `SlotsExclusiveThm`,
`CompleteUnlessCutThm`, `SnapshotsWholeAndFixedThm`, `ReportsTrueThm`,
`PublishKeepsLimitsThm`. Whoever is in a slot has its lock (`Slots`). Directories are
made in order, behind the marker (`InOrder`), and as long as one is missing somebody is
about to make it, until a process is killed or fails there (`InitializeGoesOn`). What is
about to be renamed passed the license gate and is whole; only published revisions can
be damaged.

`PublishKeepsLimitsThm` bounds what is published by the quota and one manifest, and
what is free from below in the same way. It needs that the snapshot still fits when it is
renamed, some steps after `require_capacity` said so. `Fits` says that it does, up
to its manifest, for whoever is past that check, `Unshared` that such a mirror is
the only one until another begins beside it, which is when the property stops
promising anything. Sums over revisions and processes enter through one lemma,
`SumChanges`: changing one snapshot or download changes the sum by the difference of
its sizes (`VaultAssumption` has the two sets finite, as the directories of a volume
are). `TypeCorrect` includes that free space stays between 0 and the volume, with
the litter of killed processes counted.

**SovereignStorageProofs.** `TypeCorrect`, `OneSignerThm`, `OrphansOnlyByFailureThm`,
`ReturnedReadableThm`. Receipts that are signed and not yet cataloged have the key
of the file and an id that neither the catalog nor another worker has; the object
of every upload is intact, damaged or lost.

Then the Merkle trees (`ProofSpec`), for lists of every length.

- `ProofSoundThm`: the invariant `ProofInv` says that the siblings collected so far
  lead from the leaf to its ancestor in the level that the loop is at (`OnTheWay`),
  and that checking carries the claimed leaf up the same way (`Carries`).
- `RootFixesLeavesThm`: two lists of one length are compared level by level, from the
  root down; lists of different lengths by where the padding of odd levels repeats
  leaves. The hypothesis `NoLeafIsAPair` says that no leaf is the hash of two hashes:
  leaves are hashes of shards or receipts. Without it a root is also the root of the
  list of one leaf that it is, which `merkle_root` cannot tell apart.
- `RootTracksReceiptsThm`: `receipt_root` compares the list an owner gets before and
  after an upload. Here the leaves are receipts, which have more than two fields, so
  no hypothesis is needed. `NewestIs` says which receipts the limit cuts off,
  `CatalogGrows` that only `AddReceipt` changes the catalog, by one receipt.

**ProofBackendProofs.** `TypeCorrect`, `IssuedOnceThm`, `EventsMatchThm`,
`RefusalsJustifiedThm`, `CertifiedAsDecidedThm`, `ImplementsLedgerThm`.
`Transaction` says what the holder of the write lock has written (the certificate of
its request, for a claim that has none, and its event, linked to the last committed
one), `Numbered` that requests under way, refused and issued are different ones. In
`ImplementsLedgerThm` a commit is the ledger's `Certify` and a refusal its
`TurnAway`: `Transaction` makes the two statements one step, and every other action
is a stutter.

**Only model-checked**, and why:

- `BroadcastEnds`: liveness under fairness, out of this prover's reach.
- `AcceptedAtMostOnce` (`replay_threads`) and `ChainVerifies` (`receipt_fork`) are
  false and stay counterexamples.

## 5. Not modelled

- Transport framing: pure I/O over a byte stream; a frame arrives whole or not.
- Reputation and tiers: display only.
- Command lines and scripts beyond the processes that `VaultServer` and
  `TelepathMesh` start: argument parsing, printing, smoke tests.
- `discover` (one read of a model hub), `stats`, listings and health endpoints.
- `verify` of the Buddy Proof service and the phone verification bridge (two
  identical copies): pure functions that check signatures and digests of one
  document. Nothing is kept between calls, so their answers are the cryptography's.
- The matrix accelerator (numeric kernels), the bounded run tool (writes files
  once, in one process), the web page and the gateway documents.

The cryptography is trusted: a signature identifies its signer and an
authenticated ciphertext its key and context.

## 6. Plan

The components that keep state are modelled, and all properties that passing runs
check are proved, except `BroadcastEnds`. What could follow: an abstract
specification of the receipt chain, with the forks that overlapping emits make, as
`CertificateLedger` is one of the Buddy Proof service; and a server that runs the
vault's endpoints at the bound of the replay cache, which `VaultServer` leaves to
`ReplayGuard`.
