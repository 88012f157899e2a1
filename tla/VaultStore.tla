----------------------------- MODULE VaultStore -----------------------------
(***************************************************************************)
(* The sharded vault on disk (vault/store.py) and the processes that open  *)
(* it and add weight files: the command line, scripts, servers.            *)
(*                                                                         *)
(* Opening the vault creates vault.json with a random salt if there is     *)
(* none; the master key comes from that salt and the passphrase, which the *)
(* environment of each process gives.  add_file writes one encrypted shard *)
(* after the other, wraps the file's data key under the master key, and    *)
(* publishes the manifest last; every file is written to a temporary name  *)
(* and renamed.  Nothing locks the directory, and a process may fail or    *)
(* stop between any two files.  The disk may lose or change shards and     *)
(* keys; vault.json and the manifests are taken to stay as written.        *)
(*                                                                         *)
(* Each add_file makes a fresh data key, so its shards, its key file and   *)
(* its manifest are identified by the number of the add; the hash of a     *)
(* shard is the add and the index it belongs to.  Temporary files are left *)
(* out: no listing or lookup matches their names.  Reading changes         *)
(* nothing: unwrap_key, read_shard_plaintext and verify are operators.     *)
(***************************************************************************)
EXTENDS Integers, SequencesExt, MerkleTree

CONSTANTS
    Processes,   \* processes that open the vault
    Models,      \* model ids
    NShards,     \* shards in a weight file
    Passphrases, \* values of IZETTA_VAULT_PASSPHRASE
    MaxAdds,     \* bound on calls of add_file
    MaxDamage,   \* bound on shard and key files that the disk loses or changes
    MaxSalts     \* bound on salts ever drawn

ASSUME StoreAssumption ==
    /\ NShards \in Nat \ {0}
    /\ MaxAdds \in Nat
    /\ MaxDamage \in Nat
    /\ MaxSalts \in Nat

Adds == 1..MaxAdds

Missing == 0    \* no such file; no add in progress

VARIABLES
    salt,       \* kdf_salt in vault.json, or Missing
    shards,     \* shard files: the add and the index they belong to
    changed,    \* shard files whose bytes have changed
    lost,       \* shard files that have gone
    keys,       \* key files: an add, and the salt and passphrase that its data
                \* key is wrapped under
    spoiled,    \* adds whose key file has gone or changed
    manifests,  \* manifest files: the add that each model's manifest describes
    pc,         \* where each process is
    model,      \* the model each process adds
    add,        \* the add each process works on
    drawn,      \* salts drawn so far
    adds,       \* adds begun so far
    published,  \* history: adds whose manifest was published
    late,       \* history: processes whose model was published after they looked
    initRaced   \* history: a vault.json was written over another one

disk == <<salt, shards, changed, lost, keys, spoiled, manifests>>

history == <<drawn, adds, published, late, initRaced>>

vars == <<disk, pc, model, add, history>>

Init ==
    /\ salt = Missing
    /\ shards = {}
    /\ changed = {}
    /\ lost = {}
    /\ keys = {}
    /\ spoiled = {}
    /\ manifests = [m \in Models |-> Missing]
    /\ pc = [p \in Processes |-> "closed"]
    /\ model \in [Processes -> Models]
    /\ add = [p \in Processes |-> Missing]
    /\ drawn = 0
    /\ adds = 0
    /\ published = {}
    /\ late = {}
    /\ initRaced = FALSE

-----------------------------------------------------------------------------
(***************************************************************************)
(* VaultStore(): _ensure_config.                                           *)
(***************************************************************************)

FindConfig(p) ==
    /\ pc[p] = "closed"
    /\ pc' = [pc EXCEPT ![p] = IF salt = Missing THEN "configuring" ELSE "open"]
    /\ UNCHANGED <<disk, model, add, history>>

\* The new configuration replaces whatever vault.json is there by now.
WriteConfig(p) ==
    /\ pc[p] = "configuring"
    /\ drawn < MaxSalts
    /\ drawn' = drawn + 1
    /\ salt' = drawn + 1
    /\ initRaced' = (initRaced \/ salt # Missing)
    /\ pc' = [pc EXCEPT ![p] = "open"]
    /\ UNCHANGED <<shards, changed, lost, keys, spoiled, manifests, model, add, adds,
                   published, late>>

-----------------------------------------------------------------------------
(***************************************************************************)
(* add_file.                                                               *)
(***************************************************************************)

Unchecked(p, m) ==                                               \* faulty variant
    /\ pc[p] = "open"
    /\ adds < MaxAdds
    /\ adds' = adds + 1
    /\ model' = [model EXCEPT ![p] = m]
    /\ add' = [add EXCEPT ![p] = adds + 1]
    /\ late' = late \ {p}
    /\ pc' = [pc EXCEPT ![p] = "writing"]
    /\ UNCHANGED <<disk, drawn, published, initRaced>>

\* The model must have no manifest yet; then a data key is drawn.
BeginAdd(p, m) ==
    /\ pc[p] = "open"
    /\ manifests[m] = Missing
    /\ adds < MaxAdds
    /\ adds' = adds + 1
    /\ model' = [model EXCEPT ![p] = m]
    /\ add' = [add EXCEPT ![p] = adds + 1]
    /\ late' = late \ {p}
    /\ pc' = [pc EXCEPT ![p] = "writing"]
    /\ UNCHANGED <<disk, drawn, published, initRaced>>

RefuseAdd(p, m) ==
    /\ pc[p] = "open"
    /\ manifests[m] # Missing
    /\ UNCHANGED vars

Written(a) == {i \in 1..NShards : <<a, i>> \in shards \cup changed \cup lost}

\* The loop over the file's chunks.
WriteShard(p) ==
    /\ pc[p] = "writing"
    /\ LET next == Cardinality(Written(add[p])) + 1 IN
         /\ shards' = shards \cup {<<add[p], next>>}
         /\ pc' = [pc EXCEPT ![p] = IF next = NShards THEN "wrapping" ELSE "writing"]
    /\ UNCHANGED <<salt, changed, lost, keys, spoiled, manifests, model, add, history>>

\* _wrap_key derives the master key from the vault.json and the passphrase of
\* this moment.
WrapKey(p) ==
    /\ pc[p] = "wrapping"
    /\ \E phrase \in Passphrases : keys' = keys \cup {<<add[p], salt, phrase>>}
    /\ pc' = [pc EXCEPT ![p] = "publishing"]
    /\ UNCHANGED <<salt, shards, changed, lost, spoiled, manifests, model, add, history>>

PublishEarly(p) ==                                               \* faulty variant
    /\ pc[p] \in {"writing", "wrapping", "publishing"}
    /\ manifests' = [manifests EXCEPT ![model[p]] = add[p]]
    /\ published' = published \cup {add[p]}
    /\ late' = (late \ {p}) \cup
         {q \in Processes \ {p} : model[q] = model[p]
                                  /\ pc[q] \in {"writing", "wrapping", "publishing"}}
    /\ pc' = [pc EXCEPT ![p] = "open"]
    /\ UNCHANGED <<salt, shards, changed, lost, keys, spoiled, model, add, drawn, adds,
                   initRaced>>

Publish(p) ==
    /\ pc[p] = "publishing"
    /\ manifests' = [manifests EXCEPT ![model[p]] = add[p]]
    /\ published' = published \cup {add[p]}
    /\ late' = (late \ {p}) \cup
         {q \in Processes \ {p} : model[q] = model[p]
                                  /\ pc[q] \in {"writing", "wrapping", "publishing"}}
    /\ pc' = [pc EXCEPT ![p] = "open"]
    /\ UNCHANGED <<salt, shards, changed, lost, keys, spoiled, model, add, drawn, adds,
                   initRaced>>

\* add_file raises (disk full, source unreadable, no passphrase): what it has
\* written stays.
FailAdd(p) ==
    /\ pc[p] \in {"writing", "wrapping", "publishing"}
    /\ pc' = [pc EXCEPT ![p] = "open"]
    /\ UNCHANGED <<disk, model, add, history>>

\* The process stops, in the middle of anything.
Stop(p) ==
    /\ pc[p] # "closed"
    /\ pc' = [pc EXCEPT ![p] = "closed"]
    /\ UNCHANGED <<disk, model, add, history>>

\* A shard or a key file goes or changes on disk.
DamageShard(shard) ==
    /\ Cardinality(changed \cup lost) + Cardinality(spoiled) < MaxDamage
    /\ shards' = shards \ {shard}
    /\ \/ changed' = changed \cup {shard} /\ lost' = lost
       \/ lost' = lost \cup {shard} /\ changed' = changed
    /\ UNCHANGED <<salt, keys, spoiled, manifests, pc, model, add, history>>

DamageKey(key) ==
    /\ Cardinality(changed \cup lost) + Cardinality(spoiled) < MaxDamage
    /\ keys' = keys \ {key}
    /\ spoiled' = spoiled \cup {key[1]}
    /\ UNCHANGED <<salt, shards, changed, lost, manifests, pc, model, add, history>>

Next ==
    \/ \E p \in Processes :
        \/ FindConfig(p) \/ WriteConfig(p)
        \/ \E m \in Models : BeginAdd(p, m) \/ RefuseAdd(p, m)
        \/ WriteShard(p) \/ WrapKey(p) \/ Publish(p) \/ FailAdd(p) \/ Stop(p)
    \/ \E shard \in shards : DamageShard(shard)
    \/ \E key \in keys : DamageKey(key)

Spec == Init /\ [][Next]_vars

-----------------------------------------------------------------------------
(***************************************************************************)
(* Reading the model of an add's manifest.                                 *)
(***************************************************************************)

\* unwrap_key: the wrapped key is opened with the vault.json of this moment and
\* the reader's passphrase.
UnwrapsKey(a, phrase) == <<a, salt, phrase>> \in keys

\* read_shard_plaintext and _decrypt_shard; the whole model.
ReadsShard(a, i, phrase) == UnwrapsKey(a, phrase) /\ <<a, i>> \in shards
ReadsAll(a, phrase) == \A i \in 1..NShards : ReadsShard(a, i, phrase)

\* The shards of an add, in the order of their index.
InManifest(a) == [i \in 1..NShards |-> <<a, i>>]

\* verify: the loop that collects the shards that are whole, and their root
\* against the manifest's.
Whole(a) ==
    LET found[i \in 0..NShards] ==
          IF i = 0 THEN <<>>
          ELSE IF <<a, i>> \in shards THEN Append(found[i - 1], <<a, i>>)
          ELSE found[i - 1]
    IN found[NShards]

SkipMissing(a) == \A i \in 1..NShards : <<a, i>> \notin changed                   \* faulty variant
Verify(a) ==
    /\ \A i \in 1..NShards : <<a, i>> \notin lost \cup changed
    /\ MerkleRoot(Whole(a)) = MerkleRoot(InManifest(a))

-----------------------------------------------------------------------------
(***************************************************************************)
(* Properties.                                                             *)
(***************************************************************************)

\* Types; an add in progress has a number that no other process works under.
TypeOK ==
    /\ salt \in 0..MaxSalts
    /\ shards \cup changed \cup lost \subseteq Adds \X (1..NShards)
    /\ keys \subseteq Adds \X (0..MaxSalts) \X Passphrases
    /\ spoiled \subseteq Adds
    /\ manifests \in [Models -> 0..MaxAdds]
    /\ pc \in [Processes -> {"closed", "configuring", "open", "writing",
                             "wrapping", "publishing"}]
    /\ model \in [Processes -> Models]
    /\ add \in [Processes -> 0..MaxAdds]
    /\ drawn \in 0..MaxSalts
    /\ adds \in 0..MaxAdds
    /\ published \subseteq Adds
    /\ late \subseteq Processes
    /\ initRaced \in BOOLEAN
    /\ \A p, q \in Processes :
         pc[p] \in {"writing", "wrapping", "publishing"} =>
           /\ add[p] \in Adds /\ add[p] <= adds
           /\ pc[q] \in {"writing", "wrapping", "publishing"} /\ p # q
                => add[p] # add[q]

\* A model whose manifest was published can be read under a passphrase, then and
\* for as long as a reader may hold that manifest: every shard, unless the disk
\* damaged it or the key, through failures, stops and concurrent adds, unless two
\* processes created the vault at once.
ReadableUnlessInitRaced ==
    initRaced \/ \A a \in published \ spoiled, i \in 1..NShards :
                    \/ \E phrase \in Passphrases : ReadsShard(a, i, phrase)
                    \/ <<a, i>> \in changed \cup lost

\* verify passes every published model that can be read.  Conversely, one that
\* it passes can be read, and under one passphrase only, except that it never
\* looks at a key: it also passes a model whose key file the disk damaged, or
\* whose salt was replaced when two processes created the vault at once.
VerifyTellsReadable ==
    \A a \in published :
        /\ (\E phrase \in Passphrases : ReadsAll(a, phrase)) => Verify(a)
        /\ Verify(a) =>
             \/ initRaced \/ a \in spoiled
             \/ \E phrase \in Passphrases :
                  /\ ReadsAll(a, phrase)
                  /\ \A other \in Passphrases \ {phrase} : ~UnwrapsKey(a, other)

\* A published manifest is replaced only by an add of the same model that had
\* already begun when it was published; add_file refuses a later one.
ReplacedOnlyByOverlap ==
    [][\A m \in Models :
        manifests[m] # Missing /\ manifests'[m] # manifests[m] =>
            \E p \in late : pc[p] = "publishing" /\ model[p] = m
                            /\ manifests'[m] = add[p]]_vars

=============================================================================
