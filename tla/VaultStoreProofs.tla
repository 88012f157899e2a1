-------------------------- MODULE VaultStoreProofs --------------------------
(***************************************************************************)
(* Proofs about VaultStore, for any processes, models, numbers of shards,  *)
(* adds, damaged files and salts.                                          *)
(***************************************************************************)
EXTENDS VaultStore, FiniteSetTheorems, WellFoundedInduction, TLAPS

(***************************************************************************)
(* Induction over the natural numbers, for a set of numbers: what a        *)
(* recursive function computes is shown with it.                           *)
(***************************************************************************)

Below == {pair \in Nat \X Nat : pair[1] < pair[2]}

LEMMA NatInductionSet ==
    ASSUME NEW S, 0 \in S, \A n \in Nat : n \in S => n + 1 \in S
    PROVE  \A n \in Nat : n \in S
<1> SUFFICES ASSUME Nat \ S # {} PROVE FALSE
  OBVIOUS
<1>1. IsWellFoundedOn(Below, Nat)
  BY NatLessThanWellFounded, Zenon DEF Below, OpToRel
<1>2. PICK n \in Nat \ S : \A m \in Nat \ S : <<m, n>> \notin Below
  BY <1>1, WFMin
<1>3. n # 0 /\ n - 1 \in Nat /\ n - 1 < n /\ (n - 1) + 1 = n
  OBVIOUS
<1>4. n - 1 \in S
  BY <1>2, <1>3 DEF Below
<1>5. QED
  BY <1>3, <1>4

-----------------------------------------------------------------------------
(***************************************************************************)
(* The inductive invariant.                                                *)
(***************************************************************************)

Busy(p) == pc[p] \in {"writing", "wrapping", "publishing"}

\* The number of an add is not used again: nothing is on disk under a number
\* that was not given out, and nobody works on an add that is published.
Fresh ==
    /\ \A p \in Processes : add[p] <= adds
    /\ \A shard \in shards \cup changed \cup lost : shard[1] <= adds
    /\ \A key \in keys : key[1] <= adds
    /\ \A a \in spoiled : a <= adds
    /\ \A a \in published : a <= adds /\ \A p \in Processes : Busy(p) => add[p] # a

\* Shards are written in order, all of them before the key is wrapped, and no
\* manifest is published before that.  A damaged shard was written too.
InOrder ==
    /\ \A p \in Processes :
         /\ pc[p] = "writing" => \E k \in 0..(NShards - 1) : Written(add[p]) = 1..k
         /\ pc[p] \in {"wrapping", "publishing"} => Written(add[p]) = 1..NShards
    /\ \A a \in published : Written(a) = 1..NShards

\* While no vault.json was written over another one there is only one salt, and
\* every key is wrapped under it.
OneSalt ==
    /\ \A p \in Processes : pc[p] \notin {"closed", "configuring"} => salt # Missing
    /\ \A key \in keys : key[2] # Missing
    /\ ~initRaced => \A key \in keys : key[2] = salt

\* An add wraps its key once, after its shards and before its manifest.
Keyed(a) == a \in spoiled \/ \E key \in keys : key[1] = a

OneKey ==
    /\ \A p \in Processes :
         /\ pc[p] \in {"writing", "wrapping"} => ~Keyed(add[p])
         /\ pc[p] = "publishing" => Keyed(add[p])
    /\ \A a \in published : Keyed(a)
    /\ \A k, l \in keys : k[1] = l[1] => k = l

\* Who works on a model that has a manifest began before that was published.
LateKnown ==
    \A p \in Processes : Busy(p) /\ p \notin late => manifests[model[p]] = Missing

\* A shard that was written is intact or damaged, and not both.
IntactOrNot == shards \cap (changed \cup lost) = {}

IInv == TypeOK /\ Fresh /\ InOrder /\ OneSalt /\ OneKey /\ LateKnown /\ IntactOrNot

-----------------------------------------------------------------------------
LEMMA InitIInv == Init => IInv
<1> SUFFICES ASSUME Init PROVE IInv
  OBVIOUS
<1> USE StoreAssumption
<1>1. TypeOK
  <2>1. initRaced \in BOOLEAN
    BY DEF Init
  <2>2. QED
    BY <2>1 DEF Init, TypeOK, Missing
<1>2. Fresh
  BY DEF Init, Fresh, Missing
<1>3. InOrder
  BY DEF Init, InOrder
<1>4. OneSalt /\ OneKey
  BY DEF Init, OneSalt, OneKey
<1>5. LateKnown
  BY DEF Init, LateKnown, Busy
<1>6. IntactOrNot
  BY DEF Init, IntactOrNot
<1>7. QED
  BY <1>1, <1>2, <1>3, <1>4, <1>5, <1>6 DEF IInv

\* A process writes the shard after the ones that are written; the last one
\* ends the loop.
LEMMA ShardWritten ==
  ASSUME IInv, NEW p \in Processes, WriteShard(p)
  PROVE  \E k \in 0..(NShards - 1) :
            /\ Written(add[p]) = 1..k
            /\ shards' = shards \cup {<<add[p], k + 1>>}
            /\ pc' = [pc EXCEPT ![p] = IF k + 1 = NShards THEN "wrapping" ELSE "writing"]
<1>1. PICK k \in 0..(NShards - 1) : Written(add[p]) = 1..k
  BY DEF IInv, InOrder, WriteShard
<1>2. Cardinality(1..k) = k
  BY <1>1, StoreAssumption, FS_Interval
<1>3. QED
  BY <1>1, <1>2 DEF WriteShard

LEMMA NextTypeOK == IInv /\ [Next]_vars => TypeOK'
<1> SUFFICES ASSUME IInv, [Next]_vars PROVE TypeOK'
  OBVIOUS
<1> USE StoreAssumption DEF IInv, disk, history
<1>1. ASSUME NEW p \in Processes, FindConfig(p) PROVE TypeOK'
  BY <1>1 DEF FindConfig, TypeOK
<1>2. ASSUME NEW p \in Processes, WriteConfig(p) PROVE TypeOK'
  <2>1. initRaced' \in BOOLEAN
    BY <1>2 DEF WriteConfig
  <2>2. QED
    BY <1>2, <2>1 DEF WriteConfig, TypeOK
<1>3. ASSUME NEW p \in Processes, NEW m \in Models, BeginAdd(p, m) PROVE TypeOK'
  <2>1. /\ adds' = adds + 1 /\ adds' \in Adds
        /\ add'[p] = adds' /\ pc'[p] = "writing"
        /\ \A q \in Processes \ {p} : add'[q] = add[q] /\ pc'[q] = pc[q]
    BY <1>3 DEF BeginAdd, TypeOK, Adds
  <2>2. \A q \in Processes : add[q] <= adds /\ add[q] \in Nat /\ adds \in Nat
    BY DEF TypeOK, Fresh
  <2>3. \A q, r \in Processes :
          pc'[q] \in {"writing", "wrapping", "publishing"} =>
            /\ add'[q] \in Adds /\ add'[q] <= adds'
            /\ pc'[r] \in {"writing", "wrapping", "publishing"} /\ q # r
                 => add'[q] # add'[r]
    BY <2>1, <2>2 DEF TypeOK
  <2>4. QED
    BY <1>3, <2>1, <2>3 DEF BeginAdd, TypeOK, Adds
<1>4. ASSUME NEW p \in Processes, WriteShard(p) PROVE TypeOK'
  <2>1. PICK k \in 0..(NShards - 1) :
          /\ shards' = shards \cup {<<add[p], k + 1>>}
          /\ pc' = [pc EXCEPT ![p] = IF k + 1 = NShards THEN "wrapping" ELSE "writing"]
    BY <1>4, ShardWritten
  <2>2. add[p] \in Adds /\ k + 1 \in 1..NShards
    BY <1>4 DEF WriteShard, TypeOK
  <2>3. shards' \cup changed' \cup lost' \subseteq Adds \X (1..NShards)
    BY <1>4, <2>1, <2>2 DEF WriteShard, TypeOK
  <2>4. QED
    BY <1>4, <2>1, <2>3 DEF WriteShard, TypeOK
<1>5. ASSUME NEW p \in Processes, WrapKey(p) PROVE TypeOK'
  <2>1. keys' \subseteq Adds \X (0..MaxSalts) \X Passphrases
    BY <1>5 DEF WrapKey, TypeOK
  <2>2. QED
    BY <1>5, <2>1 DEF WrapKey, TypeOK
<1>6. ASSUME NEW p \in Processes, Publish(p) PROVE TypeOK'
  <2>1. add[p] \in Adds /\ model[p] \in Models
    BY <1>6 DEF Publish, TypeOK
  <2>2. late' \subseteq Processes
    BY <1>6 DEF Publish, TypeOK
  <2>3. manifests' \in [Models -> 0..MaxAdds] /\ published' \subseteq Adds
    BY <1>6, <2>1 DEF Publish, TypeOK
  <2>4. QED
    BY <1>6, <2>2, <2>3 DEF Publish, TypeOK
<1>7. ASSUME NEW p \in Processes, FailAdd(p) \/ Stop(p) PROVE TypeOK'
  BY <1>7 DEF FailAdd, Stop, TypeOK
<1>8. ASSUME NEW shard \in shards, DamageShard(shard) PROVE TypeOK'
  BY <1>8 DEF DamageShard, TypeOK
<1>11. ASSUME NEW key \in keys, DamageKey(key) PROVE TypeOK'
  <2>1. key[1] \in Adds
    BY DEF TypeOK
  <2>2. QED
    BY <1>11, <2>1 DEF DamageKey, TypeOK
<1>9. CASE UNCHANGED vars
  BY <1>9 DEF vars, TypeOK
<1>10. QED
  BY <1>1, <1>2, <1>3, <1>4, <1>5, <1>6, <1>7, <1>8, <1>9, <1>11 DEF Next, RefuseAdd

LEMMA NextFresh == IInv /\ [Next]_vars => Fresh'
<1> SUFFICES ASSUME IInv, [Next]_vars PROVE Fresh'
  OBVIOUS
<1> USE StoreAssumption DEF IInv, disk, history, Busy
<1>1. ASSUME NEW p \in Processes, NEW m \in Models, BeginAdd(p, m) PROVE Fresh'
  <2>1. /\ adds' = adds + 1 /\ adds \in Nat
        /\ add'[p] = adds' /\ pc'[p] = "writing"
        /\ \A q \in Processes \ {p} : add'[q] = add[q] /\ pc'[q] = pc[q]
        /\ UNCHANGED <<shards, changed, lost, keys, spoiled, published>>
    BY <1>1 DEF BeginAdd, TypeOK
  <2>2. /\ \A q \in Processes : add[q] \in Nat
        /\ \A a \in published \cup spoiled : a \in Nat
        /\ \A shard \in shards \cup changed \cup lost : shard[1] \in Nat
        /\ \A key \in keys : key[1] \in Nat
    BY DEF TypeOK, Adds
  <2>3. QED
    BY <2>1, <2>2 DEF Fresh
<1>2. ASSUME NEW p \in Processes, WriteShard(p) PROVE Fresh'
  <2>1. PICK k \in 0..(NShards - 1) :
          /\ shards' = shards \cup {<<add[p], k + 1>>}
          /\ pc' = [pc EXCEPT ![p] = IF k + 1 = NShards THEN "wrapping" ELSE "writing"]
    BY <1>2, ShardWritten
  <2>2. \A q \in Processes : Busy(q)' => Busy(q)
    BY <1>2, <2>1 DEF WriteShard, TypeOK
  <2>3. QED
    BY <1>2, <2>1, <2>2 DEF WriteShard, Fresh
<1>3. ASSUME NEW p \in Processes, Publish(p) PROVE Fresh'
  <2>1. /\ published' = published \cup {add[p]}
        /\ pc'[p] = "open"
        /\ \A q \in Processes \ {p} : pc'[q] = pc[q]
        /\ UNCHANGED <<shards, changed, lost, keys, spoiled, add, adds>>
    BY <1>3 DEF Publish, TypeOK
  <2>2. \A q \in Processes \ {p} : Busy(q) => add[q] # add[p]
    BY <1>3 DEF Publish, TypeOK
  <2>3. QED
    BY <2>1, <2>2 DEF Fresh
<1>4. ASSUME NEW p \in Processes,
             FindConfig(p) \/ WriteConfig(p) \/ FailAdd(p) \/ Stop(p)
      PROVE  Fresh'
  <2>1. \A q \in Processes : Busy(q)' => Busy(q)
    BY <1>4 DEF FindConfig, WriteConfig, FailAdd, Stop, TypeOK
  <2>2. UNCHANGED <<shards, changed, lost, keys, spoiled, add, adds, published>>
    BY <1>4 DEF FindConfig, WriteConfig, FailAdd, Stop
  <2>3. QED
    BY <2>1, <2>2 DEF Fresh
<1>7. ASSUME NEW p \in Processes, WrapKey(p) PROVE Fresh'
  <2>1. PICK phrase \in Passphrases : keys' = keys \cup {<<add[p], salt, phrase>>}
    BY <1>7 DEF WrapKey
  <2>2. \A q \in Processes : Busy(q)' => Busy(q)
    BY <1>7 DEF WrapKey, TypeOK
  <2>3. add[p] <= adds
    BY DEF Fresh
  <2>4. QED
    BY <1>7, <2>1, <2>2, <2>3 DEF WrapKey, Fresh
<1>5. ASSUME NEW shard \in shards, DamageShard(shard) PROVE Fresh'
  BY <1>5 DEF DamageShard, Fresh
<1>8. ASSUME NEW key \in keys, DamageKey(key) PROVE Fresh'
  BY <1>8 DEF DamageKey, Fresh
<1>6. CASE UNCHANGED vars
  BY <1>6 DEF vars, Fresh
<1>9. QED
  BY <1>1, <1>2, <1>3, <1>4, <1>5, <1>6, <1>7, <1>8 DEF Next, RefuseAdd

LEMMA NextInOrder == IInv /\ [Next]_vars => InOrder'
<1> SUFFICES ASSUME IInv, [Next]_vars PROVE InOrder'
  OBVIOUS
<1> USE StoreAssumption DEF IInv, disk, history
\* A step that writes no shard: whoever works on the same add as before is where
\* it was, or further on and done with its shards.
<1>1. ASSUME \A a : Written(a)' = Written(a),
             \A a \in published' : Written(a) = 1..NShards,
             \A p \in Processes :
               /\ pc'[p] = "writing" => \E k \in 0..(NShards - 1) : Written(add'[p]) = 1..k
               /\ pc'[p] \in {"wrapping", "publishing"} => Written(add'[p]) = 1..NShards
      PROVE  InOrder'
  <2>1. \A p \in Processes : Written(add[p])' = Written(add'[p])
    <3>1. \A a : Written(a)' = {i \in 1..NShards : <<a, i>> \in shards' \cup changed' \cup lost'}
      BY DEF Written
    <3>2. QED
      BY <1>1, <3>1 DEF Written
  <2>2. QED
    BY <1>1, <2>1 DEF InOrder
<1>2. ASSUME NEW p \in Processes, NEW m \in Models, BeginAdd(p, m) PROVE InOrder'
  <2>1. /\ add'[p] = adds + 1 /\ pc'[p] = "writing"
        /\ \A q \in Processes \ {p} : add'[q] = add[q] /\ pc'[q] = pc[q]
        /\ UNCHANGED <<shards, changed, lost, published>>
    BY <1>2 DEF BeginAdd, TypeOK
  <2>2. \A shard \in shards \cup changed \cup lost : shard[1] # adds + 1
    BY DEF TypeOK, Fresh, Adds
  <2>3. Written(adds + 1) = 1..0
    BY <2>2 DEF Written
  <2>4. 0 \in 0..(NShards - 1)
    OBVIOUS
  <2>5. \A a : Written(a)' = Written(a)
    BY <2>1 DEF Written
  <2>6. QED
    BY <1>1, <2>1, <2>3, <2>4, <2>5 DEF InOrder
<1>3. ASSUME NEW p \in Processes, WriteShard(p) PROVE InOrder'
  <2>1. PICK k \in 0..(NShards - 1) :
          /\ Written(add[p]) = 1..k
          /\ shards' = shards \cup {<<add[p], k + 1>>}
          /\ pc' = [pc EXCEPT ![p] = IF k + 1 = NShards THEN "wrapping" ELSE "writing"]
    BY <1>3, ShardWritten
  <2>2. UNCHANGED <<changed, lost, add, published>>
    BY <1>3 DEF WriteShard
  <2>3. Written(add[p])' = 1..(k + 1)
    BY <2>1, <2>2 DEF Written
  <2>4. \A a : a # add[p] => Written(a)' = Written(a)
    BY <2>1, <2>2 DEF Written
  <2>5. \A a \in published : a # add[p]
    BY <1>3 DEF WriteShard, Fresh, Busy
  <2>6. \A q \in Processes \ {p} :
          pc'[q] = pc[q] /\ (pc[q] \in {"writing", "wrapping", "publishing"} => add[q] # add[p])
    BY <1>3, <2>1 DEF WriteShard, TypeOK
  <2>7. pc'[p] = IF k + 1 = NShards THEN "wrapping" ELSE "writing"
    BY <2>1 DEF TypeOK
  <2>8. QED
    BY <2>2, <2>3, <2>4, <2>5, <2>6, <2>7 DEF InOrder
<1>4. ASSUME NEW p \in Processes,
             \/ FindConfig(p) \/ WriteConfig(p) \/ WrapKey(p) \/ Publish(p)
             \/ FailAdd(p) \/ Stop(p)
      PROVE  InOrder'
  <2>1. UNCHANGED <<shards, changed, lost, add>>
    BY <1>4 DEF FindConfig, WriteConfig, WrapKey, Publish, FailAdd, Stop
  <2>2. \A a : Written(a)' = Written(a)
    BY <2>1 DEF Written
  <2>3. published' \subseteq published \cup (IF pc[p] = "publishing" THEN {add[p]} ELSE {})
    BY <1>4 DEF FindConfig, WriteConfig, WrapKey, Publish, FailAdd, Stop
  <2>4. \A a \in published' : Written(a) = 1..NShards
    BY <2>3 DEF InOrder
  <2>5. /\ \A q \in Processes \ {p} : pc'[q] = pc[q]
        /\ pc'[p] # "writing"
        /\ pc'[p] \in {"wrapping", "publishing"} => pc[p] \in {"wrapping", "publishing"}
    BY <1>4 DEF FindConfig, WriteConfig, WrapKey, Publish, FailAdd, Stop, TypeOK
  <2>6. QED
    BY <1>1, <2>1, <2>2, <2>4, <2>5 DEF InOrder
<1>5. ASSUME \/ \E shard \in shards : DamageShard(shard)
             \/ \E key \in keys : DamageKey(key)
      PROVE  InOrder'
  <2>1. shards' \cup changed' \cup lost' = shards \cup changed \cup lost
    BY <1>5 DEF DamageShard, DamageKey
  <2>2. \A a : Written(a)' = Written(a)
    BY <2>1 DEF Written
  <2>3. UNCHANGED <<pc, add, published>>
    BY <1>5 DEF DamageShard, DamageKey
  <2>4. QED
    BY <1>1, <2>2, <2>3 DEF InOrder
<1>6. CASE UNCHANGED vars
  <2>1. \A a : Written(a)' = Written(a)
    BY <1>6 DEF Written, vars
  <2>2. QED
    BY <1>1, <1>6, <2>1 DEF InOrder, vars
<1>7. QED
  BY <1>2, <1>3, <1>4, <1>5, <1>6 DEF Next, RefuseAdd

LEMMA NextOneSalt == IInv /\ [Next]_vars => OneSalt'
<1> SUFFICES ASSUME IInv, [Next]_vars PROVE OneSalt'
  OBVIOUS
<1> USE StoreAssumption DEF IInv, disk, history
<1>1. ASSUME NEW p \in Processes, WriteConfig(p) PROVE OneSalt'
  <2>1. salt' # Missing /\ keys' = keys
    BY <1>1 DEF WriteConfig, TypeOK, Missing
  <2>2. ~initRaced' => ~initRaced /\ salt = Missing
    BY <1>1 DEF WriteConfig
  <2>3. ~initRaced' => keys = {}
    BY <2>2 DEF OneSalt
  <2>4. QED
    BY <2>1, <2>3 DEF OneSalt
<1>2. ASSUME NEW p \in Processes, WrapKey(p) PROVE OneSalt'
  <2>1. PICK phrase \in Passphrases : keys' = keys \cup {<<add[p], salt, phrase>>}
    BY <1>2 DEF WrapKey
  <2>2. salt # Missing /\ UNCHANGED <<salt, initRaced>>
    BY <1>2 DEF WrapKey, OneSalt
  <2>3. \A q \in Processes : pc'[q] \notin {"closed", "configuring"} => salt # Missing
    BY <2>2
  <2>4. QED
    BY <2>1, <2>2, <2>3 DEF OneSalt
<1>3. ASSUME NEW p \in Processes, NEW m \in Models, BeginAdd(p, m) PROVE OneSalt'
  BY <1>3 DEF BeginAdd, TypeOK, OneSalt
<1>4. ASSUME NEW p \in Processes, WriteShard(p) PROVE OneSalt'
  BY <1>4 DEF WriteShard, TypeOK, OneSalt
<1>5. ASSUME NEW p \in Processes, FindConfig(p) \/ Publish(p) \/ FailAdd(p) \/ Stop(p)
      PROVE  OneSalt'
  <2>1. /\ UNCHANGED <<salt, keys, initRaced>>
        /\ \A q \in Processes \ {p} : pc'[q] = pc[q]
        /\ pc'[p] \notin {"closed", "configuring"} => salt # Missing
    BY <1>5 DEF FindConfig, Publish, FailAdd, Stop, TypeOK, OneSalt
  <2>2. QED
    BY <2>1 DEF OneSalt
<1>6. ASSUME NEW key \in keys, DamageKey(key) PROVE OneSalt'
  BY <1>6 DEF DamageKey, OneSalt
<1>7. ASSUME UNCHANGED <<salt, keys, pc, initRaced>> PROVE OneSalt'
  BY <1>7 DEF OneSalt
<1>8. QED
  BY <1>1, <1>2, <1>3, <1>4, <1>5, <1>6, <1>7 DEF Next, RefuseAdd, DamageShard, vars

LEMMA NextOneKey == IInv /\ [Next]_vars => OneKey'
<1> SUFFICES ASSUME IInv, [Next]_vars PROVE OneKey'
  OBVIOUS
<1> USE StoreAssumption DEF IInv, disk, history
<1>1. ASSUME NEW p \in Processes, NEW m \in Models, BeginAdd(p, m) PROVE OneKey'
  <2>1. /\ add'[p] = adds + 1 /\ pc'[p] = "writing"
        /\ \A q \in Processes \ {p} : add'[q] = add[q] /\ pc'[q] = pc[q]
        /\ UNCHANGED <<keys, spoiled, published>>
    BY <1>1 DEF BeginAdd, TypeOK
  <2>2. ~Keyed(adds + 1)
    BY DEF TypeOK, Fresh, Adds, Keyed
  <2>3. \A a : Keyed(a)' <=> Keyed(a)
    BY <2>1 DEF Keyed
  <2>4. QED
    BY <2>1, <2>2 DEF OneKey, Keyed
<1>2. ASSUME NEW p \in Processes, WrapKey(p) PROVE OneKey'
  <2>1. PICK phrase \in Passphrases : keys' = keys \cup {<<add[p], salt, phrase>>}
    BY <1>2 DEF WrapKey
  <2>2. /\ pc[p] = "wrapping" /\ pc'[p] = "publishing"
        /\ \A q \in Processes \ {p} : pc'[q] = pc[q]
        /\ UNCHANGED <<spoiled, add, published>>
    BY <1>2 DEF WrapKey, TypeOK
  <2>3. \A q \in Processes \ {p} :
          pc[q] \in {"writing", "wrapping", "publishing"} => add[q] # add[p]
    BY <2>2 DEF TypeOK
  <2>4. ~Keyed(add[p])
    BY <2>2 DEF OneKey
  <2>5. \A a : Keyed(a)' <=> Keyed(a) \/ a = add[p]
    <3>1. <<add[p], salt, phrase>>[1] = add[p]
      OBVIOUS
    <3>2. QED
      BY <2>1, <2>2, <3>1 DEF Keyed
  <2>6. \A q \in Processes : Keyed(add[q])' <=> Keyed(add[q]) \/ add[q] = add[p]
    <3>1. \A q \in Processes : add'[q] = add[q]
      BY <2>2
    <3>2. <<add[p], salt, phrase>>[1] = add[p] /\ spoiled' = spoiled
      BY <2>2
    <3>3. QED
      BY <2>1, <3>1, <3>2 DEF Keyed
  <2>7. \A q \in Processes :
          /\ pc'[q] \in {"writing", "wrapping"} => ~Keyed(add[q])'
          /\ pc'[q] = "publishing" => Keyed(add[q])'
    BY <2>2, <2>3, <2>6 DEF OneKey
  <2>8. \A k, l \in keys' : k[1] = l[1] => k = l
    BY <2>1, <2>4 DEF OneKey, Keyed
  <2>9. QED
    BY <2>2, <2>5, <2>7, <2>8 DEF OneKey
<1>3. ASSUME NEW p \in Processes,
             \/ FindConfig(p) \/ WriteConfig(p) \/ WriteShard(p) \/ Publish(p)
             \/ FailAdd(p) \/ Stop(p)
      PROVE  OneKey'
  <2>1. UNCHANGED <<keys, spoiled, add>>
    BY <1>3 DEF FindConfig, WriteConfig, WriteShard, Publish, FailAdd, Stop
  <2>2. /\ \A q \in Processes \ {p} : pc'[q] = pc[q]
        /\ pc'[p] \in {"writing", "wrapping"} => pc[p] \in {"writing", "wrapping"}
        /\ pc'[p] # "publishing"
    BY <1>3 DEF FindConfig, WriteConfig, WriteShard, Publish, FailAdd, Stop, TypeOK
  <2>3. published' \subseteq published \cup (IF pc[p] = "publishing" THEN {add[p]} ELSE {})
    BY <1>3 DEF FindConfig, WriteConfig, WriteShard, Publish, FailAdd, Stop
  <2>4. \A a \in published' : Keyed(a)
    BY <2>3 DEF OneKey
  <2>5. QED
    BY <2>1, <2>2, <2>4 DEF OneKey, Keyed
<1>4. ASSUME NEW key \in keys, DamageKey(key) PROVE OneKey'
  <2>1. keys' = keys \ {key} /\ spoiled' = spoiled \cup {key[1]}
    BY <1>4 DEF DamageKey
  <2>2. \A a : (a \in spoiled' \/ \E k \in keys' : k[1] = a) <=> Keyed(a)
    BY <2>1 DEF Keyed
  <2>3. UNCHANGED <<pc, add, published>>
    BY <1>4 DEF DamageKey
  <2>4. QED
    BY <2>1, <2>2, <2>3 DEF OneKey, Keyed
<1>5. ASSUME UNCHANGED <<keys, spoiled, pc, add, published>> PROVE OneKey'
  BY <1>5 DEF OneKey, Keyed
<1>6. QED
  BY <1>1, <1>2, <1>3, <1>4, <1>5 DEF Next, RefuseAdd, DamageShard, vars

LEMMA NextLateKnown == IInv /\ [Next]_vars => LateKnown'
<1> SUFFICES ASSUME IInv, [Next]_vars PROVE LateKnown'
  OBVIOUS
<1> USE DEF IInv, disk, history, Busy
<1>1. ASSUME NEW p \in Processes, NEW m \in Models, BeginAdd(p, m) PROVE LateKnown'
  BY <1>1 DEF BeginAdd, TypeOK, LateKnown
<1>2. ASSUME NEW p \in Processes, Publish(p) PROVE LateKnown'
  <2>1. /\ pc'[p] = "open" /\ model' = model
        /\ \A q \in Processes \ {p} : pc'[q] = pc[q]
        /\ \A m \in Models \ {model[p]} : manifests'[m] = manifests[m]
    BY <1>2 DEF Publish, TypeOK
  <2>2. \A q \in Processes \ {p} :
          /\ q \in late => q \in late'
          /\ Busy(q) /\ model[q] = model[p] => q \in late'
    BY <1>2 DEF Publish
  <2>3. \A q \in Processes : model[q] \in Models
    BY DEF TypeOK
  <2>4. QED
    BY <2>1, <2>2, <2>3 DEF LateKnown
<1>3. ASSUME \A q \in Processes : Busy(q)' => Busy(q), UNCHANGED <<late, manifests, model>>
      PROVE  LateKnown'
  BY <1>3 DEF LateKnown
<1>4. ASSUME NEW p \in Processes, WriteShard(p) PROVE LateKnown'
  <2>1. \A q \in Processes : Busy(q)' => Busy(q)
    BY <1>4, ShardWritten DEF WriteShard, TypeOK
  <2>2. QED
    BY <1>3, <1>4, <2>1 DEF WriteShard
<1>5. ASSUME NEW p \in Processes,
             FindConfig(p) \/ WriteConfig(p) \/ WrapKey(p) \/ FailAdd(p) \/ Stop(p)
      PROVE  LateKnown'
  <2>1. \A q \in Processes : Busy(q)' => Busy(q)
    BY <1>5 DEF FindConfig, WriteConfig, WrapKey, FailAdd, Stop, TypeOK
  <2>2. QED
    BY <1>3, <1>5, <2>1 DEF FindConfig, WriteConfig, WrapKey, FailAdd, Stop
<1>6. ASSUME UNCHANGED <<pc, late, manifests, model>> PROVE LateKnown'
  BY <1>6 DEF LateKnown
<1>7. QED
  BY <1>1, <1>2, <1>4, <1>5, <1>6 DEF Next, RefuseAdd, DamageShard, DamageKey, vars

LEMMA NextIntactOrNot == IInv /\ [Next]_vars => IntactOrNot'
<1> SUFFICES ASSUME IInv, [Next]_vars PROVE IntactOrNot'
  OBVIOUS
<1>1. ASSUME NEW p \in Processes, WriteShard(p) PROVE IntactOrNot'
  <2>1. PICK k \in 0..(NShards - 1) :
          Written(add[p]) = 1..k /\ shards' = shards \cup {<<add[p], k + 1>>}
    BY <1>1, ShardWritten
  <2>2. k + 1 \in 1..NShards /\ k + 1 \notin 1..k
    BY StoreAssumption
  <2>3. <<add[p], k + 1>> \notin changed \cup lost
    BY <2>1, <2>2 DEF Written
  <2>4. QED
    BY <1>1, <2>1, <2>3 DEF WriteShard, IInv, IntactOrNot
<1>2. ASSUME NEW shard \in shards, DamageShard(shard) PROVE IntactOrNot'
  BY <1>2 DEF DamageShard, IInv, IntactOrNot
<1>3. ASSUME UNCHANGED <<shards, changed, lost>> PROVE IntactOrNot'
  BY <1>3 DEF IInv, IntactOrNot
<1>4. ASSUME NEW p \in Processes,
             \/ FindConfig(p) \/ WriteConfig(p)
             \/ \E m \in Models : BeginAdd(p, m) \/ RefuseAdd(p, m)
             \/ WrapKey(p) \/ Publish(p) \/ FailAdd(p) \/ Stop(p)
      PROVE  UNCHANGED <<shards, changed, lost>>
  BY <1>4 DEF FindConfig, WriteConfig, BeginAdd, RefuseAdd, WrapKey, Publish, FailAdd, Stop,
              disk, vars
<1>5. QED
  BY <1>1, <1>2, <1>3, <1>4 DEF Next, DamageKey, disk, vars

LEMMA Inductive == Spec => []IInv
<1>1. IInv /\ [Next]_vars => IInv'
  BY NextTypeOK, NextFresh, NextInOrder, NextOneSalt, NextOneKey, NextLateKnown,
     NextIntactOrNot
  DEF IInv
<1>2. QED
  BY InitIInv, <1>1, PTL DEF Spec

-----------------------------------------------------------------------------
\* Types; and an add in progress has a number that no other process works under.
THEOREM TypeCorrect == Spec => []TypeOK
<1>1. IInv => TypeOK
  BY DEF IInv
<1>2. QED
  BY Inductive, <1>1, PTL

\* The key of a published add is on disk, wrapped under today's salt, as long as
\* the disk did not damage it and vault.json was written once.
LEMMA KeyThere ==
    ASSUME IInv, ~initRaced, NEW a \in published, a \notin spoiled
    PROVE  \E phrase \in Passphrases : UnwrapsKey(a, phrase)
<1>1. PICK key \in keys : key[1] = a
  BY DEF IInv, OneKey, Keyed
<1>2. key[2] = salt
  BY DEF IInv, OneSalt
<1>3. key[3] \in Passphrases /\ key = <<key[1], key[2], key[3]>>
  BY DEF IInv, TypeOK
<1>4. QED
  BY <1>1, <1>2, <1>3 DEF UnwrapsKey

\* add_file publishes the manifest last: whoever fails, stops or adds at the
\* same time, every shard of a published model can be read, as long as the disk
\* is intact and _ensure_config wrote only one vault.json.
THEOREM ReadableUnlessInitRacedThm == Spec => []ReadableUnlessInitRaced
<1>1. IInv => ReadableUnlessInitRaced
  <2> SUFFICES ASSUME IInv, ~initRaced, NEW a \in published \ spoiled, NEW i \in 1..NShards
               PROVE  \/ \E phrase \in Passphrases : ReadsShard(a, i, phrase)
                      \/ <<a, i>> \in changed \cup lost
    BY DEF ReadableUnlessInitRaced
  <2>1. \E phrase \in Passphrases : UnwrapsKey(a, phrase)
    BY KeyThere
  <2>2. <<a, i>> \in shards \cup changed \cup lost
    BY DEF IInv, InOrder, Written
  <2>3. QED
    BY <2>1, <2>2 DEF ReadsShard
<1>2. QED
  BY Inductive, <1>1, PTL

\* The loop of verify collects all shards when all of them are whole.
LEMMA AllFound ==
    ASSUME NEW a, \A i \in 1..NShards : <<a, i>> \in shards
    PROVE  Whole(a) = InManifest(a)
<1> DEFINE Loop(f) == [i \in 0..NShards |->
                         IF i = 0 THEN <<>>
                         ELSE IF <<a, i>> \in shards THEN Append(f[i - 1], <<a, i>>)
                         ELSE f[i - 1]]
           First(n) == [i \in 1..n |-> <<a, i>>]
           firsts == [n \in 0..NShards |-> First(n)]
           found == CHOOSE f : f = Loop(f)
<1> USE StoreAssumption
<1>1. \A n \in 1..NShards : First(n) = Append(First(n - 1), <<a, n>>)
  OBVIOUS
<1>2. First(0) = <<>>
  OBVIOUS
<1>3. firsts = Loop(firsts)
  <2> HIDE DEF First
  <2>1. \A i \in 0..NShards : firsts[i] = Loop(firsts)[i]
    BY <1>1, <1>2
  <2>2. QED
    BY <2>1
<1>4. found = Loop(found)
  <2> HIDE DEF Loop, firsts
  <2>1. QED
    BY <1>3
<1>5. \A i \in 0..NShards : found[i] = First(i)
  <2> DEFINE S == {n \in Nat : n \in 0..NShards => found[n] = First(n)}
  <2> HIDE DEF found, First
  <2>1. 0 \in S
    BY <1>2, <1>4
  <2>2. ASSUME NEW n \in Nat, n \in S PROVE n + 1 \in S
    <3> SUFFICES ASSUME n + 1 \in 0..NShards PROVE found[n + 1] = First(n + 1)
      OBVIOUS
    <3>1. n \in 0..NShards /\ n + 1 \in 1..NShards /\ (n + 1) - 1 = n
      OBVIOUS
    <3>2. found[n] = First(n)
      BY <2>2, <3>1
    <3>3. found[n + 1] = Append(found[n], <<a, n + 1>>)
      <4>1. <<a, n + 1>> \in shards /\ n + 1 # 0
        BY <3>1
      <4>2. Loop(found)[n + 1] = Append(found[(n + 1) - 1], <<a, n + 1>>)
        BY <4>1, <3>1
      <4> HIDE DEF Loop
      <4>3. found[n + 1] = Loop(found)[n + 1]
        BY <1>4
      <4>4. QED
        BY <4>2, <4>3, <3>1
    <3>4. QED
      BY <1>1, <3>1, <3>2, <3>3
  <2> HIDE DEF S
  <2>3. \A n \in Nat : n \in S
    BY <2>1, <2>2, NatInductionSet
  <2>4. QED
    BY <2>3 DEF S
<1>6. Whole(a) = found[NShards]
  BY DEF Whole
<1>7. QED
  <2> HIDE DEF found
  <2>1. found[NShards] = First(NShards)
    BY <1>5
  <2>2. QED
    BY <1>6, <2>1 DEF InManifest

\* verify passes what can be read.  What it passes can be read under exactly one
\* passphrase, as long as no key file was damaged and vault.json was written once:
\* it passes a model exactly when no shard of it is damaged.
THEOREM VerifyTellsReadableThm == Spec => []VerifyTellsReadable
<1>1. IInv => VerifyTellsReadable
  <2> SUFFICES ASSUME IInv, NEW a \in published
               PROVE  /\ (\E phrase \in Passphrases : ReadsAll(a, phrase)) => Verify(a)
                      /\ Verify(a) =>
                           \/ initRaced \/ a \in spoiled
                           \/ \E phrase \in Passphrases :
                                /\ ReadsAll(a, phrase)
                                /\ \A other \in Passphrases \ {phrase} : ~UnwrapsKey(a, other)
    BY DEF VerifyTellsReadable
  <2>1. ASSUME NEW phrase \in Passphrases, ReadsAll(a, phrase) PROVE Verify(a)
    <3>1. \A i \in 1..NShards : <<a, i>> \in shards
      BY <2>1 DEF ReadsAll, ReadsShard
    <3>2. \A i \in 1..NShards : <<a, i>> \notin lost \cup changed
      BY <3>1 DEF IInv, IntactOrNot
    <3>3. QED
      BY <3>1, <3>2, AllFound DEF Verify
  <2>2. ASSUME Verify(a), ~initRaced, a \notin spoiled
        PROVE  \E phrase \in Passphrases :
                 /\ ReadsAll(a, phrase)
                 /\ \A other \in Passphrases \ {phrase} : ~UnwrapsKey(a, other)
    <3>1. PICK phrase \in Passphrases : UnwrapsKey(a, phrase)
      BY <2>2, KeyThere
    <3>2. \A i \in 1..NShards : <<a, i>> \in shards
      BY <2>2 DEF IInv, InOrder, Written, Verify
    <3>3. ASSUME NEW other \in Passphrases \ {phrase} PROVE ~UnwrapsKey(a, other)
      <4>1. <<a, salt, phrase>>[1] = <<a, salt, other>>[1]
        OBVIOUS
      <4>2. <<a, salt, phrase>> # <<a, salt, other>>
        OBVIOUS
      <4>3. QED
        BY <3>1, <4>1, <4>2 DEF UnwrapsKey, IInv, OneKey
    <3>4. QED
      BY <3>1, <3>2, <3>3 DEF ReadsAll, ReadsShard
  <2>3. QED
    BY <2>1, <2>2
<1>2. QED
  BY Inductive, <1>1, PTL

\* A manifest is replaced only by an add_file that looked for it before it was
\* published; a later one is refused.
THEOREM ReplacedOnlyByOverlapThm == Spec => ReplacedOnlyByOverlap
<1>1. IInv /\ [Next]_vars =>
        [\A m \in Models :
            manifests[m] # Missing /\ manifests'[m] # manifests[m] =>
                \E p \in late : pc[p] = "publishing" /\ model[p] = m
                                /\ manifests'[m] = add[p]]_vars
  <2> SUFFICES ASSUME IInv, [Next]_vars, NEW m \in Models,
                      manifests[m] # Missing, manifests'[m] # manifests[m]
               PROVE  \E p \in late : pc[p] = "publishing" /\ model[p] = m
                                      /\ manifests'[m] = add[p]
    OBVIOUS
  <2>1. PICK p \in Processes : Publish(p)
    BY DEF Next, FindConfig, WriteConfig, BeginAdd, RefuseAdd, WriteShard, WrapKey, FailAdd,
           Stop, DamageShard, DamageKey, disk, vars
  <2>2. pc[p] = "publishing" /\ model[p] = m /\ manifests'[m] = add[p]
    BY <2>1 DEF Publish, IInv, TypeOK
  <2>3. p \in late
    BY <2>2 DEF IInv, LateKnown, Busy
  <2>4. QED
    BY <2>2, <2>3
<1>2. QED
  BY Inductive, <1>1, PTL DEF ReplacedOnlyByOverlap, Spec

=============================================================================
