-------------------------- MODULE ReplayGuardProofs --------------------------
(***************************************************************************)
(* Proofs about ReplayGuard, for every set of keys, handlers and           *)
(* timestamps and every value of the bounds.                               *)
(***************************************************************************)
EXTENDS ReplayGuard, FiniteSetTheorems, TLAPS

\* The TTL is at least the length of the window in which a request is fresh, as
\* the values in the code are: 600 s and 300 s on either side.
TtlCoversWindow == NonceTtl >= 2 * MaxSkew

\* Between verify and accept less time passes than that window is long.
LagBelowWindow == MaxLag < 2 * MaxSkew

-----------------------------------------------------------------------------
(***************************************************************************)
(* Types.                                                                  *)
(***************************************************************************)

\* What Sweep and Remember make of a cache whose expiry times are in range.
LEMMA CacheTypes ==
    ASSUME NEW m \in Nat, NEW s \in [Keys -> 0..m], NEW now \in Nat
    PROVE  /\ Sweep(s, now) \in [Keys -> 0..m]
           /\ \A key \in Keys : now + NonceTtl \in 0..m =>
                Remember(s, key, now) \in [Keys -> 0..m]
BY CacheAssumption DEF Sweep, Remember, Expiry, Absent

\* What storing a key does: to the cache, to what others still rebuild, and to
\* the history.
LEMMA RecordEffect ==
    ASSUME TypeOK, NEW h \in Handlers, Record(h)
    PROVE  /\ req[h] \in Requests /\ req[h].key \in Keys /\ current[h] \in 0..MaxClock
           /\ seen' = [seen EXCEPT ![req[h].key] = current[h] + NonceTtl]
           /\ seen' \in [Keys -> 0..(MaxClock + NonceTtl)]
           /\ pc'[h] = "idle"
           /\ \A g \in Handlers : g # h =>
                pc'[g] = pc[g] \/ (pc[g] = "sweep" /\ pc'[g] = "broken")
           /\ pc' \in [Handlers -> {"idle", "accept", "sweep", "broken", "assign", "lookup",
                                    "record"}]
           /\ \A g \in Handlers :
                \/ swept'[g] = swept[g]
                \/ /\ pc[g] = "sweep"
                   /\ swept'[g] = Sweep(Remember(swept[g], req[h].key, current[h]), current[g])
           /\ swept' \in [Handlers -> [Keys -> 0..(MaxClock + NonceTtl)]]
           /\ times' = [times EXCEPT ![req[h]] = @ + 1]
           /\ last' = [last EXCEPT ![req[h].key] = IF current[h] > @ THEN current[h] ELSE @]
           /\ UNCHANGED <<clock, req, verified, current, boot, overlapped>>
<1> USE CacheAssumption, GuardAssumption
<1>1. req[h] \in Requests /\ req[h].key \in Keys /\ current[h] \in 0..MaxClock
  <2>1. req[h] \in Requests
    BY DEF Record, TypeOK
  <2>2. QED
    BY <2>1 DEF TypeOK, Requests
<1>2. /\ seen' = Remember(seen, req[h].key, current[h])
      /\ times' = [times EXCEPT ![req[h]] = @ + 1]
      /\ last' = [last EXCEPT ![req[h].key] = IF current[h] > @ THEN current[h] ELSE @]
      /\ UNCHANGED <<clock, req, verified, current, boot, overlapped>>
  BY DEF Record
<1>3. /\ MaxClock + NonceTtl \in Nat
      /\ current[h] + NonceTtl \in 0..(MaxClock + NonceTtl) /\ current[h] \in Nat
      /\ seen \in [Keys -> 0..(MaxClock + NonceTtl)]
      /\ swept \in [Handlers -> [Keys -> 0..(MaxClock + NonceTtl)]]
      /\ current \in [Handlers -> Nat]
      /\ pc \in [Handlers -> {"idle", "accept", "sweep", "broken", "assign", "lookup",
                              "record"}]
  BY <1>1 DEF TypeOK
<1>4. seen' \in [Keys -> 0..(MaxClock + NonceTtl)]
  BY <1>1, <1>2, <1>3, CacheTypes
<1>5. PICK sweepers : sweepers = {g \in Handlers : pc[g] = "sweep"}
  OBVIOUS
<1>6. PICK grows \in BOOLEAN : grows <=> seen[req[h].key] = Absent
  OBVIOUS
<1>7. pc' = [g \in Handlers |-> IF g = h THEN "idle"
                               ELSE IF grows /\ g \in sweepers THEN "broken" ELSE pc[g]]
  BY <1>5, <1>6 DEF Record
<1>8. PICK reached \in SUBSET sweepers :
        swept' = [g \in Handlers |->
                    IF g \in reached /\ ~grows
                    THEN Sweep(Remember(swept[g], req[h].key, current[h]), current[g])
                    ELSE swept[g]]
  BY <1>5, <1>6 DEF Record
<1>9. /\ pc'[h] = "idle"
      /\ \A g \in Handlers : g # h =>
           pc'[g] = pc[g] \/ (pc[g] = "sweep" /\ pc'[g] = "broken")
      /\ pc' \in [Handlers -> {"idle", "accept", "sweep", "broken", "assign", "lookup",
                               "record"}]
  BY <1>3, <1>5, <1>7
<1>10. \A g \in Handlers :
         \/ swept'[g] = swept[g]
         \/ /\ pc[g] = "sweep"
            /\ swept'[g] = Sweep(Remember(swept[g], req[h].key, current[h]), current[g])
  BY <1>5, <1>8
<1>11. \A g \in Handlers :
         Sweep(Remember(swept[g], req[h].key, current[h]), current[g])
           \in [Keys -> 0..(MaxClock + NonceTtl)]
  <2> TAKE g \in Handlers
  <2>1. swept[g] \in [Keys -> 0..(MaxClock + NonceTtl)] /\ current[g] \in Nat
    BY <1>3
  <2>2. Remember(swept[g], req[h].key, current[h]) \in [Keys -> 0..(MaxClock + NonceTtl)]
    BY <1>1, <1>3, <2>1, CacheTypes
  <2>3. QED
    BY <1>3, <2>1, <2>2, CacheTypes
<1>12. swept' \in [Handlers -> [Keys -> 0..(MaxClock + NonceTtl)]]
  BY <1>3, <1>8, <1>11
<1>13. seen' = [seen EXCEPT ![req[h].key] = current[h] + NonceTtl]
  BY <1>2 DEF Remember, Expiry
<1>14. QED
  BY <1>1, <1>2, <1>4, <1>9, <1>10, <1>12, <1>13

\* TypeOK is inductive.
THEOREM TypeCorrect == Spec => []TypeOK
<1>1. Init => TypeOK
  <2> SUFFICES ASSUME Init PROVE TypeOK
    OBVIOUS
  <2>1. overlapped = FALSE
    BY DEF Init
  <2>2. /\ clock = 0 /\ boot = 0
        /\ seen \in [Keys -> 0..(MaxClock + NonceTtl)]
        /\ swept \in [Handlers -> [Keys -> 0..(MaxClock + NonceTtl)]]
        /\ verified \in [Handlers -> 0..MaxClock] /\ current \in [Handlers -> 0..MaxClock]
        /\ times \in [Requests -> Nat] /\ last \in [Keys -> {Never} \cup 0..MaxClock]
    BY CacheAssumption, GuardAssumption DEF Init, EmptyCache, Absent
  <2>3. /\ pc \in [Handlers -> {"idle", "accept", "sweep", "broken", "assign", "lookup",
                               "record"}]
        /\ req \in [Handlers -> Requests \cup {NoRequest}]
        /\ \A h \in Handlers : pc[h] = "idle"
    BY DEF Init
  <2>4. overlapped \in BOOLEAN
    BY <2>1
  <2>5. clock \in 0..MaxClock /\ boot \in 0..MaxBoots
    BY <2>2, GuardAssumption
  <2>6. QED
    BY <2>2, <2>3, <2>4, <2>5 DEF TypeOK
<1>2. TypeOK /\ [Next]_vars => TypeOK'
  <2> SUFFICES ASSUME TypeOK, [Next]_vars PROVE TypeOK'
    OBVIOUS
  <2> USE CacheAssumption, GuardAssumption
  <2>0. EmptyCache \in [Keys -> 0..(MaxClock + NonceTtl)]
    BY DEF EmptyCache, Absent
  <2>1. CASE UNCHANGED vars
    BY <2>1 DEF TypeOK, vars, history
  <2>2. ASSUME NEW h \in Handlers, NEW r \in Requests, Verify(h, r)
        PROVE  TypeOK'
    BY <2>2 DEF Verify, TypeOK
  <2>3. ASSUME NEW h \in Handlers, NEW r \in Requests, RefuseStale(h, r)
        PROVE  TypeOK'
    BY <2>3 DEF RefuseStale, TypeOK, vars, history
  <2>4. ASSUME NEW h \in Handlers, EnterAccept(h)
        PROVE  TypeOK'
    <3>1. MaxClock + NonceTtl \in Nat /\ clock \in Nat
      BY DEF TypeOK
    <3>2. Sweep(seen, clock) \in [Keys -> 0..(MaxClock + NonceTtl)]
      BY <3>1, CacheTypes DEF TypeOK
    <3>3. swept' \in [Handlers -> [Keys -> 0..(MaxClock + NonceTtl)]]
      BY <2>4, <3>2 DEF EnterAccept, TypeOK, history
    <3>4. QED
      BY <2>4, <3>3 DEF EnterAccept, TypeOK, history
  <2>5. ASSUME NEW h \in Handlers, Lookup(h) \/ EndSweep(h)
        PROVE  TypeOK'
    BY <2>5 DEF Lookup, EndSweep, TypeOK, history
  <2>6. ASSUME NEW h \in Handlers, FailSweep(h)
        PROVE  TypeOK'
    BY <2>0, <2>6 DEF FailSweep, TypeOK, history
  <2>7. ASSUME NEW h \in Handlers, Assign(h)
        PROVE  TypeOK'
    <3>1. /\ seen' \in [Keys -> 0..(MaxClock + NonceTtl)]
          /\ swept' \in [Handlers -> [Keys -> 0..(MaxClock + NonceTtl)]]
      BY <2>0, <2>7 DEF Assign, TypeOK, history
    <3>2. \A g \in Handlers :
            /\ pc'[g] \in {"idle", "accept", "sweep", "broken", "assign", "lookup", "record"}
            /\ pc'[g] # "idle" => pc[g] # "idle"
      BY <2>7 DEF Assign, TypeOK, history
    <3>3. DOMAIN pc' = Handlers /\ pc' = [g \in Handlers |-> pc'[g]]
      BY <2>7 DEF Assign, history
    <3>4. QED
      BY <2>7, <3>1, <3>2, <3>3 DEF Assign, TypeOK, history
  <2>8. ASSUME NEW h \in Handlers, Record(h)
        PROVE  TypeOK'
    <3>1. /\ req[h] \in Requests /\ req[h].key \in Keys /\ current[h] \in 0..MaxClock
          /\ times' = [times EXCEPT ![req[h]] = @ + 1]
          /\ last' = [last EXCEPT ![req[h].key] = IF current[h] > @ THEN current[h] ELSE @]
          /\ seen' \in [Keys -> 0..(MaxClock + NonceTtl)]
          /\ swept' \in [Handlers -> [Keys -> 0..(MaxClock + NonceTtl)]]
          /\ pc' \in [Handlers -> {"idle", "accept", "sweep", "broken", "assign", "lookup",
                                   "record"}]
          /\ UNCHANGED <<clock, req, verified, current, boot, overlapped>>
      BY <2>8, RecordEffect
    <3>2. times' \in [Requests -> Nat] /\ last' \in [Keys -> {Never} \cup 0..MaxClock]
      BY <3>1 DEF TypeOK
    <3>3. \A g \in Handlers : pc'[g] # "idle" => pc[g] # "idle"
      BY <2>8, RecordEffect
    <3>4. QED
      BY <3>1, <3>2, <3>3 DEF TypeOK
  <2>9. CASE Tick
    BY <2>9 DEF Tick, TypeOK, history
  <2>10. CASE Restart
    <3>1. /\ seen' \in [Keys -> 0..(MaxClock + NonceTtl)]
          /\ swept' \in [Handlers -> [Keys -> 0..(MaxClock + NonceTtl)]]
          /\ pc' = [h \in Handlers |-> "idle"]
      BY <2>0, <2>10 DEF Restart
    <3>2. /\ times' \in [Requests -> Nat]
          /\ last' \in [Keys -> {Never} \cup 0..MaxClock]
          /\ boot' \in 0..MaxBoots
      BY <2>10 DEF Restart, TypeOK, Never
    <3>3. overlapped' = FALSE
      BY <2>10 DEF Restart
    <3>4. UNCHANGED <<clock, req, verified, current>>
      BY <2>10 DEF Restart
    <3>5. QED
      BY <3>1, <3>2, <3>3, <3>4 DEF TypeOK
  <2>11. QED
    BY <2>1, <2>2, <2>3, <2>4, <2>5, <2>6, <2>7, <2>8, <2>9, <2>10 DEF Next
<1>3. QED
  BY <1>1, <1>2, PTL DEF Spec

-----------------------------------------------------------------------------
(***************************************************************************)
(* The cache never exceeds max_entries.                                    *)
(***************************************************************************)

Serially == \A g, h \in Handlers : pc[g] # "idle" /\ pc[h] # "idle" => g = h

\* The bound, with what a handler that has passed the capacity test relies on:
\* as long as no other handler runs there is room for one more entry.
BoundInv ==
    /\ IsFiniteSet(Entries(seen))
    /\ Cardinality(Entries(seen)) <= MaxEntries
    /\ \A h \in Handlers :
         /\ pc[h] \in {"lookup", "record"} => Cardinality(Entries(seen)) < MaxEntries
         /\ pc[h] \in {"sweep", "assign"} => Entries(swept[h]) \subseteq Entries(seen)
    /\ Serially

\* Remembering a key adds at most one entry.
LEMMA EntriesChange ==
    ASSUME NEW s, IsFiniteSet(Entries(s)), NEW key \in Keys, NEW now
    PROVE  /\ IsFiniteSet(Entries(Remember(s, key, now)))
           /\ Cardinality(Entries(Remember(s, key, now))) <= Cardinality(Entries(s)) + 1
<1>1. Entries(Remember(s, key, now)) \subseteq Entries(s) \cup {key}
  BY DEF Entries, Remember
<1>2. Cardinality(Entries(s)) \in Nat
  BY FS_CardinalityType
<1>3. /\ IsFiniteSet(Entries(s) \cup {key})
      /\ Cardinality(Entries(s) \cup {key}) <= Cardinality(Entries(s)) + 1
  <2>1. /\ IsFiniteSet(Entries(s) \cup {key})
        /\ \/ Cardinality(Entries(s) \cup {key}) = Cardinality(Entries(s))
           \/ Cardinality(Entries(s) \cup {key}) = Cardinality(Entries(s)) + 1
    BY FS_AddElement
  <2>2. QED
    BY <1>2, <2>1
<1>4. /\ IsFiniteSet(Entries(Remember(s, key, now)))
      /\ Cardinality(Entries(Remember(s, key, now))) <= Cardinality(Entries(s) \cup {key})
  BY <1>1, <1>3, FS_Subset
<1>5. /\ Cardinality(Entries(Remember(s, key, now))) \in Nat
      /\ Cardinality(Entries(s) \cup {key}) \in Nat
  BY <1>3, <1>4, FS_CardinalityType
<1>6. QED
  BY <1>2, <1>3, <1>4, <1>5

LEMMA NewCacheEmpty == Entries(EmptyCache) = {}
BY DEF Entries, EmptyCache

\* While handlers do not overlap, the busy handler of a step is the only one.
LEMMA SerialStep ==
    ASSUME Serially, NEW h \in Handlers, pc[h] # "idle",
           \A g \in Handlers : g # h /\ pc'[g] # "idle" => pc[g] # "idle"
    PROVE  \A g \in Handlers : g # h => pc[g] = "idle" /\ pc'[g] = "idle"
BY DEF Serially

\* That handlers overlapped is forgotten in a restart only.
LEMMA OverlapStays ==
    ASSUME [Next]_vars, overlapped
    PROVE  Restart \/ overlapped'
BY DEF Next, Verify, RefuseStale, EnterAccept, EndSweep, FailSweep, Assign, Lookup, Record,
       Tick, vars, history

\* Unless handlers overlapped the cache holds at most max_entries entries.
THEOREM CacheBoundedThm == Spec => []CacheBounded
<1> USE CacheAssumption, GuardAssumption
<1>1. Init => BoundInv
  BY NewCacheEmpty, FS_EmptySet DEF Init, BoundInv, Serially
<1>2. Restart => BoundInv'
  <2> SUFFICES ASSUME Restart PROVE BoundInv'
    OBVIOUS
  <2>1. Entries(seen)' = {}
    BY NewCacheEmpty DEF Restart, Entries
  <2>2. \A g \in Handlers : pc'[g] = "idle"
    BY DEF Restart
  <2>3. QED
    BY <2>1, <2>2, FS_EmptySet DEF BoundInv, Serially
<1>3. TypeOK /\ BoundInv /\ [Next]_vars /\ ~overlapped' => BoundInv'
  <2> SUFFICES ASSUME TypeOK, BoundInv, [Next]_vars, ~overlapped' PROVE BoundInv'
    OBVIOUS
  <2>0. /\ IsFiniteSet(Entries(seen)) /\ Cardinality(Entries(seen)) <= MaxEntries
        /\ Cardinality(Entries(seen)) \in Nat /\ Serially
    BY FS_CardinalityType DEF BoundInv
  <2>1. CASE UNCHANGED vars
    BY <2>1 DEF BoundInv, Serially, vars, Entries, history
  <2>2. ASSUME NEW h \in Handlers, NEW r \in Requests, Verify(h, r)
        PROVE  BoundInv'
    <3>1. \A g \in Handlers : pc[g] = "idle"
      BY <2>2 DEF Verify
    <3>2. \A g \in Handlers : pc'[g] = IF g = h THEN "accept" ELSE "idle"
      BY <2>2, <3>1 DEF Verify, TypeOK
    <3>3. Entries(seen)' = Entries(seen)
      BY <2>2 DEF Verify, Entries
    <3>4. QED
      BY <3>2, <3>3 DEF BoundInv, Serially
  <2>3. ASSUME NEW h \in Handlers, NEW r \in Requests, RefuseStale(h, r)
        PROVE  BoundInv'
    BY <2>3 DEF RefuseStale, BoundInv, Serially, vars, Entries, history
  \* A step that leaves the cache as it is.
  <2>4. ASSUME NEW h \in Handlers,
               EnterAccept(h) \/ EndSweep(h) \/ FailSweep(h) \/ Lookup(h)
        PROVE  BoundInv'
    <3>1. /\ pc[h] # "idle" /\ seen' = seen
          /\ \A g \in Handlers : g # h => pc'[g] = pc[g]
      BY <2>4 DEF EnterAccept, EndSweep, FailSweep, Lookup, TypeOK, history
    <3>2. \A g \in Handlers : g # h => pc[g] = "idle" /\ pc'[g] = "idle"
      BY <2>0, <3>1, SerialStep
    <3>3. /\ pc'[h] \in {"lookup", "record"} => Cardinality(Entries(seen)) < MaxEntries
          /\ pc'[h] \in {"sweep", "assign"} => Entries(swept'[h]) \subseteq Entries(seen)
      <4>1. CASE EnterAccept(h)
        <5>1. Entries(Sweep(seen, clock)) \subseteq Entries(seen)
          BY DEF Entries, Sweep, Absent
        <5>2. pc'[h] = "lookup" => ~IsFull(seen)
          BY <4>1 DEF EnterAccept, TypeOK, history
        <5>3. pc'[h] \in {"lookup", "sweep"}
          BY <4>1 DEF EnterAccept, TypeOK, history
        <5>4. pc'[h] = "sweep" => swept'[h] = Sweep(seen, clock)
          BY <4>1 DEF EnterAccept, TypeOK, history
        <5>5. ~IsFull(seen) => Cardinality(Entries(seen)) < MaxEntries
          BY <2>0 DEF IsFull
        <5>6. QED
          BY <5>1, <5>2, <5>3, <5>4, <5>5
      <4>2. CASE EndSweep(h)
        BY <4>2 DEF EndSweep, BoundInv, TypeOK, history
      <4>3. CASE FailSweep(h)
        BY <4>3 DEF FailSweep, TypeOK, history
      <4>4. CASE Lookup(h)
        BY <4>4 DEF Lookup, BoundInv, TypeOK, history
      <4>5. QED
        BY <2>4, <4>1, <4>2, <4>3, <4>4
    <3>4. Entries(seen)' = Entries(seen) /\ Entries(swept[h])' = Entries(swept'[h])
      BY <3>1 DEF Entries
    <3>5. \A g \in Handlers : pc'[g] # "idle" => g = h
      BY <3>2
    <3>6. Serially'
      BY <3>5 DEF Serially
    <3>7. \A g \in Handlers :
            /\ pc'[g] \in {"lookup", "record"} => Cardinality(Entries(seen)') < MaxEntries
            /\ pc'[g] \in {"sweep", "assign"} => Entries(swept[g])' \subseteq Entries(seen)'
      BY <3>3, <3>4, <3>5
    <3>8. QED
      BY <2>0, <3>4, <3>6, <3>7 DEF BoundInv
  <2>5. ASSUME NEW h \in Handlers, Assign(h)
        PROVE  BoundInv'
    <3>1. /\ pc[h] = "assign" /\ seen' = swept[h]
          /\ pc'[h] = IF IsFull(swept[h]) THEN "idle" ELSE "lookup"
          /\ \A g \in Handlers : g # h /\ pc'[g] # "idle" => pc[g] # "idle"
      BY <2>5 DEF Assign, history
    <3>2. \A g \in Handlers : g # h => pc[g] = "idle" /\ pc'[g] = "idle"
      BY <2>0, <3>1, SerialStep
    <3>3. Entries(swept[h]) \subseteq Entries(seen)
      BY <3>1 DEF BoundInv
    <3>4. /\ IsFiniteSet(Entries(swept[h]))
          /\ Cardinality(Entries(swept[h])) <= Cardinality(Entries(seen))
          /\ Cardinality(Entries(swept[h])) \in Nat
      BY <2>0, <3>3, FS_Subset, FS_CardinalityType
    <3>5. Cardinality(Entries(swept[h])) <= MaxEntries
      BY <2>0, <3>4
    <3>6. pc'[h] = "lookup" => Cardinality(Entries(swept[h])) < MaxEntries
      BY <3>1, <3>4 DEF IsFull
    <3>7. Entries(seen)' = Entries(swept[h])
      BY <3>1 DEF Entries
    <3>8. pc'[h] \in {"idle", "lookup"}
      BY <3>1
    <3>9. \A g \in Handlers : pc'[g] # "idle" => g = h /\ pc'[g] = "lookup"
      BY <3>2, <3>8
    <3>10. Serially'
      BY <3>9 DEF Serially
    <3>11. \A g \in Handlers :
             /\ pc'[g] \in {"lookup", "record"} => Cardinality(Entries(seen)') < MaxEntries
             /\ pc'[g] \notin {"sweep", "assign"}
      BY <3>6, <3>7, <3>9
    <3>12. QED
      BY <3>4, <3>5, <3>7, <3>10, <3>11 DEF BoundInv
  <2>6. ASSUME NEW h \in Handlers, Record(h)
        PROVE  BoundInv'
    <3>1. /\ req[h].key \in Keys
          /\ seen' = [seen EXCEPT ![req[h].key] = current[h] + NonceTtl]
          /\ pc'[h] = "idle"
          /\ \A g \in Handlers : g # h /\ pc'[g] # "idle" => pc[g] # "idle"
      BY <2>6, RecordEffect
    <3>2. pc[h] = "record"
      BY <2>6 DEF Record
    <3>3. seen' = Remember(seen, req[h].key, current[h])
      BY <3>1 DEF Remember, Expiry
    <3>4. /\ IsFiniteSet(Entries(seen'))
          /\ Cardinality(Entries(seen')) <= Cardinality(Entries(seen)) + 1
          /\ Cardinality(Entries(seen)) < MaxEntries
          /\ Cardinality(Entries(seen')) \in Nat
      BY <2>0, <3>1, <3>2, <3>3, EntriesChange, FS_CardinalityType DEF BoundInv
    <3>5. Cardinality(Entries(seen')) <= MaxEntries
      BY <2>0, <3>4
    <3>6. \A g \in Handlers : pc'[g] = "idle"
      BY <2>0, <3>1, <3>2, SerialStep
    <3>7. Entries(seen)' = Entries(seen')
      BY DEF Entries
    <3>8. QED
      BY <3>4, <3>5, <3>6, <3>7 DEF BoundInv, Serially
  <2>7. CASE Tick
    BY <2>7 DEF Tick, BoundInv, Serially, Entries, history
  <2>8. CASE Restart
    BY <1>2, <2>8
  <2>9. QED
    BY <2>1, <2>2, <2>3, <2>4, <2>5, <2>6, <2>7, <2>8 DEF Next
<1>4. TypeOK /\ (~overlapped => BoundInv) /\ [Next]_vars => (~overlapped => BoundInv)'
  BY <1>2, <1>3, OverlapStays
<1>5. (~overlapped => BoundInv) => CacheBounded
  BY DEF BoundInv, CacheBounded
<1>6. QED
  BY <1>1, <1>4, <1>5, TypeCorrect, PTL DEF Spec

-----------------------------------------------------------------------------
(***************************************************************************)
(* What the cache remembers while handlers do not overlap.                 *)
(***************************************************************************)

\* A key accepted in this boot is in the cache until its TTL has passed.
Remembered ==
    \A k \in Keys : last[k] # Never =>
        /\ last[k] <= clock
        /\ seen[k] = last[k] + NonceTtl \/ last[k] + NonceTtl <= clock

\* An accepted request was accepted no earlier than its window opens.
InsideWindow ==
    \A r \in Requests : times[r] > 0 =>
        last[r.key] # Never /\ last[r.key] >= r.ts - MaxSkew

\* What a handler in progress knows of its request, of its key, and of the
\* cache it rebuilds.
HandlerOK(h) ==
    /\ pc[h] # "idle" =>
         /\ verified[h] <= clock /\ clock <= verified[h] + MaxLag
         /\ InWindow(verified[h], req[h].ts)
    /\ pc[h] \in {"sweep", "assign", "lookup", "record"} =>
         verified[h] <= current[h] /\ current[h] <= clock
    /\ pc[h] \in {"sweep", "assign"} =>
         \A k \in Keys : last[k] # Never =>
            swept[h][k] = last[k] + NonceTtl \/ last[k] + NonceTtl <= current[h]
    /\ pc[h] = "lookup" =>
         LET k == req[h].key IN
         last[k] # Never /\ seen[k] # last[k] + NonceTtl => last[k] + NonceTtl <= current[h]
    /\ pc[h] = "record" =>
         LET k == req[h].key IN
         last[k] # Never => last[k] + NonceTtl <= current[h]

HandlerInv == \A h \in Handlers : HandlerOK(h)

\* The memory of the cache: what the next theorems rest on.
MemoryInv ==
    /\ Remembered
    /\ InsideWindow
    /\ HandlerInv
    /\ Serially

\* The values a busy handler works with.
LEMMA RequestTypes ==
    ASSUME TypeOK, NEW h \in Handlers, pc[h] # "idle"
    PROVE  /\ req[h] \in Requests /\ req[h].key \in Keys /\ req[h].ts \in Int
           /\ times[req[h]] \in Nat
           /\ current[h] \in Nat /\ verified[h] \in Nat /\ clock \in Nat
<1>1. req[h] \in Requests
  BY DEF TypeOK
<1>2. req[h].key \in Keys /\ req[h].ts \in Int
  BY <1>1, GuardAssumption DEF Requests
<1>3. times[req[h]] \in Nat
  BY <1>1 DEF TypeOK
<1>4. current[h] \in Nat /\ verified[h] \in Nat /\ clock \in Nat
  BY DEF TypeOK
<1>5. QED
  BY <1>1, <1>2, <1>3, <1>4

\* When an acceptance is recorded, the key's last one is a TTL old, and the
\* request's window open, but for the lag.
LEMMA RecordSpaced ==
    ASSUME TypeOK, MemoryInv, NEW h \in Handlers, Record(h)
    PROVE  /\ req[h] \in Requests /\ req[h].key \in Keys /\ req[h].ts \in Int
           /\ current[h] \in Nat /\ current[h] <= clock
           /\ current[h] >= req[h].ts - MaxSkew
           /\ current[h] <= req[h].ts + MaxSkew + MaxLag
           /\ times' = [times EXCEPT ![req[h]] = @ + 1]
           /\ last' = [last EXCEPT ![req[h].key] = current[h]]
           /\ last[req[h].key] # Never =>
                last[req[h].key] \in Nat /\ last[req[h].key] + NonceTtl <= current[h]
<1> USE CacheAssumption, GuardAssumption
<1>1. pc[h] = "record"
  BY DEF Record
<1>2. /\ req[h] \in Requests /\ req[h].key \in Keys /\ req[h].ts \in Int
      /\ current[h] \in Nat /\ verified[h] \in Nat /\ clock \in Nat
  BY <1>1, RequestTypes
<1>3. HandlerOK(h)
  BY DEF MemoryInv, HandlerInv
<1>4. /\ verified[h] <= current[h] /\ current[h] <= clock /\ clock <= verified[h] + MaxLag
      /\ verified[h] - req[h].ts <= MaxSkew /\ req[h].ts - verified[h] <= MaxSkew
      /\ last[req[h].key] # Never => last[req[h].key] + NonceTtl <= current[h]
  BY <1>1, <1>3 DEF HandlerOK, InWindow
<1>5. last[req[h].key] # Never => last[req[h].key] \in Nat
  BY <1>2 DEF TypeOK
<1>6. /\ times' = [times EXCEPT ![req[h]] = @ + 1]
      /\ last' = [last EXCEPT ![req[h].key] = IF current[h] > @ THEN current[h] ELSE @]
  BY RecordEffect
<1>7. current[h] > last[req[h].key]
  BY <1>2, <1>4, <1>5 DEF Never
<1>8. last' = [last EXCEPT ![req[h].key] = current[h]]
  BY <1>6, <1>7
<1>9. current[h] >= req[h].ts - MaxSkew /\ current[h] <= req[h].ts + MaxSkew + MaxLag
  BY <1>2, <1>4
<1>10. QED
  BY <1>2, <1>4, <1>5, <1>6, <1>8, <1>9

\* Remembered, InsideWindow, HandlerInv and Serially hold together.
LEMMA MemoryInvariant == Spec => [](~overlapped => MemoryInv)
<1> USE CacheAssumption, GuardAssumption
<1>1. Init => MemoryInv
  BY DEF Init, MemoryInv, Remembered, InsideWindow, HandlerInv, HandlerOK, Serially, Requests
<1>2. Restart => MemoryInv'
  BY DEF Restart, MemoryInv, Remembered, InsideWindow, HandlerInv, HandlerOK, Serially,
         Requests
<1>3. TypeOK /\ MemoryInv /\ [Next]_vars /\ ~overlapped' => MemoryInv'
  <2> SUFFICES ASSUME TypeOK, MemoryInv, [Next]_vars, ~overlapped' PROVE MemoryInv'
    OBVIOUS
  <2>0. ASSUME NEW h \in Handlers, pc[h] # "idle",
               \A g \in Handlers : g # h /\ pc'[g] # "idle" => pc[g] # "idle",
               pc'[h] = "idle" \/ HandlerOK(h)'
        PROVE  HandlerInv' /\ Serially'
    <3>1. \A g \in Handlers : g # h => pc'[g] = "idle"
      BY <2>0, SerialStep DEF MemoryInv
    <3>2. \A g \in Handlers : pc'[g] = "idle" => HandlerOK(g)'
      BY DEF HandlerOK
    <3>3. QED
      BY <2>0, <3>1, <3>2 DEF HandlerInv, Serially
  <2>1. CASE UNCHANGED vars
    BY <2>1 DEF MemoryInv, Remembered, InsideWindow, HandlerInv, HandlerOK, Serially,
                vars, history
  <2>2. ASSUME NEW h \in Handlers, NEW r \in Requests, Verify(h, r)
        PROVE  MemoryInv'
    <3>1. \A g \in Handlers : pc[g] = "idle"
      BY <2>2 DEF Verify
    <3>2. HandlerInv' /\ Serially'
      BY <2>2, <3>1 DEF Verify, TypeOK, HandlerInv, HandlerOK, Serially
    <3>3. Remembered' /\ InsideWindow'
      BY <2>2 DEF Verify, MemoryInv, Remembered, InsideWindow
    <3>4. QED
      BY <3>2, <3>3 DEF MemoryInv
  <2>3. ASSUME NEW h \in Handlers, NEW r \in Requests, RefuseStale(h, r)
        PROVE  MemoryInv'
    BY <2>1, <2>3 DEF RefuseStale, history
  <2>4. ASSUME NEW h \in Handlers, EnterAccept(h)
        PROVE  MemoryInv'
    <3>1. Remembered' /\ InsideWindow'
      BY <2>4 DEF EnterAccept, MemoryInv, Remembered, InsideWindow, history
    <3>2. /\ pc[h] = "accept" /\ current'[h] = clock /\ pc'[h] \in {"lookup", "sweep"}
          /\ pc'[h] = "sweep" => swept'[h] = Sweep(seen, clock)
          /\ UNCHANGED <<clock, seen, req, verified, last>>
          /\ \A g \in Handlers : g # h => pc'[g] = pc[g]
      BY <2>4 DEF EnterAccept, TypeOK, history
    <3>3. HandlerOK(h) /\ req[h].key \in Keys /\ clock \in Nat
      BY <3>2, RequestTypes DEF MemoryInv, HandlerInv
    <3>4. \A k \in Keys : last[k] # Never =>
            /\ last[k] \in Nat
            /\ seen[k] = last[k] + NonceTtl \/ last[k] + NonceTtl <= clock
      BY DEF TypeOK, MemoryInv, Remembered
    <3>5. \A k \in Keys : last[k] # Never =>
            \/ Sweep(seen, clock)[k] = last[k] + NonceTtl
            \/ last[k] + NonceTtl <= clock
      BY <3>3, <3>4 DEF Sweep
    <3>6. HandlerOK(h)'
      BY <3>2, <3>3, <3>4, <3>5 DEF HandlerOK
    <3>7. HandlerInv' /\ Serially'
      BY <2>0, <3>2, <3>6
    <3>8. QED
      BY <3>1, <3>7 DEF MemoryInv
  <2>5. ASSUME NEW h \in Handlers, EndSweep(h) \/ FailSweep(h)
        PROVE  MemoryInv'
    <3>1. Remembered' /\ InsideWindow'
      BY <2>5 DEF EndSweep, FailSweep, MemoryInv, Remembered, InsideWindow, history
    <3>2. /\ pc[h] # "idle" /\ \A g \in Handlers : g # h => pc'[g] = pc[g]
          /\ \/ pc'[h] = "idle"
             \/ /\ pc[h] = "sweep" /\ pc'[h] = "assign"
                /\ UNCHANGED <<clock, seen, swept, req, verified, current, last>>
      BY <2>5 DEF EndSweep, FailSweep, TypeOK, history
    <3>3. pc'[h] = "idle" \/ HandlerOK(h)'
      BY <3>2 DEF MemoryInv, HandlerInv, HandlerOK
    <3>4. HandlerInv' /\ Serially'
      BY <2>0, <3>2, <3>3
    <3>5. QED
      BY <3>1, <3>4 DEF MemoryInv
  <2>6. ASSUME NEW h \in Handlers, Assign(h)
        PROVE  MemoryInv'
    <3>1. /\ pc[h] = "assign" /\ seen' = swept[h] /\ pc'[h] \in {"idle", "lookup"}
          /\ UNCHANGED <<clock, req, verified, current, times, last>>
          /\ \A g \in Handlers : g # h /\ pc'[g] # "idle" => pc[g] # "idle"
      BY <2>6 DEF Assign, history
    <3>2. HandlerOK(h) /\ req[h].key \in Keys /\ clock \in Nat /\ current[h] \in Nat
      BY <3>1, RequestTypes DEF MemoryInv, HandlerInv
    <3>3. current[h] <= clock /\ \A k \in Keys : last[k] # Never =>
            swept[h][k] = last[k] + NonceTtl \/ last[k] + NonceTtl <= current[h]
      BY <3>1, <3>2 DEF HandlerOK
    <3>4. \A k \in Keys : last[k] # Never => last[k] \in Nat /\ last[k] <= clock
      BY DEF TypeOK, MemoryInv, Remembered
    <3>5. Remembered'
      BY <3>1, <3>2, <3>3, <3>4 DEF Remembered
    <3>6. InsideWindow'
      BY <3>1 DEF MemoryInv, InsideWindow
    <3>7. pc'[h] = "idle" \/ HandlerOK(h)'
      BY <3>1, <3>2, <3>3 DEF HandlerOK
    <3>8. HandlerInv' /\ Serially'
      BY <2>0, <3>1, <3>7
    <3>9. QED
      BY <3>5, <3>6, <3>8 DEF MemoryInv
  <2>7. ASSUME NEW h \in Handlers, Lookup(h)
        PROVE  MemoryInv'
    <3>1. Remembered' /\ InsideWindow'
      BY <2>7 DEF Lookup, MemoryInv, Remembered, InsideWindow, history
    <3>2. /\ pc[h] = "lookup"
          /\ pc'[h] = IF Remembers(seen, req[h].key, current[h]) THEN "idle" ELSE "record"
          /\ UNCHANGED <<clock, seen, swept, req, verified, current, last>>
          /\ \A g \in Handlers : g # h => pc'[g] = pc[g]
      BY <2>7 DEF Lookup, TypeOK, history
    <3>3. /\ HandlerOK(h) /\ req[h].key \in Keys /\ current[h] \in Nat
          /\ seen[req[h].key] \in Nat
      BY <3>2, RequestTypes DEF MemoryInv, HandlerInv, TypeOK
    <3>4. pc'[h] = "idle" \/ HandlerOK(h)'
      BY <3>2, <3>3 DEF HandlerOK, Remembers
    <3>5. HandlerInv' /\ Serially'
      BY <2>0, <3>2, <3>4
    <3>6. QED
      BY <3>1, <3>5 DEF MemoryInv
  <2>8. ASSUME NEW h \in Handlers, Record(h)
        PROVE  MemoryInv'
    <3> DEFINE key == req[h].key
    <3>1. /\ req[h] \in Requests /\ key \in Keys /\ req[h].ts \in Int
          /\ current[h] \in Nat /\ current[h] <= clock
          /\ current[h] >= req[h].ts - MaxSkew
          /\ times' = [times EXCEPT ![req[h]] = @ + 1]
          /\ last' = [last EXCEPT ![key] = current[h]]
          /\ last[key] # Never => last[key] \in Nat /\ last[key] + NonceTtl <= current[h]
      BY <2>8, RecordSpaced
    <3>2. /\ pc'[h] = "idle" /\ seen' = [seen EXCEPT ![key] = current[h] + NonceTtl]
          /\ \A g \in Handlers : g # h /\ pc'[g] # "idle" => pc[g] # "idle"
          /\ UNCHANGED clock
      BY <2>8, RecordEffect
    <3>3. pc[h] = "record"
      BY <2>8 DEF Record
    <3>4. Remembered'
      BY <3>1, <3>2 DEF MemoryInv, Remembered, TypeOK
    <3>5. InsideWindow'
      <4> SUFFICES ASSUME NEW r \in Requests, times'[r] > 0
                   PROVE  last'[r.key] # Never /\ last'[r.key] >= r.ts - MaxSkew
        BY DEF InsideWindow
      <4>1. r.key \in Keys /\ r.ts \in Int
        BY DEF Requests
      <4>2. CASE r = req[h]
        BY <4>1, <4>2, <3>1 DEF TypeOK, Never
      <4>3. CASE r # req[h]
        <5>1. times[r] > 0
          BY <4>3, <3>1 DEF TypeOK
        <5>2. last[r.key] # Never /\ last[r.key] >= r.ts - MaxSkew
          BY <5>1 DEF MemoryInv, InsideWindow
        <5>3. last[r.key] \in Nat
          BY <4>1, <5>2 DEF TypeOK, Never
        <5>4. CASE r.key = key
          BY <5>2, <5>3, <5>4, <4>1, <3>1 DEF TypeOK, Never
        <5>5. CASE r.key # key
          BY <5>2, <5>5, <4>1, <3>1 DEF TypeOK
        <5>6. QED
          BY <5>4, <5>5
      <4>4. QED
        BY <4>2, <4>3
    <3>6. HandlerInv' /\ Serially'
      BY <2>0, <3>2, <3>3
    <3>7. QED
      BY <3>4, <3>5, <3>6 DEF MemoryInv
  <2>9. CASE Tick
    <3>1. clock' = clock + 1 /\ clock \in Nat
      BY <2>9 DEF Tick, TypeOK, history
    <3>2. /\ UNCHANGED <<seen, swept, pc, req, verified, current, times, last>>
          /\ \A h \in Handlers : pc[h] # "idle" => clock - verified[h] < MaxLag
      BY <2>9 DEF Tick, history
    <3>3. \A k \in Keys : last[k] # Never => last[k] \in Nat
      BY DEF TypeOK
    <3>4. Remembered' /\ InsideWindow' /\ Serially'
      BY <3>1, <3>2, <3>3 DEF MemoryInv, Remembered, InsideWindow, Serially
    <3>5. HandlerInv'
      <4> SUFFICES ASSUME NEW h \in Handlers PROVE HandlerOK(h)'
        BY DEF HandlerInv
      <4>1. HandlerOK(h) /\ verified[h] \in Nat /\ current[h] \in Nat
        BY DEF MemoryInv, HandlerInv, TypeOK
      <4>2. /\ pc[h] # "idle" => clock + 1 <= verified[h] + MaxLag
            /\ verified[h] <= clock => verified[h] <= clock + 1
            /\ current[h] <= clock => current[h] <= clock + 1
        BY <3>1, <3>2, <4>1
      <4>3. QED
        BY <3>1, <3>2, <4>1, <4>2 DEF HandlerOK
    <3>6. QED
      BY <3>4, <3>5 DEF MemoryInv
  <2>10. CASE Restart
    BY <1>2, <2>10
  <2>11. QED
    BY <2>1, <2>2, <2>3, <2>4, <2>5, <2>6, <2>7, <2>8, <2>9, <2>10 DEF Next
<1>4. TypeOK /\ (~overlapped => MemoryInv) /\ [Next]_vars => (~overlapped => MemoryInv)'
  BY <1>2, <1>3, OverlapStays
<1>5. QED
  BY <1>1, <1>4, TypeCorrect, PTL DEF Spec

\* Only Record adds to times; a step that keeps times or resets it is no
\* acceptance.
LEMMA OnlyRecordAccepts ==
    ASSUME [Next]_vars
    PROVE  \/ \E h \in Handlers : Record(h)
           \/ times' = times /\ last' = last
           \/ times' = [r \in Requests |-> 0]
BY DEF Next, Verify, RefuseStale, EnterAccept, EndSweep, FailSweep, Assign, Lookup, Tick,
       Restart, vars, history

\* Acceptances of one key are at least the TTL apart, whatever the window.
THEOREM AcceptancesSpacedThm == Spec => AcceptancesSpaced
<1> DEFINE Spaced == \A r \in Requests :
                        ~overlapped /\ times'[r] > times[r] /\ last[r.key] # Never
                        => last'[r.key] - last[r.key] >= NonceTtl
<1>1. TypeOK /\ (~overlapped => MemoryInv) /\ [Next]_vars => [Spaced]_vars
  <2> SUFFICES ASSUME TypeOK, MemoryInv, ~overlapped, [Next]_vars PROVE Spaced
    OBVIOUS
  <2>1. CASE times' = times
    BY <2>1 DEF TypeOK
  <2>2. CASE times' = [r \in Requests |-> 0]
    BY <2>2 DEF TypeOK
  <2>3. ASSUME NEW h \in Handlers, Record(h)
        PROVE  Spaced
    <3>1. \A r \in Requests : times'[r] > times[r] => r = req[h]
      BY <2>3, RecordSpaced DEF TypeOK
    <3>2. last'[req[h].key] = current[h] /\ current[h] \in Nat
      BY <2>3, RecordSpaced DEF TypeOK
    <3>3. last[req[h].key] # Never =>
            last'[req[h].key] - last[req[h].key] >= NonceTtl
      BY <2>3, <3>2, RecordSpaced, CacheAssumption
    <3>4. QED
      BY <3>1, <3>3
  <2>4. QED
    BY <2>1, <2>2, <2>3, OnlyRecordAccepts
<1>2. QED
  BY <1>1, TypeCorrect, MemoryInvariant, PTL DEF Spec, AcceptancesSpaced

\* A request accepted twice was accepted when its window had ended, but for
\* the lag, so that nothing is left of it for a third time.
Doubles == \A r \in Requests : times[r] >= 2 => last[r.key] >= r.ts + MaxSkew

\* What an acceptance of a request that was accepted before says of it.
LEMMA AcceptedAgain ==
    ASSUME TtlCoversWindow, LagBelowWindow, TypeOK, MemoryInv, Doubles,
           NEW h \in Handlers, Record(h), times[req[h]] > 0
    PROVE  times[req[h]] = 1 /\ current[h] >= req[h].ts + MaxSkew
<1> DEFINE r == req[h]
<1>1. /\ r \in Requests /\ r.key \in Keys /\ r.ts \in Int /\ current[h] \in Nat
      /\ current[h] <= r.ts + MaxSkew + MaxLag
      /\ last[r.key] # Never => last[r.key] \in Nat /\ last[r.key] + NonceTtl <= current[h]
  BY RecordSpaced
<1>2. times[r] \in Nat /\ times[r] > 0
  BY <1>1 DEF TypeOK
<1>3. last[r.key] # Never /\ last[r.key] >= r.ts - MaxSkew
  BY <1>1, <1>2 DEF MemoryInv, InsideWindow
<1>4. times[r] >= 2 => last[r.key] >= r.ts + MaxSkew
  BY <1>1 DEF Doubles
<1>5. /\ MaxSkew \in Nat /\ MaxLag \in Nat /\ NonceTtl \in Nat
      /\ NonceTtl >= 2 * MaxSkew /\ MaxLag < 2 * MaxSkew
  BY CacheAssumption, GuardAssumption DEF TtlCoversWindow, LagBelowWindow
<1>6. current[h] >= r.ts + MaxSkew
  BY <1>1, <1>3, <1>5
<1>7. ~(last[r.key] >= r.ts + MaxSkew)
  BY <1>1, <1>3, <1>5
<1>8. QED
  BY <1>2, <1>4, <1>6, <1>7

\* A request is acted on a second time at most once in a boot, and only when
\* its window ends: what the TTL of the code, which is just as long as the
\* window, leaves of "each nonce is consumed once".
THEOREM TwiceOnlyAtWindowEndThm ==
    ASSUME TtlCoversWindow, LagBelowWindow
    PROVE  Spec => TwiceOnlyAtWindowEnd
<1> DEFINE AtEnd == \A r \in Requests :
                       ~overlapped /\ times'[r] > times[r] /\ times[r] > 0 =>
                         /\ times[r] = 1
                         /\ last'[r.key] >= r.ts + MaxSkew
           Apart == ~overlapped => MemoryInv /\ Doubles
<1>1. Init => Doubles
  BY DEF Init, Doubles
<1>2. Restart => Doubles'
  BY DEF Restart, Doubles
<1>3. TypeOK /\ MemoryInv /\ Doubles /\ [Next]_vars => Doubles' /\ [AtEnd]_vars
  <2> SUFFICES ASSUME TypeOK, MemoryInv, Doubles, [Next]_vars PROVE Doubles' /\ AtEnd
    OBVIOUS
  <2>1. CASE times' = times /\ last' = last
    BY <2>1 DEF Doubles, TypeOK
  <2>2. CASE times' = [r \in Requests |-> 0]
    BY <2>2 DEF Doubles, TypeOK
  <2>3. ASSUME NEW h \in Handlers, Record(h)
        PROVE  Doubles' /\ AtEnd
    <3> DEFINE key == req[h].key
    <3>1. /\ req[h] \in Requests /\ key \in Keys /\ req[h].ts \in Int
          /\ current[h] \in Nat
          /\ times' = [times EXCEPT ![req[h]] = @ + 1]
          /\ last' = [last EXCEPT ![key] = current[h]]
          /\ last[key] # Never => last[key] \in Nat /\ last[key] + NonceTtl <= current[h]
      BY <2>3, RecordSpaced
    <3>2. times[req[h]] \in Nat /\ last'[key] = current[h]
      BY <3>1 DEF TypeOK
    <3>3. times[req[h]] > 0 => times[req[h]] = 1 /\ current[h] >= req[h].ts + MaxSkew
      BY <2>3, AcceptedAgain
    <3>4. AtEnd
      <4>1. \A r \in Requests : times'[r] > times[r] => r = req[h]
        BY <3>1 DEF TypeOK
      <4>2. QED
        BY <3>2, <3>3, <4>1
    <3>5. Doubles'
      <4> SUFFICES ASSUME NEW r \in Requests, times'[r] >= 2
                   PROVE  last'[r.key] >= r.ts + MaxSkew
        BY DEF Doubles
      <4>1. CASE r = req[h]
        <5>1. times[req[h]] > 0
          BY <3>1, <3>2, <4>1 DEF TypeOK
        <5>2. QED
          BY <3>2, <3>3, <4>1, <5>1
      <4>2. CASE r # req[h]
        <5>1. times[r] >= 2 /\ times[r] > 0
          BY <3>1, <4>2 DEF TypeOK
        <5>2. last[r.key] # Never /\ last[r.key] >= r.ts + MaxSkew
          BY <5>1 DEF Doubles, MemoryInv, InsideWindow
        <5>3. r.key \in Keys /\ r.ts \in Int
          BY GuardAssumption DEF Requests
        <5>4. CASE r.key = key
          BY <3>1, <3>2, <5>2, <5>3, <5>4, CacheAssumption
        <5>5. CASE r.key # key
          BY <3>1, <5>2, <5>3, <5>5 DEF TypeOK
        <5>6. QED
          BY <5>4, <5>5
      <4>3. QED
        BY <4>1, <4>2
    <3>6. QED
      BY <3>4, <3>5
  <2>4. QED
    BY <2>1, <2>2, <2>3, OnlyRecordAccepts
<1>4. TypeOK /\ Apart /\ [Next]_vars => (~overlapped => Doubles)' /\ [AtEnd]_vars
  BY <1>2, <1>3, OverlapStays
<1>5. QED
  BY <1>1, <1>4, TypeCorrect, MemoryInvariant, PTL DEF Spec, TwiceOnlyAtWindowEnd

-----------------------------------------------------------------------------
(***************************************************************************)
(* Refusals, whether handlers overlap or not.                              *)
(***************************************************************************)

\* A cache holds nothing but keys that were accepted, none for longer than a TTL.
FromAcceptances(s, l) ==
    \A k \in Keys : s[k] # Absent => l[k] # Never /\ s[k] <= l[k] + NonceTtl

\* So it is of the cache and of every rebuild of it, a rebuild has dropped what
\* had expired, and keys were accepted finitely often.
EntriesJustified ==
    /\ FromAcceptances(seen, last)
    /\ \A h \in Handlers :
         /\ FromAcceptances(swept[h], last)
         /\ pc[h] \in {"sweep", "assign"} =>
              \A k \in Keys : swept[h][k] # Absent => swept[h][k] > current[h]
    /\ IsFiniteSet({k \in Keys : last[k] # Never})

\* Sweeping keeps only what was there, and of that what has not expired.
LEMMA SweepKeeps ==
    ASSUME NEW s, NEW l, NEW now, FromAcceptances(s, l)
    PROVE  /\ FromAcceptances(Sweep(s, now), l)
           /\ \A k \in Keys : Sweep(s, now)[k] # Absent => Sweep(s, now)[k] > now
BY DEF FromAcceptances, Sweep

\* A later acceptance of a key lets its entry stay, and a new one in.
LEMMA RememberKeeps ==
    ASSUME NEW m \in Nat, NEW s \in [Keys -> 0..m], NEW key \in Keys, NEW now \in Nat,
           NEW l \in [Keys -> {Never} \cup Nat], FromAcceptances(s, l),
           NEW n, n = [l EXCEPT ![key] = IF now > @ THEN now ELSE @]
    PROVE  /\ FromAcceptances(s, n)
           /\ FromAcceptances(Remember(s, key, now), n)
<1> USE CacheAssumption
<1>1. n[key] \in Nat /\ n[key] >= now /\ n[key] >= l[key]
  BY DEF Never
<1>2. \A k \in Keys : k # key => n[k] = l[k]
  OBVIOUS
<1>3. FromAcceptances(s, n)
  BY <1>1, <1>2 DEF FromAcceptances, Never
<1>4. \A k \in Keys : Remember(s, key, now)[k] = IF k = key THEN now + NonceTtl ELSE s[k]
  BY DEF Remember, Expiry
<1>5. n[key] # Never /\ now + NonceTtl <= n[key] + NonceTtl
  BY <1>1 DEF Never
<1>6. QED
  BY <1>3, <1>4, <1>5 DEF FromAcceptances

LEMMA EntriesJustifiedInvariant == Spec => []EntriesJustified
<1> USE CacheAssumption, GuardAssumption
<1>1. \A l : FromAcceptances(EmptyCache, l)
  BY DEF FromAcceptances, EmptyCache
<1>2. Init => EntriesJustified
  <2> SUFFICES ASSUME Init PROVE EntriesJustified
    OBVIOUS
  <2>1. {k \in Keys : last[k] # Never} = {}
    BY DEF Init
  <2>2. QED
    BY <1>1, <2>1, FS_EmptySet DEF Init, EntriesJustified
<1>3. TypeOK /\ EntriesJustified /\ [Next]_vars => EntriesJustified'
  <2> SUFFICES ASSUME TypeOK, EntriesJustified, [Next]_vars PROVE EntriesJustified'
    OBVIOUS
  <2>0. FromAcceptances(seen, last) /\ \A h \in Handlers : FromAcceptances(swept[h], last)
    BY DEF EntriesJustified
  <2>1. ASSUME UNCHANGED <<seen, swept, last>>,
               \A h \in Handlers : pc'[h] \in {"sweep", "assign"} =>
                  pc[h] \in {"sweep", "assign"} /\ current'[h] = current[h]
        PROVE  EntriesJustified'
    BY <2>1 DEF EntriesJustified
  <2>2. ASSUME NEW h \in Handlers, NEW r \in Requests, Verify(h, r) PROVE EntriesJustified'
    BY <2>1, <2>2 DEF Verify, TypeOK
  <2>3. ASSUME NEW h \in Handlers, EndSweep(h) \/ Lookup(h) PROVE EntriesJustified'
    BY <2>1, <2>3 DEF EndSweep, Lookup, TypeOK, history
  <2>4. ASSUME NEW h \in Handlers, EnterAccept(h) PROVE EntriesJustified'
    <3>1. /\ UNCHANGED <<seen, last>>
          /\ \A g \in Handlers : g # h =>
               pc'[g] = pc[g] /\ swept'[g] = swept[g] /\ current'[g] = current[g]
          /\ current'[h] = clock
          /\ \/ swept'[h] = swept[h] /\ pc'[h] = "lookup"
             \/ swept'[h] = Sweep(seen, clock)
      BY <2>4 DEF EnterAccept, TypeOK, history
    <3>2. /\ FromAcceptances(Sweep(seen, clock), last)
          /\ \A k \in Keys : Sweep(seen, clock)[k] # Absent => Sweep(seen, clock)[k] > clock
      BY <2>0, SweepKeeps
    <3>3. QED
      BY <2>0, <3>1, <3>2 DEF EntriesJustified
  <2>5. ASSUME NEW h \in Handlers, FailSweep(h) PROVE EntriesJustified'
    <3>1. /\ UNCHANGED <<seen, last, current>> /\ pc'[h] = "idle" /\ swept'[h] = EmptyCache
          /\ \A g \in Handlers : g # h => pc'[g] = pc[g] /\ swept'[g] = swept[g]
      BY <2>5 DEF FailSweep, TypeOK, history
    <3>2. QED
      BY <2>0, <1>1, <3>1 DEF EntriesJustified
  <2>6. ASSUME NEW h \in Handlers, Assign(h) PROVE EntriesJustified'
    <3>1. /\ UNCHANGED <<last, current>> /\ seen' = swept[h]
          /\ pc'[h] \notin {"sweep", "assign"} /\ swept'[h] = EmptyCache
          /\ \A g \in Handlers : g # h =>
               /\ swept'[g] = swept[g]
               /\ pc'[g] \in {"sweep", "assign"} => pc[g] \in {"sweep", "assign"}
      BY <2>6 DEF Assign, TypeOK, history
    <3>2. QED
      BY <2>0, <1>1, <3>1 DEF EntriesJustified
  <2>7. ASSUME NEW h \in Handlers, Record(h) PROVE EntriesJustified'
    <3> DEFINE key == req[h].key
               accepted == {k \in Keys : last[k] # Never}
    <3>1. /\ key \in Keys /\ current[h] \in Nat
          /\ seen' = Remember(seen, key, current[h])
          /\ last' = [last EXCEPT ![key] = IF current[h] > @ THEN current[h] ELSE @]
          /\ UNCHANGED current
          /\ pc'[h] = "idle"
          /\ \A g \in Handlers : g # h =>
               pc'[g] = pc[g] \/ (pc[g] = "sweep" /\ pc'[g] = "broken")
          /\ \A g \in Handlers :
               \/ swept'[g] = swept[g]
               \/ /\ pc[g] = "sweep"
                  /\ swept'[g] = Sweep(Remember(swept[g], key, current[h]), current[g])
      BY <2>7, RecordEffect DEF Remember, Expiry
    <3>2. /\ MaxClock + NonceTtl \in Nat
          /\ seen \in [Keys -> 0..(MaxClock + NonceTtl)]
          /\ swept \in [Handlers -> [Keys -> 0..(MaxClock + NonceTtl)]]
          /\ last \in [Keys -> {Never} \cup Nat]
      BY DEF TypeOK
    <3>3. FromAcceptances(seen', last')
      BY <2>0, <3>1, <3>2, RememberKeeps
    <3>4. ASSUME NEW g \in Handlers
          PROVE  /\ FromAcceptances(swept'[g], last')
                 /\ pc'[g] \in {"sweep", "assign"} =>
                      \A k \in Keys : swept'[g][k] # Absent => swept'[g][k] > current'[g]
      <4>1. /\ FromAcceptances(swept[g], last')
            /\ FromAcceptances(Remember(swept[g], key, current[h]), last')
        BY <2>0, <3>1, <3>2, RememberKeeps
      <4>2. pc'[g] \in {"sweep", "assign"} => pc'[g] = pc[g]
        BY <3>1
      <4>3. CASE swept'[g] = swept[g]
        BY <3>1, <4>1, <4>2, <4>3 DEF EntriesJustified
      <4>4. CASE swept'[g] = Sweep(Remember(swept[g], key, current[h]), current[g])
        BY <3>1, <4>1, <4>4, SweepKeeps
      <4>5. QED
        BY <3>1, <4>3, <4>4
    <3>5. {k \in Keys : last'[k] # Never} \subseteq accepted \cup {key}
      BY <3>1 DEF TypeOK
    <3>6. IsFiniteSet(accepted \cup {key})
      BY FS_AddElement DEF EntriesJustified
    <3>7. IsFiniteSet({k \in Keys : last'[k] # Never})
      BY <3>5, <3>6, FS_Subset
    <3>8. QED
      BY <3>3, <3>4, <3>7 DEF EntriesJustified
  <2>8. CASE Restart
    <3>1. /\ seen' = EmptyCache /\ last' = [k \in Keys |-> Never]
          /\ \A g \in Handlers : swept'[g] = EmptyCache /\ pc'[g] = "idle"
      BY <2>8 DEF Restart
    <3>2. {k \in Keys : last'[k] # Never} = {}
      BY <3>1
    <3>3. QED
      BY <1>1, <3>1, <3>2, FS_EmptySet DEF EntriesJustified
  <2>9. CASE Tick \/ UNCHANGED vars
    BY <2>1, <2>9 DEF Tick, vars, history
  <2>10. QED
    BY <2>2, <2>3, <2>4, <2>5, <2>6, <2>7, <2>8, <2>9 DEF Next, RefuseStale, history
<1>4. QED
  BY <1>2, <1>3, TypeCorrect, PTL DEF Spec

\* Only accept's own statements send a handler away, with the clock it read.
LEMMA Refusals ==
    ASSUME TypeOK, [Next]_vars, NEW h \in Handlers, boot' = boot,
           pc[h] \in {"accept", "assign", "lookup"}, pc'[h] = "idle"
    PROVE  /\ current'[h] = current[h]
           /\ \/ Assign(h) /\ IsFull(swept[h])
              \/ Lookup(h) /\ Remembers(seen, req[h].key, current[h])
<1>1. boot \in Nat /\ ~Restart
  BY GuardAssumption DEF TypeOK, Restart
<1>2. ASSUME NEW g \in Handlers,
             EnterAccept(g) \/ EndSweep(g) \/ FailSweep(g)
      PROVE  FALSE
  BY <1>2 DEF EnterAccept, EndSweep, FailSweep, TypeOK, history
<1>3. ASSUME NEW g \in Handlers, Record(g)
      PROVE  FALSE
  <2>1. g # h
    BY <1>3 DEF Record
  <2>2. pc'[h] = pc[h] \/ pc'[h] = "broken"
    BY <1>3, <2>1, RecordEffect
  <2>3. QED
    BY <2>2
<1>4. ASSUME NEW g \in Handlers, Assign(g)
      PROVE  g = h /\ IsFull(swept[h]) /\ current'[h] = current[h]
  BY <1>4 DEF Assign, history
<1>5. ASSUME NEW g \in Handlers, Lookup(g)
      PROVE  g = h /\ Remembers(seen, req[h].key, current[h]) /\ current'[h] = current[h]
  BY <1>5 DEF Lookup, TypeOK, history
<1>6. ASSUME NEW g \in Handlers, NEW r \in Requests, Verify(g, r) \/ RefuseStale(g, r)
      PROVE  FALSE
  BY <1>6 DEF Verify, RefuseStale, TypeOK, vars, history
<1>7. ~Tick /\ ~UNCHANGED vars
  BY DEF Tick, vars, history
<1>8. QED
  BY <1>1, <1>2, <1>3, <1>4, <1>5, <1>6, <1>7 DEF Next

\* accept turns a verified request away only for a key accepted less than a
\* TTL ago, or when max_entries keys were: it never refuses a new request for
\* entries that have expired.  This holds in the thread pool, too, where the
\* rebuilt dict loses what was stored during the rebuild.
THEOREM RefusalsJustifiedThm == Spec => RefusalsJustified
<1> DEFINE Justified ==
      \A h \in Handlers :
        /\ pc[h] \in {"accept", "assign", "lookup"} /\ pc'[h] = "idle" /\ boot' = boot
        => LET recent == RecentlyAccepted(current'[h]) IN
             \/ req[h].key \in recent
             \/ Cardinality(recent) >= MaxEntries
<1>1. TypeOK /\ EntriesJustified /\ [Next]_vars => Justified
  <2> SUFFICES ASSUME TypeOK, EntriesJustified, [Next]_vars, NEW h \in Handlers,
                      pc[h] \in {"accept", "assign", "lookup"}, pc'[h] = "idle", boot' = boot
               PROVE  \/ req[h].key \in RecentlyAccepted(current'[h])
                      \/ Cardinality(RecentlyAccepted(current'[h])) >= MaxEntries
    OBVIOUS
  <2>1. /\ current'[h] = current[h] /\ current[h] \in Nat /\ req[h].key \in Keys
        /\ (IsFull(swept[h]) /\ pc[h] = "assign") \/ seen[req[h].key] > current[h]
    <3>1. current[h] \in Nat /\ req[h].key \in Keys
      BY RequestTypes
    <3>2. QED
      BY <3>1, Refusals DEF Remembers, Assign, history
  <2>2. CASE IsFull(swept[h]) /\ pc[h] = "assign"
    <3> DEFINE entries == Entries(swept[h])
               recent == RecentlyAccepted(current[h])
    <3>1. Cardinality(entries) >= MaxEntries
      BY <2>2 DEF IsFull
    <3>2. entries \subseteq recent
      <4> SUFFICES ASSUME NEW k \in Keys, swept[h][k] # Absent PROVE k \in recent
        BY DEF Entries
      <4>1. /\ last[k] # Never /\ swept[h][k] <= last[k] + NonceTtl
            /\ swept[h][k] > current[h]
        BY <2>2 DEF EntriesJustified, FromAcceptances
      <4>2. swept[h][k] \in Nat /\ last[k] \in Nat
        BY <4>1, CacheAssumption, GuardAssumption DEF TypeOK
      <4>3. QED
        BY <2>1, <4>1, <4>2, CacheAssumption DEF RecentlyAccepted
    <3>3. recent \subseteq {k \in Keys : last[k] # Never}
      BY DEF RecentlyAccepted
    <3>4. IsFiniteSet(recent)
      BY <3>3, FS_Subset DEF EntriesJustified
    <3>5. /\ Cardinality(entries) <= Cardinality(recent)
          /\ Cardinality(entries) \in Nat /\ Cardinality(recent) \in Nat
      BY <3>2, <3>4, FS_Subset, FS_CardinalityType
    <3> HIDE DEF entries, recent
    <3>6. Cardinality(recent) >= MaxEntries
      BY <3>1, <3>5, CacheAssumption
    <3>7. QED
      BY <2>1, <3>6 DEF recent
  <2>3. CASE seen[req[h].key] > current[h]
    <3> DEFINE key == req[h].key
    <3>1. seen[key] # Absent
      BY <2>1, <2>3 DEF Absent
    <3>2. last[key] # Never /\ seen[key] <= last[key] + NonceTtl
      BY <2>1, <3>1 DEF EntriesJustified, FromAcceptances
    <3>3. seen[key] \in Nat /\ last[key] \in Nat
      BY <2>1, <3>2, CacheAssumption, GuardAssumption DEF TypeOK
    <3>4. QED
      BY <2>1, <2>3, <3>2, <3>3, CacheAssumption DEF RecentlyAccepted
  <2>4. QED
    BY <2>1, <2>2, <2>3
<1>2. QED
  BY <1>1, TypeCorrect, EntriesJustifiedInvariant, PTL DEF Spec, RefusalsJustified

=============================================================================
