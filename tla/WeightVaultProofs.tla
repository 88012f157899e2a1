------------------------- MODULE WeightVaultProofs -------------------------
(***************************************************************************)
(* Proofs about WeightVault, for any processes, revisions, licenses, sizes *)
(* and limits: first what does not depend on sizes, then sums of sizes and *)
(* what the quota and the reserve allow.                                   *)
(***************************************************************************)
EXTENDS WeightVault, FiniteSetTheorems, WellFoundedInduction, TLAPS

\* TypeOK without the bound on free space.
Typed ==
    /\ marker \in BOOLEAN
    /\ found \subseteq Making /\ made \subseteq Making
    /\ snapshots \in [Revisions -> [size : Nat, manifest : BOOLEAN]]
    /\ damaged \subseteq Revisions
    /\ locks \subseteq Revisions
    /\ staging \in [Processes -> [size : Nat, manifest : BOOLEAN]]
    /\ litter \in Nat
    /\ pc \in [Processes -> {"idle"} \cup Initializing \cup Mirroring]
    /\ rev \in [Processes -> Revisions]
    /\ want \in [Processes -> Sizes \cup {0}]
    /\ told \in [Processes -> [size : Nat, manifest : BOOLEAN]]
    /\ mirrors \in 0..MaxMirrors
    /\ abandoned \subseteq Revisions
    /\ shared \in BOOLEAN /\ cut \in BOOLEAN

\* Whoever is in a slot has its lock.
Slots ==
    /\ SlotsExclusive
    /\ \A p \in Processes : pc[p] \in InSlot => rev[p] \in locks

\* initialize makes its directories in order and only behind the marker; where a
\* mirror works the others are there.
InOrder ==
    /\ \A p \in Processes, i \in 1..3 : pc[p] = Directories[i] =>
         marker /\ \A j \in 1..(i - 1) : Directories[j] \in made
    /\ \A i \in 1..2 : Directories[i + 1] \in made =>
         Directories[i + 1] \in found \/ Directories[i] \in made
    /\ "models" \in made => "models" \in found \/ marker
    /\ found \subseteq made
    /\ \A p \in Processes :
         /\ pc[p] \in Mirroring => marker
         /\ pc[p] \in InSlot => ".locks" \in made
         /\ pc[p] \in {"downloading", "committing", "renaming"} => ".staging" \in made

\* There is every directory up to one that initialize found.
AllThere ==
    \A i \in 1..3 : Directories[i] \in made \/ \E j \in 1..(i - 1) : Directories[j] \in found

\* Somebody is about to make a directory that is missing.
Maker(p) == \E i \in 1..3 : pc[p] = Directories[i] /\ Directories[i] \notin made

InitializeGoesOn == marker /\ ~cut => AllThere \/ \E p \in Processes : Maker(p)

\* What a mirror is about to publish: a revision that passed the license gate,
\* downloaded to the end, with its manifest before the rename.
MirrorsWhole ==
    \A p \in Processes :
        /\ pc[p] \in Mirroring =>
             \E expected \in Expected : RequireLicense(License[rev[p]], expected)
        /\ pc[p] = "committing" => staging[p].size = want[p] /\ want[p] > 0
        /\ pc[p] = "renaming" =>
             staging[p] = [size |-> want[p], manifest |-> TRUE] /\ want[p] > 0

\* Only what is published can be damaged, or takes space.
DamagedExist ==
    /\ \A r \in damaged : Exists(r)
    /\ \A r \in Revisions : Exists(r) \/ snapshots[r] = NoSnapshot

IInv == Typed /\ Slots /\ InOrder /\ InitializeGoesOn /\ MirrorsWhole /\ DamagedExist

-----------------------------------------------------------------------------
LEMMA InitIInv == Init => IInv
<1> SUFFICES ASSUME Init PROVE IInv
  OBVIOUS
<1> USE VaultAssumption
<1>1. Typed
  <2>1. NoSnapshot \in [size : Nat, manifest : BOOLEAN]
    BY DEF NoSnapshot
  <2>2. marker \in BOOLEAN /\ shared \in BOOLEAN /\ cut \in BOOLEAN
    BY DEF Init
  <2>3. /\ snapshots \in [Revisions -> [size : Nat, manifest : BOOLEAN]]
        /\ staging \in [Processes -> [size : Nat, manifest : BOOLEAN]]
        /\ told \in [Processes -> [size : Nat, manifest : BOOLEAN]]
    BY <2>1 DEF Init
  <2>4. found \subseteq Making /\ made \subseteq Making
    BY DEF Init, Making
  <2>5. /\ pc \in [Processes -> {"idle"} \cup Initializing \cup Mirroring]
        /\ rev \in [Processes -> Revisions]
        /\ want \in [Processes -> Sizes \cup {0}]
        /\ mirrors \in 0..MaxMirrors
    BY DEF Init
  <2>6. damaged \subseteq Revisions /\ locks \subseteq Revisions /\ abandoned \subseteq Revisions
    BY DEF Init
  <2>7. litter \in Nat
    BY DEF Init
  <2>8. QED
    BY <2>2, <2>3, <2>4, <2>5, <2>6, <2>7 DEF Typed
<1>2. Slots
  BY DEF Init, Slots, SlotsExclusive, InSlot
<1>3. InitializeGoesOn
  BY DEF Init, InitializeGoesOn
<1>4. MirrorsWhole
  BY DEF Init, MirrorsWhole, Mirroring, InSlot
<1>5. DamagedExist
  BY DEF Init, DamagedExist
<1>6. InOrder
  <2>1. \A i \in 1..3 : Directories[i] # "idle"
    BY DEF Directories
  <2>2. QED
    BY <2>1 DEF Init, InOrder, Mirroring, InSlot
<1>7. QED
  BY <1>1, <1>2, <1>3, <1>4, <1>5, <1>6 DEF IInv

\* Every step of a process, as a case of its own.
LEMMA StepCases ==
  ASSUME [Next]_vars
  PROVE  \/ \E p \in Processes :
              \/ BeginInitialize(p) \/ WriteMarker(p) \/ MakeDirectory(p)
              \/ FailInitialize(p)
              \/ \E r \in Revisions, expected \in Expected, announced, actual \in Sizes :
                     BeginMirror(p, r, expected, announced, actual)
              \/ FindTarget(p)
              \/ TakeLock(p) \/ MissLock(p) \/ MakeStaging(p) \/ Download(p)
              \/ CheckCommit(p) \/ WriteManifest(p) \/ MakeParents(p) \/ Rename(p)
              \/ FailInSlot(p) \/ RemoveStaging(p) \/ Unlock(p)
              \/ Kill(p)
         \/ \E r \in Revisions : Damage(r)
         \/ UNCHANGED vars
  BY DEF Next

LEMMA ManifestWritten ==
    ASSUME NEW item \in [size : Nat, manifest : BOOLEAN]
    PROVE  [item EXCEPT !.manifest = TRUE] \in [size : Nat, manifest : BOOLEAN]
  OBVIOUS

LEMMA NextTyped == IInv /\ [Next]_vars => Typed'
<1> SUFFICES ASSUME IInv, [Next]_vars PROVE Typed'
  OBVIOUS
<1> USE VaultAssumption
        DEF IInv, Goto, vault, command, history, Initializing, Mirroring, InSlot
<1>1. ASSUME NEW p \in Processes, BeginInitialize(p) PROVE Typed'
  BY <1>1 DEF BeginInitialize, Typed
<1>2. ASSUME NEW p \in Processes, WriteMarker(p) PROVE Typed'
  <2>1. marker' \in BOOLEAN /\ "models" \in Initializing
    BY <1>2 DEF WriteMarker, Making
  <2>2. QED
    BY <1>2, <2>1 DEF WriteMarker, Typed
<1>3. ASSUME NEW p \in Processes, MakeDirectory(p) PROVE Typed'
  <2>1. PICK i \in 1..3 :
          /\ made' = made \cup {Directories[i]}
          /\ Goto(p, IF Directories[i] \in made \/ i = 3 THEN "idle" ELSE Directories[i + 1])
    BY <1>3 DEF MakeDirectory
  <2>2. /\ Directories[i] \in Making
        /\ i # 3 => Directories[i + 1] \in Making
    BY DEF Directories, Making
  <2>3. QED
    BY <1>3, <2>1, <2>2 DEF MakeDirectory, Typed
<1>4. ASSUME NEW p \in Processes, NEW r \in Revisions, NEW expected \in Expected,
             NEW announced \in Sizes, NEW actual \in Sizes,
             BeginMirror(p, r, expected, announced, actual)
      PROVE  Typed'
  <2>1. shared' \in BOOLEAN
    BY <1>4 DEF BeginMirror
  <2>2. QED
    BY <1>4, <2>1 DEF BeginMirror, Typed, NoSnapshot
<1>5. ASSUME NEW p \in Processes, FindTarget(p) PROVE Typed'
  BY <1>5 DEF FindTarget, Verified, Typed, NoSnapshot
<1>6. ASSUME NEW p \in Processes, TakeLock(p) PROVE Typed'
  BY <1>6 DEF TakeLock, Typed
<1>7. ASSUME NEW p \in Processes, MissLock(p) PROVE Typed'
  BY <1>7 DEF MissLock, Typed
<1>8. ASSUME NEW p \in Processes, MakeStaging(p) PROVE Typed'
  BY <1>8 DEF MakeStaging, Typed
<1>9. ASSUME NEW p \in Processes, Download(p) PROVE Typed'
  BY <1>9 DEF Download, Typed
<1>10. ASSUME NEW p \in Processes, CheckCommit(p) PROVE Typed'
  BY <1>10 DEF CheckCommit, Verified, Typed, NoSnapshot
<1>11. ASSUME NEW p \in Processes, WriteManifest(p) PROVE Typed'
  <2>1. staging' = [staging EXCEPT ![p].manifest = TRUE]
    BY <1>11 DEF WriteManifest
  <2>2. [staging[p] EXCEPT !.manifest = TRUE] \in [size : Nat, manifest : BOOLEAN]
    <3>1. staging[p] \in [size : Nat, manifest : BOOLEAN]
      BY DEF Typed
    <3>2. QED
      BY <3>1, ManifestWritten
  <2>3. staging' \in [Processes -> [size : Nat, manifest : BOOLEAN]]
    BY <2>1, <2>2 DEF Typed
  <2>4. QED
    BY <1>11, <2>3 DEF WriteManifest, Typed
<1>12. ASSUME NEW p \in Processes, Rename(p) PROVE Typed'
  BY <1>12 DEF Rename, Typed, NoSnapshot
<1>13. ASSUME NEW p \in Processes, FailInSlot(p) PROVE Typed'
  BY <1>13 DEF FailInSlot, Typed
<1>14. ASSUME NEW p \in Processes, RemoveStaging(p) PROVE Typed'
  BY <1>14 DEF RemoveStaging, Typed, NoSnapshot
<1>15. ASSUME NEW p \in Processes, Unlock(p) PROVE Typed'
  BY <1>15 DEF Unlock, Typed
<1>16. ASSUME NEW p \in Processes, Kill(p) PROVE Typed'
  <2>1. cut' = (cut \/ pc[p] \in Making)
    BY <1>16 DEF Kill
  <2>2. cut' \in BOOLEAN
    BY <2>1
  <2>3. Occupied(staging[p]) \in Nat
    BY DEF Typed, Occupied
  <2>4. litter' \in Nat
    BY <1>16, <2>3 DEF Kill, Typed
  <2>5. abandoned' \subseteq Revisions
    BY <1>16 DEF Kill, Typed
  <2>6. /\ staging' \in [Processes -> [size : Nat, manifest : BOOLEAN]]
        /\ told' \in [Processes -> [size : Nat, manifest : BOOLEAN]]
    BY <1>16 DEF Kill, Typed, NoSnapshot
  <2>7. QED
    BY <1>16, <2>2, <2>4, <2>5, <2>6 DEF Kill, Typed
<1>17. ASSUME NEW r \in Revisions, Damage(r) PROVE Typed'
  BY <1>17 DEF Damage, Typed
<1>18. ASSUME NEW p \in Processes, FailInitialize(p) PROVE Typed'
  <2>1. cut' \in BOOLEAN
    BY <1>18 DEF FailInitialize, Typed
  <2>2. QED
    BY <1>18, <2>1 DEF FailInitialize, Typed
<1>19. ASSUME NEW p \in Processes, MakeParents(p) PROVE Typed'
  BY <1>19 DEF MakeParents, Typed, Making
<1>20. CASE UNCHANGED vars
  BY <1>20 DEF vars, Typed
<1>21. QED
  BY <1>1, <1>2, <1>3, <1>4, <1>5, <1>6, <1>7, <1>8, <1>9, <1>10, <1>11, <1>12, <1>13,
     <1>14, <1>15, <1>16, <1>17, <1>18, <1>19, <1>20, StepCases

\* Entering a slot needs a lock file that is not there; leaving it without
\* removing the file is recorded in abandoned.
LEMMA NextSlots == IInv /\ [Next]_vars => Slots'
<1> SUFFICES ASSUME IInv, [Next]_vars PROVE Slots'
  OBVIOUS
<1> USE VaultAssumption DEF IInv, Goto, vault, command, history
<1>1. ASSUME NEW p \in Processes, TakeLock(p) PROVE Slots'
  <2>1. /\ pc'[p] = "slotted" /\ pc[p] = "locking"
        /\ \A q \in Processes \ {p} : pc'[q] = pc[q]
        /\ UNCHANGED <<rev, abandoned>>
        /\ locks' = locks \cup {rev[p]} /\ rev[p] \notin locks
    BY <1>1 DEF TakeLock, Typed
  <2>2. \A q \in Processes \ {p} : pc'[q] \in InSlot => rev[q] # rev[p]
    BY <2>1 DEF Slots
  <2>3. QED
    BY <2>1, <2>2 DEF Slots, SlotsExclusive, InSlot
<1>2. ASSUME NEW p \in Processes, Unlock(p) PROVE Slots'
  BY <1>2 DEF Unlock, Typed, Slots, SlotsExclusive, InSlot
<1>3. ASSUME NEW p \in Processes, MakeStaging(p) PROVE Slots'
  <2>1. /\ pc[p] = "slotted"
        /\ \A q \in Processes \ {p} : pc'[q] = pc[q]
        /\ UNCHANGED <<rev, locks>>
    BY <1>3 DEF MakeStaging, Typed
  <2>2. CASE pc'[p] = "downloading" /\ abandoned' = abandoned
    BY <2>1, <2>2 DEF Slots, SlotsExclusive, InSlot
  <2>3. CASE pc'[p] = "idle" /\ abandoned' = abandoned \cup {rev[p]}
    BY <2>1, <2>3 DEF Slots, SlotsExclusive, InSlot
  <2>4. QED
    BY <1>3, <2>2, <2>3 DEF MakeStaging, Typed
<1>4. ASSUME NEW p \in Processes, Kill(p) PROVE Slots'
  BY <1>4 DEF Kill, Typed, Slots, SlotsExclusive, InSlot
\* A step from outside the slots to outside, whatever it does to the revision.
<1>5. ASSUME NEW p \in Processes, pc[p] \notin InSlot, pc'[p] \notin InSlot,
             \A q \in Processes \ {p} : pc'[q] = pc[q] /\ rev'[q] = rev[q],
             UNCHANGED <<locks, abandoned>>
      PROVE  Slots'
  BY <1>5 DEF Typed, Slots, SlotsExclusive
\* A step within the slot.
<1>6. ASSUME NEW p \in Processes, pc[p] \in InSlot, pc'[p] \in InSlot,
             \A q \in Processes \ {p} : pc'[q] = pc[q],
             UNCHANGED <<rev, locks, abandoned>>
      PROVE  Slots'
  BY <1>6 DEF Typed, Slots, SlotsExclusive
<1>7. ASSUME NEW p \in Processes,
             \/ BeginInitialize(p) \/ WriteMarker(p) \/ FailInitialize(p) \/ MissLock(p)
             \/ FindTarget(p)
      PROVE  Slots'
  <2>1. pc[p] \notin InSlot /\ pc'[p] \notin InSlot
    BY <1>7 DEF BeginInitialize, WriteMarker, FailInitialize, MissLock, FindTarget, Typed,
                InSlot, Making
  <2>2. /\ \A q \in Processes \ {p} : pc'[q] = pc[q] /\ rev'[q] = rev[q]
        /\ UNCHANGED <<locks, abandoned>>
    BY <1>7 DEF BeginInitialize, WriteMarker, FailInitialize, MissLock, FindTarget, Typed
  <2>3. QED
    BY <1>5, <2>1, <2>2
<1>8. ASSUME NEW p \in Processes, MakeDirectory(p) PROVE Slots'
  <2>1. \A i \in 1..3 : Directories[i] \notin InSlot
    BY DEF Directories, InSlot
  <2>2. pc[p] \notin InSlot /\ pc'[p] \notin InSlot
    BY <1>8, <2>1 DEF MakeDirectory, Typed, InSlot
  <2>3. /\ \A q \in Processes \ {p} : pc'[q] = pc[q] /\ rev'[q] = rev[q]
        /\ UNCHANGED <<locks, abandoned>>
    BY <1>8 DEF MakeDirectory, Typed
  <2>4. QED
    BY <1>5, <2>2, <2>3
<1>9. ASSUME NEW p \in Processes, NEW r \in Revisions, NEW expected \in Expected,
             NEW announced \in Sizes, NEW actual \in Sizes,
             BeginMirror(p, r, expected, announced, actual)
      PROVE  Slots'
  <2>1. pc[p] \notin InSlot /\ pc'[p] \notin InSlot
    BY <1>9 DEF BeginMirror, Typed, InSlot
  <2>2. /\ \A q \in Processes \ {p} : pc'[q] = pc[q] /\ rev'[q] = rev[q]
        /\ UNCHANGED <<locks, abandoned>>
    BY <1>9 DEF BeginMirror, Typed
  <2>3. QED
    BY <1>5, <2>1, <2>2
<1>10. ASSUME NEW p \in Processes,
              \/ Download(p) \/ CheckCommit(p) \/ WriteManifest(p) \/ Rename(p)
              \/ FailInSlot(p) \/ RemoveStaging(p)
       PROVE  Slots'
  <2>1. pc[p] \in InSlot /\ pc'[p] \in InSlot
    BY <1>10 DEF Download, CheckCommit, WriteManifest, Rename, FailInSlot, RemoveStaging,
                 Typed, InSlot
  <2>2. /\ \A q \in Processes \ {p} : pc'[q] = pc[q]
        /\ UNCHANGED <<rev, locks, abandoned>>
    BY <1>10 DEF Download, CheckCommit, WriteManifest, Rename, FailInSlot, RemoveStaging,
                 Typed
  <2>3. QED
    BY <1>6, <2>1, <2>2
<1>11. ASSUME UNCHANGED <<pc, rev, locks, abandoned>> PROVE Slots'
  BY <1>11 DEF Slots, SlotsExclusive
<1>12. QED
  BY <1>1, <1>2, <1>3, <1>4, <1>7, <1>8, <1>9, <1>10, <1>11, StepCases
  DEF MakeParents, Damage, vars

\* The names of the directories, and who may have one of them as its place.
LEMMA Places ==
    /\ Directories[1] = "models" /\ Directories[2] = ".staging" /\ Directories[3] = ".locks"
    /\ \A i \in 1..3 : Directories[i] \in Making
    /\ \A i, j \in 1..3 : Directories[i] = Directories[j] => i = j
    /\ "idle" \notin Making /\ "marking" \notin Making
    /\ \A place \in Mirroring : place \notin Making
  BY DEF Directories, Making, Mirroring, InSlot

\* The steps that neither initialize nor begin a mirror.
LEMMA QuietSteps ==
    ASSUME Typed, InOrder, NEW p \in Processes,
           \/ FindTarget(p) \/ TakeLock(p) \/ MissLock(p) \/ MakeStaging(p) \/ Download(p)
           \/ CheckCommit(p) \/ WriteManifest(p) \/ Rename(p) \/ FailInSlot(p)
           \/ RemoveStaging(p) \/ Unlock(p)
    PROVE  /\ UNCHANGED <<marker, found, made, cut>>
           /\ \A q \in Processes \ {p} : pc'[q] = pc[q]
           /\ pc[p] \notin Making /\ pc'[p] \notin Making
           /\ pc'[p] \in Mirroring => pc[p] \in Mirroring
           /\ pc'[p] \in InSlot => pc[p] \in InSlot \/ ".locks" \in made
           /\ pc'[p] \in {"downloading", "committing", "renaming"} =>
                pc[p] \in {"downloading", "committing", "renaming"} \/ ".staging" \in made
<1> USE DEF Goto, vault, command, history
<1>1. CASE FindTarget(p) \/ TakeLock(p) \/ MissLock(p)
  BY <1>1 DEF FindTarget, TakeLock, MissLock, Typed, Mirroring, InSlot, Making
<1>2. CASE MakeStaging(p) \/ Download(p)
  BY <1>2 DEF MakeStaging, Download, Typed, Mirroring, InSlot, Making
<1>3. CASE CheckCommit(p) \/ WriteManifest(p)
  BY <1>3 DEF CheckCommit, WriteManifest, Typed, Mirroring, InSlot, Making
<1>4. CASE Rename(p) \/ FailInSlot(p)
  BY <1>4 DEF Rename, FailInSlot, Typed, Mirroring, InSlot, Making
<1>5. CASE RemoveStaging(p) \/ Unlock(p)
  BY <1>5 DEF RemoveStaging, Unlock, Typed, Mirroring, InSlot, Making
<1>6. QED
  BY <1>1, <1>2, <1>3, <1>4, <1>5

LEMMA NextInOrder == IInv /\ [Next]_vars => InOrder'
<1> SUFFICES ASSUME Typed, InOrder, [Next]_vars PROVE InOrder'
  BY DEF IInv
<1> USE Places DEF Goto, vault, command, history
\* A step that makes no directory and moves one process only, forward in the
\* way that the directories there are allow.
<1>1. ASSUME NEW p \in Processes, UNCHANGED <<found, made>>, marker => marker',
             \A q \in Processes \ {p} : pc'[q] = pc[q],
             \A i \in 1..3 : pc'[p] = Directories[i] =>
                 marker' /\ \A j \in 1..(i - 1) : Directories[j] \in made,
             pc'[p] \in Mirroring => marker',
             pc'[p] \in InSlot => ".locks" \in made,
             pc'[p] \in {"downloading", "committing", "renaming"} => ".staging" \in made
      PROVE  InOrder'
  BY <1>1 DEF InOrder
<1>2. ASSUME NEW p \in Processes,
             \/ FindTarget(p) \/ TakeLock(p) \/ MissLock(p) \/ MakeStaging(p) \/ Download(p)
             \/ CheckCommit(p) \/ WriteManifest(p) \/ Rename(p) \/ FailInSlot(p)
             \/ RemoveStaging(p) \/ Unlock(p)
      PROVE  InOrder'
  <2>1. /\ UNCHANGED <<marker, found, made, cut>>
        /\ \A q \in Processes \ {p} : pc'[q] = pc[q]
        /\ pc'[p] \notin Making
        /\ pc'[p] \in Mirroring => pc[p] \in Mirroring
        /\ pc'[p] \in InSlot => pc[p] \in InSlot \/ ".locks" \in made
        /\ pc'[p] \in {"downloading", "committing", "renaming"} =>
             pc[p] \in {"downloading", "committing", "renaming"} \/ ".staging" \in made
    BY <1>2, QuietSteps
  <2>2. \A i \in 1..3 : pc'[p] # Directories[i]
    BY <2>1
  <2>3. /\ pc'[p] \in Mirroring => marker
        /\ pc'[p] \in InSlot => ".locks" \in made
        /\ pc'[p] \in {"downloading", "committing", "renaming"} => ".staging" \in made
    BY <2>1 DEF InOrder
  <2>4. QED
    BY <1>1, <2>1, <2>2, <2>3
\* A step that ends idle, or starts to initialize.
<1>3. ASSUME NEW p \in Processes, UNCHANGED <<marker, found, made>>,
             \A q \in Processes \ {p} : pc'[q] = pc[q], pc'[p] \in {"idle", "marking"}
      PROVE  InOrder'
  <2>1. pc'[p] \notin Making /\ pc'[p] \notin Mirroring
    BY <1>3 DEF Making, Mirroring, InSlot
  <2>2. QED
    BY <1>1, <1>3, <2>1 DEF Mirroring, InSlot
<1>4. ASSUME NEW p \in Processes, BeginInitialize(p) \/ FailInitialize(p) \/ Kill(p)
      PROVE  InOrder'
  <2>1. /\ UNCHANGED <<marker, found, made>>
        /\ \A q \in Processes \ {p} : pc'[q] = pc[q]
        /\ pc'[p] \in {"idle", "marking"}
    BY <1>4 DEF BeginInitialize, FailInitialize, Kill, Typed
  <2>2. QED
    BY <1>3, <2>1
<1>5. ASSUME NEW p \in Processes, WriteMarker(p) PROVE InOrder'
  <2>1. /\ UNCHANGED <<found, made>> /\ marker'
        /\ \A q \in Processes \ {p} : pc'[q] = pc[q]
        /\ pc'[p] = "models"
    BY <1>5 DEF WriteMarker, Typed
  <2>2. \A i \in 1..3 : pc'[p] = Directories[i] => i = 1
    BY <2>1
  <2>3. pc'[p] \notin Mirroring /\ pc'[p] \notin {"downloading", "committing", "renaming"}
    BY <2>1 DEF Mirroring, InSlot
  <2>4. QED
    BY <1>1, <2>1, <2>2, <2>3 DEF Mirroring
<1>6. ASSUME NEW p \in Processes, NEW r \in Revisions, NEW expected \in Expected,
             NEW announced \in Sizes, NEW actual \in Sizes,
             BeginMirror(p, r, expected, announced, actual)
      PROVE  InOrder'
  <2>1. /\ UNCHANGED <<marker, found, made>> /\ marker
        /\ \A q \in Processes \ {p} : pc'[q] = pc[q]
        /\ pc'[p] \in {"idle", "checked"}
    BY <1>6 DEF BeginMirror, Typed
  <2>2. pc'[p] \notin Making /\ pc'[p] \notin InSlot
    BY <2>1 DEF Making, InSlot
  <2>3. QED
    BY <1>1, <2>1, <2>2
<1>7. ASSUME NEW p \in Processes, MakeDirectory(p) PROVE InOrder'
  <2>1. PICK i \in 1..3 :
          /\ pc[p] = Directories[i]
          /\ made' = made \cup {Directories[i]}
          /\ pc' = [pc EXCEPT ![p] = IF Directories[i] \in made \/ i = 3 THEN "idle"
                                     ELSE Directories[i + 1]]
          /\ UNCHANGED <<marker, found>>
    BY <1>7 DEF MakeDirectory
  <2>2. marker /\ \A j \in 1..(i - 1) : Directories[j] \in made
    BY <2>1 DEF InOrder
  <2>3. /\ \A q \in Processes \ {p} : pc'[q] = pc[q]
        /\ pc'[p] = "idle" \/ (i # 3 /\ pc'[p] = Directories[i + 1])
    BY <2>1 DEF Typed
  <2>4. ASSUME NEW q \in Processes, NEW k \in 1..3, pc'[q] = Directories[k]
        PROVE  marker' /\ \A j \in 1..(k - 1) : Directories[j] \in made'
    <3>1. CASE q # p
      BY <2>1, <2>2, <2>3, <2>4, <3>1 DEF InOrder
    <3>2. CASE q = p
      <4>1. i + 1 \in 1..3 /\ k = i + 1
        BY <2>3, <2>4, <3>2
      <4>2. \A j \in 1..(k - 1) : j \in 1..(i - 1) \/ j = i
        BY <4>1
      <4>3. QED
        BY <2>1, <2>2, <4>2
    <3>3. QED
      BY <3>1, <3>2
  <2>5. ASSUME NEW k \in 1..2, Directories[k + 1] \in made'
        PROVE  Directories[k + 1] \in found' \/ Directories[k] \in made'
    <3>1. CASE Directories[k + 1] \in made
      BY <2>1, <2>5, <3>1 DEF InOrder
    <3>2. CASE Directories[k + 1] = Directories[i]
      <4>1. k + 1 \in 1..3 /\ k \in 1..(i - 1)
        BY <3>2
      <4>2. QED
        BY <2>1, <2>2, <4>1
    <3>3. QED
      BY <2>1, <2>5, <3>1, <3>2
  <2>6. pc'[p] \notin Mirroring
    <3>1. pc'[p] = "idle" \/ pc'[p] \in Making
      BY <2>3
    <3>2. QED
      BY <3>1 DEF Making, Mirroring, InSlot
  <2>7. \A q \in Processes :
          /\ pc'[q] \in Mirroring => marker'
          /\ pc'[q] \in InSlot => ".locks" \in made'
          /\ pc'[q] \in {"downloading", "committing", "renaming"} => ".staging" \in made'
    <3>1. pc'[p] \notin InSlot /\ pc'[p] \notin {"downloading", "committing", "renaming"}
      BY <2>6 DEF Mirroring, InSlot
    <3>2. QED
      BY <2>1, <2>3, <2>6, <3>1 DEF InOrder
  <2>8. /\ found' \subseteq made'
        /\ "models" \in made' => "models" \in found' \/ marker'
    BY <2>1, <2>2 DEF InOrder
  <2>9. QED
    BY <2>4, <2>5, <2>7, <2>8 DEF InOrder
<1>8. ASSUME NEW p \in Processes, MakeParents(p) PROVE InOrder'
  <2>1. /\ UNCHANGED <<marker, found, pc>> /\ made' = made \cup {"models"}
        /\ pc[p] = "renaming"
    BY <1>8 DEF MakeParents
  <2>2. marker
    BY <2>1 DEF InOrder, Mirroring, InSlot
  <2>3. \A k \in 1..2 : Directories[k + 1] # "models"
    BY DEF Directories
  <2>4. \A k \in 1..2 : Directories[k + 1] \in made' =>
          Directories[k + 1] \in found' \/ Directories[k] \in made'
    BY <2>1, <2>3 DEF InOrder
  <2>5. QED
    BY <2>1, <2>2, <2>4 DEF InOrder
<1>9. ASSUME UNCHANGED <<marker, found, made, pc>> PROVE InOrder'
  BY <1>9 DEF InOrder
<1>10. QED
  BY <1>2, <1>4, <1>5, <1>6, <1>7, <1>8, <1>9, StepCases DEF Damage, vars

\* Whoever makes a directory first goes on to the next; one that finds the next
\* there has met a directory that initialize found.
LEMMA NextInitialize == IInv /\ [Next]_vars => InitializeGoesOn'
<1> SUFFICES ASSUME Typed, InOrder, InitializeGoesOn, [Next]_vars PROVE InitializeGoesOn'
  BY DEF IInv
<1> USE Places DEF Goto, vault, command, history
\* A step of a process that makes no directory before it.
<1>1. ASSUME NEW p \in Processes, pc[p] \notin Making, ~cut' => ~cut,
             \A q \in Processes \ {p} : pc'[q] = pc[q], UNCHANGED <<marker, found, made>>
      PROVE  InitializeGoesOn'
  <2>1. ~Maker(p)
    BY <1>1 DEF Maker
  <2>2. \A q \in Processes : Maker(q) => Maker(q)'
    BY <1>1, <2>1 DEF Maker
  <2>3. AllThere => AllThere'
    BY <1>1 DEF AllThere
  <2>4. QED
    BY <1>1, <2>2, <2>3 DEF InitializeGoesOn
<1>2. ASSUME NEW p \in Processes, WriteMarker(p) PROVE InitializeGoesOn'
  <2>1. /\ pc[p] = "marking" /\ pc'[p] = "models" /\ UNCHANGED <<found, made, cut>>
        /\ \A q \in Processes \ {p} : pc'[q] = pc[q]
    BY <1>2 DEF WriteMarker, Typed
  <2>2. CASE marker
    <3>1. UNCHANGED marker
      BY <1>2, <2>2 DEF WriteMarker
    <3>2. QED
      BY <1>1, <2>1, <3>1
  <2>3. CASE ~marker /\ "models" \in made
    <3>1. "models" \in found'
      BY <2>1, <2>3 DEF InOrder
    <3>2. ASSUME NEW i \in 1..3, i # 1 PROVE 1 \in 1..(i - 1)
      BY <3>2
    <3>3. AllThere'
      BY <2>1, <2>3, <3>1, <3>2 DEF AllThere
    <3>4. QED
      BY <3>3 DEF InitializeGoesOn
  <2>4. CASE "models" \notin made
    <3>1. Maker(p)'
      BY <2>1, <2>4 DEF Maker
    <3>2. QED
      BY <3>1 DEF InitializeGoesOn
  <2>5. QED
    BY <2>2, <2>3, <2>4
<1>3. ASSUME NEW p \in Processes, MakeDirectory(p) PROVE InitializeGoesOn'
  <2>1. PICK i \in 1..3 :
          /\ pc[p] = Directories[i]
          /\ made' = made \cup {Directories[i]}
          /\ pc' = [pc EXCEPT ![p] = IF Directories[i] \in made \/ i = 3 THEN "idle"
                                     ELSE Directories[i + 1]]
          /\ UNCHANGED <<marker, found, cut>>
    BY <1>3 DEF MakeDirectory, history
  <2>2. marker /\ \A j \in 1..(i - 1) : Directories[j] \in made
    BY <2>1 DEF InOrder
  <2>3. CASE Directories[i] \in made
    <3>1. made' = made /\ \A q \in Processes \ {p} : pc'[q] = pc[q]
      BY <2>1, <2>3 DEF Typed
    <3>2. ~Maker(p)
      BY <2>1, <2>3 DEF Maker
    <3>3. \A q \in Processes : Maker(q) => Maker(q)'
      BY <3>1, <3>2 DEF Maker
    <3>4. AllThere => AllThere'
      BY <2>1, <3>1 DEF AllThere
    <3>5. QED
      BY <2>1, <3>3, <3>4 DEF InitializeGoesOn
  <2>4. CASE Directories[i] \notin made /\ i = 3
    <3>1. \A k \in 1..3 : k \in 1..(i - 1) \/ k = i
      BY <2>4
    <3>2. AllThere'
      BY <2>1, <2>2, <3>1 DEF AllThere
    <3>3. QED
      BY <3>2 DEF InitializeGoesOn
  <2>5. CASE Directories[i] \notin made /\ i # 3 /\ Directories[i + 1] \notin made
    <3>1. i + 1 \in 1..3 /\ Directories[i + 1] # Directories[i]
      BY <2>5
    <3>2. pc'[p] = Directories[i + 1] /\ Directories[i + 1] \notin made'
      BY <2>1, <2>5, <3>1 DEF Typed
    <3>3. Maker(p)'
      BY <3>1, <3>2 DEF Maker
    <3>4. QED
      BY <3>3 DEF InitializeGoesOn
  <2>6. CASE Directories[i] \notin made /\ i # 3 /\ Directories[i + 1] \in made
    <3>1. i \in 1..2
      BY <2>6
    <3>2. Directories[i + 1] \in found'
      BY <2>1, <2>6, <3>1 DEF InOrder
    <3>3. ASSUME NEW k \in 1..3
          PROVE  Directories[k] \in made' \/ \E j \in 1..(k - 1) : Directories[j] \in found'
      <4>1. k \in 1..(i - 1) \/ k = i \/ k = i + 1 \/ i + 1 \in 1..(k - 1)
        OBVIOUS
      <4>2. QED
        BY <2>1, <2>2, <2>6, <3>2, <4>1
    <3>4. AllThere'
      BY <3>3 DEF AllThere
    <3>5. QED
      BY <3>4 DEF InitializeGoesOn
  <2>7. QED
    BY <2>3, <2>4, <2>5, <2>6
<1>4. ASSUME NEW p \in Processes, FailInitialize(p) \/ Kill(p) PROVE InitializeGoesOn'
  <2>1. /\ UNCHANGED <<marker, found, made>>
        /\ \A q \in Processes \ {p} : pc'[q] = pc[q]
        /\ cut' = (cut \/ pc[p] \in Making)
    BY <1>4 DEF FailInitialize, Kill, Typed
  <2>2. CASE pc[p] \in Making
    BY <2>1, <2>2 DEF InitializeGoesOn
  <2>3. CASE pc[p] \notin Making
    BY <1>1, <2>1, <2>3
  <2>4. QED
    BY <2>2, <2>3
<1>5. ASSUME NEW p \in Processes, MakeParents(p) PROVE InitializeGoesOn'
  <2>1. /\ UNCHANGED found /\ made' = made \cup {"models"} /\ pc[p] = "renaming"
    BY <1>5 DEF MakeParents
  <2>2. ".staging" \in made /\ ".locks" \in made
    BY <2>1 DEF InOrder, InSlot
  <2>3. \A k \in 1..3 : k = 1 \/ k = 2 \/ k = 3
    OBVIOUS
  <2>4. AllThere'
    BY <2>1, <2>2, <2>3 DEF AllThere
  <2>5. QED
    BY <2>4 DEF InitializeGoesOn
<1>6. ASSUME NEW p \in Processes, BeginInitialize(p) PROVE InitializeGoesOn'
  <2>1. /\ pc[p] = "idle" /\ UNCHANGED <<marker, found, made, cut>>
        /\ \A q \in Processes \ {p} : pc'[q] = pc[q]
    BY <1>6 DEF BeginInitialize, Typed
  <2>2. QED
    BY <1>1, <2>1
<1>7. ASSUME NEW p \in Processes, NEW r \in Revisions, NEW expected \in Expected,
             NEW announced \in Sizes, NEW actual \in Sizes,
             BeginMirror(p, r, expected, announced, actual)
      PROVE  InitializeGoesOn'
  <2>1. /\ pc[p] = "idle" /\ UNCHANGED <<marker, found, made, cut>>
        /\ \A q \in Processes \ {p} : pc'[q] = pc[q]
    BY <1>7 DEF BeginMirror, Typed
  <2>2. QED
    BY <1>1, <2>1
<1>8. ASSUME NEW p \in Processes,
             \/ FindTarget(p) \/ TakeLock(p) \/ MissLock(p) \/ MakeStaging(p) \/ Download(p)
             \/ CheckCommit(p) \/ WriteManifest(p) \/ Rename(p) \/ FailInSlot(p)
             \/ RemoveStaging(p) \/ Unlock(p)
      PROVE  InitializeGoesOn'
  <2>1. /\ UNCHANGED <<marker, found, made, cut>>
        /\ \A q \in Processes \ {p} : pc'[q] = pc[q]
        /\ pc[p] \notin Making
    BY <1>8, QuietSteps
  <2>2. QED
    BY <1>1, <2>1
<1>9. ASSUME UNCHANGED <<marker, found, made, cut, pc>> PROVE InitializeGoesOn'
  BY <1>9 DEF InitializeGoesOn, AllThere, Maker
<1>10. QED
  BY <1>2, <1>3, <1>4, <1>5, <1>6, <1>7, <1>8, <1>9, StepCases DEF Damage, vars

LEMMA NextMirrorsWhole == IInv /\ [Next]_vars => MirrorsWhole'
<1> SUFFICES ASSUME IInv, [Next]_vars PROVE MirrorsWhole'
  OBVIOUS
<1> USE VaultAssumption DEF IInv, Goto, vault, command, history
<1>1. ASSUME NEW p \in Processes, NEW r \in Revisions, NEW expected \in Expected,
             NEW announced \in Sizes, NEW actual \in Sizes,
             BeginMirror(p, r, expected, announced, actual)
      PROVE  MirrorsWhole'
  <2>1. /\ pc'[p] \in {"checked", "idle"} /\ rev'[p] = r
        /\ RequireLicense(License[r], expected)
        /\ \A q \in Processes \ {p} : pc'[q] = pc[q] /\ rev'[q] = rev[q] /\ want'[q] = want[q]
        /\ staging' = staging
    BY <1>1 DEF BeginMirror, Typed
  <2>2. QED
    BY <2>1 DEF MirrorsWhole
<1>2. ASSUME NEW p \in Processes, Download(p) PROVE MirrorsWhole'
  <2>1. /\ pc[p] = "downloading"
        /\ UNCHANGED <<pc, rev, want>>
        /\ \A q \in Processes \ {p} : staging'[q] = staging[q]
    BY <1>2 DEF Download, Typed
  <2>2. QED
    BY <2>1 DEF MirrorsWhole
<1>3. ASSUME NEW p \in Processes, CheckCommit(p) PROVE MirrorsWhole'
  <2>1. /\ pc[p] = "downloading" /\ pc'[p] \in {"committing", "cleaning"}
        /\ staging[p].size = want[p]
        /\ pc'[p] = "committing" => staging[p].size > 0
        /\ UNCHANGED <<rev, want, staging>>
        /\ \A q \in Processes \ {p} : pc'[q] = pc[q]
    BY <1>3 DEF CheckCommit, Typed
  <2>2. QED
    BY <2>1 DEF MirrorsWhole, Mirroring, InSlot
<1>4. ASSUME NEW p \in Processes, WriteManifest(p) PROVE MirrorsWhole'
  <2>1. /\ pc[p] = "committing" /\ pc'[p] = "renaming"
        /\ UNCHANGED <<rev, want>>
        /\ \A q \in Processes \ {p} : pc'[q] = pc[q]
    BY <1>4 DEF WriteManifest, Typed
  <2>2. staging[p] \in [size : Nat, manifest : BOOLEAN]
    BY DEF Typed
  <2>3. /\ staging'[p] = [staging[p] EXCEPT !.manifest = TRUE]
        /\ \A q \in Processes \ {p} : staging'[q] = staging[q]
    BY <1>4 DEF WriteManifest, Typed
  <2>4. staging[p].size = want[p] /\ want[p] > 0
    BY <2>1 DEF MirrorsWhole
  <2>5. staging'[p] = [size |-> want[p], manifest |-> TRUE]
    BY <2>2, <2>3, <2>4
  <2>6. \E expected \in Expected : RequireLicense(License[rev[p]], expected)
    BY <2>1 DEF MirrorsWhole, Mirroring, InSlot
  <2> HIDE DEF IInv
  <2>7. MirrorsWhole
    BY DEF IInv
  <2>8. ASSUME NEW q \in Processes
        PROVE  /\ pc'[q] \in Mirroring =>
                    \E expected \in Expected : RequireLicense(License[rev'[q]], expected)
               /\ pc'[q] = "committing" => staging'[q].size = want'[q] /\ want'[q] > 0
               /\ pc'[q] = "renaming" =>
                    staging'[q] = [size |-> want'[q], manifest |-> TRUE] /\ want'[q] > 0
    <3>1. CASE q = p
      BY <2>1, <2>4, <2>5, <2>6, <3>1
    <3>2. CASE q # p
      BY <2>1, <2>3, <2>7, <3>2 DEF MirrorsWhole
    <3>3. QED
      BY <3>1, <3>2
  <2>9. QED
    BY <2>8 DEF MirrorsWhole
\* A step that brings its process to no place where the staging counts.
<1>5. ASSUME NEW p \in Processes, pc'[p] \notin {"committing", "renaming"},
             pc'[p] \in Mirroring => pc[p] \in Mirroring,
             \A q \in Processes \ {p} : pc'[q] = pc[q] /\ staging'[q] = staging[q],
             UNCHANGED <<rev, want>>
      PROVE  MirrorsWhole'
  BY <1>5 DEF MirrorsWhole
<1>6. ASSUME NEW p \in Processes, MakeDirectory(p) PROVE MirrorsWhole'
  <2>1. \A i \in 1..3 : Directories[i] \notin Mirroring
    BY DEF Directories, Mirroring, InSlot
  <2>2. pc'[p] \notin Mirroring
    BY <1>6, <2>1 DEF MakeDirectory, Typed, Mirroring, InSlot
  <2>3. \A q \in Processes \ {p} : pc'[q] = pc[q] /\ staging'[q] = staging[q]
    BY <1>6 DEF MakeDirectory, Typed
  <2>4. UNCHANGED <<rev, want>>
    BY <1>6 DEF MakeDirectory
  <2>5. QED
    BY <1>5, <2>2, <2>3, <2>4 DEF Mirroring, InSlot
<1>7. ASSUME NEW p \in Processes,
             \/ BeginInitialize(p) \/ WriteMarker(p) \/ FailInitialize(p) \/ FindTarget(p)
             \/ TakeLock(p) \/ MissLock(p) \/ MakeStaging(p)
      PROVE  MirrorsWhole'
  <2>1. /\ pc'[p] \notin {"committing", "renaming"}
        /\ pc'[p] \in Mirroring => pc[p] \in Mirroring
    BY <1>7 DEF BeginInitialize, WriteMarker, FailInitialize, FindTarget, TakeLock, MissLock,
                MakeStaging, Typed, Mirroring, InSlot
  <2>2. \A q \in Processes \ {p} : pc'[q] = pc[q] /\ staging'[q] = staging[q]
    BY <1>7 DEF BeginInitialize, WriteMarker, FailInitialize, FindTarget, TakeLock, MissLock,
                MakeStaging, Typed
  <2>3. UNCHANGED <<rev, want>>
    BY <1>7 DEF BeginInitialize, WriteMarker, FailInitialize, FindTarget, TakeLock, MissLock,
                MakeStaging
  <2>4. QED
    BY <1>5, <2>1, <2>2, <2>3
<1>8. ASSUME NEW p \in Processes,
             Rename(p) \/ FailInSlot(p) \/ RemoveStaging(p) \/ Unlock(p) \/ Kill(p)
      PROVE  MirrorsWhole'
  <2>1. /\ pc'[p] \notin {"committing", "renaming"}
        /\ pc'[p] \in Mirroring => pc[p] \in Mirroring
    BY <1>8 DEF Rename, FailInSlot, RemoveStaging, Unlock, Kill, Typed, Mirroring, InSlot
  <2>2. \A q \in Processes \ {p} : pc'[q] = pc[q] /\ staging'[q] = staging[q]
    BY <1>8 DEF Rename, FailInSlot, RemoveStaging, Unlock, Kill, Typed
  <2>3. UNCHANGED <<rev, want>>
    BY <1>8 DEF Rename, FailInSlot, RemoveStaging, Unlock, Kill
  <2>4. QED
    BY <1>5, <2>1, <2>2, <2>3
<1>9. ASSUME UNCHANGED <<pc, rev, want, staging>> PROVE MirrorsWhole'
  BY <1>9 DEF MirrorsWhole
<1>10. QED
  BY <1>1, <1>2, <1>3, <1>4, <1>6, <1>7, <1>8, <1>9, StepCases DEF MakeParents, Damage, vars

\* Of all steps only the rename shows or changes what is published, and only
\* the disk damages it.
LEMMA OnlyRenamePublishes ==
  ASSUME [Next]_vars
  PROVE  \/ \E p \in Processes : Rename(p)
         \/ \E r \in Revisions : Damage(r)
         \/ UNCHANGED <<snapshots, damaged>>
<1> USE DEF vault
<1>1. ASSUME NEW p \in Processes,
             \/ BeginInitialize(p) \/ WriteMarker(p) \/ MakeDirectory(p)
             \/ FailInitialize(p) \/ Kill(p)
      PROVE  UNCHANGED <<snapshots, damaged>>
  BY <1>1 DEF BeginInitialize, WriteMarker, MakeDirectory, FailInitialize, Kill
<1>2. ASSUME NEW p \in Processes, NEW r \in Revisions, NEW expected \in Expected,
             NEW announced \in Sizes, NEW actual \in Sizes,
             BeginMirror(p, r, expected, announced, actual)
      PROVE  UNCHANGED <<snapshots, damaged>>
  BY <1>2 DEF BeginMirror
<1>3. ASSUME NEW p \in Processes,
             FindTarget(p) \/ TakeLock(p) \/ MissLock(p) \/ MakeStaging(p) \/ Download(p)
      PROVE  UNCHANGED <<snapshots, damaged>>
  BY <1>3 DEF FindTarget, TakeLock, MissLock, MakeStaging, Download
<1>4. ASSUME NEW p \in Processes,
             \/ CheckCommit(p) \/ WriteManifest(p) \/ MakeParents(p) \/ FailInSlot(p)
             \/ RemoveStaging(p) \/ Unlock(p)
      PROVE  UNCHANGED <<snapshots, damaged>>
  BY <1>4 DEF CheckCommit, WriteManifest, MakeParents, FailInSlot, RemoveStaging, Unlock
<1>5. ASSUME UNCHANGED vars PROVE UNCHANGED <<snapshots, damaged>>
  BY <1>5 DEF vars
<1>6. QED
  BY <1>1, <1>2, <1>3, <1>4, <1>5, StepCases

LEMMA NextDamaged == IInv /\ [Next]_vars => DamagedExist'
<1> SUFFICES ASSUME IInv, [Next]_vars PROVE DamagedExist'
  OBVIOUS
<1> USE DEF IInv, vault, Exists
<1>1. ASSUME NEW p \in Processes, Rename(p) PROVE DamagedExist'
  <2>1. /\ damaged' = damaged /\ rev[p] \notin damaged
        /\ \A r \in Revisions \ {rev[p]} : snapshots'[r] = snapshots[r]
        /\ snapshots'[rev[p]] = staging[p]
    BY <1>1 DEF Rename, Typed, DamagedExist
  <2>2. staging[p] = [size |-> want[p], manifest |-> TRUE] /\ want[p] > 0
    BY <1>1 DEF Rename, MirrorsWhole
  <2>3. snapshots'[rev[p]].size > 0
    BY <2>1, <2>2
  <2>4. \A r \in Revisions : snapshots'[r].size > 0 \/ snapshots'[r] = NoSnapshot
    BY <2>1, <2>3 DEF DamagedExist
  <2>5. QED
    BY <2>1, <2>4 DEF Typed, DamagedExist
<1>2. ASSUME NEW r \in Revisions, Damage(r) PROVE DamagedExist'
  BY <1>2 DEF Damage, DamagedExist
<1>3. ASSUME UNCHANGED <<snapshots, damaged>> PROVE DamagedExist'
  BY <1>3 DEF DamagedExist
<1>4. QED
  BY <1>1, <1>2, <1>3, OnlyRenamePublishes

LEMMA StepIInv == IInv /\ [Next]_vars => IInv'
  BY NextTyped, NextSlots, NextInOrder, NextInitialize, NextMirrorsWhole, NextDamaged
  DEF IInv

LEMMA Inductive == Spec => []IInv
  BY InitIInv, StepIInv, PTL DEF Spec

-----------------------------------------------------------------------------
\* download_slot excludes: through failures and kills, one process at most is
\* in the slot of a revision, and only a kill or a failed mkdtemp leaves a lock.
THEOREM SlotsExclusiveThm == Spec => []SlotsExclusive
<1>1. IInv => SlotsExclusive
  BY DEF IInv, Slots
<1>2. QED
  BY Inductive, <1>1, PTL

\* However many processes race in initialize, the one that makes a directory
\* first goes on to the next, so that a vault with a marker that nobody
\* initializes lacks a directory only behind one that initialize found in the
\* destination, unless a process was killed or failed while it made them.
THEOREM CompleteUnlessCutThm == Spec => []CompleteUnlessCut
<1>1. IInv => CompleteUnlessCut
  <2> SUFFICES ASSUME IInv, marker, ~cut, \A p \in Processes : pc[p] \notin Initializing
               PROVE  AllThere
    BY DEF CompleteUnlessCut, AllThere
  <2>1. ASSUME NEW p \in Processes, Maker(p) PROVE FALSE
    BY <2>1, Places DEF Maker, Initializing
  <2>2. QED
    BY <2>1 DEF IInv, InitializeGoesOn
<1>2. QED
  BY Inductive, <1>1, PTL

\* Only the rename of commit_snapshot makes a snapshot visible, once, whole,
\* with its manifest, of the size that was downloaded, and under a license that
\* a caller required.
THEOREM SnapshotsWholeAndFixedThm == Spec => SnapshotsWholeAndFixed
<1>1. IInv /\ [Next]_vars =>
        [\A r \in Revisions : snapshots'[r] # snapshots[r] =>
            /\ ~Exists(r)
            /\ \E expected \in Expected : RequireLicense(License[r], expected)
            /\ \E p \in Processes :
                 /\ pc[p] = "renaming" /\ rev[p] = r
                 /\ snapshots'[r] = [size |-> want[p], manifest |-> TRUE]]_vars
  <2> SUFFICES ASSUME IInv, [Next]_vars, NEW r \in Revisions, snapshots'[r] # snapshots[r]
               PROVE  /\ ~Exists(r)
                      /\ \E expected \in Expected : RequireLicense(License[r], expected)
                      /\ \E p \in Processes :
                           /\ pc[p] = "renaming" /\ rev[p] = r
                           /\ snapshots'[r] = [size |-> want[p], manifest |-> TRUE]
    OBVIOUS
  <2>1. PICK p \in Processes : Rename(p)
    BY OnlyRenamePublishes DEF Damage
  <2>2. /\ r = rev[p] /\ ~Exists(r) /\ pc[p] = "renaming"
        /\ snapshots'[r] = staging[p]
    BY <2>1 DEF Rename, IInv, Typed
  <2>3. QED
    BY <2>2 DEF IInv, MirrorsWhole, Mirroring, InSlot
<1>2. QED
  BY Inductive, <1>1, PTL DEF SnapshotsWholeAndFixed, Spec

\* What mirror reports is the manifest of the snapshot that the vault holds,
\* verified when it was not the process's own, whoever published it.
THEOREM ReportsTrueThm == Spec => ReportsTrue
<1>1. IInv /\ [Next]_vars =>
        [\A p \in Processes : told'[p] # told[p] /\ told'[p] # NoSnapshot =>
            /\ told'[p] = snapshots'[rev'[p]]
            /\ rev'[p] \notin damaged]_vars
  <2> SUFFICES ASSUME IInv, [Next]_vars, NEW p \in Processes,
                      told'[p] # told[p], told'[p] # NoSnapshot
               PROVE  told'[p] = snapshots'[rev'[p]] /\ rev'[p] \notin damaged
    OBVIOUS
  <2>1. \E q \in Processes : FindTarget(q) \/ CheckCommit(q) \/ Rename(q)
    <3>1. ASSUME NEW q \in Processes,
                 \/ Kill(q)
                 \/ \E r \in Revisions, expected \in Expected, announced, actual \in Sizes :
                        BeginMirror(q, r, expected, announced, actual)
          PROVE  FALSE
      BY <3>1 DEF Kill, BeginMirror, IInv, Typed
    <3>2. QED
      BY <3>1, StepCases
      DEF BeginInitialize, WriteMarker, MakeDirectory, FailInitialize, TakeLock, MissLock,
          MakeStaging, Download, WriteManifest, MakeParents, FailInSlot, RemoveStaging,
          Unlock, Damage, vars
  <2>2. ASSUME NEW q \in Processes, FindTarget(q) \/ CheckCommit(q)
        PROVE  told'[p] = snapshots'[rev'[p]] /\ rev'[p] \notin damaged
    BY <2>2 DEF FindTarget, CheckCommit, Verified, vault, command, IInv, Typed
  <2>3. ASSUME NEW q \in Processes, Rename(q)
        PROVE  told'[p] = snapshots'[rev'[p]] /\ rev'[p] \notin damaged
    BY <2>3 DEF Rename, command, IInv, Typed, DamagedExist
  <2>4. QED
    BY <2>1, <2>2, <2>3
<1>2. QED
  BY Inductive, <1>1, PTL DEF ReportsTrue, Spec

-----------------------------------------------------------------------------
(***************************************************************************)
(* Induction over the natural numbers, for a set of numbers, and over the  *)
(* finite sets that MapThenSumSet takes apart.                             *)
(***************************************************************************)

Below == {pair \in Nat \X Nat : pair[1] < pair[2]}

LEMMA NatInductionSet ==
    ASSUME NEW S, 0 \in S, \A n \in Nat : n \in S => n + 1 \in S
    PROVE  \A n \in Nat : n \in S
<1> SUFFICES ASSUME Nat \ S # {} PROVE FALSE
  OBVIOUS
<1>1. IsWellFoundedOn(Below, Nat)
  BY NatLessThanWellFounded, Zenon DEF Below, OpToRel
<1>2. PICK n \in Nat \ S : \A m \in Nat \ S : <<m, n>> \notin Below
  BY <1>1, WFMin
<1>3. n # 0 /\ n - 1 \in Nat /\ n - 1 < n /\ (n - 1) + 1 = n
  OBVIOUS
<1>4. n - 1 \in S
  BY <1>2, <1>3 DEF Below
<1>5. QED
  BY <1>3, <1>4

\* The element that is added first, and the others.
First(s) == CHOOSE x \in s : TRUE
Others(s) == s \ {First(s)}

\* The subsets of S with at most n elements.
UpTo(S, n) == {s \in SUBSET S : Cardinality(s) <= n}

LEMMA Subsets ==
    ASSUME NEW S, IsFiniteSet(S)
    PROVE  /\ \A s \in SUBSET S : Cardinality(s) \in Nat /\ Cardinality(s) <= Cardinality(S)
           /\ \A s \in SUBSET S : Cardinality(s) = 0 <=> s = {}
           /\ \A s \in SUBSET S : s # {} =>
                /\ First(s) \in s /\ First(s) \in S
                /\ Others(s) \in SUBSET S
                /\ Cardinality(Others(s)) = Cardinality(s) - 1
<1> SUFFICES ASSUME NEW s \in SUBSET S
             PROVE  /\ Cardinality(s) \in Nat /\ Cardinality(s) <= Cardinality(S)
                    /\ Cardinality(s) = 0 <=> s = {}
                    /\ s # {} =>
                         /\ First(s) \in s /\ First(s) \in S
                         /\ Others(s) \in SUBSET S
                         /\ Cardinality(Others(s)) = Cardinality(s) - 1
  BY Zenon
<1>1. IsFiniteSet(s) /\ Cardinality(s) <= Cardinality(S)
  BY FS_Subset
<1>2. Cardinality(s) \in Nat /\ (Cardinality(s) = 0 <=> s = {})
  BY <1>1, FS_CardinalityType, FS_EmptySet
<1>3. ASSUME s # {}
      PROVE  /\ First(s) \in s /\ First(s) \in S
             /\ Others(s) \in SUBSET S
             /\ Cardinality(Others(s)) = Cardinality(s) - 1
  <2>1. First(s) \in s
    BY <1>3 DEF First
  <2>2. Cardinality(s \ {First(s)}) = Cardinality(s) - 1
    BY <1>1, <2>1, FS_RemoveElement
  <2>3. QED
    BY <2>1, <2>2 DEF Others
<1>4. QED
  BY <1>1, <1>2, <1>3

LEMMA SubsetInduction ==
    ASSUME NEW S, IsFiniteSet(S), NEW G, {} \in G,
           \A s \in SUBSET S : s # {} /\ Others(s) \in G => s \in G
    PROVE  \A s \in SUBSET S : s \in G
<1> DEFINE N == {n \in Nat : UpTo(S, n) \subseteq G}
<1>1. 0 \in N
  <2> SUFFICES ASSUME NEW s \in SUBSET S, Cardinality(s) <= 0 PROVE s \in G
    BY DEF UpTo
  <2>1. Cardinality(s) \in Nat
    BY Subsets
  <2>2. Cardinality(s) = 0
    BY <2>1
  <2>3. s = {}
    BY <2>2, Subsets
  <2>4. QED
    BY <2>3
<1>2. ASSUME NEW n \in Nat, n \in N PROVE n + 1 \in N
  <2> SUFFICES ASSUME NEW s \in SUBSET S, Cardinality(s) <= n + 1, s # {} PROVE s \in G
    BY DEF UpTo
  <2>1. Others(s) \in SUBSET S /\ Cardinality(Others(s)) = Cardinality(s) - 1
    BY Subsets
  <2>2. Cardinality(s) \in Nat
    BY Subsets
  <2>3. Others(s) \in UpTo(S, n)
    BY <2>1, <2>2 DEF UpTo
  <2>4. QED
    BY <1>2, <2>3
<1>3. \A n \in Nat : n \in N
  <2> HIDE DEF N
  <2>1. QED
    BY <1>1, <1>2, NatInductionSet
<1>4. Cardinality(S) \in N
  BY <1>3, FS_CardinalityType
<1>5. QED
  BY <1>4, Subsets DEF UpTo

-----------------------------------------------------------------------------
(***************************************************************************)
(* Sums of sizes.                                                          *)
(***************************************************************************)

Items == [size : Nat, manifest : BOOLEAN]

Sum(f, S) == MapThenSumSet(LAMBDA x : Occupied(f[x]), S)

Loop(f, D, it) ==
    [s \in D |-> IF s = {} THEN 0 ELSE Occupied(f[First(s)]) + it[Others(s)]]

\* The sums of all subsets, as MapThenSumSet builds them up.
Sums(f, S) == CHOOSE it : it = Loop(f, SUBSET S, it)

LEMMA SumsExist ==
    ASSUME NEW S, IsFiniteSet(S), NEW f
    PROVE  /\ Sum(f, S) = Sums(f, S)[S]
           /\ Sums(f, S)[{}] = 0
           /\ \A s \in SUBSET S : s # {} =>
                Sums(f, S)[s] = Occupied(f[First(s)]) + Sums(f, S)[Others(s)]
<1> DEFINE N == {n \in Nat : \E it : it = Loop(f, UpTo(S, n), it)}
<1>1. 0 \in N
  <2> DEFINE it == [s \in UpTo(S, 0) |-> 0]
  <2>1. \A s \in UpTo(S, 0) : s = {}
    BY Subsets DEF UpTo
  <2>2. it = Loop(f, UpTo(S, 0), it)
    BY <2>1 DEF Loop
  <2>3. QED
    BY <2>2
<1>2. ASSUME NEW n \in Nat, n \in N PROVE n + 1 \in N
  <2>1. PICK it : it = Loop(f, UpTo(S, n), it)
    BY <1>2
  <2>2. PICK it2 : it2 = Loop(f, UpTo(S, n + 1), it)
    OBVIOUS
  <2>3. \A s \in UpTo(S, n) : s \in UpTo(S, n + 1) /\ it2[s] = it[s]
    <3> SUFFICES ASSUME NEW s \in UpTo(S, n) PROVE s \in UpTo(S, n + 1) /\ it2[s] = it[s]
      OBVIOUS
    <3>1. s \in UpTo(S, n + 1)
      BY Subsets DEF UpTo
    <3>2. it[s] = IF s = {} THEN 0 ELSE Occupied(f[First(s)]) + it[Others(s)]
      BY <2>1 DEF Loop
    <3>3. it2[s] = IF s = {} THEN 0 ELSE Occupied(f[First(s)]) + it[Others(s)]
      BY <2>2, <3>1 DEF Loop
    <3>4. QED
      BY <3>1, <3>2, <3>3
  <2>4. \A s \in UpTo(S, n + 1) : s # {} => it2[Others(s)] = it[Others(s)]
    <3> SUFFICES ASSUME NEW s \in UpTo(S, n + 1), s # {} PROVE it2[Others(s)] = it[Others(s)]
      OBVIOUS
    <3>1. /\ Others(s) \in SUBSET S /\ Cardinality(Others(s)) = Cardinality(s) - 1
          /\ Cardinality(s) \in Nat /\ Cardinality(s) <= n + 1
      BY Subsets DEF UpTo
    <3>2. Others(s) \in UpTo(S, n)
      BY <3>1 DEF UpTo
    <3>3. QED
      BY <2>3, <3>2
  <2>5. Loop(f, UpTo(S, n + 1), it) = Loop(f, UpTo(S, n + 1), it2)
    BY <2>4 DEF Loop
  <2>6. QED
    BY <2>2, <2>5
<1>3. \A n \in Nat : n \in N
  <2> HIDE DEF N
  <2>1. QED
    BY <1>1, <1>2, NatInductionSet
<1>4. UpTo(S, Cardinality(S)) = SUBSET S /\ Cardinality(S) \in Nat
  BY Subsets, FS_CardinalityType DEF UpTo
<1>5. \E it : it = Loop(f, SUBSET S, it)
  BY <1>3, <1>4
<1>6. PICK it : it = Sums(f, S) /\ it = Loop(f, SUBSET S, it)
  BY <1>5 DEF Sums
<1>7. Sum(f, S) = Sums(f, S)[S]
  BY DEF Sum, MapThenSumSet, MapThenFoldSet, Sums, Loop, First, Others
<1>8. \A s \in SUBSET S : it[s] = IF s = {} THEN 0 ELSE Occupied(f[First(s)]) + it[Others(s)]
  BY <1>6 DEF Loop
<1>9. QED
  BY <1>6, <1>7, <1>8

LEMMA OccupiedNat == \A item \in Items : Occupied(item) \in Nat
  BY VaultAssumption DEF Occupied, Items

\* A sum of sizes is a size.
LEMMA SumNat ==
    ASSUME NEW S, IsFiniteSet(S), NEW f \in [S -> Items]
    PROVE  Sum(f, S) \in Nat
<1> DEFINE G == {s \in SUBSET S : Sums(f, S)[s] \in Nat}
<1>1. {} \in G
  BY SumsExist
<1>2. ASSUME NEW s \in SUBSET S, s # {}, Others(s) \in G PROVE s \in G
  <2>1. Occupied(f[First(s)]) \in Nat
    BY <1>2, Subsets, OccupiedNat
  <2>2. Sums(f, S)[s] = Occupied(f[First(s)]) + Sums(f, S)[Others(s)]
    BY <1>2, SumsExist
  <2>3. QED
    BY <1>2, <2>1, <2>2
<1>3. \A s \in SUBSET S : s \in G
  <2> HIDE DEF G
  <2>1. QED
    BY <1>1, <1>2, SubsetInduction
<1>4. Sums(f, S)[S] \in Nat
  BY <1>3
<1>5. QED
  BY <1>4, SumsExist

\* The sum of nothing.
LEMMA SumZero ==
    ASSUME NEW S, IsFiniteSet(S), NEW f, \A x \in S : Occupied(f[x]) = 0
    PROVE  Sum(f, S) = 0
<1> DEFINE G == {s \in SUBSET S : Sums(f, S)[s] = 0}
<1>1. {} \in G
  BY SumsExist
<1>2. ASSUME NEW s \in SUBSET S, s # {}, Others(s) \in G PROVE s \in G
  BY <1>2, Subsets, SumsExist
<1>3. \A s \in SUBSET S : s \in G
  <2> HIDE DEF G
  <2>1. QED
    BY <1>1, <1>2, SubsetInduction
<1>4. Sums(f, S)[S] = 0
  BY <1>3
<1>5. QED
  BY <1>4, SumsExist

\* When one size changes the sum changes by as much.
LEMMA SumChanges ==
    ASSUME NEW S, IsFiniteSet(S), NEW f \in [S -> Items], NEW g \in [S -> Items],
           NEW p \in S, \A x \in S \ {p} : Occupied(g[x]) = Occupied(f[x])
    PROVE  Sum(g, S) = Sum(f, S) - Occupied(f[p]) + Occupied(g[p])
<1> DEFINE F(s) == Sums(f, S)[s]
           H(s) == Sums(g, S)[s]
           G == {s \in SUBSET S : /\ F(s) \in Nat /\ H(s) \in Nat
                                  /\ p \in s => H(s) + Occupied(f[p]) = F(s) + Occupied(g[p])
                                  /\ p \notin s => H(s) = F(s)}
<1>1. {} \in G
  BY SumsExist
<1>2. ASSUME NEW s \in SUBSET S, s # {}, Others(s) \in G PROVE s \in G
  <2>1. PICK x : x = First(s)
    OBVIOUS
  <2>2. x \in s /\ x \in S /\ Others(s) = s \ {x}
    BY <1>2, <2>1, Subsets DEF Others
  <2>3. /\ Occupied(f[x]) \in Nat /\ Occupied(g[x]) \in Nat
        /\ Occupied(f[p]) \in Nat /\ Occupied(g[p]) \in Nat
    BY <2>2, OccupiedNat
  <2>4. F(s) = Occupied(f[x]) + F(Others(s)) /\ H(s) = Occupied(g[x]) + H(Others(s))
    BY <1>2, <2>1, SumsExist
  <2>5. /\ F(Others(s)) \in Nat /\ H(Others(s)) \in Nat
        /\ p \in Others(s) => H(Others(s)) + Occupied(f[p]) = F(Others(s)) + Occupied(g[p])
        /\ p \notin Others(s) => H(Others(s)) = F(Others(s))
    BY <1>2
  <2> HIDE DEF F, H
  <2>6. F(s) \in Nat /\ H(s) \in Nat
    BY <2>3, <2>4, <2>5
  <2>7. CASE x = p
    <3>1. p \in s /\ H(Others(s)) = F(Others(s))
      BY <2>2, <2>5, <2>7
    <3>2. H(s) + Occupied(f[p]) = F(s) + Occupied(g[p])
      BY <2>3, <2>4, <2>5, <2>7, <3>1
    <3>3. QED
      BY <2>6, <3>1, <3>2
  <2>8. CASE x # p
    <3>1. (p \in s <=> p \in Others(s)) /\ Occupied(g[x]) = Occupied(f[x])
      BY <2>2, <2>8
    <3>2. p \in s => H(s) + Occupied(f[p]) = F(s) + Occupied(g[p])
      BY <2>3, <2>4, <2>5, <3>1
    <3>3. p \notin s => H(s) = F(s)
      BY <2>4, <2>5, <3>1
    <3>4. QED
      BY <2>6, <3>2, <3>3
  <2>9. QED
    BY <2>7, <2>8
<1>3. \A s \in SUBSET S : s \in G
  <2> HIDE DEF G
  <2>1. QED
    BY <1>1, <1>2, SubsetInduction
<1>4. S \in G
  BY <1>3
<1>5. /\ F(S) \in Nat /\ H(S) \in Nat /\ H(S) + Occupied(f[p]) = F(S) + Occupied(g[p])
      /\ Occupied(f[p]) \in Nat /\ Occupied(g[p]) \in Nat
  BY <1>4, OccupiedNat
<1>6. Sum(f, S) = F(S) /\ Sum(g, S) = H(S)
  BY SumsExist
<1> HIDE DEF F, H
<1>7. QED
  BY <1>5, <1>6

-----------------------------------------------------------------------------
(***************************************************************************)
(* Quota and reserve.                                                      *)
(***************************************************************************)

\* A mirror that passed its first check while no other was under way is alone
\* until it ends.
Unshared ==
    ~shared => \A p, q \in Processes :
        pc[p] \in Mirroring /\ pc[q] \in Mirroring => p = q

\* What the second check allowed still fits when the snapshot is published, up to
\* the manifest that was added in between.
Fits ==
    ~shared => \A p \in Processes :
        /\ pc[p] \in {"committing", "renaming"} =>
             Quota = 0 \/ Used + staging[p].size <= Quota
        /\ pc[p] = "committing" => staging[p].size + Reserve <= Free
        /\ pc[p] = "renaming" => staging[p].size + Reserve <= Free + ManifestSize

Limits == Unshared /\ Fits /\ Free \in 0..Disk

LEMMA SumsAre ==
    /\ Used = Sum(snapshots, Revisions)
    /\ Staged = Sum(staging, Processes)
    /\ Used' = Sum(snapshots', Revisions)
    /\ Staged' = Sum(staging', Processes)
<1>1. Used = Sum(snapshots, Revisions)
  BY DEF Used, Sum
<1>2. Staged = Sum(staging, Processes)
  BY DEF Staged, Sum
<1>3. Used' = Sum(snapshots', Revisions)
  BY DEF Used, Sum, MapThenSumSet, MapThenFoldSet
<1>4. Staged' = Sum(staging', Processes)
  BY DEF Staged, Sum, MapThenSumSet, MapThenFoldSet
<1>5. QED
  BY <1>1, <1>2, <1>3, <1>4

\* What is used and staged are sizes.
LEMMA SizesTyped ==
    ASSUME Typed
    PROVE  /\ Used \in Nat /\ Staged \in Nat /\ litter \in Nat /\ Free \in Int
           /\ \A p \in Processes : staging[p].size \in Nat /\ Occupied(staging[p]) \in Nat
<1>1. snapshots \in [Revisions -> Items] /\ staging \in [Processes -> Items]
  BY DEF Typed, Items
<1>2. Used \in Nat /\ Staged \in Nat
  BY <1>1, SumsAre, SumNat, VaultAssumption
<1>3. litter \in Nat /\ Free \in Int
  BY <1>2, VaultAssumption DEF Typed, Free
<1>4. QED
  BY <1>1, <1>2, <1>3, OccupiedNat DEF Items

LEMMA NothingOccupied == Occupied(NoSnapshot) = 0
  BY DEF Occupied, NoSnapshot

LEMMA InitLimits == Init => Limits
<1> SUFFICES ASSUME Init PROVE Limits
  OBVIOUS
<1>1. \A p \in Processes : pc[p] = "idle"
  BY DEF Init
<1>2. Unshared /\ Fits
  BY <1>1 DEF Unshared, Fits, Mirroring, InSlot
<1>3. Used = 0 /\ Staged = 0
  <2>1. /\ \A r \in Revisions : Occupied(snapshots[r]) = 0
        /\ \A p \in Processes : Occupied(staging[p]) = 0
    BY NothingOccupied DEF Init
  <2>2. QED
    BY <2>1, SumsAre, SumZero, VaultAssumption
<1>4. Free \in 0..Disk
  BY <1>3, VaultAssumption DEF Init, Free
<1>5. QED
  BY <1>2, <1>4 DEF Limits

\* A step that changes one staging directory.
LEMMA StagedChanges ==
    ASSUME Typed, Typed', NEW p \in Processes, UNCHANGED <<snapshots, litter>>,
           \A q \in Processes \ {p} : staging'[q] = staging[q]
    PROVE  /\ Used' = Used
           /\ Free' = Free + Occupied(staging[p]) - Occupied(staging'[p])
<1>1. staging \in [Processes -> Items] /\ staging' \in [Processes -> Items]
  BY DEF Typed, Items
<1>2. Staged' = Staged - Occupied(staging[p]) + Occupied(staging'[p])
  BY <1>1, SumsAre, SumChanges, VaultAssumption
<1>3. Used' = Used
  BY SumsAre
<1>4. /\ Used \in Nat /\ Staged \in Nat /\ litter \in Nat
      /\ Occupied(staging[p]) \in Nat /\ Occupied(staging'[p]) \in Nat
  BY <1>1, SizesTyped, OccupiedNat
<1>5. Free' = Disk - Used' - Staged' - litter' /\ Free = Disk - Used - Staged - litter
  BY DEF Free
<1>6. QED
  BY <1>2, <1>3, <1>4, <1>5, VaultAssumption

\* A step that changes no size.
LEMMA SameSizes ==
    ASSUME UNCHANGED <<snapshots, staging, litter>>
    PROVE  Used' = Used /\ Free' = Free
<1>1. Used' = Used /\ Staged' = Staged
  BY SumsAre
<1>2. QED
  BY <1>1 DEF Free

\* The rename publishes what was staged: what is free stays.
LEMMA RenameSizes ==
    ASSUME Typed, Typed', DamagedExist, NEW p \in Processes, Rename(p)
    PROVE  Used' = Used + Occupied(staging[p]) /\ Free' = Free
<1>1. /\ snapshots \in [Revisions -> Items] /\ snapshots' \in [Revisions -> Items]
      /\ staging \in [Processes -> Items] /\ staging' \in [Processes -> Items]
      /\ rev[p] \in Revisions
  BY DEF Typed, Items
<1>2. /\ snapshots'[rev[p]] = staging[p]
      /\ \A r \in Revisions \ {rev[p]} : snapshots'[r] = snapshots[r]
      /\ staging'[p] = NoSnapshot
      /\ \A q \in Processes \ {p} : staging'[q] = staging[q]
      /\ litter' = litter
  BY <1>1 DEF Rename
<1>3. Occupied(snapshots[rev[p]]) = 0
  <2>1. snapshots[rev[p]] = NoSnapshot
    BY <1>1 DEF Rename, DamagedExist
  <2>2. QED
    BY <2>1, NothingOccupied
<1>4. Used' = Used - Occupied(snapshots[rev[p]]) + Occupied(snapshots'[rev[p]])
  BY <1>1, <1>2, SumsAre, SumChanges, VaultAssumption
<1>5. Staged' = Staged - Occupied(staging[p]) + Occupied(staging'[p])
  BY <1>1, <1>2, SumsAre, SumChanges, VaultAssumption
<1>6. Used \in Nat /\ Staged \in Nat /\ litter \in Nat /\ Occupied(staging[p]) \in Nat
  BY SizesTyped
<1>7. Free' = Disk - Used' - Staged' - litter' /\ Free = Disk - Used - Staged - litter
  BY DEF Free
<1>8. Occupied(snapshots'[rev[p]]) = Occupied(staging[p]) /\ Occupied(staging'[p]) = 0
  BY <1>2, NothingOccupied
<1>9. Used' = Used + Occupied(staging[p]) /\ Staged' = Staged - Occupied(staging[p])
  BY <1>3, <1>4, <1>5, <1>6, <1>8
<1>10. QED
  BY <1>2, <1>6, <1>7, <1>9, VaultAssumption

\* A killed process leaves what it staged: what is free stays.
LEMMA KillSizes ==
    ASSUME Typed, Typed', NEW p \in Processes, Kill(p)
    PROVE  Used' = Used /\ Free' = Free
<1>1. staging \in [Processes -> Items] /\ staging' \in [Processes -> Items]
  BY DEF Typed, Items
<1>2. /\ snapshots' = snapshots /\ litter' = litter + Occupied(staging[p])
      /\ staging'[p] = NoSnapshot
      /\ \A q \in Processes \ {p} : staging'[q] = staging[q]
  BY <1>1 DEF Kill, vault
<1>3. Staged' = Staged - Occupied(staging[p]) + Occupied(staging'[p])
  BY <1>1, <1>2, SumsAre, SumChanges, VaultAssumption
<1>4. Used' = Used
  BY <1>2, SumsAre
<1>5. Used \in Nat /\ Staged \in Nat /\ litter \in Nat /\ Occupied(staging[p]) \in Nat
  BY SizesTyped
<1>6. Free' = Disk - Used' - Staged' - litter' /\ Free = Disk - Used - Staged - litter
  BY DEF Free
<1>7. Occupied(staging'[p]) = 0
  BY <1>2, NothingOccupied
<1>8. Staged' = Staged - Occupied(staging[p])
  BY <1>3, <1>5, <1>7
<1>9. QED
  BY <1>2, <1>4, <1>5, <1>6, <1>8, VaultAssumption

\* Writing the manifest takes at most its size.
LEMMA ManifestSizes ==
    ASSUME Typed, Typed', NEW p \in Processes, WriteManifest(p)
    PROVE  /\ Used' = Used
           /\ Free' \in Int /\ Free' + ManifestSize >= Free
           /\ ManifestSize <= Free
<1>1. /\ UNCHANGED <<snapshots, litter>> /\ ManifestSize <= Free
      /\ staging'[p] = [staging[p] EXCEPT !.manifest = TRUE]
      /\ \A q \in Processes \ {p} : staging'[q] = staging[q]
  BY DEF WriteManifest, vault, Typed
<1>2. Used' = Used /\ Free' = Free + Occupied(staging[p]) - Occupied(staging'[p])
  BY <1>1, StagedChanges
<1>3. staging[p] \in [size : Nat, manifest : BOOLEAN]
  BY DEF Typed
<1>4. staging'[p].size = staging[p].size /\ staging'[p].manifest
  BY <1>1, <1>3
<1>5. staging[p].size \in Nat
  BY <1>3
<1>6. Occupied(staging'[p]) = staging[p].size + ManifestSize
  BY <1>4 DEF Occupied
<1>7. Occupied(staging[p]) \in Nat /\ Occupied(staging[p]) >= staging[p].size
  BY <1>5, VaultAssumption DEF Occupied
<1>8. Free \in Int /\ ManifestSize \in Nat
  BY SizesTyped, VaultAssumption
<1>9. Free' \in Int /\ Free' + ManifestSize >= Free
  BY <1>2, <1>5, <1>6, <1>7, <1>8
<1>10. QED
  BY <1>1, <1>2, <1>9

\* The steps that change sizes.
LEMMA StepSizes ==
    ASSUME [Next]_vars
    PROVE  \/ \E p \in Processes :
                Download(p) \/ WriteManifest(p) \/ RemoveStaging(p) \/ Rename(p) \/ Kill(p)
           \/ UNCHANGED <<snapshots, staging, litter>>
<1> USE DEF vault
<1>1. ASSUME NEW p \in Processes,
             \/ BeginInitialize(p) \/ WriteMarker(p) \/ MakeDirectory(p)
             \/ FailInitialize(p) \/ MakeParents(p)
      PROVE  UNCHANGED <<snapshots, staging, litter>>
  BY <1>1 DEF BeginInitialize, WriteMarker, MakeDirectory, FailInitialize, MakeParents
<1>2. ASSUME NEW p \in Processes, NEW r \in Revisions, NEW expected \in Expected,
             NEW announced \in Sizes, NEW actual \in Sizes,
             BeginMirror(p, r, expected, announced, actual)
      PROVE  UNCHANGED <<snapshots, staging, litter>>
  BY <1>2 DEF BeginMirror
<1>3. ASSUME NEW p \in Processes,
             FindTarget(p) \/ TakeLock(p) \/ MissLock(p) \/ MakeStaging(p)
      PROVE  UNCHANGED <<snapshots, staging, litter>>
  BY <1>3 DEF FindTarget, TakeLock, MissLock, MakeStaging
<1>4. ASSUME NEW p \in Processes, CheckCommit(p) \/ FailInSlot(p) \/ Unlock(p)
      PROVE  UNCHANGED <<snapshots, staging, litter>>
  BY <1>4 DEF CheckCommit, FailInSlot, Unlock
<1>5. ASSUME NEW r \in Revisions, Damage(r) PROVE UNCHANGED <<snapshots, staging, litter>>
  BY <1>5 DEF Damage
<1>6. ASSUME UNCHANGED vars PROVE UNCHANGED <<snapshots, staging, litter>>
  BY <1>6 DEF vars
<1>7. QED
  BY <1>1, <1>2, <1>3, <1>4, <1>5, <1>6, StepCases

\* Space is never overdrawn.
LEMMA NextFree == IInv /\ [Next]_vars /\ Typed' /\ Free \in 0..Disk => Free' \in 0..Disk
<1> SUFFICES ASSUME IInv, [Next]_vars, Typed', Free \in 0..Disk PROVE Free' \in 0..Disk
  OBVIOUS
<1>0. Typed /\ Disk \in Nat
  BY VaultAssumption DEF IInv
<1>1. Used' \in Nat /\ Staged' \in Nat /\ litter' \in Nat /\ Free' \in Int /\ Free' <= Disk
  <2>1. /\ snapshots' \in [Revisions -> Items] /\ staging' \in [Processes -> Items]
        /\ litter' \in Nat
    BY DEF Typed, Items
  <2>2. Used' \in Nat /\ Staged' \in Nat
    BY <2>1, SumsAre, SumNat, VaultAssumption
  <2>3. Free' = Disk - Used' - Staged' - litter'
    BY DEF Free
  <2>4. \A d, u, t, l \in Nat : d - u - t - l \in Int /\ d - u - t - l <= d
    OBVIOUS
  <2>5. Free' \in Int /\ Free' <= Disk
    BY <1>0, <2>1, <2>2, <2>3, <2>4
  <2>6. QED
    BY <2>1, <2>2, <2>5
<1>2. SUFFICES Free' >= 0
  BY <1>0, <1>1
<1>3. Free \in Nat
  BY <1>0
<1>4. ASSUME NEW p \in Processes, Download(p) PROVE Free' >= 0
  <2>1. /\ UNCHANGED <<snapshots, litter>> /\ Free > 0
        /\ \A q \in Processes \ {p} : staging'[q] = staging[q]
    BY <1>4, <1>0 DEF Download, vault, Typed
  <2>2. /\ staging[p] \in [size : Nat, manifest : BOOLEAN]
        /\ staging'[p] = [staging[p] EXCEPT !.size = @ + 1]
    BY <1>4, <1>0 DEF Download, Typed
  <2>3. staging'[p].size = staging[p].size + 1 /\ staging'[p].manifest = staging[p].manifest
    BY <2>2
  <2>4. Occupied(staging'[p]) = Occupied(staging[p]) + 1 /\ Occupied(staging[p]) \in Nat
    <3>1. staging[p].size \in Nat /\ staging[p].manifest \in BOOLEAN /\ ManifestSize \in Nat
      BY <2>2, VaultAssumption
    <3>2. QED
      BY <2>3, <3>1 DEF Occupied
  <2>5. Free' = Free + Occupied(staging[p]) - Occupied(staging'[p])
    BY <1>0, <2>1, StagedChanges
  <2>6. QED
    BY <1>3, <2>1, <2>4, <2>5
<1>5. ASSUME NEW p \in Processes, RemoveStaging(p) PROVE Free' >= 0
  <2>1. /\ UNCHANGED <<snapshots, litter>>
        /\ \A q \in Processes \ {p} : staging'[q] = staging[q]
    BY <1>5, <1>0 DEF RemoveStaging, vault, Typed
  <2>2. Occupied(staging'[p]) = 0 /\ Occupied(staging[p]) \in Nat
    BY <1>5, <1>0, NothingOccupied, SizesTyped DEF RemoveStaging, Typed
  <2>3. Free' = Free + Occupied(staging[p]) - Occupied(staging'[p])
    BY <1>0, <2>1, StagedChanges
  <2>4. QED
    BY <1>3, <2>2, <2>3
<1>6. ASSUME NEW p \in Processes, WriteManifest(p) \/ Rename(p) PROVE Free' >= 0
  <2>1. CASE Rename(p)
    BY <1>0, <1>3, <2>1, RenameSizes DEF IInv
  <2>2. CASE WriteManifest(p)
    <3>1. Free' \in Int /\ Free' + ManifestSize >= Free /\ ManifestSize <= Free
      BY <1>0, <2>2, ManifestSizes
    <3>2. ManifestSize \in Nat
      BY VaultAssumption
    <3>3. ASSUME NEW a \in Int, NEW b \in Nat, NEW m \in Nat, a + m >= b, m <= b
          PROVE  a >= 0
      BY <3>3
    <3>4. QED
      BY <1>3, <3>1, <3>2, <3>3
  <2>3. QED
    BY <1>6, <2>1, <2>2
<1>7. ASSUME NEW p \in Processes, Kill(p) PROVE Free' >= 0
  BY <1>0, <1>3, <1>7, KillSizes
<1>8. ASSUME UNCHANGED <<snapshots, staging, litter>> PROVE Free' >= 0
  BY <1>3, <1>8, SameSizes
<1>9. QED
  BY <1>4, <1>5, <1>6, <1>7, <1>8, StepSizes

\* A command that initialises touches no download, and mirrors neither
\* before nor after the step.
LEMMA InitializeSteps ==
    ASSUME Typed, NEW p \in Processes,
           BeginInitialize(p) \/ WriteMarker(p) \/ MakeDirectory(p) \/ FailInitialize(p)
    PROVE  /\ UNCHANGED <<snapshots, staging, litter, shared>>
           /\ \A q \in Processes : pc'[q] \in Mirroring => pc[q] \in Mirroring /\ pc'[q] = pc[q]
<1> USE DEF Goto, history, vault
<1>1. UNCHANGED <<snapshots, staging, litter, shared>>
  BY DEF BeginInitialize, WriteMarker, MakeDirectory, FailInitialize
<1>2. \A q \in Processes \ {p} : pc'[q] = pc[q]
  BY DEF BeginInitialize, WriteMarker, MakeDirectory, FailInitialize, Typed
<1>3. pc'[p] \in {"marking", "models", ".staging", ".locks", "idle"}
  <2>1. CASE MakeDirectory(p)
    <3>1. PICK i \in 1..3 : Goto(p, IF Directories[i] \in made \/ i = 3 THEN "idle"
                                     ELSE Directories[i + 1])
      BY <2>1 DEF MakeDirectory
    <3>2. i # 3 => Directories[i + 1] \in {".staging", ".locks"}
      BY DEF Directories
    <3>3. QED
      BY <3>1, <3>2 DEF Typed
  <2>2. CASE BeginInitialize(p) \/ WriteMarker(p) \/ FailInitialize(p)
    BY <2>2 DEF BeginInitialize, WriteMarker, FailInitialize, Typed
  <2>3. QED
    BY <2>1, <2>2
<1>4. pc'[p] \notin Mirroring
  BY <1>3 DEF Mirroring, InSlot
<1>5. QED
  BY <1>1, <1>2, <1>4

\* A command starts to mirror with BeginMirror and in no other step.
LEMMA StepMirroring ==
    ASSUME Typed, [Next]_vars
    PROVE  \/ \E p \in Processes, r \in Revisions, expected \in Expected,
                 announced, actual \in Sizes : BeginMirror(p, r, expected, announced, actual)
           \/ /\ UNCHANGED shared
              /\ \A q \in Processes : pc'[q] \in Mirroring => pc[q] \in Mirroring
<1> USE DEF Goto, history
<1>1. ASSUME NEW p \in Processes,
             BeginInitialize(p) \/ WriteMarker(p) \/ MakeDirectory(p) \/ FailInitialize(p)
      PROVE  UNCHANGED shared /\ \A q \in Processes : pc'[q] \in Mirroring => pc[q] \in Mirroring
  BY <1>1, InitializeSteps
<1>2. ASSUME NEW p \in Processes,
             FindTarget(p) \/ TakeLock(p) \/ MissLock(p) \/ MakeStaging(p) \/ Download(p)
      PROVE  UNCHANGED shared /\ \A q \in Processes : pc'[q] \in Mirroring => pc[q] \in Mirroring
  BY <1>2 DEF FindTarget, TakeLock, MissLock, MakeStaging, Download, Typed, Mirroring, InSlot
<1>3. ASSUME NEW p \in Processes,
             CheckCommit(p) \/ WriteManifest(p) \/ Rename(p) \/ FailInSlot(p)
      PROVE  UNCHANGED shared /\ \A q \in Processes : pc'[q] \in Mirroring => pc[q] \in Mirroring
  BY <1>3 DEF CheckCommit, WriteManifest, Rename, FailInSlot, Typed, Mirroring, InSlot
<1>4. ASSUME NEW p \in Processes, RemoveStaging(p) \/ Unlock(p) \/ Kill(p)
      PROVE  UNCHANGED shared /\ \A q \in Processes : pc'[q] \in Mirroring => pc[q] \in Mirroring
  BY <1>4 DEF RemoveStaging, Unlock, Kill, Typed, Mirroring, InSlot
<1>5. ASSUME UNCHANGED <<pc, shared>>
      PROVE  UNCHANGED shared /\ \A q \in Processes : pc'[q] \in Mirroring => pc[q] \in Mirroring
  BY <1>5
<1>6. ASSUME NEW r \in Revisions, Damage(r) PROVE UNCHANGED <<pc, shared>>
  BY <1>6 DEF Damage
<1>7. ASSUME NEW p \in Processes, MakeParents(p) PROVE UNCHANGED <<pc, shared>>
  BY <1>7 DEF MakeParents
<1>8. UNCHANGED vars => UNCHANGED <<pc, shared>>
  BY DEF vars
<1>9. QED
  BY <1>1, <1>2, <1>3, <1>4, <1>5, <1>6, <1>7, <1>8, StepCases

\* Two commands that mirror at once have set the shared flag.
LEMMA NextUnshared == Typed /\ Unshared /\ [Next]_vars => Unshared'
<1> SUFFICES ASSUME Typed, Unshared, [Next]_vars PROVE Unshared'
  OBVIOUS
<1>1. ASSUME NEW p \in Processes, NEW r \in Revisions, NEW expected \in Expected,
             NEW announced \in Sizes, NEW actual \in Sizes,
             BeginMirror(p, r, expected, announced, actual)
      PROVE  Unshared'
  <2>1. /\ pc' = [pc EXCEPT ![p] = IF RequireCapacity(announced) THEN "checked" ELSE "idle"]
        /\ ~shared' => /\ ~shared
                       /\ RequireCapacity(announced) =>
                            \A q \in Processes : pc[q] \notin Mirroring
    BY <1>1 DEF BeginMirror, Goto
  <2>2. \A q \in Processes \ {p} : pc'[q] = pc[q]
    BY <2>1 DEF Typed
  <2>3. pc'[p] = IF RequireCapacity(announced) THEN "checked" ELSE "idle"
    BY <2>1 DEF Typed
  <2>4. CASE RequireCapacity(announced)
    BY <2>1, <2>2, <2>4 DEF Unshared
  <2>5. CASE ~RequireCapacity(announced)
    <3>1. pc'[p] \notin Mirroring
      BY <2>3, <2>5 DEF Mirroring, InSlot
    <3>2. QED
      BY <2>1, <2>2, <3>1 DEF Unshared
  <2>6. QED
    BY <2>4, <2>5
<1>2. ASSUME UNCHANGED shared, \A q \in Processes : pc'[q] \in Mirroring => pc[q] \in Mirroring
      PROVE  Unshared'
  BY <1>2 DEF Unshared
<1>3. QED
  BY <1>1, <1>2, StepMirroring

\* What a step leaves of the claims that Fits makes.
LEMMA StillFits ==
    ASSUME Fits, ~shared' => ~shared, UNCHANGED <<snapshots, staging, litter>>,
           \A q \in Processes : pc'[q] \in {"committing", "renaming"} => pc'[q] = pc[q]
    PROVE  Fits'
<1>1. Used' = Used /\ Free' = Free
  BY SameSizes
<1>2. QED
  BY <1>1 DEF Fits

\* What a command was told fits still fits until it renames.
LEMMA NextFits == Typed /\ Typed' /\ Unshared /\ Fits /\ [Next]_vars => Fits'
<1> SUFFICES ASSUME Typed, Typed', Unshared, Fits, [Next]_vars PROVE Fits'
  OBVIOUS
<1> USE DEF Goto, history, vault
<1>1. ASSUME NEW p \in Processes, pc[p] \in Mirroring, pc'[p] \notin {"committing", "renaming"},
             \A q \in Processes \ {p} : pc'[q] = pc[q], UNCHANGED shared
      PROVE  Fits'
  <2>1. ASSUME ~shared, NEW q \in Processes, pc'[q] \in {"committing", "renaming"} PROVE FALSE
    <3>1. q # p /\ pc[q] \in Mirroring
      BY <1>1, <2>1 DEF Mirroring, InSlot
    <3>2. QED
      BY <1>1, <2>1, <3>1 DEF Unshared
  <2>2. QED
    BY <1>1, <2>1 DEF Fits
<1>2. ASSUME NEW p \in Processes, Download(p) \/ RemoveStaging(p) \/ Rename(p) PROVE Fits'
  <2>1. /\ pc[p] \in Mirroring /\ pc'[p] \notin {"committing", "renaming"}
        /\ \A q \in Processes \ {p} : pc'[q] = pc[q]
        /\ UNCHANGED shared
    BY <1>2 DEF Download, RemoveStaging, Rename, Typed, Mirroring, InSlot
  <2>2. QED
    BY <1>1, <2>1
<1>3. ASSUME NEW p \in Processes, CheckCommit(p) PROVE Fits'
  <2>1. /\ UNCHANGED <<snapshots, staging, litter, shared>>
        /\ \A q \in Processes \ {p} : pc'[q] = pc[q]
        /\ pc'[p] = "committing" => RequireCapacity(staging[p].size)
        /\ pc'[p] \in {"committing", "cleaning"}
    BY <1>3 DEF CheckCommit, Typed
  <2>2. Used' = Used /\ Free' = Free
    BY <2>1, SameSizes
  <2>3. QED
    BY <2>1, <2>2 DEF Fits, RequireCapacity
<1>4. ASSUME NEW p \in Processes, WriteManifest(p) PROVE Fits'
  <2>1. /\ UNCHANGED shared /\ pc[p] = "committing" /\ pc'[p] = "renaming"
        /\ \A q \in Processes \ {p} : pc'[q] = pc[q]
        /\ staging'[p].size = staging[p].size /\ staging[p].size \in Nat
    BY <1>4 DEF WriteManifest, Typed
  <2>2. /\ Used' = Used
        /\ Free' \in Int /\ Free \in Int /\ Free' + ManifestSize >= Free
    BY <1>4, ManifestSizes, SizesTyped
  <2>3. ASSUME ~shared, NEW q \in Processes, pc'[q] \in {"committing", "renaming"}
        PROVE  q = p
    <3>1. pc[p] \in Mirroring /\ (q # p => pc[q] \in Mirroring)
      BY <2>1, <2>3 DEF Mirroring, InSlot
    <3>2. QED
      BY <2>3, <3>1 DEF Unshared
  <2>4. ASSUME ~shared
        PROVE  /\ Quota = 0 \/ Used' + staging'[p].size <= Quota
               /\ staging'[p].size + Reserve <= Free' + ManifestSize
    <3>1. /\ Quota = 0 \/ Used + staging[p].size <= Quota
          /\ staging[p].size + Reserve <= Free
      BY <2>1, <2>4 DEF Fits
    <3>2. Reserve \in Nat /\ ManifestSize \in Nat
      BY VaultAssumption
    <3>3. Quota = 0 \/ Used' + staging'[p].size <= Quota
      BY <2>1, <2>2, <3>1
    <3>4. ASSUME NEW a \in Int, NEW b \in Int, NEW m \in Nat, NEW n \in Nat, a + m >= b, n <= b
          PROVE  n <= a + m
      BY <3>4
    <3>5. staging[p].size + Reserve \in Nat
      BY <2>1, <3>2
    <3>6. staging[p].size + Reserve <= Free' + ManifestSize
      BY <2>2, <3>1, <3>2, <3>4, <3>5
    <3>7. QED
      BY <2>1, <3>3, <3>6
  <2>5. QED
    BY <2>1, <2>3, <2>4 DEF Fits
<1>5. ASSUME NEW p \in Processes, Kill(p) PROVE Fits'
  <2>1. /\ pc'[p] = "idle" /\ UNCHANGED shared
        /\ \A q \in Processes \ {p} : pc'[q] = pc[q] /\ staging'[q] = staging[q]
    BY <1>5 DEF Kill, Typed
  <2>2. Used' = Used /\ Free' = Free
    BY <1>5, KillSizes
  <2>3. QED
    BY <2>1, <2>2 DEF Fits
<1>6. ASSUME NEW p \in Processes, NEW r \in Revisions, NEW expected \in Expected,
             NEW announced \in Sizes, NEW actual \in Sizes,
             BeginMirror(p, r, expected, announced, actual)
      PROVE  Fits'
  <2>1. /\ UNCHANGED <<snapshots, staging, litter>> /\ (~shared' => ~shared)
        /\ \A q \in Processes : pc'[q] = pc[q] \/ pc'[q] \in {"checked", "idle"}
    BY <1>6 DEF BeginMirror, Typed
  <2>2. \A q \in Processes : pc'[q] \in {"committing", "renaming"} => pc'[q] = pc[q]
    BY <2>1
  <2>3. QED
    BY <2>1, <2>2, StillFits
<1>7. ASSUME NEW p \in Processes,
             BeginInitialize(p) \/ WriteMarker(p) \/ MakeDirectory(p) \/ FailInitialize(p)
      PROVE  Fits'
  <2>1. /\ UNCHANGED <<snapshots, staging, litter, shared>>
        /\ \A q \in Processes : pc'[q] \in Mirroring => pc'[q] = pc[q]
    BY <1>7, InitializeSteps
  <2>2. \A q \in Processes : pc'[q] \in {"committing", "renaming"} => pc'[q] = pc[q]
    BY <2>1 DEF Mirroring, InSlot
  <2>3. QED
    BY <2>1, <2>2, StillFits
<1>8. ASSUME NEW p \in Processes,
             \/ FindTarget(p) \/ TakeLock(p) \/ MissLock(p) \/ MakeStaging(p)
             \/ MakeParents(p) \/ FailInSlot(p) \/ Unlock(p)
      PROVE  Fits'
  <2>1. UNCHANGED <<snapshots, staging, litter, shared>>
    BY <1>8 DEF FindTarget, TakeLock, MissLock, MakeStaging, MakeParents, FailInSlot, Unlock
  <2>2. \A q \in Processes : pc'[q] \in {"committing", "renaming"} => pc'[q] = pc[q]
    BY <1>8 DEF FindTarget, TakeLock, MissLock, MakeStaging, MakeParents, FailInSlot, Unlock,
                Typed
  <2>3. QED
    BY <2>1, <2>2, StillFits
<1>9. ASSUME UNCHANGED <<snapshots, staging, litter, pc, shared>> PROVE Fits'
  BY <1>9, StillFits
<1>10. ASSUME NEW r \in Revisions, Damage(r)
       PROVE  UNCHANGED <<snapshots, staging, litter, pc, shared>>
  BY <1>10 DEF Damage
<1>11. UNCHANGED vars => UNCHANGED <<snapshots, staging, litter, pc, shared>>
  BY DEF vars
<1>12. QED
  BY <1>2, <1>3, <1>4, <1>5, <1>6, <1>7, <1>8, <1>9, <1>10, <1>11, StepCases

\* The inductive invariant of the limits.
LEMMA LimitsHold == Spec => [](IInv /\ Limits)
<1>1. Init => IInv /\ Limits
  BY InitIInv, InitLimits
<1>2. IInv /\ Limits /\ [Next]_vars => (IInv /\ Limits)'
  <2> SUFFICES ASSUME IInv, Limits, [Next]_vars PROVE IInv' /\ Limits'
    OBVIOUS
  <2>1. IInv' /\ Typed /\ Typed'
    BY StepIInv DEF IInv
  <2>2. Unshared' /\ Fits' /\ (Free \in 0..Disk)'
    BY <2>1, NextUnshared, NextFits, NextFree DEF Limits
  <2>3. QED
    BY <2>1, <2>2 DEF Limits
<1>3. QED
  BY <1>1, <1>2, PTL DEF Spec

\* Types; downloads, snapshots and litter never take more than the volume has.
THEOREM TypeCorrect == Spec => []TypeOK
<1>1. IInv /\ Limits => TypeOK
  BY DEF IInv, Typed, Limits, TypeOK
<1>2. QED
  BY LimitsHold, <1>1, PTL

\* require_capacity: as long as no two mirrors overlap, what commit_snapshot
\* publishes exceeds the quota by no more than its manifest, and leaves what the
\* reserve and its files together ask for, up to the manifest, whatever was
\* killed before and left its litter.
THEOREM PublishKeepsLimitsThm == Spec => PublishKeepsLimits
<1>1. IInv /\ Limits /\ IInv' /\ [Next]_vars =>
        [\A r \in Revisions : snapshots'[r] # snapshots[r] /\ ~shared =>
           /\ Quota = 0 \/ Used' <= Quota + ManifestSize
           /\ Free' + ManifestSize >= Reserve + snapshots'[r].size]_vars
  <2> SUFFICES ASSUME IInv, Limits, IInv', [Next]_vars, NEW r \in Revisions,
                      snapshots'[r] # snapshots[r], ~shared
               PROVE  /\ Quota = 0 \/ Used' <= Quota + ManifestSize
                      /\ Free' + ManifestSize >= Reserve + snapshots'[r].size
    OBVIOUS
  <2>1. PICK p \in Processes : Rename(p)
    BY OnlyRenamePublishes DEF Damage
  <2>2. pc[p] = "renaming" /\ snapshots'[r] = staging[p]
    BY <2>1 DEF Rename, IInv, Typed
  <2>3. Used' = Used + Occupied(staging[p]) /\ Free' = Free
    BY <2>1, RenameSizes DEF IInv
  <2>4. staging[p] = [size |-> want[p], manifest |-> TRUE]
    BY <2>2 DEF IInv, MirrorsWhole
  <2>5. Occupied(staging[p]) = staging[p].size + ManifestSize
    BY <2>4 DEF Occupied
  <2>6. /\ Quota = 0 \/ Used + staging[p].size <= Quota
        /\ staging[p].size + Reserve <= Free + ManifestSize
    BY <2>2 DEF Limits, Fits
  <2>7. /\ staging[p].size \in Nat /\ Used \in Nat /\ Free \in Int
        /\ Reserve \in Nat /\ Quota \in Nat /\ ManifestSize \in Nat
    BY SizesTyped, VaultAssumption DEF IInv
  <2>8. Quota = 0 \/ Used' <= Quota + ManifestSize
    BY <2>3, <2>5, <2>6, <2>7
  <2>9. Free' + ManifestSize >= Reserve + snapshots'[r].size
    BY <2>2, <2>3, <2>6, <2>7
  <2>10. QED
    BY <2>8, <2>9
<1>2. QED
  BY LimitsHold, <1>1, PTL DEF PublishKeepsLimits, Spec
=============================================================================
