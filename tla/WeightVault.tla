---------------------------- MODULE WeightVault ----------------------------
(***************************************************************************)
(* The external weight vault (decillion/vault.py) and the mirror command   *)
(* that fills it (decillion/models.py): processes that initialize the      *)
(* vault directory, download snapshots of model revisions into private     *)
(* staging directories and publish each by one rename.                     *)
(*                                                                         *)
(* The processes share nothing but the directory and may stop anywhere.    *)
(* A snapshot is the size of its files in units of disk space and whether  *)
(* it holds its manifest, which takes space of its own.  Two mirrors of    *)
(* the same revision may download different files: --allow-pattern selects *)
(* them.                                                                   *)
(***************************************************************************)
EXTENDS Integers, FiniteSetsExt

CONSTANTS
    Processes,   \* running commands
    Revisions,   \* model revisions, each with its own snapshot path
    License,     \* the license the hub states for each revision
    Expected,    \* the licenses that callers of mirror require
    Lower,       \* str.strip().lower(), on the licenses
    Sizes,       \* sizes of downloads, as announced and as they turn out
    ManifestSize, \* size of a manifest
    Foreign,     \* sets of directories that the destination may hold before
    Disk,        \* capacity of the volume
    Quota,       \* quota_bytes; 0 stands for no quota
    Reserve,     \* reserve_bytes
    MaxMirrors   \* bound on mirror commands

ASSUME VaultAssumption ==
    /\ IsFiniteSet(Processes) /\ IsFiniteSet(Revisions)
    /\ Sizes \subseteq Nat /\ ManifestSize \in Nat
    /\ Foreign \subseteq SUBSET {"models", ".staging", ".locks"}
    /\ Disk \in Nat /\ Quota \in Nat /\ Reserve \in Nat
    /\ MaxMirrors \in Nat
    /\ \A r \in Revisions : License[r] \in DOMAIN Lower
    /\ Expected \subseteq DOMAIN Lower

Directories == <<"models", ".staging", ".locks">>

Making == {"models", ".staging", ".locks"}

NoSnapshot == [size |-> 0, manifest |-> FALSE]

VARIABLES
    marker,     \* the marker file with the configuration
    found,      \* the directories that initialize finds in its destination
    made,       \* the directories that there are
    snapshots,  \* published snapshots
    damaged,    \* revisions whose snapshot has changed on disk
    locks,      \* lock files, by revision
    staging,    \* the staging directory of each process
    litter,     \* space held by staging directories of stopped processes
    pc,         \* where each process is
    rev,        \* the revision each process mirrors
    want,       \* the size its download turns out to have
    told,       \* the snapshot whose manifest its record reports, or NoSnapshot
    mirrors,    \* mirror commands so far
    abandoned,  \* history: locks left by a process that has gone
    shared,     \* history: two mirrors were past their first check at once
    cut         \* history: a process was killed, or failed, making directories

vault == <<marker, found, made, snapshots, damaged>>
command == <<rev, want>>
history == <<mirrors, abandoned, shared, cut>>
vars == <<vault, locks, staging, litter, pc, command, told, history>>

Init ==
    /\ marker = FALSE
    /\ found \in Foreign
    /\ made = found
    /\ snapshots = [r \in Revisions |-> NoSnapshot]
    /\ damaged = {}
    /\ locks = {}
    /\ staging = [p \in Processes |-> NoSnapshot]
    /\ litter = 0
    /\ pc = [p \in Processes |-> "idle"]
    /\ rev \in [Processes -> Revisions]
    /\ want = [p \in Processes |-> 0]
    /\ told = [p \in Processes |-> NoSnapshot]
    /\ mirrors = 0
    /\ abandoned = {}
    /\ shared = FALSE
    /\ cut = FALSE

Exists(r) == snapshots[r].size > 0

Occupied(s) == s.size + (IF s.manifest THEN ManifestSize ELSE 0)

\* status: used counts every file under models, the manifests too; free is what
\* the volume has left.
Used == MapThenSumSet(LAMBDA r : Occupied(snapshots[r]), Revisions)

Staged == MapThenSumSet(LAMBDA p : Occupied(staging[p]), Processes)

Free == Disk - Used - Staged - litter

NoReserve(size) == Quota = 0 \/ Used + size <= Quota             \* faulty variant
RequireCapacity(size) ==
    /\ Quota = 0 \/ Used + size <= Quota
    /\ size + Reserve <= Free

\* verify: the manifest is there and lists the files as they are.
Verified(r) ==
    IF snapshots[r].manifest /\ r \notin damaged THEN snapshots[r] ELSE NoSnapshot

LicenseAliases ==
    [l \in {"mit", "apache-2.0", "apache 2.0"} |->
        IF l = "mit" THEN "mit" ELSE "apache-2.0"]

NormalizeLicense(value) ==
    IF Lower[value] \in DOMAIN LicenseAliases
    THEN LicenseAliases[Lower[value]] ELSE Lower[value]

RequireLicense(actual, expected) ==
    NormalizeLicense(actual) = NormalizeLicense(expected)

Goto(p, place) == pc' = [pc EXCEPT ![p] = place]

-----------------------------------------------------------------------------
(***************************************************************************)
(* initialize: the marker first, then the directories.  Where the marker   *)
(* exists it only opens the vault, whatever is missing.                    *)
(***************************************************************************)

BeginInitialize(p) ==
    /\ pc[p] = "idle"
    /\ ~marker
    /\ Goto(p, "marking")
    /\ UNCHANGED <<vault, locks, staging, litter, command, told, history>>

WriteMarker(p) ==
    /\ pc[p] = "marking"
    /\ marker' = TRUE
    /\ Goto(p, "models")
    /\ UNCHANGED <<found, made, snapshots, damaged, locks, staging, litter, command,
                   told, history>>

\* mkdir raises where the directory is there, be it made by another process or
\* found in the destination.
StopShort(p) ==                                                  \* faulty variant
    \E i \in 1..3 :
        /\ pc[p] = Directories[i]
        /\ made' = made \cup {Directories[i]}
        /\ Goto(p, IF Directories[i] \in made \/ i >= 2 THEN "idle" ELSE Directories[i + 1])
        /\ UNCHANGED <<marker, found, snapshots, damaged, locks, staging, litter,
                       command, told, history>>
MakeDirectory(p) ==
    \E i \in 1..3 :
        /\ pc[p] = Directories[i]
        /\ made' = made \cup {Directories[i]}
        /\ Goto(p, IF Directories[i] \in made \/ i = 3 THEN "idle" ELSE Directories[i + 1])
        /\ UNCHANGED <<marker, found, snapshots, damaged, locks, staging, litter,
                       command, told, history>>

\* Writing the marker or making a directory fails otherwise: OSError.
FailInitialize(p) ==
    /\ pc[p] \in {"marking"} \cup Making
    /\ Goto(p, "idle")
    /\ cut' = (cut \/ pc[p] \in Making)
    /\ UNCHANGED <<vault, locks, staging, litter, command, told, mirrors, abandoned,
                   shared>>

-----------------------------------------------------------------------------
(***************************************************************************)
(* mirror.                                                                 *)
(***************************************************************************)

InSlot == {"slotted", "downloading", "committing", "renaming", "cleaning", "unlocking"}

Mirroring == {"checked", "locking"} \cup InSlot

\* The license gate, open, and the capacity check for the announced size.
\* Without --include-weights only the gate runs, which changes nothing.
BeginMirror(p, r, expected, announced, actual) ==
    /\ pc[p] = "idle"
    /\ marker
    /\ mirrors < MaxMirrors
    /\ RequireLicense(License[r], expected)
    /\ mirrors' = mirrors + 1
    /\ rev' = [rev EXCEPT ![p] = r]
    /\ want' = [want EXCEPT ![p] = actual]
    /\ told' = [told EXCEPT ![p] = NoSnapshot]
    /\ Goto(p, IF RequireCapacity(announced) THEN "checked" ELSE "idle")
    /\ shared' = (shared \/ (RequireCapacity(announced)
                              /\ \E q \in Processes : pc[q] \in Mirroring))
    /\ UNCHANGED <<vault, locks, staging, litter, abandoned, cut>>

\* A snapshot that exists is verified, and its own manifest reported.
FindTarget(p) ==
    /\ pc[p] = "checked"
    /\ told' = IF Exists(rev[p]) THEN [told EXCEPT ![p] = Verified(rev[p])] ELSE told
    /\ Goto(p, IF Exists(rev[p]) THEN "idle" ELSE "locking")
    /\ UNCHANGED <<vault, locks, staging, litter, command, history>>

\* download_slot: O_CREAT|O_EXCL on the lock file.
LockAlways(p) ==                                                 \* faulty variant
    /\ pc[p] = "locking"
    /\ locks' = locks \cup {rev[p]}
    /\ Goto(p, "slotted")
    /\ UNCHANGED <<vault, staging, litter, command, told, history>>
TakeLock(p) ==
    /\ pc[p] = "locking"
    /\ ".locks" \in made
    /\ rev[p] \notin locks
    /\ locks' = locks \cup {rev[p]}
    /\ Goto(p, "slotted")
    /\ UNCHANGED <<vault, staging, litter, command, told, history>>

\* The lock exists, or the directory for it does not.
MissLock(p) ==
    /\ pc[p] = "locking"
    /\ ".locks" \notin made \/ rev[p] \in locks
    /\ Goto(p, "idle")
    /\ UNCHANGED <<vault, locks, staging, litter, command, told, history>>

\* mkdtemp runs before the try block: when it fails the lock stays.
MakeStaging(p) ==
    /\ pc[p] = "slotted"
    /\ \/ ".staging" \in made /\ Goto(p, "downloading") /\ UNCHANGED abandoned
       \/ Goto(p, "idle") /\ abandoned' = abandoned \cup {rev[p]}
    /\ UNCHANGED <<vault, locks, staging, litter, command, told, mirrors, shared, cut>>

\* snapshot_download fills the staging directory.
Download(p) ==
    /\ pc[p] = "downloading"
    /\ staging[p].size < want[p]
    /\ Free > 0
    /\ staging' = [staging EXCEPT ![p].size = @ + 1]
    /\ UNCHANGED <<vault, locks, litter, pc, command, told, history>>

\* commit_snapshot, first part: where the target exists by now it is verified
\* instead; nothing downloaded is an error; and the size on disk is checked
\* like a download to come.
CommitUnfinished(p) ==                                           \* faulty variant
    /\ pc[p] = "downloading"
    /\ told' = told
    /\ Goto(p, IF ~Exists(rev[p]) /\ staging[p].size > 0 /\ RequireCapacity(staging[p].size)
               THEN "committing" ELSE "cleaning")
    /\ UNCHANGED <<vault, locks, staging, litter, command, history>>
ReportOwn(p) ==                                                  \* faulty variant
    /\ pc[p] = "downloading"
    /\ staging[p].size = want[p]
    /\ told' = IF Exists(rev[p])
               THEN [told EXCEPT ![p] = [size |-> want[p], manifest |-> TRUE]] ELSE told
    /\ Goto(p, IF ~Exists(rev[p]) /\ staging[p].size > 0 /\ RequireCapacity(staging[p].size)
               THEN "committing" ELSE "cleaning")
    /\ UNCHANGED <<vault, locks, staging, litter, command, history>>
CheckCommit(p) ==
    /\ pc[p] = "downloading"
    /\ staging[p].size = want[p]
    /\ told' = IF Exists(rev[p]) THEN [told EXCEPT ![p] = Verified(rev[p])] ELSE told
    /\ Goto(p, IF ~Exists(rev[p]) /\ staging[p].size > 0 /\ RequireCapacity(staging[p].size)
               THEN "committing" ELSE "cleaning")
    /\ UNCHANGED <<vault, locks, staging, litter, command, history>>

\* The manifest goes into the staging directory, unchecked.
WriteManifest(p) ==
    /\ pc[p] = "committing"
    /\ ManifestSize <= Free
    /\ staging' = [staging EXCEPT ![p].manifest = TRUE]
    /\ Goto(p, "renaming")
    /\ UNCHANGED <<vault, locks, litter, command, told, history>>

\* mkdir of the target's parents.
MakeParents(p) ==
    /\ pc[p] = "renaming"
    /\ "models" \notin made
    /\ made' = made \cup {"models"}
    /\ UNCHANGED <<marker, found, snapshots, damaged, locks, staging, litter, pc, command,
                   told, history>>

\* os.replace of the staging directory; it fails on a target that is there.
Rename(p) ==
    /\ pc[p] = "renaming"
    /\ "models" \in made
    /\ ~Exists(rev[p])
    /\ snapshots' = [snapshots EXCEPT ![rev[p]] = staging[p]]
    /\ staging' = [staging EXCEPT ![p] = NoSnapshot]
    /\ told' = [told EXCEPT ![p] = staging[p]]
    /\ Goto(p, "cleaning")
    /\ UNCHANGED <<marker, found, made, damaged, locks, litter, command, history>>

\* An exception anywhere inside the slot.
FailInSlot(p) ==
    /\ pc[p] \in {"downloading", "committing", "renaming"}
    /\ Goto(p, "cleaning")
    /\ UNCHANGED <<vault, locks, staging, litter, command, told, history>>

\* The finally block: rmtree of the staging directory, then unlink of the lock.
RemoveStaging(p) ==
    /\ pc[p] = "cleaning"
    /\ staging' = [staging EXCEPT ![p] = NoSnapshot]
    /\ Goto(p, "unlocking")
    /\ UNCHANGED <<vault, locks, litter, command, told, history>>

Unlock(p) ==
    /\ pc[p] = "unlocking"
    /\ locks' = locks \ {rev[p]}
    /\ Goto(p, "idle")
    /\ UNCHANGED <<vault, staging, litter, command, told, history>>

-----------------------------------------------------------------------------
\* The process is killed: its files stay as they are and it reports nothing.
Kill(p) ==
    /\ pc[p] # "idle"
    /\ Goto(p, "idle")
    /\ litter' = litter + Occupied(staging[p])
    /\ staging' = [staging EXCEPT ![p] = NoSnapshot]
    /\ told' = [told EXCEPT ![p] = NoSnapshot]
    /\ abandoned' = IF pc[p] \in InSlot THEN abandoned \cup {rev[p]} ELSE abandoned
    /\ cut' = (cut \/ pc[p] \in Making)
    /\ UNCHANGED <<vault, locks, command, mirrors, shared>>

\* A file of a snapshot changes on disk, or its manifest goes.
Damage(r) ==
    /\ Exists(r)
    /\ r \notin damaged
    /\ damaged' = damaged \cup {r}
    /\ UNCHANGED <<marker, found, made, snapshots, locks, staging, litter, pc, command,
                   told, history>>

Next ==
    \/ \E p \in Processes :
        \/ BeginInitialize(p) \/ WriteMarker(p) \/ MakeDirectory(p)
        \/ FailInitialize(p)
        \/ \E r \in Revisions, expected \in Expected, announced, actual \in Sizes :
               BeginMirror(p, r, expected, announced, actual)
        \/ FindTarget(p)
        \/ TakeLock(p) \/ MissLock(p) \/ MakeStaging(p) \/ Download(p)
        \/ CheckCommit(p) \/ WriteManifest(p) \/ MakeParents(p) \/ Rename(p)
        \/ FailInSlot(p)
        \/ RemoveStaging(p) \/ Unlock(p)
        \/ Kill(p)
    \/ \E r \in Revisions : Damage(r)

Spec == Init /\ [][Next]_vars

-----------------------------------------------------------------------------
(***************************************************************************)
(* Properties.                                                             *)
(***************************************************************************)

Initializing == {"marking"} \cup Making

\* Types; the vault never takes more space than the volume has.
TypeOK ==
    /\ marker \in BOOLEAN
    /\ found \subseteq Making /\ made \subseteq Making
    /\ snapshots \in [Revisions -> [size : Nat, manifest : BOOLEAN]]
    /\ damaged \subseteq Revisions
    /\ locks \subseteq Revisions
    /\ staging \in [Processes -> [size : Nat, manifest : BOOLEAN]]
    /\ litter \in Nat
    /\ Free \in 0..Disk
    /\ pc \in [Processes -> {"idle"} \cup Initializing \cup Mirroring]
    /\ rev \in [Processes -> Revisions]
    /\ want \in [Processes -> Sizes \cup {0}]
    /\ told \in [Processes -> [size : Nat, manifest : BOOLEAN]]
    /\ mirrors \in 0..MaxMirrors
    /\ abandoned \subseteq Revisions
    /\ shared \in BOOLEAN /\ cut \in BOOLEAN

\* Through failures and kills, at most one process works in the slot of a
\* revision, and a lock file belongs to that process or to one that was killed
\* in its slot or could not make its staging directory; other failures
\* release it.
SlotsExclusive ==
    /\ \A p, q \in Processes :
         pc[p] \in InSlot /\ pc[q] \in InSlot /\ rev[p] = rev[q] => p = q
    /\ \A r \in locks :
         r \in abandoned \/ \E p \in Processes : pc[p] \in InSlot /\ rev[p] = r

\* A vault that has its marker while nobody initializes it has every directory
\* up to the first one that initialize found in its destination, and all of them
\* if it found none, however many processes raced to initialize it, unless one
\* of them was killed or failed in between: initialize does not repair that.
CompleteUnlessCut ==
    marker /\ ~cut /\ (\A p \in Processes : pc[p] \notin Initializing) =>
        \A i \in 1..3 :
            Directories[i] \in made \/ \E j \in 1..(i - 1) : Directories[j] \in found

\* A snapshot becomes visible complete, with its manifest and under a license
\* that some caller required, and never changes.
SnapshotsWholeAndFixed ==
    [][\A r \in Revisions : snapshots'[r] # snapshots[r] =>
        /\ ~Exists(r)
        /\ \E expected \in Expected : RequireLicense(License[r], expected)
        /\ \E p \in Processes :
             /\ pc[p] = "renaming" /\ rev[p] = r
             /\ snapshots'[r] = [size |-> want[p], manifest |-> TRUE]]_vars

\* As long as mirrors run one after the other, what is published exceeds the
\* quota by its manifest at most, and leaves free what the reserve and the files
\* published together ask for, up to the manifest, also beside the litter of
\* killed processes.
PublishKeepsLimits ==
    [][\A r \in Revisions : snapshots'[r] # snapshots[r] /\ ~shared =>
        /\ Quota = 0 \/ Used' <= Quota + ManifestSize
        /\ Free' + ManifestSize >= Reserve + snapshots'[r].size]_vars

\* What a mirror reports as verified is what the vault holds for the revision,
\* intact at that moment, also when another process published the revision
\* with other files while this one downloaded.
ReportsTrue ==
    [][\A p \in Processes : told'[p] # told[p] /\ told'[p] # NoSnapshot =>
        /\ told'[p] = snapshots'[rev'[p]]
        /\ rev'[p] \notin damaged]_vars

=============================================================================
