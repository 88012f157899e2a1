-------------------------- MODULE SovereignStorage --------------------------
(***************************************************************************)
(* The Decillion object gateway (decillion/api.py, engine.py, objects.py,  *)
(* catalog.py, receipts.py, keys.py): API workers share a data directory   *)
(* with a receipt-signing key, a store of encrypted objects and a SQLite   *)
(* catalog of signed receipts.                                             *)
(*                                                                         *)
(* The first request of a worker loads the signing key or creates it.  An  *)
(* upload writes the object, signs a receipt and then, as a separate step, *)
(* adds it to the catalog; a worker may fail or stop in between.  Reading  *)
(* changes nothing: download and receipt_root are operators on the state.  *)
(*                                                                         *)
(* Each upload draws a data key and a nonce, so its object id is fresh:    *)
(* the number of the upload.  What an object or a wrapped key is bound to  *)
(* by its encryption context is the owner and name of that upload.         *)
(* Temporary files are left out: no operation reads them.                  *)
(***************************************************************************)
EXTENDS Integers, SequencesExt, MerkleTree

CONSTANTS
    Workers,      \* API workers: processes, or threads racing in _services
    Tokens,       \* bearer tokens clients may send
    Configured,   \* DECILLION_API_PRINCIPALS: owner ids, by token
    Development,  \* DECILLION_ENV is "development"
    Names,        \* file names
    MaxListed,    \* most receipts that list_owner returns: 1000 in the code
    MaxUploads,   \* bound on uploads
    MaxKeys,      \* bound on signing keys ever generated
    MaxMasters,   \* bound on master keys the operator configures
    RequireAttestation  \* DECILLION_REQUIRE_ATTESTATION

Ids == 1..MaxUploads
Keys == 1..MaxKeys
Masters == 1..MaxMasters

None == 0

NoToken == "no bearer token"

\* _principals: the development token is added unless it is configured.
Principals ==
    [t \in DOMAIN Configured \cup (IF Development THEN {"development-token"} ELSE {}) |->
        IF t \in DOMAIN Configured THEN Configured[t] ELSE "development-owner"]

Owners == Range(Principals)

ASSUME StorageAssumption ==
    /\ DOMAIN Configured \subseteq Tokens \ {NoToken}
    /\ MaxListed \in Nat \ {0}
    /\ MaxUploads \in Nat /\ MaxKeys \in Nat /\ MaxMasters \in Nat \ {0}
    /\ RequireAttestation \in BOOLEAN

Receipts ==
    [id : Ids, owner : Owners, name : Names, created : Nat, signedBy : Keys,
     wrappedBy : Masters]

NoReceipt == [id |-> None]

VARIABLES
    keyFile,    \* receipt-signing.key, or None
    generated,  \* signing keys generated so far
    master,     \* DECILLION_MASTER_KEY of workers that start now
    objects,    \* the object store: the ids whose object is intact
    damaged,    \* ids of objects whose bytes changed on disk
    lost,       \* ids of objects whose file is gone
    catalog,    \* the receipts in the catalog
    pc,         \* where each worker is
    signer,     \* the signing key each worker has, or generated
    masterOf,   \* the master key each worker started with
    work,       \* the receipt each worker has signed and not yet added
    uploads,    \* uploads so far
    clock,      \* created_at of the latest upload
    returned,   \* history: receipts sent to clients
    broken      \* history: uploads that failed or were cut off

service == <<pc, signer, masterOf>>
disk == <<keyFile, objects, damaged, lost, catalog>>
vars == <<disk, generated, master, service, work, uploads, clock, returned, broken>>

Init ==
    /\ keyFile = None
    /\ generated = 0
    /\ master = 1
    /\ objects = {}
    /\ damaged = {}
    /\ lost = {}
    /\ catalog = {}
    /\ pc = [w \in Workers |-> "down"]
    /\ signer = [w \in Workers |-> None]
    /\ masterOf = [w \in Workers |-> None]
    /\ work = [w \in Workers |-> NoReceipt]
    /\ uploads = 0
    /\ clock = 0
    /\ returned = {}
    /\ broken = {}

-----------------------------------------------------------------------------
(***************************************************************************)
(* _services: ReceiptSigner.load_or_create.                                *)
(***************************************************************************)

LoadKey(w) ==
    /\ pc[w] = "down"
    /\ keyFile # None
    /\ signer' = [signer EXCEPT ![w] = keyFile]
    /\ masterOf' = [masterOf EXCEPT ![w] = master]
    /\ pc' = [pc EXCEPT ![w] = "up"]
    /\ UNCHANGED <<disk, generated, master, work, uploads, clock, returned, broken>>

GenerateKey(w) ==
    /\ pc[w] = "down"
    /\ keyFile = None
    /\ generated < MaxKeys
    /\ generated' = generated + 1
    /\ signer' = [signer EXCEPT ![w] = generated + 1]
    /\ masterOf' = [masterOf EXCEPT ![w] = master]
    /\ pc' = [pc EXCEPT ![w] = "linking"]
    /\ UNCHANGED <<disk, master, work, uploads, clock, returned, broken>>

\* os.link does not overwrite: whoever comes second takes the key that is there.
ReplaceKey(w) ==                                                 \* faulty variant
    /\ pc[w] = "linking"
    /\ keyFile' = signer[w]
    /\ signer' = signer
    /\ pc' = [pc EXCEPT ![w] = "up"]
    /\ UNCHANGED <<generated, master, masterOf, objects, damaged, lost, catalog, work,
                   uploads, clock, returned, broken>>
LinkKey(w) ==
    /\ pc[w] = "linking"
    /\ keyFile' = IF keyFile = None THEN signer[w] ELSE keyFile
    /\ signer' = [signer EXCEPT ![w] = keyFile']
    /\ pc' = [pc EXCEPT ![w] = "up"]
    /\ UNCHANGED <<generated, master, masterOf, objects, damaged, lost, catalog, work,
                   uploads, clock, returned, broken>>

-----------------------------------------------------------------------------
(***************************************************************************)
(* upload.                                                                 *)
(***************************************************************************)

\* put: a temporary file renamed, so the object is there whole or not at all.
StoreObject(id) == objects' = objects \cup {id}

\* authorize: the owner whose token the request bears.
Authorize(token) == IF token \in DOMAIN Principals THEN {Principals[token]} ELSE {}

\* Encrypt, wrap the data key, put the object, date the receipt and sign it.
\* Two workers may read the clock in the same microsecond.
PutObject(w, owner, name) ==
    /\ pc[w] = "up"
    /\ uploads < MaxUploads
    /\ uploads' = uploads + 1
    /\ clock' \in {clock, clock + 1}
    /\ StoreObject(uploads + 1)
    /\ work' = [work EXCEPT ![w] =
         [id |-> uploads + 1, owner |-> owner, name |-> name,
          created |-> clock', signedBy |-> signer[w], wrappedBy |-> masterOf[w]]]
    /\ pc' = [pc EXCEPT ![w] = "cataloging"]
    /\ UNCHANGED <<keyFile, damaged, lost, catalog, generated, master, signer, masterOf,
                   returned, broken>>

\* catalog.add and the response, which the client may not get.
AddUnwritten(w) ==                                               \* faulty variant
    /\ pc[w] = "cataloging"
    /\ catalog' = catalog
    /\ returned' \in {returned, returned \cup {work[w]}}
    /\ work' = [work EXCEPT ![w] = NoReceipt]
    /\ pc' = [pc EXCEPT ![w] = "up"]
    /\ UNCHANGED <<keyFile, objects, damaged, lost, generated, master, signer, masterOf,
                   uploads, clock, broken>>
AddReceipt(w) ==
    /\ pc[w] = "cataloging"
    /\ catalog' = catalog \cup {work[w]}
    /\ returned' \in {returned, returned \cup {work[w]}}
    /\ work' = [work EXCEPT ![w] = NoReceipt]
    /\ pc' = [pc EXCEPT ![w] = "up"]
    /\ UNCHANGED <<keyFile, objects, damaged, lost, generated, master, signer, masterOf,
                   uploads, clock, broken>>

\* The catalog cannot be written: an error response, and the object stays.
FailAdd(w) ==
    /\ pc[w] = "cataloging"
    /\ broken' = broken \cup {work[w].id}
    /\ work' = [work EXCEPT ![w] = NoReceipt]
    /\ pc' = [pc EXCEPT ![w] = "up"]
    /\ UNCHANGED <<disk, generated, master, signer, masterOf, uploads, clock, returned>>

\* The worker stops; at its next request it loads its services anew.
Crash(w) ==
    /\ pc[w] # "down"
    /\ broken' = IF work[w] = NoReceipt THEN broken ELSE broken \cup {work[w].id}
    /\ work' = [work EXCEPT ![w] = NoReceipt]
    /\ pc' = [pc EXCEPT ![w] = "down"]
    /\ signer' = [signer EXCEPT ![w] = None]
    /\ masterOf' = [masterOf EXCEPT ![w] = None]
    /\ UNCHANGED <<disk, generated, master, uploads, clock, returned>>

-----------------------------------------------------------------------------
(***************************************************************************)
(* The environment: the operator changes the master key, the disk fails.   *)
(***************************************************************************)

Rekey ==
    /\ master < MaxMasters
    /\ master' = master + 1
    /\ UNCHANGED <<disk, generated, service, work, uploads, clock, returned, broken>>

Damage(id) ==
    /\ id \in objects
    /\ objects' = objects \ {id}
    /\ \/ damaged' = damaged \cup {id} /\ lost' = lost
       \/ lost' = lost \cup {id} /\ damaged' = damaged
    /\ UNCHANGED <<keyFile, catalog, generated, master, service, work, uploads, clock,
                   returned, broken>>

Next ==
    \/ \E w \in Workers :
        \/ LoadKey(w) \/ GenerateKey(w) \/ LinkKey(w)
        \/ \E token \in Tokens, name \in Names :
               \E owner \in Authorize(token) : PutObject(w, owner, name)
        \/ AddReceipt(w) \/ FailAdd(w) \/ Crash(w)
    \/ Rekey
    \/ \E id \in Ids : Damage(id)

Spec == Init /\ [][Next]_vars

-----------------------------------------------------------------------------
(***************************************************************************)
(* download: the checks in the order the code makes them, and the status   *)
(* of the response.  A key that does not unwrap and a missing file are     *)
(* errors the handler does not catch.                                      *)
(***************************************************************************)

\* catalog.get: the primary key is the object id.
Lookup(id) == {r \in catalog : r.id = id}

\* verify_receipt against the worker's own key.
Verifies(w, r) == r.signedBy = signer[w]

\* unwrap: attestation first, then decryption under the worker's master key.
Unwrap(w, r, attested) ==
    IF RequireAttestation /\ ~attested THEN "403"
    ELSE IF r.wrappedBy # masterOf[w] THEN "500"
    ELSE "200"

AnyName(w, r, owner, name, attested) ==                          \* faulty variant
    IF ~Verifies(w, r) THEN "409"
    ELSE IF r.owner # owner THEN "403"
    ELSE IF r.id \in lost THEN "500"
    ELSE IF r.id \in damaged THEN "409"
    ELSE Unwrap(w, r, attested)
EngineDownload(w, r, owner, name, attested) ==
    IF ~Verifies(w, r) THEN "409"
    ELSE IF r.owner # owner \/ r.name # name THEN "403"
    ELSE IF r.id \in lost THEN "500"
    ELSE IF r.id \in damaged THEN "409"
    ELSE Unwrap(w, r, attested)

\* The statuses that worker w may answer with.
Download(w, id, token, name, attested) ==
    IF token = NoToken THEN {"401"}
    ELSE IF Authorize(token) = {} THEN {"403"}
    ELSE IF Lookup(id) = {} THEN {"404"}
    ELSE {EngineDownload(w, r, owner, name, attested) :
            r \in Lookup(id), owner \in Authorize(token)}

-----------------------------------------------------------------------------
(***************************************************************************)
(* receipt_root: the Merkle root of the owner's latest receipts.           *)
(***************************************************************************)

Clamp(limit) == Min({Max({limit, 1}), MaxListed})

\* list_owner, newest first: every order of receipts of one microsecond.
OldestFirst(owner, limit) ==                                     \* faulty variant
    {SubSeq(s, 1, Min({Len(s), Clamp(limit)})) :
        s \in {s \in SetToSeqs({r \in catalog : r.owner = owner}) :
               \A i, j \in 1..Len(s) : i < j => s[i].created <= s[j].created}}
ListOwner(owner, limit) ==
    {SubSeq(s, 1, Min({Len(s), Clamp(limit)})) :
        s \in {s \in SetToSeqs({r \in catalog : r.owner = owner}) :
               \A i, j \in 1..Len(s) : i < j => s[i].created >= s[j].created}}

\* The answers receipt_root may give.
ReceiptRoot(owner, limit) ==
    {[count |-> Len(s), root |-> MerkleRoot(s)] : s \in ListOwner(owner, limit)}

-----------------------------------------------------------------------------
(***************************************************************************)
(* Properties.                                                             *)
(***************************************************************************)

\* Types; a worker works on a receipt only between object and catalog, and
\* the catalog has one receipt for an object.
TypeOK ==
    /\ keyFile \in Keys \cup {None}
    /\ generated \in 0..MaxKeys
    /\ master \in Masters
    /\ objects \subseteq Ids /\ damaged \subseteq Ids /\ lost \subseteq Ids
    /\ catalog \subseteq Receipts
    /\ \A r, s \in catalog : r.id = s.id => r = s
    /\ pc \in [Workers -> {"down", "linking", "up", "cataloging"}]
    /\ signer \in [Workers -> Keys \cup {None}]
    /\ masterOf \in [Workers -> Masters \cup {None}]
    /\ work \in [Workers -> Receipts \cup {NoReceipt}]
    /\ \A w \in Workers : work[w] # NoReceipt <=> pc[w] = "cataloging"
    /\ uploads \in 0..MaxUploads
    /\ clock \in 0..uploads
    /\ returned \subseteq Receipts
    /\ broken \subseteq Ids

\* However many workers start on an empty directory at once, crash and start
\* again: all that serve have the same signing key, the one in the file, and
\* it signed every receipt that is in the catalog or was ever sent.
OneSigner ==
    /\ \A w \in Workers : pc[w] \in {"up", "cataloging"} => signer[w] = keyFile
    /\ \A r \in catalog \cup returned : r.signedBy = keyFile

\* A receipt that was sent to a client is honoured by every worker: the owner
\* gets the object under its name, by any of its tokens, and nobody gets it
\* otherwise, unless the disk or the master key has changed since.
ReturnedReadable ==
    \A r \in returned, w \in Workers, token \in Tokens, name \in Names,
        attested \in BOOLEAN :
        pc[w] = "up" =>
            LET statuses == Download(w, r.id, token, name, attested) IN
            /\ "404" \notin statuses
            /\ "200" \in statuses <=>
                 /\ token \in DOMAIN Principals /\ Principals[token] = r.owner
                 /\ name = r.name
                 /\ r.id \in objects
                 /\ r.wrappedBy = masterOf[w]
                 /\ RequireAttestation => attested

\* An object without a receipt in the catalog is being uploaded or belongs to
\* an upload that failed; a receipt without its object, to a broken disk.
OrphansOnlyByFailure ==
    /\ \A id \in objects : Lookup(id) = {} =>
         id \in broken \/ \E w \in Workers : work[w] # NoReceipt /\ work[w].id = id
    /\ \A r \in catalog : r.id \in objects \cup damaged \cup lost

\* A client who watches receipt_root sees every receipt its owner gains and
\* nothing else: the answer changes when a receipt is added, also after
\* receipts dated later and also at the limit, unless the list is already
\* full of receipts dated no earlier.
RootTracksReceipts ==
    [][\A owner \in Owners, limit \in 0..MaxUploads :
        LET added == {r \in catalog' \ catalog : r.owner = owner}
            before == ReceiptRoot(owner, limit)
            after == ReceiptRoot(owner, limit)'
        IN /\ added = {} => after = before
           /\ \A r \in added :
                \/ before \cap after = {}
                \/ Cardinality({s \in catalog : s.owner = owner /\ s.created >= r.created})
                     >= Clamp(limit)]_vars

=============================================================================
