----------------------- MODULE SovereignStorageProofs -----------------------
(***************************************************************************)
(* Proofs about SovereignStorage, for any workers, principals, names and   *)
(* numbers of uploads, signing keys and master keys, and about the Merkle  *)
(* trees of MerkleProof, for any leaves: what receipt_root and the root in *)
(* a manifest tell of the list they are the root of.                       *)
(***************************************************************************)
EXTENDS SovereignStorage, MerkleProof, FiniteSetTheorems, WellFoundedInduction,
        TLAPS

\* A worker that is not down has a signing key and a master key; what is signed
\* and not yet added is signed with the key in the file.
Signing ==
    /\ OneSigner
    /\ \A w \in Workers : pc[w] # "down" => signer[w] \in Keys
    /\ \A w \in Workers : work[w] # NoReceipt => work[w].signedBy = keyFile
    /\ \A w \in Workers : pc[w] # "down" => masterOf[w] \in Masters

\* Object ids are not used twice: every receipt being added is for an upload
\* that neither the catalog nor another worker knows.
Numbered ==
    /\ \A r \in catalog : r.id <= uploads
    /\ \A w \in Workers : work[w] # NoReceipt =>
         /\ work[w].id <= uploads
         /\ \A r \in catalog : r.id # work[w].id
         /\ \A v \in Workers \ {w} : work[v].id # work[w].id
    /\ returned \subseteq catalog

\* The object of every upload is intact, damaged or lost, and just one of these.
Placed ==
    /\ objects \cup damaged \cup lost = 1..uploads
    /\ objects \cap damaged = {} /\ objects \cap lost = {} /\ damaged \cap lost = {}

IInv == TypeOK /\ Signing /\ Numbered /\ Placed /\ OrphansOnlyByFailure

-----------------------------------------------------------------------------
LEMMA InitIInv == Init => IInv
<1> SUFFICES ASSUME Init PROVE IInv
  OBVIOUS
<1> USE StorageAssumption
<1>1. TypeOK
  BY DEF Init, TypeOK, Keys, Masters, None, NoReceipt
<1>2. Signing
  BY DEF Init, Signing, OneSigner
<1>3. Numbered
  BY DEF Init, Numbered
<1>4. Placed
  BY DEF Init, Placed
<1>5. OrphansOnlyByFailure
  BY DEF Init, OrphansOnlyByFailure
<1>6. QED
  BY <1>1, <1>2, <1>3, <1>4, <1>5 DEF IInv

\* What a worker signs is a receipt, for any owner that authorize may return.
LEMMA Signed ==
  ASSUME IInv, NEW w \in Workers, NEW token \in Tokens, NEW owner \in Authorize(token),
         NEW name \in Names, PutObject(w, owner, name)
  PROVE  /\ work'[w] \in Receipts
         /\ work'[w].id = uploads + 1
         /\ work'[w].signedBy = keyFile
         /\ work'[w] # NoReceipt
<1> USE StorageAssumption DEF IInv
<1>1. owner \in Owners
  BY DEF Authorize, Owners, Range
<1>2. signer[w] = keyFile /\ signer[w] \in Keys
  BY DEF PutObject, Signing, OneSigner, TypeOK
<1>3. masterOf[w] \in Masters
  BY DEF PutObject, Signing
<1>4. uploads + 1 \in Ids /\ clock' \in Nat
  BY DEF PutObject, TypeOK, Ids
<1>5. work'[w] = [id |-> uploads + 1, owner |-> owner, name |-> name,
                  created |-> clock', signedBy |-> signer[w], wrappedBy |-> masterOf[w]]
  BY DEF PutObject, TypeOK
<1>6. work'[w] \in Receipts
  BY <1>1, <1>2, <1>3, <1>4, <1>5 DEF Receipts
<1>7. work'[w].id # None
  BY <1>4, <1>5 DEF None, Ids
<1>8. QED
  BY <1>2, <1>5, <1>6, <1>7 DEF NoReceipt

LEMMA NextTypeOK == IInv /\ [Next]_vars => TypeOK'
<1> SUFFICES ASSUME IInv, [Next]_vars PROVE TypeOK'
  OBVIOUS
<1> USE StorageAssumption DEF IInv, disk, service
<1>1. ASSUME NEW w \in Workers, LoadKey(w) PROVE TypeOK'
  BY <1>1 DEF LoadKey, TypeOK
<1>2. ASSUME NEW w \in Workers, GenerateKey(w) PROVE TypeOK'
  BY <1>2 DEF GenerateKey, TypeOK, Keys
<1>3. ASSUME NEW w \in Workers, LinkKey(w) PROVE TypeOK'
  BY <1>3 DEF LinkKey, TypeOK, Signing
<1>4. ASSUME NEW w \in Workers, NEW token \in Tokens, NEW owner \in Authorize(token),
             NEW name \in Names, PutObject(w, owner, name)
      PROVE  TypeOK'
  <2>1. work'[w] \in Receipts /\ work'[w] # NoReceipt
    BY <1>4, Signed
  <2>2. /\ \A v \in Workers \ {w} : work'[v] = work[v]
        /\ DOMAIN work' = Workers
    BY <1>4 DEF PutObject, TypeOK
  <2>3. work' \in [Workers -> Receipts \cup {NoReceipt}]
    BY <1>4, <2>1, <2>2 DEF PutObject, TypeOK
  <2>4. \A v \in Workers : work'[v] # NoReceipt <=> pc'[v] = "cataloging"
    BY <1>4, <2>1, <2>2 DEF PutObject, TypeOK
  <2>5. objects' \subseteq Ids /\ uploads' \in 0..MaxUploads /\ clock' \in 0..uploads'
    BY <1>4 DEF PutObject, StoreObject, TypeOK, Ids
  <2>6. QED
    BY <1>4, <2>3, <2>4, <2>5 DEF PutObject, TypeOK
<1>5. ASSUME NEW w \in Workers, AddReceipt(w) PROVE TypeOK'
  <2>1. work[w] \in Receipts /\ work[w] # NoReceipt
    BY <1>5 DEF AddReceipt, TypeOK
  <2>2. \A r \in catalog : r.id # work[w].id
    BY <2>1 DEF Numbered
  <2>3. \A r, s \in catalog' : r.id = s.id => r = s
    BY <1>5, <2>2 DEF AddReceipt, TypeOK
  <2>4. catalog' \subseteq Receipts /\ returned' \subseteq Receipts
    BY <1>5, <2>1 DEF AddReceipt, TypeOK
  <2>5. QED
    BY <1>5, <2>3, <2>4 DEF AddReceipt, TypeOK
<1>6. ASSUME NEW w \in Workers, FailAdd(w) PROVE TypeOK'
  <2>1. work[w].id \in Ids
    BY <1>6 DEF FailAdd, TypeOK, Receipts
  <2>2. QED
    BY <1>6, <2>1 DEF FailAdd, TypeOK
<1>7. ASSUME NEW w \in Workers, Crash(w) PROVE TypeOK'
  <2>1. work[w] # NoReceipt => work[w].id \in Ids
    BY <1>7 DEF Crash, TypeOK, Receipts
  <2>2. QED
    BY <1>7, <2>1 DEF Crash, TypeOK
<1>8. CASE Rekey
  BY <1>8 DEF Rekey, TypeOK, Masters
<1>9. ASSUME NEW id \in Ids, Damage(id) PROVE TypeOK'
  BY <1>9 DEF Damage, TypeOK
<1>10. CASE UNCHANGED vars
  BY <1>10 DEF vars, TypeOK
<1>11. QED
  BY <1>1, <1>2, <1>3, <1>4, <1>5, <1>6, <1>7, <1>8, <1>9, <1>10 DEF Next

\* The first link makes the key of its worker the key of all: nothing was
\* signed before, since a worker serves only with the key in the file.
LEMMA NextSigning == IInv /\ [Next]_vars => Signing'
<1> SUFFICES ASSUME IInv, [Next]_vars PROVE Signing'
  OBVIOUS
<1> USE StorageAssumption DEF IInv, disk, service
<1>1. ASSUME NEW w \in Workers, LoadKey(w) PROVE Signing'
  BY <1>1 DEF LoadKey, TypeOK, Signing, OneSigner
<1>2. ASSUME NEW w \in Workers, GenerateKey(w) PROVE Signing'
  BY <1>2 DEF GenerateKey, TypeOK, Keys, Signing, OneSigner
<1>3. ASSUME NEW w \in Workers, LinkKey(w) PROVE Signing'
  <2>1. CASE keyFile = None
    <3>1. \A v \in Workers : pc[v] \in {"down", "linking"} /\ work[v] = NoReceipt
      BY <2>1 DEF TypeOK, Signing, OneSigner, None, Keys
    <3>2. catalog = {} /\ returned = {}
      BY <2>1 DEF TypeOK, Signing, OneSigner, None, Keys, Receipts
    <3>3. QED
      BY <1>3, <2>1, <3>1, <3>2 DEF LinkKey, TypeOK, Signing, OneSigner
  <2>2. CASE keyFile # None
    BY <1>3, <2>2 DEF LinkKey, TypeOK, Signing, OneSigner
  <2>3. QED
    BY <2>1, <2>2
<1>4. ASSUME NEW w \in Workers, NEW token \in Tokens, NEW owner \in Authorize(token),
             NEW name \in Names, PutObject(w, owner, name)
      PROVE  Signing'
  <2>1. work'[w].signedBy = keyFile
    BY <1>4, Signed
  <2>2. \A v \in Workers \ {w} : work'[v] = work[v]
    BY <1>4 DEF PutObject, TypeOK
  <2>3. QED
    BY <1>4, <2>1, <2>2 DEF PutObject, TypeOK, Signing, OneSigner
<1>5. ASSUME NEW w \in Workers, AddReceipt(w) PROVE Signing'
  <2>1. work[w].signedBy = keyFile
    BY <1>5 DEF AddReceipt, TypeOK, Signing
  <2>2. QED
    BY <1>5, <2>1 DEF AddReceipt, TypeOK, Signing, OneSigner
<1>6. ASSUME NEW w \in Workers, FailAdd(w) PROVE Signing'
  BY <1>6 DEF FailAdd, TypeOK, Signing, OneSigner
<1>7. ASSUME NEW w \in Workers, Crash(w) PROVE Signing'
  BY <1>7 DEF Crash, TypeOK, Signing, OneSigner
<1>8. CASE Rekey
  BY <1>8 DEF Rekey, Signing, OneSigner
<1>9. ASSUME NEW id \in Ids, Damage(id) PROVE Signing'
  BY <1>9 DEF Damage, Signing, OneSigner
<1>10. CASE UNCHANGED vars
  BY <1>10 DEF vars, Signing, OneSigner
<1>11. QED
  BY <1>1, <1>2, <1>3, <1>4, <1>5, <1>6, <1>7, <1>8, <1>9, <1>10 DEF Next

LEMMA NextNumbered == IInv /\ [Next]_vars => Numbered'
<1> SUFFICES ASSUME IInv, [Next]_vars PROVE Numbered'
  OBVIOUS
<1> USE StorageAssumption DEF IInv, disk, service
<1>1. ASSUME NEW w \in Workers, NEW token \in Tokens, NEW owner \in Authorize(token),
             NEW name \in Names, PutObject(w, owner, name)
      PROVE  Numbered'
  <2>1. work'[w].id = uploads + 1
    BY <1>1, Signed
  <2>2. \A v \in Workers \ {w} : work'[v] = work[v]
    BY <1>1 DEF PutObject, TypeOK
  <2>3. uploads \in Nat /\ uploads' = uploads + 1
    BY <1>1 DEF PutObject, TypeOK
  <2>4. /\ \A r \in catalog : r.id \in Nat
        /\ \A v \in Workers : work[v].id \in Nat
    BY DEF TypeOK, Receipts, NoReceipt, None, Ids
  <2>5. \A v \in Workers : work[v].id <= uploads
    BY <2>3 DEF Numbered, NoReceipt, None
  <2>6. QED
    BY <1>1, <2>1, <2>2, <2>3, <2>4, <2>5 DEF PutObject, Numbered
<1>2. ASSUME NEW w \in Workers, AddReceipt(w) PROVE Numbered'
  <2>1. work[w] # NoReceipt
    BY <1>2 DEF AddReceipt, TypeOK
  <2>2. /\ work'[w] = NoReceipt
        /\ \A v \in Workers \ {w} : work'[v] = work[v]
    BY <1>2 DEF AddReceipt, TypeOK
  <2>3. \A v \in Workers \ {w} : work[v] # NoReceipt => work[v].id # NoReceipt.id
    BY DEF TypeOK, Receipts, NoReceipt, None, Ids
  <2>4. QED
    BY <1>2, <2>1, <2>2, <2>3 DEF AddReceipt, Numbered
<1>3. ASSUME NEW w \in Workers, FailAdd(w) \/ Crash(w) PROVE Numbered'
  <2>1. /\ work'[w] = NoReceipt
        /\ \A v \in Workers \ {w} : work'[v] = work[v]
    BY <1>3 DEF FailAdd, Crash, TypeOK
  <2>2. \A v \in Workers \ {w} : work[v] # NoReceipt => work[v].id # NoReceipt.id
    BY DEF TypeOK, Receipts, NoReceipt, None, Ids
  <2>3. QED
    BY <1>3, <2>1, <2>2 DEF FailAdd, Crash, Numbered
<1>4. ASSUME UNCHANGED <<catalog, work, uploads, returned>> PROVE Numbered'
  BY <1>4 DEF Numbered
<1>5. QED
  BY <1>1, <1>2, <1>3, <1>4
  DEF Next, LoadKey, GenerateKey, LinkKey, Rekey, Damage, vars

LEMMA NextPlaced == IInv /\ [Next]_vars => Placed'
<1> SUFFICES ASSUME IInv, [Next]_vars PROVE Placed'
  OBVIOUS
<1> USE StorageAssumption DEF IInv, disk, service
<1>1. ASSUME NEW w \in Workers, NEW owner, NEW name, PutObject(w, owner, name)
      PROVE  Placed'
  <2>1. uploads + 1 \notin objects \cup damaged \cup lost
    BY DEF Placed, TypeOK
  <2>2. 1..uploads' = (1..uploads) \cup {uploads + 1}
    BY <1>1 DEF PutObject, TypeOK
  <2>3. QED
    BY <1>1, <2>1, <2>2 DEF PutObject, StoreObject, Placed
<1>2. ASSUME NEW id \in Ids, Damage(id) PROVE Placed'
  BY <1>2 DEF Damage, Placed
<1>3. ASSUME UNCHANGED <<objects, damaged, lost, uploads>> PROVE Placed'
  BY <1>3 DEF Placed
<1>4. QED
  BY <1>1, <1>2, <1>3
  DEF Next, LoadKey, GenerateKey, LinkKey, AddReceipt, FailAdd, Crash, Rekey, vars

\* The object of an upload loses its worker only to the catalog or to broken.
LEMMA NextOrphans == IInv /\ [Next]_vars => OrphansOnlyByFailure'
<1> SUFFICES ASSUME IInv, [Next]_vars PROVE OrphansOnlyByFailure'
  OBVIOUS
<1> USE StorageAssumption DEF IInv, disk, service, Lookup
<1>1. ASSUME NEW w \in Workers, NEW token \in Tokens, NEW owner \in Authorize(token),
             NEW name \in Names, PutObject(w, owner, name)
      PROVE  OrphansOnlyByFailure'
  <2>1. work'[w].id = uploads + 1 /\ work'[w] # NoReceipt
    BY <1>1, Signed
  <2>2. \A v \in Workers \ {w} : work'[v] = work[v]
    BY <1>1 DEF PutObject, TypeOK
  <2>3. work[w] = NoReceipt
    BY <1>1 DEF PutObject, TypeOK
  <2>4. QED
    BY <1>1, <2>1, <2>2, <2>3 DEF PutObject, StoreObject, OrphansOnlyByFailure
<1>2. ASSUME NEW w \in Workers, AddReceipt(w) PROVE OrphansOnlyByFailure'
  <2>1. \A v \in Workers \ {w} : work'[v] = work[v]
    BY <1>2 DEF AddReceipt, TypeOK
  <2>2. work[w].id \in objects \cup damaged \cup lost
    BY <1>2 DEF AddReceipt, TypeOK, Numbered, Placed, Receipts, Ids
  <2>3. QED
    BY <1>2, <2>1, <2>2 DEF AddReceipt, OrphansOnlyByFailure
<1>3. ASSUME NEW w \in Workers, FailAdd(w) \/ Crash(w) PROVE OrphansOnlyByFailure'
  <2>1. \A v \in Workers \ {w} : work'[v] = work[v]
    BY <1>3 DEF FailAdd, Crash, TypeOK
  <2>2. work[w] # NoReceipt => work[w].id \in broken'
    BY <1>3 DEF FailAdd, Crash
  <2>3. /\ UNCHANGED <<objects, damaged, lost, catalog>>
        /\ broken \subseteq broken'
    BY <1>3 DEF FailAdd, Crash
  <2>4. QED
    BY <2>1, <2>2, <2>3 DEF OrphansOnlyByFailure
<1>4. ASSUME NEW id \in Ids, Damage(id) PROVE OrphansOnlyByFailure'
  BY <1>4 DEF Damage, OrphansOnlyByFailure
<1>5. ASSUME UNCHANGED <<objects, damaged, lost, catalog, work, broken>>
      PROVE  OrphansOnlyByFailure'
  BY <1>5 DEF OrphansOnlyByFailure
<1>6. QED
  BY <1>1, <1>2, <1>3, <1>4, <1>5 DEF Next, LoadKey, GenerateKey, LinkKey, Rekey, vars

LEMMA StepIInv == IInv /\ [Next]_vars => IInv'
  BY NextTypeOK, NextSigning, NextNumbered, NextPlaced, NextOrphans DEF IInv

LEMMA Inductive == Spec => []IInv
  BY InitIInv, StepIInv, PTL DEF Spec

-----------------------------------------------------------------------------
\* Types; and the catalog has one receipt for an object.
THEOREM TypeCorrect == Spec => []TypeOK
<1>1. IInv => TypeOK
  BY DEF IInv
<1>2. QED
  BY Inductive, <1>1, PTL

\* However many workers race in load_or_create, crash and start again, all
\* that serve sign with the key in the file, and it signed every receipt.
THEOREM OneSignerThm == Spec => []OneSigner
<1>1. IInv => OneSigner
  BY DEF IInv, Signing
<1>2. QED
  BY Inductive, <1>1, PTL

\* An upload that neither failed nor is under way has its receipt in the
\* catalog, and a receipt in the catalog has its object unless the disk failed.
THEOREM OrphansOnlyByFailureThm == Spec => []OrphansOnlyByFailure
<1>1. IInv => OrphansOnlyByFailure
  BY DEF IInv
<1>2. QED
  BY Inductive, <1>1, PTL

\* A receipt that a client got is in the catalog, alone under its id, and
\* verifies at every worker: download gives its owner the object, and only
\* its owner, as long as disk and master key are as they were.
THEOREM ReturnedReadableThm == Spec => []ReturnedReadable
<1>1. NoToken \notin DOMAIN Principals
  BY StorageAssumption DEF Principals, NoToken
<1>2. IInv => ReturnedReadable
  <2> SUFFICES ASSUME IInv, NEW r \in returned, NEW w \in Workers, NEW token \in Tokens,
                      NEW name \in Names, NEW attested \in BOOLEAN, pc[w] = "up"
               PROVE  LET statuses == Download(w, r.id, token, name, attested) IN
                      /\ "404" \notin statuses
                      /\ "200" \in statuses <=>
                           /\ token \in DOMAIN Principals /\ Principals[token] = r.owner
                           /\ name = r.name
                           /\ r.id \in objects
                           /\ r.wrappedBy = masterOf[w]
                           /\ RequireAttestation => attested
    BY DEF ReturnedReadable
  <2>1. Lookup(r.id) = {r}
    BY DEF IInv, TypeOK, Numbered, Lookup
  <2>2. Verifies(w, r)
    BY DEF IInv, Signing, OneSigner, Verifies
  <2>3. r.id \in objects <=> r.id \notin damaged /\ r.id \notin lost
    BY DEF IInv, OrphansOnlyByFailure, Numbered, Placed
  <2>4. CASE token \notin DOMAIN Principals
    <3>1. Download(w, r.id, token, name, attested) \in {{"401"}, {"403"}}
      BY <2>4 DEF Download, Authorize
    <3>2. QED
      BY <2>4, <3>1
  <2>5. CASE token \in DOMAIN Principals
    <3>1. Authorize(token) = {Principals[token]} /\ token # NoToken
      BY <1>1, <2>5 DEF Authorize
    <3>2. Download(w, r.id, token, name, attested)
            = {EngineDownload(w, r, Principals[token], name, attested)}
      BY <2>1, <3>1 DEF Download
    <3>3. EngineDownload(w, r, Principals[token], name, attested)
            \in {"403", "409", "500", "200"}
      BY DEF EngineDownload, Unwrap
    <3>4. EngineDownload(w, r, Principals[token], name, attested) = "200" <=>
            /\ Principals[token] = r.owner
            /\ name = r.name
            /\ r.id \in objects
            /\ r.wrappedBy = masterOf[w]
            /\ RequireAttestation => attested
      BY <2>2, <2>3, StorageAssumption DEF EngineDownload, Unwrap
    <3>5. QED
      BY <2>5, <3>2, <3>3, <3>4
  <2>6. QED
    BY <2>4, <2>5
<1>3. QED
  BY Inductive, <1>2, PTL

-----------------------------------------------------------------------------
(***************************************************************************)
(* Induction over the natural numbers, for a set of numbers: what a        *)
(* recursive function computes is shown with it.                           *)
(***************************************************************************)

Below == {pair \in Nat \X Nat : pair[1] < pair[2]}

LEMMA LeastNat ==
    ASSUME NEW T, T \subseteq Nat, T # {}
    PROVE  \E n \in T : \A m \in T : n <= m
<1>1. IsWellFoundedOn(Below, Nat)
  <2>1. Below = OpToRel(<, Nat)
    BY Zenon DEF Below, OpToRel
  <2>2. QED
    BY <2>1, NatLessThanWellFounded, Zenon
<1>2. PICK n \in T : \A m \in T : <<m, n>> \notin Below
  BY <1>1, WFMin
<1>3. ASSUME NEW m \in T PROVE n <= m
  <2>1. m \in Nat /\ n \in Nat /\ <<m, n>> \in Nat \X Nat
    OBVIOUS
  <2>2. ~(m < n)
    BY <1>2, <2>1 DEF Below
  <2>3. QED
    BY <2>1, <2>2
<1>4. QED
  BY <1>3

LEMMA NatInductionSet ==
    ASSUME NEW S, 0 \in S, \A n \in Nat : n \in S => n + 1 \in S
    PROVE  \A n \in Nat : n \in S
<1> DEFINE T == Nat \ S
<1> SUFFICES ASSUME T # {} PROVE FALSE
  OBVIOUS
<1>1. PICK n \in T : \A m \in T : n <= m
  BY LeastNat
<1>2. n # 0 /\ n \in Nat /\ n - 1 \in Nat /\ ~(n <= n - 1) /\ (n - 1) + 1 = n
  OBVIOUS
<1>3. n - 1 \in S
  BY <1>1, <1>2
<1>4. QED
  BY <1>2, <1>3

-----------------------------------------------------------------------------
(***************************************************************************)
(* Merkle trees.  A level is a list of hashes, of which nothing is known.  *)
(***************************************************************************)

IsList(l) == /\ Len(l) \in Nat \ {0}
             /\ l = [i \in 1..Len(l) |-> l[i]]

LEMMA ListOf ==
    ASSUME NEW n \in Nat \ {0}, NEW f
    PROVE  LET l == [i \in 1..n |-> f[i]] IN Len(l) = n /\ IsList(l)
  BY DEF IsList

\* Half of a number, rounded up.
LEMMA Halves ==
    ASSUME NEW n \in Nat
    PROVE  /\ (n + 1) \div 2 \in Nat
           /\ n % 2 = 1 => n + 1 = 2 * ((n + 1) \div 2)
           /\ n % 2 # 1 => n = 2 * ((n + 1) \div 2)
<1>1. n % 2 \in 0..1 /\ n = 2 * (n \div 2) + (n % 2) /\ n \div 2 \in Nat
  OBVIOUS
<1>2. (n + 1) % 2 \in 0..1 /\ n + 1 = 2 * ((n + 1) \div 2) + ((n + 1) % 2)
      /\ (n + 1) \div 2 \in Nat
  OBVIOUS
<1>3. QED
  BY <1>1, <1>2

\* What the padding of an odd level adds.
LEMMA PaddedIs ==
    ASSUME NEW l, IsList(l)
    PROVE  /\ Len(Padded(l)) = 2 * ((Len(l) + 1) \div 2)
           /\ \A i \in 1..Len(l) : Padded(l)[i] = l[i]
           /\ Len(l) % 2 = 1 => Padded(l)[Len(l) + 1] = l[Len(l)]
<1>1. Len(l) \in Nat /\ Len(l) > 0 /\ l = [i \in 1..Len(l) |-> l[i]]
  BY DEF IsList
<1>2. CASE Len(l) % 2 = 1
  <2>1. Padded(l) = Append(l, l[Len(l)])
    BY <1>2 DEF Padded
  <2>2. /\ Len(Append(l, l[Len(l)])) = Len(l) + 1
        /\ \A i \in 1..Len(l) : Append(l, l[Len(l)])[i] = l[i]
        /\ Append(l, l[Len(l)])[Len(l) + 1] = l[Len(l)]
    BY <1>1
  <2>3. Len(l) + 1 = 2 * ((Len(l) + 1) \div 2)
    BY <1>1, <1>2, Halves
  <2>4. QED
    BY <2>1, <2>2, <2>3
<1>3. CASE Len(l) % 2 # 1
  <2>1. Len(l) = 2 * ((Len(l) + 1) \div 2)
    BY <1>1, <1>3, Halves
  <2>2. QED
    BY <2>1, <1>3 DEF Padded
<1>4. QED
  BY <1>2, <1>3

\* One round: half as many hashes, each of two neighbours.
LEMMA LevelUpIs ==
    ASSUME NEW l, IsList(l)
    PROVE  /\ IsList(LevelUp(l))
           /\ Len(LevelUp(l)) = (Len(l) + 1) \div 2
           /\ \A i \in 1..((Len(l) + 1) \div 2) :
                LevelUp(l)[i] = <<Padded(l)[2 * i - 1], Padded(l)[2 * i]>>
<1> DEFINE n == (Len(l) + 1) \div 2
           f == [i \in 1..n |-> <<Padded(l)[2 * i - 1], Padded(l)[2 * i]>>]
<1>1. Len(l) \in Nat /\ Len(l) > 0
  BY DEF IsList
<1>2. n \in Nat \ {0}
  BY <1>1
<1>3. Len(Padded(l)) = 2 * n
  BY PaddedIs
<1>4. (2 * n) \div 2 = n
  BY <1>2
<1>5. LevelUp(l) = f
  <2> HIDE DEF n
  <2>1. QED
    BY <1>3, <1>4 DEF LevelUp, Hash
<1> HIDE DEF n
<1>6. Len(f) = n /\ f = [i \in 1..n |-> f[i]]
  BY <1>2
<1>7. \A i \in 1..n : f[i] = <<Padded(l)[2 * i - 1], Padded(l)[2 * i]>>
  OBVIOUS
<1> HIDE DEF f
<1>8. QED
  BY <1>2, <1>5, <1>6, <1>7 DEF IsList, n

-----------------------------------------------------------------------------
(***************************************************************************)
(* The rounds of merkle_root.                                              *)
(***************************************************************************)

Round(below) == IF Len(below) > 1 THEN LevelUp(below) ELSE below

\* The function of levels exists.
LEMMA LevelsExist ==
    ASSUME NEW l, Len(l) \in Nat
    PROVE  /\ Levels(l)[0] = l
           /\ \A k \in 1..Len(l) : Levels(l)[k] = Round(Levels(l)[k - 1])
<1> DEFINE Loop(f, n) == [k \in 0..n |-> IF k = 0 THEN l
                                         ELSE IF Len(f[k - 1]) > 1 THEN LevelUp(f[k - 1])
                                         ELSE f[k - 1]]
           S == {n \in Nat : \E f : f = Loop(f, n)}
           up == CHOOSE f : f = Loop(f, Len(l))
<1>1. 0 \in S
  <2> DEFINE f == [k \in 0..0 |-> l]
  <2>1. f = Loop(f, 0)
    OBVIOUS
  <2>2. QED
    BY <2>1
<1>2. ASSUME NEW n \in Nat, n \in S PROVE n + 1 \in S
  <2>1. PICK f : f = Loop(f, n)
    BY <1>2
  <2> DEFINE g == [k \in 0..(n + 1) |-> IF k <= n THEN f[k] ELSE Round(f[n])]
             h == Loop(g, n + 1)
  <2>2. \A k \in 0..n : f[k] = IF k = 0 THEN l ELSE Round(f[k - 1])
    <3>1. \A k \in 0..n : Loop(f, n)[k] = IF k = 0 THEN l ELSE Round(f[k - 1])
      BY DEF Round
    <3> HIDE DEF Loop
    <3>2. QED
      BY <3>1, <2>1
  <2>3. \A k \in 0..(n + 1) : h[k] = IF k = 0 THEN l ELSE Round(g[k - 1])
    BY DEF Round
  <2>4. \A k \in 0..(n + 1) : g[k] = IF k <= n THEN f[k] ELSE Round(f[n])
    OBVIOUS
  <2>5. DOMAIN g = 0..(n + 1) /\ DOMAIN h = 0..(n + 1)
    OBVIOUS
  <2>6. g = [k \in 0..(n + 1) |-> g[k]] /\ h = [k \in 0..(n + 1) |-> h[k]]
    OBVIOUS
  <2> HIDE DEF g, h
  <2>7. ASSUME NEW k \in 0..(n + 1) PROVE g[k] = h[k]
    <3>1. CASE k = 0
      BY <3>1, <2>2, <2>3, <2>4
    <3>2. CASE k # 0
      <4>1. k - 1 \in 0..n /\ g[k - 1] = f[k - 1]
        BY <3>2, <2>4
      <4>2. h[k] = Round(f[k - 1])
        BY <4>1, <3>2, <2>3
      <4>3. k <= n => f[k] = Round(f[k - 1])
        BY <3>2, <2>2
      <4>4. ~(k <= n) => k - 1 = n
        OBVIOUS
      <4>5. QED
        BY <4>2, <4>3, <4>4, <2>4
    <3>3. QED
      BY <3>1, <3>2
  <2>8. g = h
    BY <2>6, <2>7
  <2>9. QED
    <3>1. g = Loop(g, n + 1)
      BY <2>8 DEF h
    <3>2. n + 1 \in Nat
      OBVIOUS
    <3> HIDE DEF Loop
    <3>3. QED
      BY <3>1, <3>2, Zenon
<1>3. Len(l) \in S
  <2> HIDE DEF S
  <2>1. \A n \in Nat : n \in S
    BY <1>1, <1>2, NatInductionSet
  <2>2. QED
    BY <2>1
<1>4. up = Loop(up, Len(l))
  <2>1. \E f : f = Loop(f, Len(l))
    BY <1>3
  <2> HIDE DEF Loop
  <2>2. QED
    BY <2>1
<1>5. Levels(l) = up
  BY DEF Levels
<1>6. \A k \in 0..Len(l) : Loop(up, Len(l))[k] = IF k = 0 THEN l ELSE Round(up[k - 1])
  <2> HIDE DEF up
  <2>1. QED
    BY DEF Round
<1>7. \A k \in 0..Len(l) : up[k] = IF k = 0 THEN l ELSE Round(up[k - 1])
  <2> HIDE DEF up, Loop
  <2>1. QED
    BY <1>4, <1>6
<1> HIDE DEF up
<1>8. QED
  BY <1>5, <1>7

\* Every level is a list, and shorter than the one below until it is one hash.
LEMMA LevelsAreLists ==
    ASSUME NEW l, IsList(l)
    PROVE  \A k \in 0..Len(l) :
             /\ IsList(Levels(l)[k])
             /\ Len(Levels(l)[k]) + k <= Len(l) \/ Len(Levels(l)[k]) = 1
<1> DEFINE Good(k) == /\ IsList(Levels(l)[k])
                      /\ Len(Levels(l)[k]) + k <= Len(l) \/ Len(Levels(l)[k]) = 1
           S == {k \in Nat : k <= Len(l) => Good(k)}
<1>1. Len(l) \in Nat
  BY DEF IsList
<1>2. Good(0)
  BY <1>1, LevelsExist
<1>3. ASSUME NEW k \in Nat, k + 1 <= Len(l), Good(k) PROVE Good(k + 1)
  <2>0. PICK below : below = Levels(l)[k]
    OBVIOUS
  <2>1. Levels(l)[k + 1] = Round(below)
    <3>1. k + 1 \in 1..Len(l) /\ (k + 1) - 1 = k
      BY <1>1, <1>3
    <3>2. QED
      BY <1>1, <2>0, <3>1, LevelsExist
  <2>2. IsList(below) /\ Len(below) \in Nat /\ Len(below) > 0
    BY <1>3, <2>0 DEF IsList
  <2>3. CASE Len(below) > 1
    <3>1. Levels(l)[k + 1] = LevelUp(below)
      BY <2>1, <2>3 DEF Round
    <3>2. /\ IsList(LevelUp(below))
          /\ Len(LevelUp(below)) = (Len(below) + 1) \div 2
      BY <2>2, LevelUpIs
    <3>3. (Len(below) + 1) \div 2 \in Nat /\ (Len(below) + 1) \div 2 <= Len(below) - 1
      BY <2>2, <2>3, Halves
    <3>4. Len(below) + k <= Len(l)
      <4>1. Len(below) + k <= Len(l) \/ Len(below) = 1
        BY <1>3, <2>0
      <4>2. \A n \in Nat : n > 1 => n # 1
        OBVIOUS
      <4>3. QED
        BY <4>1, <4>2, <2>2, <2>3
    <3>5. Len(LevelUp(below)) + (k + 1) <= Len(l)
      BY <1>1, <2>2, <3>2, <3>3, <3>4
    <3>6. QED
      BY <3>1, <3>2, <3>5
  <2>4. CASE ~(Len(below) > 1)
    <3>1. Levels(l)[k + 1] = below
      BY <2>1, <2>4 DEF Round
    <3>2. Len(below) = 1
      <4>1. \A n \in Nat : n > 0 /\ ~(n > 1) => n = 1
        OBVIOUS
      <4>2. QED
        BY <4>1, <2>2, <2>4
    <3>3. QED
      BY <2>2, <3>1, <3>2
  <2>5. QED
    BY <2>3, <2>4
<1>4. 0 \in S
  BY <1>2
<1>5. ASSUME NEW k \in Nat, k \in S PROVE k + 1 \in S
  <2> HIDE DEF Good
  <2>1. k + 1 <= Len(l) => k <= Len(l)
    BY <1>1
  <2>2. QED
    BY <1>3, <1>5, <2>1
<1>6. \A k \in Nat : k \in S
  <2> HIDE DEF S
  <2>1. QED
    BY <1>4, <1>5, NatInductionSet
<1>7. QED
  BY <1>1, <1>6

\* Once a level is one hash it is the root.
LEMMA Settled ==
    ASSUME NEW l, IsList(l), NEW k \in 0..Len(l), Len(Levels(l)[k]) = 1
    PROVE  \A m \in k..Len(l) : Levels(l)[m] = Levels(l)[k]
<1> DEFINE S == {d \in Nat : k + d <= Len(l) => Levels(l)[k + d] = Levels(l)[k]}
<1>1. Len(l) \in Nat
  BY DEF IsList
<1>2. 0 \in S
  BY <1>1
<1>3. ASSUME NEW d \in Nat, d \in S PROVE d + 1 \in S
  <2> SUFFICES ASSUME k + (d + 1) <= Len(l) PROVE Levels(l)[k + (d + 1)] = Levels(l)[k]
    OBVIOUS
  <2>1. k + d <= Len(l) /\ k + (d + 1) \in 1..Len(l) /\ (k + (d + 1)) - 1 = k + d
    BY <1>1
  <2>2. Levels(l)[k + d] = Levels(l)[k]
    BY <1>3, <2>1
  <2>3. Levels(l)[k + (d + 1)] = Round(Levels(l)[k + d])
    BY <1>1, <2>1, LevelsExist
  <2>4. QED
    BY <2>2, <2>3 DEF Round
<1>4. \A d \in Nat : d \in S
  <2> HIDE DEF S
  <2>1. QED
    BY <1>2, <1>3, NatInductionSet
<1>5. SUFFICES ASSUME NEW m \in k..Len(l) PROVE Levels(l)[m] = Levels(l)[k]
  OBVIOUS
<1>6. m - k \in Nat /\ k + (m - k) = m
  BY <1>1
<1>7. m - k \in S
  BY <1>4, <1>6
<1>8. QED
  BY <1>6, <1>7

\* The rounds of merkle_root are enough: the last level is one hash, the root.
LEMMA RootIs ==
    ASSUME NEW l, IsList(l)
    PROVE  Len(Levels(l)[Len(l)]) = 1 /\ MerkleRoot(l) = Levels(l)[Len(l)][1]
<1>1. Len(l) \in Nat \ {0} /\ Len(l) \in 0..Len(l)
  BY DEF IsList
<1>2. l # <<>>
  BY <1>1
<1>3. Len(Levels(l)[Len(l)]) \in Nat \ {0}
  BY <1>1, LevelsAreLists DEF IsList
<1>4. Len(Levels(l)[Len(l)]) + Len(l) <= Len(l) \/ Len(Levels(l)[Len(l)]) = 1
  BY <1>1, LevelsAreLists
<1>5. QED
  BY <1>1, <1>2, <1>3, <1>4 DEF MerkleRoot

-----------------------------------------------------------------------------
(***************************************************************************)
(* The way up from a leaf.                                                 *)
(***************************************************************************)

LEMMA UpwardExists ==
    ASSUME NEW x, NEW path, Len(path) \in Nat
    PROVE  /\ Upward(x, path)[0] = x
           /\ \A k \in 1..Len(path) :
                Upward(x, path)[k] = Combine(Upward(x, path)[k - 1], path[k])
<1> DEFINE Loop(f, n) == [k \in 0..n |-> IF k = 0 THEN x ELSE Combine(f[k - 1], path[k])]
           S == {n \in Nat : \E f : f = Loop(f, n)}
           on == CHOOSE f : f = Loop(f, Len(path))
<1>1. 0 \in S
  <2> DEFINE f == [k \in 0..0 |-> x]
  <2>1. f = Loop(f, 0)
    OBVIOUS
  <2>2. QED
    BY <2>1
<1>2. ASSUME NEW n \in Nat, n \in S PROVE n + 1 \in S
  <2>1. PICK f : f = Loop(f, n)
    BY <1>2
  <2> DEFINE g == [k \in 0..(n + 1) |-> IF k <= n THEN f[k] ELSE Combine(f[n], path[n + 1])]
             h == Loop(g, n + 1)
  <2>2. \A k \in 0..n : f[k] = IF k = 0 THEN x ELSE Combine(f[k - 1], path[k])
    <3>1. \A k \in 0..n : Loop(f, n)[k] = IF k = 0 THEN x ELSE Combine(f[k - 1], path[k])
      OBVIOUS
    <3> HIDE DEF Loop
    <3>2. QED
      BY <3>1, <2>1
  <2>3. \A k \in 0..(n + 1) : h[k] = IF k = 0 THEN x ELSE Combine(g[k - 1], path[k])
    OBVIOUS
  <2>4. \A k \in 0..(n + 1) : g[k] = IF k <= n THEN f[k] ELSE Combine(f[n], path[n + 1])
    OBVIOUS
  <2>5. g = [k \in 0..(n + 1) |-> g[k]] /\ h = [k \in 0..(n + 1) |-> h[k]]
    OBVIOUS
  <2> HIDE DEF g, h
  <2>6. ASSUME NEW k \in 0..(n + 1) PROVE g[k] = h[k]
    <3>1. CASE k = 0
      BY <3>1, <2>2, <2>3, <2>4
    <3>2. CASE k # 0
      <4>1. k - 1 \in 0..n /\ g[k - 1] = f[k - 1]
        BY <3>2, <2>4
      <4>2. h[k] = Combine(f[k - 1], path[k])
        BY <4>1, <3>2, <2>3
      <4>3. k <= n => f[k] = Combine(f[k - 1], path[k])
        BY <3>2, <2>2
      <4>4. ~(k <= n) => k - 1 = n /\ k = n + 1
        OBVIOUS
      <4>5. QED
        BY <4>2, <4>3, <4>4, <2>4
    <3>3. QED
      BY <3>1, <3>2
  <2>7. g = h
    BY <2>5, <2>6
  <2>8. QED
    <3>1. g = Loop(g, n + 1)
      BY <2>7 DEF h
    <3>2. n + 1 \in Nat
      OBVIOUS
    <3> HIDE DEF Loop
    <3>3. QED
      BY <3>1, <3>2, Zenon
<1>3. Len(path) \in S
  <2> HIDE DEF S
  <2>1. \A n \in Nat : n \in S
    BY <1>1, <1>2, NatInductionSet
  <2>2. QED
    BY <2>1
<1>4. on = Loop(on, Len(path))
  <2>1. \E f : f = Loop(f, Len(path))
    BY <1>3
  <2> HIDE DEF Loop
  <2>2. QED
    BY <2>1
<1>5. Upward(x, path) = on
  BY DEF Upward
<1>6. \A k \in 0..Len(path) :
        Loop(on, Len(path))[k] = IF k = 0 THEN x ELSE Combine(on[k - 1], path[k])
  <2> HIDE DEF on
  <2>1. QED
    OBVIOUS
<1>7. \A k \in 0..Len(path) : on[k] = IF k = 0 THEN x ELSE Combine(on[k - 1], path[k])
  <2> HIDE DEF on, Loop
  <2>1. QED
    BY <1>4, <1>6
<1> HIDE DEF on
<1>8. QED
  BY <1>5, <1>7

\* Different hashes stay different on the same way up.
LEMMA UpwardInjective ==
    ASSUME NEW x, NEW y, NEW path, Len(path) \in Nat
    PROVE  \A k \in 0..Len(path) : Upward(x, path)[k] = Upward(y, path)[k] <=> x = y
<1> DEFINE S == {k \in Nat : k <= Len(path) =>
                               (Upward(x, path)[k] = Upward(y, path)[k] <=> x = y)}
<1>1. 0 \in S
  BY UpwardExists
<1>2. ASSUME NEW k \in Nat, k \in S PROVE k + 1 \in S
  <2> SUFFICES ASSUME k + 1 <= Len(path)
               PROVE  Upward(x, path)[k + 1] = Upward(y, path)[k + 1] <=> x = y
    OBVIOUS
  <2>1. k <= Len(path) /\ k + 1 \in 1..Len(path) /\ (k + 1) - 1 = k
    OBVIOUS
  <2>2. Upward(x, path)[k] = Upward(y, path)[k] <=> x = y
    BY <1>2, <2>1
  <2>3. /\ Upward(x, path)[k + 1] = Combine(Upward(x, path)[k], path[k + 1])
        /\ Upward(y, path)[k + 1] = Combine(Upward(y, path)[k], path[k + 1])
    BY <2>1, UpwardExists
  <2>4. \A u, v, e : Combine(u, e) = Combine(v, e) <=> u = v
    BY DEF Combine, Hash
  <2>5. QED
    BY <2>2, <2>3, <2>4
<1>3. \A k \in Nat : k \in S
  <2> HIDE DEF S
  <2>1. QED
    BY <1>1, <1>2, NatInductionSet
<1>4. QED
  BY <1>3

\* A longer path begins with the way along the shorter one.
LEMMA UpwardAppend ==
    ASSUME NEW x, NEW path, NEW longer, Len(path) \in Nat, Len(longer) = Len(path) + 1,
           \A k \in 1..Len(path) : longer[k] = path[k]
    PROVE  Upward(x, longer)[Len(longer)]
             = Combine(Upward(x, path)[Len(path)], longer[Len(longer)])
<1> DEFINE S == {k \in Nat : k <= Len(path) => Upward(x, longer)[k] = Upward(x, path)[k]}
<1>0. /\ Upward(x, longer)[0] = x
      /\ \A k \in 1..Len(longer) :
           Upward(x, longer)[k] = Combine(Upward(x, longer)[k - 1], longer[k])
  <2>1. Len(longer) \in Nat
    OBVIOUS
  <2>2. QED
    BY <2>1, UpwardExists
<1>1. 0 \in S
  BY <1>0, UpwardExists
<1>2. ASSUME NEW k \in Nat, k \in S PROVE k + 1 \in S
  <2> SUFFICES ASSUME k + 1 <= Len(path)
               PROVE  Upward(x, longer)[k + 1] = Upward(x, path)[k + 1]
    OBVIOUS
  <2>1. k <= Len(path) /\ k + 1 \in 1..Len(path) /\ k + 1 \in 1..Len(longer) /\ (k + 1) - 1 = k
    OBVIOUS
  <2>2. Upward(x, longer)[k] = Upward(x, path)[k]
    BY <1>2, <2>1
  <2>3. Upward(x, longer)[k + 1] = Combine(Upward(x, longer)[k], longer[k + 1])
    BY <2>1, <1>0
  <2>4. Upward(x, path)[k + 1] = Combine(Upward(x, path)[k], path[k + 1])
    BY <2>1, UpwardExists
  <2>5. QED
    BY <2>1, <2>2, <2>3, <2>4
<1>3. \A k \in Nat : k \in S
  <2> HIDE DEF S
  <2>1. QED
    BY <1>1, <1>2, NatInductionSet
<1>4. Upward(x, longer)[Len(path)] = Upward(x, path)[Len(path)]
  BY <1>3
<1>5. Len(longer) \in 1..Len(longer) /\ Len(longer) - 1 = Len(path)
  OBVIOUS
<1>6. Upward(x, longer)[Len(longer)]
        = Combine(Upward(x, longer)[Len(longer) - 1], longer[Len(longer)])
  BY <1>0, <1>5
<1>7. QED
  BY <1>4, <1>5, <1>6

-----------------------------------------------------------------------------
(***************************************************************************)
(* merkle_proof and verify_merkle: the level is the one that merkle_root   *)
(* has after as many rounds, the siblings lead from the leaf to the        *)
(* cursor's place in it, and a claim is carried along them.                *)
(***************************************************************************)

Shape ==
    /\ leaves \in Lists
    /\ index \in 0..(Len(leaves) - 1)
    /\ Len(proof) \in 0..Len(leaves)
    /\ proof = [i \in 1..Len(proof) |-> proof[i]]
    /\ cursor \in 0..(Len(level) - 1)
    /\ at \in {"climb", "verify", "done"}

OnTheWay ==
    /\ level = Levels(leaves)[Len(proof)]
    /\ Upward(leaves[index + 1], proof)[Len(proof)] = level[cursor + 1]

Carries ==
    /\ at = "climb" => used = 0
    /\ at # "climb" => /\ Len(level) = 1
                       /\ used \in 0..Len(proof)
                       /\ carried = Upward(claim, proof)[used]
    /\ at = "done" => used = Len(proof)

ProofInv == Shape /\ OnTheWay /\ Carries

LEMMA ListsAre ==
    ASSUME NEW l \in Lists
    PROVE  IsList(l)
<1>1. PICK n \in 0..MaxLeaves : l \in [1..n -> Values]
  BY ProofAssumption DEF Lists, BoundedSeq, SeqOf
<1>2. n \in Nat /\ l = [i \in 1..n |-> l[i]]
  BY <1>1, ProofAssumption
<1>3. Len(l) = n
  BY <1>2
<1>4. n # 0
  BY <1>2 DEF Lists
<1>5. QED
  BY <1>2, <1>3, <1>4 DEF IsList

LEMMA InitProofInv == ProofInit => ProofInv
<1> SUFFICES ASSUME ProofInit PROVE ProofInv
  OBVIOUS
<1>1. IsList(leaves) /\ Len(leaves) \in Nat \ {0}
  BY ListsAre DEF ProofInit, IsList
<1>2. proof = <<>> /\ Len(proof) = 0 /\ proof = [i \in 1..0 |-> proof[i]]
  BY DEF ProofInit
<1>3. Shape
  BY <1>1, <1>2 DEF Shape, ProofInit
<1>4. Levels(leaves)[0] = leaves
  BY <1>1, LevelsExist
<1>5. Upward(leaves[index + 1], proof)[0] = leaves[index + 1]
  BY <1>2, UpwardExists
<1>6. OnTheWay
  BY <1>2, <1>4, <1>5 DEF OnTheWay, ProofInit
<1>7. Carries
  BY DEF Carries, ProofInit
<1>8. QED
  BY <1>3, <1>6, <1>7 DEF ProofInv

\* The sibling and its side give the parent of the cursor's hash.
LEMMA Parent ==
    ASSUME NEW l, IsList(l), NEW c \in 0..(Len(l) - 1)
    PROVE  /\ c \div 2 \in 0..(Len(LevelUp(l)) - 1)
           /\ c % 2 = 0 => LevelUp(l)[c \div 2 + 1] = <<l[c + 1], Padded(l)[c + 2]>>
           /\ c % 2 # 0 => LevelUp(l)[c \div 2 + 1] = <<Padded(l)[c], l[c + 1]>>
<1> DEFINE q == c \div 2
           n == (Len(l) + 1) \div 2
<1>1. Len(l) \in Nat \ {0} /\ c \in Nat
  BY DEF IsList
<1>2. q \in Nat /\ c % 2 \in 0..1 /\ c = 2 * q + (c % 2)
  BY <1>1
<1>3. n \in Nat /\ (Len(l) + 1 = 2 * n \/ Len(l) = 2 * n)
  BY <1>1, Halves
<1> HIDE DEF q, n
<1>4. q + 1 \in 1..n
  BY <1>1, <1>2, <1>3
<1>5. Len(LevelUp(l)) = n
  BY LevelUpIs DEF n
<1>6. LevelUp(l)[q + 1] = <<Padded(l)[2 * (q + 1) - 1], Padded(l)[2 * (q + 1)]>>
  BY <1>4, LevelUpIs DEF n
<1>7. Padded(l)[c + 1] = l[c + 1]
  <2>1. c + 1 \in 1..Len(l)
    BY <1>1
  <2>2. QED
    BY <2>1, PaddedIs
<1>8. ASSUME c % 2 = 0 PROVE 2 * (q + 1) - 1 = c + 1 /\ 2 * (q + 1) = c + 2
  BY <1>2, <1>8
<1>9. ASSUME c % 2 # 0 PROVE 2 * (q + 1) - 1 = c /\ 2 * (q + 1) = c + 1
  BY <1>2, <1>9
<1>10. q \in 0..(Len(LevelUp(l)) - 1)
  BY <1>2, <1>3, <1>4, <1>5
<1>11. QED
  BY <1>6, <1>7, <1>8, <1>9, <1>10 DEF q

\* What Append gives for a list of which only its length is known.
LEMMA AppendIs ==
    ASSUME NEW p, Len(p) \in Nat, p = [i \in 1..Len(p) |-> p[i]], NEW e
    PROVE  /\ Len(Append(p, e)) = Len(p) + 1
           /\ Append(p, e) = [i \in 1..(Len(p) + 1) |-> Append(p, e)[i]]
           /\ \A k \in 1..Len(p) : Append(p, e)[k] = p[k]
           /\ Append(p, e)[Len(p) + 1] = e
<1> DEFINE U == {p[i] : i \in 1..Len(p)} \cup {e}
<1>1. p \in [1..Len(p) -> U]
  <2>1. [i \in 1..Len(p) |-> p[i]] \in [1..Len(p) -> U]
    OBVIOUS
  <2>2. QED
    BY <2>1
<1> HIDE DEF U
<1>2. p \in Seq(U)
  BY <1>1
<1>3. e \in U
  BY DEF U
<1>4. /\ Len(Append(p, e)) = Len(p) + 1
      /\ \A k \in 1..Len(p) : Append(p, e)[k] = p[k]
      /\ Append(p, e)[Len(p) + 1] = e
  BY <1>2, <1>3
<1>5. Append(p, e) \in Seq(U)
  BY <1>2, <1>3
<1>6. Append(p, e) = [i \in 1..Len(Append(p, e)) |-> Append(p, e)[i]]
  <2>1. ASSUME NEW q \in Seq(U) PROVE q = [i \in 1..Len(q) |-> q[i]]
    OBVIOUS
  <2>2. QED
    BY <1>5, <2>1, Zenon
<1>7. QED
  BY <1>4, <1>6

LEMMA ClimbProofInv ==
    ASSUME ProofInv, Climb
    PROVE  ProofInv'
<1> DEFINE e == [hash |-> Padded(level)[Sibling + 1], side |-> Side]
           x == leaves[index + 1]
           n == Len(proof)
<1>1. /\ IsList(leaves) /\ Len(leaves) \in Nat
      /\ n \in 0..Len(leaves) /\ n \in Nat
      /\ proof = [i \in 1..n |-> proof[i]]
  BY ListsAre DEF ProofInv, Shape, IsList
<1>2. /\ IsList(level) /\ Len(level) \in Nat /\ Len(level) > 1
      /\ Len(level) + n <= Len(leaves) \/ Len(level) = 1
      /\ level = Levels(leaves)[n]
  <2>1. level = Levels(leaves)[n] /\ Len(level) > 1
    BY DEF ProofInv, OnTheWay, Climb
  <2> HIDE DEF n
  <2>2. /\ IsList(Levels(leaves)[n])
        /\ Len(Levels(leaves)[n]) + n <= Len(leaves) \/ Len(Levels(leaves)[n]) = 1
    BY <1>1, LevelsAreLists
  <2>3. QED
    BY <2>1, <2>2 DEF IsList
<1>3. n + 1 \in 0..Len(leaves) /\ n + 1 \in 1..Len(leaves) /\ (n + 1) - 1 = n
  <2>1. \A m \in Nat : m > 1 => m # 1
    OBVIOUS
  <2>2. Len(level) + n <= Len(leaves)
    BY <1>2, <2>1
  <2>3. QED
    BY <1>1, <1>2, <2>2
<1>4. /\ Len(proof') = n + 1
      /\ proof' = [i \in 1..(n + 1) |-> proof'[i]]
      /\ \A k \in 1..n : proof'[k] = proof[k]
      /\ proof'[n + 1] = e
  <2>1. proof' = Append(proof, e)
    BY DEF Climb
  <2> HIDE DEF e
  <2>2. QED
    BY <1>1, <2>1, AppendIs
<1>5. level' = Levels(leaves)[n + 1]
  <2>1. Levels(leaves)[n + 1] = Round(level)
    <3> HIDE DEF n
    <3>1. Levels(leaves)[n + 1] = Round(Levels(leaves)[(n + 1) - 1])
      BY <1>1, <1>3, LevelsExist
    <3>2. QED
      BY <1>2, <1>3, <3>1
  <2>2. QED
    BY <1>2, <2>1 DEF Climb, Round
<1>6. cursor \in 0..(Len(level) - 1) /\ cursor \in Nat
  BY <1>2 DEF ProofInv, Shape
<1>7. cursor' \in 0..(Len(level') - 1)
  BY <1>2, <1>6, Parent DEF Climb
<1>8. Upward(x, proof')[n + 1] = Combine(Upward(x, proof)[n], e)
  <2> HIDE DEF e, x
  <2>1. Len(proof) \in Nat /\ Len(proof') = Len(proof) + 1
    BY <1>1, <1>4
  <2>2. \A k \in 1..Len(proof) : proof'[k] = proof[k]
    BY <1>4
  <2>3. Upward(x, proof')[Len(proof')] = Combine(Upward(x, proof)[Len(proof)], proof'[Len(proof')])
    BY <2>1, <2>2, UpwardAppend
  <2>4. QED
    BY <1>4, <2>3
<1>9. Upward(x, proof)[n] = level[cursor + 1]
  BY DEF ProofInv, OnTheWay
<1>10. Combine(level[cursor + 1], e) = level'[cursor' + 1]
  <2>1. level' = LevelUp(level) /\ cursor' = cursor \div 2
    BY DEF Climb
  <2>2. CASE cursor % 2 = 0
    <3>1. e.side = "right" /\ e.hash = Padded(level)[cursor + 2]
      <4>1. (cursor + 1) + 1 = cursor + 2
        BY <1>6
      <4>2. QED
        BY <2>2, <4>1 DEF Side, Sibling
    <3> HIDE DEF e
    <3>2. Combine(level[cursor + 1], e) = <<level[cursor + 1], Padded(level)[cursor + 2]>>
      BY <3>1 DEF Combine, Hash
    <3>3. QED
      BY <1>2, <1>6, <2>1, <2>2, <3>2, Parent
  <2>3. CASE cursor % 2 # 0
    <3>1. e.side = "left" /\ e.hash = Padded(level)[cursor]
      <4>1. (cursor - 1) + 1 = cursor
        BY <1>6
      <4>2. QED
        BY <2>3, <4>1 DEF Side, Sibling
    <3> HIDE DEF e
    <3>2. Combine(level[cursor + 1], e) = <<Padded(level)[cursor], level[cursor + 1]>>
      BY <3>1 DEF Combine, Hash
    <3>3. QED
      BY <1>2, <1>6, <2>1, <2>3, <3>2, Parent
  <2>4. QED
    BY <2>2, <2>3
<1>11. UNCHANGED <<leaves, index, claim, carried, used, at>> /\ at = "climb"
  BY DEF Climb, input
<1> HIDE DEF e
<1>12. Shape'
  BY <1>3, <1>4, <1>7, <1>11 DEF ProofInv, Shape
<1>13. OnTheWay'
  BY <1>4, <1>5, <1>8, <1>9, <1>10, <1>11 DEF OnTheWay
<1>14. Carries'
  BY <1>11 DEF ProofInv, Carries
<1>15. QED
  BY <1>12, <1>13, <1>14 DEF ProofInv

LEMMA StepProofInv == ProofInv /\ [ProofNext]_proofVars => ProofInv'
<1> SUFFICES ASSUME ProofInv, [ProofNext]_proofVars PROVE ProofInv'
  OBVIOUS
<1>1. Len(proof) \in Nat
  BY ListsAre DEF ProofInv, Shape, IsList
<1>2. CASE Climb
  BY <1>2, ClimbProofInv
<1>3. ASSUME NEW v \in Values, Claim(v) PROVE ProofInv'
  <2>1. UNCHANGED <<leaves, index, level, cursor, proof, used>>
    BY <1>3 DEF Claim, input
  <2>2. Shape' /\ OnTheWay'
    BY <1>3, <2>1 DEF ProofInv, Shape, OnTheWay, Claim
  <2>3. carried' = Upward(claim', proof)[0]
    BY <1>1, <1>3, UpwardExists DEF Claim
  <2>4. Carries'
    BY <1>1, <1>3, <2>1, <2>3 DEF ProofInv, Carries, Claim
  <2>5. QED
    BY <2>2, <2>4 DEF ProofInv
<1>4. CASE Carry
  <2>1. UNCHANGED <<leaves, index, level, cursor, proof, claim, at>>
    BY <1>4 DEF Carry, input
  <2>2. Shape' /\ OnTheWay'
    BY <2>1 DEF ProofInv, Shape, OnTheWay
  <2>3. /\ used \in 0..Len(proof) /\ used < Len(proof) /\ used' = used + 1
        /\ carried = Upward(claim, proof)[used] /\ at = "verify" /\ Len(level) = 1
        /\ carried' = Combine(carried, proof[used + 1])
    BY <1>4 DEF ProofInv, Carries, Carry
  <2>4. used + 1 \in 1..Len(proof) /\ (used + 1) - 1 = used /\ used + 1 \in 0..Len(proof)
    BY <1>1, <2>3
  <2>5. Upward(claim, proof)[used + 1] = Combine(Upward(claim, proof)[used], proof[used + 1])
    BY <1>1, <2>4, UpwardExists
  <2>6. Carries'
    BY <2>1, <2>3, <2>4, <2>5 DEF Carries
  <2>7. QED
    BY <2>2, <2>6 DEF ProofInv
<1>5. CASE Finish
  <2>1. UNCHANGED <<leaves, index, level, cursor, proof, claim, carried, used>>
    BY <1>5 DEF Finish, input
  <2>2. QED
    BY <1>5, <2>1 DEF ProofInv, Shape, OnTheWay, Carries, Finish
<1>6. CASE UNCHANGED proofVars
  BY <1>6 DEF ProofInv, Shape, OnTheWay, Carries, proofVars, input
<1>7. QED
  BY <1>2, <1>3, <1>4, <1>5, <1>6 DEF ProofNext

LEMMA ProofInvHolds == ProofSpec => []ProofInv
  BY InitProofInv, StepProofInv, PTL DEF ProofSpec

\* merkle_proof and verify_merkle agree with merkle_root: the proof made for a
\* leaf verifies for that leaf and for no other value, in every position of
\* lists of every length.
THEOREM ProofSoundThm == ProofSpec => []ProofSound
<1>1. ProofInv => ProofSound
  <2> SUFFICES ASSUME ProofInv PROVE ProofSound
    OBVIOUS
  <2> DEFINE x == leaves[index + 1]
             n == Len(proof)
  <2>1. n \in Nat /\ n \in 0..Len(leaves) /\ Len(leaves) \in Nat /\ IsList(leaves)
    BY ListsAre DEF ProofInv, Shape, IsList
  <2>2. Upward(x, proof)[n] = level[cursor + 1]
    BY DEF ProofInv, OnTheWay
  <2>3. ASSUME at = "done" PROVE Accepted <=> claim = x
    <3>1. Len(level) = 1 /\ level = Levels(leaves)[n] /\ cursor = 0
      <4>1. Len(level) = 1 /\ level = Levels(leaves)[n] /\ cursor \in 0..(Len(level) - 1)
        BY <2>3 DEF ProofInv, Shape, OnTheWay, Carries
      <4>2. 0..(1 - 1) = {0}
        OBVIOUS
      <4>3. QED
        BY <4>1, <4>2
    <3>2. Levels(leaves)[Len(leaves)] = level
      <4>1. Len(leaves) \in n..Len(leaves)
        BY <2>1
      <4>2. QED
        BY <2>1, <3>1, <4>1, Settled
    <3>3. MerkleRoot(leaves) = Upward(x, proof)[n]
      BY <2>1, <2>2, <3>1, <3>2, RootIs
    <3>4. carried = Upward(claim, proof)[n]
      BY <2>3 DEF ProofInv, Carries
    <3>5. Upward(claim, proof)[n] = Upward(x, proof)[n] <=> claim = x
      <4>1. n \in 0..n
        BY <2>1
      <4>2. QED
        BY <2>1, <4>1, UpwardInjective
    <3>6. QED
      BY <2>3, <3>3, <3>4, <3>5 DEF Accepted
  <2>4. QED
    BY <2>2, <2>3 DEF ProofSound
<1>2. QED
  BY ProofInvHolds, <1>1, PTL

-----------------------------------------------------------------------------
(***************************************************************************)
(* What a root tells of its leaves.                                        *)
(***************************************************************************)

\* What is no hash of two hashes, and can only be a leaf.
NoPair(x) == \A left, right : x # Hash(left, right)

\* A leaf is the hash of a shard, not of two hashes.
NoLeafIsAPair == \A v \in Values : NoPair(v)

\* The number of rounds of merkle_root.
IsHeight(l, h) ==
    /\ h \in 0..Len(l)
    /\ Len(Levels(l)[h]) = 1
    /\ \A k \in 0..(h - 1) : Len(Levels(l)[k]) > 1
    /\ MerkleRoot(l) = Levels(l)[h][1]

LEMMA HeightExists ==
    ASSUME NEW l, IsList(l)
    PROVE  \E h : IsHeight(l, h)
<1> DEFINE T == {k \in 0..Len(l) : Len(Levels(l)[k]) = 1}
<1>1. Len(l) \in Nat
  BY DEF IsList
<1>2. Len(l) \in T
  BY <1>1, RootIs
<1>3. T \subseteq Nat
  BY <1>1
<1>4. PICK h \in T : \A m \in T : h <= m
  BY <1>2, <1>3, LeastNat
<1>5. h \in 0..Len(l) /\ Len(Levels(l)[h]) = 1
  OBVIOUS
<1>6. ASSUME NEW k \in 0..(h - 1) PROVE Len(Levels(l)[k]) > 1
  <2>1. k \in 0..Len(l) /\ ~(h <= k)
    BY <1>1, <1>5
  <2>2. Len(Levels(l)[k]) # 1
    BY <1>4, <2>1
  <2>3. Len(Levels(l)[k]) \in Nat \ {0}
    BY <2>1, LevelsAreLists DEF IsList
  <2>4. \A n \in Nat \ {0} : n # 1 => n > 1
    OBVIOUS
  <2>5. QED
    BY <2>2, <2>3, <2>4
<1>7. MerkleRoot(l) = Levels(l)[h][1]
  <2>1. Len(l) \in h..Len(l)
    BY <1>1, <1>5
  <2>2. Levels(l)[Len(l)] = Levels(l)[h]
    BY <1>5, <2>1, Settled
  <2>3. QED
    BY <2>2, RootIs
<1> HIDE DEF T
<1>8. QED
  BY <1>5, <1>6, <1>7 DEF IsHeight

\* A level below the root, and the next.
LEMMA RoundBelow ==
    ASSUME NEW l, IsList(l), NEW h, IsHeight(l, h), NEW k \in 0..(h - 1)
    PROVE  /\ IsList(Levels(l)[k])
           /\ Len(Levels(l)[k]) > 1
           /\ Levels(l)[k + 1] = LevelUp(Levels(l)[k])
           /\ Levels(l)[k + 1][1] = <<Levels(l)[k][1], Padded(Levels(l)[k])[2]>>
<1>1. Len(l) \in Nat /\ h \in 0..Len(l)
  BY DEF IsList, IsHeight
<1>2. k \in 0..Len(l) /\ k + 1 \in 1..Len(l) /\ (k + 1) - 1 = k
  BY <1>1
<1>3. IsList(Levels(l)[k]) /\ Len(Levels(l)[k]) > 1
  BY <1>2, LevelsAreLists DEF IsHeight
<1>4. Levels(l)[k + 1] = LevelUp(Levels(l)[k])
  <2>1. Levels(l)[k + 1] = Round(Levels(l)[(k + 1) - 1])
    BY <1>1, <1>2, LevelsExist
  <2>2. QED
    BY <1>2, <1>3, <2>1 DEF Round
<1>5. LevelUp(Levels(l)[k])[1] = <<Levels(l)[k][1], Padded(Levels(l)[k])[2]>>
  <2>1. PICK below : below = Levels(l)[k]
    OBVIOUS
  <2>2. IsList(below) /\ Len(below) \in Nat \ {0}
    BY <1>3, <2>1 DEF IsList
  <2>3. 0 \in 0..(Len(below) - 1) /\ 0 % 2 = 0 /\ 0 \div 2 + 1 = 1 /\ 0 + 1 = 1 /\ 0 + 2 = 2
    BY <2>2
  <2>4. LevelUp(below)[0 \div 2 + 1] = <<below[0 + 1], Padded(below)[0 + 2]>>
    BY <2>2, <2>3, Parent
  <2>5. QED
    BY <2>1, <2>3, <2>4
<1>6. QED
  BY <1>3, <1>4, <1>5

\* With one root, the first hashes of two lists' levels are the same, counted
\* from the root.
LEMMA FirstsAgree ==
    ASSUME NEW a, IsList(a), NEW b, IsList(b), NEW g, IsHeight(a, g), NEW h, IsHeight(b, h),
           MerkleRoot(a) = MerkleRoot(b)
    PROVE  \A d \in Nat : d <= g /\ d <= h => Levels(a)[g - d][1] = Levels(b)[h - d][1]
<1> DEFINE S == {d \in Nat : d <= g /\ d <= h => Levels(a)[g - d][1] = Levels(b)[h - d][1]}
<1>1. g \in Nat /\ h \in Nat
  BY DEF IsHeight, IsList
<1>2. 0 \in S
  <2>1. Levels(a)[g][1] = Levels(b)[h][1]
    BY DEF IsHeight
  <2>2. g - 0 = g /\ h - 0 = h
    BY <1>1
  <2>3. QED
    BY <2>1, <2>2
<1>3. ASSUME NEW d \in Nat, d \in S PROVE d + 1 \in S
  <2> SUFFICES ASSUME d + 1 <= g, d + 1 <= h
               PROVE  Levels(a)[g - (d + 1)][1] = Levels(b)[h - (d + 1)][1]
    OBVIOUS
  <2>1. PICK i, j : i = g - (d + 1) /\ j = h - (d + 1)
    OBVIOUS
  <2>2. /\ i \in 0..(g - 1) /\ i + 1 = g - d
        /\ j \in 0..(h - 1) /\ j + 1 = h - d
        /\ d <= g /\ d <= h
    BY <1>1, <2>1
  <2>3. Levels(a)[i + 1][1] = Levels(b)[j + 1][1]
    BY <1>3, <2>2
  <2>4. Levels(a)[i + 1][1] = <<Levels(a)[i][1], Padded(Levels(a)[i])[2]>>
    BY <2>2, RoundBelow
  <2>5. Levels(b)[j + 1][1] = <<Levels(b)[j][1], Padded(Levels(b)[j])[2]>>
    BY <2>2, RoundBelow
  <2>6. Levels(a)[i][1] = Levels(b)[j][1]
    <3>1. \A s, t, u, v : <<s, t>> = <<u, v>> => s = u
      OBVIOUS
    <3>2. <<Levels(a)[i][1], Padded(Levels(a)[i])[2]>>
            = <<Levels(b)[j][1], Padded(Levels(b)[j])[2]>>
      BY <2>3, <2>4, <2>5, Zenon
    <3>3. QED
      BY <3>1, <3>2, Zenon
  <2>7. QED
    BY <2>1, <2>6
<1>4. QED
  <2> HIDE DEF S
  <2>1. \A d \in Nat : d \in S
    BY <1>2, <1>3, NatInductionSet
  <2>2. QED
    BY <2>1 DEF S

\* So the trees have one height: a leaf cannot be in the place of a pair.
LEMMA NotLower ==
    ASSUME NEW a, IsList(a), NoPair(a[1]), NEW b, IsList(b),
           NEW g, IsHeight(a, g), NEW h, IsHeight(b, h), MerkleRoot(a) = MerkleRoot(b)
    PROVE  ~(g < h)
<1> SUFFICES ASSUME g < h PROVE FALSE
  OBVIOUS
<1>1. Len(a) \in Nat \ {0}
  BY DEF IsList
<1>2. g \in Nat /\ h \in Nat
  BY DEF IsHeight, IsList
<1>3. PICK k : k = (h - g) - 1
  OBVIOUS
<1>4. k \in 0..(h - 1) /\ h - g = k + 1 /\ g - g = 0 /\ g <= g /\ g <= h
  BY <1>2, <1>3
<1>5. Levels(a)[g - g][1] = Levels(b)[h - g][1]
  BY <1>1, <1>2, <1>4, FirstsAgree
<1>6. a[1] = Levels(b)[k + 1][1]
  <2>1. Levels(a)[0] = a
    BY <1>1, LevelsExist
  <2>2. QED
    BY <1>4, <1>5, <2>1
<1>7. Levels(b)[k + 1][1] = <<Levels(b)[k][1], Padded(Levels(b)[k])[2]>>
  BY <1>1, <1>4, RoundBelow
<1>8. a[1] = <<Levels(b)[k][1], Padded(Levels(b)[k])[2]>>
  BY <1>6, <1>7, Zenon
<1>9. QED
  BY <1>8, Zenon DEF NoPair, Hash

\* b is a, or a with some of the hashes behind place p repeated at its end.
Repeats(a, b) ==
    \/ a = b
    \/ /\ Len(a) < Len(b)
       /\ \A i \in 1..Len(a) : b[i] = a[i]
       /\ \E p \in Nat :
            /\ p < Len(a)
            /\ Len(b) <= 2 * p
            /\ \A i \in (Len(a) + 1)..Len(b) : \E j \in 1..Len(a) : j > p /\ b[i] = a[j]

\* Equal pairs have equal halves.
LEMMA HalvesAgree ==
    ASSUME NEW a, IsList(a), NEW b, IsList(b),
           NEW s \in 1..((Len(a) + 1) \div 2), NEW t \in 1..((Len(b) + 1) \div 2),
           LevelUp(a)[s] = LevelUp(b)[t]
    PROVE  /\ Padded(a)[2 * s - 1] = Padded(b)[2 * t - 1]
           /\ Padded(a)[2 * s] = Padded(b)[2 * t]
<1>1. LevelUp(a)[s] = <<Padded(a)[2 * s - 1], Padded(a)[2 * s]>>
  BY LevelUpIs
<1>2. LevelUp(b)[t] = <<Padded(b)[2 * t - 1], Padded(b)[2 * t]>>
  BY LevelUpIs
<1>3. \A u, v, w, x : <<u, v>> = <<w, x>> => u = w /\ v = x
  OBVIOUS
<1>4. <<Padded(a)[2 * s - 1], Padded(a)[2 * s]>> = <<Padded(b)[2 * t - 1], Padded(b)[2 * t]>>
  BY <1>1, <1>2, Zenon
<1>5. QED
  BY <1>3, <1>4, Zenon

\* The last hash of a padded level stands for the last hash of the level.
LEMMA PaddedPlace ==
    ASSUME NEW l, IsList(l), NEW i \in 1..(2 * ((Len(l) + 1) \div 2))
    PROVE  \E j \in 1..Len(l) : /\ Padded(l)[i] = l[j]
                                /\ j = i \/ (j = Len(l) /\ i = Len(l) + 1)
<1> DEFINE n == (Len(l) + 1) \div 2
<1>1. Len(l) \in Nat \ {0} /\ n \in Nat
  BY Halves DEF IsList
<1>2. CASE i \in 1..Len(l)
  BY <1>2, PaddedIs
<1>3. CASE i \notin 1..Len(l)
  <2>1. Len(l) % 2 = 1 => Len(l) + 1 = 2 * n
    BY <1>1, Halves
  <2>2. Len(l) % 2 # 1 => Len(l) = 2 * n
    BY <1>1, Halves
  <2> HIDE DEF n
  <2>3. i \in 1..(2 * n)
    BY DEF n
  <2>4. Len(l) % 2 = 1 /\ i = Len(l) + 1
    BY <1>1, <1>3, <2>1, <2>2, <2>3
  <2>5. Padded(l)[i] = l[Len(l)]
    BY <2>4, PaddedIs
  <2>6. Len(l) \in 1..Len(l)
    BY <1>1
  <2>7. QED
    BY <2>4, <2>5, <2>6
<1>4. QED
  BY <1>2, <1>3

\* From one level to the one below.
LEMMA RepeatsBelow ==
    ASSUME NEW a, IsList(a), NEW b, IsList(b), Len(a) > 1, Len(a) <= Len(b),
           Repeats(LevelUp(a), LevelUp(b))
    PROVE  Repeats(a, b)
<1>1. PICK k, m : k = Len(a) /\ m = Len(b)
  OBVIOUS
<1>2. PICK n, o : n = (k + 1) \div 2 /\ o = (m + 1) \div 2
  OBVIOUS
<1>3. /\ k \in Nat /\ k > 1 /\ m \in Nat /\ k <= m
      /\ n \in Nat /\ (k + 1 = 2 * n \/ k = 2 * n)
      /\ o \in Nat /\ (m + 1 = 2 * o \/ m = 2 * o)
  <2>1. k \in Nat /\ m \in Nat /\ k > 1 /\ k <= m
    BY <1>1 DEF IsList
  <2>2. n \in Nat /\ (k + 1 = 2 * n \/ k = 2 * n)
    BY <1>2, <2>1, Halves
  <2>3. o \in Nat /\ (m + 1 = 2 * o \/ m = 2 * o)
    BY <1>2, <2>1, Halves
  <2>4. QED
    BY <2>1, <2>2, <2>3
<1>4. Len(LevelUp(a)) = n /\ Len(LevelUp(b)) = o
  BY <1>1, <1>2, LevelUpIs
<1>5. n <= o
  BY <1>3
<1>6. \A i \in 1..n : LevelUp(a)[i] = LevelUp(b)[i]
  BY <1>4 DEF Repeats
\* The hashes of b, as far as those of a reach.
<1>7. ASSUME NEW i \in 1..(2 * n) PROVE Padded(a)[i] = Padded(b)[i]
  <2>1. PICK s : s = (i + 1) \div 2
    OBVIOUS
  <2>2. s \in Nat /\ (i + 1 = 2 * s \/ i = 2 * s)
    BY <1>3, <2>1, Halves
  <2>3. s \in 1..n /\ s \in 1..o /\ (i = 2 * s - 1 \/ i = 2 * s)
    BY <1>3, <1>5, <2>2
  <2>4. Padded(a)[2 * s - 1] = Padded(b)[2 * s - 1] /\ Padded(a)[2 * s] = Padded(b)[2 * s]
    BY <1>1, <1>2, <1>6, <2>3, HalvesAgree
  <2>5. QED
    BY <2>3, <2>4
<1>8. \A i \in 1..m : Padded(b)[i] = b[i]
  BY <1>1, PaddedIs
<1>9. \A i \in 1..k : b[i] = a[i]
  <2>1. SUFFICES ASSUME NEW i \in 1..k PROVE b[i] = a[i]
    OBVIOUS
  <2>2. i \in 1..(2 * n) /\ i \in 1..m
    BY <1>3
  <2>3. Padded(a)[i] = a[i]
    BY <1>1, PaddedIs
  <2>4. QED
    BY <1>7, <1>8, <2>2, <2>3
\* Where the next hash of b comes from when a is odd.
<1>10. ASSUME k < m, k + 1 = 2 * n PROVE b[k + 1] = a[k]
  <2>1. k + 1 \in 1..(2 * n) /\ k + 1 \in 1..m
    BY <1>3, <1>10
  <2>2. ASSUME NEW i \in 1..(2 * n)
        PROVE  \E j \in 1..k : Padded(a)[i] = a[j] /\ (j = i \/ (j = k /\ i = k + 1))
    BY <1>1, <1>2, PaddedPlace
  <2>3. Padded(a)[k + 1] = a[k]
    <3>1. PICK j \in 1..k : Padded(a)[k + 1] = a[j] /\ (j = k + 1 \/ j = k)
      BY <2>1, <2>2
    <3>2. j = k
      BY <1>3, <3>1
    <3>3. QED
      BY <3>1, <3>2
  <2>4. QED
    BY <1>7, <1>8, <2>1, <2>3
<1>11. CASE k = m
  <2>1. a = b
    <3>1. a = [i \in 1..k |-> a[i]] /\ b = [i \in 1..k |-> b[i]]
      BY <1>1, <1>11 DEF IsList
    <3>2. QED
      BY <1>9, <3>1
  <2>2. QED
    BY <2>1 DEF Repeats
<1>12. CASE k < m /\ LevelUp(a) = LevelUp(b)
  <2>1. n = o
    BY <1>4, <1>12
  <2>2. k + 1 = 2 * n /\ m = k + 1 /\ m <= 2 * n /\ n < k
    BY <1>3, <1>12, <2>1
  <2>3. b[k + 1] = a[k]
    BY <1>10, <1>12, <2>2
  <2>4. \A i \in (k + 1)..m : \E j \in 1..k : j > n /\ b[i] = a[j]
    <3>1. (k + 1)..m = {k + 1} /\ k \in 1..k
      BY <1>3, <2>2
    <3>2. k > n
      BY <1>3, <2>2
    <3>3. QED
      BY <2>3, <3>1, <3>2
  <2>5. QED
    BY <1>1, <1>3, <1>9, <1>12, <2>2, <2>4 DEF Repeats
<1>13. CASE k < m /\ LevelUp(a) # LevelUp(b)
  <2>1. PICK p \in Nat :
          /\ p < n /\ o <= 2 * p /\ n < o
          /\ \A i \in (n + 1)..o : \E j \in 1..n : j > p /\ LevelUp(b)[i] = LevelUp(a)[j]
    BY <1>4, <1>13 DEF Repeats
  <2>2. 2 * p \in Nat /\ 2 * p < k /\ m <= 2 * (2 * p)
    BY <1>3, <2>1
  <2>3. ASSUME NEW i \in (k + 1)..m PROVE \E j \in 1..k : j > 2 * p /\ b[i] = a[j]
    <3>1. CASE i \in 1..(2 * n)
      <4>1. i = k + 1 /\ k + 1 = 2 * n
        BY <1>3, <3>1
      <4>2. b[k + 1] = a[k]
        BY <1>10, <1>13, <4>1
      <4>3. k \in 1..k /\ k > 2 * p
        BY <1>3, <2>2
      <4>4. QED
        BY <4>1, <4>2, <4>3
    <3>2. CASE i \notin 1..(2 * n)
      <4>0. i \in Nat /\ i > 2 * n /\ i <= m /\ i \in 1..m
        BY <1>3, <3>2
      <4>1. PICK t : t = (i + 1) \div 2
        OBVIOUS
      <4>2. t \in Nat /\ (i + 1 = 2 * t \/ i = 2 * t)
        BY <4>0, <4>1, Halves
      <4>3. t \in (n + 1)..o /\ t \in 1..o
        BY <1>3, <4>0, <4>2
      <4>4. PICK s \in 1..n : s > p /\ LevelUp(b)[t] = LevelUp(a)[s]
        BY <2>1, <4>3
      <4>5. Padded(b)[2 * t - 1] = Padded(a)[2 * s - 1] /\ Padded(b)[2 * t] = Padded(a)[2 * s]
        BY <1>1, <1>2, <4>3, <4>4, HalvesAgree
      <4>6. PICK c \in {2 * s - 1, 2 * s} : Padded(b)[i] = Padded(a)[c]
        <5>1. i = 2 * t - 1 \/ i = 2 * t
          BY <4>0, <4>2
        <5>2. QED
          BY <4>5, <5>1
      <4>7. c \in 1..(2 * n) /\ c > 2 * p
        BY <1>3, <2>1, <4>4
      <4>8. PICK j \in 1..k : Padded(a)[c] = a[j] /\ (j = c \/ (j = k /\ c = k + 1))
        BY <1>1, <1>2, <4>7, PaddedPlace
      <4>9. j > 2 * p
        BY <2>2, <1>3, <4>7, <4>8
      <4>10. b[i] = a[j]
        BY <1>8, <4>0, <4>6, <4>8
      <4>11. QED
        BY <4>9, <4>10
    <3>3. QED
      BY <3>1, <3>2
  <2>4. QED
    BY <1>1, <1>9, <1>13, <2>2, <2>3 DEF Repeats
<1>14. QED
  BY <1>3, <1>11, <1>12, <1>13

\* The levels of a longer list are not shorter.
LEMMA LongerStaysLonger ==
    ASSUME NEW a, IsList(a), NEW b, IsList(b), Len(a) <= Len(b),
           NEW h, IsHeight(a, h), IsHeight(b, h)
    PROVE  \A k \in 0..h : Len(Levels(a)[k]) <= Len(Levels(b)[k])
<1> DEFINE S == {k \in Nat : k <= h => Len(Levels(a)[k]) <= Len(Levels(b)[k])}
<1>1. h \in Nat /\ h \in 0..Len(a) /\ h \in 0..Len(b)
  BY DEF IsHeight, IsList
<1>2. 0 \in S
  <2>1. Levels(a)[0] = a /\ Levels(b)[0] = b
    BY LevelsExist DEF IsList
  <2>2. QED
    BY <2>1
<1>3. ASSUME NEW k \in Nat, k \in S PROVE k + 1 \in S
  <2> SUFFICES ASSUME k + 1 <= h PROVE Len(Levels(a)[k + 1]) <= Len(Levels(b)[k + 1])
    OBVIOUS
  <2>1. k \in 0..(h - 1) /\ k <= h
    BY <1>1
  <2>2. PICK c, d : c = Levels(a)[k] /\ d = Levels(b)[k]
    OBVIOUS
  <2>3. IsList(c) /\ IsList(d) /\ Levels(a)[k + 1] = LevelUp(c) /\ Levels(b)[k + 1] = LevelUp(d)
    BY <2>1, <2>2, RoundBelow
  <2>4. Len(c) \in Nat /\ Len(d) \in Nat /\ Len(c) <= Len(d)
    BY <1>3, <2>1, <2>2, <2>3 DEF IsList
  <2>5. Len(LevelUp(c)) = (Len(c) + 1) \div 2 /\ Len(LevelUp(d)) = (Len(d) + 1) \div 2
    BY <2>3, LevelUpIs
  <2>6. \A m, n \in Nat : m <= n => (m + 1) \div 2 <= (n + 1) \div 2
    BY Halves
  <2>7. QED
    BY <2>3, <2>4, <2>5, <2>6
<1>4. \A k \in Nat : k \in S
  <2> HIDE DEF S
  <2>1. QED
    BY <1>2, <1>3, NatInductionSet
<1>5. QED
  BY <1>1, <1>4

\* With one root and one height, the longer list repeats the end of the shorter.
LEMMA RootRepeats ==
    ASSUME NEW a, IsList(a), NEW b, IsList(b), Len(a) <= Len(b),
           NEW h, IsHeight(a, h), IsHeight(b, h), MerkleRoot(a) = MerkleRoot(b)
    PROVE  Repeats(a, b)
<1> DEFINE S == {d \in Nat : d <= h => Repeats(Levels(a)[h - d], Levels(b)[h - d])}
<1>1. h \in Nat /\ h \in 0..Len(a) /\ h \in 0..Len(b)
  BY DEF IsHeight, IsList
<1>2. 0 \in S
  <2>1. PICK c, d : c = Levels(a)[h] /\ d = Levels(b)[h]
    OBVIOUS
  <2>2. Len(c) = 1 /\ Len(d) = 1 /\ c[1] = d[1]
    BY <2>1 DEF IsHeight
  <2>3. IsList(c) /\ IsList(d)
    BY <1>1, <2>1, LevelsAreLists
  <2>4. c = [i \in 1..1 |-> c[i]] /\ d = [i \in 1..1 |-> d[i]]
    BY <2>2, <2>3 DEF IsList
  <2>5. c = d
    BY <2>2, <2>4
  <2>6. h - 0 = h
    BY <1>1
  <2>7. Repeats(Levels(a)[h - 0], Levels(b)[h - 0])
    BY <2>1, <2>5, <2>6 DEF Repeats
  <2>8. QED
    BY <2>7
<1>3. ASSUME NEW d \in Nat, d \in S PROVE d + 1 \in S
  <2> SUFFICES ASSUME d + 1 <= h
               PROVE  Repeats(Levels(a)[h - (d + 1)], Levels(b)[h - (d + 1)])
    OBVIOUS
  <2>1. PICK k : k = h - (d + 1)
    OBVIOUS
  <2>2. k \in 0..(h - 1) /\ k \in 0..h /\ k + 1 = h - d /\ d <= h
    BY <1>1, <2>1
  <2>3. Repeats(Levels(a)[k + 1], Levels(b)[k + 1])
    BY <1>3, <2>2
  <2>4. /\ IsList(Levels(a)[k]) /\ Len(Levels(a)[k]) > 1
        /\ Levels(a)[k + 1] = LevelUp(Levels(a)[k])
    BY <2>2, RoundBelow
  <2>5. IsList(Levels(b)[k]) /\ Levels(b)[k + 1] = LevelUp(Levels(b)[k])
    BY <2>2, RoundBelow
  <2>6. Len(Levels(a)[k]) <= Len(Levels(b)[k])
    BY <2>2, LongerStaysLonger
  <2>7. Repeats(LevelUp(Levels(a)[k]), LevelUp(Levels(b)[k]))
    BY <2>3, <2>4, <2>5
  <2>8. Repeats(Levels(a)[k], Levels(b)[k])
    BY <2>4, <2>5, <2>6, <2>7, RepeatsBelow
  <2>9. QED
    BY <2>1, <2>8
<1>4. \A d \in Nat : d \in S
  <2> HIDE DEF S
  <2>1. QED
    BY <1>2, <1>3, NatInductionSet
<1>5. h \in S /\ h - h = 0 /\ h <= h
  BY <1>1, <1>4
<1>6. Repeats(Levels(a)[0], Levels(b)[0])
  BY <1>5
<1>7. Levels(a)[0] = a /\ Levels(b)[0] = b
  BY LevelsExist DEF IsList
<1>8. QED
  BY <1>6, <1>7

\* Trees with one root have one height.
LEMMA OneHeight ==
    ASSUME NEW a, IsList(a), NoPair(a[1]), NEW b, IsList(b), NoPair(b[1]),
           MerkleRoot(a) = MerkleRoot(b), Len(a) <= Len(b)
    PROVE  Repeats(a, b)
<1>1. PICK g : IsHeight(a, g)
  BY HeightExists
<1>2. PICK h : IsHeight(b, h)
  BY HeightExists
<1>3. ~(g < h) /\ ~(h < g)
  BY <1>1, <1>2, NotLower
<1>4. g \in Nat /\ h \in Nat
  BY <1>1, <1>2 DEF IsHeight, IsList
<1>5. g = h
  BY <1>3, <1>4
<1>6. QED
  BY <1>1, <1>2, <1>5, RootRepeats

\* The root of merkle_root and the number of leaves fix the list; of two lists
\* with one root the longer one is the shorter one with leaves of its second
\* half repeated at the end, and nothing else.
THEOREM RootFixesLeavesThm ==
    ASSUME NoLeafIsAPair
    PROVE  ProofSpec => []RootFixesLeaves
<1>1. ProofInv => RootFixesLeaves
  <2> SUFFICES ASSUME leaves \in Lists, NEW other \in Lists,
                      MerkleRoot(other) = MerkleRoot(leaves)
               PROVE  /\ Len(other) = Len(leaves) => other = leaves
                      /\ Len(other) > Len(leaves) =>
                           /\ IsPrefix(leaves, other)
                           /\ \A i \in (Len(leaves) + 1)..Len(other) :
                                \E j \in 1..Len(leaves) :
                                  2 * j > Len(leaves) /\ other[i] = leaves[j]
    BY DEF RootFixesLeaves, ProofInv, Shape
  <2>1. /\ IsList(leaves) /\ Len(leaves) \in Nat
        /\ IsList(other) /\ Len(other) \in Nat
    BY ListsAre DEF IsList
  <2>2. \A l \in Lists : l[1] \in Values
    <3> SUFFICES ASSUME NEW l \in Lists PROVE l[1] \in Values
      OBVIOUS
    <3>1. PICK n \in 0..MaxLeaves : l \in [1..n -> Values]
      BY ProofAssumption DEF Lists, BoundedSeq, SeqOf
    <3>2. n \in Nat /\ l = [i \in 1..n |-> l[i]]
      BY <3>1, ProofAssumption
    <3>3. Len(l) = n /\ Len(l) \in Nat \ {0}
      BY <3>2, ListsAre DEF IsList
    <3>4. 1 \in 1..n
      BY <3>2, <3>3
    <3>5. QED
      BY <3>1, <3>4
  <2>3. NoPair(leaves[1]) /\ NoPair(other[1])
    BY <2>2 DEF NoLeafIsAPair
  <2>4. ASSUME Len(leaves) <= Len(other) PROVE Repeats(leaves, other)
    BY <2>1, <2>3, <2>4, OneHeight
  <2>6. ASSUME Len(other) = Len(leaves) PROVE other = leaves
    <3>1. Repeats(leaves, other)
      BY <2>1, <2>4, <2>6
    <3>2. QED
      BY <2>1, <2>6, <3>1 DEF Repeats
  <2>7. ASSUME Len(other) > Len(leaves)
        PROVE  /\ IsPrefix(leaves, other)
               /\ \A i \in (Len(leaves) + 1)..Len(other) :
                    \E j \in 1..Len(leaves) : 2 * j > Len(leaves) /\ other[i] = leaves[j]
    <3>1. Repeats(leaves, other) /\ other # leaves
      BY <2>1, <2>4, <2>7
    <3>2. \A i \in 1..Len(leaves) : other[i] = leaves[i]
      BY <3>1 DEF Repeats
    <3>3. PICK p \in Nat :
            /\ p < Len(leaves)
            /\ Len(other) <= 2 * p
            /\ \A i \in (Len(leaves) + 1)..Len(other) :
                 \E j \in 1..Len(leaves) : j > p /\ other[i] = leaves[j]
      BY <3>1 DEF Repeats
    <3>4. ASSUME NEW i \in (Len(leaves) + 1)..Len(other)
          PROVE  \E j \in 1..Len(leaves) : 2 * j > Len(leaves) /\ other[i] = leaves[j]
      <4>1. PICK j \in 1..Len(leaves) : j > p /\ other[i] = leaves[j]
        BY <3>3
      <4>2. 2 * j > Len(leaves)
        BY <2>1, <2>7, <3>3, <4>1
      <4>3. QED
        BY <4>1, <4>2
    <3>5. IsPrefix(leaves, other)
      <4>1. SubSeq(leaves, 1, Len(leaves)) = SubSeq(other, 1, Len(leaves))
        BY <2>1, <2>7, <3>2 DEF IsList
      <4>2. Len(leaves) <= Len(other)
        BY <2>1, <2>7
      <4>3. QED
        BY <4>1, <4>2 DEF IsPrefix
    <3>6. QED
      BY <3>4, <3>5
  <2>8. QED
    BY <2>6, <2>7
<1>2. QED
  BY ProofInvHolds, <1>1, PTL

-----------------------------------------------------------------------------
(***************************************************************************)
(* What a client sees in receipt_root.                                     *)
(***************************************************************************)

\* Object ids are the keys of the catalog, and there are finitely many.
LEMMA FiniteCatalog ==
    ASSUME TypeOK
    PROVE  IsFiniteSet(catalog)
<1> DEFINE key == [r \in catalog |-> r.id]
<1>1. key \in Injection(catalog, Ids)
  BY DEF TypeOK, Receipts, Injection, IsInjective
<1>2. IsFiniteSet(Ids)
  BY FS_Interval, StorageAssumption DEF Ids
<1>3. QED
  BY <1>1, <1>2, FS_Injection

\* A list has at least one receipt, if there is one to list.
LEMMA ClampIs ==
    ASSUME NEW limit \in Nat
    PROVE  Clamp(limit) \in Nat \ {0}
<1>1. PICK m : m = Max({limit, 1})
  OBVIOUS
<1>2. m \in Nat \ {0}
  <2>1. \E x \in {limit, 1} : \A y \in {limit, 1} : x >= y
    OBVIOUS
  <2>2. m \in {limit, 1} /\ \A y \in {limit, 1} : m >= y
    BY <1>1, <2>1 DEF Max
  <2>3. QED
    BY <2>2
<1>3. \E x \in {m, MaxListed} : \A y \in {m, MaxListed} : x <= y
  BY <1>2, StorageAssumption
<1>4. Clamp(limit) \in {m, MaxListed}
  BY <1>1, <1>3 DEF Clamp, Min
<1>5. QED
  BY <1>2, <1>4, StorageAssumption

\* A receipt has more than two fields.
LEMMA ReceiptIsNoPair ==
    ASSUME NEW r \in Receipts
    PROVE  NoPair(r)
<1> SUFFICES ASSUME NEW left, NEW right, r = <<left, right>> PROVE FALSE
  BY DEF NoPair, Hash
<1>1. "id" \in DOMAIN r /\ "owner" \in DOMAIN r /\ "name" \in DOMAIN r
  BY DEF Receipts
<1>2. DOMAIN <<left, right>> = 1..2
  OBVIOUS
<1>3. 1..2 = {1, 2}
  OBVIOUS
<1>4. QED
  BY <1>1, <1>2, <1>3

\* list_owner, for the receipts S of an owner.
Newest(S, limit) ==
    {SubSeq(s, 1, Min({Len(s), Clamp(limit)})) :
        s \in {s \in SetToSeqs(S) :
               \A i, j \in 1..Len(s) : i < j => s[i].created >= s[j].created}}

\* A receipt is missing from the list only if the list is full of receipts
\* dated no earlier.
LEMMA NewestIs ==
    ASSUME NEW S \in SUBSET Receipts, IsFiniteSet(S), NEW limit \in Nat,
           NEW t \in Newest(S, limit)
    PROVE  /\ t \in Seq(S)
           /\ S # {} => Len(t) # 0
           /\ \A r \in S : (\A i \in 1..Len(t) : t[i] # r) =>
                Cardinality({q \in S : q # r /\ q.created >= r.created}) >= Clamp(limit)
<1>1. PICK c : c = Clamp(limit)
  OBVIOUS
<1>2. PICK n : n = Cardinality(S)
  OBVIOUS
<1>3. c \in Nat \ {0} /\ n \in Nat
  BY <1>1, <1>2, ClampIs, FS_CardinalityType
<1>4. PICK s \in SetToSeqs(S) :
        /\ \A i, j \in 1..Len(s) : i < j => s[i].created >= s[j].created
        /\ t = SubSeq(s, 1, Min({Len(s), c}))
  BY <1>1 DEF Newest
<1>5. s \in [1..n -> S] /\ \A i, j \in 1..n : i # j => s[i] # s[j]
  BY <1>2, <1>4 DEF SetToSeqs
<1>6. s \in Seq(S) /\ Len(s) = n
  BY <1>3, <1>5
<1>7. PICK m : m = Min({n, c})
  OBVIOUS
<1>8. m \in Nat /\ m <= n /\ (m = n \/ m = c)
  <2>1. \E x \in {n, c} : \A y \in {n, c} : x <= y
    BY <1>3
  <2>2. m \in {n, c} /\ \A y \in {n, c} : m <= y
    BY <1>7, <2>1 DEF Min
  <2>3. QED
    BY <1>3, <2>2
<1>9. t \in Seq(S) /\ Len(t) = m /\ \A i \in 1..m : t[i] = s[i]
  <2>1. t = SubSeq(s, 1, m)
    BY <1>4, <1>6, <1>7
  <2>2. QED
    BY <1>6, <1>8, <2>1
<1>10. IsFiniteSet(1..n) /\ Cardinality(1..n) = n
  BY <1>3, FS_Interval
<1>11. s \in Surjection(1..n, S)
  <2>1. s \in Injection(1..n, S)
    BY <1>5 DEF Injection, IsInjective
  <2>2. QED
    BY <1>2, <1>10, <2>1, FS_Injection
<1>12. S # {} => Len(t) # 0
  <2>1. S # {} => n # 0
    BY <1>2, FS_EmptySet
  <2>2. QED
    BY <1>3, <1>8, <1>9, <2>1
<1>13. ASSUME NEW r \in S, \A i \in 1..Len(t) : t[i] # r
       PROVE  Cardinality({q \in S : q # r /\ q.created >= r.created}) >= c
  <2> DEFINE T == {q \in S : q # r /\ q.created >= r.created}
             g == [i \in 1..c |-> s[i]]
  <2>1. PICK k \in 1..n : s[k] = r
    BY <1>11 DEF Surjection
  <2>2. m = c /\ m < k
    <3>1. k \notin 1..m
      BY <1>9, <1>13, <2>1
    <3>2. QED
      BY <1>3, <1>8, <3>1
  <2>3. \A i \in 1..c : i \in 1..n /\ i < k
    BY <1>3, <1>8, <2>2
  <2>4. ASSUME NEW i \in 1..c PROVE s[i] \in T
    <3>1. s[i] \in S /\ s[i] # r
      BY <1>5, <2>1, <2>3
    <3>2. s[i].created >= s[k].created
      BY <1>4, <1>6, <2>3
    <3>3. QED
      BY <2>1, <3>1, <3>2
  <2>5. g \in Injection(1..c, T)
    <3> HIDE DEF T
    <3>1. g \in [1..c -> T]
      BY <2>4
    <3>2. \A i, j \in 1..c : g[i] = g[j] => i = j
      BY <1>5, <2>3
    <3>3. QED
      BY <3>1, <3>2 DEF Injection, IsInjective
  <2>6. IsFiniteSet(T) /\ Cardinality(T) \in Nat
    <3>1. T \in SUBSET S
      OBVIOUS
    <3> HIDE DEF T
    <3>2. QED
      BY <3>1, FS_Subset, FS_CardinalityType
  <2>7. Cardinality(1..c) <= Cardinality(T) /\ Cardinality(1..c) = c
    <3> HIDE DEF T, g
    <3>1. Cardinality(1..c) <= Cardinality(T)
      BY <2>5, <2>6, FS_Injection
    <3>2. Cardinality(1..c) = c
      BY <1>3, FS_Interval
    <3>3. QED
      BY <3>1, <3>2
  <2>8. QED
    BY <1>3, <2>6, <2>7
<1>14. QED
  BY <1>1, <1>9, <1>12, <1>13

\* Only AddReceipt changes the catalog, by the receipt of its worker.
LEMMA CatalogGrows ==
    ASSUME [Next]_vars
    PROVE  catalog' = catalog \/ \E x : catalog' = catalog \cup {x}
  BY DEF Next, LoadKey, GenerateKey, LinkKey, PutObject, AddReceipt, FailAdd, Crash,
         Rekey, Damage, vars, disk

\* What RootTracksReceipts says of a step.
Tracked(owner, limit) ==
    LET added == {r \in catalog' \ catalog : r.owner = owner}
        before == ReceiptRoot(owner, limit)
        after == ReceiptRoot(owner, limit)'
    IN /\ added = {} => after = before
       /\ \A r \in added :
            \/ before \cap after = {}
            \/ Cardinality({s \in catalog : s.owner = owner /\ s.created >= r.created})
                 >= Clamp(limit)

LEMMA StepTracked ==
    ASSUME IInv, [Next]_vars, NEW owner \in Owners, NEW limit \in Nat
    PROVE  Tracked(owner, limit)
<1>1. PICK S : S = {r \in catalog : r.owner = owner}
  OBVIOUS
<1>2. PICK S1 : S1 = {r \in catalog' : r.owner = owner}
  OBVIOUS
<1>3. /\ ReceiptRoot(owner, limit)
           = {[count |-> Len(s), root |-> MerkleRoot(s)] : s \in Newest(S, limit)}
      /\ ReceiptRoot(owner, limit)'
           = {[count |-> Len(s), root |-> MerkleRoot(s)] : s \in Newest(S1, limit)}
  BY <1>1, <1>2 DEF ReceiptRoot, ListOwner, Newest
<1>4. /\ S \in SUBSET Receipts /\ IsFiniteSet(S)
      /\ S1 \in SUBSET Receipts /\ IsFiniteSet(S1)
  <2>1. TypeOK /\ TypeOK'
    BY StepIInv DEF IInv
  <2>2. IsFiniteSet(catalog) /\ catalog \subseteq Receipts
    BY <2>1, FiniteCatalog DEF TypeOK
  <2>3. IsFiniteSet(catalog') /\ catalog' \subseteq Receipts
    <3>1. IsFiniteSet(catalog)'
      BY <2>1, FiniteCatalog, PTL
    <3>2. QED
      BY <2>1, <3>1 DEF TypeOK
  <2>4. QED
    BY <1>1, <1>2, <2>2, <2>3, FS_Subset
<1>5. CASE {r \in catalog' \ catalog : r.owner = owner} = {}
  <2>1. S1 = S
    BY <1>1, <1>2, <1>5, CatalogGrows
  <2>2. QED
    BY <1>3, <1>5, <2>1 DEF Tracked
<1>6. ASSUME NEW r \in catalog' \ catalog, r.owner = owner,
             ReceiptRoot(owner, limit) \cap ReceiptRoot(owner, limit)' # {}
      PROVE  Cardinality({s \in catalog : s.owner = owner /\ s.created >= r.created})
               >= Clamp(limit)
  <2>1. PICK s \in Newest(S, limit), t \in Newest(S1, limit) :
          Len(s) = Len(t) /\ MerkleRoot(s) = MerkleRoot(t)
    <3>1. PICK x : x \in ReceiptRoot(owner, limit) /\ x \in ReceiptRoot(owner, limit)'
      BY <1>6
    <3>2. PICK s \in Newest(S, limit) : x = [count |-> Len(s), root |-> MerkleRoot(s)]
      BY <1>3, <3>1
    <3>3. PICK t \in Newest(S1, limit) : x = [count |-> Len(t), root |-> MerkleRoot(t)]
      BY <1>3, <3>1
    <3>4. x.count = Len(s) /\ x.root = MerkleRoot(s) /\ x.count = Len(t) /\ x.root = MerkleRoot(t)
      BY <3>2, <3>3
    <3>5. QED
      BY <3>4
  <2>2. r \in S1 /\ r \notin S /\ S1 \ {r} = S
    BY <1>1, <1>2, <1>6, CatalogGrows
  <2>3. s \in Seq(S) /\ t \in Seq(S1) /\ Len(t) # 0
    BY <1>4, <2>2, NewestIs
  <2>4. IsList(s) /\ IsList(t) /\ NoPair(s[1]) /\ NoPair(t[1])
    <3>1. IsList(s) /\ IsList(t) /\ 1 \in 1..Len(s) /\ 1 \in 1..Len(t)
      BY <2>1, <2>3 DEF IsList
    <3>2. s[1] \in Receipts /\ t[1] \in Receipts
      BY <1>4, <2>3, <3>1
    <3>3. QED
      BY <3>1, <3>2, ReceiptIsNoPair
  <2>5. s = t
    <3>1. Repeats(s, t)
      BY <2>1, <2>3, <2>4, OneHeight
    <3>2. QED
      BY <2>1, <2>3, <3>1 DEF Repeats
  <2>6. \A i \in 1..Len(t) : t[i] # r
    BY <2>2, <2>3, <2>5
  <2>7. Cardinality({q \in S1 : q # r /\ q.created >= r.created}) >= Clamp(limit)
    BY <1>4, <2>2, <2>6, NewestIs
  <2>8. {q \in S1 : q # r /\ q.created >= r.created}
          = {q \in catalog : q.owner = owner /\ q.created >= r.created}
    BY <1>1, <2>2
  <2>9. QED
    BY <2>7, <2>8
<1>7. QED
  BY <1>5, <1>6 DEF Tracked

\* receipt_root: a client who compares roots and counts misses no receipt, at
\* any limit, and is never alarmed without one.
THEOREM RootTracksReceiptsThm == Spec => RootTracksReceipts
<1>1. IInv /\ [Next]_vars => [\A owner \in Owners, limit \in 0..MaxUploads : Tracked(owner, limit)]_vars
  BY StepTracked, StorageAssumption
<1>2. RootTracksReceipts <=> [][\A owner \in Owners, limit \in 0..MaxUploads : Tracked(owner, limit)]_vars
  BY DEF RootTracksReceipts, Tracked
<1>3. QED
  BY Inductive, <1>1, <1>2, PTL DEF Spec

=============================================================================
