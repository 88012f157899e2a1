------------------------- MODULE VaultServerProofs -------------------------
(***************************************************************************)
(* Proofs about the vault server and the two components it composes.       *)
(* First the receipt chain by itself (ReceiptChain: Spec), for any         *)
(* emitters, any assignment of them to connections and any number of emit  *)
(* calls; then the access list and the whole server (ServerSpec), for any  *)
(* processes, rules, inodes, threads, models, requests and bounds.  The    *)
(* server takes part in the chain by ReceiptChain's own steps, so what is  *)
(* proved of the chain carries over.                                       *)
(***************************************************************************)
EXTENDS VaultServer, SequenceTheorems, TLAPS

-----------------------------------------------------------------------------
(***************************************************************************)
(* Types and writers.                                                      *)
(***************************************************************************)

\* TypeOK but for the rows being inserted once, which needs IdsOnce below.
Typed ==
    /\ rows \in Seq(Rows)
    /\ pending \in [Connections -> Seq(Rows)]
    /\ pc \in [Emitters -> {"idle", "signed", "inserted"}]
    /\ row \in [Emitters -> Rows \cup {NoRow}]
    /\ \A e \in Emitters : pc[e] # "idle" => row[e] \in Rows
    /\ calls \in 0..MaxRows
    /\ returned \subseteq 1..MaxRows
    /\ overlapped \in BOOLEAN
    /\ undone \subseteq 1..MaxRows

LEMMA IdsTyped ==
    ASSUME NEW table \in Seq(Rows)
    PROVE  Ids(table) \subseteq 1..MaxRows
<1>1. \A i \in 1..Len(table) : table[i] \in Rows
  BY ElementOfSeq
<1>2. QED
  BY <1>1 DEF Ids, Rows

\* The signature a new row is chained to is that of a row or the genesis value.
LEMMA LastSigTyped ==
    ASSUME Typed, NEW c \in Connections
    PROVE  LastSig(c) \in 0..MaxRows
<1> DEFINE table == rows \o pending[c]
<1>1. table \in Seq(Rows)
  BY ConcatProperties DEF Typed
<1>2. CASE table = <<>>
  BY <1>2, ChainAssumption DEF LastSig, Genesis
<1>3. CASE table # <<>>
  <2>1. Len(table) \in 1..Len(table)
    BY <1>1, <1>3, EmptySeq
  <2>2. table[Len(table)] \in Rows
    BY <1>1, <2>1, ElementOfSeq
  <2>3. QED
    BY <1>3, <2>2 DEF LastSig, Rows
<1>4. QED
  BY <1>2, <1>3

LEMMA InitTyped == Init => Typed
<1>1. <<>> \in Seq(Rows)
  BY EmptySeq
<1>2. SUFFICES ASSUME Init PROVE Typed
  OBVIOUS
<1>3. rows \in Seq(Rows) /\ pending \in [Connections -> Seq(Rows)]
  BY <1>1, <1>2 DEF Init
<1>4. /\ pc \in [Emitters -> {"idle", "signed", "inserted"}]
      /\ row \in [Emitters -> Rows \cup {NoRow}]
      /\ \A e \in Emitters : pc[e] # "idle" => row[e] \in Rows
  BY <1>2 DEF Init
<1>5. calls \in 0..MaxRows
  BY <1>2, ChainAssumption DEF Init
<1>6. /\ returned \subseteq 1..MaxRows
      /\ overlapped \in BOOLEAN
      /\ undone \subseteq 1..MaxRows
  BY <1>2, Zenon DEF Init
<1>7. QED
  BY <1>3, <1>4, <1>5, <1>6 DEF Typed

LEMMA NextTyped == Typed /\ [Next]_vars => Typed'
<1> SUFFICES ASSUME Typed, [Next]_vars PROVE Typed'
  OBVIOUS
<1> USE ChainAssumption
<1>1. ASSUME NEW e \in Emitters, Select(e) PROVE Typed'
  <2>1. [id |-> calls + 1, prev |-> LastSig(ConnOf[e])] \in Rows
    <3>1. LastSig(ConnOf[e]) \in 0..MaxRows
      BY LastSigTyped
    <3>2. calls + 1 \in 1..MaxRows
      BY <1>1 DEF Select, Typed
    <3>3. QED
      BY <3>1, <3>2 DEF Rows
  <2>2. QED
    BY <1>1, <2>1 DEF Select, Typed
<1>2. ASSUME NEW e \in Emitters, Insert(e) PROVE Typed'
  <2>1. Append(pending[ConnOf[e]], row[e]) \in Seq(Rows)
    BY <1>2, AppendProperties DEF Insert, Typed
  <2>2. QED
    BY <1>2, <2>1 DEF Insert, Typed
<1>3. ASSUME NEW e \in Emitters, Commit(e) PROVE Typed'
  <2>1. rows \o pending[ConnOf[e]] \in Seq(Rows) /\ <<>> \in Seq(Rows)
    BY ConcatProperties, EmptySeq DEF Typed
  <2>2. row[e].id \in 1..MaxRows
    BY <1>3 DEF Commit, Typed, Rows
  <2>3. QED
    BY <1>3, <2>1, <2>2 DEF Commit, Typed
<1>4. ASSUME NEW e \in Emitters, Fail(e) PROVE Typed'
  <2>1. Ids(pending[ConnOf[e]]) \subseteq 1..MaxRows /\ <<>> \in Seq(Rows)
    BY IdsTyped, EmptySeq DEF Typed
  <2>2. QED
    BY <1>4, <2>1 DEF Fail, Typed
<1>5. ASSUME NEW c \in Connections, Crash(c) PROVE Typed'
  <2>1. Ids(pending[c]) \subseteq 1..MaxRows /\ <<>> \in Seq(Rows)
    BY IdsTyped, EmptySeq DEF Typed
  <2>2. QED
    BY <1>5, <2>1 DEF Crash, Typed
<1>6. CASE UNCHANGED vars
  BY <1>6 DEF vars, Typed
<1>7. QED
  BY <1>1, <1>2, <1>3, <1>4, <1>5, <1>6 DEF Next

LEMMA NextOneWriter == Typed /\ OneWriter /\ [Next]_vars => OneWriter'
<1> SUFFICES ASSUME Typed, OneWriter, [Next]_vars PROVE OneWriter'
  OBVIOUS
<1> USE ChainAssumption
<1>1. ASSUME NEW e \in Emitters, Select(e) PROVE OneWriter'
  BY <1>1 DEF Select, Typed, OneWriter
<1>2. ASSUME NEW e \in Emitters, Insert(e) PROVE OneWriter'
  BY <1>2 DEF Insert, Typed, OneWriter
<1>3. ASSUME NEW e \in Emitters, Commit(e) PROVE OneWriter'
  BY <1>3 DEF Commit, Typed, OneWriter
<1>4. ASSUME NEW e \in Emitters, Fail(e) PROVE OneWriter'
  BY <1>4 DEF Fail, Typed, OneWriter
<1>5. ASSUME NEW c \in Connections, Crash(c) PROVE OneWriter'
  BY <1>5 DEF Crash, Typed, OneWriter
<1>6. CASE UNCHANGED vars
  BY <1>6 DEF vars, OneWriter
<1>7. QED
  BY <1>1, <1>2, <1>3, <1>4, <1>5, <1>6 DEF Next

\* At most one connection has uncommitted rows, and an emit is in progress on
\* it: neither a failed INSERT or commit nor a crash leaves a transaction open.
THEOREM OneWriterThm == Spec => []OneWriter
<1>1. Init => Typed /\ OneWriter
  BY InitTyped DEF Init, OneWriter
<1>2. Typed /\ OneWriter /\ [Next]_vars => Typed' /\ OneWriter'
  BY NextTyped, NextOneWriter
<1>3. QED
  BY <1>1, <1>2, PTL DEF Spec

-----------------------------------------------------------------------------
(***************************************************************************)
(* No row twice.                                                           *)
(***************************************************************************)

\* Ids are handed out by calls; the ones in the table, those in uncommitted
\* rows and those of rows signed but not inserted are all different.
IdsOnce ==
    /\ \A i \in 1..Len(rows) : rows[i].id <= calls
    /\ \A i, j \in 1..Len(rows) : rows[i].id = rows[j].id => i = j
    /\ \A c \in Connections : \A i \in 1..Len(pending[c]) :
         /\ pending[c][i].id <= calls
         /\ \A j \in 1..Len(pending[c]) : pending[c][i].id = pending[c][j].id => i = j
         /\ \A j \in 1..Len(rows) : pending[c][i].id # rows[j].id
    /\ \A e \in Emitters : pc[e] = "signed" =>
         /\ row[e].id <= calls
         /\ \A i \in 1..Len(rows) : row[e].id # rows[i].id
         /\ \A c \in Connections : \A i \in 1..Len(pending[c]) :
              row[e].id # pending[c][i].id
         /\ \A f \in Emitters : pc[f] = "signed" /\ row[e].id = row[f].id => e = f

LEMMA NextIdsOnce == Typed /\ OneWriter /\ IdsOnce /\ [Next]_vars => IdsOnce'
<1> SUFFICES ASSUME Typed, OneWriter, IdsOnce, [Next]_vars PROVE IdsOnce'
  OBVIOUS
<1> USE ChainAssumption
<1>a. /\ rows \in Seq(Rows)
      /\ \A c \in Connections : pending[c] \in Seq(Rows)
      /\ calls \in Nat
      /\ \A i \in 1..Len(rows) : rows[i].id \in Int
      /\ \A c \in Connections : \A i \in 1..Len(pending[c]) : pending[c][i].id \in Int
  <2>1. /\ rows \in Seq(Rows)
        /\ \A c \in Connections : pending[c] \in Seq(Rows)
        /\ calls \in Nat
    BY DEF Typed
  <2>2. \A i \in 1..Len(rows) : rows[i] \in Rows
    BY <2>1, ElementOfSeq
  <2>3. \A c \in Connections : \A i \in 1..Len(pending[c]) : pending[c][i] \in Rows
    BY <2>1, ElementOfSeq
  <2>4. \A r \in Rows : r.id \in Int
    BY DEF Rows
  <2> HIDE ChainAssumption
  <2>5. \A i \in 1..Len(rows) : rows[i].id \in Int
    BY <2>2, <2>4
  <2>6. \A c \in Connections : \A i \in 1..Len(pending[c]) : pending[c][i].id \in Int
    BY <2>3, <2>4
  <2>7. QED
    BY <2>1, <2>5, <2>6
<1>1. ASSUME NEW e \in Emitters, Select(e) PROVE IdsOnce'
  <2>1. /\ rows' = rows /\ pending' = pending
        /\ calls' = calls + 1
        /\ pc[e] = "idle" /\ pc' = [pc EXCEPT ![e] = "signed"]
        /\ row'[e].id = calls + 1
        /\ \A f \in Emitters \ {e} : row'[f] = row[f] /\ pc'[f] = pc[f]
    BY <1>1 DEF Select, Typed
  <2>2. \A f \in Emitters : pc[f] = "signed" => row[f].id \in Int
    BY DEF Typed, Rows
  <2>3. \A f \in Emitters : pc'[f] = "signed" => f = e \/ (f # e /\ pc[f] = "signed")
    BY <2>1
  <2>4. ASSUME NEW f \in Emitters, pc'[f] = "signed"
        PROVE  /\ row'[f].id <= calls'
               /\ \A i \in 1..Len(rows') : row'[f].id # rows'[i].id
               /\ \A d \in Connections : \A i \in 1..Len(pending'[d]) :
                    row'[f].id # pending'[d][i].id
    BY <1>a, <2>1, <2>2, <2>3, <2>4 DEF IdsOnce
  <2>5. ASSUME NEW f \in Emitters, NEW g \in Emitters, pc'[f] = "signed",
               pc'[g] = "signed", row'[f].id = row'[g].id
        PROVE  f = g
    BY <1>a, <2>1, <2>2, <2>3, <2>5 DEF IdsOnce
  <2>6. /\ \A i \in 1..Len(rows) : rows[i].id <= calls + 1
        /\ \A c \in Connections : \A i \in 1..Len(pending[c]) :
             pending[c][i].id <= calls + 1
    BY <1>a DEF IdsOnce
  <2>7. QED
    BY <2>1, <2>4, <2>5, <2>6 DEF IdsOnce
<1>2. ASSUME NEW e \in Emitters, Insert(e) PROVE IdsOnce'
  <2> DEFINE c == ConnOf[e]
             old == pending[c]
             new == Append(old, row[e])
  <2>1. /\ c \in Connections /\ old \in Seq(Rows) /\ row[e] \in Rows
        /\ pc[e] = "signed"
        /\ pc' = [pc EXCEPT ![e] = "inserted"]
        /\ pending' = [pending EXCEPT ![c] = new]
        /\ rows' = rows /\ row' = row /\ calls' = calls
    BY <1>2 DEF Insert, Typed
  <2>2. /\ Len(new) = Len(old) + 1
        /\ \A i \in 1..Len(old) : new[i] = old[i]
        /\ new[Len(old) + 1] = row[e]
    BY <2>1, AppendProperties
  <2>3. /\ pending'[c] = new
        /\ \A d \in Connections \ {c} : pending'[d] = pending[d]
    BY <2>1 DEF Typed
  <2>4. Len(old) \in Nat
    BY <2>1, LenProperties
  <2>5. \A i \in 1..Len(new) : new[i] = IF i <= Len(old) THEN old[i] ELSE row[e]
    BY <2>2, <2>4
  <2> HIDE DEF old, new, c
  <2>6. \A d \in Connections : \A i \in 1..Len(pending'[d]) :
          /\ pending'[d][i].id <= calls
          /\ \A j \in 1..Len(pending'[d]) : pending'[d][i].id = pending'[d][j].id => i = j
          /\ \A j \in 1..Len(rows) : pending'[d][i].id # rows[j].id
    <3>1. /\ row[e].id <= calls
          /\ \A j \in 1..Len(rows) : row[e].id # rows[j].id
          /\ \A i \in 1..Len(old) :
               /\ old[i].id <= calls
               /\ row[e].id # old[i].id
               /\ \A j \in 1..Len(old) : old[i].id = old[j].id => i = j
               /\ \A j \in 1..Len(rows) : old[i].id # rows[j].id
      BY <2>1 DEF IdsOnce, old
    <3>2. \A i \in 1..Len(new) : i \in 1..Len(old) \/ i = Len(old) + 1
      BY <2>2, <2>4
    <3>3. ASSUME NEW i \in 1..Len(new)
          PROVE  /\ new[i].id <= calls
                 /\ \A j \in 1..Len(rows) : new[i].id # rows[j].id
      BY <2>2, <3>1, <3>2
    <3>4. ASSUME NEW i \in 1..Len(new), NEW j \in 1..Len(new), new[i].id = new[j].id
          PROVE  i = j
      BY <2>2, <3>1, <3>2, <3>4
    <3>5. QED
      BY <2>3, <3>3, <3>4 DEF IdsOnce
  <2>7. \A f \in Emitters : pc'[f] = "signed" => f # e /\ pc[f] = "signed"
    BY <2>1 DEF Typed
  <2>8. \A f \in Emitters : pc'[f] = "signed" =>
          \A d \in Connections : \A i \in 1..Len(pending'[d]) : row[f].id # pending'[d][i].id
    <3>1. ASSUME NEW f \in Emitters, pc'[f] = "signed", NEW i \in 1..Len(new)
          PROVE  row[f].id # new[i].id
      BY <3>1, <2>1, <2>2, <2>4, <2>5, <2>7 DEF IdsOnce, old
    <3>2. QED
      BY <2>3, <2>7, <3>1 DEF IdsOnce
  <2>9. QED
    BY <2>1, <2>6, <2>7, <2>8 DEF IdsOnce
<1>3. ASSUME NEW e \in Emitters, Commit(e) PROVE IdsOnce'
  <2> DEFINE c == ConnOf[e]
             written == pending[c]
             all == rows \o written
  <2>1. /\ c \in Connections /\ written \in Seq(Rows)
        /\ pc' = [pc EXCEPT ![e] = "idle"]
        /\ pending' = [pending EXCEPT ![c] = <<>>]
        /\ rows' = all /\ row' = row /\ calls' = calls
    BY <1>3 DEF Commit, Typed
  <2>2. /\ Len(all) = Len(rows) + Len(written)
        /\ \A i \in 1..Len(all) :
             all[i] = IF i <= Len(rows) THEN rows[i] ELSE written[i - Len(rows)]
    BY <1>a, <2>1, ConcatProperties
  <2>3. Len(rows) \in Nat /\ Len(written) \in Nat
    BY <1>a, <2>1, LenProperties
  <2>4. /\ pending'[c] = <<>>
        /\ \A d \in Connections \ {c} : pending'[d] = pending[d]
    BY <2>1 DEF Typed
  <2>5. \A i \in 1..Len(<<>>) : FALSE
    BY EmptySeq
  <2>6. \A f \in Emitters : pc'[f] = "signed" => pc[f] = "signed"
    BY <2>1 DEF Typed
  <2>7. CASE written = <<>>
    <3>1. rows' = rows
      BY <1>a, <2>1, <2>7, ConcatEmptySeq
    <3>2. \A d \in Connections : pending'[d] = pending[d]
      BY <2>4, <2>7
    <3>3. QED
      BY <2>1, <2>6, <3>1, <3>2 DEF IdsOnce
  <2>8. CASE written # <<>>
    <3>1. \A d \in Connections : pending'[d] = <<>>
      BY <2>1, <2>4, <2>8 DEF OneWriter
    <3> HIDE DEF written, all, c
    <3>2. \A i \in 1..Len(all) :
            \/ i \in 1..Len(rows) /\ all[i] = rows[i]
            \/ \E k \in 1..Len(written) : i = Len(rows) + k /\ all[i] = written[k]
      <4>1. ASSUME NEW i \in 1..Len(all), ~(i <= Len(rows))
            PROVE  \E k \in 1..Len(written) : i = Len(rows) + k /\ all[i] = written[k]
        <5>1. /\ i - Len(rows) \in 1..Len(written)
              /\ i = Len(rows) + (i - Len(rows))
          BY <2>2, <2>3, <4>1
        <5>2. all[i] = written[i - Len(rows)]
          BY <2>2, <4>1
        <5>3. QED
          BY <5>1, <5>2
      <4>2. QED
        BY <2>2, <2>3, <4>1
    <3>3. \A i \in 1..Len(written) :
            /\ written[i].id <= calls
            /\ \A j \in 1..Len(written) : written[i].id = written[j].id => i = j
            /\ \A j \in 1..Len(rows) : written[i].id # rows[j].id
      BY <2>1 DEF IdsOnce, written
    <3>4. ASSUME NEW i \in 1..Len(all)
          PROVE  all[i].id <= calls
      BY <3>2, <3>3 DEF IdsOnce
    <3>5. ASSUME NEW i \in 1..Len(all), NEW j \in 1..Len(all), all[i].id = all[j].id
          PROVE  i = j
      <4>1. CASE all[i] = rows[i] /\ i \in 1..Len(rows)
        <5>1. \A k \in 1..Len(rows) : rows[i].id = rows[k].id => i = k
          BY <4>1 DEF IdsOnce
        <5>2. \A k \in 1..Len(written) : written[k].id # rows[i].id
          BY <3>3, <4>1
        <5>3. CASE j \in 1..Len(rows) /\ all[j] = rows[j]
          BY <3>5, <4>1, <5>1, <5>3
        <5>4. CASE \E k \in 1..Len(written) : j = Len(rows) + k /\ all[j] = written[k]
          BY <3>5, <4>1, <5>2, <5>4
        <5>5. QED
          BY <3>2, <5>3, <5>4
      <4>2. CASE \E k \in 1..Len(written) : i = Len(rows) + k /\ all[i] = written[k]
        <5>1. PICK k \in 1..Len(written) : i = Len(rows) + k /\ all[i] = written[k]
          BY <4>2
        <5>2. CASE j \in 1..Len(rows) /\ all[j] = rows[j]
          BY <3>3, <3>5, <5>1, <5>2
        <5>3. CASE \E l \in 1..Len(written) : j = Len(rows) + l /\ all[j] = written[l]
          <6>1. PICK l \in 1..Len(written) : j = Len(rows) + l /\ all[j] = written[l]
            BY <5>3
          <6>2. k = l
            BY <3>3, <3>5, <5>1, <6>1
          <6>3. QED
            BY <5>1, <6>1, <6>2
        <5>4. QED
          BY <3>2, <5>2, <5>3
      <4>3. QED
        BY <3>2, <4>1, <4>2
    <3>6. ASSUME NEW f \in Emitters, pc[f] = "signed"
          PROVE  /\ row[f].id <= calls
                 /\ \A i \in 1..Len(all) : row[f].id # all[i].id
      <4>1. \A i \in 1..Len(written) : row[f].id # written[i].id
        BY <2>1, <3>6 DEF IdsOnce, written
      <4>2. /\ row[f].id <= calls
            /\ \A i \in 1..Len(rows) : row[f].id # rows[i].id
        BY <3>6 DEF IdsOnce
      <4>3. QED
        BY <3>2, <4>1, <4>2
    <3>7. QED
      BY <2>1, <2>5, <2>6, <3>1, <3>4, <3>5, <3>6 DEF IdsOnce
  <2>9. QED
    BY <2>7, <2>8
<1>4. ASSUME NEW c \in Connections, pending' = [pending EXCEPT ![c] = <<>>],
             \A f \in Emitters : pc'[f] = "signed" => pc[f] = "signed",
             UNCHANGED <<rows, row, calls>>
      PROVE  IdsOnce'
  <2>1. /\ pending'[c] = <<>>
        /\ \A d \in Connections \ {c} : pending'[d] = pending[d]
    BY <1>4 DEF Typed
  <2>2. \A i \in 1..Len(<<>>) : FALSE
    BY EmptySeq
  <2>3. QED
    BY <1>4, <2>1, <2>2 DEF IdsOnce
<1>5. ASSUME NEW e \in Emitters, Fail(e) PROVE IdsOnce'
  BY <1>4, <1>5 DEF Fail, Typed
<1>6. ASSUME NEW c \in Connections, Crash(c) PROVE IdsOnce'
  BY <1>4, <1>6 DEF Crash, Typed
<1>7. CASE UNCHANGED vars
  BY <1>7 DEF vars, IdsOnce
<1>8. QED
  BY <1>1, <1>2, <1>3, <1>5, <1>6, <1>7 DEF Next

\* Types, and every receipt is in the table at most once: an emit that fails,
\* is rolled back by another thread or is cut off by a crash is never applied
\* a second time by a later commit on the shared connection.
THEOREM TypeCorrect == Spec => []TypeOK
<1>1. Init => Typed /\ OneWriter /\ IdsOnce
  <2>1. \A i \in 1..Len(<<>>) : FALSE
    BY EmptySeq
  <2>2. QED
    BY <2>1, InitTyped DEF Init, OneWriter, IdsOnce
<1>2. Typed /\ OneWriter /\ IdsOnce /\ [Next]_vars => Typed' /\ OneWriter' /\ IdsOnce'
  BY NextTyped, NextOneWriter, NextIdsOnce
<1>3. Typed /\ IdsOnce => TypeOK
  BY DEF Typed, IdsOnce, TypeOK
<1>4. QED
  BY <1>1, <1>2, <1>3, PTL DEF Spec

-----------------------------------------------------------------------------
(***************************************************************************)
(* The chain.                                                              *)
(***************************************************************************)

\* The signature of the last committed row.
LastCommitted == IF rows = <<>> THEN Genesis ELSE rows[Len(rows)].id

\* While no two emits have overlapped: one emitter is busy at most; its row
\* follows the last committed one; uncommitted rows are its row alone.
Quiet ==
    /\ \A e, f \in Emitters : pc[e] # "idle" /\ pc[f] # "idle" => e = f
    /\ \A e \in Emitters : pc[e] # "idle" => row[e].prev = LastCommitted
    /\ \A c \in Connections : pending[c] # <<>> =>
         \E e \in Emitters :
            ConnOf[e] = c /\ pc[e] = "inserted" /\ pending[c] = <<row[e]>>
    /\ Linked(rows)

ChainInv == overlapped = FALSE => Quiet

\* A row that names the last row of a linked table extends it.
LEMMA LinkedAppend ==
    ASSUME NEW r \in Rows, rows \in Seq(Rows), Linked(rows), r.prev = LastCommitted
    PROVE  Linked(rows \o <<r>>)
<1> DEFINE new == rows \o <<r>>
<1>1. new = Append(rows, r)
  BY AppendIsConcat
<1>2. /\ Len(new) = Len(rows) + 1
      /\ \A i \in 1..Len(rows) : new[i] = rows[i]
      /\ new[Len(rows) + 1] = r
  BY <1>1, AppendProperties
<1>3. Len(rows) \in Nat /\ (rows = <<>> <=> Len(rows) = 0)
  BY LenProperties, EmptySeq
<1> HIDE DEF new
<1>4. ASSUME NEW i \in 1..Len(new)
      PROVE  new[i].prev = IF i = 1 THEN Genesis ELSE new[i - 1].id
  <2>1. CASE i \in 1..Len(rows)
    <3>1. rows[i].prev = IF i = 1 THEN Genesis ELSE rows[i - 1].id
      BY <2>1 DEF Linked
    <3>2. i # 1 => i - 1 \in 1..Len(rows)
      BY <1>3, <2>1
    <3>3. QED
      BY <1>2, <2>1, <3>1, <3>2
  <2>2. CASE i = Len(rows) + 1
    <3>1. CASE i = 1
      BY <1>2, <1>3, <2>2, <3>1 DEF LastCommitted
    <3>2. CASE i # 1
      <4>1. Len(rows) \in 1..Len(rows) /\ i - 1 = Len(rows) /\ rows # <<>>
        BY <1>3, <2>2, <3>2
      <4>2. QED
        BY <1>2, <2>2, <3>2, <4>1 DEF LastCommitted
    <3>3. QED
      BY <3>1, <3>2
  <2>3. QED
    BY <1>2, <1>3, <2>1, <2>2
<1>5. QED
  BY <1>4 DEF Linked, new

LEMMA NextChainInv == Typed /\ ChainInv /\ [Next]_vars => ChainInv'
<1> SUFFICES ASSUME Typed, ChainInv, [Next]_vars, overlapped' = FALSE
             PROVE  Quiet'
  BY DEF ChainInv
<1> USE ChainAssumption
<1>1. ASSUME NEW e \in Emitters, Select(e) PROVE Quiet'
  <2>1. overlapped = FALSE /\ \A f \in Emitters : pc[f] = "idle"
    BY <1>1 DEF Select, Typed
  <2>2. Quiet
    BY <2>1 DEF ChainInv
  <2>3. \A c \in Connections : pending[c] = <<>>
    BY <2>1, <2>2 DEF Quiet
  <2>4. LastSig(ConnOf[e]) = LastCommitted
    <3>1. rows \o pending[ConnOf[e]] = rows
      BY <2>3, ConcatEmptySeq DEF Typed
    <3>2. QED
      BY <3>1 DEF LastSig, LastCommitted
  <2>5. /\ rows' = rows /\ pending' = pending
        /\ row'[e].prev = LastCommitted
        /\ \A f \in Emitters : pc'[f] # "idle" => f = e
    BY <1>1, <2>1, <2>4 DEF Select, Typed
  <2>6. QED
    BY <2>2, <2>3, <2>5 DEF Quiet, LastCommitted
<1>2. ASSUME overlapped' = overlapped PROVE Quiet
  BY <1>2 DEF ChainInv
<1>3. ASSUME NEW e \in Emitters, Insert(e) PROVE Quiet'
  <2>1. Quiet
    BY <1>2, <1>3 DEF Insert
  <2>2. \A c \in Connections : pending[c] = <<>>
    BY <1>3, <2>1 DEF Quiet, Insert
  <2>3. Append(pending[ConnOf[e]], row[e]) = <<row[e]>>
    <3>1. row[e] \in Rows /\ <<row[e]>> \in Seq(Rows) /\ <<>> \in Seq(Rows)
      BY <1>3 DEF Insert, Typed
    <3>2. Append(<<>>, row[e]) = <<row[e]>>
      BY <3>1, AppendIsConcat, ConcatEmptySeq
    <3>3. QED
      BY <2>2, <3>2
  <2>4. /\ rows' = rows /\ row' = row
        /\ pending'[ConnOf[e]] = <<row[e]>>
        /\ \A c \in Connections \ {ConnOf[e]} : pending'[c] = <<>>
        /\ pc'[e] = "inserted" /\ pc[e] # "idle"
        /\ \A f \in Emitters \ {e} : pc'[f] = pc[f]
    BY <1>3, <2>2, <2>3 DEF Insert, Typed
  <2>5. QED
    BY <2>1, <2>4 DEF Quiet, LastCommitted
<1>4. ASSUME NEW e \in Emitters, Commit(e) PROVE Quiet'
  <2>1. Quiet
    BY <1>2, <1>4 DEF Commit
  <2>2. /\ pc[e] = "inserted"
        /\ \A f \in Emitters : pc'[f] = "idle"
    <3>1. /\ pc[e] = "inserted" /\ pc'[e] = "idle"
          /\ \A f \in Emitters \ {e} : pc'[f] = pc[f]
      BY <1>4 DEF Commit, Typed
    <3>2. \A f \in Emitters \ {e} : pc[f] = "idle"
      BY <2>1, <3>1 DEF Quiet
    <3>3. QED
      BY <3>1, <3>2
  <2>3. \A c \in Connections : pending'[c] = <<>>
    <3>1. /\ pending'[ConnOf[e]] = <<>>
          /\ \A c \in Connections \ {ConnOf[e]} : pending'[c] = pending[c]
      BY <1>4 DEF Commit, Typed
    <3>2. \A f \in Emitters : pc[f] = "inserted" => f = e
      BY <2>1, <2>2 DEF Quiet
    <3>3. \A c \in Connections \ {ConnOf[e]} : pending[c] = <<>>
      BY <2>1, <3>2 DEF Quiet
    <3>4. QED
      BY <3>1, <3>3
  <2>4. Linked(rows')
    <3>1. CASE pending[ConnOf[e]] = <<>>
      <4>1. rows' = rows
        BY <1>4, <3>1, ConcatEmptySeq DEF Commit, Typed
      <4>2. QED
        BY <2>1, <4>1 DEF Quiet
    <3>2. CASE pending[ConnOf[e]] # <<>>
      <4>1. pending[ConnOf[e]] = <<row[e]>>
        BY <2>1, <2>2, <3>2 DEF Quiet
      <4>2. row[e] \in Rows /\ rows \in Seq(Rows)
        BY <2>2 DEF Typed
      <4>3. row[e].prev = LastCommitted /\ Linked(rows)
        BY <2>1, <2>2 DEF Quiet
      <4>4. Linked(rows \o <<row[e]>>)
        BY <4>2, <4>3, LinkedAppend
      <4>5. QED
        BY <1>4, <4>1, <4>4 DEF Commit
    <3>3. QED
      BY <3>1, <3>2
  <2>5. QED
    BY <2>2, <2>3, <2>4 DEF Quiet
<1>5. ASSUME NEW c \in Connections, pending' = [pending EXCEPT ![c] = <<>>],
             \A f \in Emitters : pc'[f] = IF ConnOf[f] = c THEN "idle" ELSE pc[f],
             Quiet, UNCHANGED <<rows, row>>
      PROVE  Quiet'
  <2>1. /\ pending'[c] = <<>>
        /\ \A d \in Connections \ {c} : pending'[d] = pending[d]
    BY <1>5 DEF Typed
  <2>2. /\ \A e, f \in Emitters : pc'[e] # "idle" /\ pc'[f] # "idle" => e = f
        /\ \A e \in Emitters : pc'[e] # "idle" => row'[e].prev = LastCommitted'
        /\ Linked(rows')
    BY <1>5 DEF Quiet, LastCommitted
  <2>3. \A d \in Connections : pending'[d] # <<>> =>
          \E e \in Emitters :
             ConnOf[e] = d /\ pc'[e] = "inserted" /\ pending'[d] = <<row'[e]>>
    BY <1>5, <2>1 DEF Quiet
  <2>4. QED
    BY <2>2, <2>3 DEF Quiet
<1>6. ASSUME NEW e \in Emitters, Fail(e) PROVE Quiet'
  <2>1. Quiet
    BY <1>2, <1>6 DEF Fail
  <2>2. \A f \in Emitters : pc'[f] = IF ConnOf[f] = ConnOf[e] THEN "idle" ELSE pc[f]
    BY <1>6, <2>1 DEF Fail, Quiet, Typed
  <2>3. QED
    BY <1>5, <1>6, <2>1, <2>2 DEF Fail
<1>7. ASSUME NEW c \in Connections, Crash(c) PROVE Quiet'
  <2>1. Quiet
    BY <1>2, <1>7 DEF Crash
  <2>2. QED
    BY <1>5, <1>7, <2>1 DEF Crash
<1>8. CASE UNCHANGED vars
  <2>1. Quiet
    BY <1>2, <1>8 DEF vars
  <2>2. QED
    BY <1>8, <2>1 DEF vars, Quiet, LastCommitted
<1>9. QED
  BY <1>1, <1>3, <1>4, <1>6, <1>7, <1>8 DEF Next

\* verify_chain succeeds on every table left behind by emits that did not
\* overlap, with any number of failed, rolled back and crashed emits between
\* them, on any number of connections.
THEOREM ForkOnlyByOverlapThm == Spec => []ForkOnlyByOverlap
<1>1. Init => Typed /\ ChainInv
  <2>1. \A i \in 1..Len(<<>>) : FALSE
    BY EmptySeq
  <2>2. QED
    BY <2>1, InitTyped DEF Init, ChainInv, Quiet, Linked
<1>2. Typed /\ ChainInv /\ [Next]_vars => Typed' /\ ChainInv'
  BY NextTyped, NextChainInv
<1>3. Typed /\ ChainInv => ForkOnlyByOverlap
  BY DEF Typed, ChainInv, Quiet, ForkOnlyByOverlap, ChainVerifies
<1>4. QED
  BY <1>1, <1>2, <1>3, PTL DEF Spec

-----------------------------------------------------------------------------
(***************************************************************************)
(* The access list.                                                        *)
(***************************************************************************)

AclTyped ==
    /\ aclJson \in Inodes \cup {NoFile}
    /\ aclTmp \in Inodes \cup {NoFile}
    /\ content \in [Inodes -> (SUBSET Rules) \cup {Blank, Garbled}]
    /\ created \in 0..MaxInodes
    /\ step \in [Procs -> {"off", "loaded", "ready", "save", "opened", "written"}]
    /\ rules \in [Procs -> SUBSET Rules]
    /\ handle \in [Procs -> Inodes \cup {NoFile}]
    /\ change \in [Procs -> [add : SUBSET Rules, remove : SUBSET Rules]]
    /\ allowed \subseteq Rules
    /\ aclRaced \in BOOLEAN

\* Inodes are created in order, and no inode has both names.
Named ==
    /\ aclJson # NoFile => aclJson <= created
    /\ aclTmp # NoFile => aclTmp <= created /\ aclTmp # aclJson
    /\ \A p \in Procs : Saving(p) => handle[p] \in Inodes
    /\ \A p \in Procs : step[p] \in {"off", "loaded", "ready"} => change[p] = NoChange

\* While no save began during another or from old rules: one process at most
\* saves, to the file the temporary name still refers to; and whoever loaded
\* after the last save has the rules of the file, with its own change.
SavesApart ==
    /\ \A p, q \in Procs : Saving(p) /\ Saving(q) => p = q
    /\ \A p \in Procs : Saving(p) =>
         /\ p \notin outdated
         /\ aclTmp = handle[p]
         /\ content[handle[p]] = IF step[p] = "opened" THEN Blank ELSE rules[p]
    /\ \A p \in Procs \ outdated : step[p] # "off" =>
         rules[p] = (allowed \cup change[p].add) \ change[p].remove
    /\ IF aclJson = NoFile THEN allowed = {} ELSE content[aclJson] = allowed

AclInv == AclTyped /\ Named /\ (~aclRaced => SavesApart)

LEMMA InitAcl == AclInit => AclInv
<1> SUFFICES ASSUME AclInit PROVE AclInv
  OBVIOUS
<1> USE AclAssumption DEF AclInit
<1>1. aclRaced \in BOOLEAN
  OBVIOUS
<1>2. AclTyped
  BY <1>1 DEF AclTyped, Inodes, NoChange
<1>3. Named
  BY DEF Named, Saving, Inodes, NoChange
<1>4. SavesApart
  BY DEF SavesApart, Saving, Inodes
<1>5. QED
  BY <1>2, <1>3, <1>4 DEF AclInv

LEMMA NextAclTyped ==
  ASSUME AclInv, NEW p \in Procs, AclStep(p) \/ Exit(p)
  PROVE  AclTyped' /\ Named'
<1> USE AclAssumption DEF AclInv, names, history
<1>1. CASE Load(p)
  <2>1. aclJson # NoFile => content[aclJson] \in SUBSET Rules
    BY <1>1 DEF Load, AclTyped
  <2>2. QED
    BY <1>1, <2>1 DEF Load, AclTyped, Named, Saving
<1>2. CASE LoadFails(p)
  BY <1>2 DEF LoadFails, aclVars, AclTyped, Named, Saving
<1>3. CASE SaveIfAbsent(p)
  BY <1>3 DEF SaveIfAbsent, AclTyped, Named, Saving
<1>4. ASSUME NEW add \in SUBSET Rules, NEW remove \in SUBSET Rules, Change(p, add, remove)
      PROVE  AclTyped' /\ Named'
  BY <1>4 DEF Change, AclTyped, Named, Saving
<1>5. CASE OpenTmp(p)
  <2> DEFINE inode == IF aclTmp = NoFile THEN created + 1 ELSE aclTmp
  <2>1. /\ inode \in Inodes /\ aclTmp' = inode
        /\ created' = IF aclTmp = NoFile THEN inode ELSE created
        /\ content' = [content EXCEPT ![inode] = Blank]
        /\ handle' = [handle EXCEPT ![p] = inode]
        /\ step' = [step EXCEPT ![p] = "opened"]
        /\ aclRaced' \in BOOLEAN
        /\ UNCHANGED <<aclJson, rules, change, changes, allowed, outdated>>
    BY <1>5 DEF OpenTmp
  <2>2. created' \in 0..MaxInodes /\ inode <= created' /\ inode # aclJson /\ created <= created'
    BY <2>1 DEF AclTyped, Named, Inodes
  <2> HIDE DEF inode
  <2>3. AclTyped'
    BY <2>1, <2>2 DEF AclTyped
  <2>4. Named'
    BY <2>1, <2>2 DEF AclTyped, Named, Saving, Inodes
  <2>5. QED
    BY <2>3, <2>4
<1>6. CASE WriteTmp(p)
  <2>1. /\ handle[p] \in Inodes
        /\ content' \in [Inodes -> (SUBSET Rules) \cup {Blank, Garbled}]
    BY <1>6 DEF WriteTmp, Texts, AclTyped, Named, Saving
  <2>2. QED
    BY <1>6, <2>1 DEF WriteTmp, AclTyped, Named, Saving
<1>7. CASE Replace(p)
  <2>1. allowed' \subseteq Rules
    BY <1>7 DEF Replace, AclTyped
  <2>2. QED
    BY <1>7, <2>1 DEF Replace, AclTyped, Named, Saving, NoChange
<1>8. CASE Exit(p)
  BY <1>8 DEF Exit, AclTyped, Named, Saving, NoChange
<1>9. ASSUME NEW r \in Rules, Allow(p, r) \/ Revoke(p, r) PROVE AclTyped' /\ Named'
  <2>1. {r} \in SUBSET Rules /\ {} \in SUBSET Rules
    OBVIOUS
  <2>2. QED
    BY <1>4, <1>9, <2>1 DEF Allow, Revoke
<1>10. QED
  BY <1>1, <1>2, <1>3, <1>5, <1>6, <1>7, <1>8, <1>9 DEF AclStep, ReplaceFails

LEMMA NextSavesApart ==
  ASSUME AclInv, NEW p \in Procs, AclStep(p) \/ Exit(p), ~aclRaced'
  PROVE  SavesApart'
<1> USE AclAssumption DEF AclInv, names, history
<1>1. CASE Load(p)
  <2>1. SavesApart /\ change[p] = NoChange /\ step[p] = "off"
    BY <1>1 DEF Load, Named
  <2>2. /\ rules'[p] = allowed
        /\ step'[p] = "loaded"
        /\ \A q \in Procs \ {p} : rules'[q] = rules[q] /\ step'[q] = step[q]
        /\ UNCHANGED <<aclJson, aclTmp, content, handle, change, allowed, outdated>>
    BY <1>1, <2>1 DEF Load, AclTyped, SavesApart
  <2>3. rules'[p] = (allowed' \cup change'[p].add) \ change'[p].remove
    BY <2>1, <2>2 DEF NoChange
  <2>4. QED
    BY <2>1, <2>2, <2>3 DEF SavesApart, Saving
<1>2. CASE LoadFails(p)
  BY <1>2 DEF LoadFails, aclVars, SavesApart, Saving
<1>3. CASE SaveIfAbsent(p)
  BY <1>3 DEF SaveIfAbsent, AclTyped, SavesApart, Saving
<1>4. ASSUME NEW add \in SUBSET Rules, NEW remove \in SUBSET Rules, Change(p, add, remove)
      PROVE  SavesApart'
  <2>1. SavesApart /\ change[p] = NoChange /\ step[p] = "ready"
    BY <1>4 DEF Change, Named
  <2>2. /\ rules'[p] = (rules[p] \cup add) \ remove
        /\ change'[p] = [add |-> add, remove |-> remove]
        /\ step'[p] = "save"
        /\ \A q \in Procs \ {p} :
             rules'[q] = rules[q] /\ step'[q] = step[q] /\ change'[q] = change[q]
        /\ UNCHANGED <<aclJson, aclTmp, content, handle, allowed, outdated>>
    BY <1>4 DEF Change, AclTyped
  <2>3. p \notin outdated => rules[p] = allowed
    <3>1. change[p].add = {} /\ change[p].remove = {}
      BY <2>1 DEF NoChange
    <3>2. p \notin outdated => rules[p] = (allowed \cup change[p].add) \ change[p].remove
      BY <2>1, Zenon DEF SavesApart
    <3>3. QED
      BY <3>1, <3>2
  <2>4. p \notin outdated => rules'[p] = (allowed' \cup change'[p].add) \ change'[p].remove
    BY <2>2, <2>3
  <2>5. QED
    BY <2>1, <2>2, <2>4 DEF SavesApart, Saving
<1>5. CASE OpenTmp(p)
  <2> DEFINE inode == IF aclTmp = NoFile THEN created + 1 ELSE aclTmp
  <2>1. /\ SavesApart /\ p \notin outdated /\ \A q \in Procs : ~Saving(q)
        /\ inode \in Inodes /\ aclTmp' = inode
        /\ content' = [content EXCEPT ![inode] = Blank]
        /\ handle'[p] = inode /\ step'[p] = "opened" /\ step[p] = "save"
        /\ \A q \in Procs \ {p} : handle'[q] = handle[q] /\ step'[q] = step[q]
        /\ UNCHANGED <<aclJson, rules, change, changes, allowed, outdated>>
    BY <1>5 DEF OpenTmp, AclTyped
  <2>2. inode # aclJson
    BY <2>1 DEF AclTyped, Named, Inodes
  <2>3. content'[inode] = Blank /\ (aclJson # NoFile => content'[aclJson] = content[aclJson])
    BY <2>1, <2>2 DEF AclTyped
  <2>4. \A q \in Procs \ {p} : ~Saving(q)'
    BY <2>1 DEF Saving
  <2> HIDE DEF inode
  <2>5. QED
    BY <2>1, <2>3, <2>4 DEF SavesApart
<1>6. CASE WriteTmp(p)
  <2>1. SavesApart /\ Saving(p) /\ handle[p] \in Inodes
    BY <1>6 DEF WriteTmp, Saving, Named
  <2>2. content[handle[p]] = Blank /\ aclTmp = handle[p] /\ handle[p] # aclJson
    BY <1>6, <2>1 DEF WriteTmp, SavesApart, Named, Inodes
  <2>3. /\ content'[handle[p]] = rules[p]
        /\ aclJson # NoFile => content'[aclJson] = content[aclJson]
        /\ step'[p] = "written"
        /\ \A q \in Procs \ {p} : step'[q] = step[q]
        /\ UNCHANGED <<aclJson, aclTmp, rules, handle, change, allowed, outdated>>
    BY <1>6, <2>1, <2>2 DEF WriteTmp, Texts, AclTyped
  <2>4. \A q \in Procs \ {p} : ~Saving(q)'
    BY <2>1, <2>3 DEF Saving, SavesApart
  <2>5. QED
    BY <2>1, <2>2, <2>3, <2>4 DEF SavesApart, Saving
<1>7. CASE Replace(p)
  <2>1. SavesApart /\ Saving(p) /\ step[p] = "written"
    BY <1>7 DEF Replace, Saving
  <2>2. content[aclTmp] = rules[p] /\ p \notin outdated
    BY <2>1 DEF SavesApart
  <2>3. rules[p] = (allowed \cup change[p].add) \ change[p].remove
    BY <2>1, <2>2 DEF SavesApart
  <2>4. /\ aclJson' = aclTmp /\ aclTmp # NoFile
        /\ allowed' = rules[p]
        /\ step'[p] = "ready" /\ change'[p] = NoChange
        /\ \A q \in Procs \ {p} : step'[q] = step[q] /\ change'[q] = change[q]
        /\ outdated' = {q \in Procs \ {p} : step[q] # "off"}
        /\ UNCHANGED <<content, rules>>
    BY <1>7, <2>3 DEF Replace, AclTyped
  <2>5. \A q \in Procs : ~Saving(q)'
    BY <2>1, <2>4 DEF Saving, SavesApart
  <2>6. rules'[p] = (allowed' \cup change'[p].add) \ change'[p].remove
    BY <2>4 DEF NoChange
  <2>7. QED
    BY <2>2, <2>4, <2>5, <2>6 DEF SavesApart
<1>8. CASE Exit(p)
  <2>1. SavesApart
    BY <1>8 DEF Exit
  <2>2. /\ step'[p] = "off"
        /\ \A q \in Procs \ {p} : /\ step'[q] = step[q] /\ change'[q] = change[q]
                                  /\ rules'[q] = rules[q] /\ handle'[q] = handle[q]
                                  /\ q \in outdated' <=> q \in outdated
        /\ UNCHANGED <<aclJson, aclTmp, content, allowed>>
    BY <1>8 DEF Exit, AclTyped
  <2>3. QED
    BY <2>1, <2>2 DEF SavesApart, Saving
<1>9. ASSUME NEW r \in Rules, Allow(p, r) \/ Revoke(p, r) PROVE SavesApart'
  <2>1. {r} \in SUBSET Rules /\ {} \in SUBSET Rules
    OBVIOUS
  <2>2. QED
    BY <1>4, <1>9, <2>1 DEF Allow, Revoke
<1>10. QED
  BY <1>1, <1>2, <1>3, <1>5, <1>6, <1>7, <1>8, <1>9 DEF AclStep, ReplaceFails

-----------------------------------------------------------------------------
(***************************************************************************)
(* The server as a composition.                                            *)
(***************************************************************************)

LEMMA ThreadsAndTool ==
    /\ Threads \subseteq Emitters /\ Tool \in Emitters
    /\ \A e \in Emitters : e # Tool => e \in Threads
    /\ \A e \in Emitters : ConnOf[e] = ConnOf[Tool] => e = Tool
    /\ \A e \in Emitters : ConnOf[e] \in Connections
  BY ServerAssumption, ChainAssumption

LEMMA ServerCases ==
  ASSUME [ServerNext]_allVars
  PROVE  \/ StartServer \/ ServerStep \/ StopServer \/ StopTool
         \/ \E p \in Procs : AdminStep(p)
         \/ \E m \in Models : Add(m)
         \/ \E t \in Threads :
              \/ \E r \in Requests : Begin(t, r)
              \/ Lookup(t) \/ Deny(t) \/ FailRead(t) \/ Proceed(t)
         \/ \E e \in Emitters : BeginEmit(e) \/ InsertRow(e) \/ Answer(e) \/ FailEmit(e)
         \/ UNCHANGED allVars
<1>1. ASSUME NEW t \in Threads, NEW r \in Requests, Refuse(t, r) PROVE UNCHANGED allVars
  BY <1>1 DEF Refuse, Turn, allVars, serverVars
<1>2. QED
  BY <1>1, ThreadsAndTool DEF ServerNext, Handle, Emit

\* The access list changes by steps of its own.
LEMMA AclMoves ==
  ASSUME [ServerNext]_allVars
  PROVE  (\E p \in Procs : AclStep(p) \/ Exit(p)) \/ UNCHANGED aclVars
<1>1. Server \in Procs
  BY ServerAssumption
<1>2. ASSUME StartServer PROVE AclStep(Server)
  BY <1>2 DEF StartServer, AclStep
<1>3. ASSUME StopServer PROVE Exit(Server)
  BY <1>3 DEF StopServer
<1>4. ASSUME ServerStep PROVE AclStep(Server)
  BY <1>4 DEF ServerStep
<1>5. QED
  BY <1>1, <1>2, <1>3, <1>4, ServerCases
  DEF AdminStep, StopTool, Add, Begin, Turn, Lookup, Deny, FailRead, Proceed, Record,
      BeginEmit, InsertRow, Answer, FailEmit, allVars

\* The receipt chain too, whatever the threads and the tool do.
LEMMA ChainMoves ==
  ASSUME [ServerNext]_allVars
  PROVE  [Next]_vars
<1>1. ASSUME StopServer PROVE [Next]_vars
  <2>1. CASE \E t \in Threads : pc[t] # "idle"
    <3>1. Crash(Server) /\ Server \in Connections
      BY <1>1, <2>1, ServerAssumption, ThreadsAndTool DEF StopServer
    <3>2. QED
      BY <3>1 DEF Next
  <2>2. CASE ~ \E t \in Threads : pc[t] # "idle"
    BY <1>1, <2>2 DEF StopServer
  <2>3. QED
    BY <2>1, <2>2
<1>2. ASSUME StopTool PROVE [Next]_vars
  BY <1>2, ThreadsAndTool DEF StopTool, Next
<1>3. ASSUME NEW e \in Emitters, BeginEmit(e) \/ InsertRow(e) \/ Answer(e) \/ FailEmit(e)
      PROVE  [Next]_vars
  BY <1>3 DEF BeginEmit, InsertRow, Answer, FailEmit, Next
<1>4. QED
  BY <1>1, <1>2, <1>3, ServerCases
  DEF StartServer, ServerStep, AdminStep, Add, Begin, Turn, Lookup, Deny, FailRead,
      Proceed, Record, allVars

\* The server, the tool and the administrators use the receipt chain only in
\* the way ReceiptChain describes: what is proved of that holds here.
THEOREM ImplementsReceiptChain == ServerSpec => Spec
<1>1. ServerInit => Init
  BY DEF ServerInit
<1>2. [ServerNext]_allVars => [Next]_vars
  BY ChainMoves
<1>3. QED
  BY <1>1, <1>2, PTL DEF ServerSpec, Spec

\* In the composed system, too, one connection at most has an open transaction.
THEOREM ServerOneWriter == ServerSpec => []OneWriter
  BY ImplementsReceiptChain, OneWriterThm, PTL

\* verify_chain succeeds on the chain of the composed system, too, unless two
\* emits overlapped.
THEOREM ServerForkOnlyByOverlap == ServerSpec => []ForkOnlyByOverlap
  BY ImplementsReceiptChain, ForkOnlyByOverlapThm, PTL

LEMMA AclKept ==
  ASSUME AclInv, (\E p \in Procs : AclStep(p) \/ Exit(p)) \/ UNCHANGED aclVars
  PROVE  AclInv'
<1>1. ASSUME NEW p \in Procs, AclStep(p) \/ Exit(p) PROVE AclInv'
  <2>1. AclTyped' /\ Named'
    BY <1>1, NextAclTyped
  <2>2. ~aclRaced' => SavesApart'
    BY <1>1, NextSavesApart
  <2>3. QED
    BY <2>1, <2>2 DEF AclInv
<1>2. ASSUME UNCHANGED aclVars PROVE AclInv'
  <2>1. AclTyped'
    BY <1>2 DEF aclVars, AclInv, AclTyped
  <2>2. Named'
    BY <1>2 DEF aclVars, AclInv, Named, Saving
  <2>3. ~aclRaced' => SavesApart'
    BY <1>2 DEF aclVars, AclInv, SavesApart, Saving
  <2>4. QED
    BY <2>1, <2>2, <2>3 DEF AclInv
<1>3. QED
  BY <1>1, <1>2

\* Wherever processes stop in ACL.save, acl.json is absent or holds what the
\* calls of allow and revoke that returned add up to, as long as no save began
\* during another or from rules loaded before another.
THEOREM FileKeepsChangesThm == ServerSpec => []FileKeepsChanges
<1>1. ServerInit => AclInv
  BY InitAcl DEF ServerInit
<1>2. AclInv /\ [ServerNext]_allVars => AclInv'
  BY AclMoves, AclKept
<1>3. AclInv => FileKeepsChanges
  BY DEF AclInv, AclTyped, SavesApart, FileKeepsChanges
<1>4. QED
  BY <1>1, <1>2, <1>3, PTL DEF ServerSpec

-----------------------------------------------------------------------------
(***************************************************************************)
(* Threads and requests.                                                   *)
(***************************************************************************)

\* A request is handled only while the server is up, and a receipt is emitted
\* only for a request that came that far.
Where ==
    /\ at \in [Emitters -> {"idle", "lookup", "record", "emit"}]
    /\ req \in [Threads -> Requests \cup {NoRequest}]
    /\ boots \in Nat
    /\ \A e \in Emitters : pc[e] # "idle" => at[e] = "emit"
    /\ \A t \in Threads : at[t] # "idle" => step[Server] = "ready"
    /\ \A x \in released : x.boot \in Nat /\ x.boot <= boots

\* While no two threads were past the lookup of one nonce: a thread that is to
\* store its nonce finds it new; one that is to answer has stored it, and no
\* other thread and no answer of this boot has the same.
NoncesApart ==
    /\ \A t \in Threads : at[t] = "record" => req[t].nonce \notin used
    /\ \A t \in Threads : at[t] = "emit" => req[t].nonce \in used
    /\ \A t, u \in Threads :
         at[t] \in {"record", "emit"} /\ at[t] = at[u] /\ req[t].nonce = req[u].nonce => t = u
    /\ \A x \in released : x.boot = boots =>
         /\ x.request.nonce \in used
         /\ \A t \in Threads : at[t] = "emit" => req[t].nonce # x.request.nonce
    /\ \A x, y \in released :
         x.boot = y.boot /\ x.request.nonce = y.request.nonce => x = y

HasRule(r, some) == \E m \in {r.model, Star} : <<m, SenderOf[r.nonce]>> \in some

\* While the access list is not raced: the server has the rules that were
\* allowed when it started, and what it is to answer has a rule among them.
RulesKept ==
    /\ step[Server] # "off" => rules[Server] = bootRules
    /\ \A t \in Threads : at[t] = "emit" => HasRule(req[t], bootRules)
    /\ \A x \in released : HasRule(x.request, x.rules)

LEMMA InitServer ==
    ServerInit => Where /\ NoncesApart /\ RulesKept
<1> SUFFICES ASSUME ServerInit PROVE Where /\ NoncesApart /\ RulesKept
  OBVIOUS
<1> USE ServerAssumption DEF ServerInit, Init
<1>1. Where
  BY DEF Where
<1>2. NoncesApart
  BY ThreadsAndTool DEF NoncesApart
<1>3. RulesKept
  BY ThreadsAndTool DEF RulesKept, AclInit
<1>4. QED
  BY <1>1, <1>2, <1>3

\* What administrators do leaves the server's process alone; the server itself
\* changes the list only before it is ready, and never its rules.
LEMMA ServerProcess ==
  ASSUME AclInv
  PROVE  /\ \A p \in Procs : AdminStep(p) =>
              step'[Server] = step[Server] /\ rules'[Server] = rules[Server]
         /\ ServerStep => /\ step[Server] \notin {"off", "ready"}
                          /\ step'[Server] # "off" => rules'[Server] = rules[Server]
<1> USE ServerAssumption, AclAssumption DEF AclInv, names, history
<1>1. ASSUME NEW p \in Procs, AdminStep(p)
      PROVE  step'[Server] = step[Server] /\ rules'[Server] = rules[Server]
  <2>1. p # Server /\ (AclStep(p) \/ Exit(p))
    BY <1>1 DEF AdminStep
  <2>2. QED
    BY <2>1 DEF AclStep, Load, LoadFails, SaveIfAbsent, Allow, Revoke, Change, OpenTmp,
                WriteTmp, Replace, ReplaceFails, Exit, aclVars, AclTyped
<1>2. ASSUME ServerStep
      PROVE  /\ step[Server] \notin {"off", "ready"}
             /\ step'[Server] # "off" => rules'[Server] = rules[Server]
  <2>1. step[Server] # "off" /\ AclStep(Server) /\ Server \notin Admins
    BY <1>2 DEF ServerStep
  <2>2. \/ SaveIfAbsent(Server) \/ OpenTmp(Server) \/ WriteTmp(Server) \/ Replace(Server)
        \/ ReplaceFails(Server)
    BY <2>1 DEF AclStep, Load, LoadFails, Allow, Revoke, Change
  <2>3. step[Server] # "ready"
    BY <2>2 DEF SaveIfAbsent, OpenTmp, WriteTmp, Replace, ReplaceFails
  <2>4. rules' = rules \/ step'[Server] = "off"
    BY <2>2 DEF SaveIfAbsent, OpenTmp, WriteTmp, Replace, ReplaceFails, Exit, AclTyped
  <2>5. QED
    BY <2>1, <2>3, <2>4
<1>3. QED
  BY <1>1, <1>2

LEMMA NextWhere ==
  ASSUME AclInv, Typed, Where, [ServerNext]_allVars
  PROVE  Where'
<1> USE ServerAssumption, ThreadsAndTool
<1>1. CASE StartServer
  <2>1. /\ boots' = boots + 1 /\ step[Server] = "off"
        /\ UNCHANGED <<at, req, pc, released>>
    BY <1>1 DEF StartServer, Load, vars
  <2>2. QED
    BY <2>1 DEF Where
<1>2. CASE ServerStep
  <2>1. UNCHANGED <<at, req, pc, boots, released>> /\ step[Server] # "ready"
    BY <1>2, ServerProcess DEF ServerStep, serverVars, vars
  <2>2. QED
    BY <2>1 DEF Where
<1>3. ASSUME NEW p \in Procs, AdminStep(p) PROVE Where'
  <2>1. UNCHANGED <<at, req, pc, boots, released>> /\ step'[Server] = step[Server]
    BY <1>3, ServerProcess DEF AdminStep, serverVars, vars
  <2>2. QED
    BY <2>1 DEF Where
<1>4. CASE StopServer
  <2>1. /\ \A e \in Emitters : at'[e] = IF e \in Threads THEN "idle" ELSE at[e]
        /\ at' \in [Emitters -> {"idle", "lookup", "record", "emit"}]
        /\ req' \in [Threads -> Requests \cup {NoRequest}]
        /\ UNCHANGED <<boots, released>>
    BY <1>4 DEF StopServer, Where
  <2>2. \A e \in Emitters : pc'[e] # "idle" => e = Tool /\ pc[e] # "idle"
    <3>1. CASE \E t \in Threads : pc[t] # "idle"
      <4>1. \A e \in Emitters : pc'[e] = IF ConnOf[e] = Server THEN "idle" ELSE pc[e]
        BY <1>4, <3>1 DEF StopServer, Crash
      <4>2. QED
        BY <4>1
    <3>2. CASE ~ \E t \in Threads : pc[t] # "idle"
      <4>1. pc' = pc
        BY <1>4, <3>2 DEF StopServer, vars
      <4>2. QED
        BY <3>2, <4>1
    <3>3. QED
      BY <3>1, <3>2
  <2>3. QED
    BY <2>1, <2>2 DEF Where
<1>5. CASE StopTool
  <2>1. /\ at'[Tool] = "idle" /\ \A t \in Threads : at'[t] = at[t]
        /\ at' \in [Emitters -> {"idle", "lookup", "record", "emit"}]
        /\ UNCHANGED <<req, boots, released, step>>
    BY <1>5 DEF StopTool, Goto, Where, aclVars
  <2>2. \A e \in Emitters : pc'[e] # "idle" => e # Tool /\ pc[e] # "idle"
    <3>1. CASE pc[Tool] # "idle"
      <4>1. \A e \in Emitters : pc'[e] = IF ConnOf[e] = ConnOf[Tool] THEN "idle" ELSE pc[e]
        BY <1>5, <3>1 DEF StopTool, Crash
      <4>2. QED
        BY <4>1
    <3>2. CASE pc[Tool] = "idle"
      BY <1>5, <3>2 DEF StopTool, vars
    <3>3. QED
      BY <3>1, <3>2
  <2>3. QED
    BY <2>1, <2>2 DEF Where
<1>6. ASSUME NEW m \in Models, Add(m) PROVE Where'
  <2>1. /\ at'[Tool] = "emit" /\ \A t \in Threads : at'[t] = at[t]
        /\ at' \in [Emitters -> {"idle", "lookup", "record", "emit"}]
        /\ UNCHANGED <<req, boots, released, step, pc>>
    BY <1>6 DEF Add, Goto, Where, aclVars, vars
  <2>2. QED
    BY <2>1 DEF Where
<1>7. ASSUME NEW t \in Threads, NEW r \in Requests, Begin(t, r) PROVE Where'
  <2>1. /\ at[t] = "idle" /\ step[Server] = "ready"
        /\ at' = [at EXCEPT ![t] = "lookup"]
        /\ req' = [req EXCEPT ![t] = r]
        /\ UNCHANGED <<boots, released, step, pc>>
    BY <1>7 DEF Begin, Turn, aclVars, vars
  <2>2. QED
    BY <2>1 DEF Where
\* A thread in the middle of its request goes on or ends it.
<1>8. ASSUME NEW t \in Threads, Lookup(t) \/ Deny(t) \/ FailRead(t) \/ Proceed(t)
      PROVE  Where'
  <2>1. PICK place \in {"idle", "record", "emit"} : Goto(t, place)
    BY <1>8 DEF Lookup, Deny, FailRead, Proceed, Record
  <2>2. /\ at[t] \in {"lookup", "record"}
        /\ UNCHANGED <<boots, released, step, pc>>
    BY <1>8 DEF Lookup, Deny, FailRead, Proceed, Record, aclVars, vars
  <2>3. /\ at' = [at EXCEPT ![t] = place]
        /\ req' \in [Threads -> Requests \cup {NoRequest}]
    BY <2>1 DEF Goto, Where
  <2>4. QED
    BY <2>2, <2>3 DEF Where
<1>9. ASSUME NEW e \in Emitters, BeginEmit(e) \/ InsertRow(e) PROVE Where'
  <2>1. /\ at[e] = "emit"
        /\ \A f \in Emitters \ {e} : pc'[f] = pc[f]
        /\ UNCHANGED <<at, req, boots, released, step>>
    BY <1>9 DEF BeginEmit, InsertRow, Select, Insert, aclVars, serverVars, Where, Typed
  <2>2. QED
    BY <2>1 DEF Where
<1>10. ASSUME NEW e \in Emitters, Answer(e) PROVE Where'
  <2>1. /\ at' = [at EXCEPT ![e] = "idle"]
        /\ req' \in [Threads -> Requests \cup {NoRequest}]
        /\ pc' = [pc EXCEPT ![e] = "idle"]
        /\ UNCHANGED <<boots, step>>
    BY <1>10 DEF Answer, Goto, Commit, aclVars, Where
  <2>2. \A x \in released' : x \in released \/ x.boot = boots
    BY <1>10 DEF Answer
  <2>3. QED
    BY <2>1, <2>2 DEF Where, Typed
<1>11. ASSUME NEW e \in Emitters, FailEmit(e) PROVE Where'
  <2>1. /\ at' = [at EXCEPT ![e] = "idle"]
        /\ req' \in [Threads -> Requests \cup {NoRequest}]
        /\ pc' = [pc EXCEPT ![e] = "idle"]
        /\ UNCHANGED <<boots, step, released>>
    BY <1>11 DEF FailEmit, Goto, Fail, aclVars, Where
  <2>2. QED
    BY <2>1 DEF Where, Typed
<1>12. CASE UNCHANGED allVars
  BY <1>12 DEF allVars, aclVars, vars, serverVars, Where
<1>13. QED
  BY <1>1, <1>2, <1>3, <1>4, <1>5, <1>6, <1>7, <1>8, <1>9, <1>10, <1>11, <1>12, ServerCases

\* Only a lookup that finds another thread between lookup and store can set
\* nonceRaced, and nothing resets it.
LEMMA NextNonces ==
  ASSUME AclInv, Typed, Where, ~nonceRaced => NoncesApart, [ServerNext]_allVars, ~nonceRaced'
  PROVE  NoncesApart'
<1> USE ServerAssumption, ThreadsAndTool
<1>0. NoncesApart
  BY ServerCases
  DEF StartServer, ServerStep, StopServer, StopTool, AdminStep, Add, Begin, Turn, Lookup,
      Deny, FailRead, Proceed, Record, BeginEmit, InsertRow, Answer, FailEmit, allVars,
      serverVars
\* Threads that go idle, or change in nothing that matters here.
<1>1. ASSUME \A t \in Threads : at'[t] \in {"record", "emit"} =>
                at'[t] = at[t] /\ req'[t] = req[t],
             UNCHANGED <<used, boots, released>>
      PROVE  NoncesApart'
  BY <1>0, <1>1 DEF NoncesApart
<1>2. CASE StartServer
  <2>1. \A t \in Threads : at'[t] = "idle"
    BY <1>2 DEF StartServer, Load, Where
  <2>2. released' = released /\ \A x \in released' : x.boot # boots'
    BY <1>2 DEF StartServer, Where
  <2>3. QED
    BY <1>0, <2>1, <2>2 DEF NoncesApart
<1>3. CASE StopServer
  BY <1>1, <1>3 DEF StopServer
<1>4. ASSUME NEW t \in Threads, Lookup(t) PROVE NoncesApart'
  <2>1. /\ at' = [at EXCEPT ![t] = IF Known(t) THEN "idle" ELSE "record"]
        /\ \A u \in Threads \ {t} : req'[u] = req[u]
        /\ ~Known(t) => req' = req
        /\ UNCHANGED <<used, boots, released>>
    BY <1>4 DEF Lookup, Goto, Where
  <2>2. CASE Known(t)
    BY <1>1, <2>1, <2>2 DEF Where
  <2>3. CASE ~Known(t)
    <3>1. req[t].nonce \notin used
      BY <2>3 DEF Known
    <3>2. \A u \in Threads \ {t} : at[u] = "record" => req[u].nonce # req[t].nonce
      BY <1>4 DEF Lookup
    <3>3. /\ at'[t] = "record" /\ req' = req
          /\ \A u \in Threads \ {t} : at'[u] = at[u]
      BY <2>1, <2>3 DEF Where
    <3>4. QED
      BY <1>0, <2>1, <3>1, <3>2, <3>3 DEF NoncesApart
  <2>4. QED
    BY <2>2, <2>3
<1>5. ASSUME NEW t \in Threads, NEW place \in {"idle", "emit"}, Record(t, place)
      PROVE  NoncesApart'
  <2>1. /\ at[t] = "record" /\ at'[t] = place
        /\ \A u \in Threads \ {t} : at'[u] = at[u] /\ req'[u] = req[u]
        /\ place = "emit" => req'[t] = req[t]
        /\ used' = used \cup {req[t].nonce}
        /\ UNCHANGED <<boots, released>>
    BY <1>5 DEF Record, Goto, Where
  <2>2. req[t].nonce \notin used
    BY <1>0, <2>1 DEF NoncesApart
  <2>3. \A u \in Threads \ {t} : at[u] \in {"record", "emit"} => req[u].nonce # req[t].nonce
    BY <1>0, <2>1, <2>2 DEF NoncesApart
  <2>4. \A x \in released : x.boot = boots => x.request.nonce # req[t].nonce
    BY <1>0, <2>2 DEF NoncesApart
  <2>5. /\ \A u \in Threads : at'[u] = "record" => req'[u].nonce \notin used'
        /\ \A u \in Threads : at'[u] = "emit" => req'[u].nonce \in used'
    BY <1>0, <2>1, <2>3 DEF NoncesApart
  <2>6. \A u, v \in Threads :
          at'[u] \in {"record", "emit"} /\ at'[u] = at'[v] /\ req'[u].nonce = req'[v].nonce
            => u = v
    BY <1>0, <2>1, <2>3 DEF NoncesApart
  <2>7. \A x \in released' : x.boot = boots' =>
          /\ x.request.nonce \in used'
          /\ \A u \in Threads : at'[u] = "emit" => req'[u].nonce # x.request.nonce
    BY <1>0, <2>1, <2>4 DEF NoncesApart
  <2>8. QED
    BY <1>0, <2>1, <2>5, <2>6, <2>7 DEF NoncesApart
<1>6. ASSUME NEW t \in Threads, Answer(t) PROVE NoncesApart'
  <2> DEFINE x == [request |-> req[t], boot |-> boots, row |-> row[t].id, rules |-> bootRules]
  <2>1. /\ at[t] = "emit" /\ at'[t] = "idle"
        /\ \A u \in Threads \ {t} : at'[u] = at[u] /\ req'[u] = req[u]
        /\ released' = released \cup {x}
        /\ UNCHANGED <<used, boots>>
    BY <1>6 DEF Answer, Commit, Goto, Where
  <2>2. x.boot = boots /\ x.request = req[t]
    OBVIOUS
  <2> HIDE DEF x
  <2>3. req[t].nonce \in used /\ \A u \in Threads \ {t} : at[u] = "emit" => req[u].nonce # req[t].nonce
    BY <1>0, <2>1 DEF NoncesApart
  <2>4. \A y \in released : y.boot = boots => y.request.nonce # req[t].nonce
    BY <1>0, <2>1 DEF NoncesApart
  <2>5. \A y, z \in released' :
          y.boot = z.boot /\ y.request.nonce = z.request.nonce => y = z
    BY <1>0, <2>1, <2>2, <2>4 DEF NoncesApart
  <2>6. \A y \in released' : y.boot = boots' =>
          /\ y.request.nonce \in used'
          /\ \A u \in Threads : at'[u] = "emit" => req'[u].nonce # y.request.nonce
    BY <1>0, <2>1, <2>2, <2>3 DEF NoncesApart
  <2>7. QED
    BY <1>0, <2>1, <2>5, <2>6 DEF NoncesApart
<1>7. ASSUME NEW m \in Models, Add(m) PROVE NoncesApart'
  <2>1. \A t \in Threads : at'[t] = at[t] /\ req'[t] = req[t]
    BY <1>7 DEF Add, Goto, Where
  <2>2. QED
    BY <1>1, <1>7, <2>1 DEF Add
<1>8. CASE StopTool
  <2>1. \A t \in Threads : at'[t] = at[t] /\ req'[t] = req[t]
    BY <1>8 DEF StopTool, Goto, Where
  <2>2. QED
    BY <1>1, <1>8, <2>1 DEF StopTool
<1>9. ASSUME NEW t \in Threads, NEW r \in Requests, Begin(t, r) PROVE NoncesApart'
  <2>1. /\ at'[t] = "lookup"
        /\ \A u \in Threads \ {t} : at'[u] = at[u] /\ req'[u] = req[u]
    BY <1>9 DEF Begin, Where
  <2>2. QED
    BY <1>1, <1>9, <2>1 DEF Begin, Turn
<1>10. ASSUME NEW e \in Emitters, FailEmit(e) PROVE NoncesApart'
  <2>1. /\ at'[e] = "idle"
        /\ \A u \in Threads \ {e} : at'[u] = at[u] /\ req'[u] = req[u]
    BY <1>10 DEF FailEmit, Goto, Where
  <2>2. QED
    BY <1>1, <1>10, <2>1 DEF FailEmit
<1>11. CASE Answer(Tool)
  <2>1. \A u \in Threads : at'[u] = at[u] /\ req'[u] = req[u]
    BY <1>11 DEF Answer, Goto, Where
  <2>2. QED
    BY <1>1, <1>11, <2>1 DEF Answer
<1>12. ASSUME UNCHANGED serverVars PROVE NoncesApart'
  BY <1>1, <1>12 DEF serverVars
<1>13. QED
  BY <1>2, <1>3, <1>4, <1>5, <1>6, <1>7, <1>8, <1>9, <1>10, <1>11, <1>12, ServerCases
  DEF ServerStep, AdminStep, Deny, FailRead, Proceed, BeginEmit, InsertRow, allVars

LEMMA NextRules ==
  ASSUME AclInv, Typed, Where, ~aclRaced => RulesKept, [ServerNext]_allVars, ~aclRaced'
  PROVE  RulesKept'
<1> USE ServerAssumption, ThreadsAndTool
<1>0. ~aclRaced
  <2>1. ASSUME NEW p \in Procs, AclStep(p) \/ Exit(p) PROVE ~aclRaced
    BY <2>1 DEF AclStep, Load, LoadFails, SaveIfAbsent, Allow, Revoke, Change, OpenTmp,
                WriteTmp, Replace, ReplaceFails, Exit, aclVars, history
  <2>2. QED
    BY <2>1, AclMoves DEF aclVars
<1>1. RulesKept
  BY <1>0
<1>2. ASSUME \A t \in Threads : at'[t] = "emit" => at[t] = "emit" /\ req'[t] = req[t],
             step'[Server] # "off" => step[Server] # "off" /\ rules'[Server] = rules[Server],
             UNCHANGED <<bootRules, released>>
      PROVE  RulesKept'
  BY <1>1, <1>2 DEF RulesKept, HasRule
<1>3. CASE StartServer
  <2>1. \A t \in Threads : at'[t] = "idle"
    BY <1>3 DEF StartServer, Load, Where
  <2>2. rules'[Server] = allowed /\ bootRules' = allowed /\ released' = released
    <3>1. IF aclJson = NoFile THEN allowed = {} ELSE content[aclJson] = allowed
      BY <1>0 DEF AclInv, SavesApart
    <3>2. QED
      BY <1>3, <3>1 DEF StartServer, Load, AclInv, AclTyped
  <2>3. QED
    BY <1>1, <2>1, <2>2 DEF RulesKept, HasRule
<1>4. CASE ServerStep
  BY <1>2, <1>4, ServerProcess DEF ServerStep, serverVars
<1>5. ASSUME NEW p \in Procs, AdminStep(p) PROVE RulesKept'
  BY <1>2, <1>5, ServerProcess DEF AdminStep, serverVars
<1>6. CASE StopServer
  <2>1. step'[Server] = "off" /\ \A t \in Threads : at'[t] = "idle"
    BY <1>6 DEF StopServer, Exit, AclInv, AclTyped
  <2>2. QED
    BY <1>2, <1>6, <2>1 DEF StopServer
<1>7. ASSUME NEW t \in Threads, Proceed(t) PROVE RulesKept'
  <2>1. /\ at[t] = "record" /\ at'[t] = "emit" /\ req' = req
        /\ \A u \in Threads \ {t} : at'[u] = at[u]
        /\ UNCHANGED <<bootRules, released, step, rules>>
    BY <1>7 DEF Proceed, Record, Goto, Where, aclVars
  <2>2. step[Server] = "ready"
    BY <2>1 DEF Where
  <2>3. HasRule(req[t], bootRules)
    BY <1>1, <1>7, <2>2 DEF Proceed, IsAllowed, HasRule, RulesKept
  <2>4. QED
    BY <1>1, <2>1, <2>3 DEF RulesKept, HasRule
<1>8. ASSUME NEW t \in Threads, Answer(t) PROVE RulesKept'
  <2>1. /\ at[t] = "emit" /\ at'[t] = "idle"
        /\ \A u \in Threads \ {t} : at'[u] = at[u] /\ req'[u] = req[u]
        /\ UNCHANGED <<bootRules, step, rules>>
    BY <1>8 DEF Answer, Commit, Goto, Where, aclVars
  <2>2. \A x \in released' : x \in released \/ (x.request = req[t] /\ x.rules = bootRules)
    BY <1>8 DEF Answer
  <2>3. HasRule(req[t], bootRules)
    BY <1>1, <2>1 DEF RulesKept
  <2>4. \A x \in released' : HasRule(x.request, x.rules)
    BY <1>1, <2>2, <2>3 DEF RulesKept
  <2>5. QED
    BY <1>1, <2>1, <2>4 DEF RulesKept, HasRule
\* The rest: no thread comes to "emit".
<1>9. ASSUME NEW t \in Threads, Lookup(t) \/ Deny(t) \/ FailRead(t) PROVE RulesKept'
  <2>1. /\ at'[t] # "emit"
        /\ \A u \in Threads \ {t} : at'[u] = at[u] /\ req'[u] = req[u]
    BY <1>9 DEF Lookup, Deny, FailRead, Record, Goto, Where
  <2>2. UNCHANGED <<step, rules, bootRules, released>>
    BY <1>9 DEF Lookup, Deny, FailRead, Record, aclVars
  <2>3. QED
    BY <1>2, <2>1, <2>2
<1>10. ASSUME NEW t \in Threads, NEW r \in Requests, Begin(t, r) PROVE RulesKept'
  <2>1. /\ at'[t] # "emit"
        /\ \A u \in Threads \ {t} : at'[u] = at[u] /\ req'[u] = req[u]
    BY <1>10 DEF Begin, Where
  <2>2. QED
    BY <1>2, <1>10, <2>1 DEF Begin, Turn, aclVars
<1>11. ASSUME NEW m \in Models, Add(m) PROVE RulesKept'
  <2>1. \A t \in Threads : at'[t] = at[t] /\ req'[t] = req[t]
    BY <1>11 DEF Add, Goto, Where
  <2>2. QED
    BY <1>2, <1>11, <2>1 DEF Add, aclVars
<1>12. CASE StopTool \/ Answer(Tool)
  <2>1. \A t \in Threads : at'[t] = at[t] /\ req'[t] = req[t]
    BY <1>12 DEF StopTool, Answer, Goto, Where
  <2>2. QED
    BY <1>2, <1>12, <2>1 DEF StopTool, Answer, aclVars
<1>13. ASSUME NEW e \in Emitters, FailEmit(e) PROVE RulesKept'
  <2>1. /\ at'[e] = "idle"
        /\ \A u \in Threads \ {e} : at'[u] = at[u] /\ req'[u] = req[u]
    BY <1>13 DEF FailEmit, Goto, Where
  <2>2. QED
    BY <1>2, <1>13, <2>1 DEF FailEmit, aclVars
<1>14. ASSUME UNCHANGED <<aclVars, serverVars>> PROVE RulesKept'
  BY <1>2, <1>14 DEF aclVars, serverVars
<1>15. QED
  BY <1>3, <1>4, <1>5, <1>6, <1>7, <1>8, <1>9, <1>10, <1>11, <1>12, <1>13, <1>14, ServerCases
  DEF BeginEmit, InsertRow, allVars

-----------------------------------------------------------------------------
(***************************************************************************)
(* Answers and rows.                                                       *)
(***************************************************************************)

LEMMA IdsEmpty == Ids(<<>>) = {}
  BY EmptySeq DEF Ids

LEMMA IdsAppend ==
  ASSUME NEW table \in Seq(Rows), NEW new \in Rows
  PROVE  /\ Ids(table) \subseteq Ids(Append(table, new))
         /\ new.id \in Ids(Append(table, new))
<1> DEFINE all == Append(table, new)
<1>1. /\ Len(table) \in Nat
      /\ Len(all) = Len(table) + 1
      /\ \A i \in 1..Len(table) : all[i] = table[i]
      /\ all[Len(table) + 1] = new
  BY AppendProperties, LenProperties
<1> HIDE DEF all
<1>2. \A i \in 1..Len(table) : table[i].id \in Ids(all)
  BY <1>1 DEF Ids
<1>3. new.id \in Ids(all)
  BY <1>1 DEF Ids
<1>4. QED
  BY <1>2, <1>3 DEF Ids, all

LEMMA IdsConcat ==
  ASSUME NEW table \in Seq(Rows), NEW more \in Seq(Rows)
  PROVE  Ids(table) \subseteq Ids(table \o more) /\ Ids(more) \subseteq Ids(table \o more)
<1> DEFINE all == table \o more
<1>1. /\ Len(table) \in Nat /\ Len(more) \in Nat
      /\ Len(all) = Len(table) + Len(more)
      /\ \A i \in 1..Len(table) : all[i] = table[i]
      /\ \A i \in 1..Len(more) : all[Len(table) + i] = more[i]
  BY ConcatProperties, LenProperties
<1> HIDE DEF all
<1>2. \A i \in 1..Len(table) : table[i].id \in Ids(all)
  BY <1>1 DEF Ids
<1>3. \A i \in 1..Len(more) : more[i].id \in Ids(all)
  <2>1. ASSUME NEW i \in 1..Len(more) PROVE more[i].id \in Ids(all)
    <3>1. Len(table) + i \in 1..Len(all) /\ all[Len(table) + i] = more[i]
      BY <1>1
    <3>2. QED
      BY <3>1 DEF Ids
  <2>2. QED
    BY <2>1
<1>4. QED
  BY <1>2, <1>3 DEF Ids, all

EmitterBusy(e) == pc[e] # "idle"

\* Every emit in progress has a row of its own, which no answer has named yet.
RowsApart ==
    /\ \A e \in Emitters : EmitterBusy(e) => row[e].id \in 1..calls
    /\ \A e, f \in Emitters :
         EmitterBusy(e) /\ EmitterBusy(f) /\ row[e].id = row[f].id => e = f
    /\ \A x \in released :
         x.row \in 1..calls /\ \A e \in Emitters : EmitterBusy(e) => row[e].id # x.row
    /\ \A x, y \in released : x.row = y.row => x = y

\* Where the row of an emit is that has inserted it: another thread may have
\* committed it, or undone it while both were in progress; the tool's is still
\* in its own transaction.  And where the rows are that answers have named.
RowsPlaced ==
    /\ \A e \in Emitters : pc[e] = "inserted" =>
         \/ row[e].id \in Ids(pending[ConnOf[e]]) \cup Ids(rows)
         \/ overlapped /\ row[e].id \in undone
    /\ pc[Tool] = "inserted" => row[Tool].id \in Ids(pending[ConnOf[Tool]])
    /\ \A x \in released : x.row \in Ids(rows) \/ (overlapped /\ x.row \in undone)
    /\ \A id \in returned : id \in Ids(rows) \/ \E x \in released : x.row = id

LEMMA NextRowsApart ==
  ASSUME Typed, Where, RowsApart, [ServerNext]_allVars
  PROVE  RowsApart'
<1> USE ChainAssumption, ServerAssumption, ThreadsAndTool DEF EmitterBusy
<1>1. ASSUME NEW e \in Emitters, BeginEmit(e) PROVE RowsApart'
  <2>1. /\ pc[e] = "idle" /\ calls' = calls + 1 /\ calls \in Nat
        /\ row'[e].id = calls + 1
        /\ \A f \in Emitters \ {e} : row'[f] = row[f] /\ pc'[f] = pc[f]
        /\ released' = released
    BY <1>1 DEF BeginEmit, Select, Typed, serverVars
  <2>2. \A n \in 1..calls : n \in 1..calls' /\ n # calls + 1
    BY <2>1
  <2>3. calls + 1 \in 1..calls'
    BY <2>1
  <2>4. QED
    BY <2>1, <2>2, <2>3 DEF RowsApart
<1>2. ASSUME NEW t \in Threads, Answer(t) PROVE RowsApart'
  <2> DEFINE x == [request |-> req[t], boot |-> boots, row |-> row[t].id, rules |-> bootRules]
  <2>1. /\ pc[t] = "inserted" /\ pc'[t] = "idle"
        /\ \A f \in Emitters \ {t} : pc'[f] = pc[f]
        /\ UNCHANGED <<row, calls>>
        /\ released' = released \cup {x}
    BY <1>2 DEF Answer, Commit, Typed
  <2>2. x.row = row[t].id
    OBVIOUS
  <2> HIDE DEF x
  <2>3. QED
    BY <2>1, <2>2 DEF RowsApart
\* Emits that end or go on with the row they have.
<1>3. ASSUME \A e \in Emitters : EmitterBusy(e)' => EmitterBusy(e),
             UNCHANGED <<row, calls, released>>
      PROVE  RowsApart'
  BY <1>3 DEF RowsApart
<1>4. ASSUME NEW e \in Emitters, InsertRow(e) \/ FailEmit(e) PROVE RowsApart'
  <2>1. \A f \in Emitters : EmitterBusy(f)' => EmitterBusy(f)
    BY <1>4 DEF InsertRow, Insert, FailEmit, Fail, Typed
  <2>2. UNCHANGED <<row, calls, released>>
    BY <1>4 DEF InsertRow, Insert, FailEmit, Fail, serverVars
  <2>3. QED
    BY <1>3, <2>1, <2>2
<1>5. CASE Answer(Tool)
  <2>1. \A f \in Emitters : EmitterBusy(f)' => EmitterBusy(f)
    BY <1>5 DEF Answer, Commit, Typed
  <2>2. QED
    BY <1>3, <1>5, <2>1 DEF Answer, Commit
<1>6. CASE StopServer \/ StopTool
  <2>1. /\ \A f \in Emitters : EmitterBusy(f)' => EmitterBusy(f)
        /\ UNCHANGED <<row, calls>>
    BY <1>6 DEF StopServer, StopTool, Crash, vars
  <2>2. QED
    BY <1>3, <1>6, <2>1 DEF StopServer, StopTool
<1>7. ASSUME UNCHANGED <<vars, released>> PROVE RowsApart'
  BY <1>3, <1>7 DEF vars
<1>8. QED
  BY <1>1, <1>2, <1>4, <1>5, <1>6, <1>7, ServerCases
  DEF StartServer, ServerStep, AdminStep, Add, Begin, Turn, Lookup, Deny, FailRead,
      Proceed, Record, allVars, serverVars

LEMMA NextRowsPlaced ==
  ASSUME Typed, ChainInv, Where, RowsApart, RowsPlaced, [ServerNext]_allVars
  PROVE  RowsPlaced'
<1> USE ChainAssumption, ServerAssumption, ThreadsAndTool
<1>1. ASSUME NEW e \in Emitters, BeginEmit(e) PROVE RowsPlaced'
  <2>1. /\ pc'[e] = "signed"
        /\ \A f \in Emitters \ {e} : row'[f] = row[f] /\ pc'[f] = pc[f]
        /\ overlapped => overlapped'
        /\ UNCHANGED <<rows, pending, returned, undone, released>>
    BY <1>1 DEF BeginEmit, Select, Typed, serverVars
  <2>2. QED
    BY <2>1 DEF RowsPlaced
<1>2. ASSUME NEW e \in Emitters, InsertRow(e) PROVE RowsPlaced'
  <2> DEFINE c == ConnOf[e]
  <2>1. /\ pc[e] = "signed" /\ pc'[e] = "inserted"
        /\ \A f \in Emitters \ {e} : pc'[f] = pc[f]
        /\ c \in Connections
        /\ pending'[c] = Append(pending[c], row[e])
        /\ \A d \in Connections \ {c} : pending'[d] = pending[d]
        /\ UNCHANGED <<rows, row, returned, overlapped, undone, released>>
    BY <1>2 DEF InsertRow, Insert, Typed, serverVars
  <2>2. pending[c] \in Seq(Rows) /\ row[e] \in Rows
    BY <2>1 DEF Typed
  <2>3. Ids(pending[c]) \subseteq Ids(pending'[c]) /\ row[e].id \in Ids(pending'[c])
    BY <2>1, <2>2, IdsAppend
  <2>4. \A d \in Connections : Ids(pending[d]) \subseteq Ids(pending'[d])
    <3>1. \A d \in Connections \ {c} : Ids(pending[d]) = Ids(pending'[d])
      BY <2>1
    <3>2. QED
      BY <2>3, <3>1
  <2>5. ASSUME NEW f \in Emitters, pc'[f] = "inserted"
        PROVE  \/ row[f].id \in Ids(pending'[ConnOf[f]]) \cup Ids(rows)
               \/ overlapped /\ row[f].id \in undone
    <3>1. CASE f = e
      BY <2>3, <3>1
    <3>2. CASE f # e
      BY <2>1, <2>4, <2>5, <3>2 DEF RowsPlaced
    <3>3. QED
      BY <3>1, <3>2
  <2>6. pc'[Tool] = "inserted" => row[Tool].id \in Ids(pending'[ConnOf[Tool]])
    BY <2>1, <2>3, <2>4 DEF RowsPlaced
  <2>7. QED
    BY <2>1, <2>5, <2>6 DEF RowsPlaced
<1>3. ASSUME NEW e \in Emitters, Answer(e) PROVE RowsPlaced'
  <2> DEFINE c == ConnOf[e]
  <2>1. /\ pc[e] = "inserted" /\ pc'[e] = "idle"
        /\ \A f \in Emitters \ {e} : pc'[f] = pc[f]
        /\ c \in Connections
        /\ rows' = rows \o pending[c]
        /\ \A d \in Connections \ {c} : pending'[d] = pending[d]
        /\ returned' = returned \cup {row[e].id}
        /\ UNCHANGED <<row, overlapped, undone>>
    BY <1>3 DEF Answer, Commit, Typed
  <2>2. Ids(rows) \subseteq Ids(rows') /\ Ids(pending[c]) \subseteq Ids(rows')
    <3>1. rows \in Seq(Rows) /\ pending[c] \in Seq(Rows)
      BY <2>1 DEF Typed
    <3>2. QED
      BY <2>1, <3>1, IdsConcat
  <2>3. row[e].id \in Ids(rows') \/ (overlapped /\ row[e].id \in undone)
    BY <2>1, <2>2 DEF RowsPlaced
  <2>4. e = Tool => row[e].id \in Ids(rows')
    BY <2>1, <2>2 DEF RowsPlaced
  <2>5. /\ \A x \in released' : x \in released \/ x.row = row[e].id
        /\ released \subseteq released'
        /\ e # Tool => \E x \in released' : x.row = row[e].id
    <3> DEFINE new == [request |-> req[e], boot |-> boots, row |-> row[e].id,
                       rules |-> bootRules]
    <3>1. released' = IF e = Tool THEN released ELSE released \cup {new}
      BY <1>3 DEF Answer
    <3>2. new.row = row[e].id
      OBVIOUS
    <3> HIDE DEF new
    <3>3. QED
      BY <3>1, <3>2
  <2>6. \A f \in Emitters \ {e} : pc[f] = "inserted" =>
          \/ row[f].id \in Ids(pending'[ConnOf[f]]) \cup Ids(rows')
          \/ overlapped /\ row[f].id \in undone
    BY <2>1, <2>2 DEF RowsPlaced
  <2>7. e # Tool => ConnOf[Tool] # c
    OBVIOUS
  <2>8. pc'[Tool] = "inserted" => row'[Tool].id \in Ids(pending'[ConnOf[Tool]])
    BY <2>1, <2>7 DEF RowsPlaced
  <2>9. \A id \in returned' : id \in Ids(rows') \/ \E x \in released' : x.row = id
    BY <2>1, <2>2, <2>4, <2>5 DEF RowsPlaced
  <2>10. \A x \in released' : x.row \in Ids(rows') \/ (overlapped' /\ x.row \in undone')
    BY <2>1, <2>2, <2>3, <2>5 DEF RowsPlaced
  <2>11. QED
    BY <2>1, <2>6, <2>8, <2>9, <2>10 DEF RowsPlaced
\* A rollback on the connection of others: they overlapped with this emit.
<1>4. ASSUME NEW e \in Emitters, FailEmit(e) PROVE RowsPlaced'
  <2> DEFINE c == ConnOf[e]
  <2>1. /\ pc[e] # "idle" /\ pc'[e] = "idle"
        /\ \A f \in Emitters \ {e} : pc'[f] = pc[f]
        /\ c \in Connections
        /\ undone' = undone \cup Ids(pending[c])
        /\ \A d \in Connections \ {c} : pending'[d] = pending[d]
        /\ UNCHANGED <<rows, row, returned, overlapped, released>>
    BY <1>4 DEF FailEmit, Fail, Typed
  <2>2. \A f \in Emitters \ {e} : pc[f] = "inserted" => overlapped
    <3>1. overlapped \in BOOLEAN
      BY DEF Typed
    <3>2. QED
      BY <2>1, <3>1 DEF ChainInv, Quiet
  <2>3. \A f \in Emitters \ {e} : pc[f] = "inserted" =>
          \/ row[f].id \in Ids(pending'[ConnOf[f]]) \cup Ids(rows)
          \/ overlapped /\ row[f].id \in undone'
    BY <2>1, <2>2 DEF RowsPlaced
  <2>4. pc'[Tool] = "inserted" => row'[Tool].id \in Ids(pending'[ConnOf[Tool]])
    BY <2>1 DEF RowsPlaced
  <2>5. QED
    BY <2>1, <2>3, <2>4 DEF RowsPlaced
<1>5. ASSUME NEW c \in Connections, Crash(c), released' = released PROVE RowsPlaced'
  <2>1. /\ \A f \in Emitters : pc'[f] = IF ConnOf[f] = c THEN "idle" ELSE pc[f]
        /\ undone \subseteq undone'
        /\ \A d \in Connections \ {c} : pending'[d] = pending[d]
        /\ UNCHANGED <<rows, row, returned, overlapped>>
    BY <1>5 DEF Crash, Typed
  <2>2. QED
    BY <1>5, <2>1 DEF RowsPlaced
<1>6. ASSUME UNCHANGED <<vars, released>> PROVE RowsPlaced'
  BY <1>6 DEF vars, RowsPlaced
<1>7. CASE StopServer
  <2>1. CASE \E t \in Threads : pc[t] # "idle"
    BY <1>5, <1>7, <2>1 DEF StopServer
  <2>2. CASE ~ \E t \in Threads : pc[t] # "idle"
    BY <1>6, <1>7, <2>2 DEF StopServer
  <2>3. QED
    BY <2>1, <2>2
<1>8. CASE StopTool
  BY <1>5, <1>6, <1>8 DEF StopTool
<1>9. QED
  BY <1>1, <1>2, <1>3, <1>4, <1>6, <1>7, <1>8, ServerCases
  DEF StartServer, ServerStep, AdminStep, Add, Begin, Turn, Lookup, Deny, FailRead,
      Proceed, Record, allVars, serverVars

-----------------------------------------------------------------------------
(***************************************************************************)
(* The inductive invariant, and what it says of answers.                   *)
(***************************************************************************)

ServerInv ==
    /\ AclInv
    /\ Typed /\ ChainInv
    /\ Where
    /\ ~nonceRaced => NoncesApart
    /\ ~aclRaced => RulesKept
    /\ RowsApart /\ RowsPlaced

LEMMA ServerInductive == ServerSpec => []ServerInv
<1>1. ServerInit => ServerInv
  <2> SUFFICES ASSUME ServerInit PROVE ServerInv
    OBVIOUS
  <2>1. AclInv
    BY InitAcl DEF ServerInit
  <2>2. Typed /\ ChainInv
    <3>1. \A i \in 1..Len(<<>>) : FALSE
      BY EmptySeq
    <3>2. QED
      BY <3>1, InitTyped DEF ServerInit, Init, ChainInv, Quiet, Linked
  <2>3. RowsApart /\ RowsPlaced
    BY ThreadsAndTool DEF ServerInit, Init, RowsApart, EmitterBusy, RowsPlaced
  <2>4. QED
    BY <2>1, <2>2, <2>3, InitServer DEF ServerInv
<1>2. ServerInv /\ [ServerNext]_allVars => ServerInv'
  <2> SUFFICES ASSUME ServerInv, [ServerNext]_allVars PROVE ServerInv'
    OBVIOUS
  <2> USE DEF ServerInv
  <2>1. AclInv'
    BY AclMoves, AclKept
  <2>2. Typed' /\ ChainInv'
    BY ChainMoves, NextTyped, NextChainInv
  <2>3. Where'
    BY NextWhere
  <2>4. ~nonceRaced' => NoncesApart'
    BY NextNonces
  <2>5. ~aclRaced' => RulesKept'
    BY NextRules
  <2>6. RowsApart' /\ RowsPlaced'
    BY NextRowsApart, NextRowsPlaced
  <2>7. QED
    BY <2>1, <2>2, <2>3, <2>4, <2>5, <2>6
<1>3. QED
  BY <1>1, <1>2, PTL DEF ServerSpec

\* Every answer with a receipt id has a row of its own in the chain, unless an
\* emit that overlapped with it on the server's connection rolled the row back;
\* the tool's receipts are always in the chain.
THEOREM ReleasedReceiptedThm == ServerSpec => []ReleasedReceipted
<1>1. ServerInv => ReleasedReceipted
  BY DEF ServerInv, RowsApart, RowsPlaced, ReleasedReceipted
<1>2. QED
  BY ServerInductive, <1>1, PTL

\* NonceCache.accept in threads: in a boot a nonce is answered once, unless two
\* threads looked it up before either stored it.
THEOREM ReleasedOnceThm == ServerSpec => []ReleasedOnce
<1>1. ServerInv => ReleasedOnce
  BY DEF ServerInv, NoncesApart, ReleasedOnce
<1>2. QED
  BY ServerInductive, <1>1, PTL

\* Data goes only to senders with a rule that was allowed when the server
\* started, along the whole way through ACL.save, acl.json and ACL's constructor.
THEOREM ReleasedAllowedThm == ServerSpec => []ReleasedAllowed
<1>1. ServerInv => ReleasedAllowed
  BY DEF ServerInv, RulesKept, HasRule, ReleasedAllowed
<1>2. QED
  BY ServerInductive, <1>1, PTL

=============================================================================
