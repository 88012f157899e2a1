---------------------------- MODULE ReceiptChain ----------------------------
(***************************************************************************)
(* The vault's receipt chain (vault/receipts.py): a SQLite table whose     *)
(* rows name the signature of the row before them.                         *)
(*                                                                         *)
(* emit reads the last signature with one statement and inserts the next   *)
(* row with another, in a transaction that only the INSERT opens.  Threads *)
(* of one process share a connection (check_same_thread=False, used by the *)
(* vault server's thread pool), so they also share its open transaction:   *)
(* they see each other's uncommitted rows, and a commit or rollback of one *)
(* is a commit or rollback of all.  Processes (the vault server, a         *)
(* Telepath node, the command line) have a connection each; SQLite lets    *)
(* one of them write at a time.                                            *)
(*                                                                         *)
(* A row is its own identity and the identity of the row it was signed     *)
(* after; the HMAC covers both, so checking the links is verify_chain.     *)
(***************************************************************************)
EXTENDS Integers, Sequences, FiniteSets

CONSTANTS
    Emitters,     \* threads and processes that call emit
    Connections,  \* database connections, one for each process
    ConnOf,       \* the connection each emitter uses
    MaxRows       \* bound on emit calls

ASSUME ChainAssumption ==
    /\ ConnOf \in [Emitters -> Connections]
    /\ MaxRows \in Nat

Genesis == 0

Rows == [id : 1..MaxRows, prev : 0..MaxRows]

VARIABLES
    rows,        \* the committed rows, in seq order
    pending,     \* the uncommitted rows of each connection
    pc,          \* where each emitter is
    row,         \* the row each emitter has signed
    calls,       \* emit calls so far
    returned,    \* history: rows whose emit returned a receipt id
    overlapped,  \* history: an emit began while another was in progress
    undone       \* history: rows rolled back after their INSERT

vars == <<rows, pending, pc, row, calls, returned, overlapped, undone>>

NoRow == [id |-> 0, prev |-> 0]

Init ==
    /\ rows = <<>>
    /\ pending = [c \in Connections |-> <<>>]
    /\ pc = [e \in Emitters |-> "idle"]
    /\ row = [e \in Emitters |-> NoRow]
    /\ calls = 0
    /\ returned = {}
    /\ overlapped = FALSE
    /\ undone = {}

Ids(table) == {table[i].id : i \in 1..Len(table)}

\* SELECT sig ... ORDER BY seq DESC LIMIT 1 on connection c.
NoSig(c) == Genesis                                              \* faulty variant
LastSig(c) ==
    LET table == rows \o pending[c] IN
    IF table = <<>> THEN Genesis ELSE table[Len(table)].id

\* emit, first statement: read the previous signature and sign the new row.
Select(e) ==
    /\ pc[e] = "idle"
    /\ calls < MaxRows
    /\ calls' = calls + 1
    /\ row' = [row EXCEPT ![e] = [id |-> calls + 1, prev |-> LastSig(ConnOf[e])]]
    /\ pc' = [pc EXCEPT ![e] = "signed"]
    /\ overlapped' = (overlapped \/ \E f \in Emitters : pc[f] # "idle")
    /\ UNCHANGED <<rows, pending, returned, undone>>

\* INSERT: waits while another connection has a transaction open.
Insert(e) ==
    /\ pc[e] = "signed"
    /\ \A c \in Connections \ {ConnOf[e]} : pending[c] = <<>>
    /\ pending' = [pending EXCEPT ![ConnOf[e]] = Append(@, row[e])]
    /\ pc' = [pc EXCEPT ![e] = "inserted"]
    /\ UNCHANGED <<rows, row, calls, returned, overlapped, undone>>

\* Leaving "with self.db" normally: commit what the connection has written.
CommitNothing(e) ==                                              \* faulty variant
    /\ pc[e] = "inserted"
    /\ rows' = rows
    /\ pending' = [pending EXCEPT ![ConnOf[e]] = <<>>]
    /\ pc' = [pc EXCEPT ![e] = "idle"]
    /\ returned' = returned \cup {row[e].id}
    /\ UNCHANGED <<row, calls, overlapped, undone>>
Commit(e) ==
    /\ pc[e] = "inserted"
    /\ rows' = rows \o pending[ConnOf[e]]
    /\ pending' = [pending EXCEPT ![ConnOf[e]] = <<>>]
    /\ pc' = [pc EXCEPT ![e] = "idle"]
    /\ returned' = returned \cup {row[e].id}
    /\ UNCHANGED <<row, calls, overlapped, undone>>

\* Leaving it with an exception, from the INSERT (disk full, or locked longer
\* than the busy timeout) or from the commit: roll back.
KeepOpen(e) ==                                                   \* faulty variant
    /\ pc[e] \in {"signed", "inserted"}
    /\ pc' = [pc EXCEPT ![e] = "idle"]
    /\ UNCHANGED <<rows, row, calls, returned, overlapped, pending, undone>>
Fail(e) ==
    /\ pc[e] \in {"signed", "inserted"}
    /\ undone' = undone \cup Ids(pending[ConnOf[e]])
    /\ pending' = [pending EXCEPT ![ConnOf[e]] = <<>>]
    /\ pc' = [pc EXCEPT ![e] = "idle"]
    /\ UNCHANGED <<rows, row, calls, returned, overlapped>>

\* The process that holds connection c stops; SQLite drops its transaction.
Crash(c) ==
    /\ \E e \in Emitters : ConnOf[e] = c /\ pc[e] # "idle"
    /\ undone' = undone \cup Ids(pending[c])
    /\ pending' = [pending EXCEPT ![c] = <<>>]
    /\ pc' = [e \in Emitters |-> IF ConnOf[e] = c THEN "idle" ELSE pc[e]]
    /\ UNCHANGED <<rows, row, calls, returned, overlapped>>

Next ==
    \/ \E e \in Emitters : Select(e) \/ Insert(e) \/ Commit(e) \/ Fail(e)
    \/ \E c \in Connections : Crash(c)

Spec == Init /\ [][Next]_vars

-----------------------------------------------------------------------------
(***************************************************************************)
(* Properties.                                                             *)
(***************************************************************************)

\* Types; a row is inserted into the table once.
TypeOK ==
    /\ rows \in Seq(Rows)
    /\ \A i, j \in 1..Len(rows) : rows[i].id = rows[j].id => i = j
    /\ pending \in [Connections -> Seq(Rows)]
    /\ pc \in [Emitters -> {"idle", "signed", "inserted"}]
    /\ row \in [Emitters -> Rows \cup {NoRow}]
    /\ \A e \in Emitters : pc[e] # "idle" => row[e] \in Rows
    /\ calls \in 0..MaxRows
    /\ returned \subseteq 1..MaxRows
    /\ overlapped \in BOOLEAN
    /\ undone \subseteq 1..MaxRows

\* A table whose rows each name the row before them: verify_chain's links.
Linked(table) ==
    \A i \in 1..Len(table) :
        table[i].prev = IF i = 1 THEN Genesis ELSE table[i - 1].id

\* verify_chain succeeds on every table that emit calls leave behind ...
ChainVerifies == Linked(rows)

\* ... as long as no two emits were in progress at once, whatever failed or
\* crashed in between.
ForkOnlyByOverlap == overlapped \/ ChainVerifies

\* At most one connection has uncommitted rows, and only while an emit is in
\* progress on it: a failed emit leaves no transaction that locks out others.
OneWriter ==
    /\ \A c, d \in Connections : pending[c] # <<>> /\ pending[d] # <<>> => c = d
    /\ \A c \in Connections : pending[c] # <<>> =>
         \E e \in Emitters : ConnOf[e] = c /\ pc[e] = "inserted"

=============================================================================
