---------------------------- MODULE VaultServer ----------------------------
(***************************************************************************)
(* The vault server (vault/server.py) as its clients see it, composed of   *)
(* the access list (AclFile), the receipt chain (ReceiptChain) and the     *)
(* replay cache, with the command-line tool that adds models (vault/cli.py)*)
(* on a connection of its own.                                             *)
(*                                                                         *)
(* FastAPI runs the endpoints in a thread pool.  A thread reads the        *)
(* manifest and verifies the request (Begin), looks the nonce up and       *)
(* stores it (Lookup, then Deny, FailRead or Proceed), checks the rules    *)
(* the process loaded when it started, reads the shard, emits the receipt  *)
(* in the steps of ReceiptChain and answers.  All of that happens within   *)
(* the lifetime of a nonce: the clock and the expiry of nonces are the     *)
(* subject of ReplayGuard.                                                 *)
(***************************************************************************)
EXTENDS AclFile, ReceiptChain

CONSTANTS
    Server,       \* the server process, also its database connection
    Threads,      \* threads of its pool
    Tool,         \* the command that adds models
    Models,
    Senders,
    Star,         \* the model name of a rule for all models
    Nonces,       \* the (sender, nonce) pairs of requests
    SenderOf,     \* who signed with a nonce
    Requests,     \* the signed requests clients send
    MaxEntries,   \* max_entries of the replay cache
    MaxBoots,     \* bound on starts of the server
    NoRequest     \* what an idle thread works on

ASSUME ServerAssumption ==
    /\ Server \in Procs \ Admins
    /\ Emitters = Threads \cup {Tool} /\ Tool \notin Threads
    /\ \A t \in Threads : ConnOf[t] = Server
    /\ ConnOf[Tool] # Server
    /\ SenderOf \in [Nonces -> Senders]
    /\ Requests \subseteq [nonce : Nonces, model : Models, op : {"open", "read"}]
    /\ MaxEntries \in Nat \ {0} /\ MaxBoots \in Nat
    /\ NoRequest \notin Requests

VARIABLES
    published,   \* models with a manifest
    at,          \* where each thread, or the tool, is
    req,         \* the request each thread works on
    used,        \* the replay cache of this boot
    boots,       \* starts of the server so far
    bootRules,   \* history: the rules that were allowed when the server loaded its own
    released,    \* history: answers with a receipt, and the row of each
    nonceRaced   \* history: two threads were past the lookup of one nonce

serverVars == <<published, at, req, used, boots, bootRules, released, nonceRaced>>

allVars == <<aclVars, vars, serverVars>>

ServerInit ==
    /\ AclInit
    /\ Init
    /\ published \in SUBSET Models
    /\ at = [e \in Emitters |-> "idle"]
    /\ req = [t \in Threads |-> NoRequest]
    /\ used = {}
    /\ boots = 0
    /\ bootRules = {}
    /\ released = {}
    /\ nonceRaced = FALSE

\* Where e goes next; an answer ends its work on the request.
Goto(e, place) ==
    /\ at' = [at EXCEPT ![e] = place]
    /\ req' = IF e = Tool \/ place # "idle" THEN req ELSE [req EXCEPT ![e] = NoRequest]

(***************************************************************************)
(* The processes around the endpoints.                                     *)
(***************************************************************************)

\* create_app constructs the ACL; the endpoints exist once it is there.
StartServer ==
    /\ boots < MaxBoots
    /\ Load(Server)
    /\ boots' = boots + 1
    /\ used' = {}
    /\ bootRules' = allowed
    /\ UNCHANGED <<vars, published, at, req, released, nonceRaced>>

AdminStep(p) ==
    /\ p # Server
    /\ AclStep(p) \/ Exit(p)
    /\ UNCHANGED <<vars, serverVars>>

ServerStep ==
    /\ step[Server] # "off"
    /\ AclStep(Server)
    /\ UNCHANGED <<vars, serverVars>>

\* The server is stopped, and SQLite drops the transaction of its connection.
StopServer ==
    /\ Exit(Server)
    /\ at' = [e \in Emitters |-> IF e \in Threads THEN "idle" ELSE at[e]]
    /\ IF \E t \in Threads : pc[t] # "idle" THEN Crash(Server) ELSE UNCHANGED vars
    /\ req' = [t \in Threads |-> NoRequest]
    /\ UNCHANGED <<published, used, boots, bootRules, released, nonceRaced>>

\* Bound: an emit that is begun must not find MaxRows used up.
RoomForRow ==
    calls + Cardinality({e \in Emitters : at[e] # "idle" /\ pc[e] = "idle"}) < MaxRows

\* cmd_add: the store publishes the manifest, then the receipt is emitted.
Add(m) ==
    /\ at[Tool] = "idle"
    /\ m \notin published
    /\ RoomForRow
    /\ published' = published \cup {m}
    /\ Goto(Tool, "emit")
    /\ UNCHANGED <<aclVars, vars, used, boots, bootRules, released, nonceRaced>>

StopTool ==
    /\ at[Tool] # "idle"
    /\ Goto(Tool, "idle")
    /\ IF pc[Tool] # "idle" THEN Crash(ConnOf[Tool]) ELSE UNCHANGED vars
    /\ UNCHANGED <<aclVars, published, used, boots, bootRules, released, nonceRaced>>

-----------------------------------------------------------------------------
(***************************************************************************)
(* open_model and shard.                                                   *)
(***************************************************************************)

\* No manifest: 404.  A request that is malformed, does not match the
\* operation, or is not verified: 400 or 403.  Neither spends the nonce.
Turn(t, r) ==
    /\ step[Server] = "ready"
    /\ at[t] = "idle"
    /\ UNCHANGED <<aclVars, vars, published, used, boots, bootRules, released, nonceRaced>>

Refuse(t, r) ==
    /\ Turn(t, r)
    /\ UNCHANGED <<at, req>>

\* get_manifest: what cmd_add has published by now.
Found(r) == r.model \in published

Begin(t, r) ==
    /\ Turn(t, r)
    /\ Found(r)
    /\ RoomForRow
    /\ at' = [at EXCEPT ![t] = "lookup"]
    /\ req' = [req EXCEPT ![t] = r]

\* accept, up to the test of the key: 409 for a known nonce or a full cache.
Known(t) == req[t].nonce \in used \/ Cardinality(used) >= MaxEntries

Unasked(t) ==                                                    \* faulty variant
    /\ at[t] = "lookup"
    /\ Goto(t, "record")
    /\ UNCHANGED <<aclVars, vars, published, used, boots, bootRules, released,
                   nonceRaced>>
Lookup(t) ==
    /\ at[t] = "lookup"
    /\ Goto(t, IF Known(t) THEN "idle" ELSE "record")
    /\ nonceRaced' = (nonceRaced \/ \E u \in Threads \ {t} :
                        at[u] = "record" /\ req[u].nonce = req[t].nonce)
    /\ UNCHANGED <<aclVars, vars, published, used, boots, bootRules, released>>

\* is_allowed, on the rules the server has had since it started.
AnyRule(r) == rules[Server] # {}                                 \* faulty variant
IsAllowed(r) ==
    \E m \in {r.model, Star} : <<m, SenderOf[r.nonce]>> \in rules[Server]

\* accept, last statement.  From here to the receipt a thread touches nothing
\* that another one changes.
Record(t, next) ==
    /\ at[t] = "record"
    /\ used' = used \cup {req[t].nonce}
    /\ Goto(t, next)
    /\ UNCHANGED <<aclVars, vars, published, boots, bootRules, released, nonceRaced>>

\* 403: not in ACL.
Deny(t) == Record(t, "idle") /\ ~IsAllowed(req[t])

\* 404 for an index out of range, 500 for a shard that does not decrypt.
FailRead(t) == Record(t, "idle") /\ IsAllowed(req[t]) /\ req[t].op = "read"

Proceed(t) == Record(t, "emit") /\ IsAllowed(req[t])

\* emit, in a thread of the server or in the tool.
BeginEmit(e) ==
    /\ at[e] = "emit"
    /\ Select(e)
    /\ UNCHANGED <<aclVars, serverVars>>

InsertRow(e) ==
    /\ Insert(e)
    /\ UNCHANGED <<aclVars, serverVars>>

\* The receipt is committed and the answer, with its id, goes out.
Answer(e) ==
    /\ Commit(e)
    /\ Goto(e, "idle")
    /\ released' = IF e = Tool THEN released ELSE released \cup
         {[request |-> req[e], boot |-> boots, row |-> row[e].id, rules |-> bootRules]}
    /\ UNCHANGED <<aclVars, published, used, boots, bootRules, nonceRaced>>

\* SQLite raises, if only because another connection kept the lock for longer
\* than the busy timeout: status 500.
FailEmit(e) ==
    /\ Fail(e)
    /\ Goto(e, "idle")
    /\ UNCHANGED <<aclVars, published, used, boots, bootRules, released, nonceRaced>>

Emit(e) == BeginEmit(e) \/ InsertRow(e) \/ Answer(e) \/ FailEmit(e)

Handle(t) == Lookup(t) \/ Deny(t) \/ FailRead(t) \/ Proceed(t) \/ Emit(t)

-----------------------------------------------------------------------------
ServerNext ==
    \/ StartServer \/ ServerStep \/ StopServer
    \/ \E p \in Procs : AdminStep(p)
    \/ \E m \in Models : Add(m)
    \/ Emit(Tool) \/ StopTool
    \/ \E t \in Threads :
         \/ \E r \in Requests : Refuse(t, r) \/ Begin(t, r)
         \/ Handle(t)

ServerSpec == ServerInit /\ [][ServerNext]_allVars

-----------------------------------------------------------------------------
(***************************************************************************)
(* Properties.                                                             *)
(***************************************************************************)

\* Every answer that names a receipt has a row of its own in the chain, even
\* after crashes; only an overlapping emit, whose rollback on the shared
\* connection takes the row back, can undo that.  A receipt of the tool, which
\* has its connection to itself, is always in the chain.
ReleasedReceipted ==
    /\ \A x, y \in released : x.row = y.row => x = y
    /\ \A x \in released : x.row \in Ids(rows) \/ (overlapped /\ x.row \in undone)
    /\ returned \ {x.row : x \in released} \subseteq Ids(rows)

\* A signed request is answered with data or a receipt once in a boot, unless
\* two threads looked its nonce up before either had stored it.
ReleasedOnce ==
    nonceRaced \/ \A x, y \in released :
        x.boot = y.boot /\ x.request.nonce = y.request.nonce => x = y

\* Data goes to a sender only if a rule for the model, or for all models, was
\* allowed and not revoked when the server started, however the rule got from
\* the administrator's process through acl.json into the server's.
ReleasedAllowed ==
    aclRaced \/ \A x \in released :
        \E m \in {x.request.model, Star} :
            <<m, SenderOf[x.request.nonce]>> \in x.rules

=============================================================================
