------------------------------ MODULE AclFile ------------------------------
(***************************************************************************)
(* The access list (class ACL of vault/access.py): rules in the memory of  *)
(* each process that constructs one, and acl.json, which save replaces     *)
(* through a temporary file of a fixed name, acl.json.tmp.                 *)
(*                                                                         *)
(* Names refer to inodes: opening the temporary file truncates the inode   *)
(* it names, a process keeps writing to the inode it opened, and replace   *)
(* moves whatever the name refers to by then.  Each file operation is a    *)
(* step of its own; a process may stop between any two.                    *)
(***************************************************************************)
EXTENDS Integers

CONSTANTS
    Procs,        \* processes that construct an ACL on the same file
    Admins,       \* those that also call allow and revoke
    Rules,        \* pairs of a model, or Star, and a sender
    MaxInodes,    \* bound on the temporary files created
    MaxChanges,   \* bound on calls of allow and revoke
    NoFile,       \* a name that refers to nothing
    Blank,        \* an inode that was truncated and not written
    Garbled       \* one text written over a part of another

ASSUME AclAssumption ==
    /\ Admins \subseteq Procs
    /\ MaxInodes \in Nat /\ MaxChanges \in Nat
    /\ NoFile \notin 1..MaxInodes /\ MaxInodes > 0

Inodes == 1..MaxInodes

VARIABLES
    aclJson,    \* the inode acl.json names
    aclTmp,     \* the inode acl.json.tmp names
    content,    \* what is in each inode: a set of rules, Blank or Garbled
    created,    \* inodes created so far
    step,       \* where each process is in the constructor or in save
    rules,      \* the rules in each process's memory
    handle,     \* the inode each process has open for writing
    change,     \* the rules its save is to add and to remove
    changes,    \* calls of allow and revoke so far
    allowed,    \* history: the rules after the changes that returned
    outdated,   \* history: processes that loaded before the last save
    aclRaced    \* history: a save began during another or from old rules

aclVars == <<aclJson, aclTmp, content, created, step, rules, handle, change,
             changes, allowed, outdated, aclRaced>>

\* Where acl.json and acl.json.tmp are; the history; the rest, by process.
names == <<aclJson, aclTmp, content, created>>
history == <<allowed, outdated, aclRaced>>

NoChange == [add |-> {}, remove |-> {}]

\* There is no file yet, or one with some rules.
AclInit ==
    /\ allowed \in SUBSET Rules
    /\ aclJson \in {NoFile, 1}
    /\ aclJson = NoFile => allowed = {}
    /\ aclTmp = NoFile
    /\ content = [i \in Inodes |-> IF i = aclJson THEN allowed ELSE Blank]
    /\ created = IF aclJson = NoFile THEN 0 ELSE 1
    /\ step = [p \in Procs |-> "off"]
    /\ rules = [p \in Procs |-> {}]
    /\ handle = [p \in Procs |-> NoFile]
    /\ change = [p \in Procs |-> NoChange]
    /\ changes = 0
    /\ outdated = {}
    /\ aclRaced = FALSE

Saving(p) == step[p] \in {"opened", "written"}

\* __init__: load the file if there is one.
Load(p) ==
    /\ step[p] = "off"
    /\ aclJson # NoFile => content[aclJson] \notin {Blank, Garbled}
    /\ step' = [step EXCEPT ![p] = "loaded"]
    /\ rules' = [rules EXCEPT ![p] = IF aclJson = NoFile THEN {} ELSE content[aclJson]]
    /\ UNCHANGED <<names, handle, change, changes, history>>

\* json.loads raises on a file that is not whole: the process does not start.
LoadFails(p) ==
    /\ step[p] = "off"
    /\ aclJson # NoFile /\ content[aclJson] \in {Blank, Garbled}
    /\ UNCHANGED aclVars

\* __init__, second test: save the rules if there is (still) no file.
SaveIfAbsent(p) ==
    /\ step[p] = "loaded"
    /\ step' = [step EXCEPT ![p] = IF aclJson = NoFile THEN "save" ELSE "ready"]
    /\ UNCHANGED <<names, rules, handle, change, changes, history>>

\* allow and revoke: change the rules in memory, then save all of them.
Change(p, add, remove) ==
    /\ p \in Admins
    /\ step[p] = "ready"
    /\ changes < MaxChanges
    /\ changes' = changes + 1
    /\ rules' = [rules EXCEPT ![p] = (@ \cup add) \ remove]
    /\ change' = [change EXCEPT ![p] = [add |-> add, remove |-> remove]]
    /\ step' = [step EXCEPT ![p] = "save"]
    /\ UNCHANGED <<names, handle, history>>

Allow(p, r) == Change(p, {r}, {})
Revoke(p, r) == Change(p, {}, {r})

\* save: open acl.json.tmp, truncating the file of that name if there is one.
OpenTmp(p) ==
    LET inode == IF aclTmp = NoFile THEN created + 1 ELSE aclTmp IN
    /\ step[p] = "save"
    /\ inode \in Inodes
    /\ aclTmp' = inode
    /\ created' = IF aclTmp = NoFile THEN inode ELSE created
    /\ content' = [content EXCEPT ![inode] = Blank]
    /\ handle' = [handle EXCEPT ![p] = inode]
    /\ step' = [step EXCEPT ![p] = "opened"]
    /\ aclRaced' = (aclRaced \/ p \in outdated \/ \E q \in Procs : Saving(q))
    /\ UNCHANGED <<aclJson, rules, change, changes, allowed, outdated>>

\* A text written from the start of an inode that is not blank may leave the
\* end of what was there.
Texts(old, new) == IF old \in {Blank, new} THEN {new} ELSE {new, Garbled}

WriteTmp(p) ==
    /\ step[p] = "opened"
    /\ \E text \in Texts(content[handle[p]], rules[p]) :
         content' = [content EXCEPT ![handle[p]] = text]
    /\ step' = [step EXCEPT ![p] = "written"]
    /\ UNCHANGED <<aclJson, aclTmp, created, rules, handle, change, changes, history>>

\* Faulty variant: write_text on acl.json itself would be a save without replace.
ReplaceEarly(p) ==
    /\ step[p] = "opened"
    /\ aclTmp # NoFile
    /\ aclJson' = aclTmp
    /\ aclTmp' = NoFile
    /\ step' = [step EXCEPT ![p] = "ready"]
    /\ handle' = [handle EXCEPT ![p] = NoFile]
    /\ change' = [change EXCEPT ![p] = NoChange]
    /\ allowed' = (allowed \cup change[p].add) \ change[p].remove
    /\ outdated' = {q \in Procs \ {p} : step[q] # "off"}
    /\ UNCHANGED <<content, created, rules, changes, aclRaced>>
Replace(p) ==
    /\ step[p] = "written"
    /\ aclTmp # NoFile
    /\ aclJson' = aclTmp
    /\ aclTmp' = NoFile
    /\ step' = [step EXCEPT ![p] = "ready"]
    /\ handle' = [handle EXCEPT ![p] = NoFile]
    /\ change' = [change EXCEPT ![p] = NoChange]
    /\ allowed' = (allowed \cup change[p].add) \ change[p].remove
    /\ outdated' = {q \in Procs \ {p} : step[q] # "off"}
    /\ UNCHANGED <<content, created, rules, changes, aclRaced>>

\* The process ends, or is stopped between two file operations.
Exit(p) ==
    /\ step[p] # "off"
    /\ step' = [step EXCEPT ![p] = "off"]
    /\ rules' = [rules EXCEPT ![p] = {}]
    /\ handle' = [handle EXCEPT ![p] = NoFile]
    /\ change' = [change EXCEPT ![p] = NoChange]
    /\ outdated' = outdated \ {p}
    /\ UNCHANGED <<names, changes, allowed, aclRaced>>

\* Another process has moved the temporary file away: FileNotFoundError, which
\* ends the process.
ReplaceFails(p) ==
    /\ step[p] = "written"
    /\ aclTmp = NoFile
    /\ Exit(p)

AclStep(p) ==
    \/ Load(p) \/ LoadFails(p) \/ SaveIfAbsent(p)
    \/ \E r \in Rules : Allow(p, r) \/ Revoke(p, r)
    \/ OpenTmp(p) \/ WriteTmp(p) \/ Replace(p) \/ ReplaceFails(p)

-----------------------------------------------------------------------------
\* acl.json is absent or whole and holds exactly what the changes that returned
\* add up to, wherever processes stopped, as long as no save began during
\* another or from rules that were loaded before another save.
FileKeepsChanges ==
    aclRaced \/ IF aclJson = NoFile THEN allowed = {} ELSE content[aclJson] = allowed

=============================================================================
