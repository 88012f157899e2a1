---------------------------- MODULE ReplayGuard ----------------------------
(***************************************************************************)
(* Replay protection as a handler runs it: read the clock and check the    *)
(* timestamp (verify), read the clock again and go through the steps of    *)
(* NonceCache.accept, then act on the request.                             *)
(*                                                                         *)
(* Two schedules exist in the code.  The vault server's endpoints are      *)
(* plain functions that FastAPI runs in a thread pool                      *)
(* (vault/server.py:24-33), so the steps of several handlers interleave on *)
(* one unlocked dict.  A Telepath node verifies and accepts between two    *)
(* awaits of one event loop (telepath/node.py:80-83), so one handler       *)
(* finishes before the next starts: those are the behaviours in which      *)
(* handlers never overlap.                                                 *)
(*                                                                         *)
(* The cache lives in memory only: a restart empties it.                   *)
(***************************************************************************)
EXTENDS NonceCache

CONSTANTS
    Handlers,    \* handler activations that may be in progress
    Stamps,      \* timestamps requests carry
    MaxLag,      \* bound: time from verify's clock reading to the end of accept
    MaxClock,    \* bound on the clock
    MaxBoots,    \* bound on restarts
    NoRequest    \* what an idle handler works on

\* A signed request: the same key may be signed again with a later timestamp.
Requests == [key : Keys, ts : Stamps]

ASSUME GuardAssumption ==
    /\ Stamps \subseteq Int
    /\ MaxLag \in Nat
    /\ MaxClock \in Nat
    /\ MaxBoots \in Nat
    /\ NoRequest \notin Requests

Never == -1

VARIABLES
    clock,     \* time.time(), one clock for all handlers
    seen,      \* the cache
    swept,     \* what each handler's rebuild of the cache keeps
    pc,        \* where each handler is
    req,       \* the request each handler works on
    verified,  \* the clock reading of its verify
    current,   \* the clock reading of its accept
    boot,      \* restarts so far
    times,     \* history: how often each request was accepted in this boot
    last,      \* history: the latest acceptance of each key in this boot
    overlapped \* history: two handlers were in progress at once in this boot

history == <<times, last, overlapped>>
vars == <<clock, seen, swept, pc, req, verified, current, boot, history>>

Init ==
    /\ clock = 0
    /\ seen = EmptyCache
    /\ swept = [h \in Handlers |-> EmptyCache]
    /\ pc = [h \in Handlers |-> "idle"]
    /\ req = [h \in Handlers |-> NoRequest]
    /\ verified = [h \in Handlers |-> 0]
    /\ current = [h \in Handlers |-> 0]
    /\ boot = 0
    /\ times = [r \in Requests |-> 0]
    /\ last = [k \in Keys |-> Never]
    /\ overlapped = FALSE

(***************************************************************************)
(* Verify: the clock is read and the timestamp checked.  A stale or        *)
(* future-dated request is answered with an error and changes nothing.     *)
(***************************************************************************)
Verify(h, r) ==
    /\ pc[h] = "idle"
    /\ InWindow(clock, r.ts)
    /\ pc' = [pc EXCEPT ![h] = "accept"]
    /\ req' = [req EXCEPT ![h] = r]
    /\ verified' = [verified EXCEPT ![h] = clock]
    /\ overlapped' = (overlapped \/ \E g \in Handlers : pc[g] # "idle")
    /\ UNCHANGED <<clock, seen, swept, current, boot, times, last>>

RefuseStale(h, r) ==
    /\ pc[h] = "idle"
    /\ ~InWindow(clock, r.ts)
    /\ UNCHANGED vars

\* accept: read the clock; a cache that is full is rebuilt first.
EnterAccept(h) ==
    /\ pc[h] = "accept"
    /\ current' = [current EXCEPT ![h] = clock]
    /\ \/ ~IsFull(seen) /\ pc' = [pc EXCEPT ![h] = "lookup"] /\ UNCHANGED swept
       \/ /\ IsFull(seen)
          /\ pc' = [pc EXCEPT ![h] = "sweep"]
          /\ swept' = [swept EXCEPT ![h] = Sweep(seen, clock)]
    /\ UNCHANGED <<clock, seen, req, verified, boot, history>>

\* The iteration over the dict comes to its end.
EndSweep(h) ==
    /\ pc[h] = "sweep"
    /\ pc' = [pc EXCEPT ![h] = "assign"]
    /\ UNCHANGED <<clock, seen, swept, req, verified, current, boot, history>>

\* It meets a dict that has grown: RuntimeError, and the request fails.
FailSweep(h) ==
    /\ pc[h] = "broken"
    /\ pc' = [pc EXCEPT ![h] = "idle"]
    /\ swept' = [swept EXCEPT ![h] = EmptyCache]
    /\ UNCHANGED <<clock, seen, req, verified, current, boot, history>>

\* The new dict takes the place of the old one, whatever was stored in that
\* meanwhile, and is refused if it is full, too.  Who still iterates over the
\* old dict does so undisturbed, for nobody adds to it any more.
RecheckOld(h) ==                                                 \* faulty variant
    /\ pc[h] = "assign"
    /\ seen' = swept[h]
    /\ swept' = [swept EXCEPT ![h] = EmptyCache]
    /\ pc' = [g \in Handlers |->
                 CASE g = h -> IF IsFull(seen) THEN "idle" ELSE "lookup"
                   [] g # h -> IF pc[g] = "sweep" THEN "assign" ELSE pc[g]]
    /\ UNCHANGED <<clock, req, verified, current, boot, history>>
Assign(h) ==
    /\ pc[h] = "assign"
    /\ seen' = swept[h]
    /\ swept' = [swept EXCEPT ![h] = EmptyCache]
    /\ pc' = [g \in Handlers |->
                 CASE g = h -> IF IsFull(swept[h]) THEN "idle" ELSE "lookup"
                   [] g # h -> IF pc[g] = "sweep" THEN "assign" ELSE pc[g]]
    /\ UNCHANGED <<clock, req, verified, current, boot, history>>

\* Refuse a key whose entry has not expired.
Lookup(h) ==
    /\ pc[h] = "lookup"
    /\ pc' = [pc EXCEPT ![h] = IF Remembers(seen, req[h].key, current[h])
                               THEN "idle" ELSE "record"]
    /\ UNCHANGED <<clock, seen, swept, req, verified, current, boot, history>>

\* Remember the key; the caller goes on with the request.  A new key makes the
\* dict grow under those that iterate over it; a new time for a key that is
\* there reaches the ones that have not come to it yet.
Record(h) ==
    /\ pc[h] = "record"
    /\ seen' = Remember(seen, req[h].key, current[h])
    /\ LET sweepers == {g \in Handlers : pc[g] = "sweep"}
           grows == seen[req[h].key] = Absent
       IN /\ pc' = [g \in Handlers |-> IF g = h THEN "idle"
                                      ELSE IF grows /\ g \in sweepers THEN "broken"
                                      ELSE pc[g]]
          /\ \E reached \in SUBSET sweepers :
                swept' = [g \in Handlers |->
                            IF g \in reached /\ ~grows
                            THEN Sweep(Remember(swept[g], req[h].key, current[h]), current[g])
                            ELSE swept[g]]
    /\ times' = [times EXCEPT ![req[h]] = @ + 1]
    /\ last' = [last EXCEPT ![req[h].key] = IF current[h] > @ THEN current[h] ELSE @]
    /\ UNCHANGED <<clock, req, verified, current, boot, overlapped>>

Tick ==
    /\ clock < MaxClock
    /\ \A h \in Handlers : pc[h] # "idle" => clock - verified[h] < MaxLag
    /\ clock' = clock + 1
    /\ UNCHANGED <<seen, swept, pc, req, verified, current, boot, history>>

\* The process stops at any point and starts with a new, empty cache.
Restart ==
    /\ boot < MaxBoots
    /\ boot' = boot + 1
    /\ seen' = EmptyCache
    /\ swept' = [h \in Handlers |-> EmptyCache]
    /\ pc' = [h \in Handlers |-> "idle"]
    /\ times' = [r \in Requests |-> 0]
    /\ last' = [k \in Keys |-> Never]
    /\ overlapped' = FALSE
    /\ UNCHANGED <<clock, req, verified, current>>

Next ==
    \/ \E h \in Handlers : \/ \E r \in Requests : Verify(h, r) \/ RefuseStale(h, r)
                           \/ EnterAccept(h)
                           \/ EndSweep(h) \/ FailSweep(h) \/ Assign(h)
                           \/ Lookup(h)
                           \/ Record(h)
    \/ Tick
    \/ Restart

Spec == Init /\ [][Next]_vars

-----------------------------------------------------------------------------
(***************************************************************************)
(* Properties.                                                             *)
(***************************************************************************)

\* Types, and the range of the clock readings and expiry times the handlers
\* and the cache keep.
TypeOK ==
    /\ clock \in 0..MaxClock
    /\ seen \in [Keys -> 0..(MaxClock + NonceTtl)]
    /\ swept \in [Handlers -> [Keys -> 0..(MaxClock + NonceTtl)]]
    /\ pc \in [Handlers -> {"idle", "accept", "sweep", "broken", "assign", "lookup", "record"}]
    /\ req \in [Handlers -> Requests \cup {NoRequest}]
    /\ \A h \in Handlers : pc[h] # "idle" => req[h] \in Requests
    /\ verified \in [Handlers -> 0..MaxClock]
    /\ current \in [Handlers -> 0..MaxClock]
    /\ boot \in 0..MaxBoots
    /\ times \in [Requests -> Nat]
    /\ last \in [Keys -> {Never} \cup 0..MaxClock]
    /\ overlapped \in BOOLEAN

\* No signed request is acted on twice by one process: the purpose of the
\* cache.  It needs the entry to outlive every moment at which the request
\* still passes the timestamp test, and the TTL of the code ends with the last
\* of these moments.
AcceptedAtMostOnce == \A r \in Requests : times[r] <= 1

\* Unless handlers overlapped, a request is acted on a second time in a boot at
\* most once, and only at the end of its window, when it was first taken as
\* early as its timestamp allowed.
TwiceOnlyAtWindowEnd ==
    [][\A r \in Requests : ~overlapped /\ times'[r] > times[r] /\ times[r] > 0 =>
         /\ times[r] = 1
         /\ last'[r.key] >= r.ts + MaxSkew]_vars

\* Unless handlers overlapped, the cache never grows beyond max_entries.
CacheBounded == ~overlapped => Cardinality(Entries(seen)) <= MaxEntries

\* Whatever the timestamp, two acceptances of one (sender, nonce) key within a
\* boot are at least the cache's TTL apart, unless handlers overlapped.
AcceptancesSpaced ==
    [][\A r \in Requests : ~overlapped /\ times'[r] > times[r] /\ last[r.key] # Never
            => last'[r.key] - last[r.key] >= NonceTtl]_vars

\* The keys accepted less than a TTL before t in this boot.
RecentlyAccepted(t) == {k \in Keys : last[k] # Never /\ last[k] + NonceTtl > t}

\* accept refuses a verified request only if its key was accepted less than a
\* TTL ago, or max_entries keys were: a full cache recovers when entries expire.
RefusalsJustified ==
    [][\A h \in Handlers :
        /\ pc[h] \in {"accept", "assign", "lookup"} /\ pc'[h] = "idle" /\ boot' = boot
        => LET recent == RecentlyAccepted(current'[h]) IN
             \/ req[h].key \in recent
             \/ Cardinality(recent) >= MaxEntries]_vars

=============================================================================
