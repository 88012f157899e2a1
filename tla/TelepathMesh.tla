---------------------------- MODULE TelepathMesh ----------------------------
(***************************************************************************)
(* The peers of a Telepath node and broadcast_ram (telepath/node.py): one  *)
(* node that broadcasts, seen from inside, and the nodes around it.        *)
(*                                                                         *)
(* A node is known by its key.  Nodes started from the command line make a *)
(* new key each time, so an address answers with another key after a       *)
(* restart, while self.peers keeps the old entry: entries are added and    *)
(* never removed.  broadcast_ram signs one message and sends it to the     *)
(* entries in the order of the dict, one request at a time, awaiting each. *)
(* A request first connects, then waits for the answer, each with a        *)
(* timeout; its frame is small, so sending and closing do not wait.        *)
(*                                                                         *)
(* Time is the broadcasting node's.  The clock of another address differs  *)
(* from it by an offset: messages are dated by their sender's clock and    *)
(* verified, in both directions, by their receiver's.                      *)
(***************************************************************************)
EXTENDS Integers, SequencesExt

CONSTANTS
    Addresses,
    Lives,        \* bound: keys each address uses, one for each start
    Broadcasts,   \* coroutines that broadcast
    Timeout,      \* timeout of _request, for connecting and for the answer
    MaxSkew,      \* max_skew_s of protocol.verify
    MaxOffset,    \* bound on the difference of two clocks
    Offsets       \* differences of another clock to the broadcasting node's

ASSUME MeshAssumption ==
    /\ Lives \in Nat \ {0}
    /\ Timeout \in Nat \ {0}
    /\ MaxSkew \in Nat
    /\ MaxOffset \in Nat
    /\ Offsets \subseteq -MaxOffset..MaxOffset

\* The age from which on a message is too old by every clock.
MaxAge == MaxSkew + MaxOffset + 1

\* A key: the address and the life of the node that made it.
Keys == Addresses \X (1..Lives)

\* What a coroutine waiting for an answer may find.
NoAnswer == [from |-> <<>>, type |-> "none"]
Answers == [from : Keys, type : {"ACK", "ERROR", "closed"}] \cup {NoAnswer}

VARIABLES
    peers,     \* the keys of self.peers, in the order of the dict
    life,      \* starts of the node at each address so far
    up,        \* the addresses where a node runs
    pc,        \* where each broadcast is
    entry,     \* the position of the entry it is at
    size,      \* the size of the dict when its loop began
    offset,    \* how far the clock at each address is ahead
    full,      \* addresses whose replay cache is full of unexpired nonces
    age,       \* time since its message was signed, up to MaxAge
    waited,    \* time its request has been connecting, or waiting
    dated,     \* what waited was when its answer was signed
    frames,    \* messages that reached a node and are not handled
    answer,    \* the answer to its request
    received,  \* keys of the nodes that handled its message
    refused,   \* positions of entries that answered ERROR
    crowded    \* history: nodes that refused its message for a full cache

nodes == <<peers, life, up, offset, full>>
timing == <<age, waited, dated>>
outcome == <<received, refused, crowded>>
vars == <<nodes, pc, entry, size, timing, frames, answer, outcome>>

Init ==
    /\ peers = <<>>
    /\ life = [a \in Addresses |-> 1]
    /\ up = Addresses
    /\ offset \in [Addresses -> Offsets]
    /\ full = {}
    /\ pc = [b \in Broadcasts |-> "idle"]
    /\ entry = [b \in Broadcasts |-> 0]
    /\ size = [b \in Broadcasts |-> 0]
    /\ age = [b \in Broadcasts |-> 0]
    /\ waited = [b \in Broadcasts |-> 0]
    /\ dated = [b \in Broadcasts |-> 0]
    /\ frames = {}
    /\ answer = [b \in Broadcasts |-> NoAnswer]
    /\ received = [b \in Broadcasts |-> {}]
    /\ refused = [b \in Broadcasts |-> {}]
    /\ crowded = [b \in Broadcasts |-> {}]

Running(b) == pc[b] \in {"connecting", "waiting"}

-----------------------------------------------------------------------------
(***************************************************************************)
(* Peers.                                                                  *)
(***************************************************************************)

\* self.peers[sender] = ...: the entry of a key that is known stays in place.
Enter(a) ==
    /\ a \in up
    /\ peers' = IF <<a, life[a]>> \in ToSet(peers) THEN peers
                ELSE Append(peers, <<a, life[a]>>)
    /\ UNCHANGED <<life, up, offset, full, pc, entry, size, timing, frames, answer,
                   outcome>>

\* A HELLO from the node at a is handled; connect to that node returns.
Hello(a) == Enter(a)
ConnectTo(a) == Enter(a)

\* The node at a stops: its connections break.
Stop(a) ==
    /\ a \in up
    /\ up' = up \ {a}
    /\ frames' = {f \in frames : f.to[1] # a}
    /\ answer' = [b \in Broadcasts |->
         IF [of |-> b, to |-> <<a, life[a]>>] \in frames /\ pc[b] = "waiting"
         THEN [from |-> <<a, life[a]>>, type |-> "closed"] ELSE answer[b]]
    /\ UNCHANGED <<peers, life, offset, full, pc, entry, size, timing, outcome>>

\* The replay cache starts empty.
Restart(a) ==
    /\ a \notin up
    /\ life[a] < Lives
    /\ up' = up \cup {a}
    /\ life' = [life EXCEPT ![a] = @ + 1]
    /\ full' = full \ {a}
    /\ UNCHANGED <<peers, offset, pc, entry, size, timing, frames, answer, outcome>>

\* Requests of others fill the replay cache of the node at a; nonces expire.
Crowd(a) ==
    /\ a \in up
    /\ full' \in {full \cup {a}, full \ {a}}
    /\ UNCHANGED <<peers, life, up, offset, pc, entry, size, timing, frames, answer,
                   outcome>>

\* RAM_BROADCAST in _handle_connection: the message is verified, its nonce
\* accepted, the entry recorded (tiers.touch) and a receipt written.  What the
\* handler sends goes nowhere if the broadcast has given up the request.
Respond(f, type) ==
    /\ frames' = frames \ {f}
    /\ IF pc[f.of] = "waiting"
       THEN /\ answer' = [answer EXCEPT ![f.of] = [from |-> f.to, type |-> type]]
            /\ dated' = [dated EXCEPT ![f.of] = waited[f.of]]
       ELSE UNCHANGED <<answer, dated>>
    /\ UNCHANGED <<nodes, pc, entry, size, age, waited, refused>>

\* A time that differs by d from the reader's clock.
InWindow(d) == -MaxSkew <= d /\ d <= MaxSkew

Fresh(f) == InWindow(age[f.of] + offset[f.to[1]])
Known(f) == f.to \in received[f.of]

AtEdge(f) ==                                                     \* faulty variant
    InWindow(age[f.of] + offset[f.to[1]] + 1) /\ f.to[1] \notin full /\ ~Known(f)
Acceptable(f) == Fresh(f) /\ f.to[1] \notin full /\ ~Known(f)

Receive(f) ==
    /\ Acceptable(f)
    /\ received' = [received EXCEPT ![f.of] = @ \cup {f.to}]
    /\ \E type \in {"ACK", "closed"} : Respond(f, type)   \* closed: no receipt
    /\ UNCHANGED crowded

\* A timestamp out of the window, a full replay cache, or a known nonce.
Reject(f) ==
    /\ ~Acceptable(f)
    /\ Respond(f, "ERROR")
    /\ crowded' = [crowded EXCEPT ![f.of] =
         IF Fresh(f) /\ f.to[1] \in full THEN @ \cup {f.to} ELSE @]
    /\ UNCHANGED received

-----------------------------------------------------------------------------
(***************************************************************************)
(* broadcast_ram.                                                          *)
(***************************************************************************)

\* next() of the dict's iterator: it raises if the dict has grown since the
\* loop began, also behind the last entry; else the loop ends or goes on.
Advance(b, done) ==
    /\ pc' = [pc EXCEPT ![b] = CASE Len(peers) # size'[b] -> "raised"
                                 [] done = size'[b] -> "returned"
                                 [] OTHER -> "connecting"]
    /\ entry' = [entry EXCEPT ![b] = IF pc'[b] = "connecting" THEN done + 1 ELSE done]
    /\ waited' = [waited EXCEPT ![b] = 0]
    /\ dated' = [dated EXCEPT ![b] = 0]
    /\ answer' = [answer EXCEPT ![b] = NoAnswer]

Begin(b) ==
    /\ pc[b] = "idle"
    /\ size' = [size EXCEPT ![b] = Len(peers)]
    /\ Advance(b, 0)
    /\ UNCHANGED <<nodes, age, frames, outcome>>

\* open_connection succeeds; the frame is sent.
Connect(b) ==
    LET a == peers[entry[b]][1] IN
    /\ pc[b] = "connecting"
    /\ a \in up
    /\ pc' = [pc EXCEPT ![b] = "waiting"]
    /\ frames' = frames \cup {[of |-> b, to |-> <<a, life[a]>>]}
    /\ waited' = [waited EXCEPT ![b] = 0]
    /\ UNCHANGED <<nodes, entry, size, age, dated, answer, outcome>>

Raise(b) ==
    /\ pc' = [pc EXCEPT ![b] = "raised"]
    /\ answer' = [answer EXCEPT ![b] = NoAnswer]
    /\ waited' = [waited EXCEPT ![b] = 0]
    /\ dated' = [dated EXCEPT ![b] = 0]
    /\ UNCHANGED <<nodes, entry, size, age, frames, outcome>>

\* The connection is refused, or a timeout ends the connecting or the waiting.
Refused(b) == pc[b] = "connecting" /\ peers[entry[b]][1] \notin up /\ Raise(b)
NoTimeout(b) == FALSE                                            \* faulty variant
TimedOut(b) == Running(b) /\ waited[b] = Timeout
GiveUp(b) == TimedOut(b) /\ Raise(b)

\* verify of the answer: its date against the clock here.
Timely(b) == InWindow(waited[b] - dated[b] - offset[answer[b].from[1]])

\* No answer, one out of the window, or one from another key than the entry's.
WrongAnswer(b) ==
    /\ answer[b] # NoAnswer
    /\ \/ answer[b].type = "closed" \/ ~Timely(b)
       \/ answer[b].from # peers[entry[b]]
    /\ Raise(b)

\* An answer with the entry's signature: broadcast_ram does not ask which.
AnyoneAnswered(b) ==                                             \* faulty variant
    /\ answer[b] # NoAnswer
    /\ answer[b].type # "closed" /\ Timely(b)
    /\ size' = size
    /\ Advance(b, entry[b])
    /\ UNCHANGED <<nodes, age, frames, outcome>>
Answered(b) ==
    /\ answer[b] # NoAnswer
    /\ answer[b].type # "closed" /\ Timely(b)
    /\ answer[b].from = peers[entry[b]]
    /\ size' = size
    /\ Advance(b, entry[b])
    /\ refused' = [refused EXCEPT ![b] =
         IF answer[b].type = "ERROR" THEN @ \cup {entry[b]} ELSE @]
    /\ UNCHANGED <<nodes, age, frames, received, crowded>>

Step(b) == Connect(b) \/ Refused(b) \/ GiveUp(b) \/ WrongAnswer(b) \/ Answered(b)

\* Time passes; a timer that is due fires first.
Tick ==
    /\ \E b \in Broadcasts : Running(b)
    /\ \A b \in Broadcasts : Running(b) => waited[b] < Timeout
    /\ waited' = [b \in Broadcasts |-> IF Running(b) THEN waited[b] + 1 ELSE waited[b]]
    /\ age' = [b \in Broadcasts |->
         IF pc[b] # "idle" /\ age[b] < MaxAge THEN age[b] + 1 ELSE age[b]]
    /\ UNCHANGED <<nodes, pc, entry, size, dated, frames, answer, outcome>>

Next ==
    \/ \E a \in Addresses : Hello(a) \/ ConnectTo(a) \/ Stop(a) \/ Restart(a)
                           \/ Crowd(a)
    \/ \E f \in frames : Receive(f) \/ Reject(f)
    \/ \E b \in Broadcasts : Begin(b) \/ Step(b)
    \/ Tick

(***************************************************************************)
(* Fairness: the event loop runs what is ready, and time passes.  Nothing  *)
(* is assumed of the other nodes.                                          *)
(***************************************************************************)
Spec == Init /\ [][Next]_vars /\ WF_vars(Tick) /\ \A b \in Broadcasts : WF_vars(Step(b))

-----------------------------------------------------------------------------
(***************************************************************************)
(* Properties.                                                             *)
(***************************************************************************)

\* A broadcast that returns was answered by every peer known when it began,
\* under that peer's own key, however peers came, went and restarted in the
\* meantime; and one that is under way or has raised reached all entries before
\* the one it is at, and none behind it except at an address it already tried.
BroadcastReach ==
    \A b \in Broadcasts, i \in 1..Len(peers) :
        /\ i < entry[b] \/ (pc[b] = "returned" /\ i <= size[b])
             => peers[i] \in received[b] \/ i \in refused[b]
        /\ peers[i] \in received[b] /\ i > entry[b]
             => \E j \in 1..entry[b] : peers[j][1] = peers[i][1]

\* The message is signed once, before the loop, and an ERROR answer counts as
\* delivered.  A peer refuses the message unnoticed only if its replay cache was
\* full, or if the timeouts of the entries up to it and the lead of its clock
\* add up to more than the accepted skew: never as a replay, and never for a
\* clock that is behind, because the answer is then refused here.
RefusedOnlyLate ==
    \A b \in Broadcasts : \A i \in refused[b] :
        peers[i] \in crowded[b] \/ 2 * Timeout * i + offset[peers[i][1]] > MaxSkew

\* Every broadcast ends, whatever the other nodes do.
BroadcastEnds == \A b \in Broadcasts : Running(b) ~> ~Running(b)

=============================================================================
