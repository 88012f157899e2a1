------------------------- MODULE TelepathMeshProofs -------------------------
(***************************************************************************)
(* Proofs about TelepathMesh, for any addresses, any number of restarts    *)
(* and broadcasts, and any timeout, skew and clocks.  Fairness is not      *)
(* used.                                                                   *)
(***************************************************************************)
EXTENDS TelepathMesh, SequenceTheorems, TLAPS

-----------------------------------------------------------------------------
(***************************************************************************)
(* The inductive invariant.                                                *)
(***************************************************************************)

Frames == [of : Broadcasts, to : Keys]

Typed ==
    /\ peers \in Seq(Keys)
    /\ life \in [Addresses -> 1..Lives]
    /\ up \subseteq Addresses
    /\ offset \in [Addresses -> Offsets]
    /\ full \subseteq Addresses
    /\ pc \in [Broadcasts -> {"idle", "connecting", "waiting", "returned", "raised"}]
    /\ entry \in [Broadcasts -> Nat]
    /\ size \in [Broadcasts -> Nat]
    /\ age \in [Broadcasts -> Nat]
    /\ waited \in [Broadcasts -> 0..Timeout]
    /\ dated \in [Broadcasts -> 0..Timeout]
    /\ frames \subseteq Frames
    /\ answer \in [Broadcasts -> Answers]
    /\ received \in [Broadcasts -> SUBSET Keys]
    /\ refused \in [Broadcasts -> SUBSET Nat]
    /\ crowded \in [Broadcasts -> SUBSET Keys]

\* No key is in the dict twice.
EnteredOnce == \A i, j \in 1..Len(peers) : peers[i] = peers[j] => i = j

\* The iterator stays inside the dict.
InLoop ==
    \A b \in Broadcasts :
        /\ entry[b] <= size[b] /\ size[b] <= Len(peers)
        /\ pc[b] = "idle" => entry[b] = 0 /\ age[b] = 0 /\ received[b] = {}
                             /\ ~\E f \in frames : f.of = b
        /\ Running(b) => entry[b] >= 1
        /\ pc[b] = "returned" => entry[b] = size[b]
        /\ answer[b] # NoAnswer => pc[b] = "waiting"

\* Entries that the loop is done with answered; an ACK stands for a message
\* that was handled.
Passed ==
    \A b \in Broadcasts :
        /\ \A i \in 1..Len(peers) :
             i < entry[b] \/ (pc[b] = "returned" /\ i <= size[b])
                => peers[i] \in received[b] \/ i \in refused[b]
        /\ answer[b].type = "ACK" => answer[b].from \in received[b]

\* Messages go to addresses of entries that the loop has come to.
Addressed ==
    /\ \A f \in frames : \E j \in 1..entry[f.of] : peers[j][1] = f.to[1]
    /\ \A b \in Broadcasts : \A k \in received[b] :
         \E j \in 1..entry[b] : peers[j][1] = k[1]

\* A broadcast that goes on has at most one message under way, and was handled
\* by entries it has passed and by whoever answered the current request.
OneRequest ==
    \A b \in Broadcasts : Running(b) =>
        /\ \A f, g \in frames : f.of = b /\ g.of = b => f = g
        /\ \A f \in frames : f.of = b => pc[b] = "waiting" /\ answer[b] = NoAnswer
        /\ \A k \in received[b] :
             \/ \E j \in 1..(entry[b] - 1) : peers[j] = k
             \/ answer[b] # NoAnswer /\ answer[b].from = k

\* The most time that requests to i entries can take.
Patience(i) == 2 * Timeout * i

\* What a refusal by the node of an entry shows: a full cache, or a message that
\* was too old by its clock.
Late(b, i) ==
    peers[i] \in crowded[b] \/ Patience(i) + offset[peers[i][1]] > MaxSkew

\* The message is no older than its requests so far have had time for.
OnTime ==
    \A b \in Broadcasts :
        /\ pc[b] = "connecting" => age[b] <= Patience(entry[b] - 1) + waited[b]
        /\ pc[b] = "waiting" => age[b] <= Patience(entry[b] - 1) + Timeout + waited[b]

\* An ERROR under the entry's own key means that the message was late there, or
\* that the clock there is behind by more than the skew: then the answer is
\* refused here.
Excused ==
    \A b \in Broadcasts :
        /\ answer[b].type = "ERROR" /\ answer[b].from = peers[entry[b]]
             => Late(b, entry[b]) \/ offset[peers[entry[b]][1]] < -MaxSkew
        /\ \A i \in refused[b] : i \in 1..Len(peers) /\ Late(b, i)

\* An answer is dated while the request waits.
DatedInWait ==
    \A b \in Broadcasts :
        dated[b] <= waited[b] /\ (answer[b] = NoAnswer => dated[b] = 0)

IInv ==
    /\ Typed /\ EnteredOnce /\ InLoop /\ Passed /\ Addressed /\ OneRequest /\ OnTime
    /\ Excused /\ DatedInWait

-----------------------------------------------------------------------------
(***************************************************************************)
(* What the steps do.                                                      *)
(***************************************************************************)

\* Entries are added behind the others, and none twice.
LEMMA EnterEffect ==
    ASSUME Typed, NEW a \in Addresses, Enter(a)
    PROVE  /\ peers' \in Seq(Keys)
           /\ Len(peers') >= Len(peers)
           /\ \A i \in 1..Len(peers) : peers'[i] = peers[i]
           /\ EnteredOnce => EnteredOnce'
           /\ UNCHANGED <<life, up, offset, full, pc, entry, size, timing, frames, answer,
                          outcome>>
<1> DEFINE k == <<a, life[a]>>
<1>1. k \in Keys /\ peers \in Seq(Keys)
  BY DEF Typed, Keys
<1>2. /\ UNCHANGED <<life, up, offset, full, pc, entry, size, timing, frames, answer,
                     outcome>>
      /\ peers' = IF k \in ToSet(peers) THEN peers ELSE Append(peers, k)
  BY DEF Enter
<1> HIDE DEF k
<1>3. CASE k \in ToSet(peers)
  BY <1>1, <1>2, <1>3 DEF EnteredOnce
<1>4. CASE k \notin ToSet(peers)
  <2>1. \A i \in 1..Len(peers) : peers[i] # k
    BY <1>1, <1>4 DEF ToSet
  <2>2. /\ peers' \in Seq(Keys) /\ Len(peers') = Len(peers) + 1
        /\ \A i \in 1..Len(peers) : peers'[i] = peers[i]
        /\ peers'[Len(peers) + 1] = k
    BY <1>1, <1>2, <1>4
  <2>3. EnteredOnce => EnteredOnce'
    BY <1>1, <2>1, <2>2 DEF EnteredOnce
  <2>4. QED
    BY <1>1, <1>2, <2>2, <2>3
<1>5. QED
  BY <1>3, <1>4

\* A stop only takes messages away and closes requests that wait for that node.
LEMMA StopEffect ==
    ASSUME Typed, NEW a \in Addresses, Stop(a)
    PROVE  /\ up' \subseteq Addresses
           /\ frames' \subseteq frames
           /\ answer' \in [Broadcasts -> Answers]
           /\ \A b \in Broadcasts :
                \/ answer'[b] = answer[b]
                \/ /\ pc[b] = "waiting"
                   /\ answer'[b] # NoAnswer /\ answer'[b].type = "closed"
                   /\ \E f \in frames : f.of = b /\ f \notin frames'
           /\ UNCHANGED <<peers, life, offset, full, pc, entry, size, timing, outcome>>
<1>1. /\ up' = up \ {a}
      /\ frames' = {f \in frames : f.to[1] # a}
      /\ answer' = [b \in Broadcasts |->
           IF [of |-> b, to |-> <<a, life[a]>>] \in frames /\ pc[b] = "waiting"
           THEN [from |-> <<a, life[a]>>, type |-> "closed"] ELSE answer[b]]
      /\ UNCHANGED <<peers, life, offset, full, pc, entry, size, timing, outcome>>
  BY DEF Stop
<1> DEFINE k == <<a, life[a]>>
           closed == [from |-> k, type |-> "closed"]
<1>2. k \in Keys /\ k[1] = a
  BY DEF Typed, Keys
<1>3. closed \in Answers /\ closed # NoAnswer /\ closed.type = "closed"
  BY <1>2 DEF Answers, NoAnswer
<1>4. ASSUME NEW b \in Broadcasts
      PROVE  \/ answer'[b] = answer[b]
             \/ pc[b] = "waiting" /\ answer'[b] = closed /\ [of |-> b, to |-> k] \in frames
  BY <1>1
<1>5. ASSUME NEW b \in Broadcasts, [of |-> b, to |-> k] \in frames
      PROVE  \E f \in frames : f.of = b /\ f \notin frames'
  BY <1>1, <1>2, <1>5
<1>6. answer' \in [Broadcasts -> Answers]
  <2>1. \A b \in Broadcasts : answer'[b] \in Answers
    BY <1>3, <1>4 DEF Typed
  <2>2. QED
    BY <1>1, <2>1
<1> HIDE DEF k, closed
<1>7. \A b \in Broadcasts :
        \/ answer'[b] = answer[b]
        \/ /\ pc[b] = "waiting"
           /\ answer'[b] # NoAnswer /\ answer'[b].type = "closed"
           /\ \E f \in frames : f.of = b /\ f \notin frames'
  BY <1>3, <1>4, <1>5
<1>8. QED
  BY <1>1, <1>6, <1>7 DEF Typed

\* The answer to a message reaches the broadcast if it still waits.
LEMMA RespondEffect ==
    ASSUME Typed, NEW f \in frames, NEW type \in {"ACK", "ERROR", "closed"}, Respond(f, type)
    PROVE  /\ f.of \in Broadcasts /\ f.to \in Keys
           /\ frames' = frames \ {f}
           /\ answer' \in [Broadcasts -> Answers]
           /\ pc[f.of] = "waiting" =>
                /\ answer'[f.of] # NoAnswer
                /\ answer'[f.of].from = f.to /\ answer'[f.of].type = type
           /\ pc[f.of] # "waiting" => answer'[f.of] = answer[f.of]
           /\ dated' \in [Broadcasts -> 0..Timeout]
           /\ dated'[f.of] \in {dated[f.of], waited[f.of]}
           /\ pc[f.of] # "waiting" => dated'[f.of] = dated[f.of]
           /\ \A b \in Broadcasts : b # f.of => answer'[b] = answer[b] /\ dated'[b] = dated[b]
           /\ UNCHANGED <<peers, life, up, offset, full, pc, entry, size, age, waited, refused>>
<1> DEFINE new == [from |-> f.to, type |-> type]
<1>1. f.of \in Broadcasts /\ f.to \in Keys
  BY DEF Typed, Frames
<1>2. /\ frames' = frames \ {f}
      /\ answer' = IF pc[f.of] = "waiting" THEN [answer EXCEPT ![f.of] = new] ELSE answer
      /\ dated' = IF pc[f.of] = "waiting" THEN [dated EXCEPT ![f.of] = waited[f.of]] ELSE dated
      /\ UNCHANGED <<peers, life, up, offset, full, pc, entry, size, age, waited, refused>>
  BY DEF Respond, nodes
<1>3. new \in Answers /\ new # NoAnswer /\ new.from = f.to /\ new.type = type
  BY <1>1 DEF Answers, NoAnswer
<1> HIDE DEF new
<1>4. QED
  BY <1>1, <1>2, <1>3 DEF Typed

\* The iterator raises, ends, or goes on to the next entry.
LEMMA AdvanceEffect ==
    ASSUME Typed, NEW b \in Broadcasts, NEW done \in Nat, Advance(b, done)
    PROVE  /\ pc' \in [Broadcasts -> {"idle", "connecting", "waiting", "returned", "raised"}]
           /\ entry' \in [Broadcasts -> Nat]
           /\ waited' \in [Broadcasts -> 0..Timeout]
           /\ dated' \in [Broadcasts -> 0..Timeout]
           /\ answer' \in [Broadcasts -> Answers]
           /\ pc'[b] \in {"connecting", "returned", "raised"}
           /\ pc'[b] = "returned" => done = size'[b]
           /\ pc'[b] = "connecting" => Len(peers) = size'[b] /\ done # size'[b]
           /\ entry'[b] = IF pc'[b] = "connecting" THEN done + 1 ELSE done
           /\ waited'[b] = 0 /\ dated'[b] = 0
           /\ answer'[b] = NoAnswer
           /\ \A c \in Broadcasts : c # b =>
                pc'[c] = pc[c] /\ entry'[c] = entry[c] /\ waited'[c] = waited[c]
                /\ dated'[c] = dated[c] /\ answer'[c] = answer[c]
<1> DEFINE next == CASE Len(peers) # size'[b] -> "raised"
                     [] done = size'[b] -> "returned"
                     [] OTHER -> "connecting"
<1>1. /\ next \in {"connecting", "returned", "raised"}
      /\ next = "returned" => done = size'[b]
      /\ next = "connecting" => Len(peers) = size'[b] /\ done # size'[b]
  OBVIOUS
<1>2. /\ pc' = [pc EXCEPT ![b] = next]
      /\ entry' = [entry EXCEPT ![b] = IF pc'[b] = "connecting" THEN done + 1 ELSE done]
      /\ waited' = [waited EXCEPT ![b] = 0]
      /\ dated' = [dated EXCEPT ![b] = 0]
      /\ answer' = [answer EXCEPT ![b] = NoAnswer]
  BY DEF Advance
<1> HIDE DEF next
<1>3. NoAnswer \in Answers /\ 0 \in 0..Timeout
  BY MeshAssumption DEF Answers
<1>4. QED
  BY <1>1, <1>2, <1>3 DEF Typed

LEMMA BeginEffect ==
    ASSUME Typed, NEW b \in Broadcasts, Begin(b)
    PROVE  /\ pc[b] = "idle"
           /\ Advance(b, 0)
           /\ size' \in [Broadcasts -> Nat]
           /\ size'[b] = Len(peers)
           /\ \A c \in Broadcasts : c # b => size'[c] = size[c]
           /\ UNCHANGED <<peers, life, up, offset, full, age, frames, received, refused, crowded>>
<1>1. Len(peers) \in Nat
  BY DEF Typed
<1>2. QED
  BY <1>1 DEF Begin, Typed, nodes, outcome

LEMMA AnsweredEffect ==
    ASSUME Typed, NEW b \in Broadcasts, Answered(b)
    PROVE  /\ answer[b] # NoAnswer
           /\ answer[b].from = peers[entry[b]]
           /\ answer[b].type \in {"ACK", "ERROR"}
           /\ Timely(b)
           /\ size' = size
           /\ entry[b] \in Nat /\ Advance(b, entry[b])
           /\ refused' \in [Broadcasts -> SUBSET Nat]
           /\ refused'[b] = IF answer[b].type = "ERROR" THEN refused[b] \cup {entry[b]}
                            ELSE refused[b]
           /\ \A c \in Broadcasts : c # b => refused'[c] = refused[c]
           /\ UNCHANGED <<peers, life, up, offset, full, age, frames, received, crowded>>
<1>1. answer[b].type \in {"ACK", "ERROR"}
  BY DEF Answered, Typed, Answers
<1>2. QED
  BY <1>1 DEF Answered, Typed, nodes

LEMMA ConnectEffect ==
    ASSUME Typed, NEW b \in Broadcasts, entry[b] \in 1..Len(peers), Connect(b)
    PROVE  /\ pc[b] = "connecting" /\ pc'[b] = "waiting"
           /\ pc' \in [Broadcasts -> {"idle", "connecting", "waiting", "returned", "raised"}]
           /\ waited' \in [Broadcasts -> 0..Timeout]
           /\ waited'[b] = 0
           /\ \A c \in Broadcasts : c # b => pc'[c] = pc[c] /\ waited'[c] = waited[c]
           /\ \E f \in Frames : /\ f.of = b /\ f.to[1] = peers[entry[b]][1]
                                /\ frames' = frames \cup {f}
           /\ UNCHANGED <<peers, life, up, offset, full, entry, size, age, dated, answer, received,
                          refused, crowded>>
<1> DEFINE a == peers[entry[b]][1]
           f == [of |-> b, to |-> <<a, life[a]>>]
<1>1. peers[entry[b]] \in Keys
  BY DEF Typed
<1>2. a \in Addresses
  BY <1>1 DEF Keys
<1>3. life[a] \in 1..Lives
  BY <1>2 DEF Typed
<1>4. <<a, life[a]>> \in Keys
  BY <1>2, <1>3 DEF Keys
<1>5. f \in Frames /\ f.of = b /\ f.to[1] = a
  BY <1>4 DEF Frames
<1>6. frames' = frames \cup {f}
  BY DEF Connect
<1>7. 0 \in 0..Timeout
  BY MeshAssumption
<1>8. /\ pc[b] = "connecting"
      /\ pc' = [pc EXCEPT ![b] = "waiting"]
      /\ waited' = [waited EXCEPT ![b] = 0]
      /\ UNCHANGED <<peers, life, up, offset, full, entry, size, age, dated, answer, received,
                     refused, crowded>>
  BY DEF Connect, nodes, outcome
<1> HIDE DEF f
<1>9. QED
  BY <1>5, <1>6, <1>7, <1>8 DEF Typed

LEMMA RaiseEffect ==
    ASSUME Typed, NEW b \in Broadcasts, Raise(b)
    PROVE  /\ pc' \in [Broadcasts -> {"idle", "connecting", "waiting", "returned", "raised"}]
           /\ answer' \in [Broadcasts -> Answers]
           /\ waited' \in [Broadcasts -> 0..Timeout]
           /\ dated' \in [Broadcasts -> 0..Timeout]
           /\ pc'[b] = "raised" /\ answer'[b] = NoAnswer /\ waited'[b] = 0 /\ dated'[b] = 0
           /\ \A c \in Broadcasts : c # b =>
                pc'[c] = pc[c] /\ answer'[c] = answer[c] /\ waited'[c] = waited[c]
                /\ dated'[c] = dated[c]
           /\ UNCHANGED <<peers, life, up, offset, full, entry, size, age, frames, received,
                          refused, crowded>>
BY MeshAssumption DEF Raise, Typed, Answers, nodes, outcome

LEMMA TickEffect ==
    ASSUME Typed, Tick
    PROVE  /\ age' \in [Broadcasts -> Nat]
           /\ waited' \in [Broadcasts -> 0..Timeout]
           /\ \A b \in Broadcasts :
                /\ Running(b) => waited'[b] = waited[b] + 1
                /\ age'[b] <= age[b] + 1
                /\ pc[b] = "idle" => age'[b] = age[b]
           /\ \A b \in Broadcasts : waited'[b] >= waited[b]
           /\ UNCHANGED <<peers, life, up, offset, full, pc, entry, size, dated, frames, answer,
                          received, refused, crowded>>
<1>1. \A b \in Broadcasts : Running(b) => waited[b] < Timeout
  BY DEF Tick
<1>2. waited' = [b \in Broadcasts |-> IF Running(b) THEN waited[b] + 1 ELSE waited[b]]
  BY DEF Tick
<1>3. age' = [b \in Broadcasts |->
         IF pc[b] # "idle" /\ age[b] < MaxAge THEN age[b] + 1 ELSE age[b]]
  BY DEF Tick
<1>4. UNCHANGED <<peers, life, up, offset, full, pc, entry, size, dated, frames, answer,
                 received, refused, crowded>>
  BY DEF Tick, nodes, outcome
<1>5. \A b \in Broadcasts : age[b] \in Nat /\ waited[b] \in 0..Timeout
  BY DEF Typed
<1>6. waited' \in [Broadcasts -> 0..Timeout]
  BY <1>1, <1>2, <1>5, MeshAssumption
<1>7. QED
  BY <1>2, <1>3, <1>4, <1>5, <1>6

\* Every step is one of these.
Steps ==
    \/ \E a \in Addresses : Enter(a) \/ Stop(a) \/ Restart(a) \/ Crowd(a)
    \/ \E f \in frames : Receive(f) \/ Reject(f)
    \/ \E b \in Broadcasts : Begin(b) \/ Connect(b) \/ (Running(b) /\ Raise(b)) \/ Answered(b)
    \/ Tick
    \/ UNCHANGED vars

LEMMA StepCases ==
    ASSUME InLoop, [Next]_vars PROVE Steps
<1>1. ASSUME NEW b \in Broadcasts, Refused(b) \/ GiveUp(b) \/ WrongAnswer(b)
      PROVE  Running(b) /\ Raise(b)
  BY <1>1 DEF Refused, GiveUp, TimedOut, WrongAnswer, Running, InLoop
<1>2. QED
  BY <1>1 DEF Next, Step, Steps, Hello, ConnectTo

-----------------------------------------------------------------------------
(***************************************************************************)
(* The invariant is inductive: one lemma per part.                         *)
(***************************************************************************)

LEMMA OffsetType ==
    ASSUME Typed, NEW a \in Addresses PROVE offset[a] \in Int
<1>1. offset[a] \in Offsets
  BY DEF Typed
<1>2. Offsets \subseteq Int
  <2>1. -MaxOffset..MaxOffset \subseteq Int
    BY MeshAssumption
  <2>2. QED
    BY <2>1, MeshAssumption
<1>3. QED
  BY <1>1, <1>2

LEMMA InitInv == Init => IInv
<1> SUFFICES ASSUME Init PROVE IInv
  OBVIOUS
<1> USE MeshAssumption DEF Init
<1>1. Typed
  BY DEF Typed, Answers
<1>2. EnteredOnce /\ InLoop /\ DatedInWait
  BY DEF EnteredOnce, InLoop, DatedInWait, Running
<1>3. Passed /\ Addressed /\ OneRequest /\ OnTime /\ Excused
  BY DEF Passed, Addressed, OneRequest, OnTime, Excused, Running, NoAnswer
<1>4. QED
  BY <1>1, <1>2, <1>3 DEF IInv

LEMMA EntryInDict ==
    ASSUME IInv, NEW b \in Broadcasts, Running(b)
    PROVE  entry[b] \in 1..Len(peers)
<1>1. Len(peers) \in Nat /\ entry[b] \in Nat /\ size[b] \in Nat
  BY DEF IInv, Typed
<1>2. QED
  BY <1>1 DEF IInv, InLoop

LEMMA NextTyped == IInv /\ [Next]_vars => Typed'
<1> SUFFICES ASSUME IInv, [Next]_vars PROVE Typed'
  OBVIOUS
<1> USE DEF IInv
<1>1. ASSUME NEW a \in Addresses, Enter(a) PROVE Typed'
  BY <1>1, EnterEffect DEF Typed, timing, outcome
<1>2. ASSUME NEW a \in Addresses, Stop(a) PROVE Typed'
  <2>1. UNCHANGED <<age, waited, dated, received, refused, crowded>>
    BY <1>2, StopEffect DEF timing, outcome
  <2>2. QED
    BY <1>2, <2>1, StopEffect DEF Typed
<1>3. ASSUME NEW a \in Addresses, Restart(a) PROVE Typed'
  <2>1. /\ UNCHANGED <<peers, offset, pc, entry, size, age, waited, dated, frames, answer,
                     received, refused, crowded>>
        /\ up' = up \cup {a} /\ full' = full \ {a}
        /\ life[a] < Lives /\ life' = [life EXCEPT ![a] = @ + 1]
    BY <1>3 DEF Restart, timing, outcome
  <2>2. life' \in [Addresses -> 1..Lives]
    BY <2>1, MeshAssumption DEF Typed
  <2>3. QED
    BY <2>1, <2>2 DEF Typed
<1>4. ASSUME NEW f \in frames, Receive(f) PROVE Typed'
  <2>1. PICK type \in {"ACK", "closed"} : Respond(f, type)
    BY <1>4 DEF Receive
  <2>2. received' = [received EXCEPT ![f.of] = @ \cup {f.to}]
    BY <1>4 DEF Receive
  <2>3. f.of \in Broadcasts /\ f.to \in Keys
    BY <2>1, RespondEffect
  <2>4. received' \in [Broadcasts -> SUBSET Keys]
    BY <2>2, <2>3 DEF Typed
  <2>5. /\ frames' = frames \ {f} /\ answer' \in [Broadcasts -> Answers]
        /\ dated' \in [Broadcasts -> 0..Timeout]
        /\ UNCHANGED <<peers, life, up, offset, full, pc, entry, size, age, waited, refused>>
    BY <2>1, RespondEffect
  <2>6. crowded' = crowded
    BY <1>4 DEF Receive
  <2>7. QED
    BY <2>4, <2>5, <2>6 DEF Typed
<1>5. ASSUME NEW f \in frames, Reject(f) PROVE Typed'
  <2>1. /\ Respond(f, "ERROR") /\ received' = received
        /\ crowded' = [crowded EXCEPT ![f.of] =
             IF Fresh(f) /\ f.to[1] \in full THEN @ \cup {f.to} ELSE @]
    BY <1>5 DEF Reject
  <2>2. f.of \in Broadcasts /\ f.to \in Keys
    BY <2>1, RespondEffect
  <2>3. crowded' \in [Broadcasts -> SUBSET Keys]
    BY <2>1, <2>2 DEF Typed
  <2>4. /\ frames' = frames \ {f} /\ answer' \in [Broadcasts -> Answers]
        /\ dated' \in [Broadcasts -> 0..Timeout]
        /\ UNCHANGED <<peers, life, up, offset, full, pc, entry, size, age, waited, refused>>
    BY <2>1, RespondEffect
  <2>5. QED
    BY <2>1, <2>3, <2>4 DEF Typed
<1>6. ASSUME NEW b \in Broadcasts, Begin(b) PROVE Typed'
  <2>1. /\ Advance(b, 0)
        /\ size' \in [Broadcasts -> Nat]
        /\ UNCHANGED <<peers, life, up, offset, full, age, frames, received, refused, crowded>>
    BY <1>6, BeginEffect
  <2>2. /\ pc' \in [Broadcasts -> {"idle", "connecting", "waiting", "returned", "raised"}]
        /\ entry' \in [Broadcasts -> Nat]
        /\ waited' \in [Broadcasts -> 0..Timeout]
        /\ dated' \in [Broadcasts -> 0..Timeout]
        /\ answer' \in [Broadcasts -> Answers]
    BY <2>1, AdvanceEffect
  <2>3. QED
    BY <2>1, <2>2 DEF Typed
<1>7. ASSUME NEW b \in Broadcasts, Connect(b) PROVE Typed'
  <2>1. entry[b] \in 1..Len(peers)
    BY <1>7, EntryInDict DEF Connect, Running
  <2>2. PICK f \in Frames : frames' = frames \cup {f}
    BY <1>7, <2>1, ConnectEffect
  <2>3. frames' \subseteq Frames
    BY <2>2 DEF Typed
  <2>4. /\ pc' \in [Broadcasts -> {"idle", "connecting", "waiting", "returned", "raised"}]
        /\ waited' \in [Broadcasts -> 0..Timeout]
        /\ UNCHANGED <<peers, life, up, offset, full, entry, size, age, dated, answer,
                       received, refused, crowded>>
    BY <1>7, <2>1, ConnectEffect
  <2>5. QED
    BY <2>3, <2>4 DEF Typed
<1>8. ASSUME NEW b \in Broadcasts, Raise(b) PROVE Typed'
  BY <1>8, RaiseEffect DEF Typed
<1>9. ASSUME NEW b \in Broadcasts, Answered(b) PROVE Typed'
  <2>1. /\ entry[b] \in Nat /\ Advance(b, entry[b])
        /\ size' = size
        /\ refused' \in [Broadcasts -> SUBSET Nat]
        /\ UNCHANGED <<peers, life, up, offset, full, age, frames, received, crowded>>
    BY <1>9, AnsweredEffect
  <2>2. /\ pc' \in [Broadcasts -> {"idle", "connecting", "waiting", "returned", "raised"}]
        /\ entry' \in [Broadcasts -> Nat]
        /\ waited' \in [Broadcasts -> 0..Timeout]
        /\ dated' \in [Broadcasts -> 0..Timeout]
        /\ answer' \in [Broadcasts -> Answers]
    BY <2>1, AdvanceEffect
  <2>3. QED
    BY <2>1, <2>2 DEF Typed
<1>10. CASE Tick
  BY <1>10, TickEffect DEF Typed
<1>11. ASSUME UNCHANGED <<peers, life, up, offset, pc, entry, size, age, waited, dated,
                          frames, answer, received, refused, crowded>>,
              full' \subseteq Addresses
       PROVE  Typed'
  BY <1>11 DEF Typed
<1>12. ASSUME NEW a \in Addresses, Crowd(a) PROVE Typed'
  BY <1>11, <1>12 DEF Crowd, Typed, timing, outcome
<1>13. CASE UNCHANGED vars
  BY <1>11, <1>13 DEF Typed, vars, nodes, timing, outcome
<1>14. QED
  BY <1>1, <1>2, <1>3, <1>4, <1>5, <1>6, <1>7, <1>8, <1>9, <1>10, <1>12, <1>13, StepCases
     DEF Steps

LEMMA NextEnteredOnce == IInv /\ [Next]_vars => EnteredOnce'
<1> SUFFICES ASSUME IInv, [Next]_vars PROVE EnteredOnce'
  OBVIOUS
<1> USE DEF IInv
<1>1. ASSUME NEW a \in Addresses, Enter(a) PROVE EnteredOnce'
  BY <1>1, EnterEffect
<1>2. ASSUME peers' = peers PROVE EnteredOnce'
  BY <1>2 DEF EnteredOnce
<1>3. QED
  BY <1>1, <1>2, StepCases
     DEF Steps, Stop, Restart, Crowd, Receive, Reject, Respond, Begin, Connect, Raise, Answered,
         Tick, vars, nodes

LEMMA NextInLoop == IInv /\ [Next]_vars => InLoop'
<1> SUFFICES ASSUME IInv, [Next]_vars PROVE InLoop'
  OBVIOUS
<1> USE DEF IInv
<1>1. /\ Len(peers) \in Nat
      /\ \A b \in Broadcasts : entry[b] \in Nat /\ size[b] \in Nat
  BY DEF Typed
<1> DEFINE Part(b) ==
      /\ entry'[b] <= size'[b] /\ size'[b] <= Len(peers')
      /\ pc'[b] = "idle" => entry'[b] = 0 /\ age'[b] = 0 /\ received'[b] = {}
                            /\ ~\E f \in frames' : f.of = b
      /\ pc'[b] \in {"connecting", "waiting"} => entry'[b] >= 1
      /\ pc'[b] = "returned" => entry'[b] = size'[b]
      /\ answer'[b] # NoAnswer => pc'[b] = "waiting"
<1>2. SUFFICES \A b \in Broadcasts : Part(b)
  BY DEF InLoop, Running
\* What every step leaves of a broadcast it is not about.
<1>3. ASSUME NEW b \in Broadcasts, Len(peers') \in Nat, Len(peers') >= Len(peers),
             pc'[b] = pc[b], entry'[b] = entry[b], size'[b] = size[b],
             pc[b] = "idle" => /\ age'[b] = age[b] /\ received'[b] = received[b]
                               /\ \A f \in frames' : f.of = b => f \in frames,
             answer'[b] = answer[b] \/ pc[b] = "waiting"
      PROVE  Part(b)
  BY <1>1, <1>3 DEF InLoop, Running
<1>4. ASSUME NEW a \in Addresses, Enter(a), NEW b \in Broadcasts PROVE Part(b)
  <2>1. Len(peers') \in Nat
    BY <1>4, EnterEffect
  <2>2. QED
    BY <1>3, <1>4, <2>1, EnterEffect DEF timing, outcome
<1>5. ASSUME NEW a \in Addresses, Stop(a), NEW b \in Broadcasts PROVE Part(b)
  <2>1. Len(peers') \in Nat /\ Len(peers') >= Len(peers)
    BY <1>1, <1>5, StopEffect
  <2>2. /\ pc'[b] = pc[b] /\ entry'[b] = entry[b] /\ size'[b] = size[b]
        /\ age'[b] = age[b] /\ received'[b] = received[b]
        /\ \A f \in frames' : f \in frames
        /\ answer'[b] = answer[b] \/ pc[b] = "waiting"
    BY <1>5, StopEffect DEF timing, outcome
  <2>3. QED
    BY <1>3, <2>1, <2>2
<1>6. ASSUME NEW f \in frames, NEW type \in {"ACK", "ERROR", "closed"}, Respond(f, type),
             received' = received \/ received' = [received EXCEPT ![f.of] = @ \cup {f.to}],
             NEW b \in Broadcasts
      PROVE  Part(b)
  <2>1. Len(peers') \in Nat /\ Len(peers') >= Len(peers)
    BY <1>1, <1>6, RespondEffect
  <2>2. /\ pc'[b] = pc[b] /\ entry'[b] = entry[b] /\ size'[b] = size[b]
        /\ age'[b] = age[b]
        /\ \A g \in frames' : g \in frames
        /\ answer'[b] = answer[b] \/ pc[b] = "waiting"
    BY <1>6, RespondEffect DEF timing
  <2>3. pc[b] = "idle" => f.of # b
    BY DEF InLoop
  <2>4. pc[b] = "idle" => received'[b] = received[b]
    BY <1>6, <2>3 DEF Typed
  <2>5. QED
    BY <1>3, <2>1, <2>2, <2>4
<1>7. ASSUME NEW c \in Broadcasts, NEW done \in Nat, Advance(c, done), peers' = peers,
             frames' = frames, age' = age, received' = received,
             size'[c] \in Nat, done <= size'[c], size'[c] <= Len(peers),
             \A b \in Broadcasts : b # c => size'[b] = size[b],
             NEW b \in Broadcasts
      PROVE  Part(b)
  <2>1. CASE b = c
    BY <1>1, <1>7, <2>1, AdvanceEffect
  <2>2. CASE b # c
    <3>1. /\ pc'[b] = pc[b] /\ entry'[b] = entry[b] /\ size'[b] = size[b]
          /\ answer'[b] = answer[b]
      BY <1>7, <2>2, AdvanceEffect
    <3>2. QED
      BY <1>1, <1>3, <1>7, <3>1
  <2>3. QED
    BY <2>1, <2>2
<1>8. ASSUME NEW c \in Broadcasts, Begin(c), NEW b \in Broadcasts PROVE Part(b)
  <2>1. /\ Advance(c, 0) /\ size'[c] = Len(peers)
        /\ \A d \in Broadcasts : d # c => size'[d] = size[d]
        /\ UNCHANGED <<peers, age, frames, received>>
    BY <1>8, BeginEffect
  <2>2. QED
    BY <1>1, <1>7, <2>1
<1>9. ASSUME NEW c \in Broadcasts, Answered(c), NEW b \in Broadcasts PROVE Part(b)
  <2>1. /\ entry[c] \in Nat /\ Advance(c, entry[c]) /\ size' = size
        /\ UNCHANGED <<peers, age, frames, received>>
    BY <1>9, AnsweredEffect
  <2>2. entry[c] <= size[c] /\ size[c] <= Len(peers)
    BY DEF InLoop
  <2>3. QED
    BY <1>1, <1>7, <2>1, <2>2
<1>10. ASSUME NEW c \in Broadcasts, Connect(c), NEW b \in Broadcasts PROVE Part(b)
  <2>1. entry[c] \in 1..Len(peers)
    BY <1>10, EntryInDict DEF Connect, Running
  <2>2. /\ pc[c] = "connecting" /\ pc'[c] = "waiting"
        /\ \A d \in Broadcasts : d # c => pc'[d] = pc[d]
        /\ \A f \in frames' : f \in frames \/ f.of = c
        /\ UNCHANGED <<peers, entry, size, age, answer, received>>
    BY <1>10, <2>1, ConnectEffect
  <2>3. CASE b = c
    BY <1>1, <2>1, <2>2, <2>3 DEF InLoop
  <2>4. CASE b # c
    BY <1>1, <1>3, <2>2, <2>4
  <2>5. QED
    BY <2>3, <2>4
<1>11. ASSUME NEW c \in Broadcasts, Running(c), Raise(c), NEW b \in Broadcasts PROVE Part(b)
  <2>1. /\ pc'[c] = "raised" /\ answer'[c] = NoAnswer
        /\ \A d \in Broadcasts : d # c => pc'[d] = pc[d] /\ answer'[d] = answer[d]
        /\ UNCHANGED <<peers, entry, size, age, frames, received>>
    BY <1>11, RaiseEffect
  <2>2. CASE b = c
    BY <1>1, <2>1, <2>2 DEF InLoop
  <2>3. CASE b # c
    BY <1>1, <1>3, <2>1, <2>3
  <2>4. QED
    BY <2>2, <2>3
<1>12. ASSUME Tick, NEW b \in Broadcasts PROVE Part(b)
  BY <1>1, <1>3, <1>12, TickEffect
<1>13. ASSUME UNCHANGED <<peers, pc, entry, size, age, frames, answer, received>>,
              NEW b \in Broadcasts
       PROVE  Part(b)
  BY <1>1, <1>3, <1>13
<1> HIDE DEF Part
<1>14. QED
  BY <1>4, <1>5, <1>6, <1>8, <1>9, <1>10, <1>11, <1>12, <1>13, StepCases
     DEF Steps, Receive, Reject, Restart, Crowd, vars, nodes, timing, outcome

LEMMA NextPassed == IInv /\ [Next]_vars => Passed'
<1> SUFFICES ASSUME IInv, [Next]_vars PROVE Passed'
  OBVIOUS
<1> USE DEF IInv
<1>1. /\ Len(peers) \in Nat
      /\ \A b \in Broadcasts : entry[b] \in Nat /\ size[b] \in Nat
  BY DEF Typed
<1>2. \A b \in Broadcasts : entry[b] <= size[b] /\ size[b] <= Len(peers)
  BY DEF InLoop
<1> DEFINE Part(b) ==
      /\ \A i \in 1..Len(peers') :
           i < entry'[b] \/ (pc'[b] = "returned" /\ i <= size'[b])
              => peers'[i] \in received'[b] \/ i \in refused'[b]
      /\ answer'[b].type = "ACK" => answer'[b].from \in received'[b]
<1>3. SUFFICES \A b \in Broadcasts : Part(b)
  BY DEF Passed
<1>4. ASSUME NEW b \in Broadcasts,
             \A i \in 1..Len(peers) : peers'[i] = peers[i],
             pc'[b] = pc[b] \/ pc'[b] # "returned",
             entry'[b] = entry[b], size'[b] = size[b],
             received[b] \subseteq received'[b], refused'[b] = refused[b],
             answer'[b] = answer[b] \/ (answer'[b].type = "ACK" => answer'[b].from \in received'[b])
      PROVE  Part(b)
  <2>1. ASSUME NEW i \in 1..Len(peers'),
               i < entry'[b] \/ (pc'[b] = "returned" /\ i <= size'[b])
        PROVE  peers'[i] \in received'[b] \/ i \in refused'[b]
    <3>1. i \in 1..Len(peers)
      BY <1>1, <1>2, <1>4, <2>1
    <3>2. QED
      BY <1>4, <2>1, <3>1 DEF Passed
  <2>2. QED
    BY <1>4, <2>1 DEF Passed
<1>5. ASSUME NEW a \in Addresses, Enter(a), NEW b \in Broadcasts PROVE Part(b)
  BY <1>4, <1>5, EnterEffect DEF outcome
<1>6. ASSUME NEW a \in Addresses, Stop(a), NEW b \in Broadcasts PROVE Part(b)
  BY <1>4, <1>6, StopEffect DEF outcome
<1>7. ASSUME NEW f \in frames, Receive(f), NEW b \in Broadcasts PROVE Part(b)
  <2>1. PICK type \in {"ACK", "closed"} : Respond(f, type)
    BY <1>7 DEF Receive
  <2>2. received' = [received EXCEPT ![f.of] = @ \cup {f.to}]
    BY <1>7 DEF Receive
  <2>3. f.of \in Broadcasts
    BY <2>1, RespondEffect
  <2>4. received[b] \subseteq received'[b] /\ f.to \in received'[f.of]
    BY <2>2, <2>3 DEF Typed
  <2>5. answer'[b] = answer[b] \/ (b = f.of /\ answer'[b].from = f.to)
    BY <2>1, RespondEffect
  <2>6. QED
    BY <1>4, <2>1, <2>4, <2>5, RespondEffect
<1>8. ASSUME NEW f \in frames, Reject(f), NEW b \in Broadcasts PROVE Part(b)
  <2>1. Respond(f, "ERROR") /\ received' = received
    BY <1>8 DEF Reject
  <2>2. answer'[b] = answer[b] \/ answer'[b].type = "ERROR"
    BY <2>1, RespondEffect
  <2>3. QED
    BY <1>4, <2>1, <2>2, RespondEffect
<1>9. ASSUME NEW c \in Broadcasts, Begin(c), NEW b \in Broadcasts PROVE Part(b)
  <2>1. /\ Advance(c, 0) /\ size'[c] = Len(peers)
        /\ \A d \in Broadcasts : d # c => size'[d] = size[d]
        /\ UNCHANGED <<peers, received, refused>>
    BY <1>9, BeginEffect
  <2>2. CASE b = c
    <3>1. /\ pc'[b] = "returned" => size'[b] = 0
          /\ entry'[b] \in {0, 1}
          /\ answer'[b] = NoAnswer
      BY <2>1, <2>2, AdvanceEffect
    <3>2. QED
      BY <3>1 DEF NoAnswer
  <2>3. CASE b # c
    BY <1>4, <2>1, <2>3, AdvanceEffect
  <2>4. QED
    BY <2>2, <2>3
<1>10. ASSUME NEW c \in Broadcasts, Answered(c), NEW b \in Broadcasts PROVE Part(b)
  <2>1. /\ answer[c].from = peers[entry[c]] /\ answer[c].type \in {"ACK", "ERROR"}
        /\ refused'[c] = IF answer[c].type = "ERROR" THEN refused[c] \cup {entry[c]}
                         ELSE refused[c]
        /\ \A d \in Broadcasts : d # c => refused'[d] = refused[d]
        /\ UNCHANGED <<peers, size, received>>
        /\ entry[c] \in Nat /\ Advance(c, entry[c])
    BY <1>10, AnsweredEffect
  <2>2. CASE b = c
    <3>1. /\ pc'[c] = "returned" => entry[c] = size[c]
          /\ entry'[c] \in {entry[c], entry[c] + 1}
          /\ answer'[c] = NoAnswer
      BY <2>1, AdvanceEffect
    <3>2. ASSUME NEW i \in 1..Len(peers), i <= entry[c]
          PROVE  peers[i] \in received[c] \/ i \in refused'[c]
      <4>1. CASE i = entry[c]
        BY <2>1, <4>1 DEF Passed
      <4>2. CASE i # entry[c]
        BY <1>1, <2>1, <3>2, <4>2 DEF Passed
      <4>3. QED
        BY <4>1, <4>2
    <3>3. ASSUME NEW i \in 1..Len(peers),
                 i < entry'[c] \/ (pc'[c] = "returned" /\ i <= size[c])
          PROVE  i <= entry[c]
      BY <1>1, <3>1, <3>3
    <3>4. QED
      BY <2>1, <2>2, <3>1, <3>2, <3>3 DEF NoAnswer
  <2>3. CASE b # c
    BY <1>4, <2>1, <2>3, AdvanceEffect
  <2>4. QED
    BY <2>2, <2>3
<1>11. ASSUME NEW c \in Broadcasts, Connect(c), NEW b \in Broadcasts PROVE Part(b)
  <2>1. entry[c] \in 1..Len(peers)
    BY <1>11, EntryInDict DEF Connect, Running
  <2>2. QED
    BY <1>4, <1>11, <2>1, ConnectEffect
<1>12. ASSUME NEW c \in Broadcasts, Raise(c), NEW b \in Broadcasts PROVE Part(b)
  <2>1. answer'[b] = answer[b] \/ answer'[b].type # "ACK"
    BY <1>12, RaiseEffect DEF NoAnswer
  <2>2. pc'[b] = pc[b] \/ pc'[b] # "returned"
    BY <1>12, RaiseEffect
  <2>3. UNCHANGED <<peers, entry, size, received, refused>>
    BY <1>12, RaiseEffect
  <2>4. QED
    BY <1>4, <2>1, <2>2, <2>3
<1>13. ASSUME UNCHANGED <<peers, pc, entry, size, answer, received, refused>>,
              NEW b \in Broadcasts
       PROVE  Part(b)
  BY <1>4, <1>13
<1> HIDE DEF Part
<1>14. QED
  BY <1>5, <1>6, <1>7, <1>8, <1>9, <1>10, <1>11, <1>12, <1>13, StepCases
     DEF Steps, Restart, Crowd, Tick, vars, nodes, timing, outcome

LEMMA NextAddressed == IInv /\ [Next]_vars => Addressed'
<1> SUFFICES ASSUME IInv, [Next]_vars PROVE Addressed'
  OBVIOUS
<1> USE DEF IInv
<1>1. /\ Len(peers) \in Nat
      /\ \A b \in Broadcasts : entry[b] \in Nat /\ size[b] \in Nat
      /\ \A b \in Broadcasts : entry[b] <= size[b] /\ size[b] <= Len(peers)
      /\ \A f \in frames : f.of \in Broadcasts
  BY DEF Typed, InLoop, Frames
\* A witness of Addressed stays one while the dict and the iterators grow.
<1>2. ASSUME \A i \in 1..Len(peers) : peers'[i] = peers[i],
             \A b \in Broadcasts : entry'[b] \in Nat /\ entry'[b] >= entry[b],
             NEW b \in Broadcasts, NEW x, \E k \in 1..entry[b] : peers[k][1] = x
      PROVE  \E k \in 1..entry'[b] : peers'[k][1] = x
  <2>1. PICK k \in 1..entry[b] : peers[k][1] = x
    BY <1>2
  <2>2. k \in 1..Len(peers) /\ k \in 1..entry'[b]
    BY <1>1, <1>2
  <2>3. QED
    BY <1>2, <2>1, <2>2
<1>3. ASSUME \A i \in 1..Len(peers) : peers'[i] = peers[i],
             \A b \in Broadcasts : entry'[b] \in Nat /\ entry'[b] >= entry[b],
             frames' \subseteq frames, received' = received
      PROVE  Addressed'
  BY <1>1, <1>2, <1>3 DEF Addressed
<1>4. ASSUME NEW a \in Addresses, Enter(a) PROVE Addressed'
  BY <1>1, <1>3, <1>4, EnterEffect DEF outcome
<1>5. ASSUME NEW a \in Addresses, Stop(a) PROVE Addressed'
  BY <1>1, <1>3, <1>5, StopEffect DEF outcome
<1>6. ASSUME NEW f \in frames, Receive(f) PROVE Addressed'
  <2>1. PICK type \in {"ACK", "closed"} : Respond(f, type)
    BY <1>6 DEF Receive
  <2>2. received' = [received EXCEPT ![f.of] = @ \cup {f.to}]
    BY <1>6 DEF Receive
  <2>3. frames' \subseteq frames /\ UNCHANGED <<peers, entry>> /\ f.of \in Broadcasts
    BY <2>1, RespondEffect
  <2>4. \A b \in Broadcasts : \A k \in received'[b] :
          k \in received[b] \/ (b = f.of /\ k = f.to)
    BY <2>2, <2>3 DEF Typed
  <2>5. QED
    BY <2>3, <2>4 DEF Addressed
<1>7. ASSUME NEW f \in frames, Reject(f) PROVE Addressed'
  <2>1. Respond(f, "ERROR") /\ received' = received
    BY <1>7 DEF Reject
  <2>2. QED
    BY <1>1, <1>3, <2>1, RespondEffect
<1>8. ASSUME NEW c \in Broadcasts, NEW done \in Nat, done >= entry[c], Advance(c, done),
             UNCHANGED <<peers, frames, received>>
      PROVE  Addressed'
  <2>1. /\ entry'[c] \in {done, done + 1}
        /\ \A b \in Broadcasts : b # c => entry'[b] = entry[b]
    BY <1>8, AdvanceEffect
  <2>2. entry'[c] \in Nat /\ entry'[c] >= entry[c]
    BY <1>1, <1>8, <2>1
  <2>3. \A b \in Broadcasts : entry'[b] \in Nat /\ entry'[b] >= entry[b]
    BY <1>1, <2>1, <2>2
  <2>4. QED
    BY <1>3, <1>8, <2>3
<1>9. ASSUME NEW c \in Broadcasts, Begin(c) PROVE Addressed'
  <2>1. Advance(c, 0) /\ UNCHANGED <<peers, frames, received>> /\ entry[c] = 0
    BY <1>9, BeginEffect DEF InLoop
  <2>2. QED
    BY <1>8, <2>1
<1>10. ASSUME NEW c \in Broadcasts, Answered(c) PROVE Addressed'
  <2>1. /\ entry[c] \in Nat /\ Advance(c, entry[c])
        /\ UNCHANGED <<peers, frames, received>>
    BY <1>10, AnsweredEffect
  <2>2. QED
    BY <1>8, <2>1
<1>11. ASSUME NEW c \in Broadcasts, Connect(c) PROVE Addressed'
  <2>1. entry[c] \in 1..Len(peers)
    BY <1>11, EntryInDict DEF Connect, Running
  <2>2. PICK f \in Frames : /\ f.of = c /\ f.to[1] = peers[entry[c]][1]
                            /\ frames' = frames \cup {f}
    BY <1>11, <2>1, ConnectEffect
  <2>3. UNCHANGED <<peers, entry, received>>
    BY <1>11, <2>1, ConnectEffect
  <2>4. entry[c] \in 1..entry[c]
    BY <2>1
  <2>5. QED
    BY <2>2, <2>3, <2>4 DEF Addressed
<1>12. ASSUME NEW c \in Broadcasts, Raise(c) PROVE Addressed'
  BY <1>1, <1>3, <1>12, RaiseEffect
<1>13. ASSUME UNCHANGED <<peers, entry, frames, received>> PROVE Addressed'
  BY <1>13 DEF Addressed
<1>14. QED
  BY <1>4, <1>5, <1>6, <1>7, <1>9, <1>10, <1>11, <1>12, <1>13, StepCases
     DEF Steps, Restart, Crowd, Tick, vars, nodes, timing, outcome

LEMMA NextOneRequest == IInv /\ [Next]_vars => OneRequest'
<1> SUFFICES ASSUME IInv, [Next]_vars PROVE OneRequest'
  OBVIOUS
<1> USE DEF IInv
<1>1. /\ Len(peers) \in Nat
      /\ \A b \in Broadcasts : entry[b] \in Nat /\ size[b] \in Nat
      /\ \A b \in Broadcasts : entry[b] <= size[b] /\ size[b] <= Len(peers)
  BY DEF Typed, InLoop
<1> DEFINE Part(b) ==
      pc'[b] \in {"connecting", "waiting"} =>
        /\ \A f, g \in frames' : f.of = b /\ g.of = b => f = g
        /\ \A f \in frames' : f.of = b => pc'[b] = "waiting" /\ answer'[b] = NoAnswer
        /\ \A k \in received'[b] :
             \/ \E j \in 1..(entry'[b] - 1) : peers'[j] = k
             \/ answer'[b] # NoAnswer /\ answer'[b].from = k
<1>2. SUFFICES \A b \in Broadcasts : Part(b)
  BY DEF OneRequest, Running
<1>3. ASSUME NEW b \in Broadcasts,
             \A i \in 1..Len(peers) : peers'[i] = peers[i],
             pc'[b] = pc[b], entry'[b] = entry[b], received'[b] = received[b],
             \A f \in frames' : f.of = b => f \in frames,
             answer'[b] = answer[b]
      PROVE  Part(b)
  <2> SUFFICES ASSUME pc'[b] \in {"connecting", "waiting"} PROVE Part(b)
    OBVIOUS
  <2>1. Running(b)
    BY <1>3 DEF Running
  <2>2. \A i \in 1..(entry[b] - 1) : peers'[i] = peers[i]
    BY <1>1, <1>3
  <2>3. QED
    BY <1>3, <2>1, <2>2 DEF OneRequest
<1>4. ASSUME NEW a \in Addresses, Enter(a), NEW b \in Broadcasts PROVE Part(b)
  BY <1>3, <1>4, EnterEffect DEF outcome
<1>5. ASSUME NEW a \in Addresses, Stop(a), NEW b \in Broadcasts PROVE Part(b)
  <2>1. frames' \subseteq frames /\ UNCHANGED <<peers, pc, entry, received>>
    BY <1>5, StopEffect DEF outcome
  <2>2. CASE answer'[b] = answer[b]
    BY <1>3, <2>1, <2>2
  <2>3. CASE answer'[b] # answer[b]
    <3>1. PICK f \in frames : f.of = b /\ f \notin frames' /\ pc[b] = "waiting"
      BY <1>5, <2>3, StopEffect
    <3>2. \A g \in frames : g.of = b => g = f
      BY <3>1 DEF OneRequest, Running
    <3>3. answer[b] = NoAnswer
      BY <3>1 DEF OneRequest, Running
    <3>4. \A g \in frames' : g.of # b
      BY <2>1, <3>1, <3>2
    <3>5. \A k \in received[b] : \E j \in 1..(entry[b] - 1) : peers[j] = k
      BY <3>1, <3>3 DEF OneRequest, Running
    <3>6. QED
      BY <2>1, <3>4, <3>5
  <2>4. QED
    BY <2>2, <2>3
<1>6. ASSUME NEW f \in frames, NEW type \in {"ACK", "ERROR", "closed"}, Respond(f, type),
             received' = received \/ received' = [received EXCEPT ![f.of] = @ \cup {f.to}],
             NEW b \in Broadcasts
      PROVE  Part(b)
  <2>1. /\ f.of \in Broadcasts
        /\ frames' = frames \ {f} /\ UNCHANGED <<peers, pc, entry>>
    BY <1>6, RespondEffect
  <2>2. CASE b # f.of
    <3>1. received'[b] = received[b]
      BY <1>6, <2>1, <2>2 DEF Typed
    <3>2. answer'[b] = answer[b]
      BY <1>6, <2>2, RespondEffect
    <3>3. QED
      BY <1>3, <2>1, <3>1, <3>2
  <2>3. CASE b = f.of
    <3> SUFFICES ASSUME pc'[b] \in {"connecting", "waiting"} PROVE Part(b)
      OBVIOUS
    <3>1. Running(b)
      BY <2>1 DEF Running
    <3>2. pc[b] = "waiting" /\ answer[b] = NoAnswer /\ \A g \in frames : g.of = b => g = f
      BY <2>3, <3>1 DEF OneRequest
    <3>3. answer'[b] # NoAnswer /\ answer'[b].from = f.to
      BY <1>6, <2>3, <3>2, RespondEffect
    <3>4. \A k \in received[b] : \E j \in 1..(entry[b] - 1) : peers[j] = k
      BY <3>1, <3>2 DEF OneRequest
    <3>5. \A k \in received'[b] : k \in received[b] \/ k = f.to
      BY <1>6, <2>1, <2>3 DEF Typed
    <3>6. \A g \in frames' : g.of # b
      BY <2>1, <3>2
    <3>7. QED
      BY <2>1, <3>3, <3>4, <3>5, <3>6
  <2>4. QED
    BY <2>2, <2>3
<1>7. ASSUME NEW c \in Broadcasts, NEW done \in Nat, Advance(c, done),
             UNCHANGED <<peers, frames, received>>,
             \A f \in frames : f.of # c,
             \A k \in received[c] : \E j \in 1..done : peers[j] = k,
             NEW b \in Broadcasts
      PROVE  Part(b)
  <2>1. CASE b = c
    <3> SUFFICES ASSUME pc'[b] \in {"connecting", "waiting"} PROVE Part(b)
      OBVIOUS
    <3>1. entry'[b] = done + 1
      BY <1>7, <2>1, AdvanceEffect
    <3>2. entry'[b] - 1 = done
      BY <3>1
    <3>3. /\ received'[c] = received[c] /\ peers' = peers
          /\ \A g \in frames' : g.of # b
      BY <1>7, <2>1
    <3>4. QED
      BY <1>7, <2>1, <3>2, <3>3
  <2>2. CASE b # c
    BY <1>3, <1>7, <2>2, AdvanceEffect
  <2>3. QED
    BY <2>1, <2>2
<1>8. ASSUME NEW c \in Broadcasts, Begin(c), NEW b \in Broadcasts PROVE Part(b)
  <2>1. /\ Advance(c, 0) /\ UNCHANGED <<peers, frames, received>>
        /\ received[c] = {} /\ \A f \in frames : f.of # c
    BY <1>8, BeginEffect DEF InLoop
  <2>2. QED
    BY <1>7, <2>1
<1>9. ASSUME NEW c \in Broadcasts, Answered(c), NEW b \in Broadcasts PROVE Part(b)
  <2>1. /\ answer[c] # NoAnswer /\ answer[c].from = peers[entry[c]]
        /\ entry[c] \in Nat /\ Advance(c, entry[c])
        /\ UNCHANGED <<peers, frames, received>>
    BY <1>9, AnsweredEffect
  <2>2. Running(c)
    BY <2>1 DEF InLoop, Running
  <2>3. \A f \in frames : f.of # c
    BY <2>1, <2>2 DEF OneRequest
  <2>4. entry[c] >= 1
    BY <2>2 DEF InLoop
  <2>5. \A k \in received[c] : \E j \in 1..entry[c] : peers[j] = k
    <3> SUFFICES ASSUME NEW k \in received[c] PROVE \E j \in 1..entry[c] : peers[j] = k
      OBVIOUS
    <3>1. (\E j \in 1..(entry[c] - 1) : peers[j] = k) \/ peers[entry[c]] = k
      BY <2>1, <2>2 DEF OneRequest
    <3>2. 1..(entry[c] - 1) \subseteq 1..entry[c] /\ entry[c] \in 1..entry[c]
      BY <2>1, <2>4
    <3>3. QED
      BY <3>1, <3>2
  <2>6. QED
    BY <1>7, <2>1, <2>3, <2>5
<1>10. ASSUME NEW c \in Broadcasts, Connect(c), NEW b \in Broadcasts PROVE Part(b)
  <2>1. Running(c) /\ pc[c] = "connecting"
    BY <1>10 DEF Connect, Running
  <2>2. entry[c] \in 1..Len(peers)
    BY <2>1, EntryInDict
  <2>3. PICK f \in Frames : f.of = c /\ frames' = frames \cup {f}
    BY <1>10, <2>2, ConnectEffect
  <2>4. /\ pc'[c] = "waiting"
        /\ \A d \in Broadcasts : d # c => pc'[d] = pc[d]
        /\ UNCHANGED <<peers, entry, answer, received>>
    BY <1>10, <2>2, ConnectEffect
  <2>5. CASE b = c
    <3>1. \A g \in frames : g.of # c
      BY <2>1 DEF OneRequest
    <3>2. answer[c] = NoAnswer
      BY <2>1 DEF InLoop
    <3>3. \A k \in received[c] : \E j \in 1..(entry[c] - 1) : peers[j] = k
      BY <2>1, <3>2 DEF OneRequest
    <3>4. QED
      BY <2>3, <2>4, <2>5, <3>1, <3>2, <3>3
  <2>6. CASE b # c
    BY <1>3, <2>3, <2>4, <2>6
  <2>7. QED
    BY <2>5, <2>6
<1>11. ASSUME NEW c \in Broadcasts, Raise(c), NEW b \in Broadcasts PROVE Part(b)
  <2>1. CASE b = c
    BY <1>11, <2>1, RaiseEffect
  <2>2. CASE b # c
    BY <1>3, <1>11, <2>2, RaiseEffect
  <2>3. QED
    BY <2>1, <2>2
<1>12. ASSUME UNCHANGED <<peers, pc, entry, frames, answer, received>>, NEW b \in Broadcasts
       PROVE  Part(b)
  BY <1>3, <1>12
<1> HIDE DEF Part
<1>13. QED
  BY <1>4, <1>5, <1>6, <1>8, <1>9, <1>10, <1>11, <1>12, StepCases
     DEF Steps, Receive, Reject, Restart, Crowd, Tick, vars, nodes, timing, outcome

-----------------------------------------------------------------------------
(***************************************************************************)
(* The age of the message.                                                 *)
(***************************************************************************)

LEMMA PatienceGrows ==
    ASSUME NEW i \in Nat
    PROVE  /\ Patience(i) \in Int
           /\ Patience(i + 1) = Patience(i) + Timeout + Timeout
           /\ Patience(0) = 0
BY MeshAssumption DEF Patience

\* A message rejected under the key of the entry it was sent to met a full cache
\* or is out of the window there: that node cannot have handled it before.
LEMMA RejectedLate ==
    ASSUME IInv, NEW f \in frames, Reject(f), pc[f.of] = "waiting",
           f.to = peers[entry[f.of]]
    PROVE  \/ f.to \in crowded'[f.of]
           \/ Patience(entry[f.of]) + offset[f.to[1]] > MaxSkew
           \/ offset[f.to[1]] < -MaxSkew
<1> USE DEF IInv
<1> DEFINE b == f.of
<1>1. b \in Broadcasts /\ Running(b)
  BY DEF Typed, Frames, Running
<1>2. entry[b] \in 1..Len(peers) /\ Len(peers) \in Nat /\ entry[b] - 1 \in Nat
  <2>1. entry[b] \in 1..Len(peers)
    BY <1>1, EntryInDict
  <2>2. Len(peers) \in Nat
    BY DEF Typed
  <2>3. QED
    BY <2>1, <2>2
<1>3. answer[b] = NoAnswer
  BY <1>1 DEF OneRequest
<1>4. f.to \notin received[b]
  <2> SUFFICES ASSUME f.to \in received[b] PROVE FALSE
    OBVIOUS
  <2>1. PICK j \in 1..(entry[b] - 1) : peers[j] = peers[entry[b]]
    BY <1>1, <1>3 DEF OneRequest
  <2>2. j \in 1..Len(peers) /\ j # entry[b]
    BY <1>2
  <2>3. QED
    BY <1>2, <2>1, <2>2 DEF EnteredOnce
<1> PICK d : d = offset[f.to[1]]
  OBVIOUS
<1>5. d \in Int /\ age[b] \in Nat /\ MaxSkew \in Nat
  <2>1. f.to[1] \in Addresses
    BY DEF Typed, Frames, Keys
  <2>2. d \in Int
    BY <2>1, OffsetType
  <2>3. QED
    BY <1>1, <2>2, MeshAssumption DEF Typed
<1>6. age[b] <= Patience(entry[b] - 1) + Timeout + waited[b]
  BY <1>1 DEF OnTime
<1>7. waited[b] \in Nat /\ waited[b] <= Timeout
  BY <1>1, MeshAssumption DEF Typed
<1>8. /\ Patience(entry[b] - 1) \in Int
      /\ Patience(entry[b]) = Patience(entry[b] - 1) + Timeout + Timeout
  <2>1. (entry[b] - 1) + 1 = entry[b]
    BY <1>2
  <2>2. QED
    BY <1>2, <2>1, PatienceGrows
<1>9. CASE Fresh(f)
  <2>1. f.to[1] \in full
    BY <1>4, <1>9 DEF Reject, Acceptable, Known
  <2>2. crowded' = [crowded EXCEPT ![b] = @ \cup {f.to}]
    BY <1>9, <2>1 DEF Reject
  <2>3. f.to \in crowded'[b]
    BY <1>1, <2>2 DEF Typed
  <2>4. QED
    BY <2>3
<1>10. CASE ~Fresh(f)
  <2>1. ~(-MaxSkew <= age[b] + d /\ age[b] + d <= MaxSkew)
    BY <1>10 DEF Fresh, InWindow
  <2>2. Patience(entry[b]) + d > MaxSkew \/ d < -MaxSkew
    BY <1>5, <1>6, <1>7, <1>8, <2>1, MeshAssumption
  <2>3. QED
    BY <2>2
<1>11. QED
  BY <1>9, <1>10

LEMMA NextOnTime == IInv /\ [Next]_vars => OnTime'
<1> SUFFICES ASSUME IInv, [Next]_vars PROVE OnTime'
  OBVIOUS
<1> USE DEF IInv
<1>1. /\ Len(peers) \in Nat /\ Timeout \in Nat /\ MaxSkew \in Nat
      /\ \A b \in Broadcasts : /\ entry[b] \in Nat /\ age[b] \in Nat
                               /\ waited[b] \in Nat /\ waited[b] <= Timeout
  BY MeshAssumption DEF Typed
<1> DEFINE Part(b) ==
      /\ pc'[b] = "connecting" => age'[b] <= Patience(entry'[b] - 1) + waited'[b]
      /\ pc'[b] = "waiting" => age'[b] <= Patience(entry'[b] - 1) + Timeout + waited'[b]
<1>2. SUFFICES \A b \in Broadcasts : Part(b)
  BY DEF OnTime, Patience
<1>3. ASSUME NEW b \in Broadcasts, pc'[b] = pc[b], entry'[b] = entry[b],
             age'[b] = age[b], waited'[b] = waited[b]
      PROVE  Part(b)
  BY <1>3 DEF OnTime
<1>4. ASSUME NEW a \in Addresses, Enter(a) \/ Stop(a), NEW b \in Broadcasts PROVE Part(b)
  BY <1>3, <1>4, EnterEffect, StopEffect DEF timing
<1>5. ASSUME NEW f \in frames, Receive(f) \/ Reject(f), NEW b \in Broadcasts PROVE Part(b)
  <2>1. PICK type \in {"ACK", "ERROR", "closed"} : Respond(f, type)
    BY <1>5 DEF Receive, Reject
  <2>2. QED
    BY <1>3, <2>1, RespondEffect
<1>6. ASSUME NEW c \in Broadcasts, NEW done \in Nat, Advance(c, done), age' = age,
             age[c] <= Patience(done), NEW b \in Broadcasts
      PROVE  Part(b)
  <2>1. CASE b = c
    <3>1. /\ pc'[b] \in {"connecting", "returned", "raised"}
          /\ pc'[b] = "connecting" => entry'[b] = done + 1
          /\ waited'[b] = 0
      BY <1>6, <2>1, AdvanceEffect
    <3>2. Patience(done) \in Int /\ done + 1 - 1 = done
      BY PatienceGrows
    <3>3. QED
      BY <1>1, <1>6, <2>1, <3>1, <3>2
  <2>2. CASE b # c
    BY <1>3, <1>6, <2>2, AdvanceEffect
  <2>3. QED
    BY <2>1, <2>2
<1>7. ASSUME NEW c \in Broadcasts, Begin(c), NEW b \in Broadcasts PROVE Part(b)
  <2>1. Advance(c, 0) /\ age' = age /\ age[c] = 0
    BY <1>7, BeginEffect DEF InLoop
  <2>2. QED
    BY <1>6, <2>1, PatienceGrows
<1>8. ASSUME NEW c \in Broadcasts, Answered(c), NEW b \in Broadcasts PROVE Part(b)
  <2>1. answer[c] # NoAnswer /\ entry[c] \in Nat /\ Advance(c, entry[c]) /\ age' = age
    BY <1>8, AnsweredEffect
  <2>2. pc[c] = "waiting" /\ Running(c)
    BY <2>1 DEF InLoop, Running
  <2>3. age[c] <= Patience(entry[c])
    <3>1. entry[c] - 1 \in Nat /\ (entry[c] - 1) + 1 = entry[c]
      BY <1>1, <2>2 DEF InLoop
    <3>2. /\ Patience(entry[c] - 1) \in Int
          /\ Patience(entry[c]) = Patience(entry[c] - 1) + Timeout + Timeout
      BY <3>1, PatienceGrows
    <3>3. age[c] <= Patience(entry[c] - 1) + Timeout + waited[c]
      BY <2>2 DEF OnTime
    <3>4. QED
      BY <1>1, <3>2, <3>3
  <2>4. QED
    BY <1>6, <2>1, <2>3
<1>9. ASSUME NEW c \in Broadcasts, Connect(c), NEW b \in Broadcasts PROVE Part(b)
  <2>1. entry[c] \in 1..Len(peers)
    BY <1>9, EntryInDict DEF Connect, Running
  <2>2. /\ pc[c] = "connecting" /\ pc'[c] = "waiting" /\ waited'[c] = 0
        /\ \A d \in Broadcasts : d # c => pc'[d] = pc[d] /\ waited'[d] = waited[d]
        /\ UNCHANGED <<entry, age>>
    BY <1>9, <2>1, ConnectEffect
  <2>3. CASE b = c
    <3>1. entry[c] - 1 \in Nat
      BY <2>1
    <3>2. Patience(entry[c] - 1) \in Int
      BY <3>1, PatienceGrows
    <3>3. age[c] <= Patience(entry[c] - 1) + waited[c]
      BY <2>2 DEF OnTime
    <3>4. age[c] <= Patience(entry[c] - 1) + Timeout + 0
      BY <1>1, <3>2, <3>3
    <3>5. QED
      BY <2>2, <2>3, <3>4
  <2>4. CASE b # c
    BY <1>3, <2>2, <2>4
  <2>5. QED
    BY <2>3, <2>4
<1>10. ASSUME NEW c \in Broadcasts, Raise(c), NEW b \in Broadcasts PROVE Part(b)
  <2>1. /\ pc'[c] = "raised" /\ UNCHANGED <<entry, age>>
        /\ \A d \in Broadcasts : d # c => pc'[d] = pc[d] /\ waited'[d] = waited[d]
    BY <1>10, RaiseEffect
  <2>2. QED
    BY <1>3, <2>1
<1>11. ASSUME Tick, NEW b \in Broadcasts PROVE Part(b)
  <2>1. /\ Running(b) => waited'[b] = waited[b] + 1
        /\ age'[b] \in Nat /\ age'[b] <= age[b] + 1
        /\ UNCHANGED <<pc, entry>>
    BY <1>11, TickEffect
  <2>2. Running(b) => Patience(entry[b] - 1) \in Int
    <3>1. Running(b) => entry[b] - 1 \in Nat
      BY <1>1 DEF InLoop
    <3>2. QED
      BY <3>1, PatienceGrows
  <2>3. pc[b] = "connecting" => age'[b] <= Patience(entry[b] - 1) + waited'[b]
    <3> SUFFICES ASSUME pc[b] = "connecting"
                 PROVE  age'[b] <= Patience(entry[b] - 1) + waited'[b]
      OBVIOUS
    <3>1. Running(b) /\ age[b] <= Patience(entry[b] - 1) + waited[b]
      BY DEF OnTime, Running
    <3>2. QED
      BY <1>1, <2>1, <2>2, <3>1
  <2>4. pc[b] = "waiting" => age'[b] <= Patience(entry[b] - 1) + Timeout + waited'[b]
    <3> SUFFICES ASSUME pc[b] = "waiting"
                 PROVE  age'[b] <= Patience(entry[b] - 1) + Timeout + waited'[b]
      OBVIOUS
    <3>1. Running(b) /\ age[b] <= Patience(entry[b] - 1) + Timeout + waited[b]
      BY DEF OnTime, Running
    <3>2. QED
      BY <1>1, <2>1, <2>2, <3>1
  <2>5. QED
    BY <2>1, <2>3, <2>4
<1>12. ASSUME UNCHANGED <<pc, entry, age, waited>>, NEW b \in Broadcasts PROVE Part(b)
  BY <1>3, <1>12
<1> HIDE DEF Part
<1>13. QED
  BY <1>4, <1>5, <1>7, <1>8, <1>9, <1>10, <1>11, <1>12, StepCases
     DEF Steps, Restart, Crowd, vars, nodes, timing, outcome

-----------------------------------------------------------------------------
(***************************************************************************)
(* What refusals show.                                                     *)
(***************************************************************************)

\* Entries stay where they are, clocks keep their offsets, and what a full cache
\* refused stays on record.
LEMMA Kept ==
    ASSUME IInv, [Next]_vars
    PROVE  /\ Len(peers') \in Nat /\ Len(peers') >= Len(peers)
           /\ \A i \in 1..Len(peers) : peers'[i] = peers[i]
           /\ offset' = offset
           /\ \A b \in Broadcasts : crowded[b] \subseteq crowded'[b]
<1> USE DEF IInv
<1> DEFINE Goal == /\ Len(peers') \in Nat /\ Len(peers') >= Len(peers)
                   /\ \A i \in 1..Len(peers) : peers'[i] = peers[i]
                   /\ offset' = offset
                   /\ \A b \in Broadcasts : crowded[b] \subseteq crowded'[b]
<1>1. Len(peers) \in Nat
  BY DEF Typed
<1>2. ASSUME UNCHANGED <<peers, offset, crowded>> PROVE Goal
  BY <1>1, <1>2
<1>3. ASSUME NEW a \in Addresses, Enter(a) PROVE Goal
  <2>1. Len(peers') \in Nat
    BY <1>3, EnterEffect
  <2>2. QED
    BY <1>3, <2>1, EnterEffect DEF outcome
<1>4. ASSUME NEW f \in frames, Reject(f) PROVE Goal
  <2>1. UNCHANGED <<peers, offset>>
    BY <1>4, RespondEffect DEF Reject
  <2>2. \A b \in Broadcasts : crowded[b] \subseteq crowded'[b]
    BY <1>4 DEF Reject, Typed
  <2>3. QED
    BY <1>1, <2>1, <2>2
<1>5. ASSUME NEW f \in frames, Receive(f) PROVE Goal
  <2>1. UNCHANGED <<peers, offset, crowded>>
    BY <1>5, RespondEffect DEF Receive
  <2>2. QED
    BY <1>2, <2>1
<1> HIDE DEF Goal
<1>6. Goal
  BY <1>2, <1>3, <1>4, <1>5, StepCases
     DEF Steps, Stop, Restart, Crowd, Begin, Connect, Raise, Answered, Tick, vars, nodes,
         outcome
<1>7. QED
  BY <1>6 DEF Goal

LEMMA NextExcused == IInv /\ [Next]_vars => Excused'
<1> SUFFICES ASSUME IInv, [Next]_vars PROVE Excused'
  OBVIOUS
<1> USE DEF IInv
<1> DEFINE LateThen(b, i) ==
             peers'[i] \in crowded'[b] \/ Patience(i) + offset'[peers'[i][1]] > MaxSkew
           Part(b) ==
             /\ answer'[b].type = "ERROR" /\ answer'[b].from = peers'[entry'[b]]
                  => LateThen(b, entry'[b]) \/ offset'[peers'[entry'[b]][1]] < -MaxSkew
             /\ \A i \in refused'[b] : i \in 1..Len(peers') /\ LateThen(b, i)
<1>1. SUFFICES \A b \in Broadcasts : Part(b)
  BY DEF Excused, Late, Patience
<1>2. ASSUME NEW b \in Broadcasts, NEW i \in 1..Len(peers)
      PROVE  /\ i \in 1..Len(peers') /\ peers'[i] = peers[i] /\ offset' = offset
             /\ Late(b, i) => LateThen(b, i)
  <2>1. i \in 1..Len(peers') /\ peers'[i] = peers[i] /\ offset' = offset
    <3>1. Len(peers) \in Nat
      BY DEF Typed
    <3>2. QED
      BY <3>1, Kept
  <2>2. crowded[b] \subseteq crowded'[b]
    BY Kept
  <2>3. QED
    BY <2>1, <2>2 DEF Late
\* Refusals on record stay excused.
<1>3. ASSUME NEW b \in Broadcasts, refused'[b] = refused[b]
      PROVE  \A i \in refused'[b] : i \in 1..Len(peers') /\ LateThen(b, i)
  <2> SUFFICES ASSUME NEW i \in refused[b] PROVE i \in 1..Len(peers') /\ LateThen(b, i)
    BY <1>3
  <2>1. i \in 1..Len(peers) /\ Late(b, i)
    BY DEF Excused
  <2>2. QED
    BY <1>2, <2>1
<1>4. ASSUME NEW b \in Broadcasts, refused'[b] = refused[b], entry'[b] = entry[b],
             answer'[b] = answer[b] \/ answer'[b].type # "ERROR"
      PROVE  Part(b)
  <2> SUFFICES ASSUME answer'[b] = answer[b], answer[b].type = "ERROR",
                      answer[b].from = peers'[entry[b]]
               PROVE  LateThen(b, entry[b]) \/ offset'[peers'[entry[b]][1]] < -MaxSkew
    BY <1>3, <1>4
  <2>1. Running(b)
    BY DEF InLoop, Running, NoAnswer
  <2>2. entry[b] \in 1..Len(peers)
    BY <2>1, EntryInDict
  <2>3. peers'[entry[b]] = peers[entry[b]] /\ offset' = offset
    BY <1>2, <2>2
  <2>4. Late(b, entry[b]) \/ offset[peers[entry[b]][1]] < -MaxSkew
    BY <2>3 DEF Excused
  <2>5. QED
    BY <1>2, <2>2, <2>3, <2>4
<1>5. ASSUME NEW a \in Addresses, Enter(a) \/ Stop(a), NEW b \in Broadcasts PROVE Part(b)
  <2>1. UNCHANGED <<entry, refused>>
    BY <1>5, EnterEffect, StopEffect DEF outcome
  <2>2. answer'[b] = answer[b] \/ answer'[b].type # "ERROR"
    BY <1>5, EnterEffect, StopEffect
  <2>3. QED
    BY <1>4, <2>1, <2>2
<1>6. ASSUME NEW f \in frames, Receive(f), NEW b \in Broadcasts PROVE Part(b)
  <2>1. PICK type \in {"ACK", "closed"} : Respond(f, type)
    BY <1>6 DEF Receive
  <2>2. answer'[b] = answer[b] \/ answer'[b].type # "ERROR"
    BY <2>1, RespondEffect
  <2>3. QED
    BY <1>4, <2>1, <2>2, RespondEffect
<1>7. ASSUME NEW f \in frames, Reject(f), NEW b \in Broadcasts PROVE Part(b)
  <2>1. Respond(f, "ERROR")
    BY <1>7 DEF Reject
  <2>2. UNCHANGED <<peers, offset, entry, refused>>
    BY <2>1, RespondEffect
  <2>3. CASE b # f.of \/ pc[b] # "waiting"
    <3>1. answer'[b] = answer[b]
      BY <2>1, <2>3, RespondEffect
    <3>2. QED
      BY <1>4, <2>2, <3>1
  <2>4. CASE b = f.of /\ pc[b] = "waiting"
    <3> SUFFICES ASSUME answer'[b].from = peers[entry[b]]
                 PROVE  LateThen(b, entry[b]) \/ offset[peers[entry[b]][1]] < -MaxSkew
      BY <1>3, <2>2
    <3>1. f.to = peers[entry[b]]
      BY <2>1, <2>4, RespondEffect
    <3>2. \/ f.to \in crowded'[b]
          \/ Patience(entry[b]) + offset[f.to[1]] > MaxSkew
          \/ offset[f.to[1]] < -MaxSkew
      BY <1>7, <2>4, <3>1, RejectedLate
    <3>3. QED
      BY <2>2, <3>1, <3>2
  <2>5. QED
    BY <2>3, <2>4
<1>8. ASSUME NEW c \in Broadcasts, NEW done \in Nat, Advance(c, done),
             \A d \in Broadcasts : d # c => refused'[d] = refused[d],
             \A i \in refused'[c] : i \in 1..Len(peers') /\ LateThen(c, i),
             NEW b \in Broadcasts
      PROVE  Part(b)
  <2>1. CASE b = c
    <3>1. answer'[b].type # "ERROR"
      BY <1>8, <2>1, AdvanceEffect DEF NoAnswer
    <3>2. QED
      BY <1>8, <2>1, <3>1
  <2>2. CASE b # c
    BY <1>4, <1>8, <2>2, AdvanceEffect
  <2>3. QED
    BY <2>1, <2>2
<1>9. ASSUME NEW c \in Broadcasts, Begin(c), NEW b \in Broadcasts PROVE Part(b)
  <2>1. Advance(c, 0) /\ refused' = refused
    BY <1>9, BeginEffect
  <2>2. \A i \in refused'[c] : i \in 1..Len(peers') /\ LateThen(c, i)
    BY <1>3, <2>1
  <2>3. QED
    BY <1>8, <2>1, <2>2
<1>10. ASSUME NEW c \in Broadcasts, Answered(c), NEW b \in Broadcasts PROVE Part(b)
  <2>1. /\ answer[c] # NoAnswer /\ answer[c].from = peers[entry[c]] /\ Timely(c)
        /\ entry[c] \in Nat /\ Advance(c, entry[c])
        /\ refused'[c] = IF answer[c].type = "ERROR" THEN refused[c] \cup {entry[c]}
                         ELSE refused[c]
        /\ \A d \in Broadcasts : d # c => refused'[d] = refused[d]
    BY <1>10, AnsweredEffect
  <2>2. Running(c)
    BY <2>1 DEF InLoop, Running
  <2>3. entry[c] \in 1..Len(peers)
    BY <2>2, EntryInDict
  <2>4. ASSUME answer[c].type = "ERROR" PROVE Late(c, entry[c])
    <3> PICK d : d = offset[peers[entry[c]][1]]
      OBVIOUS
    <3>1. d \in Int
      <4>1. peers[entry[c]] \in Keys
        BY <2>3 DEF Typed
      <4>2. peers[entry[c]][1] \in Addresses
        BY <4>1 DEF Keys
      <4>3. QED
        BY <4>2, OffsetType
    <3>2. waited[c] \in Int /\ dated[c] \in Int /\ dated[c] <= waited[c]
      BY DEF Typed, DatedInWait
    <3>3. waited[c] - dated[c] - d <= MaxSkew
      BY <2>1 DEF Timely, InWindow
    <3>4. ~(d < -MaxSkew)
      BY <3>1, <3>2, <3>3, MeshAssumption
    <3>5. QED
      BY <2>1, <2>4, <3>4 DEF Excused
  <2>5. \A i \in refused'[c] : i \in 1..Len(peers') /\ LateThen(c, i)
    <3> SUFFICES ASSUME NEW i \in refused'[c]
                 PROVE  i \in 1..Len(peers') /\ LateThen(c, i)
      OBVIOUS
    <3>1. i \in 1..Len(peers) /\ Late(c, i)
      BY <2>1, <2>3, <2>4 DEF Excused
    <3>2. QED
      BY <1>2, <3>1
  <2>6. QED
    BY <1>8, <2>1, <2>5
<1>11. ASSUME NEW c \in Broadcasts, Connect(c), NEW b \in Broadcasts PROVE Part(b)
  <2>1. entry[c] \in 1..Len(peers)
    BY <1>11, EntryInDict DEF Connect, Running
  <2>2. QED
    BY <1>4, <1>11, <2>1, ConnectEffect
<1>12. ASSUME NEW c \in Broadcasts, Raise(c), NEW b \in Broadcasts PROVE Part(b)
  <2>1. answer'[b] = answer[b] \/ answer'[b].type # "ERROR"
    BY <1>12, RaiseEffect DEF NoAnswer
  <2>2. QED
    BY <1>4, <1>12, <2>1, RaiseEffect
<1>13. ASSUME UNCHANGED <<entry, answer, refused>>, NEW b \in Broadcasts PROVE Part(b)
  BY <1>4, <1>13
<1> HIDE DEF Part
<1>14. QED
  BY <1>5, <1>6, <1>7, <1>9, <1>10, <1>11, <1>12, <1>13, StepCases
     DEF Steps, Restart, Crowd, Tick, vars, nodes, timing, outcome

LEMMA NextDatedInWait == IInv /\ [Next]_vars => DatedInWait'
<1> SUFFICES ASSUME IInv, [Next]_vars PROVE DatedInWait'
  OBVIOUS
<1> USE DEF IInv
<1>1. \A b \in Broadcasts : waited[b] \in Nat /\ dated[b] \in Nat
  BY MeshAssumption DEF Typed
<1>2. \A b \in Broadcasts :
        dated[b] <= waited[b] /\ (answer[b] = NoAnswer => dated[b] = 0)
  BY DEF DatedInWait
<1> DEFINE Part(b) == dated'[b] <= waited'[b] /\ (answer'[b] = NoAnswer => dated'[b] = 0)
<1>3. SUFFICES \A b \in Broadcasts : Part(b)
  BY DEF DatedInWait
<1>4. ASSUME NEW b \in Broadcasts, dated'[b] = dated[b], waited'[b] = waited[b],
             answer'[b] = answer[b] \/ answer'[b] # NoAnswer
      PROVE  Part(b)
  BY <1>2, <1>4
<1>5. ASSUME NEW a \in Addresses, Enter(a) \/ Stop(a), NEW b \in Broadcasts PROVE Part(b)
  <2>1. answer'[b] = answer[b] \/ answer'[b] # NoAnswer
    BY <1>5, EnterEffect, StopEffect
  <2>2. QED
    BY <1>4, <1>5, <2>1, EnterEffect, StopEffect DEF timing
<1>6. ASSUME NEW f \in frames, Receive(f) \/ Reject(f), NEW b \in Broadcasts PROVE Part(b)
  <2>1. PICK type \in {"ACK", "ERROR", "closed"} : Respond(f, type)
    BY <1>6 DEF Receive, Reject
  <2>2. CASE b = f.of /\ pc[b] = "waiting"
    <3>1. /\ answer'[b] # NoAnswer /\ waited' = waited
          /\ dated'[b] \in {dated[b], waited[b]}
      BY <2>1, <2>2, RespondEffect
    <3>2. QED
      BY <1>1, <1>2, <3>1
  <2>3. CASE ~(b = f.of /\ pc[b] = "waiting")
    <3>1. answer'[b] = answer[b] /\ dated'[b] = dated[b] /\ waited' = waited
      BY <2>1, <2>3, RespondEffect
    <3>2. QED
      BY <1>4, <3>1
  <2>4. QED
    BY <2>2, <2>3
<1>7. ASSUME NEW c \in Broadcasts, Begin(c) \/ Answered(c), NEW b \in Broadcasts PROVE Part(b)
  <2>1. PICK done \in Nat : Advance(c, done)
    BY <1>7, BeginEffect, AnsweredEffect
  <2>2. CASE b = c
    <3>1. waited'[b] = 0 /\ dated'[b] = 0
      BY <2>1, <2>2, AdvanceEffect
    <3>2. QED
      BY <3>1
  <2>3. CASE b # c
    BY <1>4, <2>1, <2>3, AdvanceEffect
  <2>4. QED
    BY <2>2, <2>3
<1>8. ASSUME NEW c \in Broadcasts, Connect(c), NEW b \in Broadcasts PROVE Part(b)
  <2>1. entry[c] \in 1..Len(peers)
    BY <1>8, EntryInDict DEF Connect, Running
  <2>2. /\ pc[c] = "connecting" /\ waited'[c] = 0 /\ UNCHANGED <<dated, answer>>
        /\ \A d \in Broadcasts : d # c => waited'[d] = waited[d]
    BY <1>8, <2>1, ConnectEffect
  <2>3. answer[c] = NoAnswer
    BY <2>2 DEF InLoop
  <2>4. CASE b = c
    BY <1>2, <2>2, <2>3, <2>4
  <2>5. CASE b # c
    BY <1>4, <2>2, <2>5
  <2>6. QED
    BY <2>4, <2>5
<1>9. ASSUME NEW c \in Broadcasts, Raise(c), NEW b \in Broadcasts PROVE Part(b)
  <2>1. CASE b = c
    <3>1. waited'[b] = 0 /\ dated'[b] = 0
      BY <1>9, <2>1, RaiseEffect
    <3>2. QED
      BY <3>1
  <2>2. CASE b # c
    BY <1>4, <1>9, <2>2, RaiseEffect
  <2>3. QED
    BY <2>1, <2>2
<1>10. ASSUME Tick, NEW b \in Broadcasts PROVE Part(b)
  <2>1. dated' = dated /\ answer' = answer /\ waited'[b] >= waited[b] /\ waited'[b] \in Nat
    BY <1>10, TickEffect, MeshAssumption
  <2>2. QED
    BY <1>1, <1>2, <2>1
<1>11. ASSUME UNCHANGED <<dated, waited, answer>>, NEW b \in Broadcasts PROVE Part(b)
  BY <1>4, <1>11
<1> HIDE DEF Part
<1>12. QED
  BY <1>5, <1>6, <1>7, <1>8, <1>9, <1>10, <1>11, StepCases
     DEF Steps, Restart, Crowd, vars, timing

LEMMA Inductive == Spec => []IInv
<1>1. Init => IInv
  BY InitInv
<1>2. IInv /\ [Next]_vars => IInv'
  BY NextTyped, NextEnteredOnce, NextInLoop, NextPassed, NextAddressed, NextOneRequest,
     NextOnTime, NextExcused, NextDatedInWait DEF IInv
<1>3. QED
  BY <1>1, <1>2, PTL DEF Spec

-----------------------------------------------------------------------------
(***************************************************************************)
(* The theorems.                                                           *)
(***************************************************************************)

\* broadcast_ram returns only after every peer known when it began answered
\* under its own key; one that is under way or has raised reached all entries
\* before the one it is at, and behind it only nodes at an address it tried.
THEOREM BroadcastReachThm == Spec => []BroadcastReach
<1>1. IInv => BroadcastReach
  BY DEF IInv, Passed, Addressed, BroadcastReach
<1>2. QED
  BY Inductive, <1>1, PTL

\* A peer refuses the one message that broadcast_ram signs unnoticed only when
\* its replay cache was full, or when the timeouts of _request for the entries
\* up to it and the lead of its clock exceed the accepted skew: no peer ever
\* takes the message for a replay, and a clock behind is noticed here.
THEOREM RefusedOnlyLateThm == Spec => []RefusedOnlyLate
<1>1. IInv => RefusedOnlyLate
  BY DEF IInv, Excused, Late, RefusedOnlyLate, Patience
<1>2. QED
  BY Inductive, <1>1, PTL

=============================================================================
