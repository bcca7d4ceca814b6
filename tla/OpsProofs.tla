------------------------------ MODULE OpsProofs ------------------------------
(***************************************************************************)
(* What holds of the X relay for any mentions, own replies, delivery loops *)
(* and number of faults: an instruction is executed once and none is       *)
(* skipped, a verdict is the chain's, nothing is sent while a broadcast is *)
(* unresolved, and a reply is posted once.  And of the matchmaker, for any *)
(* browsers, wallets and matches: nobody is locked out of the queue, and   *)
(* no deck is committed to a pairing that has ended.                       *)
(***************************************************************************)
EXTENDS Ops, WellFoundedInduction, TLAPS

\* Where the poller has a mention in hand: before its transaction leaves, after,
\* and when the receipt is about to be saved and the cursor moved.
Unsent == {"resolve", "record", "send"}
InFlight == {"answer", "mark", "await"}
Handling == Unsent \cup InFlight \cup {"save", "cursor"}

\* The batch is all that lies between the cursor and its end.
Ordered ==
  \A n \in batch :
    cursor < n /\ \A m \in Mentions : cursor < m /\ m <= n => m \in batch

\* The mention in hand is the next instruction of the batch, and it is claimed.
InHand ==
  pc \in Handling =>
    /\ current \in batch \ OwnReplies
    /\ \A n \in batch : current <= n
    /\ receipts[current].status # "none"

BatchOK == (pc \in {"idle", "recover"} => batch = {}) /\ Ordered /\ InHand

\* A mention nobody claimed was neither executed nor queued for a reply, and what
\* was sent is on its way.
Untouched ==
  \A m \in Mentions :
    /\ receipts[m].status = "none" => sends[m] = 0 /\ delivery[m].state = "none"
    /\ tx[m] = "none" <=> sends[m] = 0

\* What the poller knows at each of its awaits of the mention in hand.
Alone == \A n \in Mentions : n # current => ~Unresolved(n)
FinalIsTrue ==
  /\ final.status # "none"
  /\ final.status \in Verdicts => tx[current] = final.status
  /\ final.hash => sends[current] > 0

InHandKnows ==
  /\ pc \in Unsent => sends[current] = 0 /\ Alone
  /\ pc \in InFlight => sends[current] > 0
  /\ pc = "save" => FinalIsTrue

OrdersInv ==
  /\ BatchOK /\ Untouched /\ InHandKnows
  /\ ExecutedOnce /\ NothingIsSkipped /\ VerdictsAreTrue

\* What a delivery loop knows of its mention: the lease is its own from the POST
\* on, and a row it holds while preparing has not been posted.
Taken(w) == wpc[w] \in {"post", "acked", "lost"}
LoopOK(w) ==
  /\ wpc[w] # "idle" => job[w] \in Mentions
  /\ wpc[w] = "prepare" /\ delivery[job[w]].lease = w =>
       delivery[job[w]].state = "preparing"
  /\ Taken(w) => /\ delivery[job[w]].lease = w
                 /\ delivery[job[w]].state \in {"posting", "unknown"}
  /\ wpc[w] = "post" => posts[job[w]] = 0
  /\ wpc[w] = "acked" => posts[job[w]] = 1
LoopsOK == \A w \in Workers : LoopOK(w)

RepliesInv == RepliedOnce /\ LoopsOK

RelayInv == TypeOK /\ OrdersInv /\ RepliesInv

-----------------------------------------------------------------------------
(* A batch that is not empty has a first mention.                          *)
LEMMA FirstOfBatch ==
  ASSUME RelayAssumption, NEW S, S \subseteq Mentions, S # {}
  PROVE  Min(S) \in S /\ \A n \in S : Min(S) <= n
<1>1. S \subseteq Nat
  BY DEF Mentions, RelayAssumption
<1>2. PICK k \in S : \A j \in S : <<j, k>> \notin OpToRel(<, Nat)
  BY <1>1, WFMin, NatLessThanWellFounded
<1>3. \A j \in S : ~ (j < k)
  BY <1>1, <1>2 DEF OpToRel
<1>4. \A j \in S : k <= j
  BY <1>1, <1>3
<1> QED
  BY <1>2, <1>4 DEF Min

(* An update of a row stays a row.                                         *)
LEMMA RowFields ==
  ASSUME NEW r \in Row
  PROVE  /\ \A s \in Statuses, h \in BOOLEAN : [r EXCEPT !.status = s, !.hash = h] \in Row
         /\ [r EXCEPT !.target = TRUE] \in Row /\ [r EXCEPT !.intent = TRUE] \in Row
         /\ [r EXCEPT !.hash = TRUE] \in Row
         /\ r.status \in Statuses /\ r.hash \in BOOLEAN
BY DEF Row

LEMMA DeliveryFields ==
  ASSUME NEW d \in Delivery
  PROVE  /\ \A s \in DeliveryStates : [d EXCEPT !.state = s] \in Delivery
         /\ d.state \in DeliveryStates /\ d.lease \in Workers \cup {NoWorker}
BY DEF Delivery

-----------------------------------------------------------------------------
(* Types.                                                                  *)
LEMMA InitTyped == RelayAssumption /\ Init => TypeOK
BY DEF RelayAssumption, Init, TypeOK, NoCursor, None, Mentions, Row, NoRow, Statuses,
       Unverified, Verdicts, Delivery, DeliveryStates, Phases, Outcome, Chain, WorkerPhases

LEMMA ConcludesTyped ==
  ASSUME TypeOK, NEW s \in Statuses, NEW h \in BOOLEAN, Concludes(s, h)
  PROVE  /\ UNCHANGED <<posted, cursor, began, receipts, todo, batch, current>>
         /\ UNCHANGED <<tx, sends, delivery, wpc, job, posts>>
         /\ pc' = "save" /\ final' \in Outcome /\ final' = [status |-> s, hash |-> h]
BY DEF Concludes, relayVars, chainVars, deliveryVars, Outcome

LEMMA PollerTyped ==
  ASSUME RelayAssumption, TypeOK, Poller, pc \in Handling => current \in Mentions
  PROVE  TypeOK'
<1> USE DEF None
<1>0. /\ MaxFaults \in Nat /\ MaxMention \in Nat /\ Posting \in BOOLEAN /\ faults \in 0..MaxFaults
      /\ Verdicts \subseteq Statuses /\ Unverified \subseteq Statuses /\ "refused" \in Statuses
      /\ "none" \in Statuses /\ "unknown" \in Unverified /\ "submitted" \in Statuses
  BY DEF RelayAssumption, TypeOK, Statuses, Verdicts, Unverified
<1>1. ASSUME NEW young \in SUBSET Mentions, StartCycle(young) PROVE TypeOK'
  <2>1. faults' \in 0..MaxFaults
    BY <1>0, <1>1 DEF StartCycle
  <2> QED
    BY <1>1, <2>1 DEF StartCycle, TypeOK, relayVars, chainVars, deliveryVars, Phases
<1>2. ASSUME NEW m \in Mentions, NEW found \in Statuses, Recover(m, found) PROVE TypeOK'
  <2>1. PICK r \in Row : r = receipts[m]
    BY DEF TypeOK
  <2>2. PICK h \in BOOLEAN : h = (r.hash \/ found # "unknown")
    OBVIOUS
  <2>3. PICK s \in Row : s = [r EXCEPT !.status = found, !.hash = h]
    BY RowFields
  <2>4. receipts' = [receipts EXCEPT ![m] = s]
    BY <1>2, <2>1, <2>2, <2>3 DEF Recover
  <2> QED
    BY <1>2, <2>4 DEF Recover, TypeOK, relayVars, chainVars, deliveryVars
<1>3. CASE Fetch
  <2>1. /\ posted \in 0..MaxMention /\ 0..MaxMention \subseteq NoCursor..MaxMention
        /\ {m \in Mentions : cursor < m /\ m <= posted} \subseteq Mentions
    BY <1>0 DEF TypeOK, NoCursor
  <2>2. /\ cursor' \in NoCursor..MaxMention /\ began' \in NoCursor..MaxMention
        /\ batch' \subseteq Mentions /\ pc' \in Phases
    BY <1>3, <2>1 DEF Fetch, TypeOK, Phases
  <2> QED
    BY <1>3, <2>2 DEF Fetch, TypeOK, chainVars, deliveryVars
<1>4. CASE EndCycle \/ Pause
  <2>1. pc' \in Phases /\ todo' = {} /\ batch' = {} /\ current' = None
    BY <1>4 DEF EndCycle, Pause, Idle, Phases
  <2>2. final' \in Outcome
    <3>1. final' = [status |-> "none", hash |-> FALSE]
      BY <1>4 DEF EndCycle, Pause, Idle
    <3> QED
      BY <1>0, <3>1 DEF Outcome
  <2> QED
    BY <1>4, <2>1, <2>2 DEF EndCycle, Pause, TypeOK, relayVars, chainVars, deliveryVars
<1>5. CASE SkipOwnReply
  <2>0. batch \subseteq Mentions /\ batch # {}
    BY <1>5 DEF SkipOwnReply, TypeOK
  <2>1. PICK m \in Mentions : m = Min(batch)
    BY <2>0, FirstOfBatch
  <2>2. m \in NoCursor..MaxMention
    BY <1>0 DEF Mentions, NoCursor
  <2> QED
    BY <1>5, <2>0, <2>1, <2>2 DEF SkipOwnReply, TypeOK, chainVars, deliveryVars
<1>6. CASE Claim
  <2>1. PICK m \in Mentions : m = Min(batch)
    BY <1>6, FirstOfBatch DEF Claim, TypeOK
  <2>2. PICK r \in Row : r = [NoRow EXCEPT !.status = "submitted"]
    BY <1>0 DEF NoRow, Row
  <2>3. receipts' \in [Mentions -> Row]
    BY <1>6, <2>1, <2>2 DEF Claim, TypeOK
  <2>4. PICK d \in Delivery : d = [state |-> "pending", lease |-> NoWorker]
    BY DEF Delivery, DeliveryStates
  <2>5. delivery' \in [Mentions -> Delivery]
    BY <1>6, <2>1, <2>4 DEF Claim, TypeOK
  <2> QED
    BY <1>6, <2>1, <2>3, <2>5 DEF Claim, TypeOK, relayVars, chainVars, Phases
<1>7. CASE Save
  <2>1. PICK r \in Row : r = receipts[current]
    BY <1>7 DEF TypeOK, Save, Handling
  <2>2. PICK h \in BOOLEAN : h = (r.hash \/ final.hash)
    BY DEF TypeOK, Outcome, Row
  <2>3. PICK s \in Row : s = [r EXCEPT !.status = final.status, !.hash = h]
    BY RowFields DEF TypeOK, Outcome
  <2>4. receipts' = receipts \/ receipts' = [receipts EXCEPT ![current] = s]
    BY <1>7, <2>1, <2>2, <2>3 DEF Save
  <2>5. receipts' \in [Mentions -> Row]
    BY <2>4 DEF TypeOK
  <2> QED
    BY <1>7, <2>5 DEF Save, TypeOK, relayVars, chainVars, deliveryVars, Phases
<1>8. CASE SetCursor
  <2>1. current \in Mentions /\ current \in NoCursor..MaxMention
    BY <1>0, <1>8 DEF SetCursor, Handling, Mentions, NoCursor
  <2> QED
    BY <1>8, <2>1 DEF SetCursor, TypeOK, chainVars, deliveryVars, Phases
<1>9. CASE Refuse \/ TimedOut \/ ConnectionLost \/ Mined \/ NotMinedInTime
  <2>1. faults' = faults
    BY <1>9 DEF Refuse, TimedOut, ConnectionLost, Mined, NotMinedInTime
  <2>2. PICK s \in Statuses, h \in BOOLEAN : Concludes(s, h)
    BY <1>0, <1>9 DEF Refuse, TimedOut, ConnectionLost, Mined, NotMinedInTime
  <2> QED
    BY <2>1, <2>2, ConcludesTyped DEF TypeOK, Phases
<1>10. CASE Checkpoint \/ Record \/ MarkSent
  <2>1. PICK r \in Row : r = receipts[current]
    BY <1>10 DEF TypeOK, Checkpoint, Record, MarkSent, Handling, Unsent, InFlight
  <2>2. PICK s \in Row : receipts' = [receipts EXCEPT ![current] = s]
    BY <1>10, <2>1, RowFields DEF Checkpoint, Record, MarkSent
  <2>3. pc' \in Phases /\ receipts' \in [Mentions -> Row]
    BY <1>10, <2>2 DEF Checkpoint, Record, MarkSent, Phases, TypeOK
  <2> QED
    BY <1>10, <2>3 DEF Checkpoint, Record, MarkSent, TypeOK, relayVars, chainVars, deliveryVars
<1>11. CASE Broadcast
  <2>1. current \in Mentions /\ "sent" \in Chain
    BY <1>11 DEF Broadcast, Handling, Unsent, Chain
  <2>2. tx' \in [Mentions -> Chain] /\ sends' \in [Mentions -> Nat]
    BY <1>11, <2>1 DEF Broadcast, TypeOK
  <2> QED
    BY <1>11, <2>2 DEF Broadcast, TypeOK, relayVars, deliveryVars, Phases
<1>12. CASE Answered
  BY <1>12 DEF Answered, TypeOK, relayVars, chainVars, deliveryVars, Phases
<1> QED
  BY <1>1, <1>2, <1>3, <1>4, <1>5, <1>6, <1>7, <1>8, <1>9, <1>10, <1>11, <1>12
     DEF Poller, Recovery, Polling, Executing

(* A loop's row is a row, and its place a place.                           *)
LEMMA LoopTyped ==
  ASSUME TypeOK, UNCHANGED <<relayVars, receipts, pollerVars, chainVars>>,
         faults' \in 0..MaxFaults,
         \/ delivery' = delivery
         \/ \E m \in Mentions, d \in Delivery : delivery' = [delivery EXCEPT ![m] = d],
         \/ UNCHANGED <<wpc, job>>
         \/ \E w \in Workers, phase \in WorkerPhases, m \in Mentions \cup {None} : Goes(w, phase, m),
         \/ posts' = posts
         \/ \E m \in Mentions, n \in Nat : posts' = [posts EXCEPT ![m] = n]
  PROVE  TypeOK'
<1>1. delivery' \in [Mentions -> Delivery]
  BY DEF TypeOK
<1>2. wpc' \in [Workers -> WorkerPhases] /\ job' \in [Workers -> Mentions \cup {None}]
  BY DEF TypeOK, Goes
<1>3. posts' \in [Mentions -> Nat]
  BY DEF TypeOK
<1> QED
  BY <1>1, <1>2, <1>3 DEF TypeOK, relayVars, pollerVars, chainVars

(* What a stop or a stale row costs is counted.                            *)
LEMMA StaleCounts ==
  ASSUME RelayAssumption, TypeOK, NEW m \in Mentions, Stale(m)
  PROVE  faults' \in 0..MaxFaults
BY DEF RelayAssumption, TypeOK, Stale

LEMMA LoopsTyped ==
  ASSUME RelayAssumption, TypeOK, LoopsOK, NEW w \in Workers, Deliver(w)
  PROVE  TypeOK'
<1>0. /\ faults \in 0..MaxFaults /\ MaxFaults \in Nat /\ job[w] \in Mentions \cup {None}
      /\ wpc[w] # "idle" => job[w] \in Mentions
  BY DEF RelayAssumption, TypeOK, LoopsOK, LoopOK
<1>1. ASSUME NEW m \in Mentions, Acquire(w, m) PROVE TypeOK'
  <2>1. faults' \in 0..MaxFaults
    BY <1>0, <1>1, StaleCounts DEF Acquire, MayAcquire
  <2>2. PICK d \in Delivery : delivery' = [delivery EXCEPT ![m] = d]
    BY <1>1 DEF Acquire, Delivery, DeliveryStates
  <2> QED
    BY <1>1, <2>1, <2>2, LoopTyped DEF Acquire, WorkerPhases
<1>2. ASSUME NEW m \in Mentions, MarkInterrupted(w, m) PROVE TypeOK'
  <2>1. faults' \in 0..MaxFaults
    BY <1>2, StaleCounts DEF MarkInterrupted
  <2>2. PICK r \in Delivery : r = delivery[m]
    BY DEF TypeOK
  <2>3. PICK d \in Delivery : delivery' = [delivery EXCEPT ![m] = d]
    BY <1>2, <2>2, DeliveryFields DEF MarkInterrupted, DeliveryStates
  <2> QED
    BY <1>2, <2>1, <2>3, LoopTyped DEF MarkInterrupted
<1>3. ASSUME NEW state \in DeliveryStates, wpc[w] # "idle"
      PROVE  \E d \in Delivery : [delivery EXCEPT ![job[w]].state = state]
                                    = [delivery EXCEPT ![job[w]] = d]
  <2>1. PICK r \in Delivery : r = delivery[job[w]]
    BY <1>0, <1>3 DEF TypeOK
  <2> QED
    BY <2>1, DeliveryFields
<1>4. CASE BeginPost(w)
  <2>0. \E d \in Delivery : [delivery EXCEPT ![job[w]].state = "posting"]
                               = [delivery EXCEPT ![job[w]] = d]
    BY <1>3, <1>4 DEF BeginPost, DeliveryStates
  <2>1. \/ delivery' = delivery
        \/ \E m \in Mentions, d \in Delivery : delivery' = [delivery EXCEPT ![m] = d]
    BY <1>0, <1>4, <2>0 DEF BeginPost
  <2>2. \E phase \in WorkerPhases, m \in Mentions \cup {None} : Goes(w, phase, m)
    BY <1>0, <1>4 DEF BeginPost, WorkerPhases
  <2> QED
    BY <1>0, <1>4, <2>1, <2>2, LoopTyped DEF BeginPost
<1>5. ASSUME NEW public \in BOOLEAN, NEW acked \in BOOLEAN, Post(w, public, acked) PROVE TypeOK'
  <2>0. PICK n \in Nat : n = posts[job[w]] + (IF public THEN 1 ELSE 0)
    BY <1>0, <1>5 DEF Post, TypeOK
  <2>1. posts' = [posts EXCEPT ![job[w]] = n]
    BY <1>5, <2>0 DEF Post
  <2>2. \E phase \in WorkerPhases, m \in Mentions \cup {None} : Goes(w, phase, m)
    BY <1>0, <1>5 DEF Post, WorkerPhases
  <2> QED
    BY <1>0, <1>5, <2>1, <2>2, LoopTyped DEF Post
<1>6. CASE Finish(w)
  <2>1. \/ delivery' = delivery
        \/ \E m \in Mentions, d \in Delivery : delivery' = [delivery EXCEPT ![m] = d]
    BY <1>0, <1>3, <1>6 DEF Finish, DeliveryStates
  <2> QED
    BY <1>0, <1>6, <2>1, LoopTyped DEF Finish, WorkerPhases
<1>7. CASE NotAcknowledged(w)
  <2>1. \/ delivery' = delivery
        \/ \E m \in Mentions, d \in Delivery : delivery' = [delivery EXCEPT ![m] = d]
    BY <1>0, <1>3, <1>7 DEF NotAcknowledged, Stop, DeliveryStates
  <2>2. faults' \in 0..MaxFaults
    BY <1>0, <1>7 DEF NotAcknowledged
  <2> QED
    BY <1>7, <2>1, <2>2, LoopTyped DEF NotAcknowledged, Stop, WorkerPhases
<1> QED
  BY <1>1, <1>2, <1>4, <1>5, <1>6, <1>7 DEF Deliver

LEMMA FaultsTyped ==
  ASSUME RelayAssumption, TypeOK, LoopsOK, Faults, pc \in Handling => current \in Mentions
  PROVE  TypeOK'
<1>0. /\ MaxFaults \in Nat /\ faults \in 0..MaxFaults
      /\ \A w \in Workers : wpc[w] # "idle" => job[w] \in Mentions
  BY DEF RelayAssumption, TypeOK, LoopsOK, LoopOK
<1>1. CASE Interrupt
  <2>1. pc' \in Phases /\ todo' = {} /\ batch' = {} /\ current' = None
    BY <1>1 DEF Interrupt, Idle, Phases
  <2>2. final' \in Outcome /\ faults' \in 0..MaxFaults
    BY <1>0, <1>1 DEF Interrupt, Idle, Outcome, Statuses
  <2> QED
    BY <1>1, <2>1, <2>2 DEF Interrupt, TypeOK, relayVars, chainVars, deliveryVars
<1>2. CASE Throw \/ NotRecorded
  <2>0. faults < MaxFaults /\ faults' = faults + 1
    BY <1>2 DEF Throw, NotRecorded
  <2>1. faults' \in 0..MaxFaults
    BY <1>0, <2>0
  <2>2. Throw => receipts[current].hash \in BOOLEAN
    BY DEF Throw, Handling, Unsent, TypeOK, Row
  <2>3. PICK h \in BOOLEAN : Concludes("unknown", h)
    BY <1>2, <2>2 DEF Throw, NotRecorded
  <2>4. "unknown" \in Statuses
    BY DEF Statuses, Unverified
  <2> QED
    BY <2>1, <2>3, <2>4, ConcludesTyped DEF TypeOK, Phases
<1>3. ASSUME NEW w \in Workers, PreparationFails(w) PROVE TypeOK'
  <2>1. PICK r \in Delivery : r = delivery[job[w]]
    BY <1>0, <1>3 DEF PreparationFails, TypeOK
  <2>2. \/ delivery' = delivery
        \/ \E m \in Mentions, d \in Delivery : delivery' = [delivery EXCEPT ![m] = d]
    BY <1>0, <1>3, <2>1, DeliveryFields DEF PreparationFails, Stop, DeliveryStates
  <2>3. faults' \in 0..MaxFaults
    BY <1>0, <1>3 DEF PreparationFails
  <2> QED
    BY <1>3, <2>2, <2>3, LoopTyped DEF PreparationFails, Stop, WorkerPhases
<1>4. ASSUME NEW w \in Workers, WorkerDies(w) PROVE TypeOK'
  <2>1. faults' \in 0..MaxFaults
    BY <1>0, <1>4 DEF WorkerDies
  <2> QED
    BY <1>4, <2>1, LoopTyped DEF WorkerDies, WorkerPhases
<1> QED
  BY <1>1, <1>2, <1>3, <1>4 DEF Faults

-----------------------------------------------------------------------------
(* Executions.                                                             *)

LEMMA InitOrders == RelayAssumption /\ Init => OrdersInv
BY DEF Init, OrdersInv, BatchOK, Ordered, InHand, Untouched, InHandKnows, ExecutedOnce,
       NothingIsSkipped, VerdictsAreTrue, Handling, Unsent, InFlight, NoRow, Mentions,
       RelayAssumption, Verdicts, NoCursor

(* The delivery loops, and new mentions, leave the executions alone.       *)
LEMMA LoopsKeepOrders ==
  ASSUME OrdersInv, UNCHANGED <<cursor, began, receipts, pollerVars, chainVars>>,
         \A m \in Mentions : receipts[m].status = "none" => delivery'[m].state = delivery[m].state
  PROVE  OrdersInv'
<1> USE DEF pollerVars, chainVars
<1>1. BatchOK'
  BY DEF OrdersInv, BatchOK, Ordered, InHand
<1>2. Untouched'
  BY DEF OrdersInv, Untouched
<1>3. InHandKnows'
  BY DEF OrdersInv, InHandKnows, Alone, FinalIsTrue, Unresolved
<1>4. ExecutedOnce' /\ NothingIsSkipped' /\ VerdictsAreTrue'
  BY DEF OrdersInv, ExecutedOnce, NothingIsSkipped, VerdictsAreTrue
<1> QED
  BY <1>1, <1>2, <1>3, <1>4 DEF OrdersInv

(* A transaction that is mined has its verdict for good.                   *)
LEMMA MineKeepsOrders ==
  ASSUME TypeOK, OrdersInv, NEW m \in Mentions, NEW verdict \in Verdicts, Mine(m, verdict)
  PROVE  OrdersInv'
<1> USE DEF pollerVars, deliveryVars, relayVars
<1>1. /\ tx[m] = "sent" /\ tx' = [tx EXCEPT ![m] = verdict] /\ verdict \notin {"none", "sent"}
      /\ UNCHANGED <<cursor, began, receipts, pollerVars, sends, delivery>>
  BY DEF Mine, Verdicts
<1>2. \A n \in Mentions : /\ tx[n] # "sent" => tx'[n] = tx[n]
                          /\ tx[n] = "none" <=> tx'[n] = "none"
  BY <1>1 DEF TypeOK
<1>3. BatchOK'
  BY <1>1 DEF OrdersInv, BatchOK, Ordered, InHand
<1>4. Untouched'
  BY <1>1, <1>2 DEF OrdersInv, Untouched
<1>5. InHandKnows'
  <2>1. pc = "save" => current \in Mentions
    BY DEF OrdersInv, BatchOK, InHand, Handling, TypeOK
  <2>2. Verdicts = {"filled", "nothing-filled", "reverted"}
    BY DEF Verdicts
  <2> QED
    BY <1>1, <1>2, <2>1, <2>2 DEF OrdersInv, InHandKnows, Alone, FinalIsTrue, Unresolved
<1>6. ExecutedOnce' /\ NothingIsSkipped'
  BY <1>1 DEF OrdersInv, ExecutedOnce, NothingIsSkipped
<1>7. VerdictsAreTrue'
  BY <1>1, <1>2 DEF OrdersInv, VerdictsAreTrue, Verdicts
<1> QED
  BY <1>3, <1>4, <1>5, <1>6, <1>7 DEF OrdersInv

(* Recovery writes what the chain says, and sends nothing.                 *)
LEMMA RecoveryKeepsOrders ==
  ASSUME TypeOK, OrdersInv, Recovery
  PROVE  OrdersInv'
<1> USE DEF pollerVars, deliveryVars, relayVars, chainVars
<1>1. ASSUME NEW young, StartCycle(young) PROVE OrdersInv'
  <2>1. UNCHANGED <<cursor, began, receipts, chainVars, delivery, batch, current, final>>
        /\ pc' = "recover" /\ pc = "idle"
    BY <1>1 DEF StartCycle
  <2>2. BatchOK'
    BY <2>1 DEF OrdersInv, BatchOK, Ordered, InHand, Handling, Unsent, InFlight
  <2>3. InHandKnows'
    BY <2>1 DEF InHandKnows, Unsent, InFlight
  <2> QED
    BY <2>1, <2>2, <2>3 DEF OrdersInv, Untouched, ExecutedOnce, NothingIsSkipped, VerdictsAreTrue
<1>2. ASSUME NEW m \in Mentions, NEW found \in Statuses, Recover(m, found) PROVE OrdersInv'
  <2>1. /\ UNCHANGED <<cursor, began, chainVars, delivery, batch, current, final, pc>>
        /\ pc = "recover" /\ found \in Findings(m)
    BY <1>2 DEF Recover
  <2>2. PICK r \in Row : r = receipts[m]
    BY DEF TypeOK
  <2>3. PICK s : s = [r EXCEPT !.status = found, !.hash = r.hash \/ found # "unknown"]
    OBVIOUS
  <2>4. s.status = found /\ (s.hash <=> r.hash \/ found # "unknown")
    BY <2>3 DEF Row
  <2>5. receipts' = [receipts EXCEPT ![m] = s]
    BY <1>2, <2>2, <2>3 DEF Recover
  <2>6. \A n \in Mentions : receipts'[n] = IF n = m THEN s ELSE receipts[n]
    BY <2>5 DEF TypeOK
  <2>7. found = "unknown" \/ (found \in Verdicts /\ tx[m] = found)
    BY <2>1 DEF Findings
  <2>8. found # "none" /\ (found # "unknown" => tx[m] # "none")
    BY <2>7 DEF Verdicts
  <2>9. BatchOK'
    BY <2>1 DEF OrdersInv, BatchOK, Ordered, InHand, Handling, Unsent, InFlight
  <2>10. Untouched'
    BY <2>1, <2>4, <2>6, <2>8 DEF OrdersInv, Untouched
  <2>11. InHandKnows'
    BY <2>1 DEF InHandKnows, Unsent, InFlight
  <2>12. ExecutedOnce' /\ NothingIsSkipped'
    BY <2>1, <2>4, <2>6, <2>8 DEF OrdersInv, ExecutedOnce, NothingIsSkipped
  <2>13. found # "unknown" => sends[m] > 0
    BY <2>8 DEF OrdersInv, Untouched, TypeOK
  <2>14. VerdictsAreTrue'
    BY <2>1, <2>2, <2>4, <2>6, <2>7, <2>13 DEF OrdersInv, VerdictsAreTrue, Verdicts
  <2> QED
    BY <2>9, <2>10, <2>11, <2>12, <2>14 DEF OrdersInv
<1> QED
  BY <1>1, <1>2 DEF Recovery

(* The poller fetches, ends its cycle or is interrupted.                   *)
LEMMA FetchKeepsOrders ==
  ASSUME RelayAssumption, TypeOK, OrdersInv, Fetch \/ EndCycle \/ Pause \/ Interrupt
  PROVE  OrdersInv'
<1> USE DEF pollerVars, deliveryVars, relayVars, chainVars
<1>1. /\ UNCHANGED <<receipts, tx, sends, delivery>> /\ pc' \in {"idle", "next"}
  BY DEF Fetch, EndCycle, Pause, Interrupt, Idle
<1>2. InHandKnows' /\ InHand'
  BY <1>1 DEF InHandKnows, InHand, Handling, Unsent, InFlight
<1>3. BatchOK' /\ NothingIsSkipped'
  <2>1. CASE Fetch
    <3>1. pc = "recover" /\ batch = {}
      BY <2>1 DEF Fetch, OrdersInv, BatchOK
    <3>2. CASE cursor = NoCursor
      <4>1. batch' = {} /\ cursor' = posted /\ began' = posted
        BY <2>1, <3>1, <3>2 DEF Fetch
      <4> QED
        BY <1>2, <4>1 DEF BatchOK, Ordered, NothingIsSkipped, TypeOK, Mentions, RelayAssumption
    <3>3. CASE cursor # NoCursor
      <4>1. /\ batch' = {m \in Mentions : cursor < m /\ m <= posted}
            /\ cursor' = cursor /\ began' = began /\ pc' = "next"
        BY <2>1, <3>3 DEF Fetch
      <4>2. Mentions \subseteq Nat /\ posted \in Nat /\ cursor \in Int
        BY DEF TypeOK, Mentions, RelayAssumption, NoCursor
      <4>3. Ordered'
        BY <4>1, <4>2 DEF Ordered
      <4> QED
        BY <1>1, <1>2, <4>1, <4>3 DEF BatchOK, NothingIsSkipped, OrdersInv
    <3> QED
      BY <3>2, <3>3
  <2>2. CASE EndCycle \/ Pause \/ Interrupt
    <3>1. batch' = {} /\ UNCHANGED <<cursor, began>>
      BY <2>2 DEF EndCycle, Pause, Interrupt, Idle
    <3> QED
      BY <1>1, <1>2, <3>1 DEF BatchOK, Ordered, NothingIsSkipped, OrdersInv
  <2> QED
    BY <2>1, <2>2
<1> QED
  BY <1>1, <1>2, <1>3 DEF OrdersInv, Untouched, ExecutedOnce, VerdictsAreTrue

(* The first mention of the batch leaves it as the cursor reaches it.      *)
LEMMA CursorAdvances ==
  ASSUME RelayAssumption, TypeOK, OrdersInv, NEW c \in batch, \A n \in batch : c <= n,
         cursor' = c, batch' = batch \ {c}, began' = began, receipts' = receipts,
         pc' = "next", c \in OwnReplies \/ receipts[c].status # "none"
  PROVE  BatchOK' /\ NothingIsSkipped'
<1>1. Mentions \subseteq Nat /\ cursor \in Int /\ batch \subseteq Mentions /\ began \in Int
  BY DEF TypeOK, Mentions, RelayAssumption, NoCursor
<1>2. Ordered
  BY DEF OrdersInv, BatchOK
<1>3. Ordered'
  <2> SUFFICES ASSUME NEW n \in batch \ {c}
               PROVE  c < n /\ \A m \in Mentions : c < m /\ m <= n => m \in batch \ {c}
    BY DEF Ordered
  <2>1. c < n /\ cursor < c
    BY <1>1, <1>2 DEF Ordered
  <2>2. ASSUME NEW m \in Mentions, c < m, m <= n PROVE m \in batch \ {c}
    <3>1. cursor < m
      BY <1>1, <2>1, <2>2
    <3> QED
      BY <1>1, <1>2, <2>2, <3>1 DEF Ordered
  <2> QED
    BY <2>1, <2>2
<1>4. InHand' /\ (pc' \in {"idle", "recover"} => batch' = {})
  BY DEF InHand, Handling, Unsent, InFlight
<1>5. NothingIsSkipped'
  <2> SUFFICES ASSUME NEW m \in Mentions \ OwnReplies, began < m, m <= c
               PROVE  receipts[m].status # "none"
    BY DEF NothingIsSkipped
  <2>1. CASE m <= cursor
    BY <2>1 DEF OrdersInv, NothingIsSkipped
  <2>2. CASE cursor < m
    <3>1. m \in batch
      BY <1>1, <1>2, <2>2 DEF Ordered
    <3>2. m = c
      BY <1>1, <3>1
    <3> QED
      BY <3>2
  <2> QED
    BY <1>1, <2>1, <2>2
<1> QED
  BY <1>3, <1>4, <1>5 DEF BatchOK

LEMMA SkipKeepsOrders ==
  ASSUME RelayAssumption, TypeOK, OrdersInv, SkipOwnReply \/ SetCursor
  PROVE  OrdersInv'
<1> USE DEF deliveryVars, chainVars
<1>1. PICK c \in batch : /\ \A n \in batch : c <= n
                         /\ cursor' = c /\ batch' = batch \ {c}
                         /\ c \in OwnReplies \/ receipts[c].status # "none"
  <2>1. CASE SkipOwnReply
    <3>1. batch \subseteq Mentions /\ batch # {}
      BY <2>1 DEF SkipOwnReply, TypeOK
    <3> QED
      BY <2>1, <3>1, FirstOfBatch DEF SkipOwnReply
  <2>2. CASE SetCursor
    BY <2>2 DEF SetCursor, OrdersInv, BatchOK, InHand, Handling
  <2> QED
    BY <2>1, <2>2
<1>2. UNCHANGED <<began, receipts, tx, sends, delivery>> /\ pc' = "next"
  BY DEF SkipOwnReply, SetCursor
<1>3. BatchOK' /\ NothingIsSkipped'
  BY <1>1, <1>2, CursorAdvances
<1>4. InHandKnows'
  BY <1>2 DEF InHandKnows, Unsent, InFlight
<1> QED
  BY <1>2, <1>3, <1>4 DEF OrdersInv, Untouched, ExecutedOnce, VerdictsAreTrue

(* A claim is of a mention nobody claimed, while no broadcast is unresolved. *)
LEMMA ClaimKeepsOrders ==
  ASSUME RelayAssumption, TypeOK, OrdersInv, Claim
  PROVE  OrdersInv'
<1> USE DEF relayVars, chainVars
<1>1. PICK c \in batch : c = Min(batch) /\ \A n \in batch : c <= n
  BY FirstOfBatch DEF Claim, TypeOK
<1>2. /\ pc = "next" /\ c \in Mentions \ OwnReplies /\ CanExecute /\ current' = c
      /\ UNCHANGED <<cursor, began, batch, final, tx, sends>>
  BY <1>1 DEF Claim, TypeOK
<1>3. CASE ~Unclaimed(c)
  <2>1. UNCHANGED <<receipts, delivery>> /\ pc' = "cursor" /\ receipts[c].status # "none"
    BY <1>1, <1>3 DEF Claim, Unclaimed
  <2>2. BatchOK'
    BY <1>1, <1>2, <2>1 DEF OrdersInv, BatchOK, Ordered, InHand, Handling
  <2>3. InHandKnows'
    BY <2>1 DEF InHandKnows, Unsent, InFlight
  <2> QED
    BY <1>2, <2>1, <2>2, <2>3
       DEF OrdersInv, Untouched, ExecutedOnce, NothingIsSkipped, VerdictsAreTrue
<1>4. CASE Unclaimed(c)
  <2>1. PICK r : r = [NoRow EXCEPT !.status = "submitted"]
    OBVIOUS
  <2>2. r.status = "submitted" /\ r.hash = FALSE /\ r.intent = FALSE
    BY <2>1 DEF NoRow
  <2>3. /\ receipts' = [receipts EXCEPT ![c] = r] /\ pc' = "resolve"
        /\ receipts[c].status = "none"
        /\ \A n \in Mentions : n # c => delivery'[n] = delivery[n]
    BY <1>1, <1>2, <1>4, <2>1 DEF Claim, Unclaimed, TypeOK
  <2>4. \A n \in Mentions : receipts'[n] = IF n = c THEN r ELSE receipts[n]
    BY <2>3 DEF TypeOK
  <2>5. sends[c] = 0 /\ tx[c] = "none"
    BY <1>2, <2>3 DEF OrdersInv, Untouched
  <2>6. BatchOK'
    BY <1>1, <1>2, <2>2, <2>3, <2>4 DEF OrdersInv, BatchOK, Ordered, InHand
  <2>7. Untouched'
    BY <1>2, <2>2, <2>3, <2>4 DEF OrdersInv, Untouched
  <2>8. InHandKnows'
    <3>1. \A n \in Mentions : n # c => ~Unresolved(n)'
      BY <1>2, <2>4 DEF CanExecute, Unresolved
    <3> QED
      BY <1>2, <2>3, <2>5, <3>1 DEF InHandKnows, Alone, InFlight
  <2>9. ExecutedOnce' /\ NothingIsSkipped'
    BY <1>2, <2>2, <2>4 DEF OrdersInv, ExecutedOnce, NothingIsSkipped
  <2>10. VerdictsAreTrue'
    BY <1>2, <2>2, <2>4 DEF OrdersInv, VerdictsAreTrue, Verdicts
  <2> QED
    BY <2>6, <2>7, <2>8, <2>9, <2>10 DEF OrdersInv
<1> QED
  BY <1>3, <1>4

(* What the poller knows of the mention in hand.                           *)
LEMMA HandFacts ==
  ASSUME TypeOK, OrdersInv, pc \in Handling
  PROVE  current \in Mentions /\ current \notin OwnReplies /\ receipts[current] \in Row
BY DEF OrdersInv, BatchOK, InHand, TypeOK

(* An execution ends with an outcome that is true as far as it goes.       *)
LEMMA ConcludingKeepsOrders ==
  ASSUME TypeOK, OrdersInv, pc \in Unsent \cup InFlight, NEW s \in Statuses, NEW h \in BOOLEAN,
         Concludes(s, h), s # "none", s \in Verdicts => tx[current] = s,
         h => sends[current] > 0
  PROVE  OrdersInv'
<1>1. /\ UNCHANGED <<posted, cursor, began, receipts, todo, batch, current>>
      /\ UNCHANGED <<tx, sends, delivery>>
      /\ pc' = "save" /\ final' = [status |-> s, hash |-> h]
  BY ConcludesTyped DEF Concludes, relayVars, chainVars, deliveryVars
<1>2. BatchOK'
  BY <1>1 DEF OrdersInv, BatchOK, Ordered, InHand, Handling
<1>3. final'.status = s /\ final'.hash = h
  BY <1>1
<1>4. InHandKnows'
  BY <1>1, <1>3 DEF InHandKnows, FinalIsTrue, Unsent, InFlight
<1> QED
  BY <1>1, <1>2, <1>4 DEF OrdersInv, Untouched, ExecutedOnce, NothingIsSkipped, VerdictsAreTrue

LEMMA OutcomesKeepOrders ==
  ASSUME TypeOK, OrdersInv,
         \/ Refuse \/ TimedOut \/ ConnectionLost \/ Mined \/ NotMinedInTime
         \/ Throw \/ NotRecorded
  PROVE  OrdersInv'
<1>0. /\ Verdicts = {"filled", "nothing-filled", "reverted"} /\ Unverified = {"submitted", "unknown"}
      /\ Statuses = {"none", "refused"} \cup Unverified \cup Verdicts
  BY DEF Verdicts, Unverified, Statuses
<1>1. pc \in Unsent \cup InFlight
  BY DEF Refuse, TimedOut, ConnectionLost, Mined, NotMinedInTime, Throw, NotRecorded, Unsent, InFlight
<1>2. pc \in {"mark", "await"} => sends[current] > 0
  BY DEF OrdersInv, InHandKnows, InFlight
<1>3. CASE Refuse \/ ConnectionLost
  <2>1. Concludes("refused", FALSE)
    BY <1>3 DEF Refuse, ConnectionLost
  <2> QED
    BY <1>0, <1>1, <2>1, ConcludingKeepsOrders
<1>4. CASE TimedOut
  <2>1. Concludes("unknown", FALSE)
    BY <1>4 DEF TimedOut
  <2> QED
    BY <1>0, <1>1, <2>1, ConcludingKeepsOrders
<1>5. CASE NotMinedInTime \/ NotRecorded
  <2>1. Concludes("unknown", TRUE) /\ sends[current] > 0
    BY <1>2, <1>5 DEF NotMinedInTime, NotRecorded
  <2> QED
    BY <1>0, <1>1, <2>1, ConcludingKeepsOrders
<1>6. CASE Mined
  <2>1. PICK v \in Verdicts : v = tx[current]
    BY <1>6 DEF Mined
  <2>2. Concludes(v, TRUE) /\ sends[current] > 0
    BY <1>2, <1>6, <2>1 DEF Mined
  <2> QED
    BY <1>0, <1>1, <2>1, <2>2, ConcludingKeepsOrders
<1>7. CASE Throw
  <2>1. current \in Mentions /\ receipts[current] \in Row
    BY <1>1, HandFacts DEF Handling
  <2>2. PICK h \in BOOLEAN : h = receipts[current].hash
    BY <2>1 DEF Row
  <2>3. Concludes("unknown", h) /\ (h => sends[current] > 0)
    BY <1>7, <2>1, <2>2 DEF Throw, OrdersInv, VerdictsAreTrue
  <2> QED
    BY <1>0, <1>1, <2>3, ConcludingKeepsOrders
<1> QED
  BY <1>3, <1>4, <1>5, <1>6, <1>7

(* A checkpoint, the intent and the hash are facts of the row in hand.     *)
LEMMA JournalKeepsOrders ==
  ASSUME TypeOK, OrdersInv, Checkpoint \/ Record \/ MarkSent \/ Answered
  PROVE  OrdersInv'
<1> USE DEF deliveryVars, chainVars, relayVars
<1>1. /\ UNCHANGED <<cursor, began, batch, current, final, tx, sends, delivery>>
      /\ \/ pc \in Unsent /\ pc' \in Unsent /\ ~MarkSent
         \/ pc \in InFlight /\ pc' \in InFlight
  BY DEF Checkpoint, Record, MarkSent, Answered, Unsent, InFlight
<1>2. pc \in Handling /\ pc' \in Handling /\ pc' \notin {"idle", "recover", "save"}
  BY <1>1 DEF Handling, Unsent, InFlight
<1>3. current \in Mentions /\ receipts[current] \in Row
  BY <1>2, HandFacts
<1>4. /\ \A n \in Mentions : n # current => receipts'[n] = receipts[n]
      /\ receipts'[current].status = receipts[current].status
      /\ receipts'[current].hash => receipts[current].hash \/ sends[current] > 0
  <2>1. CASE Checkpoint \/ Record
    <3>1. PICK r \in Row : r = receipts[current]
      BY <1>3
    <3>2. receipts' = [receipts EXCEPT ![current] = [r EXCEPT !.target = TRUE]]
          \/ receipts' = [receipts EXCEPT ![current] = [r EXCEPT !.intent = TRUE]]
      BY <2>1, <3>1 DEF Checkpoint, Record
    <3> QED
      BY <1>3, <3>1, <3>2 DEF TypeOK, Row
  <2>2. CASE MarkSent
    <3>1. PICK r \in Row : r = receipts[current]
      BY <1>3
    <3>2. receipts' = [receipts EXCEPT ![current] = [r EXCEPT !.hash = TRUE]]
      BY <2>2, <3>1 DEF MarkSent
    <3>3. sends[current] > 0
      BY <2>2 DEF MarkSent, OrdersInv, InHandKnows, InFlight
    <3> QED
      BY <1>3, <3>1, <3>2, <3>3 DEF TypeOK, Row
  <2>3. CASE Answered
    BY <2>3 DEF Answered
  <2> QED
    BY <2>1, <2>2, <2>3
<1>5. \A n \in Mentions : receipts'[n].status = receipts[n].status
  BY <1>3, <1>4
<1>6. BatchOK'
  BY <1>1, <1>2, <1>3, <1>5 DEF OrdersInv, BatchOK, Ordered, InHand
<1>7. Untouched'
  BY <1>1, <1>5 DEF OrdersInv, Untouched
<1>8. InHandKnows'
  <2>1. \A n \in Mentions : n # current => (Unresolved(n)' <=> Unresolved(n))
    BY <1>4 DEF Unresolved
  <2> QED
    BY <1>1, <1>2, <2>1 DEF OrdersInv, InHandKnows, Alone, Unsent, InFlight
<1>9. ExecutedOnce' /\ NothingIsSkipped'
  BY <1>1, <1>5 DEF OrdersInv, ExecutedOnce, NothingIsSkipped
<1>10. VerdictsAreTrue'
  BY <1>1, <1>3, <1>4, <1>5 DEF OrdersInv, VerdictsAreTrue
<1> QED
  BY <1>6, <1>7, <1>8, <1>9, <1>10 DEF OrdersInv

(* The one step that sends: for a mention nothing was sent for.            *)
LEMMA BroadcastKeepsOrders ==
  ASSUME TypeOK, OrdersInv, Broadcast
  PROVE  OrdersInv'
<1> USE DEF deliveryVars, relayVars
<1>1. /\ UNCHANGED <<cursor, began, receipts, batch, current, final, delivery>>
      /\ pc = "send" /\ pc' = "answer"
      /\ sends' = [sends EXCEPT ![current] = @ + 1] /\ tx' = [tx EXCEPT ![current] = "sent"]
  BY DEF Broadcast
<1>2. current \in Mentions \ OwnReplies
  BY <1>1, HandFacts DEF Handling, Unsent
<1>3. sends[current] = 0 /\ tx[current] = "none"
  BY <1>1, <1>2 DEF OrdersInv, InHandKnows, Untouched, Unsent
<1>4. \A n \in Mentions : /\ sends'[n] = IF n = current THEN 1 ELSE sends[n]
                          /\ tx'[n] = IF n = current THEN "sent" ELSE tx[n]
  BY <1>1, <1>2, <1>3 DEF TypeOK
<1>5. BatchOK'
  BY <1>1 DEF OrdersInv, BatchOK, Ordered, InHand, Handling, Unsent, InFlight
<1>6. receipts[current].status # "none"
  BY <1>1 DEF OrdersInv, BatchOK, InHand, Handling, Unsent
<1>7. Untouched'
  BY <1>1, <1>4, <1>6 DEF OrdersInv, Untouched
<1>8. InHandKnows'
  BY <1>1, <1>2, <1>4 DEF InHandKnows, Unsent
<1>9. ExecutedOnce' /\ NothingIsSkipped'
  BY <1>1, <1>2, <1>4 DEF OrdersInv, ExecutedOnce, NothingIsSkipped
<1>10. VerdictsAreTrue'
  BY <1>1, <1>3, <1>4 DEF OrdersInv, VerdictsAreTrue, Verdicts
<1> QED
  BY <1>5, <1>7, <1>8, <1>9, <1>10 DEF OrdersInv

(* The receipt that is saved is true, and no verdict is lost.              *)
LEMMA SaveKeepsOrders ==
  ASSUME TypeOK, OrdersInv, Save
  PROVE  OrdersInv'
<1> USE DEF deliveryVars, relayVars, chainVars
<1>1. /\ UNCHANGED <<cursor, began, batch, current, final, tx, sends, delivery>>
      /\ pc = "save" /\ pc' = "cursor"
  BY DEF Save
<1>2. current \in Mentions
  BY <1>1, HandFacts DEF Handling
<1>3. FinalIsTrue
  BY <1>1 DEF OrdersInv, InHandKnows
<1>4. /\ \A n \in Mentions : n # current => receipts'[n] = receipts[n]
      /\ receipts'[current].status \in {receipts[current].status, final.status}
      /\ receipts'[current].hash => receipts[current].hash \/ final.hash
  <2>1. PICK r \in Row : r = receipts[current]
    BY <1>2 DEF TypeOK
  <2>2. PICK s : s = [r EXCEPT !.status = final.status, !.hash = r.hash \/ final.hash]
    OBVIOUS
  <2>3. s.status = final.status /\ (s.hash <=> r.hash \/ final.hash)
    BY <2>2 DEF Row
  <2>4. receipts' = receipts \/ receipts' = [receipts EXCEPT ![current] = s]
    BY <2>1, <2>2 DEF Save
  <2>5. receipts' = receipts \/ \A n \in Mentions : receipts'[n] = IF n = current THEN s ELSE receipts[n]
    BY <2>4 DEF TypeOK
  <2> QED
    BY <1>2, <2>1, <2>3, <2>5
<1>5. receipts[current].status # "none" /\ final.status # "none"
  BY <1>1, <1>3 DEF OrdersInv, BatchOK, InHand, Handling, FinalIsTrue
<1>6. BatchOK'
  BY <1>1, <1>4, <1>5 DEF OrdersInv, BatchOK, Ordered, InHand, Handling
<1>7. Untouched'
  BY <1>1, <1>2, <1>4, <1>5 DEF OrdersInv, Untouched
<1>8. InHandKnows'
  BY <1>1 DEF InHandKnows, Unsent, InFlight
<1>9. ExecutedOnce' /\ NothingIsSkipped'
  BY <1>1, <1>2, <1>4, <1>5 DEF OrdersInv, ExecutedOnce, NothingIsSkipped
<1>10. VerdictsAreTrue'
  BY <1>1, <1>2, <1>3, <1>4 DEF OrdersInv, VerdictsAreTrue, FinalIsTrue
<1> QED
  BY <1>6, <1>7, <1>8, <1>9, <1>10 DEF OrdersInv


-----------------------------------------------------------------------------
(* Replies.                                                                *)

LEMMA InitReplies == Init => RepliesInv
BY DEF Init, RepliesInv, RepliedOnce, LoopsOK, LoopOK, Taken

(* Where no loop moves and no row is touched, nothing is lost.             *)
LEMMA RepliesStay == RepliesInv /\ UNCHANGED deliveryVars => RepliesInv'
BY DEF RepliesInv, RepliedOnce, LoopsOK, LoopOK, Taken, deliveryVars

(* Queueing a reply for a mention nobody claimed.                          *)
LEMMA ClaimKeepsReplies ==
  ASSUME RelayAssumption, TypeOK, OrdersInv, RepliesInv, Claim
  PROVE  RepliesInv'
<1>1. CASE delivery' = delivery
  BY <1>1, RepliesStay DEF Claim, deliveryVars
<1>2. CASE delivery' # delivery
  <2>1. PICK c \in batch : c = Min(batch)
    BY FirstOfBatch DEF Claim, TypeOK
  <2>2. PICK d : d = [state |-> "pending", lease |-> NoWorker]
    OBVIOUS
  <2>3. /\ c \in Mentions /\ receipts[c].status = "none"
        /\ delivery' = [delivery EXCEPT ![c] = d] /\ UNCHANGED <<wpc, job, posts>>
    BY <1>2, <2>1, <2>2 DEF Claim, Unclaimed, TypeOK
  <2>4. delivery[c].state = "none" /\ posts[c] = 0
    BY <2>3 DEF OrdersInv, Untouched, RepliesInv, RepliedOnce
  <2>5. \A n \in Mentions : delivery'[n] = IF n = c THEN d ELSE delivery[n]
    BY <2>3 DEF TypeOK
  <2>6. RepliedOnce'
    BY <2>2, <2>3, <2>4, <2>5 DEF RepliesInv, RepliedOnce
  <2>7. d.lease \notin Workers
    BY <2>2 DEF RelayAssumption
  <2>8. LoopsOK'
    BY <2>3, <2>4, <2>5, <2>7 DEF RepliesInv, LoopsOK, LoopOK, Taken
  <2> QED
    BY <2>6, <2>8 DEF RepliesInv
<1> QED
  BY <1>1, <1>2

\* No other loop minds what w makes of the row.
NobodyElse(w, m, d) ==
  \A u \in Workers : u # w /\ job[u] = m => ~Taken(u) /\ (wpc[u] = "prepare" => d.lease # u)

(* A loop that works on a row whose lease it alone uses.                   *)
LEMMA OneRow ==
  ASSUME TypeOK, RepliesInv, NEW w \in Workers, NEW m \in Mentions, NEW d \in Delivery,
         NEW phase \in WorkerPhases, NEW j \in Mentions \cup {None}, NEW n \in {0, 1},
         delivery' = [delivery EXCEPT ![m] = d], posts' = [posts EXCEPT ![m] = n],
         Goes(w, phase, j), phase = "idle" \/ j = m,
         d.state \in {"none", "pending", "preparing", "failed"} => n = 0,
         d.state = "sent" => n = 1,
         NobodyElse(w, m, d),
         phase = "prepare" => d.state = "preparing",
         phase \in {"post", "acked", "lost"} => d.lease = w /\ d.state \in {"posting", "unknown"},
         phase = "post" => n = 0, phase = "acked" => n = 1
  PROVE  RepliesInv'
<1>1. \A k \in Mentions : /\ delivery'[k] = IF k = m THEN d ELSE delivery[k]
                          /\ posts'[k] = IF k = m THEN n ELSE posts[k]
  BY DEF TypeOK
<1>2. \A u \in Workers : /\ wpc'[u] = IF u = w THEN phase ELSE wpc[u]
                         /\ job'[u] = IF u = w THEN j ELSE job[u]
  BY DEF TypeOK, Goes
<1>3. RepliedOnce'
  BY <1>1 DEF RepliesInv, RepliedOnce
<1>4. ASSUME NEW u \in Workers PROVE LoopOK(u)'
  <2>1. CASE u = w
    BY <1>1, <1>2, <2>1 DEF LoopOK, Taken
  <2>2. CASE u # w
    <3>1. LoopOK(u) /\ wpc'[u] = wpc[u] /\ job'[u] = job[u]
      BY <1>2, <2>2 DEF RepliesInv, LoopsOK
    <3>2. CASE job[u] = m
      BY <1>1, <2>2, <3>1, <3>2 DEF LoopOK, Taken, NobodyElse
    <3>3. CASE job[u] # m
      BY <1>1, <3>1, <3>3 DEF LoopOK, Taken
    <3> QED
      BY <3>2, <3>3
  <2> QED
    BY <2>1, <2>2
<1> QED
  BY <1>3, <1>4 DEF RepliesInv, LoopsOK

(* A loop that leaves the rows alone and gives its mention up.             *)
LEMMA GivesUp ==
  ASSUME TypeOK, RepliesInv, NEW w \in Workers, Goes(w, "idle", None),
         delivery' = delivery, posts' = posts
  PROVE  RepliesInv'
<1>1. \A u \in Workers : /\ wpc'[u] = IF u = w THEN "idle" ELSE wpc[u]
                         /\ job'[u] = IF u = w THEN None ELSE job[u]
  BY DEF TypeOK, Goes
<1>2. \A u \in Workers : LoopOK(u)'
  BY <1>1 DEF RepliesInv, LoopsOK, LoopOK, Taken
<1> QED
  BY <1>2 DEF RepliesInv, RepliedOnce, LoopsOK

(* What a loop knows of the row of its mention.                            *)
LEMMA JobFacts ==
  ASSUME TypeOK, RepliesInv, NEW w \in Workers, wpc[w] # "idle"
  PROVE  /\ job[w] \in Mentions /\ LoopOK(w)
         /\ delivery[job[w]] \in Delivery /\ posts[job[w]] \in {0, 1}
         /\ delivery[job[w]].lease = w =>
              \A u \in Workers : u # w /\ job[u] = job[w] => ~Taken(u)
<1>1. LoopOK(w) /\ job[w] \in Mentions
  BY DEF RepliesInv, LoopsOK, LoopOK
<1>2. delivery[job[w]] \in Delivery /\ posts[job[w]] \in {0, 1}
  <2>1. PICK m \in Mentions : m = job[w]
    BY <1>1
  <2>2. posts[m] \in Nat /\ posts[m] <= 1 /\ delivery[m] \in Delivery
    BY DEF TypeOK, RepliesInv, RepliedOnce
  <2> QED
    BY <2>1, <2>2
<1>3. ASSUME delivery[job[w]].lease = w, NEW u \in Workers, u # w, job[u] = job[w]
      PROVE  ~Taken(u)
  BY <1>3 DEF RepliesInv, LoopsOK, LoopOK
<1> QED
  BY <1>1, <1>2, <1>3

LEMMA AcquireKeepsReplies ==
  ASSUME TypeOK, RepliesInv, NEW w \in Workers, NEW m \in Mentions, Acquire(w, m)
  PROVE  RepliesInv'
<1>1. PICK d \in Delivery : d = [state |-> "preparing", lease |-> w]
  BY DEF Delivery, DeliveryStates
<1>2. delivery[m].state \in {"pending", "preparing"}
  BY DEF Acquire, MayAcquire
<1>3. posts[m] = 0
  BY <1>2 DEF RepliesInv, RepliedOnce
<1>4. NobodyElse(w, m, d)
  BY <1>1, <1>2 DEF RepliesInv, LoopsOK, LoopOK, NobodyElse
<1>5. /\ delivery' = [delivery EXCEPT ![m] = d] /\ Goes(w, "prepare", m)
      /\ posts' = [posts EXCEPT ![m] = 0]
  BY <1>1, <1>3 DEF Acquire, TypeOK
<1>6. d.state = "preparing" /\ "prepare" \in WorkerPhases
  BY <1>1 DEF WorkerPhases
<1> QED
  BY <1>4, <1>5, <1>6, OneRow

LEMMA BeginKeepsReplies ==
  ASSUME TypeOK, RepliesInv, NEW w \in Workers, BeginPost(w)
  PROVE  RepliesInv'
<1>1. CASE ~Holds(w, "preparing")
  BY <1>1, GivesUp DEF BeginPost
<1>2. CASE Holds(w, "preparing")
  <2>1. PICK m \in Mentions : m = job[w]
    BY JobFacts DEF BeginPost
  <2>2. PICK r \in Delivery : r = delivery[m] /\ r.state = "preparing" /\ r.lease = w
    BY <1>2, <2>1 DEF Holds, TypeOK
  <2>3. PICK d \in Delivery : d = [r EXCEPT !.state = "posting"]
    BY DeliveryFields DEF DeliveryStates
  <2>4. d.state = "posting" /\ d.lease = w
    BY <2>2, <2>3 DEF Delivery
  <2>5. posts[m] = 0
    BY <2>2 DEF RepliesInv, RepliedOnce
  <2>6. /\ delivery' = [delivery EXCEPT ![m] = d] /\ Goes(w, "post", m)
        /\ posts' = [posts EXCEPT ![m] = 0]
    BY <1>2, <2>1, <2>2, <2>3, <2>5 DEF BeginPost, TypeOK
  <2>7. NobodyElse(w, m, d)
    BY <2>1, <2>2, <2>4, JobFacts DEF BeginPost, NobodyElse
  <2>8. "post" \in WorkerPhases
    BY DEF WorkerPhases
  <2> QED
    BY <2>4, <2>6, <2>7, <2>8, OneRow
<1> QED
  BY <1>1, <1>2

LEMMA PostKeepsReplies ==
  ASSUME TypeOK, RepliesInv, NEW w \in Workers, NEW public \in BOOLEAN, NEW acked \in BOOLEAN,
         Post(w, public, acked)
  PROVE  RepliesInv'
<1>1. PICK m \in Mentions : m = job[w]
  BY JobFacts DEF Post
<1>2. PICK d \in Delivery : d = delivery[m]
  BY DEF TypeOK
<1>3. d.lease = w /\ d.state \in {"posting", "unknown"} /\ posts[m] = 0
  BY <1>1, <1>2, JobFacts DEF Post, LoopOK, Taken
<1>4. PICK n \in {0, 1} : n = IF public THEN 1 ELSE 0
  OBVIOUS
<1>5. PICK phase \in WorkerPhases : phase = IF acked THEN "acked" ELSE "lost"
  BY DEF WorkerPhases
<1>6. /\ delivery' = [delivery EXCEPT ![m] = d] /\ Goes(w, phase, m)
      /\ posts' = [posts EXCEPT ![m] = n]
  BY <1>1, <1>2, <1>3, <1>4, <1>5 DEF Post, TypeOK
<1>7. phase \in {"acked", "lost"} /\ (phase = "acked" => n = 1)
  BY <1>4, <1>5 DEF Post
<1>8. NobodyElse(w, m, d)
  BY <1>1, <1>2, <1>3, JobFacts DEF Post, NobodyElse
<1> QED
  BY <1>3, <1>6, <1>7, <1>8, OneRow

(* A loop records how its row ended, or finds it is not its row any more.  *)
LEMMA EndKeepsReplies ==
  ASSUME TypeOK, RepliesInv, NEW w \in Workers, wpc[w] # "idle", NEW state \in DeliveryStates,
         Goes(w, "idle", None), posts' = posts,
         \/ delivery' = delivery
         \/ /\ delivery[job[w]].lease = w
            /\ delivery' = [delivery EXCEPT ![job[w]].state = state],
         state \in {"none", "pending", "preparing", "failed"} => posts[job[w]] = 0,
         state = "sent" => posts[job[w]] = 1
  PROVE  RepliesInv'
<1>1. CASE delivery' = delivery
  BY <1>1, GivesUp
<1>2. CASE delivery' # delivery
  <2>1. PICK m \in Mentions : m = job[w]
    BY JobFacts
  <2>2. PICK r \in Delivery : r = delivery[m]
    BY DEF TypeOK
  <2>3. PICK d \in Delivery : d = [r EXCEPT !.state = state]
    BY DeliveryFields
  <2>4. d.state = state /\ d.lease = w
    BY <1>2, <2>1, <2>2, <2>3 DEF Delivery
  <2>5. PICK n \in {0, 1} : n = posts[m]
    BY <2>1, JobFacts
  <2>6. /\ delivery' = [delivery EXCEPT ![m] = d]
        /\ posts' = [posts EXCEPT ![m] = n]
    BY <1>2, <2>1, <2>2, <2>3, <2>5 DEF TypeOK
  <2>7. NobodyElse(w, m, d)
    BY <1>2, <2>1, <2>4, JobFacts DEF NobodyElse
  <2>8. "idle" \in WorkerPhases
    BY DEF WorkerPhases
  <2>9. /\ d.state \in {"none", "pending", "preparing", "failed"} => n = 0
        /\ d.state = "sent" => n = 1
    BY <2>1, <2>4, <2>5
  <2> QED
    BY <2>5, <2>6, <2>7, <2>8, <2>9, OneRow
<1> QED
  BY <1>1, <1>2

LEMMA EndingsKeepReplies ==
  ASSUME TypeOK, RepliesInv, NEW w \in Workers,
         Finish(w) \/ NotAcknowledged(w) \/ PreparationFails(w) \/ WorkerDies(w)
  PROVE  RepliesInv'
<1>1. CASE WorkerDies(w)
  BY <1>1, GivesUp DEF WorkerDies
<1>2. CASE Finish(w)
  <2>1. wpc[w] = "acked" /\ posts[job[w]] = 1
    BY <1>2, JobFacts DEF Finish, LoopOK
  <2>2. /\ Goes(w, "idle", None) /\ posts' = posts
        /\ \/ delivery' = delivery
           \/ /\ delivery[job[w]].lease = w
              /\ delivery' = [delivery EXCEPT ![job[w]].state = "sent"]
    BY <1>2 DEF Finish, Holds
  <2>3. "sent" \in DeliveryStates
    BY DEF DeliveryStates
  <2> QED
    BY <2>1, <2>2, <2>3, EndKeepsReplies
<1>3. CASE NotAcknowledged(w)
  <2>1. /\ Goes(w, "idle", None) /\ posts' = posts /\ wpc[w] # "idle"
        /\ \/ delivery' = delivery
           \/ /\ delivery[job[w]].lease = w
              /\ delivery' = [delivery EXCEPT ![job[w]].state = "unknown"]
    BY <1>3 DEF NotAcknowledged, Stop, Holds
  <2>2. "unknown" \in DeliveryStates
    BY DEF DeliveryStates
  <2> QED
    BY <2>1, <2>2, EndKeepsReplies
<1>4. CASE PreparationFails(w)
  <2>1. /\ Goes(w, "idle", None) /\ posts' = posts /\ wpc[w] = "prepare"
        /\ \/ delivery' = delivery
           \/ /\ delivery[job[w]].lease = w
              /\ delivery' = [delivery EXCEPT ![job[w]].state = "failed"]
    BY <1>4 DEF PreparationFails, Stop, Holds
  <2>2. delivery[job[w]].lease = w => posts[job[w]] = 0
    BY <2>1, JobFacts DEF LoopOK, RepliesInv, RepliedOnce
  <2>3. "failed" \in DeliveryStates
    BY DEF DeliveryStates
  <2>4. CASE delivery' = delivery
    BY <2>1, <2>4, GivesUp
  <2>5. CASE delivery' # delivery
    BY <2>1, <2>2, <2>3, <2>5, EndKeepsReplies
  <2> QED
    BY <2>4, <2>5
<1> QED
  BY <1>1, <1>2, <1>3, <1>4

(* A POST somebody left behind is in doubt, whoever's it was.              *)
LEMMA MarkKeepsReplies ==
  ASSUME TypeOK, RepliesInv, NEW w \in Workers, NEW m \in Mentions, MarkInterrupted(w, m)
  PROVE  RepliesInv'
<1>1. PICK r \in Delivery : r = delivery[m] /\ r.state = "posting"
  BY DEF MarkInterrupted, TypeOK
<1>2. PICK d \in Delivery : d = [r EXCEPT !.state = "unknown"]
  BY DeliveryFields DEF DeliveryStates
<1>3. d.state = "unknown" /\ d.lease = r.lease
  BY <1>1, <1>2 DEF Delivery
<1>4. delivery' = [delivery EXCEPT ![m] = d] /\ UNCHANGED <<wpc, job, posts>>
  BY <1>1, <1>2 DEF MarkInterrupted
<1>5. \A n \in Mentions : delivery'[n] = IF n = m THEN d ELSE delivery[n]
  BY <1>4 DEF TypeOK
<1>6. RepliedOnce'
  BY <1>3, <1>4, <1>5 DEF RepliesInv, RepliedOnce
<1>7. LoopsOK'
  BY <1>1, <1>3, <1>4, <1>5 DEF RepliesInv, LoopsOK, LoopOK, Taken
<1> QED
  BY <1>6, <1>7 DEF RepliesInv

-----------------------------------------------------------------------------
(* The whole relay, step by step.                                          *)

(* The invariant holds at the start.                                       *)
LEMMA InitRelay == RelayAssumption /\ Init => RelayInv
BY InitTyped, InitOrders, InitReplies DEF RelayInv

LEMMA PollerKeeps ==
  ASSUME RelayAssumption, RelayInv, Poller
  PROVE  RelayInv'
<1>1. pc \in Handling => current \in Mentions
  BY HandFacts DEF RelayInv
<1>2. TypeOK'
  BY <1>1, PollerTyped DEF RelayInv
<1>3. CASE Recovery
  <2>1. OrdersInv'
    BY <1>3, RecoveryKeepsOrders DEF RelayInv
  <2>2. UNCHANGED deliveryVars
    BY <1>3 DEF Recovery, StartCycle, Recover
  <2> QED
    BY <1>2, <2>1, <2>2, RepliesStay DEF RelayInv
<1>4. CASE Claim
  BY <1>2, <1>4, ClaimKeepsOrders, ClaimKeepsReplies DEF RelayInv
<1>5. CASE Polling /\ ~Claim
  <2>1. UNCHANGED deliveryVars
    BY <1>5 DEF Polling, Fetch, EndCycle, SkipOwnReply, Pause, Save, SetCursor
  <2>2. CASE Fetch \/ EndCycle \/ Pause
    BY <1>2, <2>1, <2>2, FetchKeepsOrders, RepliesStay DEF RelayInv
  <2>3. CASE SkipOwnReply \/ SetCursor
    BY <1>2, <2>1, <2>3, SkipKeepsOrders, RepliesStay DEF RelayInv
  <2>4. CASE Save
    BY <1>2, <2>1, <2>4, SaveKeepsOrders, RepliesStay DEF RelayInv
  <2> QED
    BY <1>5, <2>2, <2>3, <2>4 DEF Polling
<1>6. CASE Executing
  <2>1. UNCHANGED deliveryVars
    BY <1>6 DEF Executing, Refuse, Checkpoint, Record, Broadcast, Answered, MarkSent, TimedOut,
                ConnectionLost, Mined, NotMinedInTime, Concludes
  <2>2. CASE Refuse \/ TimedOut \/ ConnectionLost \/ Mined \/ NotMinedInTime
    BY <1>2, <2>1, <2>2, OutcomesKeepOrders, RepliesStay DEF RelayInv
  <2>3. CASE Checkpoint \/ Record \/ MarkSent \/ Answered
    BY <1>2, <2>1, <2>3, JournalKeepsOrders, RepliesStay DEF RelayInv
  <2>4. CASE Broadcast
    BY <1>2, <2>1, <2>4, BroadcastKeepsOrders, RepliesStay DEF RelayInv
  <2> QED
    BY <1>6, <2>2, <2>3, <2>4 DEF Executing
<1> QED
  BY <1>3, <1>4, <1>5, <1>6 DEF Poller, Polling

(* A loop changes rows that are queued, so of claimed mentions.            *)
LEMMA RowsInUse ==
  ASSUME TypeOK, RepliesInv, NEW w \in Workers, NEW n \in Mentions, delivery[n].state = "none",
         Deliver(w) \/ PreparationFails(w) \/ WorkerDies(w)
  PROVE  delivery'[n] = delivery[n]
<1>1. ASSUME NEW m \in Mentions, Acquire(w, m) PROVE delivery'[n] = delivery[n]
  <2>1. m # n
    BY <1>1 DEF Acquire, MayAcquire
  <2> QED
    BY <1>1, <2>1 DEF Acquire, TypeOK
<1>2. ASSUME NEW m \in Mentions, MarkInterrupted(w, m) PROVE delivery'[n] = delivery[n]
  <2>1. m # n
    BY <1>2 DEF MarkInterrupted
  <2> QED
    BY <1>2, <2>1 DEF MarkInterrupted, TypeOK
<1>3. ASSUME NEW state, Holds(w, "preparing") \/ Holds(w, "posting"),
             delivery' = [delivery EXCEPT ![job[w]].state = state]
      PROVE  delivery'[n] = delivery[n]
  <2>1. job[w] # n
    BY <1>3 DEF Holds
  <2> QED
    BY <1>3, <2>1 DEF TypeOK
<1>4. CASE BeginPost(w)
  BY <1>3, <1>4 DEF BeginPost
<1>5. ASSUME NEW public, NEW acked, Post(w, public, acked) PROVE delivery'[n] = delivery[n]
  BY <1>5 DEF Post
<1>6. CASE Finish(w)
  BY <1>3, <1>6 DEF Finish
<1>7. CASE NotAcknowledged(w) \/ PreparationFails(w)
  BY <1>3, <1>7 DEF NotAcknowledged, PreparationFails, Stop
<1>8. CASE WorkerDies(w)
  BY <1>8 DEF WorkerDies
<1> QED
  BY <1>1, <1>2, <1>4, <1>5, <1>6, <1>7, <1>8 DEF Deliver

LEMMA LoopsKeep ==
  ASSUME RelayInv, NEW w \in Workers,
         Deliver(w) \/ PreparationFails(w) \/ WorkerDies(w)
  PROVE  OrdersInv' /\ RepliesInv'
<1>1. OrdersInv'
  <2>1. UNCHANGED <<cursor, began, receipts, pollerVars, chainVars>>
    BY DEF Deliver, Acquire, BeginPost, Post, Finish, NotAcknowledged, MarkInterrupted, Stop,
           PreparationFails, WorkerDies, relayVars
  <2>2. \A m \in Mentions : receipts[m].status = "none" => delivery'[m].state = delivery[m].state
    BY RowsInUse DEF RelayInv, OrdersInv, Untouched
  <2> QED
    BY <2>1, <2>2, LoopsKeepOrders DEF RelayInv
<1>2. RepliesInv'
  <2>1. CASE Deliver(w)
    BY <2>1, AcquireKeepsReplies, MarkKeepsReplies, BeginKeepsReplies, PostKeepsReplies,
       EndingsKeepReplies DEF Deliver, RelayInv
  <2>2. CASE PreparationFails(w) \/ WorkerDies(w)
    BY <2>2, EndingsKeepReplies DEF RelayInv
  <2> QED
    BY <2>1, <2>2
<1> QED
  BY <1>1, <1>2

LEMMA FaultsKeep ==
  ASSUME RelayAssumption, RelayInv, Faults
  PROVE  RelayInv'
<1>1. TypeOK'
  BY FaultsTyped, HandFacts DEF RelayInv, RepliesInv
<1>2. CASE Interrupt
  <2>1. OrdersInv'
    BY <1>2, FetchKeepsOrders DEF RelayInv
  <2>2. UNCHANGED deliveryVars
    BY <1>2 DEF Interrupt
  <2> QED
    BY <1>1, <2>1, <2>2, RepliesStay DEF RelayInv
<1>3. CASE Throw \/ NotRecorded
  <2>1. OrdersInv'
    BY <1>3, OutcomesKeepOrders DEF RelayInv
  <2>2. UNCHANGED deliveryVars
    BY <1>3 DEF Throw, NotRecorded, Concludes
  <2> QED
    BY <1>1, <2>1, <2>2, RepliesStay DEF RelayInv
<1>4. ASSUME NEW w \in Workers, PreparationFails(w) \/ WorkerDies(w) PROVE RelayInv'
  BY <1>1, <1>4, LoopsKeep DEF RelayInv
<1> QED
  BY <1>2, <1>3, <1>4 DEF Faults

LEMMA StepKeeps == RelayAssumption /\ RelayInv /\ [Next]_vars => RelayInv'
<1> SUFFICES ASSUME RelayAssumption, RelayInv, [Next]_vars PROVE RelayInv'
  OBVIOUS
<1>1. CASE NewMention
  <2>1. TypeOK'
    BY <1>1 DEF NewMention, RelayInv, TypeOK, RelayAssumption, pollerVars, chainVars, deliveryVars
  <2>2. OrdersInv'
    BY <1>1, LoopsKeepOrders DEF NewMention, RelayInv, deliveryVars
  <2>3. UNCHANGED deliveryVars
    BY <1>1 DEF NewMention
  <2> QED
    BY <2>1, <2>2, <2>3, RepliesStay DEF RelayInv
<1>2. ASSUME NEW m \in Mentions, NEW verdict \in Verdicts, Mine(m, verdict) PROVE RelayInv'
  <2>1. TypeOK'
    BY <1>2 DEF Mine, RelayInv, TypeOK, relayVars, pollerVars, deliveryVars, Chain
  <2>2. OrdersInv'
    BY <1>2, MineKeepsOrders DEF RelayInv
  <2>3. UNCHANGED deliveryVars
    BY <1>2 DEF Mine
  <2> QED
    BY <2>1, <2>2, <2>3, RepliesStay DEF RelayInv
<1>3. CASE Poller
  BY <1>3, PollerKeeps
<1>4. ASSUME NEW w \in Workers, Deliver(w) PROVE RelayInv'
  <2>1. TypeOK'
    BY <1>4, LoopsTyped DEF RelayInv, RepliesInv
  <2> QED
    BY <1>4, <2>1, LoopsKeep DEF RelayInv
<1>5. CASE Faults
  BY <1>5, FaultsKeep
<1>6. CASE UNCHANGED vars
  <2>1. TypeOK'
    BY <1>6 DEF RelayInv, TypeOK, vars, relayVars, pollerVars, chainVars, deliveryVars
  <2>2. OrdersInv'
    BY <1>6, LoopsKeepOrders DEF RelayInv, vars, relayVars, deliveryVars
  <2>3. UNCHANGED deliveryVars
    BY <1>6 DEF vars
  <2> QED
    BY <2>1, <2>2, <2>3, RepliesStay DEF RelayInv
<1> QED
  BY <1>1, <1>2, <1>3, <1>4, <1>5, <1>6 DEF Next

(* A transaction leaves in one step only, and no other mention is then     *)
(* waiting for its hash.                                                   *)
LEMMA SendIsAlone == RelayInv /\ [Next]_vars => SendsOnlyResolved
<1> SUFFICES ASSUME RelayInv, [Next]_vars, NEW m \in Mentions, NEW n \in Mentions,
                    sends'[n] > sends[n], m # n
             PROVE  ~Unresolved(m)
  BY DEF SendsOnlyResolved
<1>1. sends' = sends \/ Broadcast
  <2>1. Recovery \/ Polling \/ NewMention => sends' = sends
    BY DEF Recovery, StartCycle, Recover, Polling, Fetch, EndCycle, SkipOwnReply, Pause, Claim,
           Save, SetCursor, NewMention, chainVars
  <2>2. Executing => sends' = sends \/ Broadcast
    BY DEF Executing, Refuse, Checkpoint, Record, Answered, MarkSent, TimedOut,
           ConnectionLost, Mined, NotMinedInTime, Concludes, chainVars
  <2>3. \A w \in Workers : Deliver(w) => sends' = sends
    BY DEF Deliver, Acquire, BeginPost, Post, Finish, NotAcknowledged, MarkInterrupted, Stop,
           chainVars
  <2>4. Faults => sends' = sends
    BY DEF Faults, Interrupt, Throw, NotRecorded, Concludes, PreparationFails, WorkerDies, Stop,
           chainVars
  <2>5. UNCHANGED vars => sends' = sends
    BY DEF vars, chainVars
  <2>6. \A k \in Mentions, verdict \in Verdicts : Mine(k, verdict) => sends' = sends
    BY DEF Mine
  <2> QED
    BY <2>1, <2>2, <2>3, <2>4, <2>5, <2>6 DEF Next, Poller
<1>2. CASE sends' = sends
  <2>1. sends[n] \in Nat
    BY DEF RelayInv, TypeOK
  <2> QED
    BY <1>2, <2>1
<1>3. CASE Broadcast
  <2>1. pc = "send" /\ sends' = [sends EXCEPT ![current] = @ + 1]
    BY <1>3 DEF Broadcast
  <2>2. n = current
    BY <2>1 DEF RelayInv, TypeOK
  <2>3. Alone
    BY <2>1 DEF RelayInv, OrdersInv, InHandKnows, Unsent
  <2> QED
    BY <2>2, <2>3 DEF Alone
<1> QED
  BY <1>1, <1>2, <1>3

(* The inductive invariant: what every reachable state of the two kinds of  *)
(* loop knows at each of their awaits.                                     *)
THEOREM RelayInvariant == ASSUME RelayAssumption PROVE Spec => []RelayInv
<1>1. Init => RelayInv
  BY InitRelay
<1>2. RelayInv /\ [Next]_vars => RelayInv'
  BY StepKeeps
<1> QED
  BY <1>1, <1>2, PTL DEF Spec

-----------------------------------------------------------------------------
(* Every variable has its type, however the two kinds of loop interleave   *)
(* and wherever they are cut off (`x-relay/`).                             *)
THEOREM TypeCorrect == ASSUME RelayAssumption PROVE Spec => []TypeOK
<1>1. RelayInv => TypeOK
  BY DEF RelayInv
<1> QED
  BY <1>1, RelayInvariant, PTL

(* "An existing mention is never executed again": one transaction at most  *)
(* leaves for a mention, over crashes, lost answers and failed saves, and  *)
(* none for the relay's own replies (`pollMentionCycle`, `xClaimMention`). *)
THEOREM ExecutedAtMostOnce == ASSUME RelayAssumption PROVE Spec => []ExecutedOnce
<1>1. RelayInv => ExecutedOnce
  BY DEF RelayInv, OrdersInv
<1> QED
  BY <1>1, RelayInvariant, PTL

(* The cursor does not pass an instruction without a durable receipt row,  *)
(* wherever the cycle is interrupted (`pollMentionCycle`).                 *)
THEOREM NoneSkipped == ASSUME RelayAssumption PROVE Spec => []NothingIsSkipped
<1>1. RelayInv => NothingIsSkipped
  BY DEF RelayInv, OrdersInv
<1> QED
  BY <1>1, RelayInvariant, PTL

(* A stored verdict is the chain's, of that mention's own transaction, and *)
(* a stored hash belongs to one that was sent (`recoverVaultExecution`,    *)
(* `xReceiptUpsert`).                                                      *)
THEOREM VerdictsTrue == ASSUME RelayAssumption PROVE Spec => []VerdictsAreTrue
<1>1. RelayInv => VerdictsAreTrue
  BY DEF RelayInv, OrdersInv
<1> QED
  BY <1>1, RelayInvariant, PTL

(* While a broadcast of another mention has no known hash, no order leaves *)
(* under the executor, although `canExecute` was asked awaits ago.         *)
THEOREM SendsResolved == ASSUME RelayAssumption PROVE Spec => NoSendWhileUnresolved
<1>1. RelayInv /\ [Next]_vars => [SendsOnlyResolved]_vars
  BY SendIsAlone
<1> QED
  BY <1>1, RelayInvariant, PTL DEF Spec, NoSendWhileUnresolved

(* "It never triggers a second POST": one public reply per mention, over   *)
(* leases that are taken over and loops that die or stall between the POST *)
(* and the record of it (`deliverReplies`).                                *)
THEOREM RepliedAtMostOnce == ASSUME RelayAssumption PROVE Spec => []RepliedOnce
<1>1. RelayInv => RepliedOnce
  BY DEF RelayInv, RepliesInv
<1> QED
  BY <1>1, RelayInvariant, PTL

\* Neither is done twice: not the order a mention asks for, nor the reply to it,
\* whatever the loops' leases, faults and retries.
THEOREM ActedAtMostOnce == ASSUME RelayAssumption PROVE Spec => []ActedOnce
<1>1. RelayInv => ActedOnce
  BY DEF RelayInv, OrdersInv, RepliesInv, ActedOnce
<1> QED
  BY <1>1, RelayInvariant, PTL

-----------------------------------------------------------------------------
(* What is refused was never sent, if only no connection is ever reset.    *)

NothingRefusedLeft ==
  /\ RefusedWasNeverSent
  /\ pc \in Unsent \cup InFlight => receipts[current].status = "submitted"
  /\ pc = "save" /\ final.status = "refused" => tx[current] = "none"

LEMMA OutcomeIsNoRefusal ==
  ASSUME NothingRefusedLeft, NEW s, NEW h, Concludes(s, h), s = "refused" => tx[current] = "none"
  PROVE  NothingRefusedLeft'
<1>1. /\ UNCHANGED <<receipts, current, tx>> /\ pc' = "save" /\ final'.status = s
  BY DEF Concludes, chainVars
<1> QED
  BY <1>1 DEF NothingRefusedLeft, RefusedWasNeverSent, Unsent, InFlight

LEMMA RefusalsConclude ==
  ASSUME "reset" \notin SendErrors, RelayInv, NothingRefusedLeft,
         \/ Refuse \/ TimedOut \/ ConnectionLost \/ Mined \/ NotMinedInTime
         \/ Throw \/ NotRecorded
  PROVE  NothingRefusedLeft'
<1>1. CASE Refuse
  <2>1. Concludes("refused", FALSE) /\ pc \in Unsent
    BY <1>1 DEF Refuse, Unsent
  <2>2. current \in Mentions
    BY <2>1, HandFacts DEF Handling, RelayInv
  <2>3. tx[current] = "none"
    BY <2>1, <2>2 DEF RelayInv, OrdersInv, InHandKnows, Untouched
  <2> QED
    BY <2>1, <2>3, OutcomeIsNoRefusal
<1>2. CASE TimedOut
  <2>1. Concludes("unknown", FALSE)
    BY <1>2 DEF TimedOut
  <2> QED
    BY <2>1, OutcomeIsNoRefusal
<1>3. CASE NotMinedInTime \/ NotRecorded
  <2>1. Concludes("unknown", TRUE)
    BY <1>3 DEF NotMinedInTime, NotRecorded
  <2> QED
    BY <2>1, OutcomeIsNoRefusal
<1>4. CASE Throw
  <2>1. PICK h : h = receipts[current].hash
    OBVIOUS
  <2>2. Concludes("unknown", h)
    BY <1>4, <2>1 DEF Throw
  <2> QED
    BY <2>2, OutcomeIsNoRefusal
<1>5. CASE Mined
  <2>1. PICK s \in Verdicts : s = tx[current]
    BY <1>5 DEF Mined
  <2>2. Concludes(s, TRUE) /\ s # "refused"
    BY <1>5, <2>1 DEF Mined, Verdicts
  <2> QED
    BY <2>2, OutcomeIsNoRefusal
<1>6. ~ConnectionLost
  BY DEF ConnectionLost
<1> QED
  BY <1>1, <1>2, <1>3, <1>4, <1>5, <1>6

LEMMA RefusalsJournal ==
  ASSUME RelayInv, NothingRefusedLeft, Checkpoint \/ Record \/ MarkSent \/ Answered
  PROVE  NothingRefusedLeft'
<1>1. /\ UNCHANGED <<current, tx>> /\ pc \in Unsent \cup InFlight /\ pc' \in Unsent \cup InFlight
  BY DEF Checkpoint, Record, MarkSent, Answered, Unsent, InFlight, chainVars
<1>2. PICK r \in Row : r = receipts[current] /\ current \in Mentions
  BY <1>1, HandFacts DEF Handling, RelayInv
<1>3. \/ receipts' = receipts
      \/ receipts' = [receipts EXCEPT ![current] = [r EXCEPT !.target = TRUE]]
      \/ receipts' = [receipts EXCEPT ![current] = [r EXCEPT !.intent = TRUE]]
      \/ receipts' = [receipts EXCEPT ![current] = [r EXCEPT !.hash = TRUE]]
  BY <1>2 DEF Checkpoint, Record, MarkSent, Answered
<1>4. \A n \in Mentions : receipts'[n].status = receipts[n].status
  BY <1>2, <1>3 DEF RelayInv, TypeOK, Row
<1> QED
  BY <1>1, <1>2, <1>4 DEF NothingRefusedLeft, RefusedWasNeverSent, Unsent, InFlight

LEMMA RefusalsSave ==
  ASSUME RelayInv, NothingRefusedLeft, Save
  PROVE  NothingRefusedLeft'
<1>1. pc = "save" /\ pc' = "cursor" /\ tx' = tx
  BY DEF Save, chainVars
<1>2. PICK r \in Row : r = receipts[current] /\ current \in Mentions
  BY <1>1, HandFacts DEF Handling, RelayInv
<1>3. PICK s : s = [r EXCEPT !.status = final.status, !.hash = r.hash \/ final.hash]
  OBVIOUS
<1>4. s.status = final.status
  BY <1>3 DEF Row
<1>5. receipts' = receipts \/ receipts' = [receipts EXCEPT ![current] = s]
  BY <1>2, <1>3 DEF Save
<1>6. receipts' = receipts \/ \A n \in Mentions : receipts'[n] = IF n = current THEN s ELSE receipts[n]
  BY <1>5 DEF RelayInv, TypeOK
<1> QED
  BY <1>1, <1>4, <1>6 DEF NothingRefusedLeft, RefusedWasNeverSent, Unsent, InFlight

LEMMA RefusalsClaim ==
  ASSUME RelayAssumption, RelayInv, NothingRefusedLeft, Claim
  PROVE  NothingRefusedLeft'
<1>1. PICK c \in Mentions : c = Min(batch)
  BY FirstOfBatch DEF Claim, RelayInv, TypeOK
<1>2. PICK r : r = [NoRow EXCEPT !.status = "submitted"]
  OBVIOUS
<1>3. r.status = "submitted"
  BY <1>2 DEF NoRow
<1>4. /\ tx' = tx /\ current' = c
      /\ \/ receipts' = receipts /\ pc' = "cursor"
         \/ receipts' = [receipts EXCEPT ![c] = r] /\ pc' = "resolve"
  BY <1>1, <1>2 DEF Claim, chainVars
<1>5. \/ receipts' = receipts /\ pc' = "cursor"
      \/ pc' = "resolve" /\ \A n \in Mentions : receipts'[n] = IF n = c THEN r ELSE receipts[n]
  BY <1>4 DEF RelayInv, TypeOK
<1> QED
  BY <1>3, <1>4, <1>5 DEF NothingRefusedLeft, RefusedWasNeverSent, Unsent, InFlight

LEMMA RefusalsRecover ==
  ASSUME RelayInv, NothingRefusedLeft, NEW m \in Mentions, NEW found \in Statuses, Recover(m, found)
  PROVE  NothingRefusedLeft'
<1>1. pc' = "recover" /\ tx' = tx /\ found # "refused"
  BY DEF Recover, Findings, Verdicts, chainVars
<1>2. PICK r \in Row : r = receipts[m]
  BY DEF RelayInv, TypeOK
<1>3. PICK s : s = [r EXCEPT !.status = found, !.hash = r.hash \/ found # "unknown"]
  OBVIOUS
<1>4. s.status = found
  BY <1>3 DEF Row
<1>5. receipts' = [receipts EXCEPT ![m] = s]
  BY <1>2, <1>3 DEF Recover
<1>6. \A n \in Mentions : receipts'[n] = IF n = m THEN s ELSE receipts[n]
  BY <1>5 DEF RelayInv, TypeOK
<1> QED
  BY <1>1, <1>4, <1>6 DEF NothingRefusedLeft, RefusedWasNeverSent, Unsent, InFlight

LEMMA RefusalsStep ==
  ASSUME RelayAssumption, "reset" \notin SendErrors, RelayInv, NothingRefusedLeft, [Next]_vars
  PROVE  NothingRefusedLeft'
<1> USE DEF pollerVars, chainVars
<1>1. CASE Broadcast
  <2>1. /\ pc = "send" /\ pc' = "answer" /\ UNCHANGED <<receipts, current>>
        /\ tx' = [tx EXCEPT ![current] = "sent"]
    BY <1>1 DEF Broadcast
  <2>2. receipts[current].status = "submitted"
    BY <2>1 DEF NothingRefusedLeft, Unsent
  <2>3. \A n \in Mentions : n # current => tx'[n] = tx[n]
    BY <2>1 DEF RelayInv, TypeOK
  <2> QED
    BY <2>1, <2>2, <2>3 DEF NothingRefusedLeft, RefusedWasNeverSent, Unsent, InFlight
<1>2. ASSUME NEW m \in Mentions, NEW verdict \in Verdicts, Mine(m, verdict)
      PROVE  NothingRefusedLeft'
  <2>1. UNCHANGED <<receipts, pc, current, final>>
    BY <1>2 DEF Mine
  <2>2. \A n \in Mentions : tx[n] = "none" => tx'[n] = "none"
    BY <1>2 DEF Mine, RelayInv, TypeOK
  <2>3. pc = "save" => current \in Mentions
    BY HandFacts DEF RelayInv, Handling
  <2> QED
    BY <2>1, <2>2, <2>3 DEF NothingRefusedLeft, RefusedWasNeverSent
<1>3. CASE UNCHANGED <<receipts, pc, current, final, tx>>
  BY <1>3 DEF NothingRefusedLeft, RefusedWasNeverSent
<1>4. CASE /\ UNCHANGED <<receipts, tx>> /\ pc' \notin Unsent \cup InFlight \cup {"save"}
  BY <1>4 DEF NothingRefusedLeft, RefusedWasNeverSent, Unsent, InFlight
<1>5. ASSUME Poller \/ Faults, ~Broadcast PROVE NothingRefusedLeft'
  <2>1. CASE Recovery
    <3>1. ASSUME NEW young, StartCycle(young) PROVE NothingRefusedLeft'
      BY <1>4, <3>1 DEF StartCycle, Unsent, InFlight
    <3> QED
      BY <2>1, <3>1, RefusalsRecover DEF Recovery
  <2>2. CASE Fetch \/ EndCycle \/ SkipOwnReply \/ Pause \/ SetCursor \/ Interrupt
    BY <1>4, <2>2 DEF Fetch, EndCycle, SkipOwnReply, Pause, SetCursor, Interrupt, Idle,
                      Unsent, InFlight
  <2>3. CASE Claim \/ Save
    BY <2>3, RefusalsClaim, RefusalsSave
  <2>4. CASE \/ Refuse \/ TimedOut \/ ConnectionLost \/ Mined \/ NotMinedInTime
             \/ Throw \/ NotRecorded
    BY <2>4, RefusalsConclude
  <2>5. CASE Checkpoint \/ Record \/ MarkSent \/ Answered
    BY <2>5, RefusalsJournal
  <2>6. ASSUME NEW w \in Workers, PreparationFails(w) \/ WorkerDies(w)
        PROVE  NothingRefusedLeft'
    BY <1>3, <2>6 DEF PreparationFails, WorkerDies, Stop
  <2> QED
    BY <1>5, <2>1, <2>2, <2>3, <2>4, <2>5, <2>6 DEF Poller, Polling, Executing, Faults
<1>6. ASSUME NEW w \in Workers, Deliver(w) PROVE NothingRefusedLeft'
  <2>1. UNCHANGED <<receipts, pollerVars, chainVars>>
    BY <1>6 DEF Deliver, Acquire, BeginPost, Post, Finish, NotAcknowledged, MarkInterrupted, Stop
  <2> QED
    BY <1>3, <2>1
<1>7. CASE NewMention \/ UNCHANGED vars
  BY <1>3, <1>7 DEF NewMention, vars
<1> QED
  BY <1>1, <1>2, <1>5, <1>6, <1>7 DEF Next

(* "An uncertain send" is no "permission to retry" (vault/write.ts:265):   *)
(* where no connection is reset after the broadcast, a receipt that says   *)
(* refused is of a mention whose transaction never left.  A reset is the   *)
(* one way to the contrary, which a run shows (`settleVaultFailure`).      *)
THEOREM RefusedIsUnsent ==
  ASSUME RelayAssumption, "reset" \notin SendErrors
  PROVE  Spec => []RefusedWasNeverSent
<1>1. Init => NothingRefusedLeft
  BY DEF Init, NothingRefusedLeft, RefusedWasNeverSent, Unsent, InFlight, NoRow
<1>2. RelayInv /\ NothingRefusedLeft /\ [Next]_vars => NothingRefusedLeft'
  BY RefusalsStep
<1>3. NothingRefusedLeft => RefusedWasNeverSent
  BY DEF NothingRefusedLeft
<1> QED
  BY <1>1, <1>2, <1>3, RelayInvariant, PTL DEF Spec

-----------------------------------------------------------------------------
(* The game room's matchmaker.                                             *)

\* A pairing is a record, kept in a function.
IsPairing(p) == p = [players |-> p.players, seeds |-> p.seeds, age |-> p.age]
Standing ==
  /\ pairings = [m \in DOMAIN pairings |-> pairings[m]]
  /\ \A m \in DOMAIN pairings : IsPairing(pairings[m])
  /\ NobodyIsLockedOut

\* A match is found, then paired, then committed or dissolved, and never paired
\* again: what is held, or being checked, was committed.
Stages ==
  /\ DOMAIN pairings \subseteq matched
  /\ DOMAIN pairings \cap (committed \cup dissolved) = {}
  /\ committed \cup dissolved \subseteq matched
  /\ DOMAIN held \subseteq committed /\ DOMAIN reading \subseteq committed

RoomInv == Standing /\ Stages

LEMMA InitRoom == Pairing!Init => RoomInv
BY DEF Pairing!Init, RoomInv, Standing, Stages, NobodyIsLockedOut, Pairing!NobodyIsLockedOut

LEMMA RoomStutters == RoomInv /\ UNCHANGED Pairing!vars => RoomInv'
BY DEF RoomInv, Standing, Stages, NobodyIsLockedOut, Pairing!NobodyIsLockedOut,
       Pairing!Players, Pairing!vars, Pairing!queueVars, Pairing!pendingVars,
       Pairing!toldVars, Pairing!boundVars

(* Who is not of a pairing that ended keeps the pairing they have.         *)
LEMMA EndKeepsStanding ==
  ASSUME Standing, NEW ms, Pairing!Ended(ms)
  PROVE  Standing' /\ DOMAIN pairings' = DOMAIN pairings \ ms
<1>1. pairings' = [m \in DOMAIN pairings \ ms |-> pairings[m]]
  BY DEF Pairing!Ended, Pairing!Without
<1> DEFINE freed == UNION {Pairing!Players(m) : m \in ms \cap DOMAIN pairings}
<1>2. pairingOf' = [c \in DOMAIN pairingOf \ freed |-> pairingOf[c]]
  BY DEF Pairing!Ended, Pairing!Without
<1>3. ASSUME NEW c \in DOMAIN pairingOf'
      PROVE  pairingOf'[c] \in DOMAIN pairings' /\ c \in pairings'[pairingOf'[c]].players
  <2>1. c \in DOMAIN pairingOf /\ c \notin freed /\ pairingOf'[c] = pairingOf[c]
    BY <1>2, <1>3
  <2>2. pairingOf[c] \in DOMAIN pairings /\ c \in Pairing!Players(pairingOf[c])
    BY <2>1 DEF Standing, NobodyIsLockedOut, Pairing!NobodyIsLockedOut
  <2>3. pairingOf[c] \notin ms
    BY <2>1, <2>2
  <2> QED
    BY <1>1, <2>1, <2>2, <2>3 DEF Pairing!Players
<1> HIDE DEF freed
<1>4. NobodyIsLockedOut'
  BY <1>3 DEF NobodyIsLockedOut, Pairing!NobodyIsLockedOut, Pairing!Players
<1> QED
  BY <1>1, <1>4 DEF Standing, IsPairing

(* Two who are paired have the new pairing, whatever pairing they had.     *)
LEMMA PairKeepsStanding ==
  ASSUME NEW kept, NEW freed, NEW m, NEW two, m \notin kept,
         DOMAIN pairings' = kept \cup (IF two = {} THEN {} ELSE {m}),
         pairings' = [x \in DOMAIN pairings' |-> pairings'[x]],
         \A x \in DOMAIN pairings' : IsPairing(pairings'[x]),
         two # {} => pairings'[m].players = two,
         Pairing!Paired(m, two, freed),
         \A c \in freed : pairingOf[c] \in kept /\ c \in pairings'[pairingOf[c]].players
  PROVE  Standing'
<1>1. pairingOf' = [c \in freed \cup two |-> IF c \in two THEN m ELSE pairingOf[c]]
  BY DEF Pairing!Paired
<1>2. ASSUME NEW c \in DOMAIN pairingOf'
      PROVE  pairingOf'[c] \in DOMAIN pairings' /\ c \in pairings'[pairingOf'[c]].players
  <2>1. CASE c \in two
    BY <1>1, <2>1
  <2>2. CASE c \notin two
    BY <1>1, <1>2, <2>2
  <2> QED
    BY <2>1, <2>2
<1>3. NobodyIsLockedOut'
  BY <1>2 DEF NobodyIsLockedOut, Pairing!NobodyIsLockedOut, Pairing!Players
<1> QED
  BY <1>3 DEF Standing

LEMMA DissolveKeepsRoom ==
  ASSUME RoomInv, NEW ms, Pairing!Dissolve(ms), ms \subseteq DOMAIN pairings,
         UNCHANGED <<held, reading, matched, committed>>
  PROVE  RoomInv'
<1>1. Standing' /\ DOMAIN pairings' = DOMAIN pairings \ ms
  BY EndKeepsStanding DEF Pairing!Dissolve, RoomInv
<1>2. dissolved' = dissolved \cup ms
  BY DEF Pairing!Dissolve
<1> QED
  BY <1>1, <1>2 DEF RoomInv, Stages

LEMMA SameRoom ==
  ASSUME RoomInv, UNCHANGED <<pairings, pairingOf, matched, committed, dissolved>>,
         DOMAIN held' \subseteq committed, DOMAIN reading' \subseteq committed
  PROVE  RoomInv'
BY DEF RoomInv, Standing, Stages, NobodyIsLockedOut, Pairing!NobodyIsLockedOut, Pairing!Players

(* What connections do.                                                    *)
LEMMA JoinKeepsRoom ==
  ASSUME RoomInv, NEW c, Pairing!Join(c) PROVE RoomInv'
BY SameRoom DEF Pairing!Join, Pairing!pendingVars, Pairing!toldVars, RoomInv, Stages

LEMMA RatingKeepsRoom ==
  ASSUME RoomInv, NEW c \in Connections, Pairing!RatingRead(c) PROVE RoomInv'
<1>1. UNCHANGED <<held, reading, committed, dissolved>>
  BY DEF Pairing!RatingRead, Pairing!pendingVars
<1>2. CASE UNCHANGED <<pairings, pairingOf, matched>>
  BY <1>1, <1>2, SameRoom DEF RoomInv, Stages
<1>3. ASSUME NEW d \in Connections, NEW m \in Matches \ matched,
             pairings' = Pairing!With(pairings, m, Pairing!NewPairing({c, d})),
             Pairing!Paired(m, {c, d}, DOMAIN pairingOf)
      PROVE  RoomInv'
  <2>1. m \notin DOMAIN pairings /\ m \notin committed \cup dissolved
    BY <1>3 DEF RoomInv, Stages
  <2>2. /\ DOMAIN pairings' = DOMAIN pairings \cup {m}
        /\ pairings' = [x \in DOMAIN pairings' |-> pairings'[x]]
        /\ pairings'[m] = [players |-> {c, d}, seeds |-> {}, age |-> 0]
        /\ \A x \in DOMAIN pairings : pairings'[x] = pairings[x]
    BY <1>3, <2>1 DEF Pairing!With, Pairing!NewPairing
  <2>3. \A x \in DOMAIN pairings' : IsPairing(pairings'[x])
    BY <2>2 DEF RoomInv, Standing, IsPairing
  <2>4. \A e \in DOMAIN pairingOf :
          pairingOf[e] \in DOMAIN pairings /\ e \in pairings'[pairingOf[e]].players
    BY <2>2 DEF RoomInv, Standing, NobodyIsLockedOut, Pairing!NobodyIsLockedOut, Pairing!Players
  <2>5. Standing'
    <3> DEFINE two == {c, d}
    <3>1. /\ two # {} /\ Pairing!Paired(m, two, DOMAIN pairingOf) /\ pairings'[m].players = two
          /\ DOMAIN pairings' = DOMAIN pairings \cup (IF two = {} THEN {} ELSE {m})
      BY <1>3, <2>2
    <3> HIDE DEF two
    <3> QED
      <4>1. pairings' = [x \in DOMAIN pairings' |-> pairings'[x]]
        BY <2>2
      <4> QED
        BY <2>1, <2>3, <2>4, <3>1, <4>1, PairKeepsStanding
  <2>6. matched' = matched \cup {m}
    BY <1>3 DEF Pairing!Paired
  <2> QED
    BY <1>1, <2>1, <2>2, <2>5, <2>6 DEF RoomInv, Stages
<1> QED
  BY <1>2, <1>3 DEF Pairing!RatingRead

LEMMA LeavingKeepsRoom ==
  ASSUME RoomInv, NEW c, Pairing!Left(c) PROVE RoomInv'
<1>1. UNCHANGED <<held, reading, matched, committed>>
  BY DEF Pairing!Left, Pairing!pendingVars
<1>2. CASE c \in DOMAIN pairingOf
  <2>1. {pairingOf[c]} \subseteq DOMAIN pairings
    BY <1>2 DEF RoomInv, Standing, NobodyIsLockedOut, Pairing!NobodyIsLockedOut
  <2>2. Pairing!Dissolve({pairingOf[c]})
    BY <1>2 DEF Pairing!Left
  <2> QED
    BY <1>1, <2>1, <2>2, DissolveKeepsRoom
<1>3. CASE c \notin DOMAIN pairingOf
  BY <1>1, <1>3, SameRoom DEF Pairing!Left, RoomInv, Stages
<1> QED
  BY <1>2, <1>3

LEMMA SeedKeepsRoom ==
  ASSUME RoomInv, NEW c, NEW honest, Pairing!RevealSeed(c, honest) PROVE RoomInv'
<1>1. UNCHANGED <<held, reading, matched, committed>>
  BY DEF Pairing!RevealSeed, Pairing!pendingVars
<1>0. PICK m : m = pairingOf[c]
  OBVIOUS
<1>2. m \in DOMAIN pairings
  BY <1>0 DEF Pairing!RevealSeed, RoomInv, Standing, NobodyIsLockedOut, Pairing!NobodyIsLockedOut
<1>3. CASE Pairing!Dissolve({m})
  BY <1>1, <1>2, <1>3, DissolveKeepsRoom
<1>4. CASE /\ pairings' = [pairings EXCEPT ![m].seeds = Pairing!Revealed(m, c),
                             ![m].age = IF Pairing!Revealed(m, c) = Pairing!Players(m) THEN 0 ELSE @]
           /\ UNCHANGED <<pairingOf, dissolved>>
  <2>1. PICK p, s, a : pairings[m] = [players |-> p, seeds |-> s, age |-> a]
    <3>1. IsPairing(pairings[m])
      BY <1>2 DEF RoomInv, Standing
    <3> QED
      BY <3>1 DEF IsPairing
  <2>2. PICK r, b : pairings' = [pairings EXCEPT ![m].seeds = r, ![m].age = b]
    BY <1>4
  <2>3. pairings' = [x \in DOMAIN pairings |->
                       IF x = m THEN [players |-> p, seeds |-> r, age |-> b] ELSE pairings[x]]
    <3>1. [[pairings[m] EXCEPT !.seeds = r] EXCEPT !.age = b]
            = [players |-> p, seeds |-> r, age |-> b]
      <4>1. [pairings[m] EXCEPT !.seeds = r] = [players |-> p, seeds |-> r, age |-> a]
        BY <2>1
      <4>2. [[players |-> p, seeds |-> r, age |-> a] EXCEPT !.age = b]
              = [players |-> p, seeds |-> r, age |-> b]
        OBVIOUS
      <4> QED
        BY <4>1, <4>2
    <3>2. pairings = [x \in DOMAIN pairings |-> pairings[x]]
      BY DEF RoomInv, Standing
    <3>3. pairings' = [x \in DOMAIN pairings |->
                         IF x = m THEN [[pairings[m] EXCEPT !.seeds = r] EXCEPT !.age = b]
                                  ELSE pairings[x]]
      BY <1>2, <2>2, <3>2
    <3> QED
      BY <3>1, <3>3
  <2>4. DOMAIN pairings' = DOMAIN pairings
        /\ \A x \in DOMAIN pairings : pairings'[x].players = pairings[x].players
    BY <2>1, <2>3
  <2>5. \A x \in DOMAIN pairings' : IsPairing(pairings'[x])
    BY <2>3 DEF RoomInv, Standing, IsPairing
  <2>6. NobodyIsLockedOut'
    BY <1>4, <2>4 DEF RoomInv, Standing, NobodyIsLockedOut, Pairing!NobodyIsLockedOut, Pairing!Players
  <2>7. pairings' = [x \in DOMAIN pairings' |-> pairings'[x]]
    BY <2>3
  <2>8. Standing'
    BY <2>5, <2>6, <2>7 DEF Standing
  <2> QED
    BY <1>1, <1>4, <2>4, <2>8 DEF RoomInv, Stages
<1> QED
  BY <1>0, <1>3, <1>4 DEF Pairing!RevealSeed

(* Deals and checks.                                                       *)
LEMMA ArenaReadKeepsRoom ==
  ASSUME RoomInv, NEW m, NEW readable, Pairing!ArenaRead(m, readable) PROVE RoomInv'
<1>1. UNCHANGED <<held, reading, matched, committed>>
  BY DEF Pairing!ArenaRead, Pairing!pendingVars
<1>2. CASE m \in DOMAIN pairings /\ Pairing!Dissolve({m})
  BY <1>1, <1>2, DissolveKeepsRoom
<1>3. CASE UNCHANGED <<pairings, pairingOf, dissolved>>
  BY <1>1, <1>3, SameRoom DEF RoomInv, Stages
<1> QED
  BY <1>2, <1>3 DEF Pairing!ArenaRead, Pairing!Gone

\* What a sealed deck is of, and what it leaves.
LEMMA DealtIsStanding ==
  ASSUME NEW m, NEW outcome, Pairing!DeckDealt(m, outcome), committed' # committed
  PROVE  /\ m \in DOMAIN pairings /\ committed' = committed \cup {m}
         /\ Pairing!Ended({m}) /\ held' = Pairing!With(held, m, 0)
         /\ UNCHANGED dissolved
BY DEF Pairing!DeckDealt, Pairing!Gone, Pairing!Sealed

LEMMA DeckKeepsRoom ==
  ASSUME RoomInv, NEW m, NEW outcome, Pairing!DeckDealt(m, outcome) PROVE RoomInv'
<1>1. UNCHANGED <<reading, matched>>
  BY DEF Pairing!DeckDealt
<1>2. CASE /\ m \in DOMAIN pairings /\ committed' = committed \cup {m}
           /\ Pairing!Ended({m}) /\ held' = Pairing!With(held, m, 0)
           /\ UNCHANGED dissolved
  <2>2. Standing' /\ DOMAIN pairings' = DOMAIN pairings \ {m}
    BY <1>2, EndKeepsStanding DEF RoomInv
  <2>3. DOMAIN held' = DOMAIN held \cup {m}
    BY <1>2 DEF Pairing!With
  <2> QED
    BY <1>1, <1>2, <2>2, <2>3 DEF RoomInv, Stages
<1>3. CASE UNCHANGED <<held, committed>> /\ m \in DOMAIN pairings /\ Pairing!Dissolve({m})
  BY <1>1, <1>3, DissolveKeepsRoom
<1>4. CASE UNCHANGED <<pairings, pairingOf, held, committed, dissolved>>
  BY <1>1, <1>4, SameRoom DEF RoomInv, Stages
<1> QED
  BY <1>2, <1>3, <1>4 DEF Pairing!DeckDealt, Pairing!Gone, Pairing!Sealed

LEMMA HeldReadKeepsRoom ==
  ASSUME RoomInv, NEW m, NEW answer, Pairing!HeldRead(m, answer) PROVE RoomInv'
<1>1. UNCHANGED <<pairings, pairingOf, matched, committed>>
  BY DEF Pairing!HeldRead
<1>2. DOMAIN held' \subseteq DOMAIN held /\ DOMAIN reading' \subseteq DOMAIN reading
  BY DEF Pairing!HeldRead, Pairing!Without
<1>3. m \in committed /\ dissolved' \in {dissolved, dissolved \cup {m}}
  BY DEF Pairing!HeldRead, RoomInv, Stages
<1>4. Stages'
  BY <1>1, <1>2, <1>3 DEF RoomInv, Stages
<1> QED
  BY <1>1, <1>4 DEF RoomInv, Standing, NobodyIsLockedOut, Pairing!NobodyIsLockedOut, Pairing!Players

LEMMA ChainKeepsRoom ==
  ASSUME RoomInv, NEW m, Pairing!CreateMatch(m) \/ Pairing!Release(m) PROVE RoomInv'
<1>1. UNCHANGED <<pairings, pairingOf, reading, matched, committed, dissolved>>
  BY DEF Pairing!CreateMatch, Pairing!Release, Pairing!toldVars
<1>2. DOMAIN held' \subseteq DOMAIN held
  BY DEF Pairing!CreateMatch, Pairing!Release, Pairing!Without
<1> QED
  BY <1>1, <1>2, SameRoom DEF RoomInv, Stages

(* The sweeper.                                                            *)
LEMMA TickKeepsRoom ==
  ASSUME RoomInv, Pairing!Tick PROVE RoomInv'
<1> DEFINE late == {m \in DOMAIN pairings : Pairing!Overdue(pairings[m])}
           kept == DOMAIN pairings \ late
           freed == DOMAIN pairingOf \ UNION {Pairing!Players(x) : x \in late}
           older(x) == [pairings[x] EXCEPT !.age =
                          Pairing!Min({@ + 1, SeedWindow + DealWindow})]
           making(two, m) == IF two = {} THEN {} ELSE {m}
<1>1. /\ dissolved' = dissolved \cup late /\ committed' = committed
      /\ DOMAIN held' = DOMAIN held
      /\ DOMAIN reading' = DOMAIN reading \cup (DOMAIN held \ DOMAIN reading)
  BY DEF Pairing!Tick
<1>2. PICK m \in Matches, two \in {{}} \cup Pairing!MayPair :
        /\ making(two, m) \cap matched = {}
        /\ pairings' = [x \in kept \cup making(two, m) |->
                         IF x \in kept THEN older(x) ELSE Pairing!NewPairing(two)]
        /\ Pairing!Paired(m, two, freed)
  BY DEF Pairing!Tick
<1>3. DOMAIN pairings' = kept \cup making(two, m)
      /\ pairings' = [x \in DOMAIN pairings' |-> pairings'[x]]
  BY <1>2
<1>4. kept \subseteq matched
  BY DEF RoomInv, Stages
<1>5. ASSUME NEW x \in kept
      PROVE  IsPairing(pairings'[x]) /\ pairings'[x].players = pairings[x].players
  <2>1. PICK p, s, a : pairings[x] = [players |-> p, seeds |-> s, age |-> a]
    <3>1. IsPairing(pairings[x])
      BY <1>5 DEF RoomInv, Standing
    <3> QED
      BY <3>1 DEF IsPairing
  <2>2. PICK b : older(x) = [pairings[x] EXCEPT !.age = b]
    OBVIOUS
  <2>3. pairings'[x] = [players |-> p, seeds |-> s, age |-> b]
    <3>1. pairings'[x] = older(x)
      BY <1>2, <1>5
    <3> QED
      BY <2>1, <2>2, <3>1
  <2> QED
    BY <2>1, <2>3 DEF IsPairing
<1>6. ASSUME two # {}
      PROVE  m \notin kept /\ pairings'[m] = [players |-> two, seeds |-> {}, age |-> 0]
  BY <1>2, <1>4, <1>6 DEF Pairing!NewPairing
<1>7. \A x \in DOMAIN pairings' : IsPairing(pairings'[x])
  BY <1>3, <1>5, <1>6 DEF IsPairing
<1>8. ASSUME NEW c \in freed
      PROVE  pairingOf[c] \in kept /\ c \in pairings'[pairingOf[c]].players
  <2>1. pairingOf[c] \in DOMAIN pairings /\ c \in Pairing!Players(pairingOf[c])
    BY DEF RoomInv, Standing, NobodyIsLockedOut, Pairing!NobodyIsLockedOut
  <2>2. pairingOf[c] \notin late
    BY <2>1
  <2> QED
    BY <1>5, <2>1, <2>2 DEF Pairing!Players
<1>9. Standing'
  <2>1. CASE two = {}
    <3>1. pairingOf' = [c \in freed |-> pairingOf[c]]
      BY <1>2, <2>1 DEF Pairing!Paired
    <3>2. NobodyIsLockedOut'
      BY <1>3, <1>8, <3>1, <2>1
         DEF NobodyIsLockedOut, Pairing!NobodyIsLockedOut, Pairing!Players
    <3> QED
      BY <1>3, <1>7, <3>2 DEF Standing
  <2>2. CASE two # {}
    <3>1. pairings'[m].players = two /\ m \notin kept
      BY <1>6, <2>2
    <3>2. \A c \in freed : pairingOf[c] \in kept /\ c \in pairings'[pairingOf[c]].players
      BY <1>8
    <3> HIDE DEF kept, freed
    <3> QED
      BY <1>2, <1>3, <1>7, <2>2, <3>1, <3>2, PairKeepsStanding
  <2> QED
    BY <2>1, <2>2
<1>10. matched' = matched \cup making(two, m)
  BY <1>2 DEF Pairing!Paired
<1> QED
  BY <1>1, <1>2, <1>3, <1>4, <1>9, <1>10 DEF RoomInv, Stages

LEMMA RoomStep == RoomInv /\ [Pairing!Next]_(Pairing!vars) => RoomInv'
<1> SUFFICES ASSUME RoomInv, Pairing!Next PROVE RoomInv'
  BY RoomStutters
<1>1. ASSUME NEW c \in Connections, Pairing!Join(c) PROVE RoomInv'
  BY <1>1, JoinKeepsRoom
<1>2. ASSUME NEW c \in Connections, Pairing!RatingRead(c) PROVE RoomInv'
  BY <1>2, RatingKeepsRoom
<1>3. ASSUME NEW c \in Connections, Pairing!Leave(c) \/ Pairing!Close(c) PROVE RoomInv'
  BY <1>3, LeavingKeepsRoom DEF Pairing!Leave, Pairing!Close
<1>4. ASSUME NEW c \in Connections, NEW h \in BOOLEAN, Pairing!RevealSeed(c, h) PROVE RoomInv'
  BY <1>4, SeedKeepsRoom
<1>5. ASSUME NEW m \in Matches, NEW ok \in BOOLEAN, Pairing!ArenaRead(m, ok) PROVE RoomInv'
  BY <1>5, ArenaReadKeepsRoom
<1>6. ASSUME NEW m \in Matches, NEW o, Pairing!DeckDealt(m, o) PROVE RoomInv'
  BY <1>6, DeckKeepsRoom
<1>7. ASSUME NEW m \in Matches, NEW a, Pairing!HeldRead(m, a) PROVE RoomInv'
  BY <1>7, HeldReadKeepsRoom
<1>8. ASSUME NEW m \in Matches, Pairing!CreateMatch(m) \/ Pairing!Release(m) PROVE RoomInv'
  BY <1>8, ChainKeepsRoom
<1>9. ASSUME Pairing!Tick PROVE RoomInv'
  BY <1>9, TickKeepsRoom
<1> QED
  BY <1>1, <1>2, <1>3, <1>4, <1>5, <1>6, <1>7, <1>8, <1>9 DEF Pairing!Next

\* Only a deal commits a deck, and the pairing it is of still stands.
CommitsToStanding == committed' \cap dissolved \subseteq committed

LEMMA DeckStep == RoomInv /\ [Pairing!Next]_(Pairing!vars) => [CommitsToStanding]_(Pairing!vars)
<1> SUFFICES ASSUME RoomInv, Pairing!Next PROVE CommitsToStanding
  OBVIOUS
<1>1. CASE committed' = committed
  BY <1>1 DEF CommitsToStanding
<1>2. CASE committed' # committed
  <2>1. PICK m, o : Pairing!DeckDealt(m, o)
    BY <1>2 DEF Pairing!Next, Pairing!Join, Pairing!RatingRead, Pairing!Leave, Pairing!Close,
                Pairing!Left, Pairing!RevealSeed, Pairing!ArenaRead, Pairing!HeldRead,
                Pairing!CreateMatch, Pairing!Release, Pairing!Tick, Pairing!toldVars
  <2>2. m \in DOMAIN pairings /\ committed' = committed \cup {m}
    BY <1>2, <2>1, DealtIsStanding
  <2> QED
    BY <2>2 DEF RoomInv, Stages, CommitsToStanding
<1> QED
  BY <1>1, <1>2

THEOREM RoomInvariant == Pairing!Spec => []RoomInv
<1> QED
  BY InitRoom, RoomStep, PTL DEF Pairing!Spec

(* Nobody is refused the queue by a pairing that has ended: who is paired  *)
(* is of a pairing that stands, over any connections, wallets and joins    *)
(* that overlap (`pair`, `endPairing`, `dissolve`).                        *)
THEOREM NobodyLockedOut == Pairing!Spec => []NobodyIsLockedOut
<1>1. RoomInv => NobodyIsLockedOut
  BY DEF RoomInv, Standing
<1> QED
  BY <1>1, RoomInvariant, PTL

(* A deck is committed to a pairing that stands, however long its deal was *)
(* in flight (`finishDeal` looks again after each await).                  *)
THEOREM DecksAreForLivePairings == Pairing!Spec => DeckIsForALivePairing
<1>1. RoomInv /\ [Pairing!Next]_(Pairing!vars) => [CommitsToStanding]_(Pairing!vars)
  BY DeckStep
<1>2. [][CommitsToStanding]_(Pairing!vars) => DeckIsForALivePairing
  BY DEF DeckIsForALivePairing, Pairing!DeckIsForALivePairing, CommitsToStanding
<1> QED
  BY <1>1, <1>2, RoomInvariant, PTL DEF Pairing!Spec

=============================================================================
