------------------------------- MODULE XRelay -------------------------------
(***************************************************************************)
(* The X relay: a poller turns mentions of the account into orders under   *)
(* the author's grant, one durable receipt row per mention; a recovery     *)
(* pass reads the chain for rows whose outcome is uncertain; a delivery    *)
(* loop, with its own busy gate, posts one reply per finished receipt.     *)
(*                                                                         *)
(* Each action runs from one `await` to the next.  The process may die, or *)
(* an exception may end a loop's cycle, at any of them; what was sent to   *)
(* the chain or to X cannot be taken back.  There is one poller ("Run one  *)
(* ops machine only"), and Workers delivery loops: a restarted one meets   *)
(* the rows, and the leases, of the one before.                            *)
(***************************************************************************)
EXTENDS Integers, FiniteSetsExt

CONSTANTS
  MaxMention,   \* bound: mentions ever posted; ids grow
  OwnReplies,   \* the mentions that are the relay's own replies
  Workers,      \* delivery loops
  NoWorker,
  SendErrors,   \* how an answer to a broadcast may be lost
  Posting,      \* X_POSTING_ENABLED
  MaxFaults     \* bound: crashes and storage failures

Mentions == 1..MaxMention
NoCursor == -1  \* the cursor row is absent before the first poll
None == 0       \* no mention in hand

RelayAssumption ==
  /\ MaxMention \in Nat /\ MaxFaults \in Nat
  /\ OwnReplies \subseteq Mentions
  /\ NoWorker \notin Workers
  /\ SendErrors \subseteq {"timeout", "reset"}
  /\ Posting \in BOOLEAN

VARIABLES
  posted,     \* the newest mention on X
  cursor,     \* x_relay_state: mentions.since_id
  began,      \* history: where the first poll set the cursor
  receipts,   \* x_receipts: mention |-> row
  delivery,   \* x_reply_delivery: mention |-> state and lease
  pc,         \* the poller: where it is,
  todo,       \*   the rows recovery still has to look at,
  batch,      \*   the fetched mentions still to handle,
  current,    \*   the mention in hand
  final,      \*   and the receipt it is about to save
  tx,         \* the chain: mention |-> what became of its transaction
  sends,      \* history: mention |-> transactions broadcast for it
  wpc, job,   \* the delivery loops: where each is, and its mention
  posts,      \* mention |-> replies that are public
  faults

relayVars == <<posted, cursor, began>>
pollerVars == <<pc, todo, batch, current, final>>
chainVars == <<tx, sends>>
deliveryVars == <<delivery, wpc, job, posts>>
vars == <<relayVars, receipts, pollerVars, chainVars, deliveryVars, faults>>

Verdicts == {"filled", "nothing-filled", "reverted"}
Unverified == {"submitted", "unknown"}
Statuses == {"none", "refused"} \cup Unverified \cup Verdicts

\* hash: the transaction hash is stored; target: the market, the grant and the
\* expected nonce are (second checkpoint); intent: so is the intent to send.
Row == [status: Statuses, hash: BOOLEAN, target: BOOLEAN, intent: BOOLEAN]
NoRow == [status |-> "none", hash |-> FALSE, target |-> FALSE, intent |-> FALSE]
Outcome == [status: Statuses, hash: BOOLEAN]

Phases == {"idle", "recover", "fetch", "next", "resolve", "record", "send",
           "answer", "mark", "await", "save", "cursor"}
WorkerPhases == {"idle", "prepare", "post", "acked", "lost"}
DeliveryStates == {"none", "pending", "preparing", "posting", "sent", "unknown", "failed"}
Delivery == [state: DeliveryStates, lease: Workers \cup {NoWorker}]
Chain == {"none", "sent"} \cup Verdicts

Init ==
  /\ posted = 0
  /\ cursor = NoCursor /\ began = NoCursor
  /\ receipts = [m \in Mentions |-> NoRow]
  /\ delivery = [m \in Mentions |-> [state |-> "none", lease |-> NoWorker]]
  /\ pc = "idle" /\ todo = {} /\ batch = {} /\ current = None
  /\ final = [status |-> "none", hash |-> FALSE]
  /\ tx = [m \in Mentions |-> "none"]
  /\ sends = [m \in Mentions |-> 0]
  /\ wpc = [w \in Workers |-> "idle"] /\ job = [w \in Workers |-> None]
  /\ posts = [m \in Mentions |-> 0]
  /\ faults = 0

-----------------------------------------------------------------------------
(* The outside: people post, transactions are mined.                       *)

NewMention ==
  /\ posted < MaxMention
  /\ posted' = posted + 1
  /\ UNCHANGED <<cursor, began, receipts, pollerVars, chainVars, deliveryVars, faults>>

Mine(m, verdict) ==
  /\ tx[m] = "sent"
  /\ tx' = [tx EXCEPT ![m] = verdict]
  /\ UNCHANGED <<relayVars, receipts, pollerVars, sends, deliveryVars, faults>>

-----------------------------------------------------------------------------
(* Recovery: no signer and no replay, only what the chain says.            *)

Uncertain(m) == receipts[m].hash \/ receipts[m].intent

\* Mutant: claims that never reached the chain are not looked at.
OnlyUncertain(m) == receipts[m].status = "unknown" /\ Uncertain(m)

\* `xRecoveryCandidates`.
Candidate(m) ==
  \/ receipts[m].status = "submitted"
  \/ receipts[m].status = "unknown" /\ Uncertain(m)

\* A row has to be 15 seconds or five minutes old.  The cycles that come too
\* early for some row are counted among the faults.
StartCycle(young) ==
  /\ pc = "idle"
  /\ pc' = "recover"
  /\ young \subseteq {m \in Mentions : Candidate(m)}
  /\ young # {} => faults < MaxFaults
  /\ faults' = IF young = {} THEN faults ELSE faults + 1
  /\ todo' = {m \in Mentions : Candidate(m)} \ young
  /\ UNCHANGED <<relayVars, receipts, batch, current, final, chainVars, deliveryVars>>

\* Mutant: without a hash, any execution under the same grant will do.
AnyExecution(m) == {"unknown"} \cup {v \in Verdicts : \E n \in Mentions : tx[n] = v}

\* `recoverVaultExecution`: with a hash, the receipt of that transaction;
\* without, the one Executed event of the checkpointed nonce, which a reverted
\* transaction does not have.  No answer, or a provider outage, is "unknown".
Findings(m) ==
  LET Found(v) == \/ receipts[m].hash
                  \/ receipts[m].target /\ receipts[m].intent /\ v # "reverted"
  IN {"unknown"} \cup {v \in Verdicts : tx[m] = v /\ Found(v)}

\* `xStoreRecoveredReceipt`: the poller is the only writer of receipts, so the
\* row is still the one it read.
Recover(m, found) ==
  /\ pc = "recover" /\ m \in todo
  /\ found \in Findings(m)
  /\ receipts' = [receipts EXCEPT ![m].status = found,
                                  ![m].hash = @ \/ found # "unknown"]
  /\ todo' = todo \ {m}
  /\ UNCHANGED <<relayVars, pc, batch, current, final, chainVars, deliveryVars, faults>>

-----------------------------------------------------------------------------
(* The poll: `pollMentionCycle`.                                           *)

\* The first poll only sets the cursor: earlier mentions are not instructions.
Fetch ==
  /\ pc = "recover" /\ todo = {}
  /\ IF cursor = NoCursor
     THEN /\ cursor' = posted /\ began' = posted
          /\ pc' = "idle" /\ UNCHANGED batch
     ELSE /\ pc' = "next"
          /\ batch' = {m \in Mentions : cursor < m /\ m <= posted}
          /\ UNCHANGED <<cursor, began>>
  /\ UNCHANGED <<posted, receipts, todo, current, final, chainVars, deliveryVars, faults>>

Idle ==
  /\ pc' = "idle" /\ todo' = {} /\ batch' = {} /\ current' = None
  /\ final' = [status |-> "none", hash |-> FALSE]

EndCycle ==
  /\ pc = "next" /\ batch = {}
  /\ Idle
  /\ UNCHANGED <<relayVars, receipts, chainVars, deliveryVars, faults>>

\* `isRelayReply`; no reply is queued for it, so there is none to suppress.
SkipOwnReply ==
  /\ pc = "next" /\ batch # {} /\ Min(batch) \in OwnReplies
  /\ cursor' = Min(batch)
  /\ batch' = batch \ {Min(batch)}
  /\ UNCHANGED <<posted, began, receipts, pc, todo, current, final, chainVars, deliveryVars, faults>>

\* `xHasUnresolvedBroadcast`: an intent to send that has no hash yet.
Unresolved(m) ==
  /\ receipts[m].status \in Unverified
  /\ ~receipts[m].hash
  /\ receipts[m].intent

\* Mutant: a row that recovery has looked at no longer holds the executor.
UnattendedOnly == \A m \in Mentions : Unresolved(m) => receipts[m].status = "unknown"

CanExecute == \A m \in Mentions : ~Unresolved(m)

Pause ==
  /\ pc = "next" /\ batch # {} /\ Min(batch) \notin OwnReplies
  /\ ~CanExecute
  /\ Idle
  /\ UNCHANGED <<relayVars, receipts, chainVars, deliveryVars, faults>>

\* Mutant: a mention whose receipt is not final is executed again.
Unfinished(m) == receipts[m].status \in {"none", "submitted"}

\* `ON CONFLICT (mention_id) DO NOTHING`.
Unclaimed(m) == receipts[m].status = "none"

\* `xClaimMention`: the receipt and the queued reply in one transaction.
Claim ==
  LET m == Min(batch) IN
  /\ pc = "next" /\ batch # {} /\ m \notin OwnReplies
  /\ CanExecute
  /\ current' = m
  /\ IF Unclaimed(m)
     THEN /\ receipts' = [receipts EXCEPT ![m] = [NoRow EXCEPT !.status = "submitted"]]
          /\ delivery' = IF Posting
                         THEN [delivery EXCEPT ![m] = [state |-> "pending", lease |-> NoWorker]]
                         ELSE delivery
          /\ pc' = "resolve"
     ELSE pc' = "cursor" /\ UNCHANGED <<receipts, delivery>>
  /\ UNCHANGED <<relayVars, todo, batch, final, chainVars, wpc, job, posts, faults>>

-----------------------------------------------------------------------------
(* One execution: `executeMention` and the vault lane of the submitter.    *)

Concludes(status, hash) ==
  /\ pc' = "save"
  /\ final' = [status |-> status, hash |-> hash]
  /\ UNCHANGED <<relayVars, receipts, todo, batch, current, chainVars, deliveryVars>>

\* No link, no grant, no Window, no quote, a closed gate, a failed simulation.
Refuse ==
  /\ pc \in {"resolve", "record", "send"}
  /\ Concludes("refused", FALSE)
  /\ UNCHANGED faults

\* The second checkpoint: the target, the first block and the expected nonce.
Checkpoint ==
  /\ pc = "resolve"
  /\ receipts' = [receipts EXCEPT ![current].target = TRUE]
  /\ pc' = "record"
  /\ UNCHANGED <<relayVars, todo, batch, current, final, chainVars, deliveryVars, faults>>

\* `journal.record`, on the claimed row, before anything is sent.
Record ==
  /\ pc = "record"
  /\ receipts[current].status \in Unverified
  /\ receipts' = [receipts EXCEPT ![current].intent = TRUE]
  /\ pc' = "send"
  /\ UNCHANGED <<relayVars, todo, batch, current, final, chainVars, deliveryVars, faults>>

\* `writeContract`: the transaction has left for the network.
Broadcast ==
  /\ pc = "send"
  /\ sends' = [sends EXCEPT ![current] = @ + 1]
  /\ tx' = [tx EXCEPT ![current] = "sent"]
  /\ pc' = "answer"
  /\ UNCHANGED <<relayVars, receipts, todo, batch, current, final, deliveryVars, faults>>

\* A simulation or a send that timed out, whether or not anything left.
TimedOut ==
  /\ \/ pc = "send"
     \/ pc = "answer" /\ "timeout" \in SendErrors
  /\ Concludes("unknown", FALSE)
  /\ UNCHANGED faults

\* `settleVaultFailure`: an error without a hash that does not read as a
\* timeout is a refusal.
ConnectionLost ==
  /\ pc = "answer" /\ "reset" \in SendErrors
  /\ Concludes("refused", FALSE)
  /\ UNCHANGED faults

Answered ==
  /\ pc = "answer"
  /\ pc' = "mark"
  /\ UNCHANGED <<relayVars, receipts, todo, batch, current, final, chainVars, deliveryVars, faults>>

\* `markSent`: the hash is stored before the receipt is waited for.
MarkSent ==
  /\ pc = "mark"
  /\ receipts[current].status \in Unverified
  /\ receipts' = [receipts EXCEPT ![current].hash = TRUE]
  /\ pc' = "await"
  /\ UNCHANGED <<relayVars, todo, batch, current, final, chainVars, deliveryVars, faults>>

\* A storage failure after the broadcast: uncertain, with the hash at hand.
NotRecorded ==
  /\ pc \in {"mark", "await"}
  /\ faults < MaxFaults
  /\ faults' = faults + 1
  /\ Concludes("unknown", TRUE)

\* `awaitReceipt`: the outcome, or its 90 seconds run out.
Mined ==
  /\ pc = "await"
  /\ tx[current] \in Verdicts
  /\ Concludes(tx[current], TRUE)
  /\ UNCHANGED faults

NotMinedInTime ==
  /\ pc = "await"
  /\ tx[current] = "sent"
  /\ Concludes("unknown", TRUE)
  /\ UNCHANGED faults

\* An exception that leaves `executeMention`: the row as it is, in doubt.
Throw ==
  /\ pc \in {"resolve", "record", "send"}
  /\ faults < MaxFaults
  /\ faults' = faults + 1
  /\ Concludes("unknown", receipts[current].hash)

\* `xReceiptUpsert`: a verdict is never overwritten by a lesser status.
Save ==
  /\ pc = "save"
  /\ receipts' = IF receipts[current].status \in Verdicts /\ final.status \notin Verdicts
                 THEN receipts
                 ELSE [receipts EXCEPT ![current].status = final.status,
                                       ![current].hash = @ \/ final.hash]
  /\ pc' = "cursor"
  /\ UNCHANGED <<relayVars, todo, batch, current, final, chainVars, deliveryVars, faults>>

\* Mutant: the cursor is moved to the end of the batch in one go.
SetCursorToEnd ==
  /\ pc = "cursor"
  /\ cursor' = Max(batch)
  /\ batch' = batch \ {current}
  /\ current' = None
  /\ pc' = "next"
  /\ UNCHANGED <<posted, began, receipts, todo, final, chainVars, deliveryVars, faults>>

SetCursor ==
  /\ pc = "cursor"
  /\ cursor' = current
  /\ batch' = batch \ {current}
  /\ current' = None
  /\ pc' = "next"
  /\ UNCHANGED <<posted, began, receipts, todo, final, chainVars, deliveryVars, faults>>

\* The process dies, or an exception ends the cycle: the rows stay.
Interrupt ==
  /\ pc # "idle"
  /\ faults < MaxFaults
  /\ faults' = faults + 1
  /\ Idle
  /\ UNCHANGED <<relayVars, receipts, chainVars, deliveryVars>>

-----------------------------------------------------------------------------
(* Reply delivery: `deliverReplies`.                                       *)

\* The loop that holds the lease is still at work on the mention.
Attended(m) == \E w \in Workers : delivery[m].lease = w /\ job[w] = m

\* A row is five minutes old when its loop is gone, or when that loop stalls.
Stale(m) ==
  \/ ~Attended(m) /\ faults' = faults
  \/ Attended(m) /\ faults < MaxFaults /\ faults' = faults + 1

Goes(w, phase, m) ==
  /\ wpc' = [wpc EXCEPT ![w] = phase]
  /\ job' = [job EXCEPT ![w] = m]

\* Mutant: a lease is never taken over.
OnlyPending(m) == delivery[m].state = "pending" /\ faults' = faults

\* Mutant: the crash of a POST is read as a preparation that went stale.
MayRetakePost(m) ==
  \/ delivery[m].state = "pending" /\ faults' = faults
  \/ delivery[m].state \in {"preparing", "posting"} /\ Stale(m)

MayAcquire(m) ==
  \/ delivery[m].state = "pending" /\ faults' = faults
  \/ delivery[m].state = "preparing" /\ Stale(m)

\* `xAcquireReplyDelivery`.
Acquire(w, m) ==
  /\ wpc[w] = "idle"
  /\ receipts[m].status \notin {"none", "submitted"}
  /\ MayAcquire(m)
  /\ delivery' = [delivery EXCEPT ![m] = [state |-> "preparing", lease |-> w]]
  /\ Goes(w, "prepare", m)
  /\ UNCHANGED <<relayVars, receipts, pollerVars, chainVars, posts>>

Holds(w, state) == delivery[job[w]] = [state |-> state, lease |-> w]

\* `xBeginReplyPost`, after the card is drawn and uploaded: a loop that lost
\* its lease does not get past it.
BeginPost(w) ==
  /\ wpc[w] = "prepare"
  /\ IF Holds(w, "preparing")
     THEN /\ delivery' = [delivery EXCEPT ![job[w]].state = "posting"]
          /\ Goes(w, "post", job[w])
     ELSE Goes(w, "idle", None) /\ UNCHANGED delivery
  /\ UNCHANGED <<relayVars, receipts, pollerVars, chainVars, posts, faults>>

\* `xStopReplyDelivery`, by the holder of the lease only.
Stop(w, state) ==
  /\ delivery' = IF Holds(w, "preparing") \/ Holds(w, "posting")
                 THEN [delivery EXCEPT ![job[w]].state = state] ELSE delivery
  /\ Goes(w, "idle", None)
  /\ UNCHANGED <<relayVars, receipts, pollerVars, chainVars, posts>>

PreparationFails(w) ==
  /\ wpc[w] = "prepare"
  /\ faults < MaxFaults
  /\ faults' = faults + 1
  /\ Stop(w, "failed")

\* The POST: public or not, and acknowledged in time or not.
Post(w, public, acked) ==
  /\ wpc[w] = "post"
  /\ acked => public
  /\ posts' = [posts EXCEPT ![job[w]] = @ + (IF public THEN 1 ELSE 0)]
  /\ Goes(w, IF acked THEN "acked" ELSE "lost", job[w])
  /\ UNCHANGED <<relayVars, receipts, pollerVars, chainVars, delivery, faults>>

\* `xFinishReplyPost`; if the row moved on it throws, and the stop is a no-op.
Finish(w) ==
  /\ wpc[w] = "acked"
  /\ delivery' = IF Holds(w, "posting")
                 THEN [delivery EXCEPT ![job[w]].state = "sent"] ELSE delivery
  /\ Goes(w, "idle", None)
  /\ UNCHANGED <<relayVars, receipts, pollerVars, chainVars, posts, faults>>

\* Late, or without an id, or with an id that could not be stored.
NotAcknowledged(w) ==
  /\ \/ wpc[w] = "lost" /\ UNCHANGED faults
     \/ wpc[w] = "acked" /\ faults < MaxFaults /\ faults' = faults + 1
  /\ Stop(w, "unknown")

\* `xMarkInterruptedReplyPosts`, at the start of a cycle.
MarkInterrupted(w, m) ==
  /\ wpc[w] = "idle"
  /\ delivery[m].state = "posting"
  /\ Stale(m)
  /\ delivery' = [delivery EXCEPT ![m].state = "unknown"]
  /\ UNCHANGED <<relayVars, receipts, pollerVars, chainVars, wpc, job, posts>>

WorkerDies(w) ==
  /\ wpc[w] # "idle"
  /\ faults < MaxFaults
  /\ faults' = faults + 1
  /\ Goes(w, "idle", None)
  /\ UNCHANGED <<relayVars, receipts, pollerVars, chainVars, delivery, posts>>

-----------------------------------------------------------------------------
Recovery ==
  \/ \E young \in SUBSET Mentions : StartCycle(young)
  \/ \E m \in Mentions, found \in Statuses : Recover(m, found)

Polling == Fetch \/ EndCycle \/ SkipOwnReply \/ Pause \/ Claim \/ Save \/ SetCursor

Executing ==
  \/ Refuse \/ Checkpoint \/ Record \/ Broadcast \/ Answered \/ MarkSent
  \/ TimedOut \/ ConnectionLost \/ Mined \/ NotMinedInTime

Poller == Recovery \/ Polling \/ Executing

Deliver(w) ==
  \/ \E m \in Mentions : Acquire(w, m) \/ MarkInterrupted(w, m)
  \/ BeginPost(w)
  \/ \E public, acked \in BOOLEAN : Post(w, public, acked)
  \/ Finish(w)
  \/ NotAcknowledged(w)

Faults ==
  \/ Interrupt \/ Throw \/ NotRecorded
  \/ \E w \in Workers : PreparationFails(w) \/ WorkerDies(w)

Next ==
  \/ NewMention
  \/ \E m \in Mentions, verdict \in Verdicts : Mine(m, verdict)
  \/ Poller
  \/ \E w \in Workers : Deliver(w)
  \/ Faults

Spec == Init /\ [][Next]_vars

\* The loops run on timers for as long as the machine does, and every remote
\* call they make has a deadline.  Nobody has to post, nothing has to be mined.
FairSpec ==
  /\ Spec
  /\ WF_vars(Poller)
  /\ \A w \in Workers : WF_vars(Deliver(w))

-----------------------------------------------------------------------------
(* Properties.                                                             *)

TypeOK ==
  /\ posted \in 0..MaxMention
  /\ cursor \in NoCursor..MaxMention /\ began \in NoCursor..MaxMention
  /\ receipts \in [Mentions -> Row]
  /\ delivery \in [Mentions -> Delivery]
  /\ pc \in Phases
  /\ todo \subseteq Mentions /\ batch \subseteq Mentions
  /\ current \in Mentions \cup {None}
  /\ final \in Outcome
  /\ tx \in [Mentions -> Chain]
  /\ sends \in [Mentions -> Nat]
  /\ wpc \in [Workers -> WorkerPhases]
  /\ job \in [Workers -> Mentions \cup {None}]
  /\ posts \in [Mentions -> Nat]
  /\ faults \in 0..MaxFaults

\* "An existing mention is never executed again" (x-relay/README.md): at most
\* one transaction is ever broadcast for a mention, across crashes, lost
\* answers and failed saves, and none for the relay's own replies.
ExecutedOnce ==
  \A m \in Mentions : sends[m] <= (IF m \in OwnReplies THEN 0 ELSE 1)

\* The cursor never passes an instruction that has no receipt: what a crash
\* interrupts is either seen again or already a durable row (`pollMentionCycle`).
NothingIsSkipped ==
  \A m \in Mentions \ OwnReplies :
    began < m /\ m <= cursor => receipts[m].status # "none"

\* A stored verdict is what the chain says of that mention's transaction, and
\* a stored hash belongs to a transaction that was sent.
VerdictsAreTrue ==
  \A m \in Mentions :
    /\ receipts[m].status \in Verdicts => tx[m] = receipts[m].status
    /\ receipts[m].hash => sends[m] > 0

\* While one broadcast has no known hash, no other mention's order leaves: the
\* executor's nonce is not used again (`canExecute`, asked long before the send).
SendsOnlyResolved ==
  \A m, n \in Mentions : sends'[n] > sends[n] /\ m # n => ~Unresolved(m)

NoSendWhileUnresolved == [][SendsOnlyResolved]_vars

\* "It never triggers a second POST" (x-relay/README.md): a mention gets at
\* most one public reply, and a delivery that may still be taken, or that an
\* operator may re-queue as failed, has none yet.
RepliedOnce ==
  \A m \in Mentions :
    /\ posts[m] <= 1
    /\ delivery[m].state \in {"none", "pending", "preparing", "failed"} => posts[m] = 0
    /\ delivery[m].state = "sent" => posts[m] = 1

\* An instruction is executed, and a reply posted, at most once.
ActedOnce == ExecutedOnce /\ RepliedOnce

\* "An uncertain send" is no "permission to retry" (vault/write.ts:265), and a
\* lost broadcast response pauses the executor (poll-cycle.ts:31): what is
\* reported as refused never left for the network.
RefusedWasNeverSent ==
  \A m \in Mentions : receipts[m].status = "refused" => tx[m] = "none"

\* Every instruction is answered by a receipt with an outcome, unless an
\* unresolved broadcast holds the executor.
Instructed(m) == cursor # NoCursor /\ cursor < m /\ m <= posted
Receipted(m) == receipts[m].status \notin {"none", "submitted"} \/ ~CanExecute

EveryInstructionEnds ==
  \A m \in Mentions \ OwnReplies : Instructed(m) ~> Receipted(m)

\* Every queued reply is sent, or waits for an operator.
ReplyQueued(m) == delivery[m].state = "pending"
ReplyEnded(m) == delivery[m].state \in {"sent", "unknown", "failed"}

EveryReplyEnds == \A m \in Mentions : ReplyQueued(m) ~> ReplyEnded(m)

=============================================================================
