--------------------------- MODULE StrategyRunner ---------------------------
(***************************************************************************)
(* The house strategy runner: one key, a tick that never overlaps itself,  *)
(* and at most one order per (strategy, Window, subscriber).  A row of     *)
(* strategy_attempts is reserved before anything is sent and survives the  *)
(* process; uncertain rows are settled from the chain, never sent again.   *)
(* The actions run from one `await` to the next, and the process may die   *)
(* at any of them.                                                         *)
(***************************************************************************)
EXTENDS Integers, FiniteSets

CONSTANTS
  Strategies,
  Agents,       \* the strategies whose calls a language model makes
  Owners, Markets,
  GrantOf,      \* the grant a subscription names: strategies may share one
  OwnerSides,   \* bound: the sides owners trade for themselves
  Processes,    \* runners started with this key
  SendErrors,   \* how the answer to a send may be lost
  MaxFaults     \* bound: crashes and storage failures

Nobody == "nobody"
Own == "owner"
Sides == {"up", "down"}

RunnerAssumption ==
  /\ IsFiniteSet(Strategies) /\ {Nobody, Own} \cap Strategies = {}
  /\ Agents \subseteq Strategies /\ OwnerSides \subseteq Sides
  /\ DOMAIN GrantOf = Strategies \X Owners
  /\ SendErrors \subseteq {"timeout", "reset"}
  /\ MaxFaults \in Nat

VARIABLES
  attempts,     \* strategy_attempts: key |-> row
  decisions,    \* strategy_decisions: strategy and market |-> row
  proc,         \* what each process has in memory
  tx, nonceOf,  \* the chain: what became of each key's transaction, its nonce,
  count,        \*   and the transactions of the runner's key so far
  held,         \* the vault: owner and market |-> side |-> who holds
  closed,       \*   the tallies that are settled
  resolved,     \* the Windows the venue has resolved
  sends, reads, \* history: transactions broadcast, model calls
  faults

storeVars == <<attempts, decisions>>
txVars == <<tx, nonceOf, count, sends>>
vaultVars == <<held, closed, resolved>>
vars == <<storeVars, proc, txVars, vaultVars, reads, faults>>

Keys == [kind: {"order", "settle"}, strategy: Strategies, owner: Owners, market: Markets]
OrderKeys == {k \in Keys : k.kind = "order"}
KeyOf(kind, s, o, m) == [kind |-> kind, strategy |-> s, owner |-> o, market |-> m]
Account(k) == <<k.owner, k.market>>

NoRow == [state |-> "none", hash |-> FALSE, nonce |-> 0, side |-> "up"]
Uncertain == {"attempting", "unknown"}
Landed == {"filled", "nothing-filled", "reverted"}

Empty == [opener |-> Nobody, from |-> {}]
Flat == [side \in Sides |-> Empty]
Holds(a) == {side \in Sides : held[a][side] # Empty}

Idle ==
  [pc |-> "idle", queue |-> {}, todo |-> {}, unresolved |-> {}, strategy |-> Nobody,
   accounts |-> {}, windows |-> {}, picks |-> {},
   asked |-> Nobody, job |-> [key |-> Nobody, side |-> "up", nonce |-> 0],
   fin |-> [state |-> "none", hash |-> FALSE], interrupted |-> {}]

Init ==
  /\ attempts = [k \in Keys |-> NoRow]
  /\ decisions = [d \in Strategies \X Markets |-> [gate |-> "none", side |-> "up"]]
  /\ proc = [p \in Processes |-> [Idle EXCEPT !.pc = "down"]]
  /\ tx = [k \in Keys |-> "none"] /\ nonceOf = [k \in Keys |-> 0] /\ count = 0
  /\ held = [a \in Owners \X Markets |-> Flat] /\ closed = {} /\ resolved = {}
  /\ sends = [k \in Keys |-> 0] /\ reads = [d \in Strategies \X Markets |-> 0]
  /\ faults = 0

At(p, pc) == proc[p].pc = pc
Fault == faults < MaxFaults /\ faults' = faults + 1

-----------------------------------------------------------------------------
(* The chain and the owners.                                               *)

\* What a transaction can come to: a Window that is resolved fills nothing, and
\* `crankSettle` reverts when there is nothing to settle.
Verdicts(k) ==
  {"reverted"} \cup
  IF k.kind = "order"
  THEN IF k.market \in resolved THEN {} ELSE {"filled", "nothing-filled"}
  ELSE IF k.market \in resolved /\ Holds(Account(k)) # {} THEN {"settled"} ELSE {}

\* In the order of the nonces.
Mine(k, verdict) ==
  LET a == Account(k)
      side == attempts[k].side
  IN
  /\ tx[k] = "pending" /\ verdict \in Verdicts(k)
  /\ \A j \in Keys : tx[j] = "pending" => nonceOf[k] <= nonceOf[j]
  /\ tx' = [tx EXCEPT ![k] = verdict]
  /\ held' =
       CASE verdict = "filled" ->
              [held EXCEPT ![a][side] = [opener |-> IF @ = Empty THEN k.strategy ELSE @.opener,
                                         from |-> @.from \cup {k.strategy}]]
         [] verdict = "settled" -> [held EXCEPT ![a] = Flat]
         [] OTHER -> held
  /\ closed' = IF verdict = "settled" THEN closed \cup {a} ELSE closed
  /\ UNCHANGED <<storeVars, proc, nonceOf, count, sends, resolved, reads, faults>>

OwnerTrades(a, side) ==
  /\ a[2] \notin resolved
  /\ held' = [held EXCEPT ![a][side] =
       IF @ = Empty THEN [opener |-> Own, from |-> {}] ELSE Empty]
  /\ UNCHANGED <<storeVars, proc, txVars, closed, resolved, reads, faults>>

OwnerSettles(a) ==
  /\ a[2] \in resolved /\ Holds(a) # {}
  /\ held' = [held EXCEPT ![a] = Flat] /\ closed' = closed \cup {a}
  /\ UNCHANGED <<storeVars, proc, txVars, resolved, reads, faults>>

Resolve(m) ==
  /\ m \notin resolved /\ resolved' = resolved \cup {m}
  /\ UNCHANGED <<storeVars, proc, txVars, held, closed, reads, faults>>

-----------------------------------------------------------------------------
(* The tick, and what it recovers first.                                   *)

Boot(p) ==
  /\ At(p, "down")
  /\ proc' = [proc EXCEPT ![p] =
       [Idle EXCEPT !.interrupted = {d \in DOMAIN decisions : decisions[d].gate = "pending"}]]
  /\ UNCHANGED <<storeVars, txVars, vaultVars, reads, faults>>

Crash(p) ==
  /\ ~At(p, "down") /\ Fault
  /\ proc' = [proc EXCEPT ![p] = [Idle EXCEPT !.pc = "down"]]
  /\ UNCHANGED <<storeVars, txVars, vaultVars, reads>>

\* `listUnresolvedStrategyAttempts`.
Unresolved == {k \in Keys : attempts[k].state \in Uncertain}

Listed == {[key |-> k, hash |-> attempts[k].hash, nonce |-> attempts[k].nonce] : k \in Unresolved}

\* The first tick holds the Windows whose model call this key's process left.
Tick(p) ==
  /\ At(p, "idle")
  /\ decisions' = [d \in DOMAIN decisions |->
       IF d \in proc[p].interrupted /\ decisions[d].gate = "pending"
       THEN [decisions[d] EXCEPT !.gate = "failed"] ELSE decisions[d]]
  /\ proc' = [proc EXCEPT ![p] = [Idle EXCEPT !.pc = "list", !.queue = Strategies]]
  /\ UNCHANGED <<attempts, txVars, vaultVars, reads, faults>>

\* If the list cannot be read, the tick is over.
List(p) ==
  /\ At(p, "list")
  /\ \/ proc' = [proc EXCEPT ![p].pc = "reconcile", ![p].todo = Listed] /\ UNCHANGED faults
     \/ proc' = [proc EXCEPT ![p] = Idle] /\ Fault
  /\ UNCHANGED <<storeVars, txVars, vaultVars, reads>>

Same(k, j) ==
  k.owner = j.owner /\ k.market = j.market /\ attempts[k].side = attempts[j].side
  /\ GrantOf[<<k.strategy, k.owner>>] = GrantOf[<<j.strategy, j.owner>>]

NonceAfter(row, j) == Same(row.key, j) /\ nonceOf[j] = row.nonce + 1  \* mutant
\* Without a hash: the Executed event of the owner, Window, side and grant whose
\* transaction has the checkpointed nonce.
Evidence(row, j) == Same(row.key, j) /\ nonceOf[j] = row.nonce

\* What the chain answers for a listed row; "unreadable" when it does not.  For a
\* settlement the holdings are read first: unreadable ones leave it to the receipt.
Findings(row) ==
  LET k == row.key IN
  {"unreadable", "unknown"} \cup
  IF k.kind = "settle"
  THEN {v \in {"settled"} : Holds(Account(k)) = {}}
       \cup {v \in {"reverted"} : row.hash /\ tx[k] = v}
  ELSE {v \in Landed : \/ row.hash /\ tx[k] = v
                       \/ /\ ~row.hash /\ v # "reverted"
                          /\ \E j \in OrderKeys : tx[j] = v /\ Evidence(row, j)}

\* `finishStrategyAttempt`: never over a fill or a settlement.
Finished(r, state, hash) ==
  IF r.state \in {"filled", "settled"} THEN r
  ELSE [r EXCEPT !.state = state, !.hash = @ \/ hash]

\* `recordAttemptFill` writes the fill and the attempt together.
Recorded(r, state, hash) ==
  IF state = "filled" THEN [r EXCEPT !.state = "filled", !.hash = TRUE]
  ELSE Finished(r, state, hash)

Reconcile(p, row, found) ==
  /\ At(p, "reconcile") /\ row \in proc[p].todo /\ found \in Findings(row)
  /\ attempts' = IF found = "unreadable" THEN attempts
                 ELSE [attempts EXCEPT ![row.key] = Recorded(@, found, found \in Landed)]
  /\ proc' = [proc EXCEPT ![p].todo = @ \ {row},
                          ![p].unresolved = IF found \in {"unknown", "unreadable"}
                                            THEN @ \cup {row.key.strategy} ELSE @]
  /\ UNCHANGED <<decisions, txVars, vaultVars, reads, faults>>

Reconciled(p) ==
  /\ At(p, "reconcile") /\ proc[p].todo = {}
  /\ proc' = [proc EXCEPT ![p].pc = "next"]
  /\ UNCHANGED <<storeVars, txVars, vaultVars, reads, faults>>

\* One unresolved attempt holds every strategy of the key.
EndTick(p) ==
  /\ At(p, "next") /\ (proc[p].queue = {} \/ proc[p].unresolved # {})
  /\ proc' = [proc EXCEPT ![p] = Idle]
  /\ UNCHANGED <<storeVars, txVars, vaultVars, reads, faults>>

StartCycle(p, s) ==
  /\ At(p, "next") /\ proc[p].unresolved = {} /\ s \in proc[p].queue
  /\ proc' = [proc EXCEPT ![p] = [Idle EXCEPT !.pc = "settle", !.strategy = s,
                !.queue = proc[p].queue \ {s}, !.accounts = Owners \X Markets]]
  /\ UNCHANGED <<storeVars, txVars, vaultVars, reads, faults>>

\* The cycle of a strategy is over.
After(r) == [Idle EXCEPT !.pc = "next", !.queue = r.queue]
\* An exception ends it too, but the reservations are read again.
Thrown(r) == [Idle EXCEPT !.pc = "list", !.queue = r.queue]

Throw(p) == proc' = [proc EXCEPT ![p] = Thrown(@)]

-----------------------------------------------------------------------------
(* Settling what the strategies opened: `settleStrategyPositions`.         *)

\* The recorded fills of the grant that opened a side of the position.
Matching(a, side) ==
  LET opener == held[a][side].opener IN
  {k \in OrderKeys : /\ attempts[k].state = "filled" /\ attempts[k].side = side
                     /\ Account(k) = a /\ opener # Own
                     /\ GrantOf[<<k.strategy, k.owner>>] = GrantOf[<<opener, k.owner>>]}

\* Mutant: the origin of one of the sides will do.
OriginOfASide(a) == {k.strategy : k \in UNION {Matching(a, side) : side \in Holds(a)}}
\* Every held side has recorded fills, all of one strategy: else no one.
Origins(a) ==
  IF \E side \in Holds(a) : Matching(a, side) = {} THEN {}
  ELSE {k.strategy : k \in UNION {Matching(a, side) : side \in Holds(a)}}

Due(a) ==
  /\ a \notin closed /\ a[2] \in resolved
  /\ \E side \in Holds(a) : held[a][side].opener # Own

Reserving(r, key, side) ==
  [r EXCEPT !.pc = "reserve", !.job = [key |-> key, side |-> side, nonce |-> count]]

\* Whatever cannot be read or attributed, or was tried before, is an exception.
SettleRead(p, a) ==
  /\ At(p, "settle") /\ a \in proc[p].accounts
  /\ \/ ~Due(a) /\ proc' = [proc EXCEPT ![p].accounts = @ \ {a}]
     \/ Throw(p)
     \/ /\ Due(a) /\ Cardinality(Origins(a)) = 1
        /\ \E s \in Origins(a) :
             LET key == KeyOf("settle", s, a[1], a[2]) IN
             /\ attempts[key].state = "none"
             /\ proc' = [proc EXCEPT ![p] = Reserving(@, key, "up")]
  /\ UNCHANGED <<storeVars, txVars, vaultVars, reads, faults>>

\* Inactive strategies and Windows that do not trade are not scanned.
Settled(p, windows) ==
  /\ At(p, "settle") /\ proc[p].accounts = {}
  /\ windows \subseteq Markets \ resolved
  /\ proc' = [proc EXCEPT ![p].pc = "scan", ![p].windows = windows]
  /\ UNCHANGED <<storeVars, txVars, vaultVars, reads, faults>>

-----------------------------------------------------------------------------
(* The scan: which Windows to trade, on which side.                        *)

Picked(r, m, side) ==
  [r EXCEPT !.pc = "scan", !.windows = @ \ {m}, !.asked = Nobody,
            !.picks = IF side \in Sides THEN @ \cup {<<o, m, side>> : o \in Owners} ELSE @]

\* The oracle-follow model, or a Window the agent cannot or may not read now.
Follow(p, m, side) ==
  /\ At(p, "scan") /\ m \in proc[p].windows
  /\ side \in Sides => proc[p].strategy \notin Agents
  /\ proc' = [proc EXCEPT ![p] = Picked(@, m, side)]
  /\ UNCHANGED <<storeVars, txVars, vaultVars, reads, faults>>

\* A recorded verdict to trade resumes, if the gate still agrees.
Recall(p, m) ==
  LET d == decisions[<<proc[p].strategy, m>>] IN
  /\ At(p, "scan") /\ m \in proc[p].windows /\ proc[p].strategy \in Agents
  /\ d.gate = "trade"
  /\ proc' = [proc EXCEPT ![p] = Picked(@, m, d.side)]
  /\ UNCHANGED <<storeVars, txVars, vaultVars, reads, faults>>

\* `beginStrategyDecision` inserts: any row keeps the Window from a second call.
Unread(d) == decisions[d].gate = "none"

AskModel(p, m) ==
  LET d == <<proc[p].strategy, m>> IN
  /\ At(p, "scan") /\ m \in proc[p].windows /\ proc[p].strategy \in Agents
  /\ Unread(d)
  /\ decisions' = [decisions EXCEPT ![d].gate = "pending"]
  /\ reads' = [reads EXCEPT ![d] = @ + 1]
  /\ proc' = [proc EXCEPT ![p].pc = "model", ![p].asked = m]
  /\ UNCHANGED <<attempts, txVars, vaultVars, faults>>

\* Only a stored verdict is acted on.
ModelAnswers(p, call) ==
  LET m == proc[p].asked
      d == <<proc[p].strategy, m>>
  IN
  /\ At(p, "model")
  /\ \/ /\ decisions[d].gate = "pending"
        /\ decisions' = [decisions EXCEPT ![d] =
             [gate |-> IF call \in Sides THEN "trade" ELSE call,
              side |-> IF call \in Sides THEN call ELSE @.side]]
        /\ proc' = [proc EXCEPT ![p] = Picked(@, m, call)]
        /\ UNCHANGED faults
     \/ decisions[d].gate # "pending" /\ Throw(p) /\ UNCHANGED <<decisions, faults>>
     \/ Throw(p) /\ Fault /\ UNCHANGED decisions
  /\ UNCHANGED <<attempts, txVars, vaultVars, reads>>

Scanned(p) ==
  /\ At(p, "scan") /\ proc[p].windows = {}
  /\ proc' = [proc EXCEPT ![p].pc = "execute"]
  /\ UNCHANGED <<storeVars, txVars, vaultVars, reads, faults>>

-----------------------------------------------------------------------------
(* One subscriber, one Window: `executeForSubscriber`, and the settlement. *)

\* An unknown attempt ends the cycle and holds the strategies after it.
Left(r) == [After(r) EXCEPT !.unresolved = {r.strategy}]

OrderRead(p, o, m, side) ==
  LET key == KeyOf("order", proc[p].strategy, o, m) IN
  /\ At(p, "execute") /\ <<o, m, side>> \in proc[p].picks
  /\ \/ attempts[key].state \in Uncertain /\ proc' = [proc EXCEPT ![p] = Left(@)]
     \/ Throw(p)  \* a read of the store or the chain fails
     \* Tried before, already in the Window, or the grant, the quote or a read says no.
     \/ /\ attempts[key].state \notin Uncertain
        /\ proc' = [proc EXCEPT ![p].picks = @ \ {<<o, m, side>>}]
     \/ /\ attempts[key].state = "none" /\ Holds(<<o, m>>) = {}
        /\ proc' = [proc EXCEPT ![p] = Reserving(@, key, side)]
  /\ UNCHANGED <<storeVars, txVars, vaultVars, reads, faults>>

Executed(p) ==
  /\ At(p, "execute") /\ proc[p].picks = {}
  /\ proc' = [proc EXCEPT ![p] = After(@)]
  /\ UNCHANGED <<storeVars, txVars, vaultVars, reads, faults>>

\* The cycle goes on after a job.
Resumed(r) ==
  [r EXCEPT !.pc = IF r.job.key.kind = "order" THEN "execute" ELSE "settle",
            !.picks = {x \in @ : <<x[1], x[2]>> # Account(r.job.key)},
            !.accounts = @ \ {Account(r.job.key)},
            !.job = Idle.job, !.fin = Idle.fin]

RefusedAreFree(k) == attempts[k].state \in {"none", "refused", "unknown"}  \* mutant
\* `beginStrategyAttempt`: ON CONFLICT DO NOTHING.
Free(k) == attempts[k].state = "none"

Reserve(p) ==
  LET j == proc[p].job
      row == [state |-> "attempting", hash |-> FALSE, nonce |-> j.nonce, side |-> j.side]
  IN
  /\ At(p, "reserve")
  /\ \/ /\ Free(j.key)
        /\ attempts' = [attempts EXCEPT ![j.key] = row]
        /\ \/ proc' = [proc EXCEPT ![p].pc = "send"] /\ UNCHANGED faults
           \/ Fault /\ Throw(p)   \* the answer of the store is lost
     \/ /\ ~Free(j.key)
        /\ IF j.key.kind = "order" THEN proc' = [proc EXCEPT ![p] = Resumed(@)] ELSE Throw(p)
        /\ UNCHANGED <<attempts, faults>>
  /\ UNCHANGED <<decisions, txVars, vaultVars, reads>>

Concludes(p, state, hash) ==
  proc' = [proc EXCEPT ![p].pc = "save", ![p].fin = [state |-> state, hash |-> hash]]

\* Refused before it is sent, or the simulation timed out: which of the two
\* a failure was is told from its wording, and a timeout reads as "unknown".
NotSent(p, state) ==
  /\ At(p, "send") /\ state \in {"refused", "unknown"}
  /\ Concludes(p, state, FALSE)
  /\ UNCHANGED <<storeVars, txVars, vaultVars, reads, faults>>

Broadcast(p) ==
  LET k == proc[p].job.key IN
  /\ At(p, "send")
  /\ tx' = [tx EXCEPT ![k] = "pending"]
  /\ nonceOf' = [nonceOf EXCEPT ![k] = count]
  /\ count' = count + 1
  /\ sends' = [sends EXCEPT ![k] = @ + 1]
  /\ proc' = [proc EXCEPT ![p].pc = "answer"]
  /\ UNCHANGED <<storeVars, vaultVars, reads, faults>>

Answered(p) ==
  /\ At(p, "answer")
  /\ \/ proc' = [proc EXCEPT ![p].pc = "await"]
     \/ "timeout" \in SendErrors /\ Concludes(p, "unknown", FALSE)
     \/ "reset" \in SendErrors /\ Concludes(p, "refused", FALSE)
  /\ UNCHANGED <<storeVars, txVars, vaultVars, reads, faults>>

\* The receipt, or 90 seconds without one.
Awaited(p) ==
  LET k == proc[p].job.key IN
  /\ At(p, "await")
  /\ \/ tx[k] # "pending" /\ Concludes(p, tx[k], TRUE)
     \/ tx[k] = "pending" /\ Concludes(p, "unknown", TRUE)
  /\ UNCHANGED <<storeVars, txVars, vaultVars, reads, faults>>

\* Any settlement that is not confirmed, or cannot be verified, is an exception.
Save(p) ==
  LET k == proc[p].job.key
      fin == proc[p].fin
  IN
  /\ At(p, "save")
  /\ attempts' = [attempts EXCEPT ![k] = Recorded(@, fin.state, fin.hash)]
  /\ \/ k.kind = "order" /\ fin.state = "unknown" /\ proc' = [proc EXCEPT ![p] = Left(@)]
     \/ k.kind = "order" /\ fin.state # "unknown" /\ proc' = [proc EXCEPT ![p] = Resumed(@)]
     \/ k.kind = "settle" /\ fin.state = "settled" /\ proc' = [proc EXCEPT ![p] = Resumed(@)]
     \/ k.kind = "settle" /\ Throw(p)
  /\ UNCHANGED <<decisions, txVars, vaultVars, reads, faults>>

\* The store fails, or only its answer is lost.  An order whose outcome cannot be
\* stored is "unknown", if that can be stored.
SaveFails(p) ==
  LET k == proc[p].job.key
      fin == proc[p].fin
      stored == {attempts[k], Recorded(attempts[k], fin.state, fin.hash)}
  IN
  /\ At(p, "save") /\ Fault
  /\ IF k.kind = "settle" THEN Throw(p) ELSE proc' = [proc EXCEPT ![p] = Left(@)]
  /\ \E r \in IF k.kind = "settle" THEN stored
             ELSE stored \cup {Finished(x, "unknown", FALSE) : x \in stored} :
       attempts' = [attempts EXCEPT ![k] = r]
  /\ UNCHANGED <<decisions, txVars, vaultVars, reads>>

-----------------------------------------------------------------------------
Recovery(p) ==
  \/ Tick(p) \/ List(p) \/ Reconciled(p) \/ EndTick(p)
  \/ \E row \in proc[p].todo : \E found \in Findings(row) : Reconcile(p, row, found)

Cycle(p) ==
  \/ \E s \in Strategies : StartCycle(p, s)
  \/ \E a \in Owners \X Markets : SettleRead(p, a)
  \/ \E windows \in SUBSET Markets : Settled(p, windows)
  \/ \E m \in Markets : \/ \E side \in Sides \cup {Nobody} : Follow(p, m, side)
                        \/ Recall(p, m) \/ AskModel(p, m)
  \/ \E call \in Sides \cup {"held", "failed"} : ModelAnswers(p, call)
  \/ Scanned(p) \/ Executed(p)
  \/ \E o \in Owners, m \in Markets, side \in Sides : OrderRead(p, o, m, side)

Job(p) ==
  \/ Reserve(p) \/ Broadcast(p) \/ Answered(p) \/ Awaited(p) \/ Save(p) \/ SaveFails(p)
  \/ \E state \in {"refused", "unknown"} : NotSent(p, state)

Outside ==
  \/ \E k \in Keys, v \in Landed \cup {"settled"} : Mine(k, v)
  \/ \E a \in Owners \X Markets : OwnerSettles(a) \/ \E side \in OwnerSides : OwnerTrades(a, side)
  \/ \E m \in Markets : Resolve(m)

Running(p) == Boot(p) \/ Recovery(p) \/ Cycle(p) \/ Job(p)

Next ==
  \/ Outside
  \/ \E p \in Processes : Running(p) \/ Crash(p)

Spec == Init /\ [][Next]_vars

\* The runner is restarted and its timer fires; a provider asked about the same
\* fill again and again answers in the end.  Nothing else has to happen.
Answers(p, k) == \E row \in proc[p].todo : row.key = k /\ Reconcile(p, row, "filled")

FairSpec ==
  /\ Spec
  /\ \A p \in Processes : WF_vars(Running(p))
  /\ \A p \in Processes, k \in OrderKeys : SF_vars(Answers(p, k))

-----------------------------------------------------------------------------
(* Properties.                                                             *)

\* "At most one IOC" per decision (execute.ts:32) and "never asks twice"
\* (strategy-decisions.ts:45): a subscriber's Window gets one order and one
\* settlement, ever, and an agent reads it once and trades it only on the verdict
\* that was stored, across crashes, lost answers and a second process.
OncePerWindow ==
  /\ \A k \in DOMAIN sends : sends[k] <= 1
  /\ \A d \in DOMAIN reads : reads[d] <= 1
  /\ \A k \in DOMAIN sends : k.kind = "order" /\ k.strategy \in Agents /\ sends[k] > 0 =>
       decisions[<<k.strategy, k.market>>] = [gate |-> "trade", side |-> attempts[k].side]

\* One unresolved attempt holds the key (index.ts:54): no order leaves while
\* another order, of any strategy, may still land.  A settlement's crank may be
\* pending: its row is closed once the owner is seen to hold nothing.
InFlight(k) == k.kind = "order" /\ tx[k] = "pending"
OneOrderInFlight == \A j, k \in DOMAIN tx : InFlight(j) /\ InFlight(k) => j = k

\* Both at once: one order a Window, and one in flight.
OrdersAreSingle == OncePerWindow /\ OneOrderInFlight

\* A row says what became of its own transaction, and a settlement is reserved for
\* the one strategy whose orders hold the position.
AttemptsAreTrue ==
  \A k \in DOMAIN attempts :
    /\ attempts[k].state \in Landed => tx[k] = attempts[k].state
    /\ attempts[k].state = "refused" => tx[k] = "none"
    /\ attempts[k].state = "settled" => Account(k) \in closed
    /\ k.kind = "settle" /\ attempts[k].state # "none" =>
         \A side \in Holds(Account(k)) :
           held[Account(k)][side] = [opener |-> k.strategy, from |-> {k.strategy}]

\* A fill is recorded as the strategy's in the end, whether its answer came, was
\* lost or timed out.  A send answered with a reset connection is the exception the
\* code makes (write.ts: read as never sent, so its row stays refused); its trace
\* is in module XRelay, and no send of this module is answered so.
EveryFillIsRecorded ==
  \A k \in OrderKeys : tx[k] = "filled" ~> attempts[k].state = "filled"

=============================================================================
