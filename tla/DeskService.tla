----------------------------- MODULE DeskService -----------------------------
(***************************************************************************)
(* The server side of private bets: requests to open a bet or to cash out  *)
(* its claim, each a walk of sends that skips what the contract shows      *)
(* landed and keeps no record.  Every process has its own slot locks, so   *)
(* two of them may serve one bet.  A send is simulated, broadcast on the   *)
(* one key's queue and awaited; the wait may time out, the transaction may *)
(* be dropped, the process may be stopped (`maxDuration`).                 *)
(***************************************************************************)
EXTENDS PrivateDesk, Sequences

CONSTANTS
  Processes, Key,
  Serves,      \* bound: the bets whose requests reach each process
  Verdicts,    \* bound: how each bet's Window may end for its side
  MaxFaults    \* bound: timeouts, drops and stops

VARIABLES
  process,     \* what each process is doing
  queue,       \* the key's broadcast transactions, in nonce order
  ticket,      \* the signed claims owners hold
  faults

serviceVars == <<process, queue, ticket, faults>>
vars == <<contractVars, serviceVars>>

Nobody == "nobody"

ASSUME ServiceAssumption ==
  /\ Nobody \notin Processes
  /\ Serves \in [Processes -> SUBSET Bets]
  /\ Verdicts \in [Bets -> SUBSET {"WON", "LOST", "VOID"}]
  /\ MaxFaults \in Nat

Idle == [step |-> "idle"]

\* `step` is the send the request has come to, `sent` whether it is out, and
\* `amount` what it moves: state.charged, or what a bet is owed of its sweep.
At(step, b, amount) == [step |-> step, bet |-> b, amount |-> amount, sent |-> FALSE]

OpenSteps == {"charge", "fund", "mint", "refund-sweep", "refund-credit", "finish-credit"}
CashoutSteps == {"settle", "sweep", "credit"}
Steps == OpenSteps \cup CashoutSteps

Init ==
  /\ DeskInit
  /\ process = [p \in Processes |-> Idle] /\ queue = << >>
  /\ ticket = [b \in Bets |-> FALSE] /\ faults = 0

Go(p, next) == process' = [process EXCEPT ![p] = next]

OwedOf(slot, credited) == slot.swept - credited
Owed(b) == OwedOf(slots[b], creditedOf[b])

-----------------------------------------------------------------------------
(* openPrivateBet: one multicall read decides where the walk begins.       *)

\* An authorisation too old for a charge, a book too thin or a desk short of gas
\* refuse too: a charge is never bound to happen.
Affordable(b) ==
  /\ ~paused
  /\ Stake <= balanceOf[OwnerOf[b]] /\ Stake <= allowanceOf[OwnerOf[b]]

OpenBet(p, b) ==
  /\ process[p] = Idle
  /\ \/ /\ chargedOf[b] = 0 /\ Affordable(b)
        /\ Go(p, At("charge", b, Stake)) /\ UNCHANGED ticket
     \/ /\ chargedOf[b] > 0 /\ ~slots[b].funded
        /\ Go(p, At("fund", b, chargedOf[b])) /\ UNCHANGED ticket
     \/ \* funded once, then swept back: finish the refund
        /\ slots[b].funded /\ ~slots[b].minted /\ slots[b].balance = 0 /\ Owed(b) > 0
        /\ Go(p, At("finish-credit", b, Owed(b))) /\ UNCHANGED ticket
     \/ /\ slots[b].funded /\ ~slots[b].minted /\ slots[b].balance > 0
        /\ Go(p, At("mint", b, chargedOf[b])) /\ UNCHANGED ticket
     \/ /\ slots[b].minted
        /\ ticket' = [ticket EXCEPT ![b] = TRUE] /\ UNCHANGED process
  /\ UNCHANGED <<contractVars, queue, faults>>

\* cashOutPrivateBet: each step is decided by a fresh read.
NextHome(b, slot, credited) ==
  IF slot.quantity > 0 THEN At("settle", b, 0)
  ELSE IF slot.balance > 0 THEN At("sweep", b, 0)
  ELSE IF OwedOf(slot, credited) > 0 THEN At("credit", b, OwedOf(slot, credited))
  ELSE Idle

CashOut(p, b) ==
  /\ process[p] = Idle /\ ticket[b] /\ desk = Key
  /\ slots[b].quantity > 0 => verdict[b] # "OPEN"
  /\ Go(p, NextHome(b, slots[b], creditedOf[b]))
  /\ UNCHANGED <<contractVars, queue, ticket, faults>>

-----------------------------------------------------------------------------
(* A send, and what the walk makes of its outcome.                         *)

Can(step, b, amount) ==
  /\ desk = Key \/ step = "settle"
  /\ CASE step = "charge" -> CanCharge(b, amount)
       [] step = "fund" -> CanFund(b, amount)
       [] step = "mint" -> CanMint(b)
       [] step = "settle" -> CanSettle(b)
       [] step \in {"sweep", "refund-sweep"} -> CanSweep(b)
       [] OTHER -> CanCredit(b, amount)

Send(p) ==
  LET at == process[p] IN
  /\ at # Idle /\ ~at.sent /\ Can(at.step, at.bet, at.amount)
  /\ queue' = Append(queue, [by |-> p, step |-> at.step, bet |-> at.bet, amount |-> at.amount])
  /\ Go(p, [at EXCEPT !.sent = TRUE])
  /\ UNCHANGED <<contractVars, ticket, faults>>

AfterFailureStopped(at) == Idle  \* mutant: a refused mint is just reported

\* Only a refused mint is answered: the stake goes back.  Anything else is
\* reported as unknown.
AfterFailure(at) == IF at.step = "mint" THEN At("refund-sweep", at.bet, at.amount) ELSE Idle

AfterSuccess(at) ==
  CASE at.step = "charge" -> At("fund", at.bet, at.amount)
    [] at.step = "fund" -> At("mint", at.bet, at.amount)
    [] at.step = "refund-sweep" -> At("refund-credit", at.bet, at.amount)
    [] at.step \in {"settle", "sweep"} -> NextHome(at.bet, slots'[at.bet], creditedOf'[at.bet])
    [] OTHER -> Idle

\* The simulation reverts; the book may refuse a mint whatever the slot holds.
Refuse(p) ==
  LET at == process[p] IN
  /\ at # Idle /\ ~at.sent
  /\ ~Can(at.step, at.bet, at.amount) \/ at.step = "mint"
  /\ Go(p, AfterFailure(at))
  /\ UNCHANGED <<contractVars, queue, ticket, faults>>

Lands(tx) ==
  CASE tx.step = "charge" -> ChargeToPool(tx.bet, tx.amount)
    [] tx.step = "fund" -> FundSlot(tx.bet, tx.amount)
    [] tx.step = "mint" -> \E fill \in Fills : MintInSlot(tx.bet, fill)
    [] tx.step = "settle" -> SettleSlot(tx.bet)
    [] tx.step \in {"sweep", "refund-sweep"} -> SweepSlotToPool(tx.bet)
    [] OTHER -> CreditFromPool(tx.bet, tx.amount)

\* Mutant: the refund does not end the request, which goes on to sign a claim.
SealedAfterRefund(tx) == tx.step \in {"mint", "refund-credit"}

Seals(tx) == tx.step = "mint"

\* The next transaction of the key is mined; who awaits it sees its receipt.
Mine ==
  /\ queue # << >>
  /\ queue' = Tail(queue)
  /\ LET tx == Head(queue)
         waits == tx.by # Nobody
         at == process[tx.by]
     IN \/ /\ Can(tx.step, tx.bet, tx.amount) /\ Lands(tx)
           /\ IF waits THEN Go(tx.by, AfterSuccess(at)) ELSE UNCHANGED process
           /\ ticket' = [ticket EXCEPT ![tx.bet] = @ \/ (waits /\ Seals(tx))]
        \/ /\ ~Can(tx.step, tx.bet, tx.amount) \/ tx.step = "mint"
           /\ IF waits THEN Go(tx.by, AfterFailure(at)) ELSE UNCHANGED process
           /\ UNCHANGED <<contractVars, ticket>>
  /\ UNCHANGED faults

-----------------------------------------------------------------------------
(* Faults.                                                                 *)

Fault == faults < MaxFaults /\ faults' = faults + 1

\* Nobody learns what becomes of a process's transactions once it stops waiting.
Orphan(p) ==
  queue' = [k \in 1..Len(queue) |->
             IF queue[k].by = p THEN [queue[k] EXCEPT !.by = Nobody] ELSE queue[k]]

Answered(p) == process[p] = Idle \/ ~process[p].sent \/ \E k \in 1..Len(queue) : queue[k].by = p

\* The process stops, or its wait times out, as it does in the end when its
\* transaction is gone: "unknown".
GiveUp(p) ==
  /\ process[p] # Idle
  /\ Fault \/ (~Answered(p) /\ UNCHANGED faults)
  /\ Go(p, Idle) /\ Orphan(p)
  /\ UNCHANGED <<contractVars, ticket>>

\* A broadcast whose reply is lost to anything but a timeout reads as a failure.
LoseReply(p) ==
  /\ Fault /\ process[p] # Idle /\ process[p].sent
  /\ Go(p, AfterFailure(process[p])) /\ Orphan(p)
  /\ UNCHANGED <<contractVars, ticket>>

DropTx ==
  /\ Fault /\ queue # << >>
  /\ queue' = Tail(queue)
  /\ UNCHANGED <<contractVars, process, ticket>>

\* The browser may lose the ticket it was sent; the same request brings it back.
LoseTicket(b) ==
  /\ Fault /\ ticket[b]
  /\ ticket' = [ticket EXCEPT ![b] = FALSE]
  /\ UNCHANGED <<contractVars, process, queue>>

-----------------------------------------------------------------------------
\* The venue decides a Window whatever the desk is doing for its bets.
Decide(b, v) == Resolve(b, v) /\ UNCHANGED serviceVars

OwnerNext ==
  \/ \E o \in Owners, a \in Deposits :
       DepositAndAllow(o, a, a) \/ Deposit(o, a) \/ Withdraw(o, a)
  \/ \E o \in Owners : Allow(o, 0)

Next ==
  \/ OwnerNext /\ UNCHANGED serviceVars
  \/ \E p \in Processes : \E b \in Serves[p] : OpenBet(p, b) \/ CashOut(p, b)
  \/ \E p \in Processes : Send(p) \/ Refuse(p) \/ GiveUp(p) \/ LoseReply(p)
  \/ Mine \/ DropTx
  \/ \E b \in Bets : LoseTicket(b)
  \/ \E b \in Bets : SettleSlot(b) /\ UNCHANGED serviceVars
  \/ \E x \in PauseChoices : SetPaused(x) /\ UNCHANGED serviceVars
  \/ \E k \in DeskKeys : SetDesk(k) /\ UNCHANGED serviceVars
  \/ \E b \in Bets : \E v \in Verdicts[b] : Decide(b, v)

Spec == Init /\ [][Next]_vars

Serving(b) == {p \in Processes : b \in Serves[p]}

\* A process runs on, the key's transactions are mined, Windows are decided, and
\* an owner asks again until the bet is open and then until it is home.
FairSpec ==
  /\ Spec /\ WF_vars(Mine)
  /\ \A p \in Processes :
       WF_vars(Send(p) \/ Refuse(p) \/ (~Answered(p) /\ GiveUp(p)))
  /\ \A b \in Bets :
       /\ WF_vars(\E v \in Verdicts[b] : Decide(b, v))
       /\ SF_vars(chargedOf[b] > 0 /\ \E p \in Serving(b) : OpenBet(p, b))
       /\ SF_vars(\E p \in Serving(b) : CashOut(p, b))

-----------------------------------------------------------------------------
Walk == [step: Steps, bet: Bets, amount: Nat, sent: BOOLEAN]
Tx == [by: Processes \cup {Nobody}, step: Steps, bet: Bets, amount: Nat]

TypeOK ==
  /\ DeskTypeOK
  /\ process \in [Processes -> Walk \cup {Idle}]
  /\ queue \in Seq(Tx)
  /\ ticket \in [Bets -> BOOLEAN] /\ faults \in 0..MaxFaults

\* A signed claim stands for a position that was bought: a lost reply, a retry or
\* a refund never yields a ticket for a slot that was swept unminted.
TicketsAreBought == \A b \in Bets : ticket[b] => slots[b].minted

\* The slot is empty and all it returned is credited.
Home(b) ==
  /\ slots[b].funded /\ slots[b].quantity = 0 /\ slots[b].balance = 0
  /\ Owed(b) = 0

\* Through stops, lost replies, drops and a pause, whatever an owner was charged
\* comes home.  Two things may prevent it, both the refund of a bet that was
\* bought: its own credit is then spent on the stake, whatever its slot returns
\* later, and while some bet is overdrawn the pool may be short for another's.
ChargesComeHome == \A b \in Bets :
  chargedOf[b] > 0 ~> Home(b) \/ RefundedBought(b) \/ \E c \in Bets : Overdrawn(c)

=============================================================================
