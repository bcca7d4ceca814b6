----------------------------- MODULE PrivateDesk -----------------------------
(***************************************************************************)
(* Private bets: an owner's balance is charged into one pool, a slot is    *)
(* funded out of it, and what the slot returns is credited back from it,   *)
(* with no call naming both an owner and a slot.  A bet here stands for    *)
(* its three keys (charge, slot, credit), which only the desk and its      *)
(* owner can join.  The venue's fills and verdicts are the environment.    *)
(***************************************************************************)
EXTENDS Integers, FiniteSets, Functions

CONSTANTS
  Bets, Owners, OwnerOf,
  Stake,        \* what each bet is authorised for
  Fills,        \* [cost, quantity]: what the book may sell for a stake
  Deposits, PauseChoices, DeskKeys,
  MaxDeposited  \* bound: collateral ever deposited

VARIABLES
  desk,         \* the key the contract pins
  paused,
  balanceOf, allowanceOf,
  chargedOf, creditedOf,   \* per bet's keys
  slots,
  owed, pool, inSlots,     \* the contract's three totals
  wallet,                  \* its collateral, the venue's credit included
  verdict,                 \* each bet's market: WON, LOST or VOID for its side
  deposited                \* history

ownerVars == <<balanceOf, allowanceOf, deposited>>
keyVars == <<chargedOf, creditedOf>>
totalVars == <<owed, pool, inSlots, wallet>>
adminVars == <<desk, paused>>
contractVars == <<adminVars, ownerVars, keyVars, slots, totalVars, verdict>>

ASSUME DeskAssumption ==
  /\ IsFiniteSet(Bets) /\ IsFiniteSet(Owners)
  /\ OwnerOf \in [Bets -> Owners]
  /\ Stake \in Nat \ {0} /\ Deposits \subseteq Nat \ {0} /\ MaxDeposited \in Nat
  /\ \A f \in Fills : f.cost \in 0..Stake /\ f.quantity \in Nat \ {0}
  /\ PauseChoices \subseteq BOOLEAN

NoSlot == [funded |-> FALSE, minted |-> FALSE, balance |-> 0, quantity |-> 0, swept |-> 0]

DeskInit ==
  /\ desk \in DeskKeys /\ paused = FALSE
  /\ balanceOf = [o \in Owners |-> 0] /\ allowanceOf = [o \in Owners |-> 0]
  /\ chargedOf = [b \in Bets |-> 0] /\ creditedOf = [b \in Bets |-> 0]
  /\ slots = [b \in Bets |-> NoSlot]
  /\ owed = 0 /\ pool = 0 /\ inSlots = 0 /\ wallet = 0 /\ deposited = 0
  /\ verdict = [b \in Bets |-> "OPEN"]

DepositAndAllow(o, amount, allowance) ==
  /\ deposited + amount <= MaxDeposited
  /\ deposited' = deposited + amount
  /\ balanceOf' = [balanceOf EXCEPT ![o] = @ + amount]
  /\ allowanceOf' = [allowanceOf EXCEPT ![o] = allowance]
  /\ owed' = owed + amount /\ wallet' = wallet + amount
  /\ UNCHANGED <<adminVars, keyVars, slots, pool, inSlots, verdict>>

\* `revoke` is an allowance of zero, `deposit` keeps the one there is.
Deposit(o, amount) == DepositAndAllow(o, amount, allowanceOf[o])
Allow(o, allowance) == DepositAndAllow(o, 0, allowance)

Withdraw(o, amount) ==
  /\ amount \in 1..balanceOf[o]
  /\ balanceOf' = [balanceOf EXCEPT ![o] = @ - amount]
  /\ owed' = owed - amount /\ wallet' = wallet - amount
  /\ UNCHANGED <<adminVars, allowanceOf, deposited, keyVars, slots, pool, inSlots, verdict>>

-----------------------------------------------------------------------------
(* The desk's calls.  Each has the guard its simulation and its execution  *)
(* share; one that no longer holds when it is mined reverts.               *)

CanCharge(b, amount) ==
  /\ ~paused /\ chargedOf[b] = 0
  /\ amount \in 1..balanceOf[OwnerOf[b]] /\ amount <= allowanceOf[OwnerOf[b]]

ChargeToPool(b, amount) ==
  /\ CanCharge(b, amount)
  /\ balanceOf' = [balanceOf EXCEPT ![OwnerOf[b]] = @ - amount]
  /\ allowanceOf' = [allowanceOf EXCEPT ![OwnerOf[b]] = @ - amount]
  /\ owed' = owed - amount /\ pool' = pool + amount
  /\ chargedOf' = [chargedOf EXCEPT ![b] = amount]
  /\ UNCHANGED <<adminVars, deposited, creditedOf, slots, inSlots, wallet, verdict>>

CanFund(b, amount) == ~slots[b].funded /\ amount \in 1..pool

FundSlot(b, amount) ==
  /\ CanFund(b, amount)
  /\ pool' = pool - amount /\ inSlots' = inSlots + amount
  /\ slots' = [slots EXCEPT ![b].balance = amount, ![b].funded = TRUE]
  /\ UNCHANGED <<adminVars, ownerVars, keyVars, owed, wallet, verdict>>

\* Nothing is bought with an empty slot: the stake would be outside the band.
CanMint(b) ==
  /\ ~paused /\ slots[b].funded /\ ~slots[b].minted
  /\ slots[b].balance > 0 /\ verdict[b] = "OPEN"

MintInSlot(b, fill) ==
  /\ CanMint(b) /\ fill.cost <= slots[b].balance
  /\ slots' = [slots EXCEPT ![b].balance = @ - fill.cost, ![b].quantity = fill.quantity,
                            ![b].minted = TRUE]
  /\ inSlots' = inSlots - fill.cost /\ wallet' = wallet - fill.cost
  /\ UNCHANGED <<adminVars, ownerVars, keyVars, owed, pool, verdict>>

\* A winning contract pays one, a voided one half.
Payout(b) ==
  CASE verdict[b] = "WON" -> slots[b].quantity
    [] verdict[b] = "VOID" -> slots[b].quantity \div 2
    [] OTHER -> 0

CanSettle(b) == slots[b].quantity > 0 /\ verdict[b] # "OPEN"

\* Anyone may settle a slot: the proceeds stay in it.
SettleSlot(b) ==
  /\ CanSettle(b)
  /\ slots' = [slots EXCEPT ![b].quantity = 0, ![b].balance = @ + Payout(b)]
  /\ inSlots' = inSlots + Payout(b) /\ wallet' = wallet + Payout(b)
  /\ UNCHANGED <<adminVars, ownerVars, keyVars, owed, pool, verdict>>

CanSweep(b) == slots[b].quantity = 0 /\ slots[b].balance > 0

SweptNotCounted(s) == [s EXCEPT !.balance = 0]  \* mutant
SweptOut(s) == [s EXCEPT !.balance = 0, !.swept = @ + s.balance]

SweepSlotToPool(b) ==
  /\ CanSweep(b)
  /\ slots' = [slots EXCEPT ![b] = SweptOut(slots[b])]
  /\ inSlots' = inSlots - slots[b].balance /\ pool' = pool + slots[b].balance
  /\ UNCHANGED <<adminVars, ownerVars, keyVars, owed, wallet, verdict>>

CanCredit(b, amount) == creditedOf[b] = 0 /\ amount \in 1..pool

CreditFromPool(b, amount) ==
  /\ CanCredit(b, amount)
  /\ pool' = pool - amount /\ owed' = owed + amount
  /\ balanceOf' = [balanceOf EXCEPT ![OwnerOf[b]] = @ + amount]
  /\ creditedOf' = [creditedOf EXCEPT ![b] = amount]
  /\ UNCHANGED <<adminVars, allowanceOf, deposited, chargedOf, slots, inSlots, wallet, verdict>>

-----------------------------------------------------------------------------
SetPaused(next) ==
  /\ paused' = next
  /\ UNCHANGED <<desk, ownerVars, keyVars, slots, totalVars, verdict>>

SetDesk(next) ==
  /\ desk' = next
  /\ UNCHANGED <<paused, ownerVars, keyVars, slots, totalVars, verdict>>

Resolve(b, v) ==
  /\ verdict[b] = "OPEN"
  /\ verdict' = [verdict EXCEPT ![b] = v]
  /\ UNCHANGED <<adminVars, ownerVars, keyVars, slots, totalVars>>

-----------------------------------------------------------------------------
SlotRecord == [funded: BOOLEAN, minted: BOOLEAN, balance: Nat, quantity: Nat, swept: Nat]

DeskTypeOK ==
  /\ desk \in DeskKeys /\ paused \in BOOLEAN
  /\ balanceOf \in [Owners -> Nat] /\ allowanceOf \in [Owners -> Nat]
  /\ chargedOf \in [Bets -> Nat] /\ creditedOf \in [Bets -> Nat]
  /\ slots \in [Bets -> SlotRecord]
  /\ owed \in Nat /\ pool \in Nat /\ inSlots \in Nat /\ wallet \in Nat /\ deposited \in Nat
  /\ verdict \in [Bets -> {"OPEN", "WON", "LOST", "VOID"}]

\* What a bet brought to the pool: its charge until its slot is funded, and what
\* its slot gave back.
Brought(b) == (IF slots[b].funded THEN 0 ELSE chargedOf[b]) + slots[b].swept
PoolParts == [b \in Bets |-> Brought(b)]
SlotBalances == [b \in Bets |-> slots[b].balance]

\* A bet that was bought and yet had its whole stake credited (desk-open.ts:112).
RefundedBought(b) == slots[b].minted /\ creditedOf[b] = chargedOf[b]

\* A bet whose owner was credited more than the bet brought to the pool.
Overdrawn(b) == creditedOf[b] > Brought(b)

\* The desk's money is what it owes (`totalOwed`: "Equals the wallet"), and the
\* pool is what the bets brought less what was credited.  The contract cannot join
\* a charge to a slot: only the desk's order of sends keeps a bet's stake or refund
\* from being paid out of another bet's money, and the one way it does is a refund
\* of a bet that was bought after all, by its stake at most.
PoolIsEachBets ==
  /\ wallet = owed + pool + inSlots
  /\ owed = SumFunction(balanceOf)
  /\ inSlots = SumFunction(SlotBalances)
  /\ pool + SumFunction(creditedOf) = SumFunction(PoolParts)
  /\ \A b \in Bets : Overdrawn(b) => RefundedBought(b)

\* The pool's own words (PrivateDesk.sol:30): "Money nobody has claimed yet: charged
\* and not yet in a slot, or swept and not yet credited."
Unclaimed(b) ==
  (IF slots[b].funded THEN 0 ELSE chargedOf[b])
    + (IF slots[b].swept > creditedOf[b] THEN slots[b].swept - creditedOf[b] ELSE 0)

PoolIsUnclaimed == pool = SumFunction([b \in Bets |-> Unclaimed(b)])

=============================================================================
