--------------------------- MODULE LeverageReserve ---------------------------
(***************************************************************************)
(* Prefunded leverage: the reserve fronts part of a bet for a premium,     *)
(* holds the outcome tokens itself, and is repaid first out of whatever    *)
(* they fetch: a cash-out, a knock-out anyone may trigger, or settlement.  *)
(* The venue's book and verdicts are the environment.  Every call collects *)
(* the reserve's pool credit before it returns, so `wallet` counts both.   *)
(***************************************************************************)
EXTENDS ShareLedger

CONSTANTS
  Owners, Markets, Expiry, ParamsChoices,
  Outcomes,     \* the sides owners take
  Stakes,       \* what an owner may put up
  Leverages,    \* in BPS
  Offers,       \* what walking the resting asks may find for a stake
  Lot,          \* a fill is a whole number of lots
  Proceeds,     \* what an exit may fetch
  One,          \* one whole unit of collateral
  MaxFee,       \* bound: a fee on top of the walk's price
  MaxPositions, \* bound: positions ever opened
  MaxTime       \* bound: the last block timestamp

VARIABLES
  outstanding,     \* sum of `fronted` over LIVE positions
  frontedByMarket,
  positions,       \* _positions: an id is the 1-based index
  open,            \* _open: the ids of the LIVE positions
  openAt,          \* _openAt: id |-> index in `open`, 0 for none
  params,
  tokens,          \* market, outcome |-> outcomeToken.balanceOf(reserve)
  status,          \* the venue's status of each market
  now

bookVars == <<outstanding, frontedByMarket, positions, open, openAt, tokens>>
venueVars == <<status, now>>
vars == <<ledgerVars, bookVars, params, venueVars>>

Sides == {0, 1}
PositionIds == 1..MaxPositions
Ends == {"CLOSED", "KNOCKED_OUT", "SETTLED"}
Params == [maxLeverageBps: Nat, premiumBps: 0..(BPS - 1), maintenanceBps: Nat,
           maxExposureBps: 0..BPS, minEntryPriceRaw: Nat, maxEntryPriceRaw: Nat,
           maxFrontedPerPosition: Nat, maxWindowFronted: Nat,
           maxOpenPositions: Nat, minTimeLeftSec: Nat]
Offer == [quantity: Nat \ {0}, cost: Nat \ {0}, escrow: Nat]

ASSUME LeverageAssumption ==
  /\ Expiry \in [Markets -> Nat]
  /\ ParamsChoices \subseteq Params
  /\ \A p \in ParamsChoices :  \* what _setParams refuses
       /\ p.maxLeverageBps > BPS /\ p.maintenanceBps >= BPS
       /\ p.minEntryPriceRaw \in 1..(p.maxEntryPriceRaw - 1)
       /\ p.maxEntryPriceRaw < One /\ p.minTimeLeftSec # 0
       /\ p.maxFrontedPerPosition # 0 /\ p.maxWindowFronted # 0
       /\ p.maxOpenPositions \in 1..256
  /\ Outcomes \subseteq Sides
  /\ Stakes \subseteq Nat \ {0} /\ Leverages \subseteq Nat
  /\ Offers \subseteq Offer
  /\ Proceeds \subseteq Nat
  /\ Lot \in Nat \ {0} /\ One \in Nat \ {0}
  /\ {MaxFee, MaxPositions, MaxTime} \subseteq Nat

Live(i) == i \in 1..Len(positions) /\ positions[i].status = "LIVE"

Init ==
  /\ LedgerInit
  /\ outstanding = 0 /\ frontedByMarket = [m \in Markets |-> 0]
  /\ positions = << >> /\ open = << >> /\ openAt = [i \in PositionIds |-> 0]
  /\ params \in ParamsChoices
  /\ tokens = [m \in Markets |-> [x \in Sides |-> 0]]
  /\ status = [m \in Markets |-> "TRADING"] /\ now = 0

totalValue == liquid + outstanding

unsettledAfterExpiry ==  \* mutant: a Window is over a second late
  LET stale == {k \in 1..Len(open) : positions[open[k]].expiry < now}
  IN IF stale = {} THEN 0 ELSE open[CHOOSE k \in stale : \A j \in stale : k <= j]

\* The first LIVE position past its Window blocks every withdrawal.
unsettledExpired ==
  LET stale == {k \in 1..Len(open) : positions[open[k]].expiry <= now}
  IN IF stale = {} THEN 0 ELSE open[CHOOSE k \in stale : \A j \in stale : k <= j]

Supply(s, amount) == Buy(s, amount, totalValue) /\ UNCHANGED <<bookVars, params, venueVars>>

Withdraw(s, shares) ==
  /\ unsettledExpired = 0
  /\ Redeem(s, shares, totalValue)
  /\ UNCHANGED <<bookVars, params, venueVars>>

-----------------------------------------------------------------------------
(* LeverageMath: every rounding is the reserve's.                          *)

DeployScale(lev) == lev * BPS - (lev - BPS) * params.premiumBps

BudgetFor(stake, lev) == (stake * DeployScale(lev)) \div (BPS * BPS)

\* The front, the premium and the stake behind a fill that cost `cost`.
Terms(cost, lev) ==
  LET nominal == CeilDiv(cost * BPS * BPS, DeployScale(lev))
      fronted == (nominal * (lev - BPS)) \div BPS
      premium == (fronted * params.premiumBps) \div BPS
  IN [fronted |-> fronted, premium |-> premium, stake |-> cost + premium - fronted]

Knockable(mark, fronted) == fronted # 0 /\ mark * BPS < fronted * params.maintenanceBps

Lots(n) == {q \in 1..n : q % Lot = 0}

-----------------------------------------------------------------------------
(* Opening.  Capacity is read after the front is booked.                   *)

Capacity(m, fronted) ==
  /\ fronted <= params.maxFrontedPerPosition
  /\ frontedByMarket[m] + fronted <= params.maxWindowFronted

Exposed(out, value) == out * BPS <= value * params.maxExposureBps

\* The refusals of _sizeEntry and _priceEntry for what the book offers.
Entry(m, stake, lev, offer) ==
  LET quote == Terms(offer.cost, lev)
      price == CeilDiv(offer.cost * One, offer.quantity)
  IN /\ status[m] = "TRADING"
     /\ now + params.minTimeLeftSec <= Expiry[m]
     /\ lev > BPS /\ lev <= params.maxLeverageBps
     /\ offer.cost <= BudgetFor(stake, lev)
     /\ price \in params.minEntryPriceRaw..params.maxEntryPriceRaw
     /\ quote.stake >= 0
     /\ offer.quantity > quote.stake + quote.fronted

\* `status`, `proceeds`, `reclaimed` and `returned` start a position's account.
NewPosition(o, m, x, got, t) ==
  [owner |-> o, market |-> m, outcome |-> x, expiry |-> Expiry[m], status |-> "LIVE",
   quantity |-> got, stake |-> t.stake, fronted |-> t.fronted,
   proceeds |-> 0, reclaimed |-> 0, returned |-> 0]

Open(o, m, x, stake, lev, offer, got, cost) ==
  LET t == Terms(cost, lev)
      id == Len(positions) + 1
      left == liquid + t.premium - t.fronted
  IN
  /\ ~paused
  /\ Entry(m, stake, lev, offer)
  /\ Len(open) < params.maxOpenPositions
  /\ liquid + stake >= offer.escrow
  /\ t.stake \in 0..stake
  /\ left >= 0
  /\ Capacity(m, t.fronted)
  /\ Exposed(outstanding + t.fronted, left + outstanding + t.fronted)
  /\ id <= MaxPositions
  /\ Move(left, wallet + t.stake - cost)
  /\ outstanding' = outstanding + t.fronted
  /\ frontedByMarket' = [frontedByMarket EXCEPT ![m] = @ + t.fronted]
  /\ positions' = Append(positions, NewPosition(o, m, x, got, t))
  /\ open' = Append(open, id)
  /\ openAt' = [openAt EXCEPT ![id] = Len(open) + 1]
  /\ tokens' = [tokens EXCEPT ![m][x] = @ + got]
  /\ UNCHANGED <<params, venueVars>>

-----------------------------------------------------------------------------
(* Leaving.  The claim is repaid first; the owner gets the rest.           *)

RemoveUnindexed(i) ==  \* mutant: the moved id keeps its old index
  /\ open' = [k \in 1..(Len(open) - 1) |-> IF k = openAt[i] THEN open[Len(open)] ELSE open[k]]
  /\ openAt' = [openAt EXCEPT ![i] = 0]

\* The last id takes the place of the one that goes.
RemoveOpen(i) ==
  LET at == openAt[i]
      moved == open[Len(open)]
  IN /\ open' = [k \in 1..(Len(open) - 1) |-> IF k = at THEN moved ELSE open[k]]
     /\ openAt' = [openAt EXCEPT ![moved] = at, ![i] = 0]

OwnerFirst(i, proceeds) ==  \* mutant
  IF proceeds < positions[i].stake THEN 0 ELSE proceeds - positions[i].stake

Reclaimed(i, proceeds) ==
  IF proceeds < positions[i].fronted THEN proceeds ELSE positions[i].fronted

OnlyRecovered(i, sold, proceeds) == Reclaimed(i, proceeds)  \* mutant

\* A full exit releases what was not recovered too: the reserve's loss.
Released(i, sold, proceeds) ==
  IF sold = positions[i].quantity THEN positions[i].fronted ELSE Reclaimed(i, proceeds)

AfterExit(p, end, sold, proceeds, reclaimed) ==
  [p EXCEPT !.quantity = @ - sold,
            !.fronted = IF sold = p.quantity THEN 0 ELSE @ - reclaimed,
            !.status = IF sold = p.quantity THEN end ELSE @,
            !.proceeds = @ + proceeds,
            !.reclaimed = @ + reclaimed,
            !.returned = @ + proceeds - reclaimed]

Exit(i, end, sold, proceeds) ==
  LET p == positions[i]
      reclaimed == Reclaimed(i, proceeds)
      released == Released(i, sold, proceeds)
  IN
  /\ released <= outstanding /\ released <= frontedByMarket[p.market]  \* checked subtraction
  /\ Move(liquid + reclaimed, wallet + reclaimed)
  /\ positions' = [positions EXCEPT ![i] = AfterExit(p, end, sold, proceeds, reclaimed)]
  /\ outstanding' = outstanding - released
  /\ frontedByMarket' = [frontedByMarket EXCEPT ![p.market] = @ - released]
  /\ tokens' = [tokens EXCEPT ![p.market][p.outcome] = @ - sold]
  /\ IF sold = p.quantity THEN RemoveOpen(i) ELSE UNCHANGED <<open, openAt>>
  /\ UNCHANGED <<params, venueVars>>

\* The owner's cash-out; an order needs a market that trades.
Close(i, sold, proceeds) ==
  /\ Live(i) /\ status[positions[i].market] = "TRADING"
  /\ sold \in Lots(positions[i].quantity) /\ proceeds <= sold
  /\ Exit(i, "CLOSED", sold, proceeds)

\* The mark is what the same bids pay in the sale, less one unit for its rounding.
MarkOf(proceeds) == IF proceeds = 0 THEN 0 ELSE proceeds - 1

KnockOut(i, sold, proceeds) ==
  /\ Live(i) /\ status[positions[i].market] = "TRADING"
  /\ Knockable(MarkOf(proceeds), positions[i].fronted)
  /\ sold \in Lots(positions[i].quantity) /\ proceeds <= sold
  /\ Exit(i, "KNOCKED_OUT", sold, proceeds)

\* A winning token pays one, a voided one half.
Payout(p) ==
  CASE status[p.market] = "VOID" -> p.quantity \div 2
    [] status[p.market] = "YES" -> IF p.outcome = 0 THEN p.quantity ELSE 0
    [] OTHER -> IF p.outcome = 1 THEN p.quantity ELSE 0

Settle(i) ==
  /\ Live(i) /\ status[positions[i].market] \in {"YES", "NO", "VOID"}
  /\ Exit(i, "SETTLED", positions[i].quantity, Payout(positions[i]))

-----------------------------------------------------------------------------
SetParams(next) ==
  /\ params' = next
  /\ UNCHANGED <<ledgerVars, bookVars, venueVars>>

SetPaused(next) == Pause(next) /\ UNCHANGED <<bookVars, params, venueVars>>

\* The venue stops trading a market at its expiry and later decides it.
Resolve(m, s) ==
  /\ now >= Expiry[m]
  /\ \/ status[m] = "TRADING" /\ s = "LOCKED"
     \/ status[m] = "LOCKED" /\ s \in {"YES", "NO", "VOID"}
  /\ status' = [status EXCEPT ![m] = s]
  /\ UNCHANGED <<ledgerVars, bookVars, params, now>>

Tick ==
  /\ now < MaxTime
  /\ now' = now + 1
  /\ UNCHANGED <<ledgerVars, bookVars, params, status>>

Next ==
  \/ \E s \in Suppliers, a \in Supplies : Supply(s, a)
  \/ \E s \in Suppliers, n \in Redemptions : Withdraw(s, n)
  \/ \E o \in Owners, m \in Markets, x \in Outcomes, stake \in Stakes, lev \in Leverages,
        offer \in Offers : \E got \in Lots(offer.quantity), fee \in 0..MaxFee :
       Open(o, m, x, stake, lev, offer, got, CeilDiv(offer.cost * got, offer.quantity) + fee)
  \/ \E i \in 1..Len(positions), w \in Proceeds : \E sold \in Lots(positions[i].quantity) :
       Close(i, sold, w) \/ KnockOut(i, sold, w)
  \/ \E i \in 1..Len(positions) : Settle(i)
  \/ \E p \in ParamsChoices : SetParams(p)
  \/ \E b \in PauseChoices : SetPaused(b)
  \/ \E m \in Markets, s \in {"LOCKED", "YES", "NO", "VOID"} : Resolve(m, s)
  \/ Tick

Spec == Init /\ [][Next]_vars

-----------------------------------------------------------------------------
Position == [owner: Owners, market: Markets, outcome: Sides, expiry: Nat,
             status: {"LIVE"} \cup Ends, quantity: Nat, stake: Nat, fronted: Nat,
             proceeds: Nat, reclaimed: Nat, returned: Nat]

TypeOK ==
  /\ LedgerTypeOK
  /\ outstanding \in Nat /\ frontedByMarket \in [Markets -> Nat]
  /\ positions \in Seq(Position) /\ Len(positions) <= MaxPositions
  /\ open \in Seq(PositionIds) /\ openAt \in [PositionIds -> Nat]
  /\ params \in ParamsChoices
  /\ tokens \in [Markets -> [Sides -> Int]]
  /\ status \in [Markets -> {"TRADING", "LOCKED", "YES", "NO", "VOID"}] /\ now \in Nat

LiveIds == {i \in 1..Len(positions) : Live(i)}
LiveIn(m) == {i \in LiveIds : positions[i].market = m}
LiveOn(m, x) == {i \in LiveIn(m) : positions[i].outcome = x}

Fronts(ids) == [i \in PositionIds |-> IF i \in ids THEN positions[i].fronted ELSE 0]
Sizes(ids) == [i \in PositionIds |-> IF i \in ids THEN positions[i].quantity ELSE 0]

\* The reserve's totals are its live positions', and its wallet is its liquid
\* capital: `open`, three kinds of exit and a partial sale keep five books.
BooksFollowPositions ==
  /\ wallet = liquid
  /\ outstanding = SumFunction(Fronts(LiveIds))
  /\ \A m \in Markets : frontedByMarket[m] = SumFunction(Fronts(LiveIn(m)))
  /\ \A m \in Markets, x \in Sides : tokens[m][x] = SumFunction(Sizes(LiveOn(m, x)))

\* The list the keeper and `unsettledExpired` scan is exactly the live
\* positions, in whatever order they were swapped and popped.
OpenListIsLive ==
  /\ \A k \in 1..Len(open) : Live(open[k]) /\ openAt[open[k]] = k
  /\ \A i \in PositionIds :
       IF Live(i) THEN openAt[i] \in 1..Len(open) /\ open[openAt[i]] = i ELSE openAt[i] = 0

\* Over any run of partial and full exits, an owner is paid only once the
\* whole front is back, and everything fetched is accounted to one of the two.
ReserveIsRepaidFirst == \A i \in 1..Len(positions) :
  LET p == positions[i] IN
  /\ p.returned > 0 => p.fronted = 0
  /\ p.proceeds = p.reclaimed + p.returned

\* No supplier leaves at a value that counts the front of a position whose
\* Window is over (`withdraw`, "settle it first").
NoStaleWithdrawal == [][
  supplyShares' < supplyShares => \A i \in LiveIds : positions[i].expiry > now]_vars

House == INSTANCE HouseShares WITH atRisk <- outstanding
HouseSpec == House!Spec
NeverDiluted == House!NeverDiluted

=============================================================================
