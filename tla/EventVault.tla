----------------------------- MODULE EventVault -----------------------------
(***************************************************************************)
(* The Trading Balance contract: an owner's two balances (available and    *)
(* private), the typed grants through which a delegate may spend a bounded *)
(* budget, and the outcome tokens the vault holds for each owner.  The     *)
(* venue (DreamDEX) is the environment: what a fill moved, where a refund  *)
(* landed and how a market resolved are nondeterministic.                  *)
(*                                                                         *)
(* A transaction that reverts changes nothing, so every `revert` is the    *)
(* negation of a guard.  A transaction is atomic (`nonReentrant`), so each *)
(* external function is one action.                                        *)
(***************************************************************************)
EXTENDS Naturals, Sequences, FiniteSets, Functions

CONSTANTS
  Owners,       \* accounts with a Trading Balance
  Acting,       \* bound: the owners who fund, lend and trade
  Actors,       \* addresses a grant may name
  SignedKinds,  \* bound: the kinds of grant owners sign
  Markets,      \* the venue's market ids (Windows)
  Prices,       \* YES prices an order may carry, below One
  Quantities,   \* outcome-token quantities an order may carry
  Amounts,      \* collateral amounts a transfer or a budget may carry
  CapsChoices,  \* the Caps an owner may sign
  One,          \* one whole unit of collateral
  DayLength,    \* seconds in a UTC day
  Lot,          \* the venue's lot: a fill is a whole number of lots
  Landings,     \* where the venue's payments land: TRUE as pool credit
  MaxFee,       \* bound: what a fill may cost beyond the order's limit
  MaxTime,      \* bound: the last block timestamp
  MaxGrants,    \* bound: grants ever created
  MaxIntake,    \* bound: collateral paid in for one owner
  MaxFills      \* bound: fills in one market, of all owners

ATTENDED == 0   \* the grant id written on an owner's own action
Sides == {0, 1} \* 0 is YES (up), 1 is NO (down)
Ids == Markets \X Sides
GrantKinds == {"SESSION", "EXECUTOR", "STRATEGY"}

Caps == [maxStakePerTrade: Nat, maxDailySpend: Nat,
         maxOpenPositions: Nat, maxPriceRaw: Nat]

ASSUME VaultAssumption ==
  /\ IsFiniteSet(Owners) /\ IsFiniteSet(Markets)
  /\ Acting \subseteq Owners
  /\ One \in Nat \ {0}
  /\ DayLength \in Nat \ {0}
  /\ Lot \in Nat \ {0}
  /\ Prices \subseteq 0..One
  /\ Quantities \subseteq Nat
  /\ Amounts \subseteq Nat
  /\ CapsChoices \subseteq Caps
  /\ SignedKinds \subseteq GrantKinds
  /\ Landings \subseteq BOOLEAN
  /\ {MaxFee, MaxTime, MaxGrants, MaxIntake, MaxFills} \subseteq Nat

VARIABLES
  available,       \* the four fields of _accounts[owner]
  privateAvailable,
  totalDeposited,
  totalWithdrawn,
  grants,          \* _grants: the id of a grant is its 1-based index
  activeGrantOf,   \* owner, kind |-> the live grant, 0 for none
  positionOf,      \* owner, outcome id |-> outcome tokens held for the owner
  positionGrantOf, \* owner, outcome id |-> the grant that opened the position
  costBase,        \* VaultTally: owner, market |-> what buys cost,
  proceedsBase,    \*   what sales returned,
  payoutBase,      \*   what settlement paid,
  fillCount,       \*   how many fills;
  bought,          \*   owner, outcome id |-> tokens bought
  sold,            \*   and tokens sold
  wallet,          \* collateral.balanceOf(vault)
  credit,          \* market |-> getWithdrawableBalance(vault) on its pool
  tokens,          \* outcome id |-> outcomeToken.balanceOf(vault, id)
  status,          \* the venue's status of each market
  now,             \* block.timestamp
  credited,        \* history: what others paid in for an owner
  spentOn,         \* history: grant, day |-> what the grant's buys cost
  delegated        \* history: owner |-> what the buys of its grants cost

venueVars == <<wallet, credit, tokens, status>>
grantVars == <<grants, activeGrantOf, spentOn, delegated>>
tallyVars == <<costBase, proceedsBase, payoutBase, fillCount, bought, sold>>
bookVars == <<positionOf, positionGrantOf, tallyVars>>
otherAccountVars == <<privateAvailable, totalDeposited, totalWithdrawn>>
accountVars == <<available, otherAccountVars>>
vars == <<accountVars, grantVars, bookVars, venueVars, now, credited>>

Statuses == {"TRADING", "LOCKED", "YES", "NO", "VOID"}
Days == 0..(MaxTime \div DayLength)

Grant == [owner: Owners, actor: Actors, kind: GrantKinds, revoked: BOOLEAN,
          expiresAtSec: Nat, spentDay: Nat, openPositions: Nat, caps: Caps,
          budget: Nat, spentToday: Nat]

GrantIds == 1..Len(grants)

PerOwner == [o \in Owners |-> 0]
PerMarket == [o \in Owners |-> [m \in Markets |-> 0]]
PerOutcome == [o \in Owners |-> [id \in Ids |-> 0]]

Init ==
  /\ available = PerOwner /\ privateAvailable = PerOwner
  /\ totalDeposited = PerOwner /\ totalWithdrawn = PerOwner
  /\ grants = << >>
  /\ activeGrantOf = [o \in Owners |-> [k \in GrantKinds |-> 0]]
  /\ positionOf = PerOutcome
  /\ positionGrantOf = [o \in Owners |-> [id \in Ids |-> ATTENDED]]
  /\ costBase = PerMarket /\ proceedsBase = PerMarket /\ payoutBase = PerMarket
  /\ fillCount = PerMarket
  /\ bought = PerOutcome /\ sold = PerOutcome
  /\ wallet = 0
  /\ credit = [m \in Markets |-> 0]
  /\ tokens = [id \in Ids |-> 0]
  /\ status = [m \in Markets |-> "TRADING"]
  /\ now = 0
  /\ credited = PerOwner
  /\ spentOn = [g \in 1..MaxGrants |-> [d \in Days |-> 0]]
  /\ delegated = PerOwner

-----------------------------------------------------------------------------
(* Funding.  Every payout goes to the caller's own address.                *)

IntakeOf(o) == totalDeposited[o] + credited[o]

\* `_take`: a transfer or a sale of nothing, or of more than there is, reverts.
Has(have, want) == want > 0 /\ have >= want

Deposit(o, n) ==
  /\ n > 0
  /\ IntakeOf(o) + n <= MaxIntake
  /\ available' = [available EXCEPT ![o] = @ + n]
  /\ totalDeposited' = [totalDeposited EXCEPT ![o] = @ + n]
  /\ wallet' = wallet + n
  /\ UNCHANGED <<privateAvailable, totalWithdrawn, grantVars, bookVars,
                 credit, tokens, status, now, credited>>

CreditFor(o, n) ==
  /\ n > 0
  /\ IntakeOf(o) + n <= MaxIntake
  /\ available' = [available EXCEPT ![o] = @ + n]
  /\ credited' = [credited EXCEPT ![o] = @ + n]
  /\ wallet' = wallet + n
  /\ UNCHANGED <<privateAvailable, totalDeposited, totalWithdrawn, grantVars,
                 bookVars, credit, tokens, status, now>>

CreditPrivateFor(o, n) ==
  /\ n > 0
  /\ IntakeOf(o) + n <= MaxIntake
  /\ privateAvailable' = [privateAvailable EXCEPT ![o] = @ + n]
  /\ credited' = [credited EXCEPT ![o] = @ + n]
  /\ wallet' = wallet + n
  /\ UNCHANGED <<available, totalDeposited, totalWithdrawn, grantVars,
                 bookVars, credit, tokens, status, now>>

\* The transfer reverts when the wallet is short: part of the vault's
\* collateral may sit as credit on a pool until somebody sweeps it.
Withdraw(o, n) ==
  /\ Has(available[o], n)
  /\ wallet >= n
  /\ available' = [available EXCEPT ![o] = @ - n]
  /\ totalWithdrawn' = [totalWithdrawn EXCEPT ![o] = @ + n]
  /\ wallet' = wallet - n
  /\ UNCHANGED <<privateAvailable, totalDeposited, grantVars, bookVars, credit, tokens, status, now, credited>>

MoveToPrivate(o, n) ==
  /\ Has(available[o], n)
  /\ available' = [available EXCEPT ![o] = @ - n]
  /\ privateAvailable' = [privateAvailable EXCEPT ![o] = @ + n]
  /\ UNCHANGED <<totalDeposited, totalWithdrawn, grantVars, bookVars, venueVars, now, credited>>

WithdrawPrivate(o, n) ==
  /\ Has(privateAvailable[o], n)
  /\ wallet >= n
  /\ privateAvailable' = [privateAvailable EXCEPT ![o] = @ - n]
  /\ totalWithdrawn' = [totalWithdrawn EXCEPT ![o] = @ + n]
  /\ wallet' = wallet - n
  /\ UNCHANGED <<available, totalDeposited, grantVars, bookVars, credit, tokens, status, now, credited>>

Sweep(m) ==
  /\ credit[m] # 0
  /\ wallet' = wallet + credit[m]
  /\ credit' = [credit EXCEPT ![m] = 0]
  /\ UNCHANGED <<accountVars, grantVars, bookVars, tokens, status, now, credited>>

-----------------------------------------------------------------------------
(* Grants.                                                                 *)

Live(g) == ~grants[g].revoked /\ now <= grants[g].expiresAtSec

\* Mutant: `_revoke` leaves the budget in the ended grant.
RevokedKeepingBudget(g) == [grants EXCEPT ![g].revoked = TRUE]

\* The grant array after `_revoke(g)`, and what the revocation returns.
Ended(g) == [grants[g] EXCEPT !.revoked = TRUE, !.budget = 0]
Revoked(g) == [grants EXCEPT ![g] = Ended(g)]

\* Mutant: the unspent budget is not given back.
ForfeitedBudget(g) == 0

Returned(g) == IF g = 0 THEN 0 ELSE grants[g].budget

NewGrant(o, k, a, caps, expiry, n) ==
  [owner |-> o, actor |-> a, kind |-> k, revoked |-> FALSE,
   expiresAtSec |-> expiry, spentDay |-> 0, openPositions |-> 0,
   caps |-> caps, budget |-> n, spentToday |-> 0]

\* `grant` with intake 0, `depositAndGrant` with the amount it deposits first.
GrantTo(o, k, a, caps, expiry, n, intake) ==
  LET previous == activeGrantOf[o][k]
      kept == IF previous = 0 THEN grants ELSE Revoked(previous)
      funds == available[o] + intake + Returned(previous)
  IN
  /\ expiry > now
  /\ Len(grants) < MaxGrants
  /\ IntakeOf(o) + intake <= MaxIntake
  /\ funds >= n
  /\ grants' = Append(kept, NewGrant(o, k, a, caps, expiry, n))
  /\ activeGrantOf' = [activeGrantOf EXCEPT ![o][k] = Len(grants) + 1]
  /\ available' = [available EXCEPT ![o] = funds - n]
  /\ totalDeposited' = [totalDeposited EXCEPT ![o] = @ + intake]
  /\ wallet' = wallet + intake
  /\ UNCHANGED <<privateAvailable, totalWithdrawn, spentOn, delegated, bookVars,
                 credit, tokens, status, now, credited>>

Funded(g, n) == [grants[g] EXCEPT !.budget = @ + n]

\* Mutant: without `_ownedGrant`, money goes into somebody else's grant.
FundAnyGrant(o, g, n) ==
  /\ Live(g)
  /\ Has(available[o], n)
  /\ available' = [available EXCEPT ![o] = @ - n]
  /\ grants' = [grants EXCEPT ![g] = Funded(g, n)]
  /\ UNCHANGED <<otherAccountVars, activeGrantOf, spentOn, delegated, bookVars,
                 venueVars, now, credited>>

FundGrant(o, g, n) ==
  /\ grants[g].owner = o
  /\ Live(g)
  /\ Has(available[o], n)
  /\ available' = [available EXCEPT ![o] = @ - n]
  /\ grants' = [grants EXCEPT ![g] = Funded(g, n)]
  /\ UNCHANGED <<otherAccountVars, activeGrantOf, spentOn, delegated, bookVars,
                 venueVars, now, credited>>

\* Revoking a revoked grant returns early: a step that changes nothing.
Revoke(o, g) ==
  /\ grants[g].owner = o
  /\ ~grants[g].revoked
  /\ grants' = Revoked(g)
  /\ available' = [available EXCEPT ![o] = @ + Returned(g)]
  /\ activeGrantOf' = IF activeGrantOf[o][grants[g].kind] = g
                      THEN [activeGrantOf EXCEPT ![o][grants[g].kind] = 0]
                      ELSE activeGrantOf
  /\ UNCHANGED <<otherAccountVars, spentOn, delegated, bookVars, venueVars, now, credited>>

-----------------------------------------------------------------------------
(* The venue.  A buy's escrow (the whole order at its limit) is drawn from *)
(* the pool's credit first, then from the wallet; what the fill did not    *)
(* use comes back to either.  A sale or a redemption pays into either.     *)

SidePrice(s, price) == IF s = 0 THEN price ELSE One - price
Escrow(s, price, q) == (q * SidePrice(s, price)) \div One

Fill == [cash: Nat, tokens: Nat]

\* An IOC buy fills none, some or all of the order; fees may exceed the limit.
Lots(q) == {n \in 0..q : n % Lot = 0}

BuyFills(q, worst) ==
  {f \in [cash: 0..(worst + MaxFee), tokens: Lots(q)] : f.tokens = 0 => f.cash = 0}

SellFills(q) == {f \in [cash: 0..q, tokens: Lots(q)] : f.cash <= f.tokens}

PoolDraw(m, worst, cost, refundToCredit) ==
  LET draw == IF cost > worst THEN cost ELSE worst
      fromCredit == IF credit[m] < draw THEN credit[m] ELSE draw
      refund == draw - cost
  IN
  /\ wallet + fromCredit >= draw
  /\ wallet' = (wallet + fromCredit - draw) + (IF refundToCredit THEN 0 ELSE refund)
  /\ credit' = [credit EXCEPT ![m] = (@ - fromCredit)
                                     + (IF refundToCredit THEN refund ELSE 0)]

PoolPays(m, n, toCredit) ==
  /\ wallet' = IF toCredit THEN wallet ELSE wallet + n
  /\ credit' = IF toCredit THEN [credit EXCEPT ![m] = @ + n] ELSE credit

\* What one redeemed outcome token is worth: the winner one, a voided half.
Redeemed(m, s, n) ==
  IF status[m] = "VOID" THEN n \div 2
  ELSE IF status[m] = (IF s = 0 THEN "YES" ELSE "NO") THEN n ELSE 0

Settled(m) == status[m] \in {"YES", "NO", "VOID"}

SetStatus(m, s) ==
  /\ \/ status[m] = "TRADING" /\ s = "LOCKED"
     \/ status[m] = "LOCKED" /\ s \in {"YES", "NO", "VOID"}
  /\ status' = [status EXCEPT ![m] = s]
  /\ UNCHANGED <<accountVars, grantVars, bookVars, wallet, credit, tokens, now, credited>>

Tick ==
  /\ now < MaxTime
  /\ now' = now + 1
  /\ UNCHANGED <<accountVars, grantVars, bookVars, venueVars, credited>>

-----------------------------------------------------------------------------
(* Trading.                                                                *)

\* `_recordFill`: an empty fill leaves no trace.
CountFill(o, m, f) ==
  fillCount' = IF f.cash = 0 /\ f.tokens = 0 THEN fillCount
               ELSE [fillCount EXCEPT ![o][m] = @ + 1]

RecordBuy(o, m, s, f) ==
  /\ CountFill(o, m, f)
  /\ costBase' = [costBase EXCEPT ![o][m] = @ + f.cash]
  /\ bought' = [bought EXCEPT ![o][<<m, s>>] = @ + f.tokens]
  /\ UNCHANGED <<proceedsBase, payoutBase, sold>>

RecordSale(o, m, s, f) ==
  /\ CountFill(o, m, f)
  /\ proceedsBase' = [proceedsBase EXCEPT ![o][m] = @ + f.cash]
  /\ sold' = [sold EXCEPT ![o][<<m, s>>] = @ + f.tokens]
  /\ UNCHANGED <<costBase, payoutBase, bought>>

\* `_book`: only a fill into an empty position attributes it to a grant.
Opens(o, id, f) == f.tokens # 0 /\ positionOf[o][id] = 0

\* Mutant: every buy re-attributes the position to its own grant.
BookReattributing(o, id, f, g) ==
  /\ positionOf' = [positionOf EXCEPT ![o][id] = @ + f.tokens]
  /\ positionGrantOf' = IF f.tokens # 0 THEN [positionGrantOf EXCEPT ![o][id] = g]
                        ELSE positionGrantOf

Book(o, id, f, g) ==
  /\ positionOf' = [positionOf EXCEPT ![o][id] = @ + f.tokens]
  /\ positionGrantOf' = IF Opens(o, id, f)
                        THEN [positionGrantOf EXCEPT ![o][id] = g]
                        ELSE positionGrantOf

\* Mutant: the sold tokens stay in the position.
BookSaleKeepingTokens(o, id, f) ==
  /\ available' = [available EXCEPT ![o] = @ + f.cash]
  /\ UNCHANGED <<positionOf, positionGrantOf>>

\* `_bookSale`: the proceeds are the owner's, whoever sold.
BookSale(o, id, f) ==
  /\ positionOf' = [positionOf EXCEPT ![o][id] = @ - f.tokens]
  /\ available' = [available EXCEPT ![o] = @ + f.cash]
  /\ UNCHANGED positionGrantOf

MayTrade(o, m) ==
  /\ status[m] = "TRADING"
  /\ SumFunction([p \in Owners |-> fillCount[p][m]]) < MaxFills

Buy(o, m, s, price, q, f, toCredit) ==
  LET worst == Escrow(s, price, q) IN
  /\ MayTrade(o, m)
  /\ Has(available[o], worst)
  /\ f \in BuyFills(q, worst)
  /\ available[o] >= f.cash
  /\ PoolDraw(m, worst, f.cash, toCredit)
  /\ tokens' = [tokens EXCEPT ![<<m, s>>] = @ + f.tokens]
  /\ available' = [available EXCEPT ![o] = @ - f.cash]
  /\ Book(o, <<m, s>>, f, ATTENDED)
  /\ RecordBuy(o, m, s, f)
  /\ UNCHANGED <<otherAccountVars, grantVars, status, now, credited>>

Sell(o, m, s, q, f, toCredit) ==
  /\ MayTrade(o, m)
  /\ Has(positionOf[o][<<m, s>>], q)
  /\ f \in SellFills(q)
  /\ PoolPays(m, f.cash, toCredit)
  /\ tokens' = [tokens EXCEPT ![<<m, s>>] = @ - f.tokens]
  /\ BookSale(o, <<m, s>>, f)
  /\ RecordSale(o, m, s, f)
  /\ UNCHANGED <<otherAccountVars, grantVars, status, now, credited>>

\* `_spend`: per-trade cap, UTC-day cap, then budget.
Today == now \div DayLength

\* Mutant: the daily counter is reset on the wrong days.
SpentTodayInverted(g) == IF grants[g].spentDay # Today THEN grants[g].spentToday ELSE 0

SpentToday(g) == IF grants[g].spentDay = Today THEN grants[g].spentToday ELSE 0

Charged(g, n, opened) ==
  [grants[g] EXCEPT !.budget = @ - n,
                    !.spentDay = Today,
                    !.spentToday = SpentToday(g) + n,
                    !.openPositions = IF opened THEN @ + 1 ELSE @]

\* Mutant: the cap on open positions is not looked at.
SpendOpeningMore(g, n, opened) ==
  /\ n <= grants[g].caps.maxStakePerTrade
  /\ SpentToday(g) + n <= grants[g].caps.maxDailySpend
  /\ grants[g].budget >= n
  /\ grants' = [grants EXCEPT ![g] = Charged(g, n, opened)]
  /\ spentOn' = [spentOn EXCEPT ![g][Today] = @ + n]

Spend(g, n, opened) ==
  /\ n <= grants[g].caps.maxStakePerTrade
  /\ SpentToday(g) + n <= grants[g].caps.maxDailySpend
  /\ grants[g].budget >= n
  /\ opened => grants[g].openPositions + 1 <= grants[g].caps.maxOpenPositions
  /\ grants' = [grants EXCEPT ![g] = Charged(g, n, opened)]
  /\ spentOn' = [spentOn EXCEPT ![g][Today] = @ + n]

WithinPriceCap(g, s, price) ==
  \/ grants[g].caps.maxPriceRaw = 0
  \/ SidePrice(s, price) <= grants[g].caps.maxPriceRaw

\* Mutant: the owner's available balance pays, the grant only counts.
BuyForOutOfBalance(actor, g, m, s, price, q, f, toCredit) ==
  LET worst == Escrow(s, price, q)
      o == grants[g].owner
      opened == Opens(o, <<m, s>>, f)
  IN
  /\ grants[g].actor = actor
  /\ Live(g)
  /\ MayTrade(o, m)
  /\ WithinPriceCap(g, s, price)
  /\ Has(available[o], worst)
  /\ available[o] >= f.cash
  /\ f \in BuyFills(q, worst)
  /\ PoolDraw(m, worst, f.cash, toCredit)
  /\ tokens' = [tokens EXCEPT ![<<m, s>>] = @ + f.tokens]
  /\ SpentToday(g) + f.cash <= grants[g].caps.maxDailySpend
  /\ opened => grants[g].openPositions < grants[g].caps.maxOpenPositions
  /\ grants' = [grants EXCEPT ![g] =
       [Charged(g, f.cash, opened) EXCEPT !.budget = grants[g].budget]]
  /\ spentOn' = [spentOn EXCEPT ![g][Today] = @ + f.cash]
  /\ delegated' = [delegated EXCEPT ![o] = @ + f.cash]
  /\ available' = [available EXCEPT ![o] = @ - f.cash]
  /\ Book(o, <<m, s>>, f, g)
  /\ RecordBuy(o, m, s, f)
  /\ UNCHANGED <<otherAccountVars, activeGrantOf, status, now, credited>>

\* `placeFor`, a buy: the grant's budget pays, the owner gets the tokens.
BuyFor(actor, g, m, s, price, q, f, toCredit) ==
  LET worst == Escrow(s, price, q)
      o == grants[g].owner
  IN
  /\ grants[g].actor = actor
  /\ Live(g)
  /\ MayTrade(o, m)
  /\ WithinPriceCap(g, s, price)
  /\ Has(grants[g].budget, worst)
  /\ f \in BuyFills(q, worst)
  /\ PoolDraw(m, worst, f.cash, toCredit)
  /\ tokens' = [tokens EXCEPT ![<<m, s>>] = @ + f.tokens]
  /\ Spend(g, f.cash, Opens(o, <<m, s>>, f))
  /\ delegated' = [delegated EXCEPT ![o] = @ + f.cash]
  /\ Book(o, <<m, s>>, f, g)
  /\ RecordBuy(o, m, s, f)
  /\ UNCHANGED <<accountVars, activeGrantOf, status, now, credited>>

\* `placeFor`, a sale: any position of the owner's, to the owner's balance.
SellFor(actor, g, m, s, q, f, toCredit) ==
  LET o == grants[g].owner IN
  /\ grants[g].actor = actor
  /\ Live(g)
  /\ MayTrade(o, m)
  /\ Has(positionOf[o][<<m, s>>], q)
  /\ f \in SellFills(q)
  /\ PoolPays(m, f.cash, toCredit)
  /\ tokens' = [tokens EXCEPT ![<<m, s>>] = @ - f.tokens]
  /\ BookSale(o, <<m, s>>, f)
  /\ RecordSale(o, m, s, f)
  /\ UNCHANGED <<otherAccountVars, grantVars, status, now, credited>>

-----------------------------------------------------------------------------
(* Settlement: anyone may crank it, the credit lands on the owner.         *)

SettledIds(o, m) == {id \in {m} \X Sides : positionOf[o][id] # 0}

\* The sides whose close takes one off grant g's count, one at a time.
Closing(o, m, g) ==
  IF positionGrantOf[o][<<m, 0>>] = g /\ positionGrantOf[o][<<m, 1>>] = g
     /\ SettledIds(o, m) = {m} \X Sides
  THEN 2
  ELSE IF \E id \in SettledIds(o, m) : positionGrantOf[o][id] = g THEN 1 ELSE 0

Minus(a, b) == IF a < b THEN 0 ELSE a - b

Payout(o, m) == Redeemed(m, 0, positionOf[o][<<m, 0>>])
                + Redeemed(m, 1, positionOf[o][<<m, 1>>])

CrankSettle(o, m, toCredit) ==
  /\ Settled(m)
  /\ SettledIds(o, m) # {}
  /\ grants' = [g \in GrantIds |->
       [grants[g] EXCEPT !.openPositions = Minus(@, Closing(o, m, g))]]
  /\ positionOf' = [positionOf EXCEPT ![o] =
       [id \in Ids |-> IF id \in SettledIds(o, m) THEN 0 ELSE @[id]]]
  /\ positionGrantOf' = [positionGrantOf EXCEPT ![o] =
       [id \in Ids |-> IF id \in SettledIds(o, m) THEN ATTENDED ELSE @[id]]]
  /\ tokens' = [id \in Ids |-> IF id \in SettledIds(o, m)
                               THEN tokens[id] - positionOf[o][id] ELSE tokens[id]]
  /\ PoolPays(m, Payout(o, m), toCredit)
  /\ available' = [available EXCEPT ![o] = @ + Payout(o, m)]
  /\ payoutBase' = [payoutBase EXCEPT ![o][m] = @ + Payout(o, m)]
  /\ UNCHANGED <<otherAccountVars, costBase, proceedsBase, fillCount, bought, sold,
                 activeGrantOf, spentOn, delegated, status, now, credited>>

-----------------------------------------------------------------------------
OwnerMoney(o) ==
  \E n \in Amounts :
    \/ Deposit(o, n)
    \/ CreditFor(o, n)
    \/ CreditPrivateFor(o, n)
    \/ Withdraw(o, n)
    \/ MoveToPrivate(o, n)
    \/ WithdrawPrivate(o, n)

OwnerGrants(o) ==
  \/ \E k \in SignedKinds, a \in Actors, caps \in CapsChoices,
        expiry \in 1..(MaxTime + 1), n \in {0} \cup Amounts, intake \in {0} \cup Amounts :
       GrantTo(o, k, a, caps, expiry, n, intake)
  \/ \E g \in GrantIds, n \in Amounts : FundGrant(o, g, n)
  \/ \E g \in GrantIds : Revoke(o, g)

OwnerTrades(o) ==
  \E m \in Markets, s \in Sides, q \in Quantities, toCredit \in Landings :
    \/ \E price \in Prices : \E f \in BuyFills(q, Escrow(s, price, q)) :
         Buy(o, m, s, price, q, f, toCredit)
    \/ \E f \in SellFills(q) : Sell(o, m, s, q, f, toCredit)

DelegateTrades(a) ==
  \E g \in GrantIds, m \in Markets, s \in Sides, q \in Quantities, toCredit \in Landings :
    \/ \E price \in Prices : \E f \in BuyFills(q, Escrow(s, price, q)) :
         BuyFor(a, g, m, s, price, q, f, toCredit)
    \/ \E f \in SellFills(q) : SellFor(a, g, m, s, q, f, toCredit)

Anyone ==
  \/ \E m \in Markets : Sweep(m)
  \/ \E o \in Owners, m \in Markets, toCredit \in Landings : CrankSettle(o, m, toCredit)

Venue == \E m \in Markets, s \in Statuses : SetStatus(m, s)

Next ==
  \/ \E o \in Acting : OwnerMoney(o) \/ OwnerGrants(o) \/ OwnerTrades(o)
  \/ \E a \in Actors : DelegateTrades(a)
  \/ Anyone
  \/ Venue
  \/ Tick

Spec == Init /\ [][Next]_vars

-----------------------------------------------------------------------------
(* Properties.                                                             *)

AccountsTypeOK ==
  /\ available \in [Owners -> Nat]
  /\ privateAvailable \in [Owners -> Nat]
  /\ totalDeposited \in [Owners -> Nat]
  /\ totalWithdrawn \in [Owners -> Nat]
  /\ credited \in [Owners -> Nat]

GrantsTypeOK ==
  /\ grants \in Seq(Grant)
  /\ Len(grants) <= MaxGrants
  /\ activeGrantOf \in [Owners -> [GrantKinds -> Nat]]
  /\ spentOn \in [1..MaxGrants -> [Days -> Nat]]
  /\ delegated \in [Owners -> Nat]

BooksTypeOK ==
  /\ positionOf \in [Owners -> [Ids -> Nat]]
  /\ positionGrantOf \in [Owners -> [Ids -> Nat]]
  /\ costBase \in [Owners -> [Markets -> Nat]]
  /\ proceedsBase \in [Owners -> [Markets -> Nat]]
  /\ payoutBase \in [Owners -> [Markets -> Nat]]
  /\ fillCount \in [Owners -> [Markets -> Nat]]
  /\ bought \in [Owners -> [Ids -> Nat]]
  /\ sold \in [Owners -> [Ids -> Nat]]

\* That the token balance covers the positions is CustodyIsAttributed below.
VenueTypeOK ==
  /\ wallet \in Nat
  /\ credit \in [Markets -> Nat]
  /\ tokens \in [Ids -> Int]
  /\ status \in [Markets -> Statuses]
  /\ now \in 0..MaxTime

TypeOK == AccountsTypeOK /\ GrantsTypeOK /\ BooksTypeOK /\ VenueTypeOK

\* A grant that is not revoked is the one its owner sees as active for its
\* kind, an active grant is a live record of that owner and kind, and a
\* revoked grant holds no money: an owner can always find, and take back,
\* every unit a delegate may still spend (`_grant`, `_revoke`).
BudgetsAreReachable ==
  /\ \A g \in GrantIds :
       IF grants[g].revoked THEN grants[g].budget = 0
       ELSE activeGrantOf[grants[g].owner][grants[g].kind] = g
  /\ \A o \in Owners, k \in GrantKinds :
       LET a == activeGrantOf[o][k] IN
       a # 0 => /\ a \in GrantIds
                /\ grants[a].owner = o /\ grants[a].kind = k
                /\ ~grants[a].revoked

\* What the buys of a grant cost in one UTC day never passes the daily cap
\* the owner signed, whatever mix of days, expiries and refunds came between
\* (`_spend` keeps one counter and one day per grant).
DailyCapHolds ==
  \A g \in GrantIds : \A d \in DOMAIN spentOn[g] :
    spentOn[g][d] <= grants[g].caps.maxDailySpend

\* Why it holds: the counter of a grant is what it spent on its last day of
\* spending, and nothing was spent on a later day or by a future grant.
DayBooks ==
  /\ \A g \in GrantIds :
       /\ grants[g].spentDay <= Today
       /\ spentOn[g][grants[g].spentDay] = grants[g].spentToday
       /\ \A d \in Days : d > grants[g].spentDay => spentOn[g][d] = 0
  /\ \A g \in 1..MaxGrants : g > Len(grants) =>
       \A d \in Days : spentOn[g][d] = 0

Inv == TypeOK /\ BudgetsAreReachable /\ DailyCapHolds /\ DayBooks

LentIn(o, k) ==
  IF activeGrantOf[o][k] = 0 THEN 0 ELSE grants[activeGrantOf[o][k]].budget

Lent(o) == LentIn(o, "SESSION") + LentIn(o, "EXECUTOR") + LentIn(o, "STRATEGY")
Own(o) == available[o] + privateAvailable[o]
Owed(o) == Own(o) + Lent(o)

\* What one owner paid in or earned, and what left the vault for it.
CameIn(o) == IntakeOf(o) + SumFunction(proceedsBase[o]) + SumFunction(payoutBase[o])
WentOut(o) == totalWithdrawn[o] + SumFunction(costBase[o])

\* The books of one owner balance: balances and lent budgets are what was
\* paid in, minus what was taken out, minus the cost plus the returns of
\* every fill and settlement the tallies recorded; and while a market trades
\* the position is what the tally says was bought and not sold.
BooksBalance ==
  \A o \in Owners :
    /\ Owed(o) + WentOut(o) = CameIn(o)
    /\ \A m \in Markets, s \in Sides : ~Settled(m) =>
         positionOf[o][<<m, s>>] + sold[o][<<m, s>>] = bought[o][<<m, s>>]

\* The pooled custody is fully attributed: wallet plus pool credit is the
\* sum of what the vault owes, and its outcome tokens are the sum of the
\* positions.  One owner's fill can therefore not use another's money.
CustodyIsAttributed ==
  /\ wallet + SumFunction(credit) = SumFunction([o \in Owners |-> Owed(o)])
  /\ \A id \in Ids :
       tokens[id] = SumFunction([o \in Owners |-> positionOf[o][id]])

\* The positions attributed to a grant that still hold tokens.
HeldUnder(g) ==
  {oid \in Owners \X Ids : /\ positionGrantOf[oid[1]][oid[2]] = g
                           /\ positionOf[oid[1]][oid[2]] # 0}

\* A position is attributed to a grant that exists, or to none.
AttributionIsKnown ==
  \A o \in Owners, id \in Ids : positionGrantOf[o][id] \in {ATTENDED} \cup GrantIds

\* A grant never holds more positions than its cap, and its count never
\* falls below what it holds, so closing one cannot free the cap twice.
PositionCapHolds ==
  \A g \in GrantIds :
    /\ Cardinality(HeldUnder(g)) <= grants[g].openPositions
    /\ grants[g].openPositions <= grants[g].caps.maxOpenPositions

\* What every order for an owner cost it, by the vault's own tally.
Ordered(o) == SumFunction(costBase[o])

\* The vault implements the abstract Trading Balance: no step takes one
\* owner's money for another; own money falls only when it is paid out to
\* the owner, lent, or spent in an order of the owner's own; and an order a
\* delegate placed (`placeFor`, recorded in `delegated`) is paid from the
\* lent budget to the last unit, never from the balances.
TB == INSTANCE TradingBalance WITH
        own <- [o \in Owners |-> Own(o)],
        lent <- [o \in Owners |-> Lent(o)],
        paidOut <- totalWithdrawn,
        ordered <- [o \in Owners |-> Ordered(o)]

NoDivert == TB!Spec

=============================================================================
