-------------------------- MODULE MarketMakerVault --------------------------
(***************************************************************************)
(* Pooled capital that makes markets: on each Window the maker rests a bid *)
(* for either side; pairs that fill are merged for the spread, the rest    *)
(* settles on the venue's verdict.  Per Window the vault keeps one book of *)
(* what went out and what came back; a supplier's shares are worth the     *)
(* liquid capital plus what those books count as deployed.                 *)
(*                                                                         *)
(* The venue is the environment: takers fill what rests, anyone may drain  *)
(* expired orders, and an expired order may be `lazy`: off the open list,  *)
(* and refunded inside the vault's next placement on its pool.  `wallet`   *)
(* counts the pools' credit too.                                           *)
(***************************************************************************)
EXTENDS ShareLedger, SequencesExt

CONSTANTS
  Markets, Expiry, ParamsChoices,
  Bids, Asks, Quantities,  \* what the maker may quote
  Lot,                     \* a fill is a whole number of lots
  One,                     \* one whole unit of collateral
  LazyChoices,             \* what the venue may do about expired orders
  MaxQuotes,               \* bound: quotes ever placed
  MaxTime                  \* bound: the last block timestamp

VARIABLES
  books,    \* _books: market |-> WindowBook
  open,     \* _open: the Windows quoted and not settled
  openAt,   \* _openAt: market |-> index in `open`, 0 for none
  params,
  armed,    \* whether `maker` is a key
  orders,   \* the venue: the vault's orders, in the order they were placed,
  tokens,   \*   market |-> side |-> outcome tokens it holds,
  status, lazy, now,
  spent,    \* history: market |-> escrow that was spent on fills
  drained   \* history: market |-> escrow a stranger's drain brought back

bookVars == <<books, open, openAt>>
venueVars == <<orders, tokens, spent, drained>>
clockVars == <<status, lazy, now>>
vars == <<ledgerVars, bookVars, params, armed, venueVars, clockVars>>

Sides == {"YES", "NO"}
Params == [maxExposureBps: 0..BPS, minSpreadRaw: 1..(One - 1),
           minPriceRaw: Nat \ {0}, maxPriceRaw: Nat,
           maxQuantityRaw: Nat \ {0}, maxWindowDeployed: Nat \ {0},
           maxOpenWindows: 1..64, minTimeLeftSec: Nat \ {0}]

MakerAssumption ==
  /\ IsFiniteSet(Markets) /\ Expiry \in [Markets -> Nat] /\ LazyChoices \subseteq BOOLEAN
  /\ ParamsChoices \subseteq Params
  /\ \A p \in ParamsChoices : p.minPriceRaw < p.maxPriceRaw /\ p.maxPriceRaw < One
  /\ Bids \cup Asks \cup Quantities \subseteq Nat /\ One \in Nat \ {0}
  /\ {MaxQuotes, MaxTime} \subseteq Nat

Unquoted == [escrowOut |-> 0, escrowBack |-> 0, merged |-> 0, payout |-> 0,
             quoted |-> FALSE, settled |-> FALSE]

Init ==
  /\ LedgerInit
  /\ books = [m \in Markets |-> Unquoted]
  /\ open = << >> /\ openAt = [m \in Markets |-> 0]
  /\ params \in ParamsChoices /\ armed = TRUE
  /\ orders = << >> /\ tokens = [m \in Markets |-> [x \in Sides |-> 0]]
  /\ status = [m \in Markets |-> "TRADING"] /\ lazy \in LazyChoices /\ now = 0
  /\ spent = [m \in Markets |-> 0] /\ drained = [m \in Markets |-> 0]

-----------------------------------------------------------------------------
(* What the books count.                                                   *)

Back(b) == b.escrowBack + b.merged + b.payout
deployedOf(b) == IF b.escrowOut > Back(b) THEN b.escrowOut - Back(b) ELSE 0
totalDeployed == SumFunction([k \in 1..Len(open) |-> deployedOf(books[open[k]])])
totalValue == liquid + totalDeployed

\* Mutant: a Window is over a second late.
unsettledAfterExpiry == {k \in 1..Len(open) : Expiry[open[k]] < now}
\* An open Window past its expiry blocks every withdrawal.
unsettledExpired == {k \in 1..Len(open) : Expiry[open[k]] <= now}

Supply(s, amount) ==
  Buy(s, amount, totalValue) /\ UNCHANGED <<bookVars, params, armed, venueVars, clockVars>>

Withdraw(s, shares) ==
  /\ unsettledExpired = {}
  /\ Redeem(s, shares, totalValue)
  /\ UNCHANGED <<bookVars, params, armed, venueVars, clockVars>>

-----------------------------------------------------------------------------
(* The vault's orders on a Window's pool.                                  *)

EscrowOf(side, price, quantity) ==
  (quantity * IF side = "YES" THEN price ELSE One - price) \div One

Expired(o) == o.expireAt <= now
On(m) == {i \in 1..Len(orders) : orders[i].market = m /\ orders[i].quantity > 0}
Resting(i) == EscrowOf(orders[i].side, orders[i].price, orders[i].quantity)
EscrowIn(ids) == SumFunction([i \in 1..(2 * MaxQuotes) |-> IF i \in ids THEN Resting(i) ELSE 0])

ExpiredOn(m) == {i \in On(m) : Expired(orders[i])}
\* `getOwnOpenOrders`.
Listed(m) == IF lazy THEN On(m) \ ExpiredOn(m) ELSE On(m)
Without(ids) == [i \in 1..Len(orders) |->
  IF i \in ids THEN [orders[i] EXCEPT !.quantity = 0] ELSE orders[i]]

Order(m, side, price, quantity, expireAt) ==
  [market |-> m, side |-> side, price |-> price, quantity |-> quantity, expireAt |-> expireAt]

-----------------------------------------------------------------------------
(* The maker quotes both sides of a Window.                                *)

\* The refusals that do not depend on the venue's answer.
Quotable(m, bid, ask, quantity, expireAt) ==
  /\ armed /\ ~paused
  /\ quantity \in 1..params.maxQuantityRaw
  /\ {bid, ask} \subseteq params.minPriceRaw..params.maxPriceRaw
  /\ ask >= bid + params.minSpreadRaw
  /\ status[m] = "TRADING" /\ ~books[m].settled
  /\ Expiry[m] >= now + params.minTimeLeftSec
  /\ expireAt \in (now + 1)..Expiry[m]
  /\ books[m].quoted \/ Len(open) < params.maxOpenWindows

UnbookedRefund(refund) == 0  \* mutant
\* What a placement returns beyond its own escrow is booked as the Window's.
Returned(refund) == refund

Quote(m, bid, ask, quantity, expireAt) ==
  LET refunded == IF lazy THEN ExpiredOn(m) ELSE {}
      returned == Returned(EscrowIn(refunded))
      escrow == EscrowOf("YES", bid, quantity) + EscrowOf("NO", ask, quantity)
      b == [books[m] EXCEPT !.escrowBack = @ + returned, !.escrowOut = @ + escrow,
                            !.quoted = TRUE]
      left == liquid + returned - escrow
      deployed == totalDeployed - deployedOf(books[m]) + deployedOf(b)
  IN
  /\ Len(orders) + 2 <= 2 * MaxQuotes
  /\ Quotable(m, bid, ask, quantity, expireAt)
  /\ liquid >= ((bid + One - ask) * quantity) \div One /\ left >= 0
  /\ deployedOf(b) <= params.maxWindowDeployed
  /\ deployed * BPS <= (left + deployed) * params.maxExposureBps
  /\ Move(left, wallet + EscrowIn(refunded) - escrow)
  /\ books' = [books EXCEPT ![m] = b]
  /\ IF books[m].quoted THEN UNCHANGED <<open, openAt>>
     ELSE open' = Append(open, m) /\ openAt' = [openAt EXCEPT ![m] = Len(open) + 1]
  /\ orders' = Without(refunded) \o
       <<Order(m, "YES", bid, quantity, expireAt), Order(m, "NO", ask, quantity, expireAt)>>
  /\ UNCHANGED <<params, armed, tokens, spent, drained, clockVars>>

\* The maker at any time, anyone once the Window is over.
Pull(m) ==
  LET returned == EscrowIn(Listed(m)) IN
  /\ armed \/ now >= Expiry[m]
  /\ Listed(m) # {}
  /\ Move(liquid + returned, wallet + returned)
  /\ books' = [books EXCEPT ![m].escrowBack = @ + returned]
  /\ orders' = Without(Listed(m))
  /\ UNCHANGED <<open, openAt, params, armed, tokens, spent, drained, clockVars>>

Merge(m) ==
  LET pairs == IF tokens[m]["YES"] < tokens[m]["NO"] THEN tokens[m]["YES"] ELSE tokens[m]["NO"] IN
  /\ pairs # 0
  /\ Move(liquid + pairs, wallet + pairs)
  /\ books' = [books EXCEPT ![m].merged = @ + pairs]
  /\ tokens' = [tokens EXCEPT ![m] = [x \in Sides |-> @[x] - pairs]]
  /\ UNCHANGED <<open, openAt, params, armed, orders, spent, drained, clockVars>>

\* A winning token pays one, a voided one half.
Payout(m) ==
  CASE status[m] = "VOID" -> tokens[m]["YES"] \div 2 + tokens[m]["NO"] \div 2
    [] OTHER -> tokens[m][status[m]]

\* The last Window takes the place of the one that goes.
RemoveOpen(m) ==
  LET at == openAt[m]
      moved == open[Len(open)]
  IN /\ open' = [k \in 1..(Len(open) - 1) |-> IF k = at THEN moved ELSE open[k]]
     /\ openAt' = [openAt EXCEPT ![moved] = at, ![m] = 0]

Settle(m) ==
  LET returned == EscrowIn(Listed(m))
      payout == Payout(m)
  IN
  /\ books[m].quoted /\ ~books[m].settled
  /\ status[m] \in Sides \cup {"VOID"}
  /\ Move(liquid + returned + payout, wallet + returned + payout)
  /\ books' = [books EXCEPT ![m].escrowBack = @ + returned, ![m].payout = @ + payout,
                            ![m].settled = TRUE]
  /\ orders' = Without(Listed(m))
  /\ tokens' = [tokens EXCEPT ![m] = [x \in Sides |-> 0]]
  /\ RemoveOpen(m)
  /\ UNCHANGED <<params, armed, spent, drained, clockVars>>

SetParams(next) ==
  /\ params' = next
  /\ UNCHANGED <<ledgerVars, bookVars, armed, venueVars, clockVars>>

SetMaker(next) ==
  /\ armed' = next
  /\ UNCHANGED <<ledgerVars, bookVars, params, venueVars, clockVars>>

SetPaused(next) == Pause(next) /\ UNCHANGED <<bookVars, params, armed, venueVars, clockVars>>

-----------------------------------------------------------------------------
(* The venue.                                                              *)

Fill(i, n) ==
  LET o == orders[i]
      left == EscrowOf(o.side, o.price, o.quantity - n)
  IN
  /\ status[o.market] = "TRADING" /\ ~Expired(o)
  /\ n \in 1..o.quantity /\ n % Lot = 0
  /\ orders' = [orders EXCEPT ![i].quantity = @ - n]
  /\ tokens' = [tokens EXCEPT ![o.market][o.side] = @ + n]
  /\ spent' = [spent EXCEPT ![o.market] =
       @ + EscrowOf(o.side, o.price, o.quantity) - left]
  /\ UNCHANGED <<ledgerVars, bookVars, params, armed, drained, clockVars>>

\* `cancelExpiredOrders` is anyone's to call, and pays the vault.
Drain(m) ==
  LET refund == EscrowIn(ExpiredOn(m)) IN
  /\ ExpiredOn(m) # {}
  /\ orders' = Without(ExpiredOn(m))
  /\ drained' = [drained EXCEPT ![m] = @ + refund]
  /\ Move(liquid, wallet + refund)
  /\ UNCHANGED <<bookVars, params, armed, tokens, spent, clockVars>>

Resolve(m, s) ==
  /\ now >= Expiry[m]
  /\ \/ status[m] = "TRADING" /\ s = "LOCKED"
     \/ status[m] = "LOCKED" /\ s \in Sides \cup {"VOID"}
  /\ status' = [status EXCEPT ![m] = s]
  /\ UNCHANGED <<ledgerVars, bookVars, params, armed, venueVars, lazy, now>>

Tick ==
  /\ now < MaxTime /\ now' = now + 1
  /\ UNCHANGED <<ledgerVars, bookVars, params, armed, venueVars, status, lazy>>

Next ==
  \/ \E s \in Suppliers, a \in Supplies : Supply(s, a)
  \/ \E s \in Suppliers, n \in Redemptions : Withdraw(s, n)
  \/ \E m \in Markets, bid \in Bids, ask \in Asks, q \in Quantities :
       \E t \in (now + 1)..Expiry[m] : Quote(m, bid, ask, q, t)
  \/ \E m \in Markets : Pull(m) \/ Merge(m) \/ Settle(m) \/ Drain(m)
  \/ \E i \in 1..Len(orders) : \E n \in 1..orders[i].quantity : Fill(i, n)
  \/ \E p \in ParamsChoices : SetParams(p)
  \/ \E b \in PauseChoices : SetPaused(b) \/ SetMaker(b)
  \/ \E m \in Markets, s \in Sides \cup {"LOCKED", "VOID"} : Resolve(m, s)
  \/ Tick

Spec == Init /\ [][Next]_vars

-----------------------------------------------------------------------------
\* What went out of a Window's book and has not come back as escrow is what still
\* rests, what fills spent and what a stranger drained, however it came back: by a
\* pull, a settlement or a later placement.  The wallet is the liquid capital and
\* what was drained, and the list that is valued is the Windows still open.
BooksBalance ==
  /\ \A m \in Markets :
       books[m].escrowOut - books[m].escrowBack = EscrowIn(On(m)) + spent[m] + drained[m]
  /\ wallet = liquid + SumFunction(drained)
  /\ \A k \in 1..Len(open) : books[open[k]].quoted /\ ~books[open[k]].settled
  /\ \A m \in Markets : books[m].quoted /\ ~books[m].settled =>
       openAt[m] \in 1..Len(open) /\ open[openAt[m]] = m

\* "No one can exit ahead of a loss the crank has not yet booked"
\* (MarketMakerVault.sol:19): a supplier leaves only once the verdict of every
\* Window that was quoted and is over is in the books.
LossesAreBooked ==
  supplyShares' < supplyShares =>
    \A m \in Markets : books[m].quoted /\ Expiry[m] <= now => books[m].settled

NobodyOutrunsALoss == [][LossesAreBooked]_vars

\* "Pulls any dead quotes" (MarketMakerVault.sol:210): nothing of the vault's rests on
\* a Window whose book is closed.
NothingIsLeftBehind == \A m \in Markets : books[m].settled => On(m) = {}

House == INSTANCE HouseShares WITH atRisk <- totalDeployed
HouseSpec == House!Spec

=============================================================================
