# A verification project for Masayume

Masayume is an event-market trading product: people bet on short up/down *Windows*
(binary markets of a venue called DreamDEX), from a web application, through a pooled
Trading Balance, by mentioning an account on X, through strategy runners, in duels, and
against houses that lend, combine or price bets. The repository holds its contracts
(`src/contracts`), its always-on services (`src/services/ops`), its libraries
(`src/packages`) and the web application (`src/web`).

This directory models the parts that hold money or decide over it, and the protocols of the
services that act for absent people. The specifications are translated from the source;
`PROJECT.json` maps every definition to the lines it stands for. TLC checks them on small
instances, and TLAPS proves the main theorems for every value of the constants.

## 1. Inventory

| Component | State it keeps | Operations | Status here |
| --- | --- | --- | --- |
| EventVault, the Trading Balance (`contracts/src/vault`) | two balances per owner, typed grants, positions with the grant that opened them, per-market tallies | deposit, credit, withdraw, move to private, grant, fund, revoke, place, placeFor, crankSettle, sweep | modelled: `EventVault` |
| GameArena, duels (`contracts/src/games`) | matches, sealed and revealed decks, picks, settled cards, pots, credits, agents of a seat | create, join, cancel, refund, reveal, pick (by player or agent), lock, settleCard, finalize, claimCredit, admin settings | modelled: `GameArena` |
| LeverageReserve (`contracts/src/leverage`) | capital shares, liquid and outstanding capital, positions, the list of open ones and its index | supply, withdraw, open, close, knockOut, settle, setParams, setPaused | modelled: `LeverageReserve` over `ShareLedger` |
| ParlayReserve (`contracts/src/parlay`) | capital shares, locked liability in total and by expiry, tickets and their legs | supply, withdraw, openParlay, resolveLeg, claim, setParams, setPaused | modelled: `ParlayReserve` over `EscrowBook`, joined in `Houses` |
| RangeReserve (`contracts/src/range`) | the same books, rounds, proofs cached per Window, volatilities | supply, withdraw, openRange, settle, voidStale, claim, setParams, setVolatility, setPaused | modelled: `RangeReserve` over `EscrowBook`, joined in `Houses` |
| PrivateDesk (`contracts/src/private`) and the desk's server side (`packages/markets/src/private`) | owners' balances and allowances, the pool, slots, used keys; tickets in browsers | deposit, allow, withdraw, charge, fund, mint, settle, sweep, credit; open a bet, cash it out | modelled: `PrivateDesk`, `DeskService` |
| X relay (`ops/actors/x-relay`, `packages/db/src/x*.ts`) | cursor, one receipt per mention, one reply delivery per receipt | poll, claim, checkpoint, journal, send, receipt, save, recover; lease, prepare, post, acknowledge | modelled: `XRelay` |
| MarketMakerVault (`contracts/src/maker`) | capital shares, one book per Window, the list of open Windows and its index | supply, withdraw, quote, pull, merge, settle, setParams, setMaker, setPaused | modelled: `MarketMakerVault` over `ShareLedger`, joined in `Houses` |
| Strategy runner (`ops/actors/strategy-runner`, `packages/db/src/strategy-*.ts`) | one attempt per strategy, subscriber, Window and kind; one decision per agent and Window | tick, reconcile, settle, scan, ask the model, reserve, send, record | modelled: `StrategyRunner` |
| Matchmaker (`ops/actors/matchmaker`) | joins in flight, queue, pairings, deals in flight, held creations | join, leave, close, reveal seed, deal, commit, sweep, check and release a held creation | modelled: `Matchmaker` |
| Duel projector (`ops/actors/duel-projector`, `packages/db/src/games.ts`) | match rows, payouts, ratings, the cursor; a cache of live matches | read spans of the log, apply each event, rate, save the cursor | modelled: `DuelProjector` |
| Duel settler (`ops/actors/duel-settler`) | none of its own | lists the live rows, cranks the arena's permissionless calls, opens decks | modelled: `DuelProjector`; what the arena accepts is `GameArena`'s |
| Submitter lanes (`packages/markets`) | intent journal | journal, simulate, send, await, settle a failure, recover | partly: the vault lane inside `XRelay` and `StrategyRunner`, the desk's lane in `DeskService` |
| Game room server (`ops/actors/game-room`) | rooms, presence | queue, seed and close handlers, snapshots | partly: the handlers that reach the matchmaker |
| packages/core | none | matchmaking rules, boost and parlay arithmetic, copy | partly: the rules inside `Matchmaker`, `LeverageReserve`, `ParlayReserve` |
| packages/db | the services' tables | one statement or transaction each | partly: the receipts, deliveries, attempts, decisions and duel tables, with the actor that writes them |
| StrategyRegistry, SeasonPrizePool, keepers and the market maker's loop, brain, web, scripts | see `PROJECT.json` | | not modelled (section 9) |

### How they interact

* The **contracts** (vault, arena, the three reserves, the maker's vault, the desk) run each external function as one
  atomic transaction; what interleaves is the order of transactions of owners, delegates, suppliers,
  players, cranks, the admin and the venue. They call the venue's pools synchronously; a fill may be
  empty, partial or whole, refunds and payouts may land in the wallet or as credit on the pool.
* The **X relay** holds the key named by an owner's EXECUTOR grant and trades through
  `EventVault.placeFor`. Its two loops (poll and reply delivery) share a Postgres database and
  run concurrently; the process may die between any two awaits.
* The **desk's server side** holds the one key `PrivateDesk` pins. It keeps no record of a bet: every
  request reads the contract and continues the walk of sends from there. The bet's owner and its
  slot are joined only by a ticket that process signs.
* The **strategy runner** holds the key named by its subscribers' STRATEGY grants and trades and
  settles through the same vault, one timer-driven tick at a time over two tables of the database.
  A deploy may overlap two processes on the one key.
* The **matchmaker** pairs two sockets, has each reveal the seed it queued with, deals a deck and
  commits it; one of the players brings the match on chain, in `GameArena.createMatch`. The **duel
  projector** turns the arena's log into rows, and the **duel settler** takes its worklist from them:
  it sends the arena cranks that the contract lets anyone send, and opens decks, which needs the seeds
  only this service keeps. A match the rows do not show is refunded unopened.
* The **reserves** read the venue's book when a bet opens and its verdict (or the oracle hub's
  answer) when it ends. The **maker's vault** rests orders on the venue's book on one key's call;
  takers fill them, and the venue returns what expired when it likes.

### What is hard in this system, and what makes each part correct

* *EventVault.* One wallet holds everyone's money; orders escrow the worst case before they
  fill. A grant ends in three ways (revoked, expired, superseded). A position can be opened by a
  delegate, sold by the owner, and settled by anyone. Correct when: the custody is attributed to
  the last unit; no step moves one owner's money for another; a delegate's order is paid from the
  lent budget alone, within the day's cap and the position cap; every lent unit can be taken back.
* *GameArena.* Absent players, admin pauses, agents renamed mid-match, two matches over one
  Window, cards settled by anyone in any order and at any time. Correct when: pots, credits and
  tokens are attributed; a pot goes to the seats that filled it, once, in full, by the play; no
  pick is left on a card nobody may settle; every match ends and every pick is paid.
* *Reserves.* Five books (liquid, outstanding or locked, per market or expiry, positions, tokens)
  move in every call; exits are partial, legs resolve in any order, oracles stay silent, capital
  comes and goes at a computed value. Correct when: the totals are the sums of what is live; the
  open list is what is open; nobody leaves at a value that is stale; no entry or exit dilutes the
  others; each bet ends the way the venue or the hub says, and ends.
* *Maker's vault.* What was paid out comes back by cancels, refunds inside the next placement,
  merges, settlements, and by strangers. Correct when: each Window's book follows what rests, was
  spent and came back; the list that is valued is the open Windows; nobody leaves ahead of a loss.
* *Private desk.* A bet is six transactions by a process that may stop after each, over a contract
  that cannot join its two halves. Correct when: the pool is bet by bet what each has in it, a
  ticket stands for a bought position, and a charge comes home. A refund that finds the position
  bought after all breaks the first for another bet (`desk_late_refund`).
* *X relay.* Crashes, lost answers, late public posts, leases that pass to another loop.
  Correct when: a mention is executed at most once and none is lost; a receipt says what the
  chain says; nothing is sent while an earlier broadcast is unresolved; at most one public reply.
* *Strategy runner.* The reservation, the send, its answer and its record are four awaits; two
  strategies may share one grant and one key; a settlement burns both sides of a position that
  others may have touched. Correct when: a Window gets one order, one settlement and one read of
  the model; no order leaves while another order may land; a row is true of its own transaction; each
  fill is recorded in the end.
* *Matchmaker.* State read before an await and used after it; a deal that hangs; a deck whose match
  lands late. Correct when: a deck is committed only to a pairing that stands, an ended pairing
  locks nobody out, and each pair ends on chain or is told it is over.
* *Duel projector and settler.* Cycles overlap on one cursor, one cache and one set of rows; an event
  that fails is given up; a restart rebuilds a match from the arena half-way through its log. Correct
  when: a match that still owes something is on the worklist, a result moves the ladder once, and a
  duel both players paid for is opened or refunded, ended, and told as it ended.

`PROJECT.json` lists the hazards one by one, at their lines, with the properties that cover them.

## 2. Plan

| Order | Module | Abstract specification | Runs | Theorems |
| --- | --- | --- | --- | --- |
| 1 | `EventVault` (done) | `TradingBalance` | vault | types, budgets, both caps, refinement, custody and books (done) |
| 2 | `GameArena` (done) | `SidePot` | arena_duel, arena_shared | types, stranded picks, attribution, credits, the pot follows the play, refinement (done) |
| 3 | `XRelay` (done) | none | ops, relay_refused | types and all its safety properties; no refusal is wrong without a reset (done) |
| 4 | `ShareLedger`, `LeverageReserve` (done) | `HouseShares` | leverage | types, books, open list, stale value, repayment order, refinement (done) |
| 5 | `EscrowBook`, `ParlayReserve`, `RangeReserve` (done) | `HouseShares` | houses | types, the books, bets end as judged, refinement (done) |
| 6 | `PrivateDesk`, `DeskService` (done) | none | desk, desk_late_refund | types, the pool, tickets (done) |
| 7 | `Matchmaker` (done) | none | ops | nobody locked out, decks for standing pairings (done) |
| 8 | `MarketMakerVault` (done) | `HouseShares` | houses, maker_dead_quotes | types, the books, nobody outruns a loss, refinement (done) |
| 9 | `StrategyRunner` (done) | none | strategy_runner | types, once per Window, one order in flight, true rows (done) |
| 10 | `DuelProjector` (done) | none | ops, arena_shared, projector_overlap | the worklist is complete, the ladder counts once (done) |
| 11 | the market maker's loop | none | one | none planned |

## 3. Conventions

A constant with the word *bound* in its comment exists for model checking; theorems hold for
every value of it. Variables with the word *history* are not in the code: they record what
happened for a property to speak of. A *mutant* is an operator beside the definition it deforms,
with the bug a plausible edit would make; it is used by no specification. Where a run checks two or
three instances of a component, or several loops of one service, its MC module instantiates
each and a variable says which one a behaviour is of; a variable that is not that one's is constant.
Three modules only join others, so that what a run checks of them and what is proved of them is one
definition: `Houses` (the three houses with one supplier's ledger), `Duels` (the arena and the projector of
its log) and `Ops` (the relay and the matchmaker). `CHECK_DEADLOCK FALSE`
is set in every configuration because the bounds (last timestamp, amount of intake, number of
mentions, joins or bets) let a behaviour end; nothing in the code waits for anything that could
block it, so "everybody stuck" is stated as liveness instead, where it matters.

## 4. The modules

### EventVault and TradingBalance

`EventVault` has one action per external function of `EventVault.sol`, with the internal helpers
(`_take`, `_revoke`, `_spend`, `_book`, `_bookSale`, the tallies of `VaultTally`) as operators.
A revert is a step that does not happen, so each `revert` is the negation of a guard. `Buy` and
`BuyFor` model `_cash`-before-and-after accounting: the order's whole limit is drawn from pool
credit first and the wallet second, any number of lots fills, and the rest returns to either
place (`PoolDraw`). `MaxFee` lets a fill cost more than the limit, as a venue fee would. A record
of the grant array keeps `spentDay` and `spentToday`, so the daily counter's lazy reset is the
code's own (`SpentToday`). Position slots follow `_spend`/`crankSettle` exactly, saturating
subtraction included.

`TradingBalance` is what the contract promises an owner: own money, lent money, money paid out,
what orders cost, and who may move which. The history variable `delegated` records, at each `BuyFor`,
what an order placed by a delegate cost its owner; `ordered` is what all orders cost, which the
contract's own tally keeps (`costBase`). `NoDivert` is the statement that the vault implements
`TradingBalance` under `own = available + privateAvailable`, `lent = ` the budgets of the active
grants. A step that raises `delegated` must take exactly that from `lent` and leave `own` alone
(`DelegateSpends`); one that raises `ordered` only is the owner's and must leave `lent` alone
(`OwnerSpends`). A delegate's order charged to `available` is therefore neither: that is one of its mutants.

`Acting` is a bound: the owners who act in an instance. It is all of them or one.

Abstracted: timestamps and indices of records, events, truncation to `uint128` (amounts are
far below it: bounded by the collateral's supply), the trusted forwarder (the caller is whoever
signed), and the per-owner market list.

### GameArena and SidePot

One action per external function of `GameArena.sol` and the contracts it inherits
(`ArenaMatches`, `ArenaAgents`, `ArenaGateway`). A deck commitment is the deck itself: the hash
is taken to be injective. Pool credit is collected in the call that caused it (`_collect`), so it
is zero between calls. `Set*` are the admin's; the parameters may change under a running match,
as on chain, and an illegal choice reverts. `SettleCard` marks a card for both seats, whether or not
both have picked; `Finalize` asks for every card somebody *played*.

`SidePot` is what the arena promises about a pot: equal stakes, given away once, in full, to the
seats that put it in.

Abstracted: hand-over of the admin role, native gas for agents, and the views.

### ShareLedger, HouseShares and LeverageReserve

`ShareLedger` is the capital side that every reserve of the product repeats: shares bought and
redeemed at a value the caller passes in, with the rounding of `supply` and `withdraw`, a pause that
stops supplies and opens but no exit, and the wallet beside the booked `liquid`. `HouseShares` is
the abstract promise: capital enters and leaves at no better than its value, bets move capital but
no share. Its theorem `ShareValueHolds` says what the promise is worth: no entry or exit lowers
what a remaining share is worth.

`LeverageReserve` adds `open`, `close`, `knockOut`, `settle` and the admin's settings. The open
list with its swap-and-pop and its index (`RemoveOpen`) is modelled as the code keeps it, and
`unsettledExpired` is the scan that blocks a withdrawal. `Terms` is the arithmetic of
`LeverageMath` with its rounding. What the book offers and what a sale fetches are choices
(`Offers`, `Proceeds`); a fill is a whole number of lots and may be partial. A position's record
keeps three history fields (`proceeds`, `reclaimed`, `returned`) for the repayment property.

### EscrowBook, ParlayReserve and RangeReserve

`EscrowBook` is what the two reserves share line for line: `_escrow` with its two caps (the house's
exposure and each expiry's), the release that saturates at zero, and the three ends of a bet.
`ParlayReserve` adds tickets with legs resolved one at a time by anyone, and the correlated price
of a combination; `RangeReserve` adds rounds over the oracle hub's questions, the proofs cached at
a Window's first open, and the refund of a round whose question stays silent. The probability of a
band (`RangeMath` over the book's centre) is a choice, `Stakes`.

`Houses` puts the two and the maker's vault beside each other, `house` saying which one a behaviour is of:
`MoneyIsBooked`, `BetsEndAsJudged`, `IsAHouse` and `NobodyOutrunsALoss` are each house's own statement, and
`IsAHouse` is one abstract specification for all three (what is at risk is `locked`, or what the vault deployed).

### MarketMakerVault

`Quote`, `Pull`, `Merge` and `Settle` are the vault's calls over `ShareLedger`; `Supply` and `Withdraw`
value the shares at `totalValue`, liquid capital plus what each open book counts as deployed. A book
is the code's `WindowBook`; the open list has the swap-and-pop of `_removeOpen`. The venue is
translated from what the gateway and its tests say of it (`MockMakerVenue.sol`): orders rest until
`expireAt`, takers fill lots of them (`Fill`), and a *lazy* venue takes expired orders off
`getOwnOpenOrders` and refunds them inside the vault's next placement on that pool, which `_rest`
measures and `Quote` books (`Returned`). `Drain` is a stranger's `cancelExpiredOrders`. `wallet` is what
the vault could spend, its ERC-20 balance and its pool credit.

Abstracted: the history of Windows, timestamps of a book, and orders of other makers.

### PrivateDesk and DeskService

`PrivateDesk` has the contract's calls over one record per bet: the contract's charge key, slot and
credit key of one bet are unlinkable on chain, and the model joins them, as only the desk and the
owner can. `DeskService` is the server: `OpenBet` and `CashOut` are the requests, each a walk of
sends decided by what the contract shows; `Send` simulates and broadcasts on the key's queue, `Mine`
executes in nonce order, and `Refuse`, `LoseReply`, `GiveUp`, `DropTx` and `LoseTicket` are what may go
wrong. The slot lock of a process (`withLock`) is the process itself; two processes have two locks. `Decide` has no
guard: a Window is decided whatever the desk is doing for its bets, as on chain.

A mint that lands although its reply was lost is refunded as if it had been refused. As long as the position
is open the sweep reverts, and the bet is found bought when the owner asks again. Once its Window is
decided and anyone has settled the slot, the sweep returns what is left of the fill and the payout, and the whole stake is credited
(`RefundedBought`). Two properties name this as their one exception: `PoolIsEachBets` lets only such a bet be
credited more than it brought (`Overdrawn`), and `ChargesComeHome` excuses that bet, and the others while some
bet is overdrawn. `PoolIsUnclaimed`, the contract's own words about its pool, has no exception and is
violated (`desk_late_refund`).

### XRelay

An action is what happens from one `await` to the next, in one of two loops:

* the **poller** (`pc`): `StartCycle`, `Recover`, `Fetch`, then per mention `SkipOwnReply`,
  `Pause` or `Claim`; `Checkpoint`, `Record` (the intent), `Broadcast`, `Answered`, `MarkSent` (the
  hash), `Mined` or `NotMinedInTime`, `Save`, `SetCursor`. `Refuse`, `TimedOut`, `ConnectionLost`,
  `NotRecorded`, `Throw` are its error paths; `Interrupt` is a crash, or an exception that ends
  the cycle, at any of them;
* the **delivery loops** (`wpc`): `MarkInterrupted`, `Acquire`, `BeginPost`, `Post`, `Finish`,
  `NotAcknowledged`, `PreparationFails`, `WorkerDies`. A restarted loop meets the leases of the
  one before, so there may be two.

A receipt row is its status and three facts: the target is checkpointed, the intent is recorded,
the hash is known. What was sent to the chain or to X is kept apart (`tx`, `posts`) from what the
rows know of it. `Findings` is the recovery's rule: with a hash, that transaction's receipt;
without one, the single `Executed` event of the checkpointed nonce, which a reverted transaction
does not have.

There is one poller (x-relay/README.md: "Run one ops machine only", and a busy gate), so awaits
between which nobody else writes what is read are one step: `canExecute` with `claim`, `getCursor`
with `fetch`, the two checkpoints. For the same reason the compare-and-set of
`xStoreRecoveredReceipt` always succeeds. The "receipt-not-ready" branch of the delivery is left
out: a row that was queued for a reply never returns to `submitted`. Ages (15 seconds, five minutes) are
choices: a cycle may come too early for a row, and a lease may pass away from a loop that is still
alive; both are counted among the faults, because time alone cures them.

The README of the relay says a mention whose process died between claim and receipt "will not
execute again or receive an automatic reply", and that the journal is process-local. The source
has moved on: the journal is the row, recovery turns such a row into `unknown`, and the reply
loop then answers it. The model follows the source.

### StrategyRunner

An action is what happens from one `await` to the next in one process (`pc`):

* the **tick**: `Tick` (with the first tick's `interruptStrategyDecisions`), `List` and `Reconcile` row by row,
  `EndTick` when a row stays unresolved, which holds every strategy of the key;
* the **cycle** of a strategy: `StartCycle`, `SettleRead` per account (`Due`, `Origins`), `Settled`, then
  per Window `Follow` (the oracle model) or `AskModel`, `ModelAnswers` and `Recall` (the agent and
  its stored verdict), `Scanned`, `OrderRead` per subscriber, `Executed`;
* the **job**, an order or a settlement: `Reserve` (insert or do nothing), `Broadcast` or `NotSent`, `Answered`,
  `Awaited`, `Save` or `SaveFails`.

An exception ends the cycle and the reservations are read again before the next strategy (`Thrown`);
an unknown order ends it and holds the strategies after it (`Left`); `Crash` and `Boot` restart the
process. An attempt is its state, its side and whether its hash and nonce are known; `Evidence` is the
event of the checkpointed nonce. `held` is the vault's position of an owner on a Window side by side:
who opened it (the code's `grantId`, which is first-come) and, as history, whose orders are in it.

A broadcast whose connection is reset and stored as `refused` (`"reset" \in SendErrors`) is the same
disagreement `relay_refused` shows, so the passing run leaves it out. A crash between the
reservation and the send leaves a row that nothing resolves and holds the key, by design: "unknown
must continue to hold this actor" (lifecycle.ts:42). The properties of a
single writer (`OneOrderInFlight`, `AttemptsAreTrue`) are what the code says of "a single writer over one key"
(index.ts:101); `OncePerWindow` is said of any number. In the run's second instance the two processes of an
overlapping deploy serve one agent for one subscriber and Window without faults, where the reservation alone
keeps a second order from leaving. There is one order key there, so `OneOrderInFlight` says nothing of two
processes: it is checked, and proved, of the single process. It speaks of orders: a settlement that recovery has
stored as settled, because the owner settled first, may have its own transaction still pending
when an order leaves. `FillsAreRecorded` excepts the order whose answer was a reset: its row stays `refused`.

Abstracted: the oracle-follow decision and the prompt, the budget of model calls, the order of
listings, heartbeats, dry runs, and the sizes of stakes.

### Matchmaker

One process whose handlers interleave at their awaits. `Join` and `RatingRead` are the two halves of
`join` around `readRatings`; `ArenaRead` and `DeckDealt` the two awaits of a deal; `Tick` and
`HeldRead` the sweep and its check of a held creation, which reads the arena and may answer of
when it was asked. Sockets, pairings, deals in flight and held creations are the maps the code
keeps. Ratings and bands decide who may be paired only by wallet; the content of a deck and its
sealing are one outcome of a deal.

### DuelProjector

The arena here is its log, an event a block, in the order `GameArena` allows for a match with one
card. `Start`, `Take`, `ArenaRead`, `Write`, `ReadRatings`, `ApplyRatings`, `Finish` and `Save` are a
cycle of the projector split at its awaits: `cycle[c]` is where cycle `c` is in its span, and several
may be under way, as the unguarded timer allows. `cache` is the process's map of entries. An entry is
an object that a cycle may still hold after another cycle replaced or forgot it: `shared` and
`Detached` model that. `FromArena` is the rebuild of an entry from the arena's present state, which
may be ahead of the event being applied. `Fails` gives an event up, `SaveFails` ends a cycle with the
memory's cursor ahead of the table's, `Crash` loses all but the tables.

The settler is `List` and `Crank`: one crank of a listed match, if the arena is ready for one. Only
`Crank` appends `revealed`.

Abstracted: the messages to rooms, order within a block, larger decks, forfeits, the size of a rating's
move, the fifty matches a listing is limited to, the pause the settler idles through, the deadlines
(a crank that is not due is a `Crank` that leaves the log alone). The first cycle of a process is
alone in the code; a model that lets two start at once is not looser, since an unreadable block ends
the first one having done nothing.

## 5. Runs

| Run | Instance | What it shows |
| --- | --- | --- |
| vault | two owners (symmetric), one delegate, one market, lots of one, refunds to pool credit, fees, two fills; or one acting owner, one delegate, two grants of one kind and a cap of one position, over two days with two fills or within one day with three | each owner's books balance, custody is attributed, `TradingBalance` is implemented; budgets reachable, daily cap, position cap |
| arena_duel | one match, deck of two Windows that end apart, pausing, absent players, five seconds | credits are earned, the pot follows the play, `SidePot` is implemented, every pot is decided, every pick is paid |
| arena_shared | two matches of one card over the same Window; or one match with an agent named, renamed, revoked while the admin changes windows and tiers, illegal ones included; or the log of one match told in full and one joined, read by two overlapping cycles of the projector with one restart and one failed read or write | wallet and tokens are attributed, no stranded pick; the worklist is complete, the ladder counts once |
| leverage | two suppliers (symmetric), two positions on Windows that end apart, lots of three, proceeds of zero and of a lot, a pause | the books follow the positions, the open list is what is live, the reserve is repaid first, nobody leaves at a stale value, `HouseShares` is implemented |
| houses | the parlay reserve (two Windows, two legs), the range reserve (one Window, two questions) or the maker's vault (two Windows, two quotes, a lazy venue), each with a supplier who comes and goes | money is booked, bets end by the venue's or the hub's word, `HouseShares` is implemented by all three, every round ends, nobody leaves ahead of a loss |
| maker_dead_quotes (violation) | the maker's vault, one Window, one unfilled quote | settling leaves the quote's escrow in the venue |
| desk | one owner, two bets, two processes that may serve the same bet, Windows decided at any moment, one fault | the pool is each bet's own and every charge comes home, save for the refund of a bought bet; a ticket stands for a bought position |
| desk_late_refund (violation) | the same | a refund of a bet that was bought after all is paid from what another bet was charged |
| ops | the relay: two instructions and one reply of its own under one poller, or one instruction with two delivery loops, three faults each; the matchmaker: three sockets of two players, two pairings, four joins, one repeated reveal; the projector and the settler: one match, one cycle at a time, one restart | acted on once, none skipped, verdicts true, nothing sent while unresolved; decks are committed to standing pairings, nobody is locked out; every instruction, reply, pair and duel ends |
| relay_refused (violation) | one instruction, no fault but a lost answer | a transaction that left may be reported as refused |
| strategy_runner | one process, two strategies (an oracle follower and an agent) under one grant, one subscriber and Window, one fault (a crash, an outage, a lost answer); or two processes that run the same agent, without faults | one order, settlement and read per Window; one order in flight (of the one process); rows and settlements are true and attributed; every fill is recorded |
| projector_overlap (violation) | one match, two overlapping cycles, one restart | a slow cycle's `created` puts a finished match back on the worklist for good |

**Why the bounds are enough.** The vault's interactions are pairwise: two owners who share the
wallet, or two grants of one kind (the third way to end a grant is superseding it), with a day
boundary between two spendings. The lending owner's grants allow one position of the two sides, so the
second open is refused by the cap whether the first is held or was sold out: two fills on two days are an
open and that second open, three within a day leave room for a sale between them. A second unit of
intake is what a fee beyond the limit is paid from. With two owners the cap is two. The
arena's deadlines are each one second, so that every order of join, reveal, pick, lock, expiry
and settlement occurs; a two-card deck distinguishes complete, partial and empty play, and two
matches are what share a Window. In the leverage reserve two positions are what a swap-and-pop can
confuse, and two suppliers what an exit can dilute; proceeds fall on both sides of a front. Two
tickets share a leg, a market and an expiry in every combination; two rounds share the proofs a
Window caches. The desk's hazard is one bet paid from another's money, and one bet served by two
processes: two of each, with a fault at any send. Three faults in the relay put a crash on top of a
crash on top of a lost answer, and the second instruction runs while the first is in any state; the
delivery needs two loops and a crash each, with one fault to spare. In the maker's vault two Windows are what
a swap-and-pop can confuse, and a second quote on a Window meets the refund of the first. In the
runner the second strategy is what can send beside an unresolved order and what a position can be
wrongly attributed to; the owner trades on one side, enough to mix with either. Three
sockets of two players give overlapping joins of one player, and a rejoin after an ended pairing.
The projector's overlapping cycles contend for one match's cache, rows and rating, and the second
match, of a common player, is what a stale record of the ladder would count wrong; spans of four
blocks put a boundary inside a match's story, and a restart may fall at any of its events.
Reaching a bound never disables what a property waits for: liveness is stated of what was started.


## 6. Fairness

* `GameArena.FairSpec`: weak fairness of each match's cranks, of the resolution of each Window,
  and of time. Cranks are permissionless, cost only gas, and whoever expects to be paid wants them
  (decide.ts:13-15; the settler is one of these callers, but it idles while the arena is paused
  and does not settle the cards of refunded matches, so the fairness is the public's, not its own).
  The venue resolves or voids each Window. Nobody is obliged to join, reveal or pick.
* `Houses.Spec`: time passes, and anyone may end a round (`settle`, `voidStale`, `claim` are
  permissionless, and the owner of the round wants them). The hub may stay silent for ever.
* `DeskService.FairSpec`: a process runs on to its next send or gives up (every wait has a timeout), the
  key's queue is mined, each Window is decided, and an owner asks again until the bet is open and
  then until it is home: strong fairness of the two requests, because a process that serves
  another bet refuses in between. Faults are finite, not fair.
* `XRelay.FairSpec`: weak fairness of the poller and of each delivery loop: both run on timers with
  a busy gate, and each remote call has a deadline. Nothing has to be posted, nothing has to be mined, no answer has to
  arrive. Faults are finite in number (`MaxFaults`), not fair. `EveryMentionEnds` excuses an
  executor held by an unresolved broadcast: a crash between the intent and the hash may hold it
  until an operator steps in, by design ("execution paused: ... nonce will not be reused").
* `StrategyRunner` (`MCStrategyRunner.RunnersSpec`, of the one process): it is started again and its timer fires (weak fairness of its next
  step), and a provider that is asked about the same fill again and again answers in the end (strong
  fairness, `Answers`). Nothing else has to happen: no order has to be sent, mined or settled.
* `Matchmaker.FairSpec`: the sweeper's timer fires, and a read of the arena is answered or times out. Deals may
  hang for ever, seeds may never come, and nobody has to bring a match on chain.
* `DuelProjector.FairSpec`: the timers of projector and settler fire and their calls return (weak
  fairness of a cycle's next step, of `List` and of `Crank`), and a match the settler keeps looking at
  is ready for a crank in the end, because deadlines pass and Windows are decided (strong fairness of
  `Cranked`). It is assumed for one cycle at a time and no given-up event: without that
  `EveryDuelIsTold` is false, as `projector_overlap` shows. Players need not join or pick.
* `MCOps.LoopsSpec` gives each loop the fairness of its own module; the loops are never in one behaviour.
* `EventVault`, `LeverageReserve`, the parlay reserve and the maker's vault are checked for safety only: an owner who
  never asks, or a venue that never decides, is nobody's bug there.

## 7. Proofs

| Module | Theorems | Obligations |
| --- | --- | --- |
| `EventVaultProofs` | `TypeCorrect`, `BudgetsReachable`, `DailyCap`, `PositionCap`, `EveryUnitIsOwed` (`CustodyIsAttributed`), `TalliesExplainBalances` (`BooksBalance`), `DelegatesSpendOnlyTheLoan` (`Spec => NoDivert`), `VaultInvariant` | 2845 |
| `DuelsProofs` | of the arena: `TypeCorrect`, `NoPickLeftBehind` (`NoPickIsStranded`), `HoldingsAttributed`, `CreditsEarned`, `PotsFollowPlay`, `ImplementsPot` (`Spec => PotSpec`); of the projector: `WorklistComplete`, `LadderCounts` (`LadderCountsOnce`), `ProjectorInvariant` | 3789 |
| `OpsProofs` | of the relay: `TypeCorrect`, `ExecutedAtMostOnce`, `RepliedAtMostOnce`, `ActedAtMostOnce` (`ActedOnce`), `NoneSkipped`, `VerdictsTrue`, `SendsResolved` (`Spec => NoSendWhileUnresolved`), `RefusedIsUnsent`, `RelayInvariant`; of the matchmaker: `NobodyLockedOut`, `DecksAreForLivePairings`, `RoomInvariant` | 1892 |
| `LeverageReserveProofs` | `TypeCorrect`, `BooksCorrect`, `OpenListCorrect`, `NoStaleValue`, `FrontIsRepaidFirst`, `ReserveIsAHouse` (`Spec => HouseSpec`) | 1366 |
| `DeskServiceProofs` | `TypeCorrect`, `PoolStaysWhole` (`PoolIsEachBets`), `TicketsBought` (`TicketsAreBought`) | 1823 |
| `StrategyRunnerProofs` | `TypeCorrect`, `OncePerWindowHolds`, `OrdersFlyAlone`, `OrdersSingle` (`OrdersAreSingle`), `RowsAreTrue` | 3519 |
| `HousesProofs` | `HousesMoneyIsBooked`, `HousesBetsEndAsJudged`, `EachIsAHouse` (`Spec => IsAHouse`), `NobodyOutruns`; `ShareValueHolds` (`IsAHouse => NeverDiluted`), from the lemmas `EnteringPays`, `LeavingPays`; house by house `ParlayBooksBalance`, `TicketsEndAsJudged`, `ParlayIsAHouse`, `RangeBooksBalance`, `RoundsEndAsJudged`, `RangeIsAHouse` | 3975 |
| `FiniteSums` | lemmas on `SumFunction` that the books of the vault, the arena, the reserve and the desk rest on | 345 |

Each rests on the assumption its module makes on its constants (`VaultAssumption`,
`ArenaAssumption`, `RelayAssumption`, `ShareAssumption` and `LeverageAssumption`, `DeskAssumption` and `ServiceAssumption`,
`RunnerAssumption`; `HousesAssumption` is the parlay's, the range's and the maker's, `DuelsAssumption` the
projector's, `OpsAssumption` the matchmaker's; `HouseShares` needs none): amounts, prices and bounds are naturals, one unit and
a day are not zero, the admin's choices are those the setters accept, and a set a sum runs over is
finite. Sets of owners, delegates, markets, players, matches, suppliers, mentions, loops, bets,
connections, pairings, cycles and strategies are otherwise arbitrary. Two theorem groups have one hypothesis more, and
say so in their statement:

* `OrdersFlyAlone`, `OrdersSingle` and `RowsAreTrue`: `OneKeyHolder`, one process on the key and no reset that is read as a refusal. The
  code says the former of itself (index.ts:101); the latter is the disagreement of `relay_refused`.
  `OncePerWindowHolds` needs neither: it is proved of any number of processes;
* `RefusedIsUnsent`: `"reset" \notin SendErrors`. Beside the run `relay_refused` it says that the
  reset connection is the *only* way a refusal can be of an order that left.

**Sums.** `FiniteSums` proves of the community modules' `SumFunction` what a book needs: the
empty sum is zero, one more element adds its value, changing one value changes the sum by the
difference, values that agree give one sum, naturals sum to a natural at least as large as each,
and the sum of two books is the book of the sums. `SumFunction` is a fold; its recursion is unfolded
to a function on the subsets of its domain. Induction is done without the library's
induction theorems, whose operator parameter the provers cannot instantiate: a claim about every
subset of a finite set is refuted on a smallest subset that breaks it (`SmallestSubset`).

**The vault.** `Inv == TypeOK /\ BudgetsAreReachable /\ DailyCapHolds /\ DayBooks`.
`DailyCapHolds` alone is not inductive: the code keeps one counter and one day, so one has to know
that the counter *is* what was spent on that day, that no later day has spending, and that grants
not yet made have none; that is `DayBooks`. `BudgetsAreReachable` needs its second half (an
active grant is a live record of that owner and kind) to survive superseding. The refinement needs
reachability: `lent` is read through `activeGrantOf`, so a step of an unreachable grant would be
invisible or charged to the wrong owner. It also needs that what `BuyFor` adds to `delegated` is what it
adds to one owner's tally and takes from one budget. `PositionCap` adds `AttributionIsKnown`: a position that is
attributed is to a grant of its owner that exists, so that the positions a grant opened can be counted. `Ledger` adds the two
books to `Inv`: reachability is what makes "the sum of the active budgets" all the money lent out, and each
action moves the wallet, the pool credit and one owner's dues by the same amount.

**The arena.** `Inv` gives each status its shape (`MatchOK`): a deck is revealed or not, a pick is
on a card of the deck and has a price, the mask is of cards whose Windows ended, the seats are
filled. No pick is stranded because a card is settled only once its Window is no longer trading,
and a pick needs it to trade: the deck's Windows never go back (`Monotone`). The sums over matches
(`HoldingsAttributed`, `CreditsEarned`) follow action by action from what an action leaves alone
(`Untouched`) and how a match ends (`Returned`, `Undone`, `Won`). `PlayInv` says that each profit is
the payouts less the costs of settled cards (`PnlOK`), which makes the winner a function of the play.

**The relay.** `RelayInv == TypeOK /\ OrdersInv /\ RepliesInv`. For the orders one has to know at each
await what the poller knows: the batch is all that lies between cursor and its end (`Ordered`),
the mention in hand is its first and claimed (`InHand`), nothing was sent for it yet, *no other
mention is unresolved* (`Alone`: `canExecute` was asked at the claim, and only the poller makes a
row unresolved, so the answer is not stale), and the outcome about to be saved is true. For the
replies: from the POST on, the lease is the loop's own, since a row in `posting` is never handed
out again, only marked; that is why a lease may pass from a loop that still prepares and not from one that posts.

**The leverage reserve.** Type correctness is not free there: `liquid + premium - fronted`,
`fronted - reclaimed` and `shares * value \div supply` must be naturals, which needs the guards of `Open` and `Exit`
and the fact that a reclaimed part never exceeds the front. The open list is inductive with its
index (`openAt` is the inverse of `open`), and from it `NoStaleWithdrawal` follows: the scan of the
list sees every live position. `BooksCorrect` sums fronts and sizes over the live positions. The
refinement reduces to the rounding of `supply` and `withdraw`: `amount * supply \div value` shares
are never worth more than `amount`.

**The houses.** Each has an invariant of its own, and `HousesInv` says that the one a behaviour is of keeps it.

For the two reserves, `EscrowInv` joins the types to `BooksBalance`: what is locked, in all and on an
expiry, is a sum over the slots of the bets (`HeldAt`, `LockedAt`, `LockedOnAt`: zero for a slot that is empty or released), so a bet
that opens, ends or is paid changes one term of each. The types need the sums: a release saturates
at zero in the code, and only because the books balance is what it takes away always there. `RangeInv` adds
`Follows`, that a round which is over says what the hub said; an answer is given once. `ParlayInv` adds
`TicketHolds`: a leg that is settled is settled as the venue decided it, a ticket's count of won legs is the number
of them, and its status says what they did. The price of a combination is a
fold over its legs, rounded down at each; the books need of it only that it is a natural, which is proved for
any number of legs as the sums are, on a smallest set that breaks it (`ProductOfPrices`).

For the maker's vault, `MakerInv` has the open list with its index (`Lists`), and of every Window that
what went out and has not come back is what rests, was spent and was drained (`Explains`); the wallet is what is booked plus
what strangers drained. With the list complete, the scan of a withdrawal sees each open Window that is over,
and `NobodyOutrunsALoss` follows.

Entering and leaving are `ShareLedger`'s in all three, so `AnyHouse!Next` is shown once for the shares and then, action
by action, for a bet that moves capital only.

**The desk.** The contract alone does not keep the pool whole: `fund` pays out of it what the server says.
`IInv` therefore joins `DeskInv` (the pool is the sum of what each bet has in it, and a slot fits its
tallies) to the server: what a process is about to send, or has in the key's queue, moves what its
own bet was charged or swept (`WalksFit`, `QueueFits`), a process waits for one transaction at a
time (`OneEach`). What a bet is credited is then what its slot was swept of, or its stake; and it is overdrawn only
if it was bought and its stake was refunded all the same.

**The runner.** `OnceInv` (any number of processes): what is sent or asked has a durable reservation first
(`Counted`), two processes never send for the same key (`OneSender`), and what a process holds agrees with the
tables: an agent's order is on the side its stored verdict says (`Agrees`). `SoloInv == OnceInv /\ World /\ (each process Knows)`: `World` says what the rows, the
nonces, the chain and the attribution of positions have to do with each other; `Knows` what a
process has learned at each await, above all that no row is uncertain when it reserves (`Clear`).

**The matchmaker.** `NobodyIsLockedOut` is inductive only beside the stages a match goes through
(`Stages`): a pairing that stands is of a found match, neither committed nor dissolved; what is held, or is being
checked at an await, was committed; so a match that ends is never paired again, whatever a read that
was under way still brings. `Standing` also says that pairings are records in a function, which
their updates need. That a deck is for a standing pairing is then a property of the one action that commits it.

**The projector.** `ProjectorInv` says what overlapping cycles and a restart may rely on: each event behind the
stored cursor, the memory's cursor or a cycle's place in its span is `Placed` (its match was written, or it was given
up); a cached or held entry counts a settled card only of a match whose log has one (`CycleOK`); a
row is the status of some event of its match (`RowOK`), not of the latest, as `projector_overlap` shows. For the ladder, what a cycle read
before its claim is no higher than the results rated since (`LadderOK`), which is why a lost move is possible
and a double one is not; and a match that is rated was told a settled card and a decided pot (`ClaimsOK`).
A cycle's step changes another cycle only by detaching its entry (`Stays`).

**Layout.** First the effects of the helpers on the state they touch, then one lemma per action and
conjunct, then the step and the initial case, then the theorems; for a refinement one lemma per
action for the abstract step it implements.

**Only model-checked.** Everything live: fairness and ENABLED are out of the prover's reach
(`EveryPotIsDecided`, `EveryPickIsPaid`, `EveryMentionEnds`, `EveryPairEnds`, `EveryDuelIsTold`, `EveryRoundEnds`,
`ChargesComeHome`, `FillsAreRecorded`). Each safety invariant, action property and refinement that a passing
run checks is also a theorem, the runner's under the hypotheses above. A theorem is of the
specification of its component (of `Pairing` and `Projecting` for the two that `Ops` and `Duels` join); that the
loops of one run are never in one behaviour is how the run is built, and nothing to prove. Every
induction is over steps: no theorem is about data of every size by recursion on it, except the finite
sums and the price of a combination, by the smallest subset.

## 8. Disagreements between the code and what is said of it

Four have a run: `relay_refused`, `maker_dead_quotes`, `projector_overlap` and `desk_late_refund` (see `findings`). The others were met while modelling:

* EventVault.sol:31-32: "The grant that opened a position, so its `openPositions` count closes with it"; lines
  349-352 keep the slot of a position that was sold out, until the market is settled.
* ArenaGateway.sol:108-109: "A card must outlive the pick window, or the last swipe of a legal deck reverts and the
  player forfeits a pot for a deadline the parameters themselves made impossible to meet"; line 216 applies the
  floor again at each pick, so a card revealed with just the required life is out of reach a second later.
* duel-settler/decide.ts:85 calls a refunded match done although GameArena.sol:257 and decide.ts:64 still
  owe its unsettled picks; they are paid because anyone may crank.
* matchmaker/index.ts:234-236 keeps a connection to one pairing, but `join` does not look again after
  its `readRatings` await (331-348): two overlapping joins can put one connection in two pairings.
  `NobodyIsLockedOut` holds all the same. A repeated `seed.reveal` restarts the deal's window (377-379).
* matchmaker/pending.ts:92 says "Unreadable is not absent"; at the deadline an unreadable arena dissolves the
  pairing (98-105), and a match may still land on chain after both players were told it was over.
* RangePricing.sol:81: "Open rounds keep the terms they were opened on."; `voidStale`
  (RangeReserve.sol:168) reads the current `staleAfterSec`.
* MakerGateway.sol:67 says `liquid` is always the wallet's balance; a refund of the venue's permissionless
  `cancelExpiredOrders` lands in the wallet or the credit and is never booked (`drained` in the model).
* MarketMakerVault.sol:237-239 calls `deployedOf` the resting escrow plus the cost of what filled. Once a spread
  has been merged, what came back exceeds the cost of its pairs, and a later quote on that Window counts for
  less than it has resting. `supply`, unlike `withdraw`, is not refused while a Window that is over is open.
* market-maker/index.ts:101 logs "the vault is paused; tending open Windows only" and returns before it
  tends any; its ticks (141) have no guard against overlapping.
* duel-projector/index.ts:14-18 says a restarted process catches up on everything it missed; an event
  given up at lines 76-79 is behind the cursor for good. If it was `created`, the settler never sees
  the match, and its pots are refunded unopened only when somebody else cranks that.
* apply.ts:141 says a replayed settlement must not count twice. An entry rebuilt from the arena already
  counts the settled card; replaying the earlier `picked` (112) resets its payout, and the settlement
  counts again. The ladder only asks whether the count is zero, so nothing follows.
* games.ts:249 applies ratings "exactly once for a match"; the records it writes were read before the
  transaction (apply.ts:53). Two cycles that finalize two matches of one player can lose one of the
  two moves: `LadderCountsOnce` is an upper bound for that reason.
* rating.ts:6-8: "a match that never produced a real result (refunded, or every card voided) moves
  nothing at all"; apply.ts:51 counts settled cards, and a voided card settles too.

## 9. Not modelled, and why

* **StrategyRegistry, SeasonPrizePool**: one-record operations behind an owner check or a flag.
* **Keepers and the market maker's loop**: stateless loops over permissionless calls.
* **packages/db (the other tables)**: single-statement reads and writes no other actor contends for.
* **packages/core (the rest), brain, web, scripts**: computation, presentation and I/O.
* **The venue and the oracle hub** are external: what they may do is a choice.
* **The X relay's page limit**: `fetchMentions` throws when the backlog exceeds its drain and
  keeps the cursor; the model fetches the whole backlog.
