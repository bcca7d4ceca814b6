----------------------------- MODULE GameArena -----------------------------
(***************************************************************************)
(* The duel arena: two players, a sealed deck of Windows, one confirmed    *)
(* order per card and seat, a side-pot.  The arena holds the outcome       *)
(* tokens of every match, the undecided pots and the unclaimed credits in  *)
(* one wallet.  Each external function is one atomic action; a revert is a *)
(* step that does not happen.                                              *)
(*                                                                         *)
(* The deck commitment is modelled by the deck it commits to: the hash is  *)
(* taken to be injective.  Refunds and payouts the venue leaves as credit  *)
(* on a pool are collected in the call that caused them (`_collect`), so   *)
(* pool credit is zero between calls and is not a variable.                *)
(***************************************************************************)
EXTENDS Integers, Sequences, FiniteSets, Functions

CONSTANTS
  Players, Agents,  \* addresses that play, and keys that may pick for them
  Openers,          \* bound: the players who open matches
  NoAgent, Nobody,  \* the zero address, as an agent and as a player
  Matches, Markets, \* match ids, and the venue's market ids
  Expiry,           \* market |-> its expiry, unix seconds
  Decks,            \* the decks a commitment may be taken over
  TierChoices,      \* Tier records an admin may set (the tiers are one)
  ParamsChoices,    \* Params records an admin may set
  PauseChoices,     \* what an admin may set `paused` to
  Stakes, Fills,    \* stakes a pick may offer, and what its order may do
  Ttls,             \* lifetimes an agent may be given
  MAX_DECK,         \* cards in the widest deck, 8: a `uint8` mask holds them
  MaxCreatedAt,     \* bound: the last second a match is created
  MaxNamedAt,       \* bound: the last second an agent is named
  MaxTime           \* bound: the last block timestamp

Seats == {0, 1}     \* 0 is the creator's seat, 1 the challenger's
Sides == {0, 1}     \* 0 is YES (up), 1 is NO (down)
CardIndex == 1..MAX_DECK

Params == [joinWindowSec: Nat \ {0}, revealWindowSec: Nat \ {0},
           pickWindowSec: Nat \ {0}, minCardLifeSec: Nat,
           minDeckSize: Nat \ {0}, maxDeckSize: Nat]
Tier == [potBase: Nat, perCardCapBase: Nat \ {0}, enabled: BOOLEAN]
Fill == [quantity: Nat \ {0}, cost: Nat]

\* `_setParams` accepts these and reverts on others.
LegalParams(p) ==
  /\ p.minDeckSize <= p.maxDeckSize
  /\ p.maxDeckSize <= MAX_DECK
  /\ p.minCardLifeSec > p.pickWindowSec

ASSUME ArenaAssumption ==
  /\ IsFiniteSet(Players) /\ IsFiniteSet(Matches)
  /\ Openers \subseteq Players
  /\ PauseChoices \subseteq BOOLEAN
  /\ NoAgent \notin Agents /\ Nobody \notin Players
  /\ Expiry \in [Markets -> Nat]
  /\ Decks \subseteq Seq(Markets)
  /\ TierChoices \subseteq Tier /\ TierChoices # {}
  /\ ParamsChoices \subseteq Params
  /\ \E p \in ParamsChoices : LegalParams(p)
  /\ Stakes \subseteq Nat \ {0} /\ Fills \subseteq Fill
  /\ Ttls \subseteq Nat \ {0}
  /\ MAX_DECK \in 1..8
  /\ {MaxCreatedAt, MaxNamedAt, MaxTime} \subseteq Nat

VARIABLES
  params, tier, paused,    \* the admin's settings
  status,                  \* Match.status, "NONE" before creation
  playerOf,                \* match, seat |-> creator and challenger
  deckSize, deckHash, createdAtSec, potBase, perCardCapBase,
  joinedAtSec, pickDeadlineSec,
  cards,                   \* _cards: the revealed deck
  picks,                   \* _picks: match |-> card, seat |-> PickRecord
  settledMask,             \* match |-> the cards settled
  pnl,                     \* _pnl: match |-> seat |-> payout minus cost
  agents,                  \* _agents: match |-> seat |-> Agent
  creditOf,                \* player |-> owed and unclaimed
  escrowed, credited,      \* the two totals the wallet must cover
  wallet,                  \* collateral.balanceOf(arena)
  tokens,                  \* market, side |-> outcomeToken.balanceOf(arena)
  result,                  \* the venue: "TRADING" or how the market settled
  now,                     \* block.timestamp
  awarded,                 \* history: match |-> seat |-> share of the pot
  claimed                  \* history: player |-> credits paid out

settings == <<params, tier, paused>>
entryVars == <<playerOf, deckSize, deckHash, createdAtSec, potBase, perCardCapBase>>
playVars == <<picks, settledMask, pnl, tokens>>
deckVars == <<cards, pickDeadlineSec>>
potVars == <<creditOf, escrowed, credited, awarded>>
worldVars == <<result, now>>
vars == <<settings, status, entryVars, joinedAtSec, deckVars, playVars, agents,
          potVars, wallet, worldVars, claimed>>

Statuses == {"NONE", "WAITING", "ACTIVE_UNREVEALED", "PICKING", "SETTLING",
             "FINALIZED", "REFUNDED", "FORFEITED"}
Results == {"TRADING", "YES", "NO", "VOID"}

PickRecord == [placed: BOOLEAN, settled: BOOLEAN, outcomeIdx: Sides,
               quantity: Nat, costBase: Nat, payoutBase: Nat]
NoPick == [placed |-> FALSE, settled |-> FALSE, outcomeIdx |-> 0,
           quantity |-> 0, costBase |-> 0, payoutBase |-> 0]

Agent == [agent: Agents \cup {NoAgent}, expiresAtSec: Nat,
          budgetBase: Nat, spentBase: Nat]
NoGrant == [agent |-> NoAgent, expiresAtSec |-> 0, budgetBase |-> 0, spentBase |-> 0]

Deck(m) == 1..deckSize[m]
Nothing == [s \in Seats |-> 0]

Init ==
  /\ params \in {p \in ParamsChoices : LegalParams(p)}
  /\ tier \in TierChoices
  /\ paused = FALSE
  /\ status = [m \in Matches |-> "NONE"]
  /\ playerOf = [m \in Matches |-> [s \in Seats |-> Nobody]]
  /\ deckSize = [m \in Matches |-> 0]
  /\ deckHash = [m \in Matches |-> << >>]
  /\ createdAtSec = [m \in Matches |-> 0]
  /\ potBase = [m \in Matches |-> 0]
  /\ perCardCapBase = [m \in Matches |-> 0]
  /\ joinedAtSec = [m \in Matches |-> 0]
  /\ pickDeadlineSec = [m \in Matches |-> 0]
  /\ cards = [m \in Matches |-> << >>]
  /\ picks = [m \in Matches |-> [c \in CardIndex |-> [s \in Seats |-> NoPick]]]
  /\ settledMask = [m \in Matches |-> {}]
  /\ pnl = [m \in Matches |-> Nothing]
  /\ agents = [m \in Matches |-> [s \in Seats |-> NoGrant]]
  /\ creditOf = [p \in Players |-> 0]
  /\ escrowed = 0 /\ credited = 0 /\ wallet = 0
  /\ tokens = [k \in Markets |-> [s \in Sides |-> 0]]
  /\ result = [k \in Markets |-> "TRADING"]
  /\ now = 0
  /\ awarded = [m \in Matches |-> Nothing]
  /\ claimed = [p \in Players |-> 0]

-----------------------------------------------------------------------------
(* Entry: `createMatch`, `joinMatch`, each with or without an agent.       *)

\* `_authorizeAgent`: the budget is the deck's ceiling; naming nobody revokes.
Granted(m, a, ttl, ceiling) ==
  IF a = NoAgent THEN NoGrant
  ELSE [agent |-> a, expiresAtSec |-> now + ttl, budgetBase |-> ceiling, spentBase |-> 0]

\* `_create` and, when a is a key, `createMatchWithAgent`.
CreateMatch(p, m, q, deck, size, a, ttl) ==
  /\ ~paused
  /\ q # p
  /\ status[m] = "NONE"
  /\ size \in params.minDeckSize..params.maxDeckSize
  /\ tier.enabled
  /\ now <= MaxCreatedAt
  /\ status' = [status EXCEPT ![m] = "WAITING"]
  /\ playerOf' = [playerOf EXCEPT ![m] = [s \in Seats |-> IF s = 0 THEN p ELSE q]]
  /\ deckSize' = [deckSize EXCEPT ![m] = size]
  /\ deckHash' = [deckHash EXCEPT ![m] = deck]
  /\ createdAtSec' = [createdAtSec EXCEPT ![m] = now]
  /\ potBase' = [potBase EXCEPT ![m] = tier.potBase]
  /\ perCardCapBase' = [perCardCapBase EXCEPT ![m] = tier.perCardCapBase]
  /\ wallet' = wallet + tier.potBase
  /\ escrowed' = escrowed + tier.potBase
  /\ agents' = [agents EXCEPT ![m][0] = Granted(m, a, ttl, tier.perCardCapBase * size)]
  /\ UNCHANGED <<settings, joinedAtSec, deckVars, playVars,
                 creditOf, credited, awarded, worldVars, claimed>>

JoinDeadline(m) == createdAtSec[m] + params.joinWindowSec
RevealDeadline(m) == joinedAtSec[m] + params.revealWindowSec

\* Without an agent named, the challenger keeps any grant made earlier.
JoinMatch(m, a, ttl) ==
  /\ ~paused
  /\ status[m] = "WAITING"
  /\ now <= JoinDeadline(m)
  /\ status' = [status EXCEPT ![m] = "ACTIVE_UNREVEALED"]
  /\ joinedAtSec' = [joinedAtSec EXCEPT ![m] = now]
  /\ wallet' = wallet + potBase[m]
  /\ escrowed' = escrowed + potBase[m]
  /\ agents' = IF a = NoAgent THEN agents
               ELSE [agents EXCEPT ![m][1] =
                       Granted(m, a, ttl, perCardCapBase[m] * deckSize[m])]
  /\ UNCHANGED <<settings, entryVars, deckVars, playVars,
                 creditOf, credited, awarded, worldVars, claimed>>

\* `authorizeAgent`, by the player of seat s, at any time in the match's life.
AuthorizeAgent(m, s, a, ttl) ==
  /\ status[m] # "NONE"
  /\ now <= MaxNamedAt
  /\ agents' = [agents EXCEPT ![m][s] =
                  Granted(m, a, ttl, perCardCapBase[m] * deckSize[m])]
  /\ UNCHANGED <<settings, status, entryVars, joinedAtSec, deckVars, playVars,
                 potVars, wallet, worldVars, claimed>>

\* Permissionless: whoever holds the preimage opens the deck.
RevealDeck(m) ==
  LET deck == deckHash[m] IN
  /\ status[m] = "ACTIVE_UNREVEALED"
  /\ now <= RevealDeadline(m)
  /\ Len(deck) = deckSize[m]
  /\ \A i \in Deck(m) : Expiry[deck[i]] >= now + params.minCardLifeSec
  /\ \A i, j \in Deck(m) : deck[i] = deck[j] => i = j
  /\ cards' = [cards EXCEPT ![m] = deck]
  /\ status' = [status EXCEPT ![m] = "PICKING"]
  /\ pickDeadlineSec' = [pickDeadlineSec EXCEPT ![m] = now + params.pickWindowSec]
  /\ UNCHANGED <<settings, entryVars, joinedAtSec, playVars, agents, potVars,
                 wallet, worldVars, claimed>>

-----------------------------------------------------------------------------
(* Picks.                                                                  *)

Picked(m, s) == {c \in Deck(m) : picks[m][c][s].placed}
Complete(m, s) == Picked(m, s) = Deck(m)

\* Mutant: only the clock is asked, not the Window's status.
PickableByTheClock(k) == now + params.minCardLifeSec <= Expiry[k]

\* `_sizeEntry`: the Window trades and has its floor of life left.
Pickable(k) ==
  /\ result[k] = "TRADING"
  /\ now + params.minCardLifeSec <= Expiry[k]

\* Mutant: a fee on top of the stake is paid out of other money.
AnyCost(f, stake) == TRUE

\* `CostAboveStake`: a fee on top of the stake is refused.
WithinStake(f, stake) == f.cost <= stake

Refund(f, stake) == IF f.cost < stake THEN stake - f.cost ELSE 0

\* Mutant: a card may be picked again.
RePickable(m, c, s) == TRUE

Unpicked(m, c, s) == ~picks[m][c][s].placed

\* `_pick` for seat s: the stake comes in, the cost goes out and the rest
\* goes home; the last pick of a complete deck locks the match.
Pick(m, s, c, side, stake, f) ==
  LET k == cards[m][c]
      others == Picked(m, s) \cup {c}
  IN
  /\ ~paused
  /\ status[m] = "PICKING"
  /\ now <= pickDeadlineSec[m]
  /\ stake <= perCardCapBase[m]
  /\ Unpicked(m, c, s)
  /\ Pickable(k)
  /\ WithinStake(f, stake)
  /\ wallet' = ((wallet + stake) - f.cost) - Refund(f, stake)
  /\ tokens' = [tokens EXCEPT ![k][side] = @ + f.quantity]
  /\ picks' = [picks EXCEPT ![m][c][s] =
       [placed |-> TRUE, settled |-> FALSE, outcomeIdx |-> side,
        quantity |-> f.quantity, costBase |-> f.cost, payoutBase |-> 0]]
  /\ status' = IF others = Deck(m) /\ Complete(m, 1 - s)
               THEN [status EXCEPT ![m] = "SETTLING"] ELSE status
  /\ UNCHANGED <<settings, entryVars, joinedAtSec, deckVars, settledMask, pnl,
                 potVars, worldVars, claimed>>

PlacePick(m, s, c, side, stake, f) ==
  /\ Pick(m, s, c, side, stake, f)
  /\ UNCHANGED agents

\* `_requireAgent`: the seat's live key, within the grant, booked gross.
PlacePickFor(a, m, s, c, side, stake, f) ==
  /\ agents[m][s].agent = a
  /\ now <= agents[m][s].expiresAtSec
  /\ agents[m][s].spentBase + stake <= agents[m][s].budgetBase
  /\ agents' = [agents EXCEPT ![m][s].spentBase = @ + stake]
  /\ Pick(m, s, c, side, stake, f)

-----------------------------------------------------------------------------
(* The pot.                                                                *)

\* Everything the match escrowed becomes credit of its two players.
Award(m, share) ==
  /\ awarded' = [awarded EXCEPT ![m] = share]
  /\ escrowed' = escrowed - (share[0] + share[1])
  /\ credited' = credited + (share[0] + share[1])
  /\ creditOf' = [p \in Players |->
       creditOf[p] + (IF p = playerOf[m][0] THEN share[0] ELSE 0)
                   + (IF p = playerOf[m][1] THEN share[1] ELSE 0)]

ToCreator(m) == [s \in Seats |-> IF s = 0 THEN potBase[m] ELSE 0]
ToBoth(m) == [s \in Seats |-> potBase[m]]
ToWinner(m, w) == [s \in Seats |-> IF s = w THEN 2 * potBase[m] ELSE 0]

CloseWith(m, end, share) ==
  /\ status' = [status EXCEPT ![m] = end]
  /\ Award(m, share)
  /\ UNCHANGED <<settings, entryVars, joinedAtSec, deckVars, playVars, agents,
                 wallet, worldVars, claimed>>

\* Mutant: the creator may still cancel a match somebody joined.
CancelJoined(m) ==
  /\ status[m] \in {"WAITING", "ACTIVE_UNREVEALED"}
  /\ CloseWith(m, "REFUNDED", ToCreator(m))

CancelMatch(m) ==
  /\ status[m] = "WAITING"
  /\ CloseWith(m, "REFUNDED", ToCreator(m))

RefundUnjoined(m) ==
  /\ status[m] = "WAITING"
  /\ now > JoinDeadline(m)
  /\ CloseWith(m, "REFUNDED", ToCreator(m))

RefundUnrevealed(m) ==
  /\ status[m] = "ACTIVE_UNREVEALED"
  /\ now > RevealDeadline(m)
  /\ CloseWith(m, "REFUNDED", ToBoth(m))

Locked(m, end) ==
  /\ status' = [status EXCEPT ![m] = end]
  /\ UNCHANGED <<settings, entryVars, joinedAtSec, deckVars, playVars, agents,
                 potVars, wallet, worldVars, claimed>>

\* Mutant: two absent players are nobody's case.
LockUnlessBothAbsent(m) ==
  /\ status[m] = "PICKING"
  /\ now > pickDeadlineSec[m]
  /\ \/ Complete(m, 0) /\ Complete(m, 1) /\ Locked(m, "SETTLING")
     \/ Complete(m, 0) # Complete(m, 1) /\ Locked(m, "FORFEITED")

LockPicks(m) ==
  /\ status[m] = "PICKING"
  /\ now > pickDeadlineSec[m]
  /\ \/ Complete(m, 0) /\ Complete(m, 1) /\ Locked(m, "SETTLING")
     \/ Complete(m, 0) # Complete(m, 1) /\ Locked(m, "FORFEITED")
     \/ /\ ~Complete(m, 0) /\ ~Complete(m, 1)
        /\ CloseWith(m, "REFUNDED", ToBoth(m))

-----------------------------------------------------------------------------
(* Settlement.                                                             *)

Redeemed(k, side, n) ==
  CASE result[k] = "VOID" -> n \div 2
    [] result[k] = (IF side = 0 THEN "YES" ELSE "NO") -> n
    [] OTHER -> 0

Outstanding(m, c, s) == picks[m][c][s].placed /\ ~picks[m][c][s].settled

Payout(m, c, s) ==
  IF Outstanding(m, c, s)
  THEN Redeemed(cards[m][c], picks[m][c][s].outcomeIdx, picks[m][c][s].quantity)
  ELSE 0

Settled(m, c, s) ==
  IF Outstanding(m, c, s)
  THEN [picks[m][c][s] EXCEPT !.settled = TRUE, !.payoutBase = Payout(m, c, s)]
  ELSE picks[m][c][s]

\* The tokens of one side that the two seats' picks of a card burn.
Burned(m, c, side) ==
  (IF Outstanding(m, c, 0) /\ picks[m][c][0].outcomeIdx = side
   THEN picks[m][c][0].quantity ELSE 0)
  + (IF Outstanding(m, c, 1) /\ picks[m][c][1].outcomeIdx = side
     THEN picks[m][c][1].quantity ELSE 0)

\* Mutant: only a match whose pot waits for its cards settles them.
SettlesForThePot(m) == status[m] \in {"SETTLING", "FORFEITED"}

SettlesCards(m) == status[m] \notin {"NONE", "WAITING", "ACTIVE_UNREVEALED"}

SettleCard(m, c) ==
  LET k == cards[m][c]
      paid == Payout(m, c, 0) + Payout(m, c, 1)
  IN
  /\ SettlesCards(m)
  /\ c \in Deck(m) /\ c <= Len(cards[m])
  /\ c \notin settledMask[m]
  /\ result[k] # "TRADING"
  /\ settledMask' = [settledMask EXCEPT ![m] = @ \cup {c}]
  /\ picks' = [picks EXCEPT ![m][c] = [s \in Seats |-> Settled(m, c, s)]]
  /\ pnl' = [pnl EXCEPT ![m] = [s \in Seats |->
       IF Outstanding(m, c, s)
       THEN (pnl[m][s] + Payout(m, c, s)) - picks[m][c][s].costBase ELSE pnl[m][s]]]
  /\ tokens' = [tokens EXCEPT ![k] = [side \in Sides |-> @[side] - Burned(m, c, side)]]
  /\ creditOf' = [p \in Players |->
       creditOf[p] + (IF p = playerOf[m][0] THEN Payout(m, c, 0) ELSE 0)
                   + (IF p = playerOf[m][1] THEN Payout(m, c, 1) ELSE 0)]
  /\ credited' = credited + paid
  /\ wallet' = wallet + paid
  /\ UNCHANGED <<settings, status, entryVars, joinedAtSec, deckVars, agents,
                 escrowed, awarded, worldVars, claimed>>

\* Mutant: the first settled card is enough.
AnyPlayedIsSettled(m) == (Picked(m, 0) \cup Picked(m, 1)) \cap settledMask[m] # {}

PlayedAreSettled(m) == Picked(m, 0) \cup Picked(m, 1) \subseteq settledMask[m]

\* A forfeit goes to the seat that finished, a duel to the greater pnl.
Share(m) ==
  IF status[m] = "FORFEITED"
  THEN ToWinner(m, IF Complete(m, 0) THEN 0 ELSE 1)
  ELSE IF pnl[m][0] = pnl[m][1] THEN ToBoth(m)
  ELSE ToWinner(m, IF pnl[m][0] > pnl[m][1] THEN 0 ELSE 1)

Finalize(m) ==
  /\ status[m] \in {"SETTLING", "FORFEITED"}
  /\ PlayedAreSettled(m)
  /\ CloseWith(m, "FINALIZED", Share(m))

\* Mutant: the credit is not cleared.
ClaimKeepingCredit(p) ==
  /\ creditOf[p] # 0
  /\ wallet >= creditOf[p]
  /\ credited' = credited - creditOf[p]
  /\ wallet' = wallet - creditOf[p]
  /\ claimed' = [claimed EXCEPT ![p] = @ + creditOf[p]]
  /\ UNCHANGED <<settings, status, entryVars, joinedAtSec, deckVars, playVars,
                 agents, creditOf, escrowed, awarded, worldVars>>

\* Anyone may crank it; it pays the player.
ClaimCredit(p) ==
  /\ creditOf[p] # 0
  /\ wallet >= creditOf[p]
  /\ creditOf' = [creditOf EXCEPT ![p] = 0]
  /\ credited' = credited - creditOf[p]
  /\ wallet' = wallet - creditOf[p]
  /\ claimed' = [claimed EXCEPT ![p] = @ + creditOf[p]]
  /\ UNCHANGED <<settings, status, entryVars, joinedAtSec, deckVars, playVars,
                 agents, escrowed, awarded, worldVars>>

-----------------------------------------------------------------------------
(* The admin, the venue and the clock.                                     *)

Set(p, t, b) ==
  /\ params' = p /\ tier' = t /\ paused' = b
  /\ UNCHANGED <<status, entryVars, joinedAtSec, deckVars, playVars, agents,
                 potVars, wallet, worldVars, claimed>>

SetParams(p) == LegalParams(p) /\ Set(p, tier, paused)
SetTier(t) == Set(params, t, paused)
SetPaused(b) == Set(params, tier, b)

\* The venue decides a Window at its expiry, and may void it at any time.
Resolve(k, r) ==
  /\ result[k] = "TRADING"
  /\ r = "VOID" \/ now >= Expiry[k]
  /\ result' = [result EXCEPT ![k] = r]
  /\ UNCHANGED <<settings, status, entryVars, joinedAtSec, deckVars, playVars,
                 agents, potVars, wallet, now, claimed>>

Tick ==
  /\ now < MaxTime
  /\ now' = now + 1
  /\ UNCHANGED <<settings, status, entryVars, joinedAtSec, deckVars, playVars,
                 agents, potVars, wallet, result, claimed>>

-----------------------------------------------------------------------------
Entry ==
  \E m \in Matches, a \in Agents \cup {NoAgent}, ttl \in Ttls :
    \/ \E p \in Openers, q \in Players, deck \in Decks, size \in CardIndex :
         CreateMatch(p, m, q, deck, size, a, ttl)
    \/ JoinMatch(m, a, ttl)
    \/ \E s \in Seats : AuthorizeAgent(m, s, a, ttl)

Playing ==
  \E m \in Matches, s \in Seats, side \in Sides, stake \in Stakes, f \in Fills :
    \E c \in Deck(m) :
      \/ PlacePick(m, s, c, side, stake, f)
      \/ \E a \in Agents : PlacePickFor(a, m, s, c, side, stake, f)

\* What the contract lets anyone crank, and the duel settler cranks.
Crank(m) ==
  \/ RefundUnjoined(m)
  \/ RefundUnrevealed(m)
  \/ LockPicks(m)
  \/ \E c \in CardIndex : SettleCard(m, c)
  \/ Finalize(m)

Admin ==
  \/ \E p \in ParamsChoices : SetParams(p)
  \/ \E t \in TierChoices : SetTier(t)
  \/ \E b \in PauseChoices : SetPaused(b)

Venue == \E k \in Markets, r \in Results \ {"TRADING"} : Resolve(k, r)

Next ==
  \/ Entry
  \/ Playing
  \/ \E m \in Matches : CancelMatch(m) \/ RevealDeck(m) \/ Crank(m)
  \/ \E p \in Players : ClaimCredit(p)
  \/ Admin
  \/ Venue
  \/ Tick

Spec == Init /\ [][Next]_vars

\* Anyone can crank and pays only gas; time passes and Windows resolve.
FairSpec ==
  /\ Spec
  /\ \A m \in Matches : WF_vars(Crank(m))
  /\ \A k \in Markets : WF_vars(\E r \in Results \ {"TRADING"} : Resolve(k, r))
  /\ WF_vars(Tick)

-----------------------------------------------------------------------------
(* Properties.                                                             *)

SettingsTypeOK ==
  /\ params \in Params /\ LegalParams(params)
  /\ tier \in Tier
  /\ paused \in BOOLEAN

MatchTypeOK ==
  /\ status \in [Matches -> Statuses]
  /\ playerOf \in [Matches -> [Seats -> Players \cup {Nobody}]]
  /\ deckSize \in [Matches -> 0..MAX_DECK]
  /\ deckHash \in [Matches -> Seq(Markets)]
  /\ cards \in [Matches -> Seq(Markets)]
  /\ createdAtSec \in [Matches -> Nat]
  /\ joinedAtSec \in [Matches -> Nat]
  /\ pickDeadlineSec \in [Matches -> Nat]
  /\ potBase \in [Matches -> Nat]
  /\ perCardCapBase \in [Matches -> Nat]

PlayTypeOK ==
  /\ picks \in [Matches -> [CardIndex -> [Seats -> PickRecord]]]
  /\ settledMask \in [Matches -> SUBSET CardIndex]
  /\ pnl \in [Matches -> [Seats -> Int]]
  /\ agents \in [Matches -> [Seats -> Agent]]

\* That what the arena holds is never negative follows from what it owes:
\* HoldingsAreAttributed, not its type.
MoneyTypeOK ==
  /\ creditOf \in [Players -> Nat]
  /\ claimed \in [Players -> Nat]
  /\ awarded \in [Matches -> [Seats -> Nat]]
  /\ {escrowed, credited, wallet} \subseteq Int
  /\ tokens \in [Markets -> [Sides -> Int]]
  /\ result \in [Markets -> Results]
  /\ now \in 0..MaxTime

TypeOK == SettingsTypeOK /\ MatchTypeOK /\ PlayTypeOK /\ MoneyTypeOK

Undecided == {"WAITING", "ACTIVE_UNREVEALED", "PICKING", "SETTLING", "FORFEITED"}
Decided == {"FINALIZED", "REFUNDED"}

PotHeld(m) ==
  IF status[m] \notin Undecided THEN 0
  ELSE IF status[m] = "WAITING" THEN potBase[m] ELSE 2 * potBase[m]

HeldOn(m, c, k, side) ==
  IF c <= Len(cards[m]) /\ cards[m][c] = k THEN Burned(m, c, side) ELSE 0

Held(m, k, side) == SumFunction([c \in CardIndex |-> HeldOn(m, c, k, side)])

\* "The arena's collateral balance is at least their sum after every call"
\* (ArenaMatches.sol:25): the wallet is the undecided pots plus the credits
\* owed, and the outcome tokens are the placed and unsettled picks', so nothing
\* is paid with another match's pot or redeemed from another match's pick.
HoldingsAreAttributed ==
  /\ wallet = escrowed + credited
  /\ escrowed = SumFunction([m \in Matches |-> PotHeld(m)])
  /\ credited = SumFunction(creditOf)
  /\ \A k \in Markets, side \in Sides :
       tokens[k][side] = SumFunction([m \in Matches |-> Held(m, k, side)])

\* What the seat's picks of a match have cost, and what they have paid.
Staked(m, s) == SumFunction([c \in CardIndex |-> picks[m][c][s].costBase])
PaidTo(m, s) == SumFunction([c \in CardIndex |-> picks[m][c][s].payoutBase])

Earned(p, m, s) == IF playerOf[m][s] = p THEN awarded[m][s] + PaidTo(m, s) ELSE 0

\* What a player was and will be paid is exactly the shares of pots and the
\* payouts of picks that are theirs, whoever cranked (`claimCredit`).
CreditsAreEarned ==
  \A p \in Players :
    creditOf[p] + claimed[p]
      = SumFunction([m \in Matches |-> Earned(p, m, 0) + Earned(p, m, 1)])

\* A placed pick on a card that counts as settled has been redeemed: no
\* position is left behind on a card nobody may settle again (`settleCard`
\* marks the card for both seats whether or not both have picked).
NoPickIsStranded ==
  \A m \in Matches, c \in CardIndex, s \in Seats :
    Outstanding(m, c, s) => c \notin settledMask[m]

PlayedFor(m, s) == PaidTo(m, s) - Staked(m, s)

\* A won pot went to the seat whose picks did better, or to the only seat
\* that finished, judged by the records as they stay: nothing that settles
\* afterwards could have changed the winner (`finalize`).
PotFollowsPlay ==
  \A m \in Matches : status[m] = "FINALIZED" =>
    /\ Complete(m, 0) \/ Complete(m, 1)
    /\ awarded[m] =
         IF Complete(m, 0) /\ Complete(m, 1)
         THEN IF PlayedFor(m, 0) = PlayedFor(m, 1) THEN ToBoth(m)
              ELSE ToWinner(m, IF PlayedFor(m, 0) > PlayedFor(m, 1) THEN 0 ELSE 1)
         ELSE ToWinner(m, IF Complete(m, 0) THEN 0 ELSE 1)

Stage(m) ==
  IF status[m] = "NONE" THEN "none"
  ELSE IF status[m] = "WAITING" THEN "open"
  ELSE IF status[m] \in Decided THEN "closed" ELSE "full"

\* The arena implements the abstract side-pot: every pot is given away once,
\* in full, to the seats that filled it.
Pot == INSTANCE SidePot WITH
         Amounts <- {t.potBase : t \in TierChoices},
         stage <- [m \in Matches |-> Stage(m)],
         stake <- potBase,
         award <- awarded

PotSpec == Pot!Spec

\* Every match anybody opens ends, whoever is absent, paused or late.
EveryPotIsDecided ==
  \A m \in Matches : status[m] = "WAITING" ~> status[m] \in Decided

\* And every pick is paid, also in a match whose pot went home.
EveryPickIsPaid ==
  \A m \in Matches :
    (\E c \in CardIndex, s \in Seats : Outstanding(m, c, s))
      ~> (\A c \in CardIndex, s \in Seats : ~Outstanding(m, c, s))

=============================================================================
