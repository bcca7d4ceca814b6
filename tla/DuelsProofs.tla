----------------------------- MODULE DuelsProofs -----------------------------
(***************************************************************************)
(* What holds of the duels for every set of players, matches and Windows:  *)
(* of the arena, its types, that no pick is left behind on a settled card, *)
(* that its pots are side-pots, what it holds and for whom, and that a pot *)
(* follows the play; of the projector, for any number of overlapping       *)
(* cycles and of restarts, that the settler's worklist is complete and     *)
(* that the ladder counts a result once.                                   *)
(***************************************************************************)
EXTENDS Duels, FiniteSetTheorems, FiniteSums, TLAPS

Unrevealed == {"NONE", "WAITING", "ACTIVE_UNREVEALED"}
Revealed == {"PICKING", "SETTLING", "FORFEITED", "FINALIZED"}

\* A deck is there or not, and it is there from the reveal on.
DeckOK(m) ==
  /\ Len(cards[m]) \in {0, deckSize[m]}
  /\ status[m] \in Unrevealed => Len(cards[m]) = 0
  /\ status[m] \in Revealed => Len(cards[m]) = deckSize[m]

\* Only a revealed card is picked; a record is blank until then, and pays
\* nothing until it settles.
PicksOK(m) ==
  \A c \in CardIndex, s \in Seats :
    /\ picks[m][c][s].placed => c <= Len(cards[m])
    /\ ~picks[m][c][s].placed => picks[m][c][s] = NoPick
    /\ ~picks[m][c][s].settled => picks[m][c][s].payoutBase = 0
    /\ Outstanding(m, c, s) => c \notin settledMask[m]

\* A settled card is a card of the deck whose Window trades no more.
MaskOK(m) ==
  \A c \in settledMask[m] : c <= Len(cards[m]) /\ result[cards[m][c]] # "TRADING"

\* The seats are two players, and get nothing of a pot that is not decided.
SeatsOK(m) ==
  /\ status[m] # "NONE" => /\ playerOf[m] \in [Seats -> Players]
                           /\ playerOf[m][0] # playerOf[m][1]
  /\ status[m] \notin Decided => awarded[m] = Nothing

MatchOK(m) == DeckOK(m) /\ PicksOK(m) /\ MaskOK(m) /\ SeatsOK(m)

Inv == /\ TypeOK
       /\ tier \in TierChoices
       /\ \A m \in Matches : MatchOK(m)

-----------------------------------------------------------------------------
(* Types.                                                                  *)

\* The parts of the type that concern each group of variables.
LEMMA InitType == Init => TypeOK
<1> SUFFICES ASSUME Init PROVE TypeOK
  OBVIOUS
<1>1. SettingsTypeOK
  BY ArenaAssumption, Zenon DEF Init, SettingsTypeOK
<1>2. MatchTypeOK
  BY ArenaAssumption DEF Init, MatchTypeOK, Statuses
<1>3. PlayTypeOK
  BY ArenaAssumption DEF Init, PlayTypeOK, NoPick, PickRecord, Sides, Nothing, Agent, NoGrant
<1>4. MoneyTypeOK
  BY ArenaAssumption DEF Init, MoneyTypeOK, Results, Nothing
<1> QED
  BY <1>1, <1>2, <1>3, <1>4 DEF TypeOK

LEMMA InitShape == Init => \A m \in Matches : MatchOK(m)
<1> SUFFICES ASSUME Init, NEW m \in Matches PROVE MatchOK(m)
  OBVIOUS
<1>1. DeckOK(m)
  BY DEF Init, DeckOK, Revealed
<1>2. PicksOK(m)
  BY DEF Init, PicksOK, NoPick, Outstanding
<1>3. MaskOK(m)
  BY DEF Init, MaskOK
<1>4. SeatsOK(m)
  BY DEF Init, SeatsOK
<1> QED
  BY <1>1, <1>2, <1>3, <1>4 DEF MatchOK

LEMMA GrantedType ==
  ASSUME TypeOK, NEW m \in Matches, NEW a \in Agents \cup {NoAgent}, NEW ttl \in Ttls,
         NEW ceiling \in Nat
  PROVE  Granted(m, a, ttl, ceiling) \in Agent
<1>1. now \in Nat /\ ttl \in Nat
  BY ArenaAssumption DEF TypeOK, MoneyTypeOK
<1> QED
  BY <1>1 DEF Granted, NoGrant, Agent

LEMMA CreateType ==
  ASSUME Inv, NEW p \in Openers, NEW m \in Matches, NEW q \in Players, NEW deck \in Decks,
         NEW size \in CardIndex, NEW a \in Agents \cup {NoAgent}, NEW ttl \in Ttls,
         CreateMatch(p, m, q, deck, size, a, ttl)
  PROVE  TypeOK'
<1> USE DEF Inv, TypeOK
<1>0. /\ tier.potBase \in Nat /\ tier.perCardCapBase \in Nat /\ size \in Nat
      /\ now \in Nat /\ p \in Players /\ deck \in Seq(Markets)
  BY ArenaAssumption DEF SettingsTypeOK, Tier, CardIndex, MoneyTypeOK
<1>1. SettingsTypeOK'
  BY DEF SettingsTypeOK, CreateMatch, settings
<1>2. MatchTypeOK'
  <2>1. size \in 0..MAX_DECK
    BY ArenaAssumption DEF CardIndex
  <2> QED
    BY <1>0, <2>1 DEF MatchTypeOK, CreateMatch, Statuses, deckVars
<1>3. PlayTypeOK'
  <2>1. tier.perCardCapBase * size \in Nat
    BY <1>0
  <2>2. Granted(m, a, ttl, tier.perCardCapBase * size) \in Agent
    BY <2>1, GrantedType
  <2> HIDE DEF TypeOK
  <2>3. agents' \in [Matches -> [Seats -> Agent]]
    BY <2>2 DEF TypeOK, PlayTypeOK, CreateMatch
  <2> QED
    BY <2>3 DEF TypeOK, PlayTypeOK, CreateMatch, playVars
<1>4. MoneyTypeOK'
  <2> HIDE DEF Inv
  <2>1. /\ UNCHANGED <<creditOf, claimed, awarded, credited, tokens, worldVars>>
        /\ wallet' = wallet + tier.potBase /\ escrowed' = escrowed + tier.potBase
    BY DEF CreateMatch, playVars
  <2>2. MoneyTypeOK
    BY DEF Inv
  <2> HIDE DEF TypeOK
  <2>3. wallet \in Int /\ escrowed \in Int /\ tier.potBase \in Int
    BY <1>0, <2>2 DEF MoneyTypeOK
  <2>4. wallet' \in Int /\ escrowed' \in Int
    BY <2>1, <2>3
  <2> QED
    BY <2>1, <2>2, <2>4 DEF MoneyTypeOK, worldVars
<1> QED
  BY <1>1, <1>2, <1>3, <1>4

LEMMA JoinType ==
  ASSUME Inv, NEW m \in Matches, NEW a \in Agents \cup {NoAgent}, NEW ttl \in Ttls,
         JoinMatch(m, a, ttl)
  PROVE  TypeOK'
<1> USE DEF Inv, TypeOK
<1>0. potBase[m] \in Nat /\ perCardCapBase[m] \in Nat /\ deckSize[m] \in Nat /\ now \in Nat
  BY DEF MatchTypeOK, MoneyTypeOK
<1>1. SettingsTypeOK'
  BY DEF SettingsTypeOK, JoinMatch, settings
<1>2. MatchTypeOK'
  BY <1>0 DEF MatchTypeOK, JoinMatch, Statuses, deckVars, entryVars
<1>3. PlayTypeOK'
  <2>1. perCardCapBase[m] * deckSize[m] \in Nat
    BY <1>0
  <2>2. Granted(m, a, ttl, perCardCapBase[m] * deckSize[m]) \in Agent
    BY <2>1, GrantedType
  <2> HIDE DEF TypeOK
  <2>3. agents' \in [Matches -> [Seats -> Agent]]
    BY <2>2 DEF TypeOK, PlayTypeOK, JoinMatch, Seats
  <2> QED
    BY <2>3 DEF TypeOK, PlayTypeOK, JoinMatch, playVars
<1>4. MoneyTypeOK'
  BY <1>0 DEF MoneyTypeOK, JoinMatch, playVars, worldVars
<1> QED
  BY <1>1, <1>2, <1>3, <1>4

LEMMA AuthorizeType ==
  ASSUME Inv, NEW m \in Matches, NEW s \in Seats, NEW a \in Agents \cup {NoAgent},
         NEW ttl \in Ttls, AuthorizeAgent(m, s, a, ttl)
  PROVE  TypeOK'
<1> USE DEF Inv, TypeOK
<1>1. SettingsTypeOK'
  BY DEF SettingsTypeOK, AuthorizeAgent, settings
<1>2. MatchTypeOK'
  BY DEF MatchTypeOK, AuthorizeAgent, deckVars, entryVars
<1>3. PlayTypeOK'
  <2>1. perCardCapBase[m] * deckSize[m] \in Nat
    BY DEF MatchTypeOK
  <2>2. Granted(m, a, ttl, perCardCapBase[m] * deckSize[m]) \in Agent
    BY <2>1, GrantedType
  <2> HIDE DEF TypeOK
  <2>3. agents' \in [Matches -> [Seats -> Agent]]
    BY <2>2 DEF TypeOK, PlayTypeOK, AuthorizeAgent, Seats
  <2> QED
    BY <2>3 DEF TypeOK, PlayTypeOK, AuthorizeAgent, playVars
<1>4. MoneyTypeOK'
  BY DEF MoneyTypeOK, AuthorizeAgent, playVars, worldVars, potVars
<1> QED
  BY <1>1, <1>2, <1>3, <1>4

LEMMA RevealType ==
  ASSUME Inv, NEW m \in Matches, RevealDeck(m)
  PROVE  TypeOK'
<1> USE DEF Inv, TypeOK
<1>1. SettingsTypeOK'
  BY DEF SettingsTypeOK, RevealDeck, settings
<1>2. MatchTypeOK'
  <2>1. now \in Nat /\ params.pickWindowSec \in Nat
    BY DEF MoneyTypeOK, SettingsTypeOK, Params
  <2> QED
    BY <2>1 DEF MatchTypeOK, RevealDeck, entryVars, Statuses
<1>3. PlayTypeOK'
  BY DEF PlayTypeOK, RevealDeck, playVars
<1>4. MoneyTypeOK'
  BY DEF MoneyTypeOK, RevealDeck, playVars, worldVars, potVars
<1> QED
  BY <1>1, <1>2, <1>3, <1>4

\* A card of a revealed deck is a Window.
LEMMA CardIsMarket ==
  ASSUME Inv, NEW m \in Matches, NEW c \in Deck(m), Len(cards[m]) = deckSize[m]
  PROVE  c \in CardIndex /\ c <= Len(cards[m]) /\ cards[m][c] \in Markets
<1>1. cards[m] \in Seq(Markets) /\ deckSize[m] \in 0..MAX_DECK /\ MAX_DECK \in Nat
  BY ArenaAssumption DEF Inv, TypeOK, MatchTypeOK
<1> QED
  BY <1>1 DEF Deck, CardIndex

LEMMA DeckIsCards ==
  ASSUME Inv, NEW m \in Matches
  PROVE  Deck(m) \subseteq CardIndex
<1>1. deckSize[m] \in 0..MAX_DECK /\ MAX_DECK \in Nat
  BY ArenaAssumption DEF Inv, TypeOK, MatchTypeOK
<1> QED
  BY <1>1 DEF Deck, CardIndex

LEMMA PickCard ==
  ASSUME Inv, NEW m \in Matches, NEW c \in Deck(m), status[m] = "PICKING"
  PROVE  c \in CardIndex /\ c <= Len(cards[m]) /\ cards[m][c] \in Markets
BY CardIsMarket DEF Inv, MatchOK, DeckOK, Revealed

LEMMA PickType ==
  ASSUME Inv, NEW m \in Matches, NEW s \in Seats, NEW c \in Deck(m), NEW side \in Sides,
         NEW stake \in Stakes, NEW f \in Fills, Pick(m, s, c, side, stake, f),
         agents' \in [Matches -> [Seats -> Agent]]
  PROVE  TypeOK'
<1> USE DEF Inv, TypeOK
<1>0. stake \in Nat /\ f.cost \in Nat /\ f.quantity \in Nat /\ Refund(f, stake) \in Nat
  BY ArenaAssumption DEF Fill, Refund
<1>1. SettingsTypeOK'
  BY DEF SettingsTypeOK, Pick, settings
<1>2. MatchTypeOK'
  BY DEF MatchTypeOK, Pick, deckVars, entryVars, Statuses
<1>3. PlayTypeOK'
  <2>1. PICK p \in PickRecord :
          p = [placed |-> TRUE, settled |-> FALSE, outcomeIdx |-> side,
               quantity |-> f.quantity, costBase |-> f.cost, payoutBase |-> 0]
    BY <1>0 DEF PickRecord
  <2>2. picks' = [picks EXCEPT ![m][c][s] = p] /\ UNCHANGED <<settledMask, pnl>>
    BY <2>1 DEF Pick
  <2>3. picks' \in [Matches -> [CardIndex -> [Seats -> PickRecord]]]
    BY <2>2, DeckIsCards DEF PlayTypeOK
  <2> QED
    BY <2>2, <2>3 DEF PlayTypeOK
<1>4. MoneyTypeOK'
  <2> PICK k \in Markets : k = cards[m][c]
    BY PickCard DEF Pick
  <2>1. tokens \in [Markets -> [Sides -> Int]] /\ tokens[k][side] \in Int
    BY DEF MoneyTypeOK
  <2>2. tokens' = [tokens EXCEPT ![k][side] = @ + f.quantity]
    BY DEF Pick
  <2>3. tokens' \in [Markets -> [Sides -> Int]]
    BY <1>0, <2>1, <2>2
  <2>4. wallet' \in Int
    BY <1>0 DEF MoneyTypeOK, Pick
  <2> QED
    BY <2>3, <2>4 DEF MoneyTypeOK, Pick, worldVars, potVars
<1> QED
  BY <1>1, <1>2, <1>3, <1>4

LEMMA PlaceType ==
  ASSUME Inv, NEW m \in Matches, NEW s \in Seats, NEW c \in Deck(m), NEW side \in Sides,
         NEW stake \in Stakes, NEW f \in Fills,
         \/ PlacePick(m, s, c, side, stake, f)
         \/ \E a \in Agents : PlacePickFor(a, m, s, c, side, stake, f)
  PROVE  Pick(m, s, c, side, stake, f) /\ TypeOK'
<1>1. agents \in [Matches -> [Seats -> Agent]]
  BY DEF Inv, TypeOK, PlayTypeOK
<1>2. CASE PlacePick(m, s, c, side, stake, f)
  BY <1>1, <1>2, PickType DEF PlacePick
<1>3. ASSUME NEW a \in Agents, PlacePickFor(a, m, s, c, side, stake, f)
      PROVE  Pick(m, s, c, side, stake, f) /\ TypeOK'
  <2>1. agents[m][s].spentBase + stake \in Nat
    BY <1>1, ArenaAssumption DEF Agent
  <2>2. agents' \in [Matches -> [Seats -> Agent]]
    BY <1>1, <1>3, <2>1 DEF PlacePickFor, Agent
  <2> QED
    BY <1>3, <2>2, PickType DEF PlacePickFor
<1> QED
  BY <1>2, <1>3

LEMMA ShareType ==
  ASSUME TypeOK, NEW m \in Matches
  PROVE  /\ ToCreator(m) \in [Seats -> Nat] /\ ToBoth(m) \in [Seats -> Nat]
         /\ \A w : ToWinner(m, w) \in [Seats -> Nat]
         /\ Share(m) \in [Seats -> Nat]
<1>1. potBase[m] \in Nat /\ 2 * potBase[m] \in Nat
  BY DEF TypeOK, MatchTypeOK
<1>2. /\ ToCreator(m) \in [Seats -> Nat] /\ ToBoth(m) \in [Seats -> Nat]
      /\ \A w : ToWinner(m, w) \in [Seats -> Nat]
  BY <1>1 DEF ToCreator, ToBoth, ToWinner
<1> QED
  BY <1>2, Zenon DEF Share

LEMMA CloseType ==
  ASSUME Inv, NEW m \in Matches, NEW end \in Statuses, NEW share \in [Seats -> Nat],
         CloseWith(m, end, share)
  PROVE  TypeOK'
<1> USE DEF Inv, TypeOK
<1>0. share[0] \in Nat /\ share[1] \in Nat
  BY DEF Seats
<1>1. SettingsTypeOK'
  BY DEF SettingsTypeOK, CloseWith, settings
<1>2. MatchTypeOK'
  BY DEF MatchTypeOK, CloseWith, deckVars, entryVars
<1>3. PlayTypeOK'
  BY DEF PlayTypeOK, CloseWith, playVars
<1>4. MoneyTypeOK'
  BY <1>0 DEF MoneyTypeOK, CloseWith, Award, worldVars, playVars
<1> QED
  BY <1>1, <1>2, <1>3, <1>4

LEMMA LockedType ==
  ASSUME Inv, NEW m \in Matches, NEW end \in Statuses, Locked(m, end)
  PROVE  TypeOK'
<1> USE DEF Inv, TypeOK
<1>1. SettingsTypeOK'
  BY DEF SettingsTypeOK, Locked, settings
<1>2. MatchTypeOK'
  BY DEF MatchTypeOK, Locked, deckVars, entryVars
<1>3. PlayTypeOK'
  BY DEF PlayTypeOK, Locked, playVars
<1>4. MoneyTypeOK'
  BY DEF MoneyTypeOK, Locked, worldVars, playVars, potVars
<1> QED
  BY <1>1, <1>2, <1>3, <1>4


LEMMA RedeemedType ==
  ASSUME NEW k, NEW side, NEW n \in Nat
  PROVE  Redeemed(k, side, n) \in Nat
<1>1. n \div 2 \in Nat /\ 0 \in Nat
  OBVIOUS
<1> QED
  BY <1>1, Zenon DEF Redeemed

LEMMA PayoutType ==
  ASSUME TypeOK, NEW m \in Matches, NEW c \in CardIndex, NEW s \in Seats
  PROVE  /\ Payout(m, c, s) \in Nat /\ picks[m][c][s] \in PickRecord
         /\ Settled(m, c, s) \in PickRecord
<1>1. picks[m][c][s] \in PickRecord
  BY DEF TypeOK, PlayTypeOK
<1>2. picks[m][c][s].quantity \in Nat
  BY <1>1 DEF PickRecord
<1>3. Redeemed(cards[m][c], picks[m][c][s].outcomeIdx, picks[m][c][s].quantity) \in Nat
  BY <1>2, RedeemedType
<1>4. Payout(m, c, s) \in Nat
  BY <1>3, Zenon DEF Payout
<1>5. Settled(m, c, s) \in PickRecord
  BY <1>1, <1>4 DEF Settled, PickRecord
<1> QED
  BY <1>1, <1>4, <1>5

LEMMA BurnedType ==
  ASSUME TypeOK, NEW m \in Matches, NEW c \in CardIndex, NEW side
  PROVE  Burned(m, c, side) \in Nat
<1>1. picks[m][c][0].quantity \in Nat /\ picks[m][c][1].quantity \in Nat
  BY DEF TypeOK, PlayTypeOK, PickRecord, Seats
<1> QED
  BY <1>1 DEF Burned

LEMMA SettleType ==
  ASSUME Inv, NEW m \in Matches, NEW c \in CardIndex, SettleCard(m, c)
  PROVE  TypeOK'
<1> USE DEF Inv, TypeOK
<1>0. /\ Payout(m, c, 0) \in Nat /\ Payout(m, c, 1) \in Nat
      /\ \A s \in Seats : Settled(m, c, s) \in PickRecord /\ Payout(m, c, s) \in Nat
      /\ \A side \in Sides : Burned(m, c, side) \in Nat
  BY PayoutType, BurnedType DEF Seats
<1>1. SettingsTypeOK'
  BY DEF SettingsTypeOK, SettleCard, settings
<1>2. MatchTypeOK'
  BY DEF MatchTypeOK, SettleCard, deckVars, entryVars
<1> PICK k \in Markets : k = cards[m][c]
  BY DEF SettleCard, MatchTypeOK, CardIndex
<1>3. PlayTypeOK'
  <2>1. picks' \in [Matches -> [CardIndex -> [Seats -> PickRecord]]]
    BY <1>0 DEF PlayTypeOK, SettleCard
  <2>2. pnl' \in [Matches -> [Seats -> Int]]
    <3>1. ASSUME NEW s \in Seats
          PROVE  (pnl[m][s] + Payout(m, c, s)) - picks[m][c][s].costBase \in Int
      BY <1>0 DEF PlayTypeOK, PickRecord
    <3> QED
      BY <3>1 DEF PlayTypeOK, SettleCard
  <2> QED
    BY <2>1, <2>2 DEF PlayTypeOK, SettleCard
<1>4. MoneyTypeOK'
  <2>1. tokens \in [Markets -> [Sides -> Int]]
    BY DEF MoneyTypeOK
  <2>2. tokens' = [tokens EXCEPT ![k] = [side \in Sides |-> @[side] - Burned(m, c, side)]]
    BY DEF SettleCard
  <2>3. tokens' \in [Markets -> [Sides -> Int]]
    BY <1>0, <2>1, <2>2
  <2>4. wallet' \in Int /\ credited' \in Int
    BY <1>0 DEF MoneyTypeOK, SettleCard
  <2>5. creditOf' \in [Players -> Nat]
    <3>1. ASSUME NEW p \in Players
          PROVE  creditOf[p] + (IF p = playerOf[m][0] THEN Payout(m, c, 0) ELSE 0)
                   + (IF p = playerOf[m][1] THEN Payout(m, c, 1) ELSE 0) \in Nat
      BY <1>0 DEF MoneyTypeOK
    <3> QED
      BY <3>1 DEF SettleCard
  <2> QED
    BY <2>3, <2>4, <2>5 DEF MoneyTypeOK, SettleCard, worldVars
<1> QED
  BY <1>1, <1>2, <1>3, <1>4

LEMMA ClaimType ==
  ASSUME Inv, NEW p \in Players, ClaimCredit(p)
  PROVE  TypeOK'
<1> USE DEF Inv, TypeOK
<1>1. SettingsTypeOK'
  BY DEF SettingsTypeOK, ClaimCredit, settings
<1>2. MatchTypeOK'
  BY DEF MatchTypeOK, ClaimCredit, deckVars, entryVars
<1>3. PlayTypeOK'
  BY DEF PlayTypeOK, ClaimCredit, playVars
<1>4. MoneyTypeOK'
  BY DEF MoneyTypeOK, ClaimCredit, worldVars, playVars
<1> QED
  BY <1>1, <1>2, <1>3, <1>4

LEMMA AdminType ==
  ASSUME Inv, Admin
  PROVE  TypeOK'
<1> USE DEF Inv, TypeOK, Admin, SetParams, SetTier, SetPaused, Set
<1>1. SettingsTypeOK'
  <2>1. params' \in Params /\ LegalParams(params)'
    BY ArenaAssumption DEF SettingsTypeOK, LegalParams
  <2>2. tier' \in Tier
    BY ArenaAssumption DEF SettingsTypeOK
  <2>3. paused' \in BOOLEAN
    BY ArenaAssumption, Zenon DEF SettingsTypeOK
  <2> QED
    BY <2>1, <2>2, <2>3 DEF SettingsTypeOK
<1>2. UNCHANGED <<status, entryVars, joinedAtSec, deckVars, playVars, agents,
                  potVars, wallet, worldVars, claimed>>
  BY Zenon
<1>3. MatchTypeOK'
  BY <1>2 DEF MatchTypeOK, deckVars, entryVars
<1>4. PlayTypeOK'
  BY <1>2 DEF PlayTypeOK, playVars
<1>5. MoneyTypeOK'
  BY <1>2 DEF MoneyTypeOK, worldVars, playVars, potVars
<1> QED
  BY <1>1, <1>3, <1>4, <1>5

LEMMA WorldType ==
  ASSUME Inv, Venue \/ Tick
  PROVE  TypeOK'
<1> USE DEF Inv, TypeOK
<1>1. /\ UNCHANGED <<settings, status, entryVars, joinedAtSec, deckVars, playVars,
                     agents, potVars, wallet, claimed>>
      /\ result' \in [Markets -> Results] /\ now' \in 0..MaxTime
  <2>1. CASE Venue
    BY <2>1 DEF Venue, Resolve, MoneyTypeOK
  <2>2. CASE Tick
    BY <2>2, ArenaAssumption DEF Tick, MoneyTypeOK
  <2> QED
    BY <2>1, <2>2
<1>2. SettingsTypeOK'
  BY <1>1 DEF SettingsTypeOK, settings
<1>3. MatchTypeOK'
  BY <1>1 DEF MatchTypeOK, deckVars, entryVars
<1>4. PlayTypeOK'
  BY <1>1 DEF PlayTypeOK, playVars
<1>5. MoneyTypeOK'
  BY <1>1 DEF MoneyTypeOK, playVars, potVars
<1> QED
  BY <1>2, <1>3, <1>4, <1>5

-----------------------------------------------------------------------------
(* Matches keep their shape.                                               *)

\* What a step leaves alone of a match.
Untouched(n) ==
  /\ status'[n] = status[n] /\ playerOf'[n] = playerOf[n] /\ deckSize'[n] = deckSize[n]
  /\ cards'[n] = cards[n] /\ picks'[n] = picks[n] /\ settledMask'[n] = settledMask[n]
  /\ awarded'[n] = awarded[n]

\* A Window that is decided stays decided.
Monotone == \A k \in Markets : result[k] # "TRADING" => result'[k] # "TRADING"

LEMMA UntouchedOK ==
  ASSUME Inv, NEW n \in Matches, Untouched(n), Monotone
  PROVE  MatchOK(n)'
<1> USE DEF Untouched
<1>0. MatchOK(n)
  BY DEF Inv
<1>1. DeckOK(n)'
  BY <1>0 DEF MatchOK, DeckOK
<1>2. PicksOK(n)'
  BY <1>0 DEF MatchOK, PicksOK, Outstanding
<1>3. MaskOK(n)'
  <2>1. \A c \in settledMask[n] : c <= Len(cards[n]) => cards[n][c] \in Markets
    <3>1. cards[n] \in Seq(Markets) /\ settledMask[n] \subseteq 1..MAX_DECK
      BY DEF Inv, TypeOK, MatchTypeOK, PlayTypeOK, CardIndex
    <3> QED
      BY <3>1, ArenaAssumption
  <2> QED
    BY <1>0, <2>1 DEF MatchOK, MaskOK, Monotone
<1>4. SeatsOK(n)'
  BY <1>0 DEF MatchOK, SeatsOK
<1> QED
  BY <1>1, <1>2, <1>3, <1>4 DEF MatchOK

LEMMA CreateOK ==
  ASSUME Inv, NEW p \in Openers, NEW m \in Matches, NEW q \in Players, NEW deck \in Decks,
         NEW size \in CardIndex, NEW a \in Agents \cup {NoAgent}, NEW ttl \in Ttls,
         CreateMatch(p, m, q, deck, size, a, ttl)
  PROVE  /\ \A n \in Matches \ {m} : Untouched(n)
         /\ Monotone
         /\ MatchOK(m)'
<1> USE DEF Inv, TypeOK, MatchTypeOK, CreateMatch, playVars, deckVars, worldVars
<1>1. \A n \in Matches \ {m} : Untouched(n)
  BY DEF Untouched
<1>2. Monotone
  BY DEF Monotone
<1>3. DeckOK(m)'
  BY DEF DeckOK, MatchOK, Unrevealed, Revealed
<1>4. PicksOK(m)' /\ MaskOK(m)'
  BY DEF PicksOK, MaskOK, MatchOK, Outstanding
<1>5. SeatsOK(m)'
  <2>1. playerOf'[m] = [s \in Seats |-> IF s = 0 THEN p ELSE q]
    OBVIOUS
  <2>2. playerOf'[m] \in [Seats -> Players]
    BY <2>1, ArenaAssumption
  <2>3. playerOf'[m][0] # playerOf'[m][1]
    BY <2>1 DEF Seats
  <2>4. awarded'[m] = Nothing
    BY DEF SeatsOK, MatchOK, Decided
  <2> QED
    BY <2>2, <2>3, <2>4 DEF SeatsOK
<1> QED
  BY <1>1, <1>2, <1>3, <1>4, <1>5 DEF MatchOK

LEMMA JoinOK ==
  ASSUME Inv, NEW m \in Matches, NEW a, NEW ttl, JoinMatch(m, a, ttl)
  PROVE  /\ \A n \in Matches \ {m} : Untouched(n)
         /\ Monotone
         /\ MatchOK(m)'
<1> USE DEF Inv, TypeOK, MatchTypeOK, JoinMatch, playVars, deckVars, worldVars, entryVars
<1>1. \A n \in Matches \ {m} : Untouched(n)
  BY DEF Untouched
<1>2. Monotone
  BY DEF Monotone
<1>3. DeckOK(m)'
  BY DEF DeckOK, MatchOK, Unrevealed, Revealed
<1>4. PicksOK(m)' /\ MaskOK(m)'
  BY DEF PicksOK, MaskOK, MatchOK, Outstanding
<1>5. SeatsOK(m)'
  BY DEF SeatsOK, MatchOK, Decided
<1> QED
  BY <1>1, <1>2, <1>3, <1>4, <1>5 DEF MatchOK

LEMMA RevealOK ==
  ASSUME Inv, NEW m \in Matches, RevealDeck(m)
  PROVE  /\ \A n \in Matches \ {m} : Untouched(n)
         /\ Monotone
         /\ MatchOK(m)'
<1> USE DEF Inv, TypeOK, MatchTypeOK, RevealDeck, playVars, potVars, worldVars, entryVars
<1>1. \A n \in Matches \ {m} : Untouched(n)
  BY DEF Untouched
<1>2. Monotone
  BY DEF Monotone
<1>0. \A c \in CardIndex : c \notin settledMask[m] /\ \A s \in Seats : ~picks[m][c][s].placed
  BY ArenaAssumption DEF MatchOK, DeckOK, PicksOK, MaskOK, Unrevealed, CardIndex
<1>3. DeckOK(m)'
  BY DEF DeckOK, MatchOK, Unrevealed, Revealed
<1>4. PicksOK(m)'
  BY <1>0 DEF PicksOK, MatchOK, Outstanding
<1>5. MaskOK(m)'
  BY <1>0 DEF MaskOK, MatchOK, PlayTypeOK
<1>6. SeatsOK(m)'
  BY DEF SeatsOK, MatchOK, Decided
<1> QED
  BY <1>1, <1>2, <1>3, <1>4, <1>5, <1>6 DEF MatchOK

LEMMA PickOK ==
  ASSUME Inv, NEW m \in Matches, NEW s \in Seats, NEW c \in Deck(m), NEW side \in Sides,
         NEW stake \in Stakes, NEW f \in Fills, Pick(m, s, c, side, stake, f)
  PROVE  /\ \A n \in Matches \ {m} : Untouched(n)
         /\ Monotone
         /\ MatchOK(m)'
<1>0. /\ c \in CardIndex /\ c <= Len(cards[m]) /\ cards[m][c] \in Markets
      /\ status[m] = "PICKING" /\ result[cards[m][c]] = "TRADING"
      /\ UNCHANGED <<playerOf, deckSize, cards, settledMask, result, awarded>>
      /\ status \in [Matches -> Statuses]
      /\ picks \in [Matches -> [CardIndex -> [Seats -> PickRecord]]]
      /\ MatchOK(m)
  BY PickCard DEF Pick, Pickable, entryVars, deckVars, potVars, worldVars, Inv, TypeOK,
       MatchTypeOK, PlayTypeOK
<1>1. status' = status \/ status' = [status EXCEPT ![m] = "SETTLING"]
  BY DEF Pick
<1> DEFINE r == [placed |-> TRUE, settled |-> FALSE, outcomeIdx |-> side,
                 quantity |-> f.quantity, costBase |-> f.cost, payoutBase |-> 0]
<1>2. picks' = [picks EXCEPT ![m][c][s] = r]
  BY DEF Pick
<1>3. r.placed /\ ~r.settled /\ r.payoutBase = 0
  OBVIOUS
<1> HIDE DEF r
<1>4. \A n \in Matches \ {m} : Untouched(n)
  BY <1>0, <1>1, <1>2 DEF Untouched
<1>5. Monotone
  BY <1>0 DEF Monotone
<1>6. DeckOK(m)'
  BY <1>0, <1>1 DEF DeckOK, MatchOK, Unrevealed, Revealed
<1>7. PicksOK(m)'
  <2>1. \A d \in CardIndex, z \in Seats :
          picks'[m][d][z] = IF d = c /\ z = s THEN r ELSE picks[m][d][z]
    BY <1>0, <1>2
  <2>2. c \notin settledMask[m]
    BY <1>0 DEF MatchOK, MaskOK
  <2> QED
    BY <1>0, <1>3, <2>1, <2>2 DEF PicksOK, MatchOK, Outstanding
<1>8. MaskOK(m)'
  BY <1>0 DEF MaskOK, MatchOK
<1>9. SeatsOK(m)'
  BY <1>0, <1>1 DEF SeatsOK, MatchOK, Decided
<1> QED
  BY <1>4, <1>5, <1>6, <1>7, <1>8, <1>9 DEF MatchOK

\* How a match can leave the stage it is in without a player.
Returned(m) == status[m] = "WAITING" /\ CloseWith(m, "REFUNDED", ToCreator(m))
Undone(m) ==
  status[m] \in {"ACTIVE_UNREVEALED", "PICKING"} /\ CloseWith(m, "REFUNDED", ToBoth(m))
Won(m) ==
  /\ status[m] \in {"SETTLING", "FORFEITED"} /\ PlayedAreSettled(m)
  /\ CloseWith(m, "FINALIZED", Share(m))
Ended(m) ==
  /\ status[m] = "PICKING"
  /\ \/ Complete(m, 0) /\ Complete(m, 1) /\ Locked(m, "SETTLING")
     \/ Complete(m, 0) # Complete(m, 1) /\ Locked(m, "FORFEITED")

LEMMA CrankCases ==
  ASSUME NEW m, CancelMatch(m) \/ Crank(m)
  PROVE  \/ Returned(m) \/ Undone(m) \/ Won(m) \/ Ended(m)
         \/ \E c \in CardIndex : SettleCard(m, c)
BY Zenon DEF Crank, CancelMatch, RefundUnjoined, RefundUnrevealed, LockPicks, Finalize,
     Returned, Undone, Won, Ended

LEMMA CloseOK ==
  ASSUME Inv, NEW m \in Matches, NEW share \in [Seats -> Nat], NEW end \in Decided,
         CloseWith(m, end, share), status[m] \in Undecided,
         end = "FINALIZED" => status[m] \in Revealed
  PROVE  /\ \A n \in Matches \ {m} : Untouched(n)
         /\ Monotone
         /\ MatchOK(m)'
<1> USE DEF Inv, TypeOK, MatchTypeOK, CloseWith, Award, playVars, deckVars, worldVars,
      entryVars
<1>1. \A n \in Matches \ {m} : Untouched(n)
  BY DEF Untouched, MoneyTypeOK
<1>2. Monotone
  BY DEF Monotone
<1>3. DeckOK(m)'
  BY DEF DeckOK, MatchOK, Unrevealed, Revealed, Decided
<1>4. PicksOK(m)' /\ MaskOK(m)'
  BY DEF PicksOK, MaskOK, MatchOK, Outstanding
<1>5. SeatsOK(m)'
  BY DEF SeatsOK, MatchOK, Decided, Undecided
<1> QED
  BY <1>1, <1>2, <1>3, <1>4, <1>5 DEF MatchOK

LEMMA EndedOK ==
  ASSUME Inv, NEW m \in Matches, Ended(m)
  PROVE  /\ \A n \in Matches \ {m} : Untouched(n)
         /\ Monotone
         /\ MatchOK(m)'
<1>0. /\ status[m] = "PICKING"
      /\ Locked(m, "SETTLING") \/ Locked(m, "FORFEITED")
  BY DEF Ended
<1>1. /\ status' = [status EXCEPT ![m] = "SETTLING"] \/ status' = [status EXCEPT ![m] = "FORFEITED"]
      /\ UNCHANGED <<playerOf, deckSize, cards, picks, settledMask, result, awarded>>
  BY <1>0 DEF Locked, entryVars, playVars, deckVars, potVars, worldVars
<1> USE DEF Inv, TypeOK, MatchTypeOK
<1>2. \A n \in Matches \ {m} : Untouched(n)
  BY <1>1 DEF Untouched
<1>3. Monotone
  BY <1>1 DEF Monotone
<1>4. DeckOK(m)'
  BY <1>0, <1>1 DEF DeckOK, MatchOK, Unrevealed, Revealed
<1>5. PicksOK(m)' /\ MaskOK(m)'
  BY <1>1 DEF PicksOK, MaskOK, MatchOK, Outstanding
<1>6. SeatsOK(m)'
  BY <1>0, <1>1 DEF SeatsOK, MatchOK, Decided
<1> QED
  BY <1>2, <1>3, <1>4, <1>5, <1>6 DEF MatchOK

\* What settling a card does to a seat's records of the match.
LEMMA SettleEffect ==
  ASSUME Inv, NEW m \in Matches, NEW c \in CardIndex, SettleCard(m, c)
  PROVE  /\ cards[m][c] \in Markets /\ c <= Len(cards[m]) /\ result[cards[m][c]] # "TRADING"
         /\ \A n \in Matches \ {m} : picks'[n] = picks[n]
         /\ \A d \in CardIndex, s \in Seats :
              picks'[m][d][s] = IF d = c THEN Settled(m, c, s) ELSE picks[m][d][s]
         /\ \A s \in Seats : /\ Settled(m, c, s).placed = picks[m][c][s].placed
                             /\ Settled(m, c, s).costBase = picks[m][c][s].costBase
                             /\ Settled(m, c, s).quantity = picks[m][c][s].quantity
                             /\ Settled(m, c, s).outcomeIdx = picks[m][c][s].outcomeIdx
                             /\ Outstanding(m, c, s) => Settled(m, c, s).settled
                             /\ ~Outstanding(m, c, s) => Settled(m, c, s) = picks[m][c][s]
                             /\ Settled(m, c, s).payoutBase
                                  = picks[m][c][s].payoutBase + Payout(m, c, s)
<1>1. cards[m][c] \in Markets /\ c <= Len(cards[m]) /\ result[cards[m][c]] # "TRADING"
  BY DEF Inv, TypeOK, MatchTypeOK, SettleCard, CardIndex
<1>2. picks \in [Matches -> [CardIndex -> [Seats -> PickRecord]]]
  BY DEF Inv, TypeOK, PlayTypeOK
<1>3. picks' = [picks EXCEPT ![m][c] = [s \in Seats |-> Settled(m, c, s)]]
  BY DEF SettleCard
<1>4. \A n \in Matches \ {m} : picks'[n] = picks[n]
  BY <1>2, <1>3
<1>5. ASSUME NEW d \in CardIndex, NEW s \in Seats
      PROVE  picks'[m][d][s] = IF d = c THEN Settled(m, c, s) ELSE picks[m][d][s]
  BY <1>2, <1>3
<1>6. ASSUME NEW s \in Seats
      PROVE  /\ Settled(m, c, s).placed = picks[m][c][s].placed
             /\ Settled(m, c, s).costBase = picks[m][c][s].costBase
             /\ Settled(m, c, s).quantity = picks[m][c][s].quantity
             /\ Settled(m, c, s).outcomeIdx = picks[m][c][s].outcomeIdx
             /\ Outstanding(m, c, s) => Settled(m, c, s).settled
             /\ ~Outstanding(m, c, s) => Settled(m, c, s) = picks[m][c][s]
             /\ Settled(m, c, s).payoutBase = picks[m][c][s].payoutBase + Payout(m, c, s)
  <2>0. picks[m][c][s] \in PickRecord /\ Payout(m, c, s) \in Nat
    BY PayoutType DEF Inv
  <2>1. CASE Outstanding(m, c, s)
    <3>1. Settled(m, c, s)
          = [picks[m][c][s] EXCEPT !.settled = TRUE, !.payoutBase = Payout(m, c, s)]
      BY <2>1 DEF Settled
    <3>2. picks[m][c][s].payoutBase = 0
      BY <2>1 DEF Inv, MatchOK, PicksOK, Outstanding
    <3> QED
      BY <2>0, <2>1, <3>1, <3>2 DEF PickRecord
  <2>2. CASE ~Outstanding(m, c, s)
    <3>1. Settled(m, c, s) = picks[m][c][s] /\ Payout(m, c, s) = 0
      BY <2>2 DEF Settled, Payout
    <3> QED
      BY <2>0, <2>2, <3>1 DEF PickRecord
  <2> QED
    BY <2>1, <2>2
<1> QED
  BY <1>1, <1>4, <1>5, <1>6

LEMMA SettleOK ==
  ASSUME Inv, NEW m \in Matches, NEW c \in CardIndex, SettleCard(m, c)
  PROVE  /\ \A n \in Matches \ {m} : Untouched(n)
         /\ Monotone
         /\ MatchOK(m)'
<1>0. /\ UNCHANGED <<status, playerOf, deckSize, cards, result, awarded>>
      /\ settledMask' = [settledMask EXCEPT ![m] = @ \cup {c}]
      /\ settledMask \in [Matches -> SUBSET CardIndex]
      /\ MatchOK(m)
  BY DEF SettleCard, entryVars, deckVars, worldVars, Inv, TypeOK, PlayTypeOK
<1>1. settledMask'[m] = settledMask[m] \cup {c}
  BY <1>0
<1>2. \A n \in Matches \ {m} : Untouched(n)
  BY <1>0, SettleEffect DEF Untouched
<1>3. Monotone
  BY <1>0 DEF Monotone
<1>4. DeckOK(m)'
  BY <1>0 DEF DeckOK, MatchOK
<1>5. PicksOK(m)'
  <2>1. ASSUME NEW d \in CardIndex, NEW s \in Seats
        PROVE  /\ picks'[m][d][s].placed => d <= Len(cards'[m])
               /\ ~picks'[m][d][s].placed => picks'[m][d][s] = NoPick
               /\ ~picks'[m][d][s].settled => picks'[m][d][s].payoutBase = 0
               /\ picks'[m][d][s].placed /\ ~picks'[m][d][s].settled => d \notin settledMask'[m]
    <3>1. CASE d # c
      <4>1. picks'[m][d][s] = picks[m][d][s]
        BY <3>1, SettleEffect
      <4> QED
        BY <1>0, <1>1, <3>1, <4>1 DEF MatchOK, PicksOK, Outstanding
    <3>2. CASE d = c
      <4>1. picks'[m][d][s] = Settled(m, c, s)
        BY <3>2, SettleEffect
      <4>2. CASE Outstanding(m, c, s)
        <5>1. Settled(m, c, s).settled /\ Settled(m, c, s).placed /\ c <= Len(cards[m])
          BY <4>2, SettleEffect DEF Outstanding
        <5> QED
          BY <1>0, <3>2, <4>1, <5>1
      <4>3. CASE ~Outstanding(m, c, s)
        <5>1. Settled(m, c, s) = picks[m][c][s]
          BY <4>3, SettleEffect
        <5> QED
          BY <1>0, <3>2, <4>1, <4>3, <5>1 DEF MatchOK, PicksOK, Outstanding
      <4> QED
        BY <4>2, <4>3
    <3> QED
      BY <3>1, <3>2
  <2> QED
    BY <2>1 DEF PicksOK, Outstanding
<1>6. MaskOK(m)'
  BY <1>0, <1>1, SettleEffect DEF MaskOK, MatchOK
<1>7. SeatsOK(m)'
  BY <1>0 DEF SeatsOK, MatchOK
<1> QED
  BY <1>2, <1>3, <1>4, <1>5, <1>6, <1>7 DEF MatchOK

\* Every step acts on one match, or on none.
LEMMA ClosingOK ==
  ASSUME Inv, NEW m \in Matches, Returned(m) \/ Undone(m) \/ Won(m)
  PROVE  /\ TypeOK'
         /\ \A n \in Matches \ {m} : Untouched(n)
         /\ Monotone
         /\ MatchOK(m)'
<1>1. CASE Returned(m)
  BY <1>1, CloseOK, CloseType, ShareType
     DEF Returned, Inv, Decided, Undecided, Statuses
<1>2. CASE Undone(m)
  BY <1>2, CloseOK, CloseType, ShareType
     DEF Undone, Inv, Decided, Undecided, Statuses
<1>3. CASE Won(m)
  BY <1>3, CloseOK, CloseType, ShareType
     DEF Won, Inv, Decided, Undecided, Statuses, Revealed
<1> QED
  BY <1>1, <1>2, <1>3

LEMMA EndedType ==
  ASSUME Inv, NEW m \in Matches, Ended(m)
  PROVE  TypeOK'
BY LockedType DEF Ended, Statuses

\* Only the admin changes the tier, and to one of the choices.
LEMMA TierStays ==
  ASSUME Inv, [Next]_vars
  PROVE  tier' \in TierChoices
<1> USE DEF Inv
<1>1. CASE Admin
  BY <1>1 DEF Admin, SetParams, SetTier, SetPaused, Set
<1>2. CASE Entry
  BY <1>2 DEF Entry, CreateMatch, JoinMatch, AuthorizeAgent, settings
<1>3. CASE Playing
  BY <1>3 DEF Playing, PlacePick, PlacePickFor, Pick, settings
<1>4. ASSUME NEW m \in Matches, CancelMatch(m) \/ RevealDeck(m) \/ Crank(m)
      PROVE  tier' = tier
  BY <1>4, CrankCases, Zenon DEF RevealDeck, Returned, Undone, Won, Ended, CloseWith, Locked,
     SettleCard, settings
<1>5. CASE (\E p \in Players : ClaimCredit(p)) \/ Venue \/ Tick \/ UNCHANGED vars
  BY <1>5 DEF ClaimCredit, Venue, Resolve, Tick, vars, settings
<1> QED
  BY <1>1, <1>2, <1>3, <1>4, <1>5 DEF Next

LEMMA OneMatch ==
  ASSUME Inv, NEW m \in Matches, TypeOK', tier' \in TierChoices,
         \A n \in Matches \ {m} : Untouched(n), Monotone, MatchOK(m)'
  PROVE  Inv'
BY UntouchedOK DEF Inv

LEMMA NoMatch ==
  ASSUME Inv, TypeOK', tier' \in TierChoices, Monotone,
         UNCHANGED <<status, playerOf, deckSize, cards, picks, settledMask, awarded>>
  PROVE  Inv'
BY UntouchedOK DEF Inv, Untouched

LEMMA InitInv == Init => Inv
BY InitType, InitShape DEF Init, Inv

LEMMA InvStep == Inv /\ [Next]_vars => Inv'
<1> SUFFICES ASSUME Inv, [Next]_vars PROVE Inv'
  OBVIOUS
<1>0. tier' \in TierChoices
  BY TierStays
<1>1. CASE Entry
  <2>1. ASSUME NEW m \in Matches, NEW a \in Agents \cup {NoAgent}, NEW ttl \in Ttls,
               NEW p \in Openers, NEW q \in Players, NEW deck \in Decks,
               NEW size \in CardIndex, CreateMatch(p, m, q, deck, size, a, ttl)
        PROVE  Inv'
    BY <1>0, <2>1, CreateType, CreateOK, OneMatch
  <2>2. ASSUME NEW m \in Matches, NEW a \in Agents \cup {NoAgent}, NEW ttl \in Ttls,
               JoinMatch(m, a, ttl)
        PROVE  Inv'
    BY <1>0, <2>2, JoinType, JoinOK, OneMatch
  <2>3. ASSUME NEW m \in Matches, NEW a \in Agents \cup {NoAgent}, NEW ttl \in Ttls,
               NEW s \in Seats, AuthorizeAgent(m, s, a, ttl)
        PROVE  Inv'
    <3>1. /\ UNCHANGED <<status, playerOf, deckSize, cards, picks, settledMask, awarded>>
          /\ Monotone
      BY <2>3 DEF AuthorizeAgent, entryVars, deckVars, playVars, potVars, worldVars, Monotone
    <3> QED
      BY <1>0, <2>3, <3>1, AuthorizeType, NoMatch
  <2> QED
    BY <1>1, <2>1, <2>2, <2>3 DEF Entry
<1>2. CASE Playing
  <2>1. PICK m \in Matches, s \in Seats, side \in Sides, stake \in Stakes, f \in Fills :
          \E c \in Deck(m) : \/ PlacePick(m, s, c, side, stake, f)
                            \/ \E a \in Agents : PlacePickFor(a, m, s, c, side, stake, f)
    BY <1>2 DEF Playing
  <2>2. PICK c \in Deck(m) : \/ PlacePick(m, s, c, side, stake, f)
                            \/ \E a \in Agents : PlacePickFor(a, m, s, c, side, stake, f)
    BY <2>1
  <2>3. Pick(m, s, c, side, stake, f) /\ TypeOK'
    BY <2>2, PlaceType
  <2> QED
    BY <1>0, <2>3, PickOK, OneMatch
<1>3. ASSUME NEW m \in Matches, CancelMatch(m) \/ Crank(m) PROVE Inv'
  <2>1. CASE Returned(m) \/ Undone(m) \/ Won(m)
    BY <1>0, <2>1, ClosingOK, OneMatch
  <2>2. CASE Ended(m)
    BY <1>0, <2>2, EndedType, EndedOK, OneMatch
  <2>3. ASSUME NEW c \in CardIndex, SettleCard(m, c) PROVE Inv'
    BY <1>0, <2>3, SettleType, SettleOK, OneMatch
  <2> QED
    BY <1>3, <2>1, <2>2, <2>3, CrankCases
<1>4. ASSUME NEW m \in Matches, RevealDeck(m) PROVE Inv'
  BY <1>0, <1>4, RevealType, RevealOK, OneMatch
<1>5. ASSUME NEW p \in Players, ClaimCredit(p) PROVE Inv'
  <2>1. /\ UNCHANGED <<status, playerOf, deckSize, cards, picks, settledMask, awarded>>
        /\ Monotone
    BY <1>5 DEF ClaimCredit, entryVars, deckVars, playVars, worldVars, Monotone
  <2> QED
    BY <1>0, <1>5, <2>1, ClaimType, NoMatch
<1>6. CASE Admin
  <2>1. UNCHANGED <<status, playerOf, deckSize, cards, picks, settledMask, awarded>> /\ Monotone
    BY <1>6 DEF Admin, SetParams, SetTier, SetPaused, Set, entryVars, deckVars, playVars,
         potVars, worldVars, Monotone
  <2> QED
    BY <1>0, <1>6, <2>1, AdminType, NoMatch
<1>7. CASE Venue \/ Tick
  <2>1. /\ UNCHANGED <<status, playerOf, deckSize, cards, picks, settledMask, awarded>>
        /\ Monotone
    <3>1. CASE Venue
      BY <3>1 DEF Venue, Resolve, entryVars, deckVars, playVars, potVars, Monotone, Inv,
           TypeOK, MoneyTypeOK, Results
    <3>2. CASE Tick
      BY <3>2 DEF Tick, entryVars, deckVars, playVars, potVars, Monotone
    <3> QED
      BY <1>7, <3>1, <3>2
  <2> QED
    BY <1>0, <1>7, <2>1, WorldType, NoMatch
<1>8. CASE UNCHANGED vars
  BY <1>8 DEF vars, settings, entryVars, deckVars, playVars, potVars, worldVars, Inv, TypeOK,
     SettingsTypeOK, LegalParams, MatchTypeOK, PlayTypeOK, MoneyTypeOK, MatchOK, DeckOK,
     PicksOK, MaskOK, SeatsOK, Outstanding
<1> QED
  BY <1>1, <1>2, <1>3, <1>4, <1>5, <1>6, <1>7, <1>8 DEF Next

(* The arena's variables keep their types.                                 *)
THEOREM TypeCorrect == Spec => []TypeOK
<1>1. Inv => TypeOK
  BY DEF Inv
<1> QED
  BY <1>1, InitInv, InvStep, PTL DEF Spec

(* A pick placed on a card is redeemed with that card: `settleCard` marks  *)
(* the card for both seats at once, and no pick is placed on a Window that *)
(* trades no more.                                                         *)
THEOREM NoPickLeftBehind == Spec => []NoPickIsStranded
<1>1. Inv => NoPickIsStranded
  BY DEF Inv, MatchOK, PicksOK, NoPickIsStranded
<1> QED
  BY <1>1, InitInv, InvStep, PTL DEF Spec

-----------------------------------------------------------------------------
(* Each match's pot is a side-pot.                                         *)

Stages == [n \in Matches |-> Stage(n)]

LEMMA StageMoves ==
  ASSUME NEW m \in Matches, \A n \in Matches \ {m} : Untouched(n), NEW new, Stage(m)' = new
  PROVE  Stages' = [Stages EXCEPT ![m] = new]
BY DEF Stages, Stage, Untouched

LEMMA PotStutters ==
  ASSUME \A n \in Matches : Stage(n)' = Stage(n), UNCHANGED <<potBase, awarded>>
  PROVE  UNCHANGED Pot!vars
BY DEF Pot!vars

LEMMA PotInit == Init => Pot!Init
<1> SUFFICES ASSUME Init PROVE Pot!Init
  OBVIOUS
<1>1. [m \in Matches |-> Stage(m)] = [m \in Matches |-> "none"]
  BY DEF Init, Stage
<1>2. potBase = [m \in Matches |-> 0] /\ awarded = [m \in Matches |-> Pot!Nothing]
  BY DEF Init, Nothing, Pot!Nothing, Seats, Pot!Seats
<1> QED
  BY <1>1, <1>2 DEF Pot!Init

LEMMA CreatePot ==
  ASSUME Inv, NEW p \in Openers, NEW m \in Matches, NEW q \in Players, NEW deck \in Decks,
         NEW size \in CardIndex, NEW a \in Agents \cup {NoAgent}, NEW ttl \in Ttls,
         CreateMatch(p, m, q, deck, size, a, ttl)
  PROVE  Pot!Next
<1>1. Stage(m) = "none" /\ Stage(m)' = "open"
  BY DEF CreateMatch, Stage, Inv, TypeOK, MatchTypeOK
<1>2. Stages' = [Stages EXCEPT ![m] = "open"]
  BY <1>1, CreateOK, StageMoves
<1>3. /\ potBase' = [potBase EXCEPT ![m] = tier.potBase] /\ awarded' = awarded
      /\ tier.potBase \in {t.potBase : t \in TierChoices}
  BY DEF CreateMatch, Inv
<1>4. Pot!Open(m, tier.potBase)
  BY <1>1, <1>2, <1>3 DEF Pot!Open, Stages
<1> QED
  BY <1>3, <1>4 DEF Pot!Next

LEMMA JoinPot ==
  ASSUME Inv, NEW m \in Matches, NEW a, NEW ttl, JoinMatch(m, a, ttl)
  PROVE  Pot!Next
<1>1. Stage(m) = "open" /\ Stage(m)' = "full"
  BY DEF JoinMatch, Stage, Inv, TypeOK, MatchTypeOK, Decided
<1>2. Stages' = [Stages EXCEPT ![m] = "full"]
  BY <1>1, JoinOK, StageMoves
<1>3. UNCHANGED <<potBase, awarded>>
  BY DEF JoinMatch, entryVars
<1>4. Pot!Join(m)
  BY <1>1, <1>2, <1>3 DEF Pot!Join, Stages
<1> QED
  BY <1>4 DEF Pot!Next

\* The three ways a pot goes, whoever cranked.
LEMMA ClosePot ==
  ASSUME Inv, NEW m \in Matches, Returned(m) \/ Undone(m) \/ Won(m)
  PROVE  Pot!Next
<1>0. awarded \in [Matches -> [Seats -> Nat]] /\ status \in [Matches -> Statuses]
  BY DEF Inv, TypeOK, MoneyTypeOK, MatchTypeOK
<1>1. Stage(m)' = "closed" /\ potBase' = potBase
  BY <1>0 DEF Returned, Undone, Won, CloseWith, Stage, Decided, entryVars
<1>2. Stages' = [Stages EXCEPT ![m] = "closed"]
  BY <1>1, ClosingOK, StageMoves
<1>3. CASE Returned(m)
  <2>1. Stage(m) = "open"
    BY <1>3 DEF Returned, Stage, Decided
  <2>2. awarded' = [awarded EXCEPT ![m] = [s \in Pot!Seats |-> IF s = 0 THEN potBase[m] ELSE 0]]
    BY <1>3 DEF Returned, CloseWith, Award, ToCreator, Seats, Pot!Seats
  <2>3. Pot!Return(m)
    BY <1>1, <1>2, <2>1, <2>2 DEF Pot!Return, Stages
  <2> QED
    BY <2>3 DEF Pot!Next
<1>4. ASSUME NEW share, CloseWith(m, "REFUNDED", share) \/ CloseWith(m, "FINALIZED", share),
             Stage(m) = "full",
             share = ToBoth(m) \/ \E w \in Seats : share = ToWinner(m, w)
      PROVE  Pot!Next
  <2>1. awarded' = [awarded EXCEPT ![m] = share]
    BY <1>4 DEF CloseWith, Award
  <2>2. \/ \E w \in Pot!Seats : awarded' = [awarded EXCEPT ![m] =
                 [s \in Pot!Seats |-> IF s = w THEN 2 * potBase[m] ELSE 0]]
        \/ awarded' = [awarded EXCEPT ![m] = [s \in Pot!Seats |-> potBase[m]]]
    BY <1>4, <2>1, Zenon DEF ToBoth, ToWinner, Seats, Pot!Seats
  <2>3. Pot!Decide(m)
    BY <1>1, <1>2, <1>4, <2>2 DEF Pot!Decide, Stages
  <2> QED
    BY <2>3 DEF Pot!Next
<1>5. CASE Undone(m)
  BY <1>4, <1>5 DEF Undone, Stage, Decided
<1>6. CASE Won(m)
  <2>1. Share(m) = ToBoth(m) \/ \E w \in Seats : Share(m) = ToWinner(m, w)
    BY DEF Share, Seats
  <2>2. Stage(m) = "full"
    BY <1>6 DEF Won, Stage, Decided
  <2> QED
    BY <1>4, <1>6, <2>1, <2>2 DEF Won
<1> QED
  BY <1>3, <1>5, <1>6

LEMMA PotStep == Inv /\ [Next]_vars => [Pot!Next]_(Pot!vars)
<1> SUFFICES ASSUME Inv, [Next]_vars PROVE Pot!Next \/ UNCHANGED Pot!vars
  OBVIOUS
<1>0. status \in [Matches -> Statuses]
  BY DEF Inv, TypeOK, MatchTypeOK
<1>1. ASSUME UNCHANGED <<status, potBase, awarded>> PROVE UNCHANGED Pot!vars
  BY <1>1, PotStutters DEF Stage
<1>2. CASE Entry
  <2>1. ASSUME NEW m \in Matches, NEW s \in Seats, NEW a, NEW ttl, AuthorizeAgent(m, s, a, ttl)
        PROVE  UNCHANGED Pot!vars
    BY <1>1, <2>1 DEF AuthorizeAgent, entryVars, potVars
  <2> QED
    BY <1>2, <2>1, CreatePot, JoinPot DEF Entry
<1>3. CASE Playing
  <2>1. PICK m \in Matches, s \in Seats, side \in Sides, stake \in Stakes, f \in Fills :
          \E c \in Deck(m) : Pick(m, s, c, side, stake, f)
    BY <1>3 DEF Playing, PlacePick, PlacePickFor
  <2>2. \A n \in Matches : Stage(n)' = Stage(n)
    BY <1>0, <2>1 DEF Pick, Stage, Decided
  <2> QED
    BY <2>1, <2>2, PotStutters DEF Pick, entryVars, potVars
<1>4. ASSUME NEW m \in Matches, RevealDeck(m) PROVE UNCHANGED Pot!vars
  <2>1. \A n \in Matches : Stage(n)' = Stage(n)
    BY <1>0, <1>4 DEF RevealDeck, Stage, Decided
  <2> QED
    BY <1>4, <2>1, PotStutters DEF RevealDeck, entryVars, potVars
<1>5. ASSUME NEW m \in Matches, CancelMatch(m) \/ Crank(m)
      PROVE  Pot!Next \/ UNCHANGED Pot!vars
  <2>1. CASE Ended(m)
    <3>1. \A n \in Matches : Stage(n)' = Stage(n)
      BY <1>0, <2>1 DEF Ended, Locked, Stage, Decided
    <3> QED
      BY <2>1, <3>1, PotStutters DEF Ended, Locked, entryVars, potVars
  <2>2. ASSUME NEW c \in CardIndex, SettleCard(m, c) PROVE UNCHANGED Pot!vars
    BY <1>1, <2>2 DEF SettleCard, entryVars
  <2> QED
    BY <1>5, <2>1, <2>2, CrankCases, ClosePot
<1>6. ASSUME NEW p \in Players, ClaimCredit(p) PROVE UNCHANGED Pot!vars
  BY <1>1, <1>6 DEF ClaimCredit, entryVars
<1>7. CASE Admin \/ Venue \/ Tick \/ UNCHANGED vars
  BY <1>1, <1>7 DEF Admin, SetParams, SetTier, SetPaused, Set, Venue, Resolve, Tick, vars,
     entryVars, potVars
<1> QED
  BY <1>2, <1>3, <1>4, <1>5, <1>6, <1>7 DEF Next

(* The arena implements the abstract side-pot: whatever anybody cranks, a  *)
(* pot is given away once and in full, to the seats that filled it         *)
(* (`_refundCreator`, `_refundBoth`, `finalize`).                          *)
THEOREM ImplementsPot == Spec => PotSpec
<1> QED
  BY InitInv, InvStep, PotInit, PotStep, PTL DEF Spec, PotSpec, Pot!Spec

-----------------------------------------------------------------------------
(* What the arena holds, and for whom.                                     *)

Escrow == SumFunction([m \in Matches |-> PotHeld(m)])
Stock(k, side) == SumFunction([m \in Matches |-> Held(m, k, side)])

LEMMA SetsAreFinite == IsFiniteSet(Players) /\ IsFiniteSet(Matches)
BY ArenaAssumption

LEMMA CardsAreFinite == IsFiniteSet(CardIndex)
BY FS_Interval, ArenaAssumption DEF CardIndex

LEMMA PotHeldType ==
  ASSUME TypeOK, NEW m \in Matches
  PROVE  PotHeld(m) \in Nat
<1>1. potBase[m] \in Nat /\ 2 * potBase[m] \in Nat
  BY DEF TypeOK, MatchTypeOK
<1> QED
  BY <1>1 DEF PotHeld

LEMMA PotHeldNextType ==
  ASSUME TypeOK', NEW m \in Matches
  PROVE  PotHeld(m)' \in Nat
<1>1. potBase'[m] \in Nat /\ 2 * potBase'[m] \in Nat
  BY DEF TypeOK, MatchTypeOK
<1> QED
  BY <1>1 DEF PotHeld

\* One match's pot grows or goes, and the total follows.
LEMMA EscrowFollows ==
  ASSUME Inv, Inv', NEW m \in Matches, NEW d \in Int,
         \A n \in Matches \ {m} : Untouched(n) /\ potBase'[n] = potBase[n],
         PotHeld(m)' = PotHeld(m) + d
  PROVE  Escrow' = Escrow + d
<1> DEFINE f == [n \in Matches |-> PotHeld(n)]
           g == [n \in Matches |-> PotHeld(n)']
<1>1. f \in [Matches -> Nat] /\ g \in [Matches -> Nat]
  BY PotHeldType, PotHeldNextType DEF Inv
<1>2. \A n \in Matches \ {m} : g[n] = f[n]
  BY DEF Untouched, PotHeld
<1>3. g[m] = f[m] + d
  OBVIOUS
<1>4. Escrow = SumFunction(f) /\ Escrow' = SumFunction(g)
  BY DEF Escrow
<1> HIDE DEF f, g
<1> QED
  BY <1>1, <1>2, <1>3, <1>4, TotalGainsAt, ArenaAssumption

\* h is f with a credited to p and b to q.
Credits(f, h, p, q, a, b) ==
  \A z \in Players : h[z] = f[z] + (IF z = p THEN a ELSE 0) + (IF z = q THEN b ELSE 0)

\* Two amounts credited to the two seats raise the total by both.
LEMMA CreditFollows ==
  ASSUME NEW f \in [Players -> Nat], NEW h \in [Players -> Nat],
         NEW p \in Players, NEW q \in Players, NEW a \in Nat, NEW b \in Nat,
         Credits(f, h, p, q, a, b)
  PROVE  SumFunction(h) = SumFunction(f) + (a + b)
<1> USE DEF Credits
<1> DEFINE g == [z \in Players |-> f[z] + (IF z = p THEN a ELSE 0)]
<1>0. g \in [Players -> Nat] /\ a \in Int /\ b \in Int
  OBVIOUS
<1>1. (\A z \in Players \ {p} : g[z] = f[z]) /\ g[p] = f[p] + a
  OBVIOUS
<1>2. (\A z \in Players \ {q} : h[z] = g[z]) /\ h[q] = g[q] + b
  OBVIOUS
<1> HIDE DEF g
<1>3. SumFunction(g) = SumFunction(f) + a
  BY <1>0, <1>1, TotalGainsAt, SetsAreFinite
<1>4. SumFunction(h) = SumFunction(g) + b
  BY <1>0, <1>2, TotalGainsAt, SetsAreFinite
<1>5. SumFunction(f) \in Nat
  BY TotalIsNat, ArenaAssumption
<1> QED
  BY <1>3, <1>4, <1>5

LEMMA HeldOnType ==
  ASSUME TypeOK, NEW m \in Matches, NEW c \in CardIndex, NEW k, NEW side
  PROVE  HeldOn(m, c, k, side) \in Nat
BY BurnedType DEF HeldOn

LEMMA HeldOnNextType ==
  ASSUME TypeOK', NEW m \in Matches, NEW c \in CardIndex, NEW k, NEW side
  PROVE  HeldOn(m, c, k, side)' \in Nat
<1>1. picks'[m][c][0].quantity \in Nat /\ picks'[m][c][1].quantity \in Nat
  BY DEF TypeOK, PlayTypeOK, PickRecord, Seats
<1> QED
  BY <1>1 DEF HeldOn, Burned

LEMMA HeldType ==
  ASSUME TypeOK, NEW m \in Matches, NEW k, NEW side
  PROVE  Held(m, k, side) \in Nat
<1> DEFINE f == [c \in CardIndex |-> HeldOn(m, c, k, side)]
<1>1. f \in [CardIndex -> Nat]
  BY HeldOnType
<1>2. Held(m, k, side) = SumFunction(f)
  BY DEF Held
<1> HIDE DEF f
<1> QED
  BY <1>1, <1>2, TotalIsNat, CardsAreFinite

LEMMA HeldNextType ==
  ASSUME TypeOK', NEW m \in Matches, NEW k, NEW side
  PROVE  Held(m, k, side)' \in Nat
<1> DEFINE f == [c \in CardIndex |-> HeldOn(m, c, k, side)']
<1>1. f \in [CardIndex -> Nat]
  BY HeldOnNextType
<1>2. Held(m, k, side)' = SumFunction(f)
  BY DEF Held
<1> HIDE DEF f
<1> QED
  BY <1>1, <1>2, TotalIsNat, CardsAreFinite

\* One card of one match gains or loses tokens, and the totals follow.
LEMMA HeldFollows ==
  ASSUME Inv, Inv', NEW m \in Matches, NEW c \in CardIndex, NEW k, NEW side, NEW d \in Int,
         \A e \in CardIndex \ {c} : HeldOn(m, e, k, side)' = HeldOn(m, e, k, side),
         HeldOn(m, c, k, side)' = HeldOn(m, c, k, side) + d
  PROVE  Held(m, k, side)' = Held(m, k, side) + d
<1> DEFINE f == [e \in CardIndex |-> HeldOn(m, e, k, side)]
           g == [e \in CardIndex |-> HeldOn(m, e, k, side)']
<1>1. f \in [CardIndex -> Nat] /\ g \in [CardIndex -> Nat]
  BY HeldOnType, HeldOnNextType DEF Inv
<1>2. \A e \in CardIndex \ {c} : g[e] = f[e]
  OBVIOUS
<1>3. g[c] = f[c] + d
  OBVIOUS
<1>4. Held(m, k, side) = SumFunction(f) /\ Held(m, k, side)' = SumFunction(g)
  BY DEF Held
<1> HIDE DEF f, g
<1> QED
  BY <1>1, <1>2, <1>3, <1>4, TotalGainsAt, CardsAreFinite

LEMMA StockFollows ==
  ASSUME Inv, Inv', NEW m \in Matches, NEW k, NEW side, NEW d \in Int,
         \A n \in Matches \ {m} : Held(n, k, side)' = Held(n, k, side),
         Held(m, k, side)' = Held(m, k, side) + d
  PROVE  Stock(k, side)' = Stock(k, side) + d
<1> DEFINE f == [n \in Matches |-> Held(n, k, side)]
           g == [n \in Matches |-> Held(n, k, side)']
<1>1. f \in [Matches -> Nat] /\ g \in [Matches -> Nat]
  BY HeldType, HeldNextType DEF Inv
<1>2. \A n \in Matches \ {m} : g[n] = f[n]
  OBVIOUS
<1>3. g[m] = f[m] + d
  OBVIOUS
<1>4. Stock(k, side) = SumFunction(f) /\ Stock(k, side)' = SumFunction(g)
  BY DEF Stock
<1> HIDE DEF f, g
<1> QED
  BY <1>1, <1>2, <1>3, <1>4, TotalGainsAt, ArenaAssumption

LEMMA SameHeld ==
  ASSUME NEW n \in Matches, cards'[n] = cards[n], picks'[n] = picks[n], NEW k, NEW side
  PROVE  Held(n, k, side)' = Held(n, k, side)
BY DEF Held, HeldOn, Burned, Outstanding

LEMMA SameStock ==
  ASSUME UNCHANGED <<cards, picks>>, NEW k, NEW side
  PROVE  Stock(k, side)' = Stock(k, side)
BY SameHeld DEF Stock

LEMMA SameEscrow ==
  ASSUME UNCHANGED <<status, potBase>>
  PROVE  Escrow' = Escrow
BY DEF Escrow, PotHeld

-----------------------------------------------------------------------------
(* The holdings, step by step.                                             *)

LEMMA HoldingsAre ==
  HoldingsAreAttributed <=> /\ wallet = escrowed + credited
                            /\ escrowed = Escrow
                            /\ credited = SumFunction(creditOf)
                            /\ \A k \in Markets, side \in Sides : tokens[k][side] = Stock(k, side)
BY DEF HoldingsAreAttributed, Escrow, Stock

LEMMA HoldingsNext ==
  ASSUME wallet' = escrowed' + credited', escrowed' = Escrow',
         credited' = SumFunction(creditOf'),
         \A k \in Markets, side \in Sides : tokens'[k][side] = Stock(k, side)'
  PROVE  HoldingsAreAttributed'
BY DEF HoldingsAreAttributed, Escrow, Stock

LEMMA MoneyTypes ==
  ASSUME Inv
  PROVE  /\ wallet \in Int /\ escrowed \in Int /\ credited \in Int
         /\ creditOf \in [Players -> Nat] /\ tokens \in [Markets -> [Sides -> Int]]
         /\ status \in [Matches -> Statuses] /\ potBase \in [Matches -> Nat]
BY DEF Inv, TypeOK, MoneyTypeOK, MatchTypeOK

LEMMA CreateHoldings ==
  ASSUME Inv, Inv', HoldingsAreAttributed,
         NEW p \in Openers, NEW m \in Matches, NEW q \in Players, NEW deck \in Decks,
         NEW size \in CardIndex, NEW a \in Agents \cup {NoAgent}, NEW ttl \in Ttls,
         CreateMatch(p, m, q, deck, size, a, ttl)
  PROVE  HoldingsAreAttributed'
<1>1. /\ status[m] = "NONE" /\ status' = [status EXCEPT ![m] = "WAITING"]
      /\ potBase' = [potBase EXCEPT ![m] = tier.potBase]
      /\ wallet' = wallet + tier.potBase /\ escrowed' = escrowed + tier.potBase
      /\ UNCHANGED <<cards, picks, tokens, creditOf, credited>>
      /\ tier.potBase \in Nat
  BY DEF CreateMatch, deckVars, playVars, Inv, TypeOK, SettingsTypeOK, Tier
<1>2. PICK d \in Int : d = tier.potBase
  BY <1>1
<1>3. PotHeld(m) = 0 /\ PotHeld(m)' = d
  BY <1>1, <1>2, MoneyTypes DEF PotHeld, Undecided
<1>4. Escrow' = Escrow + d
  <2>1. \A n \in Matches \ {m} : Untouched(n) /\ potBase'[n] = potBase[n]
    BY <1>1, CreateOK, MoneyTypes
  <2> QED
    BY <1>3, <2>1, EscrowFollows
<1> QED
  BY <1>1, <1>2, <1>4, SameStock, HoldingsAre, HoldingsNext, MoneyTypes

LEMMA JoinHoldings ==
  ASSUME Inv, Inv', HoldingsAreAttributed, NEW m \in Matches, NEW a, NEW ttl,
         JoinMatch(m, a, ttl)
  PROVE  HoldingsAreAttributed'
<1>1. /\ status[m] = "WAITING" /\ status' = [status EXCEPT ![m] = "ACTIVE_UNREVEALED"]
      /\ potBase' = potBase
      /\ wallet' = wallet + potBase[m] /\ escrowed' = escrowed + potBase[m]
      /\ UNCHANGED <<cards, picks, tokens, creditOf, credited>>
  BY DEF JoinMatch, deckVars, playVars, entryVars
<1>2. PICK d \in Int : d = potBase[m]
  BY MoneyTypes
<1>3. PotHeld(m) = d /\ PotHeld(m)' = 2 * d
  BY <1>1, <1>2, MoneyTypes DEF PotHeld, Undecided
<1>4. Escrow' = Escrow + d
  BY <1>1, <1>2, <1>3, JoinOK, EscrowFollows
<1> QED
  BY <1>1, <1>2, <1>4, SameStock, HoldingsAre, HoldingsNext, MoneyTypes

LEMMA RevealHoldings ==
  ASSUME Inv, Inv', HoldingsAreAttributed, NEW m \in Matches, RevealDeck(m)
  PROVE  HoldingsAreAttributed'
<1>1. /\ status[m] = "ACTIVE_UNREVEALED" /\ status' = [status EXCEPT ![m] = "PICKING"]
      /\ UNCHANGED <<potBase, picks, tokens, creditOf, credited, escrowed, wallet>>
  BY DEF RevealDeck, playVars, entryVars, potVars
<1>2. PotHeld(m)' = PotHeld(m) + 0
  BY <1>1, MoneyTypes DEF PotHeld, Undecided
<1>3. Escrow' = Escrow + 0
  BY <1>1, <1>2, RevealOK, EscrowFollows
<1>4. ASSUME NEW k \in Markets, NEW side \in Sides PROVE Stock(k, side)' = Stock(k, side)
  <2>1. \A c \in CardIndex, s \in Seats : ~picks[m][c][s].placed
    BY <1>1, ArenaAssumption DEF Inv, MatchOK, DeckOK, PicksOK, Unrevealed, CardIndex
  <2>2. \A c \in CardIndex : HeldOn(m, c, k, side) = 0 /\ HeldOn(m, c, k, side)' = 0
    BY <1>1, <2>1 DEF HeldOn, Burned, Outstanding, Seats
  <2>3. Held(m, k, side)' = Held(m, k, side)
    BY <2>2 DEF Held
  <2>4. \A n \in Matches : Held(n, k, side)' = Held(n, k, side)
    BY <2>3, RevealOK, SameHeld DEF Untouched
  <2> QED
    BY <2>4 DEF Stock
<1>5. Escrow' = Escrow
  BY <1>3, HoldingsAre, MoneyTypes
<1> QED
  BY <1>1, <1>4, <1>5, HoldingsAre, HoldingsNext

\* A pick adds its tokens to its card, and to no other.
LEMMA PickHeldOn ==
  ASSUME Inv, NEW m \in Matches, NEW s \in Seats, NEW c \in Deck(m), NEW side \in Sides,
         NEW stake \in Stakes, NEW f \in Fills, Pick(m, s, c, side, stake, f),
         NEW k \in Markets, NEW sd \in Sides
  PROVE  /\ HeldOn(m, c, k, sd)' = HeldOn(m, c, k, sd)
                + (IF k = cards[m][c] /\ sd = side THEN f.quantity ELSE 0)
         /\ \A e \in CardIndex \ {c} : HeldOn(m, e, k, sd)' = HeldOn(m, e, k, sd)
<1>0. /\ c \in CardIndex /\ c <= Len(cards[m]) /\ cards' = cards
      /\ picks \in [Matches -> [CardIndex -> [Seats -> PickRecord]]]
      /\ ~picks[m][c][s].placed
  BY PickCard DEF Pick, Unpicked, deckVars, Inv, TypeOK, PlayTypeOK
<1> DEFINE r == [placed |-> TRUE, settled |-> FALSE, outcomeIdx |-> side,
                 quantity |-> f.quantity, costBase |-> f.cost, payoutBase |-> 0]
<1>1. picks' = [picks EXCEPT ![m][c][s] = r]
  BY DEF Pick
<1>2. r.placed /\ ~r.settled /\ r.outcomeIdx = side /\ r.quantity = f.quantity
  OBVIOUS
<1> HIDE DEF r
<1>3. \A e \in CardIndex, z \in Seats :
        picks'[m][e][z] = IF e = c /\ z = s THEN r ELSE picks[m][e][z]
  BY <1>0, <1>1
<1>4. \A e \in CardIndex \ {c} : HeldOn(m, e, k, sd)' = HeldOn(m, e, k, sd)
  BY <1>0, <1>3 DEF HeldOn, Burned, Outstanding, Seats
<1>5. Burned(m, c, sd)' = Burned(m, c, sd) + (IF sd = side THEN f.quantity ELSE 0)
  <2>1. /\ f.quantity \in Nat
        /\ picks[m][c][0].quantity \in Nat /\ picks[m][c][1].quantity \in Nat
    BY <1>0, ArenaAssumption DEF Fill, Seats, PickRecord
  <2>2. CASE s = 0
    BY <1>0, <1>2, <1>3, <2>1, <2>2 DEF Burned, Outstanding, Seats
  <2>3. CASE s = 1
    BY <1>0, <1>2, <1>3, <2>1, <2>3 DEF Burned, Outstanding, Seats
  <2> QED
    BY <2>2, <2>3 DEF Seats
<1>6. HeldOn(m, c, k, sd)' = HeldOn(m, c, k, sd)
          + (IF k = cards[m][c] /\ sd = side THEN f.quantity ELSE 0)
  <2>1. Burned(m, c, sd) \in Nat /\ f.quantity \in Nat
    BY <1>0, BurnedType, ArenaAssumption DEF Inv, Fill
  <2> QED
    BY <1>0, <1>5, <2>1 DEF HeldOn
<1> QED
  BY <1>4, <1>6

LEMMA PickHoldings ==
  ASSUME Inv, Inv', HoldingsAreAttributed,
         NEW m \in Matches, NEW s \in Seats, NEW c \in Deck(m), NEW side \in Sides,
         NEW stake \in Stakes, NEW f \in Fills, Pick(m, s, c, side, stake, f)
  PROVE  HoldingsAreAttributed'
<1>1. /\ status[m] = "PICKING" /\ c \in CardIndex /\ cards[m][c] \in Markets
      /\ status' = status \/ status' = [status EXCEPT ![m] = "SETTLING"]
      /\ UNCHANGED <<potBase, creditOf, credited, escrowed>>
  BY PickCard DEF Pick, entryVars, potVars
<1>2. wallet' = wallet
  <2>1. stake \in Nat /\ f.cost \in Nat /\ f.cost <= stake
    BY ArenaAssumption DEF Fill, Pick, WithinStake
  <2>2. wallet' = ((wallet + stake) - f.cost) - Refund(f, stake)
    BY DEF Pick
  <2> QED
    BY <2>1, <2>2, MoneyTypes DEF Refund
<1>3. Escrow' = Escrow
  <2>1. PotHeld(m)' = PotHeld(m) + 0
    BY <1>1, MoneyTypes DEF PotHeld, Undecided
  <2>2. \A n \in Matches \ {m} : Untouched(n) /\ potBase'[n] = potBase[n]
    BY <1>1, PickOK
  <2>3. Escrow' = Escrow + 0
    BY <2>1, <2>2, EscrowFollows
  <2> QED
    BY <2>3, HoldingsAre, MoneyTypes
<1>4. ASSUME NEW k \in Markets, NEW sd \in Sides PROVE tokens'[k][sd] = Stock(k, sd)'
  <2>0. f.quantity \in Nat
    BY ArenaAssumption DEF Fill
  <2>1. PICK d \in Int : d = IF k = cards[m][c] /\ sd = side THEN f.quantity ELSE 0
    BY <2>0
  <2>2. /\ HeldOn(m, c, k, sd)' = HeldOn(m, c, k, sd) + d
        /\ \A e \in CardIndex \ {c} : HeldOn(m, e, k, sd)' = HeldOn(m, e, k, sd)
    BY <2>1, PickHeldOn
  <2>3. Held(m, k, sd)' = Held(m, k, sd) + d
    BY <1>1, <2>2, HeldFollows
  <2>4. \A n \in Matches \ {m} : Held(n, k, sd)' = Held(n, k, sd)
    BY PickOK, SameHeld DEF Untouched
  <2>5. Stock(k, sd)' = Stock(k, sd) + d
    BY <2>3, <2>4, StockFollows
  <2>6. tokens'[k][sd] = tokens[k][sd] + d
    <3>1. tokens' = [tokens EXCEPT ![cards[m][c]][side] = @ + f.quantity]
      BY DEF Pick
    <3> QED
      BY <1>1, <2>1, <3>1, MoneyTypes
  <2> QED
    BY <2>5, <2>6, HoldingsAre
<1> QED
  BY <1>1, <1>2, <1>3, <1>4, HoldingsAre, HoldingsNext

LEMMA CloseHoldings ==
  ASSUME Inv, Inv', HoldingsAreAttributed, NEW m \in Matches, NEW end \in Decided,
         NEW share \in [Seats -> Nat], CloseWith(m, end, share), status[m] # "NONE",
         \A n \in Matches \ {m} : Untouched(n), PotHeld(m) = share[0] + share[1]
  PROVE  HoldingsAreAttributed'
<1> PICK a \in Nat : a = share[0]
  BY DEF Seats
<1> PICK b \in Nat : b = share[1]
  BY DEF Seats
<1>1. /\ status' = [status EXCEPT ![m] = end]
      /\ escrowed' = escrowed - (a + b) /\ credited' = credited + (a + b)
      /\ creditOf' = [p \in Players |-> creditOf[p] + (IF p = playerOf[m][0] THEN a ELSE 0)
                                        + (IF p = playerOf[m][1] THEN b ELSE 0)]
      /\ UNCHANGED <<potBase, cards, picks, tokens, wallet>>
  BY DEF CloseWith, Award, entryVars, deckVars, playVars
<1>2. Escrow' = Escrow - (a + b)
  <2> PICK d \in Int : d = -(a + b)
    OBVIOUS
  <2>1. PotHeld(m)' = 0 /\ PotHeld(m) = a + b
    BY <1>1, MoneyTypes DEF PotHeld, Undecided, Decided
  <2>2. PotHeld(m)' = PotHeld(m) + d
    BY <2>1
  <2>3. Escrow' = Escrow + d
    BY <1>1, <2>2, EscrowFollows
  <2> QED
    BY <2>3, HoldingsAre, MoneyTypes
<1>3. SumFunction(creditOf') = SumFunction(creditOf) + (a + b)
  <2>1. playerOf[m][0] \in Players /\ playerOf[m][1] \in Players
    BY DEF Inv, MatchOK, SeatsOK, Seats
  <2>2. creditOf \in [Players -> Nat] /\ creditOf' \in [Players -> Nat]
    BY DEF Inv, TypeOK, MoneyTypeOK
  <2> PICK p0 \in Players : p0 = playerOf[m][0]
    BY <2>1
  <2> PICK p1 \in Players : p1 = playerOf[m][1]
    BY <2>1
  <2> PICK f \in [Players -> Nat] : f = creditOf
    BY <2>2
  <2> PICK h \in [Players -> Nat] : h = creditOf'
    BY <2>2
  <2>3. Credits(f, h, p0, p1, a, b)
    BY <1>1 DEF Credits
  <2> QED
    BY <2>3, CreditFollows
<1> QED
  BY <1>1, <1>2, <1>3, SameStock, HoldingsAre, HoldingsNext, MoneyTypes

\* A pot goes as a whole.
LEMMA ShareIsPot ==
  ASSUME Inv, NEW m \in Matches
  PROVE  /\ status[m] = "WAITING" => PotHeld(m) = ToCreator(m)[0] + ToCreator(m)[1]
         /\ status[m] \in {"ACTIVE_UNREVEALED", "PICKING"} =>
              PotHeld(m) = ToBoth(m)[0] + ToBoth(m)[1]
         /\ status[m] \in {"SETTLING", "FORFEITED"} => PotHeld(m) = Share(m)[0] + Share(m)[1]
<1>1. potBase[m] \in Nat
  BY MoneyTypes
<1>2. ToBoth(m)[0] + ToBoth(m)[1] = 2 * potBase[m]
  BY <1>1 DEF ToBoth, Seats
<1>3. \A w \in Seats : ToWinner(m, w)[0] + ToWinner(m, w)[1] = 2 * potBase[m]
  BY <1>1 DEF ToWinner, Seats
<1>4. Share(m) = ToBoth(m) \/ \E w \in Seats : Share(m) = ToWinner(m, w)
  BY DEF Share, Seats
<1>5. Share(m)[0] + Share(m)[1] = 2 * potBase[m]
  BY <1>2, <1>3, <1>4
<1>6. status[m] = "WAITING" => PotHeld(m) = ToCreator(m)[0] + ToCreator(m)[1]
  BY <1>1 DEF PotHeld, Undecided, ToCreator, Seats
<1> QED
  BY <1>2, <1>5, <1>6 DEF PotHeld, Undecided

LEMMA ClosingHoldings ==
  ASSUME Inv, Inv', HoldingsAreAttributed, NEW m \in Matches,
         Returned(m) \/ Undone(m) \/ Won(m)
  PROVE  HoldingsAreAttributed'
<1>0. /\ \A n \in Matches \ {m} : Untouched(n)
      /\ ToCreator(m) \in [Seats -> Nat] /\ ToBoth(m) \in [Seats -> Nat]
      /\ Share(m) \in [Seats -> Nat]
  BY ClosingOK, ShareType DEF Inv
<1>1. CASE Returned(m)
  BY <1>0, <1>1, ShareIsPot, CloseHoldings DEF Returned, Decided
<1>2. CASE Undone(m)
  BY <1>0, <1>2, ShareIsPot, CloseHoldings DEF Undone, Decided
<1>3. CASE Won(m)
  BY <1>0, <1>3, ShareIsPot, CloseHoldings DEF Won, Decided
<1> QED
  BY <1>1, <1>2, <1>3

LEMMA EndedHoldings ==
  ASSUME Inv, Inv', HoldingsAreAttributed, NEW m \in Matches, Ended(m)
  PROVE  HoldingsAreAttributed'
<1>1. /\ status[m] = "PICKING"
      /\ status' = [status EXCEPT ![m] = "SETTLING"] \/ status' = [status EXCEPT ![m] = "FORFEITED"]
      /\ UNCHANGED <<potBase, cards, picks, tokens, creditOf, credited, escrowed, wallet>>
  BY DEF Ended, Locked, entryVars, deckVars, playVars, potVars
<1>2. PotHeld(m)' = PotHeld(m) + 0
  BY <1>1, MoneyTypes DEF PotHeld, Undecided
<1>3. Escrow' = Escrow + 0
  BY <1>1, <1>2, EndedOK, EscrowFollows
<1>4. Escrow' = Escrow
  BY <1>3, HoldingsAre, MoneyTypes
<1> QED
  BY <1>1, <1>4, SameStock, HoldingsAre, HoldingsNext

\* Settling a card burns what its two picks hold.
LEMMA SettleHeldOn ==
  ASSUME Inv, NEW m \in Matches, NEW c \in CardIndex, SettleCard(m, c),
         NEW k \in Markets, NEW sd \in Sides
  PROVE  /\ HeldOn(m, c, k, sd)' = HeldOn(m, c, k, sd)
                - (IF k = cards[m][c] THEN Burned(m, c, sd) ELSE 0)
         /\ \A e \in CardIndex \ {c} : HeldOn(m, e, k, sd)' = HeldOn(m, e, k, sd)
<1>0. cards' = cards /\ c <= Len(cards[m]) /\ Burned(m, c, sd) \in Nat
  BY SettleEffect, BurnedType DEF SettleCard, deckVars, Inv
<1>1. \A e \in CardIndex \ {c} : HeldOn(m, e, k, sd)' = HeldOn(m, e, k, sd)
  BY <1>0, SettleEffect DEF HeldOn, Burned, Outstanding, Seats
<1>2. ~Outstanding(m, c, 0)' /\ ~Outstanding(m, c, 1)'
  BY SettleEffect DEF Outstanding, Seats
<1>3. Burned(m, c, sd)' = 0
  BY <1>2 DEF Burned
<1> QED
  BY <1>0, <1>1, <1>3 DEF HeldOn

LEMMA SettleHoldings ==
  ASSUME Inv, Inv', HoldingsAreAttributed, NEW m \in Matches, NEW c \in CardIndex,
         SettleCard(m, c)
  PROVE  HoldingsAreAttributed'
<1>0. Payout(m, c, 0) \in Nat /\ Payout(m, c, 1) \in Nat
  BY PayoutType DEF Inv, Seats
<1> PICK a \in Nat : a = Payout(m, c, 0)
  BY <1>0
<1> PICK b \in Nat : b = Payout(m, c, 1)
  BY <1>0
<1>1. /\ wallet' = wallet + (a + b) /\ credited' = credited + (a + b)
      /\ creditOf' = [p \in Players |-> creditOf[p] + (IF p = playerOf[m][0] THEN a ELSE 0)
                                        + (IF p = playerOf[m][1] THEN b ELSE 0)]
      /\ UNCHANGED <<potBase, status, cards, escrowed>>
  BY DEF SettleCard, entryVars, deckVars
<1>2. SumFunction(creditOf') = SumFunction(creditOf) + (a + b)
  <2>1. playerOf[m][0] \in Players /\ playerOf[m][1] \in Players
    BY DEF Inv, MatchOK, SeatsOK, Seats, SettleCard, SettlesCards
  <2>2. creditOf \in [Players -> Nat] /\ creditOf' \in [Players -> Nat]
    BY DEF Inv, TypeOK, MoneyTypeOK
  <2> PICK p0 \in Players : p0 = playerOf[m][0]
    BY <2>1
  <2> PICK p1 \in Players : p1 = playerOf[m][1]
    BY <2>1
  <2> PICK f \in [Players -> Nat] : f = creditOf
    BY <2>2
  <2> PICK h \in [Players -> Nat] : h = creditOf'
    BY <2>2
  <2>3. Credits(f, h, p0, p1, a, b)
    BY <1>1 DEF Credits
  <2> QED
    BY <2>3, CreditFollows
<1>3. ASSUME NEW k \in Markets, NEW sd \in Sides PROVE tokens'[k][sd] = Stock(k, sd)'
  <2>0. Burned(m, c, sd) \in Nat
    BY BurnedType DEF Inv
  <2>1. PICK d \in Int : d = -(IF k = cards[m][c] THEN Burned(m, c, sd) ELSE 0)
    BY <2>0
  <2>2. /\ HeldOn(m, c, k, sd)' = HeldOn(m, c, k, sd) + d
        /\ \A e \in CardIndex \ {c} : HeldOn(m, e, k, sd)' = HeldOn(m, e, k, sd)
    BY <2>0, <2>1, SettleHeldOn, HeldOnType DEF Inv
  <2>3. Held(m, k, sd)' = Held(m, k, sd) + d
    BY <2>2, HeldFollows
  <2>4. \A n \in Matches \ {m} : Held(n, k, sd)' = Held(n, k, sd)
    BY SettleOK, SameHeld DEF Untouched
  <2>5. Stock(k, sd)' = Stock(k, sd) + d
    BY <2>3, <2>4, StockFollows
  <2>6. tokens'[k][sd] = tokens[k][sd] + d
    <3>1. tokens' = [tokens EXCEPT ![cards[m][c]] =
                       [side \in Sides |-> @[side] - Burned(m, c, side)]]
      BY DEF SettleCard
    <3>2. cards[m][c] \in Markets
      BY SettleEffect
    <3> QED
      BY <2>0, <2>1, <3>1, <3>2, MoneyTypes
  <2> QED
    BY <2>5, <2>6, HoldingsAre
<1>4. Escrow' = Escrow
  BY <1>1, SameEscrow
<1> QED
  BY <1>1, <1>2, <1>3, <1>4, HoldingsAre, HoldingsNext, MoneyTypes

LEMMA ClaimHoldings ==
  ASSUME Inv, Inv', HoldingsAreAttributed, NEW p \in Players, ClaimCredit(p)
  PROVE  HoldingsAreAttributed'
<1>1. /\ creditOf' = [creditOf EXCEPT ![p] = 0]
      /\ credited' = credited - creditOf[p] /\ wallet' = wallet - creditOf[p]
      /\ UNCHANGED <<status, potBase, cards, picks, tokens, escrowed>>
  BY DEF ClaimCredit, entryVars, deckVars, playVars
<1>2. PICK d \in Int : d = -creditOf[p]
  BY MoneyTypes
<1> PICK f \in [Players -> Nat] : f = creditOf
  BY MoneyTypes
<1> DEFINE g == [f EXCEPT ![p] = 0]
<1>3. g \in [Players -> Nat] /\ g = creditOf'
  BY <1>1
<1>4. (\A z \in Players \ {p} : g[z] = f[z]) /\ g[p] = f[p] + d
  BY <1>2
<1> HIDE DEF g
<1>5. SumFunction(g) = SumFunction(f) + d
  BY <1>3, <1>4, TotalGainsAt, SetsAreFinite
<1>6. SumFunction(creditOf') = SumFunction(creditOf) - creditOf[p]
  BY <1>2, <1>3, <1>5, MoneyTypes, HoldingsAre
<1> QED
  BY <1>1, <1>6, SameStock, SameEscrow, HoldingsAre, HoldingsNext, MoneyTypes

\* Steps that move neither money nor tokens.
LEMMA StillHoldings ==
  ASSUME HoldingsAreAttributed,
         UNCHANGED <<status, potBase, cards, picks, tokens, creditOf, credited, escrowed, wallet>>
  PROVE  HoldingsAreAttributed'
BY SameStock, SameEscrow, HoldingsAre, HoldingsNext

LEMMA HoldingsStep == Inv /\ HoldingsAreAttributed /\ [Next]_vars => HoldingsAreAttributed'
<1> SUFFICES ASSUME Inv, HoldingsAreAttributed, [Next]_vars PROVE HoldingsAreAttributed'
  OBVIOUS
<1>0. Inv'
  BY InvStep
<1>1. CASE Entry
  <2>1. ASSUME NEW m \in Matches, NEW s \in Seats, NEW a, NEW ttl, AuthorizeAgent(m, s, a, ttl)
        PROVE  HoldingsAreAttributed'
    BY <2>1, StillHoldings DEF AuthorizeAgent, entryVars, deckVars, playVars, potVars
  <2> QED
    BY <1>0, <1>1, <2>1, CreateHoldings, JoinHoldings DEF Entry
<1>2. CASE Playing
  <2>1. PICK m \in Matches, s \in Seats, side \in Sides, stake \in Stakes, f \in Fills :
          \E c \in Deck(m) : Pick(m, s, c, side, stake, f)
    BY <1>2 DEF Playing, PlacePick, PlacePickFor
  <2> QED
    BY <1>0, <2>1, PickHoldings
<1>3. ASSUME NEW m \in Matches, CancelMatch(m) \/ RevealDeck(m) \/ Crank(m)
      PROVE  HoldingsAreAttributed'
  BY <1>0, <1>3, CrankCases, RevealHoldings, ClosingHoldings, EndedHoldings, SettleHoldings
<1>4. ASSUME NEW p \in Players, ClaimCredit(p) PROVE HoldingsAreAttributed'
  BY <1>0, <1>4, ClaimHoldings
<1>5. CASE Admin \/ Venue \/ Tick \/ UNCHANGED vars
  BY <1>5, StillHoldings DEF Admin, SetParams, SetTier, SetPaused, Set, Venue, Resolve, Tick,
     vars, entryVars, deckVars, playVars, potVars
<1> QED
  BY <1>1, <1>2, <1>3, <1>4, <1>5 DEF Next

LEMMA HoldingsInit == Init => HoldingsAreAttributed
<1> SUFFICES ASSUME Init PROVE HoldingsAreAttributed
  OBVIOUS
<1>1. Escrow = 0
  <2> DEFINE f == [m \in Matches |-> PotHeld(m)]
  <2>1. DOMAIN f = Matches /\ \A m \in Matches : f[m] = 0
    BY DEF Init, PotHeld, Undecided
  <2>2. Escrow = SumFunction(f)
    BY DEF Escrow
  <2> HIDE DEF f
  <2> QED
    BY <2>1, <2>2, TotalOfZeros, SetsAreFinite
<1>2. SumFunction(creditOf) = 0
  <2>1. DOMAIN creditOf = Players /\ \A p \in Players : creditOf[p] = 0
    BY DEF Init
  <2> QED
    BY <2>1, TotalOfZeros, SetsAreFinite
<1>3. ASSUME NEW k \in Markets, NEW side \in Sides PROVE Stock(k, side) = 0
  <2>1. ASSUME NEW m \in Matches PROVE Held(m, k, side) = 0
    <3> DEFINE f == [c \in CardIndex |-> HeldOn(m, c, k, side)]
    <3>1. DOMAIN f = CardIndex /\ \A c \in CardIndex : f[c] = 0
      BY DEF Init, HeldOn, Burned, Outstanding, NoPick, Seats
    <3>2. Held(m, k, side) = SumFunction(f)
      BY DEF Held
    <3> HIDE DEF f
    <3> QED
      BY <3>1, <3>2, TotalOfZeros, CardsAreFinite
  <2> DEFINE g == [m \in Matches |-> Held(m, k, side)]
  <2>2. DOMAIN g = Matches /\ \A m \in Matches : g[m] = 0
    BY <2>1
  <2>3. Stock(k, side) = SumFunction(g)
    BY DEF Stock
  <2> HIDE DEF g
  <2> QED
    BY <2>2, <2>3, TotalOfZeros, SetsAreFinite
<1> QED
  BY <1>1, <1>2, <1>3, HoldingsAre DEF Init

(* The arena's wallet is the undecided pots plus the credits owed, and its *)
(* outcome tokens are those of the placed and unsettled picks: no match is *)
(* paid with another's pot, and no pick redeemed from another's.           *)
THEOREM HoldingsAttributed == Spec => []HoldingsAreAttributed
<1> QED
  BY InitInv, InvStep, HoldingsInit, HoldingsStep, PTL DEF Spec

-----------------------------------------------------------------------------
(* What the players are credited.                                          *)

Both(p, m) == Earned(p, m, 0) + Earned(p, m, 1)
EarnedIn(p) == SumFunction([m \in Matches |-> Both(p, m)])

LEMMA PaidType ==
  ASSUME TypeOK, NEW m \in Matches, NEW s \in Seats
  PROVE  PaidTo(m, s) \in Nat /\ Staked(m, s) \in Nat
<1> DEFINE f == [c \in CardIndex |-> picks[m][c][s].payoutBase]
           g == [c \in CardIndex |-> picks[m][c][s].costBase]
<1>1. f \in [CardIndex -> Nat] /\ g \in [CardIndex -> Nat]
  BY DEF TypeOK, PlayTypeOK, PickRecord
<1>2. PaidTo(m, s) = SumFunction(f) /\ Staked(m, s) = SumFunction(g)
  BY DEF PaidTo, Staked
<1> HIDE DEF f, g
<1> QED
  BY <1>1, <1>2, TotalIsNat, CardsAreFinite

LEMMA PaidNextType ==
  ASSUME TypeOK', NEW m \in Matches, NEW s \in Seats
  PROVE  PaidTo(m, s)' \in Nat
<1> DEFINE f == [c \in CardIndex |-> picks'[m][c][s].payoutBase]
<1>1. f \in [CardIndex -> Nat]
  BY DEF TypeOK, PlayTypeOK, PickRecord
<1>2. PaidTo(m, s)' = SumFunction(f)
  BY DEF PaidTo
<1> HIDE DEF f
<1> QED
  BY <1>1, <1>2, TotalIsNat, CardsAreFinite

LEMMA BothType ==
  ASSUME TypeOK, NEW m \in Matches, NEW p
  PROVE  /\ Both(p, m) \in Nat /\ Earned(p, m, 0) \in Nat /\ Earned(p, m, 1) \in Nat
<1>1. \A s \in Seats : awarded[m][s] \in Nat /\ PaidTo(m, s) \in Nat
  BY PaidType DEF TypeOK, MoneyTypeOK
<1>2. \A s \in Seats : Earned(p, m, s) \in Nat
  BY <1>1 DEF Earned
<1> QED
  BY <1>2 DEF Both, Seats

LEMMA BothNextType ==
  ASSUME TypeOK', NEW m \in Matches, NEW p
  PROVE  Both(p, m)' \in Nat
<1>1. \A s \in Seats : awarded'[m][s] \in Nat /\ PaidTo(m, s)' \in Nat
  BY PaidNextType DEF TypeOK, MoneyTypeOK
<1>2. \A s \in Seats : Earned(p, m, s)' \in Nat
  BY <1>1 DEF Earned
<1> QED
  BY <1>2 DEF Both, Seats

LEMMA SamePaid ==
  ASSUME NEW m \in Matches, NEW s \in Seats,
         \A c \in CardIndex : picks'[m][c][s].payoutBase = picks[m][c][s].payoutBase
  PROVE  PaidTo(m, s)' = PaidTo(m, s)
BY DEF PaidTo

\* One match earns a player more, and the total follows.
LEMMA EarnedFollows ==
  ASSUME Inv, Inv', NEW p \in Players, NEW m \in Matches, NEW d \in Int,
         \A n \in Matches \ {m} : Untouched(n), Both(p, m)' = Both(p, m) + d
  PROVE  EarnedIn(p)' = EarnedIn(p) + d
<1> DEFINE f == [n \in Matches |-> Both(p, n)]
           g == [n \in Matches |-> Both(p, n)']
<1>1. f \in [Matches -> Nat] /\ g \in [Matches -> Nat]
  BY BothType, BothNextType DEF Inv
<1>2. \A n \in Matches \ {m} : g[n] = f[n]
  BY DEF Untouched, Both, Earned, PaidTo
<1>3. g[m] = f[m] + d
  OBVIOUS
<1>4. EarnedIn(p) = SumFunction(f) /\ EarnedIn(p)' = SumFunction(g)
  BY DEF EarnedIn
<1> HIDE DEF f, g
<1> QED
  BY <1>1, <1>2, <1>3, <1>4, TotalGainsAt, SetsAreFinite

LEMMA EarnedType ==
  ASSUME Inv, NEW p \in Players
  PROVE  EarnedIn(p) \in Nat
<1> DEFINE f == [n \in Matches |-> Both(p, n)]
<1>1. f \in [Matches -> Nat]
  BY BothType DEF Inv
<1>2. EarnedIn(p) = SumFunction(f)
  BY DEF EarnedIn
<1> HIDE DEF f
<1> QED
  BY <1>1, <1>2, TotalIsNat, SetsAreFinite

LEMMA CreditsAre ==
  CreditsAreEarned <=> \A p \in Players : creditOf[p] + claimed[p] = EarnedIn(p)
BY DEF CreditsAreEarned, EarnedIn, Both

LEMMA CreditsNext ==
  ASSUME \A p \in Players : creditOf'[p] + claimed'[p] = EarnedIn(p)'
  PROVE  CreditsAreEarned'
BY DEF CreditsAreEarned, EarnedIn, Both

\* Steps that neither credit nor award nor settle.
LEMMA StillCredits ==
  ASSUME CreditsAreEarned, UNCHANGED <<playerOf, awarded>>,
         \A n \in Matches, c \in CardIndex, s \in Seats :
           picks'[n][c][s].payoutBase = picks[n][c][s].payoutBase,
         \A p \in Players : creditOf'[p] + claimed'[p] = creditOf[p] + claimed[p]
  PROVE  CreditsAreEarned'
<1>1. \A n \in Matches, s \in Seats : PaidTo(n, s)' = PaidTo(n, s)
  BY SamePaid
<1>2. ASSUME NEW p \in Players PROVE EarnedIn(p)' = EarnedIn(p)
  <2>1. \A n \in Matches : Both(p, n)' = Both(p, n)
    BY <1>1 DEF Both, Earned, Seats
  <2> QED
    BY <2>1 DEF EarnedIn
<1> QED
  BY <1>2, CreditsAre, CreditsNext

\* A match nobody has played has paid nothing.
LEMMA UnplayedPays ==
  ASSUME Inv, NEW m \in Matches, status[m] \in Unrevealed, NEW s \in Seats
  PROVE  PaidTo(m, s) = 0 /\ \A c \in CardIndex : picks[m][c][s] = NoPick
<1>1. \A c \in CardIndex : picks[m][c][s] = NoPick
  BY ArenaAssumption DEF Inv, MatchOK, DeckOK, PicksOK, CardIndex
<1> DEFINE f == [c \in CardIndex |-> picks[m][c][s].payoutBase]
<1>2. DOMAIN f = CardIndex /\ \A c \in CardIndex : f[c] = 0
  BY <1>1 DEF NoPick
<1>3. PaidTo(m, s) = SumFunction(f)
  BY DEF PaidTo
<1> HIDE DEF f
<1> QED
  BY <1>1, <1>2, <1>3, TotalOfZeros, CardsAreFinite

LEMMA CreateCredits ==
  ASSUME Inv, Inv', CreditsAreEarned,
         NEW p \in Openers, NEW m \in Matches, NEW q \in Players, NEW deck \in Decks,
         NEW size \in CardIndex, NEW a \in Agents \cup {NoAgent}, NEW ttl \in Ttls,
         CreateMatch(p, m, q, deck, size, a, ttl)
  PROVE  CreditsAreEarned'
<1>1. status[m] = "NONE" /\ UNCHANGED <<picks, awarded, creditOf, claimed>>
  BY DEF CreateMatch, playVars
<1>2. \A s \in Seats : PaidTo(m, s) = 0 /\ awarded[m][s] = 0 /\ PaidTo(m, s)' = 0
  <2>1. \A s \in Seats : PaidTo(m, s) = 0 /\ awarded[m][s] = 0
    BY <1>1, UnplayedPays DEF Unrevealed, Inv, MatchOK, SeatsOK, Decided, Nothing
  <2> QED
    BY <1>1, <2>1, SamePaid
<1>3. ASSUME NEW z \in Players PROVE EarnedIn(z)' = EarnedIn(z)
  <2>1. Both(z, m) = 0 /\ Both(z, m)' = 0
    BY <1>1, <1>2 DEF Both, Earned, Seats
  <2>2. Both(z, m)' = Both(z, m) + 0
    BY <2>1
  <2>3. EarnedIn(z)' = EarnedIn(z) + 0
    BY <2>2, CreateOK, EarnedFollows
  <2> QED
    BY <2>3, EarnedType
<1> QED
  BY <1>1, <1>3, CreditsAre, CreditsNext

\* A pot that is decided is earned by the seats that get it.
LEMMA CloseCredits ==
  ASSUME Inv, Inv', CreditsAreEarned, NEW m \in Matches, NEW end,
         NEW share \in [Seats -> Nat], CloseWith(m, end, share), status[m] \notin Decided,
         \A n \in Matches \ {m} : Untouched(n)
  PROVE  CreditsAreEarned'
<1>1. /\ awarded' = [awarded EXCEPT ![m] = share]
      /\ UNCHANGED <<playerOf, picks, claimed>>
      /\ creditOf' = [p \in Players |->
           creditOf[p] + (IF p = playerOf[m][0] THEN share[0] ELSE 0)
                       + (IF p = playerOf[m][1] THEN share[1] ELSE 0)]
      /\ awarded \in [Matches -> [Seats -> Nat]]
      /\ \A s \in Seats : awarded[m][s] = 0
      /\ share[0] \in Nat /\ share[1] \in Nat
  BY DEF CloseWith, Award, entryVars, playVars, Inv, TypeOK, MoneyTypeOK, MatchOK, SeatsOK,
       Nothing, Seats
<1>2. \A s \in Seats : PaidTo(m, s)' = PaidTo(m, s) /\ PaidTo(m, s) \in Nat
  BY <1>1, SamePaid, PaidType DEF Inv
<1>3. ASSUME NEW p \in Players PROVE creditOf'[p] + claimed'[p] = EarnedIn(p)'
  <2> DEFINE a == IF p = playerOf[m][0] THEN share[0] ELSE 0
             b == IF p = playerOf[m][1] THEN share[1] ELSE 0
  <2>0. a \in Nat /\ b \in Nat /\ a + b \in Int
    BY <1>1
  <2>1. Earned(p, m, 0)' = Earned(p, m, 0) + a /\ Earned(p, m, 1)' = Earned(p, m, 1) + b
    BY <1>1, <1>2 DEF Earned, Seats
  <2>2. creditOf'[p] = creditOf[p] + a + b /\ claimed'[p] = claimed[p]
    BY <1>1
  <2> HIDE DEF a, b
  <2>3. Both(p, m)' = Both(p, m) + (a + b)
    BY <2>0, <2>1, BothType DEF Both, Inv
  <2>4. EarnedIn(p)' = EarnedIn(p) + (a + b)
    BY <2>0, <2>3, EarnedFollows
  <2>5. creditOf[p] \in Nat /\ claimed[p] \in Nat
    BY DEF Inv, TypeOK, MoneyTypeOK
  <2> QED
    BY <2>0, <2>2, <2>4, <2>5, CreditsAre, EarnedType
<1> QED
  BY <1>3, CreditsNext

LEMMA ClosingCredits ==
  ASSUME Inv, Inv', CreditsAreEarned, NEW m \in Matches,
         Returned(m) \/ Undone(m) \/ Won(m)
  PROVE  CreditsAreEarned'
<1>0. /\ \A n \in Matches \ {m} : Untouched(n)
      /\ ToCreator(m) \in [Seats -> Nat] /\ ToBoth(m) \in [Seats -> Nat]
      /\ Share(m) \in [Seats -> Nat]
  BY ClosingOK, ShareType DEF Inv
<1>1. CASE Returned(m)
  BY <1>0, <1>1, CloseCredits DEF Returned, Decided
<1>2. CASE Undone(m)
  BY <1>0, <1>2, CloseCredits DEF Undone, Decided
<1>3. CASE Won(m)
  BY <1>0, <1>3, CloseCredits DEF Won, Decided
<1> QED
  BY <1>1, <1>2, <1>3

\* A settled pick is paid to its seat.
LEMMA SettlePays ==
  ASSUME Inv, Inv', NEW m \in Matches, NEW c \in CardIndex, SettleCard(m, c), NEW s \in Seats
  PROVE  PaidTo(m, s)' = PaidTo(m, s) + Payout(m, c, s)
<1> DEFINE f == [d \in CardIndex |-> picks[m][d][s].payoutBase]
           g == [d \in CardIndex |-> picks'[m][d][s].payoutBase]
<1>1. f \in [CardIndex -> Nat] /\ g \in [CardIndex -> Nat]
  BY DEF Inv, TypeOK, PlayTypeOK, PickRecord
<1>2. PICK n \in Int : n = Payout(m, c, s)
  BY PayoutType DEF Inv
<1>3. (\A d \in CardIndex \ {c} : g[d] = f[d]) /\ g[c] = f[c] + n
  BY <1>2, SettleEffect
<1>4. PaidTo(m, s) = SumFunction(f) /\ PaidTo(m, s)' = SumFunction(g)
  BY DEF PaidTo
<1> HIDE DEF f, g
<1>5. SumFunction(g) = SumFunction(f) + n
  BY <1>1, <1>3, TotalGainsAt, CardsAreFinite
<1> QED
  BY <1>2, <1>4, <1>5

LEMMA SettleCredits ==
  ASSUME Inv, Inv', CreditsAreEarned, NEW m \in Matches, NEW c \in CardIndex,
         SettleCard(m, c)
  PROVE  CreditsAreEarned'
<1>1. /\ UNCHANGED <<playerOf, awarded, claimed>>
      /\ creditOf' = [p \in Players |->
           creditOf[p] + (IF p = playerOf[m][0] THEN Payout(m, c, 0) ELSE 0)
                       + (IF p = playerOf[m][1] THEN Payout(m, c, 1) ELSE 0)]
      /\ \A s \in Seats : awarded[m][s] \in Nat
  BY DEF SettleCard, entryVars, Inv, TypeOK, MoneyTypeOK
<1>2. /\ Payout(m, c, 0) \in Nat /\ Payout(m, c, 1) \in Nat
      /\ PaidTo(m, 0) \in Nat /\ PaidTo(m, 1) \in Nat
      /\ PaidTo(m, 0)' = PaidTo(m, 0) + Payout(m, c, 0)
      /\ PaidTo(m, 1)' = PaidTo(m, 1) + Payout(m, c, 1)
  BY SettlePays, PayoutType, PaidType DEF Inv, Seats
<1>3. ASSUME NEW p \in Players PROVE creditOf'[p] + claimed'[p] = EarnedIn(p)'
  <2> DEFINE a == IF p = playerOf[m][0] THEN Payout(m, c, 0) ELSE 0
             b == IF p = playerOf[m][1] THEN Payout(m, c, 1) ELSE 0
  <2>0. a \in Nat /\ b \in Nat /\ a + b \in Int
    BY <1>2
  <2>1. Earned(p, m, 0)' = Earned(p, m, 0) + a /\ Earned(p, m, 1)' = Earned(p, m, 1) + b
    BY <1>1, <1>2 DEF Earned, Seats
  <2>2. creditOf'[p] = creditOf[p] + a + b /\ claimed'[p] = claimed[p]
    BY <1>1
  <2> HIDE DEF a, b
  <2>3. Both(p, m)' = Both(p, m) + (a + b)
    BY <2>0, <2>1, BothType DEF Both, Inv
  <2>4. EarnedIn(p)' = EarnedIn(p) + (a + b)
    BY <2>0, <2>3, SettleOK, EarnedFollows
  <2>5. creditOf[p] \in Nat /\ claimed[p] \in Nat
    BY DEF Inv, TypeOK, MoneyTypeOK
  <2> QED
    BY <2>0, <2>2, <2>4, <2>5, CreditsAre, EarnedType
<1> QED
  BY <1>3, CreditsNext

\* A pick is paid nothing yet.
LEMMA PickCredits ==
  ASSUME Inv, CreditsAreEarned, NEW m \in Matches, NEW s \in Seats, NEW c \in Deck(m),
         NEW side \in Sides, NEW stake \in Stakes, NEW f \in Fills,
         Pick(m, s, c, side, stake, f)
  PROVE  CreditsAreEarned'
<1>0. /\ c \in CardIndex /\ UNCHANGED <<playerOf, awarded, creditOf, claimed>>
      /\ picks \in [Matches -> [CardIndex -> [Seats -> PickRecord]]]
      /\ picks[m][c][s] = NoPick
  BY PickCard DEF Pick, Unpicked, entryVars, potVars, Inv, TypeOK, PlayTypeOK, MatchOK, PicksOK
<1> DEFINE r == [placed |-> TRUE, settled |-> FALSE, outcomeIdx |-> side,
                 quantity |-> f.quantity, costBase |-> f.cost, payoutBase |-> 0]
<1>1. picks' = [picks EXCEPT ![m][c][s] = r]
  BY DEF Pick
<1>2. r.payoutBase = 0 /\ NoPick.payoutBase = 0
  BY DEF NoPick
<1> HIDE DEF r
<1>3. \A n \in Matches, e \in CardIndex, z \in Seats :
        picks'[n][e][z].payoutBase = picks[n][e][z].payoutBase
  BY <1>0, <1>1, <1>2
<1> QED
  BY <1>0, <1>3, StillCredits

LEMMA CreditsStep == Inv /\ CreditsAreEarned /\ [Next]_vars => CreditsAreEarned'
<1> SUFFICES ASSUME Inv, CreditsAreEarned, [Next]_vars PROVE CreditsAreEarned'
  OBVIOUS
<1>0. Inv'
  BY InvStep
<1>1. ASSUME UNCHANGED <<playerOf, awarded, picks, creditOf, claimed>> PROVE CreditsAreEarned'
  BY <1>1, StillCredits
<1>2. CASE Entry
  <2>1. ASSUME NEW m \in Matches, NEW s \in Seats, NEW a, NEW ttl,
               AuthorizeAgent(m, s, a, ttl) \/ JoinMatch(m, a, ttl)
        PROVE  CreditsAreEarned'
    BY <1>1, <2>1 DEF AuthorizeAgent, JoinMatch, entryVars, playVars, potVars
  <2>2. \E s : s \in Seats
    BY DEF Seats
  <2> QED
    BY <1>0, <1>2, <2>1, <2>2, CreateCredits DEF Entry
<1>3. CASE Playing
  <2>1. PICK m \in Matches, s \in Seats, side \in Sides, stake \in Stakes, f \in Fills :
          \E c \in Deck(m) : Pick(m, s, c, side, stake, f)
    BY <1>3 DEF Playing, PlacePick, PlacePickFor
  <2> QED
    BY <2>1, PickCredits
<1>4. ASSUME NEW m \in Matches, CancelMatch(m) \/ RevealDeck(m) \/ Crank(m)
      PROVE  CreditsAreEarned'
  <2>1. CASE RevealDeck(m) \/ Ended(m)
    BY <1>1, <2>1 DEF RevealDeck, Ended, Locked, entryVars, playVars, potVars
  <2> QED
    BY <1>0, <1>4, <2>1, CrankCases, ClosingCredits, SettleCredits
<1>5. ASSUME NEW p \in Players, ClaimCredit(p) PROVE CreditsAreEarned'
  <2>1. \A z \in Players : creditOf'[z] + claimed'[z] = creditOf[z] + claimed[z]
    BY <1>5 DEF ClaimCredit, Inv, TypeOK, MoneyTypeOK
  <2> QED
    BY <1>5, <2>1, StillCredits DEF ClaimCredit, entryVars, playVars
<1>6. CASE Admin \/ Venue \/ Tick \/ UNCHANGED vars
  BY <1>1, <1>6 DEF Admin, SetParams, SetTier, SetPaused, Set, Venue, Resolve, Tick,
     vars, entryVars, playVars, potVars
<1> QED
  BY <1>2, <1>3, <1>4, <1>5, <1>6 DEF Next

LEMMA CreditsInit == Init => CreditsAreEarned
<1> SUFFICES ASSUME Init PROVE CreditsAreEarned
  OBVIOUS
<1>0. Inv
  BY InitInv
<1>1. ASSUME NEW p \in Players PROVE EarnedIn(p) = 0
  <2>1. \A m \in Matches : Both(p, m) = 0
    BY <1>0, UnplayedPays DEF Init, Unrevealed, Both, Earned, Seats, Nothing
  <2> DEFINE f == [m \in Matches |-> Both(p, m)]
  <2>2. DOMAIN f = Matches /\ \A m \in Matches : f[m] = 0
    BY <2>1
  <2>3. EarnedIn(p) = SumFunction(f)
    BY DEF EarnedIn
  <2> HIDE DEF f
  <2> QED
    BY <2>2, <2>3, TotalOfZeros, SetsAreFinite
<1> QED
  BY <1>1, CreditsAre DEF Init

(* What a player was and will be paid is exactly the shares of pots and    *)
(* the payouts of picks that are theirs (`finalize`, `settleCard`,         *)
(* `claimCredit`), whoever cranked.                                        *)
THEOREM CreditsEarned == Spec => []CreditsAreEarned
<1> QED
  BY InitInv, InvStep, CreditsInit, CreditsStep, PTL DEF Spec

-----------------------------------------------------------------------------
(* A pot follows the play.                                                 *)

SettledCost(m, s) ==
  SumFunction([c \in CardIndex |-> IF picks[m][c][s].settled THEN picks[m][c][s].costBase ELSE 0])

\* The running pnl is what settled picks paid less what they cost; a match is
\* locked as its seats' decks stand, and finalized when all they played has settled.
PnlOK(m) == \A s \in Seats : pnl[m][s] = PaidTo(m, s) - SettledCost(m, s)
LockOK(m) ==
  /\ status[m] = "SETTLING" => Complete(m, 0) /\ Complete(m, 1)
  /\ status[m] = "FORFEITED" => Complete(m, 0) # Complete(m, 1)
  /\ status[m] = "FINALIZED" => PlayedAreSettled(m)

FollowsPlay(m) ==
  status[m] = "FINALIZED" =>
    /\ Complete(m, 0) \/ Complete(m, 1)
    /\ awarded[m] =
         IF Complete(m, 0) /\ Complete(m, 1)
         THEN IF PlayedFor(m, 0) = PlayedFor(m, 1) THEN ToBoth(m)
              ELSE ToWinner(m, IF PlayedFor(m, 0) > PlayedFor(m, 1) THEN 0 ELSE 1)
         ELSE ToWinner(m, IF Complete(m, 0) THEN 0 ELSE 1)

PlayOK(m) == PnlOK(m) /\ LockOK(m) /\ FollowsPlay(m)
PlayInv == Inv /\ \A m \in Matches : PlayOK(m)

LEMMA SettledCostType ==
  ASSUME TypeOK, NEW m \in Matches, NEW s \in Seats
  PROVE  SettledCost(m, s) \in Nat
<1> DEFINE f == [c \in CardIndex |-> IF picks[m][c][s].settled THEN picks[m][c][s].costBase ELSE 0]
<1>1. f \in [CardIndex -> Nat]
  BY DEF TypeOK, PlayTypeOK, PickRecord
<1>2. SettledCost(m, s) = SumFunction(f)
  BY DEF SettledCost
<1> HIDE DEF f
<1> QED
  BY <1>1, <1>2, TotalIsNat, CardsAreFinite

\* A match whose played cards have settled: its pnl is what its records say.
LEMMA PnlIsPlayed ==
  ASSUME Inv, NEW m \in Matches, PnlOK(m), PlayedAreSettled(m), NEW s \in Seats
  PROVE  pnl[m][s] = PlayedFor(m, s)
<1>1. ASSUME NEW c \in CardIndex
      PROVE  (IF picks[m][c][s].settled THEN picks[m][c][s].costBase ELSE 0)
             = picks[m][c][s].costBase
  <2>1. CASE picks[m][c][s].placed
    <3>1. c \in Deck(m)
      <4>1. c <= Len(cards[m]) /\ Len(cards[m]) \in {0, deckSize[m]} /\ deckSize[m] \in Nat
        BY <2>1 DEF Inv, MatchOK, PicksOK, DeckOK, TypeOK, MatchTypeOK
      <4> QED
        BY <4>1, ArenaAssumption DEF CardIndex, Deck
    <3>2. c \in settledMask[m]
      BY <2>1, <3>1 DEF PlayedAreSettled, Picked, Seats
    <3>3. picks[m][c][s].settled
      BY <2>1, <3>2 DEF Inv, MatchOK, PicksOK, Outstanding
    <3> QED
      BY <3>3
  <2>2. CASE ~picks[m][c][s].placed
    BY <2>2 DEF Inv, MatchOK, PicksOK, NoPick
  <2> QED
    BY <2>1, <2>2
<1>2. SettledCost(m, s) = Staked(m, s)
  BY <1>1 DEF SettledCost, Staked
<1> QED
  BY <1>2 DEF PnlOK, PlayedFor

\* Matches a step leaves alone, with their pots and pnl.
LEMMA PlayUntouched ==
  ASSUME NEW n \in Matches, PlayOK(n), Untouched(n), pnl'[n] = pnl[n], potBase'[n] = potBase[n]
  PROVE  PlayOK(n)'
<1> USE DEF Untouched
<1>1. PnlOK(n)'
  BY DEF PlayOK, PnlOK, PaidTo, SettledCost
<1>2. LockOK(n)'
  BY DEF PlayOK, LockOK, Complete, Picked, Deck, PlayedAreSettled
<1>3. FollowsPlay(n)'
  BY DEF PlayOK, FollowsPlay, Complete, Picked, Deck, PlayedFor, PaidTo, Staked, ToBoth, ToWinner
<1> QED
  BY <1>1, <1>2, <1>3 DEF PlayOK

\* A match keeps its records and does not end.
LEMMA PlayMoves ==
  ASSUME NEW m \in Matches, PlayOK(m), picks'[m] = picks[m], pnl'[m] = pnl[m],
         status'[m] \notin {"SETTLING", "FORFEITED", "FINALIZED"}
  PROVE  PlayOK(m)'
<1>1. PnlOK(m)'
  BY DEF PlayOK, PnlOK, PaidTo, SettledCost
<1> QED
  BY <1>1 DEF PlayOK, LockOK, FollowsPlay

LEMMA PickPlay ==
  ASSUME PlayInv, Inv', NEW m \in Matches, NEW s \in Seats, NEW c \in Deck(m),
         NEW side \in Sides, NEW stake \in Stakes, NEW f \in Fills,
         Pick(m, s, c, side, stake, f)
  PROVE  PlayOK(m)'
<1>0. /\ c \in CardIndex /\ status[m] = "PICKING" /\ deckSize' = deckSize
      /\ picks \in [Matches -> [CardIndex -> [Seats -> PickRecord]]]
      /\ picks[m][c][s] = NoPick /\ pnl' = pnl /\ status \in [Matches -> Statuses]
      /\ Deck(m) \subseteq CardIndex /\ PlayOK(m) /\ Inv
      /\ status' = IF Picked(m, s) \cup {c} = Deck(m) /\ Complete(m, 1 - s)
                   THEN [status EXCEPT ![m] = "SETTLING"] ELSE status
  <2>1. Deck(m) \subseteq CardIndex
    BY DeckIsCards DEF PlayInv
  <2>2. c \in CardIndex /\ Inv /\ PlayOK(m) /\ ~picks[m][c][s].placed
    BY <2>1 DEF PlayInv, Pick, Unpicked
  <2>3. picks[m][c][s] = NoPick
    BY <2>2 DEF Inv, MatchOK, PicksOK
  <2>4. /\ picks \in [Matches -> [CardIndex -> [Seats -> PickRecord]]]
        /\ status \in [Matches -> Statuses]
    BY <2>2 DEF Inv, TypeOK, PlayTypeOK, MatchTypeOK
  <2>5. /\ status[m] = "PICKING" /\ deckSize' = deckSize /\ pnl' = pnl
        /\ status' = IF Picked(m, s) \cup {c} = Deck(m) /\ Complete(m, 1 - s)
                     THEN [status EXCEPT ![m] = "SETTLING"] ELSE status
    BY DEF Pick, entryVars
  <2> QED
    BY <2>1, <2>2, <2>3, <2>4, <2>5
<1> DEFINE r == [placed |-> TRUE, settled |-> FALSE, outcomeIdx |-> side,
                 quantity |-> f.quantity, costBase |-> f.cost, payoutBase |-> 0]
<1>1. picks' = [picks EXCEPT ![m][c][s] = r]
  BY DEF Pick
<1>2. r.placed /\ ~r.settled /\ r.payoutBase = 0
      /\ ~NoPick.placed /\ ~NoPick.settled /\ NoPick.payoutBase = 0
  BY DEF NoPick
<1> HIDE DEF r
<1>3. \A d \in CardIndex, z \in Seats :
        picks'[m][d][z] = IF d = c /\ z = s THEN r ELSE picks[m][d][z]
  BY <1>0, <1>1
<1>4. PnlOK(m)'
  <2>1. ASSUME NEW z \in Seats
        PROVE  PaidTo(m, z)' = PaidTo(m, z) /\ SettledCost(m, z)' = SettledCost(m, z)
    <3>1. \A d \in CardIndex :
            /\ picks'[m][d][z].payoutBase = picks[m][d][z].payoutBase
            /\ (IF picks'[m][d][z].settled THEN picks'[m][d][z].costBase ELSE 0)
               = (IF picks[m][d][z].settled THEN picks[m][d][z].costBase ELSE 0)
      BY <1>0, <1>2, <1>3
    <3> QED
      BY <3>1 DEF PaidTo, SettledCost
  <2> QED
    BY <1>0, <2>1 DEF PlayOK, PnlOK
<1>5. LockOK(m)'
  <2>1. CASE Picked(m, s) \cup {c} = Deck(m) /\ Complete(m, 1 - s)
    <3>1. status'[m] = "SETTLING"
      BY <1>0, <2>1
    <3>2. Deck(m)' = Deck(m)
      BY <1>0 DEF Deck
    <3>3. Picked(m, s)' = Picked(m, s) \cup {c}
      BY <1>0, <1>2, <1>3, <3>2 DEF Picked
    <3>4. 1 - s \in Seats /\ 1 - s # s
      BY DEF Seats
    <3>5. Picked(m, 1 - s)' = Picked(m, 1 - s)
      BY <1>0, <1>3, <3>2, <3>4 DEF Picked
    <3>6. Complete(m, s)' /\ Complete(m, 1 - s)'
      BY <2>1, <3>2, <3>3, <3>5 DEF Complete
    <3>7. Complete(m, 0)' /\ Complete(m, 1)'
      <4>1. CASE s = 0
        BY <3>6, <4>1
      <4>2. CASE s = 1
        BY <3>6, <4>2
      <4> QED
        BY <4>1, <4>2 DEF Seats
    <3> QED
      BY <3>1, <3>7 DEF LockOK
  <2>2. CASE ~(Picked(m, s) \cup {c} = Deck(m) /\ Complete(m, 1 - s))
    <3>1. status'[m] = "PICKING"
      BY <1>0, <2>2
    <3> QED
      BY <3>1 DEF LockOK
  <2> QED
    BY <2>1, <2>2
<1>6. FollowsPlay(m)'
  <2>1. status'[m] # "FINALIZED"
    BY <1>0
  <2> QED
    BY <2>1 DEF FollowsPlay
<1> QED
  BY <1>4, <1>5, <1>6 DEF PlayOK

LEMMA EndedPlay ==
  ASSUME PlayInv, NEW m \in Matches, Ended(m)
  PROVE  PlayOK(m)'
<1>1. /\ status \in [Matches -> Statuses] /\ PlayOK(m)
      /\ UNCHANGED <<picks, pnl, deckSize, settledMask>>
      /\ \/ Complete(m, 0) /\ Complete(m, 1) /\ status' = [status EXCEPT ![m] = "SETTLING"]
         \/ Complete(m, 0) # Complete(m, 1) /\ status' = [status EXCEPT ![m] = "FORFEITED"]
  BY DEF PlayInv, Inv, TypeOK, MatchTypeOK, Ended, Locked, playVars, entryVars
<1>2. PnlOK(m)'
  BY <1>1 DEF PlayOK, PnlOK, PaidTo, SettledCost
<1>3. Complete(m, 0)' = Complete(m, 0) /\ Complete(m, 1)' = Complete(m, 1)
  BY <1>1 DEF Complete, Picked, Deck
<1>4. LockOK(m)' /\ FollowsPlay(m)'
  BY <1>1, <1>3 DEF LockOK, FollowsPlay
<1> QED
  BY <1>2, <1>4 DEF PlayOK

\* The pot is given as the records say when it is given.
LEMMA WonPlay ==
  ASSUME PlayInv, NEW m \in Matches, Won(m)
  PROVE  PlayOK(m)'
<1>1. /\ status[m] \in {"SETTLING", "FORFEITED"} /\ PlayedAreSettled(m)
      /\ status' = [status EXCEPT ![m] = "FINALIZED"]
      /\ awarded' = [awarded EXCEPT ![m] = Share(m)]
      /\ UNCHANGED <<picks, pnl, deckSize, settledMask, potBase>>
      /\ status \in [Matches -> Statuses] /\ awarded \in [Matches -> [Seats -> Nat]]
      /\ PlayOK(m) /\ Inv
  BY DEF PlayInv, Inv, TypeOK, MatchTypeOK, MoneyTypeOK, Won, CloseWith, Award, playVars, entryVars
<1>2. PnlOK(m)'
  BY <1>1 DEF PlayOK, PnlOK, PaidTo, SettledCost
<1>3. /\ Complete(m, 0)' = Complete(m, 0) /\ Complete(m, 1)' = Complete(m, 1)
      /\ PlayedAreSettled(m)'
  BY <1>1 DEF Complete, Picked, Deck, PlayedAreSettled
<1>4. LockOK(m)'
  BY <1>1, <1>3 DEF LockOK
<1>5. /\ PlayedFor(m, 0)' = pnl[m][0] /\ PlayedFor(m, 1)' = pnl[m][1]
  <2>1. PlayedFor(m, 0)' = PlayedFor(m, 0) /\ PlayedFor(m, 1)' = PlayedFor(m, 1)
    BY <1>1 DEF PlayedFor, PaidTo, Staked
  <2> QED
    BY <1>1, <2>1, PnlIsPlayed DEF PlayOK, Seats
<1>6. ToBoth(m)' = ToBoth(m) /\ \A w : ToWinner(m, w)' = ToWinner(m, w)
  BY <1>1 DEF ToBoth, ToWinner
<1>7. awarded'[m] = Share(m) /\ status'[m] = "FINALIZED"
  BY <1>1
<1>8. FollowsPlay(m)'
  <2>1. CASE status[m] = "SETTLING"
    <3>1. Complete(m, 0) /\ Complete(m, 1)
      BY <1>1, <2>1 DEF PlayOK, LockOK
    <3>2. Share(m) = IF pnl[m][0] = pnl[m][1] THEN ToBoth(m)
                     ELSE ToWinner(m, IF pnl[m][0] > pnl[m][1] THEN 0 ELSE 1)
      BY <2>1 DEF Share
    <3> QED
      BY <1>3, <1>5, <1>6, <1>7, <3>1, <3>2 DEF FollowsPlay
  <2>2. CASE status[m] = "FORFEITED"
    <3>1. Complete(m, 0) # Complete(m, 1)
      BY <1>1, <2>2 DEF PlayOK, LockOK
    <3>2. Share(m) = ToWinner(m, IF Complete(m, 0) THEN 0 ELSE 1)
      BY <2>2 DEF Share
    <3>3. ~(Complete(m, 0) /\ Complete(m, 1)) /\ (Complete(m, 0) \/ Complete(m, 1))
      BY <3>1 DEF Complete
    <3> QED
      BY <1>3, <1>6, <1>7, <3>2, <3>3 DEF FollowsPlay
  <2> QED
    BY <1>1, <2>1, <2>2
<1> QED
  BY <1>2, <1>4, <1>8 DEF PlayOK

\* A card that settles adds to the pnl what its picks paid and cost; after the
\* pot is given, a card that settles was played by nobody.
LEMMA SettlePlay ==
  ASSUME PlayInv, Inv', NEW m \in Matches, NEW c \in CardIndex, SettleCard(m, c)
  PROVE  PlayOK(m)'
<1>1. /\ UNCHANGED <<status, deckSize, potBase, awarded>> /\ PlayOK(m) /\ Inv
      /\ c \in Deck(m) /\ c \notin settledMask[m]
      /\ settledMask'[m] = settledMask[m] \cup {c}
      /\ pnl' = [pnl EXCEPT ![m] = [s \in Seats |->
           IF Outstanding(m, c, s)
           THEN (pnl[m][s] + Payout(m, c, s)) - picks[m][c][s].costBase ELSE pnl[m][s]]]
      /\ pnl \in [Matches -> [Seats -> Int]] /\ Deck(m) \subseteq CardIndex
  <2>1. Deck(m) \subseteq CardIndex
    BY DeckIsCards DEF PlayInv
  <2> QED
    BY <2>1 DEF PlayInv, Inv, TypeOK, PlayTypeOK, SettleCard, entryVars
<1>2. \A s \in Seats : Picked(m, s)' = Picked(m, s)
  BY <1>1, SettleEffect DEF Picked, Deck
<1>3. ASSUME NEW s \in Seats PROVE pnl'[m][s] = PaidTo(m, s)' - SettledCost(m, s)'
  <2> DEFINE f == [d \in CardIndex |-> IF picks[m][d][s].settled THEN picks[m][d][s].costBase ELSE 0]
             g == [d \in CardIndex |-> IF picks'[m][d][s].settled THEN picks'[m][d][s].costBase ELSE 0]
  <2>1. f \in [CardIndex -> Nat] /\ g \in [CardIndex -> Nat]
    BY <1>1 DEF Inv, TypeOK, PlayTypeOK, PickRecord
  <2>2. PICK n \in Int : n = IF Outstanding(m, c, s) THEN picks[m][c][s].costBase ELSE 0
    BY <1>1, PayoutType DEF Inv, PickRecord
  <2>3. (\A d \in CardIndex \ {c} : g[d] = f[d]) /\ g[c] = f[c] + n
    <3>1. \A d \in CardIndex \ {c} : g[d] = f[d]
      BY <1>1, SettleEffect
    <3>2. picks'[m][c][s] = Settled(m, c, s) /\ f[c] \in Nat
      BY <1>1, <2>1, SettleEffect
    <3>3. CASE Outstanding(m, c, s)
      <4>1. g[c] = picks[m][c][s].costBase /\ f[c] = 0 /\ n = picks[m][c][s].costBase
        BY <1>1, <2>2, <3>2, <3>3, SettleEffect DEF Outstanding
      <4> QED
        BY <2>2, <3>1, <4>1
    <3>4. CASE ~Outstanding(m, c, s)
      <4>1. picks'[m][c][s] = picks[m][c][s] /\ n = 0
        BY <1>1, <2>2, <3>2, <3>4, SettleEffect
      <4> QED
        BY <3>1, <3>2, <4>1
    <3> QED
      BY <3>3, <3>4
  <2>4. SettledCost(m, s) = SumFunction(f) /\ SettledCost(m, s)' = SumFunction(g)
    BY DEF SettledCost
  <2> HIDE DEF f, g
  <2>5. SumFunction(g) = SumFunction(f) + n
    BY <2>1, <2>3, TotalGainsAt, CardsAreFinite
  <2>6. PaidTo(m, s)' = PaidTo(m, s) + Payout(m, c, s)
    BY <1>1, SettlePays
  <2>7. /\ PaidTo(m, s) \in Nat /\ SettledCost(m, s) \in Nat /\ Payout(m, c, s) \in Nat
        /\ pnl[m][s] = PaidTo(m, s) - SettledCost(m, s)
    BY <1>1, PaidType, SettledCostType, PayoutType DEF Inv, PlayOK, PnlOK
  <2>8. pnl'[m][s] = pnl[m][s] + Payout(m, c, s) - n
    <3>1. ~Outstanding(m, c, s) => Payout(m, c, s) = 0
      BY DEF Payout
    <3>2. pnl[m][s] \in Int
      BY <1>1
    <3> QED
      BY <1>1, <2>2, <2>7, <3>1, <3>2
  <2> QED
    BY <2>2, <2>4, <2>5, <2>6, <2>7, <2>8
<1>4. PnlOK(m)'
  BY <1>3 DEF PnlOK
<1>5. /\ Complete(m, 0)' = Complete(m, 0) /\ Complete(m, 1)' = Complete(m, 1)
      /\ PlayedAreSettled(m) => PlayedAreSettled(m)'
  BY <1>1, <1>2 DEF Complete, Deck, PlayedAreSettled, Seats
<1>6. LockOK(m)'
  BY <1>1, <1>5 DEF PlayOK, LockOK
<1>7. FollowsPlay(m)'
  <2>1. CASE status[m] # "FINALIZED"
    BY <1>1, <2>1 DEF FollowsPlay
  <2>2. CASE status[m] = "FINALIZED"
    <3>1. PlayedAreSettled(m)
      BY <1>1, <2>2 DEF PlayOK, LockOK
    <3>2. \A s \in Seats : ~Outstanding(m, c, s)
      BY <1>1, <3>1 DEF PlayedAreSettled, Picked, Outstanding, Seats
    <3>3. \A d \in CardIndex, s \in Seats : picks'[m][d][s] = picks[m][d][s]
      BY <1>1, <3>2, SettleEffect
    <3>4. \A s \in Seats : PlayedFor(m, s)' = PlayedFor(m, s)
      BY <3>3 DEF PlayedFor, PaidTo, Staked
    <3>5. ToBoth(m)' = ToBoth(m) /\ \A w : ToWinner(m, w)' = ToWinner(m, w)
      BY <1>1 DEF ToBoth, ToWinner
    <3>6. PlayedFor(m, 0)' = PlayedFor(m, 0) /\ PlayedFor(m, 1)' = PlayedFor(m, 1)
      BY <3>4 DEF Seats
    <3> QED
      BY <1>1, <1>5, <3>5, <3>6 DEF PlayOK, FollowsPlay
  <2> QED
    BY <2>1, <2>2
<1> QED
  BY <1>4, <1>6, <1>7 DEF PlayOK

LEMMA PlayStep == PlayInv /\ [Next]_vars => PlayInv'
<1> SUFFICES ASSUME PlayInv, [Next]_vars PROVE PlayInv'
  OBVIOUS
<1>0. Inv /\ Inv' /\ (\A n \in Matches : PlayOK(n)) /\ status \in [Matches -> Statuses]
  BY InvStep DEF PlayInv, Inv, TypeOK, MatchTypeOK
<1>1. ASSUME NEW m \in Matches, PlayOK(m)',
             \A n \in Matches \ {m} : Untouched(n) /\ pnl'[n] = pnl[n] /\ potBase'[n] = potBase[n]
      PROVE  PlayInv'
  BY <1>0, <1>1, PlayUntouched DEF PlayInv
<1>2. ASSUME UNCHANGED <<status, playerOf, deckSize, cards, picks, settledMask, awarded,
                         pnl, potBase>>
      PROVE  PlayInv'
  BY <1>0, <1>2, PlayUntouched DEF PlayInv, Untouched
<1>3. CASE Entry
  <2>1. ASSUME NEW m \in Matches, NEW a \in Agents \cup {NoAgent}, NEW ttl \in Ttls,
               NEW p \in Openers, NEW q \in Players, NEW deck \in Decks,
               NEW size \in CardIndex, CreateMatch(p, m, q, deck, size, a, ttl)
        PROVE  PlayInv'
    <3>1. \A n \in Matches \ {m} : pnl'[n] = pnl[n] /\ potBase'[n] = potBase[n]
      BY <2>1 DEF CreateMatch, playVars, Inv, TypeOK, MatchTypeOK, PlayInv
    <3>2. PlayOK(m)'
      BY <1>0, <2>1, PlayMoves DEF CreateMatch, playVars
    <3> QED
      BY <1>0, <1>1, <2>1, <3>1, <3>2, CreateOK
  <2>2. ASSUME NEW m \in Matches, NEW a, NEW ttl, JoinMatch(m, a, ttl) PROVE PlayInv'
    <3>1. pnl' = pnl /\ potBase' = potBase
      BY <2>2 DEF JoinMatch, playVars, entryVars
    <3>2. PlayOK(m)'
      BY <1>0, <2>2, PlayMoves DEF JoinMatch, playVars
    <3> QED
      BY <1>0, <1>1, <2>2, <3>1, <3>2, JoinOK
  <2>3. ASSUME NEW m \in Matches, NEW s, NEW a, NEW ttl, AuthorizeAgent(m, s, a, ttl)
        PROVE  PlayInv'
    BY <1>2, <2>3 DEF AuthorizeAgent, entryVars, deckVars, playVars, potVars
  <2> QED
    BY <1>3, <2>1, <2>2, <2>3 DEF Entry
<1>4. CASE Playing
  <2>1. PICK m \in Matches, s \in Seats, side \in Sides, stake \in Stakes, f \in Fills :
          \E c \in Deck(m) : Pick(m, s, c, side, stake, f)
    BY <1>4 DEF Playing, PlacePick, PlacePickFor
  <2>2. pnl' = pnl /\ potBase' = potBase
    BY <2>1 DEF Pick, entryVars
  <2>3. PlayOK(m)' /\ \A n \in Matches \ {m} : Untouched(n)
    BY <1>0, <2>1, PickPlay, PickOK
  <2> QED
    BY <1>1, <2>2, <2>3
<1>5. ASSUME NEW m \in Matches, RevealDeck(m) PROVE PlayInv'
  <2>1. pnl' = pnl /\ potBase' = potBase
    BY <1>5 DEF RevealDeck, playVars, entryVars
  <2>2. PlayOK(m)'
    BY <1>0, <1>5, PlayMoves DEF RevealDeck, playVars
  <2> QED
    BY <1>0, <1>1, <1>5, <2>1, <2>2, RevealOK
<1>6. ASSUME NEW m \in Matches, CancelMatch(m) \/ Crank(m) PROVE PlayInv'
  <2>1. CASE Returned(m) \/ Undone(m) \/ Won(m)
    <3>1. pnl' = pnl /\ potBase' = potBase /\ picks' = picks
      BY <2>1 DEF Returned, Undone, Won, CloseWith, playVars, entryVars
    <3>2. PlayOK(m)'
      <4>1. CASE Returned(m) \/ Undone(m)
        <5>1. status'[m] = "REFUNDED"
          BY <1>0, <4>1 DEF Returned, Undone, CloseWith
        <5> QED
          BY <1>0, <3>1, <5>1, PlayMoves
      <4>2. CASE Won(m)
        BY <4>2, WonPlay
      <4> QED
        BY <2>1, <4>1, <4>2
    <3> QED
      BY <1>0, <1>1, <2>1, <3>1, <3>2, ClosingOK
  <2>2. CASE Ended(m)
    <3>1. pnl' = pnl /\ potBase' = potBase
      BY <2>2 DEF Ended, Locked, playVars, entryVars
    <3> QED
      BY <1>0, <1>1, <2>2, <3>1, EndedPlay, EndedOK
  <2>3. ASSUME NEW c \in CardIndex, SettleCard(m, c) PROVE PlayInv'
    <3>1. /\ \A n \in Matches \ {m} : pnl'[n] = pnl[n]
          /\ potBase' = potBase
      BY <2>3 DEF SettleCard, entryVars, PlayInv, Inv, TypeOK, PlayTypeOK
    <3> QED
      BY <1>0, <1>1, <2>3, <3>1, SettlePlay, SettleOK
  <2> QED
    BY <1>6, <2>1, <2>2, <2>3, CrankCases
<1>7. CASE (\E p \in Players : ClaimCredit(p)) \/ Admin \/ Venue \/ Tick \/ UNCHANGED vars
  BY <1>2, <1>7 DEF ClaimCredit, Admin, SetParams, SetTier, SetPaused, Set, Venue, Resolve, Tick,
     vars, entryVars, deckVars, playVars, potVars
<1> QED
  BY <1>3, <1>4, <1>5, <1>6, <1>7 DEF Next

LEMMA PlayInit == Init => PlayInv
<1> SUFFICES ASSUME Init PROVE PlayInv
  OBVIOUS
<1>0. Inv
  BY InitInv
<1>1. ASSUME NEW m \in Matches PROVE PlayOK(m)
  <2>1. ASSUME NEW s \in Seats PROVE pnl[m][s] = PaidTo(m, s) - SettledCost(m, s)
    <3> DEFINE f == [c \in CardIndex |-> IF picks[m][c][s].settled THEN picks[m][c][s].costBase ELSE 0]
    <3>1. DOMAIN f = CardIndex /\ \A c \in CardIndex : f[c] = 0
      BY DEF Init, NoPick
    <3>2. SettledCost(m, s) = SumFunction(f)
      BY DEF SettledCost
    <3> HIDE DEF f
    <3>3. SettledCost(m, s) = 0
      BY <3>1, <3>2, TotalOfZeros, CardsAreFinite
    <3>4. PaidTo(m, s) = 0
      BY <1>0, UnplayedPays DEF Init, Unrevealed
    <3> QED
      BY <3>3, <3>4 DEF Init, Nothing
  <2> QED
    BY <2>1 DEF PlayOK, PnlOK, LockOK, FollowsPlay, Init
<1> QED
  BY <1>0, <1>1 DEF PlayInv

(* A won pot went to the seat whose picks did better, or to the only seat  *)
(* that finished, judged by the records as they stay: `finalize` waits for *)
(* every played card, so nothing that settles afterwards could have        *)
(* changed the winner.                                                     *)
THEOREM PotsFollowPlay == Spec => []PotFollowsPlay
<1>1. PlayInv => PotFollowsPlay
  BY DEF PlayInv, PlayOK, FollowsPlay, PotFollowsPlay
<1> QED
  BY <1>1, PlayInit, PlayStep, PTL DEF Spec

-----------------------------------------------------------------------------
(* The projector.                                                          *)

Told(m) == Projecting!Told(m)
RatedOf(w) == {m \in Matches : <<m, w>> \in rated}

\* An event of a match's creation that was written or given up.
Placed(i) ==
  log[i].kind = "created" => log[i].match \in missed \/ rows[log[i].match] # "none"

Kinds == DOMAIN Projecting!Needs
LogEvents == [match: Matches, kind: Kinds]
Rows == {"none", "waiting", "activeUnrevealed", "picking", "settling", "finalized", "refunded"}
CacheEntries == [joined: BOOLEAN, pick: {"none", "open", "paid"}, settled: Nat]
CycleStates ==
  [pc: {"idle", "apply", "read", "write", "ratings", "claim", "save"},
   at: Nat, to: Nat, head: Nat, entry: CacheEntries, shared: BOOLEAN,
   seen: [Projecting!Wallets -> Nat]]

ProjectorTypeOK ==
  /\ log \in Seq(LogEvents)
  /\ rows \in [Matches -> Rows]
  /\ ladder \in [Projecting!Wallets -> Nat]
  /\ stored \in 0..Len(log) /\ cursor \in 0..Len(log)
  /\ DOMAIN cache \subseteq Matches /\ \A m \in DOMAIN cache : cache[m] \in CacheEntries
  /\ cycle \in [Cycles -> CycleStates]

\* A cycle is inside its span, and has written what is behind it; what it and the
\* cache know of a match was logged; what it read of the ladder is no more than
\* what is rated now.
InSpan(c) ==
  /\ cycle[c].at \in 1..(cycle[c].to + 1)
  /\ cycle[c].to <= Len(log) /\ cycle[c].head <= Len(log)
  /\ \A i \in 1..(cycle[c].at - 1) : Placed(i)
CycleOK(c) ==
  /\ cycle[c].pc # "idle" => InSpan(c)
  /\ cycle[c].pc \in {"read", "write", "ratings", "claim"} => cycle[c].at <= cycle[c].to
  /\ cycle[c].pc = "save" => cycle[c].at = cycle[c].to + 1
  /\ cycle[c].pc \in {"read", "ratings", "claim"} => log[cycle[c].at].kind # "created"
  /\ cycle[c].pc \in {"read", "write"} /\ cycle[c].entry.settled > 0 =>
       "settled" \in Told(log[cycle[c].at].match)
  /\ cycle[c].pc \in {"ratings", "claim"} =>
       {"settled", "finalized"} \subseteq Told(log[cycle[c].at].match)
  /\ cycle[c].pc = "claim" =>
       \A w \in Projecting!Wallets : cycle[c].seen[w] <= Cardinality(RatedOf(w))
  /\ cycle[c].shared => cycle[c].pc = "write" /\ log[cycle[c].at].match \in DOMAIN cache

RowOK(m) ==
  rows[m] # "none" =>
    \E kind \in Told(m) \cap DOMAIN Projecting!StatusOf : rows[m] = Projecting!StatusOf[kind]

LadderOK ==
  \A w \in Projecting!Wallets :
    IsFiniteSet(RatedOf(w)) /\ ladder[w] <= Cardinality(RatedOf(w))
ClaimsOK ==
  \A m \in Matches : Projecting!Claimed(m) =>
    /\ {"settled", "finalized"} \subseteq Told(m)
    /\ \A w \in PlayersOf[m] : <<m, w>> \in rated

ProjectorInv ==
  /\ ProjectorTypeOK
  /\ \A i \in 1..stored : Placed(i)
  /\ \A i \in 1..cursor : Placed(i)
  /\ \A c \in Cycles : CycleOK(c)
  /\ \A m \in Matches : RowOK(m)
  /\ \A m \in DOMAIN cache : cache[m].settled > 0 => "settled" \in Told(m)
  /\ LadderOK
  /\ ClaimsOK

-----------------------------------------------------------------------------
(* What was logged stays logged.                                           *)

LEMMA ToldAt ==
  ASSUME log \in Seq(LogEvents), NEW i \in 1..Len(log)
  PROVE  log[i].match \in Matches /\ log[i].kind \in Told(log[i].match)
<1>1. log[i] \in LogEvents
  OBVIOUS
<1> QED
  BY <1>1 DEF Told, Projecting!Told, LogEvents

LEMMA LogGrows ==
  ASSUME log \in Seq(LogEvents), NEW m \in Matches, NEW kind \in Kinds, Projecting!Happens(m, kind)
  PROVE  /\ log' \in Seq(LogEvents) /\ Len(log') = Len(log) + 1
         /\ \A i \in 1..Len(log) : log'[i] = log[i]
         /\ \A n : Told(n) \subseteq Told(n)'
<1>1. PICK e \in LogEvents : log' = Append(log, e)
  BY DEF Projecting!Happens, Projecting!Event, LogEvents
<1>2. /\ log' \in Seq(LogEvents) /\ Len(log') = Len(log) + 1
      /\ \A i \in 1..Len(log) : log'[i] = log[i]
  BY <1>1
<1>3. 1..Len(log) \subseteq 1..Len(log')
  BY <1>2
<1> QED
  BY <1>2, <1>3 DEF Told, Projecting!Told

LEMMA ToldStays == log' = log => \A n : Told(n)' = Told(n)
BY DEF Told, Projecting!Told

(* The smaller and the larger of two.                                      *)
LEMMA MinOfTwo ==
  ASSUME NEW a \in Nat, NEW b \in Nat
  PROVE  /\ Projecting!Min({a, b}) \in {a, b}
         /\ Projecting!Min({a, b}) <= a /\ Projecting!Min({a, b}) <= b
<1>1. \E x \in {a, b} : \A y \in {a, b} : x <= y
  <2>1. CASE a <= b
    BY <2>1
  <2>2. CASE b <= a
    BY <2>2
  <2> QED
    BY <2>1, <2>2
<1> QED
  BY <1>1 DEF Projecting!Min

LEMMA MaxOfTwo ==
  ASSUME NEW a \in Nat, NEW b \in Nat
  PROVE  Projecting!Max({a, b}) \in {a, b}
<1>1. \E x \in {a, b} : \A y \in {a, b} : x >= y
  <2>1. CASE a <= b
    BY <2>1
  <2>2. CASE b <= a
    BY <2>2
  <2> QED
    BY <2>1, <2>2
<1> QED
  BY <1>1 DEF Projecting!Max

(* The records of a cycle.                                                 *)
LEMMA FreshEntry == Projecting!Fresh \in CacheEntries /\ Projecting!Fresh.settled = 0
BY DEF Projecting!Fresh, CacheEntries

LEMMA NothingSeen == Projecting!NoRatings \in [Projecting!Wallets -> Nat]
BY DEF Projecting!NoRatings

LEMMA IdleCycle ==
  /\ Projecting!Idle \in CycleStates
  /\ Projecting!Idle.pc = "idle" /\ ~Projecting!Idle.shared
BY FreshEntry, NothingSeen DEF Projecting!Idle, CycleStates

\* A cycle that is to apply the event at `at`.
At(at, to, head) ==
  [Projecting!Idle EXCEPT !.pc = "apply", !.at = at, !.to = to, !.head = head]

LEMMA Applying ==
  ASSUME NEW at \in Nat, NEW to \in Nat, NEW head \in Nat
  PROVE  /\ At(at, to, head) \in CycleStates
         /\ At(at, to, head).pc = "apply" /\ At(at, to, head).at = at
         /\ At(at, to, head).to = to /\ At(at, to, head).head = head
         /\ ~At(at, to, head).shared
<1>1. PICK r : r = At(at, to, head)
  OBVIOUS
<1>2. r = [pc |-> "apply", at |-> at, to |-> to, head |-> head,
           entry |-> Projecting!Fresh, shared |-> FALSE, seen |-> Projecting!NoRatings]
  BY <1>1 DEF At, Projecting!Idle
<1>3. r.pc = "apply" /\ r.at = at /\ r.to = to /\ r.head = head /\ ~r.shared
  BY ONLY <1>2
<1>4. r \in CycleStates
  <2>1. PICK e \in CacheEntries : e = Projecting!Fresh
    BY FreshEntry
  <2>2. PICK s \in [Projecting!Wallets -> Nat] : s = Projecting!NoRatings
    BY NothingSeen
  <2>3. r = [pc |-> "apply", at |-> at, to |-> to, head |-> head,
             entry |-> e, shared |-> FALSE, seen |-> s]
    BY <1>2, <2>1, <2>2
  <2> QED
    BY ONLY <2>3, at \in Nat, to \in Nat, head \in Nat, e \in CacheEntries,
            s \in [Projecting!Wallets -> Nat] DEF CycleStates
<1> QED
  BY <1>1, <1>3, <1>4

LEMMA Spans ==
  ASSUME Projecting!ProjectorAssumption, NEW from \in Nat, NEW head \in Nat, from < head,
         NEW r, r = Projecting!Spanning(from, head)
  PROVE  /\ r \in CycleStates /\ r.pc = "apply" /\ r.at = from + 1 /\ r.head = head
         /\ r.to \in (from + 1)..head /\ ~r.shared
<1>1. SPAN \in Nat
  BY DEF Projecting!ProjectorAssumption
<1>2. PICK to \in Nat : to = Projecting!Min({head, from + 1 + SPAN}) /\ to \in (from + 1)..head
  <2>1. from + 1 + SPAN \in Nat /\ from + 1 <= from + 1 + SPAN
    BY <1>1
  <2>2. /\ Projecting!Min({head, from + 1 + SPAN}) \in {head, from + 1 + SPAN}
        /\ Projecting!Min({head, from + 1 + SPAN}) <= head
    BY <2>1, MinOfTwo
  <2> QED
    BY <1>1, <2>1, <2>2
<1>3. PICK at \in Nat : at = from + 1
  OBVIOUS
<1>4. r = At(at, to, head)
  BY <1>2, <1>3 DEF Projecting!Spanning, At
<1>5. /\ r \in CycleStates /\ r.pc = "apply" /\ r.at = at
      /\ r.to = to /\ r.head = head /\ ~r.shared
  BY <1>4, Applying
<1> QED
  BY <1>2, <1>3, <1>5

LEMMA AppliedCycle ==
  ASSUME ProjectorTypeOK, NEW c \in Cycles, NEW r, r = Projecting!Applied(c)
  PROVE  /\ r \in CycleStates /\ r.pc = "apply" /\ r.at = cycle[c].at + 1
         /\ r.to = cycle[c].to /\ r.head = cycle[c].head /\ ~r.shared
<1>1. cycle[c] \in CycleStates
  BY DEF ProjectorTypeOK
<1>2. PICK at \in Nat, to \in Nat, head \in Nat :
        at = cycle[c].at + 1 /\ to = cycle[c].to /\ head = cycle[c].head
  BY <1>1 DEF CycleStates
<1>3. r = At(at, to, head)
  BY <1>2 DEF Projecting!Applied, At
<1>4. /\ r \in CycleStates /\ r.pc = "apply" /\ r.at = at
      /\ r.to = to /\ r.head = head /\ ~r.shared
  BY <1>3, Applying
<1> QED
  BY <1>2, <1>4

-----------------------------------------------------------------------------
(* What a step leaves as it was.                                           *)

LEMMA PlacedStays ==
  ASSUME ProjectorTypeOK, log' = log, missed \subseteq missed',
         \A m \in Matches : rows[m] # "none" => rows'[m] # "none",
         NEW i \in 1..Len(log), Placed(i)
  PROVE  Placed(i)'
<1>1. log[i].match \in Matches
  BY ToldAt DEF ProjectorTypeOK
<1> QED
  BY <1>1 DEF Placed

LEMMA CycleType ==
  ASSUME ProjectorTypeOK, NEW c \in Cycles
  PROVE  /\ cycle[c] \in CycleStates /\ cycle[c].at \in Nat /\ cycle[c].to \in Nat
         /\ cycle[c].head \in Nat /\ cycle[c].entry \in CacheEntries
         /\ cycle[c].entry.settled \in Nat
         /\ cycle[c].seen \in [Projecting!Wallets -> Nat]
<1>1. cycle[c] \in CycleStates
  BY DEF ProjectorTypeOK
<1> QED
  BY <1>1 DEF CycleStates, CacheEntries

\* The event that a cycle is at.
LEMMA AtEvent ==
  ASSUME ProjectorInv, NEW c \in Cycles, cycle[c].pc # "idle", cycle[c].at <= cycle[c].to
  PROVE  /\ cycle[c].at \in 1..Len(log) /\ log[cycle[c].at].match \in Matches
         /\ log[cycle[c].at].kind \in Told(log[cycle[c].at].match)
<1>1. cycle[c].at \in 1..Len(log)
  <2>1. Len(log) \in Nat
    BY DEF ProjectorInv, ProjectorTypeOK
  <2>2. cycle[c].at \in 1..(cycle[c].to + 1) /\ cycle[c].to <= Len(log)
    BY DEF ProjectorInv, CycleOK, InSpan
  <2>3. cycle[c].at \in Nat /\ cycle[c].to \in Nat
    BY CycleType DEF ProjectorInv
  <2> QED
    BY <2>1, <2>2, <2>3
<1> QED
  BY <1>1, ToldAt DEF ProjectorInv, ProjectorTypeOK

\* What another cycle's step may do to cycle d: take its entry out of the cache.
Stays(d, r) ==
  /\ r \in CycleStates
  /\ r.pc = cycle[d].pc /\ r.at = cycle[d].at /\ r.to = cycle[d].to /\ r.head = cycle[d].head
  /\ r.seen = cycle[d].seen
  /\ r.shared => cycle[d].shared
  /\ \/ r.entry = cycle[d].entry
     \/ cycle[d].shared /\ r.entry = cache[log[cycle[d].at].match]

LEMMA OthersStay ==
  ASSUME ProjectorInv, log' = log, missed \subseteq missed',
         \A m \in Matches : rows[m] # "none" => rows'[m] # "none",
         \A w \in Projecting!Wallets : IsFiniteSet(RatedOf(w)') /\ RatedOf(w) \subseteq RatedOf(w)',
         NEW d \in Cycles, NEW r, r = cycle'[d], Stays(d, r),
         r.shared => log[cycle[d].at].match \in DOMAIN cache'
  PROVE  CycleOK(d)'
<1>1. \A n : Told(n)' = Told(n)
  BY ToldStays
<1>2. /\ CycleOK(d) /\ Len(log) \in Nat
      /\ cycle[d].at \in Nat /\ cycle[d].to \in Nat
      /\ cycle[d].seen \in [Projecting!Wallets -> Nat]
  BY CycleType DEF ProjectorInv, ProjectorTypeOK
<1>3. (cycle[d].pc # "idle" => InSpan(d))'
  <2> SUFFICES ASSUME cycle[d].pc # "idle" PROVE InSpan(d)'
    BY DEF Stays
  <2>1. InSpan(d)
    BY <1>2 DEF CycleOK
  <2>2. \A i \in 1..(cycle[d].at - 1) : i \in 1..Len(log)
    BY <1>2, <2>1 DEF InSpan
  <2>3. \A i \in 1..(cycle[d].at - 1) : Placed(i)'
    BY <2>1, <2>2, PlacedStays DEF InSpan, ProjectorInv
  <2> QED
    BY <2>1, <2>3 DEF InSpan, Stays
<1>4. (cycle[d].pc \in {"read", "write"} /\ cycle[d].entry.settled > 0 =>
         "settled" \in Told(log[cycle[d].at].match))'
  <2> SUFFICES ASSUME cycle[d].pc \in {"read", "write"}, r.entry.settled > 0
               PROVE  "settled" \in Told(log[cycle[d].at].match)
    BY <1>1 DEF Stays
  <2>1. CASE r.entry = cycle[d].entry
    BY <1>2, <2>1 DEF CycleOK
  <2>2. CASE cycle[d].shared /\ r.entry = cache[log[cycle[d].at].match]
    BY <1>2, <2>2 DEF CycleOK, ProjectorInv
  <2> QED
    BY <2>1, <2>2 DEF Stays
<1>5. (cycle[d].pc = "claim" =>
         \A w \in Projecting!Wallets : cycle[d].seen[w] <= Cardinality(RatedOf(w)))'
  <2> SUFFICES ASSUME cycle[d].pc = "claim", NEW w \in Projecting!Wallets
               PROVE  cycle[d].seen[w] <= Cardinality(RatedOf(w)')
    BY DEF Stays
  <2>1. cycle[d].seen[w] <= Cardinality(RatedOf(w)) /\ cycle[d].seen[w] \in Nat
    BY <1>2 DEF CycleOK
  <2>2. IsFiniteSet(RatedOf(w)') /\ RatedOf(w) \subseteq RatedOf(w)'
    OBVIOUS
  <2>3. PICK S, T : S = RatedOf(w) /\ T = RatedOf(w)'
    OBVIOUS
  <2>4. Cardinality(S) <= Cardinality(T) /\ Cardinality(S) \in Nat /\ Cardinality(T) \in Nat
    BY <2>2, <2>3, FS_Subset, FS_CardinalityType
  <2> QED
    BY <2>1, <2>3, <2>4
<1>6. (cycle[d].shared => cycle[d].pc = "write" /\ log[cycle[d].at].match \in DOMAIN cache)'
  BY <1>2 DEF CycleOK, Stays
<1>7. r.pc \in {"ratings", "claim"} =>
        {"settled", "finalized"} \subseteq Told(log[cycle[d].at].match)
  BY <1>2 DEF CycleOK, Stays
<1>8. /\ r.pc \in {"read", "write", "ratings", "claim"} => r.at <= r.to
      /\ r.pc = "save" => r.at = r.to + 1
      /\ r.pc \in {"read", "ratings", "claim"} => log[r.at].kind # "created"
  BY <1>2 DEF CycleOK, Stays
<1> QED
  BY <1>1, <1>3, <1>4, <1>5, <1>6, <1>7, <1>8 DEF CycleOK, Stays

\* A cycle the step does not touch.
LEMMA UntouchedCycle ==
  ASSUME ProjectorTypeOK, NEW d \in Cycles, NEW r, r = cycle[d] PROVE Stays(d, r)
BY CycleType DEF Stays

\* A step that says nothing of rows or ratings.
LEMMA QuietStep ==
  ASSUME ProjectorInv, ProjectorTypeOK', UNCHANGED <<log, rows, rated, ladder>>,
         missed \subseteq missed',
         \A i \in 1..stored' : Placed(i), \A i \in 1..cursor' : Placed(i),
         \A c \in Cycles : CycleOK(c)',
         \A m \in DOMAIN cache' : cache'[m].settled > 0 => "settled" \in Told(m)
  PROVE  ProjectorInv'
<1>1. \A n : Told(n)' = Told(n)
  BY ToldStays
<1>2. \A i \in 1..Len(log) : Placed(i) => Placed(i)'
  BY PlacedStays DEF ProjectorInv
<1>3. (\A i \in 1..stored : Placed(i))' /\ (\A i \in 1..cursor : Placed(i))'
  <2>1. Len(log) \in Nat /\ stored' \in 0..Len(log) /\ cursor' \in 0..Len(log)
    BY DEF ProjectorTypeOK, ProjectorInv
  <2>2. \A i \in 1..stored' : i \in 1..Len(log)
    BY <2>1
  <2>3. \A i \in 1..cursor' : i \in 1..Len(log)
    BY <2>1
  <2> QED
    BY <1>2, <2>2, <2>3
<1>4. (\A m \in Matches : RowOK(m))'
  BY <1>1 DEF RowOK, ProjectorInv
<1>5. LadderOK'
  BY DEF LadderOK, RatedOf, ProjectorInv
<1>6. ClaimsOK'
  BY <1>1 DEF ClaimsOK, Projecting!Claimed, ProjectorInv
<1> QED
  BY <1>1, <1>3, <1>4, <1>5, <1>6 DEF ProjectorInv

\* Nothing is rated less.
LEMMA SameRated ==
  ASSUME LadderOK, rated' = rated
  PROVE  \A w \in Projecting!Wallets :
           IsFiniteSet(RatedOf(w)') /\ RatedOf(w) \subseteq RatedOf(w)'
BY DEF LadderOK, RatedOf

-----------------------------------------------------------------------------
(* Where a step leaves its own cycle.                                      *)

LEMMA RestsOK ==
  ASSUME NEW c \in Cycles, NEW r, r = cycle'[c], r.pc = "idle", ~r.shared
  PROVE  CycleOK(c)'
BY DEF CycleOK

LEMMA AppliesOK ==
  ASSUME NEW c \in Cycles, log' = log, NEW r, r = cycle'[c], r.pc = "apply", ~r.shared,
         r.at \in 1..(r.to + 1), r.to <= Len(log), r.head <= Len(log),
         \A i \in 1..(r.at - 1) : Placed(i)'
  PROVE  CycleOK(c)'
BY DEF CycleOK, InSpan

\* A cycle that has dealt with its event.
LEMMA AppliedOK ==
  ASSUME ProjectorInv, log' = log, missed \subseteq missed',
         \A m \in Matches : rows[m] # "none" => rows'[m] # "none",
         NEW c \in Cycles, cycle[c].pc # "idle", cycle[c].at <= cycle[c].to,
         NEW r, r = cycle'[c], r = Projecting!Applied(c),
         NEW e, e = cycle[c].at, Placed(e)'
  PROVE  CycleOK(c)'
<1>1. /\ r.pc = "apply" /\ r.at = cycle[c].at + 1 /\ r.to = cycle[c].to
      /\ r.head = cycle[c].head /\ ~r.shared
  BY AppliedCycle DEF ProjectorInv
<1>2. PICK at \in Nat, to \in Nat, n \in Nat : at = cycle[c].at /\ to = cycle[c].to /\ n = Len(log)
  BY CycleType DEF ProjectorInv, ProjectorTypeOK
<1>3. InSpan(c)
  BY DEF ProjectorInv, CycleOK
<1>4. \A i \in 1..(at - 1) : Placed(i)'
  <2>1. \A i \in 1..(at - 1) : i \in 1..Len(log) /\ Placed(i)
    BY <1>2, <1>3 DEF InSpan
  <2> QED
    BY <2>1, PlacedStays DEF ProjectorInv
<1>5. \A i \in 1..(r.at - 1) : Placed(i)'
  <2>1. \A i \in 1..(r.at - 1) : i \in 1..(at - 1) \/ i = at
    BY <1>1, <1>2
  <2> QED
    BY <1>2, <1>4, <2>1
<1>6. r.at \in 1..(r.to + 1)
  BY <1>1, <1>2
<1> QED
  BY <1>1, <1>3, <1>5, <1>6, AppliesOK DEF InSpan

\* A step that changes one cycle and none of the tables.
LEMMA QuietMove ==
  ASSUME ProjectorInv, NEW c \in Cycles, NEW r \in CycleStates,
         cycle' = [cycle EXCEPT ![c] = r],
         UNCHANGED <<log, rows, rated, ladder, cache>>, missed \subseteq missed',
         stored' \in 0..Len(log), cursor' \in 0..Len(log),
         \A i \in 1..stored' : Placed(i), \A i \in 1..cursor' : Placed(i),
         CycleOK(c)'
  PROVE  ProjectorInv'
<1>1. ProjectorTypeOK'
  BY DEF ProjectorInv, ProjectorTypeOK
<1>2. ASSUME NEW d \in Cycles PROVE CycleOK(d)'
  <2>1. CASE d = c
    BY <2>1
  <2>2. CASE d # c
    <3>1. PICK q : q = cycle'[d] /\ q = cycle[d]
      BY <2>2 DEF ProjectorInv, ProjectorTypeOK
    <3>2. Stays(d, q) /\ (q.shared => log[cycle[d].at].match \in DOMAIN cache')
      BY <3>1, UntouchedCycle DEF ProjectorInv, CycleOK
    <3>3. \A w \in Projecting!Wallets : IsFiniteSet(RatedOf(w)') /\ RatedOf(w) \subseteq RatedOf(w)'
      BY SameRated DEF ProjectorInv
    <3> QED
      BY <3>1, <3>2, <3>3, OthersStay
  <2> QED
    BY <2>1, <2>2
<1>3. \A m \in DOMAIN cache' : cache'[m].settled > 0 => "settled" \in Told(m)
  BY DEF ProjectorInv
<1> QED
  BY <1>1, <1>2, <1>3, QuietStep

(* Spans.                                                                  *)
LEMMA SpanKeeps ==
  ASSUME Projecting!ProjectorAssumption, ProjectorInv, NEW c \in Cycles,
         NEW head \in Nat, head <= Len(log), cursor < head,
         NEW r, r = Projecting!Spanning(cursor, head), cycle' = [cycle EXCEPT ![c] = r],
         UNCHANGED <<log, rows, rated, ladder, cache, missed, cursor>>,
         stored' \in 0..Len(log), \A i \in 1..stored' : Placed(i)
  PROVE  ProjectorInv'
<1>1. PICK n \in Nat, k \in Nat : n = Len(log) /\ k = cursor
  BY DEF ProjectorInv, ProjectorTypeOK
<1>3. /\ r \in CycleStates /\ r.pc = "apply" /\ r.at = k + 1 /\ r.head = head
      /\ r.to \in (k + 1)..head /\ ~r.shared
  BY <1>1, Spans
<1>4. r = cycle'[c]
  BY DEF ProjectorInv, ProjectorTypeOK
<1>5. \A i \in 1..cursor : Placed(i) /\ Placed(i)'
  <2>1. \A i \in 1..cursor : Placed(i) /\ i \in 1..Len(log)
    BY DEF ProjectorInv, ProjectorTypeOK
  <2> QED
    BY <2>1, PlacedStays DEF ProjectorInv
<1>6. r.at - 1 = k /\ r.at \in 1..(r.to + 1) /\ r.to <= Len(log)
  BY <1>1, <1>3
<1>7. CycleOK(c)'
  BY <1>1, <1>3, <1>4, <1>5, <1>6, AppliesOK
<1>8. cursor' \in 0..Len(log)
  BY DEF ProjectorInv, ProjectorTypeOK
<1> QED
  BY <1>3, <1>4, <1>5, <1>7, <1>8, QuietMove

LEMMA StartKeeps ==
  ASSUME Projecting!ProjectorAssumption, ProjectorInv, NEW c \in Cycles, Projecting!Start(c)
  PROVE  ProjectorInv'
<1>1. UNCHANGED <<log, rows, rated, ladder, cache, missed, cursor, stored>>
  BY DEF Projecting!Start, Projecting!dbVars, Projecting!boundVars
<1>2. PICK n \in Nat : n = Len(log)
  BY DEF ProjectorInv, ProjectorTypeOK
<1>3. PICK r : /\ r = Projecting!Spanning(cursor, n)
               /\ cycle' = [cycle EXCEPT ![c] = r] /\ cursor < n
  BY <1>2 DEF Projecting!Start
<1>4. stored' \in 0..Len(log) /\ \A i \in 1..stored' : Placed(i)
  BY <1>1 DEF ProjectorInv, ProjectorTypeOK
<1>5. UNCHANGED <<log, rows, rated, ladder, cache, missed, cursor>> /\ n <= Len(log)
  BY <1>1, <1>2
<1> QED
  BY <1>3, <1>4, <1>5, SpanKeeps

\* A cycle whose place and phase are set, and the rest kept.
Phased(r, phase) == [r EXCEPT !.pc = phase]
LEMMA PhasedCycle ==
  ASSUME NEW q \in CycleStates, NEW phase \in {"idle", "apply", "read", "write", "ratings", "claim", "save"}
  PROVE  /\ Phased(q, phase) \in CycleStates
         /\ Phased(q, phase).pc = phase /\ Phased(q, phase).at = q.at
         /\ Phased(q, phase).to = q.to /\ Phased(q, phase).head = q.head
         /\ Phased(q, phase).entry = q.entry /\ Phased(q, phase).seen = q.seen
         /\ Phased(q, phase).shared <=> q.shared
BY DEF Phased, CycleStates

\* A cycle that goes on with an entry of its own, or with the cache's.
Turned(r, phase, e, b) == [r EXCEPT !.pc = phase, !.entry = e, !.shared = b]
LEMMA TurnedCycle ==
  ASSUME NEW q \in CycleStates, NEW phase \in {"read", "write", "ratings"},
         NEW e \in CacheEntries, NEW b \in BOOLEAN, NEW r, r = Turned(q, phase, e, b)
  PROVE  /\ r \in CycleStates
         /\ r.pc = phase /\ r.at = q.at /\ r.to = q.to /\ r.head = q.head
         /\ r.entry = e /\ r.seen = q.seen
         /\ r.shared <=> b
BY DEF Turned, CycleStates

-----------------------------------------------------------------------------
(* Events applied.                                                         *)

LEMMA LearntOK ==
  ASSUME NEW kind, NEW entry \in CacheEntries, NEW r, r = Projecting!Learnt(kind, entry)
  PROVE  r \in CacheEntries /\ (r.settled > 0 => entry.settled > 0 \/ kind = "settled")
<1>1. CASE kind = "joined"
  <2>1. r = [entry EXCEPT !.joined = TRUE]
    BY <1>1 DEF Projecting!Learnt
  <2> QED
    BY <2>1 DEF CacheEntries
<1>2. CASE kind = "picked"
  <2>1. r = [entry EXCEPT !.pick = "open"]
    BY <1>2 DEF Projecting!Learnt
  <2> QED
    BY <2>1 DEF CacheEntries
<1>3. CASE kind = "settled"
  <2>1. entry.settled \in Nat
    BY DEF CacheEntries
  <2>2. Projecting!Min({entry.settled + 1, 2}) \in Nat
    BY <2>1, MinOfTwo
  <2>3. PICK n \in Nat :
          n = IF entry.pick = "open" THEN Projecting!Min({entry.settled + 1, 2}) ELSE entry.settled
    BY <2>1, <2>2
  <2>4. r = [entry EXCEPT !.pick = "paid", !.settled = n]
    BY <1>3, <2>3 DEF Projecting!Learnt, CacheEntries
  <2>5. PICK q \in CacheEntries : q = [entry EXCEPT !.pick = "paid"]
    BY DEF CacheEntries
  <2>6. r = [q EXCEPT !.settled = n]
    BY <2>4, <2>5 DEF CacheEntries
  <2> QED
    BY <1>3, <2>6 DEF CacheEntries
<1>4. CASE kind \notin {"joined", "picked", "settled"}
  <2>1. r = entry
    BY <1>4 DEF Projecting!Learnt
  <2> QED
    BY <2>1
<1> QED
  BY <1>1, <1>2, <1>3, <1>4

LEMMA FromArenaOK ==
  ASSUME NEW m, NEW r, r = Projecting!FromArena(m)
  PROVE  r \in CacheEntries /\ (r.settled > 0 => "settled" \in Told(m))
<1>1. PICK n \in {0, 1} : n = IF "settled" \in Projecting!Told(m) THEN 1 ELSE 0
  OBVIOUS
<1>2. PICK p \in {"none", "open", "paid"} :
        p = IF "settled" \in Projecting!Told(m) THEN "paid"
            ELSE IF "picked" \in Projecting!Told(m) THEN "open" ELSE "none"
  OBVIOUS
<1>3. PICK b \in BOOLEAN : b = ("joined" \in Projecting!Told(m))
  <2>1. ("joined" \in Projecting!Told(m)) \in BOOLEAN
    OBVIOUS
  <2> QED
    BY <2>1
<1>4. r = [joined |-> b, pick |-> p, settled |-> n]
  BY <1>1, <1>2, <1>3 DEF Projecting!FromArena
<1>5. r.settled = n /\ r \in CacheEntries
  BY <1>4 DEF CacheEntries
<1> QED
  BY <1>1, <1>5 DEF Told

\* A step of cycle c, the others as Stays allows.
LEMMA CycleStep ==
  ASSUME ProjectorInv, ProjectorTypeOK', UNCHANGED <<log, cursor, stored>>,
         missed \subseteq missed', rated \subseteq rated',
         \A m \in Matches : rows[m] # "none" => rows'[m] # "none",
         NEW c \in Cycles, CycleOK(c)',
         \A d \in Cycles \ {c} :
           /\ Stays(d, cycle'[d])
           /\ cycle'[d].shared => log[cycle[d].at].match \in DOMAIN cache',
         \A m \in DOMAIN cache' : cache'[m].settled > 0 => "settled" \in Told(m),
         (\A m \in Matches : RowOK(m))', LadderOK', ClaimsOK'
  PROVE  ProjectorInv'
<1>1. \A n : Told(n)' = Told(n)
  BY ToldStays
<1>2. \A i \in 1..Len(log) : Placed(i) => Placed(i)'
  BY PlacedStays DEF ProjectorInv
<1>3. (\A i \in 1..stored : Placed(i))' /\ (\A i \in 1..cursor : Placed(i))'
  <2>1. Len(log) \in Nat /\ stored \in 0..Len(log) /\ cursor \in 0..Len(log)
    BY DEF ProjectorTypeOK, ProjectorInv
  <2>2. \A i \in 1..stored : i \in 1..Len(log)
    BY <2>1
  <2>3. \A i \in 1..cursor : i \in 1..Len(log)
    BY <2>1
  <2> QED
    BY <1>2, <2>2, <2>3 DEF ProjectorInv
<1>4. ASSUME NEW d \in Cycles PROVE CycleOK(d)'
  <2>1. CASE d = c
    BY <2>1
  <2>2. CASE d # c
    <3>1. PICK q : q = cycle'[d]
      OBVIOUS
    <3>2. Stays(d, q) /\ (q.shared => log[cycle[d].at].match \in DOMAIN cache')
      BY <2>2, <3>1
    <3>3. \A w \in Projecting!Wallets : IsFiniteSet(RatedOf(w)') /\ RatedOf(w) \subseteq RatedOf(w)'
      BY DEF LadderOK, RatedOf
    <3> QED
      BY <3>1, <3>2, <3>3, OthersStay
  <2> QED
    BY <2>1, <2>2
<1> QED
  BY <1>1, <1>3, <1>4 DEF ProjectorInv

\* What is told and rated stays so in a step of the cache and the cycles.
LEMMA SameTables ==
  ASSUME ProjectorInv, UNCHANGED <<log, rows, rated, ladder>>
  PROVE  (\A m \in Matches : RowOK(m))' /\ LadderOK' /\ ClaimsOK'
<1>1. \A n : Told(n)' = Told(n)
  BY ToldStays
<1>2. (\A m \in Matches : RowOK(m))'
  BY <1>1 DEF RowOK, ProjectorInv
<1>3. LadderOK'
  BY DEF LadderOK, RatedOf, ProjectorInv
<1>4. ClaimsOK'
  BY <1>1 DEF ClaimsOK, Projecting!Claimed, ProjectorInv
<1> QED
  BY <1>2, <1>3, <1>4

LEMMA DetachedStays ==
  ASSUME ProjectorInv, NEW m \in Matches, NEW d \in Cycles, NEW r, r = Projecting!Detached(m)[d]
  PROVE  Stays(d, r) /\ (r.shared => log[cycle[d].at].match \in DOMAIN cache \ {m})
<1>1. cycle[d] \in CycleStates /\ CycleOK(d)
  BY CycleType DEF ProjectorInv
<1>2. CASE cycle[d].shared /\ log[cycle[d].at].match = m
  <2>1. PICK e \in CacheEntries : e = cache[m]
    BY <1>1, <1>2 DEF CycleOK, ProjectorInv, ProjectorTypeOK
  <2>2. PICK q \in CycleStates : q = cycle[d]
    BY <1>1
  <2>3. r = [q EXCEPT !.entry = e, !.shared = FALSE]
    BY <1>2, <2>1, <2>2 DEF Projecting!Detached
  <2>4. PICK p \in CycleStates : p = [q EXCEPT !.entry = e]
    BY DEF CycleStates
  <2>5. r = [p EXCEPT !.shared = FALSE]
    BY <2>3, <2>4 DEF CycleStates
  <2>6. /\ r \in CycleStates /\ ~r.shared /\ r.entry = e /\ r.pc = q.pc /\ r.at = q.at
        /\ r.to = q.to /\ r.head = q.head /\ r.seen = q.seen
    BY <2>4, <2>5 DEF CycleStates
  <2> QED
    BY <1>2, <2>1, <2>2, <2>6 DEF Stays
<1>3. CASE ~(cycle[d].shared /\ log[cycle[d].at].match = m)
  <2>1. r = cycle[d]
    BY <1>3 DEF Projecting!Detached
  <2>2. Stays(d, r)
    BY <2>1, UntouchedCycle DEF ProjectorInv
  <2> QED
    BY <1>1, <1>3, <2>1, <2>2 DEF CycleOK
<1> QED
  BY <1>2, <1>3

\* The cache, with an entry or without one.
LEMMA CacheWith ==
  ASSUME ProjectorInv, NEW m \in Matches, NEW r \in CacheEntries,
         r.settled > 0 => "settled" \in Told(m), cache' = Projecting!With(cache, m, r)
  PROVE  /\ DOMAIN cache' = DOMAIN cache \cup {m} /\ DOMAIN cache' \subseteq Matches
         /\ \A n \in DOMAIN cache' :
              cache'[n] \in CacheEntries /\ (cache'[n].settled > 0 => "settled" \in Told(n))
<1>1. DOMAIN cache' = DOMAIN cache \cup {m}
  BY DEF Projecting!With
<1>2. \A n \in DOMAIN cache' : cache'[n] = IF n = m THEN r ELSE cache[n]
  BY DEF Projecting!With
<1> QED
  BY <1>1, <1>2 DEF ProjectorInv, ProjectorTypeOK

LEMMA CacheWithout ==
  ASSUME ProjectorInv, NEW m \in Matches, cache' = Projecting!Without(cache, m)
  PROVE  /\ DOMAIN cache' = DOMAIN cache \ {m} /\ DOMAIN cache' \subseteq Matches
         /\ \A n \in DOMAIN cache' :
              cache'[n] \in CacheEntries /\ (cache'[n].settled > 0 => "settled" \in Told(n))
<1>1. DOMAIN cache' = DOMAIN cache \ {m}
  BY DEF Projecting!Without
<1>2. \A n \in DOMAIN cache' : cache'[n] = cache[n]
  BY DEF Projecting!Without
<1> QED
  BY <1>1, <1>2 DEF ProjectorInv, ProjectorTypeOK

\* `applyEvent` up to its first await, with the entry found for the match.
LEMMA AppliesKeeps ==
  ASSUME ProjectorInv, NEW c \in Cycles, cycle[c].pc # "idle", cycle[c].at <= cycle[c].to,
         NEW entry \in CacheEntries,
         entry.settled > 0 => "settled" \in Told(log[cycle[c].at].match),
         NEW cycles \in [Cycles -> CycleStates],
         \A d \in Cycles :
           /\ Stays(d, cycles[d])
           /\ cycles[d].shared => log[cycle[d].at].match \in DOMAIN cache,
         Projecting!Applies(c, entry, cycles),
         UNCHANGED <<log, rows, rated, ladder, stored, cursor, missed>>
  PROVE  ProjectorInv'
<1>1. PICK at \in Nat, m \in Matches, kind \in Kinds :
        /\ at = cycle[c].at /\ at \in 1..Len(log) /\ m = log[at].match /\ kind = log[at].kind
        /\ kind \in Told(m)
  <2>1. cycle[c].at \in 1..Len(log)
    BY AtEvent
  <2>2. log[cycle[c].at] \in LogEvents
    BY <2>1 DEF ProjectorInv, ProjectorTypeOK
  <2> QED
    BY <2>1, <2>2, AtEvent, CycleType DEF LogEvents, ProjectorInv
<1>2. PICK dropped \in BOOLEAN : dropped <=> Projecting!Unplaceable(kind, entry)
  OBVIOUS
<1>3. PICK learnt : learnt = Projecting!Learnt(kind, entry)
  OBVIOUS
<1>4. learnt \in CacheEntries /\ (learnt.settled > 0 => entry.settled > 0 \/ kind = "settled")
  BY <1>3, LearntOK
<1>5. PICK new \in CacheEntries : /\ new = IF dropped THEN entry ELSE learnt
                                  /\ new.settled > 0 => "settled" \in Told(m)
  BY <1>1, <1>4
<1>6. cache' = Projecting!With(cache, m, new)
  BY <1>1, <1>2, <1>3, <1>5 DEF Projecting!Applies
<1>7. /\ DOMAIN cache' = DOMAIN cache \cup {m} /\ DOMAIN cache' \subseteq Matches
      /\ \A n \in DOMAIN cache' :
           cache'[n] \in CacheEntries /\ (cache'[n].settled > 0 => "settled" \in Told(n))
  BY <1>5, <1>6, CacheWith
<1>8. PICK final \in BOOLEAN : final <=> kind = "finalized"
  OBVIOUS
<1>9. PICK own : own = IF dropped THEN Projecting!Applied(c)
                       ELSE Turned(cycle[c], "write", Projecting!Fresh, final)
  OBVIOUS
<1>10. cycle' = [cycles EXCEPT ![c] = own]
  <2>1. (kind = "finalized") = final
    BY <1>8
  <2>2. cycle' = [cycles EXCEPT ![c] =
                   IF dropped THEN Projecting!Applied(c)
                   ELSE [cycle[c] EXCEPT !.pc = "write", !.entry = Projecting!Fresh,
                                         !.shared = kind = "finalized"]]
    BY <1>1, <1>2 DEF Projecting!Applies
  <2> QED
    BY <1>9, <2>1, <2>2 DEF Turned
<1>11. own = cycle'[c]
  BY <1>10
<1>12. own \in CycleStates
  <2>1. CASE dropped
    BY <1>9, <2>1, AppliedCycle DEF ProjectorInv
  <2>2. CASE ~dropped
    <3>1. PICK z \in CycleStates : z = cycle[c]
      BY CycleType DEF ProjectorInv
    <3>2. PICK e \in CacheEntries : e = Projecting!Fresh
      BY FreshEntry
    <3>3. own = Turned(z, "write", e, final)
      BY <1>9, <2>2, <3>1, <3>2
    <3> QED
      BY ONLY <3>3, z \in CycleStates, e \in CacheEntries, final \in BOOLEAN, TurnedCycle
  <2> QED
    BY <2>1, <2>2
<1>13. ProjectorTypeOK'
  BY <1>7, <1>10, <1>12 DEF ProjectorInv, ProjectorTypeOK
<1>14. CycleOK(c)'
  <2>1. CASE dropped
    <3>1. kind # "created"
      BY <1>2, <2>1 DEF Projecting!Unplaceable
    <3>2. Placed(at)'
      BY <1>1, <3>1 DEF Placed
    <3>3. own = Projecting!Applied(c)
      BY <1>9, <2>1
    <3> QED
      BY <1>1, <1>11, <3>2, <3>3, AppliedOK
  <2>2. CASE ~dropped
    <3>1. /\ own.pc = "write" /\ own.at = at /\ own.to = cycle[c].to /\ own.head = cycle[c].head
          /\ own.entry.settled = 0 /\ (own.shared <=> final)
      <4>1. PICK z \in CycleStates : z = cycle[c]
        BY CycleType DEF ProjectorInv
      <4>2. PICK e \in CacheEntries : e = Projecting!Fresh /\ e.settled = 0
        BY FreshEntry
      <4>3. own = Turned(z, "write", e, final)
        BY <1>9, <2>2, <4>1, <4>2
      <4>4. /\ own.pc = "write" /\ own.at = z.at /\ own.to = z.to /\ own.head = z.head
            /\ own.entry = e
        BY ONLY <4>3, z \in CycleStates, final \in BOOLEAN DEF Turned, CycleStates
      <4>5. own.shared <=> final
        BY ONLY <4>3, z \in CycleStates, final \in BOOLEAN DEF Turned, CycleStates
      <4> QED
        BY <1>1, <4>1, <4>2, <4>4, <4>5
    <3>2. InSpan(c)'
      <4>1. InSpan(c)
        BY DEF ProjectorInv, CycleOK
      <4>2. \A i \in 1..(at - 1) : i \in 1..Len(log) /\ Placed(i)
        BY <1>1, <4>1 DEF InSpan, ProjectorInv, ProjectorTypeOK
      <4>3. \A i \in 1..(at - 1) : Placed(i)'
        BY <4>2, PlacedStays DEF ProjectorInv
      <4> QED
        BY <1>1, <1>11, <3>1, <4>1, <4>3 DEF InSpan
    <3> QED
      BY <1>1, <1>7, <1>11, <3>1, <3>2 DEF CycleOK
  <2> QED
    BY <2>1, <2>2
<1>15. ASSUME NEW d \in Cycles \ {c}
       PROVE  Stays(d, cycle'[d]) /\ (cycle'[d].shared => log[cycle[d].at].match \in DOMAIN cache')
  <2>1. cycle'[d] = cycles[d]
    BY <1>10
  <2> QED
    BY <1>7, <2>1
<1>16. (\A n \in Matches : RowOK(n))' /\ LadderOK' /\ ClaimsOK'
  BY SameTables
<1> QED
  BY <1>7, <1>13, <1>14, <1>15, <1>16, CycleStep

LEMMA TakeKeeps ==
  ASSUME ProjectorInv, NEW c \in Cycles, Projecting!Take(c)
  PROVE  ProjectorInv'
<1>1. /\ cycle[c].pc = "apply" /\ cycle[c].at <= cycle[c].to
      /\ UNCHANGED <<log, rows, rated, ladder, stored, cursor, missed>>
  BY DEF Projecting!Take, Projecting!dbVars, Projecting!boundVars
<1>2. PICK at, m : /\ at = cycle[c].at /\ m = log[at].match /\ m \in Matches
                   /\ at \in 1..Len(log)
  BY <1>1, AtEvent
<1>3. CASE log[at].kind = "created" /\ Projecting!Applies(c, Projecting!Fresh, Projecting!Detached(m))
  <2>1. PICK cycles : cycles = Projecting!Detached(m)
    OBVIOUS
  <2>2. \A d \in Cycles :
          /\ Stays(d, cycles[d])
          /\ cycles[d].shared => log[cycle[d].at].match \in DOMAIN cache
    BY <1>2, <2>1, DetachedStays
  <2>3. cycles \in [Cycles -> CycleStates]
    BY <2>1, <2>2 DEF Stays, Projecting!Detached
  <2>4. PICK e \in CacheEntries : e = Projecting!Fresh /\ e.settled = 0
    BY FreshEntry
  <2>5. Projecting!Applies(c, e, cycles)
    BY <1>3, <2>1, <2>4
  <2> QED
    BY <1>1, <2>2, <2>3, <2>4, <2>5, AppliesKeeps
<1>4. CASE m \in DOMAIN cache /\ Projecting!Applies(c, cache[m], cycle)
  <2>1. PICK e \in CacheEntries : e = cache[m] /\ (e.settled > 0 => "settled" \in Told(m))
    BY <1>2, <1>4 DEF ProjectorInv, ProjectorTypeOK
  <2>2. \A d \in Cycles :
          /\ Stays(d, cycle[d])
          /\ cycle[d].shared => log[cycle[d].at].match \in DOMAIN cache
    BY UntouchedCycle DEF ProjectorInv, CycleOK
  <2>3. cycle \in [Cycles -> CycleStates]
    BY DEF ProjectorInv, ProjectorTypeOK
  <2>4. Projecting!Applies(c, e, cycle)
    BY <1>4, <2>1
  <2>5. e.settled > 0 => "settled" \in Told(log[cycle[c].at].match)
    BY <1>2, <2>1
  <2> QED
    BY <1>1, <2>2, <2>3, <2>4, <2>5, AppliesKeeps
<1>5. CASE /\ log[at].kind # "created" /\ UNCHANGED cache
           /\ cycle' = [cycle EXCEPT ![c].pc = "read", ![c].entry = Projecting!FromArena(m)]
  <2>1. PICK e : e = Projecting!FromArena(m)
    OBVIOUS
  <2>2. e \in CacheEntries /\ (e.settled > 0 => "settled" \in Told(m))
    BY <2>1, FromArenaOK
  <2>3. PICK b \in BOOLEAN : b <=> cycle[c].shared
    OBVIOUS
  <2>4. PICK q : q = Turned(cycle[c], "read", e, b)
    OBVIOUS
  <2>5. /\ q \in CycleStates /\ q.pc = "read" /\ q.at = cycle[c].at /\ q.to = cycle[c].to
        /\ q.head = cycle[c].head /\ q.entry = e /\ (q.shared <=> b)
    <3>1. PICK z \in CycleStates : z = cycle[c]
      BY CycleType DEF ProjectorInv
    <3>2. q = Turned(z, "read", e, b)
      BY <2>4, <3>1
    <3>3. /\ q \in CycleStates /\ q.pc = "read" /\ q.at = z.at /\ q.to = z.to
          /\ q.head = z.head /\ q.entry = e /\ (q.shared <=> b)
      BY <2>2, <3>2, TurnedCycle
    <3> QED
      BY <3>1, <3>3
  <2>6. cycle' = [cycle EXCEPT ![c] = q]
    <3>1. PICK z \in CycleStates : z = cycle[c]
      BY CycleType DEF ProjectorInv
    <3>2. [cycle EXCEPT ![c].pc = "read", ![c].entry = e] =
            [cycle EXCEPT ![c] = [z EXCEPT !.pc = "read", !.entry = e]]
      BY <3>1 DEF ProjectorInv, ProjectorTypeOK
    <3>3. q = [z EXCEPT !.pc = "read", !.entry = e]
      <4>1. z.shared = b
        BY <2>3, <3>1 DEF CycleStates
      <4> QED
        BY <2>4, <3>1, <4>1 DEF Turned, CycleStates
    <3> QED
      BY <1>5, <2>1, <3>2, <3>3
  <2>7. ~b
    BY <1>1, <2>3 DEF ProjectorInv, CycleOK
  <2>8. q = cycle'[c]
    BY <2>6 DEF ProjectorInv, ProjectorTypeOK
  <2>9. CycleOK(c)'
    <3>1. InSpan(c)
      BY <1>1 DEF ProjectorInv, CycleOK
    <3>2. \A i \in 1..(at - 1) : i \in 1..Len(log) /\ Placed(i)
      BY <1>2, <3>1 DEF InSpan, ProjectorInv, ProjectorTypeOK
    <3>3. \A i \in 1..(at - 1) : Placed(i)'
      BY <1>1, <3>2, PlacedStays DEF ProjectorInv
    <3>4. InSpan(c)'
      BY <1>1, <1>2, <2>5, <2>8, <3>1, <3>3 DEF InSpan
    <3>5. \A n : Told(n)' = Told(n)
      BY <1>1, ToldStays
    <3> QED
      BY <1>1, <1>2, <1>5, <2>2, <2>5, <2>7, <2>8, <3>4, <3>5 DEF CycleOK
  <2>10. /\ UNCHANGED <<log, rows, rated, ladder, cache>> /\ missed \subseteq missed'
         /\ stored' \in 0..Len(log) /\ cursor' \in 0..Len(log)
         /\ \A i \in 1..stored' : Placed(i)
         /\ \A i \in 1..cursor' : Placed(i)
    BY <1>1, <1>5 DEF ProjectorInv, ProjectorTypeOK
  <2> QED
    BY <2>5, <2>6, <2>9, <2>10, QuietMove
<1> QED
  BY <1>2, <1>3, <1>4, <1>5 DEF Projecting!Take

LEMMA ReadKeeps ==
  ASSUME ProjectorInv, NEW c \in Cycles, Projecting!ArenaRead(c)
  PROVE  ProjectorInv'
<1>1. /\ cycle[c].pc = "read" /\ cycle[c].at <= cycle[c].to
      /\ UNCHANGED <<log, rows, rated, ladder, stored, cursor, missed>>
  BY DEF Projecting!ArenaRead, Projecting!dbVars, Projecting!boundVars, ProjectorInv, CycleOK
<1>2. PICK at, m : at = cycle[c].at /\ m = log[at].match /\ m \in Matches
  BY <1>1, AtEvent
<1>3. PICK e \in CacheEntries :
        e = cycle[c].entry /\ (e.settled > 0 => "settled" \in Told(log[cycle[c].at].match))
  BY <1>1, CycleType DEF ProjectorInv, CycleOK
<1>4. PICK cycles : cycles = Projecting!Detached(m)
  OBVIOUS
<1>5. \A d \in Cycles :
        /\ Stays(d, cycles[d])
        /\ cycles[d].shared => log[cycle[d].at].match \in DOMAIN cache
  BY <1>2, <1>4, DetachedStays
<1>6. cycles \in [Cycles -> CycleStates]
  BY <1>4, <1>5 DEF Stays, Projecting!Detached
<1>7. Projecting!Applies(c, e, cycles)
  BY <1>2, <1>3, <1>4 DEF Projecting!ArenaRead
<1> QED
  BY <1>1, <1>3, <1>5, <1>6, <1>7, AppliesKeeps

-----------------------------------------------------------------------------
(* Events written.                                                         *)

\* What an event leaves in the row of its match.
LEMMA RecordedOK ==
  ASSUME ProjectorInv, NEW m \in Matches, NEW kind \in Told(m),
         NEW r, r = Projecting!Recorded(kind, rows[m])
  PROVE  /\ r \in Rows
         /\ rows[m] # "none" => r # "none"
         /\ kind = "created" => r # "none"
         /\ r # "none" => \E k \in Told(m) \cap DOMAIN Projecting!StatusOf :
                            r = Projecting!StatusOf[k]
<1>1. RowOK(m) /\ rows[m] \in Rows
  BY DEF ProjectorInv, ProjectorTypeOK
<1>2. /\ DOMAIN Projecting!StatusOf = {"created", "joined", "revealed", "locked", "finalized", "refunded"}
      /\ \A k \in DOMAIN Projecting!StatusOf :
           Projecting!StatusOf[k] \in Rows /\ Projecting!StatusOf[k] # "none"
  <2>1. DOMAIN Projecting!StatusOf =
          {"created", "joined", "revealed", "locked", "finalized", "refunded"}
    BY DEF Projecting!StatusOf
  <2>2. /\ Projecting!StatusOf["created"] = "waiting"
        /\ Projecting!StatusOf["joined"] = "activeUnrevealed"
        /\ Projecting!StatusOf["revealed"] = "picking"
        /\ Projecting!StatusOf["locked"] = "settling"
        /\ Projecting!StatusOf["finalized"] = "finalized"
        /\ Projecting!StatusOf["refunded"] = "refunded"
    BY DEF Projecting!StatusOf
  <2>3. ASSUME NEW k \in DOMAIN Projecting!StatusOf
        PROVE  Projecting!StatusOf[k] \in Rows /\ Projecting!StatusOf[k] # "none"
    <3>1. k \in {"created", "joined", "revealed", "locked", "finalized", "refunded"}
      BY <2>1
    <3>2. CASE k = "created"
      BY <2>2, <3>2 DEF Rows
    <3>3. CASE k = "joined"
      BY <2>2, <3>3 DEF Rows
    <3>4. CASE k = "revealed"
      BY <2>2, <3>4 DEF Rows
    <3>5. CASE k = "locked"
      BY <2>2, <3>5 DEF Rows
    <3>6. CASE k = "finalized"
      BY <2>2, <3>6 DEF Rows
    <3>7. CASE k = "refunded"
      BY <2>2, <3>7 DEF Rows
    <3> QED
      BY <3>1, <3>2, <3>3, <3>4, <3>5, <3>6, <3>7
  <2> QED
    BY <2>1, <2>3
<1>3. CASE kind \in DOMAIN Projecting!StatusOf /\ (kind = "created" \/ rows[m] # "none")
  <2>1. r = Projecting!StatusOf[kind]
    BY <1>3 DEF Projecting!Recorded
  <2> QED
    BY <1>2, <1>3, <2>1
<1>4. CASE ~(kind \in DOMAIN Projecting!StatusOf /\ (kind = "created" \/ rows[m] # "none"))
  <2>1. r = rows[m]
    BY <1>4 DEF Projecting!Recorded
  <2> QED
    BY <1>1, <1>2, <1>4, <2>1 DEF RowOK
<1> QED
  BY <1>3, <1>4

\* `forget`: the other cycles keep what they held of the match.
LEMMA EndsOthers ==
  ASSUME ProjectorInv, NEW c \in Cycles, NEW m \in Matches, Projecting!Ends(c, m), log' = log
  PROVE  /\ cycle' \in [Cycles -> CycleStates] /\ cycle'[c] = Projecting!Applied(c)
         /\ DOMAIN cache' \subseteq Matches
         /\ \A n \in DOMAIN cache' :
              cache'[n] \in CacheEntries /\ (cache'[n].settled > 0 => "settled" \in Told(n))
         /\ \A d \in Cycles \ {c} :
              /\ Stays(d, cycle'[d])
              /\ cycle'[d].shared => log[cycle[d].at].match \in DOMAIN cache'
<1>1. PICK cycles : cycles = Projecting!Detached(m)
  OBVIOUS
<1>2. \A d \in Cycles :
        /\ Stays(d, cycles[d])
        /\ cycles[d].shared => log[cycle[d].at].match \in DOMAIN cache \ {m}
  BY <1>1, DetachedStays
<1>3. cycles \in [Cycles -> CycleStates]
  BY <1>1, <1>2 DEF Stays, Projecting!Detached
<1>4. PICK r \in CycleStates : r = Projecting!Applied(c)
  BY AppliedCycle DEF ProjectorInv
<1>5. cycle' = [cycles EXCEPT ![c] = r] /\ cache' = Projecting!Without(cache, m)
  BY <1>1, <1>4 DEF Projecting!Ends
<1>6. /\ DOMAIN cache' = DOMAIN cache \ {m} /\ DOMAIN cache' \subseteq Matches
      /\ \A n \in DOMAIN cache' :
           cache'[n] \in CacheEntries /\ (cache'[n].settled > 0 => "settled" \in Told(n))
  BY <1>5, CacheWithout
<1>7. cycle' \in [Cycles -> CycleStates] /\ cycle'[c] = r
  BY <1>3, <1>5
<1>8. \A d \in Cycles \ {c} : cycle'[d] = cycles[d]
  BY <1>3, <1>5
<1> QED
  BY <1>2, <1>4, <1>6, <1>7, <1>8

\* The entry of the event in hand, wherever it is kept.
LEMMA EntrySettled ==
  ASSUME ProjectorInv, NEW c \in Cycles, cycle[c].pc = "write", Projecting!Rates(Projecting!EntryOf(c))
  PROVE  "settled" \in Told(log[cycle[c].at].match)
<1>1. Projecting!EntryOf(c).settled > 0
  BY DEF Projecting!Rates
<1>2. CASE cycle[c].shared
  BY <1>1, <1>2 DEF Projecting!EntryOf, ProjectorInv, CycleOK
<1>3. CASE ~cycle[c].shared
  BY <1>1, <1>3 DEF Projecting!EntryOf, ProjectorInv, CycleOK
<1> QED
  BY <1>2, <1>3

LEMMA WriteKeeps ==
  ASSUME ProjectorInv, NEW c \in Cycles, Projecting!Write(c)
  PROVE  ProjectorInv'
<1>1. /\ cycle[c].pc = "write" /\ cycle[c].at <= cycle[c].to
      /\ UNCHANGED <<log, rated, ladder, stored, cursor, missed>>
  BY DEF Projecting!Write, Projecting!boundVars, ProjectorInv, CycleOK
<1>2. PICK at \in Nat, m \in Matches, kind \in Kinds :
        /\ at = cycle[c].at /\ at \in 1..Len(log) /\ m = log[at].match /\ kind = log[at].kind
        /\ kind \in Told(m)
  <2>1. cycle[c].at \in 1..Len(log)
    BY <1>1, AtEvent
  <2>2. log[cycle[c].at] \in LogEvents
    BY <2>1 DEF ProjectorInv, ProjectorTypeOK
  <2> QED
    BY <1>1, <2>1, <2>2, AtEvent, CycleType DEF LogEvents, ProjectorInv
<1>3. PICK row : row = Projecting!Recorded(kind, rows[m])
  OBVIOUS
<1>4. /\ row \in Rows
      /\ rows[m] # "none" => row # "none"
      /\ kind = "created" => row # "none"
      /\ row # "none" => \E k \in Told(m) \cap DOMAIN Projecting!StatusOf :
                           row = Projecting!StatusOf[k]
  BY <1>2, <1>3, RecordedOK
<1>5. rows \in [Matches -> Rows] /\ rows' = [rows EXCEPT ![m] = row]
  BY <1>2, <1>3 DEF Projecting!Write, ProjectorInv, ProjectorTypeOK
<1>6. rows' \in [Matches -> Rows] /\ \A n \in Matches : rows[n] # "none" => rows'[n] # "none"
  BY <1>4, <1>5
<1>7. \A n : Told(n)' = Told(n)
  BY <1>1, ToldStays
<1>8. (\A n \in Matches : RowOK(n))'
  <2>1. ASSUME NEW n \in Matches PROVE RowOK(n)'
    <3>1. CASE n = m
      BY <1>4, <1>5, <1>7, <3>1 DEF RowOK
    <3>2. CASE n # m
      <4>1. rows'[n] = rows[n] /\ RowOK(n)
        BY <1>5, <3>2 DEF ProjectorInv
      <4> QED
        BY <1>7, <4>1 DEF RowOK
    <3> QED
      BY <3>1, <3>2
  <2> QED
    BY <2>1
<1>9. LadderOK' /\ ClaimsOK'
  <2>1. LadderOK'
    BY <1>1 DEF LadderOK, RatedOf, ProjectorInv
  <2>2. ClaimsOK'
    BY <1>1, <1>7 DEF ClaimsOK, Projecting!Claimed, ProjectorInv
  <2> QED
    BY <2>1, <2>2
<1>10. Placed(at)'
  BY <1>1, <1>2, <1>4, <1>5 DEF Placed
<1>11. PICK z \in CycleStates : z = cycle[c]
  BY CycleType DEF ProjectorInv
<1>12. CASE /\ kind = "finalized" /\ Projecting!Rates(Projecting!EntryOf(c)) /\ UNCHANGED cache
            /\ cycle' = [cycle EXCEPT ![c].pc = "ratings", ![c].entry = Projecting!Fresh,
                                      ![c].shared = FALSE]
  <2>1. PICK e \in CacheEntries : e = Projecting!Fresh
    BY FreshEntry
  <2>2. PICK b \in BOOLEAN : ~b
    OBVIOUS
  <2>3. PICK q : q = Turned(z, "ratings", e, b)
    OBVIOUS
  <2>30. /\ q \in CycleStates /\ q.pc = "ratings" /\ q.at = z.at /\ q.to = z.to
         /\ q.head = z.head /\ ~q.shared
    BY <2>2, <2>3, TurnedCycle
  <2>4. cycle' = [cycle EXCEPT ![c] = q]
    BY <1>11, <1>12, <2>1, <2>2, <2>3 DEF Turned, ProjectorInv, ProjectorTypeOK
  <2>5. q = cycle'[c]
    BY <2>4 DEF ProjectorInv, ProjectorTypeOK
  <2>6. "settled" \in Told(m)
    BY <1>1, <1>2, <1>12, EntrySettled
  <2>7. InSpan(c)'
    <3>1. InSpan(c)
      BY <1>1 DEF ProjectorInv, CycleOK
    <3>2. \A i \in 1..(at - 1) : i \in 1..Len(log) /\ Placed(i)
      BY <1>2, <3>1 DEF InSpan, ProjectorInv, ProjectorTypeOK
    <3>3. \A i \in 1..(at - 1) : Placed(i)'
      BY <1>1, <1>6, <3>2, PlacedStays DEF ProjectorInv
    <3> QED
      BY <1>1, <1>2, <1>11, <2>30, <2>5, <3>1, <3>3 DEF InSpan
  <2>8. CycleOK(c)'
    BY <1>1, <1>2, <1>7, <1>11, <1>12, <2>30, <2>5, <2>6, <2>7 DEF CycleOK
  <2>9. ProjectorTypeOK'
    BY <1>1, <1>6, <1>12, <2>30, <2>4 DEF ProjectorInv, ProjectorTypeOK
  <2>10. ASSUME NEW d \in Cycles \ {c}
         PROVE  Stays(d, cycle'[d]) /\ (cycle'[d].shared => log[cycle[d].at].match \in DOMAIN cache')
    <3>1. cycle'[d] = cycle[d]
      BY <2>4
    <3> QED
      BY <1>12, <3>1, UntouchedCycle DEF ProjectorInv, CycleOK
  <2>11. \A n \in DOMAIN cache' : cache'[n].settled > 0 => "settled" \in Told(n)
    BY <1>12 DEF ProjectorInv
  <2>12. UNCHANGED <<log, cursor, stored>> /\ missed \subseteq missed' /\ rated \subseteq rated'
    BY <1>1
  <2> QED
    BY <1>6, <1>8, <1>9, <2>8, <2>9, <2>10, <2>11, <2>12, CycleStep
<1>13. CASE Projecting!Ends(c, m)
  <2>1. /\ cycle' \in [Cycles -> CycleStates] /\ cycle'[c] = Projecting!Applied(c)
        /\ DOMAIN cache' \subseteq Matches
        /\ \A n \in DOMAIN cache' :
             cache'[n] \in CacheEntries /\ (cache'[n].settled > 0 => "settled" \in Told(n))
        /\ \A d \in Cycles \ {c} :
             /\ Stays(d, cycle'[d])
             /\ cycle'[d].shared => log[cycle[d].at].match \in DOMAIN cache'
    BY <1>1, <1>13, EndsOthers
  <2>2. ProjectorTypeOK'
    BY <1>1, <1>6, <2>1 DEF ProjectorInv, ProjectorTypeOK
  <2>3. UNCHANGED <<log, cursor, stored>> /\ missed \subseteq missed' /\ rated \subseteq rated'
    BY <1>1
  <2>4. CycleOK(c)'
    <3>1. PICK r : r = cycle'[c] /\ r = Projecting!Applied(c)
      BY <2>1
    <3> QED
      BY <1>1, <1>2, <1>6, <1>10, <2>3, <3>1, AppliedOK
  <2> QED
    BY <1>6, <1>8, <1>9, <2>1, <2>2, <2>3, <2>4, CycleStep
<1>14. CASE cycle' = [cycle EXCEPT ![c] = Projecting!Applied(c)] /\ UNCHANGED cache
  <2>1. PICK r \in CycleStates : r = Projecting!Applied(c)
    BY AppliedCycle DEF ProjectorInv
  <2>2. cycle' \in [Cycles -> CycleStates] /\ r = cycle'[c]
    BY <1>14, <2>1 DEF ProjectorInv, ProjectorTypeOK
  <2>3. ProjectorTypeOK'
    BY <1>1, <1>6, <1>14, <2>2 DEF ProjectorInv, ProjectorTypeOK
  <2>4. UNCHANGED <<log, cursor, stored>> /\ missed \subseteq missed' /\ rated \subseteq rated'
    BY <1>1
  <2>5. CycleOK(c)'
    BY <1>1, <1>2, <1>6, <1>10, <2>1, <2>2, <2>4, AppliedOK
  <2>6. ASSUME NEW d \in Cycles \ {c}
        PROVE  Stays(d, cycle'[d]) /\ (cycle'[d].shared => log[cycle[d].at].match \in DOMAIN cache')
    <3>1. cycle'[d] = cycle[d]
      BY <1>14
    <3> QED
      BY <1>14, <3>1, UntouchedCycle DEF ProjectorInv, CycleOK
  <2>7. \A n \in DOMAIN cache' : cache'[n].settled > 0 => "settled" \in Told(n)
    BY <1>14 DEF ProjectorInv
  <2> QED
    BY <1>6, <1>8, <1>9, <2>3, <2>4, <2>5, <2>6, <2>7, CycleStep
<1> QED
  BY <1>2, <1>12, <1>13, <1>14 DEF Projecting!Write

-----------------------------------------------------------------------------
(* Ratings.                                                                *)

\* The library's cardinality, by the name the instance has for it.
LEMMA SameCardinality == ASSUME NEW S PROVE Projecting!Cardinality(S) = Cardinality(S)
BY DEF Projecting!Cardinality, Cardinality

LEMMA RatingsReadKeeps ==
  ASSUME ProjectorInv, NEW c \in Cycles, Projecting!ReadRatings(c)
  PROVE  ProjectorInv'
<1>1. /\ cycle[c].pc = "ratings"
      /\ UNCHANGED <<log, rows, rated, ladder, stored, cursor, cache, missed>>
  BY DEF Projecting!ReadRatings, Projecting!dbVars, Projecting!boundVars
<1>2. PICK z \in CycleStates : z = cycle[c]
  BY CycleType DEF ProjectorInv
<1>3. PICK s \in [Projecting!Wallets -> Nat] : s = ladder
  BY DEF ProjectorInv, ProjectorTypeOK
<1>4. PICK p \in CycleStates : p = [z EXCEPT !.pc = "claim"]
  BY DEF CycleStates
<1>5. PICK q : q = [p EXCEPT !.seen = s]
  OBVIOUS
<1>6. /\ q \in CycleStates /\ q.pc = "claim" /\ q.at = z.at /\ q.to = z.to
      /\ q.head = z.head /\ q.seen = s /\ (q.shared => z.shared)
  BY <1>4, <1>5 DEF CycleStates
<1>7. cycle' = [cycle EXCEPT ![c] = q]
  <2>1. q = [z EXCEPT !.pc = "claim", !.seen = s]
    BY <1>4, <1>5 DEF CycleStates
  <2> QED
    BY <1>2, <1>3, <2>1 DEF Projecting!ReadRatings, ProjectorInv, ProjectorTypeOK
<1>8. q = cycle'[c]
  BY <1>7 DEF ProjectorInv, ProjectorTypeOK
<1>9. CycleOK(c)'
  <2>1. CycleOK(c) /\ InSpan(c) /\ ~z.shared
    BY <1>1, <1>2 DEF ProjectorInv, CycleOK
  <2>2. PICK at \in Nat : at = cycle[c].at /\ at \in 1..Len(log)
    BY <1>1, <2>1, AtEvent, CycleType DEF CycleOK, ProjectorInv
  <2>3. \A i \in 1..(at - 1) : i \in 1..Len(log) /\ Placed(i)
    BY <2>1, <2>2 DEF InSpan, ProjectorInv, ProjectorTypeOK
  <2>4. \A i \in 1..(at - 1) : Placed(i)'
    BY <1>1, <2>3, PlacedStays DEF ProjectorInv
  <2>5. InSpan(c)'
    BY <1>1, <1>2, <1>6, <1>8, <2>1, <2>2, <2>4 DEF InSpan
  <2>6. \A n : Told(n)' = Told(n)
    BY <1>1, ToldStays
  <2>7. \A w \in Projecting!Wallets : q.seen[w] <= Cardinality(RatedOf(w)')
    BY <1>1, <1>3, <1>6 DEF ProjectorInv, LadderOK, RatedOf
  <2> QED
    BY <1>1, <1>2, <1>6, <1>8, <2>1, <2>5, <2>6, <2>7 DEF CycleOK
<1>10. /\ UNCHANGED <<log, rows, rated, ladder, cache>> /\ missed \subseteq missed'
       /\ stored' \in 0..Len(log) /\ cursor' \in 0..Len(log)
       /\ \A i \in 1..stored' : Placed(i)
       /\ \A i \in 1..cursor' : Placed(i)
  BY <1>1 DEF ProjectorInv, ProjectorTypeOK
<1> QED
  BY <1>6, <1>7, <1>9, <1>10, QuietMove

\* A match is rated at most once, from records no higher than what is rated.
LEMMA RatingsApplied ==
  ASSUME ProjectorInv, NEW c \in Cycles, NEW m \in Matches, cycle[c].pc = "claim",
         ~Projecting!Claimed(m), UNCHANGED log,
         {"settled", "finalized"} \subseteq Told(m),
         rated' = rated \cup {<<m, w>> : w \in PlayersOf[m]},
         ladder' = [w \in Projecting!Wallets |->
                      IF w \in PlayersOf[m] THEN cycle[c].seen[w] + 1 ELSE ladder[w]]
  PROVE  LadderOK' /\ ClaimsOK' /\ ladder' \in [Projecting!Wallets -> Nat]
<1>1. \A w \in PlayersOf[m] : m \notin RatedOf(w)
  BY DEF Projecting!Claimed, RatedOf
<1>2. ASSUME NEW w
      PROVE  RatedOf(w)' = IF w \in PlayersOf[m] THEN RatedOf(w) \cup {m} ELSE RatedOf(w)
  BY DEF RatedOf
<1>3. /\ cycle[c].seen \in [Projecting!Wallets -> Nat]
      /\ \A w \in Projecting!Wallets : cycle[c].seen[w] <= Cardinality(RatedOf(w))
  BY CycleType DEF ProjectorInv, CycleOK
<1>4. LadderOK /\ ladder \in [Projecting!Wallets -> Nat]
  BY DEF ProjectorInv, ProjectorTypeOK
<1>5. LadderOK'
  <2>1. ASSUME NEW w \in Projecting!Wallets
        PROVE  IsFiniteSet(RatedOf(w)') /\ ladder'[w] <= Cardinality(RatedOf(w)')
    <3>1. IsFiniteSet(RatedOf(w)) /\ ladder[w] <= Cardinality(RatedOf(w))
      BY <1>4 DEF LadderOK
    <3>2. CASE w \in PlayersOf[m]
      <4>1. PICK S : S = RatedOf(w)
        OBVIOUS
      <4>2. m \notin S /\ IsFiniteSet(S) /\ RatedOf(w)' = S \cup {m}
        BY <1>1, <1>2, <3>1, <3>2, <4>1
      <4>3. IsFiniteSet(S \cup {m}) /\ Cardinality(S \cup {m}) = Cardinality(S) + 1
        BY <4>2, FS_AddElement
      <4>4. Cardinality(S) \in Nat
        BY <4>2, FS_CardinalityType
      <4>5. ladder'[w] = cycle[c].seen[w] + 1 /\ cycle[c].seen[w] \in Nat
        BY <1>3, <3>2
      <4>6. cycle[c].seen[w] <= Cardinality(S)
        BY <1>3, <4>1
      <4> QED
        BY <4>2, <4>3, <4>4, <4>5, <4>6
    <3>3. CASE w \notin PlayersOf[m]
      <4>1. RatedOf(w)' = RatedOf(w) /\ ladder'[w] = ladder[w]
        BY <1>2, <3>3
      <4> QED
        BY <3>1, <4>1
    <3> QED
      BY <3>2, <3>3
  <2> QED
    BY <2>1 DEF LadderOK
<1>6. ClaimsOK'
  <2>1. \A n : Told(n)' = Told(n)
    BY ToldStays
  <2>2. ASSUME NEW n \in Matches, Projecting!Claimed(n)'
        PROVE  /\ {"settled", "finalized"} \subseteq Told(n)
               /\ \A w \in PlayersOf[n] : <<n, w>> \in rated'
    <3>1. CASE n = m
      BY <3>1
    <3>2. CASE n # m
      <4>1. PICK w \in PlayersOf[n] : <<n, w>> \in rated'
        BY <2>2 DEF Projecting!Claimed
      <4>2. <<n, w>> \in rated
        BY <3>2, <4>1
      <4>3. Projecting!Claimed(n)
        BY <4>1, <4>2 DEF Projecting!Claimed
      <4> QED
        BY <4>3 DEF ProjectorInv, ClaimsOK
    <3> QED
      BY <3>1, <3>2
  <2> QED
    BY <2>1, <2>2 DEF ClaimsOK
<1>7. ladder' \in [Projecting!Wallets -> Nat]
  BY <1>3, <1>4
<1> QED
  BY <1>5, <1>6, <1>7

LEMMA RatingsKeep ==
  ASSUME ProjectorInv, NEW c \in Cycles, Projecting!ApplyRatings(c)
  PROVE  ProjectorInv'
<1>1. /\ cycle[c].pc = "claim" /\ cycle[c].at <= cycle[c].to
      /\ UNCHANGED <<log, rows, stored, cursor, missed>>
  BY DEF Projecting!ApplyRatings, Projecting!boundVars, ProjectorInv, CycleOK
<1>2. PICK at \in Nat, m \in Matches :
        /\ at = cycle[c].at /\ at \in 1..Len(log) /\ m = log[at].match
        /\ log[at].kind \in Told(m)
  BY <1>1, AtEvent, CycleType DEF ProjectorInv
<1>3. {"settled", "finalized"} \subseteq Told(m)
  BY <1>1, <1>2 DEF ProjectorInv, CycleOK
<1>4. /\ cycle' \in [Cycles -> CycleStates] /\ cycle'[c] = Projecting!Applied(c)
      /\ DOMAIN cache' \subseteq Matches
      /\ \A n \in DOMAIN cache' :
           cache'[n] \in CacheEntries /\ (cache'[n].settled > 0 => "settled" \in Told(n))
      /\ \A d \in Cycles \ {c} :
           /\ Stays(d, cycle'[d])
           /\ cycle'[d].shared => log[cycle[d].at].match \in DOMAIN cache'
  <2>1. Projecting!Ends(c, m)
    BY <1>2 DEF Projecting!ApplyRatings
  <2> QED
    BY <1>1, <2>1, EndsOthers
<1>5. /\ rated \subseteq rated' /\ LadderOK' /\ ClaimsOK'
      /\ ladder' \in [Projecting!Wallets -> Nat]
  <2>1. CASE UNCHANGED <<rated, ladder>>
    <3>1. LadderOK' /\ ClaimsOK'
      BY <1>1, <2>1, SameTables
    <3> QED
      BY <2>1, <3>1 DEF ProjectorInv, ProjectorTypeOK
  <2>2. CASE /\ ~Projecting!Claimed(m)
             /\ rated' = rated \cup {<<m, w>> : w \in PlayersOf[m]}
             /\ ladder' = [w \in Projecting!Wallets |->
                             IF w \in PlayersOf[m] THEN cycle[c].seen[w] + 1 ELSE ladder[w]]
    BY <1>1, <1>3, <2>2, RatingsApplied
  <2> QED
    BY <1>2, <2>1, <2>2 DEF Projecting!ApplyRatings
<1>6. ProjectorTypeOK'
  BY <1>1, <1>4, <1>5 DEF ProjectorInv, ProjectorTypeOK
<1>7. (\A n \in Matches : RowOK(n))'
  <2>1. \A n : Told(n)' = Told(n)
    BY <1>1, ToldStays
  <2> QED
    BY <1>1, <2>1 DEF RowOK, ProjectorInv
<1>8. UNCHANGED <<log, cursor, stored>> /\ missed \subseteq missed'
  BY <1>1
<1>9. \A n \in Matches : rows[n] # "none" => rows'[n] # "none"
  BY <1>1
<1>10. CycleOK(c)'
  <2>1. PICK r : r = cycle'[c] /\ r = Projecting!Applied(c)
    BY <1>4
  <2>2. log'[at].kind # "created"
    BY <1>1, <1>2 DEF ProjectorInv, CycleOK
  <2>3. Placed(at)'
    BY <2>2 DEF Placed
  <2> QED
    BY <1>1, <1>2, <1>8, <1>9, <2>1, <2>3, AppliedOK
<1> QED
  BY <1>4, <1>5, <1>6, <1>7, <1>8, <1>9, <1>10, CycleStep

-----------------------------------------------------------------------------
(* Events given up, spans done, and the process gone.                      *)

LEMMA FailsKeeps ==
  ASSUME ProjectorInv, NEW c \in Cycles, Projecting!Fails(c)
  PROVE  ProjectorInv'
<1>1. /\ cycle[c].pc \in {"read", "write", "ratings", "claim"} /\ cycle[c].at <= cycle[c].to
      /\ UNCHANGED <<log, rows, rated, ladder, stored, cursor, cache>>
  BY DEF Projecting!Fails, Projecting!GivenUp, Projecting!dbVars, ProjectorInv, CycleOK
<1>2. PICK at \in Nat, m \in Matches : at = cycle[c].at /\ m = log[at].match
  BY <1>1, AtEvent, CycleType DEF ProjectorInv
<1>3. PICK r \in CycleStates : r = Projecting!Applied(c)
  BY AppliedCycle DEF ProjectorInv
<1>4. missed' = missed \cup {m} /\ cycle' = [cycle EXCEPT ![c] = r]
  BY <1>2, <1>3 DEF Projecting!Fails, Projecting!GivenUp
<1>5. Placed(at)'
  BY <1>1, <1>2, <1>4 DEF Placed
<1>6. r = cycle'[c]
  BY <1>4 DEF ProjectorInv, ProjectorTypeOK
<1>7. missed \subseteq missed' /\ \A n \in Matches : rows[n] # "none" => rows'[n] # "none"
  BY <1>1, <1>4
<1>8. CycleOK(c)'
  BY <1>1, <1>2, <1>3, <1>5, <1>6, <1>7, AppliedOK
<1>9. /\ UNCHANGED <<log, rows, rated, ladder, cache>>
      /\ stored' \in 0..Len(log) /\ cursor' \in 0..Len(log)
      /\ \A i \in 1..stored' : Placed(i)
      /\ \A i \in 1..cursor' : Placed(i)
  BY <1>1 DEF ProjectorInv, ProjectorTypeOK
<1> QED
  BY <1>4, <1>7, <1>8, <1>9, QuietMove

\* The whole span is behind the cycle.
LEMMA SpanDone ==
  ASSUME ProjectorInv, NEW c \in Cycles, cycle[c].pc # "idle", cycle[c].at = cycle[c].to + 1
  PROVE  /\ cycle[c].to \in 0..Len(log) /\ cycle[c].head \in 0..Len(log)
         /\ \A i \in 1..cycle[c].to : Placed(i)
<1>1. InSpan(c) /\ Len(log) \in Nat
  BY DEF ProjectorInv, CycleOK, ProjectorTypeOK
<1>2. PICK to \in Nat, head \in Nat : to = cycle[c].to /\ head = cycle[c].head
  BY CycleType DEF ProjectorInv
<1>3. cycle[c].at - 1 = to
  BY <1>2
<1> QED
  BY <1>1, <1>2, <1>3 DEF InSpan

LEMMA FinishKeeps ==
  ASSUME ProjectorInv, NEW c \in Cycles, Projecting!Finish(c)
  PROVE  ProjectorInv'
<1>1. /\ cycle[c].pc = "apply" /\ cursor' = cycle[c].to
      /\ UNCHANGED <<log, rows, rated, ladder, stored, cache, missed>>
  BY DEF Projecting!Finish, Projecting!dbVars, Projecting!boundVars
<1>2. InSpan(c)
  BY <1>1 DEF ProjectorInv, CycleOK
<1>3. cycle[c].at = cycle[c].to + 1
  <2>1. PICK at \in Nat, to \in Nat : at = cycle[c].at /\ to = cycle[c].to
    BY CycleType DEF ProjectorInv
  <2>2. at \in 1..(to + 1) /\ at > to
    BY <1>2, <2>1 DEF InSpan, Projecting!Finish
  <2> QED
    BY <2>1, <2>2
<1>4. /\ cycle[c].to \in 0..Len(log)
      /\ \A i \in 1..cycle[c].to : Placed(i)
  BY <1>1, <1>3, SpanDone
<1>5. PICK z \in CycleStates : z = cycle[c]
  BY CycleType DEF ProjectorInv
<1>6. PICK q : q = Phased(z, "save")
  OBVIOUS
<1>7. /\ q \in CycleStates /\ q.pc = "save" /\ q.at = z.at /\ q.to = z.to
      /\ q.head = z.head /\ (q.shared => z.shared)
  BY ONLY <1>6, z \in CycleStates DEF Phased, CycleStates
<1>8. cycle' = [cycle EXCEPT ![c] = q]
  BY <1>5, <1>6 DEF Phased, Projecting!Finish, ProjectorInv, ProjectorTypeOK
<1>9. q = cycle'[c]
  BY <1>8 DEF ProjectorInv, ProjectorTypeOK
<1>10. CycleOK(c)'
  <2>1. ~z.shared
    BY <1>1, <1>5 DEF ProjectorInv, CycleOK
  <2>2. PICK at \in Nat, to \in Nat : at = cycle[c].at /\ to = cycle[c].to /\ at = to + 1
    BY <1>3, CycleType DEF ProjectorInv
  <2>3. \A i \in 1..(at - 1) : i \in 1..Len(log) /\ Placed(i)
    <3>1. Len(log) \in Nat
      BY DEF ProjectorInv, ProjectorTypeOK
    <3> QED
      BY <1>4, <2>2, <3>1
  <2>4. \A i \in 1..(at - 1) : Placed(i)'
    BY <1>1, <2>3, PlacedStays DEF ProjectorInv
  <2>5. InSpan(c)'
    BY <1>1, <1>2, <1>5, <1>7, <1>9, <2>2, <2>4 DEF InSpan
  <2> QED
    BY <1>3, <1>5, <1>7, <1>9, <2>1, <2>5 DEF CycleOK
<1>11. /\ UNCHANGED <<log, rows, rated, ladder, cache>> /\ missed \subseteq missed'
       /\ stored' \in 0..Len(log) /\ cursor' \in 0..Len(log)
       /\ \A i \in 1..stored' : Placed(i)
       /\ \A i \in 1..cursor' : Placed(i)
  BY <1>1, <1>4 DEF ProjectorInv, ProjectorTypeOK
<1> QED
  BY <1>7, <1>8, <1>10, <1>11, QuietMove

\* A cycle that ends.
LEMMA RestKeeps ==
  ASSUME ProjectorInv, NEW c \in Cycles, cycle' = [cycle EXCEPT ![c] = Projecting!Idle],
         UNCHANGED <<log, rows, rated, ladder, cache, missed, cursor>>,
         stored' \in 0..Len(log), \A i \in 1..stored' : Placed(i)
  PROVE  ProjectorInv'
<1>1. PICK r \in CycleStates : r = Projecting!Idle /\ r.pc = "idle" /\ ~r.shared
  BY IdleCycle
<1>2. cycle' = [cycle EXCEPT ![c] = r]
  BY <1>1
<1>3. r = cycle'[c]
  BY <1>2 DEF ProjectorInv, ProjectorTypeOK
<1>4. CycleOK(c)'
  BY <1>1, <1>3, RestsOK
<1>5. cursor' \in 0..Len(log) /\ \A i \in 1..cursor' : Placed(i)
  BY DEF ProjectorInv, ProjectorTypeOK
<1> QED
  BY <1>2, <1>4, <1>5, QuietMove

LEMMA SaveKeeps ==
  ASSUME Projecting!ProjectorAssumption, ProjectorInv, NEW c \in Cycles, Projecting!Save(c)
  PROVE  ProjectorInv'
<1>1. /\ cycle[c].pc = "save"
      /\ UNCHANGED <<log, rows, rated, ladder, cache, missed, cursor>>
  BY DEF Projecting!Save, Projecting!boundVars
<1>2. cycle[c].at = cycle[c].to + 1
  BY <1>1 DEF ProjectorInv, CycleOK
<1>3. /\ cycle[c].to \in 0..Len(log) /\ cycle[c].head \in 0..Len(log)
      /\ \A i \in 1..cycle[c].to : Placed(i)
  BY <1>1, <1>2, SpanDone
<1>4. stored' \in 0..Len(log) /\ \A i \in 1..stored' : Placed(i)
  <2>1. stored \in 0..Len(log) /\ Len(log) \in Nat /\ \A i \in 1..stored : Placed(i)
    BY DEF ProjectorInv, ProjectorTypeOK
  <2>2. PICK a \in Nat, b \in Nat : a = stored /\ b = cycle[c].to
    BY <1>3, <2>1
  <2>3. stored' = Projecting!Max({a, b})
    BY <2>2 DEF Projecting!Save
  <2>4. stored' = a \/ stored' = b
    BY <2>3, MaxOfTwo
  <2> QED
    BY <1>3, <2>1, <2>2, <2>4
<1>5. CASE cursor < cycle[c].head /\ cycle' = [cycle EXCEPT ![c] = Projecting!Spanning(cursor, cycle[c].head)]
  <2>1. PICK head \in Nat : head = cycle[c].head /\ head <= Len(log)
    BY <1>3, CycleType DEF ProjectorInv, ProjectorTypeOK
  <2>2. PICK r : r = Projecting!Spanning(cursor, head)
    OBVIOUS
  <2>3. cycle' = [cycle EXCEPT ![c] = r] /\ cursor < head /\ head <= Len(log)
    BY <1>5, <2>1, <2>2
  <2> QED
    BY <1>1, <1>4, <2>2, <2>3, SpanKeeps
<1>6. CASE cycle' = [cycle EXCEPT ![c] = Projecting!Idle]
  BY <1>1, <1>4, <1>6, RestKeeps
<1> QED
  BY <1>5, <1>6 DEF Projecting!Save

LEMMA SaveFailsKeeps ==
  ASSUME ProjectorInv, NEW c \in Cycles, Projecting!SaveFails(c)
  PROVE  ProjectorInv'
<1>1. /\ UNCHANGED <<log, rows, rated, ladder, cache, missed, cursor, stored>>
      /\ cycle' = [cycle EXCEPT ![c] = Projecting!Idle]
  BY DEF Projecting!SaveFails, Projecting!dbVars
<1>2. stored' \in 0..Len(log) /\ \A i \in 1..stored' : Placed(i)
  BY <1>1 DEF ProjectorInv, ProjectorTypeOK
<1>3. UNCHANGED <<log, rows, rated, ladder, cache, missed, cursor>>
  BY <1>1
<1> QED
  BY <1>1, <1>2, <1>3, RestKeeps

LEMMA CrashKeeps ==
  ASSUME ProjectorInv, Projecting!Crash
  PROVE  ProjectorInv'
<1>1. /\ UNCHANGED <<log, rows, rated, ladder, stored, missed>> /\ cursor' = stored
      /\ cache' = << >> /\ cycle' = [c \in Cycles |-> Projecting!Idle]
  BY DEF Projecting!Crash, Projecting!dbVars
<1>2. DOMAIN cache' = {}
  BY <1>1
<1>3. PICK r \in CycleStates : r = Projecting!Idle /\ r.pc = "idle" /\ ~r.shared
  BY IdleCycle
<1>4. cycle' = [c \in Cycles |-> r]
  BY <1>1, <1>3
<1>5. ASSUME NEW c \in Cycles PROVE CycleOK(c)'
  <2>1. r = cycle'[c]
    BY <1>4
  <2> QED
    BY <1>3, <2>1, RestsOK
<1>6. ProjectorTypeOK'
  BY <1>1, <1>2, <1>4 DEF ProjectorInv, ProjectorTypeOK
<1>7. /\ UNCHANGED <<log, rows, rated, ladder>> /\ missed \subseteq missed'
      /\ \A i \in 1..stored' : Placed(i)
      /\ \A i \in 1..cursor' : Placed(i)
      /\ \A m \in DOMAIN cache' : cache'[m].settled > 0 => "settled" \in Told(m)
  BY <1>1, <1>2 DEF ProjectorInv
<1> QED
  BY <1>5, <1>6, <1>7, QuietStep

-----------------------------------------------------------------------------
(* The arena goes on, and the settler.                                     *)

LEMMA LogKeeps ==
  ASSUME ProjectorInv, NEW m \in Matches, NEW kind \in Kinds, Projecting!Happens(m, kind),
         UNCHANGED <<rows, rated, ladder, stored, cursor, cache, cycle, missed>>
  PROVE  ProjectorInv'
<1>1. /\ log' \in Seq(LogEvents) /\ Len(log') = Len(log) + 1
      /\ \A i \in 1..Len(log) : log'[i] = log[i]
      /\ \A n : Told(n) \subseteq Told(n)'
  BY LogGrows DEF ProjectorInv, ProjectorTypeOK
<1>2. PICK len \in Nat : len = Len(log)
  BY DEF ProjectorInv, ProjectorTypeOK
<1>3. stored \in 0..len /\ cursor \in 0..len
  BY <1>2 DEF ProjectorInv, ProjectorTypeOK
<1>4. \A i \in 1..len : Placed(i) => Placed(i)'
  BY <1>1, <1>2 DEF Placed
<1>5. ProjectorTypeOK'
  <2>1. stored \in 0..(len + 1) /\ cursor \in 0..(len + 1)
    BY <1>3
  <2> QED
    BY <1>1, <1>2, <2>1 DEF ProjectorInv, ProjectorTypeOK
<1>6. (\A i \in 1..stored : Placed(i))' /\ (\A i \in 1..cursor : Placed(i))'
  BY <1>3, <1>4 DEF ProjectorInv
<1>7. ASSUME NEW c \in Cycles PROVE CycleOK(c)'
  <2>1. CycleOK(c)
    BY DEF ProjectorInv
  <2>2. PICK at \in Nat, to \in Nat, head \in Nat :
          at = cycle[c].at /\ to = cycle[c].to /\ head = cycle[c].head
    BY CycleType DEF ProjectorInv
  <2>3. cycle[c].pc # "idle" /\ at <= to => at \in 1..len /\ log'[at] = log[at]
    BY <1>1, <1>2, <2>1, <2>2 DEF CycleOK, InSpan
  <2>4. (cycle[c].pc # "idle" => InSpan(c))'
    <3> SUFFICES ASSUME cycle[c].pc # "idle" PROVE InSpan(c)'
      OBVIOUS
    <3>1. at \in 1..(to + 1) /\ to <= len /\ head <= len /\ \A i \in 1..(at - 1) : Placed(i)
      BY <1>2, <2>1, <2>2 DEF CycleOK, InSpan
    <3>2. \A i \in 1..(at - 1) : Placed(i)'
      BY <1>4, <3>1
    <3>3. to <= len + 1 /\ head <= len + 1
      BY <3>1
    <3> QED
      BY <1>1, <1>2, <2>2, <3>1, <3>2, <3>3 DEF InSpan
  <2>5. CASE cycle[c].pc \in {"read", "write", "ratings", "claim"}
    <3>1. log'[at] = log[at]
      BY <2>1, <2>2, <2>3, <2>5 DEF CycleOK
    <3>2. \A w : RatedOf(w)' = RatedOf(w)
      BY DEF RatedOf
    <3> QED
      BY <1>1, <2>1, <2>2, <2>4, <2>5, <3>1, <3>2 DEF CycleOK
  <2>6. CASE cycle[c].pc \notin {"read", "write", "ratings", "claim"}
    BY <2>1, <2>4, <2>6 DEF CycleOK
  <2> QED
    BY <2>5, <2>6
<1>8. (\A n \in Matches : RowOK(n))'
  <2>1. ASSUME NEW n \in Matches PROVE RowOK(n)'
    <3>1. RowOK(n) /\ Told(n) \subseteq Told(n)'
      BY <1>1 DEF ProjectorInv
    <3> QED
      BY <3>1 DEF RowOK
  <2> QED
    BY <2>1
<1>9. (\A n \in DOMAIN cache : cache[n].settled > 0 => "settled" \in Told(n))'
  BY <1>1 DEF ProjectorInv
<1>10. LadderOK'
  BY DEF ProjectorInv, LadderOK, RatedOf
<1>11. ClaimsOK'
  BY <1>1 DEF ProjectorInv, ClaimsOK, Projecting!Claimed
<1> QED
  BY <1>5, <1>6, <1>7, <1>8, <1>9, <1>10, <1>11 DEF ProjectorInv

LEMMA SameKeeps ==
  ASSUME ProjectorInv,
         UNCHANGED <<log, rows, rated, ladder, stored, cursor, cache, cycle, missed>>
  PROVE  ProjectorInv'
<1>1. ProjectorTypeOK'
  BY DEF ProjectorInv, ProjectorTypeOK
<1>2. \A n : Told(n)' = Told(n)
  BY ToldStays
<1>3. \A w : RatedOf(w)' = RatedOf(w)
  BY DEF RatedOf
<1>4. ASSUME NEW c \in Cycles PROVE CycleOK(c)'
  <2>1. CycleOK(c)
    BY DEF ProjectorInv
  <2>2. InSpan(c) => InSpan(c)'
    BY DEF InSpan, Placed
  <2> QED
    BY <1>2, <1>3, <2>1, <2>2 DEF CycleOK
<1>5. /\ UNCHANGED <<log, rows, rated, ladder>> /\ missed \subseteq missed'
      /\ \A i \in 1..stored' : Placed(i)
      /\ \A i \in 1..cursor' : Placed(i)
      /\ \A m \in DOMAIN cache' : cache'[m].settled > 0 => "settled" \in Told(m)
  BY DEF ProjectorInv
<1> QED
  BY <1>1, <1>4, <1>5, QuietStep

-----------------------------------------------------------------------------

LEMMA ProjectorInit == Projecting!ProjectorAssumption /\ Projecting!Init => ProjectorInv
<1> SUFFICES ASSUME Projecting!ProjectorAssumption, Projecting!Init PROVE ProjectorInv
  OBVIOUS
<1>1. log \in Seq(LogEvents) /\ Len(log) \in Nat
  <2>1. log \in Seq(LogEvents)
    BY DEF Projecting!ProjectorAssumption, Projecting!Init, LogEvents, Kinds
  <2> QED
    BY <2>1
<1>2. /\ rows = [m \in Matches |-> "none"] /\ rated = {} /\ ladder = Projecting!NoRatings
      /\ stored = 0 /\ cursor = 0 /\ cache = << >>
  BY DEF Projecting!Init
<1>3. PICK r \in CycleStates : r = Projecting!Idle /\ r.pc = "idle" /\ ~r.shared
  BY IdleCycle
<1>4. cycle = [c \in Cycles |-> r]
  BY <1>3 DEF Projecting!Init
<1>5. DOMAIN cache = {}
  BY <1>2
<1>6. ProjectorTypeOK
  BY <1>1, <1>2, <1>4, <1>5, NothingSeen DEF ProjectorTypeOK, Rows
<1>7. \A c \in Cycles : CycleOK(c)
  BY <1>3, <1>4 DEF CycleOK
<1>8. \A m \in Matches : RowOK(m)
  BY <1>2 DEF RowOK
<1>9. LadderOK
  <2>1. \A w : RatedOf(w) = {}
    BY <1>2 DEF RatedOf
  <2>2. IsFiniteSet({}) /\ Cardinality({}) = 0
    BY FS_EmptySet
  <2>3. \A w \in Projecting!Wallets : ladder[w] = 0
    BY <1>2 DEF Projecting!NoRatings
  <2> QED
    BY <2>1, <2>2, <2>3 DEF LadderOK
<1>10. ClaimsOK
  BY <1>2 DEF ClaimsOK, Projecting!Claimed
<1> QED
  BY <1>2, <1>5, <1>6, <1>7, <1>8, <1>9, <1>10 DEF ProjectorInv

LEMMA ProjectorStep ==
  Projecting!ProjectorAssumption /\ ProjectorInv /\ [Projecting!Next]_(Projecting!vars) => ProjectorInv'
<1> SUFFICES ASSUME Projecting!ProjectorAssumption, ProjectorInv,
                    [Projecting!Next]_(Projecting!vars)
             PROVE  ProjectorInv'
  OBVIOUS
<1>1. ASSUME NEW c \in Cycles, Projecting!Step(c) PROVE ProjectorInv'
  BY <1>1, StartKeeps, TakeKeeps, ReadKeeps, WriteKeeps, RatingsReadKeeps, RatingsKeep,
     FinishKeeps, SaveKeeps DEF Projecting!Step
<1>2. ASSUME NEW c \in Cycles, Projecting!Fails(c) \/ Projecting!SaveFails(c) PROVE ProjectorInv'
  BY <1>2, FailsKeeps, SaveFailsKeeps
<1>3. ASSUME NEW m \in Matches, Projecting!Arena(m) PROVE ProjectorInv'
  <2>1. /\ UNCHANGED <<rows, rated, ladder, stored, cursor, cache, cycle, missed>>
        /\ \E kind \in Kinds : Projecting!Happens(m, kind)
    BY <1>3 DEF Projecting!Arena, Projecting!dbVars, Projecting!boundVars, Kinds
  <2> QED
    BY <2>1, LogKeeps
<1>4. ASSUME NEW m \in Matches, Projecting!Crank(m) PROVE ProjectorInv'
  <2>1. UNCHANGED <<rows, rated, ladder, stored, cursor, cache, cycle, missed>>
    BY <1>4 DEF Projecting!Crank, Projecting!dbVars, Projecting!boundVars
  <2>2. Projecting!Cranks \subseteq Kinds
    BY DEF Projecting!Cranks, Kinds, Projecting!Needs
  <2>3. CASE \E kind \in Projecting!Cranks : Projecting!Happens(m, kind)
    BY <2>1, <2>2, <2>3, LogKeeps
  <2>4. CASE UNCHANGED log
    <3>1. UNCHANGED <<log, rows, rated, ladder, stored, cursor, cache, cycle, missed>>
      BY <2>1, <2>4
    <3> QED
      BY <3>1, SameKeeps
  <2> QED
    BY <1>4, <2>3, <2>4 DEF Projecting!Crank
<1>5. CASE Projecting!List
  BY <1>5, SameKeeps DEF Projecting!List, Projecting!dbVars, Projecting!boundVars
<1>6. CASE Projecting!Crash
  BY <1>6, CrashKeeps
<1>7. CASE UNCHANGED Projecting!vars
  BY <1>7, SameKeeps DEF Projecting!vars, Projecting!dbVars, Projecting!boundVars
<1> QED
  BY <1>1, <1>2, <1>3, <1>4, <1>5, <1>6, <1>7 DEF Projecting!Next

\* What the projector's tables and cycles hold, whatever overlaps, fails or restarts.
THEOREM ProjectorInvariant == Projecting!Spec => []ProjectorInv
<1>1. Projecting!Init => ProjectorInv
  BY DuelsAssumption, ProjectorInit
<1>2. ProjectorInv /\ [Projecting!Next]_(Projecting!vars) => ProjectorInv'
  BY DuelsAssumption, ProjectorStep
<1> QED
  BY <1>1, <1>2, PTL DEF Projecting!Spec

LEMMA TheWorklist == ProjectorInv => WorklistIsComplete
<1> SUFFICES ASSUME ProjectorInv, NEW i \in 1..stored, log[i].kind = "created",
                    ~Projecting!Over(log[i].match), log[i].match \notin missed
             PROVE  rows[log[i].match] \in Projecting!LIVE
  BY DEF WorklistIsComplete, Projecting!WorklistIsComplete
<1>1. Placed(i) /\ i \in 1..Len(log)
  BY DEF ProjectorInv, ProjectorTypeOK
<1>2. PICK m \in Matches : m = log[i].match
  BY <1>1, ToldAt DEF ProjectorInv, ProjectorTypeOK
<1>3. rows[m] # "none" /\ RowOK(m)
  BY <1>1, <1>2 DEF Placed, ProjectorInv
<1>4. PICK kind \in Told(m) \cap DOMAIN Projecting!StatusOf : rows[m] = Projecting!StatusOf[kind]
  BY <1>3 DEF RowOK
<1>5. kind \notin {"finalized", "refunded"}
  BY <1>2, <1>4 DEF Projecting!Over, Told
<1>6. kind \in {"created", "joined", "revealed", "locked"}
  BY <1>4, <1>5 DEF Projecting!StatusOf
<1> QED
  BY <1>2, <1>4, <1>6 DEF Projecting!StatusOf, Projecting!LIVE

LEMMA TheLadder == ProjectorInv => LadderCountsOnce
<1> SUFFICES ASSUME ProjectorInv PROVE LadderCountsOnce
  OBVIOUS
<1>1. \A w \in Projecting!Wallets :
        ladder[w] <= Projecting!Cardinality({m \in Matches : <<m, w>> \in rated})
  BY SameCardinality DEF ProjectorInv, LadderOK, RatedOf
<1>2. \A m \in Matches : Projecting!Claimed(m) =>
        /\ {"settled", "finalized"} \subseteq Projecting!Told(m)
        /\ \A w \in PlayersOf[m] : <<m, w>> \in rated
  BY DEF ProjectorInv, ClaimsOK, Told
<1> QED
  BY <1>1, <1>2 DEF LadderCountsOnce, Projecting!LadderCountsOnce

\* A match that still owes something is in the settler's worklist once its creation is
\* behind the stored cursor, unless one of its own events was given up: whatever the
\* spans, the overlaps of cycles and the restarts.
THEOREM WorklistComplete == Projecting!Spec => []WorklistIsComplete
BY ProjectorInvariant, TheWorklist, PTL

\* The ladder counts a result at most once, and only one of a card that settled and a
\* pot that was decided.
THEOREM LadderCounts == Projecting!Spec => []LadderCountsOnce
BY ProjectorInvariant, TheLadder, PTL

=============================================================================
