---------------------------- MODULE RangeReserve ----------------------------
(***************************************************************************)
(* A band around a Window's closing print: the oracle hub's answer to the  *)
(* Window's own question decides it.  A voided question refunds, and so    *)
(* does one the hub never answers, once anyone calls it stale.  A round's  *)
(* probability is the environment's: `Stakes` is what the band may cost.   *)
(***************************************************************************)
EXTENDS EscrowBook

CONSTANTS
  Markets, Expiry, ParamsChoices,
  Questions,  \* the hub's: each Window has one for its close and one for its start
  Closing, Opening,
  AssetOf, Assets,
  Rated,      \* the assets the admin gives a volatility, and takes it away again
  Prints,     \* what the hub may answer
  Bands,      \* <<low, high>>
  Stakes, Payouts,
  MaxTime     \* bound: the last block timestamp

VARIABLES
  params,
  volatilityOf,    \* set or not, per asset
  assetKeyOf,      \* what the hub proved about a Window at its first open
  openingPrintOf,
  answer,          \* the hub's to each question; it may stay Pending for ever
  trading,         \* the venue's markets
  now

cacheVars == <<assetKeyOf, openingPrintOf>>
ownVars == <<params, volatilityOf, cacheVars, answer, trading, now>>
vars == <<escrowVars, ownVars>>

Pending == -1
Voided == 0
RoundSides == {"INSIDE", "OUTSIDE"}
Params == [maxExposureBps: 0..BPS, maxExpiryLocked: Nat \ {0}, maxPayoutCap: Nat \ {0},
           minTimeLeftSec: Nat \ {0}, maxHorizonSec: Nat, staleAfterSec: Nat \ {0}]

\* What the constants must be: assumed where the module is instantiated.
RangeAssumption ==
  /\ Expiry \in [Markets -> Times] /\ Times \subseteq Nat
  /\ ParamsChoices \subseteq Params
  /\ \A p \in ParamsChoices : p.maxHorizonSec > p.minTimeLeftSec
  /\ Closing \in [Markets -> Questions] /\ Opening \in [Markets -> Questions \cup {0}]
  /\ 0 \notin Questions
  /\ AssetOf \in [Markets -> Assets] /\ 0 \notin Assets /\ Rated \subseteq Assets
  /\ Prints \subseteq Nat \ {0}
  /\ Bands \subseteq Nat \X Nat /\ \A b \in Bands : b[1] > 0 /\ b[2] > b[1]
  /\ Stakes \subseteq Nat /\ Payouts \subseteq Nat \ {0}
  /\ {MaxBets, MaxTime} \subseteq Nat

Init ==
  /\ EscrowInit
  /\ params \in ParamsChoices /\ now = 0
  /\ volatilityOf = [a \in Assets |-> FALSE]
  /\ assetKeyOf = [m \in Markets |-> 0] /\ openingPrintOf = [m \in Markets |-> 0]
  /\ answer = [q \in Questions |-> Pending]
  /\ trading = [m \in Markets |-> TRUE]

\* The Window's own question is the hub's for this asset; proven once, cached.
AssetProven(m, asset) ==
  IF assetKeyOf[m] # 0 THEN assetKeyOf[m] = asset ELSE asset = AssetOf[m]

\* No answer to the opening question, no round on the Window.
OpeningPrint(m) ==
  IF openingPrintOf[m] # 0 THEN openingPrintOf[m]
  ELSE IF Opening[m] # 0 /\ answer[Opening[m]] \in Prints THEN answer[Opening[m]] ELSE 0

OpenRange(o, m, asset, side, band, stake, payout) ==
  /\ payout <= params.maxPayoutCap
  /\ trading[m]
  /\ now + params.minTimeLeftSec <= Expiry[m] /\ Expiry[m] <= now + params.maxHorizonSec
  /\ AssetProven(m, asset) /\ volatilityOf[asset]
  /\ OpeningPrint(m) # 0
  /\ stake < payout
  /\ assetKeyOf' = [assetKeyOf EXCEPT ![m] = asset]
  /\ openingPrintOf' = [openingPrintOf EXCEPT ![m] = OpeningPrint(m)]
  /\ Escrow([owner |-> o, status |-> "LIVE", side |-> side, market |-> m, band |-> band,
             stake |-> stake, houseLocked |-> payout - stake, expiries |-> {Expiry[m]}], params)
  /\ UNCHANGED <<params, volatilityOf, answer, trading, now>>

Question(bet) == Closing[bet.market]

AboveLow(print, band) == print > band[1] /\ print <= band[2]  \* mutant
Inside(print, band) == print >= band[1] /\ print <= band[2]

\* A settled round is left alone; a pending question is refused.
Settle(i) ==
  LET said == answer[Question(bets[i])]
      won == (bets[i].side = "INSIDE") <=> Inside(said, bets[i].band)
  IN
  /\ bets[i].status = "LIVE" /\ said # Pending
  /\ IF said = Voided THEN Refund(i, bets[i])
     ELSE IF won THEN Win(i, bets[i]) ELSE Keep(i, bets[i])
  /\ UNCHANGED ownVars

StaleOnVoid(i) ==  \* mutant
  now >= Expiry[bets[i].market] + params.staleAfterSec /\ answer[Question(bets[i])] = Voided

Stale(i) ==
  now >= Expiry[bets[i].market] + params.staleAfterSec /\ answer[Question(bets[i])] = Pending

VoidStale(i) ==
  /\ bets[i].status = "LIVE" /\ Stale(i)
  /\ Refund(i, bets[i])
  /\ UNCHANGED ownVars

SetParams(next) ==
  /\ params' = next
  /\ UNCHANGED <<escrowVars, volatilityOf, cacheVars, answer, trading, now>>

SetVolatility(a, set) ==
  /\ volatilityOf' = [volatilityOf EXCEPT ![a] = set]
  /\ UNCHANGED <<escrowVars, params, cacheVars, answer, trading, now>>

\* The instant a question asks about: a Window's expiry is its closing question's.
AsksAt(q) == LET ms == {m \in Markets : Closing[m] = q}
             IN IF ms = {} THEN 0 ELSE Expiry[CHOOSE m \in ms : TRUE]

HubAnswers(q, said) ==
  /\ answer[q] = Pending /\ now >= AsksAt(q)
  /\ answer' = [answer EXCEPT ![q] = said]
  /\ UNCHANGED <<escrowVars, params, volatilityOf, cacheVars, trading, now>>

StopTrading(m) ==
  /\ trading[m] /\ now >= Expiry[m]
  /\ trading' = [trading EXCEPT ![m] = FALSE]
  /\ UNCHANGED <<escrowVars, params, volatilityOf, cacheVars, answer, now>>

Tick ==
  /\ now < MaxTime /\ now' = now + 1
  /\ UNCHANGED <<escrowVars, params, volatilityOf, cacheVars, answer, trading>>

Next ==
  \/ \E s \in Suppliers, a \in Supplies : Supply(s, a) /\ UNCHANGED ownVars
  \/ \E s \in Suppliers, n \in Redemptions : Withdraw(s, n) /\ UNCHANGED ownVars
  \/ \E o \in Owners, m \in Markets, a \in Assets, side \in RoundSides, band \in Bands,
        stake \in Stakes, payout \in Payouts : OpenRange(o, m, a, side, band, stake, payout)
  \/ \E i \in BetIds : Settle(i) \/ VoidStale(i)
  \/ \E i \in BetIds : Claim(i) /\ UNCHANGED ownVars
  \/ \E b \in PauseChoices : SetPaused(b) /\ UNCHANGED ownVars
  \/ \E p \in ParamsChoices : SetParams(p)
  \/ \E a \in Rated : SetVolatility(a, ~volatilityOf[a])
  \/ \E q \in Questions, said \in Prints \cup {Voided} : HubAnswers(q, said)
  \/ \E m \in Markets : StopTrading(m)
  \/ Tick

Spec == Init /\ [][Next]_vars

\* What anyone may do for a round until its escrow is out.
EndRound(i) ==
  i \in BetIds /\ (Settle(i) \/ VoidStale(i) \/ (Claim(i) /\ UNCHANGED ownVars))

-----------------------------------------------------------------------------
TypeOK ==
  /\ EscrowTypeOK
  /\ params \in ParamsChoices /\ now \in 0..MaxTime
  /\ volatilityOf \in [Assets -> BOOLEAN]
  /\ assetKeyOf \in [Markets -> Assets \cup {0}] /\ openingPrintOf \in [Markets -> Nat]
  /\ \A q \in Questions : answer[q] \in Prints \/ answer[q] \in {Voided, Pending}
  /\ trading \in [Markets -> BOOLEAN]

\* A round is won or lost the way the hub's print says, and refunded only when the
\* hub voided its question or was late to answer it.
RoundsFollowHub == \A i \in BetIds :
  LET said == answer[Question(bets[i])]
      inside == \E p \in bets[i].band[1]..bets[i].band[2] : said = p
  IN /\ bets[i].status \in {"WON", "CLAIMED"} =>
          said \in Prints /\ (bets[i].side = "INSIDE" <=> inside)
     /\ bets[i].status = "LOST" => said \in Prints /\ (bets[i].side = "INSIDE" <=> ~inside)
     /\ bets[i].status = "VOID" => said = Voided
          \/ \E p \in ParamsChoices : now >= Expiry[bets[i].market] + p.staleAfterSec

=============================================================================
