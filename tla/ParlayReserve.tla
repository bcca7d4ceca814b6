---------------------------- MODULE ParlayReserve ----------------------------
(***************************************************************************)
(* One ticket on several Windows.  Legs are settled one at a time by       *)
(* anyone, in any order: the first that lost keeps the escrow, the first   *)
(* that voided refunds the stake, the last that won makes it claimable.    *)
(* Its bets are tickets, its expiries those of the legs.                   *)
(***************************************************************************)
EXTENDS EscrowBook

CONSTANTS
  Markets, Expiry, ParamsChoices,
  Payouts,   \* the payouts owners ask for
  Prices,    \* what the book may ask for one contract
  One,       \* one whole contract
  MaxTime    \* bound: the last block timestamp

VARIABLES
  params,
  verdict,   \* the venue's: a voided market, or one that names no winner, is VOID
  now

ownVars == <<params, verdict, now>>
vars == <<escrowVars, ownVars>>

Sides == {0, 1}
Params == [maxExposureBps: 0..BPS, maxExpiryLocked: Nat \ {0}, correlationBps: 0..BPS,
           marginBps: Nat, maxLegs: Nat, maxPayoutCap: Nat \ {0}, minCombinedProbRaw: Nat]

\* What the constants must be: assumed where the module is instantiated.
ParlayAssumption ==
  /\ Expiry \in [Markets -> Times] /\ Times \subseteq Nat
  /\ ParamsChoices \subseteq Params /\ \A p \in ParamsChoices : p.maxLegs >= 2
  /\ Payouts \subseteq Nat \ {0} /\ Prices \subseteq 1..One /\ One \in Nat \ {0}
  /\ IsFiniteSet(Markets) /\ {MaxBets, MaxTime} \subseteq Nat

Init ==
  /\ EscrowInit
  /\ params \in ParamsChoices /\ now = 0
  /\ verdict = [m \in Markets |-> "TRADING"]

\* Legs decided by the same closing print are correlated: the product of their
\* prices is floored at a part of the least of them.
Combine(prices, sameprint) ==
  LET product == FoldLeft(LAMBDA acc, p : (acc * p) \div One, One, prices)
      lowest == (Min(Range(prices)) * params.correlationBps) \div BPS
  IN IF sameprint /\ lowest > product THEN lowest ELSE product

FloorStake(payout, prob) ==
  CeilDiv(CeilDiv(payout * prob, One) * (BPS + params.marginBps), BPS)

\* A pick of a side on each of some distinct markets, in some order.
Picks == UNION {[1..n -> Markets \X Sides] : n \in 2..Cardinality(Markets)}

MarketsOf(picks) == {picks[k][1] : k \in DOMAIN picks}
ExpiriesOf(picks) == {Expiry[m] : m \in MarketsOf(picks)}

OpenParlay(o, picks, prices, payout) ==
  LET n == Len(picks)
      prob == Combine(prices, Cardinality(ExpiriesOf(picks)) < n)
      stake == FloorStake(payout, prob)
  IN
  /\ n <= params.maxLegs /\ payout <= params.maxPayoutCap
  /\ Cardinality(MarketsOf(picks)) = n
  /\ \A m \in MarketsOf(picks) : verdict[m] = "TRADING" /\ Expiry[m] > now
  /\ prob >= params.minCombinedProbRaw
  /\ stake < payout
  /\ Escrow([owner |-> o, status |-> "LIVE", stake |-> stake, houseLocked |-> payout - stake,
             expiries |-> ExpiriesOf(picks), wonCount |-> 0,
             legs |-> [k \in 1..n |->
               [market |-> picks[k][1], outcome |-> picks[k][2], status |-> "PENDING"]]],
            params)
  /\ UNCHANGED ownVars

Settled(m) == verdict[m] \in {"UP", "DOWN", "VOID"}

UpWins(leg) == IF verdict[leg.market] = "VOID" THEN "VOID" \* mutant
               ELSE IF verdict[leg.market] = "UP" THEN "WON" ELSE "LOST"

OutcomeOf(leg) ==
  CASE verdict[leg.market] = "VOID" -> "VOID"
    [] verdict[leg.market] = "UP" -> IF leg.outcome = 0 THEN "WON" ELSE "LOST"
    [] OTHER -> IF leg.outcome = 1 THEN "WON" ELSE "LOST"

\* A finished ticket and a settled leg are left alone.
ResolveLeg(i, k) ==
  LET outcome == OutcomeOf(bets[i].legs[k])
      bet == [bets[i] EXCEPT !.legs[k].status = outcome]
      won == [bet EXCEPT !.wonCount = @ + 1]
  IN
  /\ bets[i].status = "LIVE" /\ bets[i].legs[k].status = "PENDING"
  /\ Settled(bets[i].legs[k].market)
  /\ \/ outcome = "WON" /\ won.wonCount = Len(bet.legs) /\ Win(i, won)
     \/ /\ outcome = "WON" /\ won.wonCount < Len(bet.legs)
        /\ bets' = [bets EXCEPT ![i] = won]
        /\ UNCHANGED <<ledgerVars, locked, lockedByExpiry>>
     \/ outcome = "LOST" /\ Keep(i, bet)
     \/ outcome = "VOID" /\ Refund(i, bet)
  /\ UNCHANGED ownVars

SetParams(next) == params' = next /\ UNCHANGED <<escrowVars, verdict, now>>

\* The venue stops trading a market at its expiry and later decides it.
Decide(m, v) ==
  /\ now >= Expiry[m]
  /\ \/ verdict[m] = "TRADING" /\ v = "LOCKED"
     \/ verdict[m] = "LOCKED" /\ v \in {"UP", "DOWN", "VOID"}
  /\ verdict' = [verdict EXCEPT ![m] = v]
  /\ UNCHANGED <<escrowVars, params, now>>

Tick == now < MaxTime /\ now' = now + 1 /\ UNCHANGED <<escrowVars, params, verdict>>

Next ==
  \/ \E s \in Suppliers, a \in Supplies : Supply(s, a) /\ UNCHANGED ownVars
  \/ \E s \in Suppliers, n \in Redemptions : Withdraw(s, n) /\ UNCHANGED ownVars
  \/ \E o \in Owners, picks \in Picks, payout \in Payouts :
       \E prices \in [1..Len(picks) -> Prices] : OpenParlay(o, picks, prices, payout)
  \/ \E i \in BetIds : \E k \in 1..Len(bets[i].legs) : ResolveLeg(i, k)
  \/ \E i \in BetIds : Claim(i) /\ UNCHANGED ownVars
  \/ \E b \in PauseChoices : SetPaused(b) /\ UNCHANGED ownVars
  \/ \E p \in ParamsChoices : SetParams(p)
  \/ \E m \in Markets, v \in {"LOCKED", "UP", "DOWN", "VOID"} : Decide(m, v)
  \/ Tick

Spec == Init /\ [][Next]_vars

-----------------------------------------------------------------------------
TypeOK ==
  /\ EscrowTypeOK
  /\ params \in ParamsChoices /\ now \in 0..MaxTime
  /\ verdict \in [Markets -> {"TRADING", "LOCKED", "UP", "DOWN", "VOID"}]

Side(v) == IF v = "UP" THEN 0 ELSE 1
Right(leg) == verdict[leg.market] \in {"UP", "DOWN"} /\ Side(verdict[leg.market]) = leg.outcome
Wrong(leg) == verdict[leg.market] \in {"UP", "DOWN"} /\ ~Right(leg)

\* However the legs are cranked, a ticket is won exactly on a full streak at the
\* venue, lost only with a losing leg and refunded only with a voided one.
TicketsFollowVenue == \A i \in BetIds :
  LET legs == Range(bets[i].legs)
  IN /\ bets[i].status \in {"WON", "CLAIMED"} => \A leg \in legs : Right(leg)
     /\ bets[i].status = "LOST" => \E leg \in legs : Wrong(leg)
     /\ bets[i].status = "VOID" => \E leg \in legs : verdict[leg.market] = "VOID"
     /\ bets[i].status = "LIVE" => \E leg \in legs : leg.status = "PENDING"

=============================================================================
