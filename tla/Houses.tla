------------------------------- MODULE Houses -------------------------------
(***************************************************************************)
(* The houses that share their suppliers' ledger: the parlay's and the     *)
(* range's reserve over one escrow book, and the market maker's vault.     *)
(* They are separate contracts: `house` says which one a behaviour is of,  *)
(* and what is not that house's is 0.  (LeverageReserve, the fourth, has   *)
(* its own proofs.)                                                        *)
(***************************************************************************)
EXTENDS EscrowBook

CONSTANTS
  Payouts, One,
  Markets, Expiry, MaxTime,                                      \* parlay, maker
  ParlayParams, Prices,
  RangeParams, RangeMarkets, RangeExpiry, RangeTime,
  Questions, Closing, Opening, AssetOf, Assets, Rated, Prints, Bands, Stakes,
  MakerParams, MakerSupplies, MakerPauses, Bids, Asks, Quantities, Lot,
  LazyChoices, MaxQuotes

VARIABLES
  house, params, now,
  verdict,                                                        \* parlay
  volatilityOf, assetKeyOf, openingPrintOf, answer, trading,      \* range
  books, open, openAt, armed, orders, tokens, status, lazy, spent, drained  \* maker

Parlay == INSTANCE ParlayReserve WITH ParamsChoices <- ParlayParams
Rounds == INSTANCE RangeReserve WITH
  ParamsChoices <- RangeParams, Markets <- RangeMarkets, Expiry <- RangeExpiry,
  MaxTime <- RangeTime
Maker == INSTANCE MarketMakerVault WITH
  ParamsChoices <- MakerParams, Supplies <- MakerSupplies, PauseChoices <- MakerPauses

\* What the constants must be.
ASSUME HousesAssumption ==
  /\ Parlay!ParlayAssumption /\ Rounds!RangeAssumption
  /\ Maker!MakerAssumption /\ Maker!ShareAssumption

rangeVars == <<volatilityOf, assetKeyOf, openingPrintOf, answer, trading>>
makerVars == <<books, open, openAt, armed, orders, tokens, status, lazy, spent, drained>>
vars == <<house, escrowVars, params, now, verdict, rangeVars, makerVars>>

NoEscrow == locked = 0 /\ lockedByExpiry = 0 /\ bets = 0
NoRange == volatilityOf = 0 /\ assetKeyOf = 0 /\ openingPrintOf = 0 /\ answer = 0 /\ trading = 0
NoMaker ==
  /\ books = 0 /\ open = 0 /\ openAt = 0 /\ armed = 0 /\ orders = 0
  /\ tokens = 0 /\ status = 0 /\ lazy = 0 /\ spent = 0 /\ drained = 0

Init ==
  \/ house = "parlay" /\ Parlay!Init /\ NoRange /\ NoMaker
  \/ house = "range" /\ Rounds!Init /\ verdict = 0 /\ NoMaker
  \/ house = "maker" /\ Maker!Init /\ NoEscrow /\ verdict = 0 /\ NoRange

InParlay == house = "parlay" /\ UNCHANGED <<house, rangeVars, makerVars>>
InRange == house = "range" /\ UNCHANGED <<house, verdict, makerVars>>
InMaker ==
  house = "maker" /\ UNCHANGED <<house, locked, lockedByExpiry, bets, verdict, rangeVars>>

Next ==
  \/ InParlay /\ Parlay!Next
  \/ InRange /\ Rounds!Next
  \/ InMaker /\ Maker!Next

\* Anyone may end a round and time passes; the hub may stay silent for ever.
Fairness ==
  /\ WF_vars(InRange /\ Rounds!Tick)
  /\ \A i \in 1..MaxBets : WF_vars(InRange /\ Rounds!EndRound(i))

Spec == Init /\ [][Next]_vars /\ Fairness

-----------------------------------------------------------------------------
\* The contract's own account of its money, in each house (see their modules).
MoneyIsBooked ==
  CASE house = "parlay" -> BooksBalance
    [] house = "range" -> BooksBalance
    [] house = "maker" -> Maker!BooksBalance

\* Each bet ends as the venue, or the oracle hub, says.
BetsEndAsJudged ==
  CASE house = "parlay" -> Parlay!TicketsFollowVenue
    [] house = "range" -> Rounds!RoundsFollowHub
    [] house = "maker" -> TRUE

\* What is at risk is what the bets hold locked, or the vault has deployed.
AnyHouse == INSTANCE HouseShares WITH
  atRisk <- IF house = "maker" THEN Maker!totalDeployed ELSE locked
IsAHouse == AnyHouse!Spec

\* No supplier leaves the vault ahead of a loss that is not in the books.
NobodyOutrunsALoss == [][house = "maker" => Maker!LossesAreBooked]_vars

\* A round ends although the hub stays silent.
EveryRoundEnds == \A i \in 1..MaxBets :
  (house = "range" /\ i \in BetIds) ~> (house = "range" /\ ~(i \in InEscrow))

=============================================================================
