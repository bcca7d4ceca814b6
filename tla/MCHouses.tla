------------------------------ MODULE MCHouses ------------------------------
(***************************************************************************)
(* One supplier and one owner: two parlay tickets over two Windows, two    *)
(* rounds on one Window, or two quotes over two Windows.                   *)
(***************************************************************************)
EXTENDS Houses

CONSTANTS s1, o1, m1, m2, btc, eth

MCExpiry == m1 :> 1 @@ m2 :> 2
MCParlayParams ==
  {[maxExposureBps |-> BPS \div 2, maxExpiryLocked |-> 2, correlationBps |-> 5000,
    marginBps |-> 1000, maxLegs |-> 2, maxPayoutCap |-> 5, minCombinedProbRaw |-> 1]}

MCRangeExpiry == m1 :> 1
MCRangeParams ==
  {[maxExposureBps |-> BPS \div 2, maxExpiryLocked |-> 2, maxPayoutCap |-> 5,
    minTimeLeftSec |-> 1, maxHorizonSec |-> 2, staleAfterSec |-> n] : n \in {1, 2}}
MCClosing == m1 :> 2
MCOpening == m1 :> 1
MCAssetOf == m1 :> btc
MCBands == {<<2, 3>>}

MCMakerParams ==
  {[maxExposureBps |-> BPS, minSpreadRaw |-> 1, minPriceRaw |-> 1, maxPriceRaw |-> 3,
    maxQuantityRaw |-> 4, maxWindowDeployed |-> 6, maxOpenWindows |-> 2,
    minTimeLeftSec |-> 1]}

=============================================================================
