------------------------- MODULE MCMarketMakerVault -------------------------
(***************************************************************************)
(* One supplier and one Window, on a venue that refunds expired orders     *)
(* lazily: what becomes of a quote that nobody fills.                      *)
(***************************************************************************)
EXTENDS MarketMakerVault, TLC

CONSTANTS s1, m1

MCExpiry == m1 :> 2
MCParams == {[maxExposureBps |-> BPS, minSpreadRaw |-> 1, minPriceRaw |-> 1, maxPriceRaw |-> 3,
              maxQuantityRaw |-> 4, maxWindowDeployed |-> 4, maxOpenWindows |-> 1,
              minTimeLeftSec |-> 1]}

=============================================================================
