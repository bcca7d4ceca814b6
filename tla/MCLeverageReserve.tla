-------------------------- MODULE MCLeverageReserve --------------------------
EXTENDS LeverageReserve, TLC

CONSTANTS s1, s2, o1, m1, m2

MCExpiry == m1 :> 1 @@ m2 :> 2

Terms2x == [maxLeverageBps |-> 2 * BPS, premiumBps |-> BPS \div 2,
            maintenanceBps |-> BPS, maxExposureBps |-> BPS \div 2,
            minEntryPriceRaw |-> 1, maxEntryPriceRaw |-> 2,
            maxFrontedPerPosition |-> 2, maxWindowFronted |-> 3,
            maxOpenPositions |-> 3, minTimeLeftSec |-> 1]
MCParams == {Terms2x}
\* Cost 3 of 6 at 2x with a half premium: stake 2, front 2, premium 1.
MCOffers == {[quantity |-> 6, cost |-> 3, escrow |-> 4]}
MCLeverages == {2 * BPS}

Symmetric == Permutations(Suppliers)

=============================================================================
