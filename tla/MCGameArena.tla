----------------------------- MODULE MCGameArena -----------------------------
EXTENDS GameArena, TLC

CONSTANTS alice, bob, x, y, d1

\* Short windows: one second each, and cards that must live two.
Windows == [joinWindowSec |-> 1, revealWindowSec |-> 1, pickWindowSec |-> 1,
            minCardLifeSec |-> 2, minDeckSize |-> 1, maxDeckSize |-> MAX_DECK]

MCParams == {Windows}
MCTiers == {[potBase |-> 1, perCardCapBase |-> 2, enabled |-> TRUE]}
OneFill == [quantity: {2}, cost: {1}]

\* One match over a deck of two Windows that end apart.
DuelDecks == {<<x, y>>}
DuelExpiry == (x :> 3) @@ (y :> 4)

=============================================================================
