---------------------------- MODULE MCPrivateDesk ----------------------------
EXTENDS DeskService, TLC

CONSTANTS o1, b1, b2, p1, p2, k1

MCOwnerOf == [b \in Bets |-> o1]
MCServes == (p1 :> {b1, b2}) @@ (p2 :> {b1})
MCVerdicts == (b1 :> {"LOST"}) @@ (b2 :> {"WON"})
MCFills == {[cost |-> 1, quantity |-> 4]}

=============================================================================
