-------------------------- MODULE MCDuelProjector --------------------------
(***************************************************************************)
(* One duel, and a projector whose timer fires while a cycle is under way. *)
(***************************************************************************)
EXTENDS DuelProjector, TLC

CONSTANTS m1, ann, bea

TheMatch == {m1}
ThePlayers == m1 :> {ann, bea}
TwoCycles == {1, 2}
NothingLogged == {<< >>}

=============================================================================
