-------------------------------- MODULE Duels --------------------------------
(***************************************************************************)
(* Duels: the arena, which holds their money, and the projector, which     *)
(* reads its log into the tables the game room and the settler work from.  *)
(* The two share the matches and nothing else: what the projector learns   *)
(* of a match it learns from the order of its events (DuelProjector), what *)
(* the arena holds depends on no table.                                    *)
(***************************************************************************)
EXTENDS GameArena

CONSTANTS
  PlayersOf, Cycles, SPAN, Histories, MaxLog, MaxLive,
  MaxCrashes, MaxMisses  \* see DuelProjector

VARIABLES log, rows, payouts, rated, ladder, stored, cursor, cache, cycle, work,
          missed, crashes, misses

Projecting == INSTANCE DuelProjector

ASSUME DuelsAssumption == Projecting!ProjectorAssumption

projectorVars ==
  <<log, rows, payouts, rated, ladder, stored, cursor, cache, cycle, work, missed, crashes, misses>>

\* "Its worklist is the projection", and "a re-read block cannot count a win twice":
\* see DuelProjector.
WorklistIsComplete == Projecting!WorklistIsComplete
LadderCountsOnce == Projecting!LadderCountsOnce

=============================================================================
