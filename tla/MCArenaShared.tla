---------------------------- MODULE MCArenaShared ----------------------------
(***************************************************************************)
(* What the arena holds for more than one: two duels of the same players   *)
(* over the same Window; one duel whose creator names an agent, again and  *)
(* again, while the admin changes the tiers and the windows; or the log of *)
(* two duels, which two cycles of the projector read at once.              *)
(***************************************************************************)
EXTENDS Duels, TLC

CONSTANTS alice, bob, k1, x, d1, d2

VARIABLE arena

\* Short windows: one second each, and cards that must live two.
Windows == [joinWindowSec |-> 1, revealWindowSec |-> 1, pickWindowSec |-> 1,
            minCardLifeSec |-> 2, minDeckSize |-> 1, maxDeckSize |-> 1]
\* A longer pick window, and one no card could outlive, which must revert.
LongerWindows == [Windows EXCEPT !.pickWindowSec = 2, !.minCardLifeSec = 3]
UnplayableWindows == [Windows EXCEPT !.pickWindowSec = 2]

OneTier == [potBase |-> 1, perCardCapBase |-> 2, enabled |-> TRUE]
AdminTiers == {OneTier, [potBase |-> 0, perCardCapBase |-> 1, enabled |-> TRUE],
               [potBase |-> 1, perCardCapBase |-> 2, enabled |-> FALSE]}

\* The shared Window's orders include one whose venue fee takes it over the stake,
\* which must revert.
ThePlayers == {alice, bob}
TheOpener == {alice}
TheMatches == {d1, d2}
TheMarket == {x}
TheExpiry == x :> 3
TheDeck == {<<x>>}
TheTier == {OneTier}
TheWindows == {Windows}
NeverPaused == {FALSE}
TheFills == [quantity: {2}, cost: {1, 3}]
NoAgents == {}

Agented == INSTANCE GameArena WITH
  Agents <- {k1}, TierChoices <- AdminTiers,
  ParamsChoices <- {Windows, LongerWindows, UnplayableWindows},
  Stakes <- {1, 2}, Fills <- [quantity: {2}, cost: {1}],
  MaxNamedAt <- 1, MaxTime <- 2

\* One duel over, the other joined, when a projector first runs: the log stands.
Duel == <<"created", "joined", "revealed", "picked", "locked", "settled", "finalized">>
Logged(m, n) == [i \in 1..n |-> [match |-> m, kind |-> Duel[i]]]

TheLog == {Logged(d2, 2) \o Logged(d1, 7)}
TheirPlayers == d1 :> {alice, bob} @@ d2 :> {alice, k1}
TwoCycles == {1, 2}

ASSUME AgentedAssumption == Agented!ArenaAssumption

\* What is not looked at stays as it begins.
ArenasInit ==
  /\ Projecting!Init
  /\ \/ arena \in {"shared", "projected"} /\ Init
     \/ arena = "agented" /\ Agented!Init

ArenasNext ==
  /\ UNCHANGED arena
  /\ \/ arena = "shared" /\ Next /\ UNCHANGED projectorVars
     \/ arena = "agented" /\ Agented!Next /\ status'[d2] = "NONE" /\ UNCHANGED projectorVars
     \/ arena = "projected" /\ Projecting!Next /\ UNCHANGED vars

ArenasSpec == ArenasInit /\ [][ArenasNext]_<<arena, vars, projectorVars>>

=============================================================================
