--------------------------------- MODULE Ops ---------------------------------
(***************************************************************************)
(* Loops of the ops service that share a process and no state: the X relay *)
(* (XRelay), and the game room's matchmaker (Matchmaker).                  *)
(***************************************************************************)
EXTENDS XRelay

CONSTANTS
  Connections, WalletOf, Matches, SeedWindow, DealWindow, CreateWindow,
  MaxJoins, MaxRepeats  \* see Matchmaker

VARIABLES
  open, joining, queue, pairings, pairingOf, deal, held, reading,
  onChain, matched, committed, dissolved, joins, repeats

Pairing == INSTANCE Matchmaker WITH found <- matched

ASSUME OpsAssumption == Pairing!MatchmakerAssumption

roomVars == <<open, joining, queue, pairings, pairingOf, deal, held, reading,
              onChain, matched, committed, dissolved, joins, repeats>>

\* See Matchmaker: nobody is refused the queue by a pairing that has ended, and no
\* deck is committed to one.
NobodyIsLockedOut == Pairing!NobodyIsLockedOut
DeckIsForALivePairing == Pairing!DeckIsForALivePairing

=============================================================================
