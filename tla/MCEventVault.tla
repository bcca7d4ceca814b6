---------------------------- MODULE MCEventVault ----------------------------
(***************************************************************************)
(* Three small vaults checked in one run.  Two owners act with the         *)
(* constants of the cfg, one lent budget each at most; or one owner of the *)
(* two acts alone and grants twice, over two days with two fills or within *)
(* one day with three, under a cap of one position.                        *)
(***************************************************************************)
EXTENDS EventVault, TLC

CONSTANTS o1, o2, d1, m1, m2

VARIABLE vault  \* the vault a behaviour is of: who acts in it, and its last day

MCVars == <<vars, vault>>

SomeCaps(positions) ==
  {[maxStakePerTrade |-> 1, maxDailySpend |-> 1,
    maxOpenPositions |-> positions, maxPriceRaw |-> 1]}

MCCaps == SomeCaps(2)

Lending(o, lastTime, fills) == INSTANCE EventVault WITH
  Acting <- {o}, Landings <- {FALSE}, Lot <- 2, MaxTime <- lastTime,
  MaxGrants <- 2, MaxFills <- fills, CapsChoices <- SomeCaps(1)

BothOwners == <<Owners, 0>>
TwoDays(o) == <<{o}, 1>>
OneDay(o) == <<{o}, 0>>

MCInit ==
  \/ Init /\ vault = BothOwners
  \/ \E o \in Owners :
       \/ Lending(o, 1, 2)!Init /\ vault = TwoDays(o)
       \/ Lending(o, 0, 3)!Init /\ vault = OneDay(o)

MCNext ==
  /\ \/ vault = BothOwners /\ Next
     \/ \E o \in Owners :
          \/ vault = TwoDays(o) /\ Lending(o, 1, 2)!Next
          \/ vault = OneDay(o) /\ Lending(o, 0, 3)!Next
  /\ UNCHANGED vault

MCSpec == MCInit /\ [][MCNext]_MCVars

Symmetric == Permutations(Owners)

=============================================================================
