----------------------------- MODULE HouseShares -----------------------------
(***************************************************************************)
(* What every reserve promises its suppliers: capital is held in shares    *)
(* whose value only the bets move.  A supplier entering never gets more of *)
(* the house than the capital brought in, one leaving never takes more     *)
(* than the shares are worth, and neither needs capital that is at risk.   *)
(***************************************************************************)
EXTENDS Integers

CONSTANT Suppliers

VARIABLES
  liquid,        \* capital a supplier could withdraw
  atRisk,        \* capital out on bets, at what the house counts it
  supplyShares,
  sharesOf

vars == <<liquid, atRisk, supplyShares, sharesOf>>

Value == liquid + atRisk

Init ==
  /\ liquid = 0 /\ atRisk = 0 /\ supplyShares = 0
  /\ sharesOf = [s \in Suppliers |-> 0]

\* `n` new shares for `amount`: no larger a part of the shares than of the value.
Enter(s, amount, n) ==
  /\ amount > 0 /\ n > 0
  /\ IF supplyShares = 0 \/ Value = 0 THEN n = amount
                                      ELSE n * Value <= amount * supplyShares
  /\ liquid' = liquid + amount
  /\ supplyShares' = supplyShares + n
  /\ sharesOf' = [sharesOf EXCEPT ![s] = @ + n]
  /\ UNCHANGED atRisk

Leave(s, amount, n) ==
  /\ n \in 1..sharesOf[s] /\ n <= supplyShares
  /\ amount * supplyShares <= n * Value
  /\ amount \in 0..liquid
  /\ liquid' = liquid - amount
  /\ supplyShares' = supplyShares - n
  /\ sharesOf' = [sharesOf EXCEPT ![s] = @ - n]
  /\ UNCHANGED atRisk

\* A bet is taken, moves or ends: the house's capital moves, nobody's part of it.
Play == UNCHANGED <<supplyShares, sharesOf>>

Next ==
  /\ liquid' \in Nat /\ atRisk' \in Nat /\ supplyShares' \in Nat
  /\ \/ \E s \in Suppliers : Enter(s, liquid' - liquid, supplyShares' - supplyShares)
     \/ \E s \in Suppliers : Leave(s, liquid - liquid', supplyShares - supplyShares')
     \/ Play

TypeOK ==
  /\ liquid \in Nat /\ atRisk \in Nat /\ supplyShares \in Nat
  /\ sharesOf \in [Suppliers -> Nat]

Spec == Init /\ [][Next]_vars

\* No entry and no exit lowers what a remaining share is worth
\* (`supply` and `withdraw` round against the caller).
NeverDiluted == [][
  supplyShares # 0 /\ supplyShares' # supplyShares =>
    Value' * supplyShares >= Value * supplyShares']_vars

=============================================================================
