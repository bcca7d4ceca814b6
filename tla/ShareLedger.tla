----------------------------- MODULE ShareLedger -----------------------------
(***************************************************************************)
(* The supplier side the house reserves share: capital is held as shares   *)
(* of a total value `tv` each reserve computes its own way.  `wallet` is   *)
(* collateral.balanceOf(reserve), which the bets also pay into.            *)
(***************************************************************************)
EXTENDS Integers, Sequences, FiniteSetsExt

CONSTANTS
  Suppliers,
  Supplies,     \* the amounts a supply may carry
  Redemptions,  \* the numbers of shares a withdrawal may redeem
  PauseChoices, \* what the admin may set `paused` to
  MaxIntake     \* bound: capital ever supplied

ASSUME ShareAssumption ==
  /\ Supplies \subseteq Nat \ {0} /\ Redemptions \subseteq Nat \ {0}
  /\ PauseChoices \subseteq BOOLEAN
  /\ MaxIntake \in Nat

VARIABLES
  liquid, supplyShares, sharesOf, paused, wallet,
  intake        \* history: capital ever supplied

shareVars == <<supplyShares, sharesOf>>
ledgerVars == <<liquid, shareVars, paused, wallet, intake>>

BPS == 10000

CeilDiv(a, b) == IF a = 0 THEN 0 ELSE (a - 1) \div b + 1

LedgerInit ==
  /\ liquid = 0 /\ supplyShares = 0 /\ wallet = 0 /\ paused = FALSE
  /\ intake = 0
  /\ sharesOf = [s \in Suppliers |-> 0]

SharesFor(amount, tv) ==
  IF supplyShares = 0 \/ tv = 0 THEN amount ELSE (amount * supplyShares) \div tv

WorthRoundedUp(shares, tv) == CeilDiv(shares * tv, supplyShares) \* mutant
WorthOf(shares, tv) == (shares * tv) \div supplyShares

\* Shares too small to count are refused.
Buy(s, amount, tv) ==
  LET shares == SharesFor(amount, tv) IN
  /\ ~paused
  /\ shares # 0 /\ intake + amount <= MaxIntake
  /\ supplyShares' = supplyShares + shares
  /\ sharesOf' = [sharesOf EXCEPT ![s] = @ + shares]
  /\ liquid' = liquid + amount
  /\ wallet' = wallet + amount
  /\ intake' = intake + amount
  /\ UNCHANGED paused

Redeem(s, shares, tv) ==
  /\ shares <= sharesOf[s] /\ shares <= supplyShares
  /\ WorthOf(shares, tv) <= liquid
  /\ sharesOf' = [sharesOf EXCEPT ![s] = @ - shares]
  /\ supplyShares' = supplyShares - shares
  /\ liquid' = liquid - WorthOf(shares, tv)
  /\ wallet' = wallet - WorthOf(shares, tv)
  /\ UNCHANGED <<paused, intake>>

LedgerTypeOK ==
  /\ liquid \in Nat /\ supplyShares \in Nat /\ wallet \in Nat /\ intake \in Nat
  /\ sharesOf \in [Suppliers -> Nat]
  /\ paused \in BOOLEAN

\* Capital moves between the bets and the liquid; the shares stand.
Move(newLiquid, newWallet) ==
  /\ liquid' = newLiquid
  /\ wallet' = newWallet
  /\ UNCHANGED <<shareVars, paused, intake>>

Pause(next) ==
  /\ paused' = next
  /\ UNCHANGED <<liquid, shareVars, wallet, intake>>

=============================================================================
