--------------------------- MODULE TradingBalance ---------------------------
(***************************************************************************)
(* What the Trading Balance promises an owner, without grants, positions   *)
(* or a venue: an amount that is the owner's own, an amount lent to        *)
(* delegates, what the owner took out, what all the orders placed for the  *)
(* owner cost, and how much of that was ordered by delegates.  Every step  *)
(* concerns one owner; nobody else's money moves.  Own money falls only by *)
(* the owner's hand: paid out to the owner, lent, or spent in an order the *)
(* owner placed.  An order a delegate placed is paid from what was lent,   *)
(* to the last unit, and takes nothing of the owner's own.                 *)
(***************************************************************************)
EXTENDS Naturals

CONSTANTS Owners

VARIABLES own, lent, paidOut, ordered, delegated

vars == <<own, lent, paidOut, ordered, delegated>>

Init ==
  /\ own = [o \in Owners |-> 0]
  /\ lent = [o \in Owners |-> 0]
  /\ paidOut = [o \in Owners |-> 0]
  /\ ordered = [o \in Owners |-> 0]
  /\ delegated = [o \in Owners |-> 0]

NoOrder(o) == ordered'[o] = ordered[o] /\ delegated'[o] = delegated[o]

Others(o) ==
  \A p \in Owners \ {o} :
    /\ own'[p] = own[p] /\ lent'[p] = lent[p] /\ paidOut'[p] = paidOut[p]
    /\ NoOrder(p)

\* A deposit, somebody's gift, the proceeds of a sale or a payout arrives.
Receive(o) ==
  /\ own'[o] >= own[o]
  /\ lent'[o] = lent[o]
  /\ paidOut'[o] = paidOut[o]
  /\ NoOrder(o)

\* The owner lends, takes back or re-lends, perhaps out of a deposit.
Arrange(o) ==
  /\ own'[o] + lent'[o] >= own[o] + lent[o]
  /\ paidOut'[o] = paidOut[o]
  /\ NoOrder(o)

\* Whatever is paid out leaves the owner's own money, to the last unit.
PayOut(o) ==
  /\ own[o] >= own'[o]
  /\ paidOut'[o] + own'[o] = paidOut[o] + own[o]
  /\ lent'[o] = lent[o]
  /\ NoOrder(o)

\* An order of the owner's own: it costs own money and nothing that is lent.
OwnerSpends(o) ==
  /\ own'[o] + ordered'[o] = own[o] + ordered[o]
  /\ lent'[o] = lent[o]
  /\ paidOut'[o] = paidOut[o]
  /\ delegated'[o] = delegated[o]

\* An order of a delegate's: it costs lent money and nothing of the owner's.
DelegateSpends(o) ==
  /\ own'[o] = own[o]
  /\ lent'[o] + delegated'[o] = lent[o] + delegated[o]
  /\ ordered'[o] + delegated[o] = ordered[o] + delegated'[o]
  /\ paidOut'[o] = paidOut[o]

Next == \E o \in Owners :
  /\ Others(o)
  /\ \/ Receive(o)
     \/ Arrange(o)
     \/ PayOut(o)
     \/ OwnerSpends(o)
     \/ DelegateSpends(o)

Spec == Init /\ [][Next]_vars

=============================================================================
