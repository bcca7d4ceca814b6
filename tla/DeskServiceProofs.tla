-------------------------- MODULE DeskServiceProofs --------------------------
(***************************************************************************)
(* What holds of private bets for any owners, bets, processes and faults.  *)
(* The contract cannot join a charge to a slot, so that no bet is paid out *)
(* of another's money is a fact about the desk's walks: every send under   *)
(* way or in the queue moves an amount its own bet has for it, but for the *)
(* refund of a bet that was bought, which moves that bet's stake.          *)
(***************************************************************************)
EXTENDS DeskService, FiniteSums

\* What the contract's record of one bet may look like.
SlotFits(s, charged, credited) ==
  /\ s.funded => charged > 0
  /\ ~s.funded => ~s.minted /\ s.balance = 0 /\ s.swept = 0
  /\ ~s.minted => s.quantity = 0
  /\ s.funded /\ ~s.minted => s.balance = charged \/ (s.balance = 0 /\ s.swept >= charged)
  /\ credited <= s.swept \/ (s.minted /\ credited = charged)

SlotsFit == \A b \in Bets : SlotFits(slots[b], chargedOf[b], creditedOf[b])

\* What a bet has in the pool: what it brought, less what was credited.
InPool(b) == Brought(b) - creditedOf[b]

\* The types of all but three totals, which follow from the sums.
RecordsTypeOK ==
  /\ desk \in DeskKeys /\ paused \in BOOLEAN /\ deposited \in Nat /\ pool \in Nat
  /\ balanceOf \in [Owners -> Nat] /\ allowanceOf \in [Owners -> Nat]
  /\ chargedOf \in [Bets -> Nat] /\ creditedOf \in [Bets -> Nat]
  /\ slots \in [Bets -> SlotRecord]
  /\ verdict \in [Bets -> {"OPEN", "WON", "LOST", "VOID"}]

DeskInv == RecordsTypeOK /\ SlotsFit /\ PoolIsEachBets

\* What a contract call never takes back: a charge, what was swept, a purchase.
OnlyForward ==
  /\ \A b \in Bets : chargedOf[b] > 0 => chargedOf'[b] = chargedOf[b]
  /\ \A b \in Bets : slots'[b].swept >= slots[b].swept
  /\ \A b \in Bets : slots[b].minted => slots'[b].minted

-----------------------------------------------------------------------------
(* Sums over owners and bets, when one of them changes.                    *)

(* There are finitely many owners and bets, and each bet has an owner.     *)
LEMMA SetsAreFinite == IsFiniteSet(Bets) /\ IsFiniteSet(Owners) /\ OwnerOf \in [Bets -> Owners]
BY DeskAssumption

\* Values per bet, or per owner, that differ at x only, by d.
ShiftsAt(S, f, g, x, d) ==
  /\ f \in [S -> Nat] /\ g \in [S -> Nat]
  /\ g[x] = f[x] + d
  /\ \A y \in S \ {x} : g[y] = f[y]

(* Such values have totals that differ by as much.                         *)
LEMMA TotalShifts ==
  ASSUME NEW S, IsFiniteSet(S), NEW x \in S, NEW d \in Int, NEW f, NEW g, ShiftsAt(S, f, g, x, d)
  PROVE  SumFunction(g) = SumFunction(f) + d
<1>1. /\ f \in [S -> Nat] /\ g \in [S -> Nat] /\ g[x] = f[x] + d
      /\ \A y \in S \ {x} : g[y] = f[y]
  BY DEF ShiftsAt
<1> QED
  BY <1>1, TotalGainsAt

(* What a bet brought to the pool, and what is in its slot, are amounts.   *)
LEMMA PartsTyped ==
  ASSUME RecordsTypeOK
  PROVE  SlotBalances \in [Bets -> Nat] /\ PoolParts \in [Bets -> Nat]
<1>1. ASSUME NEW b \in Bets PROVE Brought(b) \in Nat
  <2>1. slots[b].swept \in Nat /\ chargedOf[b] \in Nat
    BY DEF RecordsTypeOK, SlotRecord
  <2> QED
    BY <2>1 DEF Brought
<1>2. ASSUME NEW b \in Bets PROVE slots[b].balance \in Nat
  BY DEF RecordsTypeOK, SlotRecord
<1> QED
  BY <1>1, <1>2 DEF SlotBalances, PoolParts

LEMMA PartsNextTyped ==
  ASSUME RecordsTypeOK'
  PROVE  SlotBalances' \in [Bets -> Nat] /\ PoolParts' \in [Bets -> Nat]
<1>1. ASSUME NEW b \in Bets PROVE Brought(b)' \in Nat
  <2>1. slots'[b].swept \in Nat /\ chargedOf'[b] \in Nat
    BY DEF RecordsTypeOK, SlotRecord
  <2> QED
    BY <2>1 DEF Brought
<1>2. ASSUME NEW b \in Bets PROVE slots'[b].balance \in Nat
  BY DEF RecordsTypeOK, SlotRecord
<1> QED
  BY <1>1, <1>2 DEF SlotBalances, PoolParts

\* Every bet but b keeps its record.
OnlyBet(b) == \A c \in Bets \ {b} :
  slots'[c] = slots[c] /\ chargedOf'[c] = chargedOf[c] /\ creditedOf'[c] = creditedOf[c]

(* A call about one bet moves what is in the slots by what it moves in that *)
(* bet's, and what the bets brought and were credited by that bet's part.   *)
LEMMA BetMoves ==
  ASSUME RecordsTypeOK, RecordsTypeOK', NEW b \in Bets, OnlyBet(b),
         NEW e \in Int, NEW n \in Int, NEW k \in Int,
         slots'[b].balance = slots[b].balance + e, InPool(b)' = InPool(b) + n,
         creditedOf'[b] = creditedOf[b] + k
  PROVE  /\ SumFunction(SlotBalances') = SumFunction(SlotBalances) + e
         /\ SumFunction(PoolParts') = SumFunction(PoolParts) + (n + k)
         /\ SumFunction(creditedOf') = SumFunction(creditedOf) + k
<1>1. \A c \in Bets \ {b} : SlotBalances'[c] = SlotBalances[c] /\ PoolParts'[c] = PoolParts[c]
  <2> TAKE c \in Bets \ {b}
  <2>1. slots'[c] = slots[c] /\ chargedOf'[c] = chargedOf[c]
    BY DEF OnlyBet
  <2> QED
    BY <2>1 DEF SlotBalances, PoolParts, Brought
<1>2. creditedOf \in [Bets -> Nat] /\ creditedOf' \in [Bets -> Nat]
  BY DEF RecordsTypeOK
<1>3. SlotBalances'[b] = SlotBalances[b] + e /\ PoolParts'[b] = PoolParts[b] + (n + k)
  <2>1. PoolParts[b] = Brought(b) /\ PoolParts'[b] = Brought(b)'
    BY DEF PoolParts
  <2>2. PoolParts[b] \in Nat /\ PoolParts'[b] \in Nat
    BY PartsTyped, PartsNextTyped
  <2>3. PoolParts'[b] - creditedOf'[b] = PoolParts[b] - creditedOf[b] + n
    BY <2>1 DEF InPool
  <2>4. creditedOf[b] \in Nat /\ creditedOf'[b] \in Nat
    BY <1>2
  <2>5. PoolParts'[b] = PoolParts[b] + (n + k)
    BY <2>2, <2>3, <2>4
  <2> QED
    BY <2>5 DEF SlotBalances
<1>4. ShiftsAt(Bets, SlotBalances, SlotBalances', b, e)
  BY <1>1, <1>3, PartsTyped, PartsNextTyped DEF ShiftsAt
<1>5. ShiftsAt(Bets, PoolParts, PoolParts', b, n + k)
  BY <1>1, <1>3, PartsTyped, PartsNextTyped DEF ShiftsAt
<1>6. ShiftsAt(Bets, creditedOf, creditedOf', b, k)
  BY <1>2 DEF ShiftsAt, OnlyBet
<1>7. n + k \in Int
  OBVIOUS
<1> QED
  BY <1>4, <1>5, <1>6, <1>7, SetsAreFinite, TotalShifts

(* A balance that changes alone changes what the desk owes by as much.     *)
LEMMA BalanceMoves ==
  ASSUME RecordsTypeOK, RecordsTypeOK', NEW o \in Owners, NEW d \in Int,
         balanceOf' = [balanceOf EXCEPT ![o] = @ + d]
  PROVE  SumFunction(balanceOf') = SumFunction(balanceOf) + d
<1>1. ShiftsAt(Owners, balanceOf, balanceOf', o, d)
  BY DEF ShiftsAt, RecordsTypeOK
<1> QED
  BY <1>1, SetsAreFinite, TotalShifts

(* Records that stay keep their totals.                                    *)
LEMMA BetsStay ==
  ASSUME UNCHANGED <<slots, chargedOf, creditedOf>>
  PROVE  SlotBalances' = SlotBalances /\ PoolParts' = PoolParts
BY DEF SlotBalances, PoolParts, Brought

(* The totals are natural numbers, most being sums of natural numbers.     *)
LEMMA TotalsTyped ==
  ASSUME DeskInv
  PROVE  /\ owed \in Nat /\ pool \in Nat /\ inSlots \in Nat /\ wallet \in Nat
         /\ SumFunction(balanceOf) = owed /\ SumFunction(SlotBalances) = inSlots
         /\ SumFunction(creditedOf) \in Nat /\ SumFunction(PoolParts) \in Nat
         /\ pool + SumFunction(creditedOf) = SumFunction(PoolParts)
         /\ wallet = owed + pool + inSlots
<1>1. /\ RecordsTypeOK /\ pool \in Nat
      /\ balanceOf \in [Owners -> Nat] /\ creditedOf \in [Bets -> Nat]
  BY DEF DeskInv, RecordsTypeOK
<1>2. SlotBalances \in [Bets -> Nat] /\ PoolParts \in [Bets -> Nat]
  BY <1>1, PartsTyped
<1>3. /\ owed = SumFunction(balanceOf) /\ inSlots = SumFunction(SlotBalances)
      /\ pool + SumFunction(creditedOf) = SumFunction(PoolParts)
      /\ wallet = owed + pool + inSlots
  BY DEF DeskInv, PoolIsEachBets
<1>4. /\ owed \in Nat /\ inSlots \in Nat
      /\ SumFunction(creditedOf) \in Nat /\ SumFunction(PoolParts) \in Nat
  BY <1>1, <1>2, <1>3, SetsAreFinite, TotalIsNat
<1> QED
  BY <1>1, <1>3, <1>4

(* Only the refund of a bet that was bought takes more than the bet brought. *)
LEMMA OverdrawnNext ==
  ASSUME RecordsTypeOK', SlotsFit'
  PROVE  \A b \in Bets : Overdrawn(b)' => RefundedBought(b)'
<1> SUFFICES ASSUME NEW b \in Bets, Overdrawn(b)' PROVE RefundedBought(b)'
  OBVIOUS
<1>1. PICK s \in SlotRecord : s = slots'[b]
  BY DEF RecordsTypeOK
<1>2. s.swept \in Nat /\ chargedOf'[b] \in Nat /\ creditedOf'[b] \in Nat
  BY DEF RecordsTypeOK, SlotRecord
<1>3. creditedOf'[b] <= s.swept \/ (s.minted /\ creditedOf'[b] = chargedOf'[b])
  BY <1>1 DEF SlotsFit, SlotFits
<1>4. creditedOf'[b] > s.swept
  BY <1>1, <1>2 DEF Overdrawn, Brought
<1> QED
  BY <1>1, <1>2, <1>3, <1>4 DEF RefundedBought

(* So the books that are moved by as much still balance.                   *)
LEMMA BooksMove ==
  ASSUME DeskInv, RecordsTypeOK', SlotsFit',
         NEW d \in Int, NEW e \in Int, NEW n \in Int, NEW k \in Int,
         SumFunction(balanceOf') = SumFunction(balanceOf) + d,
         SumFunction(SlotBalances') = SumFunction(SlotBalances) + e,
         SumFunction(PoolParts') = SumFunction(PoolParts) + (n + k),
         SumFunction(creditedOf') = SumFunction(creditedOf) + k,
         owed' = owed + d, inSlots' = inSlots + e, pool' = pool + n,
         wallet' = wallet + (d + e + n)
  PROVE  DeskInv'
<1>1. wallet' = owed' + pool' + inSlots'
  BY TotalsTyped
<1>2. \A b \in Bets : Overdrawn(b)' => RefundedBought(b)'
  BY OverdrawnNext
<1>3. /\ owed' = SumFunction(balanceOf') /\ inSlots' = SumFunction(SlotBalances')
      /\ pool' + SumFunction(creditedOf') = SumFunction(PoolParts')
  BY TotalsTyped
<1> QED
  BY <1>1, <1>2, <1>3 DEF DeskInv, PoolIsEachBets

\* A call that is about no bet.
LEMMA OwnerMoves ==
  ASSUME DeskInv, RecordsTypeOK', NEW o \in Owners, NEW d \in Int,
         balanceOf' = [balanceOf EXCEPT ![o] = @ + d],
         UNCHANGED <<slots, chargedOf, creditedOf, verdict, pool, inSlots>>,
         owed' = owed + d, wallet' = wallet + d
  PROVE  DeskInv' /\ OnlyForward
<1>0. RecordsTypeOK /\ SlotsFit
  BY DEF DeskInv
<1>1. SlotsFit'
  BY <1>0 DEF SlotsFit
<1>2. OnlyForward
  BY <1>0 DEF OnlyForward, RecordsTypeOK, SlotRecord
<1>3. SumFunction(balanceOf') = SumFunction(balanceOf) + d
  BY <1>0, BalanceMoves
<1>4. SlotBalances' = SlotBalances /\ PoolParts' = PoolParts
  BY BetsStay
<1>5. PICK z \in Int : z = 0
  OBVIOUS
<1>6. /\ SumFunction(SlotBalances') = SumFunction(SlotBalances) + z
      /\ SumFunction(PoolParts') = SumFunction(PoolParts) + (z + z)
      /\ SumFunction(creditedOf') = SumFunction(creditedOf) + z
      /\ inSlots' = inSlots + z /\ pool' = pool + z /\ wallet' = wallet + (d + z + z)
  BY <1>4, <1>5, TotalsTyped
<1>7. DeskInv'
  BY <1>1, <1>3, <1>6, BooksMove
<1> QED
  BY <1>2, <1>7

\* A call about one bet, its owner's balance and its record.
LEMMA DeskMoves ==
  ASSUME DeskInv, RecordsTypeOK', NEW b \in Bets, NEW d \in Int, NEW e \in Int, NEW n \in Int,
         NEW k \in Int, OnlyBet(b), UNCHANGED verdict,
         balanceOf' = [balanceOf EXCEPT ![OwnerOf[b]] = @ + d],
         SlotFits(slots'[b], chargedOf'[b], creditedOf'[b]),
         slots'[b].balance = slots[b].balance + e, InPool(b)' = InPool(b) + n,
         creditedOf'[b] = creditedOf[b] + k,
         owed' = owed + d, inSlots' = inSlots + e, pool' = pool + n,
         wallet' = wallet + (d + e + n)
  PROVE  DeskInv'
<1>0. RecordsTypeOK /\ SlotsFit
  BY DEF DeskInv
<1>1. SlotsFit'
  <2> SUFFICES ASSUME NEW c \in Bets
               PROVE  SlotFits(slots'[c], chargedOf'[c], creditedOf'[c])
    BY DEF SlotsFit
  <2>1. CASE c = b
    BY <2>1
  <2>2. CASE c # b
    BY <1>0, <2>2 DEF OnlyBet, SlotsFit
  <2> QED
    BY <2>1, <2>2
<1>2. SumFunction(balanceOf') = SumFunction(balanceOf) + d
  <2>1. PICK o \in Owners : o = OwnerOf[b]
    BY SetsAreFinite
  <2> QED
    BY <1>0, <2>1, BalanceMoves
<1>3. /\ SumFunction(SlotBalances') = SumFunction(SlotBalances) + e
      /\ SumFunction(PoolParts') = SumFunction(PoolParts) + (n + k)
      /\ SumFunction(creditedOf') = SumFunction(creditedOf) + k
  BY <1>0, BetMoves
<1> QED
  BY <1>1, <1>2, <1>3, BooksMove

\* Nothing of the record of b is taken back.
BetForward(b) ==
  /\ chargedOf[b] > 0 => chargedOf'[b] = chargedOf[b]
  /\ slots'[b].swept >= slots[b].swept
  /\ slots[b].minted => slots'[b].minted

LEMMA OneForward ==
  ASSUME RecordsTypeOK, NEW b \in Bets, OnlyBet(b), BetForward(b)
  PROVE  OnlyForward
<1>1. \A c \in Bets : slots[c].swept \in Nat
  BY DEF RecordsTypeOK, SlotRecord
<1> QED
  BY <1>1 DEF OnlyBet, BetForward, OnlyForward

-----------------------------------------------------------------------------
(* The contract's calls.                                                   *)

LEMMA DepositKeeps ==
  ASSUME DeskInv, NEW o \in Owners, NEW amount \in Nat, NEW allowance \in Nat,
         DepositAndAllow(o, amount, allowance)
  PROVE  DeskInv' /\ OnlyForward
<1>0. RecordsTypeOK
  BY DEF DeskInv
<1>1. /\ balanceOf' = [balanceOf EXCEPT ![o] = @ + amount]
      /\ allowanceOf' = [allowanceOf EXCEPT ![o] = allowance]
      /\ deposited' = deposited + amount /\ owed' = owed + amount /\ wallet' = wallet + amount
      /\ UNCHANGED <<desk, paused, chargedOf, creditedOf, slots, pool, inSlots, verdict>>
  BY DEF DepositAndAllow, adminVars, keyVars
<1>2. RecordsTypeOK'
  BY <1>0, <1>1 DEF RecordsTypeOK
<1>3. amount \in Int
  OBVIOUS
<1> QED
  BY <1>1, <1>2, <1>3, OwnerMoves

LEMMA WithdrawKeeps ==
  ASSUME DeskInv, NEW o \in Owners, NEW amount \in Nat, Withdraw(o, amount)
  PROVE  DeskInv' /\ OnlyForward
<1>0. RecordsTypeOK
  BY DEF DeskInv
<1>1. /\ amount \in 1..balanceOf[o]
      /\ balanceOf' = [balanceOf EXCEPT ![o] = @ - amount]
      /\ owed' = owed - amount /\ wallet' = wallet - amount
      /\ UNCHANGED <<desk, paused, allowanceOf, deposited, chargedOf, creditedOf, slots, pool,
                     inSlots, verdict>>
  BY DEF Withdraw, adminVars, keyVars
<1>2. PICK d \in Int : d = -amount
  OBVIOUS
<1>3. balanceOf[o] \in Nat /\ balanceOf' = [balanceOf EXCEPT ![o] = @ + d]
  <2>1. balanceOf[o] \in Nat
    BY <1>0 DEF RecordsTypeOK
  <2>2. balanceOf[o] - amount = balanceOf[o] + d
    BY <1>2, <2>1
  <2> QED
    BY <1>1, <2>1, <2>2
<1>4. RecordsTypeOK'
  BY <1>0, <1>1, <1>2, <1>3 DEF RecordsTypeOK
<1>5. owed' = owed + d /\ wallet' = wallet + d
  BY <1>1, <1>2, TotalsTyped
<1> QED
  BY <1>1, <1>3, <1>4, <1>5, OwnerMoves

LEMMA ChargeKeeps ==
  ASSUME DeskInv, NEW b \in Bets, NEW amount \in Nat, ChargeToPool(b, amount)
  PROVE  DeskInv' /\ OnlyForward /\ chargedOf'[b] = amount
<1>0. RecordsTypeOK /\ SlotsFit
  BY DEF DeskInv
<1>1. PICK o \in Owners : o = OwnerOf[b]
  BY SetsAreFinite
<1>2. /\ chargedOf[b] = 0 /\ amount \in 1..balanceOf[o] /\ amount <= allowanceOf[o]
      /\ balanceOf' = [balanceOf EXCEPT ![o] = @ - amount]
      /\ allowanceOf' = [allowanceOf EXCEPT ![o] = @ - amount]
      /\ owed' = owed - amount /\ pool' = pool + amount
      /\ chargedOf' = [chargedOf EXCEPT ![b] = amount]
      /\ UNCHANGED <<desk, paused, deposited, creditedOf, slots, inSlots, wallet, verdict>>
  BY <1>1 DEF ChargeToPool, CanCharge, adminVars
<1>3. balanceOf[o] \in Nat /\ allowanceOf[o] \in Nat /\ amount # 0
  BY <1>0, <1>2 DEF RecordsTypeOK
<1>4. PICK d \in Int, z \in Int, n \in Int : d = -amount /\ z = 0 /\ n = amount
  OBVIOUS
<1>5. balanceOf' = [balanceOf EXCEPT ![OwnerOf[b]] = @ + d]
  <2>1. balanceOf[o] - amount = balanceOf[o] + d
    BY <1>3, <1>4
  <2> QED
    BY <1>1, <1>2, <2>1
<1>6. RecordsTypeOK'
  BY <1>0, <1>2, <1>3 DEF RecordsTypeOK
<1>7. OnlyBet(b) /\ chargedOf'[b] = amount
  BY <1>0, <1>2 DEF OnlyBet, RecordsTypeOK
<1>8. PICK s \in SlotRecord : s = slots[b] /\ s = slots'[b]
  BY <1>0, <1>2 DEF RecordsTypeOK
<1>9. SlotFits(s, 0, creditedOf[b])
  BY <1>0, <1>2, <1>8 DEF SlotsFit
<1>10. ~ s.funded
  BY <1>9 DEF SlotFits
<1>11. SlotFits(s, amount, creditedOf[b])
  BY <1>9, <1>10 DEF SlotFits, SlotRecord
<1>12. s.balance \in Nat /\ s.swept \in Nat /\ creditedOf[b] \in Nat
  BY <1>0 DEF SlotRecord, RecordsTypeOK
<1>13. InPool(b)' = InPool(b) + n
  BY <1>2, <1>4, <1>7, <1>8, <1>10, <1>12 DEF InPool, Brought
<1>14. slots'[b].balance = slots[b].balance + z
  BY <1>4, <1>8, <1>12
<1>15. /\ owed' = owed + d /\ inSlots' = inSlots + z /\ pool' = pool + n
       /\ wallet' = wallet + (d + z + n)
  BY <1>2, <1>4, TotalsTyped
<1>16. creditedOf'[b] = creditedOf[b] + z
  BY <1>2, <1>4, <1>12
<1>17. SlotFits(slots'[b], chargedOf'[b], creditedOf'[b])
  BY <1>2, <1>7, <1>8, <1>11
<1>18. DeskInv'
  BY <1>2, <1>5, <1>6, <1>7, <1>13, <1>14, <1>15, <1>16, <1>17, DeskMoves
<1>19. BetForward(b)
  BY <1>2, <1>8, <1>12 DEF BetForward
<1> QED
  BY <1>0, <1>7, <1>18, <1>19, OneForward

\* A call on the slot of b: only that record and the totals change.
LEMMA SlotMoves ==
  ASSUME DeskInv, NEW b \in Bets, NEW s \in SlotRecord, NEW e \in Int, NEW n \in Int,
         slots' = [slots EXCEPT ![b] = s],
         UNCHANGED <<desk, paused, balanceOf, allowanceOf, deposited, chargedOf, creditedOf,
                     owed, verdict>>,
         SlotFits(s, chargedOf[b], creditedOf[b]),
         s.balance = slots[b].balance + e,
         (IF s.funded THEN 0 ELSE chargedOf[b]) + s.swept - creditedOf[b] = InPool(b) + n,
         inSlots' = inSlots + e, pool' = pool + n, wallet' = wallet + (e + n),
         pool + n \in Nat, s.swept >= slots[b].swept, slots[b].minted => s.minted
  PROVE  DeskInv' /\ OnlyForward /\ slots'[b] = s
<1>0. RecordsTypeOK
  BY DEF DeskInv
<1>1. RecordsTypeOK' /\ slots'[b] = s /\ OnlyBet(b)
  BY <1>0 DEF RecordsTypeOK, OnlyBet
<1>2. PICK z \in Int : z = 0
  OBVIOUS
<1>3. balanceOf' = [balanceOf EXCEPT ![OwnerOf[b]] = @ + z]
  BY <1>0, <1>2, SetsAreFinite DEF RecordsTypeOK
<1>4. InPool(b)' = InPool(b) + n /\ creditedOf'[b] = creditedOf[b] + z
  <2>1. creditedOf[b] \in Nat
    BY <1>0 DEF RecordsTypeOK
  <2>2. creditedOf'[b] = creditedOf[b] + z /\ creditedOf'[b] = creditedOf[b]
    BY <1>2, <2>1
  <2>3. /\ slots'[b].funded = s.funded /\ slots'[b].swept = s.swept
        /\ chargedOf'[b] = chargedOf[b]
        /\ s.swept \in Nat /\ s.funded \in BOOLEAN /\ chargedOf[b] \in Nat
    BY <1>0, <1>1 DEF SlotRecord, RecordsTypeOK
  <2>4. Brought(b)' = (IF slots'[b].funded THEN 0 ELSE chargedOf'[b]) + slots'[b].swept
    BY DEF Brought
  <2>5. InPool(b)' = Brought(b)' - creditedOf'[b]
    BY DEF InPool
  <2>6. Brought(b)' = (IF s.funded THEN 0 ELSE chargedOf[b]) + s.swept
    BY <2>3, <2>4
  <2>7. (IF s.funded THEN 0 ELSE chargedOf[b]) + s.swept \in Nat
    BY <2>3
  <2>8. PICK k \in Nat : k = (IF s.funded THEN 0 ELSE chargedOf[b]) + s.swept
    BY <2>7
  <2>9. InPool(b)' = k - creditedOf[b]
    BY <2>2, <2>5, <2>6, <2>8
  <2>10. k - creditedOf[b] = InPool(b) + n
    BY <2>1, <2>3, <2>8
  <2> QED
    BY <2>2, <2>9, <2>10
<1>5. owed' = owed + z /\ wallet' = wallet + (z + e + n)
  BY <1>2, TotalsTyped
<1>6. SlotFits(slots'[b], chargedOf'[b], creditedOf'[b])
  BY <1>1
<1>7. slots'[b].balance = slots[b].balance + e
  BY <1>1
<1>8. DeskInv'
  BY <1>1, <1>3, <1>4, <1>5, <1>6, <1>7, DeskMoves
<1>9. BetForward(b)
  BY <1>1 DEF BetForward
<1> QED
  BY <1>0, <1>1, <1>8, <1>9, OneForward

\* The fields of a slot, and what the invariant says of them.
LEMMA SlotFields ==
  ASSUME DeskInv, NEW b \in Bets
  PROVE  /\ slots[b] \in SlotRecord /\ chargedOf[b] \in Nat /\ creditedOf[b] \in Nat
         /\ slots[b].funded \in BOOLEAN /\ slots[b].minted \in BOOLEAN
         /\ slots[b].balance \in Nat /\ slots[b].quantity \in Nat /\ slots[b].swept \in Nat
         /\ SlotFits(slots[b], chargedOf[b], creditedOf[b])
         /\ verdict[b] \in {"OPEN", "WON", "LOST", "VOID"}
BY DEF DeskInv, RecordsTypeOK, SlotsFit, SlotRecord

\* A slot is funded with what its own bet was charged.
LEMMA FundKeeps ==
  ASSUME DeskInv, NEW b \in Bets, NEW amount \in Nat, FundSlot(b, amount),
         amount = chargedOf[b], chargedOf[b] > 0
  PROVE  DeskInv' /\ OnlyForward
<1>1. PICK r \in SlotRecord : r = slots[b]
  BY SlotFields
<1>2. PICK s : s = [r EXCEPT !.balance = amount, !.funded = TRUE]
  OBVIOUS
<1>3. /\ r.funded \in BOOLEAN /\ r.minted \in BOOLEAN
      /\ r.balance \in Nat /\ r.quantity \in Nat /\ r.swept \in Nat
      /\ creditedOf[b] \in Nat
      /\ SlotFits(r, amount, creditedOf[b])
  BY <1>1, SlotFields
<1>4. /\ s \in SlotRecord /\ s.funded = TRUE /\ s.balance = amount /\ s.minted = r.minted
      /\ s.quantity = r.quantity /\ s.swept = r.swept
  BY <1>2 DEF SlotRecord
<1>5. /\ ~ r.funded /\ amount \in 1..pool /\ slots' = [slots EXCEPT ![b] = s]
      /\ pool' = pool - amount /\ inSlots' = inSlots + amount
      /\ UNCHANGED <<desk, paused, balanceOf, allowanceOf, deposited, chargedOf, creditedOf,
                     owed, wallet, verdict>>
  BY <1>1, <1>2 DEF FundSlot, CanFund, adminVars, ownerVars, keyVars, DeskInv, RecordsTypeOK
<1>6. ~ r.minted /\ r.balance = 0 /\ r.swept = 0
  BY <1>3, <1>5 DEF SlotFits
<1>7. SlotFits(s, chargedOf[b], creditedOf[b])
  BY <1>3, <1>4, <1>6 DEF SlotFits
<1>8. PICK e \in Int, n \in Int : e = amount /\ n = -amount
  OBVIOUS
<1>9. s.balance = slots[b].balance + e
  BY <1>1, <1>4, <1>6, <1>8
<1>10. (IF s.funded THEN 0 ELSE chargedOf[b]) + s.swept - creditedOf[b] = InPool(b) + n
  BY <1>1, <1>3, <1>4, <1>5, <1>8 DEF InPool, Brought
<1>11. inSlots' = inSlots + e /\ pool' = pool + n /\ pool + n \in Nat
       /\ wallet' = wallet + (e + n)
  BY <1>5, <1>8, TotalsTyped
<1>12. /\ s.swept >= slots[b].swept /\ (slots[b].minted => s.minted)
  BY <1>1, <1>3, <1>4
<1> QED
  BY <1>4, <1>5, <1>7, <1>9, <1>10, <1>11, <1>12, SlotMoves

LEMMA MintKeeps ==
  ASSUME DeskInv, NEW b \in Bets, NEW fill \in Fills, MintInSlot(b, fill)
  PROVE  DeskInv' /\ OnlyForward /\ slots'[b].minted
<1>1. PICK r \in SlotRecord : r = slots[b]
  BY SlotFields
<1>2. PICK c \in Nat, q \in Nat : c = fill.cost /\ q = fill.quantity /\ q > 0
  BY DeskAssumption
<1>3. PICK s : s = [r EXCEPT !.balance = r.balance - c, !.quantity = q, !.minted = TRUE]
  OBVIOUS
<1>4. /\ r.funded \in BOOLEAN /\ r.minted \in BOOLEAN
      /\ r.balance \in Nat /\ r.quantity \in Nat /\ r.swept \in Nat
      /\ creditedOf[b] \in Nat /\ chargedOf[b] \in Nat
      /\ SlotFits(r, chargedOf[b], creditedOf[b])
  BY <1>1, SlotFields
<1>5. /\ r.funded /\ ~ r.minted /\ verdict[b] = "OPEN" /\ c <= r.balance
      /\ slots' = [slots EXCEPT ![b] = s]
      /\ inSlots' = inSlots - c /\ wallet' = wallet - c
      /\ UNCHANGED <<desk, paused, balanceOf, allowanceOf, deposited, chargedOf, creditedOf,
                     owed, pool, verdict>>
  BY <1>1, <1>2, <1>3 DEF MintInSlot, CanMint, adminVars, ownerVars, keyVars, DeskInv, RecordsTypeOK
<1>6. r.balance - c \in Nat
  BY <1>4, <1>5
<1>7. /\ s \in SlotRecord /\ s.funded = r.funded /\ s.balance = r.balance - c /\ s.minted = TRUE
      /\ s.quantity = q /\ s.swept = r.swept
  BY <1>3, <1>6 DEF SlotRecord
<1>8. SlotFits(s, chargedOf[b], creditedOf[b])
  BY <1>2, <1>4, <1>5, <1>7 DEF SlotFits
<1>9. PICK e \in Int, n \in Int : e = -c /\ n = 0
  OBVIOUS
<1>10. s.balance = slots[b].balance + e
  BY <1>1, <1>4, <1>7, <1>9
<1>11. (IF s.funded THEN 0 ELSE chargedOf[b]) + s.swept - creditedOf[b] = InPool(b) + n
  BY <1>1, <1>4, <1>7, <1>9 DEF InPool, Brought
<1>12. inSlots' = inSlots + e /\ pool' = pool + n /\ pool + n \in Nat
       /\ wallet' = wallet + (e + n)
  BY <1>5, <1>9, TotalsTyped
<1>13. /\ s.swept >= slots[b].swept /\ (slots[b].minted => s.minted)
  BY <1>1, <1>4, <1>5, <1>7
<1>14. DeskInv' /\ OnlyForward /\ slots'[b] = s
  <2>1. /\ slots' = [slots EXCEPT ![b] = s] /\ s \in SlotRecord
        /\ UNCHANGED <<desk, paused, balanceOf, allowanceOf, deposited, chargedOf, creditedOf,
                       owed, verdict>>
    BY <1>5, <1>7
  <2> QED
    BY <2>1, <1>8, <1>10, <1>11, <1>12, <1>13, SlotMoves
<1> QED
  BY <1>7, <1>14

LEMMA SettleKeeps ==
  ASSUME DeskInv, NEW b \in Bets, SettleSlot(b)
  PROVE  DeskInv' /\ OnlyForward
<1>1. PICK r \in SlotRecord : r = slots[b]
  BY SlotFields
<1>2. /\ r.funded \in BOOLEAN /\ r.minted \in BOOLEAN
      /\ r.balance \in Nat /\ r.quantity \in Nat /\ r.swept \in Nat
      /\ creditedOf[b] \in Nat /\ chargedOf[b] \in Nat
      /\ SlotFits(r, chargedOf[b], creditedOf[b])
  BY <1>1, SlotFields
<1>3. PICK w \in Nat : w = Payout(b)
  <2>1. r.quantity \div 2 \in Nat
    BY <1>2
  <2> QED
    BY <1>1, <1>2, <2>1 DEF Payout
<1>4. PICK s : s = [r EXCEPT !.quantity = 0, !.balance = r.balance + w]
  OBVIOUS
<1>5. /\ r.quantity > 0 /\ verdict[b] # "OPEN"
      /\ slots' = [slots EXCEPT ![b] = s]
      /\ inSlots' = inSlots + w /\ wallet' = wallet + w
      /\ UNCHANGED <<desk, paused, balanceOf, allowanceOf, deposited, chargedOf, creditedOf,
                     owed, pool, verdict>>
  BY <1>1, <1>3, <1>4 DEF SettleSlot, CanSettle, adminVars, ownerVars, keyVars, DeskInv, RecordsTypeOK
<1>6. /\ s \in SlotRecord /\ s.funded = r.funded /\ s.balance = r.balance + w
      /\ s.minted = r.minted /\ s.quantity = 0 /\ s.swept = r.swept
  <2>1. r.balance + w \in Nat
    BY <1>2
  <2> QED
    BY <1>4, <2>1 DEF SlotRecord
<1>7. r.minted
  BY <1>2, <1>5 DEF SlotFits
<1>8. SlotFits(s, chargedOf[b], creditedOf[b])
  BY <1>2, <1>5, <1>6, <1>7 DEF SlotFits
<1>9. PICK e \in Int, n \in Int : e = w /\ n = 0
  OBVIOUS
<1>10. s.balance = slots[b].balance + e
  BY <1>1, <1>2, <1>6, <1>9
<1>11. (IF s.funded THEN 0 ELSE chargedOf[b]) + s.swept - creditedOf[b] = InPool(b) + n
  BY <1>1, <1>2, <1>6, <1>9 DEF InPool, Brought
<1>12. inSlots' = inSlots + e /\ pool' = pool + n /\ pool + n \in Nat
       /\ wallet' = wallet + (e + n)
  BY <1>5, <1>9, TotalsTyped
<1>13. /\ s.swept >= slots[b].swept /\ (slots[b].minted => s.minted)
  BY <1>1, <1>2, <1>6
<1> QED
  BY <1>5, <1>6, <1>8, <1>10, <1>11, <1>12, <1>13, SlotMoves

\* A slot that nothing was bought in gives back the whole stake.
LEMMA SweepKeeps ==
  ASSUME DeskInv, NEW b \in Bets, SweepSlotToPool(b)
  PROVE  /\ DeskInv' /\ OnlyForward
         /\ ~ slots[b].minted => chargedOf[b] <= slots'[b].swept
<1>1. PICK r \in SlotRecord : r = slots[b]
  BY SlotFields
<1>2. /\ r.funded \in BOOLEAN /\ r.minted \in BOOLEAN
      /\ r.balance \in Nat /\ r.quantity \in Nat /\ r.swept \in Nat
      /\ creditedOf[b] \in Nat /\ chargedOf[b] \in Nat
      /\ SlotFits(r, chargedOf[b], creditedOf[b])
  BY <1>1, SlotFields
<1>3. PICK s : s = [r EXCEPT !.balance = 0, !.swept = r.swept + r.balance]
  OBVIOUS
<1>4. /\ r.quantity = 0 /\ r.balance > 0
      /\ slots' = [slots EXCEPT ![b] = s]
      /\ inSlots' = inSlots - r.balance /\ pool' = pool + r.balance
      /\ UNCHANGED <<desk, paused, balanceOf, allowanceOf, deposited, chargedOf, creditedOf,
                     owed, wallet, verdict>>
  BY <1>1, <1>3 DEF SweepSlotToPool, CanSweep, SweptOut, adminVars, ownerVars, keyVars, DeskInv,
                    RecordsTypeOK
<1>5. /\ s \in SlotRecord /\ s.funded = r.funded /\ s.balance = 0
      /\ s.minted = r.minted /\ s.quantity = r.quantity /\ s.swept = r.swept + r.balance
  <2>1. r.swept + r.balance \in Nat
    BY <1>2
  <2> QED
    BY <1>3, <2>1 DEF SlotRecord
<1>6. r.funded
  BY <1>2, <1>4 DEF SlotFits
<1>7. ~ r.minted => r.balance = chargedOf[b]
  BY <1>2, <1>4, <1>6 DEF SlotFits
<1>8. SlotFits(s, chargedOf[b], creditedOf[b])
  BY <1>2, <1>4, <1>5, <1>6, <1>7 DEF SlotFits
<1>9. PICK e \in Int, n \in Int : e = - r.balance /\ n = r.balance
  BY <1>2
<1>10. s.balance = slots[b].balance + e
  BY <1>1, <1>2, <1>5, <1>9
<1>11. (IF s.funded THEN 0 ELSE chargedOf[b]) + s.swept - creditedOf[b] = InPool(b) + n
  BY <1>1, <1>2, <1>5, <1>6, <1>9 DEF InPool, Brought
<1>12. inSlots' = inSlots + e /\ pool' = pool + n /\ pool + n \in Nat
       /\ wallet' = wallet + (e + n)
  BY <1>2, <1>4, <1>9, TotalsTyped
<1>13. /\ s.swept >= slots[b].swept /\ (slots[b].minted => s.minted)
  BY <1>1, <1>2, <1>5
<1>14. DeskInv' /\ OnlyForward /\ slots'[b] = s
  <2>1. /\ slots' = [slots EXCEPT ![b] = s]
        /\ UNCHANGED <<desk, paused, balanceOf, allowanceOf, deposited, chargedOf, creditedOf,
                       owed, verdict>>
    BY <1>4
  <2> QED
    BY <2>1, <1>5, <1>8, <1>10, <1>11, <1>12, <1>13, SlotMoves
<1> QED
  BY <1>1, <1>2, <1>5, <1>7, <1>14

\* What an owner is credited for a bet: no more than what was swept of it, or the
\* stake of one that was bought.
Creditable(b, amount) ==
  amount <= slots[b].swept \/ (slots[b].minted /\ amount = chargedOf[b])

LEMMA CreditKeeps ==
  ASSUME DeskInv, NEW b \in Bets, NEW amount \in Nat, CreditFromPool(b, amount),
         Creditable(b, amount)
  PROVE  DeskInv' /\ OnlyForward
<1>0. RecordsTypeOK
  BY DEF DeskInv
<1>1. /\ creditedOf[b] = 0 /\ amount \in 1..pool
      /\ balanceOf' = [balanceOf EXCEPT ![OwnerOf[b]] = @ + amount]
      /\ owed' = owed + amount /\ pool' = pool - amount
      /\ creditedOf' = [creditedOf EXCEPT ![b] = amount]
      /\ UNCHANGED <<desk, paused, allowanceOf, deposited, chargedOf, slots, inSlots, wallet,
                     verdict>>
  BY DEF CreditFromPool, CanCredit, adminVars
<1>2. PICK d \in Int, z \in Int, n \in Int : d = amount /\ z = 0 /\ n = -amount
  OBVIOUS
<1>3. RecordsTypeOK' /\ OnlyBet(b) /\ creditedOf'[b] = amount
  <2>1. OwnerOf[b] \in Owners
    BY SetsAreFinite
  <2> QED
    BY <1>0, <1>1, <2>1 DEF RecordsTypeOK, OnlyBet
<1>4. PICK s \in SlotRecord : s = slots[b] /\ s = slots'[b]
  BY <1>1, SlotFields
<1>5. /\ s.balance \in Nat /\ s.swept \in Nat /\ chargedOf[b] \in Nat
      /\ SlotFits(s, chargedOf[b], creditedOf[b])
  BY <1>4, SlotFields
<1>6. SlotFits(slots'[b], chargedOf'[b], creditedOf'[b])
  BY <1>1, <1>3, <1>4, <1>5 DEF SlotFits, Creditable
<1>7. InPool(b)' = InPool(b) + n /\ creditedOf'[b] = creditedOf[b] + d
  BY <1>1, <1>2, <1>3, <1>4, <1>5 DEF InPool, Brought
<1>8. slots'[b].balance = slots[b].balance + z
  BY <1>2, <1>4, <1>5
<1>9. /\ owed' = owed + d /\ inSlots' = inSlots + z /\ pool' = pool + n
      /\ wallet' = wallet + (d + z + n)
  <2>1. inSlots \in Nat /\ pool \in Nat /\ wallet \in Nat
    BY TotalsTyped
  <2>2. pool' = pool + n /\ inSlots' = inSlots + z
    BY <1>1, <1>2, <2>1
  <2>3. d + z + n = 0
    BY <1>2
  <2> QED
    BY <1>1, <1>2, <2>1, <2>2, <2>3
<1>10. balanceOf' = [balanceOf EXCEPT ![OwnerOf[b]] = @ + d]
  BY <1>1, <1>2
<1>11. DeskInv'
  BY <1>1, <1>3, <1>6, <1>7, <1>8, <1>9, <1>10, DeskMoves
<1>12. BetForward(b)
  BY <1>1, <1>4, <1>5 DEF BetForward
<1> QED
  BY <1>0, <1>3, <1>11, <1>12, OneForward

-----------------------------------------------------------------------------
(* The walks.                                                              *)

\* A send under way, or in the queue, moves what its bet has for it.
StepFits(step, b, amount) ==
  /\ step \in {"fund", "mint", "refund-sweep"} => amount = chargedOf[b] /\ chargedOf[b] > 0
  /\ step \in {"finish-credit", "credit"} => amount <= slots[b].swept
  /\ step = "refund-credit" => Creditable(b, amount) /\ chargedOf[b] > 0

WalkFits(at) == StepFits(at.step, at.bet, at.amount)

WalksFit == \A p \in Processes : process[p] \in Walk => WalkFits(process[p])

\* The walk that waits for a transaction is at that send.
Awaits(at, tx) ==
  /\ at \in Walk /\ at.sent
  /\ at.step = tx.step /\ at.bet = tx.bet /\ at.amount = tx.amount

TxFits(tx) ==
  /\ StepFits(tx.step, tx.bet, tx.amount)
  /\ tx.by # Nobody => Awaits(process[tx.by], tx)

QueueFits == \A k \in 1..Len(queue) : TxFits(queue[k])
OneEach == \A k, l \in 1..Len(queue) :
  k # l => queue[k].by # queue[l].by \/ queue[k].by = Nobody

ServiceTypeOK ==
  /\ process \in [Processes -> Walk \cup {Idle}]
  /\ queue \in Seq(Tx)
  /\ ticket \in [Bets -> BOOLEAN] /\ faults \in 0..MaxFaults

IInv ==
  /\ DeskInv /\ ServiceTypeOK
  /\ WalksFit /\ QueueFits /\ OneEach
  /\ TicketsAreBought

(* Being idle is no walk.                                                  *)
LEMMA IdleIsNoWalk == Idle \notin Walk
BY DEF Idle, Walk, Steps, OpenSteps, CashoutSteps

LEMMA WalkFields ==
  ASSUME NEW at \in Walk
  PROVE  at.step \in Steps /\ at.bet \in Bets /\ at.amount \in Nat /\ at.sent \in BOOLEAN
BY DEF Walk

LEMMA TxFields ==
  ASSUME NEW tx \in Tx
  PROVE  /\ tx.step \in Steps /\ tx.bet \in Bets /\ tx.amount \in Nat
         /\ tx.by \in Processes \cup {Nobody}
BY DEF Tx

(* What a send moves stays there for it, whatever the contract does.       *)
LEMMA StepStays ==
  ASSUME DeskInv, DeskInv', OnlyForward, NEW step, NEW b \in Bets, NEW amount \in Nat,
         StepFits(step, b, amount)
  PROVE  StepFits(step, b, amount)'
<1>1. /\ chargedOf[b] > 0 => chargedOf'[b] = chargedOf[b]
      /\ slots'[b].swept >= slots[b].swept
      /\ slots[b].minted => slots'[b].minted
  BY DEF OnlyForward
<1>2. slots[b].swept \in Nat /\ slots'[b].swept \in Nat
  BY DEF DeskInv, RecordsTypeOK, SlotRecord
<1> QED
  BY <1>1, <1>2 DEF StepFits, Creditable

LEMMA WalkStays ==
  ASSUME DeskInv, DeskInv', OnlyForward, NEW at \in Walk, WalkFits(at)
  PROVE  WalkFits(at)'
BY WalkFields, StepStays DEF WalkFits

(* A purchase is never undone, so a ticket stands for one.                 *)
LEMMA TicketsStay ==
  ASSUME TicketsAreBought, OnlyForward, UNCHANGED ticket
  PROVE  TicketsAreBought'
BY DEF TicketsAreBought, OnlyForward

(* A queued transaction still fits while its walk waits where it is.       *)
LEMMA TxStays ==
  ASSUME DeskInv, DeskInv', OnlyForward, NEW tx \in Tx, TxFits(tx),
         tx.by # Nobody => process'[tx.by] = process[tx.by]
  PROVE  TxFits(tx)'
<1>1. StepFits(tx.step, tx.bet, tx.amount)'
  BY TxFields, StepStays DEF TxFits
<1> QED
  BY <1>1 DEF TxFits, Awaits

\* A call that no walk makes.
LEMMA ContractAlone ==
  ASSUME IInv, DeskInv', OnlyForward, UNCHANGED <<verdict, process, queue, ticket, faults>>
  PROVE  IInv'
<1>1. /\ DeskInv /\ ServiceTypeOK /\ WalksFit /\ QueueFits /\ OneEach /\ TicketsAreBought
      /\ queue \in Seq(Tx)
  BY DEF IInv, ServiceTypeOK
<1>2. ServiceTypeOK' /\ OneEach'
  BY <1>1 DEF ServiceTypeOK, OneEach
<1>3. WalksFit'
  BY <1>1, WalkStays DEF WalksFit
<1>4. QueueFits'
  <2> SUFFICES ASSUME NEW k \in 1..Len(queue) PROVE TxFits(queue[k])'
    BY DEF QueueFits
  <2>1. PICK tx \in Tx : tx = queue[k]
    BY <1>1
  <2>2. TxFits(tx)
    BY <1>1, <2>1 DEF QueueFits
  <2>3. TxFits(tx)'
    BY <1>1, <2>2, TxStays
  <2> QED
    BY <2>1, <2>3 DEF TxFits
<1>5. TicketsAreBought'
  BY <1>1, TicketsStay
<1> QED
  BY <1>2, <1>3, <1>4, <1>5 DEF IInv

\* A state of the contract that does not change is a step of nothing.
LEMMA NothingLost ==
  ASSUME DeskInv, UNCHANGED contractVars
  PROVE  DeskInv' /\ OnlyForward /\ UNCHANGED verdict
<1>1. UNCHANGED <<desk, paused, balanceOf, allowanceOf, deposited, chargedOf, creditedOf, slots,
                  owed, pool, inSlots, wallet, verdict>>
  BY DEF contractVars, adminVars, ownerVars, keyVars, totalVars
<1>2. DeskInv'
  BY <1>1 DEF DeskInv, RecordsTypeOK, SlotsFit, PoolIsEachBets, SlotBalances, PoolParts,
      Overdrawn, RefundedBought, Brought
<1>3. OnlyForward
  BY <1>1 DEF OnlyForward, DeskInv, RecordsTypeOK, SlotRecord
<1> QED
  BY <1>1, <1>2, <1>3

(* One walk goes on, or ends.                                              *)
LEMMA WalksAdvance ==
  ASSUME IInv, DeskInv', OnlyForward, UNCHANGED verdict,
         NEW p \in Processes, NEW w \in Walk \cup {Idle},
         process' = [process EXCEPT ![p] = w], w \in Walk => WalkFits(w)'
  PROVE  /\ WalksFit' /\ process' \in [Processes -> Walk \cup {Idle}]
         /\ process'[p] = w /\ \A q \in Processes \ {p} : process'[q] = process[q]
<1>1. process \in [Processes -> Walk \cup {Idle}] /\ WalksFit /\ DeskInv
  BY DEF IInv, ServiceTypeOK
<1>2. /\ process' \in [Processes -> Walk \cup {Idle}]
      /\ process'[p] = w /\ \A q \in Processes \ {p} : process'[q] = process[q]
  BY <1>1
<1>3. ASSUME NEW q \in Processes, process'[q] \in Walk PROVE WalkFits(process[q])'
  <2>1. CASE q = p
    BY <1>2, <1>3, <2>1 DEF WalkFits, StepFits
  <2>2. CASE q # p
    <3>1. PICK at \in Walk : at = process'[q] /\ at = process[q]
      BY <1>2, <1>3, <2>2
    <3>2. WalkFits(at)
      BY <1>1, <3>1 DEF WalksFit
    <3>3. WalkFits(at)'
      BY <1>1, <3>2, WalkStays
    <3> QED
      BY <3>1, <3>3 DEF WalkFits, StepFits
  <2> QED
    BY <2>1, <2>2
<1> QED
  BY <1>2, <1>3 DEF WalksFit

\* A walk that waits for no transaction goes on.
LEMMA WalkAlone ==
  ASSUME IInv, UNCHANGED contractVars, UNCHANGED <<queue, faults>>,
         ticket' \in [Bets -> BOOLEAN], TicketsAreBought',
         NEW p \in Processes, process[p] \in Walk => ~ process[p].sent,
         NEW w \in Walk \cup {Idle}, process' = [process EXCEPT ![p] = w],
         w \in Walk => WalkFits(w)
  PROVE  IInv'
<1>1. /\ DeskInv /\ ServiceTypeOK /\ QueueFits /\ OneEach /\ queue \in Seq(Tx)
      /\ DeskInv' /\ OnlyForward /\ UNCHANGED verdict
  BY NothingLost DEF IInv, ServiceTypeOK
<1>2. w \in Walk => WalkFits(w)'
  BY <1>1, WalkStays
<1>3. /\ WalksFit' /\ process' \in [Processes -> Walk \cup {Idle}]
      /\ \A q \in Processes \ {p} : process'[q] = process[q]
  BY <1>1, <1>2, WalksAdvance
<1>4. QueueFits'
  <2> SUFFICES ASSUME NEW k \in 1..Len(queue) PROVE TxFits(queue[k])'
    BY DEF QueueFits
  <2>1. PICK tx \in Tx : tx = queue[k]
    BY <1>1
  <2>2. TxFits(tx)
    BY <1>1, <2>1 DEF QueueFits
  <2>3. tx.by # p /\ tx.by \in Processes \cup {Nobody}
    BY <2>2, TxFields, ServiceAssumption DEF TxFits, Awaits
  <2>4. TxFits(tx)'
    BY <1>1, <1>3, <2>2, <2>3, TxStays
  <2> QED
    BY <2>1, <2>4 DEF TxFits
<1>5. ServiceTypeOK' /\ OneEach'
  BY <1>1, <1>3 DEF ServiceTypeOK, OneEach
<1> QED
  BY <1>1, <1>3, <1>4, <1>5 DEF IInv

\* A walk's send joins the queue.
LEMMA WalkSends ==
  ASSUME IInv, NEW p \in Processes, Send(p)
  PROVE  IInv'
<1>1. /\ DeskInv /\ ServiceTypeOK /\ WalksFit /\ QueueFits /\ OneEach /\ TicketsAreBought
      /\ queue \in Seq(Tx) /\ process \in [Processes -> Walk \cup {Idle}]
  BY DEF IInv, ServiceTypeOK
<1>2. PICK at \in Walk : at = process[p] /\ ~ at.sent
  BY <1>1 DEF Send
<1>3. PICK tx : tx = [by |-> p, step |-> at.step, bet |-> at.bet, amount |-> at.amount]
  OBVIOUS
<1>4. PICK w : w = [at EXCEPT !.sent = TRUE]
  OBVIOUS
<1>5. /\ queue' = Append(queue, tx) /\ process' = [process EXCEPT ![p] = w]
      /\ UNCHANGED contractVars /\ UNCHANGED ticket /\ UNCHANGED faults
  BY <1>2, <1>3, <1>4 DEF Send, Go
<1>6. DeskInv' /\ OnlyForward /\ UNCHANGED verdict
  BY <1>1, <1>5, NothingLost
<1>7. w \in Walk /\ w.sent /\ w.step = at.step /\ w.bet = at.bet /\ w.amount = at.amount
  BY <1>4 DEF Walk
<1>8. tx \in Tx /\ tx.by = p /\ tx.step = at.step /\ tx.bet = at.bet /\ tx.amount = at.amount
  BY <1>3, WalkFields DEF Tx
<1>9. WalkFits(at)
  BY <1>1, <1>2 DEF WalksFit
<1>10. WalkFits(w)' /\ StepFits(tx.step, tx.bet, tx.amount)'
  <2>1. WalkFits(at)'
    BY <1>1, <1>6, <1>9, WalkStays
  <2> QED
    BY <1>7, <1>8, <2>1 DEF WalkFits, StepFits
<1>11. /\ WalksFit' /\ process' \in [Processes -> Walk \cup {Idle}] /\ process'[p] = w
       /\ \A q \in Processes \ {p} : process'[q] = process[q]
  BY <1>5, <1>6, <1>7, <1>10, WalksAdvance
<1>12. /\ queue' \in Seq(Tx) /\ Len(queue') = Len(queue) + 1 /\ queue'[Len(queue) + 1] = tx
       /\ \A k \in 1..Len(queue) : queue'[k] = queue[k]
       /\ Len(queue) \in Nat
  BY <1>1, <1>5, <1>8
<1>13. \A k \in 1..Len(queue) : TxFits(queue[k]) /\ queue[k].by # p
  <2> TAKE k \in 1..Len(queue)
  <2>1. TxFits(queue[k])
    BY <1>1 DEF QueueFits
  <2> QED
    BY <1>2, <2>1, ServiceAssumption DEF TxFits, Awaits
<1>14. QueueFits'
  <2> SUFFICES ASSUME NEW k \in 1..Len(queue') PROVE TxFits(queue[k])'
    BY DEF QueueFits
  <2>1. CASE k = Len(queue) + 1
    <3>1. Awaits(process'[p], tx)
      BY <1>7, <1>8, <1>11 DEF Awaits
    <3> QED
      BY <1>8, <1>10, <1>12, <2>1, <3>1 DEF TxFits, Awaits
  <2>2. CASE k # Len(queue) + 1
    <3>1. k \in 1..Len(queue)
      BY <1>12, <2>2
    <3>2. PICK t \in Tx : t = queue[k] /\ t = queue'[k]
      BY <1>1, <1>12, <3>1
    <3>3. TxFits(t) /\ t.by # p
      BY <1>13, <3>1, <3>2
    <3>4. TxFits(t)'
      BY <1>1, <1>6, <1>11, <3>3, TxFields, TxStays
    <3> QED
      BY <3>2, <3>4 DEF TxFits, StepFits, Awaits
  <2> QED
    BY <2>1, <2>2
<1>15. OneEach'
  <2> SUFFICES ASSUME NEW k \in 1..Len(queue'), NEW l \in 1..Len(queue'), k # l
               PROVE  queue'[k].by # queue'[l].by \/ queue'[k].by = Nobody
    BY DEF OneEach
  <2>1. CASE k \in 1..Len(queue) /\ l \in 1..Len(queue)
    BY <1>1, <1>12, <2>1 DEF OneEach
  <2>2. CASE k = Len(queue) + 1 \/ l = Len(queue) + 1
    <3>1. CASE k = Len(queue) + 1
      <4>1. l \in 1..Len(queue)
        BY <1>12, <3>1
      <4> QED
        BY <1>8, <1>12, <1>13, <3>1, <4>1
    <3>2. CASE l = Len(queue) + 1
      <4>1. k \in 1..Len(queue)
        BY <1>12, <3>2
      <4> QED
        BY <1>8, <1>12, <1>13, <3>2, <4>1
    <3> QED
      BY <2>2, <3>1, <3>2
  <2> QED
    BY <1>12, <2>1, <2>2
<1>16. TicketsAreBought'
  BY <1>1, <1>5, <1>6, TicketsStay
<1> QED
  BY <1>1, <1>5, <1>6, <1>11, <1>12, <1>14, <1>15, <1>16 DEF IInv, ServiceTypeOK

\* The first of the queue is gone; only the walk that waited for it may move.
LEMMA QueueAdvances ==
  ASSUME IInv, DeskInv', OnlyForward, queue # << >>, queue' = Tail(queue),
         WalksFit', process' \in [Processes -> Walk \cup {Idle}],
         \A q \in Processes : q # Head(queue).by => process'[q] = process[q],
         ticket' \in [Bets -> BOOLEAN], TicketsAreBought', faults' \in 0..MaxFaults
  PROVE  IInv'
<1>1. DeskInv /\ QueueFits /\ OneEach /\ queue \in Seq(Tx)
  BY DEF IInv, ServiceTypeOK
<1>2. /\ queue' \in Seq(Tx) /\ Len(queue) \in Nat /\ Len(queue) > 0
      /\ Len(queue') = Len(queue) - 1 /\ Head(queue) = queue[1]
      /\ \A k \in 1..Len(queue') : k + 1 \in 2..Len(queue) /\ queue'[k] = queue[k + 1]
  BY <1>1
<1>3. QueueFits'
  <2> SUFFICES ASSUME NEW k \in 1..Len(queue') PROVE TxFits(queue[k])'
    BY DEF QueueFits
  <2>1. PICK j \in 2..Len(queue) : j = k + 1 /\ queue'[k] = queue[j]
    BY <1>2
  <2>2. PICK t \in Tx : t = queue[j]
    BY <1>1, <2>1
  <2>3. TxFits(t)
    BY <1>1, <2>2 DEF QueueFits
  <2>4. queue[j].by # queue[1].by \/ queue[j].by = Nobody
    BY <1>1, <1>2 DEF OneEach
  <2>5. t.by # Nobody => process'[t.by] = process[t.by]
    BY <1>2, <2>2, <2>4, TxFields
  <2>6. TxFits(t)'
    BY <1>1, <2>3, <2>5, TxStays
  <2> QED
    BY <2>1, <2>2, <2>6 DEF TxFits, StepFits, Awaits
<1>4. OneEach'
  <2> SUFFICES ASSUME NEW k \in 1..Len(queue'), NEW l \in 1..Len(queue'), k # l
               PROVE  queue'[k].by # queue'[l].by \/ queue'[k].by = Nobody
    BY DEF OneEach
  <2>1. /\ k + 1 \in 1..Len(queue) /\ l + 1 \in 1..Len(queue) /\ k + 1 # l + 1
        /\ queue'[k] = queue[k + 1] /\ queue'[l] = queue[l + 1]
    BY <1>2
  <2> QED
    BY <1>1, <2>1 DEF OneEach
<1> QED
  BY <1>2, <1>3, <1>4 DEF IInv, ServiceTypeOK

\* A walk stops waiting, and nobody waits for its transactions any more.
LEMMA WalkOrphans ==
  ASSUME IInv, UNCHANGED contractVars, UNCHANGED ticket, faults' \in 0..MaxFaults,
         NEW p \in Processes, Orphan(p),
         NEW w \in Walk \cup {Idle}, process' = [process EXCEPT ![p] = w],
         w \in Walk => WalkFits(w)
  PROVE  IInv'
<1>1. /\ DeskInv /\ ServiceTypeOK /\ QueueFits /\ OneEach /\ queue \in Seq(Tx)
      /\ TicketsAreBought /\ DeskInv' /\ OnlyForward /\ UNCHANGED verdict
  BY NothingLost DEF IInv, ServiceTypeOK
<1>2. w \in Walk => WalkFits(w)'
  BY <1>1, WalkStays
<1>3. /\ WalksFit' /\ process' \in [Processes -> Walk \cup {Idle}]
      /\ \A q \in Processes \ {p} : process'[q] = process[q]
  BY <1>1, <1>2, WalksAdvance
<1>4. \A k \in 1..Len(queue) : queue[k] \in Tx /\ [queue[k] EXCEPT !.by = Nobody] \in Tx
  <2> TAKE k \in 1..Len(queue)
  <2>1. PICK tx \in Tx : tx = queue[k]
    BY <1>1
  <2>2. PICK u : u = [tx EXCEPT !.by = Nobody]
    OBVIOUS
  <2>3. u \in Tx
    BY <2>2 DEF Tx
  <2> QED
    BY <2>1, <2>2, <2>3
<1>5. /\ queue' \in Seq(Tx) /\ Len(queue') = Len(queue)
      /\ \A k \in 1..Len(queue) : queue'[k] =
           IF queue[k].by = p THEN [queue[k] EXCEPT !.by = Nobody] ELSE queue[k]
  <2>1. queue' = [k \in 1..Len(queue) |->
                   IF queue[k].by = p THEN [queue[k] EXCEPT !.by = Nobody] ELSE queue[k]]
    BY DEF Orphan
  <2>2. Len(queue) \in Nat
    BY <1>1
  <2> QED
    BY <1>4, <2>1, <2>2
<1>6. QueueFits'
  <2> SUFFICES ASSUME NEW k \in 1..Len(queue) PROVE TxFits(queue[k])'
    BY <1>5 DEF QueueFits
  <2>1. PICK t \in Tx : t = queue[k] /\ TxFits(t)
    BY <1>4, <1>1 DEF QueueFits
  <2>2. CASE t.by = p
    <3>1. PICK u : u = queue'[k]
      OBVIOUS
    <3>2. u.by = Nobody /\ u.step = t.step /\ u.bet = t.bet /\ u.amount = t.amount
      BY <1>5, <2>1, <2>2, <3>1 DEF Tx
    <3>3. StepFits(t.step, t.bet, t.amount)'
      BY <1>1, <2>1, TxFields, StepStays DEF TxFits
    <3>4. TxFits(u)'
      BY <3>2, <3>3 DEF TxFits
    <3> QED
      BY <3>1, <3>4 DEF TxFits
  <2>3. CASE t.by # p
    <3>1. queue'[k] = t
      BY <1>5, <2>1, <2>3
    <3>2. TxFits(t)'
      BY <1>1, <1>3, <2>1, <2>3, TxFields, TxStays
    <3> QED
      BY <3>1, <3>2 DEF TxFits
  <2> QED
    BY <2>2, <2>3
<1>7. OneEach'
  <2> SUFFICES ASSUME NEW k \in 1..Len(queue), NEW l \in 1..Len(queue), k # l
               PROVE  queue'[k].by # queue'[l].by \/ queue'[k].by = Nobody
    BY <1>5 DEF OneEach
  <2>1. queue[k].by # queue[l].by \/ queue[k].by = Nobody
    BY <1>1 DEF OneEach
  <2>2. /\ queue'[k].by = IF queue[k].by = p THEN Nobody ELSE queue[k].by
        /\ queue'[l].by = IF queue[l].by = p THEN Nobody ELSE queue[l].by
    BY <1>4, <1>5 DEF Tx
  <2> QED
    BY <2>1, <2>2
<1>8. TicketsAreBought'
  BY <1>1, TicketsStay
<1> QED
  BY <1>1, <1>3, <1>5, <1>6, <1>7, <1>8 DEF IInv, ServiceTypeOK

(* Walks and transactions that wait still fit when neither they nor the    *)
(* verdicts change.                                                        *)
LEMMA WalksStay ==
  ASSUME IInv, DeskInv', OnlyForward, UNCHANGED process
  PROVE  WalksFit'
<1>1. DeskInv /\ WalksFit
  BY DEF IInv
<1> QED
  BY <1>1, WalkStays DEF WalksFit

LEMMA QueueStays ==
  ASSUME IInv, DeskInv', OnlyForward, UNCHANGED <<process, queue>>
  PROVE  QueueFits'
<1>1. DeskInv /\ QueueFits /\ queue \in Seq(Tx)
  BY DEF IInv, ServiceTypeOK
<1> SUFFICES ASSUME NEW k \in 1..Len(queue) PROVE TxFits(queue[k])'
  BY DEF QueueFits
<1>2. PICK tx \in Tx : tx = queue[k]
  BY <1>1
<1>3. TxFits(tx)
  BY <1>1, <1>2 DEF QueueFits
<1>4. TxFits(tx)'
  BY <1>1, <1>3, TxStays
<1> QED
  BY <1>2, <1>4 DEF TxFits

-----------------------------------------------------------------------------
(* The steps of the walks.                                                 *)

LEMMA AtIsWalk ==
  ASSUME NEW step \in Steps, NEW b \in Bets, NEW amount \in Nat
  PROVE  /\ At(step, b, amount) \in Walk
         /\ At(step, b, amount).step = step /\ At(step, b, amount).bet = b
         /\ At(step, b, amount).amount = amount
BY DEF At, Walk

(* The next step of a cash-out credits no more than what was swept.        *)
LEMMA HomeIs ==
  ASSUME NEW b \in Bets, NEW slot \in SlotRecord, NEW credited \in Nat,
         NEW w, w = NextHome(b, slot, credited)
  PROVE  /\ w \in Walk \cup {Idle}
         /\ w \in Walk => /\ w.bet = b /\ w.step \in CashoutSteps
                          /\ w.step = "credit" => w.amount <= slot.swept
<1>1. slot.swept \in Nat /\ slot.quantity \in Nat /\ slot.balance \in Nat
  BY DEF SlotRecord
<1>2. /\ "settle" \in Steps /\ "sweep" \in Steps /\ "credit" \in Steps
      /\ "settle" \in CashoutSteps /\ "sweep" \in CashoutSteps /\ "credit" \in CashoutSteps
  BY DEF Steps, CashoutSteps
<1>3. CASE w = Idle
  BY <1>3, IdleIsNoWalk
<1>4. CASE w = At("settle", b, 0) \/ w = At("sweep", b, 0)
  <2>1. PICK z \in Nat : z = 0
    OBVIOUS
  <2> QED
    BY <1>2, <1>4, <2>1, AtIsWalk
<1>5. CASE w = At("credit", b, OwedOf(slot, credited)) /\ OwedOf(slot, credited) > 0
  <2>1. PICK a \in Nat : a = OwedOf(slot, credited) /\ a <= slot.swept
    BY <1>1, <1>5 DEF OwedOf
  <2> QED
    BY <1>2, <1>5, <2>1, AtIsWalk
<1> QED
  BY <1>3, <1>4, <1>5 DEF NextHome

(* A request finds what its bet still lacks.                               *)
LEMMA OpenKeeps ==
  ASSUME IInv, NEW p \in Processes, NEW b \in Bets, OpenBet(p, b)
  PROVE  IInv'
<1>1. /\ DeskInv /\ ServiceTypeOK /\ TicketsAreBought
      /\ process[p] = Idle /\ process[p] \notin Walk
      /\ UNCHANGED contractVars /\ UNCHANGED <<queue, faults>>
  BY IdleIsNoWalk DEF IInv, OpenBet
<1>2. PICK s \in SlotRecord : s = slots[b]
  BY <1>1, SlotFields
<1>3. /\ s.funded \in BOOLEAN /\ s.minted \in BOOLEAN /\ s.swept \in Nat
      /\ chargedOf[b] \in Nat /\ creditedOf[b] \in Nat
      /\ SlotFits(s, chargedOf[b], creditedOf[b])
  BY <1>1, <1>2, SlotFields
<1>4. DeskInv' /\ OnlyForward
  BY <1>1, NothingLost
<1>5. /\ "charge" \in Steps /\ "fund" \in Steps /\ "mint" \in Steps /\ "finish-credit" \in Steps
  BY DEF Steps, OpenSteps
<1>6. ASSUME NEW step \in {"charge", "fund", "mint", "finish-credit"}, NEW amount \in Nat,
             StepFits(step, b, amount), ~ s.minted,
             Go(p, At(step, b, amount)), UNCHANGED ticket
      PROVE  IInv'
  <2>1. PICK w \in Walk : /\ w = At(step, b, amount)
                          /\ w.step = step /\ w.bet = b /\ w.amount = amount
    BY <1>5, <1>6, AtIsWalk
  <2>2. WalkFits(w)
    BY <1>2, <1>6, <2>1 DEF WalkFits
  <2>3. ticket' \in [Bets -> BOOLEAN] /\ TicketsAreBought'
    BY <1>1, <1>4, <1>6, TicketsStay DEF ServiceTypeOK
  <2>4. process' = [process EXCEPT ![p] = w]
    BY <1>6, <2>1 DEF Go
  <2> QED
    BY <1>1, <2>2, <2>3, <2>4, WalkAlone
<1>7. CASE chargedOf[b] = 0 /\ Go(p, At("charge", b, Stake)) /\ UNCHANGED ticket
  <2>1. Stake \in Nat /\ ~ s.minted
    BY <1>3, <1>7, DeskAssumption DEF SlotFits
  <2>2. StepFits("charge", b, Stake)
    BY DEF StepFits
  <2> QED
    BY <1>6, <1>7, <2>1, <2>2
<1>8. CASE chargedOf[b] > 0 /\ ~ s.funded /\ Go(p, At("fund", b, chargedOf[b])) /\ UNCHANGED ticket
  <2>1. ~ s.minted /\ StepFits("fund", b, chargedOf[b])
    BY <1>3, <1>8 DEF SlotFits, StepFits
  <2> QED
    BY <1>3, <1>6, <1>8, <2>1
<1>9. CASE s.funded /\ ~ s.minted /\ Owed(b) > 0 /\ Go(p, At("finish-credit", b, Owed(b)))
           /\ UNCHANGED ticket
  <2>1. PICK a \in Nat : a = Owed(b) /\ a <= slots[b].swept
    BY <1>2, <1>3, <1>9 DEF Owed, OwedOf
  <2>2. StepFits("finish-credit", b, a)
    BY <2>1 DEF StepFits
  <2> QED
    BY <1>6, <1>9, <2>1, <2>2
<1>10. CASE s.funded /\ ~ s.minted /\ Go(p, At("mint", b, chargedOf[b])) /\ UNCHANGED ticket
  <2>1. StepFits("mint", b, chargedOf[b])
    BY <1>3, <1>10 DEF SlotFits, StepFits
  <2> QED
    BY <1>3, <1>6, <1>10, <2>1
<1>11. CASE s.minted /\ ticket' = [ticket EXCEPT ![b] = TRUE] /\ UNCHANGED process
  <2>1. ticket \in [Bets -> BOOLEAN]
    BY <1>1 DEF ServiceTypeOK
  <2>2. ticket' \in [Bets -> BOOLEAN] /\ \A c \in Bets : ticket'[c] => c = b \/ ticket[c]
    BY <1>11, <2>1
  <2>3. TicketsAreBought'
    BY <1>1, <1>2, <1>4, <1>11, <2>2 DEF TicketsAreBought, OnlyForward
  <2>4. process' = [process EXCEPT ![p] = Idle]
    BY <1>1, <1>11 DEF ServiceTypeOK
  <2> QED
    BY <1>1, <2>2, <2>3, <2>4, IdleIsNoWalk, WalkAlone
<1> QED
  BY <1>2, <1>7, <1>8, <1>9, <1>10, <1>11 DEF OpenBet

(* A cash-out begins where the bet stands.                                 *)
LEMMA CashOutKeeps ==
  ASSUME IInv, NEW p \in Processes, NEW b \in Bets, CashOut(p, b)
  PROVE  IInv'
<1>1. /\ DeskInv /\ ServiceTypeOK /\ TicketsAreBought
      /\ process[p] \notin Walk
      /\ UNCHANGED contractVars /\ UNCHANGED <<queue, faults>> /\ UNCHANGED ticket
  BY IdleIsNoWalk DEF IInv, CashOut
<1>2. DeskInv' /\ OnlyForward
  BY <1>1, NothingLost
<1>3. PICK w : w = NextHome(b, slots[b], creditedOf[b])
  OBVIOUS
<1>4. PICK s \in SlotRecord, c \in Nat : s = slots[b] /\ c = creditedOf[b]
  BY <1>1, SlotFields
<1>5. /\ w \in Walk \cup {Idle}
      /\ w \in Walk => /\ w.bet = b /\ w.step \in CashoutSteps
                       /\ w.step = "credit" => w.amount <= s.swept
  BY <1>3, <1>4, HomeIs
<1>6. w \in Walk => WalkFits(w)
  BY <1>4, <1>5 DEF WalkFits, StepFits, CashoutSteps, OpenSteps
<1>7. process' = [process EXCEPT ![p] = w]
  BY <1>3 DEF CashOut, Go
<1>8. ticket' \in [Bets -> BOOLEAN] /\ TicketsAreBought'
  BY <1>1, <1>2, TicketsStay DEF ServiceTypeOK
<1> QED
  BY <1>1, <1>5, <1>6, <1>7, <1>8, WalkAlone

(* What a failed send is answered with moves the same stake.               *)
LEMMA FailureFits ==
  ASSUME NEW at \in Walk, WalkFits(at), NEW w, w = AfterFailure(at)
  PROVE  w \in Walk \cup {Idle} /\ (w \in Walk => WalkFits(w))
<1>1. CASE w = Idle
  BY <1>1, IdleIsNoWalk
<1>2. CASE at.step = "mint" /\ w = At("refund-sweep", at.bet, at.amount)
  <2>1. at.bet \in Bets /\ at.amount \in Nat /\ "refund-sweep" \in Steps
    BY WalkFields DEF Steps, OpenSteps
  <2>2. w \in Walk /\ w.step = "refund-sweep" /\ w.bet = at.bet /\ w.amount = at.amount
    BY <1>2, <2>1, AtIsWalk
  <2>3. WalkFits(w)
    BY <1>2, <2>2 DEF WalkFits, StepFits, OpenSteps
  <2> QED
    BY <2>2, <2>3
<1> QED
  BY <1>1, <1>2 DEF AfterFailure

(* A walk whose simulation is refused, or that stops, or misreads a reply. *)
LEMMA RefuseKeeps ==
  ASSUME IInv, NEW p \in Processes, Refuse(p)
  PROVE  IInv'
<1>1. /\ DeskInv /\ ServiceTypeOK /\ TicketsAreBought /\ WalksFit
      /\ UNCHANGED contractVars /\ UNCHANGED <<queue, faults>> /\ UNCHANGED ticket
  BY DEF IInv, Refuse
<1>2. PICK at \in Walk : at = process[p] /\ ~ at.sent
  BY <1>1 DEF Refuse, ServiceTypeOK
<1>3. PICK w : w = AfterFailure(at)
  OBVIOUS
<1>4. w \in Walk \cup {Idle} /\ (w \in Walk => WalkFits(w))
  <2>1. WalkFits(at)
    BY <1>1, <1>2 DEF WalksFit
  <2> QED
    BY <1>3, <2>1, FailureFits
<1>5. process' = [process EXCEPT ![p] = w]
  BY <1>2, <1>3 DEF Refuse, Go
<1>6. ticket' \in [Bets -> BOOLEAN] /\ TicketsAreBought'
  BY <1>1, NothingLost, TicketsStay DEF ServiceTypeOK
<1> QED
  BY <1>1, <1>2, <1>4, <1>5, <1>6, WalkAlone

LEMMA FaultTyped ==
  ASSUME ServiceTypeOK, Fault \/ UNCHANGED faults
  PROVE  faults' \in 0..MaxFaults
<1>1. MaxFaults \in Nat
  BY ServiceAssumption
<1> QED
  BY <1>1 DEF ServiceTypeOK, Fault

LEMMA GiveUpKeeps ==
  ASSUME IInv, NEW p \in Processes, GiveUp(p)
  PROVE  IInv'
<1>1. /\ ServiceTypeOK /\ UNCHANGED contractVars /\ UNCHANGED ticket /\ Orphan(p)
      /\ process' = [process EXCEPT ![p] = Idle]
      /\ Fault \/ UNCHANGED faults
  BY DEF IInv, GiveUp, Go
<1>2. faults' \in 0..MaxFaults
  BY <1>1, FaultTyped
<1> QED
  BY <1>1, <1>2, IdleIsNoWalk, WalkOrphans

LEMMA LoseReplyKeeps ==
  ASSUME IInv, NEW p \in Processes, LoseReply(p)
  PROVE  IInv'
<1>1. /\ ServiceTypeOK /\ WalksFit /\ UNCHANGED contractVars /\ UNCHANGED ticket /\ Orphan(p)
      /\ Fault
  BY DEF IInv, LoseReply
<1>2. faults' \in 0..MaxFaults
  BY <1>1, FaultTyped
<1>3. PICK at \in Walk : at = process[p]
  BY <1>1 DEF LoseReply, ServiceTypeOK
<1>4. PICK w : w = AfterFailure(at)
  OBVIOUS
<1>5. w \in Walk \cup {Idle} /\ (w \in Walk => WalkFits(w))
  <2>1. WalkFits(at)
    BY <1>1, <1>3 DEF WalksFit
  <2> QED
    BY <1>4, <2>1, FailureFits
<1>6. process' = [process EXCEPT ![p] = w]
  BY <1>3, <1>4 DEF LoseReply, Go
<1> QED
  BY <1>1, <1>2, <1>5, <1>6, WalkOrphans

-----------------------------------------------------------------------------
(* A transaction that is mined.                                            *)

\* What the contract's state holds for the walk that waits for tx, once tx lands.
LandedFor(tx) ==
  /\ tx.step = "charge" => chargedOf'[tx.bet] = tx.amount /\ tx.amount > 0
  /\ tx.step = "fund" => tx.amount = chargedOf'[tx.bet] /\ tx.amount > 0
  /\ tx.step = "mint" => slots'[tx.bet].minted
  /\ tx.step = "refund-sweep" =>
       tx.amount = chargedOf'[tx.bet] /\ tx.amount > 0 /\ Creditable(tx.bet, tx.amount)'

(* Every call the desk sends keeps the books, for it moves what fits.      *)
LEMMA LandingKeeps ==
  ASSUME IInv, NEW tx \in Tx, TxFits(tx), Lands(tx)
  PROVE  DeskInv' /\ OnlyForward /\ UNCHANGED verdict /\ LandedFor(tx)
<1>1. /\ DeskInv /\ tx.step \in Steps /\ tx.bet \in Bets /\ tx.amount \in Nat
      /\ StepFits(tx.step, tx.bet, tx.amount)
  BY TxFields DEF IInv, TxFits
<1>2. CASE tx.step = "charge"
  <2>1. ChargeToPool(tx.bet, tx.amount)
    BY <1>2 DEF Lands
  <2>2. DeskInv' /\ OnlyForward /\ chargedOf'[tx.bet] = tx.amount
    BY <1>1, <2>1, ChargeKeeps
  <2>3. balanceOf[OwnerOf[tx.bet]] \in Nat
    BY <1>1, SetsAreFinite DEF DeskInv, RecordsTypeOK
  <2>4. tx.amount > 0 /\ UNCHANGED verdict
    BY <1>1, <2>1, <2>3 DEF ChargeToPool, CanCharge
  <2> QED
    BY <1>2, <2>2, <2>4 DEF LandedFor
<1>3. CASE tx.step = "fund"
  <2>1. FundSlot(tx.bet, tx.amount) /\ tx.amount = chargedOf[tx.bet] /\ chargedOf[tx.bet] > 0
    BY <1>1, <1>3 DEF Lands, StepFits
  <2>2. DeskInv' /\ OnlyForward
    BY <1>1, <2>1, FundKeeps
  <2>3. UNCHANGED verdict /\ chargedOf'[tx.bet] = chargedOf[tx.bet]
    BY <1>1, <2>1 DEF FundSlot, keyVars
  <2> QED
    BY <1>3, <2>1, <2>2, <2>3 DEF LandedFor
<1>4. CASE tx.step = "mint"
  <2>1. PICK fill \in Fills : MintInSlot(tx.bet, fill)
    BY <1>4 DEF Lands
  <2>2. DeskInv' /\ OnlyForward /\ slots'[tx.bet].minted
    BY <1>1, <2>1, MintKeeps
  <2> QED
    BY <1>4, <2>1, <2>2 DEF LandedFor, MintInSlot
<1>5. CASE tx.step = "settle"
  <2>1. SettleSlot(tx.bet)
    BY <1>5 DEF Lands
  <2>2. DeskInv' /\ OnlyForward
    BY <1>1, <2>1, SettleKeeps
  <2> QED
    BY <1>5, <2>1, <2>2 DEF LandedFor, SettleSlot
<1>6. CASE tx.step \in {"sweep", "refund-sweep"}
  <2>1. SweepSlotToPool(tx.bet)
    BY <1>6 DEF Lands
  <2>2. /\ DeskInv' /\ OnlyForward
        /\ ~ slots[tx.bet].minted => chargedOf[tx.bet] <= slots'[tx.bet].swept
    BY <1>1, <2>1, SweepKeeps
  <2>3. tx.step = "refund-sweep" => tx.amount = chargedOf[tx.bet] /\ tx.amount > 0
    BY <1>1 DEF StepFits
  <2>4. UNCHANGED verdict /\ chargedOf' = chargedOf
    BY <2>1 DEF SweepSlotToPool, keyVars
  <2>5. slots[tx.bet].minted => slots'[tx.bet].minted
    BY <1>1, <2>2 DEF OnlyForward
  <2>6. tx.step = "refund-sweep" => Creditable(tx.bet, tx.amount)'
    BY <2>2, <2>3, <2>4, <2>5 DEF Creditable
  <2> QED
    BY <1>6, <2>2, <2>3, <2>4, <2>6 DEF LandedFor
<1>7. CASE tx.step \in {"refund-credit", "finish-credit", "credit"}
  <2>1. CreditFromPool(tx.bet, tx.amount) /\ Creditable(tx.bet, tx.amount)
    BY <1>1, <1>7 DEF Lands, StepFits, Creditable
  <2>2. DeskInv' /\ OnlyForward
    BY <1>1, <2>1, CreditKeeps
  <2> QED
    BY <1>7, <2>1, <2>2 DEF LandedFor, CreditFromPool
<1> QED
  BY <1>1, <1>2, <1>3, <1>4, <1>5, <1>6, <1>7 DEF Steps, OpenSteps, CashoutSteps

(* The walk that awaited tx goes on to a step that fits.                   *)
LEMMA SuccessFits ==
  ASSUME DeskInv, DeskInv', OnlyForward, UNCHANGED verdict,
         NEW tx \in Tx, LandedFor(tx), NEW at \in Walk, Awaits(at, tx), WalkFits(at),
         NEW w, w = AfterSuccess(at)
  PROVE  w \in Walk \cup {Idle} /\ (w \in Walk => WalkFits(w)')
<1>1. PICK step \in Steps, b \in Bets, amount \in Nat :
        /\ step = at.step /\ b = at.bet /\ amount = at.amount
        /\ step = tx.step /\ b = tx.bet /\ amount = tx.amount
  BY WalkFields DEF Awaits
<1>2. /\ slots[b] \in SlotRecord /\ slots'[b] \in SlotRecord
      /\ chargedOf'[b] \in Nat /\ creditedOf'[b] \in Nat
      /\ SlotFits(slots[b], chargedOf[b], creditedOf[b])
      /\ SlotFits(slots'[b], chargedOf'[b], creditedOf'[b])
  BY DEF DeskInv, RecordsTypeOK, SlotsFit
<1>3. CASE w = Idle
  BY <1>3, IdleIsNoWalk
<1>4. CASE step = "charge" /\ w = At("fund", b, amount)
  <2>1. "fund" \in Steps
    BY DEF Steps, OpenSteps
  <2>2. w \in Walk /\ w.step = "fund" /\ w.bet = b /\ w.amount = amount
    BY <1>4, <2>1, AtIsWalk
  <2>3. amount = chargedOf'[b] /\ chargedOf'[b] > 0
    BY <1>1, <1>4 DEF LandedFor
  <2>4. WalkFits(w)'
    BY <1>4, <2>2, <2>3 DEF WalkFits, StepFits, OpenSteps
  <2> QED
    BY <2>2, <2>4
<1>5. CASE step = "fund" /\ w = At("mint", b, amount)
  <2>1. "mint" \in Steps
    BY DEF Steps, OpenSteps
  <2>2. w \in Walk /\ w.step = "mint" /\ w.bet = b /\ w.amount = amount
    BY <1>5, <2>1, AtIsWalk
  <2>3. amount = chargedOf'[b] /\ chargedOf'[b] > 0
    BY <1>1, <1>5 DEF LandedFor
  <2>4. WalkFits(w)'
    BY <1>5, <2>2, <2>3 DEF WalkFits, StepFits, OpenSteps
  <2> QED
    BY <2>2, <2>4
<1>6. CASE step = "refund-sweep" /\ w = At("refund-credit", b, amount)
  <2>1. "refund-credit" \in Steps
    BY DEF Steps, OpenSteps
  <2>2. w \in Walk /\ w.step = "refund-credit" /\ w.bet = b /\ w.amount = amount
    BY <1>6, <2>1, AtIsWalk
  <2>3. Creditable(b, amount)' /\ chargedOf'[b] > 0
    BY <1>1, <1>6 DEF LandedFor
  <2>4. WalkFits(w)'
    BY <1>6, <2>2, <2>3 DEF WalkFits, StepFits, OpenSteps, Creditable
  <2> QED
    BY <2>2, <2>4
<1>7. CASE step \in {"settle", "sweep"} /\ w = NextHome(b, slots'[b], creditedOf'[b])
  <2>1. PICK s \in SlotRecord, c \in Nat : s = slots'[b] /\ c = creditedOf'[b]
    BY <1>2
  <2>2. /\ w \in Walk \cup {Idle}
        /\ w \in Walk => /\ w.bet = b /\ w.step \in CashoutSteps
                         /\ w.step = "credit" => w.amount <= s.swept
    BY <1>7, <2>1, HomeIs
  <2>3. w \in Walk => WalkFits(w)'
    BY <2>1, <2>2 DEF WalkFits, StepFits, CashoutSteps, OpenSteps
  <2> QED
    BY <2>2, <2>3
<1> QED
  BY <1>1, <1>3, <1>4, <1>5, <1>6, <1>7 DEF AfterSuccess

\* The head of the queue, what its awaiting walk is at, and what it becomes.
LEMMA MineKeeps ==
  ASSUME IInv, Mine
  PROVE  IInv'
<1>1. /\ DeskInv /\ ServiceTypeOK /\ WalksFit /\ QueueFits /\ TicketsAreBought
      /\ queue \in Seq(Tx) /\ process \in [Processes -> Walk \cup {Idle}]
      /\ ticket \in [Bets -> BOOLEAN] /\ faults \in 0..MaxFaults
  BY DEF IInv, ServiceTypeOK
<1>2. /\ queue # << >> /\ queue' = Tail(queue) /\ faults' \in 0..MaxFaults
  BY <1>1 DEF Mine
<1>3. PICK tx \in Tx : tx = Head(queue) /\ TxFits(tx)
  <2>1. 1 \in 1..Len(queue) /\ Head(queue) = queue[1] /\ queue[1] \in Tx
    BY <1>1, <1>2
  <2> QED
    BY <1>1, <2>1 DEF QueueFits
<1>4. tx.bet \in Bets /\ tx.by \in Processes \cup {Nobody}
  BY TxFields
<1>5. tx.by # Nobody => /\ tx.by \in Processes /\ process[tx.by] \in Walk
                        /\ Awaits(process[tx.by], tx) /\ WalkFits(process[tx.by])
  BY <1>1, <1>3, <1>4 DEF TxFits, Awaits, WalksFit
<1>6. ASSUME DeskInv', OnlyForward, UNCHANGED verdict,
             ticket' \in [Bets -> BOOLEAN], TicketsAreBought',
             NEW w \in Walk \cup {Idle}, w \in Walk => WalkFits(w)',
             IF tx.by # Nobody THEN Go(tx.by, w) ELSE UNCHANGED process
      PROVE  IInv'
  <2>1. /\ WalksFit' /\ process' \in [Processes -> Walk \cup {Idle}]
        /\ \A q \in Processes : q # tx.by => process'[q] = process[q]
    <3>1. CASE tx.by # Nobody
      <4>1. PICK p \in Processes : p = tx.by
        BY <1>5, <3>1
      <4>2. process' = [process EXCEPT ![p] = w]
        BY <1>6, <3>1, <4>1 DEF Go
      <4>3. /\ WalksFit' /\ process' \in [Processes -> Walk \cup {Idle}]
            /\ process'[p] = w /\ \A q \in Processes \ {p} : process'[q] = process[q]
        BY <1>6, <4>2, WalksAdvance
      <4> QED
        BY <4>1, <4>3
    <3>2. CASE tx.by = Nobody
      BY <1>1, <1>6, <3>2, WalksStay
    <3> QED
      BY <3>1, <3>2
  <2> QED
    BY <1>2, <1>3, <1>6, <2>1, QueueAdvances
<1>7. CASE /\ Lands(tx)
           /\ IF tx.by # Nobody THEN Go(tx.by, AfterSuccess(process[tx.by])) ELSE UNCHANGED process
           /\ ticket' = [ticket EXCEPT ![tx.bet] = @ \/ (tx.by # Nobody /\ Seals(tx))]
  <2>1. DeskInv' /\ OnlyForward /\ UNCHANGED verdict /\ LandedFor(tx)
    BY <1>3, <1>7, LandingKeeps
  <2>2. /\ ticket' \in [Bets -> BOOLEAN]
        /\ \A c \in Bets : ticket'[c] => ticket[c] \/ (c = tx.bet /\ Seals(tx))
    BY <1>1, <1>4, <1>7
  <2>3. TicketsAreBought'
    <3> SUFFICES ASSUME NEW c \in Bets, ticket'[c] PROVE slots'[c].minted
      BY DEF TicketsAreBought
    <3>1. CASE ticket[c]
      BY <1>1, <2>1, <3>1 DEF TicketsAreBought, OnlyForward
    <3>2. CASE c = tx.bet /\ Seals(tx)
      BY <2>1, <3>2 DEF Seals, LandedFor
    <3> QED
      BY <2>2, <3>1, <3>2
  <2>4. PICK w : w = IF tx.by # Nobody THEN AfterSuccess(process[tx.by]) ELSE Idle
    OBVIOUS
  <2>5. w \in Walk \cup {Idle} /\ (w \in Walk => WalkFits(w)')
    <3>1. CASE tx.by # Nobody
      <4>1. PICK at \in Walk : at = process[tx.by] /\ Awaits(at, tx) /\ WalkFits(at)
        BY <1>5, <3>1
      <4>2. w = AfterSuccess(at)
        BY <2>4, <3>1, <4>1
      <4> QED
        BY <1>1, <2>1, <4>1, <4>2, SuccessFits
    <3>2. CASE tx.by = Nobody
      BY <2>4, <3>2, IdleIsNoWalk
    <3> QED
      BY <3>1, <3>2
  <2>6. IF tx.by # Nobody THEN Go(tx.by, w) ELSE UNCHANGED process
    BY <1>7, <2>4
  <2> QED
    BY <1>6, <2>1, <2>2, <2>3, <2>5, <2>6
<1>8. CASE /\ IF tx.by # Nobody THEN Go(tx.by, AfterFailure(process[tx.by])) ELSE UNCHANGED process
           /\ UNCHANGED <<contractVars, ticket>>
  <2>1. DeskInv' /\ OnlyForward /\ UNCHANGED verdict /\ UNCHANGED ticket
    BY <1>1, <1>8, NothingLost
  <2>2. ticket' \in [Bets -> BOOLEAN] /\ TicketsAreBought'
    BY <1>1, <2>1, TicketsStay
  <2>3. PICK w : w = IF tx.by # Nobody THEN AfterFailure(process[tx.by]) ELSE Idle
    OBVIOUS
  <2>4. w \in Walk \cup {Idle} /\ (w \in Walk => WalkFits(w))
    <3>1. CASE tx.by # Nobody
      <4>1. PICK at \in Walk : at = process[tx.by] /\ WalkFits(at)
        BY <1>5, <3>1
      <4>2. w = AfterFailure(at)
        BY <2>3, <3>1, <4>1
      <4> QED
        BY <4>1, <4>2, FailureFits
    <3>2. CASE tx.by = Nobody
      BY <2>3, <3>2, IdleIsNoWalk
    <3> QED
      BY <3>1, <3>2
  <2>5. w \in Walk => WalkFits(w)'
    BY <1>1, <2>1, <2>4, WalkStays
  <2>6. IF tx.by # Nobody THEN Go(tx.by, w) ELSE UNCHANGED process
    BY <1>8, <2>3
  <2> QED
    BY <1>6, <2>1, <2>2, <2>4, <2>5, <2>6
<1> QED
  BY <1>3, <1>7, <1>8 DEF Mine

(* A transaction that is dropped; its walk goes on waiting.                *)
LEMMA DropKeeps ==
  ASSUME IInv, DropTx
  PROVE  IInv'
<1>1. /\ DeskInv /\ ServiceTypeOK /\ TicketsAreBought /\ Fault
      /\ queue # << >> /\ queue' = Tail(queue)
      /\ UNCHANGED contractVars /\ UNCHANGED process /\ UNCHANGED ticket
  BY DEF IInv, DropTx
<1>2. DeskInv' /\ OnlyForward /\ UNCHANGED verdict
  BY <1>1, NothingLost
<1>3. /\ WalksFit' /\ process' \in [Processes -> Walk \cup {Idle}]
      /\ \A q \in Processes : q # Head(queue).by => process'[q] = process[q]
  BY <1>1, <1>2, WalksStay DEF ServiceTypeOK
<1>4. ticket' \in [Bets -> BOOLEAN] /\ TicketsAreBought' /\ faults' \in 0..MaxFaults
  BY <1>1, <1>2, TicketsStay, FaultTyped DEF ServiceTypeOK
<1> QED
  BY <1>1, <1>2, <1>3, <1>4, QueueAdvances

LEMMA LoseTicketKeeps ==
  ASSUME IInv, NEW b \in Bets, LoseTicket(b)
  PROVE  IInv'
<1>1. /\ DeskInv /\ ServiceTypeOK /\ TicketsAreBought /\ OneEach /\ Fault
      /\ ticket' = [ticket EXCEPT ![b] = FALSE]
      /\ UNCHANGED contractVars /\ UNCHANGED <<process, queue>>
  BY DEF IInv, LoseTicket
<1>2. DeskInv' /\ OnlyForward /\ UNCHANGED verdict
  BY <1>1, NothingLost
<1>3. WalksFit' /\ QueueFits' /\ OneEach'
  BY <1>1, <1>2, WalksStay, QueueStays DEF OneEach
<1>4. ticket' \in [Bets -> BOOLEAN] /\ \A c \in Bets : ticket'[c] => ticket[c]
  BY <1>1 DEF ServiceTypeOK
<1>5. TicketsAreBought'
  BY <1>1, <1>2, <1>4 DEF TicketsAreBought, OnlyForward
<1>6. faults' \in 0..MaxFaults
  BY <1>1, FaultTyped
<1>7. ServiceTypeOK'
  BY <1>1, <1>4, <1>6 DEF ServiceTypeOK
<1> QED
  BY <1>2, <1>3, <1>5, <1>7 DEF IInv

-----------------------------------------------------------------------------
(* The owners, the contract's admin, and the Windows.                      *)

LEMMA OwnerKeeps ==
  ASSUME DeskInv, OwnerNext
  PROVE  DeskInv' /\ OnlyForward /\ UNCHANGED verdict
<1>1. /\ Deposits \subseteq Nat
      /\ \A o \in Owners : allowanceOf[o] \in Nat
  BY DeskAssumption DEF DeskInv, RecordsTypeOK
<1>2. ASSUME NEW o \in Owners, NEW amount \in Nat, NEW allowance \in Nat,
             DepositAndAllow(o, amount, allowance)
      PROVE  DeskInv' /\ OnlyForward /\ UNCHANGED verdict
  BY <1>2, DepositKeeps DEF DepositAndAllow
<1>3. CASE \E o \in Owners, a \in Deposits :
             DepositAndAllow(o, a, a) \/ Deposit(o, a) \/ Withdraw(o, a)
  <2>1. PICK o \in Owners, a \in Nat :
          DepositAndAllow(o, a, a) \/ DepositAndAllow(o, a, allowanceOf[o]) \/ Withdraw(o, a)
    BY <1>1, <1>3 DEF Deposit
  <2>2. CASE DepositAndAllow(o, a, a) \/ DepositAndAllow(o, a, allowanceOf[o])
    BY <1>1, <1>2, <2>2
  <2>3. CASE Withdraw(o, a)
    BY <2>3, WithdrawKeeps DEF Withdraw
  <2> QED
    BY <2>1, <2>2, <2>3
<1>4. CASE \E o \in Owners : Allow(o, 0)
  <2>1. PICK o \in Owners, z \in Nat : DepositAndAllow(o, z, z)
    BY <1>4 DEF Allow
  <2> QED
    BY <1>2, <2>1
<1> QED
  BY <1>3, <1>4 DEF OwnerNext

LEMMA AdminKeeps ==
  ASSUME DeskInv, (\E x \in PauseChoices : SetPaused(x)) \/ (\E k \in DeskKeys : SetDesk(k))
  PROVE  DeskInv' /\ OnlyForward /\ UNCHANGED verdict
<1>1. UNCHANGED <<balanceOf, allowanceOf, deposited, chargedOf, creditedOf, slots,
                  owed, pool, inSlots, wallet, verdict>>
  BY DEF SetPaused, SetDesk, ownerVars, keyVars, totalVars
<1>2. desk' \in DeskKeys /\ paused' \in BOOLEAN
  BY DeskAssumption DEF SetPaused, SetDesk, DeskInv, RecordsTypeOK
<1>3. DeskInv'
  BY <1>1, <1>2 DEF DeskInv, RecordsTypeOK, SlotsFit, PoolIsEachBets, SlotBalances, PoolParts,
      Overdrawn, RefundedBought, Brought
<1>4. OnlyForward
  BY <1>1 DEF OnlyForward, DeskInv, RecordsTypeOK, SlotRecord
<1> QED
  BY <1>1, <1>3, <1>4

(* A Window that is decided.                                               *)
LEMMA DecideKeeps ==
  ASSUME IInv, NEW b \in Bets, NEW v \in Verdicts[b], Decide(b, v)
  PROVE  IInv'
<1>1. /\ DeskInv /\ ServiceTypeOK /\ WalksFit /\ TicketsAreBought /\ OneEach
      /\ process \in [Processes -> Walk \cup {Idle}]
  BY DEF IInv, ServiceTypeOK
<1>2. /\ verdict' = [verdict EXCEPT ![b] = v]
      /\ UNCHANGED <<desk, paused, balanceOf, allowanceOf, deposited, chargedOf, creditedOf, slots,
                     owed, pool, inSlots, wallet>>
      /\ UNCHANGED <<process, queue, ticket, faults>>
  BY DEF Decide, Resolve, serviceVars, adminVars, ownerVars, keyVars, totalVars
<1>3. v \in {"WON", "LOST", "VOID"}
  BY ServiceAssumption
<1>4. /\ verdict' \in [Bets -> {"OPEN", "WON", "LOST", "VOID"}]
      /\ \A c \in Bets : verdict'[c] = verdict[c] \/ verdict'[c] # "OPEN"
      /\ \A c \in Bets : c # b => verdict'[c] = verdict[c]
  BY <1>1, <1>2, <1>3 DEF DeskInv, RecordsTypeOK
<1>5. DeskInv'
  <2>1. SlotsFit'
    <3> SUFFICES ASSUME NEW c \in Bets
                 PROVE  SlotFits(slots'[c], chargedOf'[c], creditedOf'[c])
      BY DEF SlotsFit
    <3>1. SlotFits(slots[c], chargedOf[c], creditedOf[c])
      BY <1>1 DEF DeskInv, SlotsFit
    <3> QED
      BY <1>2, <1>4, <3>1 DEF SlotFits
  <2>2. RecordsTypeOK' /\ PoolIsEachBets'
    BY <1>1, <1>2, <1>4
       DEF DeskInv, RecordsTypeOK, PoolIsEachBets, SlotBalances, PoolParts,
      Overdrawn, RefundedBought, Brought
  <2> QED
    BY <2>1, <2>2 DEF DeskInv
<1>6. OnlyForward
  BY <1>1, <1>2 DEF OnlyForward, DeskInv, RecordsTypeOK, SlotRecord
<1>7. WalksFit'
  BY <1>2, <1>5, <1>6, WalksStay
<1>8. QueueFits'
  BY <1>2, <1>5, <1>6, QueueStays
<1>9. TicketsAreBought' /\ OneEach' /\ ServiceTypeOK'
  BY <1>1, <1>2 DEF TicketsAreBought, OneEach, ServiceTypeOK
<1> QED
  BY <1>5, <1>7, <1>8, <1>9 DEF IInv

-----------------------------------------------------------------------------
LEMMA Start ==
  ASSUME Init
  PROVE  IInv
<1>1. /\ desk \in DeskKeys /\ paused = FALSE
      /\ balanceOf = [o \in Owners |-> 0] /\ allowanceOf = [o \in Owners |-> 0]
      /\ chargedOf = [b \in Bets |-> 0] /\ creditedOf = [b \in Bets |-> 0]
      /\ slots = [b \in Bets |-> NoSlot]
      /\ owed = 0 /\ pool = 0 /\ inSlots = 0 /\ wallet = 0 /\ deposited = 0
      /\ verdict = [b \in Bets |-> "OPEN"]
      /\ process = [p \in Processes |-> Idle] /\ queue = << >>
      /\ ticket = [b \in Bets |-> FALSE] /\ faults = 0
  BY DEF Init, DeskInit
<1>2. /\ NoSlot \in SlotRecord /\ NoSlot.funded = FALSE /\ NoSlot.minted = FALSE
      /\ NoSlot.balance = 0 /\ NoSlot.quantity = 0 /\ NoSlot.swept = 0
  BY DEF NoSlot, SlotRecord
<1>3. RecordsTypeOK
  BY <1>1, <1>2 DEF RecordsTypeOK
<1>4. SlotsFit
  BY <1>1, <1>2 DEF SlotsFit, SlotFits
<1>5. PoolIsEachBets
  <2>1. \A b \in Bets : Brought(b) = 0 /\ slots[b].balance = 0 /\ creditedOf[b] = 0
    BY <1>1, <1>2 DEF Brought
  <2>2. SlotBalances = [b \in Bets |-> 0] /\ PoolParts = [b \in Bets |-> 0]
    BY <2>1 DEF SlotBalances, PoolParts
  <2>3. /\ SumFunction([b \in Bets |-> 0]) = 0 /\ SumFunction([o \in Owners |-> 0]) = 0
    BY SetsAreFinite, TotalOfZeros
  <2> QED
    BY <1>1, <2>1, <2>2, <2>3 DEF PoolIsEachBets, Overdrawn
<1>6. ServiceTypeOK
  BY <1>1, ServiceAssumption DEF ServiceTypeOK
<1>7. WalksFit /\ QueueFits /\ OneEach /\ TicketsAreBought
  <2>1. WalksFit
    BY <1>1, IdleIsNoWalk DEF WalksFit
  <2>2. Len(queue) = 0
    BY <1>1
  <2> QED
    BY <1>1, <2>1, <2>2 DEF QueueFits, OneEach, TicketsAreBought
<1> QED
  BY <1>3, <1>4, <1>5, <1>6, <1>7 DEF IInv, DeskInv

(* A step of nothing.                                                      *)
LEMMA Stutter ==
  ASSUME IInv, UNCHANGED vars
  PROVE  IInv'
<1>1. UNCHANGED contractVars /\ UNCHANGED <<process, queue, ticket, faults>>
  BY DEF vars, serviceVars
<1>2. DeskInv' /\ OnlyForward /\ UNCHANGED verdict
  BY <1>1, NothingLost DEF IInv
<1> QED
  BY <1>1, <1>2, ContractAlone

(* Every step of the desk, its callers and its environment keeps IInv.     *)
LEMMA StepKeeps ==
  ASSUME IInv, [Next]_vars
  PROVE  IInv'
<1>1. DeskInv
  BY DEF IInv
<1>2. ASSUME DeskInv', OnlyForward, UNCHANGED verdict, UNCHANGED serviceVars PROVE IInv'
  BY <1>2, ContractAlone DEF serviceVars
<1>3. CASE OwnerNext /\ UNCHANGED serviceVars
  BY <1>1, <1>2, <1>3, OwnerKeeps
<1>4. CASE \E p \in Processes : \E b \in Serves[p] : OpenBet(p, b) \/ CashOut(p, b)
  <2>1. PICK p \in Processes, b \in Bets : OpenBet(p, b) \/ CashOut(p, b)
    BY <1>4, ServiceAssumption
  <2> QED
    BY <2>1, OpenKeeps, CashOutKeeps
<1>5. CASE \E p \in Processes : Send(p) \/ Refuse(p) \/ GiveUp(p) \/ LoseReply(p)
  BY <1>5, WalkSends, RefuseKeeps, GiveUpKeeps, LoseReplyKeeps
<1>6. CASE Mine \/ DropTx
  BY <1>6, MineKeeps, DropKeeps
<1>7. CASE \E b \in Bets : LoseTicket(b)
  BY <1>7, LoseTicketKeeps
<1>8. CASE \E b \in Bets : SettleSlot(b) /\ UNCHANGED serviceVars
  <2>1. PICK b \in Bets : SettleSlot(b) /\ UNCHANGED serviceVars
    BY <1>8
  <2>2. DeskInv' /\ OnlyForward /\ UNCHANGED verdict
    BY <1>1, <2>1, SettleKeeps DEF SettleSlot
  <2> QED
    BY <1>2, <2>1, <2>2
<1>9. CASE \/ \E x \in PauseChoices : SetPaused(x) /\ UNCHANGED serviceVars
           \/ \E k \in DeskKeys : SetDesk(k) /\ UNCHANGED serviceVars
  BY <1>1, <1>2, <1>9, AdminKeeps
<1>10. CASE \E b \in Bets : \E v \in Verdicts[b] : Decide(b, v)
  BY <1>10, DecideKeeps
<1>11. CASE UNCHANGED vars
  BY <1>11, Stutter
<1> QED
  BY <1>3, <1>4, <1>5, <1>6, <1>7, <1>8, <1>9, <1>10, <1>11 DEF Next

LEMMA AlwaysFits == Spec => []IInv
<1>1. Init => IInv
  BY Start
<1>2. IInv /\ [Next]_vars => IInv'
  BY StepKeeps
<1> QED
  BY <1>1, <1>2, PTL DEF Spec

\* Every variable keeps its type: the contract's totals in particular, which its
\* calls only add to and subtract from, never fall below zero (PrivateDesk.sol's
\* checked arithmetic never reverts on them).
THEOREM TypeCorrect == Spec => []TypeOK
<1>1. IInv => TypeOK
  <2> SUFFICES ASSUME IInv PROVE TypeOK
    OBVIOUS
  <2>1. DeskInv /\ RecordsTypeOK /\ ServiceTypeOK
    BY DEF IInv, DeskInv
  <2>2. owed \in Nat /\ pool \in Nat /\ inSlots \in Nat /\ wallet \in Nat
    BY <2>1, TotalsTyped
  <2>3. DeskTypeOK
    BY <2>1, <2>2 DEF DeskTypeOK, RecordsTypeOK
  <2> QED
    BY <2>1, <2>3 DEF TypeOK, ServiceTypeOK
<1> QED
  BY <1>1, AlwaysFits, PTL

\* The desk's money is what it owes, the pool is what the bets brought to it less
\* what was credited, and only a bet that was bought and refunded its stake was
\* credited more than it brought: with retries, lost replies, orphaned and dropped
\* transactions and two processes at one bet, nothing else is paid out of another
\* bet's money (PrivateDesk.sol joins no charge to a slot; openPrivateBet and
\* cashOutPrivateBet do).
THEOREM PoolStaysWhole == Spec => []PoolIsEachBets
<1>1. IInv => PoolIsEachBets
  BY DEF IInv, DeskInv
<1> QED
  BY <1>1, AlwaysFits, PTL

\* A signed claim stands for a position that was bought: it is sealed by the read
\* that shows the mint, or by the mint's receipt, and a mint is never undone.
THEOREM TicketsBought == Spec => []TicketsAreBought
<1>1. IInv => TicketsAreBought
  BY DEF IInv
<1> QED
  BY <1>1, AlwaysFits, PTL

=============================================================================
