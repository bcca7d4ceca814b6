------------------------ MODULE LeverageReserveProofs ------------------------
(***************************************************************************)
(* What holds of the leverage reserve for every choice of its constants:   *)
(* types, the repayment order, the list of live positions under swap and   *)
(* pop, and from that list that no supplier leaves at a stale value.       *)
(***************************************************************************)
EXTENDS LeverageReserve, SequenceTheorems, FiniteSums

LEMMA BpsIsNat == BPS \in Nat /\ BPS # 0
BY DEF BPS

LEMMA DivisionIsNat == ASSUME NEW a \in Nat, NEW b \in Nat, b # 0 PROVE a \div b \in Nat
OBVIOUS

LEMMA ProductIsNat == ASSUME NEW a \in Nat, NEW b \in Nat PROVE a * b \in Nat
OBVIOUS

LEMMA CeilDivIsNat == ASSUME NEW a \in Nat, NEW b \in Nat, b # 0 PROVE CeilDiv(a, b) \in Nat
<1>1. CASE a = 0
  BY <1>1 DEF CeilDiv
<1>2. CASE a # 0
  <2>1. a - 1 \in Nat
    BY <1>2
  <2>2. (a - 1) \div b \in Nat
    BY <2>1, DivisionIsNat
  <2> QED
    BY <1>2, <2>2 DEF CeilDiv
<1> QED
  BY <1>1, <1>2

LEMMA ProductGrows ==
  ASSUME NEW x \in Nat, NEW a \in Nat, NEW b \in Nat, a <= b
  PROVE  x * a <= x * b
<1>1. PICK d \in Nat : b = a + d
  <2>1. b - a \in Nat /\ b = a + (b - a)
    OBVIOUS
  <2> QED
    BY <2>1
<1>2. x * b = x * a + x * d
  BY <1>1
<1>3. x * a \in Nat /\ x * d \in Nat
  BY <1>1, ProductIsNat
<1> QED
  BY <1>2, <1>3

\* The deployed notional is positive: the premium is less than the front.
LEMMA ScaleIsPositive ==
  ASSUME params \in Params, NEW lev \in Nat, lev > BPS
  PROVE  DeployScale(lev) \in Nat \ {0}
<1>1. PICK q \in 0..(BPS - 1) : q = params.premiumBps
  BY DEF Params
<1>2. PICK x \in Nat : x = lev - BPS
  BY DEF BPS
<1>3. x * q \in Nat /\ x * q <= x * BPS
  <2>1. q \in Nat /\ BPS \in Nat /\ q <= BPS
    BY <1>1, BpsIsNat
  <2> QED
    BY <1>2, <2>1, ProductIsNat, ProductGrows
<1>4. lev * BPS = x * BPS + BPS * BPS
  BY <1>2 DEF BPS
<1>5. DeployScale(lev) = lev * BPS - x * q
  BY <1>1, <1>2 DEF DeployScale
<1>6. x * BPS \in Nat /\ BPS * BPS \in Nat \ {0}
  BY <1>2 DEF BPS
<1> QED
  BY <1>3, <1>4, <1>5, <1>6

LEMMA TermsTyped ==
  ASSUME params \in Params, NEW lev \in Nat, lev > BPS, NEW cost \in Nat
  PROVE  /\ Terms(cost, lev).fronted \in Nat
         /\ Terms(cost, lev).premium \in Nat
<1> DEFINE nominal == CeilDiv(cost * BPS * BPS, DeployScale(lev))
           fronted == (nominal * (lev - BPS)) \div BPS
           premium == (fronted * params.premiumBps) \div BPS
<1>1. BPS \in Nat /\ BPS # 0 /\ lev - BPS \in Nat
  BY DEF BPS
<1>2. cost * BPS * BPS \in Nat
  BY <1>1, ProductIsNat
<1>3. nominal \in Nat
  BY <1>2, ScaleIsPositive, CeilDivIsNat
<1>4. fronted \in Nat
  <2> HIDE DEF nominal
  <2>1. nominal * (lev - BPS) \in Nat
    BY <1>1, <1>3, ProductIsNat
  <2> QED
    BY <1>1, <2>1, DivisionIsNat
<1>5. premium \in Nat
  <2>1. params.premiumBps \in Nat
    <3>1. params.premiumBps \in 0..(BPS - 1)
      BY DEF Params
    <3> QED
      BY <3>1, BpsIsNat
  <2> HIDE DEF fronted
  <2>2. fronted * params.premiumBps \in Nat
    BY <1>4, <2>1, ProductIsNat
  <2> QED
    BY <1>1, <2>2, DivisionIsNat
<1> QED
  BY <1>4, <1>5 DEF Terms

-----------------------------------------------------------------------------
(* Types.                                                                  *)

LEMMA LedgerInits == LedgerInit => LedgerTypeOK
<1> SUFFICES ASSUME LedgerInit PROVE LedgerTypeOK
  OBVIOUS
<1>1. paused \in BOOLEAN
  BY Zenon DEF LedgerInit
<1>2. sharesOf \in [Suppliers -> Nat]
  BY DEF LedgerInit
<1>3. liquid \in Nat /\ supplyShares \in Nat /\ wallet \in Nat /\ intake \in Nat
  BY DEF LedgerInit
<1> QED
  BY <1>1, <1>2, <1>3, Zenon DEF LedgerTypeOK

LEMMA SharesTyped ==
  ASSUME LedgerTypeOK, NEW amount \in Nat, NEW tv \in Nat
  PROVE  SharesFor(amount, tv) \in Nat
<1>1. CASE supplyShares = 0 \/ tv = 0
  BY <1>1 DEF SharesFor
<1>2. CASE ~(supplyShares = 0 \/ tv = 0)
  <2>1. amount * supplyShares \in Nat
    BY ProductIsNat DEF LedgerTypeOK
  <2> QED
    BY <1>2, <2>1, DivisionIsNat DEF SharesFor, LedgerTypeOK
<1> QED
  BY <1>1, <1>2

LEMMA BuyTyped ==
  ASSUME LedgerTypeOK, NEW s \in Suppliers, NEW amount \in Nat, NEW tv \in Nat,
         Buy(s, amount, tv)
  PROVE  LedgerTypeOK'
<1> DEFINE n == SharesFor(amount, tv)
<1>1. n \in Nat
  BY SharesTyped
<1> HIDE DEF n
<1>2. supplyShares' = supplyShares + n /\ sharesOf' = [sharesOf EXCEPT ![s] = @ + n]
  BY DEF Buy, n
<1> QED
  BY <1>1, <1>2 DEF Buy, LedgerTypeOK

LEMMA RedeemTyped ==
  ASSUME LedgerTypeOK, wallet = liquid, NEW s \in Suppliers,
         NEW shares \in Nat \ {0}, NEW tv \in Nat, Redeem(s, shares, tv)
  PROVE  LedgerTypeOK'
<1> DEFINE w == WorthOf(shares, tv)
<1>1. w \in Nat
  <2>1. shares * tv \in Nat
    BY ProductIsNat
  <2>2. supplyShares \in Nat /\ supplyShares # 0
    BY DEF Redeem, LedgerTypeOK
  <2> QED
    BY <2>1, <2>2, DivisionIsNat DEF WorthOf
<1> HIDE DEF w
<1>2. w <= liquid /\ liquid' = liquid - w /\ wallet' = wallet - w
  BY DEF Redeem, w
<1> QED
  BY <1>1, <1>2 DEF Redeem, LedgerTypeOK

TypeInv == TypeOK /\ wallet = liquid

LEMMA PositionTyped ==
  ASSUME TypeOK, NEW i \in 1..Len(positions) PROVE positions[i] \in Position
BY DEF TypeOK

LEMMA PositionFields ==
  ASSUME NEW p \in Position
  PROVE  /\ p.quantity \in Nat /\ p.fronted \in Nat /\ p.proceeds \in Nat
         /\ p.reclaimed \in Nat /\ p.returned \in Nat /\ p.stake \in Nat
         /\ p.market \in Markets /\ p.outcome \in Sides /\ p.expiry \in Nat
BY DEF Position

LEMMA NewPositionTyped ==
  ASSUME NEW o \in Owners, NEW m \in Markets, NEW x \in Sides, NEW got \in Nat, NEW t,
         t.stake \in Nat, t.fronted \in Nat
  PROVE  NewPosition(o, m, x, got, t) \in Position
<1>1. Expiry[m] \in Nat
  BY LeverageAssumption
<1> QED
  BY <1>1 DEF NewPosition, Position

LEMMA OpenTyped ==
  ASSUME TypeInv, NEW o \in Owners, NEW m \in Markets, NEW x \in Outcomes, NEW stake \in Stakes,
         NEW lev \in Leverages, NEW offer \in Offers, NEW got \in Nat, NEW cost \in Nat,
         Open(o, m, x, stake, lev, offer, got, cost)
  PROVE  TypeInv'
<1> DEFINE t == Terms(cost, lev)
           left == liquid + t.premium - t.fronted
           id == Len(positions) + 1
<1>1. lev \in Nat /\ lev > BPS /\ stake \in Nat /\ x \in Sides
  BY LeverageAssumption DEF Open, Entry
<1>2. params \in Params
  BY LeverageAssumption DEF TypeInv, TypeOK
<1>3. t.fronted \in Nat /\ t.premium \in Nat
  BY <1>1, <1>2, TermsTyped
<1>4. t.stake = cost + t.premium - t.fronted
  BY DEF Terms
<1> HIDE DEF t
<1>5. t.stake \in 0..stake /\ left >= 0 /\ id <= MaxPositions
  BY DEF Open, t
<1>6. t.stake \in Nat /\ left \in Nat
  BY <1>1, <1>3, <1>5 DEF TypeInv, TypeOK, LedgerTypeOK
<1>7. /\ liquid' = left /\ wallet' = wallet + t.stake - cost
      /\ UNCHANGED <<supplyShares, sharesOf, paused, intake>>
  BY DEF Open, Move, shareVars, t
<1>8. wallet' = left
  BY <1>3, <1>4, <1>7 DEF TypeInv, TypeOK, LedgerTypeOK
<1>9. LedgerTypeOK'
  BY <1>6, <1>7, <1>8 DEF TypeInv, TypeOK, LedgerTypeOK
<1>10. outstanding' \in Nat
  <2>1. outstanding' = outstanding + t.fronted
    BY DEF Open, t
  <2> QED
    BY <1>3, <2>1 DEF TypeInv, TypeOK
<1>11. frontedByMarket' \in [Markets -> Nat]
  <2>1. frontedByMarket' = [frontedByMarket EXCEPT ![m] = @ + t.fronted]
    BY DEF Open, t
  <2> QED
    BY <1>3, <2>1 DEF TypeInv, TypeOK
<1>12. positions' \in Seq(Position) /\ Len(positions') <= MaxPositions
  <2>1. positions' = Append(positions, NewPosition(o, m, x, got, t))
    BY DEF Open, t
  <2>2. NewPosition(o, m, x, got, t) \in Position
    BY <1>1, <1>3, <1>6, NewPositionTyped
  <2>3. positions \in Seq(Position)
    BY DEF TypeInv, TypeOK
  <2> QED
    BY <1>5, <2>1, <2>2, <2>3
<1>13. open' \in Seq(PositionIds) /\ openAt' \in [PositionIds -> Nat]
  <2>1. open' = Append(open, id) /\ openAt' = [openAt EXCEPT ![id] = Len(open) + 1]
    BY DEF Open
  <2>2. id \in PositionIds
    BY <1>5 DEF TypeInv, TypeOK, PositionIds
  <2>3. open \in Seq(PositionIds) /\ openAt \in [PositionIds -> Nat]
    BY DEF TypeInv, TypeOK
  <2> HIDE DEF id
  <2> QED
    BY <2>1, <2>2, <2>3
<1>14. tokens' \in [Markets -> [Sides -> Int]]
  <2>1. tokens' = [tokens EXCEPT ![m][x] = @ + got]
    BY DEF Open
  <2> QED
    BY <1>1, <2>1 DEF TypeInv, TypeOK
<1>15. UNCHANGED <<params, status, now>>
  BY DEF Open, venueVars
<1> QED
  BY <1>7, <1>8, <1>9, <1>10, <1>11, <1>12, <1>13, <1>14, <1>15 DEF TypeInv, TypeOK

LEMMA ExitAmounts ==
  ASSUME TypeOK, NEW i \in 1..Len(positions), NEW sold \in Nat, NEW w \in Nat
  PROVE  /\ Reclaimed(i, w) \in Nat /\ Reclaimed(i, w) <= w
         /\ Reclaimed(i, w) <= positions[i].fronted
         /\ Released(i, sold, w) \in Nat
BY PositionTyped, PositionFields DEF Reclaimed, Released

LEMMA AfterExitTyped ==
  ASSUME NEW p \in Position, NEW end \in Ends, NEW sold \in 0..p.quantity, NEW w \in Nat,
         NEW r \in Nat, r <= w, r <= p.fronted
  PROVE  /\ AfterExit(p, end, sold, w, r) \in Position
         /\ AfterExit(p, end, sold, w, r).proceeds = p.proceeds + w
         /\ AfterExit(p, end, sold, w, r).reclaimed = p.reclaimed + r
         /\ AfterExit(p, end, sold, w, r).returned = p.returned + w - r
         /\ AfterExit(p, end, sold, w, r).fronted =
              (IF sold = p.quantity THEN 0 ELSE p.fronted - r)
         /\ AfterExit(p, end, sold, w, r).status = (IF sold = p.quantity THEN end ELSE p.status)
<1>1. /\ p.quantity - sold \in Nat /\ p.fronted - r \in Nat
      /\ p.proceeds + w \in Nat /\ p.reclaimed + r \in Nat /\ p.returned + w - r \in Nat
  BY PositionFields
<1> QED
  BY <1>1 DEF AfterExit, Position

LEMMA LiveIsListed ==
  ASSUME TypeOK, OpenListIsLive, NEW i, Live(i)
  PROVE  i \in PositionIds /\ openAt[i] \in 1..Len(open) /\ open[openAt[i]] = i
<1>1. i \in PositionIds
  BY LeverageAssumption DEF Live, TypeOK, PositionIds
<1> QED
  BY <1>1 DEF OpenListIsLive

LEMMA RemoveTyped ==
  ASSUME TypeOK, OpenListIsLive, NEW i, Live(i), RemoveOpen(i)
  PROVE  open' \in Seq(PositionIds) /\ openAt' \in [PositionIds -> Nat]
<1>1. i \in PositionIds /\ openAt[i] \in 1..Len(open)
  BY LiveIsListed
<1>2. Len(open) \in Nat /\ Len(open) > 0 /\ open[Len(open)] \in PositionIds
  BY <1>1 DEF TypeOK
<1>3. \A k \in 1..(Len(open) - 1) : open[k] \in PositionIds
  BY <1>2 DEF TypeOK
<1>4. open' = [k \in 1..(Len(open) - 1) |-> IF k = openAt[i] THEN open[Len(open)] ELSE open[k]]
  BY DEF RemoveOpen
<1>5. open' \in Seq(PositionIds)
  BY <1>2, <1>3, <1>4
<1>6. openAt' = [openAt EXCEPT ![open[Len(open)]] = openAt[i], ![i] = 0]
  BY DEF RemoveOpen
<1> QED
  BY <1>1, <1>2, <1>5, <1>6 DEF TypeOK

LEMMA ExitTyped ==
  ASSUME TypeInv, OpenListIsLive, NEW i, Live(i), NEW end \in Ends,
         NEW sold \in 0..positions[i].quantity, NEW w \in Nat, Exit(i, end, sold, w)
  PROVE  TypeInv'
<1> DEFINE r == Reclaimed(i, w)
           rel == Released(i, sold, w)
           p == positions[i]
<1>0. i \in 1..Len(positions) /\ TypeOK /\ wallet = liquid
  BY DEF Live, TypeInv
<1>1. p \in Position /\ sold \in Nat
  BY <1>0, PositionTyped, PositionFields
<1>2. r \in Nat /\ r <= w /\ r <= p.fronted /\ rel \in Nat
  BY <1>0, <1>1, ExitAmounts
<1> HIDE DEF r, rel
<1>3. /\ liquid' = liquid + r /\ wallet' = wallet + r
      /\ UNCHANGED <<supplyShares, sharesOf, paused, intake>>
  BY DEF Exit, Move, shareVars, r
<1>4. LedgerTypeOK' /\ wallet' = liquid'
  BY <1>0, <1>2, <1>3 DEF TypeOK, LedgerTypeOK
<1>5. outstanding' \in Nat
  <2>1. rel <= outstanding /\ outstanding' = outstanding - rel
    BY DEF Exit, rel
  <2> QED
    BY <1>0, <1>2, <2>1 DEF TypeOK
<1>6. frontedByMarket' \in [Markets -> Nat]
  <2>1. /\ rel <= frontedByMarket[p.market]
        /\ frontedByMarket' = [frontedByMarket EXCEPT ![p.market] = @ - rel]
    BY DEF Exit, rel
  <2>2. p.market \in Markets
    BY <1>1, PositionFields
  <2> QED
    BY <1>0, <1>2, <2>1, <2>2 DEF TypeOK
<1>7. positions' \in Seq(Position) /\ Len(positions') <= MaxPositions
  <2>1. positions' = [positions EXCEPT ![i] = AfterExit(p, end, sold, w, r)]
    BY DEF Exit, r
  <2>2. AfterExit(p, end, sold, w, r) \in Position
    BY <1>1, <1>2, AfterExitTyped
  <2> HIDE DEF p
  <2> QED
    BY <1>0, <2>1, <2>2, ExceptSeq DEF TypeOK
<1>8. open' \in Seq(PositionIds) /\ openAt' \in [PositionIds -> Nat]
  <2>1. CASE sold = p.quantity
    BY <1>0, <2>1, RemoveTyped DEF Exit
  <2>2. CASE sold # p.quantity
    BY <1>0, <2>2 DEF Exit, TypeOK
  <2> QED
    BY <2>1, <2>2
<1>9. tokens' \in [Markets -> [Sides -> Int]]
  <2>1. tokens' = [tokens EXCEPT ![p.market][p.outcome] = @ - sold]
    BY DEF Exit
  <2> QED
    BY <1>0, <1>1, <2>1, PositionFields DEF TypeOK
<1>10. UNCHANGED <<params, status, now>>
  BY DEF Exit, venueVars
<1> QED
  BY <1>0, <1>4, <1>5, <1>6, <1>7, <1>8, <1>9, <1>10 DEF TypeInv, TypeOK

-----------------------------------------------------------------------------
(* The list of live positions.                                             *)

LEMMA OpenKeepsList ==
  ASSUME TypeOK, OpenListIsLive, NEW p, p.status = "LIVE",
         NEW id, id = Len(positions) + 1, id <= MaxPositions,
         positions' = Append(positions, p), open' = Append(open, id),
         openAt' = [openAt EXCEPT ![id] = Len(open) + 1], p \in Position
  PROVE  OpenListIsLive'
<1>0. id \in PositionIds /\ Len(positions) \in Nat /\ Len(open) \in Nat
  BY LeverageAssumption DEF TypeOK, PositionIds
<1>1. /\ Len(positions') = Len(positions) + 1 /\ positions'[id] = p
      /\ \A j \in 1..Len(positions) : positions'[j] = positions[j]
      /\ Len(open') = Len(open) + 1 /\ open'[Len(open) + 1] = id
      /\ \A k \in 1..Len(open) : open'[k] = open[k]
  BY <1>0 DEF TypeOK
<1>2. \A j \in PositionIds : Live(j)' <=> (Live(j) \/ j = id)
  BY <1>0, <1>1 DEF Live, PositionIds
<1>3. \A k \in 1..Len(open) : open[k] \in PositionIds /\ open[k] # id
  BY <1>0 DEF OpenListIsLive, Live, TypeOK
<1>4. ASSUME NEW k \in 1..Len(open') PROVE Live(open[k])' /\ (openAt[open[k]] = k)'
  <2>1. CASE k = Len(open) + 1
    <3>1. Live(id)' /\ openAt'[id] = k
      BY <1>0, <1>2, <2>1 DEF TypeOK
    <3> QED
      BY <1>1, <2>1, <3>1 DEF Live
  <2>2. CASE k # Len(open) + 1
    <3>1. k \in 1..Len(open) /\ open'[k] = open[k]
      BY <1>0, <1>1, <2>2
    <3>2. PICK j \in PositionIds : j = open[k] /\ j # id /\ Live(j) /\ openAt[j] = k
      BY <1>3, <3>1 DEF OpenListIsLive
    <3>3. Live(j)' /\ openAt'[j] = k
      BY <1>0, <1>2, <3>2 DEF TypeOK
    <3> QED
      BY <3>1, <3>2, <3>3 DEF Live
  <2> QED
    BY <2>1, <2>2
<1>5. ASSUME NEW j \in PositionIds
      PROVE  IF Live(j)' THEN openAt'[j] \in 1..Len(open') /\ open'[openAt'[j]] = j
                         ELSE openAt'[j] = 0
  <2>1. CASE j = id
    BY <1>0, <1>1, <1>2, <2>1 DEF TypeOK
  <2>2. CASE j # id
    <3>1. openAt'[j] = openAt[j] /\ (Live(j)' <=> Live(j))
      BY <1>0, <1>2, <2>2 DEF TypeOK
    <3>2. CASE Live(j)
      <4>1. openAt[j] \in 1..Len(open) /\ open[openAt[j]] = j
        BY <3>2 DEF OpenListIsLive
      <4> QED
        BY <1>0, <1>1, <3>1, <3>2, <4>1
    <3>3. CASE ~Live(j)
      BY <3>1, <3>3 DEF OpenListIsLive
    <3> QED
      BY <3>2, <3>3
  <2> QED
    BY <2>1, <2>2
<1> QED
  BY <1>4, <1>5 DEF OpenListIsLive

\* Swap and pop keeps every other live position where its index says it is.
LEMMA RemoveKeepsList ==
  ASSUME TypeOK, OpenListIsLive, NEW i, Live(i), RemoveOpen(i),
         \A j \in PositionIds : Live(j)' <=> (Live(j) /\ j # i)
  PROVE  OpenListIsLive'
<1> DEFINE n == Len(open)
           at == openAt[i]
           moved == open[n]
<1>1. i \in PositionIds /\ at \in 1..n /\ open[at] = i
  BY LiveIsListed
<1>2. n \in Nat /\ n > 0 /\ \A k \in 1..n : open[k] \in PositionIds
  BY <1>1 DEF TypeOK
<1>3. /\ open' = [k \in 1..(n - 1) |-> IF k = at THEN moved ELSE open[k]]
      /\ openAt' = [openAt EXCEPT ![moved] = at, ![i] = 0]
  BY DEF RemoveOpen
<1>4. /\ moved \in PositionIds /\ openAt[moved] = n
      /\ \A k \in 1..n : Live(open[k]) /\ openAt[open[k]] = k
      /\ openAt \in [PositionIds -> Nat]
  BY <1>2 DEF OpenListIsLive, TypeOK
<1>5. Len(open') = n - 1
  <2>1. n - 1 \in Nat
    BY <1>2
  <2> HIDE DEF n, at, moved
  <2> QED
    BY <1>3, <2>1
<1>6. ASSUME NEW k \in 1..Len(open') PROVE Live(open[k])' /\ (openAt[open[k]] = k)'
  <2> HIDE DEF n, at, moved
  <2>0. k \in 1..(n - 1) /\ k \in 1..n /\ k # n
    BY <1>2, <1>5
  <2>1. CASE k = at
    <3>1. open'[k] = moved /\ moved # i
      BY <1>1, <1>3, <1>4, <2>0, <2>1
    <3>2. openAt'[moved] = at
      BY <1>1, <1>3, <1>4, <3>1
    <3>3. Live(moved)
      BY <1>2, <1>4 DEF moved
    <3>4. PICK j \in PositionIds : j = moved
      BY <1>4
    <3>5. Live(j)'
      BY <3>1, <3>3, <3>4
    <3> QED
      BY <2>1, <3>1, <3>2, <3>4, <3>5 DEF Live
  <2>2. CASE k # at
    <3>1. open'[k] = open[k] /\ Live(open[k]) /\ openAt[open[k]] = k
      BY <1>3, <1>4, <2>0, <2>2
    <3>2. open[k] # i /\ open[k] # moved /\ open[k] \in PositionIds
      BY <1>1, <1>2, <1>4, <2>0, <2>2, <3>1
    <3>3. openAt'[open[k]] = k
      BY <1>1, <1>3, <1>4, <3>1, <3>2
    <3>4. PICK j \in PositionIds : j = open[k]
      BY <3>2
    <3>5. Live(j)'
      BY <3>1, <3>2, <3>4
    <3> QED
      BY <3>1, <3>3, <3>4, <3>5 DEF Live
  <2> QED
    BY <2>1, <2>2
<1>7. ASSUME NEW j \in PositionIds
      PROVE  IF Live(j)' THEN openAt'[j] \in 1..Len(open') /\ open'[openAt'[j]] = j
                         ELSE openAt'[j] = 0
  <2>1. CASE j = i
    <3>1. openAt'[i] = 0
      BY <1>1, <1>3, <1>4
    <3> QED
      BY <2>1, <3>1
  <2>2. CASE j # i /\ ~Live(j)
    <3>1. openAt[j] = 0
      BY <2>2 DEF OpenListIsLive
    <3>2. j # moved
      BY <1>2, <1>4, <3>1
    <3>3. openAt'[j] = 0
      BY <1>1, <1>3, <1>4, <2>2, <3>1, <3>2
    <3> QED
      BY <2>2, <3>3
  <2>3. CASE j # i /\ Live(j)
    <3>1. openAt[j] \in 1..n /\ open[openAt[j]] = j
      BY <2>3 DEF OpenListIsLive
    <3>2. Live(j)'
      BY <2>3
    <3>3. CASE j = moved
      <4>1. at # n
        BY <1>1, <2>3, <3>3
      <4>2. openAt'[j] = at /\ at \in 1..(n - 1)
        BY <1>1, <1>2, <1>3, <1>4, <2>3, <3>3, <4>1
      <4>3. open'[at] = moved
        BY <1>3, <4>2
      <4> QED
        BY <1>5, <3>2, <3>3, <4>2, <4>3
    <3>4. CASE j # moved
      <4>1. openAt'[j] = openAt[j]
        BY <1>1, <1>3, <1>4, <2>3, <3>4
      <4>2. openAt[j] # n /\ openAt[j] # at
        BY <1>1, <2>3, <3>1, <3>4
      <4>3. openAt[j] \in 1..(n - 1)
        BY <1>2, <3>1, <4>2
      <4>4. open'[openAt[j]] = open[openAt[j]]
        BY <1>3, <4>2, <4>3
      <4> QED
        BY <1>5, <3>1, <3>2, <4>1, <4>3, <4>4
    <3> QED
      BY <3>3, <3>4
  <2> QED
    BY <2>1, <2>2, <2>3
<1> QED
  BY <1>6, <1>7 DEF OpenListIsLive

\* A step that leaves the positions and the list alone leaves their relation.
LEMMA ListStands ==
  ASSUME OpenListIsLive, UNCHANGED <<positions, open, openAt>> PROVE OpenListIsLive'
BY DEF OpenListIsLive, Live

LEMMA ExitKeepsList ==
  ASSUME TypeInv, OpenListIsLive, NEW i, Live(i), NEW end \in Ends,
         NEW sold \in 0..positions[i].quantity, NEW w \in Nat, Exit(i, end, sold, w)
  PROVE  OpenListIsLive'
<1> DEFINE p == positions[i]
           q == AfterExit(p, end, sold, w, Reclaimed(i, w))
<1>0. i \in 1..Len(positions) /\ TypeOK /\ p.status = "LIVE" /\ p \in Position /\ sold \in Nat
  BY PositionTyped, PositionFields DEF Live, TypeInv
<1>1. positions' = [positions EXCEPT ![i] = q]
  BY DEF Exit
<1>2. q.status = (IF sold = p.quantity THEN end ELSE "LIVE")
  <2>1. PICK r \in Nat : r = Reclaimed(i, w) /\ r <= w /\ r <= p.fronted
    BY <1>0, ExitAmounts
  <2>2. q = AfterExit(p, end, sold, w, r)
    BY <2>1
  <2>3. sold \in 0..p.quantity
    OBVIOUS
  <2> HIDE DEF p, q
  <2>4. AfterExit(p, end, sold, w, r).status = (IF sold = p.quantity THEN end ELSE p.status)
    BY <1>0, <2>1, <2>3, AfterExitTyped
  <2> QED
    BY <1>0, <2>2, <2>4
<1> HIDE DEF q
<1>3. /\ Len(positions') = Len(positions) /\ positions'[i] = q
      /\ \A j \in 1..Len(positions) : j # i => positions'[j] = positions[j]
  BY <1>0, <1>1 DEF TypeOK
<1>4. end # "LIVE"
  BY DEF Ends
<1>5. \A j \in PositionIds : j # i => (Live(j)' <=> Live(j))
  BY <1>3 DEF Live
<1>6. CASE sold = p.quantity
  <2>1. RemoveOpen(i)
    BY <1>6 DEF Exit
  <2>2. ~Live(i)'
    BY <1>2, <1>3, <1>4, <1>6 DEF Live
  <2>3. \A j \in PositionIds : Live(j)' <=> (Live(j) /\ j # i)
    BY <1>5, <2>2
  <2> QED
    BY <1>0, <2>1, <2>3, RemoveKeepsList
<1>7. CASE sold # p.quantity
  <2>1. UNCHANGED <<open, openAt>>
    BY <1>7 DEF Exit
  <2>2. Live(i)'
    BY <1>0, <1>2, <1>3, <1>7 DEF Live
  <2>3. \A j \in PositionIds : Live(j)' <=> Live(j)
    BY <1>5, <2>2
  <2>4. \A k \in 1..Len(open) : open[k] \in PositionIds
    BY <1>0 DEF TypeOK
  <2>5. ASSUME NEW k \in 1..Len(open) PROVE Live(open[k])'
    <3>1. PICK j \in PositionIds : j = open[k] /\ Live(j)
      BY <2>4 DEF OpenListIsLive
    <3>2. Live(j)'
      BY <2>3, <3>1
    <3> QED
      BY <2>1, <3>1, <3>2 DEF Live
  <2> QED
    BY <2>1, <2>3, <2>5 DEF OpenListIsLive
<1> QED
  BY <1>6, <1>7

\* The three ways out are one `_exit` with different sales.
LEMMA ExitsExit ==
  ASSUME TypeInv, NEW i \in 1..Len(positions),
         \/ \E w \in Proceeds : \E sold \in Lots(positions[i].quantity) :
              Close(i, sold, w) \/ KnockOut(i, sold, w)
         \/ Settle(i)
  PROVE  \E end \in Ends, sold \in 0..positions[i].quantity, w \in Nat :
           Live(i) /\ Exit(i, end, sold, w)
<1>0. positions[i].quantity \in Nat /\ Proceeds \subseteq Nat
  BY PositionTyped, PositionFields, LeverageAssumption DEF TypeInv
<1>1. ASSUME NEW w \in Proceeds, NEW sold \in Lots(positions[i].quantity),
             Close(i, sold, w) \/ KnockOut(i, sold, w)
      PROVE  \E end \in Ends, n \in 0..positions[i].quantity, v \in Nat : Live(i) /\ Exit(i, end, n, v)
  <2>1. sold \in 0..positions[i].quantity /\ w \in Nat
    BY <1>0 DEF Lots
  <2>2. \E end \in Ends : Live(i) /\ Exit(i, end, sold, w)
    BY <1>1 DEF Close, KnockOut, Ends
  <2> QED
    BY <2>1, <2>2
<1>2. ASSUME Settle(i)
      PROVE  \E end \in Ends, n \in 0..positions[i].quantity, v \in Nat : Live(i) /\ Exit(i, end, n, v)
  <2>1. positions[i].quantity \div 2 \in Nat
    BY <1>0, DivisionIsNat
  <2>2. Payout(positions[i]) \in Nat
    BY <1>0, <2>1 DEF Payout
  <2>3. positions[i].quantity \in 0..positions[i].quantity /\ "SETTLED" \in Ends
    BY <1>0 DEF Ends
  <2> QED
    BY <1>2, <2>2, <2>3 DEF Settle
<1> QED
  BY <1>1, <1>2

LEMMA FillsTyped ==
  ASSUME NEW offer \in Offers, NEW got \in Lots(offer.quantity), NEW fee \in 0..MaxFee
  PROVE  got \in Nat /\ CeilDiv(offer.cost * got, offer.quantity) + fee \in Nat
<1>1. offer.cost \in Nat /\ offer.quantity \in Nat /\ offer.quantity # 0 /\ MaxFee \in Nat
  BY LeverageAssumption DEF Offer
<1>2. got \in Nat
  BY <1>1 DEF Lots
<1>3. offer.cost * got \in Nat
  BY <1>1, <1>2, ProductIsNat
<1>4. CeilDiv(offer.cost * got, offer.quantity) \in Nat
  BY <1>1, <1>3, CeilDivIsNat
<1> QED
  BY <1>1, <1>2, <1>4

ListInv == TypeInv /\ OpenListIsLive

LEMMA ListInvHolds == ListInv /\ [Next]_vars => ListInv'
<1> SUFFICES ASSUME TypeInv, OpenListIsLive, [Next]_vars PROVE TypeInv' /\ OpenListIsLive'
  BY DEF ListInv
<1>0. TypeOK /\ LedgerTypeOK /\ totalValue \in Nat /\ wallet = liquid
  BY DEF TypeInv, TypeOK, LedgerTypeOK, totalValue
<1>1. ASSUME NEW s \in Suppliers, NEW a \in Supplies, Supply(s, a)
      PROVE  TypeInv' /\ OpenListIsLive'
  <2>1. a \in Nat
    BY ShareAssumption
  <2>2. Buy(s, a, totalValue) /\ UNCHANGED <<bookVars, params, venueVars>>
    BY <1>1 DEF Supply
  <2>3. LedgerTypeOK' /\ wallet' = liquid'
    BY <1>0, <2>1, <2>2, BuyTyped DEF Buy
  <2> QED
    BY <1>0, <2>2, <2>3, ListStands DEF TypeInv, TypeOK, bookVars, venueVars
<1>2. ASSUME NEW s \in Suppliers, NEW n \in Redemptions, Withdraw(s, n)
      PROVE  TypeInv' /\ OpenListIsLive'
  <2>1. n \in Nat \ {0}
    BY ShareAssumption
  <2>2. Redeem(s, n, totalValue) /\ UNCHANGED <<bookVars, params, venueVars>>
    BY <1>2 DEF Withdraw
  <2>3. LedgerTypeOK' /\ wallet' = liquid'
    BY <1>0, <2>1, <2>2, RedeemTyped DEF Redeem
  <2> QED
    BY <1>0, <2>2, <2>3, ListStands DEF TypeInv, TypeOK, bookVars, venueVars
<1>3. ASSUME NEW o \in Owners, NEW m \in Markets, NEW x \in Outcomes, NEW stake \in Stakes,
             NEW lev \in Leverages, NEW offer \in Offers, NEW got \in Lots(offer.quantity),
             NEW fee \in 0..MaxFee,
             Open(o, m, x, stake, lev, offer, got, CeilDiv(offer.cost * got, offer.quantity) + fee)
      PROVE  TypeInv' /\ OpenListIsLive'
  <2>1. PICK c \in Nat : got \in Nat /\ c = CeilDiv(offer.cost * got, offer.quantity) + fee
    BY FillsTyped
  <2>2. Open(o, m, x, stake, lev, offer, got, c)
    BY <1>3, <2>1
  <2>3. TypeInv'
    BY <2>1, <2>2, OpenTyped
  <2>4. PICK p : p = NewPosition(o, m, x, got, Terms(c, lev))
    OBVIOUS
  <2>5. /\ positions' = Append(positions, p) /\ open' = Append(open, Len(positions) + 1)
        /\ openAt' = [openAt EXCEPT ![Len(positions) + 1] = Len(open) + 1]
        /\ Len(positions) + 1 <= MaxPositions
    BY <2>2, <2>4 DEF Open
  <2>6. p \in Position /\ p.status = "LIVE"
    <3>1. params \in Params /\ lev \in Nat /\ lev > BPS /\ stake \in Nat /\ x \in Sides
      BY <1>0, <2>2, LeverageAssumption DEF Open, Entry, TypeOK
    <3>2. Terms(c, lev).fronted \in Nat /\ Terms(c, lev).stake \in 0..stake
      BY <2>2, <3>1, TermsTyped DEF Open
    <3>3. Terms(c, lev).stake \in Nat
      BY <3>1, <3>2
    <3> QED
      BY <2>1, <2>4, <3>1, <3>2, <3>3, NewPositionTyped DEF NewPosition
  <2> QED
    BY <1>0, <2>3, <2>5, <2>6, OpenKeepsList
<1>4. ASSUME NEW i \in 1..Len(positions),
             \/ \E w \in Proceeds : \E sold \in Lots(positions[i].quantity) :
                  Close(i, sold, w) \/ KnockOut(i, sold, w)
             \/ Settle(i)
      PROVE  TypeInv' /\ OpenListIsLive'
  BY <1>4, ExitsExit, ExitTyped, ExitKeepsList
<1>5. ASSUME NEW p \in ParamsChoices, SetParams(p) PROVE TypeInv' /\ OpenListIsLive'
  BY <1>0, <1>5, ListStands
  DEF SetParams, TypeInv, TypeOK, LedgerTypeOK, ledgerVars, shareVars, bookVars, venueVars
<1>6. ASSUME NEW b \in PauseChoices, SetPaused(b) PROVE TypeInv' /\ OpenListIsLive'
  <2>1. paused' \in BOOLEAN
    BY <1>6, ShareAssumption, Zenon DEF SetPaused, Pause
  <2> QED
    BY <1>0, <1>6, <2>1, ListStands
    DEF SetPaused, Pause, TypeInv, TypeOK, LedgerTypeOK, shareVars, bookVars, venueVars
<1>7. ASSUME NEW m \in Markets, NEW v \in {"LOCKED", "YES", "NO", "VOID"}, Resolve(m, v)
      PROVE  TypeInv' /\ OpenListIsLive'
  BY <1>0, <1>7, ListStands
  DEF Resolve, TypeInv, TypeOK, LedgerTypeOK, ledgerVars, shareVars, bookVars
<1>8. ASSUME Tick PROVE TypeInv' /\ OpenListIsLive'
  BY <1>0, <1>8, ListStands
  DEF Tick, TypeInv, TypeOK, LedgerTypeOK, ledgerVars, shareVars, bookVars
<1>9. ASSUME UNCHANGED vars PROVE TypeInv' /\ OpenListIsLive'
  BY <1>0, <1>9, ListStands
  DEF vars, TypeInv, TypeOK, LedgerTypeOK, ledgerVars, shareVars, bookVars, venueVars
<1> QED
  BY <1>1, <1>2, <1>3, <1>4, <1>5, <1>6, <1>7, <1>8, <1>9 DEF Next

LEMMA ListInvStarts == Init => ListInv
<1> SUFFICES ASSUME Init PROVE TypeInv /\ OpenListIsLive
  BY DEF ListInv
<1>1. LedgerTypeOK /\ wallet = liquid
  BY LedgerInits DEF Init, LedgerInit
<1>2. positions = << >> /\ open = << >> /\ openAt = [i \in PositionIds |-> 0]
  BY DEF Init
<1>3. /\ positions \in Seq(Position) /\ open \in Seq(PositionIds)
      /\ Len(positions) = 0 /\ Len(open) = 0
  BY <1>2
<1>4. OpenListIsLive
  BY <1>2, <1>3 DEF OpenListIsLive, Live
<1>5. /\ outstanding \in Nat /\ frontedByMarket \in [Markets -> Nat]
      /\ openAt \in [PositionIds -> Nat] /\ params \in ParamsChoices
      /\ tokens \in [Markets -> [Sides -> Int]] /\ now \in Nat
      /\ status \in [Markets -> {"TRADING", "LOCKED", "YES", "NO", "VOID"}]
  BY DEF Init
<1>6. Len(positions) <= MaxPositions
  BY <1>3, LeverageAssumption
<1> QED
  BY <1>1, <1>3, <1>4, <1>5, <1>6 DEF TypeInv, TypeOK

LEMMA ListInvAlways == Spec => []ListInv
BY ListInvStarts, ListInvHolds, PTL DEF Spec

\* Every value keeps its type: no balance, front or claim ever underflows.
THEOREM TypeCorrect == Spec => []TypeOK
<1>1. ListInv => TypeOK
  BY DEF ListInv, TypeInv
<1> QED
  BY <1>1, ListInvAlways, PTL

\* After any opens and exits in any order the list is the live positions.
THEOREM OpenListCorrect == Spec => []OpenListIsLive
<1>1. ListInv => OpenListIsLive
  BY DEF ListInv
<1> QED
  BY <1>1, ListInvAlways, PTL

-----------------------------------------------------------------------------
(* What the list is for.                                                   *)

\* An unblocked withdrawal means no live position is past its Window.
LEMMA NothingStale ==
  ASSUME TypeOK, OpenListIsLive, unsettledExpired = 0
  PROVE  \A i \in LiveIds : positions[i].expiry > now
<1> SUFFICES ASSUME NEW i \in 1..Len(positions), Live(i), ~(positions[i].expiry > now)
             PROVE  FALSE
  BY DEF LiveIds
<1> DEFINE stale == {k \in 1..Len(open) : positions[open[k]].expiry <= now}
           first == CHOOSE k \in stale : \A j \in stale : k <= j
<1>1. /\ openAt[i] \in 1..Len(open) /\ open[openAt[i]] = i
  BY LiveIsListed
<1>2. positions[i].expiry \in Nat /\ now \in Nat
  BY PositionTyped, PositionFields DEF TypeOK
<1>3. openAt[i] \in stale
  BY <1>1, <1>2
<1>4. stale \subseteq Nat /\ stale # {}
  BY <1>3 DEF TypeOK
<1>5. first \in stale
  <2> HIDE DEF stale
  <2>1. PICK k \in stale : \A j \in stale : <<j, k>> \notin OpToRel(<, Nat)
    BY <1>4, WFMin, NatLessThanWellFounded
  <2>2. \A j \in stale : ~ (j < k)
    BY <1>4, <2>1 DEF OpToRel
  <2>3. \A j \in stale : k <= j
    BY <1>4, <2>2
  <2> QED
    BY <2>3
<1>6. open[first] \in PositionIds /\ unsettledExpired = open[first]
  <2>1. unsettledExpired = open[first]
    BY <1>4 DEF unsettledExpired
  <2>2. first \in 1..Len(open)
    BY <1>5
  <2> HIDE DEF first, stale
  <2> QED
    BY <2>1, <2>2 DEF TypeOK
<1>7. 0 \notin PositionIds
  BY LeverageAssumption DEF PositionIds
<1> QED
  BY <1>6, <1>7

\* Every step that is not a withdrawal leaves no fewer shares.
LEMMA OnlyWithdrawalsRedeem ==
  ASSUME ListInv, Next, supplyShares' < supplyShares
  PROVE  unsettledExpired = 0
<1>0. TypeInv /\ supplyShares \in Nat
  BY DEF ListInv, TypeInv, TypeOK, LedgerTypeOK
<1>1. ASSUME NEW s \in Suppliers, NEW a \in Supplies, Supply(s, a) PROVE FALSE
  <2>1. a \in Nat /\ totalValue \in Nat /\ LedgerTypeOK
    BY <1>0, ShareAssumption DEF TypeInv, TypeOK, LedgerTypeOK, totalValue
  <2>2. PICK n \in Nat : supplyShares' = supplyShares + n
    BY <1>1, <2>1, SharesTyped DEF Supply, Buy
  <2> QED
    BY <1>0, <2>2
<1>2. ASSUME NEW s \in Suppliers, NEW n \in Redemptions, Withdraw(s, n)
      PROVE  unsettledExpired = 0
  BY <1>2 DEF Withdraw
<1>3. ASSUME NEW o \in Owners, NEW m \in Markets, NEW x \in Outcomes, NEW stake \in Stakes,
             NEW lev \in Leverages, NEW offer \in Offers, NEW got \in Lots(offer.quantity),
             NEW fee \in 0..MaxFee,
             Open(o, m, x, stake, lev, offer, got, CeilDiv(offer.cost * got, offer.quantity) + fee)
      PROVE  UNCHANGED supplyShares
  BY <1>3 DEF Open, Move, shareVars
<1>4. ASSUME NEW i \in 1..Len(positions),
             \/ \E w \in Proceeds : \E sold \in Lots(positions[i].quantity) :
                  Close(i, sold, w) \/ KnockOut(i, sold, w)
             \/ Settle(i)
      PROVE  UNCHANGED supplyShares
  BY <1>0, <1>4, ExitsExit DEF Exit, Move, shareVars
<1>5. ASSUME NEW p \in ParamsChoices, SetParams(p) PROVE UNCHANGED supplyShares
  BY <1>5 DEF SetParams, ledgerVars, shareVars
<1>6. ASSUME NEW b \in PauseChoices, SetPaused(b) PROVE UNCHANGED supplyShares
  BY <1>6 DEF SetPaused, Pause, shareVars
<1>7. ASSUME NEW m \in Markets, NEW v \in {"LOCKED", "YES", "NO", "VOID"}, Resolve(m, v)
      PROVE  UNCHANGED supplyShares
  BY <1>7 DEF Resolve, ledgerVars, shareVars
<1>8. ASSUME Tick PROVE UNCHANGED supplyShares
  BY <1>8 DEF Tick, ledgerVars, shareVars
<1> QED
  BY <1>0, <1>1, <1>2, <1>3, <1>4, <1>5, <1>6, <1>7, <1>8 DEF Next

\* No supplier ever leaves at a value that counts a position past its Window.
THEOREM NoStaleValue == Spec => NoStaleWithdrawal
<1>1. ListInv /\ [Next]_vars =>
        (supplyShares' < supplyShares => \A i \in LiveIds : positions[i].expiry > now)
  <2> SUFFICES ASSUME ListInv, [Next]_vars, supplyShares' < supplyShares
               PROVE  \A i \in LiveIds : positions[i].expiry > now
    OBVIOUS
  <2>1. TypeOK /\ OpenListIsLive /\ supplyShares \in Nat
    BY DEF ListInv, TypeInv, TypeOK, LedgerTypeOK
  <2>2. Next
    BY <2>1 DEF vars, ledgerVars, shareVars
  <2> QED
    BY <2>1, <2>2, OnlyWithdrawalsRedeem, NothingStale
<1> QED
  BY <1>1, ListInvAlways, PTL DEF Spec, NoStaleWithdrawal

-----------------------------------------------------------------------------
(* The repayment order.                                                    *)

RepaidFirst(p) ==
  /\ p.returned > 0 => p.fronted = 0
  /\ p.proceeds = p.reclaimed + p.returned

LEMMA ExitRepays ==
  ASSUME TypeInv, ReserveIsRepaidFirst, NEW i \in 1..Len(positions), NEW end \in Ends,
         NEW sold \in 0..positions[i].quantity, NEW w \in Nat, Exit(i, end, sold, w)
  PROVE  ReserveIsRepaidFirst'
<1> DEFINE p == positions[i]
<1>0. TypeOK /\ p \in Position /\ RepaidFirst(p)
  BY PositionTyped DEF TypeInv, ReserveIsRepaidFirst, RepaidFirst
<1>1. sold \in Nat
  BY <1>0, PositionFields
<1>2. PICK r \in Nat : r = Reclaimed(i, w) /\ r <= w /\ r <= p.fronted
  BY <1>0, <1>1, ExitAmounts
<1>3. r = (IF w < p.fronted THEN w ELSE p.fronted)
  BY <1>2 DEF Reclaimed
<1>4. PICK q : q = AfterExit(p, end, sold, w, r)
  OBVIOUS
<1>5. positions' = [positions EXCEPT ![i] = q]
  BY <1>2, <1>4 DEF Exit
<1>6. /\ q.returned = p.returned + w - r /\ q.proceeds = p.proceeds + w
      /\ q.reclaimed = p.reclaimed + r
      /\ q.fronted = (IF sold = p.quantity THEN 0 ELSE p.fronted - r)
  <2>1. sold \in 0..p.quantity
    OBVIOUS
  <2> HIDE DEF p
  <2> QED
    BY <1>0, <1>2, <1>4, <2>1, AfterExitTyped
<1>7. RepaidFirst(q)
  <2> HIDE DEF p
  <2> QED
    BY <1>0, <1>2, <1>3, <1>6, PositionFields DEF RepaidFirst
<1>8. /\ Len(positions') = Len(positions) /\ positions'[i] = q
      /\ \A j \in 1..Len(positions) : j # i => positions'[j] = positions[j]
  BY <1>0, <1>5 DEF TypeOK
<1>9. \A j \in 1..Len(positions) : RepaidFirst(positions'[j])
  BY <1>7, <1>8 DEF ReserveIsRepaidFirst, RepaidFirst
<1> QED
  BY <1>8, <1>9 DEF ReserveIsRepaidFirst, RepaidFirst

LEMMA RepaidFirstHolds ==
  ListInv /\ ReserveIsRepaidFirst /\ [Next]_vars => ReserveIsRepaidFirst'
<1> SUFFICES ASSUME ListInv, ReserveIsRepaidFirst, [Next]_vars PROVE ReserveIsRepaidFirst'
  OBVIOUS
<1>0. TypeInv /\ positions \in Seq(Position)
  BY DEF ListInv, TypeInv, TypeOK
<1>1. ASSUME NEW o \in Owners, NEW m \in Markets, NEW x \in Outcomes, NEW stake \in Stakes,
             NEW lev \in Leverages, NEW offer \in Offers, NEW got \in Lots(offer.quantity),
             NEW fee \in 0..MaxFee,
             Open(o, m, x, stake, lev, offer, got, CeilDiv(offer.cost * got, offer.quantity) + fee)
      PROVE  ReserveIsRepaidFirst'
  <2>1. PICK t : positions' = Append(positions, NewPosition(o, m, x, got, t))
    BY <1>1 DEF Open
  <2>2. PICK p : p = NewPosition(o, m, x, got, t)
    OBVIOUS
  <2>3. p.returned = 0 /\ p.proceeds = 0 /\ p.reclaimed = 0
    BY <2>2 DEF NewPosition
  <2>4. /\ Len(positions') = Len(positions) + 1 /\ positions'[Len(positions) + 1] = p
        /\ \A j \in 1..Len(positions) : positions'[j] = positions[j]
    BY <1>0, <2>1, <2>2
  <2> QED
    BY <1>0, <2>3, <2>4 DEF ReserveIsRepaidFirst
<1>2. ASSUME NEW i \in 1..Len(positions),
             \/ \E w \in Proceeds : \E sold \in Lots(positions[i].quantity) :
                  Close(i, sold, w) \/ KnockOut(i, sold, w)
             \/ Settle(i)
      PROVE  ReserveIsRepaidFirst'
  BY <1>0, <1>2, ExitsExit, ExitRepays
<1>3. UNCHANGED positions => ReserveIsRepaidFirst'
  BY DEF ReserveIsRepaidFirst
<1>4. ASSUME NEW s \in Suppliers, NEW a \in Supplies, Supply(s, a) PROVE UNCHANGED positions
  BY <1>4 DEF Supply, bookVars
<1>5. ASSUME NEW s \in Suppliers, NEW n \in Redemptions, Withdraw(s, n) PROVE UNCHANGED positions
  BY <1>5 DEF Withdraw, bookVars
<1>6. ASSUME NEW p \in ParamsChoices, SetParams(p) PROVE UNCHANGED positions
  BY <1>6 DEF SetParams, bookVars
<1>7. ASSUME NEW b \in PauseChoices, SetPaused(b) PROVE UNCHANGED positions
  BY <1>7 DEF SetPaused, bookVars
<1>8. ASSUME NEW m \in Markets, NEW v \in {"LOCKED", "YES", "NO", "VOID"}, Resolve(m, v)
      PROVE  UNCHANGED positions
  BY <1>8 DEF Resolve, bookVars
<1>9. Tick \/ UNCHANGED vars => UNCHANGED positions
  BY DEF Tick, vars, bookVars
<1> QED
  BY <1>1, <1>2, <1>3, <1>4, <1>5, <1>6, <1>7, <1>8, <1>9 DEF Next

\* Whatever sequence of sales a position goes through, the reserve has its
\* whole front back before the owner gets anything, and nothing is lost.
THEOREM FrontIsRepaidFirst == Spec => []ReserveIsRepaidFirst
<1>1. Init => ReserveIsRepaidFirst
  <2> SUFFICES ASSUME Init PROVE ReserveIsRepaidFirst
    OBVIOUS
  <2>1. Len(positions) = 0
    BY DEF Init
  <2> QED
    BY <2>1 DEF ReserveIsRepaidFirst
<1> QED
  BY <1>1, ListInvAlways, RepaidFirstHolds, PTL DEF Spec

-----------------------------------------------------------------------------
(* The reserve is a house of shares.                                       *)

LEMMA DivisionFits ==
  ASSUME NEW a \in Nat, NEW b \in Nat, b # 0
  PROVE  (a \div b) * b <= a
OBVIOUS

LEMMA BuyEnters ==
  ASSUME LedgerTypeOK, outstanding \in Nat, NEW s \in Suppliers, NEW a \in Nat \ {0},
         Buy(s, a, totalValue), UNCHANGED outstanding
  PROVE  House!Enter(s, liquid' - liquid, supplyShares' - supplyShares)
<1>1. PICK n \in Nat : n = SharesFor(a, totalValue) /\ n # 0
  <2>1. totalValue \in Nat
    BY DEF totalValue, LedgerTypeOK
  <2>2. SharesFor(a, totalValue) \in Nat
    BY <2>1, SharesTyped
  <2> QED
    BY <2>2 DEF Buy
<1>2. /\ liquid' = liquid + a /\ supplyShares' = supplyShares + n
      /\ sharesOf' = [sharesOf EXCEPT ![s] = @ + n]
  BY <1>1 DEF Buy
<1>3. liquid' - liquid = a /\ supplyShares' - supplyShares = n
  BY <1>1, <1>2 DEF LedgerTypeOK
<1>4. IF supplyShares = 0 \/ totalValue = 0 THEN n = a ELSE n * totalValue <= a * supplyShares
  <2>1. CASE supplyShares = 0 \/ totalValue = 0
    BY <1>1, <2>1 DEF SharesFor
  <2>2. CASE ~(supplyShares = 0 \/ totalValue = 0)
    <3>1. PICK v \in Nat, z \in Nat : v = totalValue /\ z = supplyShares /\ v # 0
      BY <2>2 DEF totalValue, LedgerTypeOK
    <3>2. n = (a * z) \div v
      BY <1>1, <2>2, <3>1 DEF SharesFor
    <3>3. a * z \in Nat
      BY ProductIsNat
    <3>4. n * v <= a * z
      BY <3>1, <3>2, <3>3, DivisionFits
    <3> QED
      BY <2>2, <3>1, <3>4
  <2> QED
    BY <2>1, <2>2
<1>5. a > 0 /\ n > 0
  BY <1>1
<1> QED
  BY <1>2, <1>3, <1>4, <1>5 DEF House!Enter, House!Value, totalValue

LEMMA RedeemLeaves ==
  ASSUME LedgerTypeOK, outstanding \in Nat, NEW s \in Suppliers, NEW n \in Nat \ {0},
         Redeem(s, n, totalValue), UNCHANGED outstanding
  PROVE  House!Leave(s, liquid - liquid', supplyShares - supplyShares')
<1>1. PICK v \in Nat, z \in Nat, l \in Nat : v = totalValue /\ z = supplyShares /\ l = liquid
  BY DEF totalValue, LedgerTypeOK
<1>2. n <= sharesOf[s] /\ n <= z /\ z # 0 /\ sharesOf[s] \in Nat
  BY <1>1 DEF Redeem, LedgerTypeOK
<1>3. n * v \in Nat
  BY ProductIsNat
<1>4. PICK a \in Nat : a = (n * v) \div z /\ a * z <= n * v
  BY <1>2, <1>3, DivisionIsNat, DivisionFits
<1>5. /\ a <= l /\ liquid' = l - a /\ supplyShares' = z - n
      /\ sharesOf' = [sharesOf EXCEPT ![s] = @ - n]
  BY <1>1, <1>4 DEF Redeem, WorthOf
<1>6. liquid - liquid' = a /\ supplyShares - supplyShares' = n
  BY <1>1, <1>2, <1>5
<1>7. n \in 1..sharesOf[s] /\ a \in 0..l
  BY <1>2, <1>5
<1> QED
  BY <1>1, <1>2, <1>4, <1>5, <1>6, <1>7 DEF House!Leave, House!Value, totalValue

LEMMA StepsAreHouseSteps == ListInv /\ ListInv' /\ [Next]_vars => [House!Next]_(House!vars)
<1> SUFFICES ASSUME ListInv, ListInv', [Next]_vars PROVE House!Next \/ UNCHANGED House!vars
  OBVIOUS
<1>0. /\ TypeInv /\ LedgerTypeOK /\ outstanding \in Nat
      /\ liquid' \in Nat /\ outstanding' \in Nat /\ supplyShares' \in Nat
  BY DEF ListInv, TypeInv, TypeOK, LedgerTypeOK
<1>1. ASSUME NEW s \in Suppliers, NEW a \in Supplies, Supply(s, a) PROVE House!Next
  <2>1. a \in Nat \ {0} /\ Buy(s, a, totalValue) /\ UNCHANGED outstanding
    BY <1>1, ShareAssumption DEF Supply, bookVars
  <2> QED
    BY <1>0, <2>1, BuyEnters DEF House!Next
<1>2. ASSUME NEW s \in Suppliers, NEW n \in Redemptions, Withdraw(s, n) PROVE House!Next
  <2>1. n \in Nat \ {0} /\ Redeem(s, n, totalValue) /\ UNCHANGED outstanding
    BY <1>2, ShareAssumption DEF Withdraw, bookVars
  <2> QED
    BY <1>0, <2>1, RedeemLeaves DEF House!Next
<1>3. UNCHANGED <<supplyShares, sharesOf>> => House!Next
  BY <1>0 DEF House!Next, House!Play
<1>4. ASSUME NEW o \in Owners, NEW m \in Markets, NEW x \in Outcomes, NEW stake \in Stakes,
             NEW lev \in Leverages, NEW offer \in Offers, NEW got \in Lots(offer.quantity),
             NEW fee \in 0..MaxFee,
             Open(o, m, x, stake, lev, offer, got, CeilDiv(offer.cost * got, offer.quantity) + fee)
      PROVE  UNCHANGED <<supplyShares, sharesOf>>
  BY <1>4 DEF Open, Move, shareVars
<1>5. ASSUME NEW i \in 1..Len(positions),
             \/ \E w \in Proceeds : \E sold \in Lots(positions[i].quantity) :
                  Close(i, sold, w) \/ KnockOut(i, sold, w)
             \/ Settle(i)
      PROVE  UNCHANGED <<supplyShares, sharesOf>>
  BY <1>0, <1>5, ExitsExit DEF Exit, Move, shareVars
<1>6. ASSUME NEW p \in ParamsChoices, SetParams(p) PROVE UNCHANGED <<supplyShares, sharesOf>>
  BY <1>6 DEF SetParams, ledgerVars, shareVars
<1>7. ASSUME NEW b \in PauseChoices, SetPaused(b) PROVE UNCHANGED <<supplyShares, sharesOf>>
  BY <1>7 DEF SetPaused, Pause, shareVars
<1>8. ASSUME NEW m \in Markets, NEW v \in {"LOCKED", "YES", "NO", "VOID"}, Resolve(m, v)
      PROVE  UNCHANGED <<supplyShares, sharesOf>>
  BY <1>8 DEF Resolve, ledgerVars, shareVars
<1>9. Tick \/ UNCHANGED vars => UNCHANGED <<supplyShares, sharesOf>>
  BY DEF Tick, vars, ledgerVars, shareVars
<1> QED
  BY <1>1, <1>2, <1>3, <1>4, <1>5, <1>6, <1>7, <1>8, <1>9 DEF Next

\* The leverage reserve implements the house of shares, its outstanding fronts
\* the capital at risk: whatever the bets do, suppliers enter and leave fairly.
THEOREM ReserveIsAHouse == Spec => HouseSpec
<1>1. Init => House!Init
  BY DEF Init, LedgerInit, House!Init
<1> QED
  BY <1>1, ListInvAlways, StepsAreHouseSteps, PTL DEF Spec, HouseSpec, House!Spec

-----------------------------------------------------------------------------
(* The five books.                                                         *)

(* A bounded run of position numbers is a finite set.                      *)
LEMMA IdsAreFinite == IsFiniteSet(PositionIds)
BY LeverageAssumption, FS_Interval DEF PositionIds

\* What position i counts for, in the totals of its market and outcome.
FrontAt(i) == IF Live(i) THEN positions[i].fronted ELSE 0
SizeAt(i) == IF Live(i) THEN positions[i].quantity ELSE 0

\* Every position but i stays as it is.
OnlyTouches(i) == \A j \in PositionIds \ {i} :
  /\ Live(j)' <=> Live(j)
  /\ Live(j) => positions'[j] = positions[j]

\* While it lives, position i is a bet on outcome x of market m.
BetsOn(i, m, x) == Live(i) => positions[i].market = m /\ positions[i].outcome = x

\* Two families of values that differ at i only, by d.
ShiftsAt(f, g, i, d) ==
  /\ g[i] = f[i] + d
  /\ \A j \in PositionIds \ {i} : g[j] = f[j]

(* Such families have totals that differ by as much.                       *)
LEMMA TotalShifts ==
  ASSUME NEW f \in [PositionIds -> Nat], NEW g \in [PositionIds -> Nat],
         NEW i \in PositionIds, NEW d \in Int, ShiftsAt(f, g, i, d)
  PROVE  SumFunction(g) = SumFunction(f) + d
<1>1. g[i] = f[i] + d /\ \A j \in PositionIds \ {i} : g[j] = f[j]
  BY DEF ShiftsAt
<1> QED
  BY <1>1, IdsAreFinite, TotalGainsAt

(* A live position is one of the ids, with natural claims.                 *)
LEMMA LiveIsTyped ==
  ASSUME TypeOK, NEW i, Live(i)
  PROVE  /\ i \in PositionIds /\ i \in 1..Len(positions)
         /\ positions[i].fronted \in Nat /\ positions[i].quantity \in Nat
BY PositionTyped, PositionFields, LeverageAssumption DEF Live, TypeOK, PositionIds

LEMMA LiveIsTypedNext ==
  ASSUME TypeOK', NEW i, Live(i)'
  PROVE  positions'[i].fronted \in Nat /\ positions'[i].quantity \in Nat
<1>1. i \in 1..Len(positions') /\ positions' \in Seq(Position)
  BY DEF Live, TypeOK
<1>2. positions'[i] \in Position
  BY <1>1
<1> QED
  BY <1>2, PositionFields

\* Which positions the three families count, before a step and after it.
LEMMA CountedIds ==
  ASSUME NEW m, NEW x
  PROVE  /\ \A i : i \in LiveIds <=> Live(i)
         /\ \A i : i \in LiveIn(m) <=> Live(i) /\ positions[i].market = m
         /\ \A i : i \in LiveOn(m, x) <=> Live(i) /\ positions[i].market = m
                                                  /\ positions[i].outcome = x
         /\ \A i : i \in LiveIds' <=> Live(i)'
         /\ \A i : i \in LiveIn(m)' <=> Live(i)' /\ positions'[i].market = m
         /\ \A i : i \in LiveOn(m, x)' <=> Live(i)' /\ positions'[i].market = m
                                                    /\ positions'[i].outcome = x
BY DEF LiveIds, LiveIn, LiveOn, Live

(* The families hold natural numbers.                                      *)
LEMMA CountsTyped ==
  ASSUME TypeOK, NEW m, NEW x
  PROVE  /\ Fronts(LiveIds) \in [PositionIds -> Nat]
         /\ Fronts(LiveIn(m)) \in [PositionIds -> Nat]
         /\ Sizes(LiveOn(m, x)) \in [PositionIds -> Nat]
<1>1. \A i \in LiveIds : positions[i].fronted \in Nat /\ positions[i].quantity \in Nat
  BY CountedIds, LiveIsTyped
<1>2. LiveIn(m) \subseteq LiveIds /\ LiveOn(m, x) \subseteq LiveIds
  BY DEF LiveIn, LiveOn
<1> QED
  BY <1>1, <1>2 DEF Fronts, Sizes

LEMMA CountsTypedNext ==
  ASSUME TypeOK', NEW m, NEW x
  PROVE  /\ Fronts(LiveIds)' \in [PositionIds -> Nat]
         /\ Fronts(LiveIn(m))' \in [PositionIds -> Nat]
         /\ Sizes(LiveOn(m, x))' \in [PositionIds -> Nat]
<1>1. \A i \in LiveIds' : positions'[i].fronted \in Nat /\ positions'[i].quantity \in Nat
  BY CountedIds, LiveIsTypedNext
<1>2. LiveIn(m)' \subseteq LiveIds' /\ LiveOn(m, x)' \subseteq LiveIds'
  BY DEF LiveIn, LiveOn
<1> QED
  BY <1>1, <1>2 DEF Fronts, Sizes

(* A step that touches one position moves the totals by what it changes    *)
(* there, in that position's market and outcome only.                      *)
LEMMA CountsShift ==
  ASSUME TypeOK, TypeOK', NEW i \in PositionIds, NEW mk, NEW oc, NEW d \in Int, NEW n \in Int,
         OnlyTouches(i), BetsOn(i, mk, oc), BetsOn(i, mk, oc)',
         FrontAt(i)' = FrontAt(i) + d, SizeAt(i)' = SizeAt(i) + n,
         NEW m, NEW x
  PROVE  /\ ShiftsAt(Fronts(LiveIds), Fronts(LiveIds)', i, d)
         /\ ShiftsAt(Fronts(LiveIn(m)), Fronts(LiveIn(m))', i, IF m = mk THEN d ELSE 0)
         /\ ShiftsAt(Sizes(LiveOn(m, x)), Sizes(LiveOn(m, x))', i,
                     IF m = mk /\ x = oc THEN n ELSE 0)
<1>1. ASSUME NEW j \in PositionIds \ {i}
      PROVE  /\ Fronts(LiveIds)'[j] = Fronts(LiveIds)[j]
             /\ Fronts(LiveIn(m))'[j] = Fronts(LiveIn(m))[j]
             /\ Sizes(LiveOn(m, x))'[j] = Sizes(LiveOn(m, x))[j]
  <2>1. (Live(j)' <=> Live(j)) /\ (Live(j) => positions'[j] = positions[j])
    BY DEF OnlyTouches
  <2>2. /\ j \in LiveIds' <=> j \in LiveIds
        /\ j \in LiveIn(m)' <=> j \in LiveIn(m)
        /\ j \in LiveOn(m, x)' <=> j \in LiveOn(m, x)
    BY <2>1, CountedIds
  <2>3. j \in LiveIds => positions'[j] = positions[j]
    BY <2>1, CountedIds
  <2>4. LiveIn(m) \subseteq LiveIds /\ LiveOn(m, x) \subseteq LiveIds
    BY DEF LiveIn, LiveOn
  <2> QED
    BY <2>2, <2>3, <2>4 DEF Fronts, Sizes
<1>2. Fronts(LiveIds)'[i] = Fronts(LiveIds)[i] + d
  BY CountedIds DEF Fronts, FrontAt
<1>3. (Live(i) => positions[i].market = mk /\ positions[i].outcome = oc)
      /\ (Live(i)' => positions'[i].market = mk /\ positions'[i].outcome = oc)
  BY DEF BetsOn
<1>4. Fronts(LiveIn(m))'[i] = Fronts(LiveIn(m))[i] + IF m = mk THEN d ELSE 0
  BY <1>3, CountedIds DEF Fronts, FrontAt
<1>5. Sizes(LiveOn(m, x))'[i] = Sizes(LiveOn(m, x))[i] + IF m = mk /\ x = oc THEN n ELSE 0
  BY <1>3, CountedIds DEF Sizes, SizeAt
<1> QED
  BY <1>1, <1>2, <1>4, <1>5 DEF ShiftsAt

(* So the books that are moved by as much still follow the positions.      *)
LEMMA BooksMove ==
  ASSUME TypeOK, TypeOK', BooksFollowPositions, (wallet = liquid)',
         NEW i \in PositionIds, NEW mk \in Markets, NEW oc \in Sides, NEW d \in Int, NEW n \in Int,
         OnlyTouches(i), BetsOn(i, mk, oc), BetsOn(i, mk, oc)',
         FrontAt(i)' = FrontAt(i) + d, SizeAt(i)' = SizeAt(i) + n,
         outstanding' = outstanding + d,
         frontedByMarket' = [frontedByMarket EXCEPT ![mk] = @ + d],
         tokens' = [tokens EXCEPT ![mk][oc] = @ + n]
  PROVE  BooksFollowPositions'
<1>0. frontedByMarket \in [Markets -> Nat] /\ tokens \in [Markets -> [Sides -> Int]]
  BY DEF TypeOK
<1>1. outstanding' = SumFunction(Fronts(LiveIds)')
  <2>1. ShiftsAt(Fronts(LiveIds), Fronts(LiveIds)', i, d)
    BY CountsShift
  <2>2. SumFunction(Fronts(LiveIds)') = SumFunction(Fronts(LiveIds)) + d
    BY <2>1, CountsTyped, CountsTypedNext, TotalShifts
  <2> QED
    BY <2>2 DEF BooksFollowPositions
<1>2. ASSUME NEW m \in Markets PROVE frontedByMarket'[m] = SumFunction(Fronts(LiveIn(m))')
  <2>1. PICK k \in Int : k = IF m = mk THEN d ELSE 0
    OBVIOUS
  <2>2. ShiftsAt(Fronts(LiveIn(m)), Fronts(LiveIn(m))', i, k)
    BY <2>1, CountsShift
  <2>3. SumFunction(Fronts(LiveIn(m))') = SumFunction(Fronts(LiveIn(m))) + k
    BY <2>2, CountsTyped, CountsTypedNext, TotalShifts
  <2>4. frontedByMarket'[m] = frontedByMarket[m] + k
    BY <1>0, <2>1
  <2> QED
    BY <2>3, <2>4 DEF BooksFollowPositions
<1>3. ASSUME NEW m \in Markets, NEW x \in Sides
      PROVE  tokens'[m][x] = SumFunction(Sizes(LiveOn(m, x))')
  <2>1. PICK k \in Int : k = IF m = mk /\ x = oc THEN n ELSE 0
    OBVIOUS
  <2>2. ShiftsAt(Sizes(LiveOn(m, x)), Sizes(LiveOn(m, x))', i, k)
    BY <2>1, CountsShift
  <2>3. SumFunction(Sizes(LiveOn(m, x))') = SumFunction(Sizes(LiveOn(m, x))) + k
    BY <2>2, CountsTyped, CountsTypedNext, TotalShifts
  <2>4. tokens'[m][x] = tokens[m][x] + k
    BY <1>0, <2>1
  <2> QED
    BY <2>3, <2>4 DEF BooksFollowPositions
<1> QED
  BY <1>1, <1>2, <1>3 DEF BooksFollowPositions

(* An entry books its front and its tokens at the new id.                  *)
LEMMA OpenBooks ==
  ASSUME ListInv, ListInv', BooksFollowPositions,
         NEW o \in Owners, NEW m \in Markets, NEW x \in Outcomes, NEW stake \in Stakes,
         NEW lev \in Leverages, NEW offer \in Offers, NEW got \in Nat, NEW cost \in Nat,
         Open(o, m, x, stake, lev, offer, got, cost)
  PROVE  BooksFollowPositions'
<1>0. /\ TypeOK /\ TypeOK' /\ (wallet = liquid)' /\ positions \in Seq(Position)
      /\ x \in Sides
  BY LeverageAssumption DEF ListInv, TypeInv, TypeOK
<1>1. PICK t : t = Terms(cost, lev)
  OBVIOUS
<1>2. PICK i : i = Len(positions) + 1
  OBVIOUS
<1>3. PICK p : p = NewPosition(o, m, x, got, t)
  OBVIOUS
<1>4. /\ outstanding' = outstanding + t.fronted
      /\ frontedByMarket' = [frontedByMarket EXCEPT ![m] = @ + t.fronted]
      /\ tokens' = [tokens EXCEPT ![m][x] = @ + got]
      /\ positions' = Append(positions, p)
      /\ i <= MaxPositions
  BY <1>1, <1>2, <1>3 DEF Open
<1>5. i \in PositionIds
  BY <1>0, <1>2, <1>4, LeverageAssumption DEF PositionIds
<1>6. /\ Len(positions') = i /\ positions'[i] = p /\ i \notin 1..Len(positions)
      /\ 1..Len(positions') = 1..Len(positions) \cup {i}
      /\ \A j \in 1..Len(positions) : positions'[j] = positions[j]
  BY <1>0, <1>2, <1>4
<1>7. /\ p.status = "LIVE" /\ p.fronted = t.fronted /\ p.quantity = got
      /\ p.market = m /\ p.outcome = x
  BY <1>3 DEF NewPosition
<1>8. ~ Live(i) /\ Live(i)'
  BY <1>2, <1>6, <1>7 DEF Live
<1>9. OnlyTouches(i)
  BY <1>6 DEF OnlyTouches, Live
<1>10. BetsOn(i, m, x) /\ BetsOn(i, m, x)'
  BY <1>6, <1>7, <1>8 DEF BetsOn
<1>11. t.fronted \in Nat
  BY <1>0, <1>6, <1>7, <1>8, LiveIsTypedNext
<1>12. FrontAt(i)' = FrontAt(i) + t.fronted /\ SizeAt(i)' = SizeAt(i) + got
  BY <1>6, <1>7, <1>8, <1>11 DEF FrontAt, SizeAt
<1>13. PICK d \in Int : d = t.fronted
  BY <1>11
<1>14. got \in Int
  OBVIOUS
<1> QED
  BY <1>0, <1>4, <1>5, <1>9, <1>10, <1>12, <1>13, <1>14, BooksMove

(* Where and what a position bets on outlives a partial exit.              *)
LEMMA AfterExitBet ==
  ASSUME NEW p \in Position, NEW end, NEW sold, NEW w, NEW r
  PROVE  /\ AfterExit(p, end, sold, w, r).market = p.market
         /\ AfterExit(p, end, sold, w, r).outcome = p.outcome
         /\ AfterExit(p, end, sold, w, r).quantity = p.quantity - sold
BY DEF AfterExit, Position

(* An exit takes off the books what it releases and what it sells.         *)
LEMMA ExitBooks ==
  ASSUME ListInv, ListInv', BooksFollowPositions,
         NEW i, Live(i), NEW end \in Ends,
         NEW sold \in 0..positions[i].quantity, NEW w \in Nat, Exit(i, end, sold, w)
  PROVE  BooksFollowPositions'
<1>0. TypeOK /\ TypeOK' /\ (wallet = liquid)' /\ positions \in Seq(Position)
  BY DEF ListInv, TypeInv, TypeOK
<1>1. i \in PositionIds /\ i \in 1..Len(positions)
  BY <1>0, LiveIsTyped
<1>2. PICK p \in Position : p = positions[i]
  BY <1>0, <1>1
<1>3. sold \in 0..p.quantity /\ sold \in Nat /\ p.status = "LIVE"
  BY <1>2, PositionFields DEF Live
<1>4. PICK r \in Nat : r = Reclaimed(i, w) /\ r <= w /\ r <= p.fronted
  BY <1>0, <1>1, <1>2, <1>3, ExitAmounts
<1>5. PICK l \in Nat : l = Released(i, sold, w)
  BY <1>0, <1>1, <1>3, ExitAmounts
<1>6. l = IF sold = p.quantity THEN p.fronted ELSE r
  BY <1>2, <1>4, <1>5 DEF Released
<1>7. PICK q : q = AfterExit(p, end, sold, w, r)
  OBVIOUS
<1>8. /\ positions' = [positions EXCEPT ![i] = q]
      /\ outstanding' = outstanding - l
      /\ frontedByMarket' = [frontedByMarket EXCEPT ![p.market] = @ - l]
      /\ tokens' = [tokens EXCEPT ![p.market][p.outcome] = @ - sold]
  BY <1>2, <1>4, <1>5, <1>7 DEF Exit
<1>9. /\ q.market = p.market /\ q.outcome = p.outcome /\ q.quantity = p.quantity - sold
      /\ q.fronted = (IF sold = p.quantity THEN 0 ELSE p.fronted - r)
      /\ q.status = (IF sold = p.quantity THEN end ELSE p.status)
  BY <1>3, <1>4, <1>7, AfterExitTyped, AfterExitBet
<1>10. /\ Len(positions') = Len(positions) /\ positions'[i] = q
       /\ \A j \in 1..Len(positions) \ {i} : positions'[j] = positions[j]
  BY <1>0, <1>1, <1>8
<1>11. Live(i)' <=> sold # p.quantity
  BY <1>1, <1>3, <1>9, <1>10 DEF Live, Ends
<1>12. OnlyTouches(i)
  BY <1>10 DEF OnlyTouches, Live
<1>13. BetsOn(i, p.market, p.outcome) /\ BetsOn(i, p.market, p.outcome)'
  BY <1>2, <1>9, <1>10 DEF BetsOn
<1>14. PICK d \in Int, n \in Int : d = -l /\ n = -sold
  BY <1>3
<1>15. p.fronted \in Nat /\ p.quantity \in Nat
  BY PositionFields
<1>16. FrontAt(i)' = FrontAt(i) + d
  BY <1>2, <1>6, <1>9, <1>10, <1>11, <1>14, <1>15 DEF FrontAt
<1>17. SizeAt(i)' = SizeAt(i) + n
  BY <1>2, <1>3, <1>9, <1>10, <1>11, <1>14, <1>15 DEF SizeAt
<1>18. PICK mk \in Markets, oc \in Sides : mk = p.market /\ oc = p.outcome
  BY PositionFields
<1>19. /\ outstanding' = outstanding + d
       /\ frontedByMarket' = [frontedByMarket EXCEPT ![mk] = @ + d]
       /\ tokens' = [tokens EXCEPT ![mk][oc] = @ + n]
  <2>1. /\ outstanding \in Nat /\ frontedByMarket \in [Markets -> Nat]
        /\ tokens \in [Markets -> [Sides -> Int]]
    BY <1>0 DEF TypeOK
  <2>2. outstanding' = outstanding + d
    BY <1>8, <1>14, <2>1
  <2>3. frontedByMarket[mk] - l = frontedByMarket[mk] + d
    BY <1>14, <2>1
  <2>4. tokens[mk][oc] - sold = tokens[mk][oc] + n
    BY <1>3, <1>14, <2>1
  <2> QED
    BY <1>8, <1>18, <2>2, <2>3, <2>4
<1> QED
  BY <1>0, <1>1, <1>12, <1>13, <1>16, <1>17, <1>18, <1>19, BooksMove

LEMMA BooksHold ==
  ListInv /\ ListInv' /\ BooksFollowPositions /\ [Next]_vars => BooksFollowPositions'
<1> SUFFICES ASSUME ListInv, ListInv', BooksFollowPositions, [Next]_vars
             PROVE  BooksFollowPositions'
  OBVIOUS
<1>0. TypeInv /\ (wallet = liquid)'
  BY DEF ListInv, TypeInv
<1>1. ASSUME NEW o \in Owners, NEW m \in Markets, NEW x \in Outcomes, NEW stake \in Stakes,
             NEW lev \in Leverages, NEW offer \in Offers, NEW got \in Lots(offer.quantity),
             NEW fee \in 0..MaxFee,
             Open(o, m, x, stake, lev, offer, got, CeilDiv(offer.cost * got, offer.quantity) + fee)
      PROVE  BooksFollowPositions'
  <2>1. PICK c \in Nat : c = CeilDiv(offer.cost * got, offer.quantity) + fee
    BY FillsTyped
  <2>2. got \in Nat
    BY FillsTyped
  <2> QED
    BY <1>1, <2>1, <2>2, OpenBooks
<1>2. ASSUME NEW i \in 1..Len(positions),
             \/ \E w \in Proceeds : \E sold \in Lots(positions[i].quantity) :
                  Close(i, sold, w) \/ KnockOut(i, sold, w)
             \/ Settle(i)
      PROVE  BooksFollowPositions'
  BY <1>0, <1>2, ExitsExit, ExitBooks
<1>3. UNCHANGED <<positions, outstanding, frontedByMarket, tokens>> => BooksFollowPositions'
  BY <1>0 DEF BooksFollowPositions, LiveIds, LiveIn, LiveOn, Live, Fronts, Sizes
<1>4. ASSUME NEW s \in Suppliers, NEW a \in Supplies, Supply(s, a) PROVE BooksFollowPositions'
  BY <1>3, <1>4 DEF Supply, bookVars
<1>5. ASSUME NEW s \in Suppliers, NEW n \in Redemptions, Withdraw(s, n)
      PROVE  BooksFollowPositions'
  BY <1>3, <1>5 DEF Withdraw, bookVars
<1>6. ASSUME NEW p \in ParamsChoices, SetParams(p) PROVE BooksFollowPositions'
  BY <1>3, <1>6 DEF SetParams, bookVars
<1>7. ASSUME NEW b \in PauseChoices, SetPaused(b) PROVE BooksFollowPositions'
  BY <1>3, <1>7 DEF SetPaused, bookVars
<1>8. ASSUME NEW m \in Markets, NEW v \in {"LOCKED", "YES", "NO", "VOID"}, Resolve(m, v)
      PROVE  BooksFollowPositions'
  BY <1>3, <1>8 DEF Resolve, bookVars
<1>9. Tick \/ UNCHANGED vars => BooksFollowPositions'
  BY <1>3 DEF Tick, vars, bookVars
<1> QED
  BY <1>1, <1>2, <1>4, <1>5, <1>6, <1>7, <1>8, <1>9 DEF Next

(* With no position every total is zero.                                   *)
LEMMA BooksStart == Init => BooksFollowPositions
<1> SUFFICES ASSUME Init PROVE BooksFollowPositions
  OBVIOUS
<1>1. LiveIds = {}
  BY DEF Init, LiveIds
<1>2. Fronts({}) = [i \in PositionIds |-> 0] /\ Sizes({}) = [i \in PositionIds |-> 0]
  BY DEF Fronts, Sizes
<1>3. SumFunction([i \in PositionIds |-> 0]) = 0
  BY IdsAreFinite, TotalOfZeros
<1>4. \A m, x : LiveIn(m) = {} /\ LiveOn(m, x) = {}
  BY <1>1 DEF LiveIn, LiveOn
<1> QED
  BY <1>1, <1>2, <1>3, <1>4 DEF BooksFollowPositions, Init, LedgerInit

\* Over any opens, partial sales, knock-outs and settlements the reserve's
\* totals, its tokens and its wallet are those of its live positions.
THEOREM BooksCorrect == Spec => []BooksFollowPositions
BY BooksStart, BooksHold, ListInvAlways, PTL DEF Spec

=============================================================================
