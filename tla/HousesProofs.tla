---------------------------- MODULE HousesProofs ----------------------------
(***************************************************************************)
(* What holds of the houses that share their capital, for every choice of  *)
(* their constants: the two reserves that escrow a bet's whole payout      *)
(* (EscrowBook, with the parlay's tickets and the range's rounds), and the *)
(* market maker's vault.  The three are instances over one set of          *)
(* variables, so that a fact about the shared books or shares serves all.  *)
(***************************************************************************)
EXTENDS Houses, FiniteSums, SequenceTheorems

-----------------------------------------------------------------------------
(* Arithmetic.                                                             *)

LEMMA ProductIsNat == ASSUME NEW a \in Nat, NEW b \in Nat PROVE a * b \in Nat
OBVIOUS

LEMMA DivisionIsNat == ASSUME NEW a \in Nat, NEW b \in Nat, b # 0 PROVE a \div b \in Nat
OBVIOUS

LEMMA DivisionFits ==
  ASSUME NEW a \in Nat, NEW b \in Nat, b # 0
  PROVE  (a \div b) * b <= a
OBVIOUS

-----------------------------------------------------------------------------
(* The product of a combination's prices, rounded down at each step, is a  *)
(* fold: a recursive function over the sets of positions.  It is treated   *)
(* like the sums of FiniteSums, on smallest counterexamples.               *)

\* The position a fold to the left takes last, and the equation it solves.
LastOf(s) == CHOOSE x \in s : \A y \in s : x >= y

HasLasts(S) == \A s \in SUBSET S : s # {} => LastOf(s) \in s

HasTop(s) == \E x \in s : \A y \in s : x >= y

LEMMA NumbersHaveTops ==
  ASSUME NEW S, IsFiniteSet(S), S \subseteq Nat
  PROVE  \A s \in SUBSET S : s # {} => HasTop(s)
<1> DEFINE T == {s \in SUBSET S : s # {} /\ ~ HasTop(s)}
<1> SUFFICES T = {}
  OBVIOUS
<1> SUFFICES ASSUME T # {} PROVE FALSE
  OBVIOUS
<1>1. PICK s \in T : \A t \in T : t \subseteq s => t = s
  <2>1. T \subseteq SUBSET S /\ T # {}
    OBVIOUS
  <2> HIDE DEF T
  <2> QED
    BY ONLY IsFiniteSet(S), <2>1, SmallestSubset
<1>2. PICK x \in s : x \in Nat
  OBVIOUS
<1>3. CASE s \ {x} = {}
  BY <1>2, <1>3 DEF HasTop
<1>4. CASE s \ {x} # {}
  <2>1. HasTop(s \ {x})
    <3>1. s \ {x} \in SUBSET S /\ s \ {x} \subseteq s /\ s \ {x} # s
      BY <1>1, <1>2
    <3>2. s \ {x} \notin T
      <4> HIDE DEF T
      <4> QED
        BY <1>1, <3>1
    <3> QED
      BY <1>4, <3>1, <3>2
  <2>2. PICK m \in s \ {x} : \A y \in s \ {x} : m >= y
    BY <2>1 DEF HasTop
  <2>3. CASE m >= x
    BY <2>2, <2>3 DEF HasTop
  <2>4. CASE ~(m >= x)
    <3>1. \A y \in s : x >= y
      BY <1>2, <2>2, <2>4
    <3> QED
      BY <3>1 DEF HasTop
  <2> QED
    BY <2>3, <2>4
<1> QED
  BY <1>3, <1>4

LEMMA NumbersHaveLasts ==
  ASSUME NEW S, IsFiniteSet(S), S \subseteq Nat
  PROVE  HasLasts(S)
BY NumbersHaveTops DEF HasLasts, LastOf, HasTop

Multiplies(h, f, D) ==
  h = [s \in D |-> IF s = {} THEN One ELSE (h[s \ {LastOf(s)}] * f[LastOf(s)]) \div One]

Product(f, S) == CHOOSE h : Multiplies(h, f, SUBSET S)

LEMMA ProductStep ==
  ASSUME NEW f, NEW h, NEW S, Multiplies(h, f, SUBSET S), NEW s \in SUBSET S
  PROVE  h[s] = IF s = {} THEN One ELSE (h[s \ {LastOf(s)}] * f[LastOf(s)]) \div One
BY DEF Multiplies

(* Two solutions have one value on a set both of them cover.               *)
LEMMA ProductsAgree ==
  ASSUME NEW f, NEW g, NEW h, NEW S, NEW R, NEW U, IsFiniteSet(U), HasLasts(U),
         Multiplies(g, f, SUBSET S), Multiplies(h, f, SUBSET R),
         U \subseteq S, U \subseteq R
  PROVE  g[U] = h[U]
<1> DEFINE T == {u \in SUBSET U : g[u] # h[u]}
<1> SUFFICES T = {}
  OBVIOUS
<1> SUFFICES ASSUME T # {} PROVE FALSE
  OBVIOUS
<1>1. PICK s \in T : \A t \in T : t \subseteq s => t = s
  <2>1. T \subseteq SUBSET U
    OBVIOUS
  <2> HIDE DEF T
  <2> QED
    BY <2>1, SmallestSubset
<1>2. s \in SUBSET S /\ s \in SUBSET R
  OBVIOUS
<1>3. CASE s = {}
  BY <1>2, <1>3, ProductStep
<1>4. CASE s # {}
  <2> DEFINE r == s \ {LastOf(s)}
  <2>1. LastOf(s) \in s
    BY <1>4 DEF HasLasts
  <2>2. r \in SUBSET U /\ r \subseteq s /\ r # s
    BY <2>1
  <2>3. g[r] = h[r]
    BY <1>1, <2>2
  <2>4. g[s] = (g[r] * f[LastOf(s)]) \div One
    BY <1>2, <1>4, ProductStep
  <2>5. h[s] = (h[r] * f[LastOf(s)]) \div One
    BY <1>2, <1>4, ProductStep
  <2> QED
    BY <2>3, <2>4, <2>5
<1> QED
  BY <1>3, <1>4

(* A finite set has a solution: the values of its proper subsets make one. *)
LEMMA ProductExists ==
  ASSUME NEW f, NEW S, IsFiniteSet(S), HasLasts(S)
  PROVE  Multiplies(Product(f, S), f, SUBSET S)
<1> DEFINE Good(s) == \E h : Multiplies(h, f, SUBSET s)
           T == {s \in SUBSET S : ~ Good(s)}
<1> SUFFICES T = {}
  BY DEF Product
<1> SUFFICES ASSUME T # {} PROVE FALSE
  OBVIOUS
<1>1. PICK s \in T : \A t \in T : t \subseteq s => t = s
  <2>1. T \subseteq SUBSET S
    OBVIOUS
  <2> HIDE DEF T
  <2> QED
    BY <2>1, SmallestSubset
<1> DEFINE V(t) == Product(f, t)[t]
           W(t) == IF t = {} THEN One ELSE (V(t \ {LastOf(t)}) * f[LastOf(t)]) \div One
<1>2. \A t \in SUBSET s : t # s => Multiplies(Product(f, t), f, SUBSET t)
  <2> TAKE t \in SUBSET s
  <2> HAVE t # s
  <2>1. Good(t)
    BY <1>1
  <2> QED
    BY <2>1 DEF Product
<1>3. \A t \in SUBSET s : t # s => V(t) = W(t)
  <2> TAKE t \in SUBSET s
  <2> HAVE t # s
  <2>1. Multiplies(Product(f, t), f, SUBSET t)
    BY <1>2
  <2>2. CASE t = {}
    BY <2>1, <2>2, ProductStep
  <2>3. CASE t # {}
    <3> DEFINE r == t \ {LastOf(t)}
    <3>1. r \subseteq t /\ r # t
      BY <2>3 DEF HasLasts
    <3>2. Multiplies(Product(f, r), f, SUBSET r)
      BY <1>2, <3>1
    <3>3. IsFiniteSet(r) /\ HasLasts(r)
      BY FS_Subset DEF HasLasts
    <3>4. Product(f, t)[r] = Product(f, r)[r]
      <4> HIDE DEF r
      <4> QED
        BY <2>1, <3>1, <3>2, <3>3, ProductsAgree
    <3> QED
      BY <2>1, <2>3, <3>4, ProductStep
  <2> QED
    BY <2>2, <2>3
<1> DEFINE H == [t \in SUBSET s |-> W(t)]
<1>4. \A t \in SUBSET s : t # {} => W(t) = (H[t \ {LastOf(t)}] * f[LastOf(t)]) \div One
  <2> TAKE t \in SUBSET s
  <2> HAVE t # {}
  <2> DEFINE r == t \ {LastOf(t)}
  <2>1. r \in SUBSET s /\ r # s
    BY DEF HasLasts
  <2>2. V(r) = W(r)
    BY <1>3, <2>1
  <2> QED
    BY <2>1, <2>2
<1>5. Multiplies(H, f, SUBSET s)
  <2> HIDE DEF V
  <2> QED
    BY <1>4 DEF Multiplies
<1> QED
  BY <1>5

(* A product of natural prices is a natural number.                        *)
LEMMA ProductOfPrices ==
  ASSUME One \in Nat \ {0}, NEW f, NEW S, IsFiniteSet(S), HasLasts(S), \A x \in S : f[x] \in Nat
  PROVE  Product(f, S)[S] \in Nat
<1> DEFINE h == Product(f, S)
           T == {s \in SUBSET S : h[s] \notin Nat}
<1>0. Multiplies(h, f, SUBSET S)
  BY ProductExists
<1> HIDE DEF h
<1> SUFFICES ASSUME T # {} PROVE FALSE
  BY DEF h
<1>1. PICK s \in T : \A t \in T : t \subseteq s => t = s
  <2>1. T \subseteq SUBSET S
    OBVIOUS
  <2> HIDE DEF T
  <2> QED
    BY <2>1, SmallestSubset
<1>2. s # {}
  BY <1>0, ProductStep
<1> DEFINE r == s \ {LastOf(s)}
<1>3. LastOf(s) \in s /\ r \subseteq s /\ r # s
  BY <1>2 DEF HasLasts
<1>4. PICK a \in Nat, p \in Nat : a = h[r] /\ p = f[LastOf(s)]
  BY <1>1, <1>3
<1>5. h[s] = (a * p) \div One
  <2>0. s \in SUBSET S
    OBVIOUS
  <2>1. h[s] = IF s = {} THEN One ELSE (h[r] * f[LastOf(s)]) \div One
    <3> HIDE DEF T
    <3> QED
      BY <1>0, <2>0, ProductStep
  <2> QED
    BY <1>2, <1>4, <2>1
<1>6. a * p \in Nat
  BY ProductIsNat
<1> QED
  BY <1>5, <1>6, DivisionIsNat

LEMMA FoldIsProduct ==
  ASSUME NEW prices
  PROVE  Parlay!FoldLeft(LAMBDA acc, p : (acc * p) \div One, One, prices)
           = Product(prices, DOMAIN prices)[DOMAIN prices]
BY DEF Parlay!FoldLeft, Parlay!MapThenFoldSet, Parlay!Max, Product, Multiplies, LastOf

-----------------------------------------------------------------------------
(* Shares: for any house.                                                  *)

\* Entering at no more than the value in: (v + a) * s >= v * (s + n).
LEMMA EnteringPays ==
  ASSUME NEW v \in Nat, NEW s \in Nat, NEW a \in Nat, NEW n \in Nat,
         n * v <= a * s
  PROVE  (v + a) * s >= v * (s + n)
<1>1. (v + a) * s = v * s + a * s
  OBVIOUS
<1>2. v * (s + n) = v * s + n * v
  OBVIOUS
<1>3. v * s \in Nat /\ a * s \in Nat /\ n * v \in Nat
  OBVIOUS
<1> QED
  BY <1>1, <1>2, <1>3

\* Leaving with no more than the shares are worth: (v - a) * s >= v * (s - n).
LEMMA LeavingPays ==
  ASSUME NEW v \in Nat, NEW s \in Nat, NEW a \in Nat, NEW n \in Nat,
         a * s <= n * v
  PROVE  (v - a) * s >= v * (s - n)
<1>1. (v - a) * s = v * s - a * s
  OBVIOUS
<1>2. v * (s - n) = v * s - n * v
  OBVIOUS
<1>3. v * s \in Nat /\ a * s \in Nat /\ n * v \in Nat
  OBVIOUS
<1> QED
  BY <1>1, <1>2, <1>3

\* What the house has at risk.
Risk == IF house = "maker" THEN Maker!totalDeployed ELSE locked

(* Capital and shares stay natural numbers.                                *)
LEMMA HouseTyped == IsAHouse => []AnyHouse!TypeOK
<1>1. AnyHouse!Init => AnyHouse!TypeOK
  BY DEF AnyHouse!Init, AnyHouse!TypeOK
<1>2. AnyHouse!TypeOK /\ [AnyHouse!Next]_(AnyHouse!vars) => AnyHouse!TypeOK'
  <2> SUFFICES ASSUME AnyHouse!TypeOK, [AnyHouse!Next]_(AnyHouse!vars) PROVE AnyHouse!TypeOK'
    OBVIOUS
  <2>0. AnyHouse!Next => liquid' \in Nat /\ Risk' \in Nat /\ supplyShares' \in Nat
    BY DEF AnyHouse!Next, Risk
  <2>1. ASSUME AnyHouse!Next, NEW s \in Suppliers,
               AnyHouse!Enter(s, liquid' - liquid, supplyShares' - supplyShares)
        PROVE  AnyHouse!TypeOK'
    BY <2>0, <2>1 DEF AnyHouse!Enter, AnyHouse!TypeOK, Risk
  <2>2. ASSUME AnyHouse!Next, NEW s \in Suppliers,
               AnyHouse!Leave(s, liquid - liquid', supplyShares - supplyShares')
        PROVE  AnyHouse!TypeOK'
    BY <2>0, <2>2 DEF AnyHouse!Leave, AnyHouse!TypeOK, Risk
  <2>3. CASE AnyHouse!Next /\ AnyHouse!Play
    BY <2>0, <2>3 DEF AnyHouse!Play, AnyHouse!TypeOK, Risk
  <2>4. CASE UNCHANGED AnyHouse!vars
    BY <2>4 DEF AnyHouse!vars, AnyHouse!TypeOK, Risk
  <2> QED
    BY <2>1, <2>2, <2>3, <2>4 DEF AnyHouse!Next, Risk
<1> QED
  BY <1>1, <1>2, PTL DEF IsAHouse, AnyHouse!Spec

\* No supplier's entry or exit lowers what a share of the others is worth: of the
\* specification each of the three is shown to implement.
THEOREM ShareValueHolds == IsAHouse => AnyHouse!NeverDiluted
<1>1. AnyHouse!TypeOK /\ AnyHouse!TypeOK' /\ [AnyHouse!Next]_(AnyHouse!vars) =>
        (supplyShares # 0 /\ supplyShares' # supplyShares =>
           AnyHouse!Value' * supplyShares >= AnyHouse!Value * supplyShares')
  <2> SUFFICES ASSUME AnyHouse!TypeOK, AnyHouse!TypeOK', [AnyHouse!Next]_(AnyHouse!vars),
                      supplyShares # 0, supplyShares' # supplyShares
               PROVE  AnyHouse!Value' * supplyShares >= AnyHouse!Value * supplyShares'
    OBVIOUS
  <2>0. PICK l \in Nat, r \in Nat, n \in Nat, l2 \in Nat, n2 \in Nat :
             /\ l = liquid /\ r = Risk /\ n = supplyShares
             /\ l2 = liquid' /\ n2 = supplyShares'
    BY DEF AnyHouse!TypeOK, Risk
  <2>1. ASSUME NEW s \in Suppliers,
               AnyHouse!Enter(s, liquid' - liquid, supplyShares' - supplyShares)
        PROVE  AnyHouse!Value' * supplyShares >= AnyHouse!Value * supplyShares'
    <3>1. /\ l2 - l > 0 /\ n2 - n > 0 /\ Risk' = r
          /\ l + r # 0 => (n2 - n) * (l + r) <= (l2 - l) * n
      BY <2>0, <2>1 DEF AnyHouse!Enter, AnyHouse!Value, Risk
    <3>2. (n2 - n) * (l + r) <= (l2 - l) * n
      BY <3>1
    <3>3. /\ l2 - l \in Nat /\ n2 - n \in Nat
          /\ l2 + r = (l + r) + (l2 - l) /\ n2 = n + (n2 - n)
      BY <3>1
    <3>4. (l2 + r) * n >= (l + r) * n2
      BY <3>2, <3>3, EnteringPays
    <3> QED
      BY <2>0, <3>1, <3>4 DEF AnyHouse!Value, Risk
  <2>2. ASSUME NEW s \in Suppliers,
               AnyHouse!Leave(s, liquid - liquid', supplyShares - supplyShares')
        PROVE  AnyHouse!Value' * supplyShares >= AnyHouse!Value * supplyShares'
    <3>1. /\ n - n2 \in 1..sharesOf[s] /\ l - l2 \in 0..l /\ Risk' = r
          /\ (l - l2) * n <= (n - n2) * (l + r)
      BY <2>0, <2>2 DEF AnyHouse!Leave, AnyHouse!Value, Risk
    <3>2. sharesOf[s] \in Nat
      BY <2>2 DEF AnyHouse!TypeOK, Risk
    <3>3. /\ l - l2 \in Nat /\ n - n2 \in Nat
          /\ l2 + r = (l + r) - (l - l2) /\ n2 = n - (n - n2)
      BY <3>1, <3>2
    <3>4. (l2 + r) * n >= (l + r) * n2
      BY <3>1, <3>3, LeavingPays
    <3> QED
      BY <2>0, <3>1, <3>4 DEF AnyHouse!Value, Risk
  <2>3. CASE AnyHouse!Play
    BY <2>3 DEF AnyHouse!Play, Risk
  <2>4. CASE UNCHANGED AnyHouse!vars
    BY <2>4 DEF AnyHouse!vars, Risk
  <2> QED
    BY <2>1, <2>2, <2>3, <2>4 DEF AnyHouse!Next, Risk
<1> QED
  BY <1>1, HouseTyped, PTL DEF IsAHouse, AnyHouse!Spec, AnyHouse!NeverDiluted

-----------------------------------------------------------------------------
(* The supplier side of a reserve, at a total value v.                     *)

LedgerFits ==
  /\ liquid \in Nat /\ supplyShares \in Nat /\ intake \in Nat
  /\ sharesOf \in [Suppliers -> Nat] /\ paused \in BOOLEAN

\* What a supply of `a` by s does that bought n shares.
Bought(s, a, n) ==
  /\ liquid' = liquid + a /\ wallet' = wallet + a /\ supplyShares' = supplyShares + n
  /\ sharesOf' = [sharesOf EXCEPT ![s] = @ + n]

\* What a withdrawal of n shares by s does that was paid w.
Sold(s, w, n) ==
  /\ liquid' = liquid - w /\ wallet' = wallet - w /\ supplyShares' = supplyShares - n
  /\ sharesOf' = [sharesOf EXCEPT ![s] = @ - n]

LEMMA BuyIsFair ==
  ASSUME LedgerFits, NEW v \in Nat, NEW s \in Suppliers, NEW a \in Nat \ {0}, Buy(s, a, v)
  PROVE  /\ LedgerFits'
         /\ \E n \in Nat \ {0} :
              /\ Bought(s, a, n)
              /\ IF supplyShares = 0 \/ v = 0 THEN n = a ELSE n * v <= a * supplyShares
<1>1. PICK z \in Nat : z = supplyShares
  BY DEF LedgerFits
<1>2. PICK n \in Nat \ {0} :
        /\ n = SharesFor(a, v)
        /\ IF z = 0 \/ v = 0 THEN n = a ELSE n * v <= a * z
  <2>1. CASE z = 0 \/ v = 0
    BY <1>1, <2>1 DEF SharesFor
  <2>2. CASE ~(z = 0 \/ v = 0)
    <3>1. a * z \in Nat
      BY ProductIsNat
    <3>2. (a * z) \div v \in Nat /\ ((a * z) \div v) * v <= a * z
      BY <2>2, <3>1, DivisionIsNat, DivisionFits
    <3>3. SharesFor(a, v) = (a * z) \div v /\ SharesFor(a, v) # 0
      BY <1>1, <2>2 DEF SharesFor, Buy
    <3> QED
      BY <2>2, <3>2, <3>3
  <2> QED
    BY <2>1, <2>2
<1>3. Bought(s, a, n)
  BY <1>2 DEF Buy, Bought
<1>4. LedgerFits'
  BY <1>1, <1>2, <1>3 DEF Buy, Bought, LedgerFits
<1> QED
  BY <1>1, <1>2, <1>3, <1>4

LEMMA RedeemIsFair ==
  ASSUME LedgerFits, NEW v \in Nat, NEW s \in Suppliers, NEW n \in Nat \ {0}, Redeem(s, n, v)
  PROVE  /\ LedgerFits'
         /\ n \in 1..sharesOf[s] /\ n <= supplyShares
         /\ \E w \in 0..liquid : Sold(s, w, n) /\ w * supplyShares <= n * v
<1>1. PICK z \in Nat : z = supplyShares
  BY DEF LedgerFits
<1>2. n <= z /\ n \in 1..sharesOf[s] /\ z # 0
  BY <1>1 DEF Redeem, LedgerFits
<1>3. n * v \in Nat
  BY ProductIsNat
<1>4. PICK w \in Nat : w = WorthOf(n, v) /\ w * z <= n * v
  BY <1>1, <1>2, <1>3, DivisionIsNat, DivisionFits DEF WorthOf
<1>5. w \in 0..liquid
  BY <1>4 DEF Redeem, LedgerFits
<1>6. Sold(s, w, n)
  BY <1>4 DEF Redeem, Sold
<1>7. LedgerFits'
  BY <1>1, <1>2, <1>5, <1>6 DEF Redeem, Sold, LedgerFits
<1> QED
  BY <1>1, <1>2, <1>4, <1>5, <1>6, <1>7

\* A supply at the value of liquid and locked capital is an entry to the house,
\* a withdrawal an exit.
LEMMA BuyEnters ==
  ASSUME LedgerFits, locked \in Nat, NEW s \in Suppliers, NEW a \in Nat \ {0},
         Buy(s, a, totalValue), UNCHANGED locked
  PROVE  House!Enter(s, liquid' - liquid, supplyShares' - supplyShares)
<1>1. PICK v \in Nat, l \in Nat, z \in Nat : v = totalValue /\ l = liquid /\ z = supplyShares
  BY DEF totalValue, LedgerFits
<1>2. PICK n \in Nat \ {0} :
        /\ Bought(s, a, n)
        /\ IF supplyShares = 0 \/ v = 0 THEN n = a ELSE n * v <= a * supplyShares
  BY <1>1, BuyIsFair
<1>3. liquid' - liquid = a /\ supplyShares' - supplyShares = n
  BY <1>1, <1>2 DEF Bought
<1> QED
  BY <1>1, <1>2, <1>3 DEF Bought, House!Enter, House!Value, totalValue

LEMMA RedeemLeaves ==
  ASSUME LedgerFits, locked \in Nat, NEW s \in Suppliers, NEW n \in Nat \ {0},
         Redeem(s, n, totalValue), UNCHANGED locked
  PROVE  House!Leave(s, liquid - liquid', supplyShares - supplyShares')
<1>1. PICK v \in Nat, l \in Nat, z \in Nat : v = totalValue /\ l = liquid /\ z = supplyShares
  BY DEF totalValue, LedgerFits
<1>2. PICK w \in 0..liquid : Sold(s, w, n) /\ w * supplyShares <= n * v
  BY <1>1, RedeemIsFair
<1>3. n \in 1..sharesOf[s] /\ n <= supplyShares
  BY <1>1, RedeemIsFair
<1>4. liquid - liquid' = w /\ supplyShares - supplyShares' = n
  BY <1>1, <1>2, <1>3 DEF Sold
<1> QED
  BY <1>1, <1>2, <1>3, <1>4 DEF Sold, House!Leave, House!Value, totalValue

-----------------------------------------------------------------------------
(* The escrow books, whatever a bet is about.                              *)

Slots == 1..MaxBets

BetFits(b) ==
  /\ b.owner \in Owners /\ b.status \in {"LIVE", "LOST", "VOID", "WON", "CLAIMED"}
  /\ b.stake \in Nat /\ b.houseLocked \in Nat \ {0}
  /\ b.expiries \subseteq Times /\ b.expiries # {}

EscrowFits ==
  /\ LedgerFits
  /\ locked \in Nat /\ lockedByExpiry \in [Times -> Nat]
  /\ MaxBets \in Nat /\ Len(bets) \in Nat /\ Len(bets) <= MaxBets
  /\ \A i \in BetIds : BetFits(bets[i])

\* The invariant of the books: what their types need is that they balance.
EscrowInv == EscrowFits /\ BooksBalance

HeldNow == Held(InEscrow)
LockedNow == HousePart(InEscrow)
LockedOn(e) == HousePart(On(e))

\* What slot j counts for.
HeldAt(j) == IF j \in InEscrow THEN bets[j].stake + bets[j].houseLocked ELSE 0
LockedAt(j) == IF j \in InEscrow THEN bets[j].houseLocked ELSE 0
LockedOnAt(j, e) == IF j \in On(e) THEN bets[j].houseLocked ELSE 0

LEMMA SlotsAreFinite == ASSUME EscrowFits PROVE IsFiniteSet(Slots)
BY FS_Interval DEF EscrowFits, Slots

LEMMA EscrowedFits ==
  ASSUME EscrowFits, NEW j \in InEscrow
  PROVE  /\ j \in Slots /\ j \in BetIds /\ BetFits(bets[j])
         /\ bets[j].stake \in Nat /\ bets[j].houseLocked \in Nat
BY DEF EscrowFits, InEscrow, BetIds, Slots, BetFits

LEMMA EscrowedFitsNext ==
  ASSUME EscrowFits', NEW j \in InEscrow'
  PROVE  /\ j \in Slots /\ j \in BetIds' /\ BetFits(bets'[j])
         /\ bets'[j].stake \in Nat /\ bets'[j].houseLocked \in Nat
BY DEF EscrowFits, InEscrow, BetIds, Slots, BetFits

LEMMA OnIsEscrowed == ASSUME NEW e PROVE On(e) \subseteq InEscrow
BY DEF On

LEMMA CountsTyped ==
  ASSUME EscrowFits, NEW e
  PROVE  /\ HeldNow \in [Slots -> Nat] /\ LockedNow \in [Slots -> Nat]
         /\ LockedOn(e) \in [Slots -> Nat]
         /\ \A j \in Slots : /\ HeldNow[j] = HeldAt(j) /\ LockedNow[j] = LockedAt(j)
                             /\ LockedOn(e)[j] = LockedOnAt(j, e)
<1>1. \A j \in Slots : HeldAt(j) \in Nat
  BY EscrowedFits DEF HeldAt
<1>2. \A j \in Slots : LockedAt(j) \in Nat
  BY EscrowedFits DEF LockedAt
<1>3. \A j \in Slots : LockedOnAt(j, e) \in Nat
  BY EscrowedFits, OnIsEscrowed DEF LockedOnAt
<1>4. HeldNow = [j \in Slots |-> HeldAt(j)]
  BY DEF HeldNow, Held, HeldAt, Slots
<1>5. LockedNow = [j \in Slots |-> LockedAt(j)]
  BY DEF LockedNow, HousePart, LockedAt, Slots
<1>6. LockedOn(e) = [j \in Slots |-> LockedOnAt(j, e)]
  BY DEF LockedOn, HousePart, LockedOnAt, Slots
<1> QED
  BY <1>1, <1>2, <1>3, <1>4, <1>5, <1>6

LEMMA CountsTypedNext ==
  ASSUME EscrowFits', NEW e
  PROVE  /\ HeldNow' \in [Slots -> Nat] /\ LockedNow' \in [Slots -> Nat]
         /\ LockedOn(e)' \in [Slots -> Nat]
         /\ \A j \in Slots : /\ HeldNow'[j] = HeldAt(j)' /\ LockedNow'[j] = LockedAt(j)'
                             /\ LockedOn(e)'[j] = LockedOnAt(j, e)'
<1>1. \A j \in Slots : HeldAt(j)' \in Nat
  BY EscrowedFitsNext DEF HeldAt
<1>2. \A j \in Slots : LockedAt(j)' \in Nat
  BY EscrowedFitsNext DEF LockedAt
<1>3. \A j \in Slots : LockedOnAt(j, e)' \in Nat
  BY EscrowedFitsNext, OnIsEscrowed DEF LockedOnAt, On
<1>4. HeldNow' = [j \in Slots |-> HeldAt(j)']
  BY DEF HeldNow, Held, HeldAt, Slots
<1>5. LockedNow' = [j \in Slots |-> LockedAt(j)']
  BY DEF LockedNow, HousePart, LockedAt, Slots
<1>6. LockedOn(e)' = [j \in Slots |-> LockedOnAt(j, e)']
  BY DEF LockedOn, HousePart, LockedOnAt, Slots
<1> QED
  BY <1>1, <1>2, <1>3, <1>4, <1>5, <1>6

\* Every slot but i counts as it did.
OthersStand(i) == \A j \in Slots \ {i} :
  /\ (j \in InEscrow)' <=> j \in InEscrow
  /\ j \in InEscrow => bets'[j] = bets[j]

LEMMA CountsShift ==
  ASSUME EscrowFits, EscrowFits', NEW i \in Slots, OthersStand(i), NEW e
  PROVE  /\ SumFunction(HeldNow') = SumFunction(HeldNow) + (HeldAt(i)' - HeldAt(i))
         /\ SumFunction(LockedNow') = SumFunction(LockedNow) + (LockedAt(i)' - LockedAt(i))
         /\ SumFunction(LockedOn(e)')
              = SumFunction(LockedOn(e)) + (LockedOnAt(i, e)' - LockedOnAt(i, e))
<1>1. \A j \in Slots \ {i} : HeldAt(j)' = HeldAt(j) /\ LockedAt(j)' = LockedAt(j)
  BY DEF OthersStand, HeldAt, LockedAt
<1>2. \A j \in Slots \ {i} : LockedOnAt(j, e)' = LockedOnAt(j, e)
  BY DEF OthersStand, LockedOnAt, On
<1>3. /\ HeldNow \in [Slots -> Nat] /\ HeldNow' \in [Slots -> Nat]
      /\ HeldNow[i] = HeldAt(i) /\ HeldNow'[i] = HeldAt(i)'
      /\ \A j \in Slots \ {i} : HeldNow'[j] = HeldNow[j]
  BY <1>1, CountsTyped, CountsTypedNext
<1>4. /\ LockedNow \in [Slots -> Nat] /\ LockedNow' \in [Slots -> Nat]
      /\ LockedNow[i] = LockedAt(i) /\ LockedNow'[i] = LockedAt(i)'
      /\ \A j \in Slots \ {i} : LockedNow'[j] = LockedNow[j]
  BY <1>1, CountsTyped, CountsTypedNext
<1>5. /\ LockedOn(e) \in [Slots -> Nat] /\ LockedOn(e)' \in [Slots -> Nat]
      /\ LockedOn(e)[i] = LockedOnAt(i, e) /\ LockedOn(e)'[i] = LockedOnAt(i, e)'
      /\ \A j \in Slots \ {i} : LockedOn(e)'[j] = LockedOn(e)[j]
  BY <1>2, CountsTyped, CountsTypedNext
<1>6. ASSUME NEW f \in [Slots -> Nat], NEW g \in [Slots -> Nat],
             \A j \in Slots \ {i} : g[j] = f[j]
      PROVE  SumFunction(g) = SumFunction(f) + (g[i] - f[i])
  <2>1. g[i] - f[i] \in Int /\ g[i] = f[i] + (g[i] - f[i])
    OBVIOUS
  <2> QED
    BY <1>6, <2>1, SlotsAreFinite, TotalGainsAt
<1>7. SumFunction(HeldNow') = SumFunction(HeldNow) + (HeldNow'[i] - HeldNow[i])
  BY <1>3, <1>6
<1>8. SumFunction(LockedNow') = SumFunction(LockedNow) + (LockedNow'[i] - LockedNow[i])
  BY <1>4, <1>6
<1>9. SumFunction(LockedOn(e)') = SumFunction(LockedOn(e)) + (LockedOn(e)'[i] - LockedOn(e)[i])
  BY <1>5, <1>6
<1> QED
  BY <1>3, <1>4, <1>5, <1>7, <1>8, <1>9

LEMMA CountsStand ==
  ASSUME EscrowFits, EscrowFits', NEW e,
         InEscrow' = InEscrow, \A j \in InEscrow : bets'[j].stake = bets[j].stake
           /\ bets'[j].houseLocked = bets[j].houseLocked /\ bets'[j].expiries = bets[j].expiries
  PROVE  /\ HeldNow' = HeldNow /\ LockedNow' = LockedNow /\ LockedOn(e)' = LockedOn(e)
<1>1. On(e)' = On(e)
  BY DEF On
<1>2. \A j \in Slots : HeldAt(j)' = HeldAt(j) /\ LockedAt(j)' = LockedAt(j)
  BY DEF HeldAt, LockedAt
<1>3. \A j \in Slots : LockedOnAt(j, e)' = LockedOnAt(j, e)
  BY <1>1, OnIsEscrowed DEF LockedOnAt
<1> QED
  BY <1>2, <1>3, CountsTyped, CountsTypedNext

(* The books while no bet moves: entries, exits, pauses.                   *)
LEMMA BooksStand ==
  ASSUME EscrowInv, UNCHANGED <<locked, lockedByExpiry, bets>>, LedgerFits',
         wallet' - liquid' = wallet - liquid, wallet' \in Int
  PROVE  EscrowInv'
<1>1. EscrowFits'
  BY DEF EscrowInv, EscrowFits, BetIds
<1>2. InEscrow' = InEscrow /\ \A e \in Times : On(e)' = On(e)
  BY DEF InEscrow, BetIds, Escrowed, On
<1>3. HeldNow' = HeldNow /\ LockedNow' = LockedNow
  BY <1>2 DEF HeldNow, LockedNow, Held, HousePart
<1>4. \A e \in Times : LockedOn(e)' = LockedOn(e)
  BY <1>2 DEF LockedOn, HousePart
<1>5. PICK h \in Nat : h = SumFunction(HeldNow)
  BY SlotsAreFinite, CountsTyped, TotalIsNat DEF EscrowInv
<1>6. wallet = liquid + h
  BY <1>5 DEF EscrowInv, BooksBalance, HeldNow
<1>7. wallet' = liquid' + SumFunction(HeldNow)'
  <2>1. PICK l \in Nat, l2 \in Nat : l = liquid /\ l2 = liquid'
    BY <1>1 DEF EscrowInv, EscrowFits, LedgerFits
  <2>2. SumFunction(HeldNow)' = h
    BY <1>3, <1>5
  <2>3. PICK w2 \in Int : w2 = wallet'
    OBVIOUS
  <2>4. w2 - l2 = h
    <3>1. wallet - l = h
      BY <1>6, <2>1
    <3> QED
      BY <2>1, <2>3, <3>1
  <2>5. w2 = l2 + h
    BY <2>4
  <2> QED
    BY <2>1, <2>2, <2>3, <2>5
<1>8. locked' = SumFunction(LockedNow)'
  BY <1>3 DEF EscrowInv, BooksBalance, LockedNow
<1>9. \A e \in Times : lockedByExpiry'[e] = SumFunction(LockedOn(e))'
  BY <1>4 DEF EscrowInv, BooksBalance, LockedOn
<1> QED
  BY <1>1, <1>7, <1>8, <1>9 DEF EscrowInv, BooksBalance, HeldNow, LockedNow, LockedOn

\* The terms a bet is made on, which nothing changes.
Terms(a, b) ==
  /\ a.stake = b.stake /\ a.houseLocked = b.houseLocked
  /\ a.expiries = b.expiries /\ a.owner = b.owner

\* Bet i moves, on its terms; the others stand.
Touched(i) ==
  /\ Len(bets') = Len(bets)
  /\ \A j \in BetIds \ {i} : bets'[j] = bets[j]
  /\ Terms(bets'[i], bets[i])

\* One bet more.
Grows(bet) ==
  /\ Len(bets') = Len(bets) + 1
  /\ \A j \in BetIds : bets'[j] = bets[j]
  /\ bets'[Len(bets) + 1] = bet

LEMMA TouchedFits ==
  ASSUME EscrowFits, NEW i \in BetIds, Touched(i),
         bets'[i].status \in {"LIVE", "LOST", "VOID", "WON", "CLAIMED"}
  PROVE  /\ BetIds' = BetIds /\ \A j \in BetIds' : BetFits(bets'[j])
         /\ OthersStand(i)
<1>1. BetIds' = BetIds
  BY DEF Touched, BetIds
<1>2. BetFits(bets'[i])
  BY DEF EscrowFits, Touched, Terms, BetFits
<1>3. \A j \in BetIds \ {i} : BetFits(bets'[j])
  BY DEF EscrowFits, Touched
<1>4. OthersStand(i)
  BY <1>1 DEF OthersStand, Touched, InEscrow, Escrowed
<1> QED
  BY <1>1, <1>2, <1>3, <1>4

(* A bet goes on, or is won: its escrow stays.                             *)
LEMMA EscrowStays ==
  ASSUME EscrowInv, NEW i \in BetIds, Escrowed(i), Touched(i),
         bets'[i].status \in {"LIVE", "WON"},
         UNCHANGED <<ledgerVars, locked, lockedByExpiry>>
  PROVE  EscrowInv'
<1>1. BetIds' = BetIds /\ (\A j \in BetIds' : BetFits(bets'[j])) /\ OthersStand(i)
  BY TouchedFits DEF EscrowInv
<1>2. LedgerFits' /\ wallet' = wallet /\ liquid' = liquid
  BY DEF EscrowInv, EscrowFits, LedgerFits, ledgerVars, shareVars
<1>3. EscrowFits'
  BY <1>1, <1>2 DEF EscrowInv, EscrowFits, Touched
<1>4. InEscrow' = InEscrow
  BY <1>1 DEF InEscrow, Escrowed, Touched
<1>5. \A j \in InEscrow : /\ bets'[j].stake = bets[j].stake
                          /\ bets'[j].houseLocked = bets[j].houseLocked
                          /\ bets'[j].expiries = bets[j].expiries
  BY DEF InEscrow, Touched, Terms
<1>6. HeldNow' = HeldNow /\ LockedNow' = LockedNow /\ \A e \in Times : LockedOn(e)' = LockedOn(e)
  BY <1>3, <1>4, <1>5, CountsStand DEF EscrowInv
<1>7. wallet' = liquid' + SumFunction(HeldNow)' /\ locked' = SumFunction(LockedNow)'
  BY <1>2, <1>6 DEF EscrowInv, BooksBalance, HeldNow, LockedNow
<1>8. \A e \in Times : lockedByExpiry'[e] = SumFunction(LockedOn(e))'
  BY <1>6 DEF EscrowInv, BooksBalance, LockedOn
<1> QED
  BY <1>3, <1>7, <1>8 DEF EscrowInv, BooksBalance, HeldNow, LockedNow, LockedOn

(* A bet ends: what it held leaves the books, to the liquid or out.        *)
LEMMA EscrowEnds ==
  ASSUME EscrowInv, NEW i \in BetIds, Escrowed(i), Touched(i),
         bets'[i].status \in {"LOST", "VOID", "CLAIMED"},
         NEW bet, Terms(bet, bets[i]), Release(bet),
         LedgerFits', wallet' \in Int,
         wallet' - liquid' = wallet - liquid - bets[i].stake - bets[i].houseLocked
  PROVE  EscrowInv'
<1>1. BetIds' = BetIds /\ (\A j \in BetIds' : BetFits(bets'[j])) /\ OthersStand(i)
  BY TouchedFits DEF EscrowInv
<1>2. i \in InEscrow /\ i \in Slots /\ EscrowFits /\ i \notin InEscrow'
  BY <1>1, EscrowedFits DEF EscrowInv, InEscrow, Escrowed
<1>3. PICK s \in Nat, h \in Nat : s = bets[i].stake /\ h = bets[i].houseLocked
  BY <1>2, EscrowedFits
<1>4. HeldAt(i) = s + h /\ HeldAt(i)' = 0 /\ LockedAt(i) = h /\ LockedAt(i)' = 0
  BY <1>2, <1>3 DEF HeldAt, LockedAt
<1>5. ASSUME NEW e \in Times
      PROVE  /\ LockedOnAt(i, e) = IF e \in bets[i].expiries THEN h ELSE 0
             /\ LockedOnAt(i, e)' = 0
  BY <1>2, <1>3, OnIsEscrowed DEF LockedOnAt, On
<1>6. PICK H \in Nat, L \in Nat : H = SumFunction(HeldNow) /\ L = SumFunction(LockedNow)
  BY <1>2, SlotsAreFinite, CountsTyped, TotalIsNat
<1>7. h <= L
  BY <1>2, <1>4, <1>6, SlotsAreFinite, CountsTyped, TotalBoundsEach
<1>8. locked = L /\ wallet = liquid + H
  BY <1>6 DEF EscrowInv, BooksBalance, HeldNow, LockedNow
<1>9. locked' = L - h
  BY <1>3, <1>7, <1>8 DEF Release, Saturating, Terms
<1>10. ASSUME NEW e \in Times
       PROVE  /\ lockedByExpiry'[e] \in Nat
              /\ lockedByExpiry'[e] = SumFunction(LockedOn(e)) - LockedOnAt(i, e)
  <2>1. PICK x \in Nat : x = SumFunction(LockedOn(e)) /\ x = lockedByExpiry[e]
    BY <1>2, SlotsAreFinite, CountsTyped, TotalIsNat DEF EscrowInv, BooksBalance, LockedOn
  <2>2. LockedOnAt(i, e) <= x
    <3>1. LockedOn(e) \in [Slots -> Nat] /\ LockedOn(e)[i] = LockedOnAt(i, e)
      BY <1>2, CountsTyped
    <3> QED
      BY <1>2, <2>1, <3>1, SlotsAreFinite, TotalBoundsEach
  <2>3. lockedByExpiry'[e] = IF e \in bets[i].expiries THEN Saturating(x, h) ELSE x
    BY <1>3, <2>1 DEF Release, Terms
  <2> QED
    BY <1>5, <2>1, <2>2, <2>3 DEF Saturating
<1>11. lockedByExpiry' \in [Times -> Nat]
  BY <1>10 DEF Release
<1>12. EscrowFits'
  BY <1>1, <1>2, <1>7, <1>9, <1>11 DEF EscrowFits, Touched
<1>13. /\ SumFunction(HeldNow') = H - (s + h) /\ SumFunction(LockedNow') = L - h
       /\ \A e \in Times : SumFunction(LockedOn(e)') = SumFunction(LockedOn(e)) - LockedOnAt(i, e)
  <2>1. ASSUME NEW e \in Times
        PROVE  /\ SumFunction(HeldNow') = H + (0 - (s + h))
               /\ SumFunction(LockedNow') = L + (0 - h)
               /\ SumFunction(LockedOn(e)') = SumFunction(LockedOn(e)) + (0 - LockedOnAt(i, e))
    BY <1>1, <1>2, <1>4, <1>5, <1>6, <1>12, CountsShift
  <2>2. PICK e \in Times : TRUE
    <3>1. bets[i].expiries \subseteq Times /\ bets[i].expiries # {}
      <4>1. BetFits(bets[i])
        BY <1>2, EscrowedFits
      <4> QED
        BY <4>1 DEF BetFits
    <3> QED
      BY <3>1
  <2>3. SumFunction(HeldNow') = H - (s + h) /\ SumFunction(LockedNow') = L - h
    BY <2>1, <2>2
  <2>4. ASSUME NEW f \in Times
        PROVE  SumFunction(LockedOn(f)') = SumFunction(LockedOn(f)) - LockedOnAt(i, f)
    <3>1. SumFunction(LockedOn(f)) \in Nat /\ LockedOnAt(i, f) \in Nat
      BY <1>2, <1>3, <1>5, SlotsAreFinite, CountsTyped, TotalIsNat
    <3> QED
      BY <2>1, <3>1
  <2> QED
    BY <2>3, <2>4
<1>14. wallet' = liquid' + SumFunction(HeldNow)'
  <2>1. PICK l \in Nat, l2 \in Nat : l = liquid /\ l2 = liquid'
    BY <1>2 DEF EscrowFits, LedgerFits
  <2>2. wallet' - l2 = H - s - h
    BY <1>3, <1>6, <1>8, <2>1
  <2> QED
    BY <1>3, <1>6, <1>13, <2>1, <2>2
<1>15. locked' = SumFunction(LockedNow)'
  BY <1>9, <1>13
<1>16. \A e \in Times : lockedByExpiry'[e] = SumFunction(LockedOn(e))'
  BY <1>10, <1>13
<1> QED
  BY <1>12, <1>14, <1>15, <1>16 DEF EscrowInv, BooksBalance, HeldNow, LockedNow, LockedOn

(* A bet is taken: its escrow enters the books.                            *)
LEMMA EscrowEnters ==
  ASSUME EscrowInv, NEW bet, NEW caps, Escrow(bet, caps), BetFits(bet), bet.status = "LIVE",
         Grows(bet)
  PROVE  EscrowInv'
<1>0. EscrowFits /\ Len(bets) \in Nat /\ MaxBets \in Nat /\ Len(bets) < MaxBets
  BY DEF EscrowInv, EscrowFits, Escrow
<1>1. PICK i \in Slots : i = Len(bets) + 1
  BY <1>0 DEF Slots
<1>a. i \notin BetIds /\ BetIds' = BetIds \cup {i} /\ bets'[i] = bet /\ i \in BetIds'
  BY <1>0, <1>1 DEF Grows, BetIds
<1>2. PICK s \in Nat, h \in Nat : s = bet.stake /\ h = bet.houseLocked /\ h <= liquid
  BY <1>0 DEF BetFits, Escrow, Capacity, EscrowFits, LedgerFits
<1>3. /\ liquid' = liquid - h /\ wallet' = wallet + s /\ locked' = locked + h
      /\ lockedByExpiry' = [e \in Times |-> lockedByExpiry[e] + IF e \in bet.expiries THEN h ELSE 0]
      /\ UNCHANGED <<supplyShares, sharesOf, paused, intake>>
  BY <1>2 DEF Escrow, Move, shareVars
<1>4. LedgerFits'
  BY <1>0, <1>2, <1>3 DEF EscrowFits, LedgerFits
<1>5. \A j \in BetIds' : BetFits(bets'[j])
  <2>1. \A j \in BetIds : BetFits(bets'[j])
    BY <1>0 DEF EscrowFits, Grows
  <2> QED
    BY <1>a, <2>1
<1>6. EscrowFits'
  <2>1. locked' \in Nat /\ lockedByExpiry' \in [Times -> Nat]
    BY <1>0, <1>2, <1>3 DEF EscrowFits
  <2>2. Len(bets') \in Nat /\ Len(bets') <= MaxBets
    BY <1>0 DEF Grows
  <2> QED
    BY <1>0, <1>4, <1>5, <2>1, <2>2 DEF EscrowFits
<1>7. i \notin InEscrow /\ InEscrow' = InEscrow \cup {i}
  BY <1>a DEF InEscrow, Escrowed, Grows
<1>8. OthersStand(i)
  BY <1>7 DEF OthersStand, Grows, InEscrow
<1>9. HeldAt(i) = 0 /\ HeldAt(i)' = s + h /\ LockedAt(i) = 0 /\ LockedAt(i)' = h
  BY <1>a, <1>2, <1>7 DEF HeldAt, LockedAt
<1>10. ASSUME NEW e \in Times
       PROVE  /\ LockedOnAt(i, e) = 0
              /\ LockedOnAt(i, e)' = IF e \in bet.expiries THEN h ELSE 0
  BY <1>a, <1>2, <1>7 DEF LockedOnAt, On
<1>11. PICK H \in Nat, L \in Nat : H = SumFunction(HeldNow) /\ L = SumFunction(LockedNow)
  BY <1>0, SlotsAreFinite, CountsTyped, TotalIsNat
<1>12. locked = L /\ wallet = liquid + H
  BY <1>11 DEF EscrowInv, BooksBalance, HeldNow, LockedNow
<1>13. ASSUME NEW e \in Times
       PROVE  /\ SumFunction(HeldNow') = H + (s + h)
              /\ SumFunction(LockedNow') = L + h
              /\ SumFunction(LockedOn(e)')
                   = SumFunction(LockedOn(e)) + IF e \in bet.expiries THEN h ELSE 0
  <2>1. /\ SumFunction(HeldNow') = H + ((s + h) - 0)
        /\ SumFunction(LockedNow') = L + (h - 0)
        /\ SumFunction(LockedOn(e)') = SumFunction(LockedOn(e))
             + ((IF e \in bet.expiries THEN h ELSE 0) - 0)
    BY <1>0, <1>6, <1>8, <1>9, <1>10, <1>11, CountsShift
  <2> QED
    BY <2>1
<1>14. SumFunction(HeldNow') = H + (s + h) /\ SumFunction(LockedNow') = L + h
  <2>1. PICK e \in Times : TRUE
    BY DEF BetFits
  <2> QED
    BY <1>13, <2>1
<1>15. wallet' = liquid' + SumFunction(HeldNow)' /\ locked' = SumFunction(LockedNow)'
  <2>1. PICK l \in Nat : l = liquid
    BY <1>0 DEF EscrowFits, LedgerFits
  <2>2. wallet' = l + H + s /\ liquid' = l - h /\ locked' = L + h
    BY <1>3, <1>12, <2>1
  <2> QED
    BY <1>14, <2>2
<1>16. \A e \in Times : lockedByExpiry'[e] = SumFunction(LockedOn(e))'
  <2>1. ASSUME NEW e \in Times PROVE lockedByExpiry'[e] = SumFunction(LockedOn(e))'
    <3>1. lockedByExpiry'[e] = lockedByExpiry[e] + IF e \in bet.expiries THEN h ELSE 0
      BY <1>3
    <3>2. lockedByExpiry[e] = SumFunction(LockedOn(e))
      BY DEF EscrowInv, BooksBalance, LockedOn
    <3> QED
      BY <1>13, <3>1, <3>2
  <2> QED
    BY <2>1
<1> QED
  BY <1>6, <1>15, <1>16 DEF EscrowInv, BooksBalance, HeldNow, LockedNow, LockedOn

-----------------------------------------------------------------------------
(* What each operation of the books keeps, given what it does to the bets. *)

\* What a reserve promises of a step: the books balance after it, and the house
\* of shares sees an entry, an exit or a play.
Sound == EscrowInv' /\ House!Next

LEMMA PlaysAreSteps ==
  ASSUME EscrowInv, EscrowInv', UNCHANGED shareVars PROVE House!Next
BY DEF EscrowInv, EscrowFits, LedgerFits, shareVars, House!Next, House!Play

LEMMA WalletIsInt == ASSUME EscrowInv PROVE wallet \in Nat
<1>1. SumFunction(HeldNow) \in Nat
  BY SlotsAreFinite, CountsTyped, TotalIsNat DEF EscrowInv
<1> QED
  BY <1>1 DEF EscrowInv, EscrowFits, LedgerFits, BooksBalance, HeldNow

LEMMA SupplySound ==
  ASSUME EscrowInv, NEW s \in Suppliers, NEW a \in Supplies, Supply(s, a) PROVE Sound
<1>1. a \in Nat \ {0} /\ Buy(s, a, totalValue) /\ UNCHANGED <<locked, lockedByExpiry, bets>>
  BY ShareAssumption DEF Supply
<1>2. LedgerFits /\ locked \in Nat /\ wallet \in Nat
  BY WalletIsInt DEF EscrowInv, EscrowFits
<1>3. PICK v \in Nat : v = totalValue
  BY <1>2 DEF totalValue, LedgerFits
<1>4. PICK n \in Nat \ {0} : Bought(s, a, n)
  BY <1>1, <1>2, <1>3, BuyIsFair
<1>5. LedgerFits'
  BY <1>1, <1>2, <1>3, BuyIsFair
<1>6. wallet' - liquid' = wallet - liquid /\ wallet' \in Int
  BY <1>1, <1>2, <1>4 DEF Bought, LedgerFits
<1>7. EscrowInv'
  BY <1>1, <1>5, <1>6, BooksStand
<1>8. House!Enter(s, liquid' - liquid, supplyShares' - supplyShares)
  BY <1>1, <1>2, BuyEnters
<1>9. liquid' \in Nat /\ locked' \in Nat /\ supplyShares' \in Nat
  BY <1>1, <1>2, <1>5 DEF LedgerFits
<1> QED
  BY <1>7, <1>8, <1>9 DEF Sound, House!Next

LEMMA WithdrawSound ==
  ASSUME EscrowInv, NEW s \in Suppliers, NEW n \in Redemptions, Withdraw(s, n) PROVE Sound
<1>1. n \in Nat \ {0} /\ Redeem(s, n, totalValue) /\ UNCHANGED <<locked, lockedByExpiry, bets>>
  BY ShareAssumption DEF Withdraw
<1>2. LedgerFits /\ locked \in Nat /\ wallet \in Nat
  BY WalletIsInt DEF EscrowInv, EscrowFits
<1>3. PICK v \in Nat : v = totalValue
  BY <1>2 DEF totalValue, LedgerFits
<1>4. PICK w \in 0..liquid : Sold(s, w, n)
  BY <1>1, <1>2, <1>3, RedeemIsFair
<1>5. LedgerFits'
  BY <1>1, <1>2, <1>3, RedeemIsFair
<1>6. wallet' - liquid' = wallet - liquid /\ wallet' \in Int
  BY <1>1, <1>2, <1>4 DEF Sold, LedgerFits
<1>7. EscrowInv'
  BY <1>1, <1>5, <1>6, BooksStand
<1>8. House!Leave(s, liquid - liquid', supplyShares - supplyShares')
  BY <1>1, <1>2, RedeemLeaves
<1>9. liquid' \in Nat /\ locked' \in Nat /\ supplyShares' \in Nat
  BY <1>1, <1>2, <1>5 DEF LedgerFits
<1> QED
  BY <1>7, <1>8, <1>9 DEF Sound, House!Next

LEMMA PauseSound ==
  ASSUME EscrowInv, NEW b \in PauseChoices, SetPaused(b) PROVE Sound
<1>1. LedgerFits' /\ UNCHANGED shareVars /\ wallet' = wallet /\ liquid' = liquid
  BY ShareAssumption DEF EscrowInv, EscrowFits, LedgerFits, SetPaused, Pause, shareVars
<1>2. EscrowInv'
  BY <1>1, WalletIsInt, BooksStand DEF SetPaused
<1> QED
  BY <1>1, <1>2, PlaysAreSteps DEF Sound

LEMMA EscrowSound ==
  ASSUME EscrowInv, NEW bet, NEW caps, Escrow(bet, caps), BetFits(bet), bet.status = "LIVE",
         Grows(bet)
  PROVE  Sound
<1>1. UNCHANGED shareVars
  BY DEF Escrow, Move
<1> QED
  BY <1>1, EscrowEnters, PlaysAreSteps DEF Sound

\* The account of a bet that ends as `end`, whatever else changed in it.
Ends(i, bet, end) ==
  /\ i \in BetIds /\ Escrowed(i) /\ Touched(i) /\ Terms(bet, bets[i])
  /\ bets'[i].status = end

LEMMA KeepSound ==
  ASSUME EscrowInv, NEW i, NEW bet, Ends(i, bet, "LOST"), Keep(i, bet) PROVE Sound
<1>1. PICK s \in Nat, h \in Nat, l \in Nat, w \in Nat :
        s = bets[i].stake /\ h = bets[i].houseLocked /\ l = liquid /\ w = wallet
  BY WalletIsInt DEF EscrowInv, EscrowFits, LedgerFits, BetFits, Ends
<1>2. liquid' = l + s + h /\ wallet' = w /\ UNCHANGED <<shareVars, paused, intake>>
  BY <1>1 DEF Keep, Move, Ends, Terms
<1>3. LedgerFits' /\ wallet' \in Int /\ wallet' - liquid' = wallet - liquid - s - h
  <2>1. wallet' \in Int /\ wallet' - liquid' = wallet - liquid - s - h /\ liquid' \in Nat
    BY <1>1, <1>2
  <2> QED
    BY <1>2, <2>1 DEF EscrowInv, EscrowFits, LedgerFits, shareVars
<1>4. EscrowInv'
  BY <1>1, <1>3, EscrowEnds DEF Ends, Keep
<1> QED
  BY <1>2, <1>4, PlaysAreSteps DEF Sound

LEMMA RefundSound ==
  ASSUME EscrowInv, NEW i, NEW bet, Ends(i, bet, "VOID"), Refund(i, bet) PROVE Sound
<1>1. PICK s \in Nat, h \in Nat, l \in Nat, w \in Nat :
        s = bets[i].stake /\ h = bets[i].houseLocked /\ l = liquid /\ w = wallet
  BY WalletIsInt DEF EscrowInv, EscrowFits, LedgerFits, BetFits, Ends
<1>2. liquid' = l + h /\ wallet' = w - s /\ UNCHANGED <<shareVars, paused, intake>>
  BY <1>1 DEF Refund, Move, Ends, Terms
<1>3. LedgerFits' /\ wallet' \in Int /\ wallet' - liquid' = wallet - liquid - s - h
  <2>1. wallet' \in Int /\ wallet' - liquid' = wallet - liquid - s - h /\ liquid' \in Nat
    BY <1>1, <1>2
  <2> QED
    BY <1>2, <2>1 DEF EscrowInv, EscrowFits, LedgerFits, shareVars
<1>4. EscrowInv'
  BY <1>1, <1>3, EscrowEnds DEF Ends, Refund
<1> QED
  BY <1>2, <1>4, PlaysAreSteps DEF Sound

LEMMA ClaimSound ==
  ASSUME EscrowInv, NEW i, Ends(i, bets[i], "CLAIMED"), Claim(i) PROVE Sound
<1>1. PICK s \in Nat, h \in Nat, l \in Nat, w \in Nat :
        s = bets[i].stake /\ h = bets[i].houseLocked /\ l = liquid /\ w = wallet
  BY WalletIsInt DEF EscrowInv, EscrowFits, LedgerFits, BetFits, Ends
<1>2. liquid' = l /\ wallet' = w - s - h /\ UNCHANGED <<shareVars, paused, intake>>
  BY <1>1 DEF Claim, Move
<1>3. LedgerFits' /\ wallet' \in Int /\ wallet' - liquid' = wallet - liquid - s - h
  <2>1. wallet' \in Int /\ wallet' - liquid' = wallet - liquid - s - h /\ liquid' \in Nat
    BY <1>1, <1>2
  <2> QED
    BY <1>2, <2>1 DEF EscrowInv, EscrowFits, LedgerFits, shareVars
<1>4. EscrowInv'
  BY <1>1, <1>3, EscrowEnds DEF Ends, Claim
<1> QED
  BY <1>2, <1>4, PlaysAreSteps DEF Sound

LEMMA StaySound ==
  ASSUME EscrowInv, NEW i, NEW bet, NEW end \in {"LIVE", "WON"}, Ends(i, bet, end),
         UNCHANGED <<ledgerVars, locked, lockedByExpiry>>
  PROVE  Sound
<1>1. EscrowInv'
  BY EscrowStays DEF Ends
<1> QED
  BY <1>1, PlaysAreSteps DEF Sound, ledgerVars

LEMMA IdleSound ==
  ASSUME EscrowInv, UNCHANGED escrowVars PROVE Sound
<1>1. LedgerFits' /\ UNCHANGED shareVars /\ wallet' = wallet /\ liquid' = liquid
  BY DEF EscrowInv, EscrowFits, LedgerFits, escrowVars, ledgerVars, shareVars
<1>2. EscrowInv'
  BY <1>1, WalletIsInt, BooksStand DEF escrowVars
<1> QED
  BY <1>1, <1>2, PlaysAreSteps DEF Sound
(* Empty books balance.                                                    *)
LEMMA BooksOpen ==
  ASSUME liquid = 0, supplyShares = 0, wallet = 0, paused = FALSE, intake = 0,
         sharesOf = [s \in Suppliers |-> 0],
         locked = 0, lockedByExpiry = [e \in Times |-> 0], bets = << >>,
         MaxBets \in Nat
  PROVE  EscrowInv /\ House!Init
<1>1. BetIds = {} /\ Len(bets) = 0
  BY DEF BetIds
<1>2. EscrowFits
  <2>1. LedgerFits
    BY DEF LedgerFits
  <2>2. locked \in Nat /\ lockedByExpiry \in [Times -> Nat]
    OBVIOUS
  <2> QED
    BY <1>1, <2>1, <2>2 DEF EscrowFits
<1>3. InEscrow = {} /\ \A e \in Times : On(e) = {}
  BY <1>1 DEF InEscrow, On
<1>4. ASSUME NEW f, DOMAIN f = Slots, \A j \in Slots : f[j] = 0 PROVE SumFunction(f) = 0
  BY <1>2, <1>4, SlotsAreFinite, TotalOfZeros
<1>5. SumFunction(HeldNow) = 0
  <2>1. DOMAIN HeldNow = Slots /\ \A j \in Slots : HeldNow[j] = 0
    BY <1>3 DEF HeldNow, Held, Slots
  <2> QED
    BY <1>4, <2>1
<1>6. SumFunction(LockedNow) = 0
  <2>1. DOMAIN LockedNow = Slots /\ \A j \in Slots : LockedNow[j] = 0
    BY <1>3 DEF LockedNow, HousePart, Slots
  <2> QED
    BY <1>4, <2>1
<1>7. ASSUME NEW e \in Times PROVE SumFunction(LockedOn(e)) = 0
  <2>1. DOMAIN LockedOn(e) = Slots /\ \A j \in Slots : LockedOn(e)[j] = 0
    BY <1>3 DEF LockedOn, HousePart, Slots
  <2> QED
    BY <1>4, <2>1
<1>8. BooksBalance
  BY <1>5, <1>6, <1>7 DEF BooksBalance, HeldNow, LockedNow, LockedOn
<1> QED
  BY <1>2, <1>8 DEF EscrowInv, House!Init

-----------------------------------------------------------------------------
(* RangeReserve: the rounds, and what the hub said of them.                *)

Round == [owner : Owners, status : {"LIVE", "LOST", "VOID", "WON", "CLAIMED"},
          side : {"INSIDE", "OUTSIDE"}, market : RangeMarkets, band : Bands,
          stake : Nat, houseLocked : Nat \ {0}, expiries : SUBSET Times]

RangeFits ==
  /\ bets \in Seq(Round)
  /\ params \in RangeParams /\ now \in 0..RangeTime
  /\ volatilityOf \in [Assets -> BOOLEAN]
  /\ assetKeyOf \in [RangeMarkets -> Assets \cup {0}] /\ openingPrintOf \in [RangeMarkets -> Nat]
  /\ \A q \in Questions : answer[q] \in Prints \/ answer[q] \in {-1, 0}
  /\ DOMAIN answer = Questions
  /\ trading \in [RangeMarkets -> BOOLEAN]

\* RoundsFollowHub of one round b, the answers and the time.
Follows(b, ans, t) ==
  LET said == ans[Closing[b.market]]
      inside == \E p \in b.band[1]..b.band[2] : said = p
  IN /\ b.status \in {"WON", "CLAIMED"} => said \in Prints /\ (b.side = "INSIDE" <=> inside)
     /\ b.status = "LOST" => said \in Prints /\ (b.side = "INSIDE" <=> ~inside)
     /\ b.status = "VOID" => said = 0 \/ \E p \in RangeParams :
                                           t >= RangeExpiry[b.market] + p.staleAfterSec

RangeInv ==
  /\ EscrowInv /\ RangeFits
  /\ \A i \in BetIds : Follows(bets[i], answer, now)

LEMMA RangeInvSuffices ==
  ASSUME Rounds!RangeAssumption, RangeInv
  PROVE  Rounds!TypeOK /\ BooksBalance /\ Rounds!RoundsFollowHub
<1>1. Rounds!LedgerTypeOK
  BY WalletIsInt DEF RangeInv, EscrowInv, EscrowFits, LedgerFits, Rounds!LedgerTypeOK
<1>2. Rounds!EscrowTypeOK
  BY <1>1 DEF RangeInv, EscrowInv, EscrowFits, BetFits, BetIds, Rounds!BetIds, Rounds!EscrowTypeOK
<1>3. Rounds!TypeOK
  BY <1>2 DEF RangeInv, RangeFits, Rounds!TypeOK, Rounds!Voided, Rounds!Pending
<1>4. Rounds!RoundsFollowHub
  BY DEF RangeInv, Follows, Rounds!RoundsFollowHub, Rounds!Question, Rounds!Voided,
         Rounds!BetIds, BetIds
<1> QED
  BY <1>3, <1>4 DEF RangeInv, EscrowInv

(* The hub answers a question once, and time does not go back.             *)
LEMMA JudgementsStand ==
  ASSUME Rounds!RangeAssumption, NEW b, b.market \in RangeMarkets,
         NEW ans, NEW next, NEW t \in Nat, NEW u \in Nat, t <= u,
         \A q \in Questions : ans[q] # -1 => next[q] = ans[q],
         Follows(b, ans, t)
  PROVE  Follows(b, next, u)
<1>1. PICK q \in Questions : q = Closing[b.market]
  BY DEF Rounds!RangeAssumption
<1>2. ans[q] \in Prints \cup {0} => next[q] = ans[q]
  BY DEF Rounds!RangeAssumption
<1>3. (\E p \in RangeParams : t >= RangeExpiry[b.market] + p.staleAfterSec)
        => \E p \in RangeParams : u >= RangeExpiry[b.market] + p.staleAfterSec
  <2>1. ASSUME NEW p \in RangeParams PROVE RangeExpiry[b.market] + p.staleAfterSec \in Nat
    <3>1. p \in Rounds!Params
      BY DEF Rounds!RangeAssumption
    <3>2. p.staleAfterSec \in Nat
      BY <3>1 DEF Rounds!Params
    <3>3. RangeExpiry[b.market] \in Nat
      BY DEF Rounds!RangeAssumption
    <3> QED
      BY <3>2, <3>3
  <2> QED
    BY <2>1
<1> QED
  BY <1>1, <1>2, <1>3 DEF Follows

LEMMA RoundsStand ==
  ASSUME Rounds!RangeAssumption, RangeInv, UNCHANGED bets, now' \in Nat, now <= now',
         \A q \in Questions : answer[q] # -1 => answer'[q] = answer[q]
  PROVE  \A i \in BetIds' : Follows(bets'[i], answer', now')
<1> SUFFICES ASSUME NEW i \in BetIds' PROVE Follows(bets'[i], answer', now')
  OBVIOUS
<1>1. i \in BetIds /\ bets'[i] = bets[i]
  BY DEF BetIds
<1>2. bets[i].market \in RangeMarkets
  <2>1. bets[i] \in Round
    BY <1>1 DEF RangeInv, RangeFits, BetIds
  <2> QED
    BY <2>1 DEF Round
<1>3. Follows(bets[i], answer, now) /\ now \in Nat
  BY <1>1 DEF RangeInv, RangeFits
<1>4. Follows(bets[i], answer', now')
  BY <1>2, <1>3, JudgementsStand
<1> QED
  BY <1>1, <1>4

(* A round ends as `end`, its judgement being true of it.                  *)
LEMMA RoundEnds ==
  ASSUME Rounds!RangeAssumption, RangeInv, NEW i \in BetIds, Escrowed(i),
         NEW end \in {"LOST", "VOID", "WON", "CLAIMED"}, Rounds!Ended(i, bets[i], end),
         UNCHANGED Rounds!ownVars,
         Follows([bets[i] EXCEPT !.status = end], answer, now)
  PROVE  /\ Ends(i, bets[i], end) /\ RangeFits'
         /\ \A j \in BetIds' : Follows(bets'[j], answer', now')
<1>1. bets \in Seq(Round) /\ bets[i] \in Round
  BY DEF RangeInv, RangeFits, BetIds
<1>2. PICK b \in Round : b = [bets[i] EXCEPT !.status = end]
  BY <1>1 DEF Round
<1>3. bets' = [bets EXCEPT ![i] = b]
  BY <1>2 DEF Rounds!Ended
<1>4. /\ b.status = end /\ b.stake = bets[i].stake /\ b.houseLocked = bets[i].houseLocked
      /\ b.expiries = bets[i].expiries /\ b.owner = bets[i].owner
  BY <1>1, <1>2 DEF Round
<1>5. /\ bets' \in Seq(Round) /\ Len(bets') = Len(bets) /\ bets'[i] = b
      /\ \A j \in BetIds \ {i} : bets'[j] = bets[j]
  BY <1>1, <1>3 DEF BetIds
<1>6. Ends(i, bets[i], end)
  BY <1>4, <1>5 DEF Ends, Touched, Terms
<1>7. RangeFits'
  BY <1>5 DEF RangeInv, RangeFits, Rounds!ownVars, Rounds!cacheVars
<1>8. \A j \in BetIds' : Follows(bets'[j], answer', now')
  <2>1. answer' = answer /\ now' = now /\ BetIds' = BetIds
    BY <1>5 DEF Rounds!ownVars, BetIds
  <2>2. Follows(bets'[i], answer, now)
    BY <1>2, <1>5
  <2> QED
    BY <1>5, <2>1, <2>2 DEF RangeInv
<1> QED
  BY <1>6, <1>7, <1>8

LEMMA RoundIs ==
  ASSUME Rounds!RangeAssumption, RangeInv, NEW i \in BetIds
  PROVE  /\ bets[i] \in Round /\ Closing[bets[i].market] \in Questions
         /\ bets[i].band[1] \in Nat /\ bets[i].band[2] \in Nat
<1>1. bets[i] \in Round
  BY DEF RangeInv, RangeFits, BetIds
<1>2. bets[i].market \in RangeMarkets /\ bets[i].band \in Nat \X Nat
  BY <1>1 DEF Round, Rounds!RangeAssumption
<1> QED
  BY <1>1, <1>2 DEF Rounds!RangeAssumption

\* What every step keeps: the invariant, and the house's own specification.
RangeSound == RangeInv' /\ House!Next

LEMMA SettleSound ==
  ASSUME Rounds!RangeAssumption, RangeInv, NEW i \in BetIds, Rounds!Settle(i)
  PROVE  RangeSound
<1> DEFINE said == answer[Closing[bets[i].market]]
           inside == \E p \in bets[i].band[1]..bets[i].band[2] : said = p
           b(end) == [bets[i] EXCEPT !.status = end]
<1>1. /\ bets[i] \in Round /\ Closing[bets[i].market] \in Questions
      /\ bets[i].band[1] \in Nat /\ bets[i].band[2] \in Nat
  BY RoundIs
<1>2. /\ bets[i].status = "LIVE" /\ said # -1 /\ Escrowed(i) /\ UNCHANGED Rounds!ownVars
      /\ EscrowInv
  BY DEF Rounds!Settle, Rounds!Question, Rounds!Pending, Escrowed, RangeInv
<1>3. said \in Prints \cup {0} /\ said \in Nat
  <2>1. PICK q \in Questions : q = Closing[bets[i].market]
    BY <1>1
  <2>2. answer[q] \in Prints \/ answer[q] \in {-1, 0}
    BY DEF RangeInv, RangeFits
  <2>3. \A p \in Prints : p \in Nat
    BY DEF Rounds!RangeAssumption
  <2> QED
    BY <1>2, <2>1, <2>2, <2>3
<1>4. Rounds!Inside(said, bets[i].band) <=> inside
  BY <1>1, <1>3 DEF Rounds!Inside
<1>5. ASSUME NEW end \in {"LOST", "VOID", "WON", "CLAIMED"}
      PROVE  /\ b(end).status = end /\ b(end).side = bets[i].side
             /\ b(end).market = bets[i].market /\ b(end).band = bets[i].band
  BY <1>1 DEF Round
<1>6. CASE said = 0
  <2>1. Rounds!Refund(i, bets[i])
    BY <1>6 DEF Rounds!Settle, Rounds!Question, Rounds!Voided
  <2>2. Refund(i, bets[i]) /\ Rounds!Ended(i, bets[i], "VOID")
    BY <2>1 DEF Rounds!Refund, Refund, Rounds!Ended, Ended, Rounds!Move, Move,
                Rounds!Release, Release, Rounds!Saturating, Saturating,
                Rounds!shareVars, shareVars
  <2>3. Follows(b("VOID"), answer, now)
    BY <1>5, <1>6 DEF Follows
  <2>4. /\ Ends(i, bets[i], "VOID") /\ RangeFits'
        /\ \A j \in BetIds' : Follows(bets'[j], answer', now')
    BY <1>2, <2>2, <2>3, RoundEnds
  <2> QED
    BY <1>2, <2>2, <2>4, RefundSound DEF RangeSound, RangeInv, Sound
<1>7. CASE said # 0 /\ ((bets[i].side = "INSIDE") <=> inside)
  <2>1. Rounds!Win(i, bets[i])
    BY <1>4, <1>7 DEF Rounds!Settle, Rounds!Question, Rounds!Voided
  <2>2. /\ UNCHANGED <<ledgerVars, locked, lockedByExpiry>>
        /\ Rounds!Ended(i, bets[i], "WON")
    BY <2>1 DEF Rounds!Win, Rounds!ledgerVars, ledgerVars, Rounds!shareVars, shareVars
  <2>3. Follows(b("WON"), answer, now)
    BY <1>3, <1>5, <1>7 DEF Follows
  <2>4. /\ Ends(i, bets[i], "WON") /\ RangeFits'
        /\ \A j \in BetIds' : Follows(bets'[j], answer', now')
    BY <1>2, <2>2, <2>3, RoundEnds
  <2> QED
    BY <1>2, <2>2, <2>4, StaySound DEF RangeSound, RangeInv, Sound
<1>8. CASE said # 0 /\ ~((bets[i].side = "INSIDE") <=> inside)
  <2>1. Rounds!Keep(i, bets[i])
    BY <1>4, <1>8 DEF Rounds!Settle, Rounds!Question, Rounds!Voided
  <2>2. Keep(i, bets[i]) /\ Rounds!Ended(i, bets[i], "LOST")
    BY <2>1 DEF Rounds!Keep, Keep, Rounds!Ended, Ended, Rounds!Move, Move,
                Rounds!Release, Release, Rounds!Saturating, Saturating,
                Rounds!shareVars, shareVars
  <2>3. Follows(b("LOST"), answer, now)
    BY <1>3, <1>5, <1>8 DEF Follows
  <2>4. /\ Ends(i, bets[i], "LOST") /\ RangeFits'
        /\ \A j \in BetIds' : Follows(bets'[j], answer', now')
    BY <1>2, <2>2, <2>3, RoundEnds
  <2> QED
    BY <1>2, <2>2, <2>4, KeepSound DEF RangeSound, RangeInv, Sound
<1> QED
  BY <1>6, <1>7, <1>8

LEMMA VoidStaleSound ==
  ASSUME Rounds!RangeAssumption, RangeInv, NEW i \in BetIds, Rounds!VoidStale(i)
  PROVE  RangeSound
<1> DEFINE b == [bets[i] EXCEPT !.status = "VOID"]
<1>1. bets[i] \in Round
  BY RoundIs
<1>2. /\ bets[i].status = "LIVE" /\ Escrowed(i) /\ UNCHANGED Rounds!ownVars /\ EscrowInv
      /\ now >= RangeExpiry[bets[i].market] + params.staleAfterSec
  BY DEF Rounds!VoidStale, Rounds!Stale, Escrowed, RangeInv
<1>3. Refund(i, bets[i]) /\ Rounds!Ended(i, bets[i], "VOID")
  BY DEF Rounds!VoidStale, Rounds!Refund, Refund, Rounds!Ended, Ended, Rounds!Move, Move,
         Rounds!Release, Release, Rounds!Saturating, Saturating, Rounds!shareVars, shareVars
<1>4. b.status = "VOID" /\ b.market = bets[i].market
  BY <1>1 DEF Round
<1>5. Follows(b, answer, now)
  BY <1>2, <1>4 DEF Follows, RangeInv, RangeFits
<1>6. /\ Ends(i, bets[i], "VOID") /\ RangeFits'
      /\ \A j \in BetIds' : Follows(bets'[j], answer', now')
  BY <1>2, <1>3, <1>5, RoundEnds
<1> QED
  BY <1>2, <1>3, <1>6, RefundSound DEF RangeSound, RangeInv, Sound

LEMMA ClaimRoundSound ==
  ASSUME Rounds!RangeAssumption, RangeInv, NEW i \in BetIds, Rounds!Claim(i),
         UNCHANGED Rounds!ownVars
  PROVE  RangeSound
<1> DEFINE b == [bets[i] EXCEPT !.status = "CLAIMED"]
<1>1. bets[i] \in Round
  BY RoundIs
<1>2. bets[i].status = "WON" /\ Escrowed(i) /\ EscrowInv
  BY DEF Rounds!Claim, Escrowed, RangeInv
<1>3. Claim(i) /\ Rounds!Ended(i, bets[i], "CLAIMED")
  BY DEF Rounds!Claim, Claim, Rounds!Ended, Ended, Rounds!Move, Move,
         Rounds!Release, Release, Rounds!Saturating, Saturating, Rounds!shareVars, shareVars
<1>4. /\ b.status = "CLAIMED" /\ b.market = bets[i].market /\ b.side = bets[i].side
      /\ b.band = bets[i].band
  BY <1>1 DEF Round
<1>5. Follows(b, answer, now)
  BY <1>2, <1>4 DEF Follows, RangeInv
<1>6. /\ Ends(i, bets[i], "CLAIMED") /\ RangeFits'
      /\ \A j \in BetIds' : Follows(bets'[j], answer', now')
  BY <1>2, <1>3, <1>5, RoundEnds
<1> QED
  BY <1>2, <1>3, <1>6, ClaimSound DEF RangeSound, RangeInv, Sound

(* A round enters as the books' bet, LIVE and not yet judged.              *)
LEMMA OpenRangeSound ==
  ASSUME Rounds!RangeAssumption, RangeInv, NEW o \in Owners, NEW m \in RangeMarkets,
         NEW a \in Assets, NEW side \in {"INSIDE", "OUTSIDE"}, NEW band \in Bands,
         NEW stake \in Stakes, NEW payout \in Payouts,
         Rounds!OpenRange(o, m, a, side, band, stake, payout)
  PROVE  RangeSound
<1>1. stake \in Nat /\ payout - stake \in Nat \ {0} /\ RangeExpiry[m] \in Times
  BY DEF Rounds!OpenRange, Rounds!RangeAssumption
<1>2. PICK b \in Round :
        /\ b = [owner |-> o, status |-> "LIVE", side |-> side, market |-> m, band |-> band,
                stake |-> stake, houseLocked |-> payout - stake, expiries |-> {RangeExpiry[m]}]
        /\ b.status = "LIVE" /\ b.owner \in Owners /\ b.stake \in Nat
        /\ b.houseLocked \in Nat \ {0} /\ b.expiries = {RangeExpiry[m]}
  <2>1. PICK h \in Nat \ {0}, E \in SUBSET Times : h = payout - stake /\ E = {RangeExpiry[m]}
    BY <1>1
  <2>2. [owner |-> o, status |-> "LIVE", side |-> side, market |-> m, band |-> band,
         stake |-> stake, houseLocked |-> h, expiries |-> E] \in Round
    BY <1>1 DEF Round
  <2> QED
    BY <1>1, <2>1, <2>2
<1>3. BetFits(b)
  BY <1>1, <1>2 DEF BetFits
<1>4. Rounds!Escrow(b, params)
  BY <1>2 DEF Rounds!OpenRange
<1>5. Escrow(b, params) /\ bets' = Append(bets, b) /\ EscrowInv /\ bets \in Seq(Round)
  BY <1>4 DEF Rounds!Escrow, Escrow, Rounds!Capacity, Capacity, Rounds!Move, Move,
              Rounds!BPS, BPS, Rounds!totalValue, totalValue, Rounds!shareVars, shareVars,
              RangeInv, RangeFits
<1>6. /\ bets' \in Seq(Round) /\ Len(bets') = Len(bets) + 1
      /\ Grows(b) /\ Len(bets) \in Nat
  BY <1>5 DEF Grows, BetIds
<1>7. Sound
  BY <1>2, <1>3, <1>5, <1>6, EscrowSound
<1>8. Rounds!OpeningPrint(m) \in Nat
  <2>1. openingPrintOf[m] \in Nat
    BY DEF RangeInv, RangeFits
  <2>2. answer[Opening[m]] \in Prints => answer[Opening[m]] \in Nat
    BY DEF Rounds!RangeAssumption
  <2> QED
    BY <2>1, <2>2 DEF Rounds!OpeningPrint
<1>9. RangeFits'
  <2>1. /\ assetKeyOf' = [assetKeyOf EXCEPT ![m] = a]
        /\ openingPrintOf' = [openingPrintOf EXCEPT ![m] = Rounds!OpeningPrint(m)]
        /\ UNCHANGED <<params, volatilityOf, answer, trading, now>>
    BY DEF Rounds!OpenRange
  <2>2. assetKeyOf' \in [RangeMarkets -> Assets \cup {0}] /\ openingPrintOf' \in [RangeMarkets -> Nat]
    BY <1>8, <2>1 DEF RangeInv, RangeFits
  <2> QED
    BY <1>6, <2>1, <2>2 DEF RangeInv, RangeFits
<1>10. \A j \in BetIds' : Follows(bets'[j], answer', now')
  <2>1. answer' = answer /\ now' = now
    BY DEF Rounds!OpenRange
  <2>2. Follows(b, answer, now)
    BY <1>2 DEF Follows
  <2>3. ASSUME NEW j \in BetIds' PROVE j \in BetIds \/ bets'[j] = b
    BY <1>6 DEF BetIds, Grows
  <2> QED
    BY <1>6, <2>1, <2>2, <2>3 DEF RangeInv, Grows
<1> QED
  BY <1>7, <1>9, <1>10 DEF RangeSound, RangeInv, Sound

(* The steps that leave the bets alone.                                    *)
LEMMA RangeIdles ==
  ASSUME Rounds!RangeAssumption, RangeInv, Sound, UNCHANGED bets, RangeFits', now <= now',
         \A q \in Questions : answer[q] # -1 => answer'[q] = answer[q]
  PROVE  RangeSound
<1>1. now' \in Nat
  BY DEF RangeFits, Rounds!RangeAssumption
<1>2. \A j \in BetIds' : Follows(bets'[j], answer', now')
  BY <1>1, RoundsStand
<1> QED
  BY <1>2 DEF RangeSound, RangeInv, Sound

LEMMA RangeStepSound ==
  ASSUME Rounds!RangeAssumption, RangeInv, [Rounds!Next]_(Rounds!vars)
  PROVE  RangeSound \/ UNCHANGED Rounds!vars
<1>0. EscrowInv /\ RangeFits /\ now \in Nat /\ now + 1 \in Nat
  BY DEF RangeInv, RangeFits, Rounds!RangeAssumption
<1>a. UNCHANGED Rounds!ownVars /\ UNCHANGED bets => RangeFits'
  BY <1>0 DEF RangeFits, Rounds!ownVars, Rounds!cacheVars
<1>b. ASSUME UNCHANGED Rounds!escrowVars PROVE Sound /\ UNCHANGED bets
  <2>1. UNCHANGED escrowVars
    BY <1>b DEF Rounds!escrowVars, Rounds!ledgerVars, Rounds!shareVars,
                escrowVars, ledgerVars, shareVars
  <2> QED
    BY <1>0, <2>1, IdleSound DEF escrowVars
<1>1. ASSUME NEW s \in Suppliers, NEW a \in Supplies, Rounds!Supply(s, a),
             UNCHANGED Rounds!ownVars
      PROVE  RangeSound
  <2>1. Supply(s, a)
    BY <1>1 DEF Rounds!Supply, Supply, Rounds!Buy, Buy, Rounds!totalValue, totalValue,
                Rounds!SharesFor, SharesFor
  <2>2. Sound /\ UNCHANGED bets
    BY <1>0, <2>1, SupplySound DEF Supply
  <2> QED
    BY <1>0, <1>1, <1>a, <2>2, RangeIdles DEF Rounds!ownVars
<1>2. ASSUME NEW s \in Suppliers, NEW n \in Redemptions, Rounds!Withdraw(s, n),
             UNCHANGED Rounds!ownVars
      PROVE  RangeSound
  <2>1. Withdraw(s, n)
    BY <1>2 DEF Rounds!Withdraw, Withdraw, Rounds!Redeem, Redeem, Rounds!totalValue,
                totalValue, Rounds!WorthOf, WorthOf
  <2>2. Sound /\ UNCHANGED bets
    BY <1>0, <2>1, WithdrawSound DEF Withdraw
  <2> QED
    BY <1>0, <1>2, <1>a, <2>2, RangeIdles DEF Rounds!ownVars
<1>3. ASSUME NEW b \in PauseChoices, Rounds!SetPaused(b), UNCHANGED Rounds!ownVars
      PROVE  RangeSound
  <2>1. SetPaused(b)
    BY <1>3 DEF Rounds!SetPaused, SetPaused, Rounds!Pause, Pause, Rounds!shareVars, shareVars
  <2>2. Sound /\ UNCHANGED bets
    BY <1>0, <2>1, PauseSound DEF SetPaused
  <2> QED
    BY <1>0, <1>3, <1>a, <2>2, RangeIdles DEF Rounds!ownVars
<1>4. ASSUME NEW p \in RangeParams, Rounds!SetParams(p) PROVE RangeSound
  <2>1. RangeFits' /\ UNCHANGED <<answer, now>> /\ UNCHANGED Rounds!escrowVars
    <3>1. UNCHANGED Rounds!escrowVars
      BY <1>4 DEF Rounds!SetParams
    <3>2. UNCHANGED bets
      BY <1>b, <3>1
    <3> QED
      BY <1>0, <1>4, <3>1, <3>2 DEF Rounds!SetParams, RangeFits, Rounds!cacheVars
  <2> QED
    BY <1>0, <1>b, <2>1, RangeIdles
<1>5. ASSUME NEW a \in Rated, Rounds!SetVolatility(a, ~volatilityOf[a]) PROVE RangeSound
  <2>1. RangeFits' /\ UNCHANGED <<answer, now>> /\ UNCHANGED Rounds!escrowVars
    <3>1. UNCHANGED Rounds!escrowVars
      BY <1>5 DEF Rounds!SetVolatility
    <3>2. UNCHANGED bets
      BY <1>b, <3>1
    <3>3. volatilityOf' \in [Assets -> BOOLEAN]
      BY <1>0, <1>5 DEF Rounds!SetVolatility, RangeFits, Rounds!RangeAssumption
    <3> QED
      BY <1>0, <1>5, <3>1, <3>2, <3>3 DEF Rounds!SetVolatility, RangeFits, Rounds!cacheVars
  <2> QED
    BY <1>0, <1>b, <2>1, RangeIdles
<1>6. ASSUME NEW q \in Questions, NEW said \in Prints \cup {Rounds!Voided},
             Rounds!HubAnswers(q, said)
      PROVE  RangeSound
  <2>1. /\ answer[q] = -1 /\ answer' = [answer EXCEPT ![q] = said] /\ said \in Prints \cup {0}
        /\ UNCHANGED <<params, volatilityOf, assetKeyOf, openingPrintOf, trading, now>>
        /\ UNCHANGED Rounds!escrowVars
    BY <1>6 DEF Rounds!HubAnswers, Rounds!Pending, Rounds!Voided, Rounds!cacheVars
  <2>2. Sound /\ UNCHANGED bets
    BY <1>b, <2>1
  <2>3. /\ \A r \in Questions : answer'[r] \in Prints \/ answer'[r] \in {-1, 0}
        /\ DOMAIN answer' = Questions
        /\ \A r \in Questions : answer[r] # -1 => answer'[r] = answer[r]
    BY <1>0, <2>1 DEF RangeFits
  <2>4. RangeFits'
    BY <1>0, <2>1, <2>2, <2>3 DEF RangeFits
  <2> QED
    BY <1>0, <2>1, <2>2, <2>3, <2>4, RangeIdles
<1>7. ASSUME NEW m \in RangeMarkets, Rounds!StopTrading(m) PROVE RangeSound
  <2>1. RangeFits' /\ UNCHANGED <<answer, now>> /\ UNCHANGED Rounds!escrowVars
    <3>1. UNCHANGED Rounds!escrowVars
      BY <1>7 DEF Rounds!StopTrading
    <3>2. UNCHANGED bets
      BY <1>b, <3>1
    <3> QED
      BY <1>0, <1>7, <3>1, <3>2 DEF Rounds!StopTrading, RangeFits, Rounds!cacheVars
  <2> QED
    BY <1>0, <1>b, <2>1, RangeIdles
<1>8. ASSUME Rounds!Tick PROVE RangeSound
  <2>1. RangeFits' /\ now' = now + 1 /\ UNCHANGED answer /\ UNCHANGED Rounds!escrowVars
    <3>1. UNCHANGED Rounds!escrowVars
      BY <1>8 DEF Rounds!Tick
    <3>2. UNCHANGED bets
      BY <1>b, <3>1
    <3>3. now' = now + 1 /\ now' \in 0..RangeTime
      BY <1>0, <1>8 DEF Rounds!Tick, RangeFits, Rounds!RangeAssumption
    <3> QED
      BY <1>0, <1>8, <3>1, <3>2, <3>3 DEF Rounds!Tick, RangeFits, Rounds!cacheVars
  <2> QED
    BY <1>0, <1>b, <2>1, RangeIdles
<1>9. ASSUME NEW i \in Rounds!BetIds, Rounds!Settle(i) \/ Rounds!VoidStale(i)
      PROVE  RangeSound
  BY <1>9, SettleSound, VoidStaleSound DEF Rounds!BetIds, BetIds
<1>10. ASSUME NEW i \in Rounds!BetIds, Rounds!Claim(i), UNCHANGED Rounds!ownVars
       PROVE  RangeSound
  BY <1>10, ClaimRoundSound DEF Rounds!BetIds, BetIds
<1>11. CASE UNCHANGED Rounds!vars
  BY <1>11
<1>12. CASE Rounds!Next
  BY <1>1, <1>2, <1>3, <1>4, <1>5, <1>6, <1>7, <1>8, <1>9, <1>10, <1>12, OpenRangeSound
     DEF Rounds!Next, Rounds!RoundSides
<1> QED
  BY <1>11, <1>12

LEMMA RangeStarts ==
  ASSUME Rounds!RangeAssumption, Rounds!Init PROVE RangeInv /\ House!Init
<1>1. /\ liquid = 0 /\ supplyShares = 0 /\ wallet = 0 /\ paused = FALSE /\ intake = 0
      /\ sharesOf = [s \in Suppliers |-> 0]
      /\ locked = 0 /\ lockedByExpiry = [e \in Times |-> 0] /\ bets = << >>
  BY DEF Rounds!Init, Rounds!EscrowInit, Rounds!LedgerInit
<1>2. EscrowInv /\ House!Init
  BY <1>1, BooksOpen DEF Rounds!RangeAssumption
<1>3. RangeFits
  BY <1>1 DEF Rounds!Init, RangeFits, Rounds!Pending, Rounds!RangeAssumption
<1>4. BetIds = {}
  BY <1>1 DEF BetIds
<1> QED
  BY <1>2, <1>3, <1>4 DEF RangeInv

LEMMA RangeRests ==
  ASSUME RangeInv, UNCHANGED Rounds!vars PROVE RangeInv'
<1>1. UNCHANGED <<escrowVars, Rounds!ownVars>> /\ UNCHANGED bets
  BY DEF Rounds!vars, Rounds!escrowVars, Rounds!ledgerVars, Rounds!shareVars,
         escrowVars, ledgerVars, shareVars
<1>2. Sound
  BY <1>1, IdleSound DEF RangeInv
<1>3. RangeFits' /\ UNCHANGED <<now, answer>> /\ now <= now'
  <2>1. now \in Nat
    BY HousesAssumption DEF RangeInv, RangeFits, Rounds!RangeAssumption
  <2> QED
    BY <1>1, <2>1 DEF RangeInv, RangeFits, Rounds!ownVars, Rounds!cacheVars
<1> QED
  BY <1>1, <1>2, <1>3, HousesAssumption, RangeIdles DEF RangeSound

(* The inductive invariant of RangeReserve.                                *)
LEMMA RangeInvariant ==
  ASSUME Rounds!RangeAssumption PROVE Rounds!Spec => []RangeInv
<1>1. Rounds!Init => RangeInv
  BY RangeStarts
<1>2. RangeInv /\ [Rounds!Next]_(Rounds!vars) => RangeInv'
  BY RangeStepSound, RangeRests DEF RangeSound
<1> QED
  BY <1>1, <1>2, PTL DEF Rounds!Spec

\* RangeReserve's books balance in every state: its collateral is the liquid
\* capital and the escrow of the rounds that are live, or won and unclaimed, and
\* what it holds locked, in total and per expiry, is exactly theirs.
THEOREM RangeBooksBalance ==
  ASSUME Rounds!RangeAssumption PROVE Rounds!Spec => [](Rounds!TypeOK /\ BooksBalance)
<1>1. RangeInv => Rounds!TypeOK /\ BooksBalance
  BY RangeInvSuffices
<1> QED
  BY <1>1, RangeInvariant, PTL

\* A round is won or lost by the print the oracle hub gave, whatever was asked
\* of it in between, and refunded only on a voided or an overdue question.
THEOREM RoundsEndAsJudged ==
  ASSUME Rounds!RangeAssumption PROVE Rounds!Spec => []Rounds!RoundsFollowHub
<1>1. RangeInv => Rounds!RoundsFollowHub
  BY RangeInvSuffices
<1> QED
  BY <1>1, RangeInvariant, PTL

\* RangeReserve implements the house of shares, its locked capital being what
\* the house has at risk.
THEOREM RangeIsAHouse ==
  ASSUME Rounds!RangeAssumption PROVE Rounds!Spec => HouseSpec
<1>1. Rounds!Init => House!Init
  BY RangeStarts
<1>2. RangeInv /\ [Rounds!Next]_(Rounds!vars) => [House!Next]_(House!vars)
  <2> SUFFICES ASSUME RangeInv, [Rounds!Next]_(Rounds!vars) PROVE [House!Next]_(House!vars)
    OBVIOUS
  <2>1. CASE UNCHANGED Rounds!vars
    BY <2>1 DEF Rounds!vars, Rounds!escrowVars, Rounds!ledgerVars, Rounds!shareVars,
                House!vars
  <2> QED
    BY <2>1, RangeStepSound DEF RangeSound
<1> QED
  BY <1>1, <1>2, RangeInvariant, PTL DEF Rounds!Spec, HouseSpec, House!Spec
-----------------------------------------------------------------------------
(* ParlayReserve: the tickets, and what the venue decided of their legs.   *)

Leg == [market : Markets, outcome : {0, 1}, status : {"PENDING", "WON", "LOST", "VOID"}]

Ticket == [owner : Owners, status : {"LIVE", "LOST", "VOID", "WON", "CLAIMED"},
           stake : Nat, houseLocked : Nat \ {0}, expiries : SUBSET Times,
           wonCount : Nat, legs : Seq(Leg)]

Decided == {"UP", "DOWN", "VOID"}

ParlayFits ==
  /\ bets \in Seq(Ticket)
  /\ params \in ParlayParams /\ now \in 0..MaxTime
  /\ verdict \in [Markets -> {"TRADING", "LOCKED"} \cup Decided]

\* What the venue's verdicts v make of a leg (OutcomeOf).
Outcome(leg, v) ==
  CASE v[leg.market] = "VOID" -> "VOID"
    [] v[leg.market] = "UP" -> IF leg.outcome = 0 THEN "WON" ELSE "LOST"
    [] OTHER -> IF leg.outcome = 1 THEN "WON" ELSE "LOST"

\* A leg is settled as the venue decided it, and not before.
LegHolds(leg, v) == leg.status # "PENDING" => v[leg.market] \in Decided /\ leg.status = Outcome(leg, v)

WonLegs(b) == {k \in 1..Len(b.legs) : b.legs[k].status = "WON"}

\* A ticket's status and its count of won legs say what its legs do.
LegsCounted(b) ==
  /\ b.wonCount = Cardinality(WonLegs(b))
  /\ b.status = "LIVE" => /\ b.wonCount < Len(b.legs)
                          /\ \A k \in 1..Len(b.legs) : b.legs[k].status \in {"PENDING", "WON"}
  /\ b.status \in {"WON", "CLAIMED"} => \A k \in 1..Len(b.legs) : b.legs[k].status = "WON"
  /\ b.status = "LOST" => \E k \in 1..Len(b.legs) : b.legs[k].status = "LOST"
  /\ b.status = "VOID" => \E k \in 1..Len(b.legs) : b.legs[k].status = "VOID"

TicketHolds(b, v) == LegsCounted(b) /\ \A k \in 1..Len(b.legs) : LegHolds(b.legs[k], v)

ParlayInv ==
  /\ EscrowInv /\ ParlayFits
  /\ \A i \in BetIds : TicketHolds(bets[i], verdict)

LEMMA LegIs == ASSUME NEW b \in Ticket, NEW k \in 1..Len(b.legs) PROVE b.legs[k] \in Leg
<1>1. b.legs \in Seq(Leg)
  BY DEF Ticket
<1> QED
  BY <1>1

\* A ticket not all of whose legs are won has one that is not.
LEMMA SomeLegPends ==
  ASSUME NEW b \in Ticket, LegsCounted(b), b.status = "LIVE"
  PROVE  \E k \in 1..Len(b.legs) : b.legs[k].status = "PENDING"
<1>1. b.legs \in Seq(Leg)
  BY DEF Ticket
<1>2. PICK n \in Nat : n = Len(b.legs)
  BY <1>1
<1> SUFFICES ASSUME \A k \in 1..n : b.legs[k].status # "PENDING" PROVE FALSE
  BY <1>2
<1>3. WonLegs(b) = 1..n
  BY <1>2 DEF WonLegs, LegsCounted
<1>4. Cardinality(1..n) = n
  BY FS_Interval
<1> QED
  BY <1>2, <1>3, <1>4 DEF LegsCounted

LEMMA ParlayInvSuffices ==
  ASSUME Parlay!ParlayAssumption, ParlayInv
  PROVE  Parlay!TypeOK /\ BooksBalance /\ Parlay!TicketsFollowVenue
<1>1. Parlay!LedgerTypeOK
  BY WalletIsInt DEF ParlayInv, EscrowInv, EscrowFits, LedgerFits, Parlay!LedgerTypeOK
<1>2. Parlay!EscrowTypeOK
  BY <1>1 DEF ParlayInv, EscrowInv, EscrowFits, BetFits, BetIds, Parlay!BetIds, Parlay!EscrowTypeOK
<1>3. Parlay!TypeOK
  BY <1>2 DEF ParlayInv, ParlayFits, Parlay!TypeOK, Decided
<1>4. Parlay!TicketsFollowVenue
  <2> SUFFICES ASSUME NEW i \in BetIds
               PROVE  LET legs == Parlay!Range(bets[i].legs)
                      IN /\ bets[i].status \in {"WON", "CLAIMED"}
                              => \A leg \in legs : Parlay!Right(leg)
                         /\ bets[i].status = "LOST" => \E leg \in legs : Parlay!Wrong(leg)
                         /\ bets[i].status = "VOID"
                              => \E leg \in legs : verdict[leg.market] = "VOID"
                         /\ bets[i].status = "LIVE"
                              => \E leg \in legs : leg.status = "PENDING"
    BY DEF Parlay!TicketsFollowVenue, Parlay!BetIds, BetIds
  <2> DEFINE b == bets[i]
  <2>1. b \in Ticket /\ b.legs \in Seq(Leg)
    <3>1. b \in Ticket
      BY DEF ParlayInv, ParlayFits, BetIds
    <3> QED
      BY <3>1 DEF Ticket
  <2>2. Parlay!Range(b.legs) = {b.legs[k] : k \in 1..Len(b.legs)}
    BY <2>1 DEF Parlay!Range
  <2>3. TicketHolds(b, verdict)
    BY DEF ParlayInv
  <2>4. ASSUME NEW k \in 1..Len(b.legs)
        PROVE  /\ b.legs[k].status = "WON" => Parlay!Right(b.legs[k])
               /\ b.legs[k].status = "LOST" => Parlay!Wrong(b.legs[k])
               /\ b.legs[k].status = "VOID" => verdict[b.legs[k].market] = "VOID"
    <3>1. PICK leg \in Leg : leg = b.legs[k]
      BY <2>1, LegIs
    <3>2. LegHolds(leg, verdict) /\ leg.outcome \in {0, 1}
      BY <2>3, <3>1 DEF TicketHolds, Leg
    <3> HIDE DEF b
    <3> QED
      BY <3>1, <3>2 DEF LegHolds, Outcome, Decided, Parlay!Right, Parlay!Wrong, Parlay!Side
  <2>5. b.status = "LIVE" => \E k \in 1..Len(b.legs) : b.legs[k].status = "PENDING"
    BY <2>1, <2>3, SomeLegPends DEF TicketHolds
  <2> HIDE DEF b
  <2>6. /\ b.status \in {"WON", "CLAIMED"}
             => \A leg \in Parlay!Range(b.legs) : Parlay!Right(leg)
        /\ b.status = "LOST" => \E leg \in Parlay!Range(b.legs) : Parlay!Wrong(leg)
        /\ b.status = "VOID" => \E leg \in Parlay!Range(b.legs) : verdict[leg.market] = "VOID"
        /\ b.status = "LIVE" => \E leg \in Parlay!Range(b.legs) : leg.status = "PENDING"
    BY <2>2, <2>3, <2>4, <2>5 DEF TicketHolds, LegsCounted
  <2> QED
    BY <2>6 DEF b
<1> QED
  BY <1>3, <1>4 DEF ParlayInv, EscrowInv

(* The venue decides a market once.                                        *)
LEMMA TicketsStand ==
  ASSUME ParlayInv, UNCHANGED bets,
         \A m \in Markets : verdict[m] \in Decided => verdict'[m] = verdict[m]
  PROVE  \A i \in BetIds' : TicketHolds(bets'[i], verdict')
<1> SUFFICES ASSUME NEW i \in BetIds' PROVE TicketHolds(bets'[i], verdict')
  OBVIOUS
<1>1. i \in BetIds /\ bets'[i] = bets[i]
  BY DEF BetIds
<1>2. PICK b \in Ticket : b = bets[i]
  BY <1>1 DEF ParlayInv, ParlayFits, BetIds
<1>3. TicketHolds(b, verdict)
  BY <1>1, <1>2 DEF ParlayInv
<1>4. ASSUME NEW k \in 1..Len(b.legs) PROVE LegHolds(b.legs[k], verdict')
  <2>1. PICK leg \in Leg : leg = b.legs[k]
    BY LegIs
  <2>2. LegHolds(leg, verdict) /\ leg.market \in Markets
    BY <1>3, <2>1 DEF TicketHolds, Leg
  <2> QED
    BY <2>1, <2>2 DEF LegHolds, Outcome
<1> QED
  BY <1>1, <1>2, <1>3, <1>4 DEF TicketHolds

(* One ticket moves, on its terms.                                         *)
LEMMA TicketMoves ==
  ASSUME ParlayInv, NEW i \in BetIds, Escrowed(i), NEW b \in Ticket,
         bets' = [bets EXCEPT ![i] = b], Terms(b, bets[i]),
         UNCHANGED Parlay!ownVars, TicketHolds(b, verdict)
  PROVE  /\ \A bet : Terms(bet, bets[i]) => Ends(i, bet, b.status)
         /\ ParlayFits'
         /\ \A j \in BetIds' : TicketHolds(bets'[j], verdict')
<1>1. bets \in Seq(Ticket)
  BY DEF ParlayInv, ParlayFits
<1>2. /\ bets' \in Seq(Ticket) /\ Len(bets') = Len(bets) /\ bets'[i] = b
      /\ \A j \in BetIds \ {i} : bets'[j] = bets[j]
  BY <1>1 DEF BetIds
<1>3. \A bet : Terms(bet, bets[i]) => Ends(i, bet, b.status)
  BY <1>2 DEF Ends, Touched
<1>4. ParlayFits' /\ verdict' = verdict /\ BetIds' = BetIds
  BY <1>2 DEF ParlayInv, ParlayFits, Parlay!ownVars, BetIds
<1>5. \A j \in BetIds' : TicketHolds(bets'[j], verdict')
  BY <1>2, <1>4 DEF ParlayInv
<1> QED
  BY <1>3, <1>4, <1>5
(* Records updated in one place.                                           *)
LEMMA TicketEnds ==
  ASSUME NEW b \in Ticket, NEW end \in {"LIVE", "LOST", "VOID", "WON", "CLAIMED"}
  PROVE  \E d \in Ticket : /\ d = [b EXCEPT !.status = end] /\ d.status = end
                           /\ d.legs = b.legs /\ d.wonCount = b.wonCount /\ Terms(d, b)
<1> DEFINE d == [b EXCEPT !.status = end]
<1>1. d \in Ticket
  BY DEF Ticket
<1>2. d.status = end /\ d.legs = b.legs /\ d.wonCount = b.wonCount
  BY DEF Ticket
<1>3. d.stake = b.stake /\ d.houseLocked = b.houseLocked /\ d.expiries = b.expiries
      /\ d.owner = b.owner
  BY DEF Ticket
<1> QED
  BY <1>1, <1>2, <1>3 DEF Terms

LEMMA TicketCounts ==
  ASSUME NEW b \in Ticket, NEW n \in Nat
  PROVE  \E d \in Ticket : /\ d = [b EXCEPT !.wonCount = n] /\ d.status = b.status
                           /\ d.legs = b.legs /\ d.wonCount = n /\ Terms(d, b)
<1> DEFINE d == [b EXCEPT !.wonCount = n]
<1>1. d \in Ticket
  BY DEF Ticket
<1>2. d.status = b.status /\ d.legs = b.legs /\ d.wonCount = n
  BY DEF Ticket
<1>3. d.stake = b.stake /\ d.houseLocked = b.houseLocked /\ d.expiries = b.expiries
      /\ d.owner = b.owner
  BY DEF Ticket
<1> QED
  BY <1>1, <1>2, <1>3 DEF Terms

LEMMA TicketTakesLegs ==
  ASSUME NEW b \in Ticket, NEW legs \in Seq(Leg)
  PROVE  \E d \in Ticket : /\ d = [b EXCEPT !.legs = legs] /\ d.status = b.status
                           /\ d.legs = legs /\ d.wonCount = b.wonCount /\ Terms(d, b)
<1> DEFINE d == [b EXCEPT !.legs = legs]
<1>1. d \in Ticket
  BY DEF Ticket
<1>2. d.status = b.status /\ d.legs = legs /\ d.wonCount = b.wonCount
  BY DEF Ticket
<1>3. d.stake = b.stake /\ d.houseLocked = b.houseLocked /\ d.expiries = b.expiries
      /\ d.owner = b.owner
  BY DEF Ticket
<1> QED
  BY <1>1, <1>2, <1>3 DEF Terms

LEMMA LegMarks ==
  ASSUME NEW g \in Leg, NEW out \in {"WON", "LOST", "VOID"}
  PROVE  \E leg \in Leg : /\ leg = [g EXCEPT !.status = out] /\ leg.status = out
                          /\ leg.market = g.market /\ leg.outcome = g.outcome
<1> DEFINE leg == [g EXCEPT !.status = out]
<1>1. leg \in Leg
  BY DEF Leg
<1>2. leg.status = out /\ leg.market = g.market /\ leg.outcome = g.outcome
  BY DEF Leg
<1> QED
  BY <1>1, <1>2

(* A pending leg takes its verdict: what the ticket is then.               *)
SettledIn(b, k, out, c, v) ==
  /\ c \in Ticket /\ Terms(c, b) /\ c.status = "LIVE" /\ c.wonCount = b.wonCount
  /\ Len(c.legs) = Len(b.legs) /\ c.legs[k].status = out
  /\ \A j \in 1..Len(b.legs) : j # k => c.legs[j] = b.legs[j]
  /\ \A j \in 1..Len(c.legs) : LegHolds(c.legs[j], v)
  /\ k \notin WonLegs(b)
  /\ WonLegs(c) = IF out = "WON" THEN WonLegs(b) \cup {k} ELSE WonLegs(b)

LEMMA LegSettles ==
  ASSUME NEW b \in Ticket, NEW k \in 1..Len(b.legs), b.status = "LIVE",
         b.legs[k].status = "PENDING", NEW v, TicketHolds(b, v),
         v[b.legs[k].market] \in Decided,
         NEW out, out = Outcome(b.legs[k], v),
         NEW c, c = [b EXCEPT !.legs[k].status = out]
  PROVE  SettledIn(b, k, out, c, v)
<1>1. b.legs \in Seq(Leg) /\ b.legs[k] \in Leg
  BY LegIs DEF Ticket
<1>2. out \in {"WON", "LOST", "VOID"}
  BY DEF Outcome
<1>3. PICK leg \in Leg :
        /\ leg = [b.legs[k] EXCEPT !.status = out] /\ leg.status = out
        /\ leg.market = b.legs[k].market /\ leg.outcome = b.legs[k].outcome
  BY <1>1, <1>2, LegMarks
<1>4. PICK legs \in Seq(Leg) :
        /\ legs = [b.legs EXCEPT ![k] = leg] /\ Len(legs) = Len(b.legs) /\ legs[k] = leg
        /\ \A j \in 1..Len(b.legs) : j # k => legs[j] = b.legs[j]
  <2>1. PICK s \in Seq(Leg) : s = b.legs
    BY <1>1
  <2>2. k \in 1..Len(s)
    BY <2>1
  <2> DEFINE z == [s EXCEPT ![k] = leg]
  <2>3. z \in Seq(Leg) /\ Len(z) = Len(s)
    BY <2>2
  <2>4. z[k] = leg /\ \A j \in 1..Len(s) : j # k => z[j] = s[j]
    BY <2>2
  <2>5. z = [b.legs EXCEPT ![k] = leg]
    BY <2>1
  <2> HIDE DEF z
  <2> QED
    BY <2>1, <2>3, <2>4, <2>5
<1>5. c = [b EXCEPT !.legs = legs]
  BY <1>3, <1>4
<1>6. /\ c \in Ticket /\ c.legs = legs /\ c.status = b.status /\ c.wonCount = b.wonCount
      /\ Terms(c, b)
  <2>1. PICK d \in Ticket : /\ d = [b EXCEPT !.legs = legs] /\ d.status = b.status
                            /\ d.legs = legs /\ d.wonCount = b.wonCount /\ Terms(d, b)
    BY TicketTakesLegs
  <2> QED
    BY <1>5, <2>1
<1>7. LegHolds(leg, v)
  BY <1>3 DEF LegHolds, Outcome
<1>8. \A j \in 1..Len(c.legs) : LegHolds(c.legs[j], v)
  BY <1>4, <1>6, <1>7 DEF TicketHolds
<1>9. k \notin WonLegs(b)
  BY DEF WonLegs
<1>10. WonLegs(c) = IF out = "WON" THEN WonLegs(b) \cup {k} ELSE WonLegs(b)
  BY <1>3, <1>4, <1>6 DEF WonLegs
<1> QED
  BY <1>3, <1>4, <1>6, <1>8, <1>9, <1>10 DEF SettledIn

LEMMA WonLegsAreFinite ==
  ASSUME NEW b \in Ticket
  PROVE  /\ Len(b.legs) \in Nat /\ IsFiniteSet(WonLegs(b)) /\ Cardinality(WonLegs(b)) \in Nat
         /\ Cardinality(WonLegs(b)) = Len(b.legs) => WonLegs(b) = 1..Len(b.legs)
<1>1. b.legs \in Seq(Leg)
  BY DEF Ticket
<1>2. PICK n \in Nat : n = Len(b.legs)
  BY <1>1
<1>3. IsFiniteSet(1..n) /\ Cardinality(1..n) = n
  BY FS_Interval
<1>4. WonLegs(b) \in SUBSET (1..n)
  BY <1>2 DEF WonLegs
<1> QED
  BY <1>2, <1>3, <1>4, FS_Subset, FS_CardinalityType

\* What every step keeps: the invariant, and the house's own specification.
ParlaySound == ParlayInv' /\ House!Next

LEMMA ResolveLegSound ==
  ASSUME Parlay!ParlayAssumption, ParlayInv, NEW i \in BetIds,
         NEW k \in 1..Len(bets[i].legs), Parlay!ResolveLeg(i, k)
  PROVE  ParlaySound
<1>1. PICK b \in Ticket : b = bets[i]
  BY DEF ParlayInv, ParlayFits, BetIds
<1>2. k \in 1..Len(b.legs)
  BY <1>1
<1>3. PICK out : out = Outcome(b.legs[k], verdict)
  OBVIOUS
<1>4. PICK c : c = [b EXCEPT !.legs[k].status = out]
  OBVIOUS
<1>5. PICK won : won = [c EXCEPT !.wonCount = @ + 1]
  OBVIOUS
<1>6. out = Parlay!OutcomeOf(b.legs[k])
  BY <1>3 DEF Outcome, Parlay!OutcomeOf
<1>7. /\ b.status = "LIVE" /\ b.legs[k].status = "PENDING" /\ UNCHANGED Parlay!ownVars
      /\ verdict[b.legs[k].market] \in Decided
      /\ \/ out = "WON" /\ won.wonCount = Len(c.legs) /\ Parlay!Win(i, won)
         \/ /\ out = "WON" /\ won.wonCount < Len(c.legs)
            /\ bets' = [bets EXCEPT ![i] = won]
            /\ UNCHANGED <<Parlay!ledgerVars, locked, lockedByExpiry>>
         \/ out = "LOST" /\ Parlay!Keep(i, c)
         \/ out = "VOID" /\ Parlay!Refund(i, c)
  BY <1>1, <1>4, <1>5, <1>6 DEF Parlay!ResolveLeg, Parlay!Settled, Decided
<1>8. TicketHolds(b, verdict) /\ Escrowed(i) /\ EscrowInv
  BY <1>1, <1>7 DEF ParlayInv, Escrowed
<1>9. /\ c \in Ticket /\ Terms(c, b) /\ c.status = "LIVE" /\ c.wonCount = b.wonCount
      /\ Len(c.legs) = Len(b.legs) /\ c.legs[k].status = out
      /\ \A j \in 1..Len(b.legs) : j # k => c.legs[j] = b.legs[j]
      /\ \A j \in 1..Len(c.legs) : LegHolds(c.legs[j], verdict)
      /\ k \notin WonLegs(b)
      /\ WonLegs(c) = IF out = "WON" THEN WonLegs(b) \cup {k} ELSE WonLegs(b)
  <2>1. PICK v : v = verdict
    OBVIOUS
  <2>2. TicketHolds(b, v) /\ v[b.legs[k].market] \in Decided /\ out = Outcome(b.legs[k], v)
    BY <1>3, <1>7, <1>8, <2>1
  <2>3. b.status = "LIVE" /\ b.legs[k].status = "PENDING"
    BY <1>7
  <2>4. SettledIn(b, k, out, c, v)
    BY <1>2, <1>4, <2>2, <2>3, LegSettles
  <2> QED
    BY <2>1, <2>4 DEF SettledIn
<1>10. IsFiniteSet(WonLegs(b)) /\ Cardinality(WonLegs(b)) \in Nat
  BY WonLegsAreFinite
<1>11. b.wonCount = Cardinality(WonLegs(b)) /\ b.wonCount < Len(b.legs)
  BY <1>7, <1>8 DEF TicketHolds, LegsCounted
<1>12. /\ won \in Ticket /\ won.wonCount = b.wonCount + 1 /\ won.status = "LIVE"
       /\ won.legs = c.legs /\ Terms(won, b)
  <2>1. PICK n \in Nat : n = c.wonCount + 1
    BY <1>9, <1>10, <1>11
  <2>2. PICK d \in Ticket : /\ d = [c EXCEPT !.wonCount = n] /\ d.status = c.status
                            /\ d.legs = c.legs /\ d.wonCount = n /\ Terms(d, c)
    BY <1>9, TicketCounts
  <2>3. won = d
    BY <1>5, <2>1, <2>2
  <2> QED
    BY <1>9, <2>1, <2>2, <2>3 DEF Terms
<1>13. out = "WON" => won.wonCount = Cardinality(WonLegs(won))
  <2>1. WonLegs(won) = WonLegs(c)
    BY <1>12 DEF WonLegs
  <2>2. Cardinality(WonLegs(b) \cup {k}) = Cardinality(WonLegs(b)) + 1
    BY <1>9, <1>10, FS_AddElement
  <2> QED
    BY <1>9, <1>11, <1>12, <2>1, <2>2
<1>14. \A j \in 1..Len(c.legs) : out \in {"WON"} => c.legs[j].status \in {"PENDING", "WON"}
  BY <1>7, <1>8, <1>9 DEF TicketHolds, LegsCounted
<1>15. CASE out = "WON" /\ won.wonCount = Len(c.legs) /\ Parlay!Win(i, won)
  <2>1. PICK d \in Ticket : /\ d = [won EXCEPT !.status = "WON"] /\ d.status = "WON"
                            /\ d.legs = won.legs /\ d.wonCount = won.wonCount /\ Terms(d, b)
    BY <1>12, TicketEnds DEF Terms
  <2>2. WonLegs(won) = 1..Len(won.legs)
    BY <1>12, <1>13, <1>15, WonLegsAreFinite
  <2>3. TicketHolds(d, verdict)
    BY <1>9, <1>12, <1>13, <1>15, <2>1, <2>2 DEF TicketHolds, LegsCounted, WonLegs
  <2>4. /\ UNCHANGED <<ledgerVars, locked, lockedByExpiry>>
        /\ bets' = [bets EXCEPT ![i] = d]
    BY <1>15, <2>1 DEF Parlay!Win, Parlay!Ended, Parlay!ledgerVars, ledgerVars,
                       Parlay!shareVars, shareVars
  <2>5. /\ Ends(i, won, "WON") /\ ParlayFits'
        /\ \A j \in BetIds' : TicketHolds(bets'[j], verdict')
    BY <1>1, <1>7, <1>8, <1>12, <2>1, <2>3, <2>4, TicketMoves
  <2> QED
    BY <1>8, <2>4, <2>5, StaySound DEF ParlaySound, ParlayInv, Sound
<1>16. CASE /\ out = "WON" /\ won.wonCount < Len(c.legs)
            /\ bets' = [bets EXCEPT ![i] = won]
            /\ UNCHANGED <<Parlay!ledgerVars, locked, lockedByExpiry>>
  <2>1. TicketHolds(won, verdict)
    BY <1>9, <1>12, <1>13, <1>14, <1>16 DEF TicketHolds, LegsCounted
  <2>2. UNCHANGED <<ledgerVars, locked, lockedByExpiry>>
    BY <1>16 DEF Parlay!ledgerVars, ledgerVars, Parlay!shareVars, shareVars
  <2>3. /\ Ends(i, won, "LIVE") /\ ParlayFits'
        /\ \A j \in BetIds' : TicketHolds(bets'[j], verdict')
    BY <1>1, <1>7, <1>8, <1>12, <1>16, <2>1, TicketMoves
  <2> QED
    BY <1>8, <2>2, <2>3, StaySound DEF ParlaySound, ParlayInv, Sound
<1>17. CASE out = "LOST" /\ Parlay!Keep(i, c)
  <2>1. PICK d \in Ticket : /\ d = [c EXCEPT !.status = "LOST"] /\ d.status = "LOST"
                            /\ d.legs = c.legs /\ d.wonCount = c.wonCount /\ Terms(d, b)
    BY <1>9, TicketEnds DEF Terms
  <2>2. TicketHolds(d, verdict)
    BY <1>2, <1>9, <1>11, <1>17, <2>1 DEF TicketHolds, LegsCounted, WonLegs
  <2>3. Keep(i, c) /\ bets' = [bets EXCEPT ![i] = d]
    BY <1>17, <2>1 DEF Parlay!Keep, Keep, Parlay!Ended, Ended, Parlay!Move, Move,
                       Parlay!Release, Release, Parlay!Saturating, Saturating,
                       Parlay!shareVars, shareVars
  <2>4. /\ Ends(i, c, "LOST") /\ ParlayFits'
        /\ \A j \in BetIds' : TicketHolds(bets'[j], verdict')
    BY <1>1, <1>7, <1>8, <1>9, <2>1, <2>2, <2>3, TicketMoves
  <2> QED
    BY <1>8, <2>3, <2>4, KeepSound DEF ParlaySound, ParlayInv, Sound
<1>18. CASE out = "VOID" /\ Parlay!Refund(i, c)
  <2>1. PICK d \in Ticket : /\ d = [c EXCEPT !.status = "VOID"] /\ d.status = "VOID"
                            /\ d.legs = c.legs /\ d.wonCount = c.wonCount /\ Terms(d, b)
    BY <1>9, TicketEnds DEF Terms
  <2>2. TicketHolds(d, verdict)
    BY <1>2, <1>9, <1>11, <1>18, <2>1 DEF TicketHolds, LegsCounted, WonLegs
  <2>3. Refund(i, c) /\ bets' = [bets EXCEPT ![i] = d]
    BY <1>18, <2>1 DEF Parlay!Refund, Refund, Parlay!Ended, Ended, Parlay!Move, Move,
                       Parlay!Release, Release, Parlay!Saturating, Saturating,
                       Parlay!shareVars, shareVars
  <2>4. /\ Ends(i, c, "VOID") /\ ParlayFits'
        /\ \A j \in BetIds' : TicketHolds(bets'[j], verdict')
    BY <1>1, <1>7, <1>8, <1>9, <2>1, <2>2, <2>3, TicketMoves
  <2> QED
    BY <1>8, <2>3, <2>4, RefundSound DEF ParlaySound, ParlayInv, Sound
<1> QED
  BY <1>7, <1>15, <1>16, <1>17, <1>18

LEMMA ClaimTicketSound ==
  ASSUME Parlay!ParlayAssumption, ParlayInv, NEW i \in BetIds, Parlay!Claim(i),
         UNCHANGED Parlay!ownVars
  PROVE  ParlaySound
<1>1. PICK b \in Ticket : b = bets[i]
  BY DEF ParlayInv, ParlayFits, BetIds
<1>2. b.status = "WON" /\ Escrowed(i) /\ EscrowInv /\ TicketHolds(b, verdict)
  BY <1>1 DEF Parlay!Claim, Escrowed, ParlayInv
<1>3. PICK d \in Ticket : /\ d = [b EXCEPT !.status = "CLAIMED"] /\ d.status = "CLAIMED"
                          /\ d.legs = b.legs /\ d.wonCount = b.wonCount /\ Terms(d, b)
                          /\ Terms(b, b)
  BY TicketEnds DEF Terms
<1>4. TicketHolds(d, verdict)
  BY <1>2, <1>3 DEF TicketHolds, LegsCounted, WonLegs
<1>5. Claim(i) /\ bets' = [bets EXCEPT ![i] = d]
  BY <1>1, <1>3 DEF Parlay!Claim, Claim, Parlay!Ended, Ended, Parlay!Move, Move,
         Parlay!Release, Release, Parlay!Saturating, Saturating, Parlay!shareVars, shareVars
<1>6. /\ Ends(i, bets[i], "CLAIMED") /\ ParlayFits'
      /\ \A j \in BetIds' : TicketHolds(bets'[j], verdict')
  BY <1>1, <1>2, <1>3, <1>4, <1>5, TicketMoves
<1> QED
  BY <1>2, <1>5, <1>6, ClaimSound DEF ParlaySound, ParlayInv, Sound
(* What a combination costs is a natural number.                           *)
LEMMA LeastPrice ==
  ASSUME One \in Nat, NEW S, S \subseteq 1..One, S # {}
  PROVE  Parlay!Min(S) \in S
<1> DEFINE D == {One - x : x \in S}
<1>1. D \in SUBSET Nat /\ (\A d \in D : d <= One) /\ D # {}
  <2>1. \A x \in S : One - x \in Nat /\ One - x <= One
    OBVIOUS
  <2>2. \A d \in D : d \in Nat /\ d <= One
    BY <2>1
  <2>3. D # {}
    OBVIOUS
  <2> QED
    BY <2>2, <2>3
<1>2. HasTop(D)
  <2> HIDE DEF D
  <2>1. IsFiniteSet(D)
    BY <1>1, FS_BoundedSetOfNaturals
  <2> QED
    BY <1>1, <2>1, NumbersHaveTops
<1>3. PICK d \in D : \A y \in D : d >= y
  BY <1>2 DEF HasTop
<1>4. PICK x \in S : d = One - x
  OBVIOUS
<1>5. \A y \in S : x <= y
  <2> TAKE y \in S
  <2>1. One - y \in D /\ x \in Nat /\ y \in Nat
    OBVIOUS
  <2>2. d >= One - y
    BY <1>3, <2>1
  <2> QED
    BY <1>4, <2>1, <2>2
<1> QED
  BY <1>5 DEF Parlay!Min

LEMMA CombineIs ==
  ASSUME NEW prices, NEW same
  PROVE  Parlay!Combine(prices, same)
           = LET product == Product(prices, DOMAIN prices)[DOMAIN prices]
                 lowest == (Parlay!Min(Parlay!Range(prices)) * params.correlationBps) \div BPS
             IN IF same /\ lowest > product THEN lowest ELSE product
BY DEF Parlay!Combine, Parlay!FoldLeft, Parlay!MapThenFoldSet, Parlay!Max, Product,
       Multiplies, LastOf, Parlay!BPS, BPS

LEMMA CombineIsNat ==
  ASSUME Parlay!ParlayAssumption, params \in ParlayParams, NEW n \in Nat, n # 0,
         NEW prices \in [1..n -> Prices], NEW same
  PROVE  Parlay!Combine(prices, same) \in Nat
<1>1. One \in Nat \ {0} /\ Prices \subseteq 1..One
  BY DEF Parlay!ParlayAssumption
<1>2. IsFiniteSet(1..n) /\ HasLasts(1..n)
  <2>1. IsFiniteSet(1..n)
    BY FS_Interval
  <2>2. 1..n \subseteq Nat
    OBVIOUS
  <2> QED
    BY <2>1, <2>2, NumbersHaveLasts
<1>3. \A k \in 1..n : prices[k] \in Nat
  <2>1. \A k \in 1..n : prices[k] \in Prices
    OBVIOUS
  <2>2. \A p \in Prices : p \in Nat
    BY <1>1
  <2> QED
    BY <2>1, <2>2
<1>4. Product(prices, 1..n)[1..n] \in Nat
  BY <1>1, <1>2, <1>3, ProductOfPrices
<1>5. PICK least \in Nat : least = Parlay!Min(Parlay!Range(prices))
  <2>1. Parlay!Range(prices) \subseteq 1..One
    BY <1>1 DEF Parlay!Range
  <2>2. Parlay!Range(prices) # {}
    BY DEF Parlay!Range
  <2>3. Parlay!Min(Parlay!Range(prices)) \in 1..One
    BY <1>1, <2>1, <2>2, LeastPrice
  <2> QED
    BY <1>1, <2>3
<1>6. params.correlationBps \in Nat
  <2>1. params \in Parlay!Params
    BY DEF Parlay!ParlayAssumption
  <2>2. params.correlationBps \in 0..Parlay!BPS
    BY <2>1 DEF Parlay!Params
  <2>3. Parlay!BPS \in Nat
    BY DEF Parlay!BPS
  <2> QED
    BY <2>2, <2>3
<1>a. PICK c \in Nat : c = params.correlationBps
  BY <1>6
<1>7. (least * c) \div BPS \in Nat
  <2>1. least * c \in Nat
    BY ProductIsNat
  <2> QED
    BY <2>1, DivisionIsNat DEF BPS
<1>8. DOMAIN prices = 1..n
  OBVIOUS
<1> QED
  BY <1>4, <1>5, <1>a, <1>7, <1>8, CombineIs

LEMMA CeilDivIsNat ==
  ASSUME NEW a \in Nat, NEW b \in Nat \ {0} PROVE Parlay!CeilDiv(a, b) \in Nat
<1>1. CASE a = 0
  BY <1>1 DEF Parlay!CeilDiv
<1>2. CASE a # 0
  <2>1. a - 1 \in Nat
    BY <1>2
  <2>2. (a - 1) \div b \in Nat
    BY <2>1, DivisionIsNat
  <2> QED
    BY <1>2, <2>2 DEF Parlay!CeilDiv
<1> QED
  BY <1>1, <1>2

LEMMA FloorStakeIsNat ==
  ASSUME Parlay!ParlayAssumption, params \in ParlayParams,
         NEW payout \in Nat, NEW prob \in Nat
  PROVE  Parlay!FloorStake(payout, prob) \in Nat
<1>1. One \in Nat \ {0}
  BY DEF Parlay!ParlayAssumption
<1>2. PICK m \in Nat : m = params.marginBps
  <2>1. params \in Parlay!Params
    BY DEF Parlay!ParlayAssumption
  <2> QED
    BY <2>1 DEF Parlay!Params
<1>3. payout * prob \in Nat
  BY ProductIsNat
<1>4. PICK c \in Nat : c = Parlay!CeilDiv(payout * prob, One)
  BY <1>1, <1>3, CeilDivIsNat
<1>5. PICK f \in Nat : f = BPS + m
  BY DEF BPS
<1>6. c * f \in Nat
  BY ProductIsNat
<1>7. Parlay!CeilDiv(c * f, BPS) \in Nat
  BY <1>6, CeilDivIsNat DEF BPS
<1> QED
  BY <1>2, <1>4, <1>5, <1>7 DEF Parlay!FloorStake, Parlay!BPS, BPS

(* A ticket enters as the books' bet, LIVE with its legs pending.          *)
LEMMA FinitenessIs ==
  ASSUME NEW S
  PROVE  /\ Parlay!IsFiniteSet(S) <=> IsFiniteSet(S)
         /\ Parlay!Cardinality(S) = Cardinality(S)
BY DEF Parlay!IsFiniteSet, IsFiniteSet, Parlay!Cardinality, Cardinality

LEMMA PicksAre ==
  ASSUME Parlay!ParlayAssumption, NEW picks \in Parlay!Picks
  PROVE  \E n \in Nat : n >= 2 /\ Len(picks) = n /\ picks \in [1..n -> Markets \X {0, 1}]
<1>1. Cardinality(Markets) \in Nat
  <2>1. IsFiniteSet(Markets)
    BY FinitenessIs DEF Parlay!ParlayAssumption
  <2> QED
    BY <2>1, FS_CardinalityType
<1>2. PICK n \in 2..Cardinality(Markets) : picks \in [1..n -> Markets \X Parlay!Sides]
  <2>1. Parlay!Cardinality(Markets) = Cardinality(Markets)
    BY FinitenessIs
  <2> QED
    BY <2>1 DEF Parlay!Picks
<1>3. n \in Nat /\ n >= 2 /\ picks \in [1..n -> Markets \X {0, 1}]
  BY <1>1, <1>2 DEF Parlay!Sides
<1>4. Len(picks) = n
  <2>1. picks \in Seq(Markets \X {0, 1})
    BY <1>3, SeqDef
  <2>2. DOMAIN picks = 1..Len(picks) /\ Len(picks) \in Nat
    BY <2>1, LenProperties
  <2> QED
    BY <1>3, <2>2
<1> QED
  BY <1>3, <1>4

LEMMA OpenParlaySound ==
  ASSUME Parlay!ParlayAssumption, ParlayInv, NEW o \in Owners, NEW picks \in Parlay!Picks,
         NEW payout \in Payouts, NEW prices \in [1..Len(picks) -> Prices],
         Parlay!OpenParlay(o, picks, prices, payout)
  PROVE  ParlaySound
<1>0. EscrowInv /\ bets \in Seq(Ticket) /\ params \in ParlayParams /\ payout \in Nat
  BY DEF ParlayInv, ParlayFits, Parlay!ParlayAssumption
<1>1. PICK n \in Nat : n >= 2 /\ Len(picks) = n /\ picks \in [1..n -> Markets \X {0, 1}]
  BY PicksAre
<1> DEFINE prob == Parlay!Combine(prices, Parlay!Cardinality(Parlay!ExpiriesOf(picks)) < Len(picks))
           cost == Parlay!FloorStake(payout, prob)
           pended == [k \in 1..Len(picks) |->
                       [market |-> picks[k][1], outcome |-> picks[k][2], status |-> "PENDING"]]
<1>2. cost \in Nat
  <2>1. prob \in Nat
    BY <1>0, <1>1, CombineIsNat
  <2> HIDE DEF prob
  <2> QED
    BY <1>0, <2>1, FloorStakeIsNat
<1>3. cost < payout
  BY DEF Parlay!OpenParlay
<1>4. PICK stake \in Nat, part \in Nat \ {0} : stake = cost /\ part = payout - cost
  BY <1>0, <1>2, <1>3
<1>5. PICK exps \in SUBSET Times : exps = Parlay!ExpiriesOf(picks) /\ exps # {}
  <2>1. \A k \in 1..n : picks[k][1] \in Markets
    BY <1>1
  <2>2. Parlay!MarketsOf(picks) \subseteq Markets /\ Parlay!MarketsOf(picks) # {}
    BY <1>1, <2>1 DEF Parlay!MarketsOf
  <2>3. \A m \in Markets : Expiry[m] \in Times
    BY DEF Parlay!ParlayAssumption
  <2>4. Parlay!ExpiriesOf(picks) \in SUBSET Times
    BY <2>2, <2>3 DEF Parlay!ExpiriesOf
  <2>5. Parlay!ExpiriesOf(picks) # {}
    BY <2>2 DEF Parlay!ExpiriesOf
  <2> QED
    BY <2>4, <2>5
<1>6. PICK legs \in Seq(Leg) :
        /\ legs = pended /\ Len(legs) = n
        /\ \A k \in 1..n : legs[k].status = "PENDING"
  <2>0. pended = [k \in 1..n |->
                   [market |-> picks[k][1], outcome |-> picks[k][2], status |-> "PENDING"]]
    BY <1>1
  <2>1. \A k \in 1..n : pended[k] \in Leg
    BY <1>1 DEF Leg
  <2>2. pended \in Seq(Leg) /\ Len(pended) = n
    <3>1. pended \in [1..n -> Leg]
      BY <2>0, <2>1
    <3> HIDE DEF pended
    <3>2. pended \in Seq(Leg)
      BY <3>1, SeqDef
    <3>3. DOMAIN pended = 1..Len(pended) /\ Len(pended) \in Nat
      BY <3>2, LenProperties
    <3> QED
      BY <3>1, <3>2, <3>3
  <2>3. \A k \in 1..n : pended[k].status = "PENDING"
    BY <2>0
  <2> HIDE DEF pended
  <2> QED
    BY <2>2, <2>3
<1>7. PICK b \in Ticket :
        /\ b = [owner |-> o, status |-> "LIVE", stake |-> stake, houseLocked |-> part,
                expiries |-> exps, wonCount |-> 0, legs |-> legs]
        /\ b.status = "LIVE" /\ b.owner \in Owners /\ b.stake \in Nat
        /\ b.houseLocked \in Nat \ {0} /\ b.expiries = exps /\ b.wonCount = 0 /\ b.legs = legs
  <2>1. [owner |-> o, status |-> "LIVE", stake |-> stake, houseLocked |-> part,
         expiries |-> exps, wonCount |-> 0, legs |-> legs] \in Ticket
    BY DEF Ticket
  <2> QED
    BY <2>1
<1>8. BetFits(b)
  BY <1>5, <1>7 DEF BetFits
<1>9. Parlay!Escrow(b, params) /\ UNCHANGED Parlay!ownVars
  <2>1. b = [owner |-> o, status |-> "LIVE", stake |-> cost, houseLocked |-> payout - cost,
             expiries |-> Parlay!ExpiriesOf(picks), wonCount |-> 0, legs |-> pended]
    BY <1>4, <1>5, <1>6, <1>7
  <2> QED
    BY <2>1 DEF Parlay!OpenParlay
<1>10. Escrow(b, params) /\ bets' = Append(bets, b)
  BY <1>9 DEF Parlay!Escrow, Escrow, Parlay!Capacity, Capacity, Parlay!Move, Move,
              Parlay!BPS, BPS, Parlay!totalValue, totalValue, Parlay!shareVars, shareVars
<1>11. bets' \in Seq(Ticket) /\ Len(bets') = Len(bets) + 1 /\ Grows(b) /\ Len(bets) \in Nat
  BY <1>0, <1>10 DEF Grows, BetIds
<1>12. Sound
  BY <1>0, <1>7, <1>8, <1>10, <1>11, EscrowSound
<1>13. ParlayFits' /\ verdict' = verdict
  BY <1>9, <1>11 DEF ParlayInv, ParlayFits, Parlay!ownVars
<1>14. TicketHolds(b, verdict)
  <2>1. WonLegs(b) = {}
    BY <1>6, <1>7 DEF WonLegs
  <2>2. Cardinality({}) = 0
    BY FS_EmptySet
  <2>3. LegsCounted(b)
    <3>1. Len(b.legs) = n /\ b.wonCount = 0
      BY <1>6, <1>7
    <3>2. n > 0
      BY <1>1
    <3>3. Cardinality(WonLegs(b)) = 0
      BY <2>1, <2>2
    <3> QED
      BY <1>6, <1>7, <3>1, <3>2, <3>3 DEF LegsCounted
  <2>4. \A k \in 1..Len(b.legs) : LegHolds(b.legs[k], verdict)
    BY <1>6, <1>7 DEF LegHolds
  <2> QED
    BY <2>3, <2>4 DEF TicketHolds
<1>15. \A j \in BetIds' : TicketHolds(bets'[j], verdict')
  <2>1. ASSUME NEW j \in BetIds' PROVE j \in BetIds \/ bets'[j] = b
    BY <1>11 DEF BetIds, Grows
  <2> QED
    BY <1>11, <1>13, <1>14, <2>1 DEF ParlayInv, Grows
<1> QED
  BY <1>12, <1>13, <1>15 DEF ParlaySound, ParlayInv, Sound

LEMMA ParlayIdles ==
  ASSUME ParlayInv, Sound, UNCHANGED bets, ParlayFits',
         \A m \in Markets : verdict[m] \in Decided => verdict'[m] = verdict[m]
  PROVE  ParlaySound
<1>1. \A j \in BetIds' : TicketHolds(bets'[j], verdict')
  BY TicketsStand
<1> QED
  BY <1>1 DEF ParlaySound, ParlayInv, Sound

LEMMA ParlayStepSound ==
  ASSUME Parlay!ParlayAssumption, ParlayInv, [Parlay!Next]_(Parlay!vars)
  PROVE  ParlaySound
<1>0. EscrowInv /\ ParlayFits /\ now \in Nat
  BY DEF ParlayInv, ParlayFits, Parlay!ParlayAssumption
<1>a. UNCHANGED Parlay!ownVars /\ UNCHANGED bets => ParlayFits' /\ UNCHANGED verdict
  BY <1>0 DEF ParlayFits, Parlay!ownVars
<1>b. ASSUME UNCHANGED Parlay!escrowVars PROVE Sound /\ UNCHANGED bets
  <2>1. UNCHANGED escrowVars
    BY <1>b DEF Parlay!escrowVars, Parlay!ledgerVars, Parlay!shareVars,
                escrowVars, ledgerVars, shareVars
  <2> QED
    BY <1>0, <2>1, IdleSound DEF escrowVars
<1>1. ASSUME NEW s \in Suppliers, NEW a \in Supplies, Parlay!Supply(s, a),
             UNCHANGED Parlay!ownVars
      PROVE  ParlaySound
  <2>1. Supply(s, a)
    BY <1>1 DEF Parlay!Supply, Supply, Parlay!Buy, Buy, Parlay!totalValue, totalValue,
                Parlay!SharesFor, SharesFor
  <2>2. Sound /\ UNCHANGED bets
    BY <1>0, <2>1, SupplySound DEF Supply
  <2> QED
    BY <1>1, <1>a, <2>2, ParlayIdles
<1>2. ASSUME NEW s \in Suppliers, NEW n \in Redemptions, Parlay!Withdraw(s, n),
             UNCHANGED Parlay!ownVars
      PROVE  ParlaySound
  <2>1. Withdraw(s, n)
    BY <1>2 DEF Parlay!Withdraw, Withdraw, Parlay!Redeem, Redeem, Parlay!totalValue,
                totalValue, Parlay!WorthOf, WorthOf
  <2>2. Sound /\ UNCHANGED bets
    BY <1>0, <2>1, WithdrawSound DEF Withdraw
  <2> QED
    BY <1>2, <1>a, <2>2, ParlayIdles
<1>3. ASSUME NEW b \in PauseChoices, Parlay!SetPaused(b), UNCHANGED Parlay!ownVars
      PROVE  ParlaySound
  <2>1. SetPaused(b)
    BY <1>3 DEF Parlay!SetPaused, SetPaused, Parlay!Pause, Pause, Parlay!shareVars, shareVars
  <2>2. Sound /\ UNCHANGED bets
    BY <1>0, <2>1, PauseSound DEF SetPaused
  <2> QED
    BY <1>3, <1>a, <2>2, ParlayIdles
<1>4. ASSUME NEW p \in ParlayParams, Parlay!SetParams(p) PROVE ParlaySound
  <2>1. UNCHANGED Parlay!escrowVars
    BY <1>4 DEF Parlay!SetParams
  <2>2. Sound /\ UNCHANGED bets
    BY <1>b, <2>1
  <2>3. ParlayFits' /\ UNCHANGED verdict
    BY <1>0, <1>4, <2>2 DEF Parlay!SetParams, ParlayFits
  <2> QED
    BY <2>2, <2>3, ParlayIdles
<1>5. ASSUME NEW m \in Markets, NEW v \in {"LOCKED", "UP", "DOWN", "VOID"}, Parlay!Decide(m, v)
      PROVE  ParlaySound
  <2>1. UNCHANGED Parlay!escrowVars
    BY <1>5 DEF Parlay!Decide
  <2>2. Sound /\ UNCHANGED bets
    BY <1>b, <2>1
  <2>3. /\ verdict' = [verdict EXCEPT ![m] = v] /\ verdict[m] \notin Decided
        /\ UNCHANGED <<params, now>>
    BY <1>5 DEF Parlay!Decide, Decided
  <2>4. ParlayFits'
    BY <1>0, <2>2, <2>3 DEF ParlayFits, Decided
  <2>5. \A k \in Markets : verdict[k] \in Decided => verdict'[k] = verdict[k]
    BY <1>0, <2>3 DEF ParlayFits
  <2> QED
    BY <2>2, <2>4, <2>5, ParlayIdles
<1>6. ASSUME Parlay!Tick PROVE ParlaySound
  <2>1. UNCHANGED Parlay!escrowVars
    BY <1>6 DEF Parlay!Tick
  <2>2. Sound /\ UNCHANGED bets
    BY <1>b, <2>1
  <2>3. now' \in 0..MaxTime /\ UNCHANGED <<params, verdict>>
    BY <1>0, <1>6 DEF Parlay!Tick, ParlayFits, Parlay!ParlayAssumption
  <2>4. ParlayFits'
    BY <1>0, <2>2, <2>3 DEF ParlayFits
  <2> QED
    BY <2>2, <2>3, <2>4, ParlayIdles
<1>7. ASSUME NEW i \in Parlay!BetIds, NEW k \in 1..Len(bets[i].legs), Parlay!ResolveLeg(i, k)
      PROVE  ParlaySound
  BY <1>7, ResolveLegSound DEF Parlay!BetIds, BetIds
<1>8. ASSUME NEW i \in Parlay!BetIds, Parlay!Claim(i), UNCHANGED Parlay!ownVars
      PROVE  ParlaySound
  BY <1>8, ClaimTicketSound DEF Parlay!BetIds, BetIds
<1>9. CASE UNCHANGED Parlay!vars
  <2>1. UNCHANGED Parlay!escrowVars /\ UNCHANGED Parlay!ownVars
    BY <1>9 DEF Parlay!vars
  <2> QED
    BY <1>a, <1>b, <2>1, ParlayIdles
<1>10. CASE Parlay!Next
  BY <1>1, <1>2, <1>3, <1>4, <1>5, <1>6, <1>7, <1>8, <1>10, OpenParlaySound DEF Parlay!Next
<1> QED
  BY <1>9, <1>10

LEMMA ParlayStarts ==
  ASSUME Parlay!ParlayAssumption, Parlay!Init PROVE ParlayInv /\ House!Init
<1>1. /\ liquid = 0 /\ supplyShares = 0 /\ wallet = 0 /\ paused = FALSE /\ intake = 0
      /\ sharesOf = [s \in Suppliers |-> 0]
      /\ locked = 0 /\ lockedByExpiry = [e \in Times |-> 0] /\ bets = << >>
  BY DEF Parlay!Init, Parlay!EscrowInit, Parlay!LedgerInit
<1>2. EscrowInv /\ House!Init
  BY <1>1, BooksOpen DEF Parlay!ParlayAssumption
<1>3. ParlayFits
  BY <1>1 DEF Parlay!Init, ParlayFits, Parlay!ParlayAssumption
<1>4. BetIds = {}
  BY <1>1 DEF BetIds
<1> QED
  BY <1>2, <1>3, <1>4 DEF ParlayInv

(* The inductive invariant of ParlayReserve.                               *)
LEMMA ParlayInvariant ==
  ASSUME Parlay!ParlayAssumption PROVE Parlay!Spec => []ParlayInv
<1>1. Parlay!Init => ParlayInv
  BY ParlayStarts
<1>2. ParlayInv /\ [Parlay!Next]_(Parlay!vars) => ParlayInv'
  BY ParlayStepSound DEF ParlaySound
<1> QED
  BY <1>1, <1>2, PTL DEF Parlay!Spec

\* ParlayReserve's books balance in every state: its collateral is the liquid
\* capital and the escrow of the tickets that are live, or won and unclaimed, and
\* what it holds locked, in total and on each expiry a ticket has legs at, is
\* exactly theirs.
THEOREM ParlayBooksBalance ==
  ASSUME Parlay!ParlayAssumption PROVE Parlay!Spec => [](Parlay!TypeOK /\ BooksBalance)
<1>1. ParlayInv => Parlay!TypeOK /\ BooksBalance
  BY ParlayInvSuffices
<1> QED
  BY <1>1, ParlayInvariant, PTL

\* Whoever settles its legs, and in whatever order, a ticket is won only on a
\* full streak at the venue, lost only with a losing leg, refunded only with a
\* voided one, and live only while a leg pends.
THEOREM TicketsEndAsJudged ==
  ASSUME Parlay!ParlayAssumption PROVE Parlay!Spec => []Parlay!TicketsFollowVenue
<1>1. ParlayInv => Parlay!TicketsFollowVenue
  BY ParlayInvSuffices
<1> QED
  BY <1>1, ParlayInvariant, PTL

\* ParlayReserve implements the house of shares, its locked capital being what
\* the house has at risk.
THEOREM ParlayIsAHouse ==
  ASSUME Parlay!ParlayAssumption PROVE Parlay!Spec => HouseSpec
<1>1. Parlay!Init => House!Init
  BY ParlayStarts
<1>2. ParlayInv /\ [Parlay!Next]_(Parlay!vars) => [House!Next]_(House!vars)
  BY ParlayStepSound DEF ParlaySound
<1> QED
  BY <1>1, <1>2, ParlayInvariant, PTL DEF Parlay!Spec, HouseSpec, House!Spec

-----------------------------------------------------------------------------
(* MarketMakerVault: what its orders hold on the venue.                    *)

VaultOrder == [market : Markets, side : {"YES", "NO"}, price : 0..One, quantity : Nat,
               expireAt : Nat]

Places == 1..(2 * MaxQuotes)

EscrowFor(o) == Maker!EscrowOf(o.side, o.price, o.quantity)

\* What the orders os hold on market m, and those of them in ids, by place.
RestingOn(os, m) ==
  [i \in Places |-> IF i \in 1..Len(os) /\ os[i].market = m THEN EscrowFor(os[i]) ELSE 0]
HeldIn(os, ids) == [i \in Places |-> IF i \in ids THEN EscrowFor(os[i]) ELSE 0]

OrdersFit(os) == os \in Seq(VaultOrder) /\ Len(os) <= 2 * MaxQuotes

(* The vault's sums are the ones of FiniteSums.                             *)
LEMMA SumsAreOne == ASSUME NEW f PROVE Maker!SumFunction(f) = SumFunction(f)
BY SumIsSomeUnfolding
   DEF Maker!SumFunction, SumFunction, Maker!SumFunctionOnSet, Maker!FoldFunctionOnSet,
       Maker!MapThenFoldSet, Unfolds, Unfolding, AnyOf

LEMMA PlacesAreFinite == ASSUME Maker!MakerAssumption PROVE IsFiniteSet(Places)
<1>1. 2 * MaxQuotes \in Nat
  BY DEF Maker!MakerAssumption
<1> QED
  BY <1>1, FS_Interval DEF Places

LEMMA DivisionGrows ==
  ASSUME NEW a \in Nat, NEW b \in Nat, NEW c \in Nat \ {0}, a <= b
  PROVE  a \div c <= b \div c
<1>1. PICK x \in Nat : x = a \div c /\ x * c <= a
  BY DivisionIsNat, DivisionFits
<1>2. PICK y \in Nat : y = b \div c
  BY DivisionIsNat
<1>3. b < (y + 1) * c
  BY <1>2
<1>4. x * c < (y + 1) * c
  <2>1. x * c \in Nat /\ (y + 1) * c \in Nat
    BY ProductIsNat
  <2> QED
    BY <1>1, <1>3, <2>1
<1>5. x < y + 1
  BY <1>4
<1> QED
  BY <1>1, <1>2, <1>5

LEMMA EscrowMovesWithQuantity ==
  ASSUME Maker!MakerAssumption, NEW side, NEW price \in 0..One,
         NEW q \in Nat, NEW r \in Nat, r <= q
  PROVE  /\ Maker!EscrowOf(side, price, q) \in Nat
         /\ Maker!EscrowOf(side, price, r) <= Maker!EscrowOf(side, price, q)
         /\ Maker!EscrowOf(side, price, 0) = 0
<1>1. PICK p \in Nat : p = IF side = "YES" THEN price ELSE One - price
  BY DEF Maker!MakerAssumption
<1>2. One \in Nat \ {0}
  BY DEF Maker!MakerAssumption
<1>3. q * p \in Nat /\ r * p \in Nat /\ r * p <= q * p /\ 0 * p = 0
  <2>1. PICK d \in Nat : q = r + d
    BY q - r \in Nat
  <2>2. q * p = r * p + d * p
    BY <2>1
  <2> QED
    BY <2>2, ProductIsNat
<1>4. (q * p) \div One \in Nat /\ (r * p) \div One <= (q * p) \div One /\ 0 \div One = 0
  BY <1>2, <1>3, DivisionIsNat, DivisionGrows
<1> QED
  BY <1>1, <1>3, <1>4 DEF Maker!EscrowOf

LEMMA OrderFields ==
  ASSUME Maker!MakerAssumption, NEW os, OrdersFit(os), NEW i \in 1..Len(os)
  PROVE  /\ os[i] \in VaultOrder /\ os[i].market \in Markets /\ os[i].side \in {"YES", "NO"}
         /\ os[i].price \in 0..One /\ os[i].quantity \in Nat /\ os[i].expireAt \in Nat
         /\ Len(os) \in Nat /\ i \in Places
<1>1. os[i] \in VaultOrder /\ Len(os) \in Nat
  BY DEF OrdersFit
<1>2. 2 * MaxQuotes \in Nat
  BY DEF Maker!MakerAssumption
<1>3. i \in Places
  BY <1>1, <1>2 DEF OrdersFit, Places
<1> QED
  BY <1>1, <1>3 DEF VaultOrder

LEMMA EscrowIsNat ==
  ASSUME Maker!MakerAssumption, NEW os, OrdersFit(os), NEW i \in 1..Len(os)
  PROVE  EscrowFor(os[i]) \in Nat
<1>1. PICK q \in Nat, p \in 0..One : q = os[i].quantity /\ p = os[i].price
  BY OrderFields
<1>2. Maker!EscrowOf(os[i].side, p, q) \in Nat
  BY EscrowMovesWithQuantity, q <= q
<1> QED
  BY <1>1, <1>2 DEF EscrowFor

LEMMA RestingTyped ==
  ASSUME Maker!MakerAssumption, NEW os, OrdersFit(os), NEW m
  PROVE  RestingOn(os, m) \in [Places -> Nat] /\ SumFunction(RestingOn(os, m)) \in Nat
<1>1. RestingOn(os, m) \in [Places -> Nat]
  BY EscrowIsNat DEF RestingOn
<1> QED
  BY <1>1, PlacesAreFinite, TotalIsNat

LEMMA HeldTyped ==
  ASSUME Maker!MakerAssumption, NEW os, OrdersFit(os), NEW ids \in SUBSET (1..Len(os))
  PROVE  HeldIn(os, ids) \in [Places -> Nat] /\ SumFunction(HeldIn(os, ids)) \in Nat
<1>1. HeldIn(os, ids) \in [Places -> Nat]
  BY EscrowIsNat DEF HeldIn
<1> QED
  BY <1>1, PlacesAreFinite, TotalIsNat

(* What the model counts on a market is the sum over the places.           *)
LEMMA RestingIs ==
  ASSUME Maker!MakerAssumption, OrdersFit(orders), NEW m
  PROVE  Maker!EscrowIn(Maker!On(m)) = SumFunction(RestingOn(orders, m))
<1>1. ASSUME NEW i \in Places
      PROVE  (IF i \in Maker!On(m) THEN Maker!Resting(i) ELSE 0) = RestingOn(orders, m)[i]
  <2>1. CASE i \in 1..Len(orders) /\ orders[i].market = m
    <3>1. orders[i].quantity \in Nat /\ orders[i].price \in 0..One
      BY <2>1, OrderFields
    <3>2. orders[i].quantity = 0 => Maker!Resting(i) = 0
      BY <3>1, EscrowMovesWithQuantity DEF Maker!Resting
    <3>3. i \in Maker!On(m) <=> orders[i].quantity # 0
      BY <2>1, <3>1 DEF Maker!On
    <3> QED
      BY <2>1, <3>2, <3>3 DEF RestingOn, EscrowFor, Maker!Resting
  <2>2. CASE ~(i \in 1..Len(orders) /\ orders[i].market = m)
    BY <2>2 DEF RestingOn, Maker!On
  <2> QED
    BY <2>1, <2>2
<1>2. [i \in Places |-> IF i \in Maker!On(m) THEN Maker!Resting(i) ELSE 0] = RestingOn(orders, m)
  BY <1>1 DEF RestingOn
<1> QED
  BY <1>2, SumsAreOne DEF Maker!EscrowIn, Places

LEMMA HeldIs ==
  ASSUME NEW ids PROVE Maker!EscrowIn(ids) = SumFunction(HeldIn(orders, ids))
BY SumsAreOne DEF Maker!EscrowIn, HeldIn, Places, EscrowFor, Maker!Resting

(* Orders taken off the venue leave with all they held.                    *)
LEMMA TakenOff ==
  ASSUME Maker!MakerAssumption, NEW os, OrdersFit(os), NEW m \in Markets,
         NEW ids \in SUBSET (1..Len(os)), \A i \in ids : os[i].market = m,
         NEW ws, ws = [i \in 1..Len(os) |->
                        IF i \in ids THEN [os[i] EXCEPT !.quantity = 0] ELSE os[i]]
  PROVE  /\ OrdersFit(ws) /\ Len(ws) = Len(os)
         /\ SumFunction(RestingOn(os, m))
              = SumFunction(RestingOn(ws, m)) + SumFunction(HeldIn(os, ids))
         /\ \A k \in Markets \ {m} : RestingOn(ws, k) = RestingOn(os, k)
<1>1. ASSUME NEW i \in 1..Len(os)
      PROVE  ws[i] \in VaultOrder /\ ws[i].market = os[i].market /\
             EscrowFor(ws[i]) = IF i \in ids THEN 0 ELSE EscrowFor(os[i])
  <2>1. os[i] \in VaultOrder /\ os[i].price \in 0..One /\ os[i].quantity \in Nat
    BY OrderFields
  <2>2. CASE i \in ids
    <3>1. ws[i] = [os[i] EXCEPT !.quantity = 0]
      BY <2>2
    <3> DEFINE o == os[i]
    <3>2. /\ [o EXCEPT !.quantity = 0] \in VaultOrder
          /\ [o EXCEPT !.quantity = 0].market = o.market
          /\ [o EXCEPT !.quantity = 0].side = o.side
          /\ [o EXCEPT !.quantity = 0].price = o.price
          /\ [o EXCEPT !.quantity = 0].quantity = 0
      <4>1. o \in VaultOrder
        BY <2>1
      <4> HIDE DEF o
      <4> QED
        BY <4>1 DEF VaultOrder
    <3>3. Maker!EscrowOf(o.side, o.price, 0) = 0
      BY <2>1, EscrowMovesWithQuantity
    <3> QED
      BY <2>2, <3>1, <3>2, <3>3 DEF EscrowFor
  <2>3. CASE i \notin ids
    BY <2>1, <2>3
  <2> QED
    BY <2>2, <2>3
<1>2. Len(os) \in Nat /\ Len(os) <= 2 * MaxQuotes
  BY DEF OrdersFit
<1>3. Len(ws) = Len(os)
  <2>1. DOMAIN ws = 1..Len(os)
    OBVIOUS
  <2> QED
    BY <1>2, <2>1, LenProperties, SeqDef
<1>4. OrdersFit(ws)
  <2>1. \A i \in 1..Len(os) : ws[i] \in VaultOrder
    BY <1>1
  <2>2. ws \in [1..Len(os) -> VaultOrder]
    BY <2>1
  <2>3. ws \in Seq(VaultOrder)
    BY <1>2, <2>2, SeqDef
  <2> QED
    BY <1>2, <1>3, <2>3 DEF OrdersFit
<1>5. \A i \in Places : RestingOn(os, m)[i] = RestingOn(ws, m)[i] + HeldIn(os, ids)[i]
  <2>1. ASSUME NEW i \in Places
        PROVE  RestingOn(os, m)[i] = RestingOn(ws, m)[i] + HeldIn(os, ids)[i]
    <3>1. CASE i \in 1..Len(os)
      <4>1. EscrowFor(os[i]) \in Nat
        BY <3>1, EscrowIsNat
      <4> QED
        BY <1>1, <1>3, <3>1, <4>1 DEF RestingOn, HeldIn
    <3>2. CASE i \notin 1..Len(os)
      BY <1>3, <3>2 DEF RestingOn, HeldIn
    <3> QED
      BY <3>1, <3>2
  <2> QED
    BY <2>1
<1>6. SumFunction(RestingOn(os, m))
        = SumFunction(RestingOn(ws, m)) + SumFunction(HeldIn(os, ids))
  <2>1. /\ RestingOn(os, m) \in [Places -> Nat] /\ RestingOn(ws, m) \in [Places -> Nat]
        /\ HeldIn(os, ids) \in [Places -> Nat]
    BY <1>4, RestingTyped, HeldTyped
  <2>2. PICK f \in [Places -> Nat], g \in [Places -> Nat], h \in [Places -> Nat] :
          f = RestingOn(ws, m) /\ g = HeldIn(os, ids) /\ h = RestingOn(os, m)
    BY <2>1
  <2>3. IsSumOf(h, f, g, Places)
    BY <1>5, <2>2 DEF IsSumOf
  <2>4. IsFiniteSet(Places)
    BY PlacesAreFinite
  <2>5. SumFunction(h) = SumFunction(f) + SumFunction(g)
    BY <2>3, <2>4, TotalOfSums
  <2> QED
    BY <2>2, <2>5
<1>7. ASSUME NEW k \in Markets \ {m} PROVE RestingOn(ws, k) = RestingOn(os, k)
  BY <1>1, <1>3 DEF RestingOn
<1> QED
  BY <1>3, <1>4, <1>6, <1>7

(* An order placed adds what it escrows.                                   *)
LEMMA PutOn ==
  ASSUME Maker!MakerAssumption, NEW os, OrdersFit(os), Len(os) < 2 * MaxQuotes,
         NEW o \in VaultOrder
  PROVE  /\ OrdersFit(Append(os, o)) /\ Len(Append(os, o)) = Len(os) + 1
         /\ EscrowFor(o) \in Nat
         /\ \A k \in Markets : SumFunction(RestingOn(Append(os, o), k))
              = SumFunction(RestingOn(os, k)) + (IF o.market = k THEN EscrowFor(o) ELSE 0)
<1> DEFINE n == Len(os)
           ws == Append(os, o)
<1>1. n \in Nat /\ 2 * MaxQuotes \in Nat
  BY DEF OrdersFit, Maker!MakerAssumption
<1>2. ws \in Seq(VaultOrder) /\ Len(ws) = n + 1 /\ ws[n + 1] = o /\ \A i \in 1..n : ws[i] = os[i]
  BY AppendProperties DEF OrdersFit
<1> HIDE DEF n, ws
<1>3. OrdersFit(ws) /\ n + 1 \in 1..Len(ws) /\ n + 1 \in Places
  BY <1>1, <1>2 DEF OrdersFit, Places, n
<1>4. EscrowFor(o) \in Nat
  BY <1>2, <1>3, EscrowIsNat
<1>5. ASSUME NEW k \in Markets
      PROVE  SumFunction(RestingOn(ws, k))
               = SumFunction(RestingOn(os, k)) + (IF o.market = k THEN EscrowFor(o) ELSE 0)
  <2> DEFINE d == IF o.market = k THEN EscrowFor(o) ELSE 0
  <2>1. RestingOn(os, k)[n + 1] = 0 /\ RestingOn(ws, k)[n + 1] = d
    BY <1>1, <1>2, <1>3 DEF RestingOn, n
  <2>2. ASSUME NEW i \in Places \ {n + 1} PROVE RestingOn(ws, k)[i] = RestingOn(os, k)[i]
    <3>1. i \in Nat
      BY <1>1 DEF Places
    <3>2. i \in 1..Len(ws) <=> i \in 1..n
      BY <1>1, <1>2, <3>1
    <3> QED
      BY <1>2, <3>2 DEF RestingOn, n
  <2>3. d \in Nat
    BY <1>4
  <2> HIDE DEF d
  <2>4. RestingOn(ws, k)[n + 1] = RestingOn(os, k)[n + 1] + d
    BY <2>1, <2>3
  <2>5. SumFunction(RestingOn(ws, k)) = SumFunction(RestingOn(os, k)) + d
    BY <1>3, <2>2, <2>3, <2>4, RestingTyped, PlacesAreFinite, TotalGainsAt
  <2> QED
    BY <2>5 DEF d
<1> QED
  BY <1>2, <1>3, <1>4, <1>5 DEF n, ws

(* A fill takes from one order what the venue spends.                      *)
LEMMA PartFilled ==
  ASSUME Maker!MakerAssumption, NEW os, OrdersFit(os), NEW i \in 1..Len(os),
         NEW n \in 1..os[i].quantity
  PROVE  LET ws == [os EXCEPT ![i].quantity = @ - n]
             left == Maker!EscrowOf(os[i].side, os[i].price, os[i].quantity - n) IN
         /\ OrdersFit(ws)
         /\ left \in Nat /\ left <= EscrowFor(os[i])
         /\ SumFunction(RestingOn(ws, os[i].market)) + EscrowFor(os[i])
              = SumFunction(RestingOn(os, os[i].market)) + left
         /\ \A k \in Markets \ {os[i].market} : RestingOn(ws, k) = RestingOn(os, k)
<1> DEFINE o == os[i]
           ws == [os EXCEPT ![i].quantity = @ - n]
           left == Maker!EscrowOf(o.side, o.price, o.quantity - n)
<1>1. o \in VaultOrder /\ o.quantity \in Nat /\ o.price \in 0..One /\ Len(os) \in Nat /\ i \in Places
  BY OrderFields
<1>2. PICK q \in Nat : q = o.quantity - n /\ q <= o.quantity
  <2> DEFINE t == o.quantity
  <2>1. t \in Nat /\ n \in 1..t
    BY <1>1
  <2> HIDE DEF t
  <2>2. t - n \in Nat /\ t - n <= t
    BY <2>1
  <2> QED
    BY <2>2 DEF t
<1>3. EscrowFor(o) \in Nat /\ left \in Nat /\ left <= EscrowFor(o)
  <2>1. Maker!EscrowOf(o.side, o.price, o.quantity) \in Nat
    BY <1>1, <1>2, EscrowMovesWithQuantity
  <2>2. Maker!EscrowOf(o.side, o.price, q) <= Maker!EscrowOf(o.side, o.price, o.quantity)
    BY <1>1, <1>2, EscrowMovesWithQuantity
  <2>3. Maker!EscrowOf(o.side, o.price, q) \in Nat
    BY <1>1, <1>2, EscrowMovesWithQuantity, q <= q
  <2> QED
    BY <1>2, <2>1, <2>2, <2>3 DEF EscrowFor
<1> DEFINE w == [o EXCEPT !.quantity = q]
<1>4. w \in VaultOrder /\ w.market = o.market /\ w.side = o.side /\ w.price = o.price /\ w.quantity = q
  <2> HIDE DEF o
  <2> QED
    BY <1>1 DEF VaultOrder
<1>5. os \in Seq(VaultOrder) /\ Len(os) <= 2 * MaxQuotes
  BY DEF OrdersFit
<1>6. ws = [os EXCEPT ![i] = w]
  BY <1>2
<1>7. EscrowFor(w) = left
  BY <1>2, <1>4 DEF EscrowFor
<1> HIDE DEF o, w, ws, left
<1>8. ws \in Seq(VaultOrder) /\ Len(ws) = Len(os) /\ ws[i] = w /\ \A j \in 1..Len(os) : j # i => ws[j] = os[j]
  BY <1>1, <1>4, <1>5, <1>6
<1>9. OrdersFit(ws)
  BY <1>5, <1>8 DEF OrdersFit
<1>10. SumFunction(RestingOn(ws, o.market)) + EscrowFor(o) = SumFunction(RestingOn(os, o.market)) + left
  <2>1. RestingOn(os, o.market)[i] = EscrowFor(o) /\ RestingOn(ws, o.market)[i] = left
    BY <1>1, <1>4, <1>7, <1>8 DEF RestingOn, o
  <2>2. \A j \in Places \ {i} : RestingOn(ws, o.market)[j] = RestingOn(os, o.market)[j]
    BY <1>8 DEF RestingOn
  <2>3. /\ RestingOn(os, o.market) \in [Places -> Nat]
        /\ RestingOn(ws, o.market) \in [Places -> Nat]
    BY <1>9, RestingTyped
  <2>4. SumFunction(RestingOn(ws, o.market)) + RestingOn(os, o.market)[i]
          = SumFunction(RestingOn(os, o.market)) + RestingOn(ws, o.market)[i]
    BY <1>1, <2>2, <2>3, PlacesAreFinite, TotalChangesAt
  <2> QED
    BY <2>1, <2>4
<1>11. ASSUME NEW k \in Markets \ {o.market} PROVE RestingOn(ws, k) = RestingOn(os, k)
  <2>1. ASSUME NEW j \in Places PROVE RestingOn(ws, k)[j] = RestingOn(os, k)[j]
    <3>1. CASE j = i
      BY <1>4, <1>8, <3>1 DEF RestingOn, o
    <3>2. CASE j # i
      BY <1>8, <3>2 DEF RestingOn
    <3> QED
      BY <3>1, <3>2
  <2> QED
    BY <2>1 DEF RestingOn
<1> QED
  BY <1>3, <1>9, <1>10, <1>11 DEF o, ws, left

-----------------------------------------------------------------------------
(* MarketMakerVault: its books.                                            *)

WindowBook == [escrowOut : Nat, escrowBack : Nat, merged : Nat, payout : Nat,
               quoted : BOOLEAN, settled : BOOLEAN]

IsOpen(b) == b.quoted /\ ~b.settled

MakerFits ==
  /\ LedgerFits
  /\ books \in [Markets -> WindowBook]
  /\ open \in Seq(Markets) /\ openAt \in [Markets -> Nat]
  /\ params \in MakerParams /\ OrdersFit(orders)
  /\ tokens \in [Markets -> [{"YES", "NO"} -> Nat]]
  /\ spent \in [Markets -> Nat] /\ drained \in [Markets -> Nat]
  /\ now \in Nat

\* The list of the open Windows and its index.
Lists(bs, op, at) ==
  /\ \A k \in 1..Len(op) : at[op[k]] = k /\ IsOpen(bs[op[k]])
  /\ \A m \in Markets : IsOpen(bs[m]) => at[m] \in 1..Len(op) /\ op[at[m]] = m

\* The book of one market: what rests on the venue, r, was spent and was drained
\* is what went out and has not come back.
Explains(b, r, s, d) == b.escrowOut - b.escrowBack = r + s + d

MakerBooked ==
  /\ \A m \in Markets :
       Explains(books[m], SumFunction(RestingOn(orders, m)), spent[m], drained[m])
  /\ wallet = liquid + SumFunction(drained)

MakerInv == MakerFits /\ Lists(books, open, openAt) /\ MakerBooked

LEMMA MakerInvSuffices ==
  ASSUME Maker!MakerAssumption, MakerInv PROVE Maker!BooksBalance
<1>1. ASSUME NEW m \in Markets
      PROVE  books[m].escrowOut - books[m].escrowBack
               = Maker!EscrowIn(Maker!On(m)) + spent[m] + drained[m]
  BY RestingIs DEF MakerInv, MakerFits, MakerBooked, Explains
<1>2. wallet = liquid + Maker!SumFunction(drained)
  BY SumsAreOne DEF MakerInv, MakerBooked
<1> QED
  BY <1>1, <1>2 DEF MakerInv, Lists, IsOpen, Maker!BooksBalance

(* What the books count as deployed.                                       *)
LEMMA DeployedIsNat ==
  ASSUME NEW bs \in [Markets -> WindowBook], NEW op \in Seq(Markets)
  PROVE  Maker!SumFunction([k \in 1..Len(op) |-> Maker!deployedOf(bs[op[k]])]) \in Nat
<1>1. ASSUME NEW b \in WindowBook PROVE Maker!deployedOf(b) \in Nat
  BY DEF Maker!deployedOf, Maker!Back, WindowBook
<1>2. Len(op) \in Nat /\ \A k \in 1..Len(op) : bs[op[k]] \in WindowBook
  OBVIOUS
<1>3. [k \in 1..Len(op) |-> Maker!deployedOf(bs[op[k]])] \in [1..Len(op) -> Nat]
  BY <1>1, <1>2
<1>4. IsFiniteSet(1..Len(op))
  BY <1>2, FS_Interval
<1> QED
  BY <1>3, <1>4, TotalIsNat, SumsAreOne

LEMMA IntervalsEnd == ASSUME NEW a \in Nat, NEW b \in Nat, 1..a = 1..b PROVE a = b
<1>1. (a # 0 => a \in 1..a) /\ (b # 0 => b \in 1..b)
  OBVIOUS
<1>2. (a # 0 => a \in 1..b) /\ (b # 0 => b \in 1..a)
  <2> DEFINE A == 1..a
             B == 1..b
  <2>1. A = B /\ (a # 0 => a \in A) /\ (b # 0 => b \in B)
    BY <1>1
  <2> HIDE DEF A, B
  <2>2. (a # 0 => a \in B) /\ (b # 0 => b \in A)
    BY <2>1
  <2> QED
    BY <2>2 DEF A, B
<1> QED
  BY <1>2

\* The list po and its index ta are op and at without m.
Closes(op, at, m, po, ta) ==
  /\ po = [k \in 1..(Len(op) - 1) |-> IF k = at[m] THEN op[Len(op)] ELSE op[k]]
  /\ ta = [at EXCEPT ![op[Len(op)]] = at[m], ![m] = 0]

SameBut(bs, cs, m) == \A k \in Markets \ {m} : cs[k] = bs[k]

(* A Window leaves the list, and the last one takes its place.             *)
LEMMA ListLoses ==
  ASSUME NEW bs, NEW cs, NEW op \in Seq(Markets), NEW at \in [Markets -> Nat],
         NEW m \in Markets, Lists(bs, op, at), IsOpen(bs[m]),
         ~IsOpen(cs[m]),
         NEW po, NEW ta, Closes(op, at, m, po, ta), SameBut(bs, cs, m)
  PROVE  po \in Seq(Markets) /\ ta \in [Markets -> Nat] /\ Lists(cs, po, ta)
<1> DEFINE n == Len(op)
           moved == op[n]
<1>1. n \in Nat /\ at[m] \in 1..n /\ op[at[m]] = m
  BY DEF Lists
<1>2. n \in 1..n /\ n - 1 \in Nat
  BY <1>1
<1>3. moved \in Markets /\ at[moved] = n /\ \A k \in 1..n : op[k] \in Markets
  BY <1>2 DEF Lists
<1>4. \A k \in 1..n : at[op[k]] = k /\ IsOpen(bs[op[k]])
  BY DEF Lists
<1>5. \A k \in Markets : IsOpen(bs[k]) => at[k] \in 1..n /\ op[at[k]] = k
  BY DEF Lists
<1>6. /\ po = [k \in 1..(n - 1) |-> IF k = at[m] THEN moved ELSE op[k]]
      /\ ta = [at EXCEPT ![moved] = at[m], ![m] = 0]
      /\ \A k \in Markets \ {m} : cs[k] = bs[k]
  BY DEF Closes, SameBut
<1> HIDE DEF n, moved
<1>7. /\ ta \in [Markets -> Nat] /\ ta[m] = 0
      /\ moved # m => ta[moved] = at[m]
  BY <1>1, <1>3, <1>6
<1>8. \A k \in Markets \ {m, moved} : ta[k] = at[k]
  BY <1>3, <1>6
<1>9. po \in Seq(Markets) /\ Len(po) = n - 1
  <2>1. \A k \in 1..(n - 1) : po[k] \in Markets
    BY <1>2, <1>3, <1>6
  <2>2. po \in [1..(n - 1) -> Markets]
    BY <1>6, <2>1
  <2>3. po \in Seq(Markets)
    <3>1. PICK z \in Nat : z = n - 1
      BY <1>2
    <3>2. po \in [1..z -> Markets]
      BY <2>2, <3>1
    <3> QED
      BY <3>2, SeqDef
  <2>4. DOMAIN po = 1..(n - 1)
    BY <1>6
  <2>5. Len(po) = n - 1
    <3>1. PICK z \in Nat : z = n - 1
      BY <1>2
    <3>2. po \in [1..z -> Markets]
      BY <2>2, <3>1
    <3>3. PICK y \in Nat : y = Len(po) /\ 1..y = 1..z
      BY <2>3, <2>4, <3>1, LenProperties
    <3>4. y = z
      BY <3>3, IntervalsEnd
    <3> QED
      BY ONLY <3>1, <3>3, <3>4
  <2> QED
    BY <2>3, <2>5
<1>10. ASSUME NEW k \in 1..(n - 1) PROVE ta[po[k]] = k /\ IsOpen(cs[po[k]])
  <2>0. k \in 1..n /\ k # n
    BY <1>2
  <2>1. CASE k = at[m]
    <3>1. po[k] = moved /\ moved # m
      BY <1>1, <1>3, <1>6, <2>0, <2>1
    <3>2. IsOpen(bs[moved])
      BY <1>2, <1>4 DEF moved
    <3> QED
      BY <1>1, <1>3, <1>6, <2>1, <3>1, <3>2
  <2>2. CASE k # at[m]
    <3>1. po[k] = op[k] /\ op[k] \in Markets
      BY <1>3, <1>6, <2>0, <2>2
    <3>2. op[k] # m /\ op[k] # moved
      BY <1>3, <1>4, <2>0, <2>2
    <3> QED
      BY <1>4, <1>6, <1>8, <2>0, <3>1, <3>2
  <2> QED
    BY <2>1, <2>2
<1>11. ASSUME NEW k \in Markets, IsOpen(cs[k]) PROVE ta[k] \in 1..(n - 1) /\ po[ta[k]] = k
  <2>1. k # m /\ IsOpen(bs[k])
    BY <1>6, <1>11
  <2>2. at[k] \in 1..n /\ op[at[k]] = k /\ at[k] # at[m]
    BY <1>1, <1>5, <2>1
  <2>3. CASE k = moved
    <3>1. ta[k] = at[m]
      BY <1>7, <2>1, <2>3
    <3>2. at[m] # n
      BY <1>3, <2>2, <2>3
    <3>3. at[m] \in 1..(n - 1)
      BY <1>1, <3>2
    <3>4. po[at[m]] = moved
      BY <1>6, <3>3
    <3> QED
      BY <2>3, <3>1, <3>3, <3>4
  <2>4. CASE k # moved
    <3>1. ta[k] = at[k] /\ at[k] # n
      BY <1>8, <2>1, <2>2, <2>4 DEF moved
    <3>2. at[k] \in 1..(n - 1)
      BY <1>1, <2>2, <3>1
    <3>3. po[at[k]] = op[at[k]]
      BY <1>6, <2>2, <3>2
    <3>4. ta[k] = at[k]
      BY <3>1
    <3> QED
      BY <2>2, <3>2, <3>3, <3>4
  <2> QED
    BY <2>3, <2>4
<1> QED
  BY <1>7, <1>9, <1>10, <1>11 DEF Lists

Opens(op, at, m, po, ta) == po = Append(op, m) /\ ta = [at EXCEPT ![m] = Len(op) + 1]

LEMMA ListGains ==
  ASSUME NEW bs, NEW cs, NEW op \in Seq(Markets), NEW at \in [Markets -> Nat],
         NEW m \in Markets, Lists(bs, op, at), ~IsOpen(bs[m]),
         IsOpen(cs[m]), SameBut(bs, cs, m), NEW po, NEW ta, Opens(op, at, m, po, ta)
  PROVE  po \in Seq(Markets) /\ ta \in [Markets -> Nat] /\ Lists(cs, po, ta)
<1> DEFINE n == Len(op)
<1>1. n \in Nat /\ \A k \in 1..n : op[k] \in Markets /\ at[op[k]] = k /\ IsOpen(bs[op[k]])
  BY DEF Lists
<1>2. \A k \in Markets : IsOpen(bs[k]) => at[k] \in 1..n /\ op[at[k]] = k
  BY DEF Lists
<1>3. po \in Seq(Markets) /\ Len(po) = n + 1 /\ po[n + 1] = m /\ \A k \in 1..n : po[k] = op[k]
  BY AppendProperties DEF Opens
<1>4. ta \in [Markets -> Nat] /\ ta[m] = n + 1 /\ \A k \in Markets \ {m} : ta[k] = at[k]
  BY <1>1 DEF Opens
<1> HIDE DEF n
<1> USE DEF SameBut
<1>5. ASSUME NEW k \in 1..(n + 1) PROVE ta[po[k]] = k /\ IsOpen(cs[po[k]])
  <2>1. CASE k = n + 1
    BY <1>3, <1>4, <2>1
  <2>2. CASE k # n + 1
    <3>1. k \in 1..n
      BY <1>1, <2>2
    <3>2. PICK x \in Markets : x = op[k] /\ x = po[k] /\ at[x] = k /\ IsOpen(bs[x]) /\ x # m
      BY <1>1, <1>3, <3>1
    <3>3. ta[x] = k /\ IsOpen(cs[x])
      BY <1>4, <3>2
    <3> QED
      BY <3>2, <3>3
  <2> QED
    BY <2>1, <2>2
<1>6. ASSUME NEW k \in Markets, IsOpen(cs[k]) PROVE ta[k] \in 1..(n + 1) /\ po[ta[k]] = k
  <2>1. CASE k = m
    BY <1>1, <1>3, <1>4, <2>1
  <2>2. CASE k # m
    <3>1. at[k] \in 1..n /\ op[at[k]] = k
      BY <1>2, <1>6, <2>2
    <3> QED
      BY <1>1, <1>3, <1>4, <2>2, <3>1
  <2> QED
    BY <2>1, <2>2
<1> QED
  BY <1>3, <1>4, <1>5, <1>6 DEF Lists

LEMMA ListStands ==
  ASSUME NEW bs, NEW cs, NEW op \in Seq(Markets), NEW at, Lists(bs, op, at),
         \A k \in Markets : IsOpen(cs[k]) <=> IsOpen(bs[k])
  PROVE  Lists(cs, op, at)
BY DEF Lists

\* What the vault promises of a step: its books are sound after it, the house of
\* shares sees an entry, an exit or a play, and nobody left ahead of a loss.
MakerSound == MakerInv' /\ AnyHouse!Next /\ Maker!LossesAreBooked

MakerActs == Maker!MakerAssumption /\ MakerInv /\ house = "maker" /\ house' = "maker"

LEMMA MarketsAreFinite == ASSUME Maker!MakerAssumption PROVE IsFiniteSet(Markets)
BY DEF Maker!MakerAssumption, Maker!IsFiniteSet, IsFiniteSet

LEMMA DeployedFits ==
  /\ MakerFits => Maker!totalDeployed \in Nat
  /\ MakerFits' => Maker!totalDeployed' \in Nat
BY DeployedIsNat DEF MakerFits, Maker!totalDeployed

LEMMA MakerPlays ==
  ASSUME MakerActs, MakerInv', UNCHANGED shareVars PROVE MakerSound
<1>1. /\ liquid' \in Nat /\ supplyShares' \in Nat /\ supplyShares' = supplyShares
      /\ sharesOf' = sharesOf
  BY DEF MakerInv, MakerFits, LedgerFits, shareVars
<1>2. Maker!totalDeployed' \in Nat
  BY DeployedFits DEF MakerInv
<1>3. AnyHouse!Next
  BY <1>1, <1>2 DEF MakerActs, AnyHouse!Next, AnyHouse!Play
<1>4. Maker!LossesAreBooked
  BY <1>1 DEF Maker!LossesAreBooked
<1> QED
  BY <1>3, <1>4 DEF MakerSound

(* A step that concerns one market.                                        *)
LEMMA MarketMoves ==
  ASSUME MakerActs, NEW m \in Markets, NEW b \in WindowBook,
         books' = [books EXCEPT ![m] = b],
         LedgerFits', UNCHANGED <<params, now>>, OrdersFit(orders'),
         tokens' \in [Markets -> [{"YES", "NO"} -> Nat]],
         spent' \in [Markets -> Nat], drained' \in [Markets -> Nat],
         open' \in Seq(Markets), openAt' \in [Markets -> Nat], Lists(books', open', openAt'),
         Explains(b, SumFunction(RestingOn(orders', m)), spent'[m], drained'[m]),
         \A k \in Markets \ {m} :
           /\ SumFunction(RestingOn(orders', k)) = SumFunction(RestingOn(orders, k))
           /\ spent'[k] = spent[k] /\ drained'[k] = drained[k],
         wallet' = liquid' + SumFunction(drained')
  PROVE  MakerInv'
<1>1. books \in [Markets -> WindowBook]
  BY DEF MakerActs, MakerInv, MakerFits
<1>2. /\ books' \in [Markets -> WindowBook] /\ books'[m] = b
      /\ \A k \in Markets \ {m} : books'[k] = books[k]
  BY <1>1
<1>3. MakerFits'
  BY <1>2 DEF MakerActs, MakerInv, MakerFits
<1>4. ASSUME NEW k \in Markets
      PROVE  Explains(books'[k], SumFunction(RestingOn(orders', k)), spent'[k], drained'[k])
  <2>1. CASE k = m
    BY <1>2, <2>1
  <2>2. CASE k # m
    BY <1>2, <2>2 DEF MakerActs, MakerInv, MakerBooked
  <2> QED
    BY <2>1, <2>2
<1>5. MakerBooked'
  BY <1>4 DEF MakerBooked
<1> QED
  BY <1>3, <1>5 DEF MakerInv

(* A step that concerns no market.                                         *)
LEMMA MarketsStand ==
  ASSUME MakerActs, UNCHANGED Maker!bookVars, UNCHANGED Maker!venueVars,
         LedgerFits', params' \in MakerParams, now' \in Nat,
         wallet' - liquid' = wallet - liquid, wallet' \in Int
  PROVE  MakerInv'
<1>1. UNCHANGED <<books, open, openAt, orders, tokens, spent, drained>>
  BY DEF Maker!bookVars, Maker!venueVars
<1>2. MakerFits'
  BY <1>1 DEF MakerActs, MakerInv, MakerFits
<1>3. Lists(books, open, openAt)'
  BY <1>1 DEF MakerActs, MakerInv, Lists
<1>4. wallet' = liquid' + SumFunction(drained')
  <2>1. PICK s \in Nat : s = SumFunction(drained)
    BY TotalIsNat, MarketsAreFinite DEF MakerActs, MakerInv, MakerFits
  <2>2. liquid' \in Nat /\ liquid \in Nat /\ wallet = liquid + s
    BY <2>1 DEF LedgerFits, MakerActs, MakerInv, MakerFits, MakerBooked
  <2>3. wallet' = liquid' + s
    <3>1. PICK l \in Nat, l2 \in Nat : l = liquid /\ l2 = liquid'
      BY <2>2
    <3>2. PICK w2 \in Int : w2 = wallet'
      OBVIOUS
    <3>3. w2 - l2 = s
      <4>1. wallet - l = s
        BY <2>2, <3>1
      <4> QED
        BY <3>1, <3>2, <4>1
    <3>4. w2 = l2 + s
      BY <3>3
    <3> QED
      BY <3>1, <3>2, <3>4
  <2> QED
    BY <1>1, <2>1, <2>3
<1>5. MakerBooked'
  BY <1>1, <1>4 DEF MakerBooked, MakerActs, MakerInv
<1> QED
  BY <1>2, <1>3, <1>5 DEF MakerInv

LEMMA MakerWallet ==
  ASSUME MakerActs
  PROVE  wallet \in Nat /\ liquid \in Nat /\ LedgerFits /\ SumFunction(drained) \in Nat
<1>1. SumFunction(drained) \in Nat
  BY TotalIsNat, MarketsAreFinite DEF MakerActs, MakerInv, MakerFits
<1> QED
  BY <1>1 DEF LedgerFits, MakerActs, MakerInv, MakerFits, MakerBooked

LEMMA MakerSupplySound ==
  ASSUME MakerActs, NEW s \in Suppliers, NEW a \in MakerSupplies, Maker!Supply(s, a),
         Maker!ShareAssumption
  PROVE  MakerSound
<1>0. LedgerFits /\ wallet \in Nat /\ liquid \in Nat
  BY MakerWallet
<1>1. PICK d \in Nat : d = Maker!totalDeployed
  BY DeployedFits DEF MakerActs, MakerInv
<1>2. PICK v \in Nat : v = liquid + d /\ v = Maker!totalValue
  BY <1>0, <1>1 DEF Maker!totalValue
<1>3. a \in Nat \ {0} /\ Buy(s, a, v) /\ UNCHANGED Maker!bookVars /\ UNCHANGED Maker!venueVars
      /\ UNCHANGED <<params, now>>
  BY <1>2 DEF Maker!Supply, Maker!Buy, Buy, Maker!SharesFor, SharesFor, Maker!clockVars,
     Maker!ShareAssumption
<1>4. PICK n \in Nat \ {0} :
        /\ Bought(s, a, n)
        /\ IF supplyShares = 0 \/ v = 0 THEN n = a ELSE n * v <= a * supplyShares
  BY <1>0, <1>3, BuyIsFair
<1>5. LedgerFits'
  BY <1>0, <1>3, BuyIsFair
<1>6. wallet' - liquid' = wallet - liquid /\ wallet' \in Int
  BY <1>0, <1>3, <1>4 DEF Bought
<1>7. MakerInv'
  <2>1. params' \in MakerParams /\ now' \in Nat
    BY <1>3 DEF MakerActs, MakerInv, MakerFits
  <2> QED
    BY <1>3, <1>5, <1>6, <2>1, MarketsStand
<1>8. Maker!totalDeployed' = d
  BY <1>1, <1>3 DEF Maker!totalDeployed, Maker!bookVars
<1>9. liquid' - liquid = a /\ supplyShares' - supplyShares = n
      /\ liquid' \in Nat /\ supplyShares' \in Nat /\ supplyShares' > supplyShares
  BY <1>0, <1>3, <1>4 DEF Bought, LedgerFits
<1>10. AnyHouse!Enter(s, liquid' - liquid, supplyShares' - supplyShares)
  <2>1. AnyHouse!Value = v
    BY <1>1, <1>2 DEF MakerActs, AnyHouse!Value
  <2>2. /\ liquid' = liquid + a /\ supplyShares' = supplyShares + n
        /\ sharesOf' = [sharesOf EXCEPT ![s] = @ + n]
    BY <1>4 DEF Bought
  <2>3. a > 0 /\ n > 0
    BY <1>3
  <2> QED
    BY <1>1, <1>4, <1>8, <1>9, <2>1, <2>2, <2>3 DEF MakerActs, AnyHouse!Enter
<1>11. AnyHouse!Next
  BY <1>8, <1>9, <1>10 DEF MakerActs, AnyHouse!Next
<1>12. Maker!LossesAreBooked
  BY <1>0, <1>9 DEF Maker!LossesAreBooked, LedgerFits
<1> QED
  BY <1>7, <1>11, <1>12 DEF MakerSound

(* A supplier leaves only while no open Window is over.                    *)
LEMMA MakerWithdrawSound ==
  ASSUME MakerActs, NEW s \in Suppliers, NEW n \in Redemptions, Maker!Withdraw(s, n),
         Maker!ShareAssumption
  PROVE  MakerSound
<1>0. LedgerFits /\ wallet \in Nat /\ liquid \in Nat
  BY MakerWallet
<1>1. PICK d \in Nat : d = Maker!totalDeployed
  BY DeployedFits DEF MakerActs, MakerInv
<1>2. PICK v \in Nat : v = liquid + d /\ v = Maker!totalValue
  BY <1>0, <1>1 DEF Maker!totalValue
<1>3. n \in Nat \ {0} /\ Redeem(s, n, v) /\ UNCHANGED Maker!bookVars /\ UNCHANGED Maker!venueVars
      /\ UNCHANGED <<params, now>>
  BY <1>2 DEF Maker!Withdraw, Maker!Redeem, Redeem, Maker!WorthOf, WorthOf, Maker!clockVars,
     Maker!ShareAssumption
<1>4. PICK w \in 0..liquid : Sold(s, w, n) /\ w * supplyShares <= n * v
  BY <1>0, <1>3, RedeemIsFair
<1>5. LedgerFits' /\ n \in 1..sharesOf[s] /\ n <= supplyShares
  BY <1>0, <1>3, RedeemIsFair
<1>6. wallet' - liquid' = wallet - liquid /\ wallet' \in Int
  BY <1>0, <1>4 DEF Sold
<1>7. MakerInv'
  <2>1. params' \in MakerParams /\ now' \in Nat
    BY <1>3 DEF MakerActs, MakerInv, MakerFits
  <2> QED
    BY <1>3, <1>5, <1>6, <2>1, MarketsStand
<1>8. Maker!totalDeployed' = d
  BY <1>1, <1>3 DEF Maker!totalDeployed, Maker!bookVars
<1>9. liquid - liquid' = w /\ supplyShares - supplyShares' = n
      /\ liquid' \in Nat /\ supplyShares' \in Nat
  BY <1>0, <1>3, <1>4, <1>5 DEF Sold, LedgerFits
<1>10. AnyHouse!Leave(s, liquid - liquid', supplyShares - supplyShares')
  BY <1>1, <1>2, <1>4, <1>5, <1>8, <1>9 DEF MakerActs, Sold, AnyHouse!Leave, AnyHouse!Value
<1>11. AnyHouse!Next
  BY <1>8, <1>9, <1>10 DEF MakerActs, AnyHouse!Next
<1>12. Maker!LossesAreBooked
  <2>1. ASSUME NEW m \in Markets, books[m].quoted, Expiry[m] <= now PROVE books[m].settled
    <3>1. SUFFICES ASSUME ~books[m].settled PROVE FALSE
      OBVIOUS
    <3>2. openAt[m] \in 1..Len(open) /\ open[openAt[m]] = m
      BY <2>1, <3>1 DEF MakerActs, MakerInv, Lists, IsOpen
    <3>3. openAt[m] \in Maker!unsettledExpired
      BY <2>1, <3>2 DEF Maker!unsettledExpired
    <3> QED
      BY <3>3 DEF Maker!Withdraw
  <2> QED
    BY <2>1 DEF Maker!LossesAreBooked
<1> QED
  BY <1>7, <1>11, <1>12 DEF MakerSound

(* Orders taken off the venue give back what they held.                    *)
LEMMA Pulled ==
  ASSUME MakerActs, NEW m \in Markets, NEW ids \in SUBSET Maker!On(m),
         NEW ws, ws = Maker!Without(ids)
  PROVE  /\ OrdersFit(ws) /\ Len(ws) = Len(orders) /\ Maker!EscrowIn(ids) \in Nat
         /\ SumFunction(RestingOn(orders, m)) = SumFunction(RestingOn(ws, m)) + Maker!EscrowIn(ids)
         /\ \A k \in Markets \ {m} : RestingOn(ws, k) = RestingOn(orders, k)
<1>1. OrdersFit(orders) /\ Maker!MakerAssumption
  BY DEF MakerActs, MakerInv, MakerFits
<1>2. ids \in SUBSET (1..Len(orders)) /\ \A i \in ids : orders[i].market = m
  BY DEF Maker!On
<1>3. Maker!EscrowIn(ids) = SumFunction(HeldIn(orders, ids))
  BY HeldIs
<1>4. SumFunction(HeldIn(orders, ids)) \in Nat
  BY <1>1, <1>2, HeldTyped
<1>5. ws = [i \in 1..Len(orders) |->
             IF i \in ids THEN [orders[i] EXCEPT !.quantity = 0] ELSE orders[i]]
  BY DEF Maker!Without
<1> QED
  BY <1>1, <1>2, <1>3, <1>4, <1>5, TakenOff

LEMMA ListedAreOn == ASSUME NEW m PROVE /\ Maker!Listed(m) \in SUBSET Maker!On(m)
                                        /\ Maker!ExpiredOn(m) \in SUBSET Maker!On(m)
BY DEF Maker!Listed, Maker!ExpiredOn

\* What the books of market m say, in numbers.
Sums(m, r, s, d) ==
  /\ r = SumFunction(RestingOn(orders, m)) /\ s = spent[m] /\ d = drained[m]
  /\ Explains(books[m], r, s, d)

LEMMA MarketSums ==
  ASSUME MakerActs, NEW m \in Markets
  PROVE  /\ books[m] \in WindowBook
         /\ \E r \in Nat, s \in Nat, d \in Nat : Sums(m, r, s, d)
<1>1. SumFunction(RestingOn(orders, m)) \in Nat
  BY RestingTyped DEF MakerActs, MakerInv, MakerFits
<1>2. spent[m] \in Nat /\ drained[m] \in Nat /\ books[m] \in WindowBook
  BY DEF MakerActs, MakerInv, MakerFits
<1> QED
  BY <1>1, <1>2 DEF Sums, MakerActs, MakerInv, MakerBooked

(* Money the vault gets back, booked.                                      *)
LEMMA LedgerGains ==
  ASSUME MakerActs, NEW x \in Nat, Maker!Move(liquid + x, wallet + x),
         UNCHANGED drained
  PROVE  LedgerFits' /\ UNCHANGED shareVars /\ wallet' = liquid' + SumFunction(drained')
<1>1. /\ liquid' = liquid + x /\ wallet' = wallet + x /\ UNCHANGED shareVars
      /\ UNCHANGED <<paused, intake>>
  BY DEF Maker!Move, Maker!shareVars, shareVars
<1>2. LedgerFits /\ wallet \in Nat /\ liquid \in Nat
  BY MakerWallet
<1>3. LedgerFits'
  BY <1>1, <1>2 DEF LedgerFits, shareVars
<1>4. PICK s \in Nat : s = SumFunction(drained)
  BY MakerWallet
<1>5. wallet = liquid + s
  BY <1>4 DEF MakerActs, MakerInv, MakerBooked
<1>6. wallet + x = (liquid + x) + s
  BY <1>2, <1>4, <1>5
<1>7. wallet' = liquid' + s
  BY <1>1, <1>6
<1> QED
  BY <1>1, <1>3, <1>4, <1>7

LEMMA PullSound ==
  ASSUME MakerActs, NEW m \in Markets, Maker!Pull(m) PROVE MakerSound
<1> DEFINE ids == Maker!Listed(m)
           x == Maker!EscrowIn(ids)
           b == [books[m] EXCEPT !.escrowBack = @ + x]
           ws == Maker!Without(ids)
<1>1. /\ Maker!Move(liquid + x, wallet + x) /\ orders' = ws
      /\ books' = [books EXCEPT ![m].escrowBack = @ + x]
      /\ UNCHANGED <<open, openAt, params, tokens, spent, drained, now>>
  BY DEF Maker!Pull, Maker!clockVars
<1>2. /\ OrdersFit(ws) /\ x \in Nat
      /\ SumFunction(RestingOn(orders, m)) = SumFunction(RestingOn(ws, m)) + x
      /\ \A k \in Markets \ {m} : RestingOn(ws, k) = RestingOn(orders, k)
  BY Pulled, ListedAreOn
<1>3. PICK r \in Nat, s \in Nat, d \in Nat : Sums(m, r, s, d)
  BY MarketSums
<1>4. PICK q \in Nat : q = SumFunction(RestingOn(ws, m)) /\ r = q + x
  BY <1>2, <1>3, RestingTyped DEF MakerActs, Sums
<1>5. books' = [books EXCEPT ![m] = b]
  BY <1>1
<1> HIDE DEF ids, x, ws
<1>6. PICK o \in WindowBook : o = books[m]
  BY MarketSums
<1>7. /\ b \in WindowBook
      /\ IsOpen(b) <=> IsOpen(o)
      /\ Explains(b, q, s, d)
  BY <1>2, <1>3, <1>4, <1>6 DEF WindowBook, IsOpen, Explains, Sums
<1> HIDE DEF b
<1>8. Lists(books', open', openAt')
  <2>1. books \in [Markets -> WindowBook] /\ open \in Seq(Markets)
    BY DEF MakerActs, MakerInv, MakerFits
  <2>2. books'[m] = b /\ \A k \in Markets \ {m} : books'[k] = books[k]
    BY <1>5, <2>1
  <2>3. \A k \in Markets : IsOpen(books'[k]) <=> IsOpen(books[k])
    BY <1>6, <1>7, <2>2
  <2> QED
    BY <1>1, <2>1, <2>3, ListStands DEF MakerActs, MakerInv
<1>9. LedgerFits' /\ UNCHANGED shareVars /\ wallet' = liquid' + SumFunction(drained')
  BY <1>1, <1>2, LedgerGains
<1>10. MakerInv'
  <2>1. Explains(b, SumFunction(RestingOn(orders', m)), spent'[m], drained'[m])
    <3>1. spent'[m] = s /\ drained'[m] = d
      BY <1>1, <1>3 DEF Sums
    <3>2. SumFunction(RestingOn(orders', m)) = q
      BY <1>1, <1>4
    <3> QED
      BY <1>7, <3>1, <3>2
  <2>2. \A k \in Markets \ {m} : SumFunction(RestingOn(orders', k)) = SumFunction(RestingOn(orders, k))
    BY <1>1, <1>2
  <2>3. /\ tokens' \in [Markets -> [{"YES", "NO"} -> Nat]]
        /\ spent' \in [Markets -> Nat] /\ drained' \in [Markets -> Nat]
        /\ open' \in Seq(Markets) /\ openAt' \in [Markets -> Nat]
    BY <1>1 DEF MakerActs, MakerInv, MakerFits
  <2> QED
    <3>1. OrdersFit(orders') /\ UNCHANGED <<params, now>>
      BY <1>1, <1>2
    <3>2. \A k \in Markets \ {m} :
            /\ SumFunction(RestingOn(orders', k)) = SumFunction(RestingOn(orders, k))
            /\ spent'[k] = spent[k] /\ drained'[k] = drained[k]
      BY <1>1, <2>2
    <3> QED
      BY <1>5, <1>7, <1>8, <1>9, <2>1, <2>3, <3>1, <3>2, MarketMoves
<1> QED
  BY <1>9, <1>10, MakerPlays

LEMMA ListsKeep ==
  ASSUME MakerActs, NEW m \in Markets, NEW b, books' = [books EXCEPT ![m] = b],
         IsOpen(b) <=> IsOpen(books[m]), UNCHANGED <<open, openAt>>
  PROVE  /\ Lists(books', open', openAt')
         /\ open' \in Seq(Markets) /\ openAt' \in [Markets -> Nat]
<1>1. books \in [Markets -> WindowBook] /\ open \in Seq(Markets) /\ openAt \in [Markets -> Nat]
  BY DEF MakerActs, MakerInv, MakerFits
<1>2. books'[m] = b /\ \A k \in Markets \ {m} : books'[k] = books[k]
  BY <1>1
<1>3. \A k \in Markets : IsOpen(books'[k]) <=> IsOpen(books[k])
  BY <1>2
<1> QED
  BY <1>1, <1>3, ListStands DEF MakerActs, MakerInv

LEMMA MergeSound ==
  ASSUME MakerActs, NEW m \in Markets, Maker!Merge(m) PROVE MakerSound
<1> DEFINE x == IF tokens[m]["YES"] < tokens[m]["NO"] THEN tokens[m]["YES"] ELSE tokens[m]["NO"]
           b == [books[m] EXCEPT !.merged = @ + x]
<1>1. /\ Maker!Move(liquid + x, wallet + x)
      /\ books' = [books EXCEPT ![m].merged = @ + x]
      /\ tokens' = [tokens EXCEPT ![m] = [s \in {"YES", "NO"} |-> @[s] - x]]
      /\ UNCHANGED <<open, openAt, params, orders, spent, drained, now>>
  BY DEF Maker!Merge, Maker!clockVars, Maker!Sides
<1>2. PICK y \in Nat, n \in Nat : y = tokens[m]["YES"] /\ n = tokens[m]["NO"]
  BY DEF MakerActs, MakerInv, MakerFits
<1>3. x \in Nat /\ x <= y /\ x <= n
  BY <1>2
<1>4. books' = [books EXCEPT ![m] = b]
  BY <1>1
<1> HIDE DEF x
<1>5. tokens' \in [Markets -> [{"YES", "NO"} -> Nat]]
  <2>1. tokens \in [Markets -> [{"YES", "NO"} -> Nat]]
    BY DEF MakerActs, MakerInv, MakerFits
  <2>2. [s \in {"YES", "NO"} |-> tokens[m][s] - x] \in [{"YES", "NO"} -> Nat]
    BY <1>2, <1>3
  <2> QED
    BY <1>1, <2>1, <2>2
<1>6. PICK r \in Nat, s \in Nat, d \in Nat : Sums(m, r, s, d)
  BY MarketSums
<1>7. PICK o \in WindowBook : o = books[m]
  BY MarketSums
<1>8. /\ b \in WindowBook
      /\ IsOpen(b) <=> IsOpen(o)
      /\ Explains(b, r, s, d)
  BY <1>3, <1>6, <1>7 DEF WindowBook, IsOpen, Explains, Sums
<1> HIDE DEF b
<1>9. /\ Lists(books', open', openAt')
      /\ open' \in Seq(Markets) /\ openAt' \in [Markets -> Nat]
  BY <1>1, <1>4, <1>7, <1>8, ListsKeep
<1>10. LedgerFits' /\ UNCHANGED shareVars /\ wallet' = liquid' + SumFunction(drained')
  BY <1>1, <1>3, LedgerGains
<1>11. MakerInv'
  <2>1. Explains(b, SumFunction(RestingOn(orders', m)), spent'[m], drained'[m])
    BY <1>1, <1>6, <1>8 DEF Sums
  <2>2. \A k \in Markets \ {m} :
          /\ SumFunction(RestingOn(orders', k)) = SumFunction(RestingOn(orders, k))
          /\ spent'[k] = spent[k] /\ drained'[k] = drained[k]
    BY <1>1
  <2>3. /\ OrdersFit(orders') /\ UNCHANGED <<params, now>>
        /\ spent' \in [Markets -> Nat] /\ drained' \in [Markets -> Nat]
    BY <1>1 DEF MakerActs, MakerInv, MakerFits
  <2> QED
    BY <1>4, <1>5, <1>8, <1>9, <1>10, <2>1, <2>2, <2>3, MarketMoves
<1> QED
  BY <1>10, <1>11, MakerPlays

(* The book closes on what the venue lists and what the tokens pay.        *)
LEMMA SettleVaultSound ==
  ASSUME MakerActs, NEW m \in Markets, Maker!Settle(m) PROVE MakerSound
<1> DEFINE ids == Maker!Listed(m)
           x == Maker!EscrowIn(ids)
           p == Maker!Payout(m)
           b == [books[m] EXCEPT !.escrowBack = @ + x, !.payout = @ + p, !.settled = TRUE]
           ws == Maker!Without(ids)
<1>1. /\ Maker!Move(liquid + x + p, wallet + x + p) /\ orders' = ws
      /\ books' = [books EXCEPT ![m].escrowBack = @ + x, ![m].payout = @ + p, ![m].settled = TRUE]
      /\ tokens' = [tokens EXCEPT ![m] = [s \in {"YES", "NO"} |-> 0]]
      /\ Maker!RemoveOpen(m)
      /\ UNCHANGED <<params, spent, drained, now>>
      /\ books[m].quoted /\ ~books[m].settled
  BY DEF Maker!Settle, Maker!clockVars, Maker!Sides
<1>2. /\ OrdersFit(ws) /\ x \in Nat
      /\ SumFunction(RestingOn(orders, m)) = SumFunction(RestingOn(ws, m)) + x
      /\ \A k \in Markets \ {m} : RestingOn(ws, k) = RestingOn(orders, k)
  BY Pulled, ListedAreOn
<1>3. PICK r \in Nat, s \in Nat, d \in Nat : Sums(m, r, s, d)
  BY MarketSums
<1>4. PICK q \in Nat : q = SumFunction(RestingOn(ws, m)) /\ r = q + x
  BY <1>2, <1>3, RestingTyped DEF MakerActs, Sums
<1>5. p \in Nat
  <2>1. PICK y \in Nat, n \in Nat : y = tokens[m]["YES"] /\ n = tokens[m]["NO"]
    BY DEF MakerActs, MakerInv, MakerFits
  <2>2. y \div 2 \in Nat /\ n \div 2 \in Nat
    BY DivisionIsNat
  <2>3. status[m] \in {"YES", "NO", "VOID"}
    BY DEF Maker!Settle, Maker!Sides
  <2> QED
    BY <2>1, <2>2, <2>3 DEF Maker!Payout
<1>6. PICK o \in WindowBook : o = books[m]
  BY MarketSums
<1>7. books' = [books EXCEPT ![m] = b]
  <2>1. books \in [Markets -> WindowBook]
    BY DEF MakerActs, MakerInv, MakerFits
  <2> HIDE DEF x, p
  <2> QED
    BY <1>1, <2>1
<1> HIDE DEF ids, x, p, ws
<1>8. /\ b \in WindowBook /\ ~IsOpen(b) /\ IsOpen(o) /\ Explains(b, q, s, d)
  <2>1. b = [o EXCEPT !.escrowBack = @ + x, !.payout = @ + p, !.settled = TRUE]
    BY <1>6
  <2> HIDE DEF b
  <2>2. /\ b \in WindowBook /\ ~IsOpen(b)
        /\ b.escrowOut = o.escrowOut /\ b.escrowBack = o.escrowBack + x
    <3>1. PICK u \in Nat, v \in Nat : u = o.escrowBack + x /\ v = o.payout + p
      BY <1>2, <1>5 DEF WindowBook
    <3>2. b = [o EXCEPT !.escrowBack = u, !.payout = v, !.settled = TRUE]
      BY <2>1, <3>1
    <3>3. b \in WindowBook
      BY <3>2 DEF WindowBook
    <3>4. b.settled = TRUE /\ b.escrowBack = u /\ b.escrowOut = o.escrowOut
      BY <3>2 DEF WindowBook
    <3> QED
      BY <3>1, <3>3, <3>4 DEF IsOpen
  <2>3. IsOpen(o)
    BY <1>1, <1>6 DEF IsOpen
  <2>4. PICK u \in Nat, v \in Nat : u = o.escrowOut /\ v = o.escrowBack
    BY DEF WindowBook
  <2>5. u - v = r + s + d
    BY <1>3, <1>6, <2>4 DEF Sums, Explains
  <2>6. u - (v + x) = q + s + d
    BY ONLY <1>2, <1>4, <2>5, u \in Nat, v \in Nat, r \in Nat, s \in Nat, d \in Nat, q \in Nat
  <2> QED
    BY <2>2, <2>3, <2>4, <2>6 DEF Explains
<1> HIDE DEF b
<1>9. /\ Lists(books', open', openAt')
      /\ open' \in Seq(Markets) /\ openAt' \in [Markets -> Nat]
  <2>1. /\ books \in [Markets -> WindowBook] /\ open \in Seq(Markets)
        /\ openAt \in [Markets -> Nat] /\ Lists(books, open, openAt)
    BY DEF MakerActs, MakerInv, MakerFits
  <2>2. books'[m] = b /\ \A k \in Markets \ {m} : books'[k] = books[k]
    BY <1>7, <2>1
  <2>3. /\ open' = [k \in 1..(Len(open) - 1) |->
                     IF k = openAt[m] THEN open[Len(open)] ELSE open[k]]
        /\ openAt' = [openAt EXCEPT ![open[Len(open)]] = openAt[m], ![m] = 0]
    BY <1>1 DEF Maker!RemoveOpen
  <2>4. IsOpen(books[m]) /\ ~IsOpen(books'[m])
    BY <1>6, <1>8, <2>2
  <2>5. PICK bs \in [Markets -> WindowBook], op \in Seq(Markets), at \in [Markets -> Nat] :
          bs = books /\ op = open /\ at = openAt
    BY <2>1
  <2>6. PICK cs, po, ta : cs = books' /\ po = open' /\ ta = openAt'
    OBVIOUS
  <2>7. /\ Lists(bs, op, at) /\ IsOpen(bs[m]) /\ ~IsOpen(cs[m])
        /\ SameBut(bs, cs, m) /\ Closes(op, at, m, po, ta)
    BY <2>1, <2>2, <2>3, <2>4, <2>5, <2>6 DEF SameBut, Closes
  <2>8. po \in Seq(Markets) /\ ta \in [Markets -> Nat] /\ Lists(cs, po, ta)
    BY <2>7, ListLoses
  <2> QED
    BY <2>6, <2>8
<1>10. LedgerFits' /\ UNCHANGED shareVars /\ wallet' = liquid' + SumFunction(drained')
  <2>1. PICK z \in Nat : z = x + p
    BY <1>2, <1>5
  <2>2. liquid + x + p = liquid + z /\ wallet + x + p = wallet + z
    BY <1>2, <1>5, <2>1, MakerWallet
  <2>3. Maker!Move(liquid + z, wallet + z)
    BY <1>1, <2>2
  <2> QED
    BY <1>1, <2>3, LedgerGains
<1>11. MakerInv'
  <2>1. Explains(b, SumFunction(RestingOn(orders', m)), spent'[m], drained'[m])
    <3>1. spent'[m] = s /\ drained'[m] = d
      BY <1>1, <1>3 DEF Sums
    <3>2. SumFunction(RestingOn(orders', m)) = q
      BY <1>1, <1>4
    <3> QED
      BY <1>8, <3>1, <3>2
  <2>2. \A k \in Markets \ {m} :
          /\ SumFunction(RestingOn(orders', k)) = SumFunction(RestingOn(orders, k))
          /\ spent'[k] = spent[k] /\ drained'[k] = drained[k]
    BY <1>1, <1>2
  <2>3. /\ OrdersFit(orders') /\ UNCHANGED <<params, now>>
        /\ spent' \in [Markets -> Nat] /\ drained' \in [Markets -> Nat]
        /\ tokens' \in [Markets -> [{"YES", "NO"} -> Nat]]
    BY <1>1, <1>2 DEF MakerActs, MakerInv, MakerFits
  <2> QED
    BY <1>7, <1>8, <1>9, <1>10, <2>1, <2>2, <2>3, MarketMoves
<1> QED
  BY <1>10, <1>11, MakerPlays

(* A taker takes what rests: the venue spends the escrow on tokens.        *)
LEMMA FillSound ==
  ASSUME MakerActs, NEW i \in 1..Len(orders), NEW n \in 1..orders[i].quantity,
         Maker!Fill(i, n)
  PROVE  MakerSound
<1> DEFINE m == orders[i].market
           side == orders[i].side
           had == EscrowFor(orders[i])
           left == Maker!EscrowOf(orders[i].side, orders[i].price, orders[i].quantity - n)
           ws == [orders EXCEPT ![i].quantity = @ - n]
<1>0. OrdersFit(orders) /\ Maker!MakerAssumption
  BY DEF MakerActs, MakerInv, MakerFits
<1>1. /\ orders' = ws
      /\ tokens' = [tokens EXCEPT ![m][side] = @ + n]
      /\ spent' = [spent EXCEPT ![m] = @ + had - left]
      /\ UNCHANGED Maker!ledgerVars /\ UNCHANGED <<books, open, openAt, params, drained, now>>
  BY DEF Maker!Fill, Maker!clockVars, Maker!bookVars, EscrowFor
<1>2. m \in Markets /\ side \in {"YES", "NO"} /\ orders[i].quantity \in Nat /\ n \in Nat
  BY <1>0, OrderFields
<1>3. /\ OrdersFit(ws)
      /\ left \in Nat /\ left <= had
      /\ SumFunction(RestingOn(ws, m)) + had = SumFunction(RestingOn(orders, m)) + left
      /\ \A k \in Markets \ {m} : RestingOn(ws, k) = RestingOn(orders, k)
  BY <1>0, PartFilled
<1>4. had \in Nat
  BY <1>0, EscrowIsNat
<1>5. PICK r \in Nat, s \in Nat, d \in Nat : Sums(m, r, s, d)
  BY <1>2, MarketSums
<1> HIDE DEF had, left, ws
<1>6. PICK q \in Nat : q = SumFunction(RestingOn(ws, m)) /\ q + had = r + left
  BY <1>0, <1>3, <1>5, RestingTyped DEF Sums
<1>7. PICK o \in WindowBook : o = books[m] /\ Explains(o, r, s, d)
  BY <1>2, <1>5, MarketSums DEF Sums
<1>8. s + had - left \in Nat /\ Explains(o, q, s + had - left, d)
  <2>1. s + had - left \in Nat
    BY <1>3, <1>4
  <2>2. r + s = q + (s + had - left)
    BY <1>3, <1>4, <1>6
  <2>3. o.escrowOut - o.escrowBack = r + s + d
    BY <1>7 DEF Explains
  <2>4. r + s + d = q + (s + had - left) + d
    BY <2>2
  <2> QED
    BY <2>1, <2>3, <2>4 DEF Explains
<1> HIDE DEF m, side
<1>9. /\ spent' \in [Markets -> Nat] /\ spent'[m] = s + had - left
      /\ \A k \in Markets \ {m} : spent'[k] = spent[k]
  <2>1. spent \in [Markets -> Nat] /\ spent[m] = s
    BY <1>5 DEF MakerActs, MakerInv, MakerFits, Sums
  <2> QED
    BY <1>1, <1>2, <1>8, <2>1
<1>10. tokens' \in [Markets -> [{"YES", "NO"} -> Nat]]
  <2>1. tokens \in [Markets -> [{"YES", "NO"} -> Nat]]
    BY DEF MakerActs, MakerInv, MakerFits
  <2>2. tokens[m][side] + n \in Nat
    BY <1>2, <2>1
  <2> QED
    BY <1>1, <1>2, <2>1, <2>2
<1>11. books' = [books EXCEPT ![m] = o]
  BY <1>1, <1>7 DEF MakerActs, MakerInv, MakerFits
<1>12. /\ Lists(books', open', openAt')
       /\ open' \in Seq(Markets) /\ openAt' \in [Markets -> Nat]
  BY <1>1 DEF MakerActs, MakerInv, MakerFits
<1>13. LedgerFits' /\ UNCHANGED shareVars /\ wallet' = liquid' + SumFunction(drained')
  BY <1>1 DEF MakerActs, MakerInv, MakerFits, MakerBooked, LedgerFits, Maker!ledgerVars,
     Maker!shareVars, shareVars
<1>14. MakerInv'
  <2>1. Explains(o, SumFunction(RestingOn(orders', m)), spent'[m], drained'[m])
    <3>1. drained'[m] = d
      BY <1>1, <1>5 DEF Sums
    <3>2. SumFunction(RestingOn(orders', m)) = q
      BY <1>1, <1>6
    <3> QED
      BY <1>8, <1>9, <3>1, <3>2
  <2>2. \A k \in Markets \ {m} :
          /\ SumFunction(RestingOn(orders', k)) = SumFunction(RestingOn(orders, k))
          /\ spent'[k] = spent[k] /\ drained'[k] = drained[k]
    BY <1>1, <1>3, <1>9
  <2>3. /\ OrdersFit(orders') /\ UNCHANGED <<params, now>> /\ drained' \in [Markets -> Nat]
    BY <1>1, <1>3 DEF MakerActs, MakerInv, MakerFits
  <2> QED
    BY <1>2, <1>9, <1>10, <1>11, <1>12, <1>13, <2>1, <2>2, <2>3, MarketMoves
<1> QED
  BY <1>13, <1>14, MakerPlays

LEMMA TwoMore ==
  ASSUME NEW S, NEW s \in Seq(S), NEW a \in S, NEW b \in S
  PROVE  s \o <<a, b>> = Append(Append(s, a), b)
<1>1. PICK n \in Nat : n = Len(s)
  OBVIOUS
<1>2. <<a, b>> \in Seq(S) /\ Len(<<a, b>>) = 2 /\ <<a, b>>[1] = a /\ <<a, b>>[2] = b
  OBVIOUS
<1> DEFINE u == s \o <<a, b>>
           v == Append(s, a)
           w == Append(v, b)
<1>3. /\ u \in Seq(S) /\ Len(u) = n + 2
      /\ \A i \in 1..n : u[i] = s[i]
      /\ u[n + 1] = a /\ u[n + 2] = b
  BY <1>1, <1>2, ConcatProperties
<1>4. v \in Seq(S) /\ Len(v) = n + 1 /\ v[n + 1] = a /\ \A i \in 1..n : v[i] = s[i]
  BY <1>1, AppendProperties
<1>5. /\ w \in Seq(S) /\ Len(w) = n + 2 /\ w[n + 2] = b
      /\ \A i \in 1..(n + 1) : w[i] = v[i]
  <2>1. /\ w \in Seq(S) /\ Len(w) = Len(v) + 1 /\ w[Len(v) + 1] = b
        /\ \A i \in 1..Len(v) : w[i] = v[i]
    <3> HIDE DEF v
    <3> QED
      BY <1>4, AppendProperties
  <2> HIDE DEF v, w
  <2> QED
    BY <1>1, <1>4, <2>1
<1> HIDE DEF u, v, w
<1>6. \A i \in 1..(n + 2) : u[i] = w[i]
  BY <1>1, <1>3, <1>4, <1>5
<1>7. u = w
  BY <1>3, <1>5, <1>6, SeqEqual
<1> QED
  BY <1>7 DEF u, v, w

\* The two orders of a quote, and what they escrow.
QuoteOrder(m, side, price, n, t) ==
  [market |-> m, side |-> side, price |-> price, quantity |-> n, expireAt |-> t]

LEMMA QuoteIsTyped ==
  ASSUME MakerActs, NEW m \in Markets, NEW bid \in Bids, NEW ask \in Asks,
         NEW n \in Quantities, NEW t \in (now + 1)..Expiry[m],
         Maker!Quotable(m, bid, ask, n, t)
  PROVE  /\ QuoteOrder(m, "YES", bid, n, t) \in VaultOrder
         /\ QuoteOrder(m, "NO", ask, n, t) \in VaultOrder
<1>1. bid \in Nat /\ ask \in Nat /\ n \in Nat /\ Maker!MakerAssumption
  BY DEF MakerActs, Maker!MakerAssumption
<1>2. params \in Maker!Params /\ params.maxPriceRaw < One
  BY <1>1 DEF MakerActs, MakerInv, MakerFits, Maker!MakerAssumption
<1>3. params.maxPriceRaw \in Nat /\ params.minPriceRaw \in Nat /\ One \in Nat
  BY <1>1, <1>2 DEF Maker!Params, Maker!MakerAssumption
<1>4. bid <= params.maxPriceRaw /\ ask <= params.maxPriceRaw
  BY <1>1, <1>3 DEF Maker!Quotable
<1>5. bid \in 0..One /\ ask \in 0..One
  BY <1>1, <1>2, <1>3, <1>4
<1>6. t \in Nat
  BY <1>1 DEF MakerActs, MakerInv, MakerFits, Maker!MakerAssumption
<1> QED
  BY <1>1, <1>5, <1>6 DEF VaultOrder, QuoteOrder

\* What a quote does to the vault's orders: those in ids leave, two are added.
Quoted(m, ids, a, b, ws) == ws = Maker!Without(ids) \o <<a, b>>

LEMMA QuoteRests ==
  ASSUME MakerActs, NEW m \in Markets, NEW ids \in SUBSET Maker!On(m),
         NEW a \in VaultOrder, NEW b \in VaultOrder, a.market = m, b.market = m,
         Len(orders) + 2 <= 2 * MaxQuotes, NEW ws, Quoted(m, ids, a, b, ws)
  PROVE  /\ OrdersFit(ws) /\ Maker!EscrowIn(ids) \in Nat
         /\ EscrowFor(a) \in Nat /\ EscrowFor(b) \in Nat
         /\ SumFunction(RestingOn(ws, m)) + Maker!EscrowIn(ids)
              = SumFunction(RestingOn(orders, m)) + EscrowFor(a) + EscrowFor(b)
         /\ \A k \in Markets \ {m} :
              SumFunction(RestingOn(ws, k)) = SumFunction(RestingOn(orders, k))
<1>0. Maker!MakerAssumption /\ OrdersFit(orders)
  BY DEF MakerActs, MakerInv, MakerFits
<1>1. PICK w0 : w0 = Maker!Without(ids)
  OBVIOUS
<1>2. /\ OrdersFit(w0) /\ Len(w0) = Len(orders) /\ Maker!EscrowIn(ids) \in Nat
      /\ SumFunction(RestingOn(orders, m)) = SumFunction(RestingOn(w0, m)) + Maker!EscrowIn(ids)
      /\ \A k \in Markets \ {m} : RestingOn(w0, k) = RestingOn(orders, k)
  BY <1>1, Pulled
<1>3. Len(orders) \in Nat /\ 2 * MaxQuotes \in Nat
  BY <1>0 DEF OrdersFit, Maker!MakerAssumption
<1>4. PICK w1 : w1 = Append(w0, a)
  OBVIOUS
<1>5. Len(w0) < 2 * MaxQuotes
  BY <1>2, <1>3
<1>6. /\ OrdersFit(w1) /\ Len(w1) = Len(w0) + 1 /\ EscrowFor(a) \in Nat
      /\ \A k \in Markets : SumFunction(RestingOn(w1, k))
           = SumFunction(RestingOn(w0, k)) + (IF a.market = k THEN EscrowFor(a) ELSE 0)
  BY <1>0, <1>2, <1>4, <1>5, PutOn
<1>7. PICK w2 : w2 = Append(w1, b)
  OBVIOUS
<1>8. Len(w1) < 2 * MaxQuotes
  BY <1>2, <1>3, <1>6
<1>9. /\ OrdersFit(w2) /\ EscrowFor(b) \in Nat
      /\ \A k \in Markets : SumFunction(RestingOn(w2, k))
           = SumFunction(RestingOn(w1, k)) + (IF b.market = k THEN EscrowFor(b) ELSE 0)
  BY <1>0, <1>6, <1>7, <1>8, PutOn
<1>10. w0 \in Seq(VaultOrder)
  BY <1>2 DEF OrdersFit
<1>11. ws = w2
  BY <1>1, <1>4, <1>7, <1>10, TwoMore DEF Quoted
<1>12. ASSUME NEW k \in Markets
       PROVE  /\ SumFunction(RestingOn(w0, k)) \in Nat
              /\ SumFunction(RestingOn(orders, k)) \in Nat
  BY <1>0, <1>2, RestingTyped
<1>13. SumFunction(RestingOn(w2, m))
         = SumFunction(RestingOn(w0, m)) + EscrowFor(a) + EscrowFor(b)
  BY <1>6, <1>9
<1>14. SumFunction(RestingOn(w2, m)) + Maker!EscrowIn(ids)
         = SumFunction(RestingOn(orders, m)) + EscrowFor(a) + EscrowFor(b)
  <2>1. PICK x \in Nat, e \in Nat, f \in Nat, r \in Nat :
          /\ x = Maker!EscrowIn(ids) /\ e = EscrowFor(a) /\ f = EscrowFor(b)
          /\ r = SumFunction(RestingOn(w0, m))
    BY <1>2, <1>6, <1>9, <1>12
  <2>2. SumFunction(RestingOn(orders, m)) = r + x
    BY <1>2, <2>1
  <2>3. SumFunction(RestingOn(w2, m)) = r + e + f
    BY <1>13, <2>1
  <2>4. (r + e + f) + x = (r + x) + e + f
    OBVIOUS
  <2> QED
    BY <2>1, <2>2, <2>3, <2>4
<1>15. ASSUME NEW k \in Markets \ {m}
       PROVE  SumFunction(RestingOn(w2, k)) = SumFunction(RestingOn(orders, k))
  <2>1. SumFunction(RestingOn(w1, k)) = SumFunction(RestingOn(w0, k)) + 0
    BY <1>6
  <2>2. SumFunction(RestingOn(w2, k)) = SumFunction(RestingOn(w1, k)) + 0
    BY <1>9
  <2>3. SumFunction(RestingOn(w0, k)) = SumFunction(RestingOn(orders, k))
    BY <1>2
  <2> QED
    BY <1>12, <2>1, <2>2, <2>3
<1> QED
  BY <1>2, <1>6, <1>9, <1>11, <1>14, <1>15

LEMMA QuoteSound ==
  ASSUME MakerActs, NEW m \in Markets, NEW bid \in Bids, NEW ask \in Asks,
         NEW n \in Quantities, NEW t \in (now + 1)..Expiry[m],
         Maker!Quote(m, bid, ask, n, t)
  PROVE  MakerSound
<1> DEFINE ids == IF lazy THEN Maker!ExpiredOn(m) ELSE {}
           x == Maker!EscrowIn(ids)
           oa == QuoteOrder(m, "YES", bid, n, t)
           ob == QuoteOrder(m, "NO", ask, n, t)
           e == EscrowFor(oa)
           f == EscrowFor(ob)
           b == [books[m] EXCEPT !.escrowBack = @ + x, !.escrowOut = @ + (e + f), !.quoted = TRUE]
<1>1. /\ Len(orders) + 2 <= 2 * MaxQuotes
      /\ Maker!Quotable(m, bid, ask, n, t)
      /\ liquid + x - (e + f) >= 0
      /\ Maker!Move(liquid + x - (e + f), wallet + x - (e + f))
      /\ books' = [books EXCEPT ![m] = b]
      /\ IF books[m].quoted THEN UNCHANGED <<open, openAt>>
         ELSE open' = Append(open, m) /\ openAt' = [openAt EXCEPT ![m] = Len(open) + 1]
      /\ Quoted(m, ids, oa, ob, orders')
      /\ UNCHANGED <<params, tokens, spent, drained, now>>
  BY DEF Maker!Quote, Maker!Returned, Maker!clockVars, Quoted, QuoteOrder, EscrowFor, Maker!Order
<1>2. oa \in VaultOrder /\ ob \in VaultOrder
  BY <1>1, QuoteIsTyped
<1>3. oa.market = m /\ ob.market = m
  BY DEF QuoteOrder
<1>4. ids \in SUBSET Maker!On(m)
  BY ListedAreOn
<1> HIDE DEF ids, oa, ob
<1>5. PICK ws : ws = orders'
  OBVIOUS
<1>6. /\ OrdersFit(ws) /\ x \in Nat /\ e \in Nat /\ f \in Nat
      /\ SumFunction(RestingOn(ws, m)) + x = SumFunction(RestingOn(orders, m)) + e + f
      /\ \A k \in Markets \ {m} :
           SumFunction(RestingOn(ws, k)) = SumFunction(RestingOn(orders, k))
  BY <1>1, <1>2, <1>3, <1>4, <1>5, QuoteRests
<1> HIDE DEF x, e, f
<1>7. PICK r \in Nat, s \in Nat, d \in Nat : Sums(m, r, s, d)
  BY MarketSums
<1>8. PICK q \in Nat : q = SumFunction(RestingOn(ws, m)) /\ q + x = r + e + f
  BY <1>6, <1>7, RestingTyped DEF MakerActs, Sums
<1>9. PICK o \in WindowBook : o = books[m]
  BY MarketSums
<1>10. /\ b \in WindowBook /\ b.settled = o.settled /\ b.quoted = TRUE
       /\ b.escrowOut = o.escrowOut + (e + f) /\ b.escrowBack = o.escrowBack + x
  <2>1. PICK u \in Nat, v \in Nat : u = o.escrowBack + x /\ v = o.escrowOut + (e + f)
    BY <1>6 DEF WindowBook
  <2>2. b = [o EXCEPT !.escrowBack = u, !.escrowOut = v, !.quoted = TRUE]
    BY <1>9, <2>1
  <2> HIDE DEF b
  <2>3. b \in WindowBook
    BY <2>2 DEF WindowBook
  <2>4. b.settled = o.settled /\ b.quoted = TRUE /\ b.escrowBack = u /\ b.escrowOut = v
    BY <2>2 DEF WindowBook
  <2> QED
    BY <2>1, <2>3, <2>4
<1> HIDE DEF b
<1>11. Explains(b, q, s, d)
  <2>1. PICK u \in Nat, v \in Nat : u = o.escrowOut /\ v = o.escrowBack
    BY DEF WindowBook
  <2>2. u - v = r + s + d
    BY <1>7, <1>9, <2>1 DEF Sums, Explains
  <2>3. (u + (e + f)) - (v + x) = q + s + d
    <3>1. PICK i \in Nat, j \in Nat, k \in Nat : i = x /\ j = e /\ k = f
      BY <1>6
    <3>2. q + i = r + j + k
      BY <1>8, <3>1
    <3>3. (u + (j + k)) - (v + i) = q + s + d
      BY <2>2, <3>2
    <3> QED
      BY <3>1, <3>3
  <2> QED
    BY <1>10, <2>1, <2>3 DEF Explains
<1>12. ~o.settled
  BY <1>1, <1>9 DEF Maker!Quotable
<1>13. /\ Lists(books', open', openAt')
       /\ open' \in Seq(Markets) /\ openAt' \in [Markets -> Nat]
  <2>1. /\ books \in [Markets -> WindowBook] /\ open \in Seq(Markets)
        /\ openAt \in [Markets -> Nat] /\ Lists(books, open, openAt)
    BY DEF MakerActs, MakerInv, MakerFits
  <2>2. books'[m] = b /\ \A k \in Markets \ {m} : books'[k] = books[k]
    BY <1>1, <2>1
  <2>3. IsOpen(b)
    BY <1>10, <1>12 DEF IsOpen
  <2>4. CASE books[m].quoted
    <3>1. IsOpen(b) <=> IsOpen(books[m])
      BY <1>9, <1>12, <2>3, <2>4 DEF IsOpen
    <3> QED
      BY <1>1, <2>4, <3>1, ListsKeep
  <2>5. CASE ~books[m].quoted
    <3>1. ~IsOpen(books[m])
      BY <2>5 DEF IsOpen
    <3>2. PICK op \in Seq(Markets), at \in [Markets -> Nat] : op = open /\ at = openAt
      BY <2>1
    <3>3. PICK cs, po, ta : cs = books' /\ po = open' /\ ta = openAt'
      OBVIOUS
    <3>4. /\ Lists(books, op, at) /\ ~IsOpen(books[m]) /\ IsOpen(cs[m])
          /\ SameBut(books, cs, m) /\ Opens(op, at, m, po, ta)
      BY <1>1, <2>1, <2>2, <2>3, <2>5, <3>1, <3>2, <3>3 DEF SameBut, Opens
    <3>5. po \in Seq(Markets) /\ ta \in [Markets -> Nat] /\ Lists(cs, po, ta)
      BY <3>4, ListGains
    <3> QED
      BY <3>3, <3>5
  <2> QED
    BY <2>4, <2>5
<1>14. LedgerFits' /\ UNCHANGED shareVars /\ wallet' = liquid' + SumFunction(drained')
  <2>1. LedgerFits /\ wallet \in Nat /\ liquid \in Nat
    BY MakerWallet
  <2>2. PICK z \in Nat : z = SumFunction(drained)
    BY MakerWallet
  <2>3. wallet = liquid + z
    BY <2>2 DEF MakerActs, MakerInv, MakerBooked
  <2>4. PICK l \in Nat : l = liquid + x - (e + f)
    BY <1>1, <1>6, <2>1
  <2>5. PICK w \in Nat : w = wallet + x - (e + f) /\ w = l + z
    <3>1. wallet + x - (e + f) = l + z
      BY <1>6, <2>1, <2>2, <2>3, <2>4
    <3> QED
      BY <3>1
  <2>6. /\ liquid' = l /\ wallet' = w /\ UNCHANGED shareVars /\ UNCHANGED <<paused, intake>>
    BY <1>1, <2>4, <2>5 DEF Maker!Move, Maker!shareVars, shareVars
  <2>7. LedgerFits'
    BY <2>1, <2>6 DEF LedgerFits, shareVars
  <2>8. SumFunction(drained') = z
    BY <1>1, <2>2
  <2> QED
    BY <2>5, <2>6, <2>7, <2>8
<1>15. MakerInv'
  <2>1. Explains(b, SumFunction(RestingOn(orders', m)), spent'[m], drained'[m])
    <3>1. spent'[m] = s /\ drained'[m] = d
      BY <1>1, <1>7 DEF Sums
    <3>2. SumFunction(RestingOn(orders', m)) = q
      BY <1>5, <1>8
    <3> QED
      BY <1>11, <3>1, <3>2
  <2>2. \A k \in Markets \ {m} :
          /\ SumFunction(RestingOn(orders', k)) = SumFunction(RestingOn(orders, k))
          /\ spent'[k] = spent[k] /\ drained'[k] = drained[k]
    BY <1>1, <1>5, <1>6
  <2>3. /\ OrdersFit(orders') /\ UNCHANGED <<params, now>>
        /\ spent' \in [Markets -> Nat] /\ drained' \in [Markets -> Nat]
        /\ tokens' \in [Markets -> [{"YES", "NO"} -> Nat]]
    BY <1>1, <1>5, <1>6 DEF MakerActs, MakerInv, MakerFits
  <2> QED
    BY <1>1, <1>10, <1>13, <1>14, <2>1, <2>2, <2>3, MarketMoves
<1> QED
  BY <1>14, <1>15, MakerPlays

(* A stranger's drain brings an expired escrow back to the wallet, past    *)
(* the books.                                                              *)
LEMMA DrainSound ==
  ASSUME MakerActs, NEW m \in Markets, Maker!Drain(m) PROVE MakerSound
<1> DEFINE ids == Maker!ExpiredOn(m)
           x == Maker!EscrowIn(ids)
           ws == Maker!Without(ids)
<1>1. /\ Maker!Move(liquid, wallet + x) /\ orders' = ws
      /\ drained' = [drained EXCEPT ![m] = @ + x]
      /\ UNCHANGED <<books, open, openAt, params, tokens, spent, now>>
  BY DEF Maker!Drain, Maker!clockVars, Maker!bookVars
<1>2. /\ OrdersFit(ws) /\ x \in Nat
      /\ SumFunction(RestingOn(orders, m)) = SumFunction(RestingOn(ws, m)) + x
      /\ \A k \in Markets \ {m} : RestingOn(ws, k) = RestingOn(orders, k)
  BY Pulled, ListedAreOn
<1>3. PICK r \in Nat, s \in Nat, d \in Nat : Sums(m, r, s, d)
  BY MarketSums
<1>4. PICK q \in Nat : q = SumFunction(RestingOn(ws, m)) /\ r = q + x
  BY <1>2, <1>3, RestingTyped DEF MakerActs, Sums
<1> HIDE DEF ids, x, ws
<1>5. PICK b \in WindowBook : b = books[m] /\ Explains(b, r, s, d)
  BY <1>3, MarketSums DEF Sums
<1>6. Explains(b, q, s, d + x)
  <2>1. r + s + d = q + s + (d + x)
    BY <1>2, <1>4
  <2> QED
    BY <1>5, <2>1 DEF Explains
<1>7. drained \in [Markets -> Nat] /\ drained[m] = d
  BY <1>3 DEF MakerActs, MakerInv, MakerFits, Sums
<1>8. PICK dr : dr = drained'
  OBVIOUS
<1>9. /\ dr \in [Markets -> Nat] /\ dr[m] = d + x
      /\ \A k \in Markets \ {m} : dr[k] = drained[k]
  BY <1>1, <1>2, <1>7, <1>8
<1>10. SumFunction(dr) = SumFunction(drained) + x
  BY <1>2, <1>7, <1>9, TotalGainsAt, MarketsAreFinite DEF MakerActs
<1>11. LedgerFits' /\ UNCHANGED shareVars /\ wallet' = liquid' + SumFunction(drained')
  <2>1. LedgerFits /\ wallet \in Nat /\ liquid \in Nat
    BY MakerWallet
  <2>2. PICK z \in Nat : z = SumFunction(drained)
    BY MakerWallet
  <2>3. wallet = liquid + z
    BY <2>2 DEF MakerActs, MakerInv, MakerBooked
  <2>4. /\ liquid' = liquid /\ wallet' = wallet + x /\ UNCHANGED shareVars
        /\ UNCHANGED <<paused, intake>>
    BY <1>1 DEF Maker!Move, Maker!shareVars, shareVars
  <2>5. LedgerFits'
    BY <1>2, <2>1, <2>4 DEF LedgerFits, shareVars
  <2>6. wallet + x = liquid + (z + x)
    BY <1>2, <2>1, <2>2, <2>3
  <2>7. SumFunction(drained') = z + x
    BY <1>8, <1>10, <2>2
  <2> QED
    BY <2>4, <2>5, <2>6, <2>7
<1>12. books' = [books EXCEPT ![m] = b]
  BY <1>1, <1>5 DEF MakerActs, MakerInv, MakerFits
<1>13. /\ Lists(books', open', openAt')
       /\ open' \in Seq(Markets) /\ openAt' \in [Markets -> Nat]
  BY <1>1 DEF MakerActs, MakerInv, MakerFits
<1>14. MakerInv'
  <2>1. Explains(b, SumFunction(RestingOn(orders', m)), spent'[m], drained'[m])
    <3>1. spent'[m] = s /\ drained'[m] = d + x
      BY <1>1, <1>3, <1>8, <1>9 DEF Sums
    <3>2. SumFunction(RestingOn(orders', m)) = q
      BY <1>1, <1>4
    <3> QED
      BY <1>6, <3>1, <3>2
  <2>2. \A k \in Markets \ {m} :
          /\ SumFunction(RestingOn(orders', k)) = SumFunction(RestingOn(orders, k))
          /\ spent'[k] = spent[k] /\ drained'[k] = drained[k]
    BY <1>1, <1>2, <1>8, <1>9
  <2>3. /\ OrdersFit(orders') /\ UNCHANGED <<params, now>>
        /\ spent' \in [Markets -> Nat] /\ drained' \in [Markets -> Nat]
        /\ tokens' \in [Markets -> [{"YES", "NO"} -> Nat]]
    BY <1>1, <1>2, <1>8, <1>9 DEF MakerActs, MakerInv, MakerFits
  <2> QED
    BY <1>11, <1>12, <1>13, <2>1, <2>2, <2>3, MarketMoves
<1> QED
  BY <1>11, <1>14, MakerPlays

(* Steps that concern no market.                                           *)
LEMMA MakerStands ==
  ASSUME MakerActs, UNCHANGED Maker!bookVars, UNCHANGED Maker!venueVars,
         UNCHANGED <<liquid, shareVars, wallet, intake>>, paused' \in BOOLEAN,
         params' \in MakerParams, now' \in Nat
  PROVE  MakerSound
<1>1. LedgerFits /\ wallet \in Nat /\ liquid \in Nat
  BY MakerWallet
<1>2. LedgerFits' /\ UNCHANGED shareVars
  BY <1>1 DEF LedgerFits, shareVars
<1>3. wallet' - liquid' = wallet - liquid /\ wallet' \in Int
  BY <1>1
<1>4. MakerInv'
  BY <1>2, <1>3, MarketsStand
<1> QED
  BY <1>2, <1>4, MakerPlays

LEMMA MakerStepSound ==
  ASSUME MakerActs, Maker!ShareAssumption, Maker!Next \/ UNCHANGED Maker!vars
  PROVE  MakerSound
<1> DEFINE Stays == UNCHANGED <<liquid, shareVars, wallet, intake>>
<1>0. /\ params \in MakerParams /\ now \in Nat /\ LedgerFits
  BY DEF MakerActs, MakerInv, MakerFits
<1>1. CASE \E s \in Suppliers, a \in MakerSupplies : Maker!Supply(s, a)
  BY <1>1, MakerSupplySound
<1>2. CASE \E s \in Suppliers, n \in Redemptions : Maker!Withdraw(s, n)
  BY <1>2, MakerWithdrawSound
<1>3. CASE \E m \in Markets, bid \in Bids, ask \in Asks, q \in Quantities :
             \E t \in (now + 1)..Expiry[m] : Maker!Quote(m, bid, ask, q, t)
  BY <1>3, QuoteSound
<1>4. CASE \E m \in Markets : Maker!Pull(m) \/ Maker!Merge(m) \/ Maker!Settle(m) \/ Maker!Drain(m)
  BY <1>4, PullSound, MergeSound, SettleVaultSound, DrainSound
<1>5. CASE \E i \in 1..Len(orders) : \E n \in 1..orders[i].quantity : Maker!Fill(i, n)
  BY <1>5, FillSound
<1>6. ASSUME NEW p \in MakerParams, Maker!SetParams(p) PROVE MakerSound
  <2>1. /\ UNCHANGED Maker!bookVars /\ UNCHANGED Maker!venueVars /\ Stays
        /\ paused' = paused /\ params' = p /\ now' = now
    BY <1>6 DEF Maker!SetParams, Maker!ledgerVars, Maker!shareVars, shareVars, Maker!clockVars
  <2> QED
    BY <1>0, <2>1, MakerStands DEF LedgerFits
<1>7. ASSUME NEW b \in MakerPauses, Maker!SetPaused(b) \/ Maker!SetMaker(b) PROVE MakerSound
  <2>0. b \in BOOLEAN
    BY DEF Maker!ShareAssumption
  <2>1. /\ UNCHANGED Maker!bookVars /\ UNCHANGED Maker!venueVars /\ Stays
        /\ paused' \in {paused, b} /\ params' = params /\ now' = now
    BY <1>7 DEF Maker!SetPaused, Maker!SetMaker, Maker!Pause, Maker!ledgerVars,
       Maker!shareVars, shareVars, Maker!clockVars
  <2> QED
    BY <1>0, <2>0, <2>1, MakerStands DEF LedgerFits
<1>8. ASSUME NEW m \in Markets, NEW s, Maker!Resolve(m, s) PROVE MakerSound
  <2>1. /\ UNCHANGED Maker!bookVars /\ UNCHANGED Maker!venueVars /\ Stays
        /\ paused' = paused /\ params' = params /\ now' = now
    BY <1>8 DEF Maker!Resolve, Maker!ledgerVars, Maker!shareVars, shareVars
  <2> QED
    BY <1>0, <2>1, MakerStands DEF LedgerFits
<1>9. CASE Maker!Tick
  <2>1. /\ UNCHANGED Maker!bookVars /\ UNCHANGED Maker!venueVars /\ Stays
        /\ paused' = paused /\ params' = params /\ now' = now + 1
    BY <1>9 DEF Maker!Tick, Maker!ledgerVars, Maker!shareVars, shareVars
  <2> QED
    BY <1>0, <2>1, MakerStands DEF LedgerFits
<1>10. CASE UNCHANGED Maker!vars
  <2>1. /\ UNCHANGED Maker!bookVars /\ UNCHANGED Maker!venueVars /\ Stays
        /\ paused' = paused /\ params' = params /\ now' = now
    BY <1>10 DEF Maker!vars, Maker!ledgerVars, Maker!shareVars, shareVars, Maker!clockVars
  <2> QED
    BY <1>0, <2>1, MakerStands DEF LedgerFits
<1> HIDE DEF Stays
<1>11. CASE Maker!Next
  <2>1. \/ \E s \in Suppliers, a \in MakerSupplies : Maker!Supply(s, a)
        \/ \E s \in Suppliers, n \in Redemptions : Maker!Withdraw(s, n)
        \/ \E m \in Markets, bid \in Bids, ask \in Asks, q \in Quantities :
             \E t \in (now + 1)..Expiry[m] : Maker!Quote(m, bid, ask, q, t)
        \/ \E m \in Markets : Maker!Pull(m) \/ Maker!Merge(m) \/ Maker!Settle(m) \/ Maker!Drain(m)
        \/ \E i \in 1..Len(orders) : \E n \in 1..orders[i].quantity : Maker!Fill(i, n)
        \/ \E p \in MakerParams : Maker!SetParams(p)
        \/ \E b \in MakerPauses : Maker!SetPaused(b) \/ Maker!SetMaker(b)
        \/ \E m \in Markets : \E s : Maker!Resolve(m, s)
        \/ Maker!Tick
    BY <1>11 DEF Maker!Next
  <2> QED
    BY <2>1, <1>1, <1>2, <1>3, <1>4, <1>5, <1>6, <1>7, <1>8, <1>9
<1> QED
  BY <1>10, <1>11

LEMMA MakerStarts ==
  ASSUME Maker!MakerAssumption, Maker!Init PROVE MakerInv
<1>0. IsFiniteSet(Markets) /\ 2 * MaxQuotes \in Nat
  BY MarketsAreFinite DEF Maker!MakerAssumption
<1>1. /\ LedgerFits /\ liquid = 0 /\ wallet = 0
  BY DEF Maker!Init, Maker!LedgerInit, LedgerFits
<1>2. /\ books = [m \in Markets |-> Maker!Unquoted] /\ open = << >>
      /\ openAt = [m \in Markets |-> 0] /\ params \in MakerParams /\ orders = << >>
      /\ tokens = [m \in Markets |-> [x \in {"YES", "NO"} |-> 0]] /\ now = 0
      /\ spent = [m \in Markets |-> 0] /\ drained = [m \in Markets |-> 0]
  BY DEF Maker!Init, Maker!Sides
<1>3. Maker!Unquoted \in WindowBook /\ ~IsOpen(Maker!Unquoted)
  BY DEF Maker!Unquoted, WindowBook, IsOpen
<1>4. OrdersFit(orders)
  BY <1>0, <1>2 DEF OrdersFit
<1>5. MakerFits
  <2>1. tokens \in [Markets -> [{"YES", "NO"} -> Nat]]
    BY <1>2
  <2>2. books \in [Markets -> WindowBook] /\ openAt \in [Markets -> Nat]
    BY <1>2, <1>3
  <2>3. spent \in [Markets -> Nat] /\ drained \in [Markets -> Nat] /\ open \in Seq(Markets)
    BY <1>2
  <2> QED
    BY <1>1, <1>2, <1>4, <2>1, <2>2, <2>3 DEF MakerFits
<1>6. Lists(books, open, openAt)
  BY <1>2, <1>3 DEF Lists
<1>7. ASSUME NEW m \in Markets
      PROVE  Explains(books[m], SumFunction(RestingOn(orders, m)), spent[m], drained[m])
  <2>1. RestingOn(orders, m) = [i \in Places |-> 0]
    BY <1>2 DEF RestingOn
  <2>2. IsFiniteSet(Places)
    BY PlacesAreFinite
  <2>3. SumFunction(RestingOn(orders, m)) = 0
    BY <2>1, <2>2, TotalOfZeros
  <2> QED
    BY <1>2, <2>3 DEF Explains, Maker!Unquoted
<1>8. SumFunction(drained) = 0
  BY <1>0, <1>2, TotalOfZeros
<1> QED
  BY <1>1, <1>5, <1>6, <1>7, <1>8 DEF MakerInv, MakerBooked

-----------------------------------------------------------------------------
(* The houses together.                                                    *)

HousesInv ==
  /\ house \in {"parlay", "range", "maker"}
  /\ house = "parlay" => ParlayInv
  /\ house = "range" => RangeInv
  /\ house = "maker" => MakerInv

\* What every step keeps, of whichever house.
HousesSound ==
  /\ HousesInv'
  /\ [AnyHouse!Next]_(AnyHouse!vars)
  /\ house = "maker" => Maker!LossesAreBooked

\* A reserve's locked capital is what that house has at risk.
LEMMA ReserveIsAHouse ==
  ASSUME house # "maker", house' = house, House!Next PROVE AnyHouse!Next
<1>1. AnyHouse!Value = House!Value
  BY DEF AnyHouse!Value, House!Value
<1>2. ASSUME NEW s \in Suppliers, NEW a, NEW n, House!Enter(s, a, n) PROVE AnyHouse!Enter(s, a, n)
  BY <1>1, <1>2 DEF House!Enter, AnyHouse!Enter
<1>3. ASSUME NEW s \in Suppliers, NEW a, NEW n, House!Leave(s, a, n) PROVE AnyHouse!Leave(s, a, n)
  BY <1>1, <1>3 DEF House!Leave, AnyHouse!Leave
<1> QED
  BY <1>2, <1>3 DEF House!Next, AnyHouse!Next, House!Play, AnyHouse!Play

LEMMA ParlaySteps ==
  ASSUME HousesInv, InParlay /\ Parlay!Next PROVE HousesSound
<1>1. ParlayInv' /\ House!Next
  BY HousesAssumption, ParlayStepSound DEF HousesInv, InParlay, ParlaySound
<1>2. house = "parlay" /\ house' = house
  BY DEF InParlay
<1>3. AnyHouse!Next
  BY <1>1, <1>2, ReserveIsAHouse
<1> QED
  BY <1>1, <1>2, <1>3 DEF HousesSound, HousesInv

LEMMA RangeSteps ==
  ASSUME HousesInv, InRange /\ Rounds!Next PROVE HousesSound
<1>1. RangeInv
  BY DEF HousesInv, InRange
<1>2. house = "range" /\ house' = house
  BY DEF InRange
<1>3. CASE RangeSound
  <2>1. AnyHouse!Next
    BY <1>2, <1>3, ReserveIsAHouse DEF RangeSound
  <2> QED
    BY <1>2, <1>3, <2>1 DEF HousesSound, HousesInv, RangeSound
<1>4. CASE UNCHANGED Rounds!vars
  <2>1. RangeInv'
    BY <1>1, <1>4, RangeRests
  <2>2. UNCHANGED AnyHouse!vars
    BY <1>2, <1>4 DEF Rounds!vars, Rounds!escrowVars, Rounds!ledgerVars, Rounds!shareVars,
       AnyHouse!vars
  <2> QED
    BY <1>2, <2>1, <2>2 DEF HousesSound, HousesInv
<1> QED
  BY <1>1, <1>3, <1>4, HousesAssumption, RangeStepSound

LEMMA MakerSteps ==
  ASSUME HousesInv, InMaker /\ Maker!Next PROVE HousesSound
<1>1. MakerActs /\ house' = house
  BY HousesAssumption DEF HousesInv, InMaker, MakerActs
<1>2. MakerSound
  BY <1>1, HousesAssumption, MakerStepSound
<1> QED
  BY <1>1, <1>2 DEF MakerSound, MakerActs, HousesSound, HousesInv

\* A step of none of them.
LEMMA NobodySteps ==
  ASSUME HousesInv, UNCHANGED vars PROVE HousesSound
<1>1. /\ UNCHANGED escrowVars /\ UNCHANGED rangeVars /\ UNCHANGED makerVars
      /\ UNCHANGED <<house, params, now, verdict>>
  BY DEF vars
<1>2. UNCHANGED ledgerVars /\ UNCHANGED shareVars
  BY <1>1 DEF escrowVars, ledgerVars
<1>3. ParlayInv => ParlayInv'
  <2>1. UNCHANGED Parlay!vars
    BY <1>1, <1>2 DEF Parlay!vars, Parlay!escrowVars, Parlay!ledgerVars, Parlay!shareVars,
       escrowVars, ledgerVars, shareVars, Parlay!ownVars
  <2> QED
    BY <2>1, HousesAssumption, ParlayStepSound DEF ParlaySound
<1>4. RangeInv => RangeInv'
  <2>1. UNCHANGED Rounds!vars
    BY <1>1, <1>2 DEF Rounds!vars, Rounds!escrowVars, Rounds!ledgerVars, Rounds!shareVars,
       escrowVars, ledgerVars, shareVars, Rounds!ownVars, Rounds!cacheVars, rangeVars
  <2> QED
    BY <2>1, RangeRests
<1>5. house = "maker" => MakerInv' /\ Maker!LossesAreBooked
  <2>1. UNCHANGED Maker!vars
    BY <1>1, <1>2 DEF Maker!vars, Maker!ledgerVars, Maker!shareVars, Maker!bookVars,
       Maker!venueVars, Maker!clockVars, escrowVars, ledgerVars, shareVars, makerVars
  <2>2. house = "maker" => MakerActs
    BY <1>1, HousesAssumption DEF HousesInv, MakerActs
  <2> QED
    BY <2>1, <2>2, HousesAssumption, MakerStepSound DEF MakerSound
<1>6. UNCHANGED AnyHouse!vars
  BY <1>1, <1>2 DEF AnyHouse!vars, escrowVars, ledgerVars, shareVars, makerVars,
     Maker!totalDeployed, Maker!deployedOf, Maker!Back
<1> QED
  BY <1>1, <1>3, <1>4, <1>5, <1>6 DEF HousesSound, HousesInv

LEMMA HousesStepSound == HousesInv /\ [Next]_vars => HousesSound
<1> SUFFICES ASSUME HousesInv, [Next]_vars PROVE HousesSound
  OBVIOUS
<1> QED
  BY ParlaySteps, RangeSteps, MakerSteps, NobodySteps DEF Next

LEMMA HousesStart == Init => HousesInv /\ AnyHouse!Init
<1>1. CASE house = "parlay" /\ Parlay!Init
  BY <1>1, HousesAssumption, ParlayStarts DEF HousesInv, AnyHouse!Init, House!Init
<1>2. CASE house = "range" /\ Rounds!Init
  BY <1>2, HousesAssumption, RangeStarts DEF HousesInv, AnyHouse!Init, House!Init
<1>3. CASE house = "maker" /\ Maker!Init
  <2>1. MakerInv
    BY <1>3, HousesAssumption, MakerStarts
  <2>2. Maker!totalDeployed = 0
    <3>1. open = << >>
      BY <1>3 DEF Maker!Init
    <3>2. DOMAIN [k \in 1..Len(open) |-> Maker!deployedOf(books[open[k]])] = {}
      BY <3>1
    <3>3. IsFiniteSet({})
      BY FS_EmptySet
    <3> QED
      BY <3>2, <3>3, TotalOfZeros, SumsAreOne DEF Maker!totalDeployed
  <2> QED
    BY <1>3, <2>1, <2>2 DEF HousesInv, AnyHouse!Init, Maker!Init, Maker!LedgerInit
<1> QED
  BY <1>1, <1>2, <1>3 DEF Init

(* The inductive invariant of the houses.                                  *)
LEMMA HousesInvariant == Spec => []HousesInv
<1>1. Init => HousesInv
  BY HousesStart
<1>2. HousesInv /\ [Next]_vars => HousesInv'
  BY HousesStepSound DEF HousesSound
<1> QED
  BY <1>1, <1>2, PTL DEF Spec

\* In every state a house's own account of its money is right: the reserves hold
\* exactly their liquid capital and the escrow of the bets in play, and the
\* vault's books explain what went out of every Window and has not come back.
THEOREM HousesMoneyIsBooked == Spec => []MoneyIsBooked
<1>1. HousesInv => MoneyIsBooked
  BY HousesAssumption, ParlayInvSuffices, RangeInvSuffices, MakerInvSuffices
     DEF HousesInv, MoneyIsBooked
<1> QED
  BY <1>1, HousesInvariant, PTL

\* Whoever resolves it and in whatever order, a ticket ends as the venue's
\* verdicts say and a round as the oracle hub's answer does.
THEOREM HousesBetsEndAsJudged == Spec => []BetsEndAsJudged
<1>1. HousesInv => BetsEndAsJudged
  BY HousesAssumption, ParlayInvSuffices, RangeInvSuffices DEF HousesInv, BetsEndAsJudged
<1> QED
  BY <1>1, HousesInvariant, PTL

\* Each of the three is a house of shares: nobody's entry takes more of the house
\* than it brings, and nobody's exit takes more than the shares are worth.
THEOREM EachIsAHouse == Spec => IsAHouse
<1>1. Init => AnyHouse!Init
  BY HousesStart
<1>2. HousesInv /\ [Next]_vars => [AnyHouse!Next]_(AnyHouse!vars)
  BY HousesStepSound DEF HousesSound
<1> QED
  BY <1>1, <1>2, HousesInvariant, PTL DEF Spec, IsAHouse, AnyHouse!Spec

\* A supplier leaves the vault only when the verdict of every Window that was
\* quoted and is over is in its books: the list that is checked is complete.
THEOREM NobodyOutruns == Spec => NobodyOutrunsALoss
<1>1. HousesInv /\ [Next]_vars => [house = "maker" => Maker!LossesAreBooked]_vars
  BY HousesStepSound DEF HousesSound
<1> QED
  BY <1>1, HousesInvariant, PTL DEF Spec, NobodyOutrunsALoss

=============================================================================
