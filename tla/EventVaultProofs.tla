-------------------------- MODULE EventVaultProofs --------------------------
(***************************************************************************)
(* What holds of EventVault for every set of owners, delegates, markets    *)
(* and amounts: its types, the reachability of lent money, the daily and   *)
(* position caps, that it implements the abstract Trading Balance, that    *)
(* the books balance and that the pooled custody is attributed.            *)
(***************************************************************************)
EXTENDS EventVault, FiniteSums, SequenceTheorems, FiniteSetTheorems, TLAPS

(* Changing one record of the grant array keeps it an array of grants, of  *)
(* the same length, with every other record as it was.                     *)
LEMMA GrantUpdate ==
  ASSUME GrantsTypeOK, NEW g \in GrantIds, NEW r \in Grant
  PROVE  /\ [grants EXCEPT ![g] = r] \in Seq(Grant)
         /\ Len([grants EXCEPT ![g] = r]) = Len(grants)
         /\ [grants EXCEPT ![g] = r][g] = r
         /\ \A h \in GrantIds : h # g => [grants EXCEPT ![g] = r][h] = grants[h]
BY ExceptSeq DEF GrantIds, GrantsTypeOK

(* An array made by rewriting every record has the old array's length.     *)
LEMMA GrantRewrite ==
  ASSUME grants \in Seq(Grant), NEW t,
         NEW f, f \in [GrantIds -> Grant], t = [g \in GrantIds |-> f[g]]
  PROVE  /\ t \in Seq(Grant)
         /\ Len(t) = Len(grants)
BY DEF GrantIds

(* The day of a timestamp never decreases, and is one of the days.         *)
LEMMA DayMonotone ==
  ASSUME NEW d \in Nat \ {0}, NEW a \in Nat, NEW b \in Nat, a <= b
  PROVE  /\ a \div d \in Nat
         /\ a \div d <= b \div d
<1>1. a \div d \in Nat /\ b \div d \in Nat
  OBVIOUS
<1>2. a = d * (a \div d) + (a % d) /\ a % d \in 0..(d-1)
  OBVIOUS
<1>3. b = d * (b \div d) + (b % d) /\ b % d \in 0..(d-1)
  OBVIOUS
<1>4. SUFFICES ASSUME a \div d >= (b \div d) + 1 PROVE FALSE
  BY <1>1
<1>5. d * (a \div d) >= d * ((b \div d) + 1)
  BY <1>1, <1>4
<1>6. d * ((b \div d) + 1) = d * (b \div d) + d
  BY <1>1
<1> QED BY <1>1, <1>2, <1>3, <1>5, <1>6

-----------------------------------------------------------------------------
(* Type correctness.                                                       *)

LEMMA InitTypeOK == Init => TypeOK
<1> SUFFICES ASSUME Init PROVE TypeOK
  OBVIOUS
<1>1. 0 \div DayLength \in Nat /\ MaxTime \div DayLength \in Nat /\ 0 \in 0..MaxTime
  BY VaultAssumption, DayMonotone
<1> QED
  BY <1>1, VaultAssumption
  DEF Init, TypeOK, AccountsTypeOK, GrantsTypeOK, BooksTypeOK, VenueTypeOK,
       PerOwner, PerMarket, PerOutcome, Statuses, ATTENDED,
      GrantKinds, Days

(* The deposits, withdrawals and moves of one owner.                       *)
LEMMA MoneyTypeOK ==
  ASSUME TypeOK, NEW o \in Owners, NEW n \in Amounts,
         \/ Deposit(o, n) \/ CreditFor(o, n) \/ CreditPrivateFor(o, n)
         \/ Withdraw(o, n) \/ MoveToPrivate(o, n) \/ WithdrawPrivate(o, n)
  PROVE  TypeOK'
<1>0. n \in Nat
  BY VaultAssumption
<1>1. UNCHANGED <<grantVars, bookVars, credit, tokens, status, now>>
  BY DEF Deposit, CreditFor, CreditPrivateFor, Withdraw, MoveToPrivate,
         WithdrawPrivate, venueVars
<1>2. GrantsTypeOK' /\ BooksTypeOK'
  BY <1>1 DEF TypeOK, GrantsTypeOK, BooksTypeOK, grantVars, bookVars, tallyVars
<1>3. AccountsTypeOK' /\ wallet' \in Nat
  <2> USE <1>0 DEF TypeOK, AccountsTypeOK, VenueTypeOK, Has
  <2>1. CASE Deposit(o, n)
    BY <2>1 DEF Deposit
  <2>2. CASE CreditFor(o, n)
    BY <2>2 DEF CreditFor
  <2>3. CASE CreditPrivateFor(o, n)
    BY <2>3 DEF CreditPrivateFor
  <2>4. CASE Withdraw(o, n)
    BY <2>4 DEF Withdraw
  <2>5. CASE MoveToPrivate(o, n)
    BY <2>5 DEF MoveToPrivate, venueVars
  <2>6. CASE WithdrawPrivate(o, n)
    BY <2>6 DEF WithdrawPrivate
  <2> QED
    BY <2>1, <2>2, <2>3, <2>4, <2>5, <2>6
<1>4. VenueTypeOK'
  BY <1>1, <1>3 DEF TypeOK, VenueTypeOK
<1> QED
  BY <1>2, <1>3, <1>4 DEF TypeOK

-----------------------------------------------------------------------------
(* What each action does to the array of grants.                           *)

LEMMA GrantFields ==
  ASSUME GrantsTypeOK, NEW g \in GrantIds
  PROVE  /\ grants[g] \in Grant
         /\ grants[g].budget \in Nat /\ grants[g].openPositions \in Nat
         /\ grants[g].spentToday \in Nat /\ grants[g].spentDay \in Nat
         /\ grants[g].owner \in Owners /\ grants[g].kind \in GrantKinds
         /\ grants[g].caps \in Caps
<1>1. grants[g] \in Grant
  BY DEF GrantsTypeOK, GrantIds
<1> QED
  BY <1>1 DEF Grant

LEMMA RevokedEffect ==
  ASSUME GrantsTypeOK, NEW g \in GrantIds
  PROVE  /\ Revoked(g) \in Seq(Grant)
         /\ Len(Revoked(g)) = Len(grants)
         /\ Revoked(g)[g] = Ended(g)
         /\ \A h \in GrantIds : h # g => Revoked(g)[h] = grants[h]
<1>1. Ended(g) \in Grant
  BY GrantFields DEF Grant, Ended
<1> QED
  BY <1>1, GrantUpdate DEF Revoked

LEMMA FundEffect ==
  ASSUME GrantsTypeOK, NEW g \in GrantIds, NEW o \in Owners, NEW n \in Nat,
         FundGrant(o, g, n)
  PROVE  /\ grants' \in Seq(Grant)
         /\ Len(grants') = Len(grants)
         /\ grants'[g] = Funded(g, n)
         /\ \A h \in GrantIds : h # g => grants'[h] = grants[h]
<1>1. Funded(g, n) \in Grant
  BY GrantFields DEF Grant, Funded
<1> QED
  BY <1>1, GrantUpdate DEF FundGrant

LEMMA TodayIsADay ==
  ASSUME VenueTypeOK
  PROVE  Today \in Days
<1>1. now \in Nat /\ now <= MaxTime
  BY VaultAssumption DEF VenueTypeOK
<1> QED
  BY <1>1, VaultAssumption, DayMonotone DEF Today, Days

LEMMA SpendEffect ==
  ASSUME GrantsTypeOK, VenueTypeOK, NEW g \in GrantIds, NEW n \in Nat,
         NEW opened \in BOOLEAN, Spend(g, n, opened)
  PROVE  /\ grants' \in Seq(Grant)
         /\ Len(grants') = Len(grants)
         /\ grants'[g] = Charged(g, n, opened)
         /\ \A h \in GrantIds : h # g => grants'[h] = grants[h]
<1>1. Today \in Nat
  BY TodayIsADay, VaultAssumption, DayMonotone DEF Days
<1>2. grants[g].budget - n \in Nat
  BY GrantFields DEF Spend
<1>3. SpentToday(g) + n \in Nat
  BY GrantFields DEF SpentToday
<1>4. (IF opened THEN grants[g].openPositions + 1 ELSE grants[g].openPositions) \in Nat
  BY GrantFields
<1>5. Charged(g, n, opened) \in Grant
  BY <1>1, <1>2, <1>3, <1>4, GrantFields DEF Grant, Charged
<1> QED
  BY <1>5, GrantUpdate DEF Spend

LEMMA CrankEffect ==
  ASSUME GrantsTypeOK, NEW o \in Owners, NEW m \in Markets, NEW toCredit \in BOOLEAN,
         CrankSettle(o, m, toCredit)
  PROVE  /\ grants' \in Seq(Grant)
         /\ Len(grants') = Len(grants)
         /\ \A h \in GrantIds :
              grants'[h] = [grants[h] EXCEPT !.openPositions = Minus(@, Closing(o, m, h))]
<1> DEFINE r(h) == [grants[h] EXCEPT !.openPositions = Minus(@, Closing(o, m, h))]
<1>1. ASSUME NEW h \in GrantIds PROVE r(h) \in Grant
  <2>1. Closing(o, m, h) \in Nat
    BY DEF Closing
  <2>2. Minus(grants[h].openPositions, Closing(o, m, h)) \in Nat
    BY <2>1, GrantFields DEF Minus
  <2> QED
    BY <2>2, GrantFields DEF Grant
<1>2. grants' = [h \in GrantIds |-> r(h)]
  BY DEF CrankSettle
<1> HIDE DEF r
<1>3. [h \in GrantIds |-> r(h)] \in [GrantIds -> Grant]
  BY <1>1
<1>4. grants' \in Seq(Grant) /\ Len(grants') = Len(grants)
  BY <1>2, <1>3, GrantRewrite DEF GrantsTypeOK
<1>5. \A h \in GrantIds : grants'[h] = r(h)
  BY <1>2
<1> QED
  BY <1>4, <1>5 DEF r

LEMMA GrantToEffect ==
  ASSUME GrantsTypeOK, BudgetsAreReachable, NEW o \in Owners,
         NEW k \in SignedKinds, NEW a \in Actors, NEW caps \in CapsChoices,
         NEW expiry \in Nat, NEW n \in Nat, NEW intake \in Nat,
         GrantTo(o, k, a, caps, expiry, n, intake)
  PROVE  LET previous == activeGrantOf[o][k]
             kept == IF previous = 0 THEN grants ELSE Revoked(previous)
         IN /\ previous # 0 => previous \in GrantIds
            /\ grants' \in Seq(Grant)
            /\ Len(grants') = Len(grants) + 1
            /\ \A h \in GrantIds : grants'[h] = kept[h]
            /\ grants'[Len(grants) + 1] = NewGrant(o, k, a, caps, expiry, n)
<1> DEFINE previous == activeGrantOf[o][k]
           kept == IF previous = 0 THEN grants ELSE Revoked(previous)
           new == NewGrant(o, k, a, caps, expiry, n)
<1>0. k \in GrantKinds /\ caps \in Caps
  BY VaultAssumption
<1>1. new \in Grant
  BY <1>0 DEF NewGrant, Grant
<1>2. previous # 0 => previous \in GrantIds
  BY <1>0 DEF BudgetsAreReachable
<1>3. kept \in Seq(Grant) /\ Len(kept) = Len(grants)
  BY <1>2, RevokedEffect DEF GrantsTypeOK
<1>4. grants' = Append(kept, new)
  BY DEF GrantTo
<1> HIDE DEF previous, kept, new
<1>5. /\ grants' \in Seq(Grant)
      /\ Len(grants') = Len(grants) + 1
      /\ \A h \in GrantIds : grants'[h] = kept[h]
      /\ grants'[Len(grants) + 1] = new
  BY <1>1, <1>3, <1>4, AppendProperties DEF GrantIds
<1> QED
  BY <1>2, <1>5 DEF previous, kept, new

-----------------------------------------------------------------------------
(* Type correctness of the grant actions.                                  *)

LEMMA GrantTypeOK ==
  ASSUME TypeOK, BudgetsAreReachable, NEW o \in Owners,
         NEW k \in SignedKinds, NEW a \in Actors, NEW caps \in CapsChoices,
         NEW expiry \in 1..(MaxTime + 1), NEW n \in {0} \cup Amounts,
         NEW intake \in {0} \cup Amounts,
         GrantTo(o, k, a, caps, expiry, n, intake)
  PROVE  TypeOK'
<1>1. n \in Nat /\ intake \in Nat /\ expiry \in Nat /\ k \in GrantKinds
  BY VaultAssumption
<1>2. Returned(activeGrantOf[o][k]) \in Nat
  BY <1>1, GrantFields DEF TypeOK, Returned, BudgetsAreReachable
<1>3. GrantsTypeOK'
  <2>1. grants' \in Seq(Grant) /\ Len(grants') = Len(grants) + 1
    BY <1>1, GrantToEffect DEF TypeOK
  <2>2. Len(grants) < MaxGrants /\ Len(grants) \in Nat /\ MaxGrants \in Nat
    BY VaultAssumption DEF GrantTo, TypeOK, GrantsTypeOK
  <2>3. activeGrantOf' \in [Owners -> [GrantKinds -> Nat]]
    BY <1>1, <2>2 DEF GrantTo, TypeOK, GrantsTypeOK
  <2>4. spentOn' = spentOn /\ delegated' = delegated
    BY DEF GrantTo
  <2> QED
    BY <2>1, <2>2, <2>3, <2>4 DEF TypeOK, GrantsTypeOK
<1>4. AccountsTypeOK' /\ wallet' \in Nat
  <2>1. available[o] \in Nat
    BY DEF TypeOK, AccountsTypeOK
  <2>2. (available[o] + intake + Returned(activeGrantOf[o][k])) - n \in Nat
    BY <1>1, <1>2, <2>1 DEF GrantTo
  <2>3. available' \in [Owners -> Nat]
    BY <2>2 DEF GrantTo, TypeOK, AccountsTypeOK
  <2>4. totalDeposited \in [Owners -> Nat] /\ wallet \in Nat
    BY DEF TypeOK, AccountsTypeOK, VenueTypeOK
  <2>5. /\ totalDeposited' = [totalDeposited EXCEPT ![o] = @ + intake]
        /\ wallet' = wallet + intake
    BY DEF GrantTo
  <2>6. totalDeposited' \in [Owners -> Nat] /\ wallet' \in Nat
    BY <1>1, <2>4, <2>5
  <2> QED
    BY <2>3, <2>6 DEF GrantTo, TypeOK, AccountsTypeOK
<1>5. UNCHANGED <<bookVars, credit, tokens, status, now>>
  BY DEF GrantTo
<1>6. BooksTypeOK' /\ VenueTypeOK'
  BY <1>4, <1>5 DEF TypeOK, BooksTypeOK, VenueTypeOK, bookVars, tallyVars
<1> QED
  BY <1>3, <1>4, <1>6 DEF TypeOK

LEMMA FundTypeOK ==
  ASSUME TypeOK, NEW o \in Owners, NEW g \in GrantIds, NEW n \in Amounts,
         FundGrant(o, g, n)
  PROVE  TypeOK'
<1>1. n \in Nat
  BY VaultAssumption
<1>2. grants' \in Seq(Grant) /\ Len(grants') = Len(grants)
  BY <1>1, FundEffect DEF TypeOK
<1>3. UNCHANGED <<otherAccountVars, activeGrantOf, spentOn, delegated, bookVars, venueVars,
                  now, credited>>
  BY DEF FundGrant
<1>4. GrantsTypeOK' /\ BooksTypeOK' /\ VenueTypeOK'
  BY <1>2, <1>3
  DEF TypeOK, GrantsTypeOK, BooksTypeOK, VenueTypeOK, bookVars, tallyVars, venueVars
<1>5. available' \in [Owners -> Nat]
  BY <1>1 DEF FundGrant, Has, TypeOK, AccountsTypeOK
<1>6. AccountsTypeOK'
  BY <1>3, <1>5 DEF TypeOK, AccountsTypeOK, otherAccountVars
<1> QED
  BY <1>4, <1>6 DEF TypeOK

LEMMA RevokeTypeOK ==
  ASSUME TypeOK, NEW o \in Owners, NEW g \in GrantIds, Revoke(o, g)
  PROVE  TypeOK'
<1>1. grants' \in Seq(Grant) /\ Len(grants') = Len(grants)
  BY RevokedEffect DEF TypeOK, Revoke
<1>2. UNCHANGED <<otherAccountVars, spentOn, delegated, bookVars, venueVars, now, credited>>
  BY DEF Revoke
<1>3. activeGrantOf' \in [Owners -> [GrantKinds -> Nat]]
  <2>1. grants[g].kind \in GrantKinds
    BY GrantFields DEF TypeOK
  <2> QED
    BY <2>1 DEF Revoke, TypeOK, GrantsTypeOK
<1>4. GrantsTypeOK' /\ BooksTypeOK' /\ VenueTypeOK'
  BY <1>1, <1>2, <1>3
  DEF TypeOK, GrantsTypeOK, BooksTypeOK, VenueTypeOK, bookVars, tallyVars, venueVars
<1>5. Returned(g) \in Nat
  BY GrantFields DEF Returned, TypeOK
<1>6. available' \in [Owners -> Nat]
  BY <1>5 DEF Revoke, TypeOK, AccountsTypeOK
<1>7. AccountsTypeOK'
  BY <1>2, <1>6 DEF TypeOK, AccountsTypeOK, otherAccountVars
<1> QED
  BY <1>4, <1>7 DEF TypeOK

-----------------------------------------------------------------------------
(* Type correctness of trading and settlement.                             *)

LEMMA EscrowType ==
  ASSUME NEW s \in Sides, NEW price \in Prices, NEW q \in Quantities
  PROVE  Escrow(s, price, q) \in Nat
<1>1. SidePrice(s, price) \in Nat
  BY VaultAssumption DEF SidePrice
<1>2. q * SidePrice(s, price) \in Nat
  BY <1>1, VaultAssumption
<1> QED
  BY <1>2, VaultAssumption DEF Escrow

LEMMA DrawTypes ==
  ASSUME VenueTypeOK, NEW m \in Markets, NEW worst \in Nat, NEW cost \in Nat,
         NEW toCredit \in BOOLEAN, PoolDraw(m, worst, cost, toCredit)
  PROVE  wallet' \in Nat /\ credit' \in [Markets -> Nat]
BY DEF PoolDraw, VenueTypeOK

LEMMA PayTypes ==
  ASSUME VenueTypeOK, NEW m \in Markets, NEW n \in Nat,
         NEW toCredit \in BOOLEAN, PoolPays(m, n, toCredit)
  PROVE  wallet' \in Nat /\ credit' \in [Markets -> Nat]
BY DEF PoolPays, VenueTypeOK

LEMMA FillTypes ==
  ASSUME NEW q \in Quantities, NEW worst \in Nat,
         NEW f \in BuyFills(q, worst) \cup SellFills(q)
  PROVE  f.cash \in Nat /\ f.tokens \in Nat /\ f.tokens <= q /\ q \in Nat
BY VaultAssumption DEF BuyFills, SellFills, Lots

LEMMA BoughtTypes ==
  ASSUME BooksTypeOK, NEW o \in Owners, NEW m \in Markets, NEW s \in Sides,
         NEW f, f.cash \in Nat, f.tokens \in Nat, NEW g \in Nat,
         Book(o, <<m, s>>, f, g), RecordBuy(o, m, s, f)
  PROVE  BooksTypeOK'
<1>1. <<m, s>> \in Ids
  BY DEF Ids
<1>2. positionOf' \in [Owners -> [Ids -> Nat]] /\ positionGrantOf' \in [Owners -> [Ids -> Nat]]
  BY <1>1 DEF Book, BooksTypeOK
<1>3. fillCount' \in [Owners -> [Markets -> Nat]] /\ costBase' \in [Owners -> [Markets -> Nat]]
  BY DEF RecordBuy, CountFill, BooksTypeOK
<1>4. bought' \in [Owners -> [Ids -> Nat]]
  BY <1>1 DEF RecordBuy, BooksTypeOK
<1> QED
  BY <1>2, <1>3, <1>4 DEF RecordBuy, BooksTypeOK

LEMMA SoldTypes ==
  ASSUME BooksTypeOK, NEW o \in Owners, NEW m \in Markets, NEW s \in Sides,
         NEW f, f.cash \in Nat, f.tokens \in Nat,
         f.tokens <= positionOf[o][<<m, s>>],
         BookSale(o, <<m, s>>, f), RecordSale(o, m, s, f)
  PROVE  BooksTypeOK'
<1>1. <<m, s>> \in Ids
  BY DEF Ids
<1>2. positionOf' \in [Owners -> [Ids -> Nat]]
  BY <1>1 DEF BookSale, BooksTypeOK
<1>3. fillCount' \in [Owners -> [Markets -> Nat]] /\ proceedsBase' \in [Owners -> [Markets -> Nat]]
  BY DEF RecordSale, CountFill, BooksTypeOK
<1>4. sold' \in [Owners -> [Ids -> Nat]]
  BY <1>1 DEF RecordSale, BooksTypeOK
<1> QED
  BY <1>2, <1>3, <1>4 DEF RecordSale, BookSale, BooksTypeOK

LEMMA BuyTypeOK ==
  ASSUME TypeOK, NEW o \in Owners, NEW m \in Markets, NEW s \in Sides,
         NEW price \in Prices, NEW q \in Quantities, NEW toCredit \in Landings,
         NEW f \in BuyFills(q, Escrow(s, price, q)),
         Buy(o, m, s, price, q, f, toCredit)
  PROVE  TypeOK'
<1>1. f.cash \in Nat /\ f.tokens \in Nat
  BY EscrowType, FillTypes
<1>2. wallet' \in Nat /\ credit' \in [Markets -> Nat]
  BY <1>1, EscrowType, DrawTypes, VaultAssumption DEF Buy, TypeOK
<1>3. BooksTypeOK'
  BY <1>1, BoughtTypes DEF Buy, TypeOK, ATTENDED
<1>4. tokens' \in [Ids -> Int] /\ available' \in [Owners -> Nat]
  <2>1. tokens[<<m, s>>] + f.tokens \in Int
    BY <1>1 DEF TypeOK, VenueTypeOK, Ids
  <2>2. available[o] - f.cash \in Nat
    BY <1>1 DEF Buy, TypeOK, AccountsTypeOK
  <2> QED
    BY <2>1, <2>2 DEF Buy, TypeOK, VenueTypeOK, AccountsTypeOK
<1>5. UNCHANGED <<otherAccountVars, grantVars, status, now, credited>>
  BY DEF Buy
<1> QED
  BY <1>2, <1>3, <1>4, <1>5
  DEF TypeOK, AccountsTypeOK, GrantsTypeOK, VenueTypeOK, otherAccountVars, grantVars

(* A sale by the owner or by a delegate has the same effect.               *)
LEMMA SaleTypeOK ==
  ASSUME TypeOK, NEW o \in Owners, NEW m \in Markets, NEW s \in Sides,
         NEW q \in Quantities, NEW toCredit \in Landings, NEW f \in SellFills(q),
         Has(positionOf[o][<<m, s>>], q),
         PoolPays(m, f.cash, toCredit),
         tokens' = [tokens EXCEPT ![<<m, s>>] = @ - f.tokens],
         BookSale(o, <<m, s>>, f),
         RecordSale(o, m, s, f),
         UNCHANGED <<otherAccountVars, grantVars, status, now, credited>>
  PROVE  TypeOK'
<1>1. f.cash \in Nat /\ f.tokens \in Nat /\ f.tokens <= q /\ q \in Nat
  BY FillTypes
<1>2. positionOf[o][<<m, s>>] \in Nat /\ f.tokens <= positionOf[o][<<m, s>>]
  BY <1>1 DEF Has, TypeOK, BooksTypeOK, Ids
<1>3. wallet' \in Nat /\ credit' \in [Markets -> Nat]
  BY <1>1, PayTypes, VaultAssumption DEF TypeOK
<1>4. BooksTypeOK'
  BY <1>1, <1>2, SoldTypes DEF TypeOK
<1>5. tokens' \in [Ids -> Int] /\ available' \in [Owners -> Nat]
  <2>1. tokens[<<m, s>>] - f.tokens \in Int
    BY <1>1 DEF TypeOK, VenueTypeOK, Ids
  <2>2. available[o] + f.cash \in Nat
    BY <1>1 DEF TypeOK, AccountsTypeOK
  <2> QED
    BY <2>1, <2>2 DEF BookSale, TypeOK, VenueTypeOK, AccountsTypeOK
<1> QED
  BY <1>3, <1>4, <1>5
  DEF TypeOK, AccountsTypeOK, GrantsTypeOK, VenueTypeOK, otherAccountVars, grantVars

LEMMA BuyForTypeOK ==
  ASSUME TypeOK, NEW a \in Actors, NEW g \in GrantIds, NEW m \in Markets,
         NEW s \in Sides, NEW price \in Prices, NEW q \in Quantities,
         NEW toCredit \in Landings, NEW f \in BuyFills(q, Escrow(s, price, q)),
         BuyFor(a, g, m, s, price, q, f, toCredit)
  PROVE  TypeOK'
<1> DEFINE o == grants[g].owner
           opened == Opens(o, <<m, s>>, f)
<1>1. f.cash \in Nat /\ f.tokens \in Nat
  BY EscrowType, FillTypes
<1>2. o \in Owners /\ g \in Nat
  BY GrantFields DEF TypeOK, GrantIds
<1>3. wallet' \in Nat /\ credit' \in [Markets -> Nat]
  BY <1>1, EscrowType, DrawTypes, VaultAssumption DEF BuyFor, TypeOK
<1>4. BooksTypeOK'
  BY <1>1, <1>2, BoughtTypes DEF BuyFor, TypeOK
<1>5. grants' \in Seq(Grant) /\ Len(grants') = Len(grants)
  <2>1. opened \in BOOLEAN
    BY DEF Opens
  <2> QED
    BY <1>1, <2>1, SpendEffect DEF BuyFor, TypeOK
<1>6. spentOn' \in [1..MaxGrants -> [Days -> Nat]]
  <2>0. Today \in Days
    BY TodayIsADay DEF TypeOK
  <2>1. g \in 1..MaxGrants
    BY VaultAssumption DEF TypeOK, GrantsTypeOK, GrantIds
  <2>2. spentOn' = [spentOn EXCEPT ![g][Today] = @ + f.cash]
    BY DEF BuyFor, Spend
  <2> QED
    BY <1>1, <2>0, <2>1, <2>2 DEF TypeOK, GrantsTypeOK
<1>7. tokens' \in [Ids -> Int]
  <2>1. tokens[<<m, s>>] + f.tokens \in Int
    BY <1>1 DEF TypeOK, VenueTypeOK, Ids
  <2> QED
    BY <2>1 DEF BuyFor, TypeOK, VenueTypeOK
<1>8. UNCHANGED <<accountVars, activeGrantOf, status, now, credited>>
  BY DEF BuyFor
<1>9. delegated' \in [Owners -> Nat]
  BY <1>1, <1>2 DEF BuyFor, TypeOK, GrantsTypeOK
<1> QED
  BY <1>3, <1>4, <1>5, <1>6, <1>7, <1>8, <1>9
  DEF TypeOK, AccountsTypeOK, GrantsTypeOK, VenueTypeOK, accountVars, otherAccountVars

LEMMA PayoutType ==
  ASSUME BooksTypeOK, NEW o \in Owners, NEW m \in Markets
  PROVE  Payout(o, m) \in Nat
<1>1. \A s \in Sides : positionOf[o][<<m, s>>] \in Nat
  BY DEF BooksTypeOK, Ids
<1>2. \A n \in Nat, s \in Sides : Redeemed(m, s, n) \in Nat
  BY DEF Redeemed
<1> QED
  BY <1>1, <1>2 DEF Payout, Sides

LEMMA CrankTypeOK ==
  ASSUME TypeOK, NEW o \in Owners, NEW m \in Markets, NEW toCredit \in Landings,
         CrankSettle(o, m, toCredit)
  PROVE  TypeOK'
<1>1. Payout(o, m) \in Nat
  BY PayoutType DEF TypeOK
<1>2. wallet' \in Nat /\ credit' \in [Markets -> Nat]
  BY <1>1, PayTypes, VaultAssumption DEF CrankSettle, TypeOK
<1>3. grants' \in Seq(Grant) /\ Len(grants') = Len(grants)
  BY CrankEffect, VaultAssumption DEF TypeOK
<1>4. tokens' \in [Ids -> Int]
  BY DEF CrankSettle, TypeOK, VenueTypeOK, BooksTypeOK
<1>5. positionOf' \in [Owners -> [Ids -> Nat]] /\ positionGrantOf' \in [Owners -> [Ids -> Nat]]
  BY DEF CrankSettle, TypeOK, BooksTypeOK, ATTENDED
<1>6. available' \in [Owners -> Nat] /\ payoutBase' \in [Owners -> [Markets -> Nat]]
  BY <1>1 DEF CrankSettle, TypeOK, AccountsTypeOK, BooksTypeOK
<1>7. UNCHANGED <<otherAccountVars, costBase, proceedsBase, fillCount, bought, sold,
                  activeGrantOf, spentOn, delegated, status, now, credited>>
  BY DEF CrankSettle
<1> QED
  BY <1>2, <1>3, <1>4, <1>5, <1>6, <1>7
  DEF TypeOK, AccountsTypeOK, GrantsTypeOK, BooksTypeOK, VenueTypeOK, otherAccountVars

LEMMA VenueStepTypeOK ==
  ASSUME TypeOK,
         \/ \E m \in Markets : Sweep(m)
         \/ \E m \in Markets, s \in Statuses : SetStatus(m, s)
         \/ Tick
         \/ UNCHANGED vars
  PROVE  TypeOK'
<1>1. UNCHANGED <<accountVars, grantVars, bookVars, tokens, credited>>
  BY DEF Sweep, SetStatus, Tick, venueVars, vars
<1>2. AccountsTypeOK' /\ GrantsTypeOK' /\ BooksTypeOK'
  BY <1>1 DEF TypeOK, AccountsTypeOK, GrantsTypeOK, BooksTypeOK, accountVars,
              otherAccountVars, grantVars, bookVars, tallyVars
<1>3. VenueTypeOK'
  BY VaultAssumption DEF TypeOK, VenueTypeOK, Sweep, SetStatus, Tick, venueVars, vars
<1> QED
  BY <1>2, <1>3 DEF TypeOK

-----------------------------------------------------------------------------
(* Lent money stays reachable.                                             *)

\* The step keeps every grant's owner and kind, ends none, and moves no
\* money into or out of a revoked one.
GrantsKept ==
  /\ Len(grants') = Len(grants)
  /\ \A g \in GrantIds :
       /\ grants'[g].owner = grants[g].owner
       /\ grants'[g].kind = grants[g].kind
       /\ grants'[g].revoked = grants[g].revoked
       /\ grants[g].revoked => grants'[g].budget = grants[g].budget
  /\ activeGrantOf' = activeGrantOf

LEMMA KeptReachable ==
  ASSUME BudgetsAreReachable, GrantsKept
  PROVE  BudgetsAreReachable'
BY DEF BudgetsAreReachable, GrantsKept, GrantIds

LEMMA FundReachable ==
  ASSUME TypeOK, BudgetsAreReachable, NEW o \in Owners, NEW g \in GrantIds,
         NEW n \in Amounts, FundGrant(o, g, n)
  PROVE  BudgetsAreReachable'
<1>1. n \in Nat
  BY VaultAssumption
<1>2. /\ Len(grants') = Len(grants)
      /\ grants'[g] = Funded(g, n)
      /\ \A h \in GrantIds : h # g => grants'[h] = grants[h]
  BY <1>1, FundEffect DEF TypeOK
<1>3. /\ Funded(g, n).owner = grants[g].owner
      /\ Funded(g, n).kind = grants[g].kind
      /\ Funded(g, n).revoked = grants[g].revoked
  BY GrantFields DEF Funded, Grant, TypeOK
<1>4. ~grants[g].revoked /\ activeGrantOf' = activeGrantOf
  BY DEF FundGrant, Live
<1>5. GrantsKept
  BY <1>2, <1>3, <1>4 DEF GrantsKept
<1> QED
  BY <1>5, KeptReachable

LEMMA BuyForReachable ==
  ASSUME TypeOK, BudgetsAreReachable, NEW a \in Actors, NEW g \in GrantIds,
         NEW m \in Markets, NEW s \in Sides, NEW price \in Prices,
         NEW q \in Quantities, NEW toCredit \in Landings,
         NEW f \in BuyFills(q, Escrow(s, price, q)),
         BuyFor(a, g, m, s, price, q, f, toCredit)
  PROVE  BudgetsAreReachable'
<1> DEFINE opened == Opens(grants[g].owner, <<m, s>>, f)
<1>1. f.cash \in Nat /\ opened \in BOOLEAN
  BY EscrowType, FillTypes DEF Opens
<1>2. Spend(g, f.cash, opened)
  BY DEF BuyFor
<1> HIDE DEF opened
<1>3. /\ Len(grants') = Len(grants)
      /\ grants'[g] = Charged(g, f.cash, opened)
      /\ \A h \in GrantIds : h # g => grants'[h] = grants[h]
  BY <1>1, <1>2, SpendEffect DEF TypeOK
<1>4. /\ Charged(g, f.cash, opened).owner = grants[g].owner
      /\ Charged(g, f.cash, opened).kind = grants[g].kind
      /\ Charged(g, f.cash, opened).revoked = grants[g].revoked
  BY GrantFields DEF Charged, Grant, TypeOK
<1>5. ~grants[g].revoked /\ activeGrantOf' = activeGrantOf
  BY DEF BuyFor, Live
<1>6. GrantsKept
  BY <1>3, <1>4, <1>5 DEF GrantsKept
<1> QED
  BY <1>6, KeptReachable

LEMMA CrankReachable ==
  ASSUME TypeOK, BudgetsAreReachable, NEW o \in Owners, NEW m \in Markets,
         NEW toCredit \in Landings, CrankSettle(o, m, toCredit)
  PROVE  BudgetsAreReachable'
<1> DEFINE r(h) == [grants[h] EXCEPT !.openPositions = Minus(@, Closing(o, m, h))]
<1>1. Len(grants') = Len(grants) /\ \A h \in GrantIds : grants'[h] = r(h)
  BY CrankEffect, VaultAssumption DEF TypeOK
<1>2. ASSUME NEW h \in GrantIds
      PROVE  /\ r(h).owner = grants[h].owner /\ r(h).kind = grants[h].kind
             /\ r(h).revoked = grants[h].revoked /\ r(h).budget = grants[h].budget
  BY GrantFields DEF Grant, TypeOK
<1> HIDE DEF r
<1>3. activeGrantOf' = activeGrantOf
  BY DEF CrankSettle
<1>4. GrantsKept
  BY <1>1, <1>2, <1>3 DEF GrantsKept
<1> QED
  BY <1>4, KeptReachable

LEMMA EndedFields ==
  ASSUME GrantsTypeOK, NEW g \in GrantIds
  PROVE  /\ Ended(g).owner = grants[g].owner /\ Ended(g).kind = grants[g].kind
         /\ Ended(g).revoked = TRUE /\ Ended(g).budget = 0
         /\ Ended(g).caps = grants[g].caps
         /\ Ended(g).spentDay = grants[g].spentDay
         /\ Ended(g).spentToday = grants[g].spentToday
         /\ Ended(g).openPositions = grants[g].openPositions
BY GrantFields DEF Grant, Ended

LEMMA RevokeReachable ==
  ASSUME TypeOK, BudgetsAreReachable, NEW o \in Owners, NEW g \in GrantIds,
         Revoke(o, g)
  PROVE  BudgetsAreReachable'
<1> DEFINE k == grants[g].kind
<1>1. /\ Len(grants') = Len(grants)
      /\ grants'[g] = Ended(g)
      /\ \A h \in GrantIds : h # g => grants'[h] = grants[h]
  BY RevokedEffect DEF TypeOK, Revoke
<1>2. grants[g].owner = o /\ ~grants[g].revoked /\ k \in GrantKinds
  BY GrantFields DEF Revoke, TypeOK
<1>3. activeGrantOf[o][k] = g
  BY <1>2 DEF BudgetsAreReachable
<1>4. activeGrantOf' = [activeGrantOf EXCEPT ![o][k] = 0]
  BY <1>3 DEF Revoke
<1> HIDE DEF k
<1>5. /\ activeGrantOf'[o][k] = 0
      /\ \A p \in Owners, j \in GrantKinds :
           (p # o \/ j # k) => activeGrantOf'[p][j] = activeGrantOf[p][j]
  BY <1>2, <1>4 DEF TypeOK, GrantsTypeOK
<1>6. ASSUME NEW h \in GrantIds', ~grants'[h].revoked
      PROVE  activeGrantOf'[grants'[h].owner][grants'[h].kind] = h
  <2>1. h \in GrantIds /\ h # g
    BY <1>1, <1>6, EndedFields DEF GrantIds, TypeOK
  <2>2. /\ grants'[h] = grants[h]
        /\ activeGrantOf[grants[h].owner][grants[h].kind] = h
    BY <1>1, <1>6, <2>1 DEF BudgetsAreReachable
  <2>3. grants[h].owner # o \/ grants[h].kind # k
    BY <1>3, <2>1, <2>2 DEF k
  <2> QED
    BY <1>5, <2>1, <2>2, <2>3, GrantFields DEF TypeOK
<1>7. ASSUME NEW h \in GrantIds', grants'[h].revoked PROVE grants'[h].budget = 0
  <2>1. h \in GrantIds
    BY <1>1 DEF GrantIds
  <2>2. CASE h = g
    BY <1>1, <2>2, EndedFields DEF TypeOK
  <2>3. CASE h # g
    BY <1>1, <1>7, <2>1, <2>3 DEF BudgetsAreReachable
  <2> QED
    BY <2>2, <2>3
<1>8. ASSUME NEW p \in Owners, NEW j \in GrantKinds, activeGrantOf'[p][j] # 0
      PROVE  LET b == activeGrantOf'[p][j] IN
             /\ b \in GrantIds'
             /\ grants'[b].owner = p /\ grants'[b].kind = j /\ ~grants'[b].revoked
  <2>1. (p # o \/ j # k) /\ activeGrantOf'[p][j] = activeGrantOf[p][j]
    BY <1>5, <1>8
  <2>2. LET b == activeGrantOf[p][j] IN
        /\ b \in GrantIds
        /\ grants[b].owner = p /\ grants[b].kind = j /\ ~grants[b].revoked
    BY <1>8, <2>1 DEF BudgetsAreReachable
  <2>3. activeGrantOf[p][j] # g
    BY <1>2, <2>1, <2>2 DEF k
  <2> QED
    BY <1>1, <2>1, <2>2, <2>3 DEF GrantIds
<1> QED
  BY <1>6, <1>7, <1>8 DEF BudgetsAreReachable

LEMMA GrantToReachable ==
  ASSUME TypeOK, BudgetsAreReachable, NEW o \in Owners,
         NEW k \in SignedKinds, NEW a \in Actors, NEW caps \in CapsChoices,
         NEW expiry \in Nat, NEW n \in Nat, NEW intake \in Nat,
         GrantTo(o, k, a, caps, expiry, n, intake)
  PROVE  BudgetsAreReachable'
<1> DEFINE previous == activeGrantOf[o][k]
           kept == IF previous = 0 THEN grants ELSE Revoked(previous)
           id == Len(grants) + 1
           new == NewGrant(o, k, a, caps, expiry, n)
<1>0. k \in GrantKinds /\ Len(grants) \in Nat
  BY VaultAssumption DEF TypeOK, GrantsTypeOK
<1>1. /\ previous # 0 => previous \in GrantIds
      /\ Len(grants') = id
      /\ \A h \in GrantIds : grants'[h] = kept[h]
      /\ grants'[id] = new
  BY GrantToEffect DEF TypeOK
<1>2. new.owner = o /\ new.kind = k /\ new.revoked = FALSE
  BY DEF NewGrant
<1>3. ASSUME NEW h \in GrantIds, h # previous
      PROVE  grants'[h] = grants[h]
  BY <1>1, <1>3, RevokedEffect DEF TypeOK
<1>4. ASSUME previous # 0
      PROVE  grants'[previous] = Ended(previous)
  BY <1>1, <1>4, RevokedEffect DEF TypeOK
<1>5. previous # 0 => grants[previous].owner = o /\ grants[previous].kind = k
  BY <1>0 DEF BudgetsAreReachable
<1>6. activeGrantOf' = [activeGrantOf EXCEPT ![o][k] = id]
  BY DEF GrantTo
<1> HIDE DEF previous, kept, id, new
<1>7. /\ activeGrantOf'[o][k] = id
      /\ \A p \in Owners, j \in GrantKinds :
           (p # o \/ j # k) => activeGrantOf'[p][j] = activeGrantOf[p][j]
  BY <1>0, <1>6 DEF TypeOK, GrantsTypeOK
<1>8. ASSUME NEW h \in GrantIds'
      PROVE  IF grants'[h].revoked THEN grants'[h].budget = 0
             ELSE activeGrantOf'[grants'[h].owner][grants'[h].kind] = h
  <2>1. h = id \/ h \in GrantIds
    BY <1>0, <1>1 DEF GrantIds, id
  <2>2. CASE h = id
    BY <1>1, <1>2, <1>7, <2>2
  <2>3. CASE h \in GrantIds /\ h = previous
    <3>1. previous # 0
      BY <1>0, <2>3 DEF GrantIds
    <3> QED
      BY <1>4, <2>3, <3>1, EndedFields DEF TypeOK
  <2>4. CASE h \in GrantIds /\ h # previous
    <3>1. grants'[h] = grants[h]
      BY <1>3, <2>4
    <3>2. CASE grants[h].revoked
      BY <2>4, <3>1, <3>2 DEF BudgetsAreReachable
    <3>3. CASE ~grants[h].revoked
      <4>1. activeGrantOf[grants[h].owner][grants[h].kind] = h
        BY <2>4, <3>3 DEF BudgetsAreReachable
      <4>2. grants[h].owner # o \/ grants[h].kind # k
        BY <2>4, <4>1 DEF previous
      <4>3. grants[h].owner \in Owners /\ grants[h].kind \in GrantKinds
        BY <2>4, GrantFields DEF TypeOK
      <4> QED
        BY <1>7, <3>1, <3>3, <4>1, <4>2, <4>3
    <3> QED
      BY <3>2, <3>3
  <2> QED
    BY <2>1, <2>2, <2>3, <2>4
<1>9. ASSUME NEW p \in Owners, NEW j \in GrantKinds, activeGrantOf'[p][j] # 0
      PROVE  LET b == activeGrantOf'[p][j] IN
             /\ b \in GrantIds'
             /\ grants'[b].owner = p /\ grants'[b].kind = j /\ ~grants'[b].revoked
  <2>1. CASE p = o /\ j = k
    BY <1>0, <1>1, <1>2, <1>7, <2>1 DEF GrantIds, id
  <2>2. CASE p # o \/ j # k
    <3>1. activeGrantOf'[p][j] = activeGrantOf[p][j]
      BY <1>7, <2>2
    <3>2. LET b == activeGrantOf[p][j] IN
          /\ b \in GrantIds
          /\ grants[b].owner = p /\ grants[b].kind = j /\ ~grants[b].revoked
      BY <1>9, <3>1 DEF BudgetsAreReachable
    <3>3. activeGrantOf[p][j] # previous
      BY <1>5, <1>9, <2>2, <3>1, <3>2
    <3>4. activeGrantOf[p][j] \in GrantIds'
      BY <1>0, <1>1, <3>2 DEF GrantIds, id
    <3> QED
      BY <1>3, <3>1, <3>2, <3>3, <3>4
  <2> QED
    BY <2>1, <2>2
<1> QED
  BY <1>8, <1>9 DEF BudgetsAreReachable

-----------------------------------------------------------------------------
(* The daily cap.                                                          *)

DayInv == DailyCapHolds /\ DayBooks

\* The step spends nothing: the records' day counters and caps stay, the
\* history stays, and time does not run backwards.
NothingSpent ==
  /\ Len(grants') = Len(grants)
  /\ \A g \in GrantIds :
       /\ grants'[g].spentDay = grants[g].spentDay
       /\ grants'[g].spentToday = grants[g].spentToday
       /\ grants'[g].caps = grants[g].caps
  /\ spentOn' = spentOn
  /\ Today' >= Today

LEMMA TodayNat ==
  ASSUME VenueTypeOK
  PROVE  Today \in Nat
BY TodayIsADay, VaultAssumption, DayMonotone DEF Days

LEMMA NothingSpentDays ==
  ASSUME TypeOK, TypeOK', DayInv, NothingSpent
  PROVE  DayInv'
<1>1. Today \in Nat /\ Today' \in Nat
  <2>1. now \in Nat /\ now' \in Nat
    BY VaultAssumption DEF TypeOK, VenueTypeOK
  <2>2. \A t \in Nat : t \div DayLength \in Nat
    BY VaultAssumption, DayMonotone
  <2> QED
    BY <2>1, <2>2 DEF Today
<1>2. \A g \in GrantIds : grants[g].spentDay \in Nat
  BY GrantFields DEF TypeOK
<1>3. DailyCapHolds'
  BY DEF DayInv, NothingSpent, DailyCapHolds, GrantIds
<1>4. DayBooks'
  BY <1>1, <1>2 DEF DayInv, NothingSpent, DayBooks, GrantIds
<1> QED
  BY <1>3, <1>4 DEF DayInv

LEMMA GrantToDays ==
  ASSUME TypeOK, TypeOK', BudgetsAreReachable, DayInv, NEW o \in Owners,
         NEW k \in SignedKinds, NEW a \in Actors, NEW caps \in CapsChoices,
         NEW expiry \in Nat, NEW n \in Nat, NEW intake \in Nat,
         GrantTo(o, k, a, caps, expiry, n, intake)
  PROVE  DayInv'
<1> DEFINE previous == activeGrantOf[o][k]
           kept == IF previous = 0 THEN grants ELSE Revoked(previous)
           id == Len(grants) + 1
           new == NewGrant(o, k, a, caps, expiry, n)
<1>1. /\ Len(grants) \in Nat /\ id \in 1..MaxGrants /\ 0 \in Days /\ Today \in Nat
      /\ \A d \in Days : d \in Nat
  <2>1. Len(grants) \in Nat /\ Len(grants) < MaxGrants /\ MaxGrants \in Nat
    BY VaultAssumption DEF TypeOK, GrantsTypeOK, GrantTo
  <2>2. MaxTime \div DayLength \in Nat
    BY VaultAssumption, DayMonotone
  <2> QED
    BY <2>1, <2>2, TodayNat DEF TypeOK, Days
<1>2. /\ previous # 0 => previous \in GrantIds
      /\ Len(grants') = id
      /\ \A h \in GrantIds : grants'[h] = kept[h]
      /\ grants'[id] = new
  BY GrantToEffect DEF TypeOK
<1>3. ASSUME NEW h \in GrantIds
      PROVE  /\ grants'[h].spentDay = grants[h].spentDay
             /\ grants'[h].spentToday = grants[h].spentToday
             /\ grants'[h].caps = grants[h].caps
  <2>1. CASE previous = 0 \/ h # previous
    BY <1>2, <2>1, RevokedEffect DEF TypeOK
  <2>2. CASE previous # 0 /\ h = previous
    <3>1. grants'[h] = Ended(h)
      BY <1>2, <2>2, RevokedEffect DEF TypeOK
    <3> QED
      BY <3>1, EndedFields DEF TypeOK
  <2> QED
    BY <2>1, <2>2
<1>4. spentOn' = spentOn /\ Today' = Today
  BY DEF GrantTo, Today
<1>5. new.spentDay = 0 /\ new.spentToday = 0 /\ new.caps = caps
  BY DEF NewGrant
<1>6. caps.maxDailySpend \in Nat
  BY VaultAssumption DEF Caps
<1>7. \A d \in Days : spentOn[id][d] = 0
  BY <1>1 DEF DayInv, DayBooks, id
<1> HIDE DEF previous, kept, id, new
<1>8. \A h \in GrantIds' : h = id \/ h \in GrantIds
  BY <1>1, <1>2 DEF GrantIds, id
<1>9. DailyCapHolds'
  <2> SUFFICES ASSUME NEW h \in GrantIds', NEW d \in DOMAIN spentOn'[h]
               PROVE  spentOn'[h][d] <= grants'[h].caps.maxDailySpend
    BY DEF DailyCapHolds
  <2>1. CASE h = id
    <3>1. d \in Days
      BY <1>1, <1>4, <2>1 DEF TypeOK, GrantsTypeOK
    <3> QED
      BY <1>2, <1>4, <1>5, <1>6, <1>7, <2>1, <3>1
  <2>2. CASE h \in GrantIds
    BY <1>3, <1>4, <2>2 DEF DayInv, DailyCapHolds
  <2> QED
    BY <1>8, <2>1, <2>2
<1>10. DayBooks'
  <2>1. ASSUME NEW h \in GrantIds'
        PROVE  /\ grants'[h].spentDay <= Today'
               /\ spentOn'[h][grants'[h].spentDay] = grants'[h].spentToday
               /\ \A d \in Days : d > grants'[h].spentDay => spentOn'[h][d] = 0
    <3>1. CASE h = id
      BY <1>1, <1>2, <1>4, <1>5, <1>7, <3>1
    <3>2. CASE h \in GrantIds
      BY <1>3, <1>4, <3>2 DEF DayInv, DayBooks
    <3> QED
      BY <1>8, <3>1, <3>2
  <2>2. ASSUME NEW h \in 1..MaxGrants, h > Len(grants'), NEW d \in Days
        PROVE  spentOn'[h][d] = 0
    BY <1>1, <1>2, <1>4, <2>2 DEF DayInv, DayBooks, id
  <2> QED
    BY <2>1, <2>2 DEF DayBooks
<1> QED
  BY <1>9, <1>10 DEF DayInv

LEMMA SpendDays ==
  ASSUME TypeOK, DayInv, NEW g \in GrantIds, NEW n \in Nat, NEW opened \in BOOLEAN,
         Spend(g, n, opened), now' = now
  PROVE  DayInv'
<1> DEFINE c == Charged(g, n, opened)
           total == SpentToday(g) + n
<1>1. Today \in Nat /\ Today \in Days /\ Today' = Today /\ \A d \in Days : d \in Nat
  BY TodayNat, TodayIsADay DEF TypeOK, Days, Today
<1>2. /\ Len(grants') = Len(grants)
      /\ grants'[g] = c
      /\ \A h \in GrantIds : h # g => grants'[h] = grants[h]
  BY SpendEffect DEF TypeOK
<1>3. c.spentDay = Today /\ c.spentToday = total /\ c.caps = grants[g].caps
  BY GrantFields DEF Charged, Grant, TypeOK
<1>4. g \in 1..MaxGrants /\ g <= Len(grants) /\ Len(grants) \in Nat
  BY VaultAssumption DEF TypeOK, GrantsTypeOK, GrantIds
<1>5. /\ spentOn'[g][Today] = spentOn[g][Today] + n
      /\ \A d \in Days : d # Today => spentOn'[g][d] = spentOn[g][d]
      /\ \A h \in 1..MaxGrants : h # g => spentOn'[h] = spentOn[h]
  BY <1>1, <1>4 DEF Spend, TypeOK, GrantsTypeOK
<1>6. grants[g].spentDay \in Nat /\ grants[g].spentToday \in Nat
  BY GrantFields DEF TypeOK
<1>7. spentOn[g][Today] = SpentToday(g)
  <2>1. CASE grants[g].spentDay = Today
    BY <2>1 DEF SpentToday, DayInv, DayBooks
  <2>2. CASE grants[g].spentDay # Today
    <3>1. Today > grants[g].spentDay
      BY <1>1, <1>6, <2>2 DEF DayInv, DayBooks
    <3> QED
      BY <1>1, <2>2, <3>1 DEF SpentToday, DayInv, DayBooks
  <2> QED
    BY <2>1, <2>2
<1>8. total <= grants[g].caps.maxDailySpend
  BY DEF Spend
<1> HIDE DEF c, total
<1>9. spentOn'[g][Today] = total
  BY <1>5, <1>7 DEF total
<1>10. GrantIds' = GrantIds
  BY <1>2 DEF GrantIds
<1>11. ASSUME NEW h \in GrantIds
       PROVE  h \in 1..MaxGrants /\ DOMAIN spentOn[h] = Days /\ DOMAIN spentOn'[h] = Days
  <2>1. h \in 1..MaxGrants
    BY <1>4, VaultAssumption DEF GrantIds, TypeOK, GrantsTypeOK
  <2>2. DOMAIN spentOn[h] = Days
    BY <2>1 DEF TypeOK, GrantsTypeOK
  <2>3. spentOn' = [spentOn EXCEPT ![g][Today] = @ + n]
    BY DEF Spend
  <2>4. DOMAIN spentOn = 1..MaxGrants
    BY DEF TypeOK, GrantsTypeOK
  <2>5. DOMAIN spentOn'[h] = DOMAIN spentOn[h]
    BY <2>1, <2>3, <2>4
  <2> QED
    BY <2>1, <2>2, <2>5
<1>12. DailyCapHolds'
  <2> SUFFICES ASSUME NEW h \in GrantIds, NEW d \in Days
               PROVE  spentOn'[h][d] <= grants'[h].caps.maxDailySpend
    BY <1>10, <1>11 DEF DailyCapHolds
  <2>0. spentOn[h][d] <= grants[h].caps.maxDailySpend
    BY <1>11 DEF DayInv, DailyCapHolds
  <2>1. CASE h = g /\ d = Today
    BY <1>2, <1>3, <1>8, <1>9, <2>1
  <2>2. CASE h = g /\ d # Today
    BY <1>2, <1>3, <1>5, <2>0, <2>2
  <2>3. CASE h # g
    BY <1>2, <1>5, <1>11, <2>0, <2>3
  <2> QED
    BY <2>1, <2>2, <2>3
<1>13. ASSUME NEW h \in GrantIds
       PROVE  /\ grants'[h].spentDay <= Today'
              /\ spentOn'[h][grants'[h].spentDay] = grants'[h].spentToday
              /\ \A d \in Days : d > grants'[h].spentDay => spentOn'[h][d] = 0
  <2>1. CASE h = g
    <3>1. ASSUME NEW d \in Days, d > Today PROVE spentOn'[g][d] = 0
      <4>1. d # Today /\ d > grants[g].spentDay
        BY <1>1, <1>6, <3>1 DEF DayInv, DayBooks
      <4> QED
        BY <1>5, <4>1 DEF DayInv, DayBooks
    <3> QED
      BY <1>1, <1>2, <1>3, <1>9, <2>1, <3>1
  <2>2. CASE h # g
    BY <1>1, <1>2, <1>5, <1>11, <2>2 DEF DayInv, DayBooks
  <2> QED
    BY <2>1, <2>2
<1>14. ASSUME NEW h \in 1..MaxGrants, h > Len(grants'), NEW d \in Days
       PROVE  spentOn'[h][d] = 0
  BY <1>2, <1>4, <1>5, <1>14 DEF DayInv, DayBooks
<1>15. DayBooks'
  BY <1>10, <1>13, <1>14 DEF DayBooks
<1> QED
  BY <1>12, <1>15 DEF DayInv

-----------------------------------------------------------------------------
(* The inductive invariant: one lemma per kind of step.                    *)

LEMMA SameDay == now' = now => Today' = Today
BY DEF Today

LEMMA FrameInv ==
  ASSUME Inv, TypeOK', UNCHANGED grantVars, now' = now \/ now' = now + 1
  PROVE  Inv'
<1>1. Today' >= Today
  <2>1. now \in Nat /\ now' \in Nat /\ now <= now'
    BY VaultAssumption DEF Inv, TypeOK, VenueTypeOK
  <2>2. (now \div DayLength) <= (now' \div DayLength)
    BY <2>1, VaultAssumption, DayMonotone
  <2> QED
    BY <2>1, <2>2, VaultAssumption, DayMonotone DEF Today
<1>2. NothingSpent
  BY <1>1 DEF NothingSpent, grantVars
<1>3. GrantsKept
  BY DEF GrantsKept, grantVars
<1> QED
  BY <1>2, <1>3, KeptReachable, NothingSpentDays DEF Inv, DayInv

LEMMA GrantToInv ==
  ASSUME Inv, NEW o \in Owners,
         NEW k \in SignedKinds, NEW a \in Actors, NEW caps \in CapsChoices,
         NEW expiry \in 1..(MaxTime + 1), NEW n \in {0} \cup Amounts,
         NEW intake \in {0} \cup Amounts,
         GrantTo(o, k, a, caps, expiry, n, intake)
  PROVE  Inv'
<1>1. n \in Nat /\ intake \in Nat /\ expiry \in Nat
  BY VaultAssumption
<1>2. TypeOK'
  BY GrantTypeOK DEF Inv
<1> QED
  BY <1>1, <1>2, GrantToReachable, GrantToDays DEF Inv, DayInv

LEMMA FundInv ==
  ASSUME Inv, NEW o \in Owners, NEW g \in GrantIds, NEW n \in Amounts,
         FundGrant(o, g, n)
  PROVE  Inv'
<1>1. TypeOK' /\ BudgetsAreReachable'
  BY FundTypeOK, FundReachable DEF Inv
<1>2. /\ n \in Nat
      /\ Len(grants') = Len(grants)
      /\ grants'[g] = Funded(g, n)
      /\ \A h \in GrantIds : h # g => grants'[h] = grants[h]
  BY VaultAssumption, FundEffect DEF Inv, TypeOK
<1>3. /\ Funded(g, n).spentDay = grants[g].spentDay
      /\ Funded(g, n).spentToday = grants[g].spentToday
      /\ Funded(g, n).caps = grants[g].caps
  BY GrantFields DEF Funded, Grant, Inv, TypeOK
<1>4. spentOn' = spentOn /\ Today' = Today /\ Today \in Nat
  BY SameDay, TodayNat DEF FundGrant, Inv, TypeOK
<1>5. NothingSpent
  BY <1>2, <1>3, <1>4 DEF NothingSpent
<1> QED
  BY <1>1, <1>5, NothingSpentDays DEF Inv, DayInv

LEMMA RevokeInv ==
  ASSUME Inv, NEW o \in Owners, NEW g \in GrantIds, Revoke(o, g)
  PROVE  Inv'
<1>1. TypeOK' /\ BudgetsAreReachable'
  BY RevokeTypeOK, RevokeReachable DEF Inv
<1>2. /\ Len(grants') = Len(grants)
      /\ grants'[g] = Ended(g)
      /\ \A h \in GrantIds : h # g => grants'[h] = grants[h]
  BY RevokedEffect DEF Revoke, Inv, TypeOK
<1>3. spentOn' = spentOn /\ Today' = Today /\ Today \in Nat
  BY SameDay, TodayNat DEF Revoke, Inv, TypeOK
<1>4. /\ Ended(g).spentDay = grants[g].spentDay
      /\ Ended(g).spentToday = grants[g].spentToday
      /\ Ended(g).caps = grants[g].caps
  BY EndedFields DEF Inv, TypeOK
<1>5. NothingSpent
  BY <1>2, <1>3, <1>4 DEF NothingSpent
<1> QED
  BY <1>1, <1>5, NothingSpentDays DEF Inv, DayInv

LEMMA CrankInv ==
  ASSUME Inv, NEW o \in Owners, NEW m \in Markets, NEW toCredit \in Landings,
         CrankSettle(o, m, toCredit)
  PROVE  Inv'
<1> DEFINE r(h) == [grants[h] EXCEPT !.openPositions = Minus(@, Closing(o, m, h))]
<1>1. TypeOK' /\ BudgetsAreReachable'
  BY CrankTypeOK, CrankReachable DEF Inv
<1>2. Len(grants') = Len(grants) /\ \A h \in GrantIds : grants'[h] = r(h)
  BY CrankEffect, VaultAssumption DEF Inv, TypeOK
<1>3. ASSUME NEW h \in GrantIds
      PROVE  /\ r(h).spentDay = grants[h].spentDay
             /\ r(h).spentToday = grants[h].spentToday
             /\ r(h).caps = grants[h].caps
  BY GrantFields DEF Grant, Inv, TypeOK
<1> HIDE DEF r
<1>4. spentOn' = spentOn /\ Today' = Today /\ Today \in Nat
  BY SameDay, TodayNat DEF CrankSettle, Inv, TypeOK
<1>5. NothingSpent
  BY <1>2, <1>3, <1>4 DEF NothingSpent
<1> QED
  BY <1>1, <1>5, NothingSpentDays DEF Inv, DayInv

LEMMA BuyForInv ==
  ASSUME Inv, NEW a \in Actors, NEW g \in GrantIds, NEW m \in Markets,
         NEW s \in Sides, NEW price \in Prices, NEW q \in Quantities,
         NEW toCredit \in Landings, NEW f \in BuyFills(q, Escrow(s, price, q)),
         BuyFor(a, g, m, s, price, q, f, toCredit)
  PROVE  Inv'
<1> DEFINE opened == Opens(grants[g].owner, <<m, s>>, f)
<1>1. TypeOK' /\ BudgetsAreReachable'
  BY BuyForTypeOK, BuyForReachable DEF Inv
<1>2. f.cash \in Nat /\ opened \in BOOLEAN
  BY EscrowType, FillTypes DEF Opens
<1>3. Spend(g, f.cash, opened) /\ now' = now
  BY DEF BuyFor
<1> HIDE DEF opened
<1>4. DayInv'
  BY <1>2, <1>3, SpendDays DEF Inv, DayInv
<1> QED
  BY <1>1, <1>4 DEF Inv, DayInv

LEMMA OwnerStepInv ==
  ASSUME Inv, NEW o \in Owners, OwnerMoney(o) \/ OwnerGrants(o) \/ OwnerTrades(o)
  PROVE  Inv'
<1>1. CASE OwnerMoney(o)
  <2> PICK n \in Amounts :
        \/ Deposit(o, n) \/ CreditFor(o, n) \/ CreditPrivateFor(o, n)
        \/ Withdraw(o, n) \/ MoveToPrivate(o, n) \/ WithdrawPrivate(o, n)
    BY <1>1 DEF OwnerMoney
  <2>1. UNCHANGED grantVars /\ now' = now
    BY DEF Deposit, CreditFor, CreditPrivateFor, Withdraw, MoveToPrivate, WithdrawPrivate
  <2>2. TypeOK'
    BY MoneyTypeOK DEF Inv
  <2> QED
    BY <2>1, <2>2, FrameInv
<1>2. CASE OwnerGrants(o)
  BY <1>2, GrantToInv, FundInv, RevokeInv DEF OwnerGrants
<1>3. CASE OwnerTrades(o)
  <2> PICK m \in Markets, s \in Sides, q \in Quantities, toCredit \in Landings :
        \/ \E price \in Prices : \E f \in BuyFills(q, Escrow(s, price, q)) :
             Buy(o, m, s, price, q, f, toCredit)
        \/ \E f \in SellFills(q) : Sell(o, m, s, q, f, toCredit)
    BY <1>3 DEF OwnerTrades
  <2>1. CASE \E price \in Prices : \E f \in BuyFills(q, Escrow(s, price, q)) :
               Buy(o, m, s, price, q, f, toCredit)
    <3>1. UNCHANGED grantVars /\ now' = now
      BY <2>1 DEF Buy
    <3>2. TypeOK'
      BY <2>1, BuyTypeOK DEF Inv
    <3> QED
      BY <3>1, <3>2, FrameInv
  <2>2. CASE \E f \in SellFills(q) : Sell(o, m, s, q, f, toCredit)
    <3>1. UNCHANGED grantVars /\ now' = now
      BY <2>2 DEF Sell
    <3>2. TypeOK'
      BY <2>2, SaleTypeOK DEF Inv, Sell
    <3> QED
      BY <3>1, <3>2, FrameInv
  <2> QED
    BY <2>1, <2>2
<1> QED
  BY <1>1, <1>2, <1>3

LEMMA DelegateStepInv ==
  ASSUME Inv, NEW a \in Actors, DelegateTrades(a)
  PROVE  Inv'
<1> PICK g \in GrantIds, m \in Markets, s \in Sides, q \in Quantities, toCredit \in Landings :
      \/ \E price \in Prices : \E f \in BuyFills(q, Escrow(s, price, q)) :
           BuyFor(a, g, m, s, price, q, f, toCredit)
      \/ \E f \in SellFills(q) : SellFor(a, g, m, s, q, f, toCredit)
  BY DEF DelegateTrades
<1>1. CASE \E price \in Prices : \E f \in BuyFills(q, Escrow(s, price, q)) :
             BuyFor(a, g, m, s, price, q, f, toCredit)
  BY <1>1, BuyForInv
<1>2. CASE \E f \in SellFills(q) : SellFor(a, g, m, s, q, f, toCredit)
  <2>1. UNCHANGED grantVars /\ now' = now
    BY <1>2 DEF SellFor
  <2>2. grants[g].owner \in Owners
    BY GrantFields DEF Inv, TypeOK
  <2>3. TypeOK'
    BY <1>2, <2>2, SaleTypeOK DEF Inv, SellFor
  <2> QED
    BY <2>1, <2>3, FrameInv
<1> QED
  BY <1>1, <1>2

LEMMA InvStep == Inv /\ [Next]_vars => Inv'
<1> SUFFICES ASSUME Inv, [Next]_vars PROVE Inv'
  OBVIOUS
<1>1. CASE \E o \in Owners : OwnerMoney(o) \/ OwnerGrants(o) \/ OwnerTrades(o)
  BY <1>1, OwnerStepInv
<1>2. CASE \E a \in Actors : DelegateTrades(a)
  BY <1>2, DelegateStepInv
<1>3. CASE \E o \in Owners, m \in Markets, toCredit \in Landings : CrankSettle(o, m, toCredit)
  BY <1>3, CrankInv
<1>4. CASE \/ \E m \in Markets : Sweep(m)
           \/ Venue \/ Tick \/ UNCHANGED vars
  <2>1. TypeOK'
    BY <1>4, VenueStepTypeOK DEF Inv, Venue
  <2>2. UNCHANGED grantVars /\ (now' = now \/ now' = now + 1)
    BY <1>4 DEF Sweep, Venue, SetStatus, Tick, vars
  <2> QED
    BY <2>1, <2>2, FrameInv
<1> QED
  BY <1>1, <1>2, <1>3, <1>4, VaultAssumption DEF Next, Anyone

LEMMA InitInv == Init => Inv
<1> SUFFICES ASSUME Init PROVE Inv
  OBVIOUS
<1>1. GrantIds = {}
  BY DEF Init, GrantIds
<1>2. BudgetsAreReachable
  BY <1>1 DEF Init, BudgetsAreReachable
<1>3. DailyCapHolds /\ DayBooks
  BY <1>1 DEF Init, DailyCapHolds, DayBooks
<1> QED
  BY <1>2, <1>3, InitTypeOK DEF Inv

(* Every state the vault reaches is of its types; every grant an owner has *)
(* not revoked is the one the vault shows as active for its kind and no    *)
(* revoked grant keeps money; and no grant's buys of one UTC day pass the  *)
(* daily cap its owner signed (`_grant`, `_revoke`, `_spend`).             *)
THEOREM VaultInvariant == Spec => []Inv
<1> QED
  BY InitInv, InvStep, PTL DEF Spec

(* Every variable keeps the type its Solidity declaration gives it.        *)
THEOREM TypeCorrect == Spec => []TypeOK
<1>1. Inv => TypeOK
  BY DEF Inv
<1> QED
  BY <1>1, VaultInvariant, PTL

(* An owner can always find, and take back, what a delegate may spend.     *)
THEOREM BudgetsReachable == Spec => []BudgetsAreReachable
<1>1. Inv => BudgetsAreReachable
  BY DEF Inv
<1> QED
  BY <1>1, VaultInvariant, PTL

(* The per-day spending of a grant stays within the cap its owner signed.  *)
THEOREM DailyCap == Spec => []DailyCapHolds
<1>1. Inv => DailyCapHolds
  BY DEF Inv
<1> QED
  BY <1>1, VaultInvariant, PTL

-----------------------------------------------------------------------------
(* The cap on open positions.                                              *)

\* The cap, and what makes it inductive: every position with tokens is
\* attributed to a grant that exists, so a new grant starts with none.
CapInv == Inv /\ AttributionIsKnown /\ PositionCapHolds

LEMMA HeldIsFinite ==
  ASSUME NEW S, S \subseteq Owners \X Ids
  PROVE  IsFiniteSet(S) /\ Cardinality(S) \in Nat
<1>1. IsFiniteSet(Sides)
  <2>1. Sides = 0..1
    BY DEF Sides
  <2>2. 0 \in Int /\ 1 \in Int
    OBVIOUS
  <2>3. IsFiniteSet(0..1)
    BY <2>2, FS_Interval, Zenon
  <2> QED
    BY <2>1, <2>3
<1>2. IsFiniteSet(Ids)
  BY <1>1, FS_Product, VaultAssumption DEF Ids
<1>3. IsFiniteSet(Owners \X Ids)
  BY <1>2, FS_Product, VaultAssumption
<1> QED
  BY <1>3, FS_Subset, FS_CardinalityType

(* Steps that leave every count and cap alone, add no grant, and let no    *)
(* grant hold more, keep the cap.                                          *)
LEMMA CapFrame ==
  ASSUME CapInv, Inv', Len(grants') = Len(grants), AttributionIsKnown',
         \A g \in GrantIds : /\ HeldUnder(g)' \subseteq HeldUnder(g)
                             /\ grants'[g].openPositions = grants[g].openPositions
                             /\ grants'[g].caps = grants[g].caps
  PROVE  CapInv'
<1>1. ASSUME NEW g \in GrantIds
      PROVE  /\ Cardinality(HeldUnder(g)') <= grants'[g].openPositions
             /\ grants'[g].openPositions <= grants'[g].caps.maxOpenPositions
  <2>1. HeldUnder(g)' \subseteq HeldUnder(g) /\ HeldUnder(g) \subseteq Owners \X Ids
    BY DEF HeldUnder
  <2>2. IsFiniteSet(HeldUnder(g)) /\ Cardinality(HeldUnder(g)) \in Nat
    BY <2>1, HeldIsFinite
  <2>3. Cardinality(HeldUnder(g)') \in Nat
    BY <2>1, HeldIsFinite
  <2>4. Cardinality(HeldUnder(g)') <= Cardinality(HeldUnder(g))
    BY <2>1, <2>2, FS_Subset
  <2>5. grants[g].openPositions \in Nat /\ grants[g].caps.maxOpenPositions \in Nat
    BY GrantFields DEF CapInv, Inv, TypeOK, Caps
  <2> QED
    BY <2>2, <2>3, <2>4, <2>5 DEF CapInv, PositionCapHolds
<1> QED
  BY <1>1 DEF CapInv, PositionCapHolds, GrantIds

LEMMA SameHoldings ==
  ASSUME UNCHANGED <<positionOf, positionGrantOf>>, CapInv, Len(grants') >= Len(grants),
         Len(grants) \in Nat, Len(grants') \in Nat
  PROVE  AttributionIsKnown' /\ \A g \in Nat : HeldUnder(g)' = HeldUnder(g)
BY DEF CapInv, AttributionIsKnown, HeldUnder, GrantIds

(* A new grant holds nothing yet; the one it replaces keeps its count.     *)
LEMMA GrantToCap ==
  ASSUME CapInv, Inv', NEW o \in Owners,
         NEW k \in SignedKinds, NEW a \in Actors, NEW caps \in CapsChoices,
         NEW expiry \in 1..(MaxTime + 1), NEW n \in {0} \cup Amounts,
         NEW intake \in {0} \cup Amounts,
         GrantTo(o, k, a, caps, expiry, n, intake)
  PROVE  CapInv'
<1> DEFINE previous == activeGrantOf[o][k]
           kept == IF previous = 0 THEN grants ELSE Revoked(previous)
           new == NewGrant(o, k, a, caps, expiry, n)
<1>0. /\ n \in Nat /\ intake \in Nat /\ expiry \in Nat /\ caps \in Caps
      /\ GrantsTypeOK /\ BudgetsAreReachable /\ Len(grants) \in Nat
  BY VaultAssumption DEF CapInv, Inv, TypeOK, GrantsTypeOK
<1>1. /\ previous # 0 => previous \in GrantIds
      /\ Len(grants') = Len(grants) + 1
      /\ \A h \in GrantIds : grants'[h] = kept[h]
      /\ grants'[Len(grants) + 1] = new
  BY <1>0, GrantToEffect
<1>2. new.openPositions = 0 /\ new.caps = caps /\ caps.maxOpenPositions \in Nat
  BY <1>0 DEF NewGrant, Caps
<1>3. ASSUME NEW h \in GrantIds
      PROVE  kept[h].openPositions = grants[h].openPositions /\ kept[h].caps = grants[h].caps
  <2>1. CASE previous = 0
    BY <2>1
  <2>2. CASE previous # 0
    <3>1. previous \in GrantIds /\ kept = Revoked(previous)
      BY <1>1, <2>2
    <3> HIDE DEF previous, kept
    <3>2. kept[h] = IF h = previous THEN Ended(previous) ELSE grants[h]
      BY <1>0, <3>1, RevokedEffect
    <3> QED
      BY <1>0, <3>1, <3>2, EndedFields
  <2> QED
    BY <2>1, <2>2
<1> HIDE DEF kept, new
<1>4. UNCHANGED <<positionOf, positionGrantOf>>
  BY DEF GrantTo, bookVars
<1>5. AttributionIsKnown' /\ \A g \in Nat : HeldUnder(g)' = HeldUnder(g)
  BY <1>0, <1>1, <1>4, SameHoldings
<1>6. ASSUME NEW g \in GrantIds
      PROVE  /\ Cardinality(HeldUnder(g)') <= grants'[g].openPositions
             /\ grants'[g].openPositions <= grants'[g].caps.maxOpenPositions
  BY <1>1, <1>3, <1>5 DEF CapInv, PositionCapHolds, GrantIds
<1> PICK i \in Nat : i = Len(grants) + 1
  BY <1>0
<1>7. HeldUnder(i)' = {}
  <2>1. HeldUnder(i) = {}
    BY <1>0 DEF HeldUnder, CapInv, AttributionIsKnown, GrantIds, ATTENDED
  <2> QED
    BY <1>5, <2>1
<1>8. /\ Cardinality(HeldUnder(i)') <= grants'[i].openPositions
      /\ grants'[i].openPositions <= grants'[i].caps.maxOpenPositions
  <2>1. grants'[i].openPositions = 0 /\ grants'[i].caps.maxOpenPositions \in Nat
    BY <1>1, <1>2
  <2>2. Cardinality(HeldUnder(i)') = 0
    BY <1>7, FS_EmptySet
  <2> QED
    BY <2>1, <2>2
<1>9. \A g \in 1..Len(grants') : g = i \/ g \in GrantIds
  BY <1>0, <1>1 DEF GrantIds
<1> QED
  BY <1>5, <1>6, <1>8, <1>9 DEF CapInv, PositionCapHolds, GrantIds

(* Only a fill into an empty position changes who holds it.                *)
LEMMA BookHoldings ==
  ASSUME CapInv, Len(grants') = Len(grants), NEW o \in Owners, NEW id \in Ids,
         NEW f, f.tokens \in Nat, NEW g \in {ATTENDED} \cup GrantIds, Book(o, id, f, g)
  PROVE  /\ AttributionIsKnown'
         /\ \A h \in GrantIds : h # g => HeldUnder(h)' = HeldUnder(h)
         /\ HeldUnder(g)' = IF Opens(o, id, f) THEN HeldUnder(g) \cup {<<o, id>>}
                            ELSE HeldUnder(g)
         /\ Opens(o, id, f) => <<o, id>> \notin HeldUnder(g)
<1> USE DEF HeldUnder
<1>0. positionOf \in [Owners -> [Ids -> Nat]] /\ positionGrantOf \in [Owners -> [Ids -> Nat]]
  BY DEF CapInv, Inv, TypeOK, BooksTypeOK
<1>1. /\ positionOf' = [positionOf EXCEPT ![o][id] = @ + f.tokens]
      /\ positionGrantOf' = IF Opens(o, id, f) THEN [positionGrantOf EXCEPT ![o][id] = g]
                            ELSE positionGrantOf
  BY DEF Book
<1>2. AttributionIsKnown'
  BY <1>0, <1>1 DEF CapInv, AttributionIsKnown, GrantIds
<1>3. CASE Opens(o, id, f)
  <2>1. positionOf[o][id] = 0 /\ f.tokens # 0
    BY <1>3 DEF Opens
  <2>2. \A p \in Owners, i \in Ids :
          /\ positionOf'[p][i] = IF p = o /\ i = id THEN f.tokens ELSE positionOf[p][i]
          /\ positionGrantOf'[p][i] = IF p = o /\ i = id THEN g ELSE positionGrantOf[p][i]
    BY <1>0, <1>1, <1>3, <2>1
  <2>3. \A h : \A p \in Owners, i \in Ids :
          <<p, i>> \in HeldUnder(h)'
            <=> IF p = o /\ i = id THEN h = g ELSE <<p, i>> \in HeldUnder(h)
    BY <2>1, <2>2
  <2>4. \A h : <<o, id>> \notin HeldUnder(h)
    BY <2>1
  <2>5. ASSUME NEW h, h # g PROVE HeldUnder(h)' = HeldUnder(h)
    <3>1. HeldUnder(h) \subseteq Owners \X Ids /\ HeldUnder(h)' \subseteq Owners \X Ids
      OBVIOUS
    <3> HIDE DEF HeldUnder
    <3>2. ASSUME NEW p \in Owners, NEW i \in Ids
          PROVE  <<p, i>> \in HeldUnder(h)' <=> <<p, i>> \in HeldUnder(h)
      <4>1. <<p, i>> \in HeldUnder(h)'
              <=> IF p = o /\ i = id THEN h = g ELSE <<p, i>> \in HeldUnder(h)
        BY <2>3
      <4>2. CASE p = o /\ i = id
        BY <2>4, <2>5, <4>1, <4>2
      <4> QED
        BY <4>1, <4>2
    <3> QED
      BY <3>1, <3>2
  <2>6. HeldUnder(g)' = HeldUnder(g) \cup {<<o, id>>}
    BY <2>3
  <2> QED
    BY <1>2, <1>3, <2>4, <2>5, <2>6
<1>4. CASE ~Opens(o, id, f)
  <2>1. f.tokens = 0 \/ positionOf[o][id] # 0
    BY <1>4 DEF Opens
  <2>2. \A p \in Owners, i \in Ids :
          /\ positionOf'[p][i] # 0 <=> positionOf[p][i] # 0
          /\ positionGrantOf'[p][i] = positionGrantOf[p][i]
    BY <1>0, <1>1, <1>4, <2>1
  <2>3. \A h : HeldUnder(h)' = HeldUnder(h)
    BY <2>2
  <2> QED
    BY <1>2, <1>4, <2>3
<1> QED
  BY <1>3, <1>4

(* A buy booked under nobody's grant, as an attended one is.               *)
LEMMA BuyCap ==
  ASSUME CapInv, Inv', NEW o \in Owners, NEW id \in Ids, NEW f, f.tokens \in Nat,
         NEW g \in {ATTENDED} \cup GrantIds, g \notin GrantIds,
         Book(o, id, f, g), grants' = grants
  PROVE  CapInv'
<1>1. Len(grants') = Len(grants)
  OBVIOUS
<1>2. /\ AttributionIsKnown'
      /\ \A h \in GrantIds : h # g => HeldUnder(h)' = HeldUnder(h)
      /\ HeldUnder(g)' = IF Opens(o, id, f) THEN HeldUnder(g) \cup {<<o, id>>}
                         ELSE HeldUnder(g)
      /\ Opens(o, id, f) => <<o, id>> \notin HeldUnder(g)
  BY <1>1, BookHoldings
<1>3. \A h \in GrantIds : HeldUnder(h)' = HeldUnder(h)
  BY <1>2
<1> QED
  BY <1>1, <1>2, <1>3, CapFrame

(* A sale can only empty a position.                                       *)
LEMMA SaleCap ==
  ASSUME CapInv, Inv', NEW o \in Owners, NEW id \in Ids,
         NEW q \in Quantities, NEW f \in SellFills(q), BookSale(o, id, f),
         Has(positionOf[o][id], q), grants' = grants
  PROVE  CapInv'
<1>0. positionOf \in [Owners -> [Ids -> Nat]] /\ positionGrantOf' = positionGrantOf
  BY DEF CapInv, Inv, TypeOK, BooksTypeOK, BookSale
<1>1. f.tokens \in Nat /\ f.tokens <= q /\ q \in Nat /\ q <= positionOf[o][id]
  BY FillTypes DEF Has
<1>2. positionOf' = [positionOf EXCEPT ![o][id] = @ - f.tokens]
  BY DEF BookSale
<1>3. \A p \in Owners, i \in Ids : positionOf'[p][i] # 0 => positionOf[p][i] # 0
  BY <1>0, <1>1, <1>2
<1>4. \A g : HeldUnder(g)' \subseteq HeldUnder(g)
  BY <1>0, <1>3 DEF HeldUnder
<1>5. AttributionIsKnown'
  BY <1>0 DEF CapInv, AttributionIsKnown, GrantIds
<1> QED
  BY <1>4, <1>5, CapFrame

(* A delegate's buy that opens a position is counted, within the cap.      *)
LEMMA BuyForCap ==
  ASSUME CapInv, Inv', NEW a \in Actors, NEW g \in GrantIds, NEW m \in Markets,
         NEW s \in Sides, NEW price \in Prices, NEW q \in Quantities,
         NEW toCredit \in Landings, NEW f \in BuyFills(q, Escrow(s, price, q)),
         BuyFor(a, g, m, s, price, q, f, toCredit)
  PROVE  CapInv'
<1> PICK o \in Owners : o = grants[g].owner
  BY GrantFields DEF CapInv, Inv, TypeOK
<1> DEFINE id == <<m, s>>
           opened == Opens(o, id, f)
<1>0. /\ f.cash \in Nat /\ f.tokens \in Nat /\ opened \in BOOLEAN /\ id \in Ids
      /\ GrantsTypeOK /\ VenueTypeOK
  BY EscrowType, FillTypes DEF Opens, Ids, CapInv, Inv, TypeOK
<1>1. Spend(g, f.cash, opened) /\ Book(o, id, f, g)
  BY DEF BuyFor
<1> HIDE DEF opened
<1>2. /\ Len(grants') = Len(grants) /\ grants'[g] = Charged(g, f.cash, opened)
      /\ \A h \in GrantIds : h # g => grants'[h] = grants[h]
  BY <1>0, <1>1, SpendEffect
<1>3. /\ Charged(g, f.cash, opened).caps = grants[g].caps
      /\ Charged(g, f.cash, opened).openPositions
         = IF opened THEN grants[g].openPositions + 1 ELSE grants[g].openPositions
  BY <1>0, GrantFields DEF Charged, Grant
<1> HIDE DEF id
<1>4. /\ AttributionIsKnown'
      /\ \A h \in GrantIds : h # g => HeldUnder(h)' = HeldUnder(h)
      /\ HeldUnder(g)' = IF opened THEN HeldUnder(g) \cup {<<o, id>>} ELSE HeldUnder(g)
      /\ opened => <<o, id>> \notin HeldUnder(g)
  BY <1>0, <1>1, <1>2, BookHoldings DEF opened
<1>5. opened => grants[g].openPositions + 1 <= grants[g].caps.maxOpenPositions
  BY <1>1 DEF Spend
<1>6. IsFiniteSet(HeldUnder(g)) /\ Cardinality(HeldUnder(g)) \in Nat
  BY HeldIsFinite DEF HeldUnder
<1>7. grants[g].openPositions \in Nat /\ grants[g].caps.maxOpenPositions \in Nat
  BY <1>0, GrantFields DEF Caps
<1>8. Cardinality(HeldUnder(g)) <= grants[g].openPositions
      /\ grants[g].openPositions <= grants[g].caps.maxOpenPositions
  BY DEF CapInv, PositionCapHolds
<1>9. /\ Cardinality(HeldUnder(g)') <= grants'[g].openPositions
      /\ grants'[g].openPositions <= grants'[g].caps.maxOpenPositions
  <2>1. CASE opened
    <3>1. Cardinality(HeldUnder(g)') = Cardinality(HeldUnder(g)) + 1
      BY <1>4, <1>6, <2>1, FS_AddElement
    <3> QED
      BY <1>2, <1>3, <1>5, <1>6, <1>7, <1>8, <2>1, <3>1
  <2>2. CASE ~opened
    BY <1>2, <1>3, <1>4, <1>8, <2>2
  <2> QED
    BY <2>1, <2>2
<1>10. ASSUME NEW h \in GrantIds, h # g
       PROVE  /\ Cardinality(HeldUnder(h)') <= grants'[h].openPositions
              /\ grants'[h].openPositions <= grants'[h].caps.maxOpenPositions
  BY <1>2, <1>4, <1>10 DEF CapInv, PositionCapHolds
<1> QED
  BY <1>2, <1>4, <1>9, <1>10 DEF CapInv, PositionCapHolds, GrantIds

(* Settlement closes as many positions of a grant as it takes off its      *)
(* count.                                                                  *)
LEMMA CrankCap ==
  ASSUME CapInv, Inv', NEW o \in Owners, NEW m \in Markets, NEW toCredit \in Landings,
         CrankSettle(o, m, toCredit)
  PROVE  CapInv'
<1>0. /\ GrantsTypeOK /\ toCredit \in BOOLEAN
      /\ positionOf \in [Owners -> [Ids -> Nat]] /\ positionGrantOf \in [Owners -> [Ids -> Nat]]
  BY VaultAssumption DEF CapInv, Inv, TypeOK, BooksTypeOK
<1>1. /\ Len(grants') = Len(grants)
      /\ \A h \in GrantIds :
           grants'[h] = [grants[h] EXCEPT !.openPositions = Minus(@, Closing(o, m, h))]
  BY <1>0, CrankEffect
<1>2. \A p \in Owners, id \in Ids :
        /\ positionOf'[p][id] = IF p = o /\ id \in SettledIds(o, m) THEN 0
                                ELSE positionOf[p][id]
        /\ positionGrantOf'[p][id] = IF p = o /\ id \in SettledIds(o, m) THEN ATTENDED
                                     ELSE positionGrantOf[p][id]
  BY <1>0 DEF CrankSettle
<1>3. AttributionIsKnown'
  BY <1>1, <1>2 DEF CapInv, AttributionIsKnown, GrantIds
<1> DEFINE x == <<o, <<m, 0>>>>
           y == <<o, <<m, 1>>>>
<1>4. ASSUME NEW g \in GrantIds
      PROVE  /\ Cardinality(HeldUnder(g)') <= grants'[g].openPositions
             /\ grants'[g].openPositions <= grants'[g].caps.maxOpenPositions
  <2>1. HeldUnder(g)' = (HeldUnder(g) \ {x}) \ {y}
    <3>1. \A p \in Owners, id \in Ids :
            <<p, id>> \in HeldUnder(g)'
              <=> <<p, id>> \in HeldUnder(g) /\ ~(p = o /\ id \in SettledIds(o, m))
      BY <1>2 DEF HeldUnder
    <3>2. \A id \in Ids : <<o, id>> \in HeldUnder(g) =>
            (id \in SettledIds(o, m) <=> (id = <<m, 0>> \/ id = <<m, 1>>))
      BY DEF HeldUnder, SettledIds, Sides
    <3>3. \A p \in Owners, id \in Ids :
            <<p, id>> \in HeldUnder(g)' <=> <<p, id>> \in (HeldUnder(g) \ {x}) \ {y}
      BY <3>1, <3>2
    <3>4. HeldUnder(g) \subseteq Owners \X Ids /\ HeldUnder(g)' \subseteq Owners \X Ids
      BY DEF HeldUnder
    <3> QED
      BY <3>3, <3>4
  <2>2. Closing(o, m, g) = (IF x \in HeldUnder(g) THEN 1 ELSE 0)
                           + (IF y \in HeldUnder(g) THEN 1 ELSE 0)
    <3>1. /\ x \in HeldUnder(g) <=> /\ positionGrantOf[o][<<m, 0>>] = g
                                    /\ <<m, 0>> \in SettledIds(o, m)
          /\ y \in HeldUnder(g) <=> /\ positionGrantOf[o][<<m, 1>>] = g
                                    /\ <<m, 1>> \in SettledIds(o, m)
      BY DEF HeldUnder, SettledIds, Sides, Ids
    <3>2. SettledIds(o, m) \subseteq {<<m, 0>>, <<m, 1>>} /\ {m} \X Sides = {<<m, 0>>, <<m, 1>>}
      BY DEF SettledIds, Sides
    <3> HIDE DEF x, y
    <3> QED
      BY <3>1, <3>2 DEF Closing
  <2>3. IsFiniteSet(HeldUnder(g)) /\ Cardinality(HeldUnder(g)) \in Nat
    BY HeldIsFinite DEF HeldUnder
  <2>4. Cardinality(HeldUnder(g)') = Cardinality(HeldUnder(g)) - Closing(o, m, g)
    <3> DEFINE A == HeldUnder(g) \ {x}
    <3>1. /\ IsFiniteSet(A)
          /\ Cardinality(A) = IF x \in HeldUnder(g) THEN Cardinality(HeldUnder(g)) - 1
                              ELSE Cardinality(HeldUnder(g))
      BY <2>3, FS_RemoveElement
    <3>2. x # y
      OBVIOUS
    <3>3. y \in A <=> y \in HeldUnder(g)
      BY <3>2
    <3> HIDE DEF x, y, A
    <3>4. Cardinality(A \ {y}) = IF y \in A THEN Cardinality(A) - 1 ELSE Cardinality(A)
      BY <3>1, FS_RemoveElement
    <3>5. HeldUnder(g)' = A \ {y}
      BY <2>1 DEF A
    <3> QED
      BY <2>2, <2>3, <3>1, <3>3, <3>4, <3>5
  <2>5. grants[g].openPositions \in Nat /\ grants[g].caps.maxOpenPositions \in Nat
    BY <1>0, GrantFields DEF Caps
  <2>6. Cardinality(HeldUnder(g)) <= grants[g].openPositions
        /\ grants[g].openPositions <= grants[g].caps.maxOpenPositions
    BY DEF CapInv, PositionCapHolds
  <2>7. grants'[g].caps = grants[g].caps
        /\ grants'[g].openPositions = Minus(grants[g].openPositions, Closing(o, m, g))
    BY <1>0, <1>1, GrantFields DEF Grant
  <2>8. Closing(o, m, g) \in Nat
    BY <2>2
  <2>9. Cardinality(HeldUnder(g)') \in Nat
    BY HeldIsFinite DEF HeldUnder
  <2> HIDE DEF x, y
  <2> QED
    BY <2>3, <2>4, <2>5, <2>6, <2>7, <2>8, <2>9 DEF Minus
<1> QED
  BY <1>1, <1>3, <1>4 DEF CapInv, PositionCapHolds, GrantIds

LEMMA CapStep == CapInv /\ [Next]_vars => CapInv'
<1> SUFFICES ASSUME CapInv, [Next]_vars PROVE CapInv'
  OBVIOUS
<1>0. Inv /\ TypeOK /\ GrantsTypeOK /\ Inv'
  BY InvStep DEF CapInv, Inv, TypeOK
<1>1. ASSUME UNCHANGED <<positionOf, positionGrantOf>>, Len(grants') = Len(grants),
             \A g \in GrantIds : /\ grants'[g].openPositions = grants[g].openPositions
                                 /\ grants'[g].caps = grants[g].caps
      PROVE  CapInv'
  <2>1. Len(grants) \in Nat
    BY <1>0 DEF GrantsTypeOK
  <2>2. AttributionIsKnown' /\ \A g \in Nat : HeldUnder(g)' = HeldUnder(g)
    BY <1>1, <2>1, SameHoldings
  <2> QED
    BY <1>0, <1>1, <2>2, CapFrame DEF GrantIds
<1>2. ASSUME NEW o \in Owners, OwnerMoney(o) PROVE CapInv'
  <2>1. UNCHANGED <<grants, positionOf, positionGrantOf>>
    BY <1>2 DEF OwnerMoney, Deposit, CreditFor, CreditPrivateFor, Withdraw,
                MoveToPrivate, WithdrawPrivate, grantVars, bookVars
  <2> QED
    BY <1>1, <2>1
<1>3. ASSUME NEW o \in Owners, NEW g \in GrantIds, NEW r \in Grant,
             grants' = [grants EXCEPT ![g] = r],
             r.caps = grants[g].caps, r.openPositions = grants[g].openPositions,
             UNCHANGED bookVars
      PROVE  CapInv'
  <2>1. /\ Len(grants') = Len(grants) /\ grants'[g] = r
        /\ \A h \in GrantIds : h # g => grants'[h] = grants[h]
    BY <1>0, <1>3, GrantUpdate
  <2> QED
    BY <1>1, <1>3, <2>1 DEF bookVars
<1>4. ASSUME NEW o \in Owners, OwnerGrants(o) PROVE CapInv'
  <2>1. ASSUME NEW g \in GrantIds, NEW n \in Amounts, FundGrant(o, g, n) PROVE CapInv'
    <3>1. n \in Nat
      BY VaultAssumption
    <3>2. /\ Funded(g, n) \in Grant /\ Funded(g, n).caps = grants[g].caps
          /\ Funded(g, n).openPositions = grants[g].openPositions
      BY <1>0, <3>1, GrantFields DEF Grant, Funded
    <3> QED
      BY <1>3, <2>1, <3>2 DEF FundGrant
  <2>2. ASSUME NEW g \in GrantIds, Revoke(o, g) PROVE CapInv'
    <3>1. Ended(g) \in Grant
      BY <1>0, GrantFields DEF Grant, Ended
    <3> QED
      BY <1>0, <1>3, <2>2, <3>1, EndedFields DEF Revoke, Revoked
  <2> QED
    BY <1>0, <1>4, <2>1, <2>2, GrantToCap DEF OwnerGrants
<1>5. ASSUME NEW o \in Owners, OwnerTrades(o) PROVE CapInv'
  <2>1. ASSUME NEW m \in Markets, NEW s \in Sides, NEW price \in Prices, NEW q \in Quantities,
               NEW toCredit \in Landings, NEW f \in BuyFills(q, Escrow(s, price, q)),
               Buy(o, m, s, price, q, f, toCredit)
        PROVE  CapInv'
    <3>1. f.tokens \in Nat /\ <<m, s>> \in Ids /\ grants' = grants
      BY <2>1, EscrowType, FillTypes DEF Ids, Buy, grantVars
    <3>2. Book(o, <<m, s>>, f, ATTENDED) /\ Len(grants') = Len(grants)
      BY <2>1, <3>1 DEF Buy
    <3>3. ATTENDED \in {ATTENDED} \cup GrantIds /\ ATTENDED \notin GrantIds
      BY DEF GrantIds, ATTENDED
    <3> QED
      BY <1>0, <3>1, <3>2, <3>3, BuyCap
  <2>2. ASSUME NEW m \in Markets, NEW s \in Sides, NEW q \in Quantities,
               NEW toCredit \in Landings, NEW f \in SellFills(q),
               Sell(o, m, s, q, f, toCredit)
        PROVE  CapInv'
    BY <1>0, <2>2, SaleCap DEF Sell, Ids, grantVars
  <2> QED
    BY <1>5, <2>1, <2>2 DEF OwnerTrades
<1>6. ASSUME NEW a \in Actors, DelegateTrades(a) PROVE CapInv'
  <2>1. ASSUME NEW g \in GrantIds, NEW m \in Markets, NEW s \in Sides, NEW q \in Quantities,
               NEW toCredit \in Landings, NEW f \in SellFills(q),
               SellFor(a, g, m, s, q, f, toCredit)
        PROVE  CapInv'
    <3>1. grants[g].owner \in Owners
      BY <1>0, GrantFields
    <3> QED
      BY <1>0, <2>1, <3>1, SaleCap DEF SellFor, Ids, grantVars
  <2> QED
    BY <1>0, <1>6, <2>1, BuyForCap DEF DelegateTrades
<1>7. CASE \E o \in Owners, m \in Markets, toCredit \in Landings : CrankSettle(o, m, toCredit)
  BY <1>0, <1>7, CrankCap
<1>8. CASE \/ \E m \in Markets : Sweep(m)
           \/ Venue \/ Tick \/ UNCHANGED vars
  <2>1. UNCHANGED <<grants, positionOf, positionGrantOf>>
    BY <1>8 DEF Sweep, Venue, SetStatus, Tick, vars, grantVars, bookVars
  <2> QED
    BY <1>1, <2>1
<1> QED
  BY <1>2, <1>4, <1>5, <1>6, <1>7, <1>8, VaultAssumption DEF Next, Anyone

LEMMA CapAtInit == Init => CapInv
<1> SUFFICES ASSUME Init PROVE CapInv
  OBVIOUS
<1>1. GrantIds = {}
  BY DEF Init, GrantIds
<1> QED
  BY <1>1, InitInv DEF Init, CapInv, AttributionIsKnown, PositionCapHolds

(* No grant ever holds more positions than the cap its owner signed, and   *)
(* its count covers what it holds (`_bookDelegatedBuy`, `_settleSide`). *)
THEOREM PositionCap == Spec => []PositionCapHolds
<1>1. CapInv => PositionCapHolds
  BY DEF CapInv
<1> QED
  BY <1>1, CapAtInit, CapStep, PTL DEF Spec


-----------------------------------------------------------------------------
(* The vault implements the Trading Balance.                               *)

\* The part of a step's money that concerns nobody but o.
OnlyTouches(o) ==
  \A p \in Owners \ {o} :
    Own(p)' = Own(p) /\ Lent(p)' = Lent(p) /\ totalWithdrawn'[p] = totalWithdrawn[p]

\* No order is placed for p, by p or by a delegate.
SameOrders(p) == costBase'[p] = costBase[p] /\ delegated'[p] = delegated[p]

LEMMA OwnerStep ==
  ASSUME NEW o \in Owners, OnlyTouches(o), \A p \in Owners \ {o} : SameOrders(p),
         \/ /\ Own(o)' >= Own(o) /\ Lent(o)' = Lent(o) /\ SameOrders(o)
            /\ totalWithdrawn'[o] = totalWithdrawn[o]
         \/ /\ Own(o)' + Lent(o)' >= Own(o) + Lent(o) /\ SameOrders(o)
            /\ totalWithdrawn'[o] = totalWithdrawn[o]
         \/ /\ Own(o) >= Own(o)'
            /\ totalWithdrawn'[o] + Own(o)' = totalWithdrawn[o] + Own(o)
            /\ Lent(o)' = Lent(o) /\ SameOrders(o)
         \/ /\ Own(o)' + Ordered(o)' = Own(o) + Ordered(o) /\ Lent(o)' = Lent(o)
            /\ totalWithdrawn'[o] = totalWithdrawn[o] /\ delegated'[o] = delegated[o]
         \/ /\ Own(o)' = Own(o) /\ totalWithdrawn'[o] = totalWithdrawn[o]
            /\ Lent(o)' + delegated'[o] = Lent(o) + delegated[o]
            /\ Ordered(o)' + delegated[o] = Ordered(o) + delegated'[o]
  PROVE  TB!Next
<1>1. \A p \in Owners :
        /\ [q \in Owners |-> Own(q)]'[p] = Own(p)'
        /\ [q \in Owners |-> Lent(q)]'[p] = Lent(p)'
        /\ [q \in Owners |-> Ordered(q)]'[p] = Ordered(p)'
        /\ [q \in Owners |-> Own(q)][p] = Own(p)
        /\ [q \in Owners |-> Lent(q)][p] = Lent(p)
        /\ [q \in Owners |-> Ordered(q)][p] = Ordered(p)
  OBVIOUS
<1>2. \A p \in Owners : SameOrders(p) => Ordered(p)' = Ordered(p)
  BY DEF SameOrders, Ordered
<1>3. TB!Others(o)
  BY <1>1, <1>2 DEF OnlyTouches, SameOrders, TB!Others, TB!NoOrder
<1>4. TB!Receive(o) \/ TB!Arrange(o) \/ TB!PayOut(o) \/ TB!OwnerSpends(o) \/ TB!DelegateSpends(o)
  BY <1>1, <1>2 DEF SameOrders, TB!Receive, TB!Arrange, TB!PayOut, TB!OwnerSpends,
                    TB!DelegateSpends, TB!NoOrder
<1> QED
  BY <1>3, <1>4 DEF TB!Next

(* A tally of one market grows, and the tally's total by as much.          *)
LEMMA TallyGrows ==
  ASSUME NEW a \in [Markets -> Nat], NEW b \in [Markets -> Nat],
         NEW m \in Markets, NEW n \in Nat, b[m] = a[m] + n,
         \A k \in Markets \ {m} : b[k] = a[k]
  PROVE  SumFunction(b) = SumFunction(a) + n
<1>1. IsFiniteSet(Markets) /\ n \in Int
  BY VaultAssumption
<1> QED
  BY <1>1, TotalGainsAt

\* A fill's cost is tallied for the owner it was bought for, and for nobody else.
LEMMA OrderIsTallied ==
  ASSUME BooksTypeOK, NEW o \in Owners, NEW m \in Markets, NEW s \in Sides,
         NEW f, f.cash \in Nat, RecordBuy(o, m, s, f)
  PROVE  /\ Ordered(o) \in Nat /\ Ordered(o)' = Ordered(o) + f.cash
         /\ \A p \in Owners \ {o} : costBase'[p] = costBase[p]
<1>1. costBase' = [costBase EXCEPT ![o][m] = @ + f.cash]
  BY DEF RecordBuy
<1>2. costBase \in [Owners -> [Markets -> Nat]]
  BY DEF BooksTypeOK
<1>3. /\ costBase[o] \in [Markets -> Nat] /\ costBase'[o] \in [Markets -> Nat]
      /\ costBase'[o][m] = costBase[o][m] + f.cash
      /\ \A k \in Markets \ {m} : costBase'[o][k] = costBase[o][k]
      /\ \A p \in Owners \ {o} : costBase'[p] = costBase[p]
  BY <1>1, <1>2
<1>4. SumFunction(costBase'[o]) = SumFunction(costBase[o]) + f.cash
  BY <1>3, TallyGrows, Zenon
<1>5. SumFunction(costBase[o]) \in Nat
  BY <1>3, TotalIsNat, VaultAssumption
<1> QED
  BY <1>3, <1>4, <1>5 DEF Ordered

LEMMA OwnTypes ==
  ASSUME TypeOK, NEW o \in Owners
  PROVE  Own(o) \in Nat /\ available[o] \in Nat /\ privateAvailable[o] \in Nat
         /\ totalWithdrawn[o] \in Nat
BY DEF Own, TypeOK, AccountsTypeOK

LEMMA LentTypes ==
  ASSUME TypeOK, BudgetsAreReachable, NEW o \in Owners
  PROVE  /\ \A k \in GrantKinds : LentIn(o, k) \in Nat
         /\ Lent(o) \in Nat
<1>1. ASSUME NEW k \in GrantKinds PROVE LentIn(o, k) \in Nat
  <2>1. CASE activeGrantOf[o][k] = 0
    BY <2>1 DEF LentIn
  <2>2. CASE activeGrantOf[o][k] # 0
    <3>1. activeGrantOf[o][k] \in GrantIds
      BY <2>2 DEF BudgetsAreReachable
    <3> QED
      BY <2>2, <3>1, GrantFields DEF LentIn, TypeOK
  <2> QED
    BY <2>1, <2>2
<1> QED
  BY <1>1 DEF Lent, GrantKinds

LEMMA LentNextTypes ==
  ASSUME Inv', NEW o \in Owners
  PROVE  /\ \A k \in GrantKinds : LentIn(o, k)' \in Nat
         /\ Lent(o)' \in Nat
<1>1. ASSUME NEW j \in GrantKinds PROVE LentIn(o, j)' \in Nat
  <2> SUFFICES ASSUME activeGrantOf'[o][j] # 0
               PROVE  grants'[activeGrantOf'[o][j]].budget \in Nat
    BY DEF LentIn
  <2>1. activeGrantOf'[o][j] \in 1..Len(grants') /\ grants' \in Seq(Grant)
    BY DEF Inv, TypeOK, GrantsTypeOK, BudgetsAreReachable, GrantIds
  <2>2. grants'[activeGrantOf'[o][j]] \in Grant
    BY <2>1
  <2> QED
    BY <2>2 DEF Grant
<1> QED
  BY <1>1 DEF Lent, GrantKinds

(* Steps that leave every grant's budget alone leave what is lent alone.   *)
LEMMA BudgetsKept ==
  ASSUME BudgetsAreReachable, activeGrantOf' = activeGrantOf,
         \A h \in GrantIds : grants'[h].budget = grants[h].budget
  PROVE  \A p \in Owners : Lent(p)' = Lent(p)
<1>1. ASSUME NEW p \in Owners, NEW k \in GrantKinds PROVE LentIn(p, k)' = LentIn(p, k)
  BY DEF LentIn, BudgetsAreReachable
<1> QED
  BY <1>1 DEF Lent, GrantKinds

(* Steps that touch the grants of one owner and kind change what is lent   *)
(* by what they change of that kind's active grant.                        *)
LEMMA OneKindChanges ==
  ASSUME Inv, Inv', NEW o \in Owners, NEW k \in GrantKinds,
         \A p \in Owners, j \in GrantKinds :
           (p # o \/ j # k) => activeGrantOf'[p][j] = activeGrantOf[p][j],
         \A h \in GrantIds :
           (grants[h].owner # o \/ grants[h].kind # k)
              => grants'[h].budget = grants[h].budget
  PROVE  /\ \A p \in Owners \ {o} : Lent(p)' = Lent(p)
         /\ Lent(o)' + LentIn(o, k) = Lent(o) + LentIn(o, k)'
<1>1. ASSUME NEW p \in Owners, NEW j \in GrantKinds, p # o \/ j # k
      PROVE  LentIn(p, j)' = LentIn(p, j)
  BY <1>1 DEF LentIn, Inv, BudgetsAreReachable
<1>2. \A p \in Owners \ {o} : Lent(p)' = Lent(p)
  BY <1>1 DEF Lent, GrantKinds
<1>3. \A j \in GrantKinds : LentIn(o, j) \in Nat
  BY LentTypes DEF Inv
<1>4. \A j \in GrantKinds : LentIn(o, j)' \in Nat
  BY LentNextTypes
<1>5. Lent(o)' + LentIn(o, k) = Lent(o) + LentIn(o, k)'
  <2>1. CASE k = "SESSION"
    BY <1>1, <1>3, <1>4, <2>1 DEF Lent, GrantKinds
  <2>2. CASE k = "EXECUTOR"
    BY <1>1, <1>3, <1>4, <2>2 DEF Lent, GrantKinds
  <2>3. CASE k = "STRATEGY"
    BY <1>1, <1>3, <1>4, <2>3 DEF Lent, GrantKinds
  <2> QED
    BY <2>1, <2>2, <2>3 DEF GrantKinds
<1> QED
  BY <1>2, <1>5


LEMMA MoneyImplements ==
  ASSUME Inv, NEW o \in Owners, NEW n \in Amounts,
         \/ Deposit(o, n) \/ CreditFor(o, n) \/ CreditPrivateFor(o, n)
         \/ Withdraw(o, n) \/ MoveToPrivate(o, n) \/ WithdrawPrivate(o, n)
  PROVE  TB!Next
<1>0. n \in Nat /\ TypeOK /\ BudgetsAreReachable
  BY VaultAssumption DEF Inv
<1>1. UNCHANGED <<grants, activeGrantOf>>
  BY DEF Deposit, CreditFor, CreditPrivateFor, Withdraw, MoveToPrivate,
         WithdrawPrivate, grantVars
<1>2. \A p \in Owners : Lent(p)' = Lent(p)
  BY <1>0, <1>1, BudgetsKept
<1>3. \A p \in Owners : Own(p) \in Nat /\ available[p] \in Nat
                        /\ privateAvailable[p] \in Nat /\ totalWithdrawn[p] \in Nat
  BY <1>0, OwnTypes
<1>4. Lent(o) \in Nat
  BY <1>0, LentTypes
<1>5. /\ DOMAIN available = Owners /\ DOMAIN privateAvailable = Owners
      /\ DOMAIN totalWithdrawn = Owners
  BY <1>0 DEF TypeOK, AccountsTypeOK
<1>6. OnlyTouches(o) /\ \A p \in Owners : SameOrders(p)
  <2>1. OnlyTouches(o)
    BY <1>2, <1>5 DEF OnlyTouches, Own, Deposit, CreditFor, CreditPrivateFor,
                      Withdraw, MoveToPrivate, WithdrawPrivate
  <2>2. UNCHANGED <<grantVars, bookVars>>
    BY DEF Deposit, CreditFor, CreditPrivateFor, Withdraw, MoveToPrivate, WithdrawPrivate
  <2> QED
    BY <2>1, <2>2 DEF SameOrders, grantVars, bookVars, tallyVars
<1>7. CASE Deposit(o, n) \/ CreditFor(o, n) \/ CreditPrivateFor(o, n)
  <2>1. Own(o)' = Own(o) + n /\ totalWithdrawn'[o] = totalWithdrawn[o]
    BY <1>0, <1>3, <1>5, <1>7 DEF Own, Deposit, CreditFor, CreditPrivateFor
  <2> QED
    BY <1>0, <1>2, <1>3, <1>6, <2>1, OwnerStep
<1>8. CASE Withdraw(o, n) \/ WithdrawPrivate(o, n)
  <2>1. Own(o)' = Own(o) - n /\ totalWithdrawn'[o] = totalWithdrawn[o] + n
    BY <1>0, <1>3, <1>5, <1>8 DEF Own, Withdraw, WithdrawPrivate
  <2> QED
    BY <1>0, <1>2, <1>3, <1>6, <2>1, OwnerStep
<1>9. CASE MoveToPrivate(o, n)
  <2>1. Own(o)' = Own(o) /\ totalWithdrawn'[o] = totalWithdrawn[o]
    BY <1>0, <1>3, <1>5, <1>9 DEF Own, MoveToPrivate
  <2> QED
    BY <1>0, <1>2, <1>3, <1>6, <2>1, OwnerStep
<1> QED
  BY <1>7, <1>8, <1>9

(* A new grant pays the old one of its kind back and lends the new budget, *)
(* all of it the owner's: the owner is owed the intake more.               *)
LEMMA GrantToMoves ==
  ASSUME Inv, Inv', NEW o \in Owners,
         NEW k \in SignedKinds, NEW a \in Actors, NEW caps \in CapsChoices,
         NEW expiry \in 1..(MaxTime + 1), NEW n \in {0} \cup Amounts,
         NEW intake \in {0} \cup Amounts,
         GrantTo(o, k, a, caps, expiry, n, intake)
  PROVE  /\ OnlyTouches(o) /\ totalWithdrawn'[o] = totalWithdrawn[o]
         /\ Owed(o) \in Nat /\ Owed(o)' = Owed(o) + intake
<1> DEFINE previous == activeGrantOf[o][k]
           kept == IF previous = 0 THEN grants ELSE Revoked(previous)
           id == Len(grants) + 1
           new == NewGrant(o, k, a, caps, expiry, n)
<1>0. /\ n \in Nat /\ intake \in Nat /\ expiry \in Nat /\ k \in GrantKinds
      /\ TypeOK /\ BudgetsAreReachable /\ Len(grants) \in Nat
  BY VaultAssumption DEF Inv, TypeOK, GrantsTypeOK
<1>1. /\ previous # 0 => previous \in GrantIds
      /\ \A h \in GrantIds : grants'[h] = kept[h]
      /\ grants'[id] = new
  BY <1>0, GrantToEffect DEF TypeOK
<1>2. activeGrantOf' = [activeGrantOf EXCEPT ![o][k] = id]
  BY DEF GrantTo
<1>3. new.budget = n
  BY DEF NewGrant
<1>4. ASSUME NEW h \in GrantIds, h # previous PROVE grants'[h] = grants[h]
  BY <1>0, <1>1, <1>4, RevokedEffect DEF TypeOK
<1>5. previous # 0 => grants[previous].owner = o /\ grants[previous].kind = k
  BY <1>0 DEF BudgetsAreReachable
<1>6. LentIn(o, k) = Returned(previous)
  BY DEF LentIn, Returned
<1> HIDE DEF kept, id, new
<1>7. activeGrantOf'[o][k] = id /\ id # 0
      /\ \A p \in Owners, j \in GrantKinds :
           (p # o \/ j # k) => activeGrantOf'[p][j] = activeGrantOf[p][j]
  BY <1>0, <1>2 DEF TypeOK, GrantsTypeOK, id
<1>8. LentIn(o, k)' = n
  BY <1>1, <1>3, <1>7 DEF LentIn
<1>9. /\ \A p \in Owners \ {o} : Lent(p)' = Lent(p)
      /\ Lent(o)' + LentIn(o, k) = Lent(o) + LentIn(o, k)'
  <2>1. ASSUME NEW h \in GrantIds, grants[h].owner # o \/ grants[h].kind # k
        PROVE  grants'[h].budget = grants[h].budget
    <3>1. h # previous
      BY <1>5, <2>1, <1>0 DEF GrantIds
    <3> QED
      BY <1>4, <3>1
  <2> QED
    BY <1>0, <1>7, <2>1, OneKindChanges
<1>10. /\ Own(o)' = (Own(o) + intake + Returned(previous)) - n
       /\ totalWithdrawn'[o] = totalWithdrawn[o]
       /\ \A p \in Owners \ {o} : Own(p)' = Own(p) /\ totalWithdrawn'[p] = totalWithdrawn[p]
  <2>1. available' = [available EXCEPT ![o] = (available[o] + intake + Returned(previous)) - n]
        /\ UNCHANGED <<privateAvailable, totalWithdrawn>>
    BY DEF GrantTo
  <2>2. Returned(previous) \in Nat
    BY <1>0, <1>6, LentTypes
  <2>3. available[o] \in Nat /\ privateAvailable[o] \in Nat /\ DOMAIN available = Owners
    BY <1>0 DEF TypeOK, AccountsTypeOK
  <2> HIDE DEF previous
  <2> QED
    BY <1>0, <2>1, <2>2, <2>3 DEF Own
<1>11. /\ Own(o) \in Nat /\ Lent(o) \in Nat /\ LentIn(o, k) \in Nat
       /\ totalWithdrawn[o] \in Nat
  BY <1>0, OwnTypes, LentTypes
<1>12. Lent(o)' = (Lent(o) + n) - LentIn(o, k)
  <2>1. Lent(o)' \in Nat
    BY LentNextTypes
  <2> QED
    BY <1>0, <1>8, <1>9, <1>11, <2>1
<1> HIDE DEF previous
<1>13. Owed(o) \in Nat /\ Owed(o)' = Owed(o) + intake
  <2>1. Own(o)' + Lent(o)' = Own(o) + Lent(o) + intake
    BY <1>0, <1>6, <1>10, <1>11, <1>12
  <2> QED
    BY <1>11, <2>1 DEF Owed
<1>14. OnlyTouches(o)
  BY <1>9, <1>10 DEF OnlyTouches
<1> QED
  BY <1>10, <1>13, <1>14

LEMMA GrantToImplements ==
  ASSUME Inv, Inv', NEW o \in Owners,
         NEW k \in SignedKinds, NEW a \in Actors, NEW caps \in CapsChoices,
         NEW expiry \in 1..(MaxTime + 1), NEW n \in {0} \cup Amounts,
         NEW intake \in {0} \cup Amounts,
         GrantTo(o, k, a, caps, expiry, n, intake)
  PROVE  TB!Next
<1>1. /\ OnlyTouches(o) /\ totalWithdrawn'[o] = totalWithdrawn[o]
      /\ Owed(o) \in Nat /\ Owed(o)' = Owed(o) + intake
  BY GrantToMoves
<1>2. intake \in Nat
  BY VaultAssumption
<1>3. Own(o)' + Lent(o)' >= Own(o) + Lent(o)
  BY <1>1, <1>2 DEF Owed
<1>4. \A p \in Owners : SameOrders(p)
  BY DEF GrantTo, SameOrders, bookVars, tallyVars
<1> QED
  BY <1>1, <1>3, <1>4, OwnerStep

(* Funding a grant moves money from what is the owner's to what is lent.   *)
LEMMA FundMoves ==
  ASSUME Inv, Inv', NEW o \in Owners, NEW g \in GrantIds, NEW n \in Amounts,
         FundGrant(o, g, n)
  PROVE  /\ OnlyTouches(o) /\ totalWithdrawn'[o] = totalWithdrawn[o]
         /\ Owed(o) \in Nat /\ Owed(o)' = Owed(o)
<1>0. n \in Nat /\ TypeOK /\ BudgetsAreReachable /\ grants[g].budget \in Nat
  BY VaultAssumption, GrantFields DEF Inv, TypeOK
<1> PICK k \in GrantKinds : k = grants[g].kind
  BY <1>0, GrantFields DEF TypeOK
<1>1. /\ grants'[g] = Funded(g, n)
      /\ \A h \in GrantIds : h # g => grants'[h] = grants[h]
  BY <1>0, FundEffect DEF TypeOK
<1>2. Funded(g, n).budget = grants[g].budget + n
  BY <1>0, GrantFields DEF Funded, Grant, TypeOK
<1>3. grants[g].owner = o /\ activeGrantOf[o][k] = g /\ g # 0
  BY <1>0 DEF FundGrant, Live, BudgetsAreReachable, GrantIds
<1>4. activeGrantOf' = activeGrantOf
  BY DEF FundGrant
<1>5. /\ \A p \in Owners \ {o} : Lent(p)' = Lent(p)
      /\ Lent(o)' + LentIn(o, k) = Lent(o) + LentIn(o, k)'
  <2>1. ASSUME NEW h \in GrantIds, grants[h].owner # o \/ grants[h].kind # k
        PROVE  grants'[h].budget = grants[h].budget
    BY <1>1, <1>3, <2>1
  <2> QED
    BY <1>0, <1>4, <2>1, OneKindChanges
<1>6. LentIn(o, k)' = LentIn(o, k) + n
  BY <1>1, <1>2, <1>3, <1>4 DEF LentIn
<1>7. /\ Own(o)' = Own(o) - n
      /\ totalWithdrawn'[o] = totalWithdrawn[o]
      /\ \A p \in Owners \ {o} : Own(p)' = Own(p) /\ totalWithdrawn'[p] = totalWithdrawn[p]
  <2>1. available' = [available EXCEPT ![o] = available[o] - n]
        /\ UNCHANGED <<privateAvailable, totalWithdrawn>>
    BY DEF FundGrant, otherAccountVars
  <2>2. available[o] \in Nat /\ privateAvailable[o] \in Nat /\ DOMAIN available = Owners
    BY <1>0 DEF TypeOK, AccountsTypeOK
  <2> QED
    BY <1>0, <2>1, <2>2 DEF Own
<1>8. Own(o) \in Nat /\ Lent(o) \in Nat /\ LentIn(o, k) \in Nat /\ Lent(o)' \in Nat
  BY <1>0, OwnTypes, LentTypes, LentNextTypes
<1>9. Owed(o) \in Nat /\ Owed(o)' = Owed(o)
  BY <1>0, <1>5, <1>6, <1>7, <1>8 DEF Owed
<1>10. OnlyTouches(o)
  BY <1>5, <1>7 DEF OnlyTouches
<1> QED
  BY <1>7, <1>9, <1>10

LEMMA FundImplements ==
  ASSUME Inv, Inv', NEW o \in Owners, NEW g \in GrantIds, NEW n \in Amounts,
         FundGrant(o, g, n)
  PROVE  TB!Next
<1>1. /\ OnlyTouches(o) /\ totalWithdrawn'[o] = totalWithdrawn[o]
      /\ Owed(o) \in Nat /\ Owed(o)' = Owed(o)
  BY FundMoves
<1>2. Own(o)' + Lent(o)' >= Own(o) + Lent(o)
  BY <1>1 DEF Owed
<1>3. \A p \in Owners : SameOrders(p)
  BY DEF FundGrant, SameOrders, bookVars, tallyVars
<1> QED
  BY <1>1, <1>2, <1>3, OwnerStep

(* Revoking a grant moves what is left of it back to its owner.            *)
LEMMA RevokeMoves ==
  ASSUME Inv, Inv', NEW o \in Owners, NEW g \in GrantIds, Revoke(o, g)
  PROVE  /\ OnlyTouches(o) /\ totalWithdrawn'[o] = totalWithdrawn[o]
         /\ Owed(o) \in Nat /\ Owed(o)' = Owed(o)
<1>0. TypeOK /\ BudgetsAreReachable /\ grants[g].budget \in Nat
  BY GrantFields DEF Inv, TypeOK
<1> PICK k \in GrantKinds : k = grants[g].kind
  BY <1>0, GrantFields DEF TypeOK
<1>1. \A h \in GrantIds : h # g => grants'[h] = grants[h]
  BY <1>0, RevokedEffect DEF TypeOK, Revoke
<1>2. grants[g].owner = o /\ activeGrantOf[o][k] = g /\ g # 0
  BY <1>0 DEF Revoke, BudgetsAreReachable, GrantIds
<1>3. activeGrantOf' = [activeGrantOf EXCEPT ![o][k] = 0]
  BY <1>2 DEF Revoke
<1>4. /\ activeGrantOf'[o][k] = 0
      /\ \A p \in Owners, j \in GrantKinds :
           (p # o \/ j # k) => activeGrantOf'[p][j] = activeGrantOf[p][j]
  BY <1>0, <1>3 DEF TypeOK, GrantsTypeOK
<1>5. /\ \A p \in Owners \ {o} : Lent(p)' = Lent(p)
      /\ Lent(o)' + LentIn(o, k) = Lent(o) + LentIn(o, k)'
  <2>1. ASSUME NEW h \in GrantIds, grants[h].owner # o \/ grants[h].kind # k
        PROVE  grants'[h].budget = grants[h].budget
    BY <1>1, <1>2, <2>1
  <2> QED
    BY <1>0, <1>4, <2>1, OneKindChanges
<1>6. LentIn(o, k)' = 0 /\ LentIn(o, k) = grants[g].budget
  BY <1>2, <1>4 DEF LentIn
<1>7. /\ Own(o)' = Own(o) + grants[g].budget
      /\ totalWithdrawn'[o] = totalWithdrawn[o]
      /\ \A p \in Owners \ {o} : Own(p)' = Own(p) /\ totalWithdrawn'[p] = totalWithdrawn[p]
  <2>1. available' = [available EXCEPT ![o] = available[o] + grants[g].budget]
        /\ UNCHANGED <<privateAvailable, totalWithdrawn>>
    BY <1>2 DEF Revoke, Returned, otherAccountVars
  <2>2. available[o] \in Nat /\ privateAvailable[o] \in Nat /\ DOMAIN available = Owners
    BY <1>0 DEF TypeOK, AccountsTypeOK
  <2> QED
    BY <1>0, <2>1, <2>2 DEF Own
<1>8. Own(o) \in Nat /\ Lent(o) \in Nat /\ Lent(o)' \in Nat
  BY <1>0, OwnTypes, LentTypes, LentNextTypes
<1>9. Owed(o) \in Nat /\ Owed(o)' = Owed(o)
  BY <1>0, <1>5, <1>6, <1>7, <1>8 DEF Owed
<1>10. OnlyTouches(o)
  BY <1>5, <1>7 DEF OnlyTouches
<1> QED
  BY <1>7, <1>9, <1>10

LEMMA RevokeImplements ==
  ASSUME Inv, Inv', NEW o \in Owners, NEW g \in GrantIds, Revoke(o, g)
  PROVE  TB!Next
<1>1. /\ OnlyTouches(o) /\ totalWithdrawn'[o] = totalWithdrawn[o]
      /\ Owed(o) \in Nat /\ Owed(o)' = Owed(o)
  BY RevokeMoves
<1>2. Own(o)' + Lent(o)' >= Own(o) + Lent(o)
  BY <1>1 DEF Owed
<1>3. \A p \in Owners : SameOrders(p)
  BY DEF Revoke, SameOrders, bookVars, tallyVars
<1> QED
  BY <1>1, <1>2, <1>3, OwnerStep

(* A delegate's buy costs what was lent under its grant, and nothing else. *)
LEMMA BuyForMoves ==
  ASSUME Inv, Inv', NEW a \in Actors, NEW g \in GrantIds, NEW m \in Markets,
         NEW s \in Sides, NEW price \in Prices, NEW q \in Quantities,
         NEW toCredit \in Landings, NEW f \in BuyFills(q, Escrow(s, price, q)),
         NEW o \in Owners, o = grants[g].owner,
         BuyFor(a, g, m, s, price, q, f, toCredit)
  PROVE  /\ OnlyTouches(o) /\ Own(o)' = Own(o)
         /\ totalWithdrawn'[o] = totalWithdrawn[o]
         /\ Lent(o) \in Nat /\ Lent(o)' \in Nat /\ Lent(o)' + f.cash = Lent(o)
<1> PICK k \in GrantKinds : k = grants[g].kind
  BY GrantFields DEF Inv, TypeOK
<1> DEFINE opened == Opens(grants[g].owner, <<m, s>>, f)
<1>0. /\ f.cash \in Nat /\ opened \in BOOLEAN /\ TypeOK /\ BudgetsAreReachable
      /\ grants[g].budget \in Nat
  BY EscrowType, FillTypes, GrantFields DEF Opens, Inv, TypeOK
<1>1. Spend(g, f.cash, opened) /\ activeGrantOf' = activeGrantOf
  BY DEF BuyFor
<1> HIDE DEF opened
<1>2. /\ grants'[g] = Charged(g, f.cash, opened)
      /\ \A h \in GrantIds : h # g => grants'[h] = grants[h]
  BY <1>0, <1>1, SpendEffect DEF TypeOK
<1>3. Charged(g, f.cash, opened).budget = grants[g].budget - f.cash
  BY <1>0, GrantFields DEF Charged, Grant, TypeOK
<1>4. activeGrantOf[o][k] = g /\ g # 0
  BY <1>0 DEF BuyFor, Live, BudgetsAreReachable, GrantIds
<1>5. \A p \in Owners : Own(p)' = Own(p) /\ totalWithdrawn'[p] = totalWithdrawn[p]
  BY DEF BuyFor, accountVars, otherAccountVars, Own
<1>6. /\ \A p \in Owners \ {o} : Lent(p)' = Lent(p)
      /\ Lent(o)' + LentIn(o, k) = Lent(o) + LentIn(o, k)'
  <2>1. ASSUME NEW h \in GrantIds, grants[h].owner # o \/ grants[h].kind # k
        PROVE  grants'[h].budget = grants[h].budget
    BY <1>2, <2>1
  <2> QED
    BY <1>0, <1>1, <2>1, OneKindChanges
<1>7. LentIn(o, k)' = LentIn(o, k) - f.cash
  BY <1>1, <1>2, <1>3, <1>4 DEF LentIn
<1>8. Lent(o) \in Nat /\ LentIn(o, k) \in Nat /\ Lent(o)' \in Nat
  BY <1>0, LentTypes, LentNextTypes
<1>9. Lent(o) \in Nat /\ Lent(o)' \in Nat /\ Lent(o)' + f.cash = Lent(o)
  BY <1>0, <1>6, <1>7, <1>8
<1>10. OnlyTouches(o)
  BY <1>5, <1>6 DEF OnlyTouches
<1> QED
  BY <1>5, <1>9, <1>10

LEMMA BuyForImplements ==
  ASSUME Inv, Inv', NEW a \in Actors, NEW g \in GrantIds, NEW m \in Markets,
         NEW s \in Sides, NEW price \in Prices, NEW q \in Quantities,
         NEW toCredit \in Landings, NEW f \in BuyFills(q, Escrow(s, price, q)),
         BuyFor(a, g, m, s, price, q, f, toCredit)
  PROVE  TB!Next
<1> PICK o \in Owners : o = grants[g].owner
  BY GrantFields DEF Inv, TypeOK
<1>1. /\ OnlyTouches(o) /\ Own(o)' = Own(o)
      /\ totalWithdrawn'[o] = totalWithdrawn[o]
      /\ Lent(o) \in Nat /\ Lent(o)' \in Nat /\ Lent(o)' + f.cash = Lent(o)
  BY BuyForMoves
<1>2. f.cash \in Nat
  BY EscrowType, FillTypes
<1>3. delegated[o] \in Nat /\ delegated'[o] = delegated[o] + f.cash
      /\ \A p \in Owners \ {o} : delegated'[p] = delegated[p]
  BY <1>2 DEF BuyFor, Inv, TypeOK, GrantsTypeOK
<1>4. /\ Ordered(o) \in Nat /\ Ordered(o)' = Ordered(o) + f.cash
      /\ \A p \in Owners \ {o} : costBase'[p] = costBase[p]
  BY <1>2, OrderIsTallied DEF BuyFor, Inv, TypeOK
<1>5. /\ Lent(o)' + delegated'[o] = Lent(o) + delegated[o]
      /\ Ordered(o)' + delegated[o] = Ordered(o) + delegated'[o]
  BY <1>1, <1>2, <1>3, <1>4
<1>6. \A p \in Owners \ {o} : SameOrders(p)
  BY <1>3, <1>4 DEF SameOrders
<1> QED
  BY <1>1, <1>5, <1>6, OwnerStep

(* Money arrives for one owner, or the owner's own trade spends it, and no *)
(* grant's budget moves.                                                   *)
LEMMA TradeMoves ==
  ASSUME Inv, NEW o \in Owners, NEW n \in Int,
         available' = [available EXCEPT ![o] = available[o] + n],
         UNCHANGED otherAccountVars, activeGrantOf' = activeGrantOf,
         \A h \in GrantIds : grants'[h].budget = grants[h].budget
  PROVE  /\ OnlyTouches(o) /\ totalWithdrawn'[o] = totalWithdrawn[o]
         /\ Own(o) \in Nat /\ Own(o)' = Own(o) + n /\ Lent(o)' = Lent(o)
<1>1. \A p \in Owners : Lent(p)' = Lent(p)
  BY BudgetsKept DEF Inv
<1>2. available[o] \in Nat /\ privateAvailable[o] \in Nat /\ DOMAIN available = Owners
  BY DEF Inv, TypeOK, AccountsTypeOK
<1>3. /\ Own(o)' = Own(o) + n /\ totalWithdrawn' = totalWithdrawn
      /\ \A p \in Owners \ {o} : Own(p)' = Own(p)
  BY <1>2 DEF Own, otherAccountVars
<1>4. OnlyTouches(o)
  BY <1>1, <1>3 DEF OnlyTouches
<1>5. Own(o) \in Nat
  BY OwnTypes DEF Inv
<1> QED
  BY <1>1, <1>3, <1>4, <1>5

LEMMA ReceiptImplements ==
  ASSUME Inv, NEW o \in Owners, NEW n \in Nat,
         available' = [available EXCEPT ![o] = available[o] + n],
         UNCHANGED <<otherAccountVars, costBase, delegated>>, activeGrantOf' = activeGrantOf,
         \A h \in GrantIds : grants'[h].budget = grants[h].budget
  PROVE  TB!Next
<1>0. n \in Int /\ UNCHANGED otherAccountVars
  OBVIOUS
<1>1. /\ OnlyTouches(o) /\ totalWithdrawn'[o] = totalWithdrawn[o]
      /\ Own(o) \in Nat /\ Own(o)' = Own(o) + n /\ Lent(o)' = Lent(o)
  BY <1>0, TradeMoves
<1>2. \A p \in Owners : SameOrders(p)
  BY DEF SameOrders
<1>3. Own(o)' >= Own(o)
  BY <1>1
<1> QED
  BY <1>1, <1>2, <1>3, OwnerStep

LEMMA CrankImplements ==
  ASSUME Inv, NEW o \in Owners, NEW m \in Markets, NEW toCredit \in Landings,
         CrankSettle(o, m, toCredit)
  PROVE  TB!Next
<1> DEFINE r(h) == [grants[h] EXCEPT !.openPositions = Minus(@, Closing(o, m, h))]
<1>1. \A h \in GrantIds : grants'[h] = r(h)
  BY CrankEffect, VaultAssumption DEF Inv, TypeOK
<1>2. ASSUME NEW h \in GrantIds PROVE r(h).budget = grants[h].budget
  BY GrantFields DEF Grant, Inv, TypeOK
<1> HIDE DEF r
<1>3. Payout(o, m) \in Nat
  BY PayoutType DEF Inv, TypeOK
<1> PICK n \in Nat : n = Payout(o, m)
  BY <1>3
<1>4. /\ available' = [available EXCEPT ![o] = available[o] + n]
      /\ UNCHANGED <<otherAccountVars, costBase, delegated>> /\ activeGrantOf' = activeGrantOf
  BY DEF CrankSettle
<1>5. \A h \in GrantIds : grants'[h].budget = grants[h].budget
  BY <1>1, <1>2
<1> QED
  BY <1>4, <1>5, ReceiptImplements

LEMMA BuyImplements ==
  ASSUME Inv, NEW o \in Owners, NEW m \in Markets, NEW s \in Sides,
         NEW price \in Prices, NEW q \in Quantities, NEW toCredit \in Landings,
         NEW f \in BuyFills(q, Escrow(s, price, q)),
         Buy(o, m, s, price, q, f, toCredit)
  PROVE  TB!Next
<1>1. f.cash \in Nat /\ -f.cash \in Int /\ available[o] \in Nat
  BY EscrowType, FillTypes DEF Inv, TypeOK, AccountsTypeOK
<1>2. available' = [available EXCEPT ![o] = available[o] + (-f.cash)]
  BY <1>1 DEF Buy
<1>3. UNCHANGED <<otherAccountVars, activeGrantOf, grants, delegated>>
  BY DEF Buy, grantVars
<1>4. /\ OnlyTouches(o) /\ totalWithdrawn'[o] = totalWithdrawn[o]
      /\ Own(o) \in Nat /\ Own(o)' = Own(o) + (-f.cash) /\ Lent(o)' = Lent(o)
  BY <1>1, <1>2, <1>3, TradeMoves
<1>5. /\ Ordered(o) \in Nat /\ Ordered(o)' = Ordered(o) + f.cash
      /\ \A p \in Owners \ {o} : costBase'[p] = costBase[p]
  BY <1>1, OrderIsTallied DEF Buy, Inv, TypeOK
<1>6. \A p \in Owners \ {o} : SameOrders(p)
  BY <1>3, <1>5 DEF SameOrders
<1>7. Own(o)' + Ordered(o)' = Own(o) + Ordered(o)
  BY <1>1, <1>4, <1>5
<1> QED
  BY <1>3, <1>4, <1>6, <1>7, OwnerStep

LEMMA SaleImplements ==
  ASSUME Inv, NEW o \in Owners, NEW id, NEW q \in Quantities, NEW f \in SellFills(q),
         BookSale(o, id, f), UNCHANGED <<otherAccountVars, grantVars, costBase>>
  PROVE  TB!Next
<1>1. f.cash \in Nat
  BY FillTypes
<1> PICK n \in Nat : n = f.cash
  BY <1>1
<1>2. available' = [available EXCEPT ![o] = available[o] + n]
  BY DEF BookSale
<1>3. UNCHANGED <<otherAccountVars, costBase, delegated, activeGrantOf, grants>>
  BY DEF grantVars
<1> QED
  BY <1>2, <1>3, ReceiptImplements

LEMMA StepImplements == Inv /\ Inv' /\ [Next]_vars => [TB!Next]_(TB!vars)
<1> SUFFICES ASSUME Inv, Inv', [Next]_vars PROVE TB!Next \/ UNCHANGED TB!vars
  OBVIOUS
<1>1. ASSUME NEW o \in Owners, OwnerMoney(o) PROVE TB!Next
  BY <1>1, MoneyImplements DEF OwnerMoney
<1>2. ASSUME NEW o \in Owners, OwnerGrants(o) PROVE TB!Next
  BY <1>2, GrantToImplements, FundImplements, RevokeImplements DEF OwnerGrants
<1>3. ASSUME NEW o \in Owners, OwnerTrades(o) PROVE TB!Next
  <2>1. ASSUME NEW m \in Markets, NEW s \in Sides, NEW q \in Quantities,
               NEW toCredit \in Landings, NEW f \in SellFills(q),
               Sell(o, m, s, q, f, toCredit)
        PROVE  TB!Next
    BY <2>1, SaleImplements DEF Sell, RecordSale
  <2> QED
    BY <1>3, <2>1, BuyImplements DEF OwnerTrades
<1>4. ASSUME NEW a \in Actors, DelegateTrades(a) PROVE TB!Next
  <2>1. ASSUME NEW g \in GrantIds, NEW m \in Markets, NEW s \in Sides,
               NEW q \in Quantities, NEW toCredit \in Landings, NEW f \in SellFills(q),
               SellFor(a, g, m, s, q, f, toCredit)
        PROVE  TB!Next
    <3>1. grants[g].owner \in Owners
      BY GrantFields DEF Inv, TypeOK
    <3> QED
      BY <2>1, <3>1, SaleImplements DEF SellFor, RecordSale
  <2> QED
    BY <1>4, <2>1, BuyForImplements DEF DelegateTrades
<1>5. CASE \E o \in Owners, m \in Markets, toCredit \in Landings : CrankSettle(o, m, toCredit)
  BY <1>5, CrankImplements
<1>6. CASE \/ \E m \in Markets : Sweep(m)
           \/ Venue \/ Tick \/ UNCHANGED vars
  <2>1. UNCHANGED <<accountVars, grants, activeGrantOf, delegated, costBase>>
    BY <1>6 DEF Sweep, Venue, SetStatus, Tick, vars, grantVars, bookVars, tallyVars
  <2>2. UNCHANGED <<available, privateAvailable, totalWithdrawn, grants, activeGrantOf,
                    delegated, costBase>>
    BY <2>1 DEF accountVars, otherAccountVars
  <2>3. \A p \in Owners : Own(p)' = Own(p) /\ Lent(p)' = Lent(p) /\ Ordered(p)' = Ordered(p)
    BY <2>2 DEF Own, Lent, LentIn, Ordered
  <2> QED
    BY <2>2, <2>3 DEF TB!vars
<1> QED
  BY <1>1, <1>2, <1>3, <1>4, <1>5, <1>6, VaultAssumption DEF Next, Anyone

LEMMA InitImplements == Init => TB!Init
<1> SUFFICES ASSUME Init PROVE TB!Init
  OBVIOUS
<1>1. ASSUME NEW p \in Owners PROVE Ordered(p) = 0
  <2>1. DOMAIN costBase[p] = Markets /\ \A m \in Markets : costBase[p][m] = 0
    BY DEF Init, PerMarket
  <2> QED
    BY <2>1, TotalOfZeros, VaultAssumption DEF Ordered
<1>2. \A p \in Owners : Own(p) = 0 /\ Lent(p) = 0
  BY DEF Init, Own, Lent, LentIn, GrantKinds, PerOwner
<1> QED
  BY <1>1, <1>2 DEF Init, TB!Init, PerOwner

(* The vault implements the abstract Trading Balance: every step concerns  *)
(* one owner; own money falls only by that owner's withdrawal, loan or own *)
(* order, and an order a delegate placed is paid from the lent budget to   *)
(* the last unit and from nothing else (`placeFor`, `_spend`, `_revoke`).  *)
THEOREM DelegatesSpendOnlyTheLoan == Spec => NoDivert
<1>1. Init => TB!Init
  BY InitImplements
<1>2. Inv /\ Inv' /\ [Next]_vars => [TB!Next]_(TB!vars)
  BY StepImplements
<1> QED
  BY <1>1, <1>2, VaultInvariant, PTL DEF Spec, NoDivert, TB!Spec

-----------------------------------------------------------------------------
(* Custody.  The collateral the vault holds is the sum of what it owes,    *)
(* and its outcome tokens are the sum of the positions.                    *)

Ledger == Inv /\ BooksBalance /\ CustodyIsAttributed

Cash == wallet + SumFunction(credit)
Debt == SumFunction([p \in Owners |-> Owed(p)])
Stock(id) == SumFunction([p \in Owners |-> positionOf[p][id]])

\* The part of a step that leaves the books of everybody but o alone.
OthersBooks(o) ==
  \A p \in Owners \ {o} :
    /\ WentOut(p)' = WentOut(p) /\ CameIn(p)' = CameIn(p)
    /\ positionOf'[p] = positionOf[p]
    /\ bought'[p] = bought[p] /\ sold'[p] = sold[p]

(* What an owner is owed is a number, before a step and after.             *)
LEMMA OwedIsNat ==
  ASSUME Inv, NEW p \in Owners
  PROVE  Owed(p) \in Nat
BY OwnTypes, LentTypes DEF Inv, Owed

LEMMA OwedNextIsNat ==
  ASSUME Inv', NEW p \in Owners
  PROVE  Owed(p)' \in Nat
<1>1. Own(p)' \in Nat
  BY DEF Inv, TypeOK, AccountsTypeOK, Own
<1>2. Lent(p)' \in Nat
  BY LentNextTypes
<1> QED
  BY <1>1, <1>2 DEF Owed

(* So are the two sides of an owner's books.                               *)
LEMMA BookTypes ==
  ASSUME TypeOK, NEW p \in Owners
  PROVE  /\ IntakeOf(p) \in Nat /\ totalWithdrawn[p] \in Nat
         /\ SumFunction(costBase[p]) \in Nat
         /\ SumFunction(proceedsBase[p]) \in Nat
         /\ SumFunction(payoutBase[p]) \in Nat
         /\ WentOut(p) \in Nat /\ CameIn(p) \in Nat
<1>1. IntakeOf(p) \in Nat /\ totalWithdrawn[p] \in Nat
  BY DEF TypeOK, AccountsTypeOK, IntakeOf
<1>2. /\ costBase[p] \in [Markets -> Nat]
      /\ proceedsBase[p] \in [Markets -> Nat]
      /\ payoutBase[p] \in [Markets -> Nat]
  BY DEF TypeOK, BooksTypeOK
<1>3. /\ SumFunction(costBase[p]) \in Nat
      /\ SumFunction(proceedsBase[p]) \in Nat
      /\ SumFunction(payoutBase[p]) \in Nat
  BY <1>2, TotalIsNat, VaultAssumption
<1> QED
  BY <1>1, <1>3 DEF WentOut, CameIn

LEMMA BookNextTypes ==
  ASSUME TypeOK', NEW p \in Owners
  PROVE  WentOut(p)' \in Nat /\ CameIn(p)' \in Nat
<1>1. IntakeOf(p)' \in Nat /\ totalWithdrawn'[p] \in Nat
  BY DEF TypeOK, AccountsTypeOK, IntakeOf
<1>2. /\ costBase'[p] \in [Markets -> Nat]
      /\ proceedsBase'[p] \in [Markets -> Nat]
      /\ payoutBase'[p] \in [Markets -> Nat]
  BY DEF TypeOK, BooksTypeOK
<1>3. /\ SumFunction(costBase'[p]) \in Nat
      /\ SumFunction(proceedsBase'[p]) \in Nat
      /\ SumFunction(payoutBase'[p]) \in Nat
  BY <1>2, TotalIsNat, VaultAssumption
<1> QED
  BY <1>1, <1>3 DEF WentOut, CameIn

(* And the collateral the vault has.                                       *)
LEMMA CashIsNat ==
  ASSUME VenueTypeOK
  PROVE  Cash \in Nat /\ SumFunction(credit) \in Nat
BY TotalIsNat, VaultAssumption DEF VenueTypeOK, Cash

(* One owner is owed more, or less, and the vault's collateral moves by as *)
(* much: it is still the sum of what is owed.                              *)
LEMMA DebtFollows ==
  ASSUME Inv, Inv', NEW o \in Owners, NEW d \in Int,
         OnlyTouches(o), Owed(o)' = Owed(o) + d, Cash' = Cash + d, Cash = Debt
  PROVE  Cash' = Debt'
<1> DEFINE f == [p \in Owners |-> Owed(p)]
           g == [p \in Owners |-> Owed(p)']
<1>1. f \in [Owners -> Nat] /\ g \in [Owners -> Nat]
  BY OwedIsNat, OwedNextIsNat
<1>2. \A p \in Owners \ {o} : g[p] = f[p]
  BY DEF OnlyTouches, Owed
<1>3. f[o] = Owed(o) /\ g[o] = Owed(o)'
  OBVIOUS
<1>4. Debt = SumFunction(f) /\ Debt' = SumFunction(g)
  BY DEF Debt
<1> HIDE DEF f, g
<1>5. SumFunction(g) + f[o] = SumFunction(f) + g[o]
  BY <1>1, <1>2, TotalChangesAt, VaultAssumption
<1>6. SumFunction(f) \in Nat /\ SumFunction(g) \in Nat /\ Owed(o) \in Nat
  BY <1>1, TotalIsNat, VaultAssumption, OwedIsNat
<1> QED
  BY <1>3, <1>4, <1>5, <1>6

(* One owner's positions change, and the vault's tokens change by as much. *)
LEMMA StockFollows ==
  ASSUME Inv, Inv', NEW o \in Owners, NEW id \in Ids,
         \A p \in Owners \ {o} : positionOf'[p] = positionOf[p],
         tokens'[id] + positionOf[o][id] = tokens[id] + positionOf'[o][id],
         tokens[id] = Stock(id)
  PROVE  tokens'[id] = Stock(id)'
<1> DEFINE f == [p \in Owners |-> positionOf[p][id]]
           g == [p \in Owners |-> positionOf'[p][id]]
<1>1. f \in [Owners -> Nat] /\ g \in [Owners -> Nat]
  BY DEF Inv, TypeOK, BooksTypeOK
<1>2. \A p \in Owners \ {o} : g[p] = f[p]
  OBVIOUS
<1>3. f[o] = positionOf[o][id] /\ g[o] = positionOf'[o][id]
  OBVIOUS
<1>4. Stock(id) = SumFunction(f) /\ Stock(id)' = SumFunction(g)
  BY DEF Stock
<1>5. tokens'[id] \in Int
  BY DEF Inv, TypeOK, VenueTypeOK
<1> HIDE DEF f, g
<1>6. SumFunction(g) + f[o] = SumFunction(f) + g[o]
  BY <1>1, <1>2, TotalChangesAt, VaultAssumption
<1>7. SumFunction(f) \in Nat /\ SumFunction(g) \in Nat /\ f[o] \in Nat /\ g[o] \in Nat
  BY <1>1, TotalIsNat, VaultAssumption
<1> QED
  BY <1>3, <1>4, <1>5, <1>6, <1>7

(* A step of one owner keeps the ledger: what it owes and holds for the    *)
(* owner move together, and so do its books.                               *)
LEMMA LedgerStep ==
  ASSUME Ledger, Inv', NEW o \in Owners, NEW d \in Int,
         OnlyTouches(o), OthersBooks(o),
         Owed(o)' = Owed(o) + d, Cash' = Cash + d,
         WentOut(o)' + CameIn(o) + d = WentOut(o) + CameIn(o)',
         \A id \in Ids : tokens'[id] + positionOf[o][id] = tokens[id] + positionOf'[o][id],
         \A m \in Markets : Settled(m) => Settled(m)',
         \A m \in Markets, s \in Sides : ~Settled(m)' =>
           positionOf'[o][<<m, s>>] + sold'[o][<<m, s>>] + bought[o][<<m, s>>]
           = positionOf[o][<<m, s>>] + sold[o][<<m, s>>] + bought'[o][<<m, s>>]
  PROVE  Ledger'
<1>1. Inv /\ BooksBalance /\ CustodyIsAttributed
  BY DEF Ledger
<1>2. CustodyIsAttributed'
  <2>1. Cash' = Debt'
    BY <1>1, DebtFollows DEF CustodyIsAttributed, Cash, Debt
  <2>2. \A id \in Ids : tokens'[id] = Stock(id)'
    BY <1>1, StockFollows DEF OthersBooks, CustodyIsAttributed, Stock
  <2> QED
    BY <2>1, <2>2 DEF CustodyIsAttributed, Cash, Debt, Stock
<1>3. \A p \in Owners : (Owed(p) + WentOut(p) = CameIn(p))'
  <2> TAKE p \in Owners
  <2>1. Owed(p) + WentOut(p) = CameIn(p)
    BY <1>1 DEF BooksBalance
  <2>2. CASE p # o
    BY <2>1, <2>2 DEF OnlyTouches, OthersBooks, Owed
  <2>3. CASE p = o
    <3>1. Owed(o) \in Nat /\ WentOut(o) \in Nat /\ CameIn(o) \in Nat
      BY <1>1, OwedIsNat, BookTypes DEF Inv
    <3>2. WentOut(o)' \in Nat /\ CameIn(o)' \in Nat
      BY BookNextTypes DEF Inv
    <3> QED
      BY <2>1, <2>3, <3>1, <3>2
  <2> QED
    BY <2>2, <2>3
<1>4. \A p \in Owners, m \in Markets, s \in Sides : ~Settled(m)' =>
        positionOf'[p][<<m, s>>] + sold'[p][<<m, s>>] = bought'[p][<<m, s>>]
  <2> TAKE p \in Owners, m \in Markets, s \in Sides
  <2> HAVE ~Settled(m)'
  <2>0. <<m, s>> \in Ids
    BY DEF Ids
  <2>1. positionOf[p][<<m, s>>] + sold[p][<<m, s>>] = bought[p][<<m, s>>]
    BY <1>1 DEF BooksBalance
  <2>2. CASE p # o
    BY <2>1, <2>2 DEF OthersBooks
  <2>3. CASE p = o
    <3>1. /\ positionOf[o][<<m, s>>] \in Nat /\ sold[o][<<m, s>>] \in Nat
          /\ bought[o][<<m, s>>] \in Nat
      BY <1>1, <2>0 DEF Inv, TypeOK, BooksTypeOK
    <3>2. /\ positionOf'[o][<<m, s>>] \in Nat /\ sold'[o][<<m, s>>] \in Nat
          /\ bought'[o][<<m, s>>] \in Nat
      BY <2>0 DEF Inv, TypeOK, BooksTypeOK
    <3> QED
      BY <2>1, <2>3, <3>1, <3>2
  <2> QED
    BY <2>2, <2>3
<1> QED
  BY <1>2, <1>3, <1>4 DEF Ledger, BooksBalance

-----------------------------------------------------------------------------
(* What each kind of step does to the ledger.                              *)

(* The pool is paid from the vault's own collateral, wherever it sits.     *)
LEMMA DrawCosts ==
  ASSUME VenueTypeOK, NEW m \in Markets, NEW worst \in Nat, NEW cost \in Nat,
         NEW toCredit \in BOOLEAN, PoolDraw(m, worst, cost, toCredit)
  PROVE  Cash' + cost = Cash
<1>1. wallet \in Nat /\ credit \in [Markets -> Nat] /\ credit[m] \in Nat
  BY DEF VenueTypeOK
<1>2. wallet' \in Nat /\ credit' \in [Markets -> Nat]
  BY DrawTypes
<1>3. \A k \in Markets \ {m} : credit'[k] = credit[k]
  BY <1>1 DEF PoolDraw
<1>4. SumFunction(credit') + credit[m] = SumFunction(credit) + credit'[m]
  BY <1>1, <1>2, <1>3, TotalChangesAt, VaultAssumption
<1>5. SumFunction(credit) \in Nat /\ SumFunction(credit') \in Nat
  BY <1>1, <1>2, TotalIsNat, VaultAssumption
<1>6. wallet' + credit'[m] = (wallet + credit[m]) - cost
  BY <1>1 DEF PoolDraw
<1>7. credit'[m] \in Nat
  BY <1>2
<1>8. Cash' + cost = Cash
  BY <1>1, <1>2, <1>4, <1>5, <1>6, <1>7 DEF Cash
<1> QED
  BY <1>8

(* What the pool pays lands in the wallet or as credit.                    *)
LEMMA PayLands ==
  ASSUME VenueTypeOK, NEW m \in Markets, NEW n \in Nat,
         NEW toCredit \in BOOLEAN, PoolPays(m, n, toCredit)
  PROVE  Cash' = Cash + n
<1>1. wallet \in Nat /\ credit \in [Markets -> Nat] /\ credit[m] \in Nat
  BY DEF VenueTypeOK
<1>2. wallet' \in Nat /\ credit' \in [Markets -> Nat]
  BY PayTypes
<1>3. \A k \in Markets \ {m} : credit'[k] = credit[k]
  BY <1>1 DEF PoolPays
<1>4. SumFunction(credit') + credit[m] = SumFunction(credit) + credit'[m]
  BY <1>1, <1>2, <1>3, TotalChangesAt, VaultAssumption
<1>5. SumFunction(credit) \in Nat /\ SumFunction(credit') \in Nat
  BY <1>1, <1>2, TotalIsNat, VaultAssumption
<1>6. wallet' + credit'[m] = wallet + credit[m] + n
  BY <1>1 DEF PoolPays
<1>7. credit'[m] \in Nat
  BY <1>2
<1> QED
  BY <1>1, <1>2, <1>4, <1>5, <1>6, <1>7 DEF Cash

(* Steps that fill nothing and settle nothing leave the positions' side of *)
(* the ledger as it was.                                                   *)
LEMMA BooksStand ==
  ASSUME Inv, NEW o \in Owners, UNCHANGED <<bookVars, tokens, status>>
  PROVE  /\ \A p \in Owners : /\ positionOf'[p] = positionOf[p]
                              /\ bought'[p] = bought[p] /\ sold'[p] = sold[p]
                              /\ costBase'[p] = costBase[p]
                              /\ proceedsBase'[p] = proceedsBase[p]
                              /\ payoutBase'[p] = payoutBase[p]
         /\ \A id \in Ids : tokens'[id] + positionOf[o][id] = tokens[id] + positionOf'[o][id]
         /\ \A m \in Markets : Settled(m)' = Settled(m)
         /\ \A m \in Markets, s \in Sides : 
              positionOf'[o][<<m, s>>] + sold'[o][<<m, s>>] + bought[o][<<m, s>>]
              = positionOf[o][<<m, s>>] + sold[o][<<m, s>>] + bought'[o][<<m, s>>]
<1>1. UNCHANGED <<positionOf, costBase, proceedsBase, payoutBase, bought, sold, tokens, status>>
  BY DEF bookVars, tallyVars
<1> QED
  BY <1>1 DEF Settled

(* An owner's books of sums: those of an owner nobody's step touched.      *)
LEMMA BooksFollow ==
  ASSUME NEW p \in Owners,
         totalWithdrawn'[p] = totalWithdrawn[p], IntakeOf(p)' = IntakeOf(p),
         costBase'[p] = costBase[p], proceedsBase'[p] = proceedsBase[p],
         payoutBase'[p] = payoutBase[p]
  PROVE  WentOut(p)' = WentOut(p) /\ CameIn(p)' = CameIn(p)
BY DEF WentOut, CameIn

(* Deposits, credits and withdrawals: what an owner is owed comes in or    *)
(* goes out with the call.                                                 *)
LEMMA MoneyLedger ==
  ASSUME Ledger, Inv', NEW o \in Owners, NEW n \in Amounts,
         \/ Deposit(o, n) \/ CreditFor(o, n) \/ CreditPrivateFor(o, n)
         \/ Withdraw(o, n) \/ MoveToPrivate(o, n) \/ WithdrawPrivate(o, n)
  PROVE  Ledger'
<1>0. n \in Nat /\ n \in Int /\ Inv /\ TypeOK /\ BudgetsAreReachable
  BY VaultAssumption DEF Ledger, Inv
<1>1. UNCHANGED <<grants, activeGrantOf, bookVars, credit, tokens, status>>
  BY DEF Deposit, CreditFor, CreditPrivateFor, Withdraw, MoveToPrivate,
         WithdrawPrivate, grantVars, venueVars
<1>2. \A p \in Owners : Lent(p)' = Lent(p)
  BY <1>0, <1>1, BudgetsKept
<1>3. \A p \in Owners : Own(p) \in Nat /\ available[p] \in Nat
                        /\ privateAvailable[p] \in Nat /\ totalWithdrawn[p] \in Nat
                        /\ totalDeposited[p] \in Nat /\ credited[p] \in Nat
  BY <1>0, OwnTypes DEF TypeOK, AccountsTypeOK
<1>4. Lent(o) \in Nat /\ wallet \in Nat /\ SumFunction(credit) \in Nat
  BY <1>0, LentTypes, CashIsNat DEF TypeOK, VenueTypeOK
<1>5. /\ DOMAIN available = Owners /\ DOMAIN privateAvailable = Owners
      /\ DOMAIN totalWithdrawn = Owners /\ DOMAIN totalDeposited = Owners
      /\ DOMAIN credited = Owners
  BY <1>0 DEF TypeOK, AccountsTypeOK
<1>6. \A p \in Owners \ {o} :
        /\ Own(p)' = Own(p) /\ totalWithdrawn'[p] = totalWithdrawn[p]
        /\ IntakeOf(p)' = IntakeOf(p)
  BY <1>5 DEF Own, IntakeOf, Deposit, CreditFor, CreditPrivateFor,
              Withdraw, MoveToPrivate, WithdrawPrivate
<1>7. /\ \A p \in Owners : /\ positionOf'[p] = positionOf[p]
                           /\ bought'[p] = bought[p] /\ sold'[p] = sold[p]
                           /\ costBase'[p] = costBase[p]
                           /\ proceedsBase'[p] = proceedsBase[p]
                           /\ payoutBase'[p] = payoutBase[p]
      /\ \A id \in Ids : tokens'[id] + positionOf[o][id] = tokens[id] + positionOf'[o][id]
      /\ \A m \in Markets : Settled(m)' = Settled(m)
      /\ \A m \in Markets, s \in Sides :
           positionOf'[o][<<m, s>>] + sold'[o][<<m, s>>] + bought[o][<<m, s>>]
           = positionOf[o][<<m, s>>] + sold[o][<<m, s>>] + bought'[o][<<m, s>>]
  BY <1>0, <1>1, BooksStand
<1>8. OnlyTouches(o) /\ OthersBooks(o)
  BY <1>2, <1>6, <1>7, BooksFollow DEF OnlyTouches, OthersBooks
<1>9. /\ SumFunction(costBase'[o]) = SumFunction(costBase[o])
      /\ SumFunction(proceedsBase'[o]) = SumFunction(proceedsBase[o])
      /\ SumFunction(payoutBase'[o]) = SumFunction(payoutBase[o])
      /\ SumFunction(credit') = SumFunction(credit)
  BY <1>1, <1>7
<1>10. /\ IntakeOf(o) \in Nat /\ SumFunction(costBase[o]) \in Nat
       /\ SumFunction(proceedsBase[o]) \in Nat /\ SumFunction(payoutBase[o]) \in Nat
  BY <1>0, BookTypes
<1>11. \E d \in Int :
         /\ Own(o)' = Own(o) + d /\ wallet' = wallet + d
         /\ totalWithdrawn'[o] + IntakeOf(o) + d = totalWithdrawn[o] + IntakeOf(o)'
  <2>1. CASE Deposit(o, n) \/ CreditFor(o, n) \/ CreditPrivateFor(o, n)
    <3>1. /\ Own(o)' = Own(o) + n /\ wallet' = wallet + n
          /\ totalWithdrawn'[o] + IntakeOf(o) + n = totalWithdrawn[o] + IntakeOf(o)'
      BY <1>0, <1>3, <1>4, <1>5, <2>1
      DEF Own, IntakeOf, Deposit, CreditFor, CreditPrivateFor
    <3> QED
      BY <1>0, <3>1
  <2>2. CASE Withdraw(o, n) \/ WithdrawPrivate(o, n)
    <3> DEFINE d == -n
    <3>1. /\ Own(o)' = Own(o) - n /\ wallet' = wallet - n
          /\ totalWithdrawn'[o] = totalWithdrawn[o] + n /\ IntakeOf(o)' = IntakeOf(o)
      BY <1>0, <1>3, <1>4, <1>5, <2>2 DEF Own, IntakeOf, Withdraw, WithdrawPrivate
    <3>2. /\ d \in Int /\ Own(o)' = Own(o) + d /\ wallet' = wallet + d
          /\ totalWithdrawn'[o] + IntakeOf(o) + d = totalWithdrawn[o] + IntakeOf(o)'
      BY <1>0, <1>3, <1>4, <1>10, <3>1
    <3> HIDE DEF d
    <3> QED
      BY <3>2
  <2>3. CASE MoveToPrivate(o, n)
    <3>1. /\ Own(o)' = Own(o) + 0 /\ wallet' = wallet + 0
          /\ totalWithdrawn'[o] + IntakeOf(o) + 0 = totalWithdrawn[o] + IntakeOf(o)'
      BY <1>0, <1>3, <1>4, <1>5, <1>10, <2>3 DEF Own, IntakeOf, MoveToPrivate, venueVars
    <3> QED
      BY <3>1
  <2> QED
    BY <2>1, <2>2, <2>3
<1> PICK d \in Int :
         /\ Own(o)' = Own(o) + d /\ wallet' = wallet + d
         /\ totalWithdrawn'[o] + IntakeOf(o) + d = totalWithdrawn[o] + IntakeOf(o)'
  BY <1>11
<1>12. Owed(o)' = Owed(o) + d
  BY <1>2, <1>3, <1>4 DEF Owed
<1>13. Cash' = Cash + d
  BY <1>4, <1>9 DEF Cash
<1>14. WentOut(o)' + CameIn(o) + d = WentOut(o) + CameIn(o)'
  <2>1. IntakeOf(o)' \in Nat /\ totalWithdrawn'[o] \in Nat
    BY DEF Inv, TypeOK, AccountsTypeOK, IntakeOf
  <2> QED
    BY <1>3, <1>9, <1>10, <2>1 DEF WentOut, CameIn
<1> QED
  BY <1>7, <1>8, <1>12, <1>13, <1>14, LedgerStep

(* A grant, a top-up or a revocation: the owner is owed the intake more,   *)
(* which came in with the call.                                            *)
LEMMA GrantsLedger ==
  ASSUME Ledger, Inv', NEW o \in Owners, NEW d \in Nat, OnlyTouches(o),
         totalWithdrawn'[o] = totalWithdrawn[o], Owed(o)' = Owed(o) + d,
         totalDeposited' = [totalDeposited EXCEPT ![o] = @ + d],
         wallet' = wallet + d,
         UNCHANGED <<bookVars, credit, tokens, status, credited>>
  PROVE  Ledger'
<1>0. Inv /\ TypeOK /\ d \in Int
  BY DEF Ledger, Inv
<1>1. UNCHANGED <<bookVars, tokens, status>>
  OBVIOUS
<1>2. /\ \A p \in Owners : /\ positionOf'[p] = positionOf[p]
                           /\ bought'[p] = bought[p] /\ sold'[p] = sold[p]
                           /\ costBase'[p] = costBase[p]
                           /\ proceedsBase'[p] = proceedsBase[p]
                           /\ payoutBase'[p] = payoutBase[p]
      /\ \A id \in Ids : tokens'[id] + positionOf[o][id] = tokens[id] + positionOf'[o][id]
      /\ \A m \in Markets : Settled(m)' = Settled(m)
      /\ \A m \in Markets, s \in Sides :
           positionOf'[o][<<m, s>>] + sold'[o][<<m, s>>] + bought[o][<<m, s>>]
           = positionOf[o][<<m, s>>] + sold[o][<<m, s>>] + bought'[o][<<m, s>>]
  BY <1>0, <1>1, BooksStand
<1>3. \A p \in Owners : totalDeposited[p] \in Nat /\ credited[p] \in Nat
  BY <1>0 DEF TypeOK, AccountsTypeOK
<1>4. DOMAIN totalDeposited = Owners
  BY <1>0 DEF TypeOK, AccountsTypeOK
<1>5. /\ IntakeOf(o)' = IntakeOf(o) + d
      /\ \A p \in Owners \ {o} : IntakeOf(p)' = IntakeOf(p)
  BY <1>3, <1>4 DEF IntakeOf
<1>6. OthersBooks(o)
  BY <1>2, <1>5, BooksFollow DEF OnlyTouches, OthersBooks
<1>7. Cash' = Cash + d
  <2>1. wallet \in Nat /\ SumFunction(credit) \in Nat
    BY <1>0, CashIsNat DEF TypeOK, VenueTypeOK
  <2> QED
    BY <2>1 DEF Cash
<1>8. WentOut(o)' + CameIn(o) + d = WentOut(o) + CameIn(o)'
  <2>1. /\ IntakeOf(o) \in Nat /\ SumFunction(costBase[o]) \in Nat /\ totalWithdrawn[o] \in Nat
        /\ SumFunction(proceedsBase[o]) \in Nat /\ SumFunction(payoutBase[o]) \in Nat
    BY <1>0, BookTypes
  <2>2. /\ SumFunction(costBase'[o]) = SumFunction(costBase[o])
        /\ SumFunction(proceedsBase'[o]) = SumFunction(proceedsBase[o])
        /\ SumFunction(payoutBase'[o]) = SumFunction(payoutBase[o])
    BY <1>2
  <2> QED
    BY <1>5, <2>1, <2>2 DEF WentOut, CameIn
<1> QED
  BY <1>0, <1>2, <1>6, <1>7, <1>8, LedgerStep

(* The three calls by which an owner lends and takes back.                 *)
LEMMA OwnerGrantsLedger ==
  ASSUME Ledger, Inv', NEW o \in Owners, OwnerGrants(o)
  PROVE  Ledger'
<1>0. Inv /\ AccountsTypeOK /\ VenueTypeOK /\ \A p \in Owners : Owed(p) \in Nat
  BY OwedIsNat DEF Ledger, Inv, TypeOK
<1>1. ASSUME NEW k \in SignedKinds, NEW a \in Actors, NEW caps \in CapsChoices,
             NEW expiry \in 1..(MaxTime + 1), NEW n \in {0} \cup Amounts,
             NEW intake \in {0} \cup Amounts,
             GrantTo(o, k, a, caps, expiry, n, intake)
      PROVE  Ledger'
  <2>1. /\ OnlyTouches(o) /\ totalWithdrawn'[o] = totalWithdrawn[o]
        /\ Owed(o)' = Owed(o) + intake
    BY <1>0, <1>1, GrantToMoves
  <2>2. intake \in Nat
    BY VaultAssumption
  <2>3. /\ totalDeposited' = [totalDeposited EXCEPT ![o] = @ + intake]
        /\ wallet' = wallet + intake
        /\ UNCHANGED <<bookVars, credit, tokens, status, credited>>
    BY <1>1 DEF GrantTo
  <2> QED
    BY <2>1, <2>2, <2>3, GrantsLedger
<1>2. ASSUME OnlyTouches(o), totalWithdrawn'[o] = totalWithdrawn[o], Owed(o)' = Owed(o),
             UNCHANGED <<otherAccountVars, bookVars, venueVars, credited>>
      PROVE  Ledger'
  <2>1. Owed(o)' = Owed(o) + 0
    BY <1>0, <1>2
  <2>2. totalDeposited' = [totalDeposited EXCEPT ![o] = @ + 0]
    BY <1>0, <1>2 DEF AccountsTypeOK, otherAccountVars
  <2>3. wallet' = wallet + 0 /\ UNCHANGED <<bookVars, credit, tokens, status, credited>>
    BY <1>0, <1>2 DEF VenueTypeOK, venueVars
  <2> QED
    BY <1>2, <2>1, <2>2, <2>3, GrantsLedger
<1>3. ASSUME NEW g \in GrantIds, NEW n \in Amounts, FundGrant(o, g, n)
      PROVE  Ledger'
  <2>1. /\ OnlyTouches(o) /\ totalWithdrawn'[o] = totalWithdrawn[o]
        /\ Owed(o)' = Owed(o)
    BY <1>0, <1>3, FundMoves
  <2> QED
    BY <1>2, <1>3, <2>1 DEF FundGrant
<1>4. ASSUME NEW g \in GrantIds, Revoke(o, g)
      PROVE  Ledger'
  <2>1. /\ OnlyTouches(o) /\ totalWithdrawn'[o] = totalWithdrawn[o]
        /\ Owed(o)' = Owed(o)
    BY <1>0, <1>4, RevokeMoves
  <2> QED
    BY <1>2, <1>4, <2>1 DEF Revoke
<1> QED
  BY <1>1, <1>3, <1>4 DEF OwnerGrants

(* A buy: what the fill cost leaves the vault and its tokens arrive, for   *)
(* the owner whose own or lent money paid.                                 *)
LEMMA BoughtLedger ==
  ASSUME Ledger, Inv', NEW o \in Owners, NEW m \in Markets, NEW s \in Sides,
         NEW worst \in Nat, NEW toCredit \in BOOLEAN, NEW g \in Nat,
         NEW f, f.cash \in Nat, f.tokens \in Nat,
         OnlyTouches(o), totalWithdrawn' = totalWithdrawn,
         Owed(o)' + f.cash = Owed(o),
         PoolDraw(m, worst, f.cash, toCredit),
         tokens' = [tokens EXCEPT ![<<m, s>>] = @ + f.tokens],
         Book(o, <<m, s>>, f, g), RecordBuy(o, m, s, f),
         UNCHANGED <<totalDeposited, credited, status>>
  PROVE  Ledger'
<1>0. Inv /\ TypeOK /\ BooksTypeOK /\ VenueTypeOK /\ AccountsTypeOK /\ <<m, s>> \in Ids
  BY DEF Ledger, Inv, TypeOK, Ids
<1>1. /\ SumFunction(costBase'[o]) = SumFunction(costBase[o]) + f.cash
      /\ \A p \in Owners \ {o} : costBase'[p] = costBase[p]
  BY <1>0, OrderIsTallied DEF Ordered
<1>2. UNCHANGED <<proceedsBase, payoutBase, sold>>
  BY DEF RecordBuy
<1>3. \A p \in Owners : IntakeOf(p)' = IntakeOf(p)
  BY DEF IntakeOf
<1>4. /\ \A p \in Owners \ {o} : positionOf'[p] = positionOf[p] /\ bought'[p] = bought[p]
      /\ \A id \in Ids \ {<<m, s>>} : /\ positionOf'[o][id] = positionOf[o][id]
                                      /\ bought'[o][id] = bought[o][id]
                                      /\ tokens'[id] = tokens[id]
      /\ positionOf'[o][<<m, s>>] = positionOf[o][<<m, s>>] + f.tokens
      /\ bought'[o][<<m, s>>] = bought[o][<<m, s>>] + f.tokens
      /\ tokens'[<<m, s>>] = tokens[<<m, s>>] + f.tokens
  <2>1. /\ positionOf' = [positionOf EXCEPT ![o][<<m, s>>] = @ + f.tokens]
        /\ bought' = [bought EXCEPT ![o][<<m, s>>] = @ + f.tokens]
    BY DEF Book, RecordBuy
  <2>2. /\ positionOf \in [Owners -> [Ids -> Nat]]
        /\ bought \in [Owners -> [Ids -> Nat]] /\ tokens \in [Ids -> Int]
    BY <1>0 DEF BooksTypeOK, VenueTypeOK
  <2> QED
    BY <1>0, <2>1, <2>2
<1>5. OthersBooks(o)
  BY <1>1, <1>2, <1>3, <1>4, BooksFollow DEF OthersBooks
<1>6. Owed(o) \in Nat /\ Owed(o)' \in Nat /\ Cash \in Nat
  BY <1>0, OwedIsNat, OwedNextIsNat, CashIsNat
<1>7. Cash' + f.cash = Cash
  BY <1>0, DrawCosts
<1> PICK d \in Int : d = -f.cash
  OBVIOUS
<1>8. Cash' \in Nat
  <2>1. wallet' \in Nat /\ credit' \in [Markets -> Nat]
    BY DEF Inv, TypeOK, VenueTypeOK
  <2> QED
    BY <2>1, TotalIsNat, VaultAssumption DEF Cash
<1>9. Owed(o)' = Owed(o) + d /\ Cash' = Cash + d
  BY <1>6, <1>7, <1>8
<1>10. WentOut(o)' + CameIn(o) + d = WentOut(o) + CameIn(o)'
  <2>1. /\ IntakeOf(o) \in Nat /\ SumFunction(costBase[o]) \in Nat /\ totalWithdrawn[o] \in Nat
        /\ SumFunction(proceedsBase[o]) \in Nat /\ SumFunction(payoutBase[o]) \in Nat
    BY <1>0, BookTypes
  <2> QED
    BY <1>1, <1>2, <1>3, <2>1 DEF WentOut, CameIn
<1>11. \A id \in Ids : /\ positionOf[o][id] \in Nat /\ bought[o][id] \in Nat
                       /\ sold[o][id] \in Nat /\ tokens[id] \in Int
  BY <1>0 DEF BooksTypeOK, VenueTypeOK
<1>12. \A id \in Ids : tokens'[id] + positionOf[o][id] = tokens[id] + positionOf'[o][id]
  BY <1>4, <1>11
<1>13. \A k \in Markets, x \in Sides :
         positionOf'[o][<<k, x>>] + sold'[o][<<k, x>>] + bought[o][<<k, x>>]
         = positionOf[o][<<k, x>>] + sold[o][<<k, x>>] + bought'[o][<<k, x>>]
  <2>1. ASSUME NEW id \in Ids
        PROVE  positionOf'[o][id] + sold'[o][id] + bought[o][id]
               = positionOf[o][id] + sold[o][id] + bought'[o][id]
    BY <1>2, <1>4, <1>11
  <2> QED
    BY <2>1 DEF Ids
<1>14. \A k \in Markets : Settled(k)' = Settled(k)
  BY DEF Settled
<1> QED
  BY <1>5, <1>9, <1>10, <1>12, <1>13, <1>14, LedgerStep DEF Ledger

(* A sale: its proceeds arrive and its tokens leave, for the owner of the  *)
(* position, whoever sold it.                                              *)
LEMMA SoldLedger ==
  ASSUME Ledger, Inv', NEW o \in Owners, NEW m \in Markets, NEW s \in Sides,
         NEW toCredit \in BOOLEAN, NEW f, f.cash \in Nat, f.tokens \in Nat,
         PoolPays(m, f.cash, toCredit),
         tokens' = [tokens EXCEPT ![<<m, s>>] = @ - f.tokens],
         BookSale(o, <<m, s>>, f), RecordSale(o, m, s, f),
         UNCHANGED <<otherAccountVars, grantVars, status, credited>>
  PROVE  Ledger'
<1>0. /\ Inv /\ TypeOK /\ BooksTypeOK /\ VenueTypeOK /\ AccountsTypeOK
      /\ <<m, s>> \in Ids /\ f.cash \in Int
  BY DEF Ledger, Inv, TypeOK, Ids
<1>1. /\ OnlyTouches(o) /\ totalWithdrawn' = totalWithdrawn
      /\ Own(o) \in Nat /\ Own(o)' = Own(o) + f.cash /\ Lent(o)' = Lent(o)
  <2> PICK n \in Int : n = f.cash
    BY <1>0
  <2>1. available' = [available EXCEPT ![o] = available[o] + n]
    BY DEF BookSale
  <2>2. UNCHANGED <<otherAccountVars, activeGrantOf, grants>>
    BY DEF grantVars
  <2> QED
    BY <1>0, <2>1, <2>2, TradeMoves DEF otherAccountVars
<1>2. Owed(o)' = Owed(o) + f.cash
  BY <1>0, <1>1, LentTypes DEF Owed, Inv
<1>3. /\ SumFunction(proceedsBase'[o]) = SumFunction(proceedsBase[o]) + f.cash
      /\ \A p \in Owners \ {o} : proceedsBase'[p] = proceedsBase[p]
  <2>1. proceedsBase' = [proceedsBase EXCEPT ![o][m] = @ + f.cash]
    BY DEF RecordSale
  <2>2. proceedsBase \in [Owners -> [Markets -> Nat]]
    BY <1>0 DEF BooksTypeOK
  <2>3. /\ proceedsBase[o] \in [Markets -> Nat] /\ proceedsBase'[o] \in [Markets -> Nat]
        /\ proceedsBase'[o][m] = proceedsBase[o][m] + f.cash
        /\ \A k \in Markets \ {m} : proceedsBase'[o][k] = proceedsBase[o][k]
        /\ \A p \in Owners \ {o} : proceedsBase'[p] = proceedsBase[p]
    BY <2>1, <2>2
  <2>4. SumFunction(proceedsBase'[o]) = SumFunction(proceedsBase[o]) + f.cash
    BY <2>3, TallyGrows, Zenon
  <2> QED
    BY <2>3, <2>4
<1>4. UNCHANGED <<costBase, payoutBase, bought>>
  BY DEF RecordSale
<1>5. \A p \in Owners : IntakeOf(p)' = IntakeOf(p)
  BY DEF IntakeOf, otherAccountVars
<1>6. /\ \A p \in Owners \ {o} : positionOf'[p] = positionOf[p] /\ sold'[p] = sold[p]
      /\ \A id \in Ids \ {<<m, s>>} : /\ positionOf'[o][id] = positionOf[o][id]
                                      /\ sold'[o][id] = sold[o][id]
                                      /\ tokens'[id] = tokens[id]
      /\ positionOf'[o][<<m, s>>] = positionOf[o][<<m, s>>] - f.tokens
      /\ sold'[o][<<m, s>>] = sold[o][<<m, s>>] + f.tokens
      /\ tokens'[<<m, s>>] = tokens[<<m, s>>] - f.tokens
  <2>1. /\ positionOf' = [positionOf EXCEPT ![o][<<m, s>>] = @ - f.tokens]
        /\ sold' = [sold EXCEPT ![o][<<m, s>>] = @ + f.tokens]
    BY DEF BookSale, RecordSale
  <2>2. /\ positionOf \in [Owners -> [Ids -> Nat]]
        /\ sold \in [Owners -> [Ids -> Nat]] /\ tokens \in [Ids -> Int]
    BY <1>0 DEF BooksTypeOK, VenueTypeOK
  <2> QED
    BY <1>0, <2>1, <2>2
<1>7. OthersBooks(o)
  BY <1>1, <1>3, <1>4, <1>5, <1>6, BooksFollow DEF OthersBooks
<1>8. Cash' = Cash + f.cash
  BY <1>0, PayLands
<1>9. WentOut(o)' + CameIn(o) + f.cash = WentOut(o) + CameIn(o)'
  <2>1. /\ IntakeOf(o) \in Nat /\ SumFunction(costBase[o]) \in Nat /\ totalWithdrawn[o] \in Nat
        /\ SumFunction(proceedsBase[o]) \in Nat /\ SumFunction(payoutBase[o]) \in Nat
    BY <1>0, BookTypes
  <2> QED
    BY <1>1, <1>3, <1>4, <1>5, <2>1 DEF WentOut, CameIn
<1>10. \A id \in Ids : /\ positionOf[o][id] \in Nat /\ bought[o][id] \in Nat
                       /\ sold[o][id] \in Nat /\ tokens[id] \in Int
  BY <1>0 DEF BooksTypeOK, VenueTypeOK
<1>11. \A id \in Ids : tokens'[id] + positionOf[o][id] = tokens[id] + positionOf'[o][id]
  BY <1>6, <1>10
<1>12. \A k \in Markets, x \in Sides :
         positionOf'[o][<<k, x>>] + sold'[o][<<k, x>>] + bought[o][<<k, x>>]
         = positionOf[o][<<k, x>>] + sold[o][<<k, x>>] + bought'[o][<<k, x>>]
  <2>1. ASSUME NEW id \in Ids
        PROVE  positionOf'[o][id] + sold'[o][id] + bought[o][id]
               = positionOf[o][id] + sold[o][id] + bought'[o][id]
    BY <1>4, <1>6, <1>10
  <2> QED
    BY <2>1 DEF Ids
<1>13. \A k \in Markets : Settled(k)' = Settled(k)
  BY DEF Settled
<1> QED
  BY <1>0, <1>1, <1>2, <1>7, <1>8, <1>9, <1>11, <1>12, <1>13, LedgerStep

(* Settlement pays the position out and takes its tokens with it.          *)
LEMMA CrankLedger ==
  ASSUME Ledger, Inv', NEW o \in Owners, NEW m \in Markets, NEW toCredit \in Landings,
         CrankSettle(o, m, toCredit)
  PROVE  Ledger'
<1>0. /\ Inv /\ TypeOK /\ BooksTypeOK /\ VenueTypeOK /\ AccountsTypeOK /\ GrantsTypeOK
      /\ toCredit \in BOOLEAN
  BY VaultAssumption DEF Ledger, Inv, TypeOK
<1> PICK n \in Nat : n = Payout(o, m)
  BY <1>0, PayoutType
<1>1. /\ OnlyTouches(o) /\ totalWithdrawn' = totalWithdrawn
      /\ Own(o) \in Nat /\ Own(o)' = Own(o) + n /\ Lent(o)' = Lent(o)
  <2> DEFINE r(h) == [grants[h] EXCEPT !.openPositions = Minus(@, Closing(o, m, h))]
  <2>1. \A h \in GrantIds : grants'[h] = r(h)
    BY <1>0, CrankEffect
  <2>2. ASSUME NEW h \in GrantIds PROVE r(h).budget = grants[h].budget
    BY <1>0, GrantFields DEF Grant
  <2> HIDE DEF r
  <2>3. \A h \in GrantIds : grants'[h].budget = grants[h].budget
    BY <2>1, <2>2
  <2>4. available' = [available EXCEPT ![o] = available[o] + n]
        /\ UNCHANGED otherAccountVars /\ activeGrantOf' = activeGrantOf
    BY DEF CrankSettle
  <2>5. n \in Int
    OBVIOUS
  <2> QED
    BY <1>0, <2>3, <2>4, <2>5, TradeMoves DEF otherAccountVars
<1>2. Owed(o)' = Owed(o) + n
  BY <1>0, <1>1, LentTypes DEF Owed, Inv
<1>3. /\ SumFunction(payoutBase'[o]) = SumFunction(payoutBase[o]) + n
      /\ \A p \in Owners \ {o} : payoutBase'[p] = payoutBase[p]
  <2>1. payoutBase' = [payoutBase EXCEPT ![o][m] = @ + n]
    BY DEF CrankSettle
  <2>2. payoutBase \in [Owners -> [Markets -> Nat]]
    BY <1>0 DEF BooksTypeOK
  <2>3. /\ payoutBase[o] \in [Markets -> Nat] /\ payoutBase'[o] \in [Markets -> Nat]
        /\ payoutBase'[o][m] = payoutBase[o][m] + n
        /\ \A k \in Markets \ {m} : payoutBase'[o][k] = payoutBase[o][k]
        /\ \A p \in Owners \ {o} : payoutBase'[p] = payoutBase[p]
    BY <2>1, <2>2
  <2>4. SumFunction(payoutBase'[o]) = SumFunction(payoutBase[o]) + n
    BY <2>3, TallyGrows, Zenon
  <2> QED
    BY <2>3, <2>4
<1>4. UNCHANGED <<otherAccountVars, costBase, proceedsBase, bought, sold, status, credited>>
  BY DEF CrankSettle
<1>5. \A p \in Owners : IntakeOf(p)' = IntakeOf(p)
  BY <1>4 DEF IntakeOf, otherAccountVars
<1>6. /\ \A p \in Owners \ {o} : positionOf'[p] = positionOf[p]
      /\ \A id \in Ids : positionOf'[o][id] = IF id \in SettledIds(o, m) THEN 0
                                              ELSE positionOf[o][id]
      /\ \A id \in Ids : tokens'[id] = IF id \in SettledIds(o, m)
                                       THEN tokens[id] - positionOf[o][id] ELSE tokens[id]
  BY <1>0 DEF CrankSettle, BooksTypeOK
<1>7. OthersBooks(o)
  BY <1>1, <1>3, <1>4, <1>5, <1>6, BooksFollow DEF OthersBooks
<1>8. Cash' = Cash + n
  BY <1>0, PayLands DEF CrankSettle
<1>9. WentOut(o)' + CameIn(o) + n = WentOut(o) + CameIn(o)'
  <2>1. /\ IntakeOf(o) \in Nat /\ SumFunction(costBase[o]) \in Nat /\ totalWithdrawn[o] \in Nat
        /\ SumFunction(proceedsBase[o]) \in Nat /\ SumFunction(payoutBase[o]) \in Nat
    BY <1>0, BookTypes
  <2> QED
    BY <1>1, <1>3, <1>4, <1>5, <2>1 DEF WentOut, CameIn
<1>10. \A id \in Ids : positionOf[o][id] \in Nat /\ tokens[id] \in Int
  BY <1>0 DEF BooksTypeOK, VenueTypeOK
<1>11. \A id \in Ids : tokens'[id] + positionOf[o][id] = tokens[id] + positionOf'[o][id]
  BY <1>6, <1>10
<1>12. \A k \in Markets, x \in Sides : ~Settled(k)' =>
         positionOf'[o][<<k, x>>] + sold'[o][<<k, x>>] + bought[o][<<k, x>>]
         = positionOf[o][<<k, x>>] + sold[o][<<k, x>>] + bought'[o][<<k, x>>]
  <2> TAKE k \in Markets, x \in Sides
  <2> HAVE ~Settled(k)'
  <2>1. k # m
    BY <1>4 DEF CrankSettle, Settled
  <2>2. <<k, x>> \notin SettledIds(o, m) /\ <<k, x>> \in Ids
    BY <2>1 DEF SettledIds, Ids
  <2> QED
    BY <1>4, <1>6, <2>2
<1>13. \A k \in Markets : Settled(k)' = Settled(k)
  BY <1>4 DEF Settled
<1>14. n \in Int
  OBVIOUS
<1> QED
  BY <1>0, <1>1, <1>2, <1>7, <1>8, <1>9, <1>11, <1>12, <1>13, <1>14, LedgerStep

(* Steps of the venue, of the clock, and the sweep that brings a pool's    *)
(* credit home: nobody is owed more or less.                               *)
LEMMA VenueLedger ==
  ASSUME Ledger, Inv',
         \/ \E m \in Markets : Sweep(m)
         \/ Venue \/ Tick \/ UNCHANGED vars
  PROVE  Ledger'
<1>0. Inv /\ VenueTypeOK
  BY DEF Ledger, Inv, TypeOK
<1>1. UNCHANGED <<accountVars, credited, grantVars, bookVars, tokens>>
  BY DEF Sweep, Venue, SetStatus, Tick, vars, venueVars
<1>2. UNCHANGED <<available, privateAvailable, totalDeposited, totalWithdrawn, credited,
                  grants, activeGrantOf, positionOf, costBase, proceedsBase, payoutBase,
                  bought, sold, tokens>>
  BY <1>1 DEF accountVars, otherAccountVars, grantVars, bookVars, tallyVars
<1>3. \A p \in Owners : /\ Owed(p)' = Owed(p) /\ WentOut(p)' = WentOut(p)
                        /\ CameIn(p)' = CameIn(p)
  BY <1>2 DEF Owed, Own, Lent, LentIn, WentOut, CameIn, IntakeOf
<1>4. Debt' = Debt /\ \A id \in Ids : Stock(id)' = Stock(id)
  BY <1>2, <1>3 DEF Debt, Stock
<1>5. Cash' = Cash
  <2>1. ASSUME NEW m \in Markets, Sweep(m) PROVE Cash' = Cash
    <3>1. wallet \in Nat /\ credit \in [Markets -> Nat] /\ credit' \in [Markets -> Nat]
      BY <1>0 DEF VenueTypeOK, Inv, TypeOK
    <3>2. /\ wallet' = wallet + credit[m] /\ credit'[m] = 0
          /\ \A k \in Markets \ {m} : credit'[k] = credit[k]
      BY <2>1, <3>1 DEF Sweep
    <3>3. SumFunction(credit') + credit[m] = SumFunction(credit) + credit'[m]
      BY <3>1, <3>2, TotalChangesAt, VaultAssumption
    <3>4. SumFunction(credit) \in Nat /\ SumFunction(credit') \in Nat /\ credit[m] \in Nat
      BY <3>1, TotalIsNat, VaultAssumption
    <3> QED
      BY <3>1, <3>2, <3>3, <3>4 DEF Cash
  <2>2. CASE Venue \/ Tick \/ UNCHANGED vars
    <3>1. UNCHANGED <<wallet, credit>>
      BY <2>2 DEF Venue, SetStatus, Tick, vars, venueVars
    <3> QED
      BY <3>1 DEF Cash
  <2> QED
    BY <2>1, <2>2
<1>6. \A m \in Markets : Settled(m) => Settled(m)'
  <2>1. status \in [Markets -> Statuses]
    BY <1>0 DEF VenueTypeOK
  <2>2. \/ status' = status
        \/ \E k \in Markets, s \in Statuses : SetStatus(k, s)
    BY DEF Sweep, Venue, Tick, vars, venueVars
  <2>3. ASSUME NEW k \in Markets, NEW s \in Statuses, SetStatus(k, s), NEW m \in Markets,
               Settled(m)
        PROVE  Settled(m)'
    <3>1. status[k] \in {"TRADING", "LOCKED"} /\ status' = [status EXCEPT ![k] = s]
      BY <2>3 DEF SetStatus
    <3>2. m # k
      BY <2>3, <3>1 DEF Settled
    <3>3. status'[m] = status[m]
      BY <2>1, <3>1, <3>2
    <3> QED
      BY <2>3, <3>3 DEF Settled
  <2> QED
    BY <2>2, <2>3 DEF Settled
<1>7. CustodyIsAttributed'
  BY <1>2, <1>4, <1>5 DEF Ledger, CustodyIsAttributed, Cash, Debt, Stock
<1>8. BooksBalance'
  BY <1>2, <1>3, <1>6 DEF Ledger, BooksBalance
<1> QED
  BY <1>7, <1>8 DEF Ledger

(* Every step keeps the ledger.                                            *)
LEMMA LedgerIsKept == Ledger /\ [Next]_vars => Ledger'
<1> SUFFICES ASSUME Ledger, [Next]_vars PROVE Ledger'
  OBVIOUS
<1>0. Inv /\ TypeOK /\ Inv'
  BY InvStep DEF Ledger, Inv
<1>1. ASSUME NEW o \in Owners, OwnerMoney(o) PROVE Ledger'
  BY <1>0, <1>1, MoneyLedger DEF OwnerMoney
<1>2. ASSUME NEW o \in Owners, OwnerGrants(o) PROVE Ledger'
  BY <1>0, <1>2, OwnerGrantsLedger
<1>3. ASSUME NEW o \in Owners, NEW m \in Markets, NEW s \in Sides, NEW q \in Quantities,
             NEW toCredit \in Landings, NEW f \in SellFills(q),
             PoolPays(m, f.cash, toCredit),
             tokens' = [tokens EXCEPT ![<<m, s>>] = @ - f.tokens],
             BookSale(o, <<m, s>>, f), RecordSale(o, m, s, f),
             UNCHANGED <<otherAccountVars, grantVars, status, now, credited>>
      PROVE  Ledger'
  <2>1. f.cash \in Nat /\ f.tokens \in Nat /\ toCredit \in BOOLEAN
    BY FillTypes, VaultAssumption
  <2> QED
    BY <1>0, <1>3, <2>1, SoldLedger
<1>4. ASSUME NEW o \in Owners, NEW m \in Markets, NEW s \in Sides, NEW q \in Quantities,
             NEW toCredit \in Landings, NEW price \in Prices,
             NEW f \in BuyFills(q, Escrow(s, price, q)),
             Buy(o, m, s, price, q, f, toCredit)
      PROVE  Ledger'
  <2>1. /\ f.cash \in Nat /\ f.tokens \in Nat /\ toCredit \in BOOLEAN
        /\ Escrow(s, price, q) \in Nat /\ ATTENDED \in Nat
    BY FillTypes, EscrowType, VaultAssumption DEF ATTENDED
  <2> PICK n \in Int : n = -f.cash
    BY <2>1
  <2>2. available[o] \in Nat
    BY <1>0 DEF TypeOK, AccountsTypeOK
  <2>3. available' = [available EXCEPT ![o] = available[o] + n]
    BY <1>4, <2>1, <2>2 DEF Buy
  <2>4. UNCHANGED <<otherAccountVars, activeGrantOf, grants>>
    BY <1>4 DEF Buy, grantVars
  <2>5. /\ OnlyTouches(o) /\ Own(o) \in Nat
        /\ Own(o)' = Own(o) + n /\ Lent(o)' = Lent(o)
    BY <1>0, <2>3, <2>4, TradeMoves
  <2>6. Lent(o) \in Nat
    BY <1>0, LentTypes DEF Inv
  <2>7. Owed(o)' + f.cash = Owed(o)
    BY <2>1, <2>5, <2>6 DEF Owed
  <2>8. /\ PoolDraw(m, Escrow(s, price, q), f.cash, toCredit)
        /\ tokens' = [tokens EXCEPT ![<<m, s>>] = @ + f.tokens]
        /\ Book(o, <<m, s>>, f, ATTENDED) /\ RecordBuy(o, m, s, f)
        /\ UNCHANGED <<totalWithdrawn, totalDeposited, credited, status>>
    BY <1>4 DEF Buy, otherAccountVars
  <2> QED
    BY <1>0, <2>1, <2>5, <2>7, <2>8, BoughtLedger
<1>5. ASSUME NEW o \in Owners, OwnerTrades(o) PROVE Ledger'
  BY <1>3, <1>4, <1>5 DEF OwnerTrades, Sell
<1>6. ASSUME NEW a \in Actors, NEW g \in GrantIds, NEW m \in Markets, NEW s \in Sides,
             NEW q \in Quantities, NEW toCredit \in Landings, NEW price \in Prices,
             NEW f \in BuyFills(q, Escrow(s, price, q)),
             BuyFor(a, g, m, s, price, q, f, toCredit)
      PROVE  Ledger'
  <2> PICK o \in Owners : o = grants[g].owner
    BY <1>0, GrantFields DEF TypeOK
  <2>1. /\ f.cash \in Nat /\ f.tokens \in Nat /\ toCredit \in BOOLEAN
        /\ Escrow(s, price, q) \in Nat /\ g \in Nat
    BY FillTypes, EscrowType, VaultAssumption DEF GrantIds
  <2>2. /\ OnlyTouches(o) /\ Own(o)' = Own(o)
        /\ Lent(o) \in Nat /\ Lent(o)' \in Nat /\ Lent(o)' + f.cash = Lent(o)
    BY <1>0, <1>6, BuyForMoves
  <2>3. Own(o) \in Nat
    BY <1>0, OwnTypes
  <2>4. Owed(o)' + f.cash = Owed(o)
    BY <2>1, <2>2, <2>3 DEF Owed
  <2>5. /\ PoolDraw(m, Escrow(s, price, q), f.cash, toCredit)
        /\ tokens' = [tokens EXCEPT ![<<m, s>>] = @ + f.tokens]
        /\ Book(o, <<m, s>>, f, g) /\ RecordBuy(o, m, s, f)
        /\ UNCHANGED <<totalWithdrawn, totalDeposited, credited, status>>
    BY <1>6 DEF BuyFor, accountVars, otherAccountVars
  <2> QED
    BY <1>0, <2>1, <2>2, <2>4, <2>5, BoughtLedger
<1>7. ASSUME NEW a \in Actors, DelegateTrades(a) PROVE Ledger'
  <2>1. ASSUME NEW g \in GrantIds, NEW m \in Markets, NEW s \in Sides, NEW q \in Quantities,
               NEW toCredit \in Landings, NEW f \in SellFills(q),
               SellFor(a, g, m, s, q, f, toCredit)
        PROVE  Ledger'
    <3>1. grants[g].owner \in Owners
      BY <1>0, GrantFields DEF TypeOK
    <3> QED
      BY <1>3, <2>1, <3>1 DEF SellFor
  <2> QED
    BY <1>6, <1>7, <2>1 DEF DelegateTrades
<1>8. CASE \E o \in Owners, m \in Markets, toCredit \in Landings : CrankSettle(o, m, toCredit)
  BY <1>0, <1>8, CrankLedger
<1>9. CASE \/ \E m \in Markets : Sweep(m)
           \/ Venue \/ Tick \/ UNCHANGED vars
  BY <1>0, <1>9, VenueLedger
<1> QED
  BY <1>1, <1>2, <1>5, <1>7, <1>8, <1>9, VaultAssumption DEF Next, Anyone

(* An empty vault owes nothing.                                            *)
LEMMA LedgerAtInit == Init => Ledger
<1> SUFFICES ASSUME Init PROVE Ledger
  OBVIOUS
<1>1. Inv
  BY InitInv
<1>2. \A p \in Owners : Owed(p) = 0 /\ IntakeOf(p) = 0 /\ totalWithdrawn[p] = 0
  BY DEF Init, Owed, Own, Lent, LentIn, IntakeOf, PerOwner, GrantKinds
<1>3. IsFiniteSet(Owners) /\ IsFiniteSet(Markets)
  BY VaultAssumption
<1>4. ASSUME NEW p \in Owners
      PROVE  /\ SumFunction(costBase[p]) = 0 /\ SumFunction(proceedsBase[p]) = 0
             /\ SumFunction(payoutBase[p]) = 0
  <2> PICK z : z = [m \in Markets |-> 0]
    OBVIOUS
  <2>1. costBase[p] = z /\ proceedsBase[p] = z /\ payoutBase[p] = z
    BY DEF Init, PerMarket
  <2>2. SumFunction(z) = 0
    BY <1>3, TotalOfZeros
  <2> QED
    BY <2>1, <2>2
<1>5. BooksBalance
  BY <1>2, <1>4 DEF BooksBalance, WentOut, CameIn, Init, PerOutcome, Ids
<1>6. SumFunction(credit) = 0
  BY <1>3, TotalOfZeros DEF Init
<1>7. SumFunction([o \in Owners |-> Owed(o)]) = 0
  BY <1>2, <1>3, TotalOfZeros
<1>8. ASSUME NEW id \in Ids
      PROVE  tokens[id] = 0 /\ SumFunction([o \in Owners |-> positionOf[o][id]]) = 0
  <2>1. tokens[id] = 0 /\ \A o \in Owners : positionOf[o][id] = 0
    BY DEF Init, PerOutcome
  <2> QED
    BY <1>3, <2>1, TotalOfZeros
<1>9. CustodyIsAttributed
  BY <1>6, <1>7, <1>8 DEF CustodyIsAttributed, Init
<1> QED
  BY <1>1, <1>5, <1>9 DEF Ledger

-----------------------------------------------------------------------------
(* For any number of owners, delegates and markets, every unit of          *)
(* collateral the vault has, in its wallet or as credit on a pool, is owed *)
(* to exactly one owner, and every outcome token is in one position        *)
(* (`_cash`, `_book`, `_bookSale`, `crankSettle`, `sweep`).                *)
THEOREM EveryUnitIsOwed == Spec => []CustodyIsAttributed
<1>1. Ledger => CustodyIsAttributed
  BY DEF Ledger
<1> QED
  BY <1>1, LedgerAtInit, LedgerIsKept, PTL DEF Spec

(* What an owner has is what came in for the owner minus what went out:    *)
(* the tallies VaultTally keeps explain every balance.                     *)
THEOREM TalliesExplainBalances == Spec => []BooksBalance
<1>1. Ledger => BooksBalance
  BY DEF Ledger
<1> QED
  BY <1>1, LedgerAtInit, LedgerIsKept, PTL DEF Spec

=============================================================================
