----------------------------- MODULE FiniteSums -----------------------------
(***************************************************************************)
(* Sums of a function over a finite set, as the proofs of this project use *)
(* them: what SumFunctionOnSet and SumFunction (module Functions) return.  *)
(*                                                                         *)
(* They are recursive functions over the subsets of a set.  Induction is   *)
(* done in first-order form: a claim about every subset of a finite set is *)
(* refuted on a smallest subset that breaks it.                            *)
(***************************************************************************)
EXTENDS Integers, FiniteSets, Functions, FiniteSetTheorems,
        WellFoundedInduction, TLAPS

(* Of any subsets of a finite set, one contains none of the others.        *)
LEMMA SmallestSubset ==
  ASSUME NEW S, IsFiniteSet(S), NEW T, T \subseteq SUBSET S, T # {}
  PROVE  \E s \in T : \A t \in T : t \subseteq s => t = s
<1> DEFINE F == FiniteSubsetsOf(S)
           R == StrictSubsetOrdering(S)
<1>1. IsWellFoundedOn(R, F)
  BY FS_StrictSubsetOrderingWellFounded
<1>2. T \subseteq F
  BY FS_Subset DEF FiniteSubsetsOf
<1>3. PICK s \in T : \A t \in T : ~ (<<t, s>> \in R)
  <2> HIDE DEF R, F
  <2> QED
    BY <1>1, <1>2, WFMin
<1>4. \A t \in T : t \subseteq s /\ t # s => <<t, s>> \in R
  BY DEF StrictSubsetOrdering
<1>5. \A t \in T : t \subseteq s => t = s
  BY <1>3, <1>4
<1> QED
  BY <1>5

\* The element a fold takes next, and the equation it solves.
AnyOf(s) == CHOOSE x \in s : TRUE

(* What is picked from a set that is not empty is in the set.              *)
LEMMA AnyOfIsIn == ASSUME NEW s, s # {} PROVE AnyOf(s) \in s
BY DEF AnyOf

Unfolds(h, f, D) ==
  h = [s \in D |-> IF s = {} THEN 0 ELSE f[AnyOf(s)] + h[s \ {AnyOf(s)}]]

Unfolding(f, S) == CHOOSE h : Unfolds(h, f, SUBSET S)

(* The sum over S is the value at S of a solution over the subsets of S.   *)
LEMMA SumIsSomeUnfolding ==
  ASSUME NEW f, NEW S
  PROVE  SumFunctionOnSet(f, S) = Unfolding(f, S)[S]
BY DEF SumFunctionOnSet, FoldFunctionOnSet, MapThenFoldSet, Unfolds, Unfolding, AnyOf

(* A solution satisfies the equation at each set it covers.                *)
LEMMA UnfoldStep ==
  ASSUME NEW f, NEW h, NEW S, Unfolds(h, f, SUBSET S), NEW s \in SUBSET S
  PROVE  h[s] = IF s = {} THEN 0 ELSE f[AnyOf(s)] + h[s \ {AnyOf(s)}]
BY DEF Unfolds

(* Two solutions have one value on a set both of them cover.               *)
LEMMA UnfoldingsAgree ==
  ASSUME NEW f, NEW g, NEW h, NEW S, NEW R, NEW U, IsFiniteSet(U),
         Unfolds(g, f, SUBSET S), Unfolds(h, f, SUBSET R),
         U \subseteq S, U \subseteq R
  PROVE  g[U] = h[U]
<1> DEFINE T == {u \in SUBSET U : g[u] # h[u]}
<1> SUFFICES T = {}
  OBVIOUS
<1> SUFFICES ASSUME T # {} PROVE FALSE
  OBVIOUS
<1>1. PICK s \in T : \A t \in T : t \subseteq s => t = s
  <2>1. T \subseteq SUBSET U
    OBVIOUS
  <2> HIDE DEF T
  <2> QED
    BY <2>1, SmallestSubset
<1>2. s \in SUBSET S /\ s \in SUBSET R
  OBVIOUS
<1>3. CASE s = {}
  BY <1>2, <1>3, UnfoldStep
<1>4. CASE s # {}
  <2> DEFINE r == s \ {AnyOf(s)}
  <2>1. AnyOf(s) \in s
    BY <1>4, AnyOfIsIn
  <2>2. r \in SUBSET U /\ r \subseteq s /\ r # s
    BY <2>1
  <2>3. g[r] = h[r]
    BY <1>1, <2>2
  <2>4. g[s] = f[AnyOf(s)] + g[r]
    BY <1>2, <1>4, UnfoldStep
  <2>5. h[s] = f[AnyOf(s)] + h[r]
    BY <1>2, <1>4, UnfoldStep
  <2> QED
    BY <2>3, <2>4, <2>5
<1> QED
  BY <1>3, <1>4

(* A finite set has a solution: the values of its proper subsets make one. *)
LEMMA UnfoldingExists ==
  ASSUME NEW f, NEW S, IsFiniteSet(S)
  PROVE  Unfolds(Unfolding(f, S), f, SUBSET S)
<1> DEFINE Good(s) == \E h : Unfolds(h, f, SUBSET s)
           T == {s \in SUBSET S : ~ Good(s)}
<1> SUFFICES T = {}
  BY DEF Unfolding
<1> SUFFICES ASSUME T # {} PROVE FALSE
  OBVIOUS
<1>1. PICK s \in T : \A t \in T : t \subseteq s => t = s
  <2>1. T \subseteq SUBSET S
    OBVIOUS
  <2> HIDE DEF T
  <2> QED
    BY <2>1, SmallestSubset
<1> DEFINE V(t) == Unfolding(f, t)[t]
           W(t) == IF t = {} THEN 0 ELSE f[AnyOf(t)] + V(t \ {AnyOf(t)})
<1>2. \A t \in SUBSET s : t # s => Unfolds(Unfolding(f, t), f, SUBSET t)
  <2> TAKE t \in SUBSET s
  <2> HAVE t # s
  <2>1. Good(t)
    BY <1>1
  <2> QED
    BY <2>1 DEF Unfolding
<1>3. \A t \in SUBSET s : t # s => V(t) = W(t)
  <2> TAKE t \in SUBSET s
  <2> HAVE t # s
  <2>1. Unfolds(Unfolding(f, t), f, SUBSET t)
    BY <1>2
  <2>2. CASE t = {}
    BY <2>1, <2>2, UnfoldStep
  <2>3. CASE t # {}
    <3> DEFINE r == t \ {AnyOf(t)}
    <3>1. r \subseteq t /\ r # t
      BY <2>3, AnyOfIsIn
    <3>2. Unfolds(Unfolding(f, r), f, SUBSET r)
      BY <1>2, <3>1
    <3>3. IsFiniteSet(r)
      BY FS_Subset
    <3>4. Unfolding(f, t)[r] = Unfolding(f, r)[r]
      <4> HIDE DEF r
      <4> QED
        BY <2>1, <3>1, <3>2, <3>3, UnfoldingsAgree
    <3> QED
      BY <2>1, <2>3, <3>4, UnfoldStep
  <2> QED
    BY <2>2, <2>3
<1> DEFINE H == [t \in SUBSET s |-> W(t)]
<1>4. \A t \in SUBSET s : t # {} => W(t) = f[AnyOf(t)] + H[t \ {AnyOf(t)}]
  <2> TAKE t \in SUBSET s
  <2> HAVE t # {}
  <2> DEFINE r == t \ {AnyOf(t)}
  <2>1. r \in SUBSET s /\ r # s
    BY AnyOfIsIn
  <2>2. V(r) = W(r)
    BY <1>3, <2>1
  <2> QED
    BY <2>1, <2>2
<1>5. Unfolds(H, f, SUBSET s)
  <2> HIDE DEF V
  <2> QED
    BY <1>4 DEF Unfolds
<1> QED
  BY <1>5

(* One step of the recursion.                                              *)
LEMMA SumUnfolds ==
  ASSUME NEW f, NEW S, IsFiniteSet(S)
  PROVE  SumFunctionOnSet(f, S) =
           IF S = {} THEN 0 ELSE f[AnyOf(S)] + SumFunctionOnSet(f, S \ {AnyOf(S)})
<1> DEFINE r == S \ {AnyOf(S)}
<1>1. Unfolds(Unfolding(f, S), f, SUBSET S)
  BY UnfoldingExists
<1>2. CASE S = {}
  BY <1>1, <1>2, UnfoldStep, SumIsSomeUnfolding
<1>3. CASE S # {}
  <2>1. IsFiniteSet(r)
    BY FS_Subset
  <2>2. Unfolds(Unfolding(f, r), f, SUBSET r)
    BY <2>1, UnfoldingExists
  <2>3. Unfolding(f, S)[r] = Unfolding(f, r)[r]
    <3>1. r \subseteq S
      OBVIOUS
    <3> HIDE DEF r
    <3> QED
      BY <1>1, <2>1, <2>2, <3>1, UnfoldingsAgree
  <2>4. Unfolding(f, S)[S] = f[AnyOf(S)] + Unfolding(f, S)[r]
    BY <1>1, <1>3, UnfoldStep
  <2> QED
    BY <1>3, <2>3, <2>4, SumIsSomeUnfolding
<1> QED
  BY <1>2, <1>3

(* The sum over no element is zero.                                        *)
LEMMA SumOfNone ==
  ASSUME NEW f
  PROVE  SumFunctionOnSet(f, {}) = 0
BY SumUnfolds, FS_EmptySet

(* A sum of natural numbers is a natural number.                           *)
LEMMA SumIsNat ==
  ASSUME NEW f, NEW S, IsFiniteSet(S), \A x \in S : f[x] \in Nat
  PROVE  SumFunctionOnSet(f, S) \in Nat
<1> DEFINE T == {s \in SUBSET S : SumFunctionOnSet(f, s) \notin Nat}
<1> SUFFICES ASSUME T # {} PROVE FALSE
  OBVIOUS
<1>1. PICK s \in T : \A t \in T : t \subseteq s => t = s
  <2>1. T \subseteq SUBSET S
    OBVIOUS
  <2> HIDE DEF T
  <2> QED
    BY <2>1, SmallestSubset
<1>2. s # {}
  BY SumOfNone
<1> DEFINE r == s \ {AnyOf(s)}
<1>3. AnyOf(s) \in s /\ r \subseteq s /\ r # s
  BY <1>2, AnyOfIsIn
<1>4. SumFunctionOnSet(f, r) \in Nat
  BY <1>1, <1>3
<1>5. IsFiniteSet(s)
  BY FS_Subset
<1>6. SumFunctionOnSet(f, s) = f[AnyOf(s)] + SumFunctionOnSet(f, r)
  BY <1>2, <1>5, SumUnfolds
<1> QED
  BY <1>3, <1>4, <1>6

(* Any element may be taken out of a sum, not only the one a fold takes.   *)
LEMMA SumTakesAny ==
  ASSUME NEW f, NEW S, IsFiniteSet(S), \A x \in S : f[x] \in Nat, NEW x \in S
  PROVE  SumFunctionOnSet(f, S) = f[x] + SumFunctionOnSet(f, S \ {x})
<1> DEFINE T == {s \in SUBSET S : \E y \in s :
                   SumFunctionOnSet(f, s) # f[y] + SumFunctionOnSet(f, s \ {y})}
<1> SUFFICES ASSUME T # {} PROVE FALSE
  OBVIOUS
<1>1. PICK s \in T : \A t \in T : t \subseteq s => t = s
  <2>1. T \subseteq SUBSET S
    OBVIOUS
  <2> HIDE DEF T
  <2> QED
    BY <2>1, SmallestSubset
<1>2. PICK y \in s : SumFunctionOnSet(f, s) # f[y] + SumFunctionOnSet(f, s \ {y})
  OBVIOUS
<1> DEFINE p == AnyOf(s)
           r == s \ {p}
           q == s \ {y}
           rq == s \ {p, y}
<1>3. p \in s /\ IsFiniteSet(s) /\ IsFiniteSet(q) /\ IsFiniteSet(rq)
  BY AnyOfIsIn, FS_Subset
<1>4. SumFunctionOnSet(f, s) = f[p] + SumFunctionOnSet(f, r)
  BY <1>3, SumUnfolds
<1>5. p # y
  BY <1>2, <1>4
<1>6. SumFunctionOnSet(f, r) = f[y] + SumFunctionOnSet(f, rq)
  <2>1. r \notin T
    BY <1>1, <1>3
  <2>2. y \in r /\ r \ {y} = rq
    BY <1>5
  <2> QED
    BY <2>1, <2>2
<1>7. SumFunctionOnSet(f, q) = f[p] + SumFunctionOnSet(f, rq)
  <2>1. q \notin T
    BY <1>1, <1>3
  <2>2. p \in q /\ q \ {p} = rq
    BY <1>3, <1>5
  <2> QED
    BY <2>1, <2>2
<1>8. SumFunctionOnSet(f, rq) \in Nat
  BY <1>3, SumIsNat
<1> QED
  BY <1>2, <1>3, <1>4, <1>6, <1>7, <1>8

(* A sum depends on the function only through its values on the set.       *)
LEMMA SumCongruence ==
  ASSUME NEW f, NEW g, NEW S, IsFiniteSet(S), \A x \in S : f[x] = g[x]
  PROVE  SumFunctionOnSet(f, S) = SumFunctionOnSet(g, S)
<1> DEFINE T == {s \in SUBSET S : SumFunctionOnSet(f, s) # SumFunctionOnSet(g, s)}
<1> SUFFICES ASSUME T # {} PROVE FALSE
  OBVIOUS
<1>1. PICK s \in T : \A t \in T : t \subseteq s => t = s
  <2>1. T \subseteq SUBSET S
    OBVIOUS
  <2> HIDE DEF T
  <2> QED
    BY <2>1, SmallestSubset
<1>2. s # {}
  BY SumOfNone
<1> DEFINE r == s \ {AnyOf(s)}
<1>3. AnyOf(s) \in s /\ r \subseteq s /\ r # s /\ IsFiniteSet(s)
  BY <1>2, AnyOfIsIn, FS_Subset
<1>4. SumFunctionOnSet(f, r) = SumFunctionOnSet(g, r)
  BY <1>1, <1>3
<1>5. SumFunctionOnSet(f, s) = f[AnyOf(s)] + SumFunctionOnSet(f, r)
  BY <1>2, <1>3, SumUnfolds
<1>6. SumFunctionOnSet(g, s) = g[AnyOf(s)] + SumFunctionOnSet(g, r)
  BY <1>2, <1>3, SumUnfolds
<1> QED
  BY <1>3, <1>4, <1>5, <1>6

(* Changing the function at one element changes the sum by as much.        *)
LEMMA SumChangesAt ==
  ASSUME NEW f, NEW g, NEW S, IsFiniteSet(S), NEW x \in S,
         \A y \in S : f[y] \in Nat, \A y \in S : g[y] \in Nat,
         \A y \in S \ {x} : g[y] = f[y]
  PROVE  SumFunctionOnSet(g, S) + f[x] = SumFunctionOnSet(f, S) + g[x]
<1> DEFINE r == S \ {x}
<1>1. IsFiniteSet(r)
  BY FS_Subset
<1>2. SumFunctionOnSet(f, r) = SumFunctionOnSet(g, r) /\ SumFunctionOnSet(f, r) \in Nat
  BY <1>1, SumCongruence, SumIsNat
<1>3. SumFunctionOnSet(f, S) = f[x] + SumFunctionOnSet(f, r)
  BY SumTakesAny
<1>4. SumFunctionOnSet(g, S) = g[x] + SumFunctionOnSet(g, r)
  BY SumTakesAny
<1> HIDE DEF r
<1> QED
  BY <1>2, <1>3, <1>4

(* A sum of zeros is zero.                                                 *)
LEMMA SumOfZeros ==
  ASSUME NEW f, NEW S, IsFiniteSet(S), \A x \in S : f[x] = 0
  PROVE  SumFunctionOnSet(f, S) = 0
<1> DEFINE T == {s \in SUBSET S : SumFunctionOnSet(f, s) # 0}
<1> SUFFICES ASSUME T # {} PROVE FALSE
  OBVIOUS
<1>1. PICK s \in T : \A t \in T : t \subseteq s => t = s
  <2>1. T \subseteq SUBSET S
    OBVIOUS
  <2> HIDE DEF T
  <2> QED
    BY <2>1, SmallestSubset
<1>2. s # {}
  BY SumOfNone
<1> DEFINE r == s \ {AnyOf(s)}
<1>3. AnyOf(s) \in s /\ r \subseteq s /\ r # s /\ IsFiniteSet(s)
  BY <1>2, AnyOfIsIn, FS_Subset
<1>4. SumFunctionOnSet(f, r) = 0
  BY <1>1, <1>3
<1>5. SumFunctionOnSet(f, s) = f[AnyOf(s)] + SumFunctionOnSet(f, r)
  BY <1>2, <1>3, SumUnfolds
<1> QED
  BY <1>3, <1>4, <1>5

(* The sum of two functions added pointwise is the sum of their sums.      *)
LEMMA SumOfSums ==
  ASSUME NEW f, NEW g, NEW h, NEW S, IsFiniteSet(S),
         \A x \in S : f[x] \in Nat, \A x \in S : g[x] \in Nat,
         \A x \in S : h[x] = f[x] + g[x]
  PROVE  SumFunctionOnSet(h, S) = SumFunctionOnSet(f, S) + SumFunctionOnSet(g, S)
<1> DEFINE T == {s \in SUBSET S : SumFunctionOnSet(h, s)
                   # SumFunctionOnSet(f, s) + SumFunctionOnSet(g, s)}
<1> SUFFICES ASSUME T # {} PROVE FALSE
  OBVIOUS
<1>1. PICK s \in T : \A t \in T : t \subseteq s => t = s
  <2>1. T \subseteq SUBSET S
    OBVIOUS
  <2> HIDE DEF T
  <2> QED
    BY <2>1, SmallestSubset
<1>2. s # {}
  BY SumOfNone
<1> DEFINE p == AnyOf(s)
           r == s \ {p}
<1>3. p \in s /\ p \in S /\ r \subseteq s /\ r # s /\ IsFiniteSet(s) /\ IsFiniteSet(r)
  BY <1>2, AnyOfIsIn, FS_Subset
<1>4. SumFunctionOnSet(h, r) = SumFunctionOnSet(f, r) + SumFunctionOnSet(g, r)
  BY <1>1, <1>3
<1>5. /\ SumFunctionOnSet(h, s) = h[p] + SumFunctionOnSet(h, r)
      /\ SumFunctionOnSet(f, s) = f[p] + SumFunctionOnSet(f, r)
      /\ SumFunctionOnSet(g, s) = g[p] + SumFunctionOnSet(g, r)
  BY <1>2, <1>3, SumUnfolds
<1>6. SumFunctionOnSet(f, r) \in Nat /\ SumFunctionOnSet(g, r) \in Nat
  BY <1>3, SumIsNat
<1>7. h[p] = f[p] + g[p] /\ f[p] \in Nat /\ g[p] \in Nat
  BY <1>3
<1>8. SumFunctionOnSet(h, s) = SumFunctionOnSet(f, s) + SumFunctionOnSet(g, s)
  <2> HIDE DEF p, r
  <2> QED
    BY <1>4, <1>5, <1>6, <1>7
<1> QED
  BY <1>8

(* No element of a sum of natural numbers exceeds the sum.                 *)
LEMMA SumBoundsEach ==
  ASSUME NEW f, NEW S, IsFiniteSet(S), \A x \in S : f[x] \in Nat, NEW x \in S
  PROVE  f[x] <= SumFunctionOnSet(f, S)
<1>1. SumFunctionOnSet(f, S) = f[x] + SumFunctionOnSet(f, S \ {x})
  BY SumTakesAny
<1>2. IsFiniteSet(S \ {x})
  BY FS_Subset
<1>3. SumFunctionOnSet(f, S \ {x}) \in Nat
  BY <1>2, SumIsNat
<1> QED
  BY <1>1, <1>3

-----------------------------------------------------------------------------
(* The same facts about the sum of a function over its whole domain.       *)

(* The total of a function with natural values is a natural number.        *)
LEMMA TotalIsNat ==
  ASSUME NEW S, IsFiniteSet(S), NEW f \in [S -> Nat]
  PROVE  SumFunction(f) \in Nat
<1>1. SumFunction(f) = SumFunctionOnSet(f, S)
  BY DEF SumFunction
<1> QED
  BY <1>1, SumIsNat

(* A function that is zero everywhere has total zero.                      *)
LEMMA TotalOfZeros ==
  ASSUME NEW S, IsFiniteSet(S), NEW f, DOMAIN f = S, \A x \in S : f[x] = 0
  PROVE  SumFunction(f) = 0
<1>1. SumFunction(f) = SumFunctionOnSet(f, S)
  BY DEF SumFunction
<1> QED
  BY <1>1, SumOfZeros

(* A function changed at one element has a total changed by as much.       *)
LEMMA TotalChangesAt ==
  ASSUME NEW S, IsFiniteSet(S), NEW f \in [S -> Nat], NEW g \in [S -> Nat],
         NEW x \in S, \A y \in S \ {x} : g[y] = f[y]
  PROVE  SumFunction(g) + f[x] = SumFunction(f) + g[x]
<1>1. SumFunction(f) = SumFunctionOnSet(f, S) /\ SumFunction(g) = SumFunctionOnSet(g, S)
  BY DEF SumFunction
<1> QED
  BY <1>1, SumChangesAt

(* A function that gains an amount at one element gains it in total.       *)
LEMMA TotalGainsAt ==
  ASSUME NEW S, IsFiniteSet(S), NEW f \in [S -> Nat], NEW g \in [S -> Nat],
         NEW x \in S, NEW d \in Int, g[x] = f[x] + d
  PROVE  (\A y \in S \ {x} : g[y] = f[y]) => SumFunction(g) = SumFunction(f) + d
<1>1. ASSUME \A y \in S \ {x} : g[y] = f[y]
      PROVE  SumFunction(g) + f[x] = SumFunction(f) + g[x]
  BY <1>1, TotalChangesAt
<1>2. SumFunction(f) \in Nat /\ SumFunction(g) \in Nat /\ f[x] \in Nat
  BY TotalIsNat
<1>3. SumFunction(g) + f[x] = SumFunction(f) + g[x] => SumFunction(g) = SumFunction(f) + d
  BY <1>2
<1> QED
  BY <1>1, <1>3

(* The total of two functions added pointwise.                             *)
IsSumOf(h, f, g, S) == \A x \in S : h[x] = f[x] + g[x]

LEMMA TotalOfSums ==
  ASSUME NEW S, IsFiniteSet(S), NEW f \in [S -> Nat], NEW g \in [S -> Nat],
         NEW h \in [S -> Nat], IsSumOf(h, f, g, S)
  PROVE  SumFunction(h) = SumFunction(f) + SumFunction(g)
<1>1. /\ SumFunction(f) = SumFunctionOnSet(f, S)
      /\ SumFunction(g) = SumFunctionOnSet(g, S)
      /\ SumFunction(h) = SumFunctionOnSet(h, S)
  BY DEF SumFunction
<1> QED
  BY <1>1, SumOfSums DEF IsSumOf

(* No value of a function with natural values exceeds its total.           *)
LEMMA TotalBoundsEach ==
  ASSUME NEW S, IsFiniteSet(S), NEW f \in [S -> Nat], NEW x \in S
  PROVE  f[x] <= SumFunction(f)
<1>1. SumFunction(f) = SumFunctionOnSet(f, S)
  BY DEF SumFunction
<1> QED
  BY <1>1, SumBoundsEach

=============================================================================
