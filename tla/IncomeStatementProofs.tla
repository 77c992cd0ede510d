------------------------ MODULE IncomeStatementProofs ------------------------
(***************************************************************************)
(* What the sum of the months is, for statements of any length: the        *)
(* recursive function of SumOfMonths exists, by induction over the months. *)
(***************************************************************************)
EXTENDS IncomeStatement, WellFoundedInduction, TLAPS

(* Induction over the natural numbers, for a set.                           *)
LEMMA SetInduction ==
  ASSUME NEW S \in SUBSET Nat, 0 \in S, \A n \in S : n + 1 \in S
  PROVE  S = Nat
<1> DEFINE T == Nat \ S
           R == OpToRel(<, Nat)
<1>1. \A x, y \in Nat : <<x, y>> \in R <=> x < y
  BY DEF OpToRel
<1>2. IsWellFoundedOn(R, Nat)
  BY NatLessThanWellFounded
<1> SUFFICES ASSUME T # {}
             PROVE  FALSE
  OBVIOUS
<1> HIDE DEF R
<1>3. PICK x \in T : \A y \in T : ~ (<<y, x>> \in R)
  <2>1. T \subseteq Nat
    OBVIOUS
  <2> HIDE DEF T
  <2> QED
    BY <1>2, <2>1, WFMin
<1>4. x # 0 /\ x - 1 \in Nat
  OBVIOUS
<1>5. <<x - 1, x>> \in R
  BY <1>1, <1>4
<1>6. x - 1 \in S
  BY <1>3, <1>4, <1>5
<1>7. (x - 1) + 1 \in S
  BY <1>6
<1> QED
  BY <1>4, <1>7

(* g holds the sums of the first 0 .. n of the numbers a. *)
AddsUp(g, a, n) ==
  /\ g \in [0 .. n -> Nat]
  /\ g[0] = 0
  /\ \A k \in 1 .. n : g[k] = g[k - 1] + a[k]

(* There are such sums.                                                     *)
LEMMA SumsExist ==
  ASSUME NEW a, NEW m \in Nat, \A k \in 1 .. m : a[k] \in Nat, NEW n \in 0 .. m
  PROVE  \E g : AddsUp(g, a, n)
<1> DEFINE S == {k \in Nat : k <= m => \E g : AddsUp(g, a, k)}
<1>1. 0 \in S
  <2> DEFINE g == [i \in 0 .. 0 |-> 0]
  <2>1. AddsUp(g, a, 0)
    BY DEF AddsUp
  <2> QED
    BY <2>1
<1>2. ASSUME NEW k \in S
      PROVE  k + 1 \in S
  <2> SUFFICES ASSUME k + 1 <= m
               PROVE  \E g : AddsUp(g, a, k + 1)
    OBVIOUS
  <2>1. PICK g : AddsUp(g, a, k)
    OBVIOUS
  <2>2. a[k + 1] \in Nat /\ g[k] \in Nat
    BY <2>1 DEF AddsUp
  <2> DEFINE h == [i \in 0 .. k + 1 |-> IF i = k + 1 THEN g[k] + a[k + 1] ELSE g[i]]
  <2>3. h \in [0 .. k + 1 -> Nat]
    BY <2>1, <2>2 DEF AddsUp
  <2>4. h[0] = 0
    BY <2>1 DEF AddsUp
  <2>5. ASSUME NEW i \in 1 .. k + 1
        PROVE  h[i] = h[i - 1] + a[i]
    <3>1. CASE i = k + 1
      BY <3>1
    <3>2. CASE i \in 1 .. k
      <4>1. h[i] = g[i] /\ h[i - 1] = g[i - 1]
        BY <3>2
      <4> QED
        BY <2>1, <3>2, <4>1 DEF AddsUp
    <3> QED
      BY <3>1, <3>2
  <2> HIDE DEF h
  <2>6. AddsUp(h, a, k + 1)
    BY <2>3, <2>4, <2>5 DEF AddsUp
  <2> QED
    BY <2>6
<1> HIDE DEF S
<1>3. S = Nat
  <2>1. S \in SUBSET Nat
    BY DEF S
  <2> QED
    BY <1>1, <1>2, <2>1, SetInduction
<1> QED
  BY <1>3 DEF S

(* The sums over the integers start at zero and take in one month at a      *)
(* time, whatever the figures and however many.                             *)
THEOREM SumsOfMonths ==
  ASSUME NEW d \in DocType
  PROVE  AddsUp(SumOfMonths(d), d.monthly_net_income, Len(d.monthly_net_income))
<1> DEFINE a == d.monthly_net_income
           m == Len(a)
           Step(g) == [n \in 0 .. m |-> IF n = 0 THEN 0 ELSE g[n - 1] + a[n]]
           f == SumOfMonths(d)
<1>1. a \in Seq(0 .. Word - 1) /\ m \in Nat
  BY DEF DocType
<1>2. \A k \in 1 .. m : a[k] \in Nat
  BY <1>1, WordAssumption
<1>3. f = CHOOSE g : g = Step(g)
  BY DEF SumOfMonths
<1> HIDE DEF a, m, f
<1>4. PICK g : AddsUp(g, a, m)
  BY <1>1, <1>2, SumsExist
<1>5. g = Step(g)
  BY <1>1, <1>4 DEF AddsUp
<1>6. f = Step(f)
  BY <1>3, <1>5
<1>7. f[0] = 0 /\ \A k \in 1 .. m : f[k] = f[k - 1] + a[k]
  BY <1>1, <1>6
<1>8. f \in [0 .. m -> Nat]
  <2> DEFINE S == {k \in Nat : k <= m => f[k] \in Nat}
  <2>1. 0 \in S
    BY <1>7
  <2>2. ASSUME NEW k \in S
        PROVE  k + 1 \in S
    <3> SUFFICES ASSUME k + 1 <= m
                 PROVE  f[k + 1] \in Nat
      OBVIOUS
    <3>1. k + 1 \in 1 .. m /\ k <= m /\ (k + 1) - 1 = k
      BY <1>1
    <3> QED
      BY <1>2, <1>7, <3>1
  <2>3. S \in SUBSET Nat
    OBVIOUS
  <2> HIDE DEF S
  <2>4. S = Nat
    BY <2>1, <2>2, <2>3, SetInduction
  <2>5. \A k \in 0 .. m : f[k] \in Nat
    BY <1>1, <2>4 DEF S
  <2> QED
    BY <1>6, <2>5
<1> QED
  BY <1>7, <1>8 DEF AddsUp, f, a, m

(* So the total is a natural number, zero where there is no month.          *)
THEOREM TotalIsNatural ==
  ASSUME NEW d \in DocType
  PROVE  Total(d) \in Nat
<1> DEFINE n == Len(d.monthly_net_income)
<1>1. n \in Nat /\ n \in 0 .. n
  BY DEF DocType
<1> QED
  BY <1>1, SumsOfMonths DEF Total, AddsUp
=============================================================================
