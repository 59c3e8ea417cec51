----------------------------- MODULE SumsProofs -----------------------------
(***************************************************************************)
(* What a sum is, step by step, and the facts the proofs about balances    *)
(* and totals need: of the sums of a function of 1..n, that they grow with *)
(* their bound, agree on functions that agree and add pointwise; the same  *)
(* of the community modules' sum over a finite set, with the sum of a      *)
(* union and of a sum of sums; and that a finite set can be listed in      *)
(* order.  Induction is on a set of numbers, by the least element outside  *)
(* it, and on a set of finite sets, by taking one element away.            *)
(***************************************************************************)
EXTENDS Sums, TLAPS, WellFoundedInduction, NaturalsInduction, FiniteSetTheorems

\* a nonempty set of natural numbers has a least element
LEMMA LeastElement ==
  ASSUME NEW T \in SUBSET Nat, T # {}
  PROVE  \E x \in T : \A y \in T : x <= y
<1>1. IsWellFoundedOn(OpToRel(<, Nat), Nat)
  BY NatLessThanWellFounded
<1>2. \E x \in T : \A y \in T : ~(<<y, x>> \in OpToRel(<, Nat))
  BY <1>1, WFMin, Zenon
<1>3. \E x \in T : \A y \in T : ~(y < x)
  BY <1>2, Zenon DEF OpToRel
<1> QED
  BY <1>3

\* induction over a set of natural numbers
LEMMA SetInduction ==
  ASSUME NEW T \in SUBSET Nat, 0 \in T, \A n \in T : n + 1 \in T
  PROVE  \A n \in Nat : n \in T
<1>1. SUFFICES ASSUME Nat \ T # {} PROVE FALSE
  OBVIOUS
<1>2. PICK x \in Nat \ T : \A y \in Nat \ T : x <= y
  BY <1>1, LeastElement
<1>3. x # 0 /\ x - 1 \in Nat /\ x - 1 < x
  OBVIOUS
<1>4. x - 1 \in T
  BY <1>2, <1>3
<1>5. (x - 1) + 1 \in T
  BY <1>4
<1> QED
  BY <1>5

\* s lists the partial sums of f up to n
IsPartial(s, f, n) ==
  s = [k \in 0..n |-> IF k = 0 THEN 0 ELSE s[k - 1] + f[k]]

\* the recursive definition of the partial sums has a solution
LEMMA PartialExists ==
  ASSUME NEW n \in Nat, NEW f
  PROVE  \E s : IsPartial(s, f, n)
<1> DEFINE T == {m \in Nat : \E s : IsPartial(s, f, m)}
<1>1. 0 \in T
  <2>1. IsPartial([k \in 0..0 |-> 0], f, 0)
    BY DEF IsPartial
  <2> QED
    BY <2>1
<1>2. ASSUME NEW m \in T PROVE m + 1 \in T
  <2>1. PICK s : IsPartial(s, f, m)
    OBVIOUS
  <2> DEFINE t == [k \in 0..(m + 1) |-> IF k = m + 1 THEN s[m] + f[m + 1] ELSE s[k]]
  <2>2. ASSUME NEW k \in 0..(m + 1)
        PROVE  t[k] = IF k = 0 THEN 0 ELSE t[k - 1] + f[k]
    <3>1. CASE k = 0
      BY <2>1, <3>1 DEF IsPartial
    <3>2. CASE k = m + 1
      BY <3>2
    <3>3. CASE k \in 1..m
      <4>1. s[k] = s[k - 1] + f[k]
        BY <2>1, <3>3 DEF IsPartial
      <4> QED
        BY <3>3, <4>1
    <3> QED
      BY <3>1, <3>2, <3>3
  <2>3. t = [k \in 0..(m + 1) |-> IF k = 0 THEN 0 ELSE t[k - 1] + f[k]]
    BY <2>2
  <2> HIDE DEF t
  <2>4. IsPartial(t, f, m + 1)
    BY <2>3 DEF IsPartial
  <2> QED
    BY <2>4
<1> HIDE DEF T
<1>3. \A m \in Nat : m \in T
  <2>1. T \in SUBSET Nat
    BY DEF T
  <2> QED
    BY <1>1, <1>2, <2>1, SetInduction
<1> QED
  BY <1>3 DEF T

\* SumTo is the last partial sum of such a solution
LEMMA SumToPartial ==
  ASSUME NEW n \in Nat, NEW f
  PROVE  \E s : IsPartial(s, f, n) /\ SumTo(f, n) = s[n]
<1> DEFINE s == CHOOSE s : IsPartial(s, f, n)
<1>1. IsPartial(s, f, n)
  BY PartialExists
<1>2. SumTo(f, n) = s[n]
  BY DEF SumTo, IsPartial
<1> QED
  BY <1>1, <1>2

\* the partial sums are the only solution
LEMMA PartialUnique ==
  ASSUME NEW n \in Nat, NEW m \in Nat, m <= n, NEW f, NEW g,
         \A k \in 1..m : f[k] = g[k],
         NEW s, NEW t, IsPartial(s, f, n), IsPartial(t, g, m)
  PROVE  \A k \in 0..m : s[k] = t[k]
<1> DEFINE T == {k \in Nat : k > m \/ s[k] = t[k]}
<1>1. 0 \in T
  BY DEF IsPartial
<1>2. ASSUME NEW k \in T PROVE k + 1 \in T
  <2>1. CASE k + 1 > m
    BY <2>1
  <2>2. CASE k + 1 <= m
    <3>1. s[k] = t[k] /\ k + 1 \in 1..m /\ k + 1 \in 0..n
      BY <2>2
    <3>2. s[k + 1] = s[(k + 1) - 1] + f[k + 1] /\ t[k + 1] = t[(k + 1) - 1] + g[k + 1]
      BY <3>1 DEF IsPartial
    <3>3. (k + 1) - 1 = k
      OBVIOUS
    <3> QED
      BY <3>1, <3>2, <3>3
  <2> QED
    BY <2>1, <2>2
<1> HIDE DEF T
<1>3. \A k \in Nat : k \in T
  <2>1. T \in SUBSET Nat
    BY DEF T
  <2> QED
    BY <1>1, <1>2, <2>1, SetInduction
<1> QED
  BY <1>3 DEF T

\* an empty sum
LEMMA SumToZero ==
  ASSUME NEW f
  PROVE  SumTo(f, 0) = 0
<1>1. PICK s : IsPartial(s, f, 0) /\ SumTo(f, 0) = s[0]
  BY SumToPartial
<1> QED
  BY <1>1 DEF IsPartial

\* functions that agree up to n have the same sum up to n
LEMMA SumToSame ==
  ASSUME NEW n \in Nat, NEW f, NEW g, \A k \in 1..n : f[k] = g[k]
  PROVE  SumTo(f, n) = SumTo(g, n)
<1>1. PICK s : IsPartial(s, f, n) /\ SumTo(f, n) = s[n]
  BY SumToPartial
<1>2. PICK t : IsPartial(t, g, n) /\ SumTo(g, n) = t[n]
  BY SumToPartial
<1>3. \A k \in 0..n : s[k] = t[k]
  BY <1>1, <1>2, PartialUnique
<1> QED
  BY <1>1, <1>2, <1>3

\* one more term
LEMMA SumToStep ==
  ASSUME NEW n \in Nat, n # 0, NEW f
  PROVE  SumTo(f, n) = SumTo(f, n - 1) + f[n]
<1>1. PICK m \in Nat : m = n - 1
  OBVIOUS
<1>2. PICK g : g = f
  OBVIOUS
<1>3. PICK s : IsPartial(s, f, n) /\ SumTo(f, n) = s[n]
  BY SumToPartial
<1>4. PICK t : IsPartial(t, g, m) /\ SumTo(g, m) = t[m]
  BY SumToPartial
<1>5. \A k \in 0..m : s[k] = t[k]
  <2>1. m <= n /\ \A k \in 1..m : f[k] = g[k]
    BY <1>1, <1>2
  <2> QED
    BY <1>3, <1>4, <2>1, PartialUnique
<1>6. s[n] = s[n - 1] + f[n]
  BY <1>3 DEF IsPartial
<1> QED
  BY <1>1, <1>2, <1>3, <1>4, <1>5, <1>6

\* a sum of integers is an integer
LEMMA SumToInt ==
  ASSUME NEW n \in Nat, NEW f, \A k \in 1..n : f[k] \in Int
  PROVE  SumTo(f, n) \in Int
<1> DEFINE T == {m \in Nat : m > n \/ SumTo(f, m) \in Int}
<1>1. 0 \in T
  BY SumToZero
<1>2. ASSUME NEW m \in T PROVE m + 1 \in T
  <2>1. CASE m + 1 <= n
    <3>1. SumTo(f, m + 1) = SumTo(f, (m + 1) - 1) + f[m + 1]
      BY SumToStep
    <3>2. (m + 1) - 1 = m /\ f[m + 1] \in Int /\ SumTo(f, m) \in Int
      BY <2>1
    <3> QED
      BY <3>1, <3>2
  <2> QED
    BY <2>1
<1> HIDE DEF T
<1>3. \A m \in Nat : m \in T
  <2>1. T \in SUBSET Nat
    BY DEF T
  <2> QED
    BY <1>1, <1>2, <2>1, SetInduction
<1> QED
  BY <1>3 DEF T

\* a sum of naturals is no smaller than any earlier partial sum
LEMMA SumToGrows ==
  ASSUME NEW n \in Nat, NEW f, \A k \in 1..n : f[k] \in Nat, NEW m \in 0..n
  PROVE  SumTo(f, m) <= SumTo(f, n)
<1> DEFINE T == {d \in Nat : m + d > n \/ SumTo(f, m) <= SumTo(f, m + d)}
<1>0. \A k \in 0..n : SumTo(f, k) \in Int
  BY SumToInt
<1>1. 0 \in T
  BY <1>0
<1>2. ASSUME NEW d \in T PROVE d + 1 \in T
  <2>1. CASE m + d + 1 <= n
    <3>1. SumTo(f, m + d + 1) = SumTo(f, (m + d + 1) - 1) + f[m + d + 1]
      BY SumToStep
    <3>2. (m + d + 1) - 1 = m + d /\ m + d \in 0..n /\ f[m + d + 1] \in Nat
      BY <2>1
    <3>3. SumTo(f, m + d) \in Int /\ SumTo(f, m) \in Int /\ SumTo(f, m) <= SumTo(f, m + d)
      BY <1>0, <3>2
    <3>4. SumTo(f, m) <= SumTo(f, m + d + 1)
      BY <3>1, <3>2, <3>3
    <3> QED
      BY <3>4
  <2> QED
    BY <2>1
<1> HIDE DEF T
<1>3. \A d \in Nat : d \in T
  <2>1. T \in SUBSET Nat
    BY DEF T
  <2> QED
    BY <1>1, <1>2, <2>1, SetInduction
<1> QED
  BY <1>3 DEF T

\* a sum of naturals is a natural
LEMMA SumToNat ==
  ASSUME NEW n \in Nat, NEW f, \A k \in 1..n : f[k] \in Nat
  PROVE  SumTo(f, n) \in Nat
<1>1. SumTo(f, 0) <= SumTo(f, n)
  BY SumToGrows
<1>2. SumTo(f, n) \in Int
  BY SumToInt
<1> QED
  BY <1>1, <1>2, SumToZero

\* the sum of a pointwise sum
LEMMA SumToPlus ==
  ASSUME NEW n \in Nat, NEW f, NEW g, NEW h,
         \A k \in 1..n : f[k] \in Int /\ g[k] \in Int /\ h[k] = f[k] + g[k]
  PROVE  SumTo(h, n) = SumTo(f, n) + SumTo(g, n)
<1> DEFINE T == {m \in Nat : m > n \/ SumTo(h, m) = SumTo(f, m) + SumTo(g, m)}
<1>0. \A k \in 0..n : SumTo(f, k) \in Int /\ SumTo(g, k) \in Int
  BY SumToInt
<1>1. 0 \in T
  BY SumToZero
<1>2. ASSUME NEW m \in T PROVE m + 1 \in T
  <2>1. CASE m + 1 <= n
    <3>1. /\ SumTo(f, m + 1) = SumTo(f, (m + 1) - 1) + f[m + 1]
          /\ SumTo(g, m + 1) = SumTo(g, (m + 1) - 1) + g[m + 1]
          /\ SumTo(h, m + 1) = SumTo(h, (m + 1) - 1) + h[m + 1]
      BY SumToStep
    <3>2. /\ (m + 1) - 1 = m /\ m \in 0..n
          /\ f[m + 1] \in Int /\ g[m + 1] \in Int /\ h[m + 1] = f[m + 1] + g[m + 1]
      BY <2>1
    <3>3. SumTo(h, m) = SumTo(f, m) + SumTo(g, m)
      BY <2>1
    <3>4. SumTo(h, m + 1) = SumTo(f, m + 1) + SumTo(g, m + 1)
      BY <1>0, <3>1, <3>2, <3>3
    <3> QED
      BY <3>4
  <2> QED
    BY <2>1
<1> HIDE DEF T
<1>3. \A m \in Nat : m \in T
  <2>1. T \in SUBSET Nat
    BY DEF T
  <2> QED
    BY <1>1, <1>2, <2>1, SetInduction
<1> QED
  BY <1>3 DEF T

\* a larger function has a larger sum
LEMMA SumToOrdered ==
  ASSUME NEW n \in Nat, NEW f, NEW g,
         \A k \in 1..n : f[k] \in Nat /\ g[k] \in Nat /\ f[k] <= g[k]
  PROVE  SumTo(f, n) <= SumTo(g, n)
<1> DEFINE d == [k \in 1..n |-> g[k] - f[k]]
<1>1. \A k \in 1..n : f[k] \in Int /\ d[k] \in Int /\ g[k] = f[k] + d[k]
  OBVIOUS
<1>2. \A k \in 1..n : d[k] \in Nat
  OBVIOUS
<1> HIDE DEF d
<1>3. SumTo(g, n) = SumTo(f, n) + SumTo(d, n)
  BY <1>1, SumToPlus
<1>4. SumTo(f, n) \in Nat /\ SumTo(d, n) \in Nat
  BY <1>2, SumToNat
<1> QED
  BY <1>3, <1>4

\* a sum of equal terms
LEMMA SumToConst ==
  ASSUME NEW n \in Nat, NEW f, NEW c \in Nat, \A k \in 1..n : f[k] = c
  PROVE  SumTo(f, n) = c * n
<1> DEFINE T == {m \in Nat : m > n \/ SumTo(f, m) = c * m}
<1>1. 0 \in T
  BY SumToZero
<1>2. ASSUME NEW m \in T PROVE m + 1 \in T
  <2>1. CASE m + 1 <= n
    <3>1. SumTo(f, m + 1) = SumTo(f, (m + 1) - 1) + f[m + 1]
      BY SumToStep
    <3>2. (m + 1) - 1 = m /\ f[m + 1] = c /\ SumTo(f, m) = c * m
      BY <2>1
    <3>3. c * m + c = c * (m + 1)
      OBVIOUS
    <3>4. SumTo(f, m + 1) = c * (m + 1)
      BY <3>1, <3>2, <3>3
    <3> QED
      BY <3>4
  <2> QED
    BY <2>1
<1> HIDE DEF T
<1>3. \A m \in Nat : m \in T
  <2>1. T \in SUBSET Nat
    BY DEF T
  <2> QED
    BY <1>1, <1>2, <2>1, SetInduction
<1> QED
  BY <1>3 DEF T

\* beyond m there is nothing to add
LEMMA SumToTail ==
  ASSUME NEW n \in Nat, NEW m \in 0..n, NEW f,
         \A k \in 1..n : f[k] \in Int /\ (k > m => f[k] = 0)
  PROVE  SumTo(f, n) = SumTo(f, m)
<1> DEFINE T == {d \in Nat : m + d > n \/ SumTo(f, m + d) = SumTo(f, m)}
<1>1. 0 \in T
  OBVIOUS
<1>2. ASSUME NEW d \in T PROVE d + 1 \in T
  <2>1. CASE m + d + 1 <= n
    <3>1. SumTo(f, m + d + 1) = SumTo(f, (m + d + 1) - 1) + f[m + d + 1]
      BY SumToStep
    <3>2. (m + d + 1) - 1 = m + d /\ f[m + d + 1] = 0 /\ SumTo(f, m + d) = SumTo(f, m)
      BY <2>1
    <3>3. SumTo(f, m) \in Int
      BY SumToInt
    <3>4. SumTo(f, m + d + 1) = SumTo(f, m)
      BY <3>1, <3>2, <3>3
    <3>5. m + (d + 1) = m + d + 1
      OBVIOUS
    <3> QED
      BY <3>4, <3>5
  <2> QED
    BY <2>1
<1> HIDE DEF T
<1>3. \A d \in Nat : d \in T
  <2>1. T \in SUBSET Nat
    BY DEF T
  <2> QED
    BY <1>1, <1>2, <2>1, SetInduction
<1>4. n - m \in T
  BY <1>3
<1> QED
  BY <1>4 DEF T

\* one entry raises the sum by as much
LEMMA SumToSingle ==
  ASSUME NEW n \in Nat, NEW f, NEW j \in 1..n, NEW d \in Int,
         \A k \in 1..n : f[k] = IF k = j THEN d ELSE 0
  PROVE  SumTo(f, n) = d
<1>1. SumTo(f, n) = SumTo(f, j)
  BY SumToTail
<1>2. SumTo(f, j) = SumTo(f, j - 1) + d
  BY SumToStep
<1>3. \A k \in 1..(j - 1) : f[k] = 0
  OBVIOUS
<1>4. SumTo(f, j - 1) = 0 * (j - 1)
  <2>1. j - 1 \in Nat
    OBVIOUS
  <2> QED
    BY <1>3, <2>1, SumToConst
<1> QED
  BY <1>1, <1>2, <1>4

\* no entry exceeds the sum
LEMMA SumToEntry ==
  ASSUME NEW n \in Nat, NEW f, \A k \in 1..n : f[k] \in Nat, NEW j \in 1..n
  PROVE  f[j] <= SumTo(f, n)
<1>1. SumTo(f, j) = SumTo(f, j - 1) + f[j]
  BY SumToStep
<1>2. SumTo(f, j - 1) \in Nat /\ SumTo(f, j) \in Nat /\ SumTo(f, n) \in Nat
  BY SumToNat
<1>3. SumTo(f, j) <= SumTo(f, n)
  BY SumToGrows
<1> QED
  BY <1>1, <1>2, <1>3

\* changing one entry changes the sum by as much
LEMMA SumToChange ==
  ASSUME NEW n \in Nat, NEW f, NEW g, NEW j \in 1..n,
         \A k \in 1..n : f[k] \in Int /\ g[k] \in Int,
         \A k \in 1..n : k # j => g[k] = f[k]
  PROVE  SumTo(g, n) = SumTo(f, n) + g[j] - f[j]
<1> DEFINE e == [k \in 1..n |-> g[k] - f[k]]
<1>1. \A k \in 1..n : f[k] \in Int /\ e[k] \in Int /\ g[k] = f[k] + e[k]
  OBVIOUS
<1>2. \A k \in 1..n : e[k] = IF k = j THEN g[j] - f[j] ELSE 0
  OBVIOUS
<1>3. g[j] - f[j] \in Int
  OBVIOUS
<1> HIDE DEF e
<1>4. SumTo(g, n) = SumTo(f, n) + SumTo(e, n)
  BY <1>1, SumToPlus
<1>5. SumTo(e, n) = g[j] - f[j]
  BY <1>2, <1>3, SumToSingle
<1>6. SumTo(f, n) \in Int
  BY SumToInt
<1> QED
  BY <1>4, <1>5, <1>6

\* a common factor comes out of a sum
LEMMA SumToScale ==
  ASSUME NEW n \in Nat, NEW f, NEW g, NEW c \in Int,
         \A k \in 1..n : f[k] \in Int /\ g[k] = c * f[k]
  PROVE  SumTo(g, n) = c * SumTo(f, n)
<1> DEFINE T == {m \in Nat : m > n \/ SumTo(g, m) = c * SumTo(f, m)}
<1>0. \A m \in 0..n : SumTo(f, m) \in Int
  BY SumToInt
<1>1. 0 \in T
  <2>1. SumTo(g, 0) = 0 /\ SumTo(f, 0) = 0
    BY SumToZero
  <2> QED
    BY <2>1
<1>2. ASSUME NEW m \in T PROVE m + 1 \in T
  <2>1. CASE m + 1 <= n
    <3>1. SumTo(f, m + 1) = SumTo(f, m) + f[m + 1]
      <4>1. SumTo(f, m + 1) = SumTo(f, (m + 1) - 1) + f[m + 1]
        BY SumToStep
      <4> QED
        BY <4>1
    <3>2. SumTo(g, m + 1) = SumTo(g, m) + g[m + 1]
      <4>1. SumTo(g, m + 1) = SumTo(g, (m + 1) - 1) + g[m + 1]
        BY SumToStep
      <4> QED
        BY <4>1
    <3>3. PICK x \in Int, y \in Int : x = SumTo(f, m) /\ y = f[m + 1]
      BY <2>1, <1>0
    <3>4. SumTo(g, m) = c * x /\ g[m + 1] = c * y
      BY <2>1, <3>3
    <3>5. c * x + c * y = c * (x + y)
      BY <3>3
    <3>6. SumTo(g, m + 1) = c * SumTo(f, m + 1)
      BY <3>1, <3>2, <3>3, <3>4, <3>5
    <3> QED
      BY <3>6
  <2> QED
    BY <2>1
<1> HIDE DEF T
<1>3. \A m \in Nat : m \in T
  <2>1. T \in SUBSET Nat
    BY DEF T
  <2> QED
    BY <1>1, <1>2, <2>1, SetInduction
<1> QED
  BY <1>3 DEF T

----------------------------------------------------------------------------
(* The sum of a function over a finite set *)

Picked(U) == CHOOSE x \in U : TRUE
Smaller(S, n) == {U \in SUBSET S : Cardinality(U) <= n}
Adds(g, f, Us) == g = [U \in Us |-> IF U = {} THEN 0 ELSE f[Picked(U)] + g[U \ {Picked(U)}]]

\* the element taken is of the set
LEMMA PickedIn == \A U : U # {} => Picked(U) \in U
BY DEF Picked

\* a nonempty finite set is one larger than what is left of it
LEMMA OneLess ==
  ASSUME NEW U, IsFiniteSet(U), NEW x \in U
  PROVE  /\ IsFiniteSet(U \ {x}) /\ Cardinality(U \ {x}) \in Nat /\ Cardinality(U) \in Nat
         /\ Cardinality(U) = Cardinality(U \ {x}) + 1
<1>1. IsFiniteSet(U \ {x}) /\ Cardinality(U \ {x}) = Cardinality(U) - 1
  BY FS_RemoveElement
<1>2. Cardinality(U) \in Nat /\ Cardinality(U \ {x}) \in Nat
  BY <1>1, FS_CardinalityType
<1> QED
  BY <1>1, <1>2

\* there is a function that adds up the smaller subsets of a finite set
LEMMA AddsExists ==
  ASSUME NEW S, IsFiniteSet(S), NEW f
  PROVE  \A n \in Nat : \E g : Adds(g, f, Smaller(S, n))
<1> DEFINE N == {n \in Nat : \E g : Adds(g, f, Smaller(S, n))}
<1>1. 0 \in N
  <2>1. \A U \in Smaller(S, 0) : U = {}
    <3> TAKE U \in Smaller(S, 0)
    <3>1. IsFiniteSet(U) /\ Cardinality(U) \in Nat /\ Cardinality(U) <= 0
      BY FS_Subset, FS_CardinalityType DEF Smaller
    <3> QED
      BY <3>1, FS_EmptySet
  <2>2. Adds([U \in Smaller(S, 0) |-> 0], f, Smaller(S, 0))
    BY <2>1 DEF Adds
  <2> QED
    BY <2>2
<1>2. ASSUME NEW n \in N PROVE n + 1 \in N
  <2>1. PICK g : Adds(g, f, Smaller(S, n))
    OBVIOUS
  <2>2. PICK h : h = [U \in Smaller(S, n + 1) |-> IF U = {} THEN 0 ELSE f[Picked(U)] + g[U \ {Picked(U)}]]
    OBVIOUS
  <2>3. ASSUME NEW U \in Smaller(S, n + 1), U # {}
        PROVE  U \ {Picked(U)} \in Smaller(S, n) /\ U \ {Picked(U)} \in Smaller(S, n + 1)
    <3>1. IsFiniteSet(U) /\ Cardinality(U) <= n + 1 /\ Picked(U) \in U
      BY <2>3, FS_Subset, PickedIn DEF Smaller
    <3> QED
      BY <3>1, OneLess DEF Smaller
  <2>4. \A U \in Smaller(S, n) : U \in Smaller(S, n + 1) /\ h[U] = g[U]
    <3> TAKE U \in Smaller(S, n)
    <3>1. IsFiniteSet(U) /\ Cardinality(U) \in Nat /\ Cardinality(U) <= n
      BY FS_Subset, FS_CardinalityType DEF Smaller
    <3>2. U \in Smaller(S, n + 1)
      BY <3>1 DEF Smaller
    <3> QED
      BY <2>1, <2>2, <3>2, Zenon DEF Adds
  <2>5. \A U \in Smaller(S, n + 1) : h[U] = IF U = {} THEN 0 ELSE f[Picked(U)] + h[U \ {Picked(U)}]
    BY <2>2, <2>3, <2>4
  <2>6. Adds(h, f, Smaller(S, n + 1))
    BY <2>2, <2>5 DEF Adds
  <2> QED
    BY <2>6
<1>3. \A n \in Nat : n \in N
  BY <1>1, <1>2, SetInduction
<1> QED
  BY <1>3

\* a set with a positive number of elements is not empty
LEMMA NotEmpty == \A U : \A n \in Nat : Cardinality(U) = n + 1 => U # {}
<1>1. Cardinality({}) = 0 /\ \A n \in Nat : 0 # n + 1
  BY FS_EmptySet
<1> QED
  BY <1>1

\* two functions that add up the subsets agree on them
LEMMA AddsAgree ==
  ASSUME NEW S, IsFiniteSet(S), NEW T \in SUBSET S, NEW f, NEW g, NEW h,
         Adds(g, f, SUBSET T), Adds(h, f, SUBSET S)
  PROVE  g[T] = h[T]
<1> DEFINE N == {n \in Nat : \A U \in SUBSET T : Cardinality(U) = n => g[U] = h[U]}
<1>1. \A U \in SUBSET T : IsFiniteSet(U) /\ Cardinality(U) \in Nat
  BY FS_Subset, FS_CardinalityType
<1>2. 0 \in N
  <2> SUFFICES ASSUME NEW U \in SUBSET T, Cardinality(U) = 0 PROVE g[U] = h[U]
    OBVIOUS
  <2>1. U = {}
    BY <1>1, FS_EmptySet
  <2> QED
    BY <2>1 DEF Adds
<1>3. ASSUME NEW n \in N PROVE n + 1 \in N
  <2> SUFFICES ASSUME NEW U \in SUBSET T, Cardinality(U) = n + 1 PROVE g[U] = h[U]
    OBVIOUS
  <2>1. U # {} /\ Picked(U) \in U
    BY NotEmpty, PickedIn
  <2>2. Cardinality(U \ {Picked(U)}) = n
    BY <1>1, <2>1, OneLess
  <2>3. g[U \ {Picked(U)}] = h[U \ {Picked(U)}]
    BY <2>2
  <2>4. g[U] = f[Picked(U)] + g[U \ {Picked(U)}] /\ h[U] = f[Picked(U)] + h[U \ {Picked(U)}]
    BY <2>1 DEF Adds
  <2> QED
    BY <2>3, <2>4
<1>4. \A n \in Nat : n \in N
  BY <1>2, <1>3, SetInduction
<1> QED
  BY <1>1, <1>4

Sums(h, f, S) == Adds(h, f, SUBSET S) /\ \A T \in SUBSET S : SumFunctionOnSet(f, T) = h[T]

\* the library's sum is what such a function gives
LEMMA SetSumIs ==
  ASSUME NEW S, IsFiniteSet(S), NEW f
  PROVE  \E h : Sums(h, f, S)
<1>1. ASSUME NEW T \in SUBSET S PROVE \E g : Adds(g, f, SUBSET T) /\ SumFunctionOnSet(f, T) = g[T]
  <2>1. IsFiniteSet(T) /\ Cardinality(T) \in Nat
    BY FS_Subset, FS_CardinalityType
  <2>2. Smaller(T, Cardinality(T)) = SUBSET T
    BY <2>1, FS_Subset DEF Smaller
  <2>3. \E g : Adds(g, f, SUBSET T)
    <3>1. \E g : Adds(g, f, Smaller(T, Cardinality(T)))
      BY <2>1, AddsExists
    <3> QED
      BY <2>2, <3>1
  <2>4. PICK g : g = CHOOSE k : Adds(k, f, SUBSET T)
    OBVIOUS
  <2>5. Adds(g, f, SUBSET T)
    BY <2>3, <2>4
  <2>6. SumFunctionOnSet(f, T) = g[T]
    BY <2>4 DEF SumFunctionOnSet, FoldFunctionOnSet, MapThenFoldSet, Adds, Picked
  <2> QED
    BY <2>5, <2>6
<1>2. PICK h : Adds(h, f, SUBSET S)
  BY <1>1
<1>3. ASSUME NEW T \in SUBSET S PROVE SumFunctionOnSet(f, T) = h[T]
  <2>1. PICK g : Adds(g, f, SUBSET T) /\ SumFunctionOnSet(f, T) = g[T]
    BY <1>1
  <2>2. g[T] = h[T]
    BY <1>2, <2>1, AddsAgree
  <2> QED
    BY <2>1, <2>2
<1> QED
  BY <1>2, <1>3 DEF Sums

\* the sum over nothing is zero
LEMMA SetSumEmpty == \A f : SumFunctionOnSet(f, {}) = 0
<1> TAKE f
<1>1. IsFiniteSet({})
  BY FS_EmptySet
<1>2. PICK h : Sums(h, f, {})
  BY <1>1, SetSumIs
<1>3. h[{}] = 0
  BY <1>2 DEF Adds, Sums
<1> QED
  BY <1>2, <1>3 DEF Sums

\* any element may be taken out of a sum
LEMMA SetSumTake ==
  ASSUME NEW S, IsFiniteSet(S), NEW f, \A x \in S : f[x] \in Int
  PROVE  /\ SumFunctionOnSet(f, S) \in Int
         /\ \A x \in S : SumFunctionOnSet(f, S) = f[x] + SumFunctionOnSet(f, S \ {x})
<1> PICK h : Sums(h, f, S)
  BY SetSumIs
<1>1. Adds(h, f, SUBSET S) /\ \A T \in SUBSET S : SumFunctionOnSet(f, T) = h[T]
  BY DEF Sums
<1>2. \A U \in SUBSET S : IsFiniteSet(U) /\ Cardinality(U) \in Nat
  BY FS_Subset, FS_CardinalityType
<1>3. \A U \in SUBSET S : U # {} => Picked(U) \in U /\ h[U] = f[Picked(U)] + h[U \ {Picked(U)}]
  BY <1>1, PickedIn DEF Adds
<1>4. h[{}] = 0
  BY <1>1 DEF Adds
<1>5. \A n \in Nat : \A U \in SUBSET S : Cardinality(U) = n + 1 => U # {} /\ \A x \in U : Cardinality(U \ {x}) = n
  BY <1>2, NotEmpty, OneLess
<1>6. \A U \in SUBSET S : Cardinality(U) = 0 => U = {}
  BY <1>2, FS_EmptySet
<1>7. \A n \in Nat : \A U \in SUBSET S : Cardinality(U) = n => h[U] \in Int
  <2> DEFINE N == {n \in Nat : \A U \in SUBSET S : Cardinality(U) = n => h[U] \in Int}
  <2>1. 0 \in N
    BY <1>4, <1>6
  <2>2. ASSUME NEW n \in N PROVE n + 1 \in N
    <3> SUFFICES ASSUME NEW U \in SUBSET S, Cardinality(U) = n + 1 PROVE h[U] \in Int
      OBVIOUS
    <3>1. U # {} /\ Picked(U) \in U /\ h[U] = f[Picked(U)] + h[U \ {Picked(U)}]
      BY <1>3, <1>5
    <3>2. h[U \ {Picked(U)}] \in Int
      BY <1>5, <3>1
    <3> QED
      BY <3>1, <3>2
  <2>3. \A n \in Nat : n \in N
    BY <2>1, <2>2, SetInduction
  <2> QED
    BY <2>3
<1>8. \A n \in Nat : \A U \in SUBSET S : Cardinality(U) = n => \A x \in U : h[U] = f[x] + h[U \ {x}]
  <2> DEFINE N == {n \in Nat : \A U \in SUBSET S : Cardinality(U) = n => \A x \in U : h[U] = f[x] + h[U \ {x}]}
  <2>1. 0 \in N
    BY <1>6
  <2>2. ASSUME NEW n \in N PROVE n + 1 \in N
    <3> SUFFICES ASSUME NEW U \in SUBSET S, Cardinality(U) = n + 1, NEW x \in U PROVE h[U] = f[x] + h[U \ {x}]
      OBVIOUS
    <3>1. PICK y : y = Picked(U)
      OBVIOUS
    <3>2. y \in U /\ h[U] = f[y] + h[U \ {y}]
      BY <1>3, <1>5, <3>1
    <3>3. CASE x = y
      BY <3>2, <3>3
    <3>4. CASE x # y
      <4>1. PICK rest : rest = (U \ {x}) \ {y}
        OBVIOUS
      <4>2. rest = (U \ {y}) \ {x} /\ rest \in SUBSET S /\ x \in U \ {y} /\ y \in U \ {x}
        BY <3>2, <3>4, <4>1
      <4>3. h[U \ {y}] = f[x] + h[rest]
        BY <1>5, <3>2, <4>2
      <4>4. h[U \ {x}] = f[y] + h[rest]
        BY <1>5, <4>1, <4>2
      <4>5. h[rest] \in Int /\ f[x] \in Int /\ f[y] \in Int
        BY <1>2, <1>7, <3>2, <4>2
      <4> QED
        BY <3>2, <4>3, <4>4, <4>5
    <3> QED
      BY <3>3, <3>4
  <2>3. \A n \in Nat : n \in N
    BY <2>1, <2>2, SetInduction
  <2> QED
    BY <2>3
<1>9. h[S] \in Int /\ \A x \in S : h[S] = f[x] + h[S \ {x}]
  BY <1>2, <1>7, <1>8
<1> QED
  BY <1>1, <1>9

\* induction over a finite set, in terms of a set of sets
LEMMA FiniteInduction ==
  ASSUME NEW S, IsFiniteSet(S), NEW F, {} \in F,
         \A T \in SUBSET S : \A x \in T : T \ {x} \in F => T \in F
  PROVE  S \in F
<1> DEFINE N == {n \in Nat : \A T \in SUBSET S : Cardinality(T) = n => T \in F}
<1>1. \A U \in SUBSET S : IsFiniteSet(U) /\ Cardinality(U) \in Nat
  BY FS_Subset, FS_CardinalityType
<1>2. 0 \in N
  <2>1. \A T \in SUBSET S : Cardinality(T) = 0 => T = {}
    BY <1>1, FS_EmptySet
  <2> QED
    BY <2>1
<1>3. ASSUME NEW n \in N PROVE n + 1 \in N
  <2> SUFFICES ASSUME NEW T \in SUBSET S, Cardinality(T) = n + 1 PROVE T \in F
    OBVIOUS
  <2>1. PICK x : x \in T
    BY NotEmpty
  <2>2. Cardinality(T \ {x}) = n
    BY <1>1, <2>1, OneLess
  <2> QED
    BY <2>1, <2>2
<1>4. \A n \in Nat : n \in N
  BY <1>2, <1>3, SetInduction
<1> QED
  BY <1>1, <1>4

\* a larger function has a larger sum
LEMMA SetSumOrdered ==
  ASSUME NEW S, IsFiniteSet(S), NEW f, NEW g, \A x \in S : f[x] \in Int /\ g[x] \in Int /\ f[x] <= g[x]
  PROVE  SumFunctionOnSet(f, S) <= SumFunctionOnSet(g, S)
<1> DEFINE F == {T \in SUBSET S : SumFunctionOnSet(f, T) <= SumFunctionOnSet(g, T)}
<1>1. {} \in F
  BY SetSumEmpty
<1>2. ASSUME NEW T \in SUBSET S, NEW x \in T, T \ {x} \in F PROVE T \in F
  <2>1. IsFiniteSet(T) /\ IsFiniteSet(T \ {x})
    BY FS_Subset
  <2>2. SumFunctionOnSet(f, T) = f[x] + SumFunctionOnSet(f, T \ {x}) /\ SumFunctionOnSet(f, T \ {x}) \in Int
    BY <2>1, SetSumTake
  <2>3. SumFunctionOnSet(g, T) = g[x] + SumFunctionOnSet(g, T \ {x}) /\ SumFunctionOnSet(g, T \ {x}) \in Int
    BY <2>1, SetSumTake
  <2> QED
    BY <1>2, <2>2, <2>3
<1> HIDE DEF F
<1>3. S \in F
  BY <1>1, <1>2, FiniteInduction
<1> QED
  BY <1>3 DEF F

\* equal on the set, equal sums
LEMMA SetSumSame ==
  ASSUME NEW S, IsFiniteSet(S), NEW f, NEW g, \A x \in S : f[x] \in Int /\ g[x] = f[x]
  PROVE  SumFunctionOnSet(g, S) = SumFunctionOnSet(f, S)
<1>1. SumFunctionOnSet(f, S) <= SumFunctionOnSet(g, S) /\ SumFunctionOnSet(g, S) <= SumFunctionOnSet(f, S)
  BY SetSumOrdered
<1>2. SumFunctionOnSet(f, S) \in Int /\ SumFunctionOnSet(g, S) \in Int
  BY SetSumTake
<1> QED
  BY <1>1, <1>2

\* zeros add up to zero
LEMMA SetSumZero ==
  ASSUME NEW S, IsFiniteSet(S), NEW f, \A x \in S : f[x] = 0
  PROVE  SumFunctionOnSet(f, S) = 0
<1> DEFINE F == {T \in SUBSET S : SumFunctionOnSet(f, T) = 0}
<1>1. {} \in F
  BY SetSumEmpty
<1>2. ASSUME NEW T \in SUBSET S, NEW x \in T, T \ {x} \in F PROVE T \in F
  <2>1. IsFiniteSet(T)
    BY FS_Subset
  <2>2. SumFunctionOnSet(f, T) = f[x] + SumFunctionOnSet(f, T \ {x})
    BY <2>1, SetSumTake
  <2> QED
    BY <1>2, <2>2
<1> HIDE DEF F
<1>3. S \in F
  BY <1>1, <1>2, FiniteInduction
<1> QED
  BY <1>3 DEF F

\* a sum above or below zero has a summand above or below zero
LEMMA SetSumSign ==
  ASSUME NEW S, IsFiniteSet(S), NEW f, \A x \in S : f[x] \in Int
  PROVE  /\ SumFunctionOnSet(f, S) > 0 => \E x \in S : f[x] > 0
         /\ SumFunctionOnSet(f, S) < 0 => \E x \in S : f[x] < 0
<1> DEFINE z == [x \in S |-> 0]
<1>1. SumFunctionOnSet(z, S) = 0
  BY SetSumZero
<1>2. SumFunctionOnSet(f, S) \in Int
  BY SetSumTake
<1>3. ASSUME \A x \in S : f[x] <= 0 PROVE SumFunctionOnSet(f, S) <= 0
  <2>1. SumFunctionOnSet(f, S) <= SumFunctionOnSet(z, S)
    BY <1>3, SetSumOrdered
  <2> QED
    BY <1>1, <2>1
<1>4. ASSUME \A x \in S : f[x] >= 0 PROVE SumFunctionOnSet(f, S) >= 0
  <2>1. SumFunctionOnSet(z, S) <= SumFunctionOnSet(f, S)
    BY <1>4, SetSumOrdered
  <2> QED
    BY <1>1, <1>2, <2>1
<1> QED
  BY <1>2, <1>3, <1>4

\* naturals add up to a natural
LEMMA SetSumNat ==
  ASSUME NEW S, IsFiniteSet(S), NEW f, \A x \in S : f[x] \in Nat
  PROVE  SumFunctionOnSet(f, S) \in Nat
<1>1. SumFunctionOnSet(f, S) \in Int
  BY SetSumTake
<1>2. ~(SumFunctionOnSet(f, S) < 0)
  <2>1. \A x \in S : f[x] \in Int /\ ~(f[x] < 0)
    OBVIOUS
  <2> QED
    BY <2>1, SetSumSign
<1> QED
  BY <1>1, <1>2

\* disjoint sets
LEMMA SetSumUnion ==
  ASSUME NEW S, IsFiniteSet(S), NEW T, IsFiniteSet(T), S \cap T = {}, NEW f, \A x \in S \union T : f[x] \in Int
  PROVE  SumFunctionOnSet(f, S \union T) = SumFunctionOnSet(f, S) + SumFunctionOnSet(f, T)
<1> DEFINE F == {U \in SUBSET S : SumFunctionOnSet(f, U \union T) = SumFunctionOnSet(f, U) + SumFunctionOnSet(f, T)}
<1>0. SumFunctionOnSet(f, T) \in Int
  BY SetSumTake
<1>1. {} \in F
  <2>1. {} \union T = T
    OBVIOUS
  <2> QED
    BY <1>0, <2>1, SetSumEmpty
<1>2. ASSUME NEW U \in SUBSET S, NEW x \in U, U \ {x} \in F PROVE U \in F
  <2>1. IsFiniteSet(U) /\ IsFiniteSet(U \union T) /\ IsFiniteSet(U \ {x})
    BY FS_Subset, FS_Union
  <2>2. x \in U \union T /\ (U \union T) \ {x} = (U \ {x}) \union T
    BY <1>2
  <2>3. \A y \in U \union T : f[y] \in Int
    OBVIOUS
  <2>4. SumFunctionOnSet(f, U \union T) = f[x] + SumFunctionOnSet(f, (U \ {x}) \union T)
    BY <2>1, <2>2, <2>3, SetSumTake
  <2>5. SumFunctionOnSet(f, U) = f[x] + SumFunctionOnSet(f, U \ {x}) /\ SumFunctionOnSet(f, U \ {x}) \in Int
    BY <2>1, <2>3, SetSumTake
  <2> QED
    BY <1>0, <1>2, <2>3, <2>4, <2>5
<1> HIDE DEF F
<1>3. S \in F
  BY <1>1, <1>2, FiniteInduction
<1> QED
  BY <1>3 DEF F

\* summands that are zero may be left out
LEMMA SetSumPart ==
  ASSUME NEW S, IsFiniteSet(S), NEW T \in SUBSET S, NEW f, \A x \in S : f[x] \in Int
  PROVE  SumFunctionOnSet(f, S) = SumFunctionOnSet(f, T) + SumFunctionOnSet(f, S \ T)
<1>1. IsFiniteSet(T) /\ IsFiniteSet(S \ T) /\ T \cap (S \ T) = {} /\ T \union (S \ T) = S
  BY FS_Subset
<1> QED
  BY <1>1, SetSumUnion

\* sums add pointwise
LEMMA SetSumPlus ==
  ASSUME NEW S, IsFiniteSet(S), NEW f, NEW g, NEW h,
         \A x \in S : f[x] \in Int /\ g[x] \in Int /\ h[x] = f[x] + g[x]
  PROVE  SumFunctionOnSet(h, S) = SumFunctionOnSet(f, S) + SumFunctionOnSet(g, S)
<1> DEFINE F == {T \in SUBSET S : SumFunctionOnSet(h, T) = SumFunctionOnSet(f, T) + SumFunctionOnSet(g, T)}
<1>1. {} \in F
  BY SetSumEmpty
<1>2. ASSUME NEW T \in SUBSET S, NEW x \in T, T \ {x} \in F PROVE T \in F
  <2>1. IsFiniteSet(T) /\ IsFiniteSet(T \ {x})
    BY FS_Subset
  <2>2. SumFunctionOnSet(f, T) = f[x] + SumFunctionOnSet(f, T \ {x}) /\ SumFunctionOnSet(f, T \ {x}) \in Int
    BY <2>1, SetSumTake
  <2>3. SumFunctionOnSet(g, T) = g[x] + SumFunctionOnSet(g, T \ {x}) /\ SumFunctionOnSet(g, T \ {x}) \in Int
    BY <2>1, SetSumTake
  <2>4. SumFunctionOnSet(h, T) = h[x] + SumFunctionOnSet(h, T \ {x})
    BY <2>1, SetSumTake
  <2> QED
    BY <1>2, <2>2, <2>3, <2>4
<1> HIDE DEF F
<1>3. S \in F
  BY <1>1, <1>2, FiniteInduction
<1> QED
  BY <1>3 DEF F

\* multiplication distributes over addition
LEMMA Distributes == \A k, a, b \in Int : k * (a + b) = k * a + k * b /\ k * a \in Int /\ k * 0 = 0
OBVIOUS

\* a common factor comes out of a sum
LEMMA SetSumTimes ==
  ASSUME NEW S, IsFiniteSet(S), NEW k \in Int, NEW f, NEW h, \A x \in S : f[x] \in Int /\ h[x] = k * f[x]
  PROVE  SumFunctionOnSet(h, S) = k * SumFunctionOnSet(f, S)
<1> DEFINE F == {T \in SUBSET S : SumFunctionOnSet(h, T) = k * SumFunctionOnSet(f, T)}
<1>1. {} \in F
  <2>1. k * 0 = 0
    OBVIOUS
  <2> QED
    BY <2>1, SetSumEmpty
<1>2. ASSUME NEW T \in SUBSET S, NEW x \in T, T \ {x} \in F PROVE T \in F
  <2>1. IsFiniteSet(T) /\ IsFiniteSet(T \ {x}) /\ \A y \in S : h[y] \in Int
    BY FS_Subset, Distributes
  <2>2. SumFunctionOnSet(f, T) = f[x] + SumFunctionOnSet(f, T \ {x}) /\ SumFunctionOnSet(f, T \ {x}) \in Int
    BY <2>1, SetSumTake
  <2>3. SumFunctionOnSet(h, T) = h[x] + SumFunctionOnSet(h, T \ {x})
    BY <2>1, SetSumTake
  <2>4. k * (f[x] + SumFunctionOnSet(f, T \ {x})) = k * f[x] + k * SumFunctionOnSet(f, T \ {x})
    BY <2>2, Distributes
  <2> QED
    BY <1>2, <2>2, <2>3, <2>4
<1> HIDE DEF F
<1>3. S \in F
  BY <1>1, <1>2, FiniteInduction
<1> QED
  BY <1>3 DEF F

\* a sum of sums over disjoint parts
LEMMA SetSumNested ==
  ASSUME NEW E, IsFiniteSet(E), NEW S, IsFiniteSet(S), NEW part,
         \A e \in E : part[e] \in SUBSET S,
         \A d, e \in E : d # e => part[d] \cap part[e] = {},
         NEW f, \A x \in S : f[x] \in Int,
         NEW h, \A e \in E : h[e] = SumFunctionOnSet(f, part[e])
  PROVE  SumFunctionOnSet(h, E) = SumFunctionOnSet(f, UNION {part[e] : e \in E})
<1> DEFINE All(D) == UNION {part[e] : e \in D}
           F == {D \in SUBSET E : SumFunctionOnSet(h, D) = SumFunctionOnSet(f, All(D))}
<1>1. {} \in F
  <2>1. All({}) = {}
    OBVIOUS
  <2> QED
    BY <2>1, SetSumEmpty
<1>2. ASSUME NEW D \in SUBSET E, NEW d \in D, D \ {d} \in F PROVE D \in F
  <2>1. IsFiniteSet(D) /\ IsFiniteSet(part[d]) /\ All(D \ {d}) \in SUBSET S /\ IsFiniteSet(All(D \ {d}))
    <3>1. All(D \ {d}) \in SUBSET S /\ part[d] \in SUBSET S
      OBVIOUS
    <3> QED
      BY <3>1, FS_Subset
  <2>2. part[d] \cap All(D \ {d}) = {} /\ All(D) = part[d] \union All(D \ {d})
    OBVIOUS
  <2>3. \A e \in E : h[e] \in Int
    <3> TAKE e \in E
    <3>1. IsFiniteSet(part[e]) /\ \A x \in part[e] : f[x] \in Int
      BY FS_Subset
    <3> QED
      BY <3>1, SetSumTake
  <2>4. SumFunctionOnSet(h, D) = h[d] + SumFunctionOnSet(h, D \ {d})
    BY <2>1, <2>3, SetSumTake
  <2>5. \A x \in part[d] \union All(D \ {d}) : f[x] \in Int
    BY <2>1
  <2>6. SumFunctionOnSet(f, part[d] \union All(D \ {d}))
          = SumFunctionOnSet(f, part[d]) + SumFunctionOnSet(f, All(D \ {d}))
    BY <2>1, <2>2, <2>5, SetSumUnion
  <2>7. SumFunctionOnSet(h, D \ {d}) = SumFunctionOnSet(f, All(D \ {d})) /\ h[d] = SumFunctionOnSet(f, part[d])
    BY <1>2
  <2>8. SumFunctionOnSet(h, D) = SumFunctionOnSet(f, All(D))
    BY <2>2, <2>4, <2>6, <2>7
  <2> QED
    BY <2>8
<1> HIDE DEF F
<1>3. E \in F
  BY <1>1, <1>2, FiniteInduction
<1> QED
  BY <1>3 DEF F

----------------------------------------------------------------------------
(* A finite set in order *)

\* R orders the elements of S strictly and totally
StrictlyOrders(R, S) ==
  /\ \A x \in S : <<x, x>> \notin R
  /\ \A x, y \in S : x # y => <<x, y>> \in R \/ <<y, x>> \in R
  /\ \A x, y, z \in S : <<x, y>> \in R /\ <<y, z>> \in R => <<x, z>> \in R

\* s lists each element of T once, in the order of R
Lists(s, T, R) ==
  /\ s \in [1..Cardinality(T) -> T]
  /\ \A i, j \in 1..Cardinality(T) : i < j => <<s[i], s[j]>> \in R

\* a nonempty finite set has a last element
LEMMA LastElement ==
  ASSUME NEW S, IsFiniteSet(S), NEW R, StrictlyOrders(R, S)
  PROVE  S # {} => \E m \in S : \A x \in S \ {m} : <<x, m>> \in R
<1> DEFINE Top(T, m) == m \in T /\ \A x \in T \ {m} : <<x, m>> \in R
           F == {T \in SUBSET S : T # {} => \E m \in T : Top(T, m)}
<1>1. {} \in F
  OBVIOUS
<1>2. ASSUME NEW T \in SUBSET S, NEW x \in T, T \ {x} \in F PROVE T \in F
  <2>1. CASE T \ {x} = {}
    <3>1. Top(T, x)
      BY <2>1
    <3> QED
      BY <3>1
  <2>2. CASE T \ {x} # {}
    <3>1. PICK m \in T \ {x} : Top(T \ {x}, m)
      BY <1>2, <2>2
    <3>2. CASE <<x, m>> \in R
      <4>1. Top(T, m)
        BY <3>1, <3>2
      <4> QED
        BY <4>1
    <3>3. CASE <<m, x>> \in R
      <4>1. ASSUME NEW y \in T \ {x} PROVE <<y, x>> \in R
        <5>1. y = m \/ <<y, m>> \in R
          BY <3>1
        <5>2. y \in S /\ m \in S /\ x \in S
          BY <4>1
        <5> QED
          BY <3>3, <5>1, <5>2 DEF StrictlyOrders
      <4>2. Top(T, x)
        BY <4>1
      <4> QED
        BY <4>2
    <3>4. <<x, m>> \in R \/ <<m, x>> \in R
      BY DEF StrictlyOrders
    <3> QED
      BY <3>2, <3>3, <3>4
  <2> QED
    BY <2>1, <2>2
<1> HIDE DEF F
<1>3. S \in F
  BY <1>1, <1>2, FiniteInduction
<1> QED
  BY <1>3 DEF F

\* a finite set can be listed in order
LEMMA ListExists ==
  ASSUME NEW S, IsFiniteSet(S), NEW R, StrictlyOrders(R, S)
  PROVE  \E s : Lists(s, S, R)
<1> DEFINE N == {n \in Nat : \A T \in SUBSET S : Cardinality(T) = n => \E s : Lists(s, T, R)}
<1>1. \A T \in SUBSET S : IsFiniteSet(T) /\ Cardinality(T) \in Nat /\ StrictlyOrders(R, T)
  BY FS_Subset, FS_CardinalityType DEF StrictlyOrders
<1>2. 0 \in N
  <2> SUFFICES ASSUME NEW T \in SUBSET S, Cardinality(T) = 0 PROVE \E s : Lists(s, T, R)
    OBVIOUS
  <2>1. Lists([i \in 1..0 |-> T], T, R)
    BY DEF Lists
  <2> QED
    BY <2>1
<1>3. ASSUME NEW n \in N PROVE n + 1 \in N
  <2> SUFFICES ASSUME NEW T \in SUBSET S, Cardinality(T) = n + 1 PROVE \E s : Lists(s, T, R)
    OBVIOUS
  <2>0. n \in Nat
    OBVIOUS
  <2>1. T # {}
    BY <2>0, NotEmpty
  <2>2. PICK m \in T : \A x \in T \ {m} : <<x, m>> \in R
    BY <1>1, <2>1, LastElement
  <2>3. Cardinality(T \ {m}) = n
    <3>1. IsFiniteSet(T)
      BY <1>1
    <3>2. Cardinality(T \ {m}) \in Nat /\ Cardinality(T) = Cardinality(T \ {m}) + 1
      BY <3>1, OneLess
    <3> QED
      BY <2>0, <3>2
  <2>4. PICK s : Lists(s, T \ {m}, R)
    BY <2>3
  <2> DEFINE t == [i \in 1..(n + 1) |-> IF i = n + 1 THEN m ELSE s[i]]
  <2>5. /\ s \in [1..n -> T \ {m}]
        /\ \A i, j \in 1..n : i < j => <<s[i], s[j]>> \in R
    BY <2>3, <2>4 DEF Lists
  <2>6. t \in [1..(n + 1) -> T]
    BY <2>0, <2>5
  <2>7. ASSUME NEW i \in 1..(n + 1), NEW j \in 1..(n + 1), i < j PROVE <<t[i], t[j]>> \in R
    <3>1. i \in 1..n /\ t[i] = s[i] /\ s[i] \in T \ {m}
      BY <2>0, <2>5, <2>7
    <3>2. CASE j = n + 1
      BY <2>2, <3>1, <3>2
    <3>3. CASE j # n + 1
      BY <2>0, <2>5, <2>7, <3>1, <3>3
    <3> QED
      BY <3>2, <3>3
  <2>8. Lists(t, T, R)
    BY <2>6, <2>7 DEF Lists
  <2> QED
    BY <2>8
<1> HIDE DEF N
<1>4. N \in SUBSET Nat
  BY DEF N
<1>5. \A n \in Nat : n \in N
  BY <1>2, <1>3, <1>4, SetInduction
<1> QED
  BY <1>1, <1>5 DEF N

\* and such a list leaves nothing out and repeats nothing
LEMMA ListIsWhole ==
  ASSUME NEW S, IsFiniteSet(S), NEW R, StrictlyOrders(R, S), NEW s, Lists(s, S, R)
  PROVE  /\ \A i, j \in 1..Cardinality(S) : s[i] = s[j] => i = j
         /\ \A x \in S : \E i \in 1..Cardinality(S) : s[i] = x
<1>0. PICK n : n = Cardinality(S)
  OBVIOUS
<1>1. n \in Nat /\ s \in [1..n -> S]
  BY <1>0, FS_CardinalityType DEF Lists
<1>2. \A i, j \in 1..n : s[i] = s[j] => i = j
  <2> SUFFICES ASSUME NEW i \in 1..n, NEW j \in 1..n, s[i] = s[j], i # j PROVE FALSE
    OBVIOUS
  <2>1. s[i] \in S /\ (i < j \/ j < i)
    BY <1>1
  <2>2. <<s[i], s[i]>> \in R
    BY <1>0, <2>1 DEF Lists
  <2> QED
    BY <2>1, <2>2 DEF StrictlyOrders
<1>3. s \in Injection(1..n, S)
  BY <1>1, <1>2 DEF Injection, IsInjective
<1>4. IsFiniteSet(1..n) /\ Cardinality(1..n) = n
  BY <1>1, FS_Interval
<1>5. s \in Surjection(1..n, S)
  BY <1>0, <1>3, <1>4, FS_Injection
<1>6. \A x \in S : \E i \in 1..n : s[i] = x
  BY <1>5 DEF Surjection
<1> QED
  BY <1>0, <1>2, <1>6

=============================================================================
