---------------------------- MODULE TotalsProofs ----------------------------
(***************************************************************************)
(* The lemmas about data that the other proofs share.                      *)
(*                                                                         *)
(* Sums over a finite set: they are natural numbers, and changing the      *)
(* function at one point changes the sum by the difference.                *)
(*                                                                         *)
(* Induction on the natural numbers, in terms of a set and not of a        *)
(* formula, from the well-foundedness of <; and by it the existence of a   *)
(* function that is defined step by step.  A loop that is written as a     *)
(* recursive function is such a function.                                  *)
(***************************************************************************)
EXTENDS Totals, Integers, FiniteSetTheorems, FunctionTheorems, WellFoundedInduction, TLAPS

-----------------------------------------------------------------------------
(* Sums. *)

\* The units of one element.
Pile(x, n) == {x} \X (1 .. n)

\* The units of one element are as many as its value.
LEMMA PileSize ==
  ASSUME NEW x, NEW n \in Nat
  PROVE  IsFiniteSet(Pile(x, n)) /\ Cardinality(Pile(x, n)) = n
<1>1. IsFiniteSet({x}) /\ Cardinality({x}) = 1
  BY FS_Singleton
<1>2. IsFiniteSet(1 .. n) /\ Cardinality(1 .. n) = n
  BY FS_Interval
<1>3. IsFiniteSet({x} \X (1 .. n)) /\ Cardinality({x} \X (1 .. n)) = 1 * n
  BY <1>1, <1>2, FS_Product
<1> QED BY <1>3 DEF Pile

\* A function with natural values on a finite set has a natural sum.
LEMMA TotalIsNat ==
  ASSUME NEW S, IsFiniteSet(S), NEW f \in [S -> Nat]
  PROVE  IsFiniteSet(Units(f)) /\ Total(f) \in Nat
<1> DEFINE piles == [x \in S |-> Pile(x, f[x])]
           Piles == { Pile(x, f[x]) : x \in S }
<1>1. piles \in Surjection(S, Piles)
  BY DEF Surjection
<1>2. IsFiniteSet(Piles)
  BY <1>1, FS_Surjection
<1>3. \A P \in Piles : IsFiniteSet(P)
  BY PileSize
<1>4. Units(f) = UNION Piles
  BY DEF Units, Pile
<1>5. IsFiniteSet(Units(f))
  BY <1>2, <1>3, <1>4, FS_UNION
<1> QED BY <1>5, FS_CardinalityType DEF Total

\* A sum is what one element contributes and the sum without it.
LEMMA TotalSplit ==
  ASSUME NEW S, IsFiniteSet(S), NEW f \in [S -> Nat], NEW x \in S
  PROVE  Total(f) = Total([f EXCEPT ![x] = 0]) + f[x]
<1> DEFINE g == [f EXCEPT ![x] = 0]
<1>1. g \in [S -> Nat]
  OBVIOUS
<1>2. IsFiniteSet(Units(g)) /\ Total(g) \in Nat
  BY <1>1, TotalIsNat
<1>3. IsFiniteSet(Pile(x, f[x])) /\ Cardinality(Pile(x, f[x])) = f[x]
  BY PileSize
<1>4. Units(f) = Units(g) \cup Pile(x, f[x])
  BY DEF Units, Pile
<1>5. Units(g) \cap Pile(x, f[x]) = {}
  BY DEF Units, Pile
<1>6. Cardinality(Units(f)) = Cardinality(Units(g)) + f[x] - Cardinality({})
  BY <1>2, <1>3, <1>4, <1>5, FS_Union
<1> QED BY <1>2, <1>6, FS_EmptySet DEF Total

\* Changing the function at one element changes the sum by the difference.
LEMMA TotalExcept ==
  ASSUME NEW S, IsFiniteSet(S), NEW f \in [S -> Nat], NEW x \in S, NEW n \in Nat
  PROVE  /\ Total([f EXCEPT ![x] = n]) = Total(f) - f[x] + n
         /\ f[x] <= Total(f)
<1> DEFINE g == [f EXCEPT ![x] = n]
           h == [f EXCEPT ![x] = 0]
<1>1. g \in [S -> Nat] /\ h \in [S -> Nat]
  OBVIOUS
<1>2. Total(f) = Total(h) + f[x]
  BY TotalSplit
<1>3. [g EXCEPT ![x] = 0] = h
  OBVIOUS
<1>4. Total(g) = Total(h) + n
  BY <1>1, <1>3, TotalSplit
<1>5. Total(h) \in Nat
  BY <1>1, TotalIsNat
<1> QED BY <1>2, <1>4, <1>5

\* The sum of zeros is zero.
LEMMA TotalZero ==
  ASSUME NEW S
  PROVE  Total([x \in S |-> 0]) = 0
<1>1. Units([x \in S |-> 0]) = {}
  BY DEF Units
<1> QED BY <1>1, FS_EmptySet DEF Total

\* The sum of larger values is larger.
LEMMA TotalMonotone ==
  ASSUME NEW S, IsFiniteSet(S), NEW f \in [S -> Nat], NEW g \in [S -> Nat],
         \A x \in S : f[x] <= g[x]
  PROVE  Total(f) <= Total(g)
<1>1. Units(f) \subseteq Units(g)
  BY DEF Units
<1>2. IsFiniteSet(Units(g))
  BY TotalIsNat
<1> QED BY <1>1, <1>2, FS_Subset DEF Total

\* A sum does not depend on what the elements are called.
LEMMA TotalRenamed ==
  ASSUME NEW S, IsFiniteSet(S), NEW T, NEW f \in [S -> Nat], NEW g \in [T -> Nat],
         NEW b \in Bijection(S, T), \A x \in S : f[x] = g[b[x]]
  PROVE  Total(f) = Total(g)
<1> DEFINE h == [u \in Units(f) |-> <<b[u[1]], u[2]>>]
<1>1. /\ b \in [S -> T]
      /\ \A x, y \in S : b[x] = b[y] => x = y
      /\ \A t \in T : \E x \in S : b[x] = t
  BY Fun_BijectionProperties
<1>2. /\ \A u \in Units(f) : u[1] \in S /\ u[2] \in 1 .. f[u[1]] /\ u = <<u[1], u[2]>>
      /\ \A x \in S : \A k \in 1 .. f[x] : <<x, k>> \in Units(f)
      /\ \A v \in Units(g) : v[1] \in T /\ v[2] \in 1 .. g[v[1]] /\ v = <<v[1], v[2]>>
      /\ \A t \in T : \A k \in 1 .. g[t] : <<t, k>> \in Units(g)
  BY DEF Units
<1>3. h \in [Units(f) -> Units(g)]
  <2>1. ASSUME NEW u \in Units(f) PROVE <<b[u[1]], u[2]>> \in Units(g)
    <3>1. b[u[1]] \in T /\ u[2] \in 1 .. g[b[u[1]]]
      BY <1>1, <1>2
    <3> QED BY <1>2, <3>1
  <2> QED BY <2>1
<1>4. ASSUME NEW u \in Units(f), NEW w \in Units(f), h[u] = h[w]
      PROVE  u = w
  <2>1. b[u[1]] = b[w[1]] /\ u[2] = w[2]
    BY <1>4
  <2>2. u[1] = w[1]
    BY <1>1, <1>2, <2>1
  <2> QED BY <1>2, <2>1, <2>2
<1>5. ASSUME NEW v \in Units(g)
      PROVE  \E u \in Units(f) : h[u] = v
  <2>1. PICK x \in S : b[x] = v[1]
    BY <1>1, <1>2
  <2>2. <<x, v[2]>> \in Units(f)
    BY <1>2, <2>1
  <2>3. h[<<x, v[2]>>] = <<v[1], v[2]>>
    BY <2>1, <2>2
  <2> QED BY <1>2, <2>2, <2>3
<1>6. h \in Bijection(Units(f), Units(g))
  <2> HIDE DEF h
  <2> QED BY <1>3, <1>4, <1>5, Fun_IsBij
<1>7. ExistsBijection(Units(f), Units(g))
  BY <1>6, Fun_ExistsBij
<1> QED BY <1>7, TotalIsNat, FS_Bijection DEF Total
-----------------------------------------------------------------------------
(* Induction and recursion on the natural numbers. *)

\* A set that has 0, and with every number the next one, has them all.
LEMMA Induction ==
  ASSUME NEW T, 0 \in T, \A n \in Nat : n \in T => n + 1 \in T
  PROVE  Nat \subseteq T
<1> SUFFICES ASSUME Nat \ T # {} PROVE FALSE
  OBVIOUS
<1> DEFINE Rest == Nat \ T
<1>1. PICK x \in Rest : \A y \in Rest : ~ (<<y, x>> \in OpToRel(<, Nat))
  <2>1. Rest \subseteq Nat /\ Rest # {}
    OBVIOUS
  <2> HIDE DEF Rest
  <2> QED BY <2>1, WFMin, NatLessThanWellFounded, Zenon
<1>2. x \in Nat /\ x # 0 /\ x \notin T
  BY <1>1
<1>3. x - 1 \in Nat /\ x - 1 < x
  BY <1>2
<1>4. <<x - 1, x>> \in OpToRel(<, Nat)
  BY <1>2, <1>3 DEF OpToRel
<1>5. x - 1 \in T
  BY <1>1, <1>3, <1>4
<1> QED BY <1>2, <1>3, <1>5

\* What holds of 0, and of every number up to n if it holds of the one before,
\* holds of them all up to n.
LEMMA BoundedInduction ==
  ASSUME NEW n \in Nat, NEW T, 0 \in T, \A k \in 1 .. n : k - 1 \in T => k \in T
  PROVE  0 .. n \subseteq T
<1> DEFINE U == T \cup { k \in Nat : k > n }
<1>1. 0 \in U
  OBVIOUS
<1>2. \A k \in Nat : k \in U => k + 1 \in U
  <2> SUFFICES ASSUME NEW k \in Nat, k \in U PROVE k + 1 \in U
    OBVIOUS
  <2>1. CASE k + 1 > n
    BY <2>1
  <2>2. CASE k + 1 <= n
    <3>1. k \in T
      BY <2>2
    <3>2. k + 1 \in 1 .. n /\ (k + 1) - 1 = k
      BY <2>2
    <3> QED BY <3>1, <3>2
  <2> QED BY <2>1, <2>2
<1>3. Nat \subseteq U
  <2> HIDE DEF U
  <2> QED BY <1>1, <1>2, Induction
<1> QED BY <1>3

\* g has the values that begin with d and go on by the given steps.
Runs(g, S, d, n, step) ==
  /\ g \in [0 .. n -> S]
  /\ g[0] = d
  /\ \A k \in 1 .. n : g[k] = step[<<k, g[k - 1]>>]

\* There is such a function.
LEMMA Recursion ==
  ASSUME NEW S, NEW d \in S, NEW n \in Nat, NEW step \in [(1 .. n) \X S -> S]
  PROVE  \E g : Runs(g, S, d, n, step)
<1> DEFINE T == { m \in 0 .. n : \E g : Runs(g, S, d, m, step) }
<1>1. 0 \in T
  <2>1. Runs([k \in 0 .. 0 |-> d], S, d, 0, step)
    BY DEF Runs
  <2> QED BY <2>1
<1>2. ASSUME NEW m \in 1 .. n, m - 1 \in T
      PROVE  m \in T
  <2>1. PICK g : Runs(g, S, d, m - 1, step)
    BY <1>2
  <2> DEFINE h == [k \in 0 .. m |-> IF k = m THEN step[<<m, g[m - 1]>>] ELSE g[k]]
  <2>2. m - 1 \in 0 .. m - 1 /\ g[m - 1] \in S
    BY <2>1 DEF Runs
  <2>3. step[<<m, g[m - 1]>>] \in S
    BY <2>2
  <2>4. h \in [0 .. m -> S] /\ h[0] = d
    BY <2>1, <2>3 DEF Runs
  <2>5. ASSUME NEW k \in 1 .. m
        PROVE  h[k] = step[<<k, h[k - 1]>>]
    <3>1. h[k - 1] = g[k - 1]
      OBVIOUS
    <3>2. CASE k = m
      <4>1. h[m] = step[<<m, g[m - 1]>>]
        OBVIOUS
      <4> QED BY <3>1, <3>2, <4>1, Zenon
    <3>3. CASE k # m
      <4>1. k \in 1 .. m - 1
        BY <3>3
      <4>2. g[k] = step[<<k, g[k - 1]>>]
        BY <2>1, <4>1 DEF Runs
      <4>3. h[k] = g[k]
        BY <3>3
      <4> QED BY <3>1, <4>2, <4>3, Zenon
    <3> QED BY <3>2, <3>3
  <2>6. Runs(h, S, d, m, step)
    BY <2>4, <2>5 DEF Runs
  <2> QED BY <2>6
<1>3. 0 .. n \subseteq T
  <2> HIDE DEF T
  <2> QED BY <1>1, <1>2, BoundedInduction
<1>4. n \in T
  BY <1>3
<1> QED BY <1>4
=============================================================================
