------------------------------ MODULE NaturalSets ------------------------------
(***************************************************************************)
(* Facts about sets of natural numbers that carry the inductions of the    *)
(* proofs.  An induction is spelled out with a least counterexample.       *)
(***************************************************************************)
EXTENDS Naturals, FiniteSets, FiniteSetTheorems, WellFoundedInduction, TLAPS

\* A set of naturals that is not empty has a least element.
LEMMA LeastElement ==
  ASSUME NEW T, T \subseteq Nat, T # {}
  PROVE  \E x \in T : \A y \in T : x <= y
<1> DEFINE R == {ss \in Nat \X Nat : ss[1] < ss[2]}
<1>1. IsWellFoundedOn(R, Nat)
  BY NatLessThanWellFounded, Zenon DEF OpToRel
<1>2. \E x \in T : \A y \in T : ~ (<<y, x>> \in R)
  <2> HIDE DEF R
  <2> QED BY <1>1, WFMin, Zenon
<1>3. PICK x \in T : \A y \in T : ~ (<<y, x>> \in R)
  BY <1>2, Zenon
<1>4. ASSUME NEW y \in T PROVE x <= y
  <2>1. x \in Nat /\ y \in Nat
    OBVIOUS
  <2>2. <<y, x>> \in R <=> y < x
    BY <2>1
  <2>3. ~ (<<y, x>> \in R)
    BY <1>3, Zenon
  <2> HIDE DEF R
  <2> QED BY <2>1, <2>2, <2>3
<1> HIDE DEF R
<1> QED BY <1>4, Zenon

\* A finite set of naturals that is not empty has a greatest element.
LEMMA GreatestElement ==
  ASSUME NEW S, S \subseteq Nat, S # {}, IsFiniteSet(S)
  PROVE  \E x \in S : \A y \in S : x >= y
<1> DEFINE HasMax(X) == \E x \in X : \A y \in X : x >= y
           T == {n \in Nat : \E X \in SUBSET Nat : /\ X # {} /\ IsFiniteSet(X)
                                                   /\ Cardinality(X) = n /\ ~HasMax(X)}
<1>1. T = {}
  <2>1. SUFFICES ASSUME T # {} PROVE FALSE
    OBVIOUS
  <2>2. PICK n \in T : \A m \in T : n <= m
    <3>1. T \subseteq Nat
      OBVIOUS
    <3> HIDE DEF T
    <3> QED BY <2>1, <3>1, LeastElement
  <2>3. PICK X \in SUBSET Nat : /\ X # {} /\ IsFiniteSet(X)
                                /\ Cardinality(X) = n /\ ~HasMax(X)
    OBVIOUS
  <2>4. PICK x \in X : TRUE
    BY <2>3
  <2> DEFINE Y == X \ {x}
  <2>5. /\ IsFiniteSet(Y) /\ Cardinality(Y) \in Nat /\ Cardinality(Y) < n
        /\ Y \in SUBSET Nat /\ x \in Nat
    <3>1. x \in X /\ IsFiniteSet(X) /\ Cardinality(X) = n /\ X \subseteq Nat
      BY <2>3, <2>4
    <3>2. IsFiniteSet(Y) /\ Cardinality(Y) = Cardinality(X) - 1
      BY <3>1, FS_RemoveElement
    <3>3. Cardinality(Y) \in Nat /\ Cardinality(X) \in Nat
      BY <3>1, <3>2, FS_CardinalityType
    <3> QED BY <3>1, <3>2, <3>3
  <2>6. Y # {}
    <3>1. SUFFICES ASSUME Y = {} PROVE HasMax(X)
      BY <2>3
    <3>2. \A y \in X : y = x
      BY <3>1
    <3>3. x >= x
      BY <2>5
    <3>4. \A y \in X : x >= y
      BY <3>2, <3>3
    <3> QED BY <2>4, <3>4
  <2>7. Cardinality(Y) \notin T
    <3>1. n \in Nat
      OBVIOUS
    <3> HIDE DEF T, Y
    <3> QED BY <2>2, <2>5, <3>1
  <2>8. HasMax(Y)
    BY <2>5, <2>6, <2>7
  <2>9. PICK z \in Y : \A y \in Y : z >= y
    BY <2>8
  <2>10. z \in Nat /\ z \in X
    BY <2>5
  <2>11. CASE z >= x
    <3>1. \A y \in X : z >= y
      BY <2>9, <2>11
    <3> QED BY <2>3, <2>10, <3>1
  <2>12. CASE x >= z
    <3>1. \A y \in X : x >= y
      <4> TAKE y \in X
      <4>1. y \in Nat
        OBVIOUS
      <4> QED BY <2>5, <2>9, <2>10, <2>12, <4>1
    <3> QED BY <2>3, <3>1
  <2> QED BY <2>5, <2>10, <2>11, <2>12
<1>2. Cardinality(S) \in Nat
  BY FS_CardinalityType
<1>3. HasMax(S)
  BY <1>1, <1>2
<1> QED BY <1>3

\* A function can be iterated k times from r.
LEMMA IterationExists ==
  ASSUME NEW S, NEW r \in S, NEW G \in [Nat -> [S -> S]], NEW k \in Nat
  PROVE  \E f \in [0..k -> S] : f[0] = r /\ \A n \in 1..k : f[n] = G[n][f[n - 1]]
<1> DEFINE Good(m, f) == f[0] = r /\ \A n \in 1..m : f[n] = G[n][f[n - 1]]
           T == {m \in Nat : ~ \E f \in [0..m -> S] : Good(m, f)}
<1>1. SUFFICES ASSUME T # {} PROVE FALSE
  BY DEF Good
<1>2. PICK m \in T : \A y \in T : m <= y
  BY <1>1, LeastElement
<1>3. m # 0
  <2>1. [n \in 0..0 |-> r] \in [0..0 -> S] /\ Good(0, [n \in 0..0 |-> r])
    OBVIOUS
  <2> QED BY <2>1, <1>2
<1>4. m - 1 \in Nat /\ m - 1 \notin T
  <2>1. m \in Nat /\ m - 1 \in Nat /\ ~ (m <= m - 1)
    BY <1>3
  <2> QED BY <2>1, <1>2
<1>5. PICK f \in [0..(m - 1) -> S] : Good(m - 1, f)
  BY <1>4
<1> DEFINE g == [n \in 0..m |-> IF n = m THEN G[m][f[m - 1]] ELSE f[n]]
<1>6. g \in [0..m -> S]
  BY <1>3, <1>4
<1>7. Good(m, g)
  <2>1. g[0] = r
    BY <1>3, <1>5
  <2>2. ASSUME NEW n \in 1..m PROVE g[n] = G[n][g[n - 1]]
    <3>1. g[n - 1] = f[n - 1]
      BY <1>4
    <3>2. CASE n = m
      BY <3>1, <3>2
    <3>3. CASE n # m
      <4>1. n \in 1..(m - 1)
        BY <3>3
      <4> QED BY <4>1, <3>1, <1>5
    <3> QED BY <3>2, <3>3
  <2> QED BY <2>1, <2>2
<1> QED BY <1>6, <1>7, <1>2
=============================================================================
