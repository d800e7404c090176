---------------------------- MODULE RankTheorems ----------------------------
(***************************************************************************)
(* Facts about the elements of a finite set in a strict total order, which *)
(* is what ORDER BY ... LIMIT and a sort that is cut off come down to.     *)
(***************************************************************************)
EXTENDS Integers, FiniteSets, FiniteSetTheorems, TLAPS

\* R, a set of pairs, orders the elements of S.
Orders(R, S) ==
    /\ \A u \in S : <<u, u>> \notin R
    /\ \A u, v, w \in S : <<u, v>> \in R /\ <<v, w>> \in R => <<u, w>> \in R
    /\ \A u, v \in S : u = v \/ <<u, v>> \in R \/ <<v, u>> \in R

\* How many elements come before u.
Rank(R, S, u) == Cardinality({v \in S : <<v, u>> \in R})

LEMMA RankType ==
    ASSUME NEW S, IsFiniteSet(S), NEW R, Orders(R, S), NEW u \in S
    PROVE  Rank(R, S, u) \in 0..Cardinality(S) - 1
<1> DEFINE B == {v \in S : <<v, u>> \in R}
<1>1. B \in SUBSET S /\ u \notin B
  BY DEF Orders
<1>2. IsFiniteSet(B) /\ Cardinality(B) <= Cardinality(S) /\ Cardinality(B) # Cardinality(S)
  BY <1>1, FS_Subset
<1>3. Cardinality(B) \in Nat /\ Cardinality(S) \in Nat
  BY <1>2, FS_CardinalityType
<1> QED
  BY <1>2, <1>3 DEF Rank

LEMMA RankMonotone ==
    ASSUME NEW S, IsFiniteSet(S), NEW R, Orders(R, S), NEW u \in S, NEW v \in S,
           <<u, v>> \in R
    PROVE  Rank(R, S, u) < Rank(R, S, v)
<1> DEFINE A == {x \in S : <<x, u>> \in R}
           B == {x \in S : <<x, v>> \in R}
<1>1. A \in SUBSET B /\ u \in B /\ u \notin A /\ B \in SUBSET S
  BY DEF Orders
<1>2. IsFiniteSet(B)
  BY <1>1, FS_Subset
<1>3. IsFiniteSet(A) /\ Cardinality(A) <= Cardinality(B) /\ Cardinality(A) # Cardinality(B)
  BY <1>1, <1>2, FS_Subset
<1>4. Cardinality(A) \in Nat /\ Cardinality(B) \in Nat
  BY <1>2, <1>3, FS_CardinalityType
<1> QED
  BY <1>3, <1>4 DEF Rank

\* Ranks and order say the same, and no two elements share a rank.
LEMMA RankOrder ==
    ASSUME NEW S, IsFiniteSet(S), NEW R, Orders(R, S), NEW u \in S, NEW v \in S
    PROVE  /\ Rank(R, S, u) < Rank(R, S, v) <=> <<u, v>> \in R
           /\ Rank(R, S, u) = Rank(R, S, v) => u = v
<1>1. Rank(R, S, u) \in Int /\ Rank(R, S, v) \in Int
  BY RankType
<1>2. <<u, v>> \in R => Rank(R, S, u) < Rank(R, S, v)
  BY RankMonotone
<1>3. <<v, u>> \in R => Rank(R, S, v) < Rank(R, S, u)
  BY RankMonotone
<1>4. u = v \/ <<u, v>> \in R \/ <<v, u>> \in R
  BY DEF Orders
<1> QED
  BY <1>1, <1>2, <1>3, <1>4

\* At most k elements have fewer than k before them: LIMIT.
LEMMA FirstBounded ==
    ASSUME NEW S, IsFiniteSet(S), NEW R, Orders(R, S), NEW k \in Nat
    PROVE  /\ IsFiniteSet({u \in S : Rank(R, S, u) < k})
           /\ Cardinality({u \in S : Rank(R, S, u) < k}) <= k
<1> DEFINE F == {u \in S : Rank(R, S, u) < k}
           f == [u \in F |-> Rank(R, S, u)]
<1>1. f \in [F -> 0..k - 1]
  BY RankType
<1>2. \A u, v \in F : f[u] = f[v] => u = v
  BY RankOrder
<1>3. f \in Injection(F, 0..k - 1)
  BY <1>1, <1>2 DEF Injection, IsInjective
<1>4. IsFiniteSet(0..k - 1) /\ Cardinality(0..k - 1) = k
  BY FS_Interval
<1> QED
  BY <1>3, <1>4, FS_Injection

\* Every rank below the size of the set is that of an element.
LEMMA RankOnto ==
    ASSUME NEW S, IsFiniteSet(S), NEW R, Orders(R, S), NEW i \in 0..Cardinality(S) - 1
    PROVE  \E u \in S : Rank(R, S, u) = i
<1> DEFINE n == Cardinality(S)
           f == [u \in S |-> Rank(R, S, u)]
<1>1. n \in Nat
  BY FS_CardinalityType
<1>2. f \in [S -> 0..n - 1]
  BY RankType
<1>3. \A u, v \in S : f[u] = f[v] => u = v
  BY RankOrder
<1>4. f \in Injection(S, 0..n - 1)
  BY <1>2, <1>3 DEF Injection, IsInjective
<1>5. IsFiniteSet(0..n - 1) /\ Cardinality(0..n - 1) = n
  BY <1>1, FS_Interval
<1>6. f \in Surjection(S, 0..n - 1)
  BY <1>4, <1>5, FS_Injection
<1> QED
  BY <1>6 DEF Surjection
=============================================================================
