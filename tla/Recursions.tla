----------------------------- MODULE Recursions -----------------------------
(***************************************************************************)
(* Recursive functions over the positions of a file: they exist.  Proofs    *)
(* that walk along such a function look at the first position where it      *)
(* would go wrong (Least).                                                  *)
(***************************************************************************)
EXTENDS Integers, WellFoundedInduction, TLAPS

\* A nonempty set of naturals has a least one.
LEMMA Least ==
  ASSUME NEW T \in SUBSET Nat, T # {}
  PROVE  \E x \in T : \A y \in T : x <= y
<1>1. PICK u \in T : \A v \in T : ~(<<v, u>> \in OpToRel(<, Nat))
  BY NatLessThanWellFounded, WFMin, Zenon
<1>2. \A v \in T : ~(v < u)
  BY <1>1 DEF OpToRel
<1>3. \A v \in T : u <= v
  BY <1>2
<1> QED
  BY <1>3

\* N steps of f from v.
Iterates(g, f, v, N) == g[0] = v /\ \A i \in 1 .. N : g[i] = f[<<i, g[i - 1]>>]

\* A function that is defined from its value one step before exists.
LEMMA Recursion ==
  ASSUME NEW V, NEW N \in Nat, NEW v \in V, NEW f \in [(1 .. N) \X V -> V]
  PROVE  \E g \in [0 .. N -> V] : Iterates(g, f, v, N)
<1> DEFINE Has(n) == \E g \in [0 .. n -> V] : Iterates(g, f, v, n)
           T == {n \in 0 .. N : ~Has(n)}
<1> HIDE DEF Has
<1>1. SUFFICES ASSUME T # {} PROVE FALSE
  <2>1. N \in 0 .. N
    OBVIOUS
  <2>2. T = {} => Has(N)
    BY <2>1
  <2> QED
    BY <2>2 DEF Has
<1>2. T \in SUBSET Nat
  OBVIOUS
<1>3. PICK m \in T : \A k \in T : m <= k
  <2> HIDE DEF T
  <2> QED BY <1>1, <1>2, Least
<1>4. Has(0)
  <2> DEFINE g == [i \in 0 .. 0 |-> v]
  <2>1. g \in [0 .. 0 -> V]
    OBVIOUS
  <2>2. Iterates(g, f, v, 0)
    BY DEF Iterates
  <2> QED
    BY <2>1, <2>2 DEF Has
<1>5. m \in 1 .. N
  BY <1>3, <1>4
<1>6. Has(m - 1)
  <2>1. m - 1 \in 0 .. N /\ ~(m <= m - 1)
    BY <1>5
  <2> QED
    BY <1>3, <2>1
<1>7. PICK h \in [0 .. (m - 1) -> V] : Iterates(h, f, v, m - 1)
  BY <1>6 DEF Has
<1> DEFINE g == [i \in 0 .. m |-> IF i = m THEN f[<<m, h[m - 1]>>] ELSE h[i]]
<1>8. h[m - 1] \in V
  BY <1>5, <1>7
<1>9. f[<<m, h[m - 1]>>] \in V
  BY <1>5, <1>8
<1>10. g \in [0 .. m -> V]
  BY <1>5, <1>7, <1>9
<1>11. g[0] = v
  BY <1>5, <1>7 DEF Iterates
<1>12. ASSUME NEW i \in 1 .. m PROVE g[i] = f[<<i, g[i - 1]>>]
  <2>1. g[i - 1] = h[i - 1]
    BY <1>5
  <2>2. CASE i = m
    <3>1. g[m] = f[<<m, h[m - 1]>>]
      BY <1>5
    <3> QED
      BY <2>1, <2>2, <3>1
  <2>3. CASE i # m
    <3>1. i \in 1 .. (m - 1)
      BY <1>5, <2>3
    <3>2. g[i] = h[i]
      BY <1>5, <3>1
    <3> QED
      BY <1>7, <2>1, <3>1, <3>2 DEF Iterates
  <2> QED
    BY <2>2, <2>3
<1>13. Has(m)
  <2>1. Iterates(g, f, v, m)
    <3> HIDE DEF g
    <3> QED BY <1>11, <1>12 DEF Iterates
  <2> QED
    BY <1>10, <2>1 DEF Has
<1> QED
  BY <1>3, <1>13
=============================================================================
