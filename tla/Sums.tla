--------------------------------- MODULE Sums ---------------------------------
(***************************************************************************)
(* Sums over finite sets, as the modules of the contracts and of the       *)
(* payment pipeline take them (MapThenSumSet): the sum of nothing, of a    *)
(* set and one more element, and what follows from these.  The provers     *)
(* cannot instantiate the library's induction rule, which takes an         *)
(* operator; the induction here is about a set of subsets.                 *)
(***************************************************************************)
EXTENDS Naturals, FiniteSetsExt, FiniteSetTheorems, WellFoundedInduction, TLAPS

\* The sum of f over S.
Total(f, S) == MapThenSumSet(LAMBDA x : f[x], S)

\* g gives every subset of S the sum of f over it, one element at a time, the
\* element being the one that MapThenFoldSet takes.
Pick(T) == CHOOSE x \in T : TRUE
Adds(g, f, S) == g = [T \in SUBSET S |-> IF T = {} THEN 0 ELSE f[Pick(T)] + g[T \ {Pick(T)}]]

-----------------------------------------------------------------------------
\* Induction over the subsets of a finite set, with a set of subsets in the
\* place of a predicate: whatever contains T as soon as it contains the smaller
\* subsets of T contains all subsets.
LEMMA SubsetInduction ==
  ASSUME NEW S, IsFiniteSet(S), NEW G, G \subseteq SUBSET S,
         \A T \in SUBSET S : (\A U \in SUBSET T : U # T => U \in G) => T \in G
  PROVE  G = SUBSET S
<1> DEFINE B == (SUBSET S) \ G
<1> SUFFICES ASSUME B # {} PROVE FALSE
  OBVIOUS
<1> HIDE DEF B
<1>1. FiniteSubsetsOf(S) = SUBSET S
  BY FS_FiniteSubsetsOfFinite
<1>2. B \subseteq FiniteSubsetsOf(S)
  BY <1>1 DEF B
<1>3. IsWellFoundedOn(StrictSubsetOrdering(S), FiniteSubsetsOf(S))
  BY FS_StrictSubsetOrderingWellFounded
<1>4. PICK T \in B : \A U \in B : ~(<<U, T>> \in StrictSubsetOrdering(S))
  BY <1>2, <1>3, WFMin
<1>5. \A U \in SUBSET T : U # T => U \in G
  BY <1>4 DEF B, StrictSubsetOrdering
<1>6. T \in SUBSET S /\ T \notin G
  BY <1>4 DEF B
<1> QED
  BY <1>5, <1>6

\* The element taken out of a set is one of its elements.
LEMMA PickIn == \A T : T # {} => Pick(T) \in T
BY DEF Pick

\* Two ways of adding agree on every set on which the summands do, whatever the
\* sets they were made for.
LEMMA AddsAgree ==
  ASSUME NEW f, NEW e, NEW g, NEW h, NEW S, NEW R, Adds(g, f, S), Adds(h, e, R),
         NEW T, IsFiniteSet(T), T \subseteq S, T \subseteq R, \A x \in T : f[x] = e[x]
  PROVE  g[T] = h[T]
<1> DEFINE G == {U \in SUBSET T : g[U] = h[U]}
<1> SUFFICES G = SUBSET T
  OBVIOUS
<1>1. ASSUME NEW U \in SUBSET T, \A V \in SUBSET U : V # U => V \in G
      PROVE  U \in G
  <2>1. U \in SUBSET S /\ U \in SUBSET R
    OBVIOUS
  <2>2. g[U] = IF U = {} THEN 0 ELSE f[Pick(U)] + g[U \ {Pick(U)}]
    BY <2>1 DEF Adds
  <2>3. h[U] = IF U = {} THEN 0 ELSE e[Pick(U)] + h[U \ {Pick(U)}]
    BY <2>1 DEF Adds
  <2>4. CASE U = {}
    BY <2>2, <2>3, <2>4
  <2>5. CASE U # {}
    <3>1. Pick(U) \in U
      BY <2>5, PickIn
    <3>2. U \ {Pick(U)} \in G
      BY <1>1, <3>1
    <3>3. f[Pick(U)] = e[Pick(U)]
      BY <3>1
    <3> QED
      BY <2>2, <2>3, <2>5, <3>2, <3>3
  <2> QED
    BY <2>4, <2>5
<1> HIDE DEF G
<1>2. G \subseteq SUBSET T
  BY DEF G
<1> QED
  BY <1>1, <1>2, SubsetInduction

\* There is a way of adding up f over the subsets of any finite set.
LEMMA AddsExists ==
  ASSUME NEW f, NEW S, IsFiniteSet(S)
  PROVE  \E g : Adds(g, f, S)
<1> DEFINE G == {T \in SUBSET S : \E g : Adds(g, f, T)}
<1> SUFFICES G = SUBSET S
  OBVIOUS
<1>1. ASSUME NEW T \in SUBSET S, \A U \in SUBSET T : U # T => U \in G
      PROVE  T \in G
  <2> DEFINE Sol(U) == CHOOSE g : Adds(g, f, U)
  <2> DEFINE Rest(U) == U \ {Pick(U)}
  <2> DEFINE Val(U) == IF U = {} THEN 0 ELSE f[Pick(U)] + Sol(Rest(U))[Rest(U)]
  <2> DEFINE g == [U \in SUBSET T |-> Val(U)]
  <2>1. \A U \in SUBSET T : U # T => Adds(Sol(U), f, U)
    <3> SUFFICES ASSUME NEW U \in SUBSET T, U # T PROVE Adds(Sol(U), f, U)
      OBVIOUS
    <3>1. \E h : Adds(h, f, U)
      BY <1>1
    <3> QED
      BY <3>1
  <2>2. \A U \in SUBSET T : U # {} => Rest(U) \in SUBSET T /\ Rest(U) # T /\ Rest(U) \in SUBSET U
    BY PickIn
  <2>3. ASSUME NEW U \in SUBSET T, U # T
        PROVE  Sol(U)[U] = Val(U)
    <3> HIDE DEF Sol
    <3>1. Adds(Sol(U), f, U)
      BY <2>1, <2>3
    <3>2. Sol(U)[U] = IF U = {} THEN 0 ELSE f[Pick(U)] + Sol(U)[Rest(U)]
      BY <3>1 DEF Adds
    <3>3. CASE U = {}
      BY <3>2, <3>3
    <3>4. CASE U # {}
      <4>1. Adds(Sol(Rest(U)), f, Rest(U))
        BY <2>1, <2>2, <3>4
      <4>2. IsFiniteSet(Rest(U))
        BY <2>2, <3>4, FS_Subset
      <4> DEFINE R == Rest(U)
      <4>3. R \subseteq U
        BY <2>2, <3>4
      <4> HIDE DEF R
      <4>4. Sol(U)[R] = Sol(R)[R]
        BY <3>1, <4>1, <4>2, <4>3, AddsAgree DEF R
      <4> QED
        BY <3>2, <3>4, <4>4 DEF R
    <3> QED
      BY <3>3, <3>4
  <2>4. \A U \in SUBSET T : g[U] = IF U = {} THEN 0 ELSE f[Pick(U)] + g[Rest(U)]
    <3> SUFFICES ASSUME NEW U \in SUBSET T
                 PROVE  g[U] = IF U = {} THEN 0 ELSE f[Pick(U)] + g[Rest(U)]
      OBVIOUS
    <3>1. g[U] = Val(U)
      OBVIOUS
    <3>2. CASE U = {}
      BY <3>1, <3>2
    <3>3. CASE U # {}
      <4> DEFINE R == Rest(U)
      <4>1. R \in SUBSET T /\ R # T
        BY <2>2, <3>3
      <4>2. Val(U) = f[Pick(U)] + Sol(R)[R]
        BY <3>3
      <4> HIDE DEF R
      <4>3. Sol(R)[R] = Val(R)
        BY <2>3, <4>1
      <4> HIDE DEF Val, Sol
      <4>4. g[R] = Val(R)
        BY <4>1
      <4> QED
        BY <3>1, <3>3, <4>2, <4>3, <4>4 DEF R
    <3> QED
      BY <3>2, <3>3
  <2>5. Adds(g, f, T)
    <3> DEFINE b(U) == IF U = {} THEN 0 ELSE f[Pick(U)] + g[U \ {Pick(U)}]
    <3>1. \A U \in SUBSET T : g[U] = b(U)
      BY <2>4
    <3>2. g = [U \in SUBSET T |-> g[U]]
      OBVIOUS
    <3> HIDE DEF g, b
    <3>3. g = [U \in SUBSET T |-> b(U)]
      BY <3>1, <3>2
    <3> QED
      BY <3>3 DEF Adds, b
  <2> QED
    BY <2>5
<1> HIDE DEF G
<1>2. G \subseteq SUBSET S
  BY DEF G
<1> QED
  BY <1>1, <1>2, SubsetInduction

\* The fold that MapThenSumSet is defined by is such a way of adding.
LEMMA TotalAdds ==
  ASSUME NEW f, NEW S, IsFiniteSet(S)
  PROVE  \E g : Adds(g, f, S) /\ Total(f, S) = g[S]
<1> DEFINE g == CHOOSE h : Adds(h, f, S)
<1>1. Adds(g, f, S)
  BY AddsExists
<1>2. Total(f, S) = g[S]
  BY DEF Total, MapThenSumSet, MapThenFoldSet, Adds, Pick
<1> QED
  BY <1>1, <1>2

\* A sum takes the chosen element first.
LEMMA TotalStep ==
  ASSUME NEW f, NEW S, IsFiniteSet(S)
  PROVE  Total(f, S) = IF S = {} THEN 0 ELSE f[Pick(S)] + Total(f, S \ {Pick(S)})
<1>1. PICK g : Adds(g, f, S) /\ Total(f, S) = g[S]
  BY TotalAdds
<1>2. g[S] = IF S = {} THEN 0 ELSE f[Pick(S)] + g[S \ {Pick(S)}]
  BY <1>1 DEF Adds
<1> DEFINE R == S \ {Pick(S)}
<1>3. IsFiniteSet(R) /\ R \subseteq S
  BY FS_Subset
<1> HIDE DEF R
<1>4. PICK h : Adds(h, f, R) /\ Total(f, R) = h[R]
  BY <1>3, TotalAdds
<1>5. g[R] = h[R]
  BY <1>1, <1>3, <1>4, AddsAgree
<1> QED
  BY <1>1, <1>2, <1>4, <1>5 DEF R

\* The sum of nothing is zero.
THEOREM TotalEmpty == \A f : Total(f, {}) = 0
<1> SUFFICES ASSUME NEW f PROVE Total(f, {}) = 0
  OBVIOUS
<1> QED
  BY TotalStep, FS_EmptySet

\* A sum depends on nothing but what the summands are on the set.
THEOREM TotalCongruence ==
  ASSUME NEW f, NEW e, NEW S, IsFiniteSet(S), \A x \in S : f[x] = e[x]
  PROVE  Total(f, S) = Total(e, S)
<1>1. PICK g : Adds(g, f, S) /\ Total(f, S) = g[S]
  BY TotalAdds
<1>2. PICK h : Adds(h, e, S) /\ Total(e, S) = h[S]
  BY TotalAdds
<1> QED
  BY <1>1, <1>2, AddsAgree

\* A sum of natural numbers is a natural number.
THEOREM TotalNat ==
  ASSUME NEW f, NEW S, IsFiniteSet(S), \A x \in S : f[x] \in Nat
  PROVE  Total(f, S) \in Nat
<1> DEFINE G == {T \in SUBSET S : Total(f, T) \in Nat}
<1> SUFFICES G = SUBSET S
  OBVIOUS
<1>1. ASSUME NEW T \in SUBSET S, \A U \in SUBSET T : U # T => U \in G
      PROVE  T \in G
  <2>1. IsFiniteSet(T)
    BY FS_Subset
  <2>2. Total(f, T) = IF T = {} THEN 0 ELSE f[Pick(T)] + Total(f, T \ {Pick(T)})
    BY <2>1, TotalStep
  <2>3. T # {} => Pick(T) \in T /\ Total(f, T \ {Pick(T)}) \in Nat
    BY <1>1, PickIn
  <2> HIDE DEF G
  <2>4. Total(f, T) \in Nat
    BY <2>2, <2>3
  <2> QED
    BY <2>4 DEF G
<1> HIDE DEF G
<1>2. G \subseteq SUBSET S
  BY DEF G
<1> QED
  BY <1>1, <1>2, SubsetInduction

\* Any element may be taken out of a sum, not the chosen one only.
THEOREM TotalRemove ==
  ASSUME NEW f, NEW S, IsFiniteSet(S), \A x \in S : f[x] \in Nat, NEW a \in S
  PROVE  Total(f, S) = f[a] + Total(f, S \ {a})
<1> DEFINE G == {T \in SUBSET S : \A x \in T : Total(f, T) = f[x] + Total(f, T \ {x})}
<1> SUFFICES G = SUBSET S
  OBVIOUS
<1>1. ASSUME NEW T \in SUBSET S, \A U \in SUBSET T : U # T => U \in G
      PROVE  T \in G
  <2> SUFFICES ASSUME NEW x \in T PROVE Total(f, T) = f[x] + Total(f, T \ {x})
    OBVIOUS
  <2> DEFINE p == Pick(T)
  <2>1. p \in T
    BY PickIn
  <2>2. T \ {p} \in G /\ T \ {p} \in SUBSET S /\ T \ {x} \in G /\ T \ {x} \in SUBSET S
    BY <1>1, <2>1
  <2>3. IsFiniteSet(T)
    BY FS_Subset
  <2>4. Total(f, T) = f[p] + Total(f, T \ {p})
    BY <2>3, TotalStep
  <2>5. CASE p = x
    BY <2>4, <2>5
  <2>6. CASE p # x
    <3>1. x \in T \ {p} /\ p \in T \ {x}
      BY <2>1, <2>6
    <3>2. Total(f, T \ {p}) = f[x] + Total(f, (T \ {p}) \ {x})
      BY <2>2, <3>1
    <3>3. Total(f, T \ {x}) = f[p] + Total(f, (T \ {x}) \ {p})
      BY <2>2, <3>1
    <3>4. (T \ {p}) \ {x} = (T \ {x}) \ {p}
      OBVIOUS
    <3> DEFINE Q == (T \ {x}) \ {p}
    <3>5. IsFiniteSet(Q) /\ Q \subseteq S
      BY <2>3, FS_Subset
    <3> HIDE DEF p, Q
    <3>6. Total(f, Q) \in Nat
      BY <3>5, TotalNat
    <3>7. f[x] \in Nat /\ f[p] \in Nat
      BY <2>1
    <3>8. Total(f, T \ {p}) = f[x] + Total(f, Q) /\ Total(f, T \ {x}) = f[p] + Total(f, Q)
      BY <3>2, <3>3, <3>4 DEF Q
    <3> QED
      BY <2>4, <3>6, <3>7, <3>8
  <2> QED
    BY <2>5, <2>6
<1> HIDE DEF G
<1>2. G \subseteq SUBSET S
  BY DEF G
<1>3. G = SUBSET S
  BY <1>1, <1>2, SubsetInduction
<1> QED
  BY <1>3

\* One more element adds its summand.
THEOREM TotalAdd ==
  ASSUME NEW f, NEW S, IsFiniteSet(S), \A x \in S : f[x] \in Nat, NEW a, a \notin S, f[a] \in Nat
  PROVE  Total(f, S \cup {a}) = f[a] + Total(f, S)
<1> DEFINE T == S \cup {a}
<1>1. IsFiniteSet(T) /\ a \in T /\ \A x \in T : f[x] \in Nat
  BY FS_AddElement
<1>2. T \ {a} = S
  OBVIOUS
<1> HIDE DEF T
<1>3. Total(f, T) = f[a] + Total(f, T \ {a})
  BY <1>1, TotalRemove
<1> QED
  BY <1>2, <1>3 DEF T

\* Changing one summand changes the sum by as much.
THEOREM TotalExcept ==
  ASSUME NEW f, NEW e, NEW S, IsFiniteSet(S), NEW a \in S,
         \A x \in S : f[x] \in Nat /\ e[x] \in Nat,
         \A x \in S \ {a} : e[x] = f[x]
  PROVE  Total(e, S) + f[a] = Total(f, S) + e[a]
<1> DEFINE R == S \ {a}
<1>1. IsFiniteSet(R)
  BY FS_Subset
<1> HIDE DEF R
<1>2. Total(f, R) = Total(e, R)
  BY <1>1, TotalCongruence DEF R
<1>3. Total(f, S) = f[a] + Total(f, R) /\ Total(e, S) = e[a] + Total(e, R)
  BY TotalRemove DEF R
<1>4. Total(f, R) \in Nat /\ f[a] \in Nat /\ e[a] \in Nat
  BY <1>1, TotalNat DEF R
<1> QED
  BY <1>2, <1>3, <1>4

\* A sum over a part is at most the sum over the whole, and at most that of
\* summands none of which is smaller.
THEOREM TotalMonotone ==
  ASSUME NEW f, NEW e, NEW S, IsFiniteSet(S), NEW R, R \subseteq S,
         \A x \in S : f[x] \in Nat,
         \A x \in R : e[x] \in Nat /\ e[x] <= f[x]
  PROVE  Total(e, R) <= Total(f, S)
<1> DEFINE G == {T \in SUBSET S : Total(e, R \cap T) <= Total(f, T)}
<1> SUFFICES G = SUBSET S
  <2>1. R \cap S = R
    OBVIOUS
  <2> QED
    BY <2>1
<1>1. ASSUME NEW T \in SUBSET S, \A U \in SUBSET T : U # T => U \in G
      PROVE  T \in G
  <2> DEFINE p == Pick(T)
  <2> DEFINE Q == T \ {p}
  <2>1. IsFiniteSet(T) /\ IsFiniteSet(R \cap T) /\ IsFiniteSet(Q) /\ IsFiniteSet(R \cap Q)
    BY FS_Subset
  <2>2. CASE T = {}
    <3>1. R \cap T = {}
      BY <2>2
    <3>2. Total(e, R \cap T) = 0 /\ Total(f, T) = 0
      BY <2>2, <3>1, TotalEmpty
    <3> QED
      BY <3>2
  <2>3. CASE T # {}
    <3>1. p \in T /\ Q \in G /\ Q \subseteq S
      BY <1>1, <2>3, PickIn
    <3> HIDE DEF p
    <3>2. Total(f, T) = f[p] + Total(f, Q)
      BY <2>1, <3>1, TotalRemove
    <3>3. Total(e, R \cap T) = IF p \in R THEN e[p] + Total(e, R \cap Q) ELSE Total(e, R \cap Q)
      <4>1. CASE p \in R
        <5>1. (R \cap T) \ {p} = R \cap Q /\ p \in R \cap T
          BY <3>1, <4>1
        <5> QED
          BY <2>1, <4>1, <5>1, TotalRemove
      <4>2. CASE p \notin R
        BY <4>2
      <4> QED
        BY <4>1, <4>2
    <3>4. Total(f, Q) \in Nat /\ Total(e, R \cap Q) \in Nat /\ f[p] \in Nat
      BY <2>1, <3>1, TotalNat
    <3>5. Total(e, R \cap Q) <= Total(f, Q)
      BY <3>1
    <3>6. p \in R => e[p] \in Nat /\ e[p] <= f[p]
      OBVIOUS
    <3> HIDE DEF Q
    <3>7. Total(e, R \cap T) <= Total(f, T)
      BY <3>2, <3>3, <3>4, <3>5, <3>6
    <3> QED
      BY <3>7
  <2> QED
    BY <2>2, <2>3
<1> HIDE DEF G
<1>2. G \subseteq SUBSET S
  BY DEF G
<1> QED
  BY <1>1, <1>2, SubsetInduction

\* Elements whose summand is zero may be left out.
THEOREM TotalSupport ==
  ASSUME NEW f, NEW e, NEW S, IsFiniteSet(S), NEW R, R \subseteq S,
         \A x \in R : f[x] \in Nat,
         \A x \in S : e[x] = IF x \in R THEN f[x] ELSE 0
  PROVE  Total(f, R) = Total(e, S)
<1> DEFINE G == {T \in SUBSET S : Total(f, R \cap T) = Total(e, T)}
<1> SUFFICES G = SUBSET S
  <2>1. R \cap S = R
    OBVIOUS
  <2> QED
    BY <2>1
<1>1. ASSUME NEW T \in SUBSET S, \A U \in SUBSET T : U # T => U \in G
      PROVE  T \in G
  <2> DEFINE p == Pick(T)
  <2> DEFINE Q == T \ {p}
  <2>1. IsFiniteSet(T) /\ IsFiniteSet(R \cap T) /\ IsFiniteSet(Q) /\ IsFiniteSet(R \cap Q)
    BY FS_Subset
  <2>2. CASE T = {}
    <3>1. R \cap T = {}
      BY <2>2
    <3>2. Total(f, R \cap T) = 0 /\ Total(e, T) = 0
      BY <2>2, <3>1, TotalEmpty
    <3> QED
      BY <3>2
  <2>3. CASE T # {}
    <3>1. p \in T /\ Q \in G /\ Q \subseteq S
      BY <1>1, <2>3, PickIn
    <3> HIDE DEF p
    <3>0. \A x \in S : e[x] \in Nat
      OBVIOUS
    <3>2. Total(e, T) = e[p] + Total(e, Q)
      BY <3>0, <2>1, <3>1, TotalRemove
    <3>3. Total(f, R \cap T) = e[p] + Total(f, R \cap Q)
      <4>1. CASE p \in R
        <5>1. (R \cap T) \ {p} = R \cap Q /\ p \in R \cap T
          BY <3>1, <4>1
        <5>2. e[p] = f[p]
          BY <3>1, <4>1
        <5> QED
          BY <2>1, <5>1, <5>2, TotalRemove
      <4>2. CASE p \notin R
        <5>1. R \cap T = R \cap Q /\ e[p] = 0
          BY <3>1, <4>2
        <5>2. Total(f, R \cap Q) \in Nat
          BY <2>1, <3>1, TotalNat
        <5> DEFINE A == R \cap T
        <5> DEFINE B == R \cap Q
        <5>3. A = B /\ Total(f, B) \in Nat /\ e[p] = 0
          BY <5>1, <5>2
        <5> HIDE DEF A, B
        <5>4. Total(f, A) = e[p] + Total(f, B)
          BY <5>3
        <5> QED
          BY <5>4 DEF A, B
      <4> QED
        BY <4>1, <4>2
    <3>4. Total(f, R \cap Q) = Total(e, Q)
      BY <3>1
    <3> HIDE DEF Q
    <3>5. Total(f, R \cap T) = Total(e, T)
      BY <3>2, <3>3, <3>4
    <3> QED
      BY <3>5
  <2> QED
    BY <2>2, <2>3
<1> HIDE DEF G
<1>2. G \subseteq SUBSET S
  BY DEF G
<1> QED
  BY <1>1, <1>2, SubsetInduction

\* The same summand everywhere: the sum is that many times the summand.
THEOREM TotalConstant ==
  ASSUME NEW f, NEW S, IsFiniteSet(S), NEW c \in Nat, \A x \in S : f[x] = c
  PROVE  Total(f, S) = Cardinality(S) * c
<1> DEFINE G == {T \in SUBSET S : Total(f, T) = Cardinality(T) * c}
<1> SUFFICES G = SUBSET S
  OBVIOUS
<1>1. ASSUME NEW T \in SUBSET S, \A U \in SUBSET T : U # T => U \in G
      PROVE  T \in G
  <2> DEFINE p == Pick(T)
  <2> DEFINE Q == T \ {p}
  <2>1. IsFiniteSet(T) /\ IsFiniteSet(Q)
    BY FS_Subset
  <2>2. CASE T = {}
    BY <2>2, TotalEmpty, FS_EmptySet
  <2>3. CASE T # {}
    <3>1. p \in T /\ Q \in G
      BY <1>1, <2>3, PickIn
    <3>2. Total(f, T) = c + Total(f, Q)
      BY <2>1, <3>1, TotalRemove
    <3>3. Total(f, Q) = Cardinality(Q) * c
      BY <3>1
    <3>4. Cardinality(Q) = Cardinality(T) - 1 /\ Cardinality(T) \in Nat /\ Cardinality(Q) \in Nat
      BY <2>1, <3>1, FS_RemoveElement, FS_CardinalityType
    <3> DEFINE n == Cardinality(Q)
    <3> HIDE DEF p, Q, n
    <3>5. n \in Nat /\ Cardinality(T) = n + 1
      BY <3>4 DEF n
    <3>6. c + n * c = (n + 1) * c
      BY <3>5
    <3>7. Total(f, T) = Cardinality(T) * c
      BY <3>2, <3>3, <3>5, <3>6 DEF n
    <3> QED
      BY <3>7
  <2> QED
    BY <2>2, <2>3
<1> HIDE DEF G
<1>2. G \subseteq SUBSET S
  BY DEF G
<1> QED
  BY <1>1, <1>2, SubsetInduction

\* The sum over two sets without a common element.
THEOREM TotalUnion ==
  ASSUME NEW f, NEW S, IsFiniteSet(S), NEW R, IsFiniteSet(R), S \cap R = {},
         \A x \in S \cup R : f[x] \in Nat
  PROVE  Total(f, S \cup R) = Total(f, S) + Total(f, R)
<1> DEFINE G == {T \in SUBSET R : Total(f, S \cup T) = Total(f, S) + Total(f, T)}
<1> SUFFICES G = SUBSET R
  OBVIOUS
<1>1. ASSUME NEW T \in SUBSET R, \A U \in SUBSET T : U # T => U \in G
      PROVE  T \in G
  <2>1. Total(f, S) \in Nat
    BY TotalNat
  <2>2. CASE T = {}
    <3>1. S \cup T = S
      BY <2>2
    <3> QED
      BY <2>1, <2>2, <3>1, TotalEmpty
  <2>3. CASE T # {}
    <3> DEFINE a == Pick(T)
               U == T \ {a}
    <3>1. a \in T /\ a \notin S
      BY <2>3, PickIn
    <3>2. U \in G
      BY <1>1, <3>1
    <3>3. IsFiniteSet(S \cup U) /\ IsFiniteSet(U) /\ IsFiniteSet(T)
      <4>1. IsFiniteSet(T) /\ IsFiniteSet(U)
        BY FS_Subset
      <4> QED
        BY <4>1, FS_Union
    <3>4. S \cup T = (S \cup U) \cup {a} /\ T = U \cup {a} /\ a \notin S \cup U
      BY <3>1
    <3>5. f[a] \in Nat /\ \A x \in S \cup U : f[x] \in Nat
      BY <3>1
    <3> HIDE DEF a, U
    <3>6. Total(f, S \cup T) = f[a] + Total(f, S \cup U)
      BY <3>3, <3>4, <3>5, TotalAdd
    <3>7. Total(f, T) = f[a] + Total(f, U)
      BY <3>3, <3>4, <3>5, TotalAdd
    <3>8. Total(f, U) \in Nat
      BY <3>3, <3>5, TotalNat
    <3> QED
      BY <2>1, <3>2, <3>5, <3>6, <3>7, <3>8
  <2> QED
    BY <2>2, <2>3
<1> HIDE DEF G
<1>2. G \subseteq SUBSET R
  BY DEF G
<1> QED
  BY <1>1, <1>2, SubsetInduction

\* A sum over a set is the sum of the sums over the parts that a function cuts it
\* into.
THEOREM TotalFibers ==
  ASSUME NEW f, NEW S, IsFiniteSet(S), \A x \in S : f[x] \in Nat,
         NEW R, IsFiniteSet(R), NEW r, \A x \in S : r[x] \in R
  PROVE  Total([y \in R |-> Total(f, {x \in S : r[x] = y})], R) = Total(f, S)
<1> DEFINE F(y) == {x \in S : r[x] = y}
           p == [y \in R |-> Total(f, F(y))]
           Over(T) == {x \in S : r[x] \in T}
           G == {T \in SUBSET R : Total(p, T) = Total(f, Over(T))}
<1>0. \A y : IsFiniteSet(F(y)) /\ IsFiniteSet(Over(y))
  BY FS_Subset
<1>1. ASSUME NEW T \in SUBSET R, \A U \in SUBSET T : U # T => U \in G
      PROVE  T \in G
  <2>1. CASE T = {}
    <3>1. Over(T) = {}
      BY <2>1
    <3> QED
      BY <2>1, <3>1, TotalEmpty
  <2>2. CASE T # {}
    <3> DEFINE y == Pick(T)
               U == T \ {y}
    <3>1. y \in T
      BY <2>2, PickIn
    <3>2. Total(p, U) = Total(f, Over(U))
      BY <1>1, <3>1
    <3> HIDE DEF y
    <3>3. Over(T) = F(y) \cup Over(U) /\ F(y) \cap Over(U) = {}
      BY <3>1
    <3>4. \A x \in F(y) \cup Over(U) : f[x] \in Nat
      OBVIOUS
    <3>5. p[y] = Total(f, F(y))
      BY <3>1
    <3>6. \A z \in T : p[z] \in Nat
      <4> SUFFICES ASSUME NEW z \in T PROVE Total(f, F(z)) \in Nat
        OBVIOUS
      <4>1. \A x \in F(z) : f[x] \in Nat
        OBVIOUS
      <4> HIDE DEF F
      <4> QED
        BY <1>0, <4>1, TotalNat
    <3> HIDE DEF p, F, Over
    <3>7. Total(f, Over(T)) = Total(f, F(y)) + Total(f, Over(U))
      <4> DEFINE A == F(y)
                 B == Over(U)
      <4>1. IsFiniteSet(A) /\ IsFiniteSet(B) /\ A \cap B = {} /\ \A x \in A \cup B : f[x] \in Nat
        BY <1>0, <3>3, <3>4
      <4> HIDE DEF A, B
      <4>2. Total(f, A \cup B) = Total(f, A) + Total(f, B)
        BY <4>1, TotalUnion
      <4> QED
        BY <3>3, <4>2 DEF A, B
    <3>8. Total(p, T) = p[y] + Total(p, U)
      <4>1. IsFiniteSet(T)
        BY FS_Subset
      <4> QED
        BY <3>1, <3>6, <4>1, TotalRemove
    <3> QED
      BY <3>2, <3>5, <3>7, <3>8
  <2> QED
    BY <2>1, <2>2
<1>2. G \subseteq SUBSET R
  OBVIOUS
<1>3. R \in G
  <2> HIDE DEF G
  <2> QED
    BY <1>1, <1>2, SubsetInduction
<1>4. Over(R) = S
  OBVIOUS
<1> QED
  BY <1>3, <1>4

=============================================================================
