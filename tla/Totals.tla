---------------------------------- MODULE Totals ----------------------------------
(***************************************************************************)
(* What a sum over a finite set is, and how it changes with the set and    *)
(* with one of its summands.  The modules write sums with MapThenSumSet,   *)
(* which is a recursive function on the subsets; here is what the proofs   *)
(* about them use of it.                                                   *)
(***************************************************************************)
EXTENDS Integers, FiniteSets, FiniteSetTheorems, WellFoundedInduction, TLAPS

---------------------------------------------------------------------------------
(* Induction on the subsets of a finite set.                               *)

Less == {p \in Nat \X Nat : p[1] < p[2]}

(* A set of natural numbers has a least one.                               *)
LEMMA LeastIn ==
    ASSUME NEW S, S \subseteq Nat, S # {}
    PROVE  \E m \in S : \A n \in S : m <= n
<1>1. IsWellFoundedOn(Less, Nat)
  BY NatLessThanWellFounded DEF Less, OpToRel
<1>2. \E m \in S : \A n \in S : ~(<<n, m>> \in Less)
  BY <1>1, WFMin, Zenon
<1>3. PICK m \in S : \A n \in S : ~(<<n, m>> \in Less)
  BY <1>2
<1>4. ASSUME NEW n \in S PROVE m <= n
  <2>1. <<n, m>> \in Nat \X Nat /\ <<n, m>>[1] = n /\ <<n, m>>[2] = m
    OBVIOUS
  <2>2. ~(n < m)
    BY <1>3, <2>1, Zenon DEF Less
  <2> QED
    BY <2>2
<1> QED
  BY <1>4

(* What holds of the empty set, and of a set if it does without any one of *)
(* its elements, holds of every subset.                                    *)
LEMMA OnSubsets ==
    ASSUME NEW S, IsFiniteSet(S), NEW G,
           \A s \in SUBSET S : (\A x \in s : s \ {x} \in G) => s \in G
    PROVE  \A s \in SUBSET S : s \in G
<1> SUFFICES ASSUME NEW bad, bad \in SUBSET S, bad \notin G PROVE FALSE
  OBVIOUS
<1> DEFINE Sizes == {Cardinality(s) : s \in {t \in SUBSET S : t \notin G}}
<1>1. \A s \in SUBSET S : IsFiniteSet(s) /\ Cardinality(s) \in Nat
  BY FS_Subset, FS_CardinalityType
<1>2. Sizes \subseteq Nat /\ Sizes # {}
  BY <1>1
<1>3. PICK m \in Sizes : \A n \in Sizes : m <= n
  BY <1>2, LeastIn
<1>4. PICK s \in SUBSET S : s \notin G /\ m = Cardinality(s)
  OBVIOUS
<1>5. ASSUME NEW x \in s PROVE s \ {x} \in G
  <2>1. Cardinality(s \ {x}) = Cardinality(s) - 1
    BY <1>1, FS_RemoveElement
  <2>2. CASE s \ {x} \notin G
    <3>1. s \ {x} \in SUBSET S
      BY <1>4
    <3>2. Cardinality(s \ {x}) \in Sizes
      BY <2>2, <3>1
    <3> HIDE DEF Sizes
    <3>3. Cardinality(s) <= Cardinality(s \ {x}) /\ Cardinality(s) \in Nat
      BY <1>1, <1>3, <1>4, <3>2
    <3> QED
      BY <2>1, <3>3
  <2> QED
    BY <2>2
<1> QED
  BY <1>4, <1>5

---------------------------------------------------------------------------------
(* Sums.                                                                   *)

One(s) == CHOOSE x \in s : TRUE

(* h gives every subset of S the sum of g over it, one element at a time.  *)
Adds(h, g, S) == \A s \in SUBSET S : h[s] = IF s = {} THEN 0 ELSE g[One(s)] + h[s \ {One(s)}]

Total(g, S) == (CHOOSE h : Adds(h, g, S))[S]

LEMMA OneIs == \A s : s # {} => One(s) \in s
BY DEF One

LEMMA AddsAgree ==
    ASSUME NEW S, IsFiniteSet(S), NEW g, NEW f, NEW h, NEW k, \A x \in S : g[x] = f[x], Adds(h, g, S), Adds(k, f, S)
    PROVE  \A s \in SUBSET S : h[s] = k[s]
<1> DEFINE G == {s \in SUBSET S : h[s] = k[s]}
<1>1. ASSUME NEW s \in SUBSET S, \A x \in s : s \ {x} \in G PROVE s \in G
  <2>1. CASE s = {}
    BY <2>1 DEF Adds
  <2>2. CASE s # {}
    <3>1. One(s) \in s /\ h[s \ {One(s)}] = k[s \ {One(s)}] /\ g[One(s)] = f[One(s)]
      BY <1>1, <2>2, OneIs
    <3>2. h[s] = g[One(s)] + h[s \ {One(s)}] /\ k[s] = f[One(s)] + k[s \ {One(s)}]
      BY <2>2 DEF Adds
    <3> QED
      BY <3>1, <3>2
  <2> QED
    BY <2>1, <2>2
<1> HIDE DEF G
<1>2. \A s \in SUBSET S : s \in G
  BY <1>1, OnSubsets
<1> QED
  BY <1>2 DEF G

LEMMA AddsTotal ==
    ASSUME NEW S, IsFiniteSet(S), NEW g, NEW h, Adds(h, g, S)
    PROVE  \A s \in SUBSET S : Total(g, s) = h[s]
<1> SUFFICES ASSUME NEW s \in SUBSET S PROVE Total(g, s) = h[s]
  OBVIOUS
<1>1. Adds(h, g, s) /\ IsFiniteSet(s)
  BY FS_Subset DEF Adds
<1>2. Adds(CHOOSE k : Adds(k, g, s), g, s)
  BY <1>1
<1> QED
  BY <1>1, <1>2, AddsAgree DEF Total

LEMMA SomethingAdds ==
    ASSUME NEW S, IsFiniteSet(S), NEW g
    PROVE  \E h : Adds(h, g, S)
<1> DEFINE G == {s \in SUBSET S : \E h : Adds(h, g, s)}
<1>1. ASSUME NEW s \in SUBSET S, \A x \in s : s \ {x} \in G PROVE s \in G
  <2> DEFINE h == [t \in SUBSET s |-> IF t = s /\ s # {} THEN g[One(s)] + Total(g, s \ {One(s)})
                                      ELSE IF t = {} THEN 0 ELSE Total(g, t)]
  <2>1. ASSUME NEW t \in SUBSET s, t # s, t # {}
        PROVE  Total(g, t) = g[One(t)] + (IF t \ {One(t)} = {} THEN 0 ELSE Total(g, t \ {One(t)}))
    <3>1. PICK x \in s : t \subseteq s \ {x}
      BY <2>1
    <3>2. PICK k : Adds(k, g, s \ {x})
      BY <1>1
    <3>3. IsFiniteSet(s \ {x}) /\ One(t) \in t
      BY <2>1, FS_Subset, OneIs
    <3>4. Total(g, t) = k[t] /\ Total(g, t \ {One(t)}) = k[t \ {One(t)}]
      BY <3>1, <3>2, <3>3, AddsTotal
    <3> QED
      BY <2>1, <3>1, <3>2, <3>4 DEF Adds
  <2>2. ASSUME s # {}, s \ {One(s)} = {} PROVE Total(g, s \ {One(s)}) = 0
    <3>1. One(s) \in s
      BY <2>2, OneIs
    <3>2. PICK k : Adds(k, g, s \ {One(s)})
      BY <1>1, <3>1
    <3>3. Total(g, s \ {One(s)}) = k[s \ {One(s)}]
      BY <3>2, FS_Subset, AddsTotal
    <3> QED
      BY <2>2, <3>2, <3>3 DEF Adds
  <2>3. Adds(h, g, s)
    <3> SUFFICES ASSUME NEW t \in SUBSET s PROVE h[t] = IF t = {} THEN 0 ELSE g[One(t)] + h[t \ {One(t)}]
      BY DEF Adds
    <3>1. CASE t = {}
      BY <3>1
    <3>2. CASE t # {}
      <4>1. One(t) \in t /\ t \ {One(t)} \in SUBSET s /\ t \ {One(t)} # s
        BY <3>2, OneIs
      <4> QED
        BY <2>1, <2>2, <3>2, <4>1
    <3> QED
      BY <3>1, <3>2
  <2> HIDE DEF h
  <2> QED
    BY <2>3
<1> HIDE DEF G
<1>2. \A s \in SUBSET S : s \in G
  BY <1>1, OnSubsets
<1> QED
  BY <1>2 DEF G

LEMMA TotalIs ==
    ASSUME NEW S, IsFiniteSet(S), NEW g, NEW f, NEW h, \A x \in S : g[x] = f[x], Adds(h, f, S)
    PROVE  h[S] = Total(g, S)
<1>1. PICK k : Adds(k, g, S)
  BY SomethingAdds
<1>2. Total(g, S) = k[S]
  BY <1>1, AddsTotal
<1>3. S \in SUBSET S
  OBVIOUS
<1> QED
  BY <1>1, <1>2, <1>3, AddsAgree

LEMMA TotalSame ==
    ASSUME NEW S, IsFiniteSet(S), NEW g, NEW f, \A x \in S : g[x] = f[x]
    PROVE  Total(g, S) = Total(f, S)
<1>1. PICK k : Adds(k, f, S)
  BY SomethingAdds
<1>2. Total(f, S) = k[S]
  BY <1>1, AddsTotal
<1> QED
  BY <1>1, <1>2, TotalIs

LEMMA TotalEmpty == ASSUME NEW g PROVE Total(g, {}) = 0
<1>1. IsFiniteSet({})
  BY FS_EmptySet
<1>2. PICK k : Adds(k, g, {})
  BY <1>1, SomethingAdds
<1>3. Total(g, {}) = k[{}] /\ {} \in SUBSET {}
  BY <1>1, <1>2, AddsTotal
<1> QED
  BY <1>2, <1>3 DEF Adds

(* The step of the recursion, and that it may take any element.            *)
LEMMA TotalStep ==
    ASSUME NEW S, IsFiniteSet(S), S # {}, NEW g
    PROVE  Total(g, S) = g[One(S)] + Total(g, S \ {One(S)}) /\ One(S) \in S
<1>1. PICK k : Adds(k, g, S)
  BY SomethingAdds
<1>2. One(S) \in S /\ S \in SUBSET S /\ S \ {One(S)} \in SUBSET S
  BY OneIs
<1>3. Total(g, S) = k[S] /\ Total(g, S \ {One(S)}) = k[S \ {One(S)}]
  BY <1>1, <1>2, AddsTotal
<1> QED
  BY <1>1, <1>2, <1>3 DEF Adds

LEMMA TotalNat ==
    ASSUME NEW S, IsFiniteSet(S), NEW g, \A x \in S : g[x] \in Nat
    PROVE  \A s \in SUBSET S : Total(g, s) \in Nat
<1> DEFINE G == {s \in SUBSET S : Total(g, s) \in Nat}
<1>1. ASSUME NEW s \in SUBSET S, \A x \in s : s \ {x} \in G PROVE s \in G
  <2>1. CASE s = {}
    BY <2>1, TotalEmpty
  <2>2. CASE s # {}
    <3>1. Total(g, s) = g[One(s)] + Total(g, s \ {One(s)}) /\ One(s) \in s
      BY <2>2, FS_Subset, TotalStep
    <3>2. Total(g, s \ {One(s)}) \in Nat /\ g[One(s)] \in Nat
      BY <1>1, <3>1
    <3> QED
      BY <3>1, <3>2
  <2> QED
    BY <2>1, <2>2
<1> HIDE DEF G
<1>2. \A s \in SUBSET S : s \in G
  BY <1>1, OnSubsets
<1> QED
  BY <1>2 DEF G

LEMMA TotalTakes ==
    ASSUME NEW S, IsFiniteSet(S), NEW g, \A x \in S : g[x] \in Nat, NEW y \in S
    PROVE  Total(g, S) = g[y] + Total(g, S \ {y})
<1> DEFINE G == {s \in SUBSET S : \A x \in s : Total(g, s) = g[x] + Total(g, s \ {x})}
<1>1. ASSUME NEW s \in SUBSET S, \A x \in s : s \ {x} \in G PROVE s \in G
  <2> SUFFICES ASSUME NEW x \in s PROVE Total(g, s) = g[x] + Total(g, s \ {x})
    OBVIOUS
  <2> DEFINE p == One(s)
  <2>1. Total(g, s) = g[p] + Total(g, s \ {p}) /\ p \in s
    BY FS_Subset, TotalStep
  <2>2. CASE x = p
    BY <2>1, <2>2
  <2>3. CASE x # p
    <3> HIDE DEF p
    <3>1. Total(g, s \ {p}) = g[x] + Total(g, (s \ {p}) \ {x})
      BY <1>1, <2>1, <2>3
    <3>2. Total(g, s \ {x}) = g[p] + Total(g, (s \ {x}) \ {p})
      BY <1>1, <2>1, <2>3
    <3>3. (s \ {p}) \ {x} = (s \ {x}) \ {p}
      OBVIOUS
    <3>4. g[p] \in Nat /\ g[x] \in Nat /\ Total(g, (s \ {p}) \ {x}) \in Nat
      BY <2>1, TotalNat
    <3> QED
      BY <2>1, <3>1, <3>2, <3>3, <3>4
  <2> QED
    BY <2>2, <2>3
<1> HIDE DEF G
<1>2. \A s \in SUBSET S : s \in G
  BY <1>1, OnSubsets
<1> QED
  BY <1>2 DEF G

LEMMA TotalAdds ==
    ASSUME NEW S, IsFiniteSet(S), NEW g, NEW y, y \notin S, \A x \in S \cup {y} : g[x] \in Nat
    PROVE  Total(g, S \cup {y}) = g[y] + Total(g, S)
<1>1. IsFiniteSet(S \cup {y}) /\ (S \cup {y}) \ {y} = S
  BY FS_AddElement
<1> QED
  BY <1>1, TotalTakes

LEMMA TotalOfNone ==
    ASSUME NEW S, IsFiniteSet(S), NEW g, \A x \in S : g[x] = 0
    PROVE  Total(g, S) = 0
<1> DEFINE G == {s \in SUBSET S : Total(g, s) = 0}
<1>1. ASSUME NEW s \in SUBSET S, \A x \in s : s \ {x} \in G PROVE s \in G
  <2>1. CASE s = {}
    BY <2>1, TotalEmpty
  <2>2. CASE s # {}
    <3>1. Total(g, s) = g[One(s)] + Total(g, s \ {One(s)}) /\ One(s) \in s
      BY <2>2, FS_Subset, TotalStep
    <3>2. Total(g, s \ {One(s)}) = 0 /\ g[One(s)] = 0
      BY <1>1, <3>1
    <3> QED
      BY <3>1, <3>2
  <2> QED
    BY <2>1, <2>2
<1> HIDE DEF G
<1>2. \A s \in SUBSET S : s \in G
  BY <1>1, OnSubsets
<1> QED
  BY <1>2 DEF G

(* One summand changes.                                                    *)
LEMMA TotalChanges ==
    ASSUME NEW S, IsFiniteSet(S), NEW g, NEW f, NEW y \in S, \A x \in S : g[x] \in Nat /\ f[x] \in Nat,
           \A x \in S \ {y} : g[x] = f[x]
    PROVE  /\ Total(f, S) = f[y] + Total(g, S \ {y})
           /\ Total(f, S) + g[y] = Total(g, S) + f[y]
           /\ Total(g, S \ {y}) \in Nat
<1>1. IsFiniteSet(S \ {y})
  BY FS_Subset
<1>2. Total(f, S \ {y}) = Total(g, S \ {y}) /\ Total(g, S \ {y}) \in Nat
  BY <1>1, TotalSame, TotalNat
<1>3. Total(f, S) = f[y] + Total(f, S \ {y}) /\ Total(g, S) = g[y] + Total(g, S \ {y})
  BY TotalTakes
<1> QED
  BY <1>2, <1>3

(* Smaller summands, or fewer, make no larger a sum.                       *)
LEMMA TotalAtMost ==
    ASSUME NEW S, IsFiniteSet(S), NEW g, NEW f, \A x \in S : g[x] \in Nat /\ f[x] \in Nat /\ g[x] <= f[x]
    PROVE  Total(g, S) <= Total(f, S)
<1> DEFINE G == {s \in SUBSET S : Total(g, s) <= Total(f, s)}
<1>1. ASSUME NEW s \in SUBSET S, \A x \in s : s \ {x} \in G PROVE s \in G
  <2>1. CASE s = {}
    BY <2>1, TotalEmpty
  <2>2. CASE s # {}
    <3>1. PICK x : x \in s
      BY <2>2
    <3>2. IsFiniteSet(s)
      BY FS_Subset
    <3>3. Total(g, s) = g[x] + Total(g, s \ {x}) /\ Total(f, s) = f[x] + Total(f, s \ {x})
      BY <3>1, <3>2, TotalTakes
    <3>4. Total(g, s \ {x}) <= Total(f, s \ {x})
      BY <1>1, <3>1
    <3>5. Total(g, s \ {x}) \in Nat /\ Total(f, s \ {x}) \in Nat
      BY TotalNat
    <3>6. g[x] \in Nat /\ f[x] \in Nat /\ g[x] <= f[x]
      BY <3>1
    <3> QED
      BY <3>3, <3>4, <3>5, <3>6
  <2> QED
    BY <2>1, <2>2
<1> HIDE DEF G
<1>2. \A s \in SUBSET S : s \in G
  BY <1>1, OnSubsets
<1> QED
  BY <1>2 DEF G

LEMMA TotalOfSome ==
    ASSUME NEW S, IsFiniteSet(S), NEW T \in SUBSET S, NEW g, \A x \in S : g[x] \in Nat
    PROVE  Total(g, T) <= Total(g, S)
<1> DEFINE G == {s \in SUBSET S : \A t \in SUBSET s : Total(g, t) <= Total(g, s)}
<1>1. ASSUME NEW s \in SUBSET S, \A x \in s : s \ {x} \in G PROVE s \in G
  <2> SUFFICES ASSUME NEW t \in SUBSET s PROVE Total(g, t) <= Total(g, s)
    OBVIOUS
  <2>1. CASE t = s
    BY <2>1, TotalNat
  <2>2. CASE t # s
    <3>1. PICK x \in s : t \subseteq s \ {x}
      BY <2>2
    <3>2. Total(g, t) <= Total(g, s \ {x})
      BY <1>1, <3>1
    <3>3. Total(g, s) = g[x] + Total(g, s \ {x})
      BY FS_Subset, TotalTakes
    <3>4. Total(g, t) \in Nat /\ Total(g, s \ {x}) \in Nat /\ g[x] \in Nat
      BY TotalNat
    <3> QED
      BY <3>2, <3>3, <3>4
  <2> QED
    BY <2>1, <2>2
<1> HIDE DEF G
<1>2. \A s \in SUBSET S : s \in G
  BY <1>1, OnSubsets
<1> QED
  BY <1>2 DEF G

(* Where every summand is within another, and for some with a third.       *)
LEMMA TotalWithin ==
    ASSUME NEW S, IsFiniteSet(S), NEW T, NEW g, NEW a, NEW b, \A x \in S : g[x] \in Nat /\ a[x] \in Nat /\ b[x] \in Nat,
           \A x \in S : g[x] <= a[x] + (IF x \in T THEN b[x] ELSE 0)
    PROVE  Total(g, S) <= Total(a, S) + Total(b, S \cap T)
<1> DEFINE G == {s \in SUBSET S : Total(g, s) <= Total(a, s) + Total(b, s \cap T)}
<1>1. ASSUME NEW s \in SUBSET S, \A x \in s : s \ {x} \in G PROVE s \in G
  <2>1. CASE s = {}
    <3>1. s \cap T = {}
      BY <2>1
    <3> QED
      BY <2>1, <3>1, TotalEmpty
  <2>2. CASE s # {}
    <3>1. PICK x \in s : TRUE
      BY <2>2
    <3>2. IsFiniteSet(s) /\ IsFiniteSet(s \cap T) /\ s \ {x} \in SUBSET S
      BY FS_Subset
    <3>3. Total(g, s) = g[x] + Total(g, s \ {x}) /\ Total(a, s) = a[x] + Total(a, s \ {x})
      BY <3>1, <3>2, TotalTakes
    <3>4. Total(g, s \ {x}) \in Nat /\ Total(a, s \ {x}) \in Nat /\ Total(b, (s \ {x}) \cap T) \in Nat
      BY <3>2, TotalNat
    <3>5. Total(b, s \cap T) = (IF x \in T THEN b[x] ELSE 0) + Total(b, (s \ {x}) \cap T)
      <4>1. CASE x \in T
        <5>1. Total(b, s \cap T) = b[x] + Total(b, (s \cap T) \ {x})
          BY <3>1, <3>2, <4>1, TotalTakes
        <5>2. (s \cap T) \ {x} = (s \ {x}) \cap T
          OBVIOUS
        <5> QED
          BY <4>1, <5>1, <5>2
      <4>2. CASE x \notin T
        <5>1. s \cap T = (s \ {x}) \cap T
          BY <4>2
        <5> QED
          BY <3>4, <4>2, <5>1
      <4> QED
        BY <4>1, <4>2
    <3>6. Total(g, s \ {x}) <= Total(a, s \ {x}) + Total(b, (s \ {x}) \cap T)
      BY <1>1, <3>1
    <3>7. Total(g, s) <= Total(a, s) + Total(b, s \cap T)
      BY <3>1, <3>3, <3>4, <3>5, <3>6
    <3> QED
      BY <3>7
  <2> QED
    BY <2>1, <2>2
<1> HIDE DEF G
<1>2. \A s \in SUBSET S : s \in G
  BY <1>1, OnSubsets
<1> QED
  BY <1>2 DEF G
=====================================================================================
