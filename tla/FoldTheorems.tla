---------------------------- MODULE FoldTheorems ----------------------------
(***************************************************************************)
(* Induction over numbers and finite sets, stated with sets in the place   *)
(* of predicates, and the recursion behind the folds of the community      *)
(* modules: a function on the subsets of a finite set that takes one       *)
(* element after the other exists.  A fold is the CHOOSE of that function, *)
(* so with these facts it can be computed step by step in a proof.         *)
(***************************************************************************)
EXTENDS Integers, FiniteSets, FiniteSetsExt, FiniteSetTheorems, TLAPS

\* A set of numbers has a least one.
LEMMA LeastNat ==
    ASSUME NEW S \in SUBSET Nat, S # {}
    PROVE  \E x \in S : \A y \in S : x <= y
<1> DEFINE Below(x) == {y \in S : y < x}
           F == {Below(x) : x \in S}
<1>1. F \subseteq FiniteSubsetsOf(S)
  <2> SUFFICES ASSUME NEW x \in S PROVE Below(x) \in SUBSET S /\ IsFiniteSet(Below(x))
    BY DEF FiniteSubsetsOf
  <2>1. Below(x) \in SUBSET Nat /\ x \in Nat /\ \A y \in Below(x) : y <= x
    <3>1. S \subseteq Nat /\ x \in Nat
      OBVIOUS
    <3>2. Below(x) \subseteq Nat
      BY <3>1
    <3>3. ASSUME NEW y \in S, y < x PROVE y <= x
      BY <3>1, <3>3
    <3> QED  BY <3>1, <3>2, <3>3
  <2> HIDE DEF Below
  <2>2. IsFiniteSet(Below(x))
    BY <2>1, FS_BoundedSetOfNaturals
  <2> QED  BY <2>2 DEF Below
<1>2. F # {}
  OBVIOUS
<1> HIDE DEF F
<1>3. IsWellFoundedOn(StrictSubsetOrdering(S), FiniteSubsetsOf(S))
  BY FS_StrictSubsetOrderingWellFounded
<1>4. PICK m \in F : \A y \in F : ~(<<y, m>> \in StrictSubsetOrdering(S))
  BY <1>1, <1>2, <1>3, WFMin
<1>5. PICK x \in S : m = Below(x)
  BY <1>4 DEF F
<1>6. ASSUME NEW y \in S, y < x PROVE FALSE
  <2>1. Below(y) \in F /\ Below(y) \in SUBSET S /\ Below(x) \in SUBSET S
    BY DEF F
  <2>2. y \in Below(x) /\ y \notin Below(y)
    BY <1>6
  <2>3. Below(y) \subseteq Below(x)
    <3> SUFFICES ASSUME NEW z \in S, z < y PROVE z < x
      OBVIOUS
    <3> QED  BY <1>6
  <2> HIDE DEF Below
  <2>4. <<Below(y), Below(x)>> \in StrictSubsetOrdering(S)
    BY <2>1, <2>2, <2>3 DEF StrictSubsetOrdering
  <2> QED  BY <1>4, <1>5, <2>1, <2>4
<1> QED  BY <1>6

\* Induction from 0 to n: what holds at 0 and passes from each number to the next holds at n.
LEMMA StepsTo ==
    ASSUME NEW n \in Nat, NEW P, 0 \in P, \A i \in 0 .. n - 1 : i \in P => i + 1 \in P
    PROVE  \A i \in 0 .. n : i \in P
<1> DEFINE S == {i \in 0 .. n : i \notin P}
<1> SUFFICES ASSUME S # {} PROVE FALSE
  OBVIOUS
<1>1. S \in SUBSET Nat
  OBVIOUS
<1>2. PICK x \in S : \A y \in S : x <= y
  BY <1>1, LeastNat
<1>3. x \in 0 .. n /\ x \notin P /\ x # 0
  BY <1>2
<1>4. x - 1 \in 0 .. n - 1 /\ x - 1 \in 0 .. n /\ x = (x - 1) + 1
  BY <1>3
<1>5. x - 1 \notin S
  BY <1>2, <1>4
<1>6. x - 1 \in P
  BY <1>4, <1>5
<1> QED  BY <1>3, <1>4, <1>6

\* Taking an element off a finite set.
LEMMA OneLess ==
    ASSUME NEW S, IsFiniteSet(S), NEW x \in S
    PROVE  /\ IsFiniteSet(S \ {x}) /\ Cardinality(S \ {x}) = Cardinality(S) - 1
           /\ Cardinality(S) \in Nat /\ Cardinality(S) >= 1 /\ Cardinality(S \ {x}) \in Nat
<1>1. IsFiniteSet(S \ {x}) /\ Cardinality(S \ {x}) = Cardinality(S) - 1
  BY FS_RemoveElement
<1>2. Cardinality(S) \in Nat /\ Cardinality(S \ {x}) \in Nat
  BY <1>1, FS_CardinalityType
<1> QED  BY <1>1, <1>2

\* Induction over the subsets of a finite set, by an element that pick takes off each.
LEMMA SubsetsByPick ==
    ASSUME NEW D, IsFiniteSet(D), NEW P, NEW pick, {} \in P,
           \A s \in SUBSET D : s # {} => pick[s] \in s /\ (s \ {pick[s]} \in P => s \in P)
    PROVE  \A s \in SUBSET D : s \in P
<1> DEFINE Upto == {n \in Nat : \A s \in SUBSET D : Cardinality(s) <= n => s \in P}
<1>0. \A s \in SUBSET D : IsFiniteSet(s) /\ Cardinality(s) \in Nat
  BY FS_Subset, FS_CardinalityType
<1>1. 0 \in Upto
  <2> SUFFICES ASSUME NEW s \in SUBSET D, Cardinality(s) <= 0 PROVE s \in P
    OBVIOUS
  <2>1. s = {}
    BY <1>0, FS_EmptySet
  <2> QED  BY <2>1
<1>2. ASSUME NEW n \in Nat, n \in Upto PROVE n + 1 \in Upto
  <2> SUFFICES ASSUME NEW s \in SUBSET D, Cardinality(s) <= n + 1 PROVE s \in P
    OBVIOUS
  <2>1. CASE s = {}
    BY <2>1
  <2>2. CASE s # {}
    <3>1. pick[s] \in s /\ s \ {pick[s]} \in SUBSET D
      BY <2>2
    <3>2. Cardinality(s \ {pick[s]}) <= n
      BY <1>0, <3>1, OneLess
    <3>3. s \ {pick[s]} \in P
      BY <1>2, <3>1, <3>2
    <3> QED  BY <2>2, <3>3
  <2> QED  BY <2>1, <2>2
<1> HIDE DEF Upto
<1> SUFFICES ASSUME NEW s \in SUBSET D PROVE s \in P
  OBVIOUS
<1>3. Cardinality(s) \in Nat
  BY <1>0
<1>4. Cardinality(s) \in Upto
  <2> DEFINE n == Cardinality(s)
  <2>1. n \in Nat /\ n \in 0 .. n
    BY <1>3
  <2> HIDE DEF n
  <2>2. \A i \in 0 .. n - 1 : i \in Upto => i + 1 \in Upto
    BY <1>2, <2>1
  <2>3. \A i \in 0 .. n : i \in Upto
    BY <1>1, <2>1, <2>2, StepsTo
  <2> QED  BY <2>1, <2>3 DEF n
<1> QED  BY <1>3, <1>4 DEF Upto

\* What a fold defines by recursion: f starts with base and takes the elements off a set one by
\* one, in the order of pick.
FoldsBy(f, D, base, pick, step) ==
    \A s \in SUBSET D : f[s] = IF s = {} THEN base ELSE step[<<pick[s], f[s \ {pick[s]}]>>]

\* The function a fold defines by recursion exists: it starts with base and takes the element
\* that pick names off the set.
LEMMA FoldExists ==
    ASSUME NEW D, IsFiniteSet(D), NEW V, NEW base \in V, NEW pick,
           \A s \in SUBSET D : s # {} => pick[s] \in s,
           NEW step \in [D \X V -> V]
    PROVE  \E f \in [SUBSET D -> V] : FoldsBy(f, D, base, pick, step)
<1> DEFINE Takes(f, s) == f[s] = IF s = {} THEN base ELSE step[<<pick[s], f[s \ {pick[s]}]>>]
           Upto == {n \in Nat : \E f \in [SUBSET D -> V] : \A s \in SUBSET D : Cardinality(s) <= n => Takes(f, s)}
<1>0. \A s \in SUBSET D : IsFiniteSet(s) /\ Cardinality(s) \in Nat
  BY FS_Subset, FS_CardinalityType
<1>1. 0 \in Upto
  <2> DEFINE f == [s \in SUBSET D |-> base]
  <2>1. f \in [SUBSET D -> V]
    OBVIOUS
  <2>2. ASSUME NEW s \in SUBSET D, Cardinality(s) <= 0 PROVE Takes(f, s)
    <3>1. s = {}
      BY <1>0, <2>2, FS_EmptySet
    <3> QED  BY <3>1
  <2> HIDE DEF f, Takes
  <2> QED  BY <2>1, <2>2
<1>2. ASSUME NEW n \in Nat, n \in Upto PROVE n + 1 \in Upto
  <2>1. PICK f \in [SUBSET D -> V] : \A s \in SUBSET D : Cardinality(s) <= n => Takes(f, s)
    BY <1>2
  <2> DEFINE g == [s \in SUBSET D |-> IF Cardinality(s) <= n THEN f[s] ELSE step[<<pick[s], f[s \ {pick[s]}]>>]]
  <2>2. ASSUME NEW s \in SUBSET D, s # {}
        PROVE  /\ s \ {pick[s]} \in SUBSET D /\ pick[s] \in D /\ Cardinality(s \ {pick[s]}) = Cardinality(s) - 1
               /\ step[<<pick[s], f[s \ {pick[s]}]>>] \in V
    <3>1. pick[s] \in s /\ s \ {pick[s]} \in SUBSET D /\ pick[s] \in D
      BY <2>2
    <3>2. Cardinality(s \ {pick[s]}) = Cardinality(s) - 1
      BY <1>0, <3>1, OneLess
    <3>3. f[s \ {pick[s]}] \in V
      BY <3>1
    <3> QED  BY <3>1, <3>2, <3>3
  <2>3. \A s \in SUBSET D : ~(Cardinality(s) <= n) => s # {}
    <3>1. Cardinality({}) = 0 /\ 0 <= n
      BY FS_EmptySet
    <3> QED  BY <3>1
  <2>4. g \in [SUBSET D -> V]
    <3> SUFFICES ASSUME NEW s \in SUBSET D
                 PROVE  (IF Cardinality(s) <= n THEN f[s] ELSE step[<<pick[s], f[s \ {pick[s]}]>>]) \in V
      OBVIOUS
    <3> QED  BY <2>2, <2>3
  <2>5. ASSUME NEW s \in SUBSET D, Cardinality(s) <= n PROVE g[s] = f[s]
    BY <2>5
  <2>6. ASSUME NEW s \in SUBSET D, ~(Cardinality(s) <= n) PROVE g[s] = step[<<pick[s], f[s \ {pick[s]}]>>]
    BY <2>6
  <2> HIDE DEF g
  <2>7. ASSUME NEW s \in SUBSET D, Cardinality(s) <= n + 1 PROVE Takes(g, s)
    <3>1. CASE s = {}
      <4>1. Cardinality(s) <= n
        BY <3>1, FS_EmptySet
      <4> QED  BY <2>1, <2>5, <3>1, <4>1
    <3>2. CASE s # {}
      <4> DEFINE t == s \ {pick[s]}
      <4>1. t \in SUBSET D /\ Cardinality(t) = Cardinality(s) - 1 /\ Cardinality(s) \in Nat
        BY <1>0, <2>2, <3>2
      <4>2. Cardinality(t) <= n
        BY <2>7, <4>1
      <4>3. g[t] = f[t]
        BY <2>5, <4>1, <4>2
      <4>4. g[s] = step[<<pick[s], f[t]>>]
        <5>1. CASE Cardinality(s) <= n
          BY <2>1, <2>5, <3>2, <5>1
        <5>2. CASE ~(Cardinality(s) <= n)
          BY <2>6, <5>2
        <5> QED  BY <5>1, <5>2
      <4> QED  BY <3>2, <4>3, <4>4
    <3> QED  BY <3>1, <3>2
  <2> HIDE DEF Takes
  <2> QED  BY <2>4, <2>7
<1> HIDE DEF Upto
<1>3. Cardinality(D) \in Upto
  <2> DEFINE n == Cardinality(D)
  <2>1. n \in Nat /\ n \in 0 .. n
    BY <1>0
  <2> HIDE DEF n
  <2>2. \A i \in 0 .. n - 1 : i \in Upto => i + 1 \in Upto
    BY <1>2, <2>1
  <2>3. \A i \in 0 .. n : i \in Upto
    BY <1>1, <2>1, <2>2, StepsTo
  <2> QED  BY <2>1, <2>3 DEF n
<1>4. PICK f \in [SUBSET D -> V] : \A s \in SUBSET D : Cardinality(s) <= Cardinality(D) => Takes(f, s)
  BY <1>3 DEF Upto
<1>5. \A s \in SUBSET D : Cardinality(s) <= Cardinality(D)
  BY FS_Subset
<1> QED  BY <1>4, <1>5 DEF FoldsBy

\* A sum over the subsets of D by recursion, and one that any element can be taken off.
SumBy(f, D, w, pick) ==
    f[{}] = 0 /\ \A s \in SUBSET D : s # {} => pick[s] \in s /\ f[s] = f[s \ {pick[s]}] + w[pick[s]]

SumOf(f, D, w) == \A s \in SUBSET D : \A m \in s : f[s] = f[s \ {m}] + w[m]

\* Two sums by the same recursion agree.
LEMMA SumsAgree ==
    ASSUME NEW D, IsFiniteSet(D), NEW w, NEW pick, NEW f, NEW g, SumBy(f, D, w, pick), SumBy(g, D, w, pick)
    PROVE  f[D] = g[D]
<1> DEFINE P == {s \in SUBSET D : f[s] = g[s]}
<1>1. {} \in P
  BY DEF SumBy
<1>2. \A s \in SUBSET D : s # {} => pick[s] \in s /\ (s \ {pick[s]} \in P => s \in P)
  BY DEF SumBy
<1> HIDE DEF P
<1>3. \A s \in SUBSET D : s \in P
  BY ONLY IsFiniteSet(D), <1>1, <1>2, SubsetsByPick
<1>4. D \in P
  BY <1>3
<1> QED  BY <1>4 DEF P

\* A sum by recursion does not depend on the order in which the elements are taken.
LEMMA SumTakes ==
    ASSUME NEW D, IsFiniteSet(D), NEW w \in [D -> Nat], NEW pick, NEW f \in [SUBSET D -> Nat], SumBy(f, D, w, pick)
    PROVE  SumOf(f, D, w)
<1> SUFFICES ASSUME \A s \in SUBSET D : s # {} => pick[s] \in s /\ f[s] = f[s \ {pick[s]}] + w[pick[s]]
             PROVE  \A s \in SUBSET D : \A m \in s : f[s] = f[s \ {m}] + w[m]
  BY DEF SumBy, SumOf
<1> DEFINE Upto == {n \in Nat : \A s \in SUBSET D : Cardinality(s) <= n => \A m \in s : f[s] = f[s \ {m}] + w[m]}
<1>0. \A s \in SUBSET D : IsFiniteSet(s) /\ Cardinality(s) \in Nat /\ f[s] \in Nat
  BY FS_Subset, FS_CardinalityType
<1>1. 0 \in Upto
  <2> SUFFICES ASSUME NEW s \in SUBSET D, Cardinality(s) <= 0 PROVE s = {}
    OBVIOUS
  <2> QED  BY <1>0, FS_EmptySet
<1>2. ASSUME NEW n \in Nat, n \in Upto PROVE n + 1 \in Upto
  <2> SUFFICES ASSUME NEW s \in SUBSET D, Cardinality(s) <= n + 1, NEW m \in s PROVE f[s] = f[s \ {m}] + w[m]
    OBVIOUS
  <2> DEFINE p == pick[s]
             a == s \ {p}
             b == s \ {m}
             c == a \ {m}
  <2>1. p \in s /\ f[s] = f[a] + w[p] /\ p \in D /\ m \in D /\ w[p] \in Nat /\ w[m] \in Nat
    OBVIOUS
  <2>2. a \in SUBSET D /\ b \in SUBSET D /\ c \in SUBSET D
    OBVIOUS
  <2>3. Cardinality(a) <= n /\ Cardinality(b) <= n
    BY <1>0, <2>1, OneLess
  <2>4. CASE p = m
    BY <2>1, <2>4
  <2>5. CASE p # m
    <3>1. m \in a /\ p \in b /\ b \ {p} = c
      BY <2>1, <2>5
    <3>2. f[a] = f[c] + w[m]
      BY <1>2, <2>2, <2>3, <3>1
    <3>3. f[b] = f[c] + w[p]
      <4>1. f[b] = f[b \ {p}] + w[p]
        BY <1>2, <2>2, <2>3, <3>1
      <4> QED  BY <3>1, <4>1
    <3>4. f[a] \in Nat /\ f[b] \in Nat /\ f[c] \in Nat
      BY <1>0, <2>2
    <3> QED  BY <2>1, <3>2, <3>3, <3>4
  <2> QED  BY <2>4, <2>5
<1> HIDE DEF Upto
<1> SUFFICES ASSUME NEW s \in SUBSET D, NEW m \in s PROVE f[s] = f[s \ {m}] + w[m]
  OBVIOUS
<1> DEFINE n == Cardinality(s)
<1>3. n \in Nat /\ n \in 0 .. n
  BY <1>0
<1> HIDE DEF n
<1>4. \A i \in 0 .. n - 1 : i \in Upto => i + 1 \in Upto
  BY <1>2, <1>3
<1>5. \A i \in 0 .. n : i \in Upto
  BY <1>1, <1>3, <1>4, StepsTo
<1> QED  BY <1>3, <1>5 DEF Upto, n

\* The greatest of the numbers from 1 to n, and what is left without it.
LEMMA MaxOfRange ==
    ASSUME NEW n \in Nat, n # 0
    PROVE  Max(1 .. n) = n /\ (1 .. n) \ {n} = 1 .. n - 1
<1>1. n \in 1 .. n /\ \A y \in 1 .. n : n >= y
  OBVIOUS
<1>2. Max(1 .. n) \in 1 .. n /\ \A y \in 1 .. n : Max(1 .. n) >= y
  BY <1>1 DEF Max
<1>3. \A x, y \in 1 .. n : x >= y /\ y >= x => x = y
  OBVIOUS
<1>4. Max(1 .. n) = n
  BY <1>1, <1>2, <1>3
<1> QED  BY <1>4

\* A finite set of numbers has a greatest.
LEMMA MaxOfFinite ==
    ASSUME NEW n \in Nat, NEW S \in SUBSET (1 .. n), S # {}
    PROVE  Max(S) \in S /\ \A y \in S : Max(S) >= y
<1> DEFINE R == {n - x : x \in S}
<1>0. \A x \in S : n - x \in Nat
  OBVIOUS
<1>1. R \in SUBSET Nat /\ R # {}
  BY <1>0
<1>2. PICK r \in R : \A y \in R : r <= y
  BY <1>1, LeastNat
<1>3. PICK x \in S : r = n - x
  BY <1>2
<1>4. \A y \in S : n - y \in R
  OBVIOUS
<1>5. \A y \in S : x >= y
  <2> SUFFICES ASSUME NEW y \in S PROVE x >= y
    OBVIOUS
  <2>1. n - x <= n - y
    BY <1>2, <1>3, <1>4
  <2> QED  BY <2>1
<1> QED  BY <1>5 DEF Max

\* The recursion of FoldLeft over a sequence of n elements, from the greatest index down.
FoldsLeft(f, n, base, step) ==
    \A s \in SUBSET (1 .. n) : f[s] = IF s = {} THEN base ELSE step[<<Max(s), f[s \ {Max(s)}]>>]

\* It exists.
LEMMA FoldLeftExists ==
    ASSUME NEW n \in Nat, NEW V, NEW base \in V, NEW step \in [(1 .. n) \X V -> V]
    PROVE  \E f \in [SUBSET (1 .. n) -> V] : FoldsLeft(f, n, base, step)
<1> DEFINE D == 1 .. n
           pick == [s \in SUBSET D |-> Max(s)]
<1>1. IsFiniteSet(D)
  BY FS_Interval
<1>2. \A s \in SUBSET D : pick[s] = Max(s)
  OBVIOUS
<1>3. \A s \in SUBSET D : s # {} => pick[s] \in s
  BY <1>2, MaxOfFinite
<1> HIDE DEF D, pick
<1>4. step \in [D \X V -> V]
  BY DEF D
<1>5. PICK f \in [SUBSET D -> V] : FoldsBy(f, D, base, pick, step)
  BY <1>1, <1>3, <1>4, FoldExists
<1> QED  BY <1>2, <1>5 DEF D, FoldsBy, FoldsLeft
=============================================================================
