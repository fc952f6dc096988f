----------------------------- MODULE FiniteLemmas -----------------------------
(***************************************************************************)
(* What the proofs of this project need to know of finite sets: minimal    *)
(* subsets, which carry every induction, greatest values, and sums; and of *)
(* finite sequences: induction, and the concatenation of a sequence of     *)
(* sequences.                                                              *)
(***************************************************************************)
EXTENDS Integers, Sequences, FiniteSetsExt, SequencesExt, FiniteSetTheorems, TLAPS

-----------------------------------------------------------------------------
\* A non-empty family of subsets of a finite set has a member that contains no
\* other one.
LEMMA SubsetMinimal ==
  ASSUME NEW S, IsFiniteSet(S), NEW T, T \subseteq SUBSET S, T # {}
  PROVE  \E x \in T : \A y \in T : y \subseteq x => y = x
<1>1. IsWellFoundedOn(StrictSubsetOrdering(S), FiniteSubsetsOf(S))
  BY FS_StrictSubsetOrderingWellFounded
<1>2. T \subseteq FiniteSubsetsOf(S)
  BY FS_FiniteSubsetsOfFinite
<1>3. \E x \in T : \A y \in T : ~ (<<y, x>> \in StrictSubsetOrdering(S))
  BY <1>1, <1>2, WFMin
<1> QED
  BY <1>3 DEF StrictSubsetOrdering

\* An integer function on a finite set has a greatest value.
LEMMA GreatestValue ==
  ASSUME NEW S, IsFiniteSet(S), S # {}, NEW f, \A x \in S : f[x] \in Int
  PROVE  \E x \in S : \A y \in S : f[y] <= f[x]
<1> DEFINE Above(x) == {y \in S : f[y] > f[x]}
           T == {Above(x) : x \in S}
<1>1. T \subseteq SUBSET S /\ T # {}
  OBVIOUS
<1>2. PICK t \in T : \A u \in T : u \subseteq t => u = t
  <2> HIDE DEF T
  <2> QED
    BY <1>1, SubsetMinimal
<1>3. PICK x \in S : t = Above(x)
  OBVIOUS
<1>4. ASSUME NEW y \in S, f[y] > f[x] PROVE FALSE
  <2>1. Above(y) \subseteq Above(x)
    BY <1>4
  <2>2. y \in Above(x) /\ y \notin Above(y)
    BY <1>4
  <2> QED
    BY <1>2, <1>3, <2>1, <2>2
<1> QED
  BY <1>4

LEMMA LeastValue ==
  ASSUME NEW S, IsFiniteSet(S), S # {}, NEW f, \A x \in S : f[x] \in Int
  PROVE  \E x \in S : \A y \in S : f[x] <= f[y]
<1> DEFINE g == [x \in S |-> -f[x]]
<1>1. \A x \in S : g[x] \in Int
  OBVIOUS
<1>2. PICK x \in S : \A y \in S : g[y] <= g[x]
  <2> HIDE DEF g
  <2> QED
    BY <1>1, GreatestValue
<1> QED
  BY <1>2

LEMMA PairFinite ==
  ASSUME NEW x, NEW y
  PROVE  IsFiniteSet({x, y}) /\ {x, y} # {}
<1>1. IsFiniteSet({x}) /\ IsFiniteSet({y})
  BY FS_Singleton
<1>2. IsFiniteSet({x} \union {y})
  BY <1>1, FS_Union
<1>3. {x, y} = {x} \union {y}
  OBVIOUS
<1> QED
  BY <1>2, <1>3

LEMMA MinMember ==
  ASSUME NEW S, S \subseteq Int, IsFiniteSet(S), S # {}
  PROVE  Min(S) \in S /\ \A x \in S : Min(S) <= x
<1> DEFINE f == [x \in S |-> x]
<1>1. \A x \in S : f[x] \in Int
  OBVIOUS
<1>2. \E x \in S : \A y \in S : f[x] <= f[y]
  <2> HIDE DEF f
  <2> QED
    BY <1>1, LeastValue
<1>3. \E x \in S : \A y \in S : x <= y
  BY <1>2
<1> QED
  BY <1>3 DEF Min

LEMMA MaxMember ==
  ASSUME NEW S, S \subseteq Int, IsFiniteSet(S), S # {}
  PROVE  Max(S) \in S /\ \A x \in S : x <= Max(S)
<1> DEFINE f == [x \in S |-> x]
<1>1. \A x \in S : f[x] \in Int
  OBVIOUS
<1>2. \E x \in S : \A y \in S : f[y] <= f[x]
  <2> HIDE DEF f
  <2> QED
    BY <1>1, GreatestValue
<1>3. \E x \in S : \A y \in S : y <= x
  BY <1>2
<1> QED
  BY <1>3 DEF Max

\* The n-th element of a set of integers.
LEMMA CountedElement ==
  ASSUME NEW S, S \subseteq Int, IsFiniteSet(S), NEW n \in 1 .. Cardinality(S)
  PROVE  \E d \in S : Cardinality({e \in S : e <= d}) = n
<1> DEFINE D == {G \in SUBSET S : /\ n <= Cardinality(G)
                                /\ \A d \in G, e \in S : e <= d => e \in G}
<1>1. D \subseteq SUBSET S /\ D # {}
  <2>1. S \in D
    BY FS_CardinalityType
  <2> QED
    BY <2>1
<1>2. PICK G \in D : \A H \in D : H \subseteq G => H = G
  <2> HIDE DEF D
  <2>1. IsFiniteSet(S)
    OBVIOUS
  <2> QED
    BY ONLY <1>1, <2>1, SubsetMinimal
<1>3. IsFiniteSet(G) /\ Cardinality(G) \in Nat /\ G # {} /\ G \in SUBSET Int
  <2>1. G \in SUBSET S /\ n <= Cardinality(G)
    OBVIOUS
  <2>2. IsFiniteSet(G) /\ Cardinality(G) \in Nat
    BY <2>1, FS_Subset, FS_CardinalityType
  <2>3. G # {}
    BY <2>1, FS_EmptySet
  <2> QED
    BY <2>1, <2>2, <2>3
<1> DEFINE d == Max(G)
<1>4. d \in G /\ \A e \in G : e <= d
  BY <1>3, MaxMember
<1>5. {e \in S : e <= d} = G
  BY <1>4
<1>6. Cardinality(G) = n
  <2> SUFFICES ASSUME Cardinality(G) # n PROVE FALSE
    OBVIOUS
  <2> DEFINE H == G \ {d}
  <2>1. IsFiniteSet(H) /\ Cardinality(H) = Cardinality(G) - 1
    BY <1>3, <1>4, FS_RemoveElement
  <2>2. n <= Cardinality(H)
    BY <1>3, <2>1
  <2>3. \A c \in H, e \in S : e <= c => e \in H
    BY <1>3, <1>4
  <2>4. H \in D /\ H # G
    BY <1>4, <2>2, <2>3
  <2> QED
    BY <1>2, <2>4
<1> QED
  BY <1>4, <1>5, <1>6

\* Powers of two, by counting subsets, of which the intervals alone are enough.
LEMMA PowerOfTwo ==
  ASSUME NEW n \in Nat
  PROVE  2^n \in Nat /\ n < 2^n
<1> DEFINE S == 1 .. n
           f == [i \in 0 .. n |-> 1 .. i]
<1>1. IsFiniteSet(S) /\ Cardinality(S) = n
  BY FS_Interval
<1>2. IsFiniteSet(SUBSET S) /\ Cardinality(SUBSET S) = 2^n
  BY <1>1, FS_SUBSET
<1>3. f \in [0 .. n -> SUBSET S]
  OBVIOUS
<1>4. ASSUME NEW i \in 0 .. n, NEW j \in 0 .. n, f[i] = f[j] PROVE i = j
  <2>1. \A k \in Int : k \in 1 .. i <=> k \in 1 .. j
    BY <1>4
  <2> QED
    BY <2>1
<1>5. f \in Injection(0 .. n, SUBSET S)
  BY <1>3, <1>4 DEF Injection, IsInjective
<1>6. Cardinality(0 .. n) <= Cardinality(SUBSET S) /\ Cardinality(0 .. n) = n + 1
  <2> HIDE DEF f, S
  <2> QED
    BY <1>2, <1>5, FS_Injection, FS_Interval
<1> QED
  BY <1>2, <1>6, FS_CardinalityType

\* The subsets of two disjoint sets are their pairs.
LEMMA PowerSum ==
  ASSUME NEW a \in Nat, NEW b \in Nat
  PROVE  2^(a + b) = 2^a * 2^b
<1> DEFINE A == 1 .. a
           B == (a + 1) .. (a + b)
           C == 1 .. (a + b)
           P == (SUBSET A) \X (SUBSET B)
           h == [x \in P |-> x[1] \cup x[2]]
<1>1. /\ IsFiniteSet(A) /\ Cardinality(A) = a /\ IsFiniteSet(B) /\ Cardinality(B) = b
      /\ IsFiniteSet(C) /\ Cardinality(C) = a + b
  <2>1. \A n \in Nat : IsFiniteSet(1 .. n) /\ Cardinality(1 .. n) = n
    BY FS_Interval
  <2>2. IsFiniteSet(B) /\ Cardinality(B) = IF a + 1 > a + b THEN 0 ELSE (a + b) - (a + 1) + 1
    BY FS_Interval
  <2>3. (IF a + 1 > a + b THEN 0 ELSE (a + b) - (a + 1) + 1) = b
    OBVIOUS
  <2>4. a + b \in Nat
    OBVIOUS
  <2> QED
    BY <2>1, <2>2, <2>3, <2>4
<1>2. A \cup B = C /\ A \intersect B = {}
  OBVIOUS
<1> HIDE DEF A, B, C
<1>3. IsFiniteSet(SUBSET A) /\ Cardinality(SUBSET A) = 2^a
      /\ IsFiniteSet(SUBSET B) /\ Cardinality(SUBSET B) = 2^b
      /\ IsFiniteSet(SUBSET C) /\ Cardinality(SUBSET C) = 2^(a + b)
  BY <1>1, FS_SUBSET
<1>4. IsFiniteSet(P) /\ Cardinality(P) = 2^a * 2^b
  <2> DEFINE X == SUBSET A
             Y == SUBSET B
  <2>1. IsFiniteSet(X) /\ Cardinality(X) = 2^a /\ IsFiniteSet(Y) /\ Cardinality(Y) = 2^b
    BY <1>3
  <2>2. P = X \X Y
    OBVIOUS
  <2> HIDE DEF X, Y, P
  <2>3. IsFiniteSet(X \X Y) /\ Cardinality(X \X Y) = Cardinality(X) * Cardinality(Y)
    BY ONLY <2>1, FS_Product
  <2> QED
    BY ONLY <2>1, <2>2, <2>3
<1>5. h \in [P -> SUBSET C]
  BY <1>2
<1>6. ASSUME NEW x \in P, NEW y \in P, h[x] = h[y] PROVE x = y
  <2>1. /\ x[1] \in SUBSET A /\ x[2] \in SUBSET B /\ x = <<x[1], x[2]>>
        /\ y[1] \in SUBSET A /\ y[2] \in SUBSET B /\ y = <<y[1], y[2]>>
    OBVIOUS
  <2>2. x[1] \cup x[2] = y[1] \cup y[2]
    BY <1>6
  <2>3. x[1] = y[1] /\ x[2] = y[2]
    BY <1>2, <2>1, <2>2
  <2> QED
    BY <2>1, <2>3
<1>7. ASSUME NEW u \in SUBSET C PROVE \E x \in P : h[x] = u
  <2> DEFINE x == <<u \intersect A, u \intersect B>>
  <2>1. x \in P /\ x[1] = u \intersect A /\ x[2] = u \intersect B
    OBVIOUS
  <2> HIDE DEF x
  <2>2. h[x] = u
    BY <1>2, <2>1
  <2> QED
    BY <2>1, <2>2
<1>8. h \in Bijection(P, SUBSET C)
  <2> HIDE DEF P, h
  <2> QED
    BY <1>5, <1>6, <1>7 DEF Bijection, Injection, Surjection, IsInjective
<1> QED
  BY <1>3, <1>4, <1>8, FS_Bijection DEF ExistsBijection

-----------------------------------------------------------------------------
(* SumFunctionOnSet is a recursive function on the subsets of the indices.  *)
(* That this function exists, and is one, is what makes the sum equal to    *)
(* any of its terms and the sum of the others.                              *)

Pick(s) == CHOOSE x \in s : TRUE

SumSteps(f, T, g) ==
  g = [s \in SUBSET T |-> IF s = {} THEN 0 ELSE f[Pick(s)] + g[s \ {Pick(s)}]]

LEMMA SumStepsValue ==
  ASSUME NEW f, NEW T, NEW g, SumSteps(f, T, g), NEW s \in SUBSET T
  PROVE  g[s] = IF s = {} THEN 0 ELSE f[Pick(s)] + g[s \ {Pick(s)}]
  BY Zenon DEF SumSteps

LEMMA PickMember ==
  ASSUME NEW s, s # {}
  PROVE  Pick(s) \in s /\ s \ {Pick(s)} # s
  BY DEF Pick

LEMMA SumStepsUnique ==
  ASSUME NEW f, NEW T, IsFiniteSet(T), NEW g, SumSteps(f, T, g), NEW h, SumSteps(f, T, h)
  PROVE  g = h
<1> DEFINE D == {s \in SUBSET T : g[s] # h[s]}
<1>1. CASE D = {}
  BY <1>1 DEF SumSteps
<1>2. CASE D # {}
  <2>1. D \subseteq SUBSET T
    OBVIOUS
  <2>2. PICK s \in D : \A u \in D : u \subseteq s => u = s
    <3> HIDE DEF D
    <3> QED
      BY <1>2, <2>1, SubsetMinimal
  <2>3. s # {}
    BY SumStepsValue
  <2>4. g[s \ {Pick(s)}] = h[s \ {Pick(s)}]
    BY <2>2, <2>3, PickMember
  <2> QED
    BY <2>3, <2>4, SumStepsValue
<1> QED
  BY <1>1, <1>2

LEMMA SumStepsRestrict ==
  ASSUME NEW f, NEW T, NEW g, SumSteps(f, T, g), NEW U \in SUBSET T
  PROVE  SumSteps(f, U, [s \in SUBSET U |-> g[s]])
<1> DEFINE h == [s \in SUBSET U |-> g[s]]
<1>1. ASSUME NEW s \in SUBSET U
      PROVE  h[s] = IF s = {} THEN 0 ELSE f[Pick(s)] + h[s \ {Pick(s)}]
  <2>1. s \in SUBSET T /\ s \ {Pick(s)} \in SUBSET U
    OBVIOUS
  <2> QED
    BY <2>1, SumStepsValue
<1> HIDE DEF h
<1>2. h = [s \in SUBSET U |-> h[s]]
  BY DEF h
<1>3. SumSteps(f, U, h)
  BY <1>1, <1>2 DEF SumSteps
<1> QED
  BY <1>3 DEF h

LEMMA SumStepsExist ==
  ASSUME NEW f, NEW S, IsFiniteSet(S)
  PROVE  \E g : SumSteps(f, S, g)
<1> DEFINE Steps(U) == CHOOSE g : SumSteps(f, U, g)
           D == {U \in SUBSET S : ~ SumSteps(f, U, Steps(U))}
<1>1. CASE D = {}
  BY <1>1
<1>2. CASE D # {}
  <2>1. D \subseteq SUBSET S
    OBVIOUS
  <2>2. PICK T \in D : \A U \in D : U \subseteq T => U = T
    <3> HIDE DEF D
    <3> QED
      BY <1>2, <2>1, SubsetMinimal
  <2>3. \A U \in SUBSET T : U # T => SumSteps(f, U, Steps(U)) /\ IsFiniteSet(U)
    BY <2>2, FS_Subset
  <2> DEFINE g == [s \in SUBSET T |->
                     IF s = {} THEN 0
                     ELSE f[Pick(s)] + Steps(s \ {Pick(s)})[s \ {Pick(s)}]]
  <2>4. ASSUME NEW s \in SUBSET T, s # T
        PROVE  g[s] = Steps(s)[s]
    <3>1. SumSteps(f, s, Steps(s))
      BY <2>3, <2>4
    <3>2. CASE s = {}
      BY <3>1, <3>2, SumStepsValue
    <3>3. CASE s # {}
      <4> DEFINE u == s \ {Pick(s)}
      <4>1. u \in SUBSET s /\ u \in SUBSET T /\ u # T
        BY <2>4
      <4>2. SumSteps(f, u, Steps(u)) /\ IsFiniteSet(u)
        BY <2>3, <4>1
      <4>3. [v \in SUBSET u |-> Steps(s)[v]] = Steps(u)
        <5> HIDE DEF u, Steps
        <5>1. SumSteps(f, u, [v \in SUBSET u |-> Steps(s)[v]])
          BY <3>1, <4>1, SumStepsRestrict
        <5> QED
          BY <4>2, <5>1, SumStepsUnique
      <4>4. Steps(s)[u] = Steps(u)[u]
        BY <4>3
      <4>5. Steps(s)[s] = f[Pick(s)] + Steps(s)[u]
        BY <3>1, <3>3, SumStepsValue
      <4> QED
        BY <3>3, <4>4, <4>5
    <3> QED
      BY <3>2, <3>3
  <2>5. ASSUME NEW s \in SUBSET T
        PROVE  g[s] = IF s = {} THEN 0 ELSE f[Pick(s)] + g[s \ {Pick(s)}]
    <3>1. CASE s = {}
      BY <3>1
    <3>2. CASE s # {}
      <4>1. s \ {Pick(s)} \in SUBSET T /\ s \ {Pick(s)} # T
        BY <3>2, PickMember
      <4>2. g[s \ {Pick(s)}] = Steps(s \ {Pick(s)})[s \ {Pick(s)}]
        BY <2>4, <4>1
      <4> QED
        BY <3>2, <4>2
    <3> QED
      BY <3>1, <3>2
  <2>6. g = [s \in SUBSET T |-> g[s]]
    OBVIOUS
  <2>7. SumSteps(f, T, g)
    <3> HIDE DEF g
    <3> QED
      BY <2>5, <2>6 DEF SumSteps
  <2>8. SumSteps(f, T, Steps(T))
    <3> HIDE DEF g
    <3> QED
      BY <2>7
  <2> QED
    BY <2>8
<1> QED
  BY <1>1, <1>2

\* The sum of a finite set of terms is the last value of such a function.
LEMMA SumIsLastStep ==
  ASSUME NEW f, NEW T, IsFiniteSet(T), NEW g, SumSteps(f, T, g)
  PROVE  SumFunctionOnSet(f, T) = g[T]
<1> DEFINE iter == CHOOSE h : SumSteps(f, T, h)
<1>1. SumSteps(f, T, iter)
  OBVIOUS
<1>2. iter = g
  <2> HIDE DEF iter
  <2> QED
    BY <1>1, SumStepsUnique
<1>3. SumFunctionOnSet(f, T) = iter[T]
  BY Zenon DEF SumFunctionOnSet, FoldFunctionOnSet, MapThenFoldSet, SumSteps, Pick
<1> QED
  BY <1>2, <1>3

LEMMA SumOnEmpty ==
  ASSUME NEW f
  PROVE  SumFunctionOnSet(f, {}) = 0
<1>1. IsFiniteSet({})
  BY FS_EmptySet
<1>2. PICK g : SumSteps(f, {}, g)
  BY <1>1, SumStepsExist
<1> QED
  BY <1>1, <1>2, SumIsLastStep, SumStepsValue

LEMMA SumOnPick ==
  ASSUME NEW f, NEW T, IsFiniteSet(T), T # {}
  PROVE  SumFunctionOnSet(f, T) = f[Pick(T)] + SumFunctionOnSet(f, T \ {Pick(T)})
<1> DEFINE U == T \ {Pick(T)}
<1>1. PICK g : SumSteps(f, T, g)
  BY SumStepsExist
<1>2. IsFiniteSet(U) /\ U \in SUBSET T
  BY FS_Subset
<1>3. g[T] = f[Pick(T)] + g[U]
  BY <1>1, SumStepsValue
<1>4. SumFunctionOnSet(f, U) = [s \in SUBSET U |-> g[s]][U]
  <2>1. SumSteps(f, U, [s \in SUBSET U |-> g[s]])
    BY <1>1, <1>2, SumStepsRestrict
  <2> HIDE DEF U
  <2> QED
    BY <1>2, <2>1, SumIsLastStep
<1> QED
  BY <1>1, <1>3, <1>4, SumIsLastStep

-----------------------------------------------------------------------------
(* Sums of integers.                                                        *)

LEMMA SumOnInt ==
  ASSUME NEW f, NEW T, IsFiniteSet(T), \A x \in T : f[x] \in Int
  PROVE  SumFunctionOnSet(f, T) \in Int
<1> DEFINE D == {U \in SUBSET T : SumFunctionOnSet(f, U) \notin Int}
<1>1. CASE D = {}
  BY <1>1
<1>2. CASE D # {}
  <2>1. D \subseteq SUBSET T
    OBVIOUS
  <2>2. PICK U \in D : \A V \in D : V \subseteq U => V = U
    <3> HIDE DEF D
    <3> QED
      BY <1>2, <2>1, SubsetMinimal
  <2>3. U # {}
    BY SumOnEmpty
  <2>4. Pick(U) \in T /\ SumFunctionOnSet(f, U \ {Pick(U)}) \in Int
    <3>1. Pick(U) \in U /\ U \in SUBSET T
      BY <2>1, <2>2, <2>3, PickMember
    <3> DEFINE V == U \ {Pick(U)}
    <3>2. V \in SUBSET T /\ V \subseteq U /\ V # U
      BY <3>1
    <3> HIDE DEF V
    <3>3. V \notin D
      BY <2>2, <3>2
    <3>4. SumFunctionOnSet(f, V) \in Int
      BY <3>2, <3>3
    <3> QED
      BY <3>1, <3>4 DEF V
  <2>5. SumFunctionOnSet(f, U) = f[Pick(U)] + SumFunctionOnSet(f, U \ {Pick(U)})
    <3>1. IsFiniteSet(U)
      BY FS_Subset
    <3> QED
      BY ONLY <2>3, <3>1, SumOnPick
  <2> QED
    BY <2>4, <2>5
<1> QED
  BY <1>1, <1>2

\* Any term may be taken out of a sum.
LEMMA SumOnRemove ==
  ASSUME NEW f, NEW T, IsFiniteSet(T), \A y \in T : f[y] \in Int, NEW x \in T
  PROVE  SumFunctionOnSet(f, T) = f[x] + SumFunctionOnSet(f, T \ {x})
<1> DEFINE S(U) == SumFunctionOnSet(f, U)
           D == {U \in SUBSET T : \E y \in U : S(U) # f[y] + S(U \ {y})}
<1>1. CASE D = {}
  BY <1>1
<1>2. CASE D # {}
  <2>1. D \subseteq SUBSET T
    OBVIOUS
  <2>2. PICK U \in D : \A V \in D : V \subseteq U => V = U
    <3> HIDE DEF D
    <3> QED
      BY <1>2, <2>1, SubsetMinimal
  <2>3. PICK y \in U : S(U) # f[y] + S(U \ {y})
    OBVIOUS
  <2> DEFINE c == Pick(U)
             W == (U \ {c}) \ {y}
  <2>4. IsFiniteSet(U) /\ c \in U
    BY <2>3, FS_Subset, PickMember
  <2>5. S(U) = f[c] + S(U \ {c})
    BY <2>3, <2>4, SumOnPick
  <2>6. c # y
    BY <2>3, <2>5
  <2>7. \A V \in SUBSET U : V # U => \A z \in V : S(V) = f[z] + S(V \ {z})
    BY <2>2
  <2>8. S(U \ {c}) = f[y] + S(W)
    BY <2>4, <2>6, <2>7
  <2>9. S(U \ {y}) = f[c] + S(W)
    <3>1. (U \ {y}) \ {c} = W
      OBVIOUS
    <3> QED
      BY <2>4, <2>6, <2>7, <3>1
  <2>10. S(W) \in Int /\ f[c] \in Int /\ f[y] \in Int
    BY <2>4, FS_Subset, SumOnInt
  <2> QED
    BY <2>3, <2>5, <2>8, <2>9, <2>10
<1> QED
  BY <1>1, <1>2

\* A sum depends on its terms only.
LEMMA SumOnSame ==
  ASSUME NEW f, NEW g, NEW T, IsFiniteSet(T), \A x \in T : f[x] = g[x]
  PROVE  SumFunctionOnSet(f, T) = SumFunctionOnSet(g, T)
<1> DEFINE D == {U \in SUBSET T : SumFunctionOnSet(f, U) # SumFunctionOnSet(g, U)}
<1>1. CASE D = {}
  BY <1>1
<1>2. CASE D # {}
  <2>1. D \subseteq SUBSET T
    OBVIOUS
  <2>2. PICK U \in D : \A V \in D : V \subseteq U => V = U
    <3> HIDE DEF D
    <3> QED
      BY <1>2, <2>1, SubsetMinimal
  <2>3. U # {} /\ IsFiniteSet(U)
    <3>1. IsFiniteSet(U)
      BY FS_Subset
    <3>2. U # {}
      BY SumOnEmpty
    <3> QED
      BY <3>1, <3>2
  <2> DEFINE V == U \ {Pick(U)}
  <2>4. Pick(U) \in T /\ SumFunctionOnSet(f, V) = SumFunctionOnSet(g, V)
    BY <2>2, <2>3, PickMember
  <2>5. /\ SumFunctionOnSet(f, U) = f[Pick(U)] + SumFunctionOnSet(f, V)
        /\ SumFunctionOnSet(g, U) = g[Pick(U)] + SumFunctionOnSet(g, V)
    BY <2>3, SumOnPick
  <2> QED
    BY <2>4, <2>5
<1> QED
  BY <1>1, <1>2

\* Sums of sums, and of parts.
LEMMA SumOnAdd ==
  ASSUME NEW f, NEW g, NEW h, NEW T, IsFiniteSet(T),
         \A x \in T : f[x] \in Int /\ g[x] \in Int /\ h[x] = f[x] + g[x]
  PROVE  SumFunctionOnSet(h, T) = SumFunctionOnSet(f, T) + SumFunctionOnSet(g, T)
<1> DEFINE D == {U \in SUBSET T : SumFunctionOnSet(h, U)
                                  # SumFunctionOnSet(f, U) + SumFunctionOnSet(g, U)}
<1>1. CASE D = {}
  BY <1>1
<1>2. CASE D # {}
  <2>1. D \subseteq SUBSET T
    OBVIOUS
  <2>2. PICK U \in D : \A V \in D : V \subseteq U => V = U
    <3> HIDE DEF D
    <3> QED
      BY <1>2, <2>1, SubsetMinimal
  <2>3. U # {} /\ IsFiniteSet(U)
    <3>1. IsFiniteSet(U)
      BY FS_Subset
    <3>2. /\ SumFunctionOnSet(f, {}) = 0 /\ SumFunctionOnSet(g, {}) = 0
          /\ SumFunctionOnSet(h, {}) = 0
      BY SumOnEmpty
    <3>3. ASSUME U = {} PROVE FALSE
      <4>1. SumFunctionOnSet(h, {}) # SumFunctionOnSet(f, {}) + SumFunctionOnSet(g, {})
        BY <2>2, <3>3
      <4> QED
        BY <3>2, <4>1
    <3> QED
      BY <3>1, <3>3
  <2> DEFINE V == U \ {Pick(U)}
  <2>4. Pick(U) \in T
        /\ SumFunctionOnSet(h, V) = SumFunctionOnSet(f, V) + SumFunctionOnSet(g, V)
    BY <2>2, <2>3, PickMember
  <2>5. /\ SumFunctionOnSet(f, U) = f[Pick(U)] + SumFunctionOnSet(f, V)
        /\ SumFunctionOnSet(g, U) = g[Pick(U)] + SumFunctionOnSet(g, V)
        /\ SumFunctionOnSet(h, U) = h[Pick(U)] + SumFunctionOnSet(h, V)
    BY <2>3, SumOnPick
  <2>6. SumFunctionOnSet(f, V) \in Int /\ SumFunctionOnSet(g, V) \in Int
    BY <2>3, FS_Subset, SumOnInt
  <2> QED
    BY <2>4, <2>5, <2>6
<1> QED
  BY <1>1, <1>2

LEMMA SumOnNat ==
  ASSUME NEW f, NEW T, IsFiniteSet(T), \A x \in T : f[x] \in Nat
  PROVE  /\ SumFunctionOnSet(f, T) \in Nat
         /\ \A x \in T : f[x] <= SumFunctionOnSet(f, T)
<1> DEFINE D == {U \in SUBSET T : SumFunctionOnSet(f, U) \notin Nat}
<1>1. D = {}
  <2> SUFFICES ASSUME D # {} PROVE FALSE
    OBVIOUS
  <2>1. D \subseteq SUBSET T
    OBVIOUS
  <2>2. PICK U \in D : \A V \in D : V \subseteq U => V = U
    <3> HIDE DEF D
    <3> QED
      BY <2>1, SubsetMinimal
  <2>3. U # {} /\ IsFiniteSet(U)
    <3>1. IsFiniteSet(U)
      BY FS_Subset
    <3>2. U # {}
      BY SumOnEmpty
    <3> QED
      BY <3>1, <3>2
  <2>4. Pick(U) \in T /\ SumFunctionOnSet(f, U \ {Pick(U)}) \in Nat
    BY <2>2, <2>3, PickMember
  <2>5. SumFunctionOnSet(f, U) = f[Pick(U)] + SumFunctionOnSet(f, U \ {Pick(U)})
    BY <2>3, SumOnPick
  <2> QED
    BY <2>4, <2>5
<1>2. ASSUME NEW x \in T PROVE f[x] <= SumFunctionOnSet(f, T)
  <2>1. SumFunctionOnSet(f, T \ {x}) \in Nat /\ f[x] \in Nat
    BY <1>1
  <2>2. SumFunctionOnSet(f, T) = f[x] + SumFunctionOnSet(f, T \ {x})
    BY SumOnRemove
  <2> QED
    BY <2>1, <2>2
<1> QED
  BY <1>1, <1>2

LEMMA SumOnZero ==
  ASSUME NEW f, NEW T, IsFiniteSet(T), \A x \in T : f[x] = 0
  PROVE  SumFunctionOnSet(f, T) = 0
<1>1. SumFunctionOnSet(f, T) \in Int /\ \A x \in T : f[x] = f[x] + f[x]
  BY SumOnInt
<1>2. SumFunctionOnSet(f, T) = SumFunctionOnSet(f, T) + SumFunctionOnSet(f, T)
  BY <1>1, SumOnAdd
<1>3. \A i \in Int : i = i + i => i = 0
  OBVIOUS
<1> QED
  BY <1>1, <1>2, <1>3

\* Terms that vanish may be left out.
LEMMA SumOnPart ==
  ASSUME NEW f, NEW T, IsFiniteSet(T), \A x \in T : f[x] \in Int,
         NEW U \in SUBSET T, \A x \in T \ U : f[x] = 0
  PROVE  SumFunctionOnSet(f, T) = SumFunctionOnSet(f, U)
<1> DEFINE S(V) == SumFunctionOnSet(f, V)
           D == {V \in SUBSET T : U \subseteq V /\ S(V) # S(U)}
<1>1. CASE D = {}
  BY <1>1
<1>2. CASE D # {}
  <2>1. D \subseteq SUBSET T
    OBVIOUS
  <2>2. PICK V \in D : \A W \in D : W \subseteq V => W = V
    <3> HIDE DEF D
    <3> QED
      BY <1>2, <2>1, SubsetMinimal
  <2>3. PICK x \in V : x \notin U
    BY <2>2
  <2>4. IsFiniteSet(V) /\ S(V \ {x}) = S(U)
    BY <2>2, <2>3, FS_Subset
  <2>5. S(V) = f[x] + S(V \ {x})
    BY <2>4, SumOnRemove
  <2>6. S(V \ {x}) \in Int /\ f[x] = 0
    BY <2>3, <2>4, FS_Subset, SumOnInt
  <2> QED
    BY <2>2, <2>4, <2>5, <2>6
<1> QED
  BY <1>1, <1>2

\* Changing one term changes the sum by as much.
LEMMA SumOnUpdate ==
  ASSUME NEW f, NEW g, NEW T, IsFiniteSet(T), NEW x \in T,
         \A y \in T : f[y] \in Int /\ g[y] \in Int,
         \A y \in T \ {x} : g[y] = f[y]
  PROVE  SumFunctionOnSet(g, T) = SumFunctionOnSet(f, T) - f[x] + g[x]
<1> DEFINE U == T \ {x}
<1>1. IsFiniteSet(U)
  BY FS_RemoveElement
<1>2. SumFunctionOnSet(f, U) \in Int /\ SumFunctionOnSet(g, U) = SumFunctionOnSet(f, U)
  BY <1>1, SumOnInt, SumOnSame
<1>3. /\ SumFunctionOnSet(f, T) = f[x] + SumFunctionOnSet(f, U)
      /\ SumFunctionOnSet(g, T) = g[x] + SumFunctionOnSet(g, U)
  BY SumOnRemove
<1> QED
  BY <1>2, <1>3

\* An element of the domain more.
LEMMA SumOnInsert ==
  ASSUME NEW f, NEW T, IsFiniteSet(T), NEW x, x \notin T, \A y \in T \cup {x} : f[y] \in Int
  PROVE  SumFunctionOnSet(f, T \cup {x}) = f[x] + SumFunctionOnSet(f, T)
<1>1. IsFiniteSet(T \cup {x}) /\ (T \cup {x}) \ {x} = T
  BY FS_AddElement
<1> QED
  BY <1>1, SumOnRemove

LEMMA SumOnScale ==
  ASSUME NEW f, NEW T, IsFiniteSet(T), \A x \in T : f[x] \in Int, NEW c \in Int,
         NEW g, \A x \in T : g[x] = c * f[x]
  PROVE  SumFunctionOnSet(g, T) = c * SumFunctionOnSet(f, T)
<1> DEFINE S(V) == SumFunctionOnSet(f, V)
           R(V) == SumFunctionOnSet(g, V)
           D == {V \in SUBSET T : R(V) # c * S(V)}
<1>1. CASE D = {}
  BY <1>1
<1>2. CASE D # {}
  <2>1. D \subseteq SUBSET T
    OBVIOUS
  <2>2. PICK V \in D : \A W \in D : W \subseteq V => W = V
    <3> HIDE DEF D
    <3> QED
      BY <1>2, <2>1, SubsetMinimal
  <2>3. V # {} /\ IsFiniteSet(V)
    <3>1. R({}) = 0 /\ S({}) = 0 /\ c * 0 = 0
      BY SumOnEmpty
    <3>2. IsFiniteSet(V)
      BY FS_Subset
    <3> QED
      BY <2>2, <3>1, <3>2
  <2> DEFINE x == Pick(V)
             W == V \ {x}
  <2>4. x \in T /\ R(W) = c * S(W)
    BY <2>2, <2>3, PickMember
  <2>5. R(V) = g[x] + R(W) /\ S(V) = f[x] + S(W)
    BY <2>3, SumOnPick
  <2>6. S(W) \in Int /\ f[x] \in Int /\ g[x] = c * f[x]
    BY <2>3, <2>4, FS_Subset, SumOnInt
  <2>7. \A m, n \in Int : c * (m + n) = c * m + c * n
    OBVIOUS
  <2>8. R(V) = c * S(V)
    <3> HIDE DEF R, S, x, W
    <3> QED
      BY <2>4, <2>5, <2>6, <2>7
  <2> QED
    BY <2>2, <2>8
<1> QED
  BY <1>1, <1>2

\* The terms of a sum may be named otherwise, as long as each keeps its own name.
LEMMA SumOnImage ==
  ASSUME NEW f, NEW g, NEW S, IsFiniteSet(S), NEW T, NEW h \in Bijection(S, T),
         \A x \in S : f[x] \in Int /\ g[h[x]] = f[x]
  PROVE  SumFunctionOnSet(g, T) = SumFunctionOnSet(f, S)
<1> DEFINE Image(V) == {h[x] : x \in V}
           R(V) == SumFunctionOnSet(g, Image(V))
           Q(V) == SumFunctionOnSet(f, V)
           D == {V \in SUBSET S : R(V) # Q(V)}
<1>1. /\ \A x, y \in S : h[x] = h[y] => x = y
      /\ Image(S) = T /\ IsFiniteSet(T)
  <2>1. h \in Surjection(S, T)
    BY DEF Bijection
  <2>2. IsFiniteSet(T)
    BY <2>1, FS_Surjection
  <2> QED
    BY <2>2 DEF Bijection, Injection, Surjection, IsInjective
<1>2. ASSUME D # {} PROVE FALSE
  <2>1. D \subseteq SUBSET S
    OBVIOUS
  <2>2. PICK V \in D : \A W \in D : W \subseteq V => W = V
    <3> HIDE DEF D
    <3> QED
      BY <1>2, <2>1, SubsetMinimal
  <2>3. V # {} /\ IsFiniteSet(V)
    <3>1. Image({}) = {}
      OBVIOUS
    <3>2. R({}) = 0 /\ Q({}) = 0
      BY <3>1, SumOnEmpty
    <3>3. IsFiniteSet(V)
      BY FS_Subset
    <3> QED
      BY <2>2, <3>2, <3>3
  <2> DEFINE x == Pick(V)
             W == V \ {x}
  <2>4. x \in V /\ x \in S /\ R(W) = Q(W)
    BY <2>2, <2>3, PickMember
  <2> HIDE DEF x
  <2>5. Q(V) = f[x] + Q(W)
    BY <2>3, SumOnPick DEF x
  <2>6. Image(W) = Image(V) \ {h[x]} /\ h[x] \in Image(V)
    BY <1>1, <2>4
  <2>7. IsFiniteSet(Image(V))
    <3>1. Image(V) \in SUBSET T
      BY <1>1
    <3> HIDE DEF Image
    <3> QED
      BY <1>1, <3>1, FS_Subset
  <2>8. \A y \in Image(V) : g[y] \in Int
    OBVIOUS
  <2>9. R(V) = g[h[x]] + R(W)
    <3>1. SumFunctionOnSet(g, Image(V)) = g[h[x]] + SumFunctionOnSet(g, Image(V) \ {h[x]})
      <4> HIDE DEF Image
      <4> QED
        BY <2>6, <2>7, <2>8, SumOnRemove
    <3> QED
      BY <2>6, <3>1
  <2> QED
    BY <2>2, <2>4, <2>5, <2>9
<1>3. R(S) = Q(S)
  BY <1>2
<1> QED
  BY <1>1, <1>3

RowSums(f, S, T) == [x \in S |-> SumFunctionOnSet(f[x], T)]
Column(f, S, y) == [x \in S |-> f[x][y]]
ColumnSums(f, S, T) == [y \in T |-> SumFunctionOnSet(Column(f, S, y), S)]

\* The sum of the rows of a table is the sum of its columns.
LEMMA SumOnExchange ==
  ASSUME NEW S, IsFiniteSet(S), NEW T, IsFiniteSet(T),
         NEW f, \A x \in S, y \in T : f[x][y] \in Int
  PROVE  SumFunctionOnSet(RowSums(f, S, T), S) = SumFunctionOnSet(ColumnSums(f, S, T), T)
<1> DEFINE rows == RowSums(f, S, T)
           column == [y \in T |-> Column(f, S, y)]
           columns == ColumnSums(f, S, T)
<1>1. \A x \in S : rows[x] = SumFunctionOnSet(f[x], T)
  BY DEF RowSums
<1>2. /\ \A y \in T : columns[y] = SumFunctionOnSet(column[y], S)
      /\ \A x \in S, y \in T : column[y][x] = f[x][y]
  BY DEF Column, ColumnSums
<1> HIDE DEF rows, column, columns
<1> USE <1>1, <1>2
<1> DEFINE R(V) == SumFunctionOnSet(rows, V)
           part(V) == [y \in T |-> SumFunctionOnSet(column[y], V)]
           Q(V) == SumFunctionOnSet(part(V), T)
           D == {V \in SUBSET S : R(V) # Q(V)}
<1>0. ASSUME NEW V \in SUBSET S PROVE IsFiniteSet(V)
  BY FS_Subset
<1>3. ASSUME D # {} PROVE FALSE
  <2>1. D \subseteq SUBSET S
    OBVIOUS
  <2>2. PICK V \in D : \A W \in D : W \subseteq V => W = V
    <3> HIDE DEF D
    <3> QED
      BY <1>3, <2>1, SubsetMinimal
  <2>3. V # {}
    <3>1. \A y \in T : part({})[y] = 0
      BY SumOnEmpty
    <3>2. R({}) = 0
      BY SumOnEmpty
    <3>3. Q({}) = 0
      <4> HIDE DEF part
      <4> QED
        BY <3>1, SumOnZero
    <3> QED
      BY <2>2, <3>2, <3>3
  <2> DEFINE x == Pick(V)
             W == V \ {x}
  <2>4. x \in V /\ x \in S /\ V \in SUBSET S /\ W \in SUBSET S /\ R(W) = Q(W)
    BY <2>2, <2>3, PickMember
  <2> HIDE DEF x
  <2>5. IsFiniteSet(V) /\ IsFiniteSet(W)
    BY <1>0, <2>4
  <2>6. R(V) = rows[x] + R(W)
    BY <2>3, <2>5, SumOnPick DEF x
  <2>7. \A y \in T : /\ part(W)[y] \in Int
                     /\ part(V)[y] = f[x][y] + part(W)[y]
    <3> TAKE y \in T
    <3>1. \A z \in V : column[y][z] \in Int
      BY <2>4
    <3>2. SumFunctionOnSet(column[y], V) = column[y][x] + SumFunctionOnSet(column[y], W)
      BY <2>4, <2>5, <3>1, SumOnRemove
    <3>3. SumFunctionOnSet(column[y], W) \in Int
      BY <2>5, <3>1, SumOnInt
    <3> QED
      BY <2>4, <3>2, <3>3
  <2>8. Q(V) = rows[x] + Q(W)
    <3>1. \A y \in T : f[x][y] \in Int
      BY <2>4
    <3>2. SumFunctionOnSet(part(V), T)
            = SumFunctionOnSet(f[x], T) + SumFunctionOnSet(part(W), T)
      <4> DEFINE u == part(V)
                 v == part(W)
                 t == f[x]
      <4>1. \A y \in T : t[y] \in Int /\ v[y] \in Int /\ u[y] = t[y] + v[y]
        BY <2>7, <3>1
      <4> HIDE DEF u, v, t
      <4>2. SumFunctionOnSet(u, T) = SumFunctionOnSet(t, T) + SumFunctionOnSet(v, T)
        BY <4>1, SumOnAdd
      <4> QED
        BY <4>2 DEF u, v, t
    <3> QED
      BY <2>4, <3>2
  <2> QED
    BY <2>2, <2>4, <2>6, <2>8
<1>4. R(S) = Q(S)
  BY <1>3
<1>5. SumFunctionOnSet(part(S), T) = SumFunctionOnSet(columns, T)
  <2>1. \A y \in T : part(S)[y] = columns[y]
    OBVIOUS
  <2> HIDE DEF part
  <2> QED
    BY <2>1, SumOnSame
<1> QED
  BY <1>4, <1>5 DEF rows, columns

-----------------------------------------------------------------------------
(* Ranks: how many members of a finite set come before one.                 *)

\* Under a strict total order every rank below the cardinality is taken once.
LEMMA RankBijection ==
  ASSUME NEW S, IsFiniteSet(S), NEW ahead,
         \A x \in S : ahead[x] \subseteq S /\ x \notin ahead[x],
         \A x, y \in S : x = y \/ x \in ahead[y] \/ y \in ahead[x],
         \A x, y \in S : x \in ahead[y] => ahead[x] \subseteq ahead[y]
  PROVE  [x \in S |-> Cardinality(ahead[x])] \in Bijection(S, 0 .. (Cardinality(S) - 1))
<1> DEFINE n == Cardinality(S)
           rank == [x \in S |-> Cardinality(ahead[x])]
           T == 0 .. (n - 1)
<1>1. n \in Nat /\ IsFiniteSet(T) /\ Cardinality(T) = n
  <2>1. n \in Nat
    BY FS_CardinalityType
  <2> HIDE DEF n
  <2>2. IsFiniteSet(T) /\ Cardinality(T) = IF 0 > n - 1 THEN 0 ELSE (n - 1) - 0 + 1
    BY <2>1, FS_Interval
  <2> QED
    BY <2>1, <2>2
<1>2. ASSUME NEW x \in S PROVE rank[x] \in T /\ IsFiniteSet(ahead[x])
  <2>1. ahead[x] \in SUBSET S /\ ahead[x] # S
    OBVIOUS
  <2>2. IsFiniteSet(ahead[x]) /\ Cardinality(ahead[x]) <= n /\ Cardinality(ahead[x]) # n
    BY <2>1, FS_Subset
  <2>3. Cardinality(ahead[x]) \in Nat
    BY <2>2, FS_CardinalityType
  <2> HIDE DEF n
  <2> QED
    BY <1>1, <2>2, <2>3
<1>3. ASSUME NEW x \in S, NEW y \in S, x \in ahead[y] PROVE rank[x] # rank[y]
  <2>1. ahead[x] \in SUBSET ahead[y] /\ ahead[x] # ahead[y]
    BY <1>3
  <2> QED
    BY <1>2, <2>1, FS_Subset
<1>4. rank \in Injection(S, T)
  <2>1. rank \in [S -> T]
    BY <1>2
  <2>2. \A x, y \in S : rank[x] = rank[y] => x = y
    BY <1>3
  <2> HIDE DEF rank, T
  <2> QED
    BY <2>1, <2>2 DEF Injection, IsInjective
<1>5. rank \in Surjection(S, T)
  <2> HIDE DEF rank, T
  <2> QED
    BY <1>1, <1>4, FS_Injection
<1> QED
  BY <1>4, <1>5 DEF Bijection

\* So the first m are m.
LEMMA RankCount ==
  ASSUME NEW S, IsFiniteSet(S), NEW ahead,
         \A x \in S : ahead[x] \subseteq S /\ x \notin ahead[x],
         \A x, y \in S : x = y \/ x \in ahead[y] \/ y \in ahead[x],
         \A x, y \in S : x \in ahead[y] => ahead[x] \subseteq ahead[y],
         NEW m \in 0 .. Cardinality(S)
  PROVE  Cardinality({x \in S : Cardinality(ahead[x]) < m}) = m
<1> DEFINE n == Cardinality(S)
           rank == [x \in S |-> Cardinality(ahead[x])]
           first == {x \in S : rank[x] < m}
           place == [x \in first |-> rank[x]]
           T == 0 .. (m - 1)
<1>1. n \in Nat /\ m \in Nat /\ m <= n
  BY FS_CardinalityType
<1>2. rank \in Bijection(S, 0 .. (n - 1))
  BY RankBijection
<1>3. /\ \A x \in S : rank[x] \in Nat
      /\ \A x, y \in S : rank[x] = rank[y] => x = y
      /\ \A r \in 0 .. (n - 1) : \E x \in S : rank[x] = r
  <2> HIDE DEF rank, n
  <2>1. /\ rank \in [S -> 0 .. (n - 1)]
        /\ \A x, y \in S : rank[x] = rank[y] => x = y
        /\ \A r \in 0 .. (n - 1) : \E x \in S : rank[x] = r
    BY <1>2 DEF Bijection, Injection, Surjection, IsInjective
  <2> QED
    BY <1>1, <2>1
<1> HIDE DEF rank, n
<1>4. place \in [first -> T]
  BY <1>1, <1>3
<1>5. \A x, y \in first : place[x] = place[y] => x = y
  BY <1>3
<1>6. \A r \in T : \E x \in first : place[x] = r
  BY <1>1, <1>3
<1>7. place \in Bijection(first, T)
  <2> HIDE DEF place, first, T
  <2> QED
    BY <1>4, <1>5, <1>6 DEF Bijection, Injection, Surjection, IsInjective
<1>8. IsFiniteSet(first)
  <2>1. first \in SUBSET S
    OBVIOUS
  <2> HIDE DEF first
  <2> QED
    BY <2>1, FS_Subset
<1>9. Cardinality(T) = Cardinality(first)
  <2> HIDE DEF place, first, T
  <2> QED
    BY <1>7, <1>8, FS_Bijection DEF ExistsBijection
<1>10. Cardinality(T) = m
  <2>1. Cardinality(T) = IF 0 > m - 1 THEN 0 ELSE (m - 1) - 0 + 1
    BY <1>1, FS_Interval
  <2> QED
    BY <1>1, <2>1
<1>11. first = {x \in S : Cardinality(ahead[x]) < m}
  BY DEF rank
<1> QED
  BY <1>9, <1>10, <1>11

\* A sum of ones counts.
LEMMA SumOnOnes ==
  ASSUME NEW f, NEW T, IsFiniteSet(T), NEW U \in SUBSET T,
         \A x \in T : f[x] = IF x \in U THEN 1 ELSE 0
  PROVE  SumFunctionOnSet(f, T) = Cardinality(U)
<1> DEFINE D == {V \in SUBSET T : SumFunctionOnSet(f, V) # Cardinality(V \intersect U)}
<1>1. ASSUME D # {} PROVE FALSE
  <2>1. D \subseteq SUBSET T
    OBVIOUS
  <2>2. PICK V \in D : \A W \in D : W \subseteq V => W = V
    <3> HIDE DEF D
    <3> QED
      BY <1>1, <2>1, SubsetMinimal
  <2>3. V # {} /\ IsFiniteSet(V)
    <3>1. SumFunctionOnSet(f, {}) = 0 /\ Cardinality({} \intersect U) = 0
      BY SumOnEmpty, FS_EmptySet
    <3>2. IsFiniteSet(V)
      BY FS_Subset
    <3> QED
      BY <2>2, <3>1, <3>2
  <2> DEFINE x == Pick(V)
             W == V \ {x}
  <2>4. x \in V /\ x \in T /\ SumFunctionOnSet(f, W) = Cardinality(W \intersect U)
    BY <2>2, <2>3, PickMember
  <2>5. SumFunctionOnSet(f, V) = f[x] + SumFunctionOnSet(f, W)
    BY <2>3, SumOnPick
  <2> HIDE DEF x
  <2>6. W \intersect U = (V \intersect U) \ {x} /\ IsFiniteSet(V \intersect U)
    BY <2>3, FS_Intersection
  <2>7. /\ Cardinality(W \intersect U) = IF x \in V \intersect U THEN Cardinality(V \intersect U) - 1
                                        ELSE Cardinality(V \intersect U)
        /\ Cardinality(V \intersect U) \in Nat
    <3> DEFINE A == V \intersect U
    <3>1. IsFiniteSet(A) /\ W \intersect U = A \ {x}
      BY <2>6
    <3> HIDE DEF A, W
    <3>2. Cardinality(A \ {x}) = IF x \in A THEN Cardinality(A) - 1 ELSE Cardinality(A)
      BY <3>1, FS_RemoveElement
    <3>3. Cardinality(A) \in Nat
      BY <3>1, FS_CardinalityType
    <3> QED
      BY <3>1, <3>2, <3>3 DEF A
  <2>8. SumFunctionOnSet(f, V) = Cardinality(V \intersect U)
    BY <2>4, <2>5, <2>7
  <2> QED
    BY <2>2, <2>8
<1>2. T \intersect U = U
  OBVIOUS
<1> QED
  BY <1>1, <1>2

-----------------------------------------------------------------------------
(* Sequences.  FlattenSeq is a recursive function on the indices: that it   *)
(* exists, and is one, makes it append the last member to the others; what  *)
(* follows is by induction on the sequence, as a set of sequences that      *)
(* holds the empty one and is closed under Append.                          *)

\* The steps of FlattenSeq over the first n of some sequences.
FlatSteps(qs, n, g) ==
  g = [i \in 1 .. n |-> IF i = 1 THEN qs[i] ELSE g[i - 1] \o qs[i]]

LEMMA FlatStepsExist ==
  ASSUME NEW qs, NEW n \in Nat
  PROVE  \E g : FlatSteps(qs, n, g)
<1> DEFINE P(k) == \E g : FlatSteps(qs, k, g)
           Bad == {k \in 0 .. n : ~ P(k)}
<1>1. P(0)
  <2> DEFINE g == [i \in 1 .. 0 |-> qs[i]]
  <2>1. FlatSteps(qs, 0, g)
    BY DEF FlatSteps
  <2> QED
    BY <2>1
<1>2. ASSUME NEW k \in 1 .. n, P(k - 1) PROVE P(k)
  <2>1. PICK g : FlatSteps(qs, k - 1, g)
    BY <1>2
  <2> DEFINE h == [i \in 1 .. k |-> IF i < k THEN g[i]
                                   ELSE IF k = 1 THEN qs[k] ELSE g[k - 1] \o qs[k]]
  <2>2. \A i \in 1 .. k - 1 : g[i] = IF i = 1 THEN qs[i] ELSE g[i - 1] \o qs[i]
    BY <2>1, Zenon DEF FlatSteps
  <2>3. \A i \in 1 .. k : h[i] = IF i = 1 THEN qs[i] ELSE h[i - 1] \o qs[i]
    <3> SUFFICES ASSUME NEW i \in 1 .. k
                 PROVE  h[i] = IF i = 1 THEN qs[i] ELSE h[i - 1] \o qs[i]
      OBVIOUS
    <3>1. CASE i < k
      <4>1. i \in 1 .. k - 1 /\ h[i] = g[i] /\ (i # 1 => h[i - 1] = g[i - 1])
        BY <3>1
      <4> QED
        BY <2>2, <4>1
    <3>2. CASE i = k
      BY <3>2
    <3> QED
      BY <3>1, <3>2
  <2>4. FlatSteps(qs, k, h)
    <3> HIDE DEF h
    <3>1. h = [i \in 1 .. k |-> h[i]]
      BY DEF h
    <3> QED
      BY <2>3, <3>1 DEF FlatSteps
  <2> QED
    BY <2>4
<1> HIDE DEF P
<1>3. CASE Bad # {}
  <2>1. Bad \subseteq Int /\ IsFiniteSet(Bad)
    <3> DEFINE D == 0 .. n
    <3>1. Bad \in SUBSET D /\ D \subseteq Int
      OBVIOUS
    <3>2. IsFiniteSet(D)
      BY FS_Interval
    <3> HIDE DEF Bad, D
    <3> QED
      BY <3>1, <3>2, FS_Subset
  <2> DEFINE m == Min(Bad)
  <2>2. m \in Bad /\ \A k \in Bad : m <= k
    <3> HIDE DEF Bad
    <3> QED
      BY <1>3, <2>1, MinMember
  <2> HIDE DEF m
  <2>3. m \in 1 .. n /\ m - 1 \in 0 .. n /\ m - 1 < m
    BY <1>1, <2>2
  <2>4. P(m - 1)
    BY <2>2, <2>3
  <2> QED
    BY <1>2, <2>2, <2>3, <2>4
<1>4. CASE Bad = {}
  BY <1>4 DEF P
<1> QED
  BY <1>3, <1>4

\* Steps over the same sequences agree.
LEMMA FlatStepsAgree ==
  ASSUME NEW qs, NEW ps, NEW n, NEW m, NEW g, NEW h,
         FlatSteps(qs, n, g), FlatSteps(ps, m, h),
         n \in Nat, m \in Nat, n <= m, \A i \in 1 .. n : ps[i] = qs[i]
  PROVE  \A i \in 1 .. n : g[i] = h[i]
<1> DEFINE Bad == {i \in 1 .. n : g[i] # h[i]}
<1>1. \A i \in 1 .. n : g[i] = IF i = 1 THEN qs[i] ELSE g[i - 1] \o qs[i]
  BY Zenon DEF FlatSteps
<1>2. \A i \in 1 .. m : h[i] = IF i = 1 THEN ps[i] ELSE h[i - 1] \o ps[i]
  BY Zenon DEF FlatSteps
<1>3. CASE Bad # {}
  <2>1. Bad \subseteq Int /\ IsFiniteSet(Bad)
    <3> DEFINE D == 1 .. n
    <3>1. Bad \in SUBSET D /\ D \subseteq Int
      OBVIOUS
    <3>2. IsFiniteSet(D)
      BY FS_Interval
    <3> HIDE DEF Bad, D
    <3> QED
      BY <3>1, <3>2, FS_Subset
  <2> DEFINE j == Min(Bad)
  <2>2. j \in Bad /\ \A k \in Bad : j <= k
    <3> HIDE DEF Bad
    <3> QED
      BY <1>3, <2>1, MinMember
  <2> HIDE DEF j
  <2>3. j \in 1 .. n /\ j \in 1 .. m /\ g[j] # h[j]
    BY <2>2
  <2>4. j # 1 => g[j - 1] = h[j - 1]
    <3>1. j # 1 => j - 1 \in 1 .. n /\ j - 1 < j
      BY <2>3
    <3> QED
      BY <2>2, <3>1
  <2> QED
    BY <1>1, <1>2, <2>3, <2>4
<1>4. CASE Bad = {}
  BY <1>4
<1> QED
  BY <1>3, <1>4

LEMMA FlatIsLastStep ==
  ASSUME NEW qs, Len(qs) \in Nat \ {0}, NEW g, FlatSteps(qs, Len(qs), g)
  PROVE  FlattenSeq(qs) = g[Len(qs)]
<1> DEFINE n == Len(qs)
           chosen == CHOOSE h : FlatSteps(qs, n, h)
<1>0. FlatSteps(qs, n, g)
  OBVIOUS
<1>1. FlatSteps(qs, n, chosen)
  OBVIOUS
<1>2. FlattenSeq(qs) = chosen[n]
  BY Zenon DEF FlattenSeq, FlatSteps
<1>3. chosen[n] = g[n]
  <2> HIDE DEF chosen
  <2>1. n \in Nat /\ n \in 1 .. n /\ n <= n
    OBVIOUS
  <2> HIDE DEF n
  <2>2. \A i \in 1 .. n : chosen[i] = g[i]
    BY <1>0, <1>1, <2>1, FlatStepsAgree
  <2> QED
    BY <2>1, <2>2
<1> QED
  BY <1>2, <1>3

LEMMA FlatEmpty ==
  FlattenSeq(<< >>) = << >>
  BY DEF FlattenSeq

LEMMA FlatAppendSteps ==
  ASSUME NEW X, NEW qs \in Seq(Seq(X)), NEW s \in Seq(X), FlattenSeq(qs) \in Seq(X)
  PROVE  FlattenSeq(Append(qs, s)) = FlattenSeq(qs) \o s
<1> DEFINE n == Len(qs)
           ps == Append(qs, s)
<1>1. /\ n \in Nat /\ n + 1 \in Nat /\ Len(ps) = n + 1 /\ ps[n + 1] = s
      /\ \A i \in 1 .. n : ps[i] = qs[i]
  OBVIOUS
<1>2. PICK g : FlatSteps(ps, n + 1, g)
  BY <1>1, FlatStepsExist
<1>3. FlattenSeq(ps) = g[n + 1]
  <2> HIDE DEF ps, n
  <2>1. Len(ps) \in Nat \ {0}
    BY <1>1
  <2> QED
    BY <1>1, <1>2, <2>1, FlatIsLastStep
<1>4. g[n + 1] = IF n + 1 = 1 THEN ps[n + 1] ELSE g[n] \o ps[n + 1]
  <2> HIDE DEF ps, n
  <2>1. \A i \in 1 .. n + 1 : g[i] = IF i = 1 THEN ps[i] ELSE g[i - 1] \o ps[i]
    BY <1>2, Zenon DEF FlatSteps
  <2>2. n + 1 \in 1 .. n + 1 /\ (n + 1) - 1 = n
    BY <1>1
  <2>3. g[n + 1] = IF n + 1 = 1 THEN ps[n + 1] ELSE g[(n + 1) - 1] \o ps[n + 1]
    BY <2>1, <2>2
  <2> QED
    BY <2>2, <2>3, Zenon
<1>5. CASE n = 0
  <2>1. qs = << >>
    BY <1>5
  <2>2. << >> \o s = s
    OBVIOUS
  <2> QED
    BY <1>1, <1>3, <1>4, <1>5, <2>1, <2>2, FlatEmpty
<1>6. CASE n # 0
  <2>1. PICK h : FlatSteps(qs, n, h)
    BY <1>1, FlatStepsExist
  <2>2. FlattenSeq(qs) = h[n]
    BY <1>1, <1>6, <2>1, FlatIsLastStep
  <2>3. h[n] = g[n]
    <3> HIDE DEF ps, n
    <3>1. n <= n + 1 /\ n \in 1 .. n
      BY <1>1, <1>6
    <3> DEFINE m == n + 1
    <3>2. /\ n \in Nat /\ m \in Nat /\ n <= m /\ \A i \in 1 .. n : ps[i] = qs[i]
          /\ FlatSteps(ps, m, g)
      BY <1>1, <1>2, <3>1
    <3> HIDE DEF m
    <3>3. \A i \in 1 .. n : h[i] = g[i]
      BY ONLY <2>1, <3>2, FlatStepsAgree
    <3> QED
      BY <3>1, <3>3
  <2>4. n + 1 # 1
    BY <1>1, <1>6
  <2> HIDE DEF ps, n
  <2> QED
    BY <1>1, <1>3, <1>4, <2>2, <2>3, <2>4 DEF ps
<1> QED
  BY <1>5, <1>6

LEMMA PrefixGrows ==
  ASSUME NEW X, NEW q \in Seq(X), NEW n \in 1 .. Len(q)
  PROVE  /\ SubSeq(q, 1, n) = Append(SubSeq(q, 1, n - 1), q[n])
         /\ SubSeq(q, 1, n - 1) \in Seq(X) /\ q[n] \in X
         /\ SubSeq(q, 1, n) \in Seq(X)
<1> DEFINE a == SubSeq(q, 1, n)
           b == SubSeq(q, 1, n - 1)
           c == Append(b, q[n])
<1>1. /\ a \in Seq(X) /\ b \in Seq(X) /\ q[n] \in X
      /\ Len(a) = n /\ Len(b) = n - 1
      /\ \A i \in 1 .. n : a[i] = q[i]
      /\ \A i \in 1 .. n - 1 : b[i] = q[i]
  OBVIOUS
<1>2. c \in Seq(X) /\ Len(c) = n /\ \A i \in 1 .. n : c[i] = q[i]
  <2> HIDE DEF a, b
  <2>1. c \in Seq(X) /\ Len(c) = n /\ c[n] = q[n] /\ \A i \in 1 .. n - 1 : c[i] = b[i]
    BY <1>1
  <2> HIDE DEF c
  <2> QED
    BY <1>1, <2>1
<1>3. a = c
  <2> HIDE DEF a, c
  <2> QED
    BY <1>1, <1>2
<1> QED
  BY <1>1, <1>3

LEMMA WholePrefix ==
  ASSUME NEW X, NEW q \in Seq(X)
  PROVE  SubSeq(q, 1, Len(q)) = q /\ SubSeq(q, 1, 0) = << >>
  OBVIOUS

LEMMA SeqInduction ==
  ASSUME NEW X, NEW S, << >> \in S,
         \A q \in Seq(X), x \in X : q \in S => Append(q, x) \in S
  PROVE  \A q \in Seq(X) : q \in S
<1> SUFFICES ASSUME NEW q \in Seq(X) PROVE q \in S
  OBVIOUS
<1> DEFINE P(n) == SubSeq(q, 1, n) \in S
           Bad == {n \in 0 .. Len(q) : ~ P(n)}
<1>1. P(0)
  BY WholePrefix
<1>2. ASSUME NEW n \in 1 .. Len(q), P(n - 1) PROVE P(n)
  <2>1. /\ SubSeq(q, 1, n) = Append(SubSeq(q, 1, n - 1), q[n])
        /\ SubSeq(q, 1, n - 1) \in Seq(X) /\ q[n] \in X
    BY PrefixGrows
  <2> QED
    BY <1>2, <2>1
<1> HIDE DEF P
<1>3. CASE Bad # {}
  <2>1. Bad \subseteq Int /\ IsFiniteSet(Bad)
    <3> DEFINE D == 0 .. Len(q)
    <3>1. Bad \in SUBSET D /\ D \subseteq Int
      OBVIOUS
    <3>2. IsFiniteSet(D)
      BY FS_Interval
    <3> HIDE DEF Bad, D
    <3> QED
      BY <3>1, <3>2, FS_Subset
  <2> DEFINE m == Min(Bad)
  <2>2. m \in Bad /\ \A k \in Bad : m <= k
    <3> HIDE DEF Bad
    <3> QED
      BY <1>3, <2>1, MinMember
  <2> HIDE DEF m
  <2>3. m \in 1 .. Len(q) /\ m - 1 \in 0 .. Len(q) /\ m - 1 < m
    BY <1>1, <2>2
  <2>4. P(m - 1)
    BY <2>2, <2>3
  <2> QED
    BY <1>2, <2>2, <2>3, <2>4
<1>4. CASE Bad = {}
  <2>1. P(Len(q))
    BY <1>4
  <2> QED
    BY <2>1, WholePrefix DEF P
<1> QED
  BY <1>3, <1>4

LEMMA FlatType ==
  ASSUME NEW X
  PROVE  \A qs \in Seq(Seq(X)) : FlattenSeq(qs) \in Seq(X)
<1> DEFINE Y == Seq(X)
           S == {qs \in Seq(Y) : FlattenSeq(qs) \in Y}
<1>1. << >> \in S
  <2>1. << >> \in Seq(Y) /\ << >> \in Y
    OBVIOUS
  <2> QED
    BY <2>1, FlatEmpty
<1>2. \A qs \in Seq(Y), s \in Y : qs \in S => Append(qs, s) \in S
  <2> SUFFICES ASSUME NEW qs \in Seq(Y), NEW s \in Y, FlattenSeq(qs) \in Y
               PROVE  Append(qs, s) \in Seq(Y) /\ FlattenSeq(Append(qs, s)) \in Y
    OBVIOUS
  <2>1. FlattenSeq(Append(qs, s)) = FlattenSeq(qs) \o s
    BY FlatAppendSteps
  <2> QED
    BY <2>1
<1>3. \A qs \in Seq(Y) : qs \in S
  <2> HIDE DEF S, Y
  <2> QED
    BY <1>1, <1>2, SeqInduction
<1> QED
  BY <1>3

LEMMA FlatAppend ==
  ASSUME NEW X, NEW qs \in Seq(Seq(X)), NEW s \in Seq(X)
  PROVE  FlattenSeq(Append(qs, s)) = FlattenSeq(qs) \o s
  BY FlatType, FlatAppendSteps

LEMMA FlatOne ==
  ASSUME NEW X, NEW s \in Seq(X)
  PROVE  FlattenSeq(<< s >>) = s
<1>1. << s >> = Append(<< >>, s) /\ << >> \in Seq(Seq(X)) /\ << >> \o s = s
  OBVIOUS
<1> QED
  BY <1>1, FlatAppend, FlatEmpty

\* Concatenation by appending: (p \o q) \o <<x>>.
LEMMA AppendToJoin ==
  ASSUME NEW X, NEW p \in Seq(X), NEW q \in Seq(X), NEW x \in X
  PROVE  /\ p \o Append(q, x) = Append(p \o q, x)
         /\ p \o q \in Seq(X) /\ Append(q, x) \in Seq(X)
  OBVIOUS

LEMMA JoinAssoc ==
  ASSUME NEW X, NEW p, NEW q, NEW r, p \in Seq(X), q \in Seq(X), r \in Seq(X)
  PROVE  p \o (q \o r) = (p \o q) \o r
  OBVIOUS

LEMMA FlatJoin ==
  ASSUME NEW X, NEW p \in Seq(Seq(X)), NEW q \in Seq(Seq(X))
  PROVE  FlattenSeq(p \o q) = FlattenSeq(p) \o FlattenSeq(q)
<1> DEFINE Y == Seq(X)
           S == {r \in Seq(Y) : FlattenSeq(p \o r) = FlattenSeq(p) \o FlattenSeq(r)}
<1>0. FlattenSeq(p) \in Y
  BY FlatType
<1>1. << >> \in S
  <2>1. p \o << >> = p /\ FlattenSeq(p) \o << >> = FlattenSeq(p) /\ << >> \in Seq(Y)
    <3> HIDE DEF Y
    <3>1. p \in Seq(Y)
      BY DEF Y
    <3>2. p \o << >> = p /\ << >> \in Seq(Y)
      BY <3>1
    <3>3. FlattenSeq(p) \o << >> = FlattenSeq(p)
      BY <1>0 DEF Y
    <3> QED
      BY <3>2, <3>3
  <2> QED
    BY <2>1, FlatEmpty
<1>2. \A r \in Seq(Y), s \in Y : r \in S => Append(r, s) \in S
  <2> SUFFICES ASSUME NEW r \in Seq(Y), NEW s \in Y,
                      FlattenSeq(p \o r) = FlattenSeq(p) \o FlattenSeq(r)
               PROVE  /\ Append(r, s) \in Seq(Y)
                      /\ FlattenSeq(p \o Append(r, s))
                           = FlattenSeq(p) \o FlattenSeq(Append(r, s))
    OBVIOUS
  <2>1. /\ p \o Append(r, s) = Append(p \o r, s)
        /\ p \o r \in Seq(Y) /\ Append(r, s) \in Seq(Y)
    <3> HIDE DEF Y
    <3>1. p \in Seq(Y)
      BY DEF Y
    <3> QED
      BY <3>1, AppendToJoin
  <2>2. FlattenSeq(Append(p \o r, s)) = FlattenSeq(p \o r) \o s
    BY <2>1, FlatAppend
  <2>3. FlattenSeq(Append(r, s)) = FlattenSeq(r) \o s /\ FlattenSeq(r) \in Y
    BY FlatAppend, FlatType
  <2>4. FlattenSeq(p) \o (FlattenSeq(r) \o s) = (FlattenSeq(p) \o FlattenSeq(r)) \o s
    <3> DEFINE a == FlattenSeq(p)
               b == FlattenSeq(r)
    <3>1. a \in Seq(X) /\ b \in Seq(X) /\ s \in Seq(X)
      BY <1>0, <2>3
    <3> HIDE DEF a, b
    <3>2. a \o (b \o s) = (a \o b) \o s
      BY ONLY <3>1
    <3> QED
      BY <3>2 DEF a, b
  <2> QED
    BY <2>1, <2>2, <2>3, <2>4
<1>3. \A r \in Seq(Y) : r \in S
  <2> HIDE DEF S, Y
  <2> QED
    BY <1>1, <1>2, SeqInduction
<1> QED
  BY <1>3

\* A sequence, element by element.
Map(m, q) == [i \in DOMAIN q |-> m[q[i]]]

Maps(m, X, Z) == \A x \in X : m[x] \in Z

LEMMA MapType ==
  ASSUME NEW X, NEW Z, NEW m, NEW q, Maps(m, X, Z), q \in Seq(X)
  PROVE  Map(m, q) \in Seq(Z)
<1>1. \A i \in 1 .. Len(q) : q[i] \in X
  OBVIOUS
<1>2. [i \in 1 .. Len(q) |-> m[q[i]]] \in Seq(Z)
  BY <1>1 DEF Maps
<1> QED
  BY <1>2 DEF Map

LEMMA MapItems ==
  ASSUME NEW X, NEW m, NEW q, q \in Seq(X)
  PROVE  Len(Map(m, q)) = Len(q) /\ \A i \in 1 .. Len(q) : Map(m, q)[i] = m[q[i]]
<1> DEFINE n == Len(q)
<1>1. n \in Nat /\ DOMAIN q = 1 .. n
  OBVIOUS
<1> HIDE DEF n
<1>2. Map(m, q) = [i \in 1 .. n |-> m[q[i]]]
  BY <1>1 DEF Map
<1>3. Len([i \in 1 .. n |-> m[q[i]]]) = n
  BY <1>1
<1> QED
  BY <1>2, <1>3 DEF n

LEMMA MapAppend ==
  ASSUME NEW X, NEW Z, NEW m, NEW q, NEW x, Maps(m, X, Z), q \in Seq(X), x \in X
  PROVE  Map(m, Append(q, x)) = Append(Map(m, q), m[x])
<1> DEFINE n == Len(q)
           r == Append(q, x)
           a == Map(m, r)
           p == Map(m, q)
           b == Append(p, m[x])
<1>1. /\ n \in Nat /\ r \in Seq(X) /\ Len(r) = n + 1 /\ r[n + 1] = x
      /\ \A i \in 1 .. n : r[i] = q[i]
  OBVIOUS
<1>2. a \in Seq(Z) /\ p \in Seq(Z)
  <2> HIDE DEF r
  <2> QED
    BY <1>1, MapType
<1>3. Len(a) = n + 1 /\ \A i \in 1 .. n + 1 : a[i] = m[r[i]]
  <2> HIDE DEF r
  <2>1. Len(a) = Len(r) /\ \A i \in 1 .. Len(r) : a[i] = m[r[i]]
    BY <1>1, MapItems
  <2> QED
    BY <1>1, <2>1
<1>4. Len(p) = n /\ \A i \in 1 .. n : p[i] = m[q[i]]
  BY MapItems
<1>5. /\ b \in Seq(Z) /\ Len(b) = n + 1 /\ b[n + 1] = m[x]
      /\ \A i \in 1 .. n : b[i] = m[q[i]]
  <2>1. m[x] \in Z
    BY DEF Maps
  <2> HIDE DEF n, p
  <2>2. b \in Seq(Z) /\ Len(b) = n + 1 /\ b[n + 1] = m[x] /\ \A i \in 1 .. n : b[i] = p[i]
    BY <1>1, <1>2, <1>4, <2>1
  <2> QED
    BY <1>4, <2>2
<1>6. \A i \in 1 .. n + 1 : a[i] = b[i]
  <2> SUFFICES ASSUME NEW i \in 1 .. n + 1 PROVE a[i] = b[i]
    OBVIOUS
  <2> HIDE DEF a, b, r, n
  <2>1. CASE i = n + 1
    BY <1>1, <1>3, <1>5, <2>1
  <2>2. CASE i # n + 1
    <3>1. i \in 1 .. n
      BY <1>1, <2>2
    <3> QED
      BY <1>1, <1>3, <1>5, <3>1
  <2> QED
    BY <2>1, <2>2
<1> HIDE DEF a, b, r, n
<1>7. a = b
  BY <1>2, <1>3, <1>5, <1>6
<1> QED
  BY <1>7 DEF a, b, r

\* A sequence one longer than another, which it continues.
LEMMA AppendOf ==
  ASSUME NEW Z, NEW a \in Seq(Z), NEW b \in Seq(Z), Len(a) = Len(b) + 1,
         \A i \in 1 .. Len(b) : a[i] = b[i]
  PROVE  a = Append(b, a[Len(b) + 1]) /\ a[Len(b) + 1] \in Z
<1> DEFINE n == Len(b)
           c == Append(b, a[n + 1])
<1>1. n \in Nat /\ a[n + 1] \in Z
  OBVIOUS
<1>2. c \in Seq(Z) /\ Len(c) = n + 1 /\ c[n + 1] = a[n + 1] /\ \A i \in 1 .. n : c[i] = b[i]
  <2> HIDE DEF n
  <2>1. n = Len(b)
    BY DEF n
  <2> QED
    BY <1>1, <2>1
<1>3. \A i \in 1 .. n + 1 : a[i] = c[i]
  <2> HIDE DEF c
  <2>1. ASSUME NEW i \in 1 .. n + 1, i # n + 1 PROVE a[i] = c[i]
    <3>1. i \in 1 .. n
      BY <1>1, <2>1
    <3> QED
      BY <1>2, <3>1
  <2> QED
    BY <1>2, <2>1
<1> HIDE DEF c
<1>4. a = c
  BY <1>2, <1>3
<1> QED
  BY <1>1, <1>4 DEF c
=============================================================================
