------------------------ MODULE ExecutionBooks_proofs ------------------------
(***************************************************************************)
(* Proofs about the FIFO books of ExecutionAccount: the lots are the       *)
(* account's shares, stock dividends are handed out whole, and what the    *)
(* lots have earned is what the equity has gained.                         *)
(***************************************************************************)
EXTENDS ExecutionAccount_proofs

-----------------------------------------------------------------------------
(* Sums over the lots of an account.                                        *)

\* What the lots are worth together when w is the worth of each.
Weighted(lots, w) == Sum([i \in DOMAIN lots |-> w[lots[i]]])

LEMMA SequenceOf ==
  ASSUME NEW T, NEW n \in Nat, NEW s \in [1 .. n -> T]
  PROVE  s \in Seq(T) /\ Len(s) = n /\ DOMAIN s = 1 .. n
  OBVIOUS

\* A sum over numbers is a sum over all but the last, and the last.
LEMMA SumLast ==
  ASSUME NEW n \in Nat \ {0}, NEW f, \A i \in 1 .. n : f[i] \in Int
  PROVE  SumFunctionOnSet(f, 1 .. n) = SumFunctionOnSet(f, 1 .. (n - 1)) + f[n]
<1>1. IsFiniteSet(1 .. n) /\ n \in 1 .. n /\ (1 .. n) \ {n} = 1 .. (n - 1)
  BY FS_Interval
<1>2. SumFunctionOnSet(f, 1 .. n) = f[n] + SumFunctionOnSet(f, 1 .. (n - 1))
  BY <1>1, SumOnRemove
<1>3. SumFunctionOnSet(f, 1 .. (n - 1)) \in Int
  <2>1. IsFiniteSet(1 .. (n - 1)) /\ \A i \in 1 .. (n - 1) : f[i] \in Int
    BY FS_Interval
  <2> QED
    BY <2>1, SumOnInt
<1> QED
  BY <1>2, <1>3

LEMMA WeightedInt ==
  ASSUME NEW lots \in Seq(Lot), NEW w \in [Lot -> Int]
  PROVE  /\ Weighted(lots, w) \in Int
         /\ IsFiniteSet(DOMAIN lots) /\ DOMAIN lots = 1 .. Len(lots) /\ Len(lots) \in Nat
         /\ [i \in DOMAIN lots |-> w[lots[i]]] \in [DOMAIN lots -> Int]
         /\ Weighted(lots, w)
              = SumFunctionOnSet([i \in DOMAIN lots |-> w[lots[i]]], DOMAIN lots)
<1> DEFINE f == [i \in DOMAIN lots |-> w[lots[i]]]
<1>1. DOMAIN lots = 1 .. Len(lots) /\ Len(lots) \in Nat /\ \A i \in DOMAIN lots : lots[i] \in Lot
  OBVIOUS
<1>2. IsFiniteSet(DOMAIN lots)
  BY <1>1, FS_Interval
<1>3. f \in [DOMAIN lots -> Int]
  BY <1>1
<1>4. Weighted(lots, w) = Sum(f) /\ DOMAIN f = DOMAIN lots
  BY DEF Weighted
<1> HIDE DEF f
<1>5. Sum(f) \in Int /\ Sum(f) = SumFunctionOnSet(f, DOMAIN lots)
  BY <1>2, <1>3, <1>4, SumInteger DEF Sum, SumFunction
<1> QED
  BY <1>1, <1>2, <1>3, <1>4, <1>5 DEF f

LEMMA WeightedEmpty ==
  ASSUME NEW w
  PROVE  Weighted(<<>>, w) = 0
<1> DEFINE f == [i \in DOMAIN <<>> |-> w[<<>>[i]]]
<1>1. DOMAIN f = {}
  OBVIOUS
<1> HIDE DEF f
<1>2. Sum(f) = 0
  BY <1>1, SumOnEmpty DEF Sum, SumFunction
<1> QED
  BY <1>2 DEF Weighted, f

\* Two sequences with the same terms have the same sum.
LEMMA SumSame ==
  ASSUME NEW T, IsFiniteSet(T), NEW f, DOMAIN f = T, NEW g, DOMAIN g = T,
         \A x \in T : f[x] = g[x]
  PROVE  Sum(f) = Sum(g)
  BY SumOnSame DEF Sum, SumFunction

\* A sum over some of the terms, and over the others.
LEMMA SumParts ==
  ASSUME NEW T, IsFiniteSet(T), NEW f \in [T -> Int], NEW U \in SUBSET T
  PROVE  Sum(f) = SumFunctionOnSet(f, U) + SumFunctionOnSet(f, T \ U)
<1> DEFINE inside == [x \in T |-> IF x \in U THEN f[x] ELSE 0]
           outside == [x \in T |-> IF x \in U THEN 0 ELSE f[x]]
           V == T \ U
<1>1. DOMAIN f = T /\ U \in SUBSET T /\ V \in SUBSET T /\ IsFiniteSet(U) /\ IsFiniteSet(V)
  BY FS_Subset, FS_Difference
<1>2. /\ \A x \in T : inside[x] \in Int /\ outside[x] \in Int /\ f[x] = inside[x] + outside[x]
      /\ \A x \in T \ U : inside[x] = 0
      /\ \A x \in T \ V : outside[x] = 0
      /\ \A x \in U : inside[x] = f[x]
      /\ \A x \in V : outside[x] = f[x]
  OBVIOUS
<1> HIDE DEF inside, outside, V
<1>3. SumFunctionOnSet(f, T) = SumFunctionOnSet(inside, T) + SumFunctionOnSet(outside, T)
  BY <1>2, SumOnAdd
<1>4. /\ SumFunctionOnSet(inside, T) = SumFunctionOnSet(inside, U)
      /\ SumFunctionOnSet(outside, T) = SumFunctionOnSet(outside, V)
  BY <1>1, <1>2, SumOnPart
<1>5. SumFunctionOnSet(inside, U) = SumFunctionOnSet(f, U)
  BY <1>1, <1>2, SumOnSame
<1>6. SumFunctionOnSet(outside, V) = SumFunctionOnSet(f, V)
  BY <1>1, <1>2, SumOnSame
<1> QED
  BY <1>1, <1>3, <1>4, <1>5, <1>6 DEF Sum, SumFunction, V

\* The numbers up to m, and n more.
LEMMA SumConcat ==
  ASSUME NEW m \in Nat, NEW n \in Nat, NEW f, NEW g, NEW h,
         \A i \in 1 .. m : g[i] \in Int /\ f[i] = g[i],
         \A i \in 1 .. n : h[i] \in Int /\ f[m + i] = h[i]
  PROVE  SumFunctionOnSet(f, 1 .. (m + n))
           = SumFunctionOnSet(g, 1 .. m) + SumFunctionOnSet(h, 1 .. n)
<1> DEFINE T == 1 .. (m + n)
           U == 1 .. m
           V == (m + 1) .. (m + n)
           e == [i \in T |-> f[i]]
<1>1. ASSUME NEW i \in T PROVE f[i] \in Int
  <2>1. CASE i \in U
    BY <2>1
  <2>2. CASE i \notin U
    <3>1. i - m \in 1 .. n /\ m + (i - m) = i
      BY <2>2
    <3> QED
      BY <3>1
  <2> QED
    BY <2>1, <2>2
<1>2. /\ e \in [T -> Int] /\ U \in SUBSET T /\ T \ U = V
      /\ IsFiniteSet(T) /\ IsFiniteSet(U) /\ IsFiniteSet(V)
      /\ \A i \in T : e[i] = f[i]
  BY <1>1, FS_Interval
<1>3. (\A i \in U : e[i] = g[i]) /\ (\A i \in V : e[i] = f[i])
  BY <1>2
<1>4. SumFunctionOnSet(f, V) = SumFunctionOnSet(h, 1 .. n)
  <2> DEFINE N == 1 .. n
             shift == [i \in N |-> m + i]
  <2>1. shift \in [N -> V]
    OBVIOUS
  <2>2. \A i, j \in N : shift[i] = shift[j] => i = j
    OBVIOUS
  <2>3. \A j \in V : \E i \in N : shift[i] = j
    <3> TAKE j \in V
    <3>1. j - m \in N /\ m + (j - m) = j
      OBVIOUS
    <3> QED
      BY <3>1
  <2>4. IsFiniteSet(N) /\ \A i \in N : h[i] \in Int /\ f[shift[i]] = h[i]
    BY FS_Interval
  <2> HIDE DEF N, V, shift
  <2>5. shift \in Bijection(N, V)
    BY <2>1, <2>2, <2>3 DEF Bijection, Injection, Surjection, IsInjective
  <2>6. SumFunctionOnSet(f, V) = SumFunctionOnSet(h, N)
    BY ONLY <2>4, <2>5, SumOnImage
  <2> QED
    BY <2>6 DEF N
<1> HIDE DEF T, U, V, e
<1>5. Sum(e) = SumFunctionOnSet(e, U) + SumFunctionOnSet(e, V)
  BY <1>2, SumParts
<1>6. SumFunctionOnSet(e, U) = SumFunctionOnSet(g, U)
  BY <1>2, <1>3, SumOnSame
<1>7. SumFunctionOnSet(e, V) = SumFunctionOnSet(f, V)
  BY <1>2, <1>3, SumOnSame
<1>8. Sum(e) = SumFunctionOnSet(f, T)
  <2>1. SumFunctionOnSet(e, T) = SumFunctionOnSet(f, T)
    BY <1>2, SumOnSame
  <2> QED
    BY <1>2, <2>1 DEF Sum, SumFunction
<1> QED
  BY <1>4, <1>5, <1>6, <1>7, <1>8 DEF T, U

LEMMA WeightedConcat ==
  ASSUME NEW s, s \in Seq(Lot), NEW t, t \in Seq(Lot), NEW w, w \in [Lot -> Int]
  PROVE  s \o t \in Seq(Lot) /\ Weighted(s \o t, w) = Weighted(s, w) + Weighted(t, w)
<1> DEFINE m == Len(s)
           n == Len(t)
           both == [i \in DOMAIN (s \o t) |-> w[(s \o t)[i]]]
           left == [i \in DOMAIN s |-> w[s[i]]]
           right == [i \in DOMAIN t |-> w[t[i]]]
<1>1. m \in Nat /\ n \in Nat /\ DOMAIN s = 1 .. m /\ DOMAIN t = 1 .. n
  OBVIOUS
<1>2. s \o t \in Seq(Lot) /\ DOMAIN (s \o t) = 1 .. (m + n)
  OBVIOUS
<1>3. /\ \A i \in 1 .. m : (s \o t)[i] = s[i] /\ s[i] \in Lot
      /\ \A i \in 1 .. n : (s \o t)[m + i] = t[i] /\ t[i] \in Lot
  OBVIOUS
<1>4. /\ Weighted(s \o t, w) = SumFunctionOnSet(both, 1 .. (m + n))
      /\ Weighted(s, w) = SumFunctionOnSet(left, 1 .. m)
      /\ Weighted(t, w) = SumFunctionOnSet(right, 1 .. n)
  BY ONLY <1>1, <1>2 DEF Weighted, Sum, SumFunction
<1>5. ASSUME NEW i \in 1 .. m PROVE left[i] \in Int /\ both[i] = left[i]
  <2>1. i \in DOMAIN (s \o t)
    BY <1>1, <1>2
  <2> QED
    BY <1>1, <1>3, <2>1
<1>6. ASSUME NEW i \in 1 .. n PROVE right[i] \in Int /\ both[m + i] = right[i]
  <2>1. m + i \in DOMAIN (s \o t)
    BY <1>1, <1>2
  <2> QED
    BY <1>1, <1>3, <2>1
<1> HIDE DEF m, n, both, left, right
<1>7. SumFunctionOnSet(both, 1 .. (m + n))
        = SumFunctionOnSet(left, 1 .. m) + SumFunctionOnSet(right, 1 .. n)
  BY ONLY <1>1, <1>5, <1>6, SumConcat
<1> QED
  BY <1>2, <1>4, <1>7

LEMMA WeightedAppend ==
  ASSUME NEW lots \in Seq(Lot), NEW lot \in Lot, NEW w \in [Lot -> Int]
  PROVE  /\ Append(lots, lot) \in Seq(Lot)
         /\ Weighted(Append(lots, lot), w) = Weighted(lots, w) + w[lot]
<1>1. Append(lots, lot) = lots \o <<lot>> /\ <<lot>> \in Seq(Lot)
  OBVIOUS
<1>2. Weighted(<<lot>>, w) = w[lot]
  <2> DEFINE f == [i \in DOMAIN <<lot>> |-> w[<<lot>>[i]]]
  <2>1. DOMAIN f = {1} /\ f[1] = w[lot] /\ w[lot] \in Int
    OBVIOUS
  <2>2. Weighted(<<lot>>, w) = SumFunctionOnSet(f, {1})
    BY <2>1 DEF Weighted, Sum, SumFunction
  <2> HIDE DEF f
  <2>3. SumFunctionOnSet(f, {1}) = f[1] + SumFunctionOnSet(f, {1} \ {1})
    <3>1. IsFiniteSet({1}) /\ \A y \in {1} : f[y] \in Int
      BY <2>1, FS_Singleton
    <3> QED
      BY <3>1, SumOnRemove
  <2>4. SumFunctionOnSet(f, {1} \ {1}) = 0
    <3>1. {1} \ {1} = {}
      OBVIOUS
    <3> QED
      BY <3>1, SumOnEmpty
  <2> QED
    BY <2>1, <2>2, <2>3, <2>4
<1>3. /\ lots \o <<lot>> \in Seq(Lot)
      /\ Weighted(lots \o <<lot>>, w) = Weighted(lots, w) + Weighted(<<lot>>, w)
  BY <1>1, WeightedConcat
<1> QED
  BY <1>1, <1>2, <1>3

-----------------------------------------------------------------------------
(* Lots in the order of their numbers, and lots of several distributions.   *)

LEMMA OrderedMembers ==
  ASSUME NEW S, S \subseteq Int, IsFiniteSet(S)
  PROVE  /\ Cardinality(S) \in Nat
         /\ Ordered(S) \in Bijection(1 .. Cardinality(S), S)
<1> DEFINE n == Cardinality(S)
           N == 1 .. n
           count(x) == Cardinality({y \in S : y <= x})
           s == Ordered(S)
<1>1. n \in Nat /\ IsFiniteSet(N) /\ Cardinality(N) = n
  <2>1. n \in Nat
    BY FS_CardinalityType
  <2> HIDE DEF n
  <2>2. IsFiniteSet(N) /\ Cardinality(N) = IF 1 > n THEN 0 ELSE n - 1 + 1
    BY <2>1, FS_Interval
  <2> QED
    BY <2>1, <2>2
<1>2. ASSUME NEW i \in N PROVE s[i] \in S /\ count(s[i]) = i
  <2>1. \E x \in S : Cardinality({y \in S : y <= x}) = i
    BY ONLY S \subseteq Int, IsFiniteSet(S), i \in N, CountedElement
  <2>2. s[i] = CHOOSE x \in S : Cardinality({y \in S : y <= x}) = i
    BY DEF Ordered
  <2> HIDE DEF s
  <2>3. s[i] \in S /\ Cardinality({y \in S : y <= s[i]}) = i
    BY ONLY <2>1, <2>2
  <2> QED
    BY <2>3
<1>3. s = [i \in N |-> s[i]]
  <2> DEFINE member(i) == CHOOSE x \in S : Cardinality({y \in S : y <= x}) = i
  <2>1. s = [i \in N |-> member(i)]
    BY DEF Ordered
  <2> HIDE DEF s, N, member
  <2> QED
    BY ONLY <2>1
<1> HIDE DEF s, count
<1>4. s \in Injection(N, S)
  <2>1. s \in [N -> S]
    BY <1>2, <1>3
  <2>2. \A i, j \in N : s[i] = s[j] => i = j
    BY <1>2
  <2> HIDE DEF N
  <2> QED
    BY <2>1, <2>2 DEF Injection, IsInjective
<1>5. s \in Surjection(N, S)
  <2> HIDE DEF N
  <2> QED
    BY <1>1, <1>4, FS_Injection
<1> HIDE DEF N
<1>6. s \in Bijection(N, S)
  BY <1>4, <1>5 DEF Bijection
<1> QED
  BY <1>1, <1>6 DEF N, s

\* The lots named by the members of S, in their order.
Listed(S, item) == [n \in 1 .. Cardinality(S) |-> item[Ordered(S)[n]]]

LEMMA WeightedOrdered ==
  ASSUME NEW S, S \subseteq Int, IsFiniteSet(S), NEW item, \A x \in S : item[x] \in Lot,
         NEW w, w \in [Lot -> Int]
  PROVE  /\ Listed(S, item) \in Seq(Lot)
         /\ \A i \in DOMAIN Listed(S, item) : \E x \in S : Listed(S, item)[i] = item[x]
         /\ Weighted(Listed(S, item), w) = SumFunctionOnSet([x \in S |-> w[item[x]]], S)
<1> DEFINE s == Listed(S, item)
           n == Cardinality(S)
           N == 1 .. n
           h == Ordered(S)
           g == [x \in S |-> w[item[x]]]
           f == [i \in DOMAIN s |-> w[s[i]]]
<1>1. n \in Nat /\ h \in Bijection(N, S) /\ IsFiniteSet(N)
  <2>1. n \in Nat /\ h \in Bijection(N, S)
    BY OrderedMembers
  <2> HIDE DEF n
  <2> QED
    BY <2>1, FS_Interval
<1>2. \A i \in N : h[i] \in S
  <2> HIDE DEF N, h
  <2> QED
    BY <1>1 DEF Bijection, Injection
<1>3. \A i \in N : s[i] = item[h[i]] /\ s[i] \in Lot
  BY <1>2 DEF Listed
<1>4. s \in Seq(Lot) /\ DOMAIN s = N
  <2>1. s = [i \in N |-> s[i]]
    BY DEF Listed
  <2>2. s \in [N -> Lot]
    BY ONLY <1>3, <2>1
  <2> HIDE DEF n
  <2> QED
    BY ONLY <1>1, <2>2, SequenceOf
<1>5. \A i \in N : f[i] \in Int /\ g[h[i]] = f[i]
  BY ONLY <1>2, <1>3, <1>4, w \in [Lot -> Int]
<1>6. Weighted(s, w) = SumFunctionOnSet(f, N)
  BY ONLY <1>4 DEF Weighted, Sum, SumFunction
<1> HIDE DEF f, g, N, h, n, s
<1>7. SumFunctionOnSet(g, S) = SumFunctionOnSet(f, N)
  BY ONLY <1>1, <1>5, SumOnImage
<1>8. \A i \in DOMAIN s : \E x \in S : s[i] = item[x]
  BY <1>2, <1>3, <1>4
<1> QED
  BY <1>4, <1>6, <1>7, <1>8 DEF g, s

\* Lots that weigh nothing may be dropped.
LEMMA WeightedKept ==
  ASSUME NEW lots, lots \in Seq(Lot), NEW kept, kept \subseteq DOMAIN lots,
         NEW w, w \in [Lot -> Int], \A i \in DOMAIN lots : i \notin kept => w[lots[i]] = 0
  PROVE  LET s == Listed(kept, lots) IN
         /\ s \in Seq(Lot)
         /\ \A i \in DOMAIN s : \E j \in kept : s[i] = lots[j]
         /\ Weighted(s, w) = Weighted(lots, w)
<1> DEFINE s == Listed(kept, lots)
           T == DOMAIN lots
           f == [i \in T |-> w[lots[i]]]
           g == [x \in kept |-> w[lots[x]]]
<1>1. /\ T = 1 .. Len(lots) /\ Len(lots) \in Nat /\ \A i \in T : lots[i] \in Lot
  OBVIOUS
<1>2. IsFiniteSet(T) /\ kept \subseteq Int /\ kept \in SUBSET T
  BY <1>1, FS_Interval
<1>3. IsFiniteSet(kept)
  <2> HIDE DEF T
  <2> QED
    BY <1>2, FS_Subset
<1>4. /\ s \in Seq(Lot)
      /\ \A i \in DOMAIN s : \E j \in kept : s[i] = lots[j]
      /\ Weighted(s, w) = SumFunctionOnSet(g, kept)
  <2>1. \A x \in kept : lots[x] \in Lot
    BY <1>1, <1>2
  <2> QED
    BY <1>2, <1>3, <2>1, WeightedOrdered
<1>5. /\ \A x \in T : f[x] \in Int
      /\ \A x \in T \ kept : f[x] = 0
      /\ \A x \in kept : f[x] = g[x]
  BY <1>1, <1>2
<1>6. Weighted(lots, w) = SumFunctionOnSet(f, T)
  BY DEF Weighted, Sum, SumFunction
<1> HIDE DEF f, g, T
<1>7. SumFunctionOnSet(f, T) = SumFunctionOnSet(f, kept)
  BY ONLY <1>2, <1>5, SumOnPart
<1>8. SumFunctionOnSet(f, kept) = SumFunctionOnSet(g, kept)
  BY ONLY <1>3, <1>5, SumOnSame
<1> QED
  BY <1>4, <1>6, <1>7, <1>8

\* f[i] is the first i of the sequences of s, one after the other.
Joined(s, n, f) ==
  f = [i \in 1 .. n |-> IF i = 1 THEN s[i] ELSE f[i - 1] \o s[i]]

LEMMA JoinedExists ==
  ASSUME NEW s, NEW n \in Nat
  PROVE  \E f : Joined(s, n, f)
<1> DEFINE D == {k \in 0 .. n : ~ \E f : Joined(s, k, f)}
           id == [k \in D |-> k]
<1>1. ASSUME D # {} PROVE FALSE
  <2>1. IsFiniteSet(D) /\ D \subseteq Int
    <3>1. IsFiniteSet(0 .. n) /\ D \in SUBSET (0 .. n) /\ D \subseteq Int
      BY FS_Interval
    <3> HIDE DEF D
    <3>2. IsFiniteSet(D)
      BY ONLY <3>1, FS_Subset
    <3> QED
      BY <3>1, <3>2
  <2>2. \A k \in D : id[k] \in Int
    OBVIOUS
  <2>3. PICK k \in D : \A j \in D : id[k] <= id[j]
    <3> HIDE DEF D, id
    <3> QED
      BY <1>1, <2>1, <2>2, LeastValue
  <2>4. \A j \in D : k <= j
    BY <2>3
  <2>5. CASE k = 0
    <3> DEFINE f == [i \in 1 .. 0 |-> 0]
    <3>1. Joined(s, 0, f)
      <4>1. DOMAIN f = 1 .. 0 /\ \A i \in 1 .. 0 : FALSE
        OBVIOUS
      <4>2. f = [i \in 1 .. 0 |-> f[i]]
        OBVIOUS
      <4> HIDE DEF f
      <4>3. [i \in 1 .. 0 |-> f[i]] = [i \in 1 .. 0 |-> IF i = 1 THEN s[i] ELSE f[i - 1] \o s[i]]
        BY <4>1
      <4> QED
        BY <4>2, <4>3 DEF Joined
    <3> QED
      BY <2>5, <3>1
  <2>6. CASE k # 0
    <3>1. k - 1 \in 0 .. n /\ k - 1 \notin D
      BY <2>4, <2>6
    <3>2. PICK g : Joined(s, k - 1, g)
      BY <3>1
    <3> DEFINE f == [i \in 1 .. k |-> IF i = k THEN IF k = 1 THEN s[k] ELSE g[k - 1] \o s[k]
                                               ELSE g[i]]
    <3>3. ASSUME NEW i \in 1 .. k
          PROVE  f[i] = IF i = 1 THEN s[i] ELSE f[i - 1] \o s[i]
      <4>1. CASE i = k
        BY <4>1
      <4>2. CASE i # k
        <5>1. i \in 1 .. (k - 1)
          BY <4>2
        <5>2. g[i] = IF i = 1 THEN s[i] ELSE g[i - 1] \o s[i]
          BY <3>2, <5>1 DEF Joined
        <5>3. i # 1 => i - 1 \in 1 .. k /\ i - 1 # k
          BY <5>1
        <5>4. f[i] = g[i] /\ (i # 1 => f[i - 1] = g[i - 1])
          BY <4>2, <5>3
        <5> HIDE DEF f
        <5> QED
          BY <5>2, <5>4
      <4> QED
        BY <4>1, <4>2
    <3>4. f = [i \in 1 .. k |-> f[i]]
      OBVIOUS
    <3>5. Joined(s, k, f)
      <4> HIDE DEF f
      <4> QED
        BY <3>3, <3>4 DEF Joined
    <3> QED
      BY <3>5
  <2> QED
    BY <2>5, <2>6
<1>2. n \in 0 .. n
  OBVIOUS
<1> QED
  BY <1>1, <1>2

LEMMA FlattenJoins ==
  ASSUME NEW s, NEW n \in Nat \ {0}, Len(s) = n
  PROVE  \E f : Joined(s, n, f) /\ FlattenSeq(s) = f[n]
<1> DEFINE f == CHOOSE g : g = [i \in 1 .. Len(s) |-> IF i = 1 THEN s[i] ELSE g[i - 1] \o s[i]]
<1>1. \E g : g = [i \in 1 .. Len(s) |-> IF i = 1 THEN s[i] ELSE g[i - 1] \o s[i]]
  BY JoinedExists DEF Joined
<1>2. Joined(s, n, f)
  BY <1>1 DEF Joined
<1>3. FlattenSeq(s) = f[Len(s)]
  BY Zenon DEF FlattenSeq
<1> QED
  BY <1>2, <1>3

-----------------------------------------------------------------------------
(* A sale takes its shares from the lots, first in first out.               *)

LEMMA MinPair ==
  ASSUME NEW x \in Int, NEW y \in Int
  PROVE  Min({x, y}) = IF x <= y THEN x ELSE y
<1> DEFINE S == {x, y}
<1>1. S \subseteq Int /\ IsFiniteSet(S) /\ S # {}
  BY PairFinite
<1> HIDE DEF S
<1>2. Min(S) \in S /\ \A z \in S : Min(S) <= z
  BY <1>1, MinMember
<1> QED
  BY <1>2 DEF S

LEMMA MaxPair ==
  ASSUME NEW x \in Int, NEW y \in Int
  PROVE  Max({x, y}) = IF x <= y THEN y ELSE x
<1> DEFINE S == {x, y}
<1>1. S \subseteq Int /\ IsFiniteSet(S) /\ S # {}
  BY PairFinite
<1> HIDE DEF S
<1>2. Max(S) \in S /\ \A z \in S : z <= Max(S)
  BY <1>1, MaxMember
<1> QED
  BY <1>2 DEF S

\* Lots in front are emptied before later ones are touched, until the
\* quantity is reached or the lots are exhausted.
LEMMA FirstInFirstOut ==
  ASSUME NEW n \in Nat, NEW q \in Nat, NEW held, \A i \in 1 .. n : held[i] \in Nat,
         NEW earlier, \A i \in 1 .. n : earlier[i] = SumFunctionOnSet(held, 1 .. (i - 1)),
         NEW taken, \A i \in 1 .. n : taken[i] = Min({held[i], Max({0, q - earlier[i]})})
  PROVE  /\ \A i \in 1 .. n : taken[i] \in Nat /\ taken[i] <= held[i]
         /\ q <= SumFunctionOnSet(held, 1 .. n) => SumFunctionOnSet(taken, 1 .. n) = q
<1> DEFINE H(k) == SumFunctionOnSet(held, 1 .. k)
           T(k) == SumFunctionOnSet(taken, 1 .. k)
<1>1. ASSUME NEW k \in 0 .. n PROVE H(k) \in Nat
  <2>1. IsFiniteSet(1 .. k) /\ \A i \in 1 .. k : held[i] \in Nat
    BY FS_Interval
  <2> HIDE DEF H
  <2> QED
    BY ONLY <2>1, SumOnNat DEF H
<1>2. ASSUME NEW i \in 1 .. n
      PROVE  taken[i] = IF H(i - 1) >= q THEN 0
                        ELSE IF held[i] <= q - H(i - 1) THEN held[i] ELSE q - H(i - 1)
  <2> DEFINE e == H(i - 1)
             h == held[i]
             rest == Max({0, q - e})
  <2>1. e \in Nat /\ h \in Nat /\ i - 1 \in 0 .. n
    BY <1>1
  <2>2. taken[i] = Min({h, rest})
    OBVIOUS
  <2> HIDE DEF e, h
  <2>3. rest = IF 0 <= q - e THEN q - e ELSE 0
    BY <2>1, MaxPair
  <2> HIDE DEF rest
  <2>4. rest \in Int
    BY <2>1, <2>3
  <2>5. Min({h, rest}) = IF h <= rest THEN h ELSE rest
    BY <2>1, <2>4, MinPair
  <2>6. taken[i] = IF e >= q THEN 0 ELSE IF h <= q - e THEN h ELSE q - e
    BY <2>1, <2>2, <2>3, <2>5
  <2> QED
    BY <2>6 DEF e, h
<1> HIDE DEF H, T
<1>3. ASSUME NEW i \in 1 .. n PROVE taken[i] \in Nat /\ taken[i] <= held[i]
  <2>1. i - 1 \in 0 .. n
    OBVIOUS
  <2>2. H(i - 1) \in Nat /\ held[i] \in Nat
    BY <1>1, <2>1
  <2> QED
    BY <1>2, <2>2
<1> DEFINE Good(k) == T(k) = IF H(k) <= q THEN H(k) ELSE q
           D == {k \in 0 .. n : ~ Good(k)}
           id == [k \in D |-> k]
<1>4. ASSUME D # {} PROVE FALSE
  <2>1. IsFiniteSet(D) /\ D \subseteq Int
    <3>1. IsFiniteSet(0 .. n) /\ D \in SUBSET (0 .. n) /\ D \subseteq Int
      BY FS_Interval
    <3> HIDE DEF D
    <3>2. IsFiniteSet(D)
      BY ONLY <3>1, FS_Subset
    <3> QED
      BY <3>1, <3>2
  <2>2. \A k \in D : id[k] \in Int
    OBVIOUS
  <2>3. PICK k \in D : \A j \in D : id[k] <= id[j]
    <3> HIDE DEF D, id
    <3> QED
      BY <1>4, <2>1, <2>2, LeastValue
  <2>4. k \in 0 .. n /\ ~ Good(k) /\ \A j \in D : k <= j
    BY <2>3
  <2>5. CASE k = 0
    <3>1. 1 .. k = {}
      BY <2>5
    <3>2. T(k) = 0 /\ H(k) = 0
      BY <3>1, SumOnEmpty DEF T, H
    <3> QED
      BY <2>4, <3>2
  <2>6. CASE k # 0
    <3>1. k \in Nat \ {0} /\ k - 1 \in 0 .. n /\ k \in 1 .. n /\ k - 1 \notin D
      BY <2>4, <2>6
    <3>2. Good(k - 1)
      BY <3>1
    <3>3. H(k) = H(k - 1) + held[k]
      <4>1. \A i \in 1 .. k : held[i] \in Int
        BY <3>1
      <4> QED
        BY ONLY <3>1, <4>1, SumLast DEF H
    <3>4. T(k) = T(k - 1) + taken[k]
      <4>1. \A i \in 1 .. k : taken[i] \in Int
        BY <1>3, <3>1
      <4> QED
        BY ONLY <3>1, <4>1, SumLast DEF T
    <3>5. H(k - 1) \in Nat /\ held[k] \in Nat
      BY <1>1, <3>1
    <3>6. taken[k] = IF H(k - 1) >= q THEN 0
                     ELSE IF held[k] <= q - H(k - 1) THEN held[k] ELSE q - H(k - 1)
      BY <1>2, <3>1
    <3>7. Good(k)
      BY <3>2, <3>3, <3>4, <3>5, <3>6
    <3> QED
      BY <2>4, <3>7
  <2> QED
    BY <2>5, <2>6
<1>5. Good(n)
  <2>1. n \in 0 .. n
    OBVIOUS
  <2> HIDE DEF Good
  <2> QED
    BY <1>4, <2>1
<1>6. H(n) \in Nat
  <2>1. n \in 0 .. n
    OBVIOUS
  <2> QED
    BY <1>1, <2>1
<1>7. q <= H(n) => T(n) = q
  BY <1>5, <1>6
<1> QED
  BY <1>3, <1>7 DEF H, T

LEMMA DivBounds ==
  ASSUME NEW n \in Nat, NEW d \in Nat \ {0}
  PROVE  /\ n \div d \in Nat /\ n % d \in Nat /\ n % d < d
         /\ n = d * (n \div d) + (n % d)
<1>1. n \in Int /\ d \in Int /\ d > 0
  OBVIOUS
<1>2. n = d * (n \div d) + (n % d)
  BY <1>1
<1>3. n \div d \in Nat
  OBVIOUS
<1>4. n % d \in Nat /\ n % d < d
  OBVIOUS
<1> QED
  BY <1>2, <1>3, <1>4

LEMMA DivBelow ==
  ASSUME NEW n \in Nat, NEW d \in Nat \ {0}, NEW k \in Nat
  PROVE  /\ n < d * (k + 1) => n \div d <= k
         /\ d * k <= n => k <= n \div d
<1> DEFINE x == n \div d
           r == n % d
<1>1. x \in Nat /\ r \in Nat /\ r < d /\ n = d * x + r
  BY DivBounds
<1> HIDE DEF x, r
<1>2. ASSUME n < d * (k + 1), x > k PROVE FALSE
  <2>1. x >= k + 1
    BY <1>1, <1>2
  <2>2. d * x >= d * (k + 1)
    BY <1>1, <2>1
  <2>3. d * x \in Nat /\ d * (k + 1) \in Nat
    BY <1>1
  <2> QED
    BY <1>1, <1>2, <2>2, <2>3
<1>3. ASSUME d * k <= n, x < k PROVE FALSE
  <2>1. x + 1 <= k
    BY <1>1, <1>3
  <2>2. d * (x + 1) <= d * k
    BY <1>1, <2>1
  <2>3. d * (x + 1) = d * x + d
    BY <1>1
  <2>4. d * x \in Nat /\ d * k \in Nat
    BY <1>1
  <2> QED
    BY <1>1, <1>3, <2>2, <2>3, <2>4
<1> QED
  BY <1>1, <1>2, <1>3 DEF x

\* A part of a lot takes a part of its fee, and the whole of it the whole.
LEMMA EntryFeeType ==
  ASSUME NEW lot \in Lot, NEW taken \in Nat, taken <= lot.quantity
  PROVE  /\ EntryFee(lot, taken) \in Nat /\ EntryFee(lot, taken) <= lot.fee
         /\ taken = lot.quantity /\ taken # 0 => EntryFee(lot, taken) = lot.fee
<1> DEFINE f == lot.fee
           q == lot.quantity
<1>1. f \in Nat /\ q \in Nat
  BY DEF Lot
<1>2. CASE taken = 0
  BY <1>1, <1>2 DEF EntryFee
<1>3. CASE taken # 0
  <2>1. EntryFee(lot, taken) = (f * taken) \div q
    BY <1>3 DEF EntryFee
  <2> HIDE DEF f, q
  <2>2. f * taken \in Nat /\ q \in Nat \ {0} /\ taken <= q
    BY <1>1, <1>3 DEF q
  <2>3. f * taken <= f * q /\ f * q < q * (f + 1) /\ f * q \in Nat /\ q * (f + 1) \in Nat
    <3>1. f * taken <= f * q
      BY <1>1, <2>2
    <3>2. q * (f + 1) = f * q + q
      BY <1>1
    <3>3. f * q \in Nat
      BY <1>1
    <3> QED
      BY <1>1, <2>2, <3>1, <3>2, <3>3
  <2>4. f * taken < q * (f + 1)
    BY <2>2, <2>3
  <2>5. (f * taken) \div q \in Nat
    BY <2>2, DivBounds
  <2>6. (f * taken) \div q <= f
    BY <1>1, <2>2, <2>4, DivBelow
  <2>7. ASSUME taken = q PROVE f <= (f * taken) \div q
    <3>1. q * f <= f * taken
      BY <1>1, <2>7
    <3> QED
      BY <1>1, <2>2, <3>1, DivBelow
  <2>8. taken = q => (f * taken) \div q = f
    BY <1>1, <2>5, <2>6, <2>7
  <2> QED
    BY <2>1, <2>5, <2>6, <2>8 DEF f, q
<1> QED
  BY <1>2, <1>3

\* An empty lot has no fee left; the reference account pays none at all.
GoodLots == {lot \in Lot : lot.quantity = 0 => lot.fee = 0}
FreeLots == {lot \in Lot : lot.fee = 0}

\* What a lot weighs: its shares in an asset, and what they have cost.
InAsset(a) == [lot \in Lot |-> IF lot.asset = a THEN lot.quantity ELSE 0]
Cost == [lot \in Lot |-> lot.quantity * lot.price + lot.fee]

LEMMA Weights ==
  /\ \A a : InAsset(a) \in [Lot -> Int]
  /\ Cost \in [Lot -> Int]
  /\ \A a : \A lot \in Lot : InAsset(a)[lot] = IF lot.asset = a THEN lot.quantity ELSE 0
  /\ \A lot \in Lot : Cost[lot] = lot.quantity * lot.price + lot.fee
<1>1. \A lot \in Lot : lot.quantity \in Nat /\ lot.price \in Nat /\ lot.fee \in Nat
  BY DEF Lot
<1>2. \A lot \in Lot : lot.quantity * lot.price + lot.fee \in Int
  <2> TAKE lot \in Lot
  <2> DEFINE x == lot.quantity
             y == lot.price
             z == lot.fee
  <2>1. x \in Nat /\ y \in Nat /\ z \in Nat
    BY <1>1
  <2> HIDE DEF x, y, z
  <2>2. x * y + z \in Int
    BY <2>1
  <2> QED
    BY <2>2 DEF x, y, z
<1>3. Cost \in [Lot -> Int] /\ \A lot \in Lot : Cost[lot] = lot.quantity * lot.price + lot.fee
  BY <1>2 DEF Cost
<1>4. \A a : InAsset(a) \in [Lot -> Int]
  BY <1>1 DEF InAsset
<1>5. \A a : \A lot \in Lot : InAsset(a)[lot] = IF lot.asset = a THEN lot.quantity ELSE 0
  BY DEF InAsset
<1> QED
  BY <1>3, <1>4, <1>5

\* One lot of a sale: its shares and its cost go down by what is taken.
LEMMA LotTaken ==
  ASSUME NEW lot, lot \in GoodLots, NEW n \in Nat, NEW asset,
         n <= (IF lot.asset = asset THEN lot.quantity ELSE 0)
  PROVE  LET fee == EntryFee(lot, n)
             rest == [lot EXCEPT !.quantity = @ - n, !.fee = @ - fee]
         IN /\ rest \in GoodLots /\ fee \in Nat
            /\ lot \in FreeLots => rest \in FreeLots /\ fee = 0
            /\ \A a : InAsset(a)[rest] = InAsset(a)[lot] - (IF a = asset THEN n ELSE 0)
            /\ Cost[rest] = Cost[lot] - n * lot.price - fee
<1> DEFINE fee == EntryFee(lot, n)
           rest == [lot EXCEPT !.quantity = @ - n, !.fee = @ - fee]
<1>1. /\ lot \in Lot /\ lot.quantity \in Nat /\ lot.price \in Nat /\ lot.fee \in Nat
      /\ lot.quantity = 0 => lot.fee = 0
  BY DEF GoodLots, Lot
<1>2. n <= lot.quantity
  BY <1>1
<1>3. fee \in Nat /\ fee <= lot.fee /\ (n = lot.quantity => fee = lot.fee)
  <2>1. fee \in Nat /\ fee <= lot.fee /\ (n = lot.quantity /\ n # 0 => fee = lot.fee)
    BY <1>1, <1>2, EntryFeeType
  <2>2. n = lot.quantity /\ n = 0 => fee = lot.fee
    BY <1>1 DEF EntryFee
  <2> QED
    BY <2>1, <2>2
<1> HIDE DEF fee
<1>4. /\ rest.plan = lot.plan /\ rest.asset = lot.asset /\ rest.price = lot.price
      /\ rest.quantity = lot.quantity - n /\ rest.fee = lot.fee - fee
  BY <1>1 DEF Lot
<1>5. rest \in Lot
  <2>1. lot.quantity - n \in Nat /\ lot.fee - fee \in Nat
    BY <1>1, <1>2, <1>3
  <2> QED
    BY <1>1, <2>1 DEF Lot
<1> HIDE DEF rest
<1>6. rest \in GoodLots
  BY <1>1, <1>2, <1>3, <1>4, <1>5 DEF GoodLots
<1>7. lot \in FreeLots => rest \in FreeLots /\ fee = 0
  BY <1>1, <1>3, <1>4, <1>5 DEF FreeLots
<1>8. ASSUME NEW a PROVE InAsset(a)[rest] = InAsset(a)[lot] - (IF a = asset THEN n ELSE 0)
  <2>1. /\ InAsset(a)[rest] = IF lot.asset = a THEN lot.quantity - n ELSE 0
        /\ InAsset(a)[lot] = IF lot.asset = a THEN lot.quantity ELSE 0
    BY <1>1, <1>4, <1>5, Weights
  <2> QED
    BY <1>1, <2>1
<1>9. Cost[rest] = Cost[lot] - n * lot.price - fee
  <2> DEFINE x == lot.quantity
             y == lot.price
             z == lot.fee
  <2>1. /\ Cost[rest] = (x - n) * y + (z - fee)
        /\ Cost[lot] = x * y + z
    BY <1>1, <1>4, <1>5, Weights
  <2>2. x \in Nat /\ y \in Nat /\ z \in Nat
    BY <1>1
  <2> HIDE DEF x, y, z
  <2>3. (x - n) * y = x * y - n * y /\ x * y \in Int /\ n * y \in Int
    BY <2>2
  <2> QED
    BY <1>3, <2>1, <2>2, <2>3 DEF y
<1> QED
  BY <1>3, <1>6, <1>7, <1>8, <1>9 DEF rest, fee

\* The sale takes q shares of its asset, and no more than a lot has.
LEMMA TakenShares ==
  ASSUME NEW lots, lots \in Seq(Lot), NEW asset, NEW q \in Nat
  PROVE  LET taken == Taken(lots, asset, q) IN
         /\ DOMAIN taken = DOMAIN lots
         /\ \A i \in DOMAIN lots :
              /\ taken[i] \in Nat
              /\ taken[i] <= (IF lots[i].asset = asset THEN lots[i].quantity ELSE 0)
         /\ q <= Weighted(lots, InAsset(asset)) => SumFunctionOnSet(taken, DOMAIN lots) = q
<1> DEFINE taken == Taken(lots, asset, q)
           n == Len(lots)
           D == 1 .. n
           held == [i \in D |-> IF lots[i].asset = asset THEN lots[i].quantity ELSE 0]
           earlier == [i \in D |-> SumFunctionOnSet(held, 1 .. (i - 1))]
           w == [i \in DOMAIN lots |-> InAsset(asset)[lots[i]]]
<1>1. n \in Nat /\ DOMAIN lots = D /\ \A i \in D : lots[i] \in Lot
  OBVIOUS
<1>2. \A i \in D : held[i] \in Nat
  BY ONLY <1>1 DEF Lot
<1>3. ASSUME NEW i \in D
      PROVE  taken[i] = Min({held[i], Max({0, q - earlier[i]})})
  <2> DEFINE before == [j \in 1 .. (i - 1) |->
                          IF lots[j].asset = asset THEN lots[j].quantity ELSE 0]
             B == 1 .. (i - 1)
  <2>1. taken[i] = Min({held[i], Max({0, q - Sum(before)})})
    BY ONLY <1>1, <1>3 DEF Taken
  <2>2. /\ IsFiniteSet(B) /\ DOMAIN before = B
        /\ \A j \in B : before[j] = held[j]
    <3>1. i \in Int /\ IsFiniteSet(B) /\ DOMAIN before = B
      BY <1>1, FS_Interval
    <3>2. B \subseteq D
      BY <1>1
    <3>3. \A j \in B : before[j] = held[j]
      BY <3>2
    <3> QED
      BY <3>1, <3>3
  <2> HIDE DEF held, before, taken, B
  <2>3. SumFunctionOnSet(before, B) = SumFunctionOnSet(held, B)
    BY ONLY <2>2, SumOnSame
  <2>4. Sum(before) = earlier[i]
    BY ONLY <1>3, <2>2, <2>3 DEF Sum, SumFunction, B
  <2> QED
    BY ONLY <2>1, <2>4
<1>4. SumFunctionOnSet(w, D) = SumFunctionOnSet(held, D)
  <2>1. IsFiniteSet(D) /\ \A i \in D : w[i] = held[i]
    BY ONLY <1>1, Weights, FS_Interval
  <2> HIDE DEF w, held, D
  <2> QED
    BY ONLY <2>1, SumOnSame
<1>5. Weighted(lots, InAsset(asset)) = SumFunctionOnSet(w, D)
  BY ONLY <1>1 DEF Weighted, Sum, SumFunction
<1>6. DOMAIN taken = DOMAIN lots
  BY DEF Taken
<1>7. \A i \in D : earlier[i] = SumFunctionOnSet(held, 1 .. (i - 1))
  OBVIOUS
<1>8. \A i \in D : held[i] = IF lots[i].asset = asset THEN lots[i].quantity ELSE 0
  OBVIOUS
<1> HIDE DEF taken, held, earlier, n, w
<1>9. /\ \A i \in 1 .. n : taken[i] \in Nat /\ taken[i] <= held[i]
      /\ q <= SumFunctionOnSet(held, 1 .. n) => SumFunctionOnSet(taken, 1 .. n) = q
  BY ONLY <1>1, <1>2, <1>3, <1>7, FirstInFirstOut, q \in Nat
<1> QED
  BY <1>1, <1>4, <1>5, <1>6, <1>8, <1>9 DEF taken

\* Sums that differ term by term, by as much as a third.
LEMMA SumMinus ==
  ASSUME NEW T, IsFiniteSet(T), NEW f, NEW g, NEW h,
         \A x \in T : f[x] \in Int /\ g[x] \in Int /\ h[x] = f[x] - g[x]
  PROVE  /\ SumFunctionOnSet(h, T) = SumFunctionOnSet(f, T) - SumFunctionOnSet(g, T)
         /\ SumFunctionOnSet(f, T) \in Int /\ SumFunctionOnSet(g, T) \in Int
<1>1. \A x \in T : h[x] \in Int /\ g[x] \in Int /\ f[x] = h[x] + g[x]
  OBVIOUS
<1>2. SumFunctionOnSet(f, T) = SumFunctionOnSet(h, T) + SumFunctionOnSet(g, T)
  BY ONLY <1>1, IsFiniteSet(T), SumOnAdd
<1>3. SumFunctionOnSet(h, T) \in Int /\ SumFunctionOnSet(g, T) \in Int
  BY ONLY <1>1, IsFiniteSet(T), SumOnInt
<1> QED
  BY <1>2, <1>3

\* A sale leaves in the lots what it does not take: the shares of the other
\* assets, the rest of its own, and the cost that is not yet realized.
MatchBalances(lots, asset, q, price) ==
  LET match == Matched(lots, asset, q, price) IN
  /\ match.lots \in Seq(GoodLots)
  /\ match.gross \in Int /\ match.fees \in Int
  /\ lots \in Seq(FreeLots) => match.lots \in Seq(FreeLots) /\ match.fees = 0
  /\ q <= Weighted(lots, InAsset(asset)) =>
       /\ \A a : Weighted(match.lots, InAsset(a))
                   = Weighted(lots, InAsset(a)) - (IF a = asset THEN q ELSE 0)
       /\ Weighted(match.lots, Cost)
            = Weighted(lots, Cost) - q * price + match.gross - match.fees

LEMMA MatchedBooks ==
  ASSUME NEW lots, lots \in Seq(GoodLots), NEW asset, NEW q \in Nat, NEW price \in Int
  PROVE  MatchBalances(lots, asset, q, price)
<1> DEFINE taken == Taken(lots, asset, q)
           D == DOMAIN lots
           fee == [i \in D |-> EntryFee(lots[i], taken[i])]
           gain == [i \in D |-> taken[i] * (price - lots[i].price)]
           next == [i \in D |-> [lots[i] EXCEPT !.quantity = @ - taken[i], !.fee = @ - fee[i]]]
           match == Matched(lots, asset, q, price)
<1>1. /\ D = 1 .. Len(lots) /\ Len(lots) \in Nat
      /\ \A i \in D : lots[i] \in GoodLots
  OBVIOUS
<1>2. lots \in Seq(Lot) /\ \A i \in D : lots[i] \in Lot /\ lots[i].price \in Nat
  <2>1. GoodLots \subseteq Lot
    BY DEF GoodLots
  <2>2. \A i \in D : lots[i] \in Lot
    BY <1>1, <2>1
  <2>3. lots \in Seq(Lot)
    BY <2>1
  <2> QED
    BY <2>2, <2>3 DEF Lot
<1>3. IsFiniteSet(D)
  BY <1>1, FS_Interval
<1>4. match.lots = next /\ match.gross = Sum(gain) /\ match.fees = Sum(fee)
  BY DEF Matched
<1>5. /\ \A i \in D :
           /\ taken[i] \in Nat
           /\ taken[i] <= (IF lots[i].asset = asset THEN lots[i].quantity ELSE 0)
      /\ q <= Weighted(lots, InAsset(asset)) => SumFunctionOnSet(taken, D) = q
  BY ONLY <1>2, TakenShares, q \in Nat
<1>6. ASSUME NEW i \in D
      PROVE  /\ next[i] \in GoodLots /\ fee[i] \in Nat
             /\ lots[i] \in FreeLots => next[i] \in FreeLots /\ fee[i] = 0
             /\ \A a : InAsset(a)[next[i]]
                         = InAsset(a)[lots[i]] - (IF a = asset THEN taken[i] ELSE 0)
             /\ Cost[next[i]] = Cost[lots[i]] - taken[i] * lots[i].price - fee[i]
  <2> DEFINE lot == lots[i]
             n == taken[i]
  <2>1. lot \in GoodLots /\ n \in Nat /\ n <= (IF lot.asset = asset THEN lot.quantity ELSE 0)
    BY <1>1, <1>5
  <2>2. /\ fee[i] = EntryFee(lot, n)
        /\ next[i] = [lot EXCEPT !.quantity = @ - n, !.fee = @ - EntryFee(lot, n)]
    OBVIOUS
  <2> HIDE DEF next, fee, lot, n
  <2> QED
    <3>1. LET fee_ == EntryFee(lot, n)
              rest == [lot EXCEPT !.quantity = @ - n, !.fee = @ - fee_]
          IN /\ rest \in GoodLots /\ fee_ \in Nat
             /\ lot \in FreeLots => rest \in FreeLots /\ fee_ = 0
             /\ \A a : InAsset(a)[rest] = InAsset(a)[lot] - (IF a = asset THEN n ELSE 0)
             /\ Cost[rest] = Cost[lot] - n * lot.price - fee_
      BY ONLY <2>1, LotTaken
    <3>2. /\ next[i] \in GoodLots /\ fee[i] \in Nat
          /\ lot \in FreeLots => next[i] \in FreeLots /\ fee[i] = 0
          /\ \A a : InAsset(a)[next[i]] = InAsset(a)[lot] - (IF a = asset THEN n ELSE 0)
          /\ Cost[next[i]] = Cost[lot] - n * lot.price - fee[i]
      BY ONLY <2>2, <3>1
    <3> QED
      BY ONLY <3>2 DEF lot, n
<1>7. \A i \in D : gain[i] = taken[i] * (price - lots[i].price)
  OBVIOUS
<1>8. DOMAIN next = D /\ DOMAIN gain = D /\ DOMAIN fee = D /\ next = [i \in D |-> next[i]]
  OBVIOUS
<1> HIDE DEF next, gain, fee, match, taken
<1>9. next \in Seq(GoodLots)
  <2>1. next \in [1 .. Len(lots) -> GoodLots]
    BY ONLY <1>1, <1>6, <1>8
  <2> QED
    BY ONLY <1>1, <2>1, SequenceOf
<1>10. \A i \in D : gain[i] \in Int
  <2> TAKE i \in D
  <2> DEFINE x == taken[i]
             y == lots[i].price
  <2>1. gain[i] = x * (price - y) /\ x \in Nat /\ y \in Nat
    BY <1>2, <1>5, <1>7
  <2> HIDE DEF x, y
  <2> QED
    BY ONLY <2>1, price \in Int
<1>11. SumFunctionOnSet(gain, D) \in Int /\ SumFunctionOnSet(fee, D) \in Int
  <2>1. \A i \in D : fee[i] \in Int
    BY <1>6
  <2> QED
    BY ONLY <1>3, <1>10, <2>1, SumOnInt
<1>12. match.gross = SumFunctionOnSet(gain, D) /\ match.fees = SumFunctionOnSet(fee, D)
  BY ONLY <1>4, <1>8 DEF Sum, SumFunction
<1>13. ASSUME lots \in Seq(FreeLots) PROVE next \in Seq(FreeLots) /\ match.fees = 0
  <2>1. \A i \in D : lots[i] \in FreeLots
    BY ONLY <1>13
  <2>2. next \in [1 .. Len(lots) -> FreeLots] /\ \A i \in D : fee[i] = 0
    BY ONLY <1>1, <1>6, <1>8, <2>1
  <2>3. next \in Seq(FreeLots)
    BY ONLY <1>1, <2>2, SequenceOf
  <2>4. SumFunctionOnSet(fee, D) = 0
    BY ONLY <1>3, <2>2, SumOnZero
  <2> QED
    BY <1>12, <2>3, <2>4
<1>14. ASSUME NEW a, q <= Weighted(lots, InAsset(asset))
       PROVE  Weighted(next, InAsset(a))
                = Weighted(lots, InAsset(a)) - (IF a = asset THEN q ELSE 0)
  <2> DEFINE w == InAsset(a)
             f == [i \in D |-> w[lots[i]]]
             h == [i \in DOMAIN next |-> w[next[i]]]
             g == [i \in D |-> IF a = asset THEN taken[i] ELSE 0]
  <2>1. Weighted(lots, w) = SumFunctionOnSet(f, D) /\ Weighted(next, w) = SumFunctionOnSet(h, D)
    BY <1>8 DEF Weighted, Sum, SumFunction
  <2>2. \A i \in D : f[i] \in Int /\ g[i] \in Int /\ h[i] = f[i] - g[i]
    <3> TAKE i \in D
    <3>1. f[i] = w[lots[i]] /\ h[i] = w[next[i]] /\ g[i] = IF a = asset THEN taken[i] ELSE 0
      BY <1>8
    <3>2. w[lots[i]] \in Int
      BY <1>2, Weights
    <3> HIDE DEF f, h, g
    <3> QED
      BY <1>5, <1>6, <3>1, <3>2
  <2>3. SumFunctionOnSet(g, D) = IF a = asset THEN q ELSE 0
    <3>1. CASE a = asset
      <4>1. \A i \in D : g[i] = taken[i]
        BY <3>1
      <4> HIDE DEF g
      <4>2. SumFunctionOnSet(g, D) = SumFunctionOnSet(taken, D)
        BY ONLY <1>3, <4>1, SumOnSame
      <4> QED
        BY <1>5, <1>14, <3>1, <4>2
    <3>2. CASE a # asset
      <4>1. \A i \in D : g[i] = 0
        BY <3>2
      <4> HIDE DEF g
      <4>2. SumFunctionOnSet(g, D) = 0
        BY ONLY <1>3, <4>1, SumOnZero
      <4> QED
        BY <3>2, <4>2
    <3> QED
      BY <3>1, <3>2
  <2> HIDE DEF f, g, h, w, D
  <2>4. SumFunctionOnSet(h, D) = SumFunctionOnSet(f, D) - SumFunctionOnSet(g, D)
    BY ONLY <1>3, <2>2, SumMinus, ZenonT(30)
  <2> QED
    BY <2>1, <2>3, <2>4 DEF w
<1>15. ASSUME q <= Weighted(lots, InAsset(asset))
       PROVE  Weighted(next, Cost)
                = Weighted(lots, Cost) - q * price + match.gross - match.fees
  <2> DEFINE f == [i \in D |-> Cost[lots[i]]]
             h == [i \in DOMAIN next |-> Cost[next[i]]]
             proceeds == [i \in D |-> price * taken[i]]
             basis == [i \in D |-> f[i] - h[i] - fee[i]]
             spent == [i \in D |-> f[i] - h[i]]
  <2>1. Weighted(lots, Cost) = SumFunctionOnSet(f, D) /\ Weighted(next, Cost) = SumFunctionOnSet(h, D)
    BY <1>8 DEF Weighted, Sum, SumFunction
  <2>2. ASSUME NEW i \in D
        PROVE  /\ f[i] \in Int /\ h[i] \in Int /\ spent[i] = f[i] - h[i] /\ spent[i] \in Int
               /\ proceeds[i] \in Int /\ proceeds[i] = price * taken[i] /\ taken[i] \in Int
               /\ basis[i] = spent[i] - fee[i]
               /\ basis[i] = proceeds[i] - gain[i] /\ fee[i] \in Int
    <3> DEFINE x == taken[i]
               y == lots[i].price
    <3>1. /\ f[i] = Cost[lots[i]] /\ h[i] = Cost[next[i]] /\ proceeds[i] = price * x
          /\ spent[i] = f[i] - h[i] /\ basis[i] = f[i] - h[i] - fee[i]
      BY <1>8
    <3>2. Cost[lots[i]] \in Int /\ fee[i] \in Nat /\ x \in Nat /\ y \in Nat
      BY <1>2, <1>5, <1>6, Weights
    <3>3. Cost[next[i]] = Cost[lots[i]] - x * y - fee[i] /\ gain[i] = x * (price - y)
      BY <1>6, <1>7
    <3> HIDE DEF x, y, f, h, proceeds, basis, spent
    <3>4. x * y \in Int /\ price * x \in Int /\ x * (price - y) = price * x - x * y
      BY ONLY <3>2, price \in Int
    <3>5. h[i] \in Int /\ f[i] \in Int
      BY ONLY <3>1, <3>2, <3>3, <3>4
    <3>6. f[i] - h[i] - fee[i] = x * y
      BY ONLY <3>1, <3>2, <3>3, <3>4
    <3>7. basis[i] = proceeds[i] - gain[i]
      BY ONLY <3>1, <3>2, <3>3, <3>4, <3>6
    <3>8. spent[i] \in Int /\ x \in Int
      BY ONLY <3>1, <3>2, <3>5
    <3> QED
      BY ONLY <3>1, <3>2, <3>4, <3>5, <3>7, <3>8 DEF x
  <2> HIDE DEF f, h, proceeds, basis, spent, D
  <2>3. /\ SumFunctionOnSet(spent, D) = SumFunctionOnSet(f, D) - SumFunctionOnSet(h, D)
        /\ SumFunctionOnSet(f, D) \in Int /\ SumFunctionOnSet(h, D) \in Int
    <3>1. \A i \in D : f[i] \in Int /\ h[i] \in Int /\ spent[i] = f[i] - h[i]
      BY ONLY <2>2
    <3> QED
      BY ONLY <1>3, <3>1, SumMinus, ZenonT(30)
  <2>4. SumFunctionOnSet(basis, D) = SumFunctionOnSet(spent, D) - SumFunctionOnSet(fee, D)
    BY ONLY <1>3, <2>2, SumMinus, ZenonT(30)
  <2>5. SumFunctionOnSet(basis, D) = SumFunctionOnSet(proceeds, D) - SumFunctionOnSet(gain, D)
    BY ONLY <1>3, <1>10, <2>2, SumMinus
  <2>6. SumFunctionOnSet(proceeds, D) = price * q
    <3>1. SumFunctionOnSet(proceeds, D) = price * SumFunctionOnSet(taken, D)
      BY ONLY <1>3, <2>2, price \in Int, SumOnScale
    <3> QED
      BY <1>5, <1>15, <3>1
  <2>7. price * q = q * price /\ q * price \in Int
    BY ONLY q \in Nat, price \in Int
  <2> QED
    BY ONLY <1>11, <1>12, <2>1, <2>3, <2>4, <2>5, <2>6, <2>7
<1> QED
  BY <1>4, <1>9, <1>11, <1>12, <1>13, <1>14, <1>15 DEF match, MatchBalances

-----------------------------------------------------------------------------
(* A stock dividend is handed out whole.                                    *)

LEMMA NoWholeShares ==
  ASSUME NEW ratio \in [mantissa : Nat, scale : Nat]
  PROVE  WholeShares(0, ratio) = 0
<1> DEFINE unit == 2^Excess(0)
<1>1. unit \in Nat \ {0} /\ 2^ratio.scale \in Nat \ {0} /\ 0 * ratio.mantissa = 0
  BY ExcessType, PowerOfTwo
<1>2. \A d \in Nat \ {0} : 0 \div d = 0 /\ 0 % d = 0
  OBVIOUS
<1>3. RoundNearest(0, unit) = 0
  <2> HIDE DEF unit
  <2>1. 0 \div unit = 0 /\ 0 % unit = 0
    BY <1>1, <1>2
  <2> QED
    BY <1>1, <2>1 DEF RoundNearest
<1>4. Product(0, ratio) = 0
  <2>1. Product(0, ratio) = RoundNearest(0, unit) * unit
    BY <1>1 DEF Product
  <2> HIDE DEF unit
  <2> QED
    BY <1>1, <1>3, <2>1
<1> QED
  BY <1>1, <1>2, <1>4 DEF WholeShares

LEMMA ProductType ==
  ASSUME NEW quantity \in Nat, NEW ratio \in [mantissa : Nat, scale : Nat]
  PROVE  /\ Product(quantity, ratio) \in Nat /\ Fraction(quantity, ratio) \in Nat
         /\ Fraction(quantity, ratio) < 2^ratio.scale /\ 2^ratio.scale \in Nat \ {0}
         /\ Product(quantity, ratio)
              = 2^ratio.scale * WholeShares(quantity, ratio) + Fraction(quantity, ratio)
<1> DEFINE exact == quantity * ratio.mantissa
           unit == 2^Excess(exact)
           n == Product(quantity, ratio)
           d == 2^ratio.scale
<1>1. exact \in Nat
  OBVIOUS
<1>2. unit \in Nat \ {0} /\ d \in Nat \ {0}
  BY <1>1, ExcessType, PowerOfTwo
<1>3. n = RoundNearest(exact, unit) * unit
  BY DEF Product
<1>4. Fraction(quantity, ratio) = n % d /\ WholeShares(quantity, ratio) = n \div d
  BY DEF Fraction, WholeShares
<1> HIDE DEF exact, unit, n, d
<1>5. RoundNearest(exact, unit) \in Nat
  <2>1. exact \div unit \in Nat
    BY <1>1, <1>2
  <2> QED
    BY <2>1 DEF RoundNearest
<1>6. n \in Nat
  BY <1>2, <1>3, <1>5
<1>7. n \div d \in Nat /\ n % d \in Nat /\ n % d < d /\ n = d * (n \div d) + (n % d)
  BY <1>2, <1>6, DivBounds
<1> QED
  BY <1>2, <1>4, <1>6, <1>7 DEF n, d

\* As long as what the floors leave over is at most a share for each plan
\* that held shares, the plans together get what the account gets, and each
\* its own quota, rounded down or up.
LEMMA AllocationWhole ==
  ASSUME NEW shares, shares \in [Plan -> Nat], NEW ratio, ratio \in [mantissa : Nat, scale : Nat]
  PROVE  /\ Allocation(shares, ratio) \in [Plan -> Nat]
         /\ \A p \in Plan : Allocation(shares, ratio)[p] - WholeShares(shares[p], ratio) \in {0, 1}
         /\ Remainder(shares, ratio) \in 0 .. Cardinality({p \in Plan : shares[p] > 0}) =>
              Sum(Allocation(shares, ratio)) = WholeShares(Total(shares), ratio)
<1> DEFINE held == {p \in Plan : shares[p] > 0}
           fraction == [p \in Plan |-> Fraction(shares[p], ratio)]
           ahead == [p \in held |-> {q \in held :
                       fraction[q] > fraction[p] \/ (fraction[q] = fraction[p] /\ q < p)}]
           remainder == Remainder(shares, ratio)
           slice == SliceLength(Cardinality(held), remainder)
           floor == [p \in Plan |-> WholeShares(shares[p], ratio)]
           served == {p \in held : Cardinality(ahead[p]) < slice}
           award == Allocation(shares, ratio)
<1>1. IsFiniteSet(Plan) /\ IsFiniteSet(held) /\ held \subseteq Plan /\ Plan \subseteq Nat
  BY StockDividendAssumption, Finite
<1>2. \A p \in Plan : /\ fraction[p] \in Nat /\ floor[p] \in Nat /\ shares[p] \in Nat
                      /\ floor[p] = WholeShares(shares[p], ratio)
  BY ProductType, WholeSharesType
<1>3. \A p \in held : ahead[p] = {q \in held :
         LET mine == Fraction(shares[p], ratio)
             other == Fraction(shares[q], ratio)
         IN other > mine \/ (other = mine /\ q < p)}
  OBVIOUS
<1>4. ASSUME NEW p \in Plan
      PROVE  award[p] = floor[p] + (IF p \in served THEN 1 ELSE 0)
  <2>1. CASE p \notin held
    <3>1. award[p] = 0 /\ p \notin served
      BY <2>1 DEF Allocation
    <3>2. shares[p] = 0 /\ floor[p] = WholeShares(shares[p], ratio)
      BY <1>2, <2>1
    <3>3. floor[p] = 0
      BY <3>2, NoWholeShares
    <3> QED
      BY <3>1, <3>3
  <2>2. CASE p \in held
    <3>1. award[p] = WholeShares(shares[p], ratio)
                       + (IF Cardinality(ahead[p]) < slice THEN 1 ELSE 0)
      BY <1>3, <2>2 DEF Allocation
    <3> QED
      BY <2>2, <3>1
  <2> QED
    BY <2>1, <2>2
<1>5. award = [p \in Plan |-> award[p]]
  BY DEF Allocation
<1>6. /\ \A x \in held : ahead[x] \subseteq held /\ x \notin ahead[x]
      /\ \A x, y \in held : x = y \/ x \in ahead[y] \/ y \in ahead[x]
      /\ \A x, y \in held : x \in ahead[y] => ahead[x] \subseteq ahead[y]
  <2>1. \A x, y \in held : x \in ahead[y] <=>
           fraction[x] > fraction[y] \/ (fraction[x] = fraction[y] /\ x < y)
    OBVIOUS
  <2>2. \A x \in held : ahead[x] \subseteq held
    OBVIOUS
  <2>3. \A x \in held : fraction[x] \in Nat /\ x \in Nat
    BY <1>1, <1>2
  <2> HIDE DEF ahead, fraction, held
  <2>4. \A x \in held : x \notin ahead[x]
    BY ONLY <2>1, <2>3
  <2>5. \A x, y \in held : x = y \/ x \in ahead[y] \/ y \in ahead[x]
    BY ONLY <2>1, <2>3
  <2>6. \A x, y, z \in held : x \in ahead[y] /\ z \in ahead[x] => z \in ahead[y]
    BY ONLY <2>1, <2>3
  <2> QED
    BY ONLY <2>2, <2>4, <2>5, <2>6
<1>7. remainder = WholeShares(Total(shares), ratio) - Sum(floor)
  <2>1. DOMAIN shares = Plan
    OBVIOUS
  <2> QED
    BY <2>1 DEF Remainder, Total, Floors, Sum
<1>8. floor \in [Plan -> Nat] /\ served \in SUBSET Plan /\ DOMAIN floor = Plan
  BY <1>2
<1> HIDE DEF floor, award, remainder
<1>9. award \in [Plan -> Nat] /\ \A p \in Plan : award[p] - floor[p] \in {0, 1}
  <2>1. ASSUME NEW p \in Plan
        PROVE  award[p] \in Nat /\ award[p] - floor[p] \in {0, 1}
    <3>1. award[p] = floor[p] + (IF p \in served THEN 1 ELSE 0) /\ floor[p] \in Nat
      BY <1>4, <1>8
    <3> HIDE DEF served
    <3> QED
      BY ONLY <3>1
  <2> QED
    BY <1>5, <2>1
<1>10. ASSUME remainder \in 0 .. Cardinality(held)
       PROVE  Sum(award) = WholeShares(Total(shares), ratio)
  <2>1. slice = remainder /\ remainder \in Int
    BY <1>10 DEF SliceLength
  <2>2. Cardinality(served) = remainder
    <3> HIDE DEF held, ahead, slice
    <3>1. Cardinality({x \in held : Cardinality(ahead[x]) < remainder}) = remainder
      BY ONLY <1>1, <1>6, <1>10, RankCount
    <3> QED
      BY <2>1, <3>1
  <2> DEFINE one == [p \in Plan |-> IF p \in served THEN 1 ELSE 0]
  <2>3. /\ \A p \in Plan : one[p] = IF p \in served THEN 1 ELSE 0
        /\ one \in [Plan -> Int]
    OBVIOUS
  <2> HIDE DEF served, one
  <2>4. \A p \in Plan : award[p] = floor[p] + one[p]
    BY <1>4, <2>3
  <2>5. Sum(one) = Cardinality(served)
    <3>1. SumFunctionOnSet(one, Plan) = Cardinality(served)
      BY ONLY <1>1, <1>8, <2>3, SumOnOnes
    <3> QED
      BY <2>3, <3>1 DEF Sum, SumFunction
  <2>6. Sum(award) = Sum(floor) + Sum(one)
    <3>1. floor \in [Plan -> Int] /\ award \in [Plan -> Int]
      BY <1>8, <1>9
    <3>2. IsFiniteSet(Plan)
      BY <1>1
    <3>3. one \in [Plan -> Int]
      BY <2>3
    <3> QED
      BY ONLY <2>4, <3>1, <3>2, <3>3, SumPlus
  <2>7. Sum(floor) \in Nat
    BY <1>1, <1>8, SumNat
  <2>8. WholeShares(Total(shares), ratio) \in Nat
    <3>1. Total(shares) \in Nat
      BY <1>1, SumNat DEF Total, Sum
    <3> QED
      BY <3>1, WholeSharesType
  <2> QED
    BY ONLY <1>7, <2>1, <2>2, <2>5, <2>6, <2>7, <2>8
<1> QED
  BY <1>2, <1>9, <1>10 DEF award, remainder

\* Quotients whose remainders add up: n shares are left over by m floors.
LEMMA QuotientsApart ==
  ASSUME NEW d \in Nat \ {0}, NEW whole \in Nat, NEW r \in Nat, r < d,
         NEW floors \in Nat, NEW rest \in Nat, NEW n \in Nat, rest <= d * n,
         d * whole + r = d * floors + rest
  PROVE  whole - floors \in 0 .. n
<1>1. d * whole \in Nat /\ d * floors \in Nat /\ d * n \in Nat
  OBVIOUS
<1>2. ASSUME whole < floors PROVE FALSE
  <2>1. d * (whole + 1) <= d * floors /\ d * (whole + 1) = d * whole + d
    BY <1>2
  <2> QED
    BY <1>1, <2>1
<1>3. ASSUME whole > floors + n PROVE FALSE
  <2>1. d * (floors + n + 1) <= d * whole /\ d * (floors + n + 1) = d * floors + d * n + d
    BY <1>3
  <2> QED
    BY <1>1, <2>1
<1> QED
  BY <1>2, <1>3

\* A float has room for the product: nothing is rounded.
Exact(quantity, ratio) == Product(quantity, ratio) = quantity * ratio.mantissa

\* Without a rounding the floors leave over at most a share for each plan.
LEMMA ExactRemainder ==
  ASSUME NEW shares, shares \in [Plan -> Nat], NEW ratio, ratio \in [mantissa : Nat, scale : Nat],
         Exact(Total(shares), ratio), \A p \in Plan : Exact(shares[p], ratio)
  PROVE  Remainder(shares, ratio) \in 0 .. Cardinality({p \in Plan : shares[p] > 0})
<1> DEFINE held == {p \in Plan : shares[p] > 0}
           d == 2^ratio.scale
           m == ratio.mantissa
           floor == [p \in Plan |-> WholeShares(shares[p], ratio)]
           fraction == [p \in Plan |-> Fraction(shares[p], ratio)]
           exact == [p \in Plan |-> m * shares[p]]
           part == [p \in Plan |-> d * floor[p]]
           one == [p \in Plan |-> IF p \in held THEN 1 ELSE 0]
           unit == [p \in Plan |-> d * one[p]]
           room == [p \in Plan |-> unit[p] - fraction[p]]
<1>1. IsFiniteSet(Plan) /\ held \in SUBSET Plan /\ m \in Nat /\ DOMAIN shares = Plan
      /\ Cardinality(held) \in Nat
  <2>1. IsFiniteSet(held)
    BY Finite
  <2> QED
    BY <2>1, StockDividendAssumption, FS_CardinalityType
<1>2. d \in Nat \ {0}
  BY PowerOfTwo
<1>3. ASSUME NEW p \in Plan
      PROVE  /\ shares[p] \in Nat /\ floor[p] \in Nat /\ fraction[p] \in Nat
             /\ exact[p] \in Int /\ exact[p] = m * shares[p]
             /\ part[p] \in Int /\ part[p] = d * floor[p]
             /\ one[p] \in Int /\ unit[p] \in Int /\ unit[p] = d * one[p]
             /\ room[p] \in Nat /\ room[p] = unit[p] - fraction[p]
             /\ fraction[p] = exact[p] - part[p]
  <2> DEFINE x == shares[p]
             w == WholeShares(x, ratio)
             f == Fraction(x, ratio)
  <2>1. x \in Nat /\ w \in Nat /\ f \in Nat /\ f < d /\ Product(x, ratio) = d * w + f
    BY ProductType, WholeSharesType
  <2>2. Product(x, ratio) = x * m
    BY DEF Exact
  <2>3. floor[p] = w /\ fraction[p] = f /\ exact[p] = m * x /\ part[p] = d * w
    OBVIOUS
  <2>4. one[p] = (IF x > 0 THEN 1 ELSE 0) /\ unit[p] = d * one[p]
        /\ room[p] = unit[p] - fraction[p]
    OBVIOUS
  <2> HIDE DEF x, w, f, d, m, floor, fraction, exact, part, one, unit, room
  <2>5. x * m = m * x /\ m * x \in Int /\ d * w \in Int /\ d * 1 = d /\ d * 0 = 0
        /\ m * 0 = 0
    BY <1>1, <1>2, <2>1
  <2>6. f = m * x - d * w
    BY <1>2, <2>1, <2>2, <2>5
  <2>7. x = 0 => f = 0
    <3>1. SUFFICES ASSUME x = 0 PROVE f = 0
      OBVIOUS
    <3>2. d * w + f = 0 /\ d * w \in Nat
      BY <1>2, <2>1, <2>2, <2>5, <3>1
    <3> QED
      BY <2>1, <3>2
  <2>8. unit[p] \in Int /\ one[p] \in Int /\ room[p] \in Nat
    BY <1>2, <2>1, <2>3, <2>4, <2>5, <2>7
  <2> QED
    BY <2>1, <2>3, <2>4, <2>5, <2>6, <2>8 DEF x
<1>4. Remainder(shares, ratio) = WholeShares(Total(shares), ratio) - Sum(floor)
  BY <1>1 DEF Remainder, Total, Floors, Sum
<1>5. /\ DOMAIN floor = Plan /\ \A p \in Plan : one[p] = IF p \in held THEN 1 ELSE 0
  OBVIOUS
<1> DEFINE total == SumFunctionOnSet(shares, Plan)
           whole == WholeShares(total, ratio)
           r == Fraction(total, ratio)
           floors == SumFunctionOnSet(floor, Plan)
           rest == SumFunctionOnSet(fraction, Plan)
           n == Cardinality(held)
<1> HIDE DEF held, d, m, floor, fraction, exact, part, one, unit, room
<1>6. total \in Nat /\ floors \in Nat /\ rest \in Nat /\ SumFunctionOnSet(room, Plan) \in Nat
  <2>1. /\ \A p \in Plan : shares[p] \in Nat
        /\ \A p \in Plan : floor[p] \in Nat
        /\ \A p \in Plan : fraction[p] \in Nat
        /\ \A p \in Plan : room[p] \in Nat
    BY ONLY <1>3
  <2> QED
    BY ONLY <1>1, <2>1, SumOnNat
<1>7. SumFunctionOnSet(exact, Plan) = m * total
  <2>1. \A p \in Plan : shares[p] \in Int /\ exact[p] = m * shares[p]
    BY ONLY <1>3
  <2>2. m \in Int
    BY <1>1
  <2> QED
    BY ONLY <1>1, <2>1, <2>2, SumOnScale
<1>8. SumFunctionOnSet(part, Plan) = d * floors
  <2>1. \A p \in Plan : floor[p] \in Int /\ part[p] = d * floor[p]
    BY ONLY <1>3
  <2>2. d \in Int
    BY <1>2
  <2> QED
    BY ONLY <1>1, <2>1, <2>2, SumOnScale
<1>9. rest = SumFunctionOnSet(exact, Plan) - SumFunctionOnSet(part, Plan)
  <2>1. \A p \in Plan : exact[p] \in Int /\ part[p] \in Int /\ fraction[p] = exact[p] - part[p]
    BY ONLY <1>3
  <2> QED
    BY ONLY <1>1, <2>1, SumMinus
<1>10. rest <= d * n
  <2>1. SumFunctionOnSet(one, Plan) = n
    BY ONLY <1>1, <1>5, SumOnOnes
  <2>2. SumFunctionOnSet(unit, Plan) = d * SumFunctionOnSet(one, Plan)
    <3>1. \A p \in Plan : one[p] \in Int /\ unit[p] = d * one[p]
      BY ONLY <1>3
    <3>2. d \in Int
      BY <1>2
    <3> QED
      BY ONLY <1>1, <3>1, <3>2, SumOnScale
  <2>3. SumFunctionOnSet(room, Plan) = SumFunctionOnSet(unit, Plan) - rest
    <3>1. \A p \in Plan : unit[p] \in Int /\ fraction[p] \in Int /\ room[p] = unit[p] - fraction[p]
      BY ONLY <1>3
    <3> QED
      BY ONLY <1>1, <3>1, SumMinus
  <2>4. d * n \in Int
    BY <1>1, <1>2
  <2> QED
    BY ONLY <1>6, <2>1, <2>2, <2>3, <2>4
<1>11. /\ whole \in Nat /\ r \in Nat /\ r < d
       /\ Product(total, ratio) = d * whole + r /\ Product(total, ratio) = total * m
  <2>1. Total(shares) = total
    BY <1>1 DEF Total, SumFunction
  <2>2. Product(total, ratio) = total * m
    BY <2>1 DEF Exact, m
  <2>3. r \in Nat /\ r < d /\ Product(total, ratio) = d * whole + r
    BY <1>6, ProductType DEF d
  <2>4. whole \in Nat
    BY <1>6, WholeSharesType
  <2> QED
    BY <2>2, <2>3, <2>4
<1>12. Remainder(shares, ratio) = whole - floors
  BY <1>1, <1>4, <1>5 DEF Sum, SumFunction, Total
<1> HIDE DEF total, whole, r, floors, rest, n
<1>13. d * whole + r = d * floors + rest
  <2>1. m * total = total * m /\ m * total \in Int /\ d * floors \in Int /\ d * whole \in Int
    BY ONLY <1>1, <1>2, <1>6, <1>11
  <2> QED
    BY ONLY <1>6, <1>7, <1>8, <1>9, <1>11, <2>1
<1>14. n \in Nat
  BY <1>1 DEF n
<1>15. whole - floors \in 0 .. n
  BY ONLY <1>2, <1>6, <1>10, <1>11, <1>13, <1>14, QuotientsApart
<1> QED
  BY <1>12, <1>15 DEF n, held

-----------------------------------------------------------------------------
(* The books of one account, through the steps of a session.                *)

Kind(l) == IF l = "ideal" THEN FreeLots ELSE GoodLots

\* The reference ledger pays no fee, so what it realizes it keeps.
Typed(acct, l) ==
  /\ acct.lots \in Seq(Kind(l))
  /\ acct.gross \in Int /\ acct.net \in Int /\ acct.income \in Int
  /\ acct.holders \in [Action -> [Plan -> Nat]] /\ acct.awards \in [Action -> [Plan -> Nat]]
  /\ l = "ideal" => acct.net = acct.gross

\* The lots are the account's shares and hold the cost of what it has not
\* realized; shares due after session d that list from session first on are
\* those of the recorded holders.
Books(acct, d, first) ==
  /\ \A a \in Asset : Weighted(acct.lots, InAsset(a)) = acct.position[a]
  /\ acct.cash + Sum(acct.cashDue) + Weighted(acct.lots, Cost) = Capital + acct.net + acct.income
  /\ \A k \in Action :
       /\ Sum(acct.holders[k]) = acct.entitled[k]
       /\ Actions[k].ex > d => acct.cashDue[k] = 0
       /\ Actions[k].ex <= d => acct.awards[k] = Allocation(acct.holders[k], Actions[k].stock)
       /\ Actions[k].ex <= d /\ first <= Actions[k].list =>
            acct.sharesDue[k] = WholeShares(acct.entitled[k], Actions[k].stock)

\* What the floors of a stock dividend leave over is a share at most for
\* each plan on record.
Fits(acct) ==
  \A k \in Action :
    Remainder(acct.holders[k], Actions[k].stock)
      \in 0 .. Cardinality({p \in Plan : acct.holders[k][p] > 0})

LEMMA KindType ==
  ASSUME NEW l
  PROVE  /\ Kind(l) \subseteq GoodLots /\ Kind(l) \subseteq Lot /\ FreeLots \subseteq Kind(l)
         /\ FreeLots \subseteq GoodLots /\ GoodLots \subseteq Lot
  BY DEF Kind, FreeLots, GoodLots

LEMMA KindLots ==
  ASSUME NEW l, NEW lots, lots \in Seq(Kind(l))
  PROVE  lots \in Seq(GoodLots) /\ lots \in Seq(Lot)
<1> DEFINE Q == Kind(l)
<1>1. Q \subseteq GoodLots /\ Q \subseteq Lot
  BY KindType
<1> HIDE DEF Q
<1>2. \A i \in DOMAIN lots : lots[i] \in Q
  BY DEF Q
<1> QED
  BY <1>1 DEF Q

\* Steps that leave the books alone.
LEMMA BooksUntouched ==
  ASSUME NEW acct, NEW next, NEW l, NEW d, NEW first,
         next.cash = acct.cash, next.position = acct.position, next.lots = acct.lots,
         next.gross = acct.gross, next.net = acct.net, next.income = acct.income,
         next.entitled = acct.entitled, next.holders = acct.holders,
         next.awards = acct.awards, next.cashDue = acct.cashDue,
         next.sharesDue = acct.sharesDue
  PROVE  /\ Typed(acct, l) => Typed(next, l)
         /\ Books(acct, d, first) => Books(next, d, first)
         /\ Fits(acct) => Fits(next)
  BY DEF Typed, Books, Fits

LEMMA OpeningBooks ==
  ASSUME NEW l
  PROVE  Typed(Opening, l) /\ Books(Opening, 0, 1)
<1>1. /\ Opening.lots = <<>> /\ Opening.gross = 0 /\ Opening.net = 0 /\ Opening.income = 0
      /\ Opening.holders = [k \in Action |-> NoShares]
      /\ Opening.awards = [k \in Action |-> NoShares]
      /\ Opening.cash = Capital /\ Opening.position = [a \in Asset |-> 0]
      /\ Opening.cashDue = [k \in Action |-> 0] /\ Opening.entitled = [k \in Action |-> 0]
  BY DEF Opening
<1>2. NoShares \in [Plan -> Nat] /\ Sum(NoShares) = 0
  <2>1. Sum([p \in Plan |-> 0]) = 0
    BY SumZero, Finite
  <2> QED
    BY <2>1 DEF NoShares
<1>3. Typed(Opening, l)
  BY <1>1, <1>2 DEF Typed
<1>4. \A w : Weighted(Opening.lots, w) = 0
  BY <1>1, WeightedEmpty
<1>5. Sum(Opening.cashDue) = 0
  BY <1>1, SumZero, Finite
<1>6. \A k \in Action : Actions[k].ex \in Nat /\ Actions[k].ex > 0
  BY ActionType
<1>7. Capital \in Nat
  BY ExecutionAccountAssumption
<1> DEFINE opening == Opening
<1> HIDE DEF opening
<1>8. Books(opening, 0, 1)
  <2>1. \A a \in Asset : Weighted(opening.lots, InAsset(a)) = opening.position[a]
    BY <1>1, <1>4 DEF opening
  <2>2. opening.cash + Sum(opening.cashDue) + Weighted(opening.lots, Cost)
          = Capital + opening.net + opening.income
    BY <1>1, <1>4, <1>5, <1>7 DEF opening
  <2>3. \A k \in Action : Sum(opening.holders[k]) = opening.entitled[k] /\ opening.cashDue[k] = 0
    BY <1>1, <1>2 DEF opening
  <2>4. \A k \in Action : ~ Actions[k].ex <= 0
    BY <1>6
  <2> QED
    BY <2>1, <2>2, <2>3, <2>4 DEF Books
<1> QED
  BY <1>3, <1>8 DEF opening

\* From the ex date on dividends and bonus shares are due.
LEMMA AccruedBooks ==
  ASSUME NEW acct, NEW l, NEW d \in Int, NEW e \in Int, d < e, Sound(acct, d), Typed(acct, l),
         \A k \in Action : Actions[k].ex > d /\ Actions[k].ex <= e => Actions[k].ex = e
  PROVE  /\ Typed(Accrued(acct, e), l)
         /\ Books(acct, d, d + 1) => Books(Accrued(acct, e), e, e)
         /\ Fits(acct) => Fits(Accrued(acct, e))
<1> DEFINE next == Accrued(acct, e)
           ex == {k \in Action : Actions[k].ex = e}
           amount == [k \in ex |-> acct.entitled[k] * Actions[k].cash]
<1>1. /\ next.cash = acct.cash /\ next.position = acct.position /\ next.lots = acct.lots
      /\ next.gross = acct.gross /\ next.net = acct.net /\ next.entitled = acct.entitled
      /\ next.holders = acct.holders
  BY DEF Sound, Fields, Accrued
<1>2. /\ next.awards = [k \in Action |-> IF Actions[k].ex = e
                          THEN Allocation(acct.holders[k], Actions[k].stock) ELSE acct.awards[k]]
      /\ next.cashDue = [k \in Action |-> IF Actions[k].ex = e
                           THEN acct.entitled[k] * Actions[k].cash ELSE acct.cashDue[k]]
      /\ next.sharesDue = [k \in Action |-> IF Actions[k].ex = e
                             THEN WholeShares(acct.entitled[k], Actions[k].stock)
                             ELSE acct.sharesDue[k]]
  BY DEF Sound, Fields, Accrued
<1>3. next.income = acct.income + Sum(amount)
  BY DEF Sound, Fields, Accrued
<1>4. /\ acct.entitled \in [Action -> Nat] /\ acct.cashDue \in [Action -> Nat]
      /\ acct.cash \in Nat
  BY DEF Sound
<1>5. \A k \in Action : acct.entitled[k] * Actions[k].cash \in Nat
  BY <1>4, ActionType
<1>6. amount \in [ex -> Int] /\ IsFiniteSet(ex) /\ ex \in SUBSET Action
  BY <1>5, Finite
<1>7. Sum(amount) \in Int
  <2> HIDE DEF amount, ex
  <2> QED
    BY <1>6, SumInteger
<1>8. Typed(next, l)
  <2>1. \A k \in Action : Allocation(acct.holders[k], Actions[k].stock) \in [Plan -> Nat]
    <3> TAKE k \in Action
    <3>1. acct.holders[k] \in [Plan -> Nat] /\ Actions[k].stock \in [mantissa : Nat, scale : Nat]
      BY ActionType DEF Typed
    <3> QED
      BY ONLY <3>1, AllocationWhole
  <2>2. next.awards \in [Action -> [Plan -> Nat]]
    BY <1>2, <2>1 DEF Typed
  <2>3. next.income \in Int
    BY <1>3, <1>7 DEF Typed
  <2> HIDE DEF next
  <2> QED
    BY <1>1, <2>2, <2>3 DEF Typed
<1>9. Fits(acct) => Fits(next)
  <2> HIDE DEF next
  <2> QED
    BY <1>1 DEF Fits
<1>10. ASSUME Books(acct, d, d + 1) PROVE Books(next, e, e)
  <2>1. \A k \in Action :
          /\ Actions[k].ex \in Nat /\ Actions[k].list \in Nat /\ Actions[k].ex <= Actions[k].list
          /\ Sum(acct.holders[k]) = acct.entitled[k]
          /\ Actions[k].ex > d => acct.cashDue[k] = 0
          /\ Actions[k].ex <= d => acct.awards[k] = Allocation(acct.holders[k], Actions[k].stock)
          /\ Actions[k].ex <= d /\ d + 1 <= Actions[k].list =>
               acct.sharesDue[k] = WholeShares(acct.entitled[k], Actions[k].stock)
    BY <1>10, ActionType DEF Books
  <2>2. ASSUME NEW k \in Action
        PROVE  /\ Sum(next.holders[k]) = next.entitled[k]
               /\ Actions[k].ex > e => next.cashDue[k] = 0
               /\ Actions[k].ex <= e =>
                    next.awards[k] = Allocation(next.holders[k], Actions[k].stock)
               /\ Actions[k].ex <= e /\ e <= Actions[k].list =>
                    next.sharesDue[k] = WholeShares(next.entitled[k], Actions[k].stock)
    <3>1. Actions[k].ex <= d \/ Actions[k].ex = e \/ Actions[k].ex > e
      BY <2>1
    <3>2. Actions[k].ex <= d => Actions[k].ex # e
      BY <2>1
    <3> HIDE DEF next
    <3> QED
      BY <1>1, <1>2, <2>1, <3>1, <3>2
  <2>3. Sum(next.cashDue) = Sum(acct.cashDue) + Sum(amount)
    <3> DEFINE f == acct.cashDue
               h == next.cashDue
               g == [k \in Action |-> IF k \in ex THEN acct.entitled[k] * Actions[k].cash ELSE 0]
    <3>1. g \in [Action -> Int] /\ f \in [Action -> Int]
      BY <1>4, <1>5
    <3>2. \A k \in Action : h[k] = f[k] + g[k]
      <4> TAKE k \in Action
      <4>1. CASE k \in ex
        <5>1. f[k] = 0
          BY <2>1, <4>1
        <5>2. h[k] = acct.entitled[k] * Actions[k].cash /\ g[k] = h[k]
          BY <1>2, <4>1
        <5> HIDE DEF f, g, h
        <5> QED
          BY <3>1, <5>1, <5>2
      <4>2. CASE k \notin ex
        <5>1. h[k] = f[k] /\ g[k] = 0
          BY <1>2, <4>2
        <5> HIDE DEF f, g, h
        <5> QED
          BY <3>1, <5>1
      <4> QED
        BY <4>1, <4>2
    <3>3. h \in [Action -> Int]
      <4>1. next.cashDue \in [Action -> Nat]
        BY <1>2, <1>4, <1>5
      <4> HIDE DEF next
      <4> QED
        BY <4>1
    <3>4. Sum(g) = Sum(amount)
      <4> DEFINE c == [k \in Action |-> acct.entitled[k] * Actions[k].cash]
      <4>1. c \in [Action -> Int]
        BY <1>5
      <4>2. g = [k \in Action |-> IF k \in ex THEN c[k] ELSE 0] /\ amount = [k \in ex |-> c[k]]
        BY <1>6
      <4> HIDE DEF c, ex, g, amount
      <4>3. Sum([k \in ex |-> c[k]]) = Sum([k \in Action |-> IF k \in ex THEN c[k] ELSE 0])
        BY <1>6, <4>1, SumSome, Finite
      <4> QED
        BY <4>2, <4>3
    <3> HIDE DEF f, g, h, amount
    <3>5. Sum(h) = Sum(f) + Sum(g)
      BY <3>1, <3>2, <3>3, SumPlus, Finite
    <3> QED
      BY <3>4, <3>5 DEF f, h
  <2>4. acct.cash + Sum(acct.cashDue) + Weighted(acct.lots, Cost)
          = Capital + acct.net + acct.income
    BY <1>10 DEF Books
  <2>5. /\ Sum(acct.cashDue) \in Int /\ Weighted(acct.lots, Cost) \in Int /\ Capital \in Int
        /\ acct.net \in Int /\ acct.income \in Int
    <3>1. Sum(acct.cashDue) \in Int
      BY <1>4, SumNat, Finite
    <3>2. acct.lots \in Seq(Lot)
      BY KindLots DEF Typed
    <3>3. Weighted(acct.lots, Cost) \in Int
      BY ONLY <3>2, WeightedInt, Weights
    <3> QED
      BY <3>1, <3>3, ExecutionAccountAssumption DEF Typed
  <2>6. \A a \in Asset : Weighted(acct.lots, InAsset(a)) = acct.position[a]
    BY <1>10 DEF Books
  <2> HIDE DEF next, amount
  <2>7. next.cash + Sum(next.cashDue) + Weighted(next.lots, Cost)
          = Capital + next.net + next.income
    BY <1>1, <1>3, <1>4, <1>7, <2>3, <2>4, <2>5
  <2> QED
    BY <1>1, <2>2, <2>6, <2>7 DEF Books
<1> QED
  BY <1>8, <1>9, <1>10

\* Bonus lots of several actions weigh together what those of each weigh.
LEMMA WeightedFlatten ==
  ASSUME NEW s, s \in [Action -> Seq(FreeLots)], NEW w, w \in [Lot -> Int],
         NEW g, \A k \in Action : g[k] = Weighted(s[k], w)
  PROVE  /\ FlattenSeq(s) \in Seq(FreeLots)
         /\ Weighted(FlattenSeq(s), w) = SumFunctionOnSet(g, Action)
<1> DEFINE n == Len(Actions)
           Q == FreeLots
<1>1. n \in Nat /\ Action = 1 .. n /\ Q \subseteq Lot
  BY KindType, ExecutionAccountAssumption DEF Action
<1>2. s \in [1 .. n -> Seq(Q)] /\ \A k \in 1 .. n : g[k] = Weighted(s[k], w)
  BY <1>1
<1> HIDE DEF n, Q
<1>3. s \in Seq(Seq(Q)) /\ Len(s) = n
  BY <1>1, <1>2, SequenceOf
<1>4. \A t \in Seq(Q) : t \in Seq(Lot)
  BY <1>1
<1>5. \A i \in 1 .. n : s[i] \in Seq(Q) /\ s[i] \in Seq(Lot) /\ g[i] = Weighted(s[i], w)
  BY <1>2, <1>4
<1>6. \A i \in 1 .. n : g[i] \in Int
  BY <1>5, WeightedInt
<1>7. CASE n = 0
  <2>1. FlattenSeq(s) = s /\ s = <<>> /\ 1 .. n = {}
    BY <1>3, <1>7 DEF FlattenSeq
  <2>2. <<>> \in Seq(Q) /\ Weighted(<<>>, w) = 0
    BY WeightedEmpty
  <2>3. SumFunctionOnSet(g, {}) = 0
    BY SumOnEmpty
  <2> QED
    BY <1>1, <2>1, <2>2, <2>3 DEF Q
<1>8. CASE n # 0
  <2>1. PICK f : Joined(s, n, f) /\ FlattenSeq(s) = f[n]
    BY <1>1, <1>3, <1>8, FlattenJoins
  <2> DEFINE Good(i) == /\ f[i] \in Seq(Q)
                        /\ Weighted(f[i], w) = SumFunctionOnSet(g, 1 .. i)
             D == {i \in 1 .. n : ~ Good(i)}
             id == [k \in D |-> k]
  <2>2. ASSUME D # {} PROVE FALSE
    <3>1. IsFiniteSet(D) /\ D \subseteq Int
      <4>1. IsFiniteSet(1 .. n) /\ D \in SUBSET (1 .. n) /\ D \subseteq Int
        BY <1>1, FS_Interval
      <4> HIDE DEF D, Good
      <4>2. IsFiniteSet(D)
        BY ONLY <4>1, FS_Subset
      <4> QED
        BY <4>1, <4>2
    <3>2. \A k \in D : id[k] \in Int
      BY <3>1
    <3>3. PICK k \in D : \A j \in D : id[k] <= id[j]
      <4> HIDE DEF D, id
      <4> QED
        BY <2>2, <3>1, <3>2, LeastValue
    <3>4. k \in 1 .. n /\ ~ Good(k) /\ \A j \in D : k <= j
      BY <3>3
    <3>5. SumFunctionOnSet(g, 1 .. k) = SumFunctionOnSet(g, 1 .. (k - 1)) + g[k]
      <4>1. k \in Nat \ {0} /\ \A i \in 1 .. k : g[i] \in Int
        BY <1>1, <1>6, <3>4
      <4> HIDE DEF D
      <4> QED
        BY ONLY <4>1, SumLast
    <3>6. f[k] = IF k = 1 THEN s[k] ELSE f[k - 1] \o s[k]
      BY <1>1, <2>1, <3>4 DEF Joined
    <3>7. CASE k = 1
      <4>1. f[k] \in Seq(Q) /\ Weighted(f[k], w) = g[k] /\ g[k] \in Int
        BY <1>5, <1>6, <3>6, <3>7
      <4>2. SumFunctionOnSet(g, 1 .. (k - 1)) = 0
        <5>1. 1 .. (k - 1) = {}
          BY <3>7
        <5> QED
          BY <5>1, SumOnEmpty
      <4> QED
        BY <3>4, <3>5, <4>1, <4>2
    <3>8. CASE k # 1
      <4>1. k - 1 \in 1 .. n /\ k - 1 \notin D
        BY <1>1, <3>4, <3>8
      <4>2. Good(k - 1)
        BY <4>1
      <4>3. f[k - 1] \in Seq(Lot) /\ s[k] \in Seq(Lot) /\ g[k] = Weighted(s[k], w)
        BY <1>4, <1>5, <3>4, <4>2
      <4>4. Weighted(f[k - 1] \o s[k], w) = Weighted(f[k - 1], w) + Weighted(s[k], w)
        BY <4>3, WeightedConcat
      <4>5. f[k] \in Seq(Q)
        BY <1>5, <3>4, <3>6, <3>8, <4>2
      <4>6. f[k] = f[k - 1] \o s[k]
        BY <3>6, <3>8
      <4>7. Good(k)
        BY ONLY <3>5, <4>2, <4>3, <4>4, <4>5, <4>6
      <4> QED
        BY <3>4, <4>7
    <3> QED
      BY <3>7, <3>8
  <2>3. Good(n)
    <3>1. n \in 1 .. n
      BY <1>1, <1>8
    <3> HIDE DEF Good
    <3> QED
      BY <2>2, <3>1
  <2> QED
    BY <1>1, <2>1, <2>3 DEF Q
<1> QED
  BY <1>7, <1>8

\* The bonus lots of one action are free, and are the shares it awarded.
LEMMA BonusLotsWeight ==
  ASSUME NEW acct, NEW k, k \in Action, acct.awards \in [Action -> [Plan -> Nat]],
         acct.sharesDue \in [Action -> Nat]
  PROVE  LET lots == BonusLots(acct, k) IN
         /\ lots \in Seq(FreeLots)
         /\ Weighted(lots, Cost) = 0
         /\ \A a : Weighted(lots, InAsset(a)) =
              IF acct.sharesDue[k] > 0 /\ Actions[k].asset = a THEN Sum(acct.awards[k]) ELSE 0
<1> DEFINE lots == BonusLots(acct, k)
           award == acct.awards[k]
           earning == {p \in Plan : award[p] > 0}
           item == [p \in Plan |-> [plan |-> p, asset |-> Actions[k].asset,
                                    quantity |-> award[p], price |-> 0, fee |-> 0]]
<1>1. award \in [Plan -> Nat] /\ acct.sharesDue[k] \in Nat
  OBVIOUS
<1>2. /\ IsFiniteSet(Plan) /\ IsFiniteSet(earning) /\ earning \subseteq Int
      /\ earning \in SUBSET Plan
  <2>1. earning \in SUBSET Plan /\ Plan \subseteq Int
    BY StockDividendAssumption
  <2> HIDE DEF earning
  <2> QED
    BY <2>1, Finite
<1>3. CASE ~ acct.sharesDue[k] > 0
  <2>1. lots = <<>>
    BY <1>3 DEF BonusLots
  <2>2. \A w : Weighted(lots, w) = 0
    BY <2>1, WeightedEmpty
  <2>3. lots \in Seq(FreeLots)
    BY <2>1
  <2> QED
    BY <1>3, <2>2, <2>3
<1>4. CASE acct.sharesDue[k] > 0
  <2>1. lots = Listed(earning, item)
    <3>1. \A p \in earning : item[p] = [plan |-> p, asset |-> Actions[k].asset,
                                        quantity |-> acct.awards[k][p], price |-> 0, fee |-> 0]
      OBVIOUS
    <3>2. \A n \in 1 .. Cardinality(earning) : Ordered(earning)[n] \in earning
      <4>1. earning \subseteq Int /\ IsFiniteSet(earning)
        BY <1>2
      <4> HIDE DEF earning
      <4> QED
        BY <4>1, OrderedMembers DEF Bijection, Injection
    <3>3. earning = {p \in Plan : acct.awards[k][p] > 0}
      OBVIOUS
    <3> DEFINE rank == Ordered(earning)
               N == 1 .. Cardinality(earning)
    <3>4. lots = [n \in N |-> [plan |-> rank[n], asset |-> Actions[k].asset,
                               quantity |-> acct.awards[k][rank[n]], price |-> 0, fee |-> 0]]
      BY <1>4, <3>3 DEF BonusLots
    <3>5. Listed(earning, item) = [n \in N |-> item[rank[n]]]
      BY DEF Listed
    <3> HIDE DEF rank, N, item, earning
    <3> QED
      BY <3>1, <3>2, <3>4, <3>5 DEF rank, N
  <2>2. \A p \in Plan : item[p] \in FreeLots
    BY <1>1, ActionType DEF FreeLots, Lot
  <2>3. /\ IsFiniteSet(Plan) /\ IsFiniteSet(earning) /\ earning \subseteq Int
        /\ earning \in SUBSET Plan
    BY <1>2
  <2>4. \A p \in earning : item[p] \in Lot /\ item[p] \in FreeLots
    BY <2>2 DEF FreeLots
  <2>5. ASSUME NEW w, w \in [Lot -> Int]
        PROVE  /\ lots \in Seq(FreeLots)
               /\ Weighted(lots, w) = SumFunctionOnSet([p \in earning |-> w[item[p]]], earning)
    <3> HIDE DEF lots, earning, item
    <3>1. /\ Listed(earning, item) \in Seq(Lot)
          /\ \A i \in DOMAIN Listed(earning, item) :
               \E p \in earning : Listed(earning, item)[i] = item[p]
          /\ Weighted(Listed(earning, item), w)
               = SumFunctionOnSet([p \in earning |-> w[item[p]]], earning)
      BY ONLY <2>3, <2>4, <2>5, WeightedOrdered
    <3>2. \A i \in DOMAIN lots : lots[i] \in FreeLots
      BY ONLY <2>1, <2>4, <3>1
    <3>3. lots \in Seq(Lot)
      BY ONLY <2>1, <3>1
    <3>4. DOMAIN lots = 1 .. Len(lots) /\ Len(lots) \in Nat /\ lots \in [1 .. Len(lots) -> Lot]
      BY ONLY <3>3
    <3>5. lots \in [1 .. Len(lots) -> FreeLots]
      BY ONLY <3>2, <3>4
    <3>6. lots \in Seq(FreeLots)
      BY ONLY <3>4, <3>5, SequenceOf
    <3> QED
      BY <2>1, <3>1, <3>6
  <2>6. Weighted(lots, Cost) = 0
    <3> DEFINE g == [p \in earning |-> Cost[item[p]]]
    <3>1. \A p \in earning : g[p] = 0
      <4> TAKE p \in earning
      <4>1. Cost[item[p]] = item[p].quantity * item[p].price + item[p].fee
        BY <2>4, Weights
      <4>2. item[p].quantity \in Nat /\ item[p].price = 0 /\ item[p].fee = 0
        BY <1>1, <2>3
      <4>3. \A n \in Nat : n * 0 + 0 = 0
        OBVIOUS
      <4>4. Cost[item[p]] = 0
        BY <4>1, <4>2, <4>3
      <4> QED
        BY <4>4
    <3>2. Weighted(lots, Cost) = SumFunctionOnSet(g, earning)
      BY <2>5, Weights
    <3> HIDE DEF g, lots, earning
    <3>3. SumFunctionOnSet(g, earning) = 0
      BY ONLY <2>3, <3>1, SumOnZero
    <3> QED
      BY <3>2, <3>3
  <2>7. ASSUME NEW a
        PROVE  Weighted(lots, InAsset(a)) = IF Actions[k].asset = a THEN Sum(award) ELSE 0
    <3> DEFINE g == [p \in earning |-> InAsset(a)[item[p]]]
    <3>1. Weighted(lots, InAsset(a)) = SumFunctionOnSet(g, earning)
      BY <2>5, Weights
    <3>2. \A p \in earning : g[p] = IF Actions[k].asset = a THEN award[p] ELSE 0
      <4> TAKE p \in earning
      <4>1. InAsset(a)[item[p]] = IF item[p].asset = a THEN item[p].quantity ELSE 0
        BY <2>4, Weights
      <4>2. item[p].asset = Actions[k].asset /\ item[p].quantity = award[p]
        BY <2>3
      <4> QED
        BY <4>1, <4>2
    <3>3. CASE Actions[k].asset = a
      <4>1. \A p \in earning : g[p] = award[p]
        BY <3>2, <3>3
      <4>2. /\ \A p \in Plan : award[p] \in Int
            /\ \A p \in Plan \ earning : award[p] = 0
        BY <1>1
      <4>3. DOMAIN award = Plan
        BY <1>1
      <4> HIDE DEF g, earning, lots, award
      <4>4. SumFunctionOnSet(g, earning) = SumFunctionOnSet(award, earning)
        BY ONLY <2>3, <4>1, SumOnSame
      <4>5. SumFunctionOnSet(award, Plan) = SumFunctionOnSet(award, earning)
        BY ONLY <2>3, <4>2, SumOnPart
      <4> QED
        BY <3>1, <3>3, <4>3, <4>4, <4>5 DEF Sum, SumFunction
    <3>4. CASE Actions[k].asset # a
      <4>1. \A p \in earning : g[p] = 0
        BY <3>2, <3>4
      <4> HIDE DEF g, earning, lots
      <4>2. SumFunctionOnSet(g, earning) = 0
        BY ONLY <2>3, <4>1, SumOnZero
      <4> QED
        BY <3>1, <3>4, <4>2
    <3> QED
      BY <3>3, <3>4
  <2> QED
    BY <1>4, <2>5, <2>6, <2>7, Weights
<1> QED
  BY <1>3, <1>4

\* What is listed becomes lots of the plans that earned it, share for share.
LEMMA PaidBooks ==
  ASSUME NEW acct, NEW l, NEW d, NEW e \in Int, Sound(acct, d), Typed(acct, l)
  PROVE  /\ Typed(Paid(acct, e), l)
         /\ Books(acct, e, e) /\ Fits(acct) => Books(Paid(acct, e), e, e + 1)
<1> DEFINE next == Paid(acct, e)
           paid == {k \in Action : Actions[k].pay = e}
           listed == {k \in Action : Actions[k].list = e}
           ofAsset(a) == {k \in listed : Actions[k].asset = a}
           money == [k \in paid |-> acct.cashDue[k]]
           kept == [k \in Action |-> IF k \in paid THEN 0 ELSE acct.cashDue[k]]
           bonus == [k \in Action |-> IF k \in listed THEN BonusLots(acct, k) ELSE <<>>]
           n == Len(Actions)
<1>1. /\ next.gross = acct.gross /\ next.net = acct.net /\ next.income = acct.income
      /\ next.entitled = acct.entitled /\ next.holders = acct.holders
      /\ next.awards = acct.awards
  BY DEF Sound, Fields, Paid
<1>2. /\ next.cash = acct.cash + Sum(money) /\ next.cashDue = kept
      /\ next.position = [a \in Asset |-> acct.position[a]
           + Sum([k \in ofAsset(a) |-> acct.sharesDue[k]])]
      /\ next.sharesDue = [k \in Action |-> IF k \in listed THEN 0 ELSE acct.sharesDue[k]]
      /\ next.lots = acct.lots \o FlattenSeq(bonus)
  BY DEF Sound, Fields, Paid
<1>3. /\ acct.sharesDue \in [Action -> Nat] /\ acct.cashDue \in [Action -> Nat]
      /\ acct.awards \in [Action -> [Plan -> Nat]] /\ acct.cash \in Nat
      /\ acct.position \in [Asset -> Nat] /\ acct.holders \in [Action -> [Plan -> Nat]]
  BY DEF Sound, Shares, Typed
<1>4. n \in Nat /\ Action = 1 .. n
  BY ExecutionAccountAssumption DEF Action
<1>5. ASSUME NEW k \in Action
      PROVE  /\ bonus[k] \in Seq(FreeLots)
             /\ Weighted(bonus[k], Cost) = 0
             /\ \A a : Weighted(bonus[k], InAsset(a)) =
                  IF k \in ofAsset(a) /\ acct.sharesDue[k] > 0 THEN Sum(acct.awards[k]) ELSE 0
  <2>1. CASE k \in listed
    <3>1. bonus[k] = BonusLots(acct, k) /\ \A a : k \in ofAsset(a) <=> Actions[k].asset = a
      BY <2>1
    <3>2. /\ k \in Action /\ acct.awards \in [Action -> [Plan -> Nat]]
          /\ acct.sharesDue \in [Action -> Nat]
      BY <1>3
    <3> DEFINE lots == BonusLots(acct, k)
    <3>3. /\ lots \in Seq(FreeLots) /\ Weighted(lots, Cost) = 0
          /\ \A a : Weighted(lots, InAsset(a)) =
               IF acct.sharesDue[k] > 0 /\ Actions[k].asset = a THEN Sum(acct.awards[k]) ELSE 0
      BY ONLY <3>2, BonusLotsWeight
    <3> HIDE DEF bonus, ofAsset, listed, lots
    <3>4. bonus[k] = lots
      BY <3>1 DEF lots
    <3> QED
      BY ONLY <3>1, <3>3, <3>4
  <2>2. CASE k \notin listed
    <3>1. bonus[k] = <<>> /\ \A a : k \notin ofAsset(a)
      BY <2>2
    <3>2. \A w : Weighted(<<>>, w) = 0
      BY WeightedEmpty
    <3>3. <<>> \in Seq(FreeLots)
      OBVIOUS
    <3> HIDE DEF bonus, ofAsset, listed
    <3> QED
      BY <3>1, <3>2, <3>3
  <2> QED
    BY <2>1, <2>2
<1>6. bonus = [k \in Action |-> bonus[k]]
  OBVIOUS
<1> HIDE DEF next, bonus, kept, money, n
<1> DEFINE extra == FlattenSeq(bonus)
<1>7. ASSUME NEW w, w \in [Lot -> Int],
             NEW f, \A k \in Action : f[k] = Weighted(bonus[k], w)
      PROVE  extra \in Seq(FreeLots) /\ Weighted(extra, w) = SumFunctionOnSet(f, Action)
  <2>1. bonus \in [Action -> Seq(FreeLots)]
    BY ONLY <1>5, <1>6
  <2>2. FreeLots \subseteq Lot
    BY KindType
  <2> QED
    BY ONLY <1>7, <2>1, WeightedFlatten DEF extra
<1>8. extra \in Seq(FreeLots) /\ extra \in Seq(Lot) /\ extra \in Seq(Kind(l))
  <2> DEFINE f == [k \in Action |-> Weighted(bonus[k], Cost)]
  <2>1. extra \in Seq(FreeLots)
    <3>1. \A k \in Action : f[k] = Weighted(bonus[k], Cost)
      OBVIOUS
    <3> HIDE DEF f, extra
    <3> QED
      BY <1>7, <3>1, Weights
  <2>2. FreeLots \subseteq Lot /\ FreeLots \subseteq Kind(l)
    BY KindType
  <2> HIDE DEF extra
  <2> QED
    BY ONLY <2>1, <2>2
<1> HIDE DEF extra
<1>9. acct.lots \in Seq(Kind(l)) /\ acct.lots \in Seq(Lot)
  BY KindLots DEF Typed
<1>10. Typed(next, l)
  <2>1. next.lots = acct.lots \o extra
    BY <1>2 DEF extra
  <2>2. next.lots \in Seq(Kind(l))
    BY ONLY <1>8, <1>9, <2>1
  <2> QED
    BY <1>1, <2>2 DEF Typed
<1>11. ASSUME NEW w, w \in [Lot -> Int]
       PROVE  /\ Weighted(next.lots, w) = Weighted(acct.lots, w) + Weighted(extra, w)
              /\ Weighted(acct.lots, w) \in Int /\ Weighted(extra, w) \in Int
  <2>1. next.lots = acct.lots \o extra
    BY <1>2 DEF extra
  <2>2. Weighted(acct.lots, w) \in Int /\ Weighted(extra, w) \in Int
    BY ONLY <1>8, <1>9, <1>11, WeightedInt
  <2> QED
    BY ONLY <1>8, <1>9, <1>11, <2>1, <2>2, WeightedConcat
<1>12. ASSUME Books(acct, e, e), Fits(acct) PROVE Books(next, e, e + 1)
  <2>1. \A k \in Action :
          /\ Actions[k].ex \in Nat /\ Actions[k].list \in Nat /\ Actions[k].ex <= Actions[k].list
          /\ Sum(acct.holders[k]) = acct.entitled[k]
          /\ Actions[k].ex > e => acct.cashDue[k] = 0
          /\ Actions[k].ex <= e => acct.awards[k] = Allocation(acct.holders[k], Actions[k].stock)
          /\ Actions[k].ex <= e /\ e <= Actions[k].list =>
               acct.sharesDue[k] = WholeShares(acct.entitled[k], Actions[k].stock)
    BY <1>12, ActionType DEF Books
  <2>2. \A k \in listed : Sum(acct.awards[k]) = acct.sharesDue[k]
    <3> TAKE k \in listed
    <3> DEFINE shares == acct.holders[k]
               ratio == Actions[k].stock
    <3>1. shares \in [Plan -> Nat] /\ ratio \in [mantissa : Nat, scale : Nat]
      BY <1>3, ActionType
    <3>2. Remainder(shares, ratio) \in 0 .. Cardinality({p \in Plan : shares[p] > 0})
      BY <1>12 DEF Fits
    <3>3. acct.awards[k] = Allocation(shares, ratio)
          /\ acct.sharesDue[k] = WholeShares(acct.entitled[k], ratio)
          /\ Total(shares) = acct.entitled[k]
      BY <2>1 DEF Total, Sum
    <3> HIDE DEF shares, ratio
    <3>4. Sum(Allocation(shares, ratio)) = WholeShares(Total(shares), ratio)
      BY ONLY <3>1, <3>2, AllocationWhole
    <3> QED
      BY <3>3, <3>4
  <2>3. ASSUME NEW a \in Asset
        PROVE  Weighted(next.lots, InAsset(a)) = next.position[a]
    <3> DEFINE f == [k \in Action |-> Weighted(bonus[k], InAsset(a))]
               g == [k \in Action |-> IF k \in ofAsset(a) THEN acct.sharesDue[k] ELSE 0]
               due_ == [k \in ofAsset(a) |-> acct.sharesDue[k]]
    <3>1. Weighted(extra, InAsset(a)) = SumFunctionOnSet(f, Action)
      <4>1. \A k \in Action : f[k] = Weighted(bonus[k], InAsset(a))
        OBVIOUS
      <4> HIDE DEF f
      <4> QED
        BY <1>7, <4>1, Weights
    <3>2. \A k \in Action : f[k] = g[k]
      <4> TAKE k \in Action
      <4>1. f[k] = Weighted(bonus[k], InAsset(a))
        BY <1>4
      <4>2. k \in ofAsset(a) => Sum(acct.awards[k]) = acct.sharesDue[k]
        BY <2>2
      <4>3. g[k] = IF k \in ofAsset(a) THEN acct.sharesDue[k] ELSE 0
        OBVIOUS
      <4>4. acct.sharesDue[k] \in Nat
        BY <1>3
      <4> HIDE DEF f, g, ofAsset
      <4> QED
        BY ONLY <1>5, <4>1, <4>2, <4>3, <4>4
    <3>3. Sum(due_) = Sum(g) /\ DOMAIN g = Action
      <4> DEFINE U == ofAsset(a)
                 s == acct.sharesDue
      <4>1. U \in SUBSET Action /\ s \in [Action -> Int]
        BY <1>3
      <4>2. due_ = [k \in U |-> s[k]] /\ g = [k \in Action |-> IF k \in U THEN s[k] ELSE 0]
        OBVIOUS
      <4> HIDE DEF U, s, due_, g
      <4>3. Sum([k \in U |-> s[k]]) = Sum([k \in Action |-> IF k \in U THEN s[k] ELSE 0])
        BY <4>1, SumSome, Finite
      <4> QED
        BY <4>2, <4>3
    <3>4. next.position[a] = acct.position[a] + Sum(due_)
      BY <1>2
    <3> HIDE DEF f, g, due_
    <3>5. SumFunctionOnSet(f, Action) = SumFunctionOnSet(g, Action)
      BY <3>2, SumOnSame, Finite
    <3>6. Weighted(acct.lots, InAsset(a)) = acct.position[a]
      BY <1>12 DEF Books
    <3>7. Weighted(next.lots, InAsset(a))
            = Weighted(acct.lots, InAsset(a)) + Weighted(extra, InAsset(a))
      BY <1>11, Weights
    <3> QED
      BY <3>1, <3>3, <3>4, <3>5, <3>6, <3>7 DEF Sum, SumFunction
  <2>4. Weighted(next.lots, Cost) = Weighted(acct.lots, Cost)
    <3> DEFINE f == [k \in Action |-> Weighted(bonus[k], Cost)]
    <3>1. Weighted(extra, Cost) = SumFunctionOnSet(f, Action)
      <4>1. \A k \in Action : f[k] = Weighted(bonus[k], Cost)
        OBVIOUS
      <4> HIDE DEF f
      <4> QED
        BY <1>7, <4>1, Weights
    <3>2. \A k \in Action : f[k] = 0
      BY <1>5
    <3> HIDE DEF f
    <3>3. SumFunctionOnSet(f, Action) = 0
      BY <3>2, SumOnZero, Finite
    <3>4. /\ Weighted(next.lots, Cost) = Weighted(acct.lots, Cost) + Weighted(extra, Cost)
          /\ Weighted(acct.lots, Cost) \in Int
      BY <1>11, Weights
    <3> QED
      BY <3>1, <3>3, <3>4
  <2>5. next.cash + Sum(next.cashDue) = acct.cash + Sum(acct.cashDue)
    <3> DEFINE f == acct.cashDue
               m == Sum(money)
               r == Sum(kept)
    <3>1. f \in [Action -> Int] /\ paid \in SUBSET Action
      BY <1>3
    <3>2. money = [k \in paid |-> f[k]] /\ kept = [k \in Action |-> IF k \in paid THEN 0 ELSE f[k]]
      BY DEF money, kept
    <3> HIDE DEF f, paid
    <3>3. Sum(f) = Sum([k \in paid |-> f[k]]) + Sum([k \in Action |-> IF k \in paid THEN 0 ELSE f[k]])
      BY <3>1, SumSplit, Finite
    <3>4. Sum([k \in paid |-> f[k]]) \in Int
      <4>1. [k \in paid |-> f[k]] \in [paid -> Int] /\ IsFiniteSet(paid)
        BY <3>1, Finite
      <4> QED
        BY <4>1, SumInteger
    <3>5. Sum([k \in Action |-> IF k \in paid THEN 0 ELSE f[k]]) \in Int
      <4> DEFINE h == [k \in Action |-> IF k \in paid THEN 0 ELSE f[k]]
      <4>1. h \in [Action -> Int]
        BY <3>1
      <4> HIDE DEF h
      <4>2. Sum(h) \in Int
        BY <4>1, SumInteger, Finite
      <4> QED
        BY <4>2 DEF h
    <3>6. m \in Int /\ r \in Int /\ Sum(f) = m + r
      BY <3>2, <3>3, <3>4, <3>5
    <3>7. next.cash = acct.cash + m /\ Sum(next.cashDue) = r /\ acct.cash \in Int
      BY <1>2, <1>3
    <3> HIDE DEF m, r
    <3> QED
      BY <3>6, <3>7 DEF f
  <2>6. acct.cash + Sum(acct.cashDue) + Weighted(acct.lots, Cost)
          = Capital + acct.net + acct.income
    BY <1>12 DEF Books
  <2>7. ASSUME NEW k \in Action
        PROVE  /\ Sum(next.holders[k]) = next.entitled[k]
               /\ Actions[k].ex > e => next.cashDue[k] = 0
               /\ Actions[k].ex <= e =>
                    next.awards[k] = Allocation(next.holders[k], Actions[k].stock)
               /\ Actions[k].ex <= e /\ e + 1 <= Actions[k].list =>
                    next.sharesDue[k] = WholeShares(next.entitled[k], Actions[k].stock)
    <3>1. Actions[k].ex > e => kept[k] = 0
      BY <2>1 DEF kept
    <3>2. e + 1 <= Actions[k].list => k \notin listed /\ e <= Actions[k].list
      BY <2>1
    <3> HIDE DEF listed
    <3> QED
      BY <1>1, <1>2, <2>1, <3>1, <3>2
  <2> QED
    BY <1>1, <2>3, <2>4, <2>5, <2>6, <2>7 DEF Books
<1> QED
  BY <1>10, <1>12 DEF next

\* Released and marked shares leave the books alone.
LEMMA OpenedBooks ==
  ASSUME NEW acct, NEW l, NEW d \in Int, NEW e \in Int, d < e, Sound(acct, d), Typed(acct, l),
         NEW prices \in [Asset -> Price \union {None}],
         \A k \in Action : Actions[k].ex > d /\ Actions[k].ex <= e => Actions[k].ex = e
  PROVE  /\ Typed(Opened(acct, e, prices), l)
         /\ Books(acct, d, d + 1) /\ Fits(acct) => Books(Opened(acct, e, prices), e, e + 1)
<1> DEFINE accrued == Accrued(acct, e)
           released == Released(accrued, e)
           paid == Paid(released, e)
           opened == Marked(paid, prices)
<1>1. /\ Sound(accrued, d) /\ Typed(accrued, l)
      /\ Books(acct, d, d + 1) => Books(accrued, e, e)
      /\ Fits(acct) => Fits(accrued)
  BY AccruedSound, AccruedBooks
<1> HIDE DEF accrued
<1>2. /\ released.cash = accrued.cash /\ released.position = accrued.position
      /\ released.lots = accrued.lots /\ released.gross = accrued.gross
      /\ released.net = accrued.net /\ released.income = accrued.income
      /\ released.entitled = accrued.entitled /\ released.holders = accrued.holders
      /\ released.awards = accrued.awards /\ released.cashDue = accrued.cashDue
      /\ released.sharesDue = accrued.sharesDue
  BY <1>1 DEF Sound, Fields, Released
<1>3. Sound(released, e)
  BY <1>1, ReleasedSound
<1> HIDE DEF released
<1>4. /\ Typed(released, l)
      /\ Books(accrued, e, e) => Books(released, e, e)
      /\ Fits(accrued) => Fits(released)
  BY <1>1, <1>2, BooksUntouched
<1>5. /\ Typed(paid, l) /\ Sound(paid, e)
      /\ Books(released, e, e) /\ Fits(released) => Books(paid, e, e + 1)
  BY <1>3, <1>4, PaidBooks, PaidSound
<1> HIDE DEF paid
<1>6. /\ opened.cash = paid.cash /\ opened.position = paid.position
      /\ opened.lots = paid.lots /\ opened.gross = paid.gross
      /\ opened.net = paid.net /\ opened.income = paid.income
      /\ opened.entitled = paid.entitled /\ opened.holders = paid.holders
      /\ opened.awards = paid.awards /\ opened.cashDue = paid.cashDue
      /\ opened.sharesDue = paid.sharesDue
  BY <1>5 DEF Sound, Fields, Marked
<1> HIDE DEF opened
<1>7. /\ Typed(opened, l)
      /\ Books(paid, e, e + 1) => Books(opened, e, e + 1)
  BY <1>5, <1>6, BooksUntouched
<1>8. Opened(acct, e, prices) = opened
  BY DEF Opened, opened, paid, released, accrued
<1> QED
  BY <1>1, <1>4, <1>5, <1>7, <1>8

\* A purchase pays for its lot.
LEMMA BoughtBooks ==
  ASSUME RequestInv, NEW acct, NEW l, NEW d, NEW first, Sound(acct, d), Typed(acct, l),
         NEW p \in Plan, NEW quantity \in Nat \ {0}, NEW price \in Nat, NEW fee \in Nat,
         l = "ideal" => fee = 0, NEW reference, NEW when
  PROVE  LET next == Bought(acct, p, quantity, price, fee, reference, when) IN
         /\ Typed(next, l)
         /\ Books(acct, d, first) => Books(next, d, first)
<1> DEFINE next == Bought(acct, p, quantity, price, fee, reference, when)
           asset == plans[p].asset
           lot == [plan |-> p, asset |-> asset, quantity |-> quantity, price |-> price, fee |-> fee]
<1>1. /\ next.gross = acct.gross /\ next.net = acct.net /\ next.income = acct.income
      /\ next.entitled = acct.entitled /\ next.holders = acct.holders
      /\ next.awards = acct.awards /\ next.cashDue = acct.cashDue
      /\ next.sharesDue = acct.sharesDue
      /\ next.lots = Append(acct.lots, lot)
      /\ next.cash = acct.cash - quantity * price - fee
  BY DEF Sound, Fields, Bought
<1>2. \A a \in Asset : next.position[a] =
         IF asset = a THEN acct.position[a] + quantity ELSE acct.position[a]
  BY BoughtPosition DEF Sound
<1>3. lot \in Kind(l) /\ lot \in Lot
  <2>1. asset \in Asset
    BY PlanType
  <2>2. lot \in Lot
    BY <2>1 DEF Lot
  <2>3. lot.fee = fee /\ lot.quantity = quantity
    OBVIOUS
  <2> HIDE DEF lot
  <2> QED
    BY <2>2, <2>3 DEF Kind, FreeLots, GoodLots
<1>4. \A a : InAsset(a)[lot] = IF asset = a THEN quantity ELSE 0
  BY <1>3, Weights
<1>5. Cost[lot] = quantity * price + fee
  BY <1>3, Weights
<1>6. acct.lots \in Seq(Kind(l)) /\ acct.lots \in Seq(Lot)
  BY KindLots DEF Typed
<1> HIDE DEF next, lot, asset
<1>7. next.lots \in Seq(Kind(l))
  BY ONLY <1>1, <1>3, <1>6
<1>8. Typed(next, l)
  BY <1>1, <1>7 DEF Typed
<1>9. ASSUME NEW w, w \in [Lot -> Int]
      PROVE  /\ Weighted(next.lots, w) = Weighted(acct.lots, w) + w[lot]
             /\ Weighted(acct.lots, w) \in Int
  BY ONLY <1>1, <1>3, <1>6, <1>9, WeightedAppend, WeightedInt
<1>10. ASSUME Books(acct, d, first) PROVE Books(next, d, first)
  <2>1. ASSUME NEW a \in Asset PROVE Weighted(next.lots, InAsset(a)) = next.position[a]
    <3>1. acct.position[a] \in Nat /\ Weighted(acct.lots, InAsset(a)) = acct.position[a]
      BY <1>10 DEF Books, Sound, Shares
    <3>2. Weighted(next.lots, InAsset(a)) = Weighted(acct.lots, InAsset(a)) + InAsset(a)[lot]
      BY <1>9, Weights
    <3> QED
      BY <1>2, <1>4, <3>1, <3>2
  <2>2. next.cash + Sum(next.cashDue) + Weighted(next.lots, Cost)
          = Capital + next.net + next.income
    <3> DEFINE c == acct.cash
               s == Sum(acct.cashDue)
               w == Weighted(acct.lots, Cost)
               v == quantity * price
    <3>1. c \in Int /\ s \in Int /\ w \in Int /\ v \in Int
      <4>1. s \in Int
        BY SumNat, Finite DEF Sound
      <4>2. w \in Int
        BY <1>9, Weights
      <4>3. v \in Int
        OBVIOUS
      <4> QED
        BY <4>1, <4>2, <4>3 DEF Sound
    <3>2. c + s + w = Capital + acct.net + acct.income
      BY <1>10 DEF Books
    <3>3. Weighted(next.lots, Cost) = w + Cost[lot]
      BY <1>9, Weights
    <3>4. next.cash = c - v - fee /\ Sum(next.cashDue) = s /\ Cost[lot] = v + fee
      BY <1>1, <1>5
    <3> HIDE DEF c, s, w, v
    <3>5. next.cash + Sum(next.cashDue) + Weighted(next.lots, Cost) = c + s + w
      BY <3>1, <3>3, <3>4
    <3> QED
      BY <1>1, <3>2, <3>5
  <2> QED
    BY <1>1, <1>10, <2>1, <2>2 DEF Books
<1> QED
  BY <1>8, <1>10 DEF next

\* A sale brings in its price; what exceeds the lots' cost is realized.
LEMMA SoldBooks ==
  ASSUME RequestInv, NEW acct, NEW l, NEW d, NEW first, Sound(acct, d), Typed(acct, l),
         NEW p \in Plan, NEW quantity \in Nat, quantity <= acct.position[plans[p].asset],
         NEW price \in Nat, NEW fee \in Nat, l = "ideal" => fee = 0, NEW reference
  PROVE  LET next == Sold(acct, p, quantity, price, fee, reference) IN
         /\ Typed(next, l)
         /\ Books(acct, d, first) => Books(next, d, first)
<1> DEFINE next == Sold(acct, p, quantity, price, fee, reference)
           asset == plans[p].asset
           match == Matched(acct.lots, asset, quantity, price)
<1>1. /\ next.income = acct.income
      /\ next.entitled = acct.entitled /\ next.holders = acct.holders
      /\ next.awards = acct.awards /\ next.cashDue = acct.cashDue
      /\ next.sharesDue = acct.sharesDue
      /\ next.cash = acct.cash + quantity * price - fee
      /\ next.lots = match.lots
      /\ next.gross = acct.gross + match.gross
      /\ next.net = acct.net + match.gross - match.fees - fee
  BY DEF Sound, Fields, Sold
<1>2. \A a \in Asset : next.position[a] =
         IF asset = a THEN acct.position[a] - quantity ELSE acct.position[a]
  BY SoldPosition DEF Sound
<1>3. acct.lots \in Seq(GoodLots) /\ acct.lots \in Seq(Lot)
  BY KindLots DEF Typed
<1>4. /\ match.lots \in Seq(GoodLots) /\ match.gross \in Int /\ match.fees \in Int
      /\ acct.lots \in Seq(FreeLots) => match.lots \in Seq(FreeLots) /\ match.fees = 0
      /\ quantity <= Weighted(acct.lots, InAsset(asset)) =>
           /\ \A a : Weighted(match.lots, InAsset(a))
                       = Weighted(acct.lots, InAsset(a)) - (IF a = asset THEN quantity ELSE 0)
           /\ Weighted(match.lots, Cost)
                = Weighted(acct.lots, Cost) - quantity * price + match.gross - match.fees
  <2>1. price \in Int /\ quantity \in Nat
    OBVIOUS
  <2>2. MatchBalances(acct.lots, asset, quantity, price)
    BY <1>3, <2>1, MatchedBooks
  <2> QED
    BY <2>2 DEF MatchBalances
<1> HIDE DEF next, match
<1>5. Typed(next, l)
  <2>1. next.lots \in Seq(Kind(l))
    BY <1>1, <1>4 DEF Typed, Kind
  <2>2. acct.net \in Int /\ acct.gross \in Int /\ (l = "ideal" => acct.net = acct.gross)
    BY DEF Typed
  <2>3. next.net \in Int /\ next.gross \in Int
    BY <1>1, <1>4, <2>2
  <2>4. l = "ideal" => next.net = next.gross
    BY <1>1, <1>4, <2>2 DEF Typed, Kind
  <2> QED
    BY <1>1, <2>1, <2>3, <2>4 DEF Typed
<1>6. ASSUME Books(acct, d, first) PROVE Books(next, d, first)
  <2>1. asset \in Asset
    BY PlanType
  <2>2. \A a \in Asset : /\ acct.position[a] \in Nat
                         /\ Weighted(acct.lots, InAsset(a)) = acct.position[a]
    BY <1>6 DEF Books, Sound, Shares
  <2>3. /\ \A a : Weighted(next.lots, InAsset(a))
                    = Weighted(acct.lots, InAsset(a)) - (IF a = asset THEN quantity ELSE 0)
        /\ Weighted(next.lots, Cost)
             = Weighted(acct.lots, Cost) - quantity * price + match.gross - match.fees
    BY <1>1, <1>4, <2>1, <2>2
  <2> HIDE DEF asset
  <2>4. \A a \in Asset : Weighted(next.lots, InAsset(a)) = next.position[a]
    BY <1>2, <2>2, <2>3
  <2>5. next.cash + Sum(next.cashDue) + Weighted(next.lots, Cost)
          = Capital + next.net + next.income
    <3> DEFINE c == acct.cash
               s == Sum(acct.cashDue)
               w == Weighted(acct.lots, Cost)
               v == quantity * price
               g == match.gross
               f == match.fees
    <3>1. c \in Int /\ s \in Int /\ w \in Int /\ v \in Int /\ g \in Int /\ f \in Int
      <4>1. s \in Int
        BY SumNat, Finite DEF Sound
      <4>2. w \in Int
        BY ONLY <1>3, WeightedInt, Weights
      <4>3. v \in Int
        OBVIOUS
      <4> QED
        BY <1>4, <4>1, <4>2, <4>3 DEF Sound
    <3>2. c + s + w = Capital + acct.net + acct.income
      BY <1>6 DEF Books
    <3>3. /\ Weighted(next.lots, Cost) = w - v + g - f
          /\ next.cash = c + v - fee /\ Sum(next.cashDue) = s
          /\ next.net = acct.net + g - f - fee /\ next.income = acct.income
      BY <1>1, <2>3
    <3>4. acct.net \in Int /\ acct.income \in Int /\ Capital \in Int
      BY ExecutionAccountAssumption DEF Typed
    <3> HIDE DEF c, s, w, v, g, f
    <3> QED
      BY <3>1, <3>2, <3>3, <3>4
  <2> QED
    BY <1>1, <1>6, <2>4, <2>5 DEF Books
<1> QED
  BY <1>5, <1>6 DEF next

LEMMA SumOnOnly ==
  ASSUME NEW T, IsFiniteSet(T), NEW f, \A y \in T : f[y] \in Int, NEW x \in T,
         \A y \in T \ {x} : f[y] = 0
  PROVE  SumFunctionOnSet(f, T) = f[x]
<1>1. SumFunctionOnSet(f, T) = f[x] + SumFunctionOnSet(f, T \ {x})
  BY SumOnRemove
<1>2. SumFunctionOnSet(f, T \ {x}) = 0
  <2>1. IsFiniteSet(T \ {x})
    BY FS_RemoveElement
  <2> QED
    BY <2>1, SumOnZero
<1> QED
  BY <1>1, <1>2

HeldShares(lots, asset, p) ==
  Sum([i \in DOMAIN lots |->
         IF lots[i].asset = asset /\ lots[i].plan = p THEN lots[i].quantity ELSE 0])

\* The plans whose lots are in an asset hold together the shares in it.
LEMMA HeldLots ==
  ASSUME NEW lots, lots \in Seq(Lot), NEW asset, NEW held, DOMAIN held = Plan,
         \A p \in Plan : held[p] = HeldShares(lots, asset, p)
  PROVE  /\ \A p \in Plan : held[p] \in Nat
         /\ Sum(held) = Weighted(lots, InAsset(asset))
<1> DEFINE D == DOMAIN lots
           f == [p \in Plan |-> [i \in D |->
                  IF lots[i].asset = asset /\ lots[i].plan = p THEN lots[i].quantity ELSE 0]]
           column == [i \in D |-> Column(f, Plan, i)]
           weight == [i \in D |-> InAsset(asset)[lots[i]]]
<1>1. /\ IsFiniteSet(D) /\ IsFiniteSet(Plan)
      /\ \A i \in D : lots[i] \in Lot /\ lots[i].quantity \in Nat /\ lots[i].plan \in Plan
  <2>1. D = 1 .. Len(lots) /\ Len(lots) \in Nat /\ \A i \in D : lots[i] \in Lot
    OBVIOUS
  <2>2. IsFiniteSet(D)
    BY <2>1, FS_Interval
  <2> QED
    BY <2>1, <2>2, StockDividendAssumption DEF Lot
<1>2. \A p \in Plan, i \in D :
        /\ f[p][i] \in Nat /\ f[p][i] \in Int
        /\ f[p][i] = IF lots[i].asset = asset /\ lots[i].plan = p THEN lots[i].quantity ELSE 0
        /\ column[i][p] = f[p][i]
  BY <1>1 DEF Column
<1>3. \A p \in Plan : /\ f[p] = [i \in D |->
                           IF lots[i].asset = asset /\ lots[i].plan = p THEN lots[i].quantity ELSE 0]
                      /\ DOMAIN f[p] = D
  OBVIOUS
<1>4. \A i \in D : weight[i] = IF lots[i].asset = asset THEN lots[i].quantity ELSE 0
  BY <1>1, Weights
<1>5. Weighted(lots, InAsset(asset)) = SumFunctionOnSet(weight, D)
  BY DEF Weighted, Sum, SumFunction
<1> HIDE DEF f, column, weight, D
<1>6. \A p \in Plan : held[p] = SumFunctionOnSet(f[p], D)
  <2> TAKE p \in Plan
  <2>1. held[p] = Sum(f[p])
    BY <1>3 DEF D, HeldShares
  <2> QED
    BY <1>3, <2>1 DEF Sum, SumFunction
<1>7. ASSUME NEW p \in Plan PROVE held[p] \in Nat
  <2> DEFINE g == f[p]
  <2>1. \A i \in D : g[i] \in Nat
    BY <1>2
  <2> HIDE DEF g
  <2>2. SumFunctionOnSet(g, D) \in Nat
    BY ONLY <1>1, <2>1, SumOnNat
  <2> QED
    BY <1>6, <2>2 DEF g
<1>8. ASSUME NEW i \in D PROVE weight[i] = SumFunctionOnSet(column[i], Plan)
  <2> DEFINE g == column[i]
             x == lots[i].plan
  <2>1. x \in Plan /\ \A p \in Plan : g[p] \in Int
    BY <1>1, <1>2
  <2>2. \A p \in Plan \ {x} : g[p] = 0
    BY <1>2
  <2>3. g[x] = weight[i]
    BY <1>1, <1>2, <1>4
  <2> HIDE DEF g, x
  <2>4. SumFunctionOnSet(g, Plan) = g[x]
    BY ONLY <1>1, <2>1, <2>2, SumOnOnly
  <2> QED
    BY <2>3, <2>4 DEF g
<1>9. SumFunctionOnSet(held, Plan) = SumFunctionOnSet(weight, D)
  <2>1. \A p \in Plan, i \in D : f[p][i] \in Int
    BY ONLY <1>2
  <2>2. IsFiniteSet(D) /\ IsFiniteSet(Plan)
    BY <1>1
  <2> DEFINE rows == RowSums(f, Plan, D)
             columns == ColumnSums(f, Plan, D)
  <2>3. SumFunctionOnSet(rows, Plan) = SumFunctionOnSet(columns, D)
    BY ONLY <2>1, <2>2, SumOnExchange
  <2>4. \A p \in Plan : held[p] = rows[p]
    BY <1>6 DEF RowSums
  <2>5. \A i \in D : weight[i] = columns[i]
    BY <1>8 DEF ColumnSums, column
  <2> HIDE DEF rows, columns
  <2>6. SumFunctionOnSet(held, Plan) = SumFunctionOnSet(rows, Plan)
    BY ONLY <2>2, <2>4, SumOnSame
  <2>7. SumFunctionOnSet(weight, D) = SumFunctionOnSet(columns, D)
    BY ONLY <2>2, <2>5, SumOnSame
  <2> QED
    BY <2>3, <2>6, <2>7
<1> QED
  BY <1>5, <1>7, <1>9 DEF Sum, SumFunction

\* On the record date the holders' shares are the account's.
LEMMA RecordedBooks ==
  ASSUME NEW acct, NEW l, NEW d \in Int, NEW first, Sound(acct, d), Typed(acct, l)
  PROVE  /\ Typed(Recorded(acct, d), l)
         /\ Books(acct, d, first) => Books(Recorded(acct, d), d, first)
<1> DEFINE next == Recorded(acct, d)
           held(k) == [p \in Plan |-> HeldShares(acct.lots, Actions[k].asset, p)]
<1>1. /\ next.cash = acct.cash /\ next.position = acct.position /\ next.lots = acct.lots
      /\ next.gross = acct.gross /\ next.net = acct.net /\ next.income = acct.income
      /\ next.awards = acct.awards /\ next.cashDue = acct.cashDue
      /\ next.sharesDue = acct.sharesDue
  BY DEF Sound, Fields, Recorded
<1>2. next.entitled = [k \in Action |-> IF Actions[k].record = d
                         THEN acct.position[Actions[k].asset] ELSE acct.entitled[k]]
  BY DEF Sound, Fields, Recorded
<1>3. next.holders = [k \in Action |-> IF Actions[k].record = d THEN held(k) ELSE acct.holders[k]]
  BY DEF Sound, Fields, Recorded, LotSum, HeldShares
<1>4. acct.lots \in Seq(Lot)
  BY KindLots DEF Typed
<1>5. ASSUME NEW k \in Action
      PROVE  /\ held(k) \in [Plan -> Nat]
             /\ Sum(held(k)) = Weighted(acct.lots, InAsset(Actions[k].asset))
  <2> DEFINE h == held(k)
  <2>1. /\ DOMAIN h = Plan /\ h = [p \in Plan |-> h[p]]
        /\ \A p \in Plan : h[p] = HeldShares(acct.lots, Actions[k].asset, p)
    OBVIOUS
  <2> HIDE DEF h
  <2>2. /\ \A p \in Plan : h[p] \in Nat
        /\ Sum(h) = Weighted(acct.lots, InAsset(Actions[k].asset))
    BY ONLY <1>4, <2>1, HeldLots
  <2>3. h \in [Plan -> Nat]
    BY <2>1, <2>2
  <2> QED
    BY <2>2, <2>3 DEF h
<1> HIDE DEF next, held
<1>6. Typed(next, l)
  <2>1. next.holders \in [Action -> [Plan -> Nat]]
    BY <1>3, <1>5 DEF Typed
  <2> QED
    BY <1>1, <2>1 DEF Typed
<1>7. ASSUME Books(acct, d, first) PROVE Books(next, d, first)
  <2>1. ASSUME NEW k \in Action
        PROVE  /\ Sum(next.holders[k]) = next.entitled[k]
               /\ Actions[k].ex > d => next.cashDue[k] = 0
               /\ Actions[k].ex <= d =>
                    next.awards[k] = Allocation(next.holders[k], Actions[k].stock)
               /\ Actions[k].ex <= d /\ first <= Actions[k].list =>
                    next.sharesDue[k] = WholeShares(next.entitled[k], Actions[k].stock)
    <3>1. /\ Sum(acct.holders[k]) = acct.entitled[k]
          /\ Actions[k].ex > d => acct.cashDue[k] = 0
          /\ Actions[k].ex <= d =>
               acct.awards[k] = Allocation(acct.holders[k], Actions[k].stock)
          /\ Actions[k].ex <= d /\ first <= Actions[k].list =>
               acct.sharesDue[k] = WholeShares(acct.entitled[k], Actions[k].stock)
      BY <1>7 DEF Books
    <3>2. /\ Actions[k].asset \in Asset /\ Actions[k].record < Actions[k].ex
          /\ Actions[k].record \in Int /\ Actions[k].ex \in Int
      BY ActionType
    <3>3. Weighted(acct.lots, InAsset(Actions[k].asset)) = acct.position[Actions[k].asset]
      BY <1>7, <3>2 DEF Books
    <3>4. CASE Actions[k].record = d
      <4>1. Sum(next.holders[k]) = next.entitled[k]
        BY <1>2, <1>3, <1>5, <3>3, <3>4
      <4>2. ~ Actions[k].ex <= d
        BY <3>2, <3>4
      <4> QED
        BY <1>1, <3>1, <4>1, <4>2
    <3>5. CASE Actions[k].record # d
      <4>1. next.holders[k] = acct.holders[k] /\ next.entitled[k] = acct.entitled[k]
        BY <1>2, <1>3, <3>5
      <4> QED
        BY <1>1, <3>1, <4>1
    <3> QED
      BY <3>4, <3>5
  <2> QED
    BY <1>1, <1>7, <2>1 DEF Books
<1> QED
  BY <1>6, <1>7 DEF next

\* A lot that a sale has emptied weighs nothing.
LEMMA KeptBooks ==
  ASSUME NEW acct, NEW l, NEW d, NEW first, DOMAIN acct = Fields, Typed(acct, l)
  PROVE  /\ Typed(WithoutEmptyLots(acct), l)
         /\ Books(acct, d, first) => Books(WithoutEmptyLots(acct), d, first)
<1> DEFINE next == WithoutEmptyLots(acct)
           lots == acct.lots
           kept == {i \in DOMAIN lots : lots[i].quantity > 0}
<1>1. /\ next.cash = acct.cash /\ next.position = acct.position /\ next.gross = acct.gross
      /\ next.net = acct.net /\ next.income = acct.income /\ next.entitled = acct.entitled
      /\ next.holders = acct.holders /\ next.awards = acct.awards
      /\ next.cashDue = acct.cashDue /\ next.sharesDue = acct.sharesDue
      /\ next.lots = Listed(kept, lots)
  BY DEF Fields, WithoutEmptyLots, Listed
<1>2. lots \in Seq(Kind(l)) /\ lots \in Seq(Lot) /\ lots \in Seq(GoodLots)
  BY KindLots DEF Typed
<1>3. \A i \in DOMAIN lots : lots[i] \in GoodLots /\ lots[i] \in Lot /\ lots[i] \in Kind(l)
  <2> DEFINE Q == Kind(l)
  <2> HIDE DEF Q, lots
  <2>1. lots \in Seq(Q)
    BY <1>2 DEF Q
  <2>2. \A i \in DOMAIN lots : lots[i] \in GoodLots /\ lots[i] \in Lot /\ lots[i] \in Q
    BY <1>2, <2>1
  <2> QED
    BY <2>2 DEF Q
<1>4. \A i \in DOMAIN lots : i \notin kept => lots[i].quantity = 0 /\ lots[i].fee = 0
  BY <1>3 DEF GoodLots, Lot
<1>5. kept \subseteq DOMAIN lots
  OBVIOUS
<1> HIDE DEF next, lots, kept
<1>6. ASSUME NEW w, w \in [Lot -> Int], \A i \in DOMAIN lots : i \notin kept => w[lots[i]] = 0
      PROVE  /\ next.lots \in Seq(Lot)
             /\ \A i \in DOMAIN next.lots : \E j \in kept : next.lots[i] = lots[j]
             /\ Weighted(next.lots, w) = Weighted(lots, w)
  <2>1. LET s == Listed(kept, lots) IN
         /\ s \in Seq(Lot)
         /\ \A i \in DOMAIN s : \E j \in kept : s[i] = lots[j]
         /\ Weighted(s, w) = Weighted(lots, w)
    BY ONLY <1>2, <1>5, <1>6, WeightedKept
  <2> QED
    BY ONLY <1>1, <2>1
<1>7. \A i \in DOMAIN lots : i \notin kept =>
         /\ Cost[lots[i]] = 0
         /\ \A a : InAsset(a)[lots[i]] = 0
  <2> TAKE i \in DOMAIN lots
  <2> DEFINE lot == lots[i]
  <2> HAVE i \notin kept
  <2>1. lot \in Lot /\ lot.quantity = 0 /\ lot.fee = 0 /\ lot.price \in Nat
    BY <1>3, <1>4 DEF Lot
  <2> HIDE DEF lot
  <2>2. \A n \in Nat : 0 * n + 0 = 0
    OBVIOUS
  <2>3. Cost[lot] = 0
    BY <2>1, <2>2, Weights
  <2>4. \A a : InAsset(a)[lot] = 0
    BY <2>1, Weights
  <2> QED
    BY <2>3, <2>4 DEF lot
<1>8. Weighted(next.lots, Cost) = Weighted(lots, Cost) /\ next.lots \in Seq(Lot)
      /\ \A i \in DOMAIN next.lots : \E j \in kept : next.lots[i] = lots[j]
  <2>1. Cost \in [Lot -> Int]
    BY Weights
  <2> QED
    BY ONLY <1>6, <1>7, <2>1
<1>9. ASSUME NEW a PROVE Weighted(next.lots, InAsset(a)) = Weighted(lots, InAsset(a))
  <2> DEFINE w == InAsset(a)
  <2>1. w \in [Lot -> Int] /\ \A i \in DOMAIN lots : i \notin kept => w[lots[i]] = 0
    BY <1>7, Weights
  <2> HIDE DEF w
  <2>2. Weighted(next.lots, w) = Weighted(lots, w)
    BY ONLY <1>6, <2>1
  <2> QED
    BY <2>2 DEF w
<1>10. next.lots \in Seq(Kind(l))
  <2> DEFINE s == next.lots
             Q == Kind(l)
             n == Len(s)
  <2>1. \A i \in DOMAIN s : s[i] \in Q
    BY <1>3, <1>5, <1>8
  <2> HIDE DEF s, Q
  <2>2. s \in Seq(Lot)
    BY <1>8 DEF s
  <2>3. n \in Nat /\ DOMAIN s = 1 .. n /\ s = [i \in 1 .. n |-> s[i]]
    BY ONLY <2>2
  <2>4. s \in [1 .. n -> Q]
    BY ONLY <2>1, <2>3
  <2>5. s \in Seq(Q)
    BY ONLY <2>3, <2>4, SequenceOf
  <2> QED
    BY <2>5 DEF s, Q
<1>11. Typed(next, l)
  BY <1>1, <1>10 DEF Typed
<1>12. Books(acct, d, first) => Books(next, d, first)
  BY <1>1, <1>8, <1>9 DEF Books, lots
<1> QED
  BY <1>11, <1>12 DEF next

\* The close marks, records and drops the empty lots.
LEMMA ClosedBooks ==
  ASSUME NEW acct, NEW l, NEW d \in Int, NEW first, Sound(acct, d), Typed(acct, l),
         NEW prices \in [Asset -> Price \union {None}]
  PROVE  LET next == WithoutEmptyLots(Recorded(Marked(acct, prices), d)) IN
         /\ Typed(next, l)
         /\ Books(acct, d, first) => Books(next, d, first)
<1> DEFINE marked == Marked(acct, prices)
           recorded == Recorded(marked, d)
           next == WithoutEmptyLots(recorded)
<1>1. /\ marked.cash = acct.cash /\ marked.position = acct.position
      /\ marked.lots = acct.lots /\ marked.gross = acct.gross
      /\ marked.net = acct.net /\ marked.income = acct.income
      /\ marked.entitled = acct.entitled /\ marked.holders = acct.holders
      /\ marked.awards = acct.awards /\ marked.cashDue = acct.cashDue
      /\ marked.sharesDue = acct.sharesDue
  BY DEF Sound, Fields, Marked
<1>2. Sound(marked, d)
  BY MarkedSound
<1> HIDE DEF marked
<1>3. Typed(marked, l) /\ (Books(acct, d, first) => Books(marked, d, first))
  BY <1>1, BooksUntouched
<1>4. Typed(recorded, l) /\ (Books(marked, d, first) => Books(recorded, d, first))
  BY <1>2, <1>3, RecordedBooks
<1>5. DOMAIN recorded = Fields
  BY <1>2 DEF Sound, Fields, Recorded
<1> HIDE DEF recorded
<1>6. Typed(next, l) /\ (Books(recorded, d, first) => Books(next, d, first))
  BY <1>4, <1>5, KeptBooks
<1> QED
  BY <1>3, <1>4, <1>6 DEF next, recorded, marked

-----------------------------------------------------------------------------
(* The books of both ledgers, in every behaviour.                           *)

BooksTyped == \A l \in Ledger : Typed(account[l], l)

BooksBalance == \A l \in Ledger : Books(account[l], day, day + 1)

\* The floors of every stock dividend leave a plan on record at most one
\* share each: then "ordered[:remainder]" hands out exactly what is left.
RemaindersFit == \A l \in Ledger : Fits(account[l])

LEMMA BooksInit ==
  Init => BooksTyped /\ BooksBalance
<1> SUFFICES ASSUME Init, NEW l \in Ledger
             PROVE  Typed(account[l], l) /\ Books(account[l], day, day + 1)
  BY DEF BooksTyped, BooksBalance
<1>1. account[l] = Opening /\ day = 0 /\ day + 1 = 1
  BY DEF Init
<1> QED
  BY <1>1, OpeningBooks

LEMMA BooksOpen ==
  ASSUME AccountInv, CalendarInv, BooksTyped, OpenSession
  PROVE  BooksTyped' /\ (BooksBalance /\ RemaindersFit => BooksBalance')
<1> SUFFICES ASSUME NEW l \in Ledger
             PROVE  /\ Typed(account'[l], l)
                    /\ Books(account[l], day, day + 1) /\ Fits(account[l])
                         => Books(account'[l], day', day' + 1)
  BY DEF BooksTyped, BooksBalance, RemaindersFit
<1> DEFINE e == day'
           prices == open'
<1>1. /\ Sound(account[l], day) /\ RequestInv /\ Ahead # {} /\ e = Min(Ahead)
      /\ account'[l] = Opened(account[l], e, prices)
      /\ prices \in [Asset -> Price \union {None}]
  BY DEF AccountInv, BooksInv, OpenSession, Price
<1>2. e \in Int /\ day \in Int /\ day < e
  BY <1>1, NextSession, SessionType DEF RequestInv
<1>3. \A k \in Action : Actions[k].ex > day /\ Actions[k].ex <= e => Actions[k].ex = e
  BY <1>1, NoDateSkipped
<1>4. Typed(account[l], l)
  BY DEF BooksTyped
<1> HIDE DEF e, prices
<1> QED
  BY <1>1, <1>2, <1>3, <1>4, OpenedBooks DEF e

LEMMA BooksClose ==
  ASSUME AccountInv, BooksTyped, CloseSession
  PROVE  BooksTyped' /\ (BooksBalance => BooksBalance')
<1> SUFFICES ASSUME NEW l \in Ledger
             PROVE  /\ Typed(account'[l], l)
                    /\ Books(account[l], day, day + 1) => Books(account'[l], day', day' + 1)
  BY DEF BooksTyped, BooksBalance
<1>1. day' = day /\ day \in Int /\ Sound(account[l], day) /\ Typed(account[l], l)
  BY DEF CloseSession, AccountInv, RequestInv, BooksInv, BooksTyped
<1>2. PICK close \in [Asset -> ClosePrice \union {None}] :
        account' = [i \in Ledger |->
                      WithoutEmptyLots(Recorded(Marked(account[i], close), day))]
  BY DEF CloseSession
<1>3. close \in [Asset -> Price \union {None}]
  BY DEF Price
<1> QED
  BY <1>1, <1>2, <1>3, ClosedBooks

LEMMA IdealLegBooks ==
  ASSUME RequestInv, RowsInv, BooksInv, BooksTyped, NEW p \in Plan, due[p] # None,
         due[p].retry \/ IdealFeasible(p)
  PROVE  /\ Typed(IdealFilled(p), "ideal")
         /\ Books(account["ideal"], day, day + 1) => Books(IdealFilled(p), day, day + 1)
<1> DEFINE acct == account["ideal"]
           left == due[p].left
           price == Reference(p)
           first == day + 1
           l == "ideal"
<1>1. Sound(acct, day) /\ Typed(acct, l) /\ plans[p].buy \in BOOLEAN
  BY PlanType DEF BooksInv, BooksTyped, Ledger
<1>2. CASE due[p].retry
  BY <1>1, <1>2 DEF IdealFilled
<1>3. CASE ~ due[p].retry
  <2>1. left \in Nat \ {0} /\ price \in Nat
    <3>1. Reference(p) \in Price \union {None}
      BY PlanType DEF Reference, Price
    <3>2. Reference(p) # None
      BY <1>3 DEF IdealFeasible
    <3>3. due[p].left \in Nat \ {0}
      BY RowType
    <3> QED
      BY <3>1, <3>2, <3>3, PriceType
  <2>2. CASE plans[p].buy
    <3>1. IdealFilled(p) = Bought(acct, p, left, price, 0, price, day)
      BY <1>3, <2>2 DEF IdealFilled
    <3> HIDE DEF acct, left, price, first, l
    <3>2. /\ Typed(IdealFilled(p), l)
          /\ Books(acct, day, first) => Books(IdealFilled(p), day, first)
      BY <1>1, <2>1, <3>1, BoughtBooks
    <3> QED
      BY <3>2 DEF acct, first, l
  <2>3. CASE ~ plans[p].buy
    <3>1. left <= acct.position[plans[p].asset]
      BY <1>3, <2>3 DEF IdealFeasible
    <3>2. IdealFilled(p) = Sold(acct, p, left, price, 0, price)
      BY <1>3, <2>3 DEF IdealFilled
    <3> HIDE DEF acct, left, price, first, l
    <3>3. /\ Typed(IdealFilled(p), l)
          /\ Books(acct, day, first) => Books(IdealFilled(p), day, first)
      BY <1>1, <2>1, <3>1, <3>2, SoldBooks
    <3> QED
      BY <3>3 DEF acct, first, l
  <2> QED
    BY <2>2, <2>3
<1> QED
  BY <1>2, <1>3

LEMMA ActualLegBooks ==
  ASSUME RequestInv, RowsInv, BooksInv, BooksTyped, NEW p \in Plan, due[p] # None,
         NEW tradable \in BOOLEAN
  PROVE  LET next == ActualFilled(p, ActualQuantity(p, tradable)) IN
         /\ Typed(next, "actual")
         /\ Books(account["actual"], day, day + 1) => Books(next, day, day + 1)
<1> DEFINE acct == account["actual"]
           quantity == ActualQuantity(p, tradable)
           price == open[plans[p].asset]
           first == day + 1
           l == "actual"
<1>1. Sound(acct, day) /\ Typed(acct, l) /\ plans[p].asset \in Asset /\ plans[p].buy \in BOOLEAN
  BY PlanType DEF BooksInv, BooksTyped, Ledger
<1>2. quantity \in Nat
  <2>1. due[p].left \in Nat
    BY RowType
  <2> QED
    BY <2>1, ActualQuantityType
<1>3. CASE quantity = 0
  <2>1. ActualFilled(p, quantity) = acct
    BY <1>3 DEF ActualFilled
  <2> QED
    BY <1>1, <2>1
<1>4. CASE quantity # 0
  <2>1. price # None /\ tradable
    BY <1>4 DEF ActualQuantity
  <2>2. price \in OpenPrice /\ price \in Price
    BY <2>1, PlanType DEF Price
  <2>3. BuyPrice(p) \in Nat /\ SellPrice(p) \in Nat
    BY <2>2, PriceType DEF BuyPrice, SellPrice
  <2>4. CASE plans[p].buy
    <3> HIDE DEF quantity
    <3>1. quantity * BuyPrice(p) \in Nat /\ Fee(quantity * BuyPrice(p)) \in Nat
      BY <1>2, <2>3, FeeType
    <3>2. ActualFilled(p, quantity)
            = Bought(acct, p, quantity, BuyPrice(p), Fee(quantity * BuyPrice(p)), price,
                     SettlementDate)
      BY <1>4, <2>4 DEF ActualFilled
    <3>3. l # "ideal" /\ quantity \in Nat \ {0}
      BY <1>2, <1>4
    <3> DEFINE paid == BuyPrice(p)
               fee == Fee(quantity * paid)
    <3> HIDE DEF acct, price, first, l, paid, fee
    <3>4. Typed(ActualFilled(p, quantity), l)
          /\ (Books(acct, day, first) => Books(ActualFilled(p, quantity), day, first))
      <4>1. ActualFilled(p, quantity)
              = Bought(acct, p, quantity, paid, fee, price, SettlementDate)
        BY <3>2 DEF paid, fee
      <4>2. paid \in Nat /\ fee \in Nat
        BY <2>3, <3>1 DEF paid, fee
      <4> QED
        BY <1>1, <3>3, <4>1, <4>2, BoughtBooks
    <3> QED
      BY <3>4 DEF quantity, acct, first, l
  <2>5. CASE ~ plans[p].buy
    <3>1. quantity = SellQuantity(p)
      BY <2>1, <2>5 DEF ActualQuantity
    <3>2. quantity <= acct.available[plans[p].asset]
      BY <2>2, <3>1, SellQuantityType
    <3> HIDE DEF quantity
    <3>3. quantity <= acct.position[plans[p].asset]
      <4> DEFINE f == acct.unsettled[plans[p].asset]
                 available == acct.available[plans[p].asset]
                 position == acct.position[plans[p].asset]
      <4>1. f \in [Session -> Nat] /\ available + Sum(f) = position
            /\ available \in Nat /\ position \in Nat
        BY <1>1 DEF Sound, Shares
      <4> HIDE DEF f, available, position
      <4>2. Sum(f) \in Nat
        BY <4>1, SumNat, Finite
      <4> QED
        BY <1>2, <3>2, <4>1, <4>2 DEF available, position
    <3>4. quantity * SellPrice(p) \in Nat /\ Fee(quantity * SellPrice(p)) \in Nat
      BY <1>2, <2>3, FeeType
    <3>5. ActualFilled(p, quantity)
            = Sold(acct, p, quantity, SellPrice(p), Fee(quantity * SellPrice(p)), price)
      BY <1>4, <2>5 DEF ActualFilled
    <3>6. l # "ideal"
      OBVIOUS
    <3> DEFINE paid == SellPrice(p)
               fee == Fee(quantity * paid)
    <3> HIDE DEF acct, price, first, l, paid, fee
    <3>7. Typed(ActualFilled(p, quantity), l)
          /\ (Books(acct, day, first) => Books(ActualFilled(p, quantity), day, first))
      <4>1. ActualFilled(p, quantity) = Sold(acct, p, quantity, paid, fee, price)
        BY <3>5 DEF paid, fee
      <4>2. paid \in Nat /\ fee \in Nat
        BY <2>3, <3>4 DEF paid, fee
      <4> QED
        BY <1>1, <1>2, <3>3, <3>6, <4>1, <4>2, SoldBooks
    <3> QED
      BY <3>7 DEF quantity, acct, first, l
  <2> QED
    BY <2>4, <2>5
<1> QED
  BY <1>3, <1>4

LEMMA BooksOrder ==
  ASSUME AccountInv, BooksTyped, NEW p \in Plan, ExecuteOrder(p)
  PROVE  BooksTyped' /\ (BooksBalance => BooksBalance')
<1> USE DEF AccountInv
<1>1. /\ due[p] # None /\ day' = day
      /\ Refused \/ Handled(p)
  BY OrderHandled
<1>2. CASE Refused
  BY <1>1, <1>2 DEF Refused, BooksTyped, BooksBalance
<1>3. CASE Handled(p)
  <2>1. PICK tradable \in BOOLEAN :
          /\ due[p].retry \/ IdealFeasible(p)
          /\ account' = [ideal |-> IdealFilled(p),
                         actual |-> ActualFilled(p, ActualQuantity(p, tradable))]
    BY <1>3 DEF Handled
  <2>2. /\ Typed(account'["ideal"], "ideal")
        /\ Books(account["ideal"], day, day + 1) => Books(account'["ideal"], day, day + 1)
    BY <1>1, <2>1, IdealLegBooks
  <2>3. /\ Typed(account'["actual"], "actual")
        /\ Books(account["actual"], day, day + 1) => Books(account'["actual"], day, day + 1)
    BY <1>1, <2>1, ActualLegBooks
  <2> QED
    BY <1>1, <2>2, <2>3 DEF Ledger, BooksTyped, BooksBalance
<1> QED
  BY <1>1, <1>2, <1>3

LEMMA BooksNext ==
  ASSUME AccountInv, CalendarInv, BooksTyped, [Next]_vars
  PROVE  BooksTyped' /\ (BooksBalance /\ RemaindersFit => BooksBalance')
<1>1. CASE OpenSession
  BY <1>1, BooksOpen
<1>2. ASSUME NEW p \in Plan, ExecuteOrder(p)
      PROVE  BooksTyped' /\ (BooksBalance /\ RemaindersFit => BooksBalance')
  BY <1>2, BooksOrder
<1>3. CASE CloseSession
  BY <1>3, BooksClose
<1>4. CASE Resume
  <2>1. UNCHANGED <<day, account>>
    BY <1>4 DEF Resume
  <2> QED
    BY <2>1 DEF BooksTyped, BooksBalance
<1>5. CASE UNCHANGED vars
  <2>1. UNCHANGED <<day, account>>
    BY <1>5 DEF vars
  <2> QED
    BY <2>1 DEF BooksTyped, BooksBalance
<1> QED
  BY <1>1, <1>2, <1>3, <1>4, <1>5 DEF Next, Returned

-----------------------------------------------------------------------------
(* What the books say of an account.                                        *)

\* Lots at the marks of their assets.
Worth(v) == [lot \in Lot |-> lot.quantity * v[lot.asset]]

LEMMA WorthWeight ==
  ASSUME NEW v, v \in [Asset -> Nat]
  PROVE  /\ Worth(v) \in [Lot -> Int]
         /\ \A lot \in Lot : Worth(v)[lot] = lot.quantity * v[lot.asset]
<1>1. \A lot \in Lot : lot.quantity * v[lot.asset] \in Int
  <2> TAKE lot \in Lot
  <2> DEFINE x == lot.quantity
             y == v[lot.asset]
  <2>1. x \in Nat /\ y \in Nat
    BY DEF Lot
  <2> HIDE DEF x, y
  <2>2. x * y \in Int
    BY <2>1
  <2> QED
    BY <2>2 DEF x, y
<1> QED
  BY <1>1 DEF Worth

\* The marks of an account's shares are those of its lots.
LEMMA WorthOfLots ==
  ASSUME NEW lots, lots \in Seq(Lot), NEW v, v \in [Asset -> Nat], NEW position,
         \A a \in Asset : Weighted(lots, InAsset(a)) = position[a]
  PROVE  Sum([a \in Asset |-> position[a] * v[a]]) = Weighted(lots, Worth(v))
<1> DEFINE T == DOMAIN lots
           held == [a \in Asset |-> [i \in T |-> InAsset(a)[lots[i]]]]
           f == [a \in Asset |-> [i \in T |-> v[a] * held[a][i]]]
           rows == [a \in Asset |-> position[a] * v[a]]
           column == [i \in T |-> Column(f, Asset, i)]
           columns == [i \in T |-> Worth(v)[lots[i]]]
<1>1. /\ IsFiniteSet(Asset) /\ IsFiniteSet(T)
      /\ \A i \in T : lots[i] \in Lot /\ lots[i].asset \in Asset /\ lots[i].quantity \in Int
  <2>1. IsFiniteSet(T)
    BY Weights, WeightedInt
  <2>2. \A i \in T : lots[i] \in Lot
    OBVIOUS
  <2>3. \A lot \in Lot : lot.asset \in Asset /\ lot.quantity \in Int
    BY DEF Lot
  <2> QED
    BY <2>1, <2>2, <2>3, Finite
<1>2. \A a \in Asset, i \in T :
        /\ held[a][i] = IF lots[i].asset = a THEN lots[i].quantity ELSE 0
        /\ held[a][i] \in Int
  BY <1>1, Weights
<1>3. \A a \in Asset, i \in T : f[a][i] = v[a] * held[a][i]
  OBVIOUS
<1>4. \A a \in Asset : v[a] \in Int
  OBVIOUS
<1>5. \A a \in Asset : SumFunctionOnSet(held[a], T) = position[a]
  <2> TAKE a \in Asset
  <2>1. Weighted(lots, InAsset(a)) = SumFunctionOnSet(held[a], T)
    BY Weights, WeightedInt
  <2> QED
    BY <2>1
<1>6. \A i \in T : columns[i] = lots[i].quantity * v[lots[i].asset]
  BY <1>1, WorthWeight
<1>7. \A i \in T, a \in Asset : column[i][a] = f[a][i]
  BY DEF Column
<1>8. \A a \in Asset : rows[a] = position[a] * v[a]
  OBVIOUS
<1>9. DOMAIN rows = Asset /\ Weighted(lots, Worth(v)) = Sum(columns) /\ DOMAIN columns = T
  BY DEF Weighted
<1> HIDE DEF T, held, f, rows, column, columns
<1>10. \A a \in Asset, i \in T : f[a][i] \in Int
  <2> TAKE a \in Asset, i \in T
  <2> DEFINE x == v[a]
             y == held[a][i]
  <2>1. x \in Int /\ y \in Int /\ f[a][i] = x * y
    BY <1>2, <1>3, <1>4
  <2> HIDE DEF x, y
  <2> QED
    BY <2>1
<1>11. \A a \in Asset : rows[a] = SumFunctionOnSet(f[a], T)
  <2> TAKE a \in Asset
  <2>1. SumFunctionOnSet(f[a], T) = v[a] * SumFunctionOnSet(held[a], T)
    BY ONLY <1>1, <1>2, <1>3, <1>4, a \in Asset, SumOnScale
  <2>2. SumFunctionOnSet(held[a], T) \in Int
    BY ONLY <1>1, <1>2, a \in Asset, SumOnInt
  <2> DEFINE x == v[a]
             y == position[a]
  <2>3. SumFunctionOnSet(f[a], T) = x * y /\ rows[a] = y * x /\ x \in Int /\ y \in Int
    BY <1>4, <1>5, <1>8, <2>1, <2>2
  <2> HIDE DEF x, y
  <2> QED
    BY <2>3
<1>12. \A i \in T : columns[i] = SumFunctionOnSet(column[i], Asset)
  <2> TAKE i \in T
  <2> DEFINE b == lots[i].asset
  <2>1. b \in Asset
    BY <1>1
  <2>2. \A a \in Asset : column[i][a] \in Int
    BY <1>7, <1>10
  <2>3. \A a \in Asset \ {b} : column[i][a] = 0
    <3> TAKE a \in Asset \ {b}
    <3>1. held[a][i] = 0
      BY <1>2
    <3>2. column[i][a] = v[a] * 0 /\ v[a] \in Int
      BY <1>3, <1>4, <1>7, <3>1
    <3> DEFINE x == v[a]
    <3> HIDE DEF x
    <3>3. x \in Int => x * 0 = 0
      OBVIOUS
    <3> QED
      BY <3>2, <3>3 DEF x
  <2>4. SumFunctionOnSet(column[i], Asset) = column[i][b]
    <3> DEFINE g == column[i]
    <3>1. IsFiniteSet(Asset) /\ \A a \in Asset : g[a] \in Int
      BY <1>1, <2>2
    <3>2. \A a \in Asset \ {b} : g[a] = 0
      BY <2>3
    <3> HIDE DEF b, g
    <3>3. SumFunctionOnSet(g, Asset) = g[b]
      BY ONLY <2>1, <3>1, <3>2, SumOnOnly
    <3> QED
      BY <3>3 DEF g
  <2> DEFINE x == v[b]
             y == lots[i].quantity
  <2>5. x \in Int /\ y \in Int /\ columns[i] = y * x
    BY <1>1, <1>4, <1>6, <2>1
  <2>6. column[i][b] = x * y
    <3>1. held[b][i] = y
      BY <1>2, <2>1
    <3> QED
      BY <1>3, <1>7, <2>1, <3>1
  <2> HIDE DEF x, y, b
  <2> QED
    BY <2>4, <2>5, <2>6
<1>13. SumFunctionOnSet(rows, Asset) = SumFunctionOnSet(columns, T)
  <2>1. IsFiniteSet(Asset) /\ IsFiniteSet(T)
    BY <1>1
  <2> DEFINE rowSums == RowSums(f, Asset, T)
             columnSums == ColumnSums(f, Asset, T)
  <2>2. SumFunctionOnSet(rowSums, Asset) = SumFunctionOnSet(columnSums, T)
    BY ONLY <1>10, <2>1, SumOnExchange
  <2>3. \A a \in Asset : rows[a] = rowSums[a]
    BY <1>11 DEF RowSums
  <2>4. \A i \in T : columns[i] = columnSums[i]
    BY <1>12 DEF ColumnSums, column
  <2> HIDE DEF rowSums, columnSums
  <2>5. SumFunctionOnSet(rows, Asset) = SumFunctionOnSet(rowSums, Asset)
    BY ONLY <2>1, <2>3, SumOnSame
  <2>6. SumFunctionOnSet(columns, T) = SumFunctionOnSet(columnSums, T)
    BY ONLY <2>1, <2>4, SumOnSame
  <2> QED
    BY <2>2, <2>5, <2>6
<1> QED
  BY <1>9, <1>13 DEF Sum, SumFunction, rows

LEMMA LotsAreShares ==
  ASSUME AccountInv, BooksTyped, BooksBalance
  PROVE  LotsMatchInventory
<1> SUFFICES ASSUME NEW l \in Ledger, NEW a \in Asset
             PROVE  LotSum(account[l].lots, LAMBDA lot : IF lot.asset = a THEN lot.quantity ELSE 0)
                      = account[l].position[a]
  BY DEF LotsMatchInventory
<1> DEFINE lots == account[l].lots
           shares == [i \in DOMAIN lots |-> IF lots[i].asset = a THEN lots[i].quantity ELSE 0]
           weights == [i \in DOMAIN lots |-> InAsset(a)[lots[i]]]
<1>1. Typed(account[l], l) /\ Books(account[l], day, day + 1)
  BY DEF BooksTyped, BooksBalance
<1>2. lots \in Seq(Lot)
  BY <1>1, KindLots DEF Typed
<1>3. Weighted(lots, InAsset(a)) = account[l].position[a]
  BY <1>1 DEF Books
<1> HIDE DEF lots
<1>4. IsFiniteSet(DOMAIN lots) /\ \A i \in DOMAIN lots : lots[i] \in Lot
  <2>1. IsFiniteSet(DOMAIN lots)
    BY <1>2, Weights, WeightedInt
  <2> QED
    BY <1>2, <2>1
<1>5. \A i \in DOMAIN lots : shares[i] = weights[i]
  BY <1>4, Weights
<1>6. DOMAIN shares = DOMAIN lots /\ DOMAIN weights = DOMAIN lots
  OBVIOUS
<1> HIDE DEF shares, weights
<1>7. Sum(shares) = Sum(weights)
  BY <1>4, <1>5, <1>6, SumSame
<1> QED
  BY <1>3, <1>7 DEF LotSum, Weighted, shares, weights, lots

LEMMA AwardsAreEntitled ==
  ASSUME AccountInv, BooksTyped, BooksBalance, RemaindersFit
  PROVE  AwardsMatchEntitlement
<1> SUFFICES ASSUME NEW l \in Ledger, NEW k \in Action, Actions[k].ex <= day
             PROVE  /\ Sum(account[l].awards[k])
                         = WholeShares(account[l].entitled[k], Actions[k].stock)
                    /\ \A p \in Plan : account[l].awards[k][p]
                         - WholeShares(account[l].holders[k][p], Actions[k].stock) \in {0, 1}
  BY DEF AwardsMatchEntitlement
<1> DEFINE shares == account[l].holders[k]
           ratio == Actions[k].stock
<1>1. /\ shares \in [Plan -> Nat] /\ ratio \in [mantissa : Nat, scale : Nat]
      /\ Sum(shares) = account[l].entitled[k]
      /\ account[l].awards[k] = Allocation(shares, ratio)
      /\ Remainder(shares, ratio) \in 0 .. Cardinality({p \in Plan : shares[p] > 0})
  BY ActionType DEF BooksTyped, Typed, BooksBalance, Books, RemaindersFit, Fits
<1>2. Total(shares) = Sum(shares)
  BY DEF Total, Sum
<1> HIDE DEF shares, ratio
<1>3. /\ \A p \in Plan : Allocation(shares, ratio)[p] - WholeShares(shares[p], ratio) \in {0, 1}
      /\ Sum(Allocation(shares, ratio)) = WholeShares(Total(shares), ratio)
  BY <1>1, AllocationWhole
<1> QED
  BY <1>1, <1>2, <1>3 DEF shares, ratio

\* What the lots are worth, less what they have cost.
LEMMA UnrealizedLots ==
  ASSUME NEW lots, lots \in Seq(Lot), NEW v, v \in [Asset -> Nat],
         NEW f, DOMAIN f = DOMAIN lots,
         \A i \in DOMAIN lots :
           f[i] = lots[i].quantity * (v[lots[i].asset] - lots[i].price) - lots[i].fee
  PROVE  /\ Sum(f) = Weighted(lots, Worth(v)) - Weighted(lots, Cost)
         /\ Weighted(lots, Worth(v)) \in Int /\ Weighted(lots, Cost) \in Int
<1> DEFINE T == DOMAIN lots
           worth == [i \in T |-> Worth(v)[lots[i]]]
           cost == [i \in T |-> Cost[lots[i]]]
<1>1. IsFiniteSet(T) /\ \A i \in T : lots[i] \in Lot
  <2>1. IsFiniteSet(T)
    BY Weights, WeightedInt
  <2> QED
    BY <2>1
<1>2. /\ Worth(v) \in [Lot -> Int]
      /\ \A lot \in Lot : Worth(v)[lot] = lot.quantity * v[lot.asset]
  BY WorthWeight
<1>3. \A i \in T : worth[i] \in Int /\ cost[i] \in Int /\ f[i] = worth[i] - cost[i]
  <2> TAKE i \in T
  <2> DEFINE lot == lots[i]
             q == lot.quantity
             m == v[lot.asset]
             b == lot.price
             c == lot.fee
  <2>1. lot \in Lot
    BY <1>1
  <2>2. worth[i] \in Int /\ cost[i] \in Int
    BY <1>2, <2>1, Weights
  <2>3. worth[i] = q * m /\ cost[i] = q * b + c /\ f[i] = q * (m - b) - c
    BY <1>2, <2>1, Weights
  <2>4. q \in Int /\ m \in Int /\ b \in Int /\ c \in Int
    <3>1. q \in Nat /\ b \in Nat /\ c \in Nat /\ lot.asset \in Asset
      BY <2>1 DEF Lot
    <3> QED
      BY <3>1
  <2> HIDE DEF q, m, b, c, worth, cost
  <2>5. q * (m - b) - c = q * m - (q * b + c)
    BY <2>4
  <2> QED
    BY <2>2, <2>3, <2>5
<1>4. DOMAIN worth = T /\ DOMAIN cost = T
  OBVIOUS
<1>5. Weighted(lots, Worth(v)) = Sum(worth) /\ Weighted(lots, Cost) = Sum(cost)
  BY DEF Weighted
<1>6. DOMAIN f = T
  OBVIOUS
<1> HIDE DEF T, worth, cost
<1>7. /\ SumFunctionOnSet(f, T) = SumFunctionOnSet(worth, T) - SumFunctionOnSet(cost, T)
      /\ SumFunctionOnSet(worth, T) \in Int /\ SumFunctionOnSet(cost, T) \in Int
  <2>1. IsFiniteSet(T)
    BY <1>1
  <2> QED
    BY ONLY <1>3, <2>1, SumMinus, ZenonT(30)
<1> QED
  BY <1>4, <1>5, <1>6, <1>7 DEF Sum, SumFunction

LEMMA EquityReconciled ==
  ASSUME AccountInv, BooksTyped, BooksBalance
  PROVE  Reconciles
<1> SUFFICES ASSUME NEW l \in Ledger
             PROVE  Equity(l) - Capital = Realized(l) + Unrealized(l) + account[l].income
  BY DEF Reconciles
<1> DEFINE acct == account[l]
           lots == acct.lots
           v == [a \in Asset |-> Value(l, a)]
           worth == Weighted(lots, Worth(v))
           cost == Weighted(lots, Cost)
           bonus == Sum([k \in Action |-> acct.sharesDue[k] * Value(l, Actions[k].asset)])
           terms == [i \in DOMAIN lots |->
                       lots[i].quantity * (Value(l, lots[i].asset) - lots[i].price) - lots[i].fee]
<1>1. Typed(acct, l) /\ Books(acct, day, day + 1) /\ Sound(acct, day)
  BY DEF AccountInv, BooksInv, BooksTyped, BooksBalance
<1>2. lots \in Seq(Lot)
  BY <1>1, KindLots DEF Typed
<1>3. v \in [Asset -> Nat]
  <2>1. \A a \in Asset : acct.mark[a] \in Price \union {None}
    BY <1>1 DEF Sound
  <2> QED
    BY <2>1, PriceType DEF Value
<1>4. \A k \in Action : acct.sharesDue[k] * Value(l, Actions[k].asset) \in Int
  <2> TAKE k \in Action
  <2> DEFINE x == acct.sharesDue[k]
             y == v[Actions[k].asset]
  <2>1. x \in Int /\ y \in Int /\ y = Value(l, Actions[k].asset)
    BY <1>1, <1>3, ActionType DEF Sound
  <2> HIDE DEF x, y
  <2>2. x * y \in Int
    BY <2>1
  <2> QED
    BY <2>1, <2>2 DEF x
<1>5. bonus \in Int
  <2> DEFINE f == [k \in Action |-> acct.sharesDue[k] * Value(l, Actions[k].asset)]
  <2>1. f \in [Action -> Int]
    BY <1>4
  <2> HIDE DEF f
  <2>2. Sum(f) \in Int
    BY <2>1, SumInteger, Finite
  <2> QED
    BY <2>2 DEF f
<1>6. Sum(acct.cashDue) \in Int
  <2>1. acct.cashDue \in [Action -> Nat]
    BY <1>1 DEF Sound
  <2> QED
    BY <2>1, SumNat, Finite
<1>7. Sum([a \in Asset |-> acct.position[a] * Value(l, a)]) = worth
  <2>1. \A a \in Asset : Weighted(lots, InAsset(a)) = acct.position[a]
    BY <1>1 DEF Books
  <2>2. Sum([a \in Asset |-> acct.position[a] * v[a]]) = worth
    BY <1>2, <1>3, <2>1, WorthOfLots
  <2>3. [a \in Asset |-> acct.position[a] * v[a]]
          = [a \in Asset |-> acct.position[a] * Value(l, a)]
    OBVIOUS
  <2> QED
    BY <2>2, <2>3
<1>8. Sum(terms) = worth - cost /\ worth \in Int /\ cost \in Int
  <2>1. \A i \in DOMAIN lots : lots[i].asset \in Asset
    <3>1. \A lot \in Lot : lot.asset \in Asset
      BY DEF Lot
    <3> QED
      BY <1>2, <3>1
  <2>2. \A i \in DOMAIN lots :
          terms[i] = lots[i].quantity * (v[lots[i].asset] - lots[i].price) - lots[i].fee
    BY <2>1
  <2>3. DOMAIN terms = DOMAIN lots
    OBVIOUS
  <2> HIDE DEF terms, v, lots
  <2> QED
    BY <1>2, <1>3, <2>2, <2>3, UnrealizedLots
<1>9. Unrealized(l) = Sum(terms) + bonus
  BY DEF Unrealized, LotSum
<1>10. Equity(l) = acct.cash + Sum([a \in Asset |-> acct.position[a] * Value(l, a)])
                     + (Sum(acct.cashDue) + bonus)
  BY DEF Equity, Receivables
<1>11. acct.cash + Sum(acct.cashDue) + cost = Capital + acct.net + acct.income
  BY <1>1 DEF Books
<1>12. Realized(l) = acct.net
  BY <1>1 DEF Typed, Ledger, Realized
<1>13. acct.cash \in Int /\ acct.net \in Int /\ acct.income \in Int /\ Capital \in Int
  BY <1>1, ExecutionAccountAssumption DEF Sound, Typed
<1> DEFINE equity == Equity(l)
           c == acct.cash
           n == acct.net
           i == acct.income
           s == Sum(acct.cashDue)
           u == Unrealized(l)
<1>14. /\ equity = c + worth + (s + bonus) /\ u = worth - cost + bonus
       /\ c + s + cost = Capital + n + i
       /\ c \in Int /\ n \in Int /\ i \in Int /\ s \in Int /\ bonus \in Int /\ worth \in Int
       /\ cost \in Int /\ Capital \in Int
  BY <1>5, <1>6, <1>7, <1>8, <1>9, <1>10, <1>11, <1>13
<1> HIDE DEF equity, c, n, i, s, u, worth, cost, bonus
<1>15. equity - Capital = n + u + i
  BY <1>14
<1> QED
  BY <1>12, <1>15 DEF equity, n, u, i

-----------------------------------------------------------------------------
(* When a dividend's products are exact.                                    *)

\* The significant bits of a ratio and a number of shares have room together
\* in the mantissa of a float.
WithinPrecision(quantity, ratio) ==
  \E c, j \in Nat : ratio.mantissa = c * 2^j /\ quantity * c < 2^Precision

LEMMA WithinPrecisionExact ==
  ASSUME NEW quantity \in Nat, NEW ratio \in [mantissa : Nat, scale : Nat],
         WithinPrecision(quantity, ratio)
  PROVE  Exact(quantity, ratio)
<1>1. PICK c \in Nat, j \in Nat : ratio.mantissa = c * 2^j /\ quantity * c < 2^Precision
  BY DEF WithinPrecision
<1> DEFINE exact == quantity * ratio.mantissa
           m == quantity * c
           k == Excess(exact)
           unit == 2^k
           room == 2^Precision
           shift == 2^j
<1>2. Precision \in Nat /\ room \in Nat \ {0} /\ shift \in Nat \ {0}
  BY PowerOfTwo, StockDividendAssumption
<1>3. m \in Nat /\ m < room /\ exact = m * shift /\ exact \in Nat
  <2>1. ratio.mantissa = c * shift /\ m < room
    BY <1>1
  <2> HIDE DEF shift, room
  <2>2. m \in Nat /\ quantity * (c * shift) = m * shift /\ m * shift \in Nat
    BY <1>2
  <2> QED
    BY <2>1, <2>2
<1>4. k \in Nat /\ (k = 0 \/ 2^(Precision + k - 1) <= exact)
  BY <1>3, ExcessType
<1>5. unit \in Nat \ {0}
  BY <1>4, PowerOfTwo
<1>6. k <= j
  <2> SUFFICES ASSUME k > j PROVE FALSE
    BY <1>4
  <2> DEFINE r == k - j - 1
             more == 2^r
  <2> HIDE DEF k
  <2>1. r \in Nat /\ Precision + k - 1 = (Precision + j) + r /\ k # 0
        /\ Precision + j \in Nat
    BY <1>2, <1>4
  <2>2. 2^(Precision + k - 1) = (room * shift) * more
    <3>1. 2^(Precision + j) = room * shift
      BY <1>2, PowerSum
    <3>2. 2^((Precision + j) + r) = 2^(Precision + j) * more
      BY <2>1, PowerSum
    <3> HIDE DEF r, room, shift, more
    <3> QED
      BY <2>1, <3>1, <3>2
  <2>3. more \in Nat \ {0}
    BY <2>1, PowerOfTwo
  <2> HIDE DEF room, shift, more, m, exact
  <2>4. (room * shift) * more <= m * shift
    BY <1>3, <1>4, <2>1, <2>2
  <2>5. room * shift \in Nat /\ m * shift < room * shift
    BY <1>2, <1>3
  <2>6. room * shift <= (room * shift) * more
    BY <2>3, <2>5
  <2>7. m * shift \in Nat /\ (room * shift) * more \in Nat
    BY <1>2, <1>3, <2>3, <2>5
  <2> QED
    BY <2>4, <2>5, <2>6, <2>7
<1> DEFINE x == m * 2^(j - k)
<1>7. exact = x * unit /\ x \in Nat
  <2> DEFINE rest == 2^(j - k)
  <2>1. j - k \in Nat /\ k + (j - k) = j
    BY <1>4, <1>6
  <2>2. shift = unit * rest
    <3>1. 2^(k + (j - k)) = unit * rest
      BY <1>4, <2>1, PowerSum
    <3> QED
      BY <2>1, <3>1
  <2>3. rest \in Nat
    BY <2>1, PowerOfTwo
  <2>4. exact = m * shift /\ x = m * rest
    BY <1>3
  <2> HIDE DEF shift, unit, rest, m, exact, x
  <2>5. m * (unit * rest) = (m * rest) * unit /\ m * rest \in Nat
    BY <1>3, <1>5, <2>3
  <2> QED
    BY <2>2, <2>4, <2>5
<1>8. Product(quantity, ratio) = RoundNearest(exact, unit) * unit
  BY DEF Product
<1> HIDE DEF exact, unit, x
<1>9. exact \div unit = x /\ exact % unit = 0
  <2>1. exact \div unit \in Nat /\ exact % unit \in Nat /\ exact % unit < unit
        /\ exact = unit * (exact \div unit) + (exact % unit)
    BY <1>3, <1>5, DivBounds
  <2> DEFINE q == exact \div unit
             y == exact % unit
  <2>2. q \in Nat /\ y \in Nat /\ y < unit /\ x * unit = unit * q + y
    BY <1>7, <2>1
  <2> HIDE DEF q, y
  <2>3. x = q
    <3>1. CASE x < q
      <4>1. x + 1 <= q
        BY <1>7, <2>2, <3>1
      <4>2. unit * (x + 1) <= unit * q
        BY <1>5, <1>7, <2>2, <4>1
      <4> QED
        BY <1>5, <1>7, <2>2, <4>2
    <3>2. CASE x > q
      <4>1. q + 1 <= x
        BY <1>7, <2>2, <3>2
      <4>2. unit * (q + 1) <= unit * x
        BY <1>5, <1>7, <2>2, <4>1
      <4> QED
        BY <1>5, <1>7, <2>2, <4>2
    <3> QED
      BY <1>7, <2>2, <3>1, <3>2
  <2>4. y = 0
    BY <1>5, <1>7, <2>2, <2>3
  <2> QED
    BY <2>3, <2>4 DEF q, y
<1>10. RoundNearest(exact, unit) = x
  BY <1>5, <1>9 DEF RoundNearest
<1> QED
  BY <1>7, <1>8, <1>10 DEF Exact, exact

\* What has room for all the shares on record has room for a plan's.
LEMMA WithinPrecisionShares ==
  ASSUME NEW shares, shares \in [Plan -> Nat], NEW ratio, WithinPrecision(Total(shares), ratio)
  PROVE  /\ Total(shares) \in Nat
         /\ \A p \in Plan : shares[p] \in Nat /\ WithinPrecision(shares[p], ratio)
<1> DEFINE total == Total(shares)
<1>1. total \in Nat /\ \A p \in Plan : shares[p] <= total
  BY SumNat, Finite DEF Total, Sum
<1> HIDE DEF total
<1>2. PICK c \in Nat, j \in Nat : ratio.mantissa = c * 2^j /\ total * c < 2^Precision
  BY DEF WithinPrecision, total
<1>3. \A p \in Plan : shares[p] \in Nat
  OBVIOUS
<1>4. ASSUME NEW p \in Plan PROVE WithinPrecision(shares[p], ratio)
  <2> DEFINE q == shares[p]
             room == 2^Precision
  <2>1. q \in Nat /\ q <= total
    BY <1>1, <1>3
  <2>2. room \in Nat
    BY PowerOfTwo, StockDividendAssumption
  <2>3. q * c < room
    <3>1. total * c < room
      BY <1>2
    <3> HIDE DEF q, room
    <3>2. q * c <= total * c /\ q * c \in Nat /\ total * c \in Nat
      BY <1>1, <2>1
    <3> QED
      BY <2>2, <3>1, <3>2
  <2> QED
    BY <1>2, <2>3 DEF WithinPrecision
<1> QED
  BY <1>1, <1>3, <1>4 DEF total

\* A float has room for the products of every stock dividend.
DividendsFit ==
  \A l \in Ledger, k \in Action : WithinPrecision(account[l].entitled[k], Actions[k].stock)

LEMMA DividendsFitRemainders ==
  ASSUME BooksTyped, BooksBalance, DividendsFit
  PROVE  RemaindersFit
<1> SUFFICES ASSUME NEW l \in Ledger, NEW k \in Action
             PROVE  Remainder(account[l].holders[k], Actions[k].stock)
                      \in 0 .. Cardinality({p \in Plan : account[l].holders[k][p] > 0})
  BY DEF RemaindersFit, Fits
<1> DEFINE shares == account[l].holders[k]
           ratio == Actions[k].stock
<1>1. /\ shares \in [Plan -> Nat] /\ ratio \in [mantissa : Nat, scale : Nat]
      /\ Sum(shares) = account[l].entitled[k]
      /\ WithinPrecision(account[l].entitled[k], ratio)
  BY ActionType DEF BooksTyped, Typed, BooksBalance, Books, DividendsFit
<1> HIDE DEF shares, ratio
<1>2. WithinPrecision(Total(shares), ratio)
  BY <1>1 DEF Total, Sum
<1>3. /\ Total(shares) \in Nat
      /\ \A p \in Plan : shares[p] \in Nat /\ WithinPrecision(shares[p], ratio)
  BY <1>1, <1>2, WithinPrecisionShares
<1>4. Exact(Total(shares), ratio) /\ \A p \in Plan : Exact(shares[p], ratio)
  BY <1>1, <1>2, <1>3, WithinPrecisionExact
<1>5. Remainder(shares, ratio) \in 0 .. Cardinality({p \in Plan : shares[p] > 0})
  BY <1>1, <1>4, ExactRemainder
<1> QED
  BY <1>5 DEF shares, ratio

LEMMA CashFits ==
  ASSUME \A k \in Action : Actions[k].stock.mantissa = 0, BooksInv
  PROVE  DividendsFit
<1> SUFFICES ASSUME NEW l \in Ledger, NEW k \in Action
             PROVE  WithinPrecision(account[l].entitled[k], Actions[k].stock)
  BY DEF DividendsFit
<1> DEFINE shares == account[l].entitled[k]
           room == 2^Precision
           one == 2^0
<1>1. shares \in Nat
  BY DEF BooksInv, Sound
<1>2. room \in Nat \ {0} /\ one \in Nat
  BY PowerOfTwo, StockDividendAssumption
<1>3. 0 * one = 0 /\ shares * 0 < room
  <2> HIDE DEF shares, room, one
  <2> QED
    BY <1>1, <1>2
<1>4. Actions[k].stock.mantissa = 0 * 2^0 /\ shares * 0 < 2^Precision
  BY <1>3
<1> QED
  BY <1>4 DEF WithinPrecision

LEMMA BooksTypes ==
  ASSUME AccountInv, BooksTyped
  PROVE  TypeOK
<1>1. /\ plans \in [Plan -> Orders]
      /\ calendar \subseteq Session /\ cutoff \in calendar
      /\ supplied \subseteq Plan /\ processed \subseteq supplied
      /\ phase \in {"between", "trading", "checkpoint", "rejected"}
      /\ day \in 0 .. LastSession
      /\ open \in [Asset -> OpenPrice \union {None}]
      /\ due \in [Plan -> Row \union {None}]
      /\ DOMAIN account = Ledger
  BY DEF AccountInv, RequestInv, RowsInv, BooksInv
<1>2. filled \in [Plan -> 0 .. MaxQuantity] /\ expired \in [Plan -> 0 .. MaxQuantity]
  <2>1. filled \in [Plan -> Nat] /\ expired \in [Plan -> Nat]
    BY DEF AccountInv, RowsInv
  <2>2. \A p \in Plan : filled[p] \in 0 .. MaxQuantity /\ expired[p] \in 0 .. MaxQuantity
    <3> TAKE p \in Plan
    <3>1. /\ filled[p] \in Nat /\ expired[p] \in Nat
          /\ filled[p] + expired[p] <= plans[p].quantity
      BY <2>1 DEF AccountInv, RowsInv
    <3>2. plans[p].quantity \in 1 .. MaxQuantity /\ MaxQuantity \in Nat
      BY PlanType DEF AccountInv
    <3> QED
      BY <3>1, <3>2
  <2> QED
    BY <2>1, <2>2
<1>3. ASSUME NEW l \in Ledger
      PROVE  /\ account[l].position \in Shares /\ account[l].available \in Shares
             /\ account[l].unsettled \in [Asset -> [Session -> Nat]]
             /\ account[l].mark \in [Asset -> Price \union {None}]
             /\ \A i \in DOMAIN account[l].lots : account[l].lots[i] \in Lot
  <2>1. Sound(account[l], day) /\ Typed(account[l], l)
    BY DEF AccountInv, BooksInv, BooksTyped
  <2>2. account[l].lots \in Seq(Lot)
    BY <2>1, KindLots DEF Typed
  <2> QED
    BY <2>1, <2>2 DEF Sound
<1> QED
  BY <1>1, <1>2, <1>3 DEF TypeOK

\* Whatever is bought, sold, distributed and dropped, the books keep their
\* types: whole lots that have no fee left when they are empty, and none at
\* all in the reference ledger, which keeps what it realizes.
THEOREM BooksStayTyped ==
  Spec => []BooksTyped
<1>1. AccountInv /\ CalendarInv /\ BooksTyped /\ [Next]_vars => BooksTyped'
  BY BooksNext
<1> QED
  BY <1>1, BooksInit, CalendarInvInit, CalendarInvNext, AccountsStaySound, PTL DEF Spec

\* The variables keep their types in every behaviour.
THEOREM VariablesStayTyped ==
  Spec => []TypeOK
<1>1. AccountInv /\ BooksTyped => TypeOK
  BY BooksTypes
<1> QED
  BY <1>1, AccountsStaySound, BooksStayTyped, PTL

\* As long as every stock dividend leaves a plan on record at most a share,
\* the two books of an account agree: fills, bonus shares and dividends move
\* the account and its lots alike (the account and the FIFO code of
\* execution_evaluation.py).
THEOREM BooksAlwaysBalance ==
  Spec /\ []RemaindersFit => []BooksBalance
<1>1. AccountInv /\ CalendarInv /\ BooksTyped /\ BooksBalance /\ RemaindersFit /\ [Next]_vars
        => BooksBalance'
  BY BooksNext
<1> QED
  BY <1>1, BooksInit, CalendarInvInit, CalendarInvNext, AccountsStaySound, BooksStayTyped,
     PTL DEF Spec

\* Then "FIFO inventory does not match account inventory" is never raised.
THEOREM InventoryAlwaysMatches ==
  Spec /\ []RemaindersFit => []LotsMatchInventory
<1>1. AccountInv /\ BooksTyped /\ BooksBalance => LotsMatchInventory
  BY LotsAreShares
<1> QED
  BY <1>1, AccountsStaySound, BooksStayTyped, BooksAlwaysBalance, PTL

\* Then the plans on record get together the bonus shares of the account,
\* and each its own quota, rounded down or up.
THEOREM AwardsAlwaysMatch ==
  Spec /\ []RemaindersFit => []AwardsMatchEntitlement
<1>1. AccountInv /\ BooksTyped /\ BooksBalance /\ RemaindersFit => AwardsMatchEntitlement
  BY AwardsAreEntitled
<1> QED
  BY <1>1, AccountsStaySound, BooksStayTyped, BooksAlwaysBalance, PTL

\* Then "actual/ideal FIFO P&L does not reconcile account equity" is never
\* raised: what the lots have earned is what the equity has gained.
THEOREM EquityAlwaysReconciles ==
  Spec /\ []RemaindersFit => []Reconciles
<1>1. AccountInv /\ BooksTyped /\ BooksBalance => Reconciles
  BY EquityReconciled
<1> QED
  BY <1>1, AccountsStaySound, BooksStayTyped, BooksAlwaysBalance, PTL

\* The hypothesis holds when the significant bits of every ratio and the
\* shares on record fit together in a mantissa (a half, a quarter, three for
\* eight, on any holding below 2^53 / 3): no product is rounded then.
THEOREM ShortDividendsReconcile ==
  Spec /\ []DividendsFit
    => [](RemaindersFit /\ LotsMatchInventory /\ AwardsMatchEntitlement /\ Reconciles)
<1>1. AccountInv /\ CalendarInv /\ BooksTyped /\ BooksBalance /\ DividendsFit /\ [Next]_vars
        => BooksBalance'
  BY BooksNext, DividendsFitRemainders
<1>2. BooksTyped /\ BooksBalance /\ DividendsFit => RemaindersFit
  BY DividendsFitRemainders
<1> QED
  BY <1>1, <1>2, BooksInit, CalendarInvInit, CalendarInvNext, AccountsStaySound, BooksStayTyped,
     InventoryAlwaysMatches, AwardsAlwaysMatch, EquityAlwaysReconciles, PTL DEF Spec

\* Where dividends are paid in cash alone no hypothesis is left.
THEOREM CashDividendsReconcile ==
  ASSUME \A k \in Action : Actions[k].stock.mantissa = 0
  PROVE  Spec => [](LotsMatchInventory /\ AwardsMatchEntitlement /\ Reconciles)
<1>1. AccountInv => DividendsFit
  BY CashFits DEF AccountInv
<1> QED
  BY <1>1, AccountsStaySound, ShortDividendsReconcile, PTL
=============================================================================
