--------------------------- MODULE CountingProofs ---------------------------
(* Proofs about the counts among the parts of Algorithms: the city context *)
(* and the audit of a dataset, which are sums over finite sets, the        *)
(* assessment of a city, the events of the reports and their clusters.     *)
EXTENDS Algorithms, FiniteSetTheorems, SequenceTheorems, WellFoundedInduction, TLAPS

-----------------------------------------------------------------------------
(* Induction over the subsets of a finite set.                             *)

\* A set of numbers has a least member.
LEMMA LeastNatural ==
    ASSUME NEW T \in SUBSET Nat, T # {}
    PROVE  \E n \in T : \A m \in T : n <= m
<1> DEFINE R == {p \in Nat \X Nat : p[1] < p[2]}
<1>1. IsWellFoundedOn(R, Nat)
  BY NatLessThanWellFounded DEF OpToRel
<1>2. \A m, n \in Nat : m < n => <<m, n>> \in R
  OBVIOUS
<1> HIDE DEF R
<1>3. PICK n \in T : \A m \in T : ~(<<m, n>> \in R)
  BY <1>1, WFMin
<1>4. ASSUME NEW m \in T PROVE n <= m
  <2>1. m \in Nat /\ n \in Nat
    OBVIOUS
  <2>2. ~(m < n)
    BY <1>2, <1>3, <2>1
  <2>3. QED
    BY <2>1, <2>2
<1>5. QED
  BY <1>4

\* Of finite sets one is the smallest.
LEMMA SmallestSet ==
    ASSUME NEW U, \A S \in U : IsFiniteSet(S), U # {}
    PROVE  \E S \in U : \A R \in U : Cardinality(S) <= Cardinality(R)
<1> DEFINE T == {Cardinality(S) : S \in U}
<1>1. T \in SUBSET Nat /\ T # {}
  BY FS_CardinalityType
<1>2. PICK n \in T : \A m \in T : n <= m
  BY <1>1, LeastNatural
<1>3. QED
  BY <1>2

-----------------------------------------------------------------------------
(* What is listed in an order.                                             *)

\* What an order enumerates of a finite set: each element once, at the place that is the number of
\* those before it.
LEMMA Enumerated ==
    ASSUME NEW S, IsFiniteSet(S), NEW before,
           \A x \in S : <<x, x>> \notin before,
           \A x \in S, y \in S : x = y \/ <<x, y>> \in before \/ <<y, x>> \in before,
           \A x \in S, y \in S, z \in S :
              <<x, y>> \in before /\ <<y, z>> \in before => <<x, z>> \in before
    PROVE  /\ Cardinality(S) \in Nat /\ InOrder(S, before) \in [1 .. Cardinality(S) -> S]
           /\ \A x \in S : \E i \in 1 .. Cardinality(S) : InOrder(S, before)[i] = x
           /\ \A i, j \in 1 .. Cardinality(S) :
                 i < j <=> <<InOrder(S, before)[i], InOrder(S, before)[j]>> \in before
<1> DEFINE n == Cardinality(S)
           P(x) == {y \in S : <<y, x>> \in before}
           card == [x \in S |-> Cardinality(P(x))]
           rank == [x \in S |-> card[x] + 1]
           E == InOrder(S, before)
<1>1. n \in Nat
  BY FS_CardinalityType
<1>2. ASSUME NEW x \in S
      PROVE  card[x] = Cardinality(P(x)) /\ card[x] \in Nat /\ card[x] < n /\ IsFiniteSet(P(x))
  <2>1. P(x) \in SUBSET S /\ x \notin P(x) /\ card[x] = Cardinality(P(x))
    OBVIOUS
  <2> HIDE DEF P, card
  <2>2. IsFiniteSet(P(x)) /\ Cardinality(P(x)) <= n /\ (n = Cardinality(P(x)) => S = P(x))
    BY <2>1, FS_Subset
  <2>3. Cardinality(P(x)) \in Nat
    BY <2>2, FS_CardinalityType
  <2>4. QED
    BY <1>1, <2>1, <2>2, <2>3
<1>3. ASSUME NEW x \in S, NEW y \in S, <<x, y>> \in before PROVE card[x] < card[y]
  <2>1. P(x) \in SUBSET P(y) /\ x \in P(y) /\ x \notin P(x)
    BY <1>3
  <2>2. /\ IsFiniteSet(P(y)) /\ card[x] = Cardinality(P(x)) /\ card[y] = Cardinality(P(y))
        /\ card[x] \in Nat /\ card[y] \in Nat
    BY <1>2
  <2> HIDE DEF P, card
  <2>3. Cardinality(P(x)) <= Cardinality(P(y)) /\ (Cardinality(P(y)) = Cardinality(P(x)) => P(y) = P(x))
    BY <2>1, <2>2, FS_Subset
  <2>4. QED
    BY <2>1, <2>2, <2>3
<1>4. \A x \in S : card[x] \in Nat /\ card[x] < n
  BY <1>2
<1> DEFINE pick(i) == CHOOSE x \in S : Cardinality(P(x)) = i - 1
<1>5. ASSUME NEW i \in 1 .. n, \E x \in S : card[x] = i - 1
      PROVE  pick(i) \in S /\ card[pick(i)] = i - 1
  <2>1. \E x \in S : Cardinality(P(x)) = i - 1
    BY <1>5
  <2>2. pick(i) \in S /\ Cardinality(P(pick(i))) = i - 1
    BY <2>1
  <2> HIDE DEF pick
  <2>3. QED
    BY <2>2
<1>6. E = [i \in 1 .. n |-> pick(i)]
  BY DEF InOrder
<1> HIDE DEF E, card, n, pick
<1>7. \A x \in S, y \in S : <<x, y>> \in before => card[x] < card[y]
  BY <1>3
<1>8. ASSUME NEW x \in S, NEW y \in S, card[x] = card[y] PROVE x = y
  <2>1. x = y \/ <<x, y>> \in before \/ <<y, x>> \in before
    OBVIOUS
  <2>2. QED
    BY <1>4, <1>7, <1>8, <2>1
<1>9. rank \in Surjection(S, 1 .. n)
  <2>1. IsFiniteSet(1 .. n) /\ Cardinality(1 .. n) = n
    <3>1. IsFiniteSet(1 .. n) /\ Cardinality(1 .. n) = IF 1 > n THEN 0 ELSE n - 1 + 1
      BY <1>1, FS_Interval
    <3>2. QED
      BY <1>1, <3>1
  <2>2. \A x \in S : rank[x] \in 1 .. n
    BY <1>1, <1>4
  <2>3. \A x \in S, y \in S : rank[x] = rank[y] => x = y
    BY <1>4, <1>8
  <2>4. rank \in [S -> 1 .. n] /\ DOMAIN rank = S
    BY <2>2
  <2> HIDE DEF rank
  <2>5. rank \in Injection(S, 1 .. n)
    BY <2>3, <2>4 DEF Injection, IsInjective
  <2>6. QED
    BY <2>1, <2>5, FS_Injection DEF n
<1>10. ASSUME NEW i \in 1 .. n PROVE \E x \in S : card[x] = i - 1
  <2>1. \E x \in S : rank[x] = i
    <3> HIDE DEF rank
    <3>1. QED
      BY <1>9 DEF Surjection
  <2>2. QED
    BY <1>1, <1>4, <2>1
<1>11. \A i \in 1 .. n : E[i] \in S /\ card[E[i]] = i - 1
  BY <1>5, <1>6, <1>10
<1>12. E \in [1 .. n -> S]
  BY <1>6, <1>11
<1>13. ASSUME NEW x \in S PROVE \E i \in 1 .. n : E[i] = x
  <2>1. card[x] + 1 \in 1 .. n
    BY <1>1, <1>4
  <2>2. E[card[x] + 1] \in S /\ card[E[card[x] + 1]] = card[x]
    BY <1>4, <1>11, <2>1
  <2>3. QED
    BY <1>8, <2>1, <2>2
<1>14. ASSUME NEW i \in 1 .. n, NEW j \in 1 .. n PROVE i < j <=> <<E[i], E[j]>> \in before
  <2>1. E[i] \in S /\ E[j] \in S /\ card[E[i]] = i - 1 /\ card[E[j]] = j - 1
    BY <1>11
  <2>2. E[i] = E[j] \/ <<E[i], E[j]>> \in before \/ <<E[j], E[i]>> \in before
    BY <2>1
  <2>3. /\ <<E[i], E[j]>> \in before => i - 1 < j - 1
        /\ <<E[j], E[i]>> \in before => j - 1 < i - 1
        /\ E[i] = E[j] => i - 1 = j - 1
    BY <1>7, <2>1
  <2>4. QED
    BY <1>1, <2>2, <2>3
<1>15. QED
  BY <1>1, <1>12, <1>13, <1>14 DEF E, n

\* Induction: of the numbers without the property, one would be the least.
LEMMA StepByStep ==
    ASSUME NEW n \in Nat, NEW T, 0 \in T, \A k \in 1 .. n : k - 1 \in T => k \in T
    PROVE  \A k \in 0 .. n : k \in T
<1> DEFINE R == {d \in Nat \X Nat : d[1] < d[2]}
           B == (0 .. n) \ T
<1>1. IsWellFoundedOn(R, Nat)
  BY NatLessThanWellFounded DEF OpToRel
<1>2. \A k, m \in Nat : m < k => <<m, k>> \in R
  OBVIOUS
<1>3. B \in SUBSET Nat
  OBVIOUS
<1>4. B = {}
  <2> SUFFICES ASSUME B # {} PROVE FALSE
    OBVIOUS
  <2> HIDE DEF R, B
  <2>1. PICK k \in B : \A m \in B : ~(<<m, k>> \in R)
    BY <1>1, <1>3, WFMin
  <2>2. k \in Nat /\ \A m \in B : ~(m < k)
    BY <1>2, <1>3, <2>1
  <2>3. k \in 1 .. n /\ k \notin T /\ k - 1 \in 0 .. n
    BY DEF B
  <2>4. k - 1 \notin B
    BY <2>2, <2>3
  <2>5. k - 1 \in T
    BY <2>3, <2>4 DEF B
  <2>6. QED
    BY <2>3, <2>5
<1>5. QED
  BY <1>4

\* The list of a set: each of its elements at one place.
Enumerates(list, S) ==
  /\ Cardinality(S) \in Nat /\ list \in [1 .. Cardinality(S) -> S]
  /\ \A x \in S : \E i \in 1 .. Cardinality(S) : list[i] = x
  /\ \A i, j \in 1 .. Cardinality(S) : list[i] = list[j] => i = j

LEMMA ListIs ==
    ASSUME NEW list, NEW S, Enumerates(list, S)
    PROVE  /\ ToSet(list) = S /\ Len(list) = Cardinality(S) /\ Cardinality(S) \in Nat
           /\ DOMAIN list = 1 .. Cardinality(S) /\ IsInjective(list) /\ list \in Seq(S)
<1>1. /\ Cardinality(S) \in Nat /\ list \in [1 .. Cardinality(S) -> S]
      /\ DOMAIN list = 1 .. Cardinality(S)
  BY DEF Enumerates
<1>2. list \in Seq(S) /\ Len(list) = Cardinality(S)
  BY <1>1
<1>3. ToSet(list) = S
  BY <1>1 DEF Enumerates, ToSet
<1>4. IsInjective(list)
  BY <1>1 DEF Enumerates, IsInjective
<1>5. QED
  BY <1>1, <1>2, <1>3, <1>4

-----------------------------------------------------------------------------
(* The sum of a function over a finite set: MapThenSumSet chooses a fold,  *)
(* and the subsets of a finite set have one.                               *)

\* The member that the fold takes next.
Pick(T) == CHOOSE x \in T : TRUE

\* What a fold over a set computes of each of its subsets.
Folds(f, S, g) == g = [T \in SUBSET S |-> IF T = {} THEN 0 ELSE f[Pick(T)] + g[T \ {Pick(T)}]]

\* A set without one of its members has one member less.
LEMMA Smaller ==
    ASSUME NEW S, IsFiniteSet(S), NEW x \in S
    PROVE  /\ IsFiniteSet(S \ {x}) /\ Cardinality(S) \in Nat /\ Cardinality(S \ {x}) \in Nat
           /\ Cardinality(S \ {x}) = Cardinality(S) - 1
BY FS_RemoveElement, FS_CardinalityType

\* Induction over the subsets of a finite set.
LEMMA SetInduction ==
    ASSUME NEW S, IsFiniteSet(S), NEW G, {} \in G,
           \A T \in SUBSET S : T # {} /\ (\A x \in T : T \ {x} \in G) => T \in G
    PROVE  \A T \in SUBSET S : T \in G
<1> DEFINE Bad == (SUBSET S) \ G
<1>1. \A T \in SUBSET S : IsFiniteSet(T) /\ Cardinality(T) \in Nat
  BY FS_Subset, FS_CardinalityType
<1>2. Bad = {}
  <2> SUFFICES ASSUME Bad # {} PROVE FALSE
    OBVIOUS
  <2>1. \A T \in Bad : IsFiniteSet(T)
    BY <1>1
  <2> HIDE DEF Bad
  <2>2. PICK T \in Bad : \A Q \in Bad : Cardinality(T) <= Cardinality(Q)
    BY <2>1, SmallestSet
  <2>3. T \in SUBSET S /\ T # {}
    BY DEF Bad
  <2>4. ASSUME NEW x \in T PROVE T \ {x} \in G
    <3>1. Cardinality(T \ {x}) < Cardinality(T) /\ Cardinality(T) \in Nat /\ Cardinality(T \ {x}) \in Nat
      BY <1>1, <2>3, Smaller
    <3>2. T \ {x} \notin Bad
      BY <2>2, <3>1
    <3>3. QED
      BY <2>3, <3>2 DEF Bad
  <2>5. T \in G
    BY <2>3, <2>4
  <2>6. QED
    BY <2>5 DEF Bad
<1>3. QED
  BY <1>2

\* There is such a fold: level by level, as far as the set is large.
LEMMA SumsExist ==
    ASSUME NEW S, IsFiniteSet(S), NEW f, \A x \in S : f[x] \in Nat
    PROVE  \E g : Folds(f, S, g)
<1> DEFINE L(n) == {T \in SUBSET S : Cardinality(T) <= n}
           Good(n, g) == /\ g \in [L(n) -> Nat]
                         /\ \A T \in L(n) : g[T] = IF T = {} THEN 0 ELSE f[Pick(T)] + g[T \ {Pick(T)}]
           Bad == {n \in Nat : ~ \E g : Good(n, g)}
<1>1. \A T \in SUBSET S : IsFiniteSet(T) /\ Cardinality(T) \in Nat /\ Cardinality(T) <= Cardinality(S)
  BY FS_Subset, FS_CardinalityType
<1>2. ASSUME NEW T \in SUBSET S, T # {}
      PROVE  /\ Pick(T) \in T /\ T \ {Pick(T)} \in SUBSET S
             /\ Cardinality(T \ {Pick(T)}) = Cardinality(T) - 1
  <2>1. Pick(T) \in T
    BY <1>2 DEF Pick
  <2>2. QED
    BY <1>1, <2>1, Smaller
<1>3. Bad = {}
  <2> HIDE DEF Good
  <2> SUFFICES ASSUME Bad # {} PROVE FALSE
    OBVIOUS
  <2>1. PICK n \in Bad : \A m \in Bad : n <= m
    BY LeastNatural
  <2>2. n # 0
    <3> DEFINE g == [T \in L(0) |-> 0]
    <3>1. \A T \in L(0) : T = {}
      BY <1>1, FS_EmptySet
    <3>2. Good(0, g)
      BY <3>1 DEF Good
    <3> HIDE DEF g
    <3>3. \E gg : Good(0, gg)
      BY <3>2
    <3>4. 0 \notin Bad
      BY <3>3
    <3>5. QED
      BY <2>1, <3>4
  <2>3. n - 1 \in Nat /\ n - 1 \notin Bad
    BY <2>1, <2>2
  <2>4. PICK g : Good(n - 1, g)
    BY <2>3
  <2> DEFINE h == [T \in L(n) |-> IF T \in L(n - 1) THEN g[T] ELSE f[Pick(T)] + g[T \ {Pick(T)}]]
  <2>5. ASSUME NEW T \in L(n), T # {} PROVE Pick(T) \in S /\ T \ {Pick(T)} \in L(n - 1) /\ T \ {Pick(T)} \in L(n)
    BY <1>1, <1>2, <2>3, <2>5
  <2>6. ASSUME NEW T \in L(n)
        PROVE  h[T] \in Nat /\ h[T] = IF T = {} THEN 0 ELSE f[Pick(T)] + h[T \ {Pick(T)}]
    <3>1. CASE T = {}
      <4>1. T \in L(n - 1)
        BY <2>3, <3>1, FS_EmptySet
      <4>2. QED
        BY <2>4, <3>1, <4>1 DEF Good
    <3>2. CASE T # {}
      <4>1. h[T \ {Pick(T)}] = g[T \ {Pick(T)}] /\ g[T \ {Pick(T)}] \in Nat /\ f[Pick(T)] \in Nat
        BY <2>4, <2>5, <3>2 DEF Good
      <4>2. h[T] = f[Pick(T)] + g[T \ {Pick(T)}]
        <5>1. ASSUME T \in L(n - 1) PROVE g[T] = f[Pick(T)] + g[T \ {Pick(T)}]
          BY <2>4, <3>2, <5>1 DEF Good
        <5>2. QED
          BY <5>1
      <4>3. QED
        BY <3>2, <4>1, <4>2
    <3>3. QED
      BY <3>1, <3>2
  <2>7. Good(n, h)
    <3> HIDE DEF L
    <3>1. h \in [L(n) -> Nat]
      BY <2>6
    <3> HIDE DEF h
    <3>2. QED
      BY <2>6, <3>1 DEF Good
  <2> HIDE DEF h
  <2>8. QED
    BY <2>1, <2>7
<1>4. PICK g : Good(Cardinality(S), g)
  BY <1>3, FS_CardinalityType
<1>5. L(Cardinality(S)) = SUBSET S
  BY <1>1
<1>6. g = [T \in SUBSET S |-> IF T = {} THEN 0 ELSE f[Pick(T)] + g[T \ {Pick(T)}]]
  <2> HIDE DEF L
  <2>1. g \in [SUBSET S -> Nat]
    BY <1>4, <1>5
  <2>2. \A T \in SUBSET S : g[T] = IF T = {} THEN 0 ELSE f[Pick(T)] + g[T \ {Pick(T)}]
    BY <1>4, <1>5
  <2>3. QED
    BY <2>1, <2>2
<1>7. Folds(f, S, g)
  BY <1>6 DEF Folds
<1>8. QED
  BY <1>7

\* The fold behind a sum, as the community module defines it.
Iter(f, S) == CHOOSE g : Folds(f, S, g)

\* A sum is that fold of the whole set.
LEMMA SumFolds ==
    ASSUME NEW f, NEW S
    PROVE  Summed(f, S) = Iter(f, S)[S]
BY DEF Summed, MapThenSumSet, MapThenFoldSet, Iter, Folds, Pick

\* So the chosen fold is one.
LEMMA IterIs ==
    ASSUME NEW S, IsFiniteSet(S), NEW f, \A x \in S : f[x] \in Nat
    PROVE  Iter(f, S) = [T \in SUBSET S |-> IF T = {} THEN 0 ELSE f[Pick(T)] + Iter(f, S)[T \ {Pick(T)}]]
<1>1. \E g : Folds(f, S, g)
  BY SumsExist
<1>2. Folds(f, S, Iter(f, S))
  BY <1>1 DEF Iter
<1>3. QED
  BY <1>2 DEF Folds

\* Two folds agree wherever both are defined.
LEMMA FoldsAgree ==
    ASSUME NEW S, IsFiniteSet(S), NEW f, \A x \in S : f[x] \in Nat, NEW R \in SUBSET S
    PROVE  \A T \in SUBSET R : Iter(f, R)[T] = Iter(f, S)[T] /\ Iter(f, S)[T] \in Nat
<1> DEFINE g == Iter(f, R)
           h == Iter(f, S)
           Good == {T \in SUBSET R : g[T] = h[T] /\ h[T] \in Nat}
<1>1. IsFiniteSet(R) /\ \A x \in R : f[x] \in Nat
  BY FS_Subset
<1>2. \A T \in SUBSET R : g[T] = IF T = {} THEN 0 ELSE f[Pick(T)] + g[T \ {Pick(T)}]
  <2>1. g = [T \in SUBSET R |-> IF T = {} THEN 0 ELSE f[Pick(T)] + g[T \ {Pick(T)}]]
    BY <1>1, IterIs
  <2> HIDE DEF g
  <2>2. QED
    BY <2>1
<1>3. \A T \in SUBSET R : h[T] = IF T = {} THEN 0 ELSE f[Pick(T)] + h[T \ {Pick(T)}]
  <2>1. h = [T \in SUBSET S |-> IF T = {} THEN 0 ELSE f[Pick(T)] + h[T \ {Pick(T)}]]
    BY IterIs
  <2> HIDE DEF h
  <2>2. SUBSET R \in SUBSET SUBSET S
    OBVIOUS
  <2>3. QED
    BY <2>1, <2>2
<1> HIDE DEF g, h
<1>4. {} \in Good
  <2>1. g[{}] = 0 /\ h[{}] = 0
    BY <1>2, <1>3
  <2>2. QED
    BY <2>1
<1>5. ASSUME NEW T \in SUBSET R, T # {}, \A x \in T : T \ {x} \in Good PROVE T \in Good
  <2>1. Pick(T) \in T
    BY <1>5 DEF Pick
  <2>2. g[T \ {Pick(T)}] = h[T \ {Pick(T)}] /\ h[T \ {Pick(T)}] \in Nat
    BY <1>5, <2>1
  <2>3. f[Pick(T)] \in Nat
    BY <1>1, <2>1
  <2>4. g[T] = f[Pick(T)] + g[T \ {Pick(T)}] /\ h[T] = f[Pick(T)] + h[T \ {Pick(T)}]
    BY <1>2, <1>3, <1>5
  <2>5. QED
    BY <2>2, <2>3, <2>4
<1> HIDE DEF Good
<1>6. \A T \in SUBSET R : T \in Good
  BY <1>1, <1>4, <1>5, SetInduction
<1>7. QED
  BY <1>6 DEF Good, g, h

(***************************************************************************)
(* A sum over a finite set of numbers is a number, nothing over nothing,   *)
(* and the summand of any member more than the sum over the others.        *)
(***************************************************************************)
LEMMA SumPicks ==
    ASSUME NEW S, IsFiniteSet(S), NEW f, \A x \in S : f[x] \in Nat
    PROVE  /\ Summed(f, S) \in Nat
           /\ S = {} => Summed(f, S) = 0
           /\ S # {} => Summed(f, S) = f[Pick(S)] + Summed(f, S \ {Pick(S)})
<1>1. Iter(f, S)[S] = IF S = {} THEN 0 ELSE f[Pick(S)] + Iter(f, S)[S \ {Pick(S)}]
  <2>1. Iter(f, S) = [T \in SUBSET S |-> IF T = {} THEN 0 ELSE f[Pick(T)] + Iter(f, S)[T \ {Pick(T)}]]
    BY IterIs
  <2> DEFINE h == Iter(f, S)
  <2> HIDE DEF h
  <2>2. h = [T \in SUBSET S |-> IF T = {} THEN 0 ELSE f[Pick(T)] + h[T \ {Pick(T)}]]
    BY <2>1 DEF h
  <2>3. h[S] = IF S = {} THEN 0 ELSE f[Pick(S)] + h[S \ {Pick(S)}]
    BY <2>2
  <2>4. QED
    BY <2>3 DEF h
<1>2. Iter(f, S)[S] \in Nat
  BY FoldsAgree
<1>3. Iter(f, S \ {Pick(S)})[S \ {Pick(S)}] = Iter(f, S)[S \ {Pick(S)}]
  BY FoldsAgree
<1>4. QED
  BY <1>1, <1>2, <1>3, SumFolds

\* The same, from any member.
LEMMA SumStep ==
    ASSUME NEW S, IsFiniteSet(S), NEW f, \A x \in S : f[x] \in Nat
    PROVE  \A x \in S : Summed(f, S) = f[x] + Summed(f, S \ {x})
<1> DEFINE Good == {T \in SUBSET S : \A x \in T : Summed(f, T) = f[x] + Summed(f, T \ {x})}
<1>1. \A T \in SUBSET S : IsFiniteSet(T) /\ Summed(f, T) \in Nat
  BY FS_Subset, SumPicks
<1>2. {} \in Good
  OBVIOUS
<1>3. ASSUME NEW T \in SUBSET S, T # {}, \A x \in T : T \ {x} \in Good PROVE T \in Good
  <2> SUFFICES ASSUME NEW x \in T PROVE Summed(f, T) = f[x] + Summed(f, T \ {x})
    OBVIOUS
  <2> DEFINE p == Pick(T)
             u == Summed(f, (T \ {p}) \ {x})
  <2>1. p \in T
    BY DEF Pick
  <2>2. Summed(f, T) = f[p] + Summed(f, T \ {p})
    BY <1>1, <2>1, SumPicks
  <2> HIDE DEF p
  <2>3. CASE p = x
    BY <2>2, <2>3
  <2>4. CASE p # x
    <3>1. Summed(f, T \ {p}) = f[x] + u
      BY <1>3, <2>1, <2>4
    <3>2. Summed(f, T \ {x}) = f[p] + Summed(f, (T \ {x}) \ {p})
      BY <1>3, <2>1, <2>4
    <3>3. (T \ {p}) \ {x} = (T \ {x}) \ {p}
      OBVIOUS
    <3>4. Summed(f, T) = f[p] + (f[x] + u) /\ Summed(f, T \ {x}) = f[p] + u
      BY <2>2, <3>1, <3>2, <3>3, Zenon
    <3>5. f[x] \in Nat /\ f[p] \in Nat /\ u \in Nat
      BY <1>1, <2>1
    <3> HIDE DEF u
    <3>6. f[p] + (f[x] + u) = f[x] + (f[p] + u)
      BY <3>5
    <3>7. QED
      BY <3>4, <3>6, Zenon
  <2>5. QED
    BY <2>3, <2>4
<1> HIDE DEF Good
<1>4. S \in Good
  BY <1>2, <1>3, S \in SUBSET S, SetInduction
<1>5. QED
  BY <1>4 DEF Good

\* Sums over a set and over the rest of it.
LEMMA SumSplit ==
    ASSUME NEW S, IsFiniteSet(S), NEW f, \A x \in S : f[x] \in Nat, NEW A \in SUBSET S
    PROVE  Summed(f, S) = Summed(f, A) + Summed(f, S \ A)
<1> DEFINE r == Summed(f, S \ A)
           Good == {T \in SUBSET A : Summed(f, T \cup (S \ A)) = Summed(f, T) + r}
<1>1. \A T \in SUBSET S : IsFiniteSet(T) /\ Summed(f, T) \in Nat
  BY FS_Subset, SumPicks
<1>2. r \in Nat /\ IsFiniteSet(A)
  BY <1>1
<1>3. {} \in Good
  <2>1. Summed(f, {}) = 0 /\ {} \cup (S \ A) = S \ A
    BY <1>1, SumPicks
  <2>2. QED
    BY <1>2, <2>1
<1>4. ASSUME NEW T \in SUBSET A, T # {}, \A x \in T : T \ {x} \in Good PROVE T \in Good
  <2>1. PICK x \in T : TRUE
    BY <1>4
  <2> DEFINE u == Summed(f, T \ {x})
  <2>2. Summed(f, (T \ {x}) \cup (S \ A)) = u + r
    BY <1>4
  <2>3. (T \cup (S \ A)) \ {x} = (T \ {x}) \cup (S \ A)
    OBVIOUS
  <2>4. Summed(f, T) = f[x] + u
    BY <1>1, SumStep
  <2>5. Summed(f, T \cup (S \ A)) = f[x] + Summed(f, (T \cup (S \ A)) \ {x})
    <3>1. T \cup (S \ A) \in SUBSET S /\ x \in T \cup (S \ A)
      OBVIOUS
    <3>2. QED
      BY <1>1, <3>1, SumStep
  <2>6. f[x] \in Nat /\ u \in Nat
    BY <1>1
  <2> HIDE DEF u, r
  <2>7. Summed(f, T \cup (S \ A)) = f[x] + (u + r)
    BY <2>2, <2>3, <2>5, Zenon
  <2>8. f[x] + (u + r) = (f[x] + u) + r
    BY <1>2, <2>6
  <2>9. QED
    BY <2>4, <2>7, <2>8
<1> HIDE DEF Good
<1>5. A \in Good /\ A \cup (S \ A) = S
  BY <1>2, <1>3, <1>4, A \in SUBSET A, SetInduction
<1>6. QED
  BY <1>5 DEF Good

\* A sum of numbers between two bounds.
LEMMA SumBounds ==
    ASSUME NEW S, IsFiniteSet(S), NEW f, NEW lo \in Nat, NEW hi \in Nat,
           \A x \in S : f[x] \in lo .. hi
    PROVE  Summed(f, S) \in lo * Cardinality(S) .. hi * Cardinality(S)
<1> DEFINE Good == {T \in SUBSET S : Summed(f, T) \in lo * Cardinality(T) .. hi * Cardinality(T)}
<1>1. \A x \in S : f[x] \in Nat
  OBVIOUS
<1>2. \A T \in SUBSET S : IsFiniteSet(T) /\ Summed(f, T) \in Nat
  BY <1>1, FS_Subset, SumPicks
<1>3. {} \in Good
  <2>1. Summed(f, {}) = 0 /\ Cardinality({}) = 0
    BY <1>1, <1>2, SumPicks, FS_EmptySet
  <2>2. 0 \in lo * 0 .. hi * 0
    OBVIOUS
  <2>3. QED
    BY <2>1, <2>2
<1>4. ASSUME NEW T \in SUBSET S, T # {}, \A x \in T : T \ {x} \in Good PROVE T \in Good
  <2>1. PICK x \in T : TRUE
    BY <1>4
  <2> DEFINE c == Cardinality(T)
             d == Cardinality(T \ {x})
             v == Summed(f, T \ {x})
             y == f[x]
  <2>2. c \in Nat /\ d \in Nat /\ d = c - 1
    BY <1>2, Smaller
  <2>3. v \in lo * d .. hi * d
    BY <1>4
  <2>4. Summed(f, T) = y + v
    BY <1>1, <1>2, SumStep
  <2>5. c = d + 1 /\ v \in Nat /\ y \in lo .. hi
    BY <1>2, <2>2
  <2> HIDE DEF c, d, v, y
  <2>6. lo * c = lo * d + lo /\ hi * c = hi * d + hi
    <3>1. \A a, b \in Nat : a * (b + 1) = a * b + a
      OBVIOUS
    <3>2. QED
      BY <2>2, <2>5, <3>1
  <2>7. lo * d \in Nat /\ hi * d \in Nat
    BY <2>2
  <2>8. y + v \in lo * c .. hi * c
    BY <2>3, <2>5, <2>6, <2>7
  <2>9. QED
    BY <2>4, <2>8 DEF c
<1> HIDE DEF Good
<1>5. S \in Good
  BY <1>3, <1>4, S \in SUBSET S, SetInduction
<1>6. QED
  BY <1>5 DEF Good

\* Equal summands, equal sums.
LEMMA SumEqual ==
    ASSUME NEW S, IsFiniteSet(S), NEW f, NEW g, \A x \in S : f[x] \in Nat /\ g[x] = f[x]
    PROVE  Summed(g, S) = Summed(f, S)
<1> DEFINE G == {T \in SUBSET S : Summed(g, T) = Summed(f, T)}
<1>1. /\ \A T \in SUBSET S : IsFiniteSet(T)
      /\ \A x \in S : f[x] \in Nat
      /\ \A x \in S : g[x] \in Nat
  BY FS_Subset
<1>2. {} \in G
  BY <1>1, SumPicks
<1>3. ASSUME NEW T \in SUBSET S, T # {}, \A x \in T : T \ {x} \in G PROVE T \in G
  <2>1. PICK x \in T : TRUE
    BY <1>3
  <2>2. Summed(f, T) = f[x] + Summed(f, T \ {x}) /\ Summed(g, T) = g[x] + Summed(g, T \ {x})
    BY <1>1, SumStep
  <2>3. Summed(g, T \ {x}) = Summed(f, T \ {x})
    BY <1>3
  <2>4. g[x] = f[x]
    OBVIOUS
  <2>5. QED
    BY <2>2, <2>3, <2>4
<1> HIDE DEF G
<1>4. S \in G
  BY <1>2, <1>3, S \in SUBSET S, SetInduction
<1>5. QED
  BY <1>4 DEF G

\* Summand by summand, a sum of two is the sum of both.
LEMMA SumPlus ==
    ASSUME NEW S, IsFiniteSet(S), NEW f, NEW g, NEW h,
           \A x \in S : f[x] \in Nat /\ g[x] \in Nat /\ h[x] = f[x] + g[x]
    PROVE  Summed(h, S) = Summed(f, S) + Summed(g, S)
<1> DEFINE G == {T \in SUBSET S : Summed(h, T) = Summed(f, T) + Summed(g, T)}
<1>1. /\ \A T \in SUBSET S : IsFiniteSet(T)
      /\ \A x \in S : f[x] \in Nat
      /\ \A x \in S : g[x] \in Nat
      /\ \A x \in S : h[x] \in Nat
  BY FS_Subset
<1>2. {} \in G
  <2>1. IsFiniteSet({})
    BY <1>1
  <2>2. Summed(f, {}) = 0
    BY <2>1, SumPicks
  <2>3. Summed(g, {}) = 0
    BY <2>1, SumPicks
  <2>4. Summed(h, {}) = 0
    BY <2>1, SumPicks
  <2>5. QED
    BY <2>2, <2>3, <2>4
<1>3. ASSUME NEW T \in SUBSET S, T # {}, \A x \in T : T \ {x} \in G PROVE T \in G
  <2>1. PICK x \in T : TRUE
    BY <1>3
  <2>2. /\ Summed(f, T) = f[x] + Summed(f, T \ {x}) /\ Summed(g, T) = g[x] + Summed(g, T \ {x})
        /\ Summed(h, T) = h[x] + Summed(h, T \ {x})
    BY <1>1, SumStep
  <2>3. Summed(h, T \ {x}) = Summed(f, T \ {x}) + Summed(g, T \ {x})
    BY <1>3
  <2> DEFINE u == Summed(f, T \ {x})
             v == Summed(g, T \ {x})
  <2>4. u \in Nat /\ v \in Nat /\ f[x] \in Nat /\ g[x] \in Nat /\ h[x] = f[x] + g[x]
    <3>1. IsFiniteSet(T \ {x}) /\ \A y \in T \ {x} : f[y] \in Nat /\ g[y] \in Nat
      BY <1>1, T \ {x} \in SUBSET S
    <3>2. QED
      BY <1>1, <3>1, SumPicks
  <2>5. Summed(h, T) = h[x] + (u + v) /\ Summed(f, T) = f[x] + u /\ Summed(g, T) = g[x] + v
    BY <2>2, <2>3
  <2> HIDE DEF u, v
  <2>6. QED
    BY <2>4, <2>5
<1> HIDE DEF G
<1>4. S \in G
  BY <1>2, <1>3, S \in SUBSET S, SetInduction
<1>5. QED
  BY <1>4 DEF G

\* A sum of ones, and of noughts elsewhere, counts.
LEMMA SumCounts ==
    ASSUME NEW S, IsFiniteSet(S), NEW A \in SUBSET S, NEW f, \A x \in S : f[x] = IF x \in A THEN 1 ELSE 0
    PROVE  Summed(f, S) = Cardinality(A)
<1>1. \A x \in S : f[x] \in Nat
  OBVIOUS
<1>2. IsFiniteSet(A) /\ IsFiniteSet(S \ A) /\ Cardinality(A) \in Nat /\ Cardinality(S \ A) \in Nat
  BY FS_Subset, FS_CardinalityType
<1>3. Summed(f, A) \in 1 * Cardinality(A) .. 1 * Cardinality(A)
  <2>1. \A x \in A : f[x] \in 1 .. 1
    OBVIOUS
  <2>2. QED
    BY <1>2, <2>1, SumBounds
<1>4. Summed(f, S \ A) \in 0 * Cardinality(S \ A) .. 0 * Cardinality(S \ A)
  <2>1. \A x \in S \ A : f[x] \in 0 .. 0
    OBVIOUS
  <2>2. QED
    BY <1>2, <2>1, SumBounds
<1>5. Summed(f, S) = Summed(f, A) + Summed(f, S \ A)
  BY <1>1, SumSplit
<1>6. QED
  BY <1>2, <1>3, <1>4, <1>5

(***************************************************************************)
(* Members counted by the cells they are in, and cells by their members.   *)
(***************************************************************************)
HoldingOf(I, Of, key) == {i \in I : key \in Of[i]}

LEMMA DoubleCount ==
    ASSUME NEW K, IsFiniteSet(K), NEW I, IsFiniteSet(I), NEW Of, \A i \in I : Of[i] \subseteq K,
           NEW n, \A key \in K : n[key] = Cardinality(HoldingOf(I, Of, key)),
           NEW m, \A i \in I : m[i] = Cardinality(Of[i])
    PROVE  Summed(n, K) = Summed(m, I)
<1> DEFINE In(T) == [key \in K |-> Cardinality({i \in T : key \in Of[i]})]
           Good == {T \in SUBSET I : Summed(In(T), K) = Summed(m, T)}
<1>1. \A T \in SUBSET I : IsFiniteSet(T)
  BY FS_Subset
<1>2. \A i \in I : m[i] \in Nat
  BY FS_Subset, FS_CardinalityType
<1>3. ASSUME NEW T \in SUBSET I
      PROVE  \A key \in K : In(T)[key] \in Nat
  <2> SUFFICES ASSUME NEW key \in K PROVE Cardinality({i \in T : key \in Of[i]}) \in Nat
    OBVIOUS
  <2>1. {i \in T : key \in Of[i]} \in SUBSET I
    OBVIOUS
  <2>2. QED
    BY <1>1, <2>1, FS_CardinalityType
<1>4. {} \in Good
  <2>1. \A key \in K : In({})[key] = IF key \in {} THEN 1 ELSE 0
    <3> SUFFICES ASSUME NEW key \in K PROVE Cardinality({i \in {} : key \in Of[i]}) = 0
      OBVIOUS
    <3>1. {i \in {} : key \in Of[i]} = {}
      OBVIOUS
    <3>2. QED
      BY <3>1, FS_EmptySet
  <2> HIDE DEF In
  <2>2. Summed(In({}), K) = Cardinality({}) /\ {} \in SUBSET I
    BY <2>1, SumCounts
  <2>3. Summed(m, {}) = 0 /\ Cardinality({}) = 0
    BY <1>1, <1>2, SumPicks, FS_EmptySet
  <2>4. QED
    BY <2>2, <2>3
<1>5. ASSUME NEW T \in SUBSET I, T # {}, \A x \in T : T \ {x} \in Good PROVE T \in Good
  <2>1. PICK x \in T : TRUE
    BY <1>5
  <2> DEFINE one == [key \in K |-> IF key \in Of[x] THEN 1 ELSE 0]
             R == T \ {x}
  <2>2. \A key \in K : In(R)[key] \in Nat /\ one[key] \in Nat /\ In(T)[key] = In(R)[key] + one[key]
    <3> SUFFICES ASSUME NEW key \in K
                 PROVE  /\ In(R)[key] \in Nat /\ one[key] \in Nat
                        /\ In(T)[key] = In(R)[key] + one[key]
      OBVIOUS
    <3> DEFINE A == {i \in T : key \in Of[i]}
               B == {i \in R : key \in Of[i]}
    <3>1. In(T)[key] = Cardinality(A) /\ In(R)[key] = Cardinality(B)
      OBVIOUS
    <3>2. In(R)[key] \in Nat /\ In(T)[key] \in Nat
      BY <1>3, R \in SUBSET I
    <3>3. CASE key \in Of[x]
      <4>1. x \in A /\ B = A \ {x}
        BY <3>3
      <4>2. IsFiniteSet(A)
        BY <1>1, A \in SUBSET I
      <4>3. Cardinality(A \ {x}) = Cardinality(A) - 1
        BY <4>1, <4>2, Smaller
      <4>4. one[key] = 1
        BY <3>3
      <4> HIDE DEF A, B, R, one, In
      <4>5. QED
        BY <3>1, <3>2, <4>1, <4>3, <4>4
    <3>4. CASE key \notin Of[x]
      <4>1. B = A
        BY <3>4
      <4>2. one[key] = 0
        BY <3>4
      <4> HIDE DEF A, B, R, one, In
      <4>3. QED
        BY <3>1, <3>2, <4>1, <4>2
    <3>5. QED
      BY <3>3, <3>4
  <2>3. \A key \in K : one[key] = IF key \in Of[x] THEN 1 ELSE 0
    OBVIOUS
  <2> HIDE DEF one, In
  <2>4. Summed(In(T), K) = Summed(In(R), K) + Summed(one, K)
    BY <2>2, SumPlus
  <2>5. Summed(one, K) = m[x]
    <3>1. Of[x] \in SUBSET K /\ m[x] = Cardinality(Of[x])
      OBVIOUS
    <3>2. QED
      BY <2>3, <3>1, SumCounts
  <2>6. Summed(In(R), K) = Summed(m, R)
    BY <1>5
  <2>7. Summed(m, T) = m[x] + Summed(m, R)
    BY <1>1, <1>2, SumStep
  <2>8. m[x] \in Nat /\ Summed(m, R) \in Nat
    <3>1. IsFiniteSet(R) /\ \A i \in R : m[i] \in Nat
      BY <1>1, <1>2, R \in SUBSET I
    <3>2. QED
      BY <1>2, <3>1, SumPicks
  <2> HIDE DEF R
  <2>9. QED
    BY <2>4, <2>5, <2>6, <2>7, <2>8
<1> HIDE DEF Good
<1>6. I \in Good
  BY <1>4, <1>5, I \in SUBSET I, SetInduction
<1>7. Summed(In(I), K) = Summed(m, I)
  BY <1>6 DEF Good
<1>8. \A key \in K : In(I)[key] \in Nat /\ n[key] = In(I)[key]
  BY <1>3, I \in SUBSET I DEF HoldingOf
<1> HIDE DEF In
<1>9. Summed(n, K) = Summed(In(I), K)
  BY <1>8, SumEqual
<1>10. QED
  BY <1>7, <1>9

-----------------------------------------------------------------------------
(* The city context.                                                       *)

\* The parts of the day, and their hours.
LEMMA Bands ==
    DOMAIN TimeBand = {"overnight", "am_peak", "midday", "pm_peak", "evening"}
BY DEF TimeBand

LEMMA Hours ==
   /\ TimeBand["overnight"] = 0..5 /\ TimeBand["am_peak"] = 6..9 /\ TimeBand["midday"] = 10..15
   /\ TimeBand["pm_peak"] = 16..19 /\ TimeBand["evening"] = 20..23
BY DEF TimeBand
\* An hour is in one part of the day, and only no hour is in none.
LEMMA PartsOfDay ==
  ASSUME NEW hour \in 0..NoHour
  PROVE  /\ PartOfDay(hour) \in DOMAIN TimeBand \cup {"unknown_time"}
         /\ PartOfDay(hour) = "unknown_time" <=> hour = NoHour
         /\ \A band \in DOMAIN TimeBand : PartOfDay(hour) = band <=> hour \in TimeBand[band]
<1>1. CASE hour = NoHour
  <2>1. \A band \in DOMAIN TimeBand : hour \notin TimeBand[band] /\ band # "unknown_time"
    BY <1>1, Bands, Hours DEF NoHour
  <2>2. QED
    BY <1>1, <2>1 DEF PartOfDay
<1>2. CASE hour # NoHour
  <2>1. \E a \in DOMAIN TimeBand : hour \in TimeBand[a]
    <3>1. hour \in 0..5 \/ hour \in 6..9 \/ hour \in 10..15 \/ hour \in 16..19 \/ hour \in 20..23
      BY <1>2 DEF NoHour
    <3>2. QED
      BY <3>1, Bands, Hours
  <2>2. ASSUME NEW a \in DOMAIN TimeBand, NEW b \in DOMAIN TimeBand, hour \in TimeBand[a], hour \in TimeBand[b]
        PROVE  a = b
    BY <2>2, Bands, Hours
  <2>3. \A a \in DOMAIN TimeBand : a # "unknown_time"
    BY Bands
  <2>4. PartOfDay(hour) = CHOOSE b \in DOMAIN TimeBand : hour \in TimeBand[b]
    BY <1>2 DEF PartOfDay
  <2>5. PartOfDay(hour) \in DOMAIN TimeBand /\ hour \in TimeBand[PartOfDay(hour)]
    BY <2>1, <2>4
  <2>6. QED
    BY <1>2, <2>2, <2>3, <2>5
<1>3. QED
  BY <1>1, <1>2

\* What Min and Max return.
LEMMA LeastOf ==
    ASSUME NEW S \in SUBSET Nat, S # {}
    PROVE  Min(S) \in S /\ \A x \in S : Min(S) <= x
<1>1. PICK n \in S : \A m \in S : n <= m
  BY LeastNatural
<1>2. QED
  BY <1>1 DEF Min

LEMMA GreaterOf ==
    ASSUME NEW a \in Nat, NEW b \in Nat
    PROVE  Max({a, b}) \in Nat /\ Max({a, b}) >= a
<1>1. \E x \in {a, b} : \A y \in {a, b} : x >= y
  BY a >= b \/ b >= a
<1>2. QED
  BY <1>1 DEF Max

\* The image of a finite set is finite, and not larger.
LEMMA ImageFinite ==
    ASSUME NEW S, IsFiniteSet(S), NEW f
    PROVE  IsFiniteSet({f[x] : x \in S}) /\ Cardinality({f[x] : x \in S}) <= Cardinality(S)
<1> DEFINE T == {f[x] : x \in S}
           g == [x \in S |-> f[x]]
<1>1. g \in Surjection(S, T)
  BY DEF Surjection
<1>2. QED
  BY <1>1, FS_Surjection

\* One record of a request.
RecordOK(r) ==
  /\ IsFiniteSet(DOMAIN r.dist) /\ \A s \in DOMAIN r.dist : r.dist[s] \in Nat
  /\ r.near \subseteq DOMAIN r.dist
  /\ {s \in DOMAIN r.dist : r.dist[s] <= MaxDistance + AmbiguityMargin} \subseteq r.near

\* The decision over the candidates of the index is the decision over the whole network.
LEMMA SnapDecides ==
    ASSUME NEW r, RecordOK(r)
    PROVE  /\ PointSnap(r).status \in {"unsnapped", "ambiguous", "snapped"}
           /\ PointSnap(r).status = "snapped" => PointSnap(r).segment \in DOMAIN r.dist
           /\ \A s \in DOMAIN r.dist :
                OnStreet(r, s) <=> PointSnap(r).status = "snapped" /\ PointSnap(r).segment = s
<1> DEFINE D == {r.dist[s] : s \in r.near}
           nearest == Min(D)
           competitors == {s \in r.near : r.dist[s] <= nearest + AmbiguityMargin}
<1>1. MaxDistance \in Nat /\ AmbiguityMargin \in Nat
  BY ContextAssumption
<1>2. \A s \in r.near : s \in DOMAIN r.dist /\ r.dist[s] \in Nat
  BY DEF RecordOK
<1>3. IsFiniteSet(competitors)
  <2>1. competitors \in SUBSET DOMAIN r.dist
    BY <1>2
  <2>2. QED
    BY <2>1, FS_Subset DEF RecordOK
<1>4. PointSnap(r) =
        IF r.near = {} \/ nearest > MaxDistance THEN [status |-> "unsnapped"]
        ELSE IF Cardinality(competitors) > 1 THEN [status |-> "ambiguous"]
        ELSE [status |-> "snapped", segment |-> CHOOSE s \in competitors : TRUE]
  BY DEF PointSnap
<1>5. r.near # {} => nearest \in D /\ \A d \in D : nearest <= d
  <2>1. D \in SUBSET Nat /\ (r.near # {} => D # {})
    BY <1>2
  <2> HIDE DEF D
  <2>2. QED
    BY <2>1, LeastOf
<1>6. r.near # {} =>
        /\ nearest \in Nat /\ \A s \in r.near : nearest <= r.dist[s]
        /\ \E s \in r.near : r.dist[s] = nearest
  <2>1. ASSUME r.near # {}, NEW d \in D PROVE d \in Nat
    BY <1>2
  <2>2. QED
    BY <1>5, <2>1
<1> HIDE DEF D, nearest
<1>7. CASE r.near = {} \/ nearest > MaxDistance
  <2>1. ASSUME NEW s \in DOMAIN r.dist, OnStreet(r, s) PROVE FALSE
    <3>1. r.dist[s] <= MaxDistance /\ r.dist[s] \in Nat
      BY <2>1 DEF OnStreet, RecordOK
    <3>2. s \in r.near
      BY <1>1, <3>1 DEF RecordOK
    <3>3. QED
      BY <1>1, <1>6, <1>7, <3>1, <3>2
  <2>2. PointSnap(r).status = "unsnapped"
    BY <1>4, <1>7
  <2>3. QED
    BY <2>1, <2>2
<1>8. CASE r.near # {} /\ nearest <= MaxDistance
  <2>0. ~(r.near = {} \/ nearest > MaxDistance)
    BY <1>1, <1>6, <1>8
  <2>1. PICK t \in r.near : r.dist[t] = nearest
    BY <1>6, <1>8
  <2>2. t \in competitors
    BY <1>1, <1>6, <1>8, <2>1
  <2>3. ASSUME NEW s \in DOMAIN r.dist
        PROVE  OnStreet(r, s) <=> competitors = {s}
    <3>1. ASSUME OnStreet(r, s) PROVE competitors = {s}
      <4>1. \A u \in DOMAIN r.dist \ {s} : r.dist[u] > r.dist[s] + AmbiguityMargin
        BY <3>1 DEF OnStreet
      <4>2. r.dist[s] \in Nat /\ r.dist[t] \in Nat /\ t \in DOMAIN r.dist
        BY <1>2 DEF RecordOK
      <4>3. s \in r.near
        BY <1>1, <3>1, <4>2 DEF OnStreet, RecordOK
      <4>4. t = s
        <5>1. nearest <= r.dist[s]
          BY <1>6, <1>8, <4>3
        <5>2. QED
          BY <1>1, <2>1, <4>1, <4>2, <5>1
      <4>5. ASSUME NEW u \in competitors PROVE u = s
        BY <1>1, <1>2, <2>1, <4>1, <4>4
      <4>6. QED
        BY <2>2, <4>4, <4>5
    <3>2. ASSUME competitors = {s} PROVE OnStreet(r, s)
      <4>1. t = s
        BY <2>2, <3>2
      <4>2. r.dist[s] <= MaxDistance
        BY <1>8, <2>1, <4>1
      <4>3. ASSUME NEW u \in DOMAIN r.dist \ {s} PROVE r.dist[u] > r.dist[s] + AmbiguityMargin
        <5>1. r.dist[u] \in Nat /\ r.dist[s] \in Nat
          BY DEF RecordOK
        <5>2. CASE u \in r.near
          <6>1. u \notin competitors
            BY <3>2
          <6>2. QED
            BY <1>1, <2>1, <4>1, <5>1, <5>2, <6>1
        <5>3. CASE u \notin r.near
          <6>1. ~(r.dist[u] <= MaxDistance + AmbiguityMargin)
            BY <5>3 DEF RecordOK
          <6>2. QED
            BY <1>1, <4>2, <5>1, <6>1
        <5>4. QED
          BY <5>2, <5>3
      <4>4. QED
        BY <4>2, <4>3 DEF OnStreet
    <3>3. QED
      BY <3>1, <3>2
  <2>4. CASE Cardinality(competitors) > 1
    <3>1. PointSnap(r).status = "ambiguous"
      BY <1>4, <2>0, <2>4
    <3>2. \A s : competitors # {s}
      <4> HIDE DEF competitors
      <4>1. ASSUME NEW s, competitors = {s} PROVE FALSE
        <5>1. Cardinality({s}) = 1
          BY FS_Singleton
        <5>2. QED
          BY <2>4, <4>1, <5>1
      <4>2. QED
        BY <4>1
    <3>3. QED
      BY <2>3, <3>1, <3>2
  <2>5. CASE ~(Cardinality(competitors) > 1)
    <3>1. PointSnap(r) = [status |-> "snapped", segment |-> CHOOSE s \in competitors : TRUE]
      BY <1>4, <2>0, <2>5
    <3>2. competitors = {t}
      <4>1. Cardinality(competitors) \in Nat /\ competitors # {}
        BY <1>3, <2>2, FS_CardinalityType
      <4>2. Cardinality(competitors) # 0
        BY <1>3, <4>1, FS_EmptySet
      <4>3. Cardinality(competitors) = 1
        BY <2>5, <4>1, <4>2
      <4>4. QED
        BY <1>3, <2>2, <4>3, FS_Singleton
    <3> HIDE DEF competitors
    <3>3. PointSnap(r).status = "snapped" /\ PointSnap(r).segment = t /\ t \in DOMAIN r.dist
      BY <1>2, <3>1, <3>2
    <3>4. QED
      BY <2>3, <3>2, <3>3
  <2>6. QED
    BY <2>4, <2>5
<1>9. QED
  <2>1. r.near # {} => nearest > MaxDistance \/ nearest <= MaxDistance
    BY <1>1, <1>6
  <2>2. QED
    BY <1>7, <1>8, <2>1

\* A record counts at least once and at most once per mode of the source, and the unknown in its place.
LEMMA ModesCounted ==
    ASSUME NEW modes, IsFiniteSet(modes), Cardinality(modes) <= SourceModes
    PROVE  /\ IsFiniteSet(ContextModes(modes)) /\ Cardinality(ContextModes(modes)) \in 1 .. SourceModes
           /\ "unknown_mode" \notin modes =>
                \A m : m # "unknown" =>
                  (m \in ContextModes(modes)
                     <=> IF m = "unknown_mode" THEN modes = {} \/ "unknown" \in modes ELSE m \in modes)
<1> DEFINE f == [m \in modes |-> IF m = "unknown" THEN "unknown_mode" ELSE m]
           named == {f[m] : m \in modes}
<1>1. {IF m = "unknown" THEN "unknown_mode" ELSE m : m \in modes} = named
  OBVIOUS
<1>2. ContextModes(modes) = IF named = {} THEN {"unknown_mode"} ELSE named
  BY <1>1 DEF ContextModes
<1>3. IsFiniteSet(named) /\ Cardinality(named) <= Cardinality(modes)
  <2> HIDE DEF f
  <2>1. QED
    BY ImageFinite
<1>4. IsFiniteSet(ContextModes(modes)) /\ Cardinality(ContextModes(modes)) \in 1 .. SourceModes
  <2>1. Cardinality(named) \in Nat /\ Cardinality(modes) \in Nat
    BY <1>3, FS_CardinalityType
  <2> HIDE DEF named
  <2>2. CASE named = {}
    <3>1. IsFiniteSet({"unknown_mode"}) /\ Cardinality({"unknown_mode"}) = 1
      BY FS_Singleton
    <3>2. QED
      BY <1>2, <2>2, <3>1 DEF SourceModes
  <2>3. CASE named # {}
    <3>1. Cardinality(named) # 0
      BY <1>3, <2>3, FS_EmptySet
    <3>2. QED
      BY <1>2, <1>3, <2>1, <2>3, <3>1 DEF SourceModes
  <2>4. QED
    BY <2>2, <2>3
<1>5. ASSUME "unknown_mode" \notin modes, NEW m, m # "unknown"
      PROVE  m \in ContextModes(modes)
               <=> IF m = "unknown_mode" THEN modes = {} \/ "unknown" \in modes ELSE m \in modes
  <2>1. m \in named <=> \E n \in modes : m = IF n = "unknown" THEN "unknown_mode" ELSE n
    BY <1>1
  <2>2. named = {} <=> modes = {}
    OBVIOUS
  <2> HIDE DEF named
  <2>3. CASE m = "unknown_mode"
    BY <1>2, <1>5, <2>1, <2>2, <2>3
  <2>4. CASE m # "unknown_mode"
    BY <1>2, <1>5, <2>1, <2>2, <2>4
  <2>5. QED
    BY <2>3, <2>4
<1>6. QED
  BY <1>4, <1>5

\* What a record is counted as.
CellsOf(r) == {PointSnap(r).segment} \X {PartOfDay(r.hour)} \X ContextModes(r.modes)

\* Each cell counts the records that are in it; together they count no fewer than the records and no
\* more than the source has modes for them.
LEMMA CellsAre ==
    ASSUME NEW records, NEW snapped, IsFiniteSet(snapped),
           \A i \in snapped : IsFiniteSet(records[i].modes) /\ Cardinality(records[i].modes) <= SourceModes
    PROVE  LET counts == ContextCells(records, snapped) IN
           /\ \A key : key \in DOMAIN counts <=> \E i \in snapped : key \in CellsOf(records[i])
           /\ \A key \in DOMAIN counts :
                counts[key] = Cardinality({i \in snapped : key \in CellsOf(records[i])})
           /\ IsFiniteSet(DOMAIN counts)
           /\ \A key \in DOMAIN counts : counts[key] \in Nat /\ counts[key] >= 1
           /\ Summed(counts, DOMAIN counts) \in Cardinality(snapped) .. Cardinality(snapped) * SourceModes
<1> DEFINE Of == [i \in snapped |-> CellsOf(records[i])]
           K == UNION {Of[i] : i \in snapped}
           counts == ContextCells(records, snapped)
           sizes == [i \in snapped |-> Cardinality(Of[i])]
<1>1. counts = [key \in K |-> Cardinality({i \in snapped : key \in Of[i]})]
  <2>1. ContextCells(records, snapped) =
          [key \in UNION {CellsOf(records[i]) : i \in snapped} |->
             Cardinality({i \in snapped : key \in CellsOf(records[i])})]
    BY Zenon DEF ContextCells, CellsOf
  <2>2. {CellsOf(records[i]) : i \in snapped} = {Of[i] : i \in snapped}
    OBVIOUS
  <2>3. \A key : {i \in snapped : key \in CellsOf(records[i])} = {i \in snapped : key \in Of[i]}
    OBVIOUS
  <2> HIDE DEF Of
  <2>4. QED
    BY <2>1, <2>2, <2>3
<1>2. ASSUME NEW i \in snapped
      PROVE  IsFiniteSet(Of[i]) /\ Cardinality(Of[i]) \in 1 .. SourceModes
  <2> DEFINE r == records[i]
             seg == PointSnap(r).segment
             band == PartOfDay(r.hour)
             ms == ContextModes(r.modes)
             f == [m \in ms |-> <<seg, band, m>>]
  <2>1. IsFiniteSet(ms) /\ Cardinality(ms) \in 1 .. SourceModes
    BY ModesCounted
  <2>2. Of[i] = {seg} \X {band} \X ms
    BY DEF CellsOf
  <2> HIDE DEF seg, band, ms
  <2>3. {seg} \X {band} \X ms = {f[m] : m \in ms}
    OBVIOUS
  <2> HIDE DEF f
  <2>4. IsFiniteSet({f[m] : m \in ms}) /\ Cardinality({f[m] : m \in ms}) <= Cardinality(ms)
    BY <2>1, ImageFinite
  <2>5. {f[m] : m \in ms} # {}
    BY <2>1, FS_EmptySet
  <2>6. Cardinality({f[m] : m \in ms}) \in Nat /\ Cardinality({f[m] : m \in ms}) # 0
    BY <2>4, <2>5, FS_EmptySet, FS_CardinalityType
  <2> DEFINE c == Cardinality({f[m] : m \in ms})
             d == Cardinality(ms)
  <2>7. c \in Nat /\ c # 0 /\ c <= d /\ d \in 1 .. SourceModes
    BY <2>1, <2>4, <2>6
  <2> HIDE DEF c, d
  <2>8. c \in 1 .. SourceModes
    BY <2>7 DEF SourceModes
  <2>9. QED
    BY <2>2, <2>3, <2>4, <2>8 DEF c
<1> HIDE DEF Of
<1>3. IsFiniteSet(K)
  <2>1. IsFiniteSet({Of[i] : i \in snapped})
    BY ImageFinite
  <2>2. QED
    BY <1>2, <2>1, FS_UNION
<1>4. ASSUME NEW key \in K
      PROVE  Cardinality({i \in snapped : key \in Of[i]}) \in Nat /\ Cardinality({i \in snapped : key \in Of[i]}) >= 1
  <2> DEFINE A == {i \in snapped : key \in Of[i]}
  <2>1. IsFiniteSet(A) /\ A # {}
    BY FS_Subset
  <2> HIDE DEF A
  <2>2. Cardinality(A) \in Nat /\ Cardinality(A) # 0
    BY <2>1, FS_EmptySet, FS_CardinalityType
  <2>3. QED
    BY <2>2 DEF A
<1> HIDE DEF counts
<1>5. /\ DOMAIN counts = K
      /\ \A key \in K : counts[key] = Cardinality({i \in snapped : key \in Of[i]})
  BY <1>1
<1>6. \A key \in K : counts[key] \in Nat /\ counts[key] >= 1
  BY <1>4, <1>5
<1>7. Summed(counts, K) = Summed(sizes, snapped)
  <2>1. \A i \in snapped : Of[i] \subseteq K
    OBVIOUS
  <2>2. \A i \in snapped : sizes[i] = Cardinality(Of[i])
    OBVIOUS
  <2>3. \A key \in K : counts[key] = Cardinality(HoldingOf(snapped, Of, key))
    BY <1>5 DEF HoldingOf
  <2> HIDE DEF K, sizes
  <2>4. QED
    BY <1>3, <2>1, <2>2, <2>3, DoubleCount
<1>8. Summed(sizes, snapped) \in 1 * Cardinality(snapped) .. SourceModes * Cardinality(snapped)
  <2>1. \A i \in snapped : sizes[i] \in 1 .. SourceModes
    BY <1>2
  <2>2. 1 \in Nat /\ SourceModes \in Nat
    BY DEF SourceModes
  <2> HIDE DEF sizes
  <2>3. QED
    BY <2>1, <2>2, SumBounds
<1>9. Summed(counts, K) \in Cardinality(snapped) .. Cardinality(snapped) * SourceModes
  BY <1>7, <1>8, FS_CardinalityType DEF SourceModes
<1>10. \A key : key \in K <=> \E i \in snapped : key \in CellsOf(records[i])
  BY DEF Of
<1>11. \A key : {i \in snapped : key \in Of[i]} = {i \in snapped : key \in CellsOf(records[i])}
  BY DEF Of
<1> HIDE DEF K
<1>12. \A key \in DOMAIN counts :
         counts[key] = Cardinality({i \in snapped : key \in CellsOf(records[i])})
  BY <1>5, <1>11
<1>13. QED
  BY <1>3, <1>5, <1>6, <1>9, <1>10, <1>12 DEF counts

\* Disjoint sets count together what they count apart.
LEMMA CardinalitiesAdd ==
    ASSUME NEW A, IsFiniteSet(A), NEW B, IsFiniteSet(B), A \cap B = {}
    PROVE  Cardinality(A \cup B) = Cardinality(A) + Cardinality(B)
<1>1. Cardinality(A \cup B) = Cardinality(A) + Cardinality(B) - Cardinality(A \cap B)
  BY FS_Union
<1>2. Cardinality(A \cap B) = 0 /\ Cardinality(A) \in Nat /\ Cardinality(B) \in Nat
  BY FS_EmptySet, FS_CardinalityType
<1>3. QED
  BY <1>1, <1>2

(***************************************************************************)
(* The city context of a request: never refused, and it counts what the    *)
(* whole network says.                                                     *)
(***************************************************************************)
LEMMA ContextHolds ==
    ASSUME NEW records, NEW window, NEW requested, ContextRequest(records, requested)
    PROVE  ContextAccounts(records, window, requested, CityContext(records, window, requested))
<1> DEFINE dom      == DOMAIN records
           k        == Max({ContextMinimumK, requested})
           inside   == {i \in dom : records[i].day \in window}
           With(st) == {i \in inside : PointSnap(records[i]).status = st}
           snapped  == With("snapped")
           untimed  == {i \in snapped : PartOfDay(records[i].hour) = "unknown_time"}
           counts   == ContextCells(records, snapped)
           eligible == {key \in DOMAIN counts : counts[key] >= k}
           rest     == DOMAIN counts \ eligible
           cells    == [key \in eligible |-> counts[key]]
           acc      ==
                [received   |-> Len(records),
                 outside    |-> Len(records) - Cardinality(inside),
                 inside     |-> Cardinality(inside),
                 unique     |-> Cardinality(snapped),
                 ambiguous  |-> Cardinality(With("ambiguous")),
                 unsnapped  |-> Cardinality(With("unsnapped")),
                 timed      |-> Cardinality(snapped \ untimed),
                 untimed    |-> Cardinality(untimed),
                 positive   |-> Cardinality(DOMAIN counts),
                 eligible   |-> Cardinality(eligible),
                 suppressed |-> Cardinality(rest),
                 total      |-> Summed(counts, DOMAIN counts),
                 shown      |-> Summed(counts, eligible),
                 hidden     |-> Summed(counts, rest)]
           doc      == [k |-> k, cells |-> cells, accounting |-> acc]
<1>1. CityContext(records, window, requested) = IF ValidContext(doc) THEN doc ELSE ContextRefused
  BY Zenon DEF CityContext
<1>2. /\ Len(records) \in Nat /\ dom = 1 .. Len(records) /\ IsFiniteSet(dom)
      /\ Cardinality(dom) = Len(records)
  <2>1. Len(records) \in Nat /\ dom = 1 .. Len(records)
    BY DEF ContextRequest
  <2> DEFINE n == Len(records)
  <2> HIDE DEF n, dom
  <2>2. IsFiniteSet(1 .. n) /\ Cardinality(1 .. n) = IF 1 > n THEN 0 ELSE n - 1 + 1
    BY <2>1, FS_Interval DEF n
  <2>3. n \in Nat /\ dom = 1 .. n
    BY <2>1 DEF n
  <2>4. IsFiniteSet(dom) /\ Cardinality(dom) = n
    BY <2>2, <2>3
  <2>5. QED
    BY <2>3, <2>4 DEF n
<1>3. k \in Nat /\ k >= 1
  <2>1. ContextMinimumK \in Nat /\ ContextMinimumK # 0 /\ requested \in Nat
    BY ContextAssumption DEF ContextRequest
  <2>2. k \in Nat /\ k >= ContextMinimumK
    BY <2>1, GreaterOf
  <2> HIDE DEF k
  <2>3. QED
    BY <2>1, <2>2
<1>4. ASSUME NEW i \in dom
      PROVE  /\ RecordOK(records[i]) /\ records[i].hour \in 0 .. NoHour
             /\ IsFiniteSet(records[i].modes) /\ Cardinality(records[i].modes) <= SourceModes
             /\ "unknown_mode" \notin records[i].modes
  BY DEF ContextRequest, RecordOK
<1>5. \A i \in dom :
        /\ PointSnap(records[i]).status \in {"unsnapped", "ambiguous", "snapped"}
        /\ \A s \in DOMAIN records[i].dist :
             OnStreet(records[i], s)
               <=> PointSnap(records[i]).status = "snapped" /\ PointSnap(records[i]).segment = s
        /\ PointSnap(records[i]).status = "snapped" => PointSnap(records[i]).segment \in DOMAIN records[i].dist
  BY <1>4, SnapDecides
<1>6. \A A \in SUBSET dom : IsFiniteSet(A) /\ Cardinality(A) \in Nat
  BY <1>2, FS_Subset, FS_CardinalityType
<1>7. /\ \A key : key \in DOMAIN counts <=> \E i \in snapped : key \in CellsOf(records[i])
      /\ \A key \in DOMAIN counts :
           counts[key] = Cardinality({i \in snapped : key \in CellsOf(records[i])})
      /\ IsFiniteSet(DOMAIN counts)
      /\ \A key \in DOMAIN counts : counts[key] \in Nat /\ counts[key] >= 1
      /\ Summed(counts, DOMAIN counts) \in Cardinality(snapped) .. Cardinality(snapped) * SourceModes
  <2>1. snapped \in SUBSET dom
    OBVIOUS
  <2>2. IsFiniteSet(snapped)
    BY <1>6, <2>1
  <2>3. \A i \in snapped : IsFiniteSet(records[i].modes) /\ Cardinality(records[i].modes) <= SourceModes
    BY <1>4, <2>1
  <2> HIDE DEF snapped
  <2>4. QED
    BY <2>2, <2>3, CellsAre
<1>8. /\ Cardinality(inside) \in Nat /\ Cardinality(inside) <= Len(records)
      /\ Cardinality(inside) = Cardinality(snapped) + Cardinality(With("ambiguous")) + Cardinality(With("unsnapped"))
      /\ Cardinality(snapped) = Cardinality(snapped \ untimed) + Cardinality(untimed)
      /\ \A A \in {snapped, With("ambiguous"), With("unsnapped"), snapped \ untimed, untimed} :
           Cardinality(A) \in Nat
  <2> DEFINE a == With("ambiguous")
             u == With("unsnapped")
             t == snapped \ untimed
  <2>1. inside \in SUBSET dom /\ snapped \in SUBSET dom /\ a \in SUBSET dom /\ u \in SUBSET dom
        /\ untimed \in SUBSET snapped /\ untimed \in SUBSET dom /\ t \in SUBSET dom
    OBVIOUS
  <2>2. inside = (snapped \cup a) \cup u /\ snapped \cap a = {} /\ (snapped \cup a) \cap u = {}
    BY <1>5
  <2>3. snapped = t \cup untimed /\ t \cap untimed = {}
    BY <2>1
  <2> HIDE DEF inside, snapped, a, u, untimed, t, dom
  <2>4. ASSUME NEW A \in SUBSET dom, NEW B \in SUBSET dom, A \cap B = {}
        PROVE  Cardinality(A \cup B) = Cardinality(A) + Cardinality(B)
    BY <1>6, <2>4, CardinalitiesAdd
  <2>5. Cardinality(snapped \cup a) = Cardinality(snapped) + Cardinality(a)
    BY <2>1, <2>2, <2>4
  <2>6. Cardinality(inside) = Cardinality(snapped \cup a) + Cardinality(u)
    <3>1. snapped \cup a \in SUBSET dom
      BY <2>1
    <3>2. QED
      BY <2>1, <2>2, <2>4, <3>1
  <2>7. Cardinality(snapped) = Cardinality(t) + Cardinality(untimed)
    BY <2>1, <2>3, <2>4
  <2>8. Cardinality(inside) \in Nat /\ Cardinality(inside) <= Len(records)
    BY <1>2, <1>6, <2>1, FS_Subset
  <2>9. \A A \in {snapped, a, u, t, untimed} : Cardinality(A) \in Nat
    BY <1>6, <2>1
  <2>10. QED
    BY <2>5, <2>6, <2>7, <2>8, <2>9 DEF a, u, t
<1>9. /\ eligible \in SUBSET DOMAIN counts /\ IsFiniteSet(eligible) /\ IsFiniteSet(rest)
      /\ Cardinality(eligible) \in Nat /\ Cardinality(rest) \in Nat /\ Cardinality(DOMAIN counts) \in Nat
      /\ Cardinality(DOMAIN counts) = Cardinality(eligible) + Cardinality(rest)
  <2> DEFINE C == DOMAIN counts
  <2>1. eligible \in SUBSET C /\ rest \in SUBSET C /\ rest = C \ eligible
    OBVIOUS
  <2>2. IsFiniteSet(C)
    BY <1>7
  <2> HIDE DEF eligible, rest, C
  <2>3. IsFiniteSet(eligible) /\ IsFiniteSet(rest) /\ C \cap eligible = eligible
    BY <2>1, <2>2, FS_Subset
  <2>4. Cardinality(rest) = Cardinality(C) - Cardinality(eligible)
    BY <2>1, <2>2, <2>3, FS_Difference
  <2>5. Cardinality(eligible) \in Nat /\ Cardinality(rest) \in Nat /\ Cardinality(C) \in Nat
    BY <2>2, <2>3, FS_CardinalityType
  <2>6. QED
    BY <2>1, <2>3, <2>4, <2>5 DEF C
<1>10. /\ Summed(counts, DOMAIN counts) = Summed(counts, eligible) + Summed(counts, rest)
       /\ Summed(counts, eligible) = Summed(cells, DOMAIN cells) /\ DOMAIN cells = eligible
       /\ Summed(counts, rest) \in Cardinality(rest) .. Cardinality(rest) * (k - 1)
       /\ Summed(counts, DOMAIN counts) \in Nat /\ Summed(counts, DOMAIN counts) >= Cardinality(DOMAIN counts)
       /\ (Cardinality(DOMAIN counts) = 0 => Summed(counts, DOMAIN counts) = 0)
       /\ (Cardinality(snapped) = 0 => Summed(counts, DOMAIN counts) = 0)
  <2> DEFINE C == DOMAIN counts
             total == Summed(counts, C)
  <2>1. eligible \in SUBSET C /\ rest = C \ eligible /\ DOMAIN cells = eligible /\ IsFiniteSet(C)
    BY <1>7
  <2>2. \A key \in C : counts[key] \in Nat /\ counts[key] >= 1
    BY <1>7
  <2>3. \A key \in eligible : cells[key] = counts[key]
    OBVIOUS
  <2>4. \A key \in rest : counts[key] \in 1 .. (k - 1)
    <3> SUFFICES ASSUME NEW key \in rest PROVE counts[key] \in 1 .. (k - 1)
      OBVIOUS
    <3>1. counts[key] \in Nat /\ counts[key] >= 1 /\ ~(counts[key] >= k)
      BY <1>7
    <3> HIDE DEF k, counts
    <3>2. QED
      BY <1>3, <3>1
  <2>5. total \in Cardinality(snapped) .. Cardinality(snapped) * SourceModes
    BY <1>7
  <2> HIDE DEF C, eligible, rest, cells, counts, k, snapped
  <2>6. \A key \in C : counts[key] \in Nat
    BY <2>2
  <2>7. total = Summed(counts, eligible) + Summed(counts, rest)
    BY <2>1, <2>6, SumSplit
  <2>8. Summed(cells, eligible) = Summed(counts, eligible)
    <3>1. \A key \in eligible : counts[key] \in Nat /\ cells[key] = counts[key]
      BY <2>1, <2>3, <2>6
    <3>2. QED
      BY <1>9, <3>1, SumEqual
  <2>9. Summed(counts, rest) \in 1 * Cardinality(rest) .. (k - 1) * Cardinality(rest)
    <3>1. 1 \in Nat /\ k - 1 \in Nat
      BY <1>3
    <3>2. QED
      BY <1>9, <2>4, <3>1, SumBounds
  <2>10. total \in Nat
    BY <2>1, <2>6, SumPicks
  <2>11. total >= Cardinality(C) /\ (Cardinality(C) = 0 => total = 0)
    <3>1. total \in 1 * Cardinality(C) .. total * Cardinality(C)
      <4>1. \A key \in C : counts[key] \in 1 .. total
        <5> SUFFICES ASSUME NEW key \in C PROVE counts[key] \in 1 .. total
          OBVIOUS
        <5>1. total = counts[key] + Summed(counts, C \ {key})
          BY <2>1, <2>6, SumStep
        <5>2. Summed(counts, C \ {key}) \in Nat
          <6>1. IsFiniteSet(C \ {key}) /\ \A y \in C \ {key} : counts[y] \in Nat
            BY <2>1, <2>6, FS_Subset
          <6>2. QED
            BY <6>1, SumPicks
        <5> HIDE DEF total
        <5>3. QED
          BY <2>2, <5>1, <5>2
      <4> HIDE DEF total
      <4>2. Summed(counts, C) \in 1 * Cardinality(C) .. total * Cardinality(C)
        BY <2>1, <2>10, <4>1, SumBounds
      <4>3. QED
        BY <4>2 DEF total
    <3>2. Cardinality(C) \in Nat
      BY <2>1, FS_CardinalityType
    <3> DEFINE c == Cardinality(C)
    <3> HIDE DEF total, c
    <3>3. total \in 1 * c .. total * c /\ c \in Nat
      BY <3>1, <3>2 DEF c
    <3>4. total >= c /\ (c = 0 => total = 0)
      BY <2>10, <3>3
    <3>5. QED
      BY <3>4 DEF c
  <2>12. Cardinality(snapped) = 0 => total = 0
    BY <2>5, <2>10 DEF SourceModes
  <2>13. Summed(counts, rest) \in Cardinality(rest) .. Cardinality(rest) * (k - 1)
    <3> DEFINE c == Cardinality(rest)
    <3>1. c \in Nat
      BY <1>9
    <3> HIDE DEF c
    <3>2. 1 * c = c /\ (k - 1) * c = c * (k - 1)
      BY <1>3, <3>1
    <3>3. QED
      BY <2>9, <3>2 DEF c
  <2>14. QED
    BY <2>1, <2>7, <2>8, <2>10, <2>11, <2>12, <2>13 DEF C
<1>11. ValidContext(doc)
  <2>1. doc.accounting = acc /\ doc.cells = cells /\ doc.k = k
    OBVIOUS
  <2>2. /\ acc.received = Len(records) /\ acc.outside = Len(records) - Cardinality(inside)
        /\ acc.inside = Cardinality(inside) /\ acc.unique = Cardinality(snapped)
        /\ acc.ambiguous = Cardinality(With("ambiguous")) /\ acc.unsnapped = Cardinality(With("unsnapped"))
        /\ acc.timed = Cardinality(snapped \ untimed) /\ acc.untimed = Cardinality(untimed)
    OBVIOUS
  <2>3. /\ acc.positive = Cardinality(DOMAIN counts) /\ acc.eligible = Cardinality(eligible)
        /\ acc.suppressed = Cardinality(rest) /\ acc.total = Summed(counts, DOMAIN counts)
        /\ acc.shown = Summed(counts, eligible) /\ acc.hidden = Summed(counts, rest)
    OBVIOUS
  <2>4. \A key \in DOMAIN cells : cells[key] >= k
    OBVIOUS
  <2> DEFINE a == With("ambiguous")
             u == With("unsnapped")
             t == snapped \ untimed
             total == Summed(counts, DOMAIN counts)
             shown == Summed(counts, eligible)
             hidden == Summed(counts, rest)
             C == DOMAIN counts
  <2> HIDE DEF doc, acc, cells, k, inside, snapped, untimed, counts, eligible, rest, With, t, total, shown, hidden, C
  <2>6. /\ acc.received = acc.outside + acc.inside
        /\ acc.inside = acc.unique + acc.ambiguous + acc.unsnapped
        /\ acc.unique = acc.timed + acc.untimed
    <3>1. /\ Cardinality(snapped) \in Nat /\ Cardinality(With("ambiguous")) \in Nat
          /\ Cardinality(With("unsnapped")) \in Nat
      BY <1>8
    <3>2. Cardinality(snapped \ untimed) \in Nat /\ Cardinality(untimed) \in Nat
      BY <1>8
    <3>3. Len(records) \in Nat /\ Cardinality(inside) \in Nat
      BY <1>2, <1>8
    <3>4. acc.received = acc.outside + acc.inside
      BY <2>2, <3>3
    <3>5. acc.inside = acc.unique + acc.ambiguous + acc.unsnapped
      BY <1>8, <2>2
    <3>6. acc.unique = acc.timed + acc.untimed
      BY <1>8, <2>2
    <3>7. QED
      BY <3>4, <3>5, <3>6
  <2>7. /\ acc.positive = acc.eligible + acc.suppressed
        /\ acc.total = acc.shown + acc.hidden
        /\ acc.eligible = Cardinality(DOMAIN cells)
        /\ acc.shown = Summed(cells, DOMAIN cells)
        /\ acc.hidden \in acc.suppressed..(acc.suppressed * (k - 1))
    BY <1>9, <1>10, <2>3
  <2>8. (acc.positive = 0 /\ acc.total = 0) \/ acc.positive \in 1..acc.total
    BY <1>9, <1>10, <2>3
  <2>9. (acc.unique = 0 /\ acc.total = 0) \/ acc.total \in acc.unique..(acc.unique * SourceModes)
    BY <1>7, <1>8, <2>2, <2>3
  <2>10. QED
    BY <2>1, <2>4, <2>6, <2>7, <2>8, <2>9  DEF ValidContext
<1>12. CityContext(records, window, requested) = doc /\ doc # ContextRefused
  <2>1. DOMAIN doc # DOMAIN ContextRefused
    <3>1. "k" \in DOMAIN doc
      OBVIOUS
    <3> HIDE DEF doc
    <3>2. QED
      BY <3>1 DEF ContextRefused
  <2> HIDE DEF doc
  <2>2. QED
    BY <1>1, <1>11, <2>1
<1> DEFINE Streets == UNION {DOMAIN records[i].dist : i \in dom}
           Parts   == DOMAIN TimeBand \cup {"unknown_time"}
           Involved   == UNION {records[i].modes : i \in dom} \cup {"unknown_mode"}
           Crash(s, band, m) ==
             {i \in dom : /\ records[i].day \in window
                          /\ OnStreet(records[i], s)
                          /\ IF band = "unknown_time" THEN records[i].hour = NoHour
                             ELSE records[i].hour \in TimeBand[band]
                          /\ IF m = "unknown_mode"
                             THEN records[i].modes = {} \/ "unknown" \in records[i].modes
                             ELSE m \in records[i].modes}
<1>13. \A i \in dom : DOMAIN records[i].dist = Streets
  BY DEF ContextRequest
<1>14. ASSUME NEW s \in Streets, NEW band \in Parts, NEW m \in Involved \ {"unknown"}
       PROVE  {i \in snapped : <<s, band, m>> \in CellsOf(records[i])} = Crash(s, band, m)
  <2>1. ASSUME NEW i \in dom
        PROVE  i \in snapped /\ <<s, band, m>> \in CellsOf(records[i]) <=> i \in Crash(s, band, m)
    <3> DEFINE r == records[i]
    <3>1. OnStreet(r, s) <=> PointSnap(r).status = "snapped" /\ PointSnap(r).segment = s
      BY <1>5, <1>13
    <3>2. PartOfDay(r.hour) = band <=> IF band = "unknown_time" THEN r.hour = NoHour ELSE r.hour \in TimeBand[band]
      BY <1>4, PartsOfDay
    <3>3. m \in ContextModes(r.modes)
            <=> IF m = "unknown_mode" THEN r.modes = {} \/ "unknown" \in r.modes ELSE m \in r.modes
      <4>1. IsFiniteSet(r.modes) /\ Cardinality(r.modes) <= SourceModes /\ "unknown_mode" \notin r.modes
        BY <1>4
      <4> HIDE DEF r
      <4>2. QED
        BY <4>1, ModesCounted
    <3>4. <<s, band, m>> \in CellsOf(r)
            <=> PointSnap(r).segment = s /\ PartOfDay(r.hour) = band /\ m \in ContextModes(r.modes)
      BY DEF CellsOf
    <3>5. i \in snapped <=> r.day \in window /\ PointSnap(r).status = "snapped"
      OBVIOUS
    <3>6. i \in Crash(s, band, m) <=>
            /\ r.day \in window /\ OnStreet(r, s)
            /\ IF band = "unknown_time" THEN r.hour = NoHour ELSE r.hour \in TimeBand[band]
            /\ IF m = "unknown_mode" THEN r.modes = {} \/ "unknown" \in r.modes ELSE m \in r.modes
      OBVIOUS
    <3> HIDE DEF r, snapped, Crash
    <3>7. QED
      BY <3>1, <3>2, <3>3, <3>4, <3>5, <3>6 DEF r
  <2>2. snapped \subseteq dom /\ Crash(s, band, m) \subseteq dom
    OBVIOUS
  <2> HIDE DEF snapped, Crash, dom
  <2>3. QED
    BY <2>1, <2>2
<1>15. ASSUME NEW s \in Streets, NEW band \in Parts, NEW m \in Involved \ {"unknown"}
       PROVE  LET n == Cardinality(Crash(s, band, m)) IN
              IF n >= k THEN <<s, band, m>> \in DOMAIN cells /\ cells[<<s, band, m>>] = n
              ELSE <<s, band, m>> \notin DOMAIN cells
  <2> HIDE DEF snapped, counts, Crash
  <2> DEFINE key == <<s, band, m>>
             A == Crash(s, band, m)
             n == Cardinality(A)
  <2>1. {i \in snapped : key \in CellsOf(records[i])} = A
    BY <1>14
  <2>2. key \in DOMAIN counts <=> A # {}
    BY <1>7, <2>1
  <2>3. key \in DOMAIN counts => counts[key] = n
    BY <1>7, <2>1
  <2>4. n \in Nat /\ (n >= 1 => A # {})
    <3>1. A \in SUBSET dom
      BY DEF Crash
    <3> HIDE DEF A
    <3>2. IsFiniteSet(A) /\ Cardinality(A) \in Nat
      BY <1>6, <3>1
    <3>3. A = {} => Cardinality(A) = 0
      BY FS_EmptySet
    <3>4. QED
      BY <3>2, <3>3
  <2>5. DOMAIN cells = eligible /\ (key \in eligible => cells[key] = counts[key])
    OBVIOUS
  <2>6. key \in eligible <=> key \in DOMAIN counts /\ counts[key] >= k
    OBVIOUS
  <2> HIDE DEF key, A, n, cells, eligible, counts, k
  <2>7. IF n >= k THEN key \in DOMAIN cells /\ cells[key] = n ELSE key \notin DOMAIN cells
    <3>1. CASE n >= k
      BY <1>3, <2>2, <2>3, <2>4, <2>5, <2>6, <3>1
    <3>2. CASE ~(n >= k)
      BY <1>3, <2>2, <2>3, <2>4, <2>5, <2>6, <3>2
    <3>3. QED
      BY <3>1, <3>2
  <2>8. QED
    BY <2>7 DEF key, A, n
<1>16. snapped = {i \in dom : records[i].day \in window /\ \E s \in Streets : OnStreet(records[i], s)}
  <2>1. ASSUME NEW i \in dom
        PROVE  PointSnap(records[i]).status = "snapped" <=> \E s \in Streets : OnStreet(records[i], s)
    BY <1>5, <1>13
  <2>2. QED
    BY <2>1
<1>17. doc.cells = cells /\ doc.accounting.unique = Cardinality(snapped)
  OBVIOUS
<1> HIDE DEF doc, acc, cells, snapped
<1>18. ContextAccounts(records, window, requested, doc)
  BY <1>12, <1>15, <1>16, <1>17 DEF ContextAccounts
<1>19. QED
  BY <1>12, <1>18

-----------------------------------------------------------------------------
(* A city context, once it is computed, is that of its task.               *)

ContextInv ==
    part = "context" =>
      /\ task \in ContextTasks
      /\ outcome \in {Pending, CityContext(task.records, task.window, task.requested)}

LEMMA ContextInit == Init => ContextInv
BY DEF Init, Start, ContextInv

LEMMA ContextStep == ContextInv /\ [Next]_algorithmVars => ContextInv'
<1> SUFFICES ASSUME ContextInv, [Next]_algorithmVars, part' = "context"
             PROVE  /\ task' \in ContextTasks
                    /\ outcome' \in {Pending, CityContext(task'.records, task'.window, task'.requested)}
  BY DEF ContextInv
<1>1. part = "context" /\ task' = task
  BY DEF Next, JoinFiles, BuildDocuments, BuildContext, RunReports, FindClusters,
     AuditDataset, AssessCity, Compute, algorithmVars, taskVars
<1>2. /\ task \in ContextTasks
      /\ outcome \in {Pending, CityContext(task.records, task.window, task.requested)}
  BY <1>1 DEF ContextInv
<1>3. \/ outcome' = outcome
      \/ outcome' = CityContext(task.records, task.window, task.requested)
  BY <1>1 DEF Next, JoinFiles, BuildDocuments, BuildContext, RunReports, FindClusters,
     AuditDataset, AssessCity, Compute, algorithmVars, taskVars
<1>4. QED
  BY <1>1, <1>2, <1>3

\* Records that passed their own checks are never refused, a cell counts the crashes that the whole
\* network puts on its street, and every record is accounted for (ContextAccounts, fars_context.py).
THEOREM ContextsAreAccounted == Spec => []ContextIsAccounted
<1>1. ContextInv => ContextIsAccounted
  <2> SUFFICES ASSUME ContextInv, part = "context", outcome # Pending
               PROVE  ContextAccounts(task.records, task.window, task.requested, outcome)
    BY DEF ContextIsAccounted, Computed
  <2>1. /\ task \in ContextTasks
        /\ outcome = CityContext(task.records, task.window, task.requested)
    BY DEF ContextInv
  <2>2. ContextRequest(task.records, task.requested)
    BY <2>1, ContextTaskAssumption
  <2>3. QED
    BY <2>1, <2>2, ContextHolds
<1>2. QED
  BY <1>1, ContextInit, ContextStep, PTL DEF Spec

-----------------------------------------------------------------------------
(* The files of a dataset and their audit: what publishing writes, what    *)
(* each rule says of it, and what two vintages differ in.                  *)

\* A corridor counts the sum of its members.
LEMMA CorridorCountIs == \A stats, C : CorridorCount(stats, C) = Summed(stats.count, C)
BY DEF CorridorCount, Summed

\* Counts that are nought or reach the floor sum to such a count.
LEMMA FloorsAdd ==
    ASSUME NEW S, IsFiniteSet(S), NEW f, NEW floor \in Nat,
           \A x \in S : f[x] \in Nat /\ f[x] \notin 1 .. (floor - 1)
    PROVE  Summed(f, S) \in Nat /\ Summed(f, S) \notin 1 .. (floor - 1)
<1>0. Summed(f, S) \in Nat
  BY SumPicks
<1>1. CASE \A x \in S : f[x] = 0
  <2>1. \A x \in S : f[x] \in 0 .. 0
    BY <1>1
  <2>2. Summed(f, S) \in 0 * Cardinality(S) .. 0 * Cardinality(S) /\ Cardinality(S) \in Nat
    BY <2>1, SumBounds, FS_CardinalityType
  <2>3. Summed(f, S) = 0
    BY <2>2
  <2>4. QED
    BY <2>3
<1>2. ASSUME NEW x \in S, f[x] # 0
      PROVE  Summed(f, S) \notin 1 .. (floor - 1)
  <2>1. Summed(f, S) = f[x] + Summed(f, S \ {x})
    BY SumStep
  <2>2. Summed(f, S \ {x}) \in Nat
    <3>1. IsFiniteSet(S \ {x}) /\ \A y \in S \ {x} : f[y] \in Nat
      BY FS_Subset
    <3>2. QED
      BY <3>1, SumPicks
  <2>3. f[x] \in Nat /\ f[x] >= floor
    BY <1>2
  <2> DEFINE a == f[x]
             b == Summed(f, S \ {x})
  <2> HIDE DEF a, b
  <2>4. a + b \notin 1 .. (floor - 1)
    BY <2>2, <2>3 DEF a, b
  <2>5. QED
    BY <2>1, <2>4 DEF a, b
<1>3. QED
  BY <1>0, <1>1, <1>2

\* The segments that are published.
Kept(input) == Publishable(ClusterStats(input))

\* What is kept after the floor: the segments whose count is not below it.
LEMMA KeptIs ==
    ASSUME NEW input, PublishInput(input)
    PROVE  /\ Kept(input) \in SUBSET DOMAIN input.count /\ IsFiniteSet(Kept(input))
           /\ \A s \in DOMAIN input.count :
                s \in Kept(input) <=> input.count[s] \notin 1 .. (input.floor - 1)
           /\ \A s \in Kept(input) : input.count[s] \in Nat /\ input.primary[s] \in 0 .. input.count[s]
<1>1. Kept(input) = {s \in DOMAIN input.count : input.count[s] \notin 1 .. (input.floor - 1)}
  BY DEF Kept, Publishable, ClusterStats
<1>2. Kept(input) \in SUBSET DOMAIN input.count
  BY <1>1
<1>3. IsFiniteSet(Kept(input))
  BY <1>2, FS_Subset DEF PublishInput
<1>4. QED
  BY <1>1, <1>2, <1>3 DEF PublishInput

\* The members of a corridor are kept, and its count is not below the floor either.
LEMMA CorridorsKept ==
    ASSUME NEW input, PublishInput(input),
           NEW c \in Corridors(input.network, ClusterStats(input))
    PROVE  c.count \in Nat /\ c.count \notin 1 .. (input.floor - 1)
<1> DEFINE network   == input.network
           stats     == ClusterStats(input)
           eligible  == Significant(stats) \cap Publishable(stats) \cap DOMAIN network
           Street(s) == {t \in eligible : network[t].street = network[s].street}
           merged    == {C \in {Component(network, Street(s), s) : s \in eligible} : Cardinality(C) >= 2}
<1>1. Corridors(network, stats) =
        {[members |-> C, chains |-> Chains(network, C), count |-> CorridorCount(stats, C)] : C \in merged}
  BY Zenon DEF Corridors
<1>2. PICK C \in merged :
        c = [members |-> C, chains |-> Chains(network, C), count |-> CorridorCount(stats, C)]
  <2> HIDE DEF merged
  <2>1. QED
    BY <1>1
<1>3. C \in SUBSET Kept(input)
  <2>1. PICK s \in eligible : C = Component(network, Street(s), s)
    BY <1>2
  <2>2. C \in SUBSET Street(s)
    BY <2>1 DEF Component
  <2>3. Street(s) \in SUBSET eligible
    OBVIOUS
  <2>4. QED
    BY <2>2, <2>3 DEF Kept
<1>4. stats.count = input.count
  BY DEF ClusterStats
<1>5. c.count = Summed(input.count, C)
  BY <1>2, <1>4, CorridorCountIs
<1>6. IsFiniteSet(C) /\ \A s \in C : input.count[s] \in Nat /\ input.count[s] \notin 1 .. (input.floor - 1)
  BY <1>3, KeptIs, FS_Subset
<1>7. input.floor \in Nat
  BY DEF PublishInput
<1>8. QED
  BY <1>5, <1>6, <1>7, FloorsAdd

\* What the dataset gives of a segment.
LEMMA FeatureIs ==
    ASSUME NEW input, PublishInput(input), NEW s \in Kept(input)
    PROVE  LET f == Feature(input, s) IN
           /\ f.id = s /\ f.n = input.count[s] /\ f.geometry = "LineString"
           /\ f.hot <=> s \in Significant(ClusterStats(input))
           /\ f.rate = IF s \in input.rated THEN {input.primary[s]} ELSE {}
           /\ f.label = ConfidenceLabel(input, s)
<1>1. {input.primary[t] : t \in input.rated \cap {s}} = IF s \in input.rated THEN {input.primary[s]} ELSE {}
  OBVIOUS
<1>2. QED
  BY <1>1 DEF Feature

\* A dataset has one feature of every segment that is kept.
LEMMA FeaturesAre ==
    ASSUME NEW input, PublishInput(input)
    PROVE  /\ Features(input) = {Feature(input, s) : s \in Kept(input)}
           /\ IsFiniteSet(Features(input))
<1> DEFINE F == [s \in Kept(input) |-> Feature(input, s)]
<1>1. Features(input) = {Feature(input, s) : s \in Kept(input)}
  BY DEF Features, Kept
<1>2. {F[s] : s \in Kept(input)} = {Feature(input, s) : s \in Kept(input)}
  OBVIOUS
<1>3. IsFiniteSet(Kept(input))
  BY KeptIs
<1> HIDE DEF F
<1>4. IsFiniteSet({F[s] : s \in Kept(input)})
  BY <1>3, ImageFinite
<1>5. QED
  BY <1>1, <1>2, <1>4

\* What publishing writes: it never refuses what it has built.
LEMMA PublishedIs ==
    ASSUME NEW input, PublishInput(input)
    PROVE  LET files == PublishedFiles(input) IN
           /\ files # NotPublished
           /\ files.dataset.features = Features(input) /\ files.view.features = CorridorFeatures(input)
           /\ files.view.primary = "dataset"
           /\ files.sidecar.pins = files.dataset /\ files.sidecar.floor = input.floor
           /\ files.sidecar.small = input.small /\ files.sidecar.corridors = "view"
<1> DEFINE dataset == [features |-> Features(input),
                       withheld |-> Cardinality(DOMAIN input.count) - Cardinality(Features(input))]
           view == [features |-> CorridorFeatures(input), primary |-> "dataset"]
           made == [dataset |-> dataset, view |-> view,
                    sidecar |-> [pins |-> dataset, floor |-> input.floor, small |-> input.small,
                                 corridors |-> "view"]]
<1>1. PublishedFiles(input) =
        IF ~PublishedClean(dataset.features, input.floor) \/ ~PublishedClean(view.features, input.floor)
        THEN NotPublished ELSE made
  BY Zenon DEF PublishedFiles
<1>2. PublishedClean(dataset.features, input.floor)
  <2>1. \A f \in Features(input) : \E s \in Kept(input) : f.n = input.count[s]
    <3>1. \A s \in Kept(input) : Feature(input, s).n = input.count[s]
      BY FeatureIs
    <3>2. Features(input) = {Feature(input, s) : s \in Kept(input)}
      BY FeaturesAre
    <3>3. QED
      BY <3>1, <3>2, Zenon
  <2>2. \A s \in Kept(input) : input.count[s] \notin 1 .. (input.floor - 1)
    BY KeptIs
  <2>3. \A f \in Features(input) : f.n \notin 1 .. (input.floor - 1)
    BY <2>1, <2>2
  <2>4. dataset.features = Features(input)
    OBVIOUS
  <2> HIDE DEF dataset
  <2>5. QED
    BY <2>3, <2>4 DEF PublishedClean
<1>3. PublishedClean(view.features, input.floor)
  <2>1. \A f \in CorridorFeatures(input) :
          \E c \in Corridors(input.network, ClusterStats(input)) : f.n = c.count
    BY DEF CorridorFeatures
  <2>2. QED
    BY <2>1, CorridorsKept DEF PublishedClean
<1>4. PublishedFiles(input) = made
  BY <1>1, <1>2, <1>3
<1>5. made # NotPublished
  <2>1. DOMAIN made # DOMAIN NotPublished
    <3>1. "view" \in DOMAIN made
      OBVIOUS
    <3> HIDE DEF made
    <3>2. QED
      BY <3>1 DEF NotPublished
  <2> HIDE DEF made
  <2>2. QED
    BY <2>1
<1>6. QED
  BY <1>4, <1>5

-----------------------------------------------------------------------------
(* The rules of the audit.                                                 *)

\* A rule fails when something breaks it, and passes when it judged something and nothing did.
LEMMA RuleIs ==
    ASSUME NEW broken \in BOOLEAN, NEW n
    PROVE  /\ Rule(broken, n) = "fail" <=> broken
           /\ Rule(broken, n) = "pass" => n # 0
BY DEF Rule

\* Counts are numbers in both views (HR1).
LEMMA NumbersHold ==
    ASSUME NEW features
    PROVE  CheckHR1(features) # "fail" <=> \A f \in features : f.n \in Nat
<1>1. (\E f \in features : f.n \notin Nat) \in BOOLEAN
  OBVIOUS
<1>2. QED
  BY <1>1, RuleIs DEF CheckHR1

\* The features of a run keep the rule on small samples (HR2) under its own small_n.
LEMMA SamplesHold ==
    ASSUME NEW features, NEW small,
           \A f \in features : f.rate # {} =>
             /\ f.n \in Nat /\ (f.n = 0 => f.rate = {0})
             /\ f.n \in 1 .. (small - 1) => f.label \in {"uncertain", "exposure_unknown"}
    PROVE  CheckHR2(features, small) # "fail"
<1> DEFINE Broken ==
      \E f \in Rated(features) :
         \/ f.rate # {0} /\ f.n < 1
         \/ f.n \in 1..(small - 1) /\ "low_sample" \notin f.flags
              /\ f.label \notin {"uncertain", "exposure_unknown"}
<1>1. ~Broken
  BY DEF Rated
<1>2. CheckHR2(features, small) = Rule(Broken, Cardinality(Rated(features)))
  BY Zenon DEF CheckHR2
<1>3. Broken \in BOOLEAN
  OBVIOUS
<1> HIDE DEF Broken
<1>4. QED
  BY <1>1, <1>2, <1>3, RuleIs

\* Where the rule on small samples (HR2) passed, there was a rate to judge.
LEMMA SamplesJudged ==
    ASSUME NEW features, NEW small, CheckHR2(features, small) = "pass"
    PROVE  Rated(features) # {}
<1> DEFINE Broken ==
      \E f \in Rated(features) :
         \/ f.rate # {0} /\ f.n < 1
         \/ f.n \in 1..(small - 1) /\ "low_sample" \notin f.flags
              /\ f.label \notin {"uncertain", "exposure_unknown"}
<1>1. CheckHR2(features, small) = Rule(Broken, Cardinality(Rated(features)))
  BY Zenon DEF CheckHR2
<1>2. Broken \in BOOLEAN
  OBVIOUS
<1> HIDE DEF Broken
<1>3. Cardinality(Rated(features)) # 0
  BY <1>1, <1>2, RuleIs
<1>4. QED
  BY <1>3, FS_EmptySet

\* The rule on the floor (HR4) passes just when no count is below it.
LEMMA FloorHolds ==
    ASSUME NEW features, NEW floor,
           \A f \in features : f.geometry \in {"LineString", "MultiLineString"}
    PROVE  CheckHR4(features, floor) # "fail" <=> PublishedClean(features, floor)
<1> DEFINE Broken ==
      \E f \in features : \/ f.n \in 1..(floor - 1)
                          \/ f.geometry \notin {"LineString", "MultiLineString"}
<1>1. CheckHR4(features, floor) = Rule(Broken, Cardinality(features))
  BY Zenon DEF CheckHR4
<1>2. Broken \in BOOLEAN /\ (~Broken <=> PublishedClean(features, floor))
  BY DEF PublishedClean
<1> HIDE DEF Broken
<1>3. QED
  BY <1>1, <1>2, RuleIs

\* What the rules say of the two views of one run.
LEMMA OwnViews ==
    ASSUME NEW input, PublishInput(input)
    PROVE  /\ CheckHR1(Features(input)) # "fail" /\ CheckHR1(CorridorFeatures(input)) # "fail"
           /\ CheckHR2(Features(input), input.small) # "fail"
           /\ CheckHR2(CorridorFeatures(input), input.small) # "fail"
           /\ \A floor : CheckHR4(Features(input), floor) # "fail" <=> PublishedClean(Features(input), floor)
           /\ PublishedClean(Features(input), input.floor)
           /\ CheckHR4(CorridorFeatures(input), input.floor) # "fail"
           /\ \A f \in Features(input) : f.n \in Nat /\ (f.label = "certain" => f.n >= input.small)
           /\ \A f \in Features(input) : f.id \in Kept(input) /\ f.n = input.count[f.id]
<1>1. ASSUME NEW f \in Features(input)
      PROVE  /\ f.id \in Kept(input) /\ f.n = input.count[f.id]
             /\ f.n \in Nat /\ f.n \notin 1 .. (input.floor - 1) /\ f.geometry = "LineString"
             /\ f.rate # {} => /\ f.n = 0 => f.rate = {0}
                               /\ f.n \in 1 .. (input.small - 1) => f.label = "uncertain"
             /\ f.label = "certain" => f.n >= input.small
  <2>1. PICK s \in Kept(input) : f = Feature(input, s)
    <3>1. Features(input) = {Feature(input, s) : s \in Kept(input)}
      BY FeaturesAre
    <3>2. QED
      BY <3>1, Zenon
  <2>2. /\ f.id = s /\ f.n = input.count[s] /\ f.geometry = "LineString"
        /\ f.rate = IF s \in input.rated THEN {input.primary[s]} ELSE {}
        /\ f.label = ConfidenceLabel(input, s)
    BY <2>1, FeatureIs
  <2>3. /\ input.count[s] \in Nat /\ input.primary[s] \in 0 .. input.count[s]
        /\ input.count[s] \notin 1 .. (input.floor - 1) /\ input.small \in Nat
    BY KeptIs DEF PublishInput
  <2>4. f.label = "certain" => f.n >= input.small
    BY <2>2, <2>3 DEF ConfidenceLabel
  <2>5. ASSUME f.rate # {}
        PROVE  /\ f.n = 0 => f.rate = {0}
               /\ f.n \in 1 .. (input.small - 1) => f.label = "uncertain"
    <3>1. s \in input.rated
      BY <2>2, <2>5
    <3>2. QED
      BY <2>2, <2>3, <3>1 DEF ConfidenceLabel
  <2>6. QED
    BY <2>2, <2>3, <2>4, <2>5
<1>2. ASSUME NEW f \in CorridorFeatures(input)
      PROVE  /\ f.n \in Nat /\ f.n \notin 1 .. (input.floor - 1) /\ f.geometry = "MultiLineString"
             /\ f.rate = {f.n} /\ (f.n \in 1 .. (input.small - 1) => f.label = "uncertain")
  <2>1. PICK c \in Corridors(input.network, ClusterStats(input)) :
          /\ f.n = c.count /\ f.geometry = "MultiLineString" /\ f.rate = {c.count}
          /\ f.label = IF c.count >= input.small THEN "certain" ELSE "uncertain"
    BY DEF CorridorFeatures
  <2>2. c.count \in Nat /\ c.count \notin 1 .. (input.floor - 1) /\ input.small \in Nat
    BY CorridorsKept DEF PublishInput
  <2>3. QED
    BY <2>1, <2>2
<1>3. CheckHR1(Features(input)) # "fail" /\ CheckHR1(CorridorFeatures(input)) # "fail"
  BY <1>1, <1>2, NumbersHold
<1>4. CheckHR2(Features(input), input.small) # "fail"
  BY <1>1, SamplesHold
<1>5. CheckHR2(CorridorFeatures(input), input.small) # "fail"
  BY <1>2, SamplesHold
<1>6. \A floor : CheckHR4(Features(input), floor) # "fail" <=> PublishedClean(Features(input), floor)
  BY <1>1, FloorHolds
<1>7. PublishedClean(Features(input), input.floor) /\ PublishedClean(CorridorFeatures(input), input.floor)
  BY <1>1, <1>2 DEF PublishedClean
<1>8. CheckHR4(CorridorFeatures(input), input.floor) # "fail"
  BY <1>2, <1>7, FloorHolds
<1>9. QED
  BY <1>1, <1>3, <1>4, <1>5, <1>6, <1>7, <1>8

\* The audit of a dataset passes when its four rules do.
LEMMA ArtifactPasses ==
    ASSUME NEW files, NEW flag
    PROVE  Passes(VerifyArtifact(files, flag)) <=>
             /\ CheckHR1(files.dataset.features) # "fail"
             /\ CheckHR2(files.dataset.features, Small(files)) # "fail"
             /\ CheckHR4(files.dataset.features, Floor(files, flag)) # "fail"
             /\ files.sidecar.pins = files.dataset
BY DEF Passes, VerifyArtifact, CheckHR5

\* The audit of a corridor view passes when its rules and its binding do.
LEMMA CorridorPasses ==
    ASSUME NEW files, NEW flag
    PROVE  Passes(VerifyCorridor(files, flag)) <=>
             /\ CheckHR1(files.view.features) # "fail"
             /\ CheckHR2(files.view.features, Small(files)) # "fail"
             /\ CheckHR4(files.view.features, Floor(files, flag)) # "fail"
             /\ CorridorBinding(files, flag) # "fail"
BY DEF Passes, VerifyCorridor

-----------------------------------------------------------------------------
(* The change report.                                                      *)

\* The cause of a change, by what the two vintages have of the segment.
LEMMA ClassifiedIs ==
    ASSUME NEW old, NEW new, NEW before, NEW after
    PROVE  LET c == Classified(old, new, before, after)
               counts(fs) == {f.n : f \in fs}
               unrated(fs) == {f.rate = {} : f \in fs}
           IN /\ c = "suppression" <=> before # {} /\ after = {}
              /\ c = "new_reports" => before # {} /\ after # {} /\ counts(before) # counts(after)
              /\ c = "revised_exposure" =>
                   /\ before # {} /\ after # {} /\ counts(before) = counts(after)
                   /\ unrated(before) # unrated(after)
              /\ c = "recomputation" =>
                   before = {} \/ (before # {} /\ after # {} /\ counts(before) = counts(after))
              /\ c = "threshold_change" =>
                   Differs(old, new, "floor", TRUE) \/ Differs(old, new, "small", FALSE)
BY DEF Classified

\* A change of a threshold is known from the sidecars only.
LEMMA DiffersIs ==
    ASSUME NEW old, PublishInput(old), NEW new, PublishInput(new), NEW sidecars \in BOOLEAN,
           NEW key \in {"floor", "small"}, NEW smaller \in BOOLEAN,
           Differs(Vintage(PublishedFiles(old), sidecars), Vintage(PublishedFiles(new), sidecars), key, smaller)
    PROVE  sidecars /\ <<old.small, old.floor>> # <<new.small, new.floor>>
<1>1. ASSUME NEW i, PublishInput(i)
      PROVE  Vintage(PublishedFiles(i), sidecars).methods
               = IF sidecars THEN {[small |-> i.small, floor |-> i.floor]} ELSE {}
  BY <1>1, PublishedIs DEF Vintage
<1>2. PICK a \in Vintage(PublishedFiles(old), sidecars).methods,
           b \in Vintage(PublishedFiles(new), sidecars).methods : a[key] # b[key]
  BY DEF Differs
<1>3. sidecars
  BY <1>1, <1>2
<1>4. a = [small |-> old.small, floor |-> old.floor] /\ b = [small |-> new.small, floor |-> new.floor]
  BY <1>1, <1>2, <1>3
<1>5. QED
  BY <1>2, <1>3, <1>4

\* The hotspots that are shown.
Shown(i) == Significant(ClusterStats(i)) \cap Kept(i)

\* What a vintage has of a segment.
LEMMA FoundAt ==
    ASSUME NEW i, PublishInput(i), NEW sidecars \in BOOLEAN, NEW s
    PROVE  LET v  == Vintage(PublishedFiles(i), sidecars)
               at == {f \in v.segments : f.id = s}
           IN /\ at = IF s \in Kept(i) THEN {Feature(i, s)} ELSE {}
              /\ (\E f \in at : f.hot) <=> s \in Shown(i)
<1> DEFINE v  == Vintage(PublishedFiles(i), sidecars)
           at == {f \in v.segments : f.id = s}
<1>1. v.segments = {Feature(i, t) : t \in Kept(i)}
  BY PublishedIs, FeaturesAre DEF Vintage
<1>2. \A t \in Kept(i) : Feature(i, t).id = t
  BY FeatureIs
<1>3. at = IF s \in Kept(i) THEN {Feature(i, s)} ELSE {}
  <2> HIDE DEF v
  <2>1. \A f : f \in at <=> s \in Kept(i) /\ f = Feature(i, s)
    BY <1>1, <1>2
  <2> HIDE DEF at
  <2>2. QED
    BY <2>1
<1>4. s \in Kept(i) => (Feature(i, s).hot <=> s \in Significant(ClusterStats(i)))
  BY FeatureIs
<1> HIDE DEF at, v
<1>5. (\E f \in at : f.hot) <=> s \in Shown(i)
  <2>1. CASE s \in Kept(i)
    <3>1. (\E f \in at : f.hot) <=> Feature(i, s).hot
      BY <1>3, <2>1, Zenon
    <3>2. QED
      BY <1>4, <2>1, <3>1 DEF Shown
  <2>2. CASE s \notin Kept(i)
    BY <1>3, <2>2 DEF Shown
  <2>3. QED
    BY <2>1, <2>2
<1>6. QED
  BY <1>3, <1>5 DEF at, v

\* The change report of two runs tells the truth (ReportTruthful, tools/diff_datasets.py).
LEMMA ReportHolds ==
    ASSUME NEW old, PublishInput(old), NEW new, PublishInput(new), DOMAIN old.count = DOMAIN new.count,
           NEW sidecars \in BOOLEAN
    PROVE  ReportTruthful(old, new, sidecars,
             BuildReport(Vintage(PublishedFiles(old), sidecars), Vintage(PublishedFiles(new), sidecars)))
<1> DEFINE vo == Vintage(PublishedFiles(old), sidecars)
           vn == Vintage(PublishedFiles(new), sidecars)
           ids       == {f.id : f \in vo.segments \cup vn.segments}
           At(v, s)  == {f \in v.segments : f.id = s}
           Hot(v, s) == \E f \in At(v, s) : f.hot
           T    == {t \in ids : Hot(vo, t) # Hot(vn, t)}
           D(s) == [id |-> s, cause |-> Classified(vo, vn, At(vo, s), At(vn, s)),
                    change |-> CASE Hot(vn, s) -> "appeared" [] At(vn, s) = {} -> "withdrawn"
                                 [] OTHER -> "disappeared"]
           report == BuildReport(vo, vn)
<1>1. report = [persisted |-> {s \in ids : Hot(vo, s) /\ Hot(vn, s)}, changes |-> {D(s) : s \in T}]
  BY Zenon DEF BuildReport
<1>2. ids = Kept(old) \cup Kept(new)
  <2>1. ASSUME NEW i, PublishInput(i)
        PROVE  LET v == Vintage(PublishedFiles(i), sidecars) IN
               /\ v.segments = {Feature(i, t) : t \in Kept(i)}
               /\ \A t \in Kept(i) : Feature(i, t).id = t
    <3>1. Vintage(PublishedFiles(i), sidecars).segments = {Feature(i, t) : t \in Kept(i)}
      BY <2>1, PublishedIs, FeaturesAre DEF Vintage
    <3>2. \A t \in Kept(i) : Feature(i, t).id = t
      BY <2>1, FeatureIs
    <3>3. QED
      BY <3>1, <3>2
  <2>2. /\ vo.segments = {Feature(old, t) : t \in Kept(old)} /\ vn.segments = {Feature(new, t) : t \in Kept(new)}
        /\ \A t \in Kept(old) : Feature(old, t).id = t
        /\ \A t \in Kept(new) : Feature(new, t).id = t
    BY <2>1
  <2> HIDE DEF vo, vn
  <2>3. QED
    BY <2>2
<1>3. \A s : /\ At(vo, s) = IF s \in Kept(old) THEN {Feature(old, s)} ELSE {}
             /\ At(vn, s) = IF s \in Kept(new) THEN {Feature(new, s)} ELSE {}
             /\ Hot(vo, s) <=> s \in Shown(old)
             /\ Hot(vn, s) <=> s \in Shown(new)
  BY FoundAt
<1> HIDE DEF vo, vn, At, Hot, ids
<1>4. /\ {s \in ids : Hot(vo, s) /\ Hot(vn, s)} = Shown(old) \cap Shown(new)
      /\ T = (Shown(old) \ Shown(new)) \cup (Shown(new) \ Shown(old))
  <2>1. Shown(old) \subseteq ids /\ Shown(new) \subseteq ids
    BY <1>2 DEF Shown
  <2>2. \A s : Hot(vo, s) \in BOOLEAN /\ Hot(vn, s) \in BOOLEAN
    BY DEF Hot
  <2>3. QED
    BY <1>3, <2>1, <2>2
<1>5. ASSUME NEW s
      PROVE  /\ D(s).id = s
             /\ D(s).cause = Classified(vo, vn, At(vo, s), At(vn, s))
             /\ D(s).change = IF s \in Shown(new) THEN "appeared"
                              ELSE IF s \notin Kept(new) THEN "withdrawn" ELSE "disappeared"
  <2>1. At(vn, s) = {} <=> s \notin Kept(new)
    BY <1>3
  <2>2. Hot(vn, s) <=> s \in Shown(new)
    BY <1>3
  <2>3. s \in Shown(new) => s \in Kept(new)
    BY DEF Shown
  <2>4. QED
    BY <2>1, <2>2, <2>3
<1> DEFINE changed(c) == {d.id : d \in {e \in report.changes : e.change = c}}
           by(c)      == {d.id : d \in {e \in report.changes : e.cause = c}}
           cause(s)   == Classified(vo, vn, At(vo, s), At(vn, s))
           change(s)  == IF s \in Shown(new) THEN "appeared"
                         ELSE IF s \notin Kept(new) THEN "withdrawn" ELSE "disappeared"
<1> HIDE DEF T, D
<1>6. report.changes = {D(s) : s \in T} /\ report.persisted = Shown(old) \cap Shown(new)
  BY <1>1, <1>4
<1> HIDE DEF report
<1>7. \A c : changed(c) = {s \in T : change(s) = c}
  BY <1>5, <1>6
<1>8. \A c : by(c) = {s \in T : cause(s) = c}
  BY <1>5, <1>6
<1>9. /\ Shown(old) \subseteq Kept(old) /\ Shown(new) \subseteq Kept(new)
      /\ T \subseteq Kept(old) \cup Kept(new)
  BY <1>4 DEF Shown
<1>10. \A i \in {old, new} : \A s \in Kept(old) \cup Kept(new) :
         s \notin Kept(i) => i.count[s] \in 1 .. (i.floor - 1)
  BY KeptIs
<1>11. Cardinality(report.changes) = Cardinality({d.id : d \in report.changes})
  <2> DEFINE f == [s \in T |-> D(s)]
             g == [d \in report.changes |-> d.id]
             C == report.changes
             I == {d.id : d \in C}
  <2>1. IsFiniteSet(T)
    <3>1. IsFiniteSet(Kept(old) \cup Kept(new))
      BY KeptIs, FS_Union
    <3>2. QED
      BY <1>9, <3>1, FS_Subset
  <2>2. C = {f[s] : s \in T} /\ I = {g[d] : d \in C} /\ I = T
    <3>1. C = {f[s] : s \in T}
      BY <1>6
    <3>2. I = {g[d] : d \in C}
      OBVIOUS
    <3>3. I = T
      BY <1>5, <1>6
    <3>4. QED
      BY <3>1, <3>2, <3>3
  <2> HIDE DEF f, g, I, C
  <2>3. IsFiniteSet(C) /\ Cardinality(C) <= Cardinality(T)
    BY <2>1, <2>2, ImageFinite
  <2>4. Cardinality(I) <= Cardinality(C)
    BY <2>2, <2>3, ImageFinite
  <2>5. Cardinality(C) \in Nat /\ Cardinality(T) \in Nat
    BY <2>1, <2>3, FS_CardinalityType
  <2>6. Cardinality(C) = Cardinality(I)
    BY <2>2, <2>3, <2>4, <2>5
  <2>7. QED
    BY <2>6 DEF C, I
<1> DEFINE counts(fs) == {f.n : f \in fs}
           unrated(fs) == {f.rate = {} : f \in fs}
<1>12. ASSUME NEW s \in T
       PROVE  /\ cause(s) = "suppression" <=> s \in Kept(old) /\ s \notin Kept(new)
              /\ cause(s) = "new_reports" => old.count[s] # new.count[s]
              /\ cause(s) = "revised_exposure" =>
                   old.count[s] = new.count[s] /\ (s \in old.rated) # (s \in new.rated)
              /\ cause(s) = "recomputation" => s \notin Kept(old) \/ old.count[s] = new.count[s]
              /\ cause(s) = "threshold_change" =>
                   sidecars /\ <<old.small, old.floor>> # <<new.small, new.floor>>
  <2> DEFINE before == At(vo, s)
             after  == At(vn, s)
  <2>1. /\ before = IF s \in Kept(old) THEN {Feature(old, s)} ELSE {}
        /\ after = IF s \in Kept(new) THEN {Feature(new, s)} ELSE {}
    BY <1>3
  <2>2. /\ s \in Kept(old) => Feature(old, s).n = old.count[s] /\ (Feature(old, s).rate = {} <=> s \notin old.rated)
        /\ s \in Kept(new) => Feature(new, s).n = new.count[s] /\ (Feature(new, s).rate = {} <=> s \notin new.rated)
    <3>1. ASSUME NEW i, PublishInput(i), s \in Kept(i)
          PROVE  Feature(i, s).n = i.count[s] /\ (Feature(i, s).rate = {} <=> s \notin i.rated)
      <4>1. Feature(i, s).rate = IF s \in i.rated THEN {i.primary[s]} ELSE {}
        BY <3>1, FeatureIs
      <4>2. Feature(i, s).n = i.count[s]
        BY <3>1, FeatureIs
      <4>3. QED
        BY <4>1, <4>2
    <3>2. QED
      BY <3>1
  <2>3. /\ cause(s) = "suppression" <=> before # {} /\ after = {}
        /\ cause(s) = "new_reports" => before # {} /\ after # {} /\ counts(before) # counts(after)
        /\ cause(s) = "revised_exposure" =>
             /\ before # {} /\ after # {} /\ counts(before) = counts(after)
             /\ unrated(before) # unrated(after)
        /\ cause(s) = "recomputation" =>
             before = {} \/ (before # {} /\ after # {} /\ counts(before) = counts(after))
        /\ cause(s) = "threshold_change" => Differs(vo, vn, "floor", TRUE) \/ Differs(vo, vn, "small", FALSE)
    BY ClassifiedIs
  <2>4. before # {} /\ after # {} =>
          /\ s \in Kept(old) /\ s \in Kept(new)
          /\ counts(before) = {old.count[s]} /\ counts(after) = {new.count[s]}
          /\ ((s \in old.rated <=> s \in new.rated) => unrated(before) = unrated(after))
    <3> SUFFICES ASSUME before # {}, after # {}
                 PROVE  /\ s \in Kept(old) /\ s \in Kept(new)
                        /\ counts(before) = {old.count[s]} /\ counts(after) = {new.count[s]}
                        /\ ((s \in old.rated <=> s \in new.rated) => unrated(before) = unrated(after))
      OBVIOUS
    <3>1. s \in Kept(old) /\ s \in Kept(new) /\ before = {Feature(old, s)} /\ after = {Feature(new, s)}
      BY <2>1
    <3> HIDE DEF before, after
    <3>2. counts(before) = {old.count[s]} /\ counts(after) = {new.count[s]}
      BY <2>2, <3>1
    <3>3. unrated(before) = {Feature(old, s).rate = {}} /\ unrated(after) = {Feature(new, s).rate = {}}
      BY <3>1, Zenon
    <3>4. (s \in old.rated <=> s \in new.rated) => ((Feature(old, s).rate = {}) = (Feature(new, s).rate = {}))
      BY <2>2, <3>1
    <3>5. QED
      BY <3>1, <3>2, <3>3, <3>4, Zenon
  <2>5. Differs(vo, vn, "floor", TRUE) \/ Differs(vo, vn, "small", FALSE)
          => sidecars /\ <<old.small, old.floor>> # <<new.small, new.floor>>
    BY DiffersIs DEF vo, vn
  <2> HIDE DEF before, after, cause, counts, unrated
  <2>6. QED
    BY <2>1, <2>3, <2>4, <2>5
<1> HIDE DEF cause
<1>13. /\ report.persisted \cup changed("appeared") = Shown(new)
       /\ report.persisted \cup changed("disappeared") \cup changed("withdrawn") = Shown(old)
       /\ changed("appeared") \cap (changed("disappeared") \cup changed("withdrawn")) = {}
       /\ by("suppression") \subseteq changed("withdrawn")
       /\ \A s \in changed("withdrawn") : new.count[s] \in 1 .. (new.floor - 1)
       /\ \A s \in by("new_reports") : old.count[s] # new.count[s]
       /\ \A s \in by("revised_exposure") :
            old.count[s] = new.count[s] /\ (s \in old.rated) # (s \in new.rated)
       /\ \A s \in by("recomputation") : old.count[s] = new.count[s] \/ old.count[s] \in 1 .. (old.floor - 1)
       /\ by("threshold_change") # {} =>
            sidecars /\ <<old.small, old.floor>> # <<new.small, new.floor>>
  <2> HIDE DEF changed, by, change
  <2>1. \A s : change(s) \in {"appeared", "withdrawn", "disappeared"}
               /\ (change(s) = "appeared" <=> s \in Shown(new))
               /\ (change(s) = "withdrawn" <=> s \notin Shown(new) /\ s \notin Kept(new))
    BY DEF change
  <2>2. report.persisted \cup changed("appeared") = Shown(new)
    BY <1>4, <1>6, <1>7, <2>1
  <2>3. report.persisted \cup changed("disappeared") \cup changed("withdrawn") = Shown(old)
    BY <1>4, <1>6, <1>7, <2>1
  <2>4. changed("appeared") \cap (changed("disappeared") \cup changed("withdrawn")) = {}
    BY <1>7, <2>1
  <2>5. by("suppression") = changed("withdrawn")
    BY <1>4, <1>7, <1>8, <1>9, <1>12, <2>1
  <2>6. \A s \in by("suppression") : new.count[s] \in 1 .. (new.floor - 1)
    BY <1>8, <1>9, <1>10, <1>12
  <2>12. /\ by("suppression") \subseteq changed("withdrawn")
         /\ \A s \in changed("withdrawn") : new.count[s] \in 1 .. (new.floor - 1)
    BY <2>5, <2>6
  <2>7. \A s \in by("new_reports") : old.count[s] # new.count[s]
    BY <1>8, <1>12
  <2>8. \A s \in by("revised_exposure") :
          old.count[s] = new.count[s] /\ (s \in old.rated) # (s \in new.rated)
    BY <1>8, <1>12
  <2>9. \A s \in by("recomputation") : old.count[s] = new.count[s] \/ old.count[s] \in 1 .. (old.floor - 1)
    BY <1>8, <1>9, <1>10, <1>12
  <2>10. by("threshold_change") # {} =>
           sidecars /\ <<old.small, old.floor>> # <<new.small, new.floor>>
    BY <1>8, <1>12
  <2>11. QED
    BY <2>2, <2>3, <2>4, <2>7, <2>8, <2>9, <2>10, <2>12
<1>14. \A i : Shown(i) = Significant(ClusterStats(i)) \cap Publishable(ClusterStats(i))
  BY DEF Shown, Kept
<1>15. ReportTruthful(old, new, sidecars, report)
  BY <1>11, <1>13, <1>14, Zenon DEF ReportTruthful
<1>16. QED
  BY <1>15 DEF report, vo, vn

-----------------------------------------------------------------------------
(* The audit of the files of at most two runs.                             *)

\* The audit of whatever files a second run left over those of a first tells the truth.
LEMMA AuditHolds ==
    ASSUME NEW old, PublishInput(old), NEW new, PublishInput(new), DOMAIN old.count = DOMAIN new.count,
           NEW written \in 1 .. 3, NEW flag \in Nat
    PROVE  AuditTruthful(old, new, written, flag, Audit(old, new, written, flag))
<1> DEFINE first  == PublishedFiles(old)
           second == PublishedFiles(new)
           files  == Directory(first, second, written)
           report == [sidecars \in BOOLEAN |-> BuildReport(Vintage(first, sidecars), Vintage(second, sidecars))]
           artifact == VerifyArtifact(files, flag)
           corridor == VerifyCorridor(files, flag)
           result == Audit(old, new, written, flag)
           author == IF written = 1 THEN old ELSE new
<1>1. /\ first # NotPublished /\ second # NotPublished
      /\ first.dataset.features = Features(old) /\ second.dataset.features = Features(new)
      /\ second.view.features = CorridorFeatures(new) /\ second.view.primary = "dataset"
      /\ first.sidecar.pins = first.dataset /\ second.sidecar.pins = second.dataset
      /\ first.sidecar.floor = old.floor /\ second.sidecar.floor = new.floor
      /\ first.sidecar.small = old.small /\ second.sidecar.small = new.small
      /\ second.sidecar.corridors = "view"
  BY PublishedIs
<1>2. /\ result # NotPublished /\ result.files = files /\ result.artifact = artifact
      /\ result.corridor = corridor /\ result.report = report
  <2> DEFINE made == [files |-> files, artifact |-> artifact, corridor |-> corridor, report |-> report]
  <2>1. result = IF NotPublished \in {first, second} THEN NotPublished ELSE made
    BY Zenon DEF Audit
  <2>2. result = made
    BY <1>1, <2>1
  <2>3. made # NotPublished
    <3>1. "report" \in DOMAIN made
      OBVIOUS
    <3> HIDE DEF made
    <3>2. QED
      BY <3>1 DEF NotPublished
  <2>4. QED
    BY <2>2, <2>3
<1>3. /\ files.dataset = second.dataset
      /\ files.sidecar = IF written >= 2 THEN second.sidecar ELSE first.sidecar
      /\ written = 3 => files.view = second.view
  BY DEF Directory
<1>4. \A sidecars \in BOOLEAN : ReportTruthful(old, new, sidecars, report[sidecars])
  BY ReportHolds
<1> HIDE DEF first, second, files, report, result
<1>5. files.dataset.features = Features(new) /\ PublishInput(author)
  BY <1>1, <1>3
<1>6. /\ files.sidecar.floor = author.floor /\ files.sidecar.small = author.small
      /\ files.sidecar.pins = IF written = 1 THEN first.dataset ELSE second.dataset
  BY <1>1, <1>3
<1>7. author.floor \in Nat \ {0, 1} /\ author.small \in Nat \ {0}
  BY <1>5 DEF PublishInput
<1>8. Small(files) = author.small /\ (flag = 0 => Floor(files, flag) = author.floor)
  BY <1>6, <1>7 DEF Small, Floor
<1>9. Passes(artifact) => files.dataset.features = Features(author) /\ files.sidecar.pins = files.dataset
  <2> SUFFICES ASSUME Passes(artifact)
               PROVE  files.dataset.features = Features(author) /\ files.sidecar.pins = files.dataset
    OBVIOUS
  <2>1. files.sidecar.pins = files.dataset
    BY ArtifactPasses
  <2>2. QED
    BY <1>1, <1>5, <1>6, <2>1
<1>10. written = 3 => (Passes(artifact) <=> PublishedClean(files.dataset.features, Floor(files, flag)))
  <2> SUFFICES ASSUME written = 3
               PROVE  Passes(artifact) <=> PublishedClean(files.dataset.features, Floor(files, flag))
    OBVIOUS
  <2>1. CheckHR1(files.dataset.features) # "fail" /\ CheckHR2(files.dataset.features, Small(files)) # "fail"
    BY <1>5, <1>8, OwnViews
  <2>2. CheckHR4(files.dataset.features, Floor(files, flag)) # "fail"
          <=> PublishedClean(files.dataset.features, Floor(files, flag))
    BY <1>5, OwnViews
  <2>3. files.sidecar.pins = files.dataset
    BY <1>3, <1>6
  <2>4. QED
    BY <2>1, <2>2, <2>3, ArtifactPasses
<1>11. written = 3 /\ flag = 0 => Passes(artifact) /\ Passes(corridor)
  <2> SUFFICES ASSUME written = 3, flag = 0 PROVE Passes(artifact) /\ Passes(corridor)
    OBVIOUS
  <2>1. Floor(files, flag) = new.floor /\ Small(files) = new.small
    BY <1>8
  <2>2. Passes(artifact)
    BY <1>5, <1>10, <2>1, OwnViews
  <2>3. files.view.features = CorridorFeatures(new) /\ files.view.primary = "dataset" /\ files.sidecar.corridors = "view"
    BY <1>1, <1>3
  <2>4. CorridorBinding(files, flag) # "fail"
    BY <2>2, <2>3 DEF CorridorBinding
  <2>5. QED
    BY <2>1, <2>2, <2>3, <2>4, CorridorPasses, OwnViews
<1>12. written = 1 /\ Passes(artifact) => files.dataset = first.dataset
  BY <1>6, <1>9
<1>13. Passes(artifact) =>
         \A s \in DOMAIN new.count :
           new.count[s] \in 1 .. (files.sidecar.floor - 1) => \A f \in files.dataset.features : f.id # s
  <2> SUFFICES ASSUME Passes(artifact), NEW f \in files.dataset.features,
                      new.count[f.id] \in 1 .. (files.sidecar.floor - 1)
               PROVE  FALSE
    OBVIOUS
  <2>1. f \in Features(new) /\ f \in Features(author)
    BY <1>5, <1>9
  <2>2. f.n = new.count[f.id]
    BY <2>1, OwnViews
  <2>3. f.n \notin 1 .. (author.floor - 1)
    BY <1>5, <2>1, OwnViews DEF PublishedClean
  <2>4. QED
    BY <1>6, <2>2, <2>3
<1>14. Passes(artifact) => \A f \in files.dataset.features : f.label = "certain" => f.n >= files.sidecar.small
  BY <1>5, <1>6, <1>9, OwnViews
<1>15. artifact.HR2 = "pass" => Rated(files.dataset.features) # {}
  BY SamplesJudged DEF VerifyArtifact
<1>16. corridor.HR2 = "pass" => files.view.features # {}
  BY SamplesJudged DEF VerifyCorridor, Rated
<1> HIDE DEF artifact, corridor, author
<1>17. AuditTruthful(old, new, written, flag, result)
  BY <1>2, <1>4, <1>10, <1>11, <1>12, <1>13, <1>14, <1>15, <1>16 DEF AuditTruthful, first
<1>18. QED
  BY <1>17 DEF result

-----------------------------------------------------------------------------
(* The assessment of a city's sources: the tier by what it takes, and what *)
(* lowers it.                                                              *)

\* The last of finitely many days.
LEMMA LastOf ==
    ASSUME NEW S, IsFiniteSet(S), S \subseteq Int, S # {}
    PROVE  Max(S) \in Int
<1> DEFINE Good == {T \in SUBSET S : T = {} \/ \E x \in T : \A y \in T : x >= y}
<1>1. {} \in Good
  OBVIOUS
<1>2. ASSUME NEW T \in SUBSET S, T # {}, \A x \in T : T \ {x} \in Good PROVE T \in Good
  <2>1. PICK x \in T : TRUE
    BY <1>2
  <2>2. T \ {x} = {} \/ \E z \in T \ {x} : \A y \in T \ {x} : z >= y
    BY <1>2
  <2>3. CASE T \ {x} = {}
    <3>1. T = {x} /\ x \in Int
      BY <2>3
    <3>2. QED
      BY <3>1
  <2>4. ASSUME NEW z \in T \ {x}, \A y \in T \ {x} : z >= y PROVE T \in Good
    <3>1. x \in Int /\ z \in Int /\ \A y \in T : y \in Int
      OBVIOUS
    <3>2. CASE x >= z
      <4>1. \A y \in T : x >= y
        BY <2>4, <3>1, <3>2
      <4>2. QED
        BY <4>1
    <3>3. CASE ~(x >= z)
      <4>1. \A y \in T : z >= y
        BY <2>4, <3>1, <3>3
      <4>2. QED
        BY <4>1
    <3>4. QED
      BY <3>2, <3>3
  <2>5. QED
    BY <2>2, <2>3, <2>4
<1> HIDE DEF Good
<1>3. S \in Good
  BY <1>1, <1>2, S \in SUBSET S, SetInduction
<1>4. \E x \in S : \A y \in S : x >= y
  BY <1>3 DEF Good
<1>5. QED
  BY <1>4 DEF Max

\* The rank of each tier.
LEMMA RankIs ==
    ASSUME NEW a
    PROVE  /\ a.tier = "demonstration" => Rank(a) = 1
           /\ a.tier = "national_baseline" => Rank(a) = 2
           /\ a.tier = "modeled_city" => Rank(a) = 3
           /\ a.tier = "measured_city" => Rank(a) = 4
           /\ a.tier = "partner_city" => Rank(a) = 5
<1>1. DOMAIN Tiers = 1 .. 5
  BY DEF Tiers
<1>2. /\ Tiers[1] = "demonstration" /\ Tiers[2] = "national_baseline" /\ Tiers[3] = "modeled_city"
      /\ Tiers[4] = "measured_city" /\ Tiers[5] = "partner_city"
  BY DEF Tiers
<1>3. \A i \in DOMAIN Tiers : i = 1 \/ i = 2 \/ i = 3 \/ i = 4 \/ i = 5
  BY <1>1
<1>4. ASSUME NEW i \in DOMAIN Tiers, a.tier = Tiers[i]
      PROVE  Rank(a) = i
  <2>1. \A j \in DOMAIN Tiers : Tiers[j] = a.tier => j = i
    BY <1>2, <1>3, <1>4
  <2>2. QED
    BY <1>4, <2>1 DEF Rank
<1>5. 1 \in DOMAIN Tiers /\ 2 \in DOMAIN Tiers /\ 3 \in DOMAIN Tiers /\ 4 \in DOMAIN Tiers /\ 5 \in DOMAIN Tiers
  BY <1>1
<1>6. QED
  BY <1>2, <1>4, <1>5

\* No observed segment is not enough of a city.
LEMMA NothingReaches ==
    ASSUME NEW r, RegistryLoads(r)
    PROVE  ~Reaches(r, {})
<1>1. Cardinality(CitySegments) \in Nat /\ Cardinality(CitySegments) # 0
  BY CityCoverageAssumption, FS_CardinalityType, FS_EmptySet
<1>2. Cardinality({}) = 0
  BY FS_EmptySet
<1> DEFINE n == Cardinality(CitySegments)
<1> HIDE DEF n
<1>3. n \in Nat /\ n # 0 /\ r.quarters \in 1 .. 4
  BY <1>1 DEF n, RegistryLoads
<1>4. ~(4 * 0 >= r.quarters * n)
  <2>1. \A q \in 1 .. 4 : q * n >= 1
    BY <1>3
  <2>2. QED
    BY <1>3, <2>1
<1>5. QED
  BY <1>2, <1>4 DEF Reaches, n

\* What fewer observed segments reach, more of them reach.
LEMMA FewerReach ==
    ASSUME NEW r, RegistryLoads(r), NEW more, IsFiniteSet(more), NEW fewer \in SUBSET more, Reaches(r, fewer)
    PROVE  Reaches(r, more)
<1>1. Cardinality(fewer) \in Nat /\ Cardinality(more) \in Nat /\ Cardinality(fewer) <= Cardinality(more)
  BY FS_Subset, FS_CardinalityType
<1> DEFINE n == Cardinality(CitySegments)
           a == Cardinality(fewer)
           b == Cardinality(more)
<1>2. n \in Nat /\ r.quarters \in 1 .. 4
  BY CityCoverageAssumption, FS_CardinalityType DEF RegistryLoads
<1>3. r.quarters * n \in Int
  BY <1>2
<1>4. 4 * a >= r.quarters * n
  BY DEF Reaches
<1> DEFINE q == r.quarters * n
<1> HIDE DEF n, a, b, q
<1>5. 4 * b >= q
  BY <1>1, <1>3, <1>4 DEF a, b, q
<1>6. QED
  BY <1>5 DEF Reaches, n, b, q

\* A tier, by what it takes.
LEMMA TierIs ==
    ASSUME NEW r, NEW usable, NEW observed, NEW stale
    PROVE  LET core     == {s \in r.sources : s.kind \in CoreKinds}
               measured == CoreKinds \subseteq Kinds(r) /\ Reaches(r, observed) /\ core \cap stale = {}
               rated    == usable # {} /\ "exposure" \in Kinds(r)
               tier     == EvidenceTier(r, usable, observed, stale)
           IN /\ tier \in {"demonstration", "national_baseline", "modeled_city", "measured_city", "partner_city"}
              /\ tier = "demonstration" <=> \E s \in core : s.synthetic
              /\ tier = "national_baseline" <=> ~(\E s \in core : s.synthetic) /\ ~rated
              /\ tier = "modeled_city" <=> ~(\E s \in core : s.synthetic) /\ rated /\ ~measured
              /\ tier = "measured_city" <=> ~(\E s \in core : s.synthetic) /\ rated /\ measured /\ r.partner = {}
              /\ tier = "partner_city" <=> ~(\E s \in core : s.synthetic) /\ rated /\ measured /\ r.partner # {}
<1> DEFINE core     == {s \in r.sources : s.kind \in CoreKinds}
           made     == \E s \in core : s.synthetic
           measured == CoreKinds \subseteq Kinds(r) /\ Reaches(r, observed) /\ core \cap stale = {}
           rated    == usable # {} /\ "exposure" \in Kinds(r)
           tier     == EvidenceTier(r, usable, observed, stale)
<1>1. tier = IF made THEN "demonstration" ELSE IF usable = {} \/ "exposure" \notin Kinds(r) THEN "national_baseline"
             ELSE IF ~measured THEN "modeled_city" ELSE IF r.partner # {} THEN "partner_city" ELSE "measured_city"
  BY Zenon DEF EvidenceTier
<1>2. ~rated <=> usable = {} \/ "exposure" \notin Kinds(r)
  OBVIOUS
<1> HIDE DEF tier, made, measured, rated
<1>3. /\ tier \in {"demonstration", "national_baseline", "modeled_city", "measured_city", "partner_city"}
      /\ tier = "demonstration" <=> made
      /\ tier = "national_baseline" <=> ~made /\ ~rated
      /\ tier = "modeled_city" <=> ~made /\ rated /\ ~measured
      /\ tier = "measured_city" <=> ~made /\ rated /\ measured /\ r.partner = {}
      /\ tier = "partner_city" <=> ~made /\ rated /\ measured /\ r.partner # {}
  BY <1>1, <1>2
<1>4. QED
  BY <1>3, Zenon DEF tier, made, measured, rated, core

\* A lost partner, less that is observed and more that is stale never promote.
LEMMA TierFalls ==
    ASSUME NEW r, RegistryLoads(r), NEW q, q.sources = r.sources, q.quarters = r.quarters,
           q.partner \in {r.partner, {}},
           NEW usable, NEW observed, IsFiniteSet(observed), NEW fewer \in SUBSET observed,
           NEW stale, NEW older, stale \subseteq older,
           NEW a, a.tier = EvidenceTier(r, usable, observed, stale),
           NEW b, b.tier = EvidenceTier(q, usable, fewer, older)
    PROVE  Rank(b) <= Rank(a)
<1> DEFINE core == {s \in r.sources : s.kind \in CoreKinds}
           made == \E s \in core : s.synthetic
           rated == usable # {} /\ "exposure" \in Kinds(r)
           holds == CoreKinds \subseteq Kinds(r) /\ Reaches(r, observed) /\ core \cap stale = {}
           still == CoreKinds \subseteq Kinds(r) /\ Reaches(r, fewer) /\ core \cap older = {}
<1>1. /\ a.tier \in {"demonstration", "national_baseline", "modeled_city", "measured_city", "partner_city"}
      /\ a.tier = "demonstration" <=> made
      /\ a.tier = "national_baseline" <=> ~made /\ ~rated
      /\ a.tier = "modeled_city" <=> ~made /\ rated /\ ~holds
      /\ a.tier = "measured_city" <=> ~made /\ rated /\ holds /\ r.partner = {}
      /\ a.tier = "partner_city" <=> ~made /\ rated /\ holds /\ r.partner # {}
  BY TierIs
<1>2. Kinds(q) = Kinds(r) /\ (Reaches(q, fewer) <=> Reaches(r, fewer))
  BY DEF Kinds, Reaches
<1>3. /\ b.tier \in {"demonstration", "national_baseline", "modeled_city", "measured_city", "partner_city"}
      /\ b.tier = "demonstration" <=> made
      /\ b.tier = "national_baseline" <=> ~made /\ ~rated
      /\ b.tier = "modeled_city" <=> ~made /\ rated /\ ~still
      /\ b.tier = "measured_city" <=> ~made /\ rated /\ still /\ q.partner = {}
      /\ b.tier = "partner_city" <=> ~made /\ rated /\ still /\ q.partner # {}
  BY <1>2, TierIs
<1>4. still => holds
  BY FewerReach
<1>5. q.partner # {} => r.partner # {}
  OBVIOUS
<1> HIDE DEF made, rated, holds, still
<1>6. /\ a.tier = "demonstration" => Rank(a) = 1 /\ b.tier = "demonstration"
      /\ a.tier = "national_baseline" => Rank(a) = 2 /\ b.tier = "national_baseline"
      /\ a.tier = "modeled_city" => Rank(a) = 3 /\ b.tier = "modeled_city"
      /\ a.tier = "measured_city" => Rank(a) = 4 /\ b.tier \in {"modeled_city", "measured_city"}
      /\ a.tier = "partner_city" => Rank(a) = 5 /\ b.tier \in {"modeled_city", "measured_city", "partner_city"}
  BY <1>1, <1>3, <1>4, <1>5, RankIs
<1>7. QED
  BY <1>1, <1>6, RankIs

\* The segments with a rate, and those of them that were observed.
Exposed(input) ==
    {s \in DOMAIN input.exposure \cap CitySegments : input.exposure[s].estimate > ExposureFloor}

Seen(input) == {s \in Exposed(input) : input.exposure[s].tier = "observed"}

\* An assessment that could be dated, field by field.
LEMMA InputAssessed ==
    ASSUME NEW r, RegistryLoads(r), NEW input, NEW day, AssessmentDate(r, input) = {day}
    PROVE  LET a == AssessCoverage(r, input) IN
           /\ a # NoRegistry
           /\ a.tier = EvidenceTier(r, Exposed(input), Seen(input), StaleSources(r, day))
           /\ a.missing = CoreKinds \ Kinds(r) /\ a.stale = StaleSources(r, day)
           /\ a.observed = Seen(input) /\ a.usable = Exposed(input)
           /\ a.capabilities = Capabilities(r, Exposed(input), input.verified)
           /\ a.unlocks = Unlocks(r, Seen(input), StaleSources(r, day), input.verified)
<1> DEFINE days == AssessmentDate(r, input)
           stale == StaleSources(r, CHOOSE d \in days : TRUE)
           made == [tier |-> EvidenceTier(r, Exposed(input), Seen(input), stale), missing |-> CoreKinds \ Kinds(r),
                    stale |-> stale, observed |-> Seen(input), usable |-> Exposed(input),
                    capabilities |-> Capabilities(r, Exposed(input), input.verified),
                    unlocks |-> Unlocks(r, Seen(input), stale, input.verified)]
<1>1. AssessCoverage(r, input) = IF ~RegistryLoads(r) \/ days = {} THEN NoRegistry ELSE made
  BY Zenon DEF AssessCoverage, Exposed, Seen
<1>2. AssessCoverage(r, input) = made
  BY <1>1
<1>3. stale = StaleSources(r, day)
  <2>1. (CHOOSE d \in days : TRUE) = day
    OBVIOUS
  <2>2. QED
    BY <2>1, Zenon
<1>4. made # NoRegistry
  <2>1. "tier" \in DOMAIN made
    OBVIOUS
  <2> HIDE DEF made
  <2>2. QED
    BY <2>1 DEF NoRegistry
<1>5. QED
  BY <1>2, <1>3, <1>4

\* The day of an assessment is one, or there is none.
LEMMA DaysAre ==
    ASSUME NEW r, NEW input, CoverageRequest(r, input)
    PROVE  AssessmentDate(r, input) = {} \/ \E day \in Int : AssessmentDate(r, input) = {day}
<1> DEFINE updated == {s.updated : s \in r.sources}
           f == [s \in r.sources |-> s.updated]
<1>1. updated = {f[s] : s \in r.sources}
  OBVIOUS
<1> HIDE DEF f
<1>2. IsFiniteSet(updated)
  <2>1. IsFiniteSet(r.sources)
    BY DEF CoverageRequest
  <2>2. IsFiniteSet({f[s] : s \in r.sources})
    BY <2>1, ImageFinite
  <2>3. QED
    BY <1>1, <2>2
<1>3. updated \subseteq Int /\ (r.sources # {} => updated # {})
  BY DEF CoverageRequest
<1> HIDE DEF updated
<1>4. r.sources # {} => Max(updated) \in Int
  BY <1>2, <1>3, LastOf
<1>5. input.reports # {} => Max(input.reports) \in Int
  BY LastOf DEF CoverageRequest
<1>6. AssessmentDate(r, input) =
        IF input.asOf # {} THEN input.asOf ELSE IF input.reports # {} THEN {Max(input.reports)}
        ELSE IF r.sources # {} THEN {Max(updated)} ELSE {}
  BY DEF AssessmentDate, updated
<1>7. QED
  BY <1>4, <1>5, <1>6 DEF CoverageRequest

(***************************************************************************)
(* What reports with a tier explain it, and nothing promotes that should   *)
(* not.                                                                    *)
(***************************************************************************)
LEMMA CoverageHolds ==
    ASSUME NEW r, NEW input, CoverageRequest(r, input)
    PROVE  CoverageExplained(r, input, AssessCoverage(r, input))
<1> DEFINE a == AssessCoverage(r, input)
<1> SUFFICES ASSUME a # NoRegistry PROVE CoverageExplained(r, input, a)
  BY DEF CoverageExplained
<1>1. RegistryLoads(r) /\ AssessmentDate(r, input) # {}
  <2>1. ~RegistryLoads(r) \/ AssessmentDate(r, input) = {} => a = NoRegistry
    BY DEF AssessCoverage
  <2>2. QED
    BY <2>1
<1>2. PICK day \in Int : AssessmentDate(r, input) = {day}
  BY <1>1, DaysAre
<1> DEFINE usable == Exposed(input)
           observed == Seen(input)
           stale == StaleSources(r, day)
           core == {s \in r.sources : s.kind \in CoreKinds}
           made == \E s \in core : s.synthetic
           rated == usable # {} /\ "exposure" \in Kinds(r)
           holds == CoreKinds \subseteq Kinds(r) /\ Reaches(r, observed) /\ core \cap stale = {}
<1>3. /\ a.tier = EvidenceTier(r, usable, observed, stale)
      /\ a.missing = CoreKinds \ Kinds(r) /\ a.stale = stale /\ a.observed = observed
      /\ a.capabilities = Capabilities(r, usable, input.verified)
      /\ a.unlocks = Unlocks(r, observed, stale, input.verified)
  BY <1>1, <1>2, InputAssessed
<1>4. observed \in SUBSET usable /\ usable \in SUBSET CitySegments /\ IsFiniteSet(observed)
  <2>1. observed \in SUBSET usable /\ usable \in SUBSET CitySegments
    BY DEF Exposed, Seen
  <2>2. QED
    BY <2>1, CityCoverageAssumption, FS_Subset
<1>5. /\ a.tier \in {"demonstration", "national_baseline", "modeled_city", "measured_city", "partner_city"}
      /\ a.tier = "demonstration" <=> made
      /\ a.tier = "national_baseline" <=> ~made /\ ~rated
      /\ a.tier = "modeled_city" <=> ~made /\ rated /\ ~holds
      /\ a.tier = "measured_city" <=> ~made /\ rated /\ holds /\ r.partner = {}
      /\ a.tier = "partner_city" <=> ~made /\ rated /\ holds /\ r.partner # {}
  BY <1>3, TierIs
<1> HIDE DEF a, usable, observed, stale
<1>6. /\ ~Reaches(r, observed) => "raise coverage" \in a.unlocks
      /\ r.partner = {} => "record partner" \in a.unlocks
      /\ stale # {} => "refresh sources" \in a.unlocks
  BY <1>3 DEF Unlocks
<1>7. a.tier # "partner_city" =>
        \/ \E s \in r.sources : s.kind \in CoreKinds /\ s.synthetic
        \/ a.missing # {}
        \/ a.unlocks \cap {"raise coverage", "record partner", "refresh sources"} # {}
  <2>1. usable = {} => ~Reaches(r, observed)
    BY <1>1, <1>4, NothingReaches
  <2>2. "exposure" \notin Kinds(r) => a.missing # {}
    BY <1>3 DEF CoreKinds
  <2>3. ~(CoreKinds \subseteq Kinds(r)) => a.missing # {}
    BY <1>3
  <2>4. core \cap stale # {} => stale # {}
    OBVIOUS
  <2>5. made => \E s \in r.sources : s.kind \in CoreKinds /\ s.synthetic
    OBVIOUS
  <2> HIDE DEF made
  <2>6. QED
    BY <1>5, <1>6, <2>1, <2>2, <2>3, <2>4, <2>5
<1> HIDE DEF made
<1>8. Rank(a) >= 3 => rated
  BY <1>5, RankIs
<1>9. Rank(a) >= 3 => "rates" \in a.capabilities
  BY <1>3, <1>8 DEF Capabilities
<1>10. Rank(a) >= 4 => \A s \in a.stale : s.kind \notin CoreKinds
  <2>1. Rank(a) >= 4 => holds
    BY <1>5, RankIs
  <2>2. stale \subseteq r.sources
    BY DEF stale, StaleSources
  <2>3. QED
    BY <1>3, <2>1, <2>2
<1> HIDE DEF rated, holds
<1>11. ASSUME NEW later \in 0 .. 1
       PROVE  LET next == AssessCoverage(r, [input EXCEPT !.asOf = {later + d : d \in AssessmentDate(r, input)}])
              IN Rank(next) <= Rank(a) /\ a.stale \subseteq next.stale
  <2> DEFINE then == [input EXCEPT !.asOf = {later + d : d \in AssessmentDate(r, input)}]
             next == AssessCoverage(r, then)
  <2>1. then = [exposure |-> input.exposure, asOf |-> {later + day}, reports |-> input.reports,
                verified |-> input.verified]
    <3>1. {later + d : d \in AssessmentDate(r, input)} = {later + day}
      BY <1>2
    <3>2. input = [exposure |-> input.exposure, asOf |-> input.asOf, reports |-> input.reports,
                   verified |-> input.verified]
      BY DEF CoverageRequest
    <3>3. QED
      BY <3>1, <3>2
  <2> HIDE DEF then
  <2>2. AssessmentDate(r, then) = {later + day}
    BY <2>1 DEF AssessmentDate
  <2>3. Exposed(then) = usable /\ Seen(then) = observed
    BY <2>1 DEF Exposed, Seen, usable, observed
  <2>4. next.tier = EvidenceTier(r, usable, observed, StaleSources(r, later + day))
        /\ next.stale = StaleSources(r, later + day)
    <3>1. /\ next.tier = EvidenceTier(r, Exposed(then), Seen(then), StaleSources(r, later + day))
          /\ next.stale = StaleSources(r, later + day)
      BY <1>1, <2>2, InputAssessed
    <3>2. QED
      BY <2>3, <3>1, Zenon
  <2>5. stale \subseteq StaleSources(r, later + day)
    <3>1. \A s \in r.sources : s.updated \in Int /\ s.limit \in Int
      BY DEF CoverageRequest
    <3>2. QED
      BY <3>1 DEF stale, StaleSources
  <2> HIDE DEF next
  <2>6. Rank(next) <= Rank(a)
    BY <1>1, <1>3, <1>4, <2>4, <2>5, TierFalls
  <2>7. QED
    BY <1>3, <2>4, <2>5, <2>6 DEF next, then
<1>12. AssessCoverage(r, [input EXCEPT !.verified = ~@]).tier = a.tier
  <2> DEFINE other == [input EXCEPT !.verified = ~@]
  <2>1. /\ other.exposure = input.exposure /\ other.asOf = input.asOf /\ other.reports = input.reports
    <3>1. input = [exposure |-> input.exposure, asOf |-> input.asOf, reports |-> input.reports,
                   verified |-> input.verified]
      BY DEF CoverageRequest
    <3>2. QED
      BY <3>1
  <2> HIDE DEF other
  <2>2. AssessmentDate(r, other) = {day}
    BY <1>2, <2>1 DEF AssessmentDate
  <2>3. Exposed(other) = usable /\ Seen(other) = observed
    BY <2>1 DEF Exposed, Seen, usable, observed
  <2>4. AssessCoverage(r, other).tier = EvidenceTier(r, usable, observed, stale)
    BY <1>1, <2>2, <2>3, InputAssessed DEF stale
  <2>5. QED
    BY <1>3, <2>4 DEF other
<1>13. Rank(AssessCoverage([r EXCEPT !.partner = {}], input)) <= Rank(a)
  <2> DEFINE q == [r EXCEPT !.partner = {}]
             next == AssessCoverage(q, input)
  <2>1. q.sources = r.sources /\ q.quarters = r.quarters /\ q.partner = {}
    <3>1. r = [sources |-> r.sources, quarters |-> r.quarters, partner |-> r.partner]
      BY DEF CoverageRequest
    <3>2. QED
      BY <3>1
  <2> HIDE DEF q
  <2>2. RegistryLoads(q) /\ AssessmentDate(q, input) = {day} /\ StaleSources(q, day) = stale
    BY <1>1, <1>2, <2>1 DEF RegistryLoads, AssessmentDate, StaleSources, stale
  <2>3. next.tier = EvidenceTier(q, usable, observed, stale)
    BY <2>2, InputAssessed DEF usable, observed
  <2> HIDE DEF next
  <2>4. Rank(next) <= Rank(a)
    BY <1>1, <1>3, <1>4, <2>1, <2>3, TierFalls
  <2>5. QED
    BY <2>4 DEF next, q
<1>14. ASSUME NEW s \in a.observed
       PROVE  Rank(AssessCoverage(r, [input EXCEPT !.exposure[s].tier = "modeled"])) <= Rank(a)
  <2> DEFINE other == [input EXCEPT !.exposure[s].tier = "modeled"]
             next == AssessCoverage(r, other)
             e == input.exposure
  <2>1. s \in DOMAIN e
    BY <1>3 DEF observed, Seen, Exposed
  <2>2. /\ other.exposure = [e EXCEPT ![s].tier = "modeled"]
        /\ other.asOf = input.asOf /\ other.reports = input.reports
    <3>1. input = [exposure |-> input.exposure, asOf |-> input.asOf, reports |-> input.reports,
                   verified |-> input.verified]
      BY DEF CoverageRequest
    <3>2. QED
      BY <3>1
  <2> HIDE DEF other
  <2>3. /\ DOMAIN other.exposure = DOMAIN e
        /\ \A t \in DOMAIN e \ {s} : other.exposure[t] = e[t]
        /\ other.exposure[s].tier = "modeled" /\ other.exposure[s].estimate = e[s].estimate
    <3>1. e[s] = [tier |-> e[s].tier, estimate |-> e[s].estimate]
      BY <2>1 DEF CoverageRequest
    <3>2. other.exposure[s] = [e[s] EXCEPT !.tier = "modeled"]
      BY <2>1, <2>2
    <3>3. other.exposure[s].tier = "modeled" /\ other.exposure[s].estimate = e[s].estimate
      BY <3>1, <3>2
    <3>4. QED
      BY <2>1, <2>2, <3>3
  <2>4. AssessmentDate(r, other) = {day}
    BY <1>2, <2>2 DEF AssessmentDate
  <2>5. Exposed(other) = usable
    BY <2>1, <2>3 DEF Exposed, usable
  <2>6. Seen(other) \in SUBSET observed
    <3>1. \A t \in Seen(other) : t \in usable /\ other.exposure[t].tier = "observed"
      BY <2>5 DEF Seen
    <3>2. usable \subseteq DOMAIN e
      BY DEF usable, Exposed
    <3>3. \A t \in Seen(other) : t # s
      BY <2>3, <3>1
    <3>4. \A t \in Seen(other) : e[t].tier = "observed"
      BY <2>3, <3>1, <3>2, <3>3
    <3>5. observed = {t \in usable : e[t].tier = "observed"}
      BY DEF observed, usable, Seen
    <3>6. QED
      BY <3>1, <3>4, <3>5
  <2>7. next.tier = EvidenceTier(r, usable, Seen(other), stale)
    BY <1>1, <2>4, <2>5, InputAssessed DEF stale
  <2> HIDE DEF next
  <2>8. Rank(next) <= Rank(a)
    BY <1>1, <1>3, <1>4, <2>6, <2>7, TierFalls
  <2>9. QED
    BY <2>8 DEF next, other
<1>15. QED
  BY <1>7, <1>9, <1>10, <1>11, <1>12, <1>13, <1>14 DEF CoverageExplained

-----------------------------------------------------------------------------
(* An audit and an assessment, once they are computed, are those of their  *)
(* tasks.                                                                  *)

AuditInv ==
  /\ part = "dataset" =>
       /\ task \in DatasetTasks
       /\ outcome \in {Pending, Audit(task.old, task.new, task.written, task.flag)}
  /\ part = "coverage" =>
       /\ task \in CoverageTasks
       /\ outcome \in {Pending, AssessCoverage(task.registry, task.input)}

\* No audit and no assessment is made yet.
LEMMA AuditInit == Init => AuditInv
BY DEF Init, Start, AuditInv

\* The one step of such a part computes its outcome from its task.
LEMMA AuditStep == AuditInv /\ [Next]_algorithmVars => AuditInv'
<1> SUFFICES ASSUME AuditInv, [Next]_algorithmVars PROVE AuditInv'
  OBVIOUS
<1>1. part' = part /\ task' = task
  BY DEF Next, JoinFiles, BuildDocuments, BuildContext, RunReports, FindClusters,
     AuditDataset, AssessCity, Compute, algorithmVars, taskVars
<1>2. ASSUME part = "dataset"
      PROVE  /\ task \in DatasetTasks
             /\ outcome' \in {Pending, Audit(task.old, task.new, task.written, task.flag)}
  <2>1. /\ task \in DatasetTasks
        /\ outcome \in {Pending, Audit(task.old, task.new, task.written, task.flag)}
    BY <1>2 DEF AuditInv
  <2>2. \/ outcome' = outcome
        \/ outcome' = Audit(task.old, task.new, task.written, task.flag)
    BY <1>2 DEF Next, JoinFiles, BuildDocuments, BuildContext, RunReports, FindClusters,
       AuditDataset, AssessCity, Compute, algorithmVars, taskVars
  <2>3. QED
    BY <2>1, <2>2
<1>3. ASSUME part = "coverage"
      PROVE  /\ task \in CoverageTasks
             /\ outcome' \in {Pending, AssessCoverage(task.registry, task.input)}
  <2>1. /\ task \in CoverageTasks
        /\ outcome \in {Pending, AssessCoverage(task.registry, task.input)}
    BY <1>3 DEF AuditInv
  <2>2. outcome' = outcome \/ outcome' = AssessCoverage(task.registry, task.input)
    BY <1>3 DEF Next, JoinFiles, BuildDocuments, BuildContext, RunReports, FindClusters,
       AuditDataset, AssessCity, Compute, algorithmVars, taskVars
  <2>3. QED
    BY <2>1, <2>2
<1>4. QED
  BY <1>1, <1>2, <1>3 DEF AuditInv

\* A finished dataset passes its audit, a half written one does not unless nothing of it changed, the
\* change report names each change with its cause, and the tier of a city is lowered and never raised
\* by what it loses (AuditTruthful, tools/verify_dataset.py; CoverageExplained, coverage.py).
THEOREM AuditsStayTruthful == Spec => []AuditsAreTruthful
<1>1. AuditInv => AuditsAreTruthful
  <2> SUFFICES ASSUME AuditInv PROVE AuditsAreTruthful
    OBVIOUS
  <2>1. ASSUME part = "dataset", outcome # Pending
        PROVE  AuditTruthful(task.old, task.new, task.written, task.flag, outcome)
    <3>1. /\ task \in DatasetTasks
          /\ outcome = Audit(task.old, task.new, task.written, task.flag)
      BY <2>1 DEF AuditInv
    <3>2. /\ PublishInput(task.old) /\ PublishInput(task.new)
          /\ DOMAIN task.old.count = DOMAIN task.new.count
          /\ task.written \in 1 .. 3 /\ task.flag \in Nat
      BY <3>1, AuditTaskAssumption
    <3>3. AuditTruthful(task.old, task.new, task.written, task.flag,
                        Audit(task.old, task.new, task.written, task.flag))
      BY <3>2, AuditHolds
    <3>4. QED
      BY <3>1, <3>3
  <2>2. ASSUME part = "coverage", outcome # Pending
        PROVE  CoverageExplained(task.registry, task.input, outcome)
    <3>1. /\ task \in CoverageTasks
          /\ outcome = AssessCoverage(task.registry, task.input)
      BY <2>2 DEF AuditInv
    <3>2. CoverageRequest(task.registry, task.input)
      BY <3>1, AuditTaskAssumption
    <3>3. QED
      BY <3>1, <3>2, CoverageHolds
  <2>3. QED
    BY <2>1, <2>2 DEF AuditsAreTruthful, Computed
<1>2. QED
  BY <1>1, AuditInit, AuditStep, PTL DEF Spec

-----------------------------------------------------------------------------
(* The pipeline of reports: an induction over the reports in the order in  *)
(* which they are deduplicated.                                            *)

\* The reports of a window have different ids.
ReportSet(S) == /\ IsFiniteSet(S) /\ S \subseteq RawReports
                /\ \A r, s \in S : r.id = s.id => r = s

LEMMA ReportIs ==
    ASSUME NEW r \in RawReports
    PROVE  /\ r.id \in Nat /\ r.day \in Nat /\ r.at \in Int /\ r.time \in Int
           /\ r.time = NoTime \/ r.time >= 0
BY DEF RawReports, NoTime

LEMMA EarlierIs ==
    ASSUME NEW a \in RawReports, NEW b \in RawReports
    PROVE  Earlier(a, b) <=>
             \/ a.time = b.time /\ a.id < b.id
             \/ a.time # b.time /\ a.time # NoTime /\ (b.time = NoTime \/ a.time < b.time)
BY DEF Earlier

\* The order is strict and total.
LEMMA EarlierOrders ==
    ASSUME NEW S, ReportSet(S)
    PROVE  /\ \A r \in S : ~Earlier(r, r)
           /\ \A r, s \in S : r = s \/ Earlier(r, s) \/ Earlier(s, r)
           /\ \A r, s, t \in S : Earlier(r, s) /\ Earlier(s, t) => Earlier(r, t)
<1>1. ASSUME NEW r \in S
      PROVE  /\ r \in RawReports /\ r.id \in Nat /\ r.time \in Int
             /\ r.time = NoTime \/ r.time >= 0
  BY ReportIs DEF ReportSet
<1>2. ASSUME NEW r \in S PROVE ~Earlier(r, r)
  BY <1>1, EarlierIs
<1>3. ASSUME NEW r \in S, NEW s \in S PROVE r = s \/ Earlier(r, s) \/ Earlier(s, r)
  <2>1. /\ Earlier(r, s) <=>
             \/ r.time = s.time /\ r.id < s.id
             \/ r.time # s.time /\ r.time # NoTime /\ (s.time = NoTime \/ r.time < s.time)
        /\ Earlier(s, r) <=>
             \/ s.time = r.time /\ s.id < r.id
             \/ s.time # r.time /\ s.time # NoTime /\ (r.time = NoTime \/ s.time < r.time)
    BY <1>1, EarlierIs
  <2>2. r.id = s.id => r = s
    BY DEF ReportSet
  <2>3. /\ r.id \in Nat /\ r.time \in Int
        /\ s.id \in Nat /\ s.time \in Int
    BY <1>1
  <2>4. QED
    BY <2>1, <2>2, <2>3
<1>4. ASSUME NEW r \in S, NEW s \in S, NEW t \in S, Earlier(r, s), Earlier(s, t)
      PROVE  Earlier(r, t)
  <2>1. /\ \/ r.time = s.time /\ r.id < s.id
           \/ r.time # s.time /\ r.time # NoTime /\ (s.time = NoTime \/ r.time < s.time)
        /\ \/ s.time = t.time /\ s.id < t.id
           \/ s.time # t.time /\ s.time # NoTime /\ (t.time = NoTime \/ s.time < t.time)
    BY <1>1, <1>4, EarlierIs
  <2>2. /\ r.id \in Nat /\ r.time \in Int /\ s.id \in Nat /\ s.time \in Int
        /\ t.id \in Nat /\ t.time \in Int
        /\ r.time = NoTime \/ r.time >= 0
        /\ s.time = NoTime \/ s.time >= 0
        /\ t.time = NoTime \/ t.time >= 0
    BY <1>1
  <2>3. \/ r.time = t.time /\ r.id < t.id
        \/ r.time # t.time /\ r.time # NoTime /\ (t.time = NoTime \/ r.time < t.time)
    BY <2>1, <2>2 DEF NoTime
  <2>4. QED
    BY <1>1, <2>3, EarlierIs
<1>5. QED
  BY <1>2, <1>3, <1>4

\* Which report comes first does not matter to whether two repeat each other.
LEMMA DuplicateIs ==
    ASSUME NEW a \in RawReports, NEW b \in RawReports
    PROVE  /\ IsDuplicate(a, b) <=> IsDuplicate(b, a)
           /\ IsDuplicate(a, b) => a.time # NoTime /\ b.time # NoTime
<1>1. a.at \in Int /\ b.at \in Int /\ a.time \in Int /\ b.time \in Int
  BY ReportIs
<1>2. Apart(a.at, b.at) = Apart(b.at, a.at) /\ Apart(a.time, b.time) = Apart(b.time, a.time)
  BY <1>1 DEF Apart
<1>3. /\ IsDuplicate(a, b) => IsDuplicate(b, a)
      /\ IsDuplicate(b, a) => IsDuplicate(a, b)
  BY <1>2 DEF IsDuplicate
<1>4. QED
  BY <1>3 DEF IsDuplicate

\* The reports of a set in their order.
LEMMA ChronologicalIs ==
    ASSUME NEW S, ReportSet(S)
    PROVE  /\ Enumerates(Chronological(S), S)
           /\ \A i, j \in 1 .. Cardinality(S) :
                 i < j => Earlier(Chronological(S)[i], Chronological(S)[j])
<1> DEFINE before == {d \in S \X S : Earlier(d[1], d[2])}
           L == Chronological(S)
           n == Cardinality(S)
<1>1. IsFiniteSet(S)
  BY DEF ReportSet
<1>2. L = InOrder(S, before)
  BY DEF Chronological
<1>3. ASSUME NEW r \in S, NEW s \in S PROVE <<r, s>> \in before <=> Earlier(r, s)
  OBVIOUS
<1> HIDE DEF before, L
<1>4. /\ \A r \in S : <<r, r>> \notin before
      /\ \A r \in S, s \in S : r = s \/ <<r, s>> \in before \/ <<s, r>> \in before
      /\ \A r \in S, s \in S, t \in S :
            <<r, s>> \in before /\ <<s, t>> \in before => <<r, t>> \in before
  BY <1>3, EarlierOrders
<1>5. /\ n \in Nat /\ L \in [1 .. n -> S]
      /\ \A x \in S : \E i \in 1 .. n : L[i] = x
      /\ \A i, j \in 1 .. n : i < j <=> <<L[i], L[j]>> \in before
  BY <1>1, <1>2, <1>4, Enumerated
<1>6. \A i, j \in 1 .. n : L[i] = L[j] => i = j
  <2> SUFFICES ASSUME NEW i \in 1 .. n, NEW j \in 1 .. n, L[i] = L[j] PROVE i = j
    OBVIOUS
  <2>1. <<L[i], L[j]>> \notin before /\ <<L[j], L[i]>> \notin before
    BY <1>4, <1>5
  <2>2. ~(i < j) /\ ~(j < i)
    BY <1>5, <2>1
  <2>3. QED
    BY <1>5, <2>2
<1>7. \A i, j \in 1 .. n : i < j => Earlier(L[i], L[j])
  <2> SUFFICES ASSUME NEW i \in 1 .. n, NEW j \in 1 .. n, i < j PROVE Earlier(L[i], L[j])
    OBVIOUS
  <2>1. L[i] \in S /\ L[j] \in S
    BY <1>5
  <2>2. QED
    BY <1>3, <1>5, <2>1
<1>8. Enumerates(L, S)
  BY <1>5, <1>6 DEF Enumerates
<1>9. QED
  BY <1>7, <1>8 DEF L

-----------------------------------------------------------------------------
\* What is settled of the first i reports of a list.
SettledTo(list, i, done) ==
  /\ done \in [kept : Seq(RawReports), removed : SUBSET Nat]
  /\ \A k, m \in 1 .. Len(done.kept) : done.kept[k] = done.kept[m] => k = m
  /\ \A k \in 1 .. Len(done.kept) : \E j \in 1 .. i : done.kept[k] = list[j]
  /\ done.removed = {list[j].id : j \in {k \in 1 .. i : list[k] \notin ToSet(done.kept)}}
  /\ \A a, b \in ToSet(done.kept) : a # b => ~IsDuplicate(a, b)
  /\ \A j \in 1 .. i : list[j] \notin ToSet(done.kept) =>
        \E k \in 1 .. i : k < j /\ list[k] \in ToSet(done.kept) /\ IsDuplicate(list[j], list[k])

LEMMA ToSetIs ==
    ASSUME NEW R, NEW s \in Seq(R)
    PROVE  /\ Len(s) \in Nat /\ DOMAIN s = 1 .. Len(s) /\ ToSet(s) \subseteq R
           /\ \A x : x \in ToSet(s) <=> \E k \in 1 .. Len(s) : s[k] = x
BY DEF ToSet

LEMMA SettleStep ==
    ASSUME NEW S, ReportSet(S), NEW list, Enumerates(list, S), NEW i \in 1 .. Cardinality(S),
           NEW done, SettledTo(list, i - 1, done)
    PROVE  SettledTo(list, i, Settle(done, list[i]))
<1> DEFINE r == list[i]
           next == Settle(done, r)
           K == ToSet(done.kept)
           n == Len(done.kept)
<1>1. /\ Cardinality(S) \in Nat /\ i \in Nat /\ i - 1 \in Nat /\ S \subseteq RawReports
      /\ \A j \in 1 .. i : list[j] \in S /\ list[j] \in RawReports
      /\ \A j, k \in 1 .. i : list[j] = list[k] => j = k
  BY DEF Enumerates, ReportSet
<1>2. /\ done.kept \in Seq(RawReports) /\ done.removed \in SUBSET Nat
      /\ done \in [kept : Seq(RawReports), removed : SUBSET Nat]
  BY DEF SettledTo
<1>3. /\ n \in Nat /\ K \subseteq RawReports
      /\ \A x : x \in K <=> \E k \in 1 .. n : done.kept[k] = x
  BY <1>2, ToSetIs
<1>4. /\ \A k, m \in 1 .. n : done.kept[k] = done.kept[m] => k = m
      /\ \A k \in 1 .. n : \E j \in 1 .. (i - 1) : done.kept[k] = list[j]
      /\ done.removed = {list[j].id : j \in {k \in 1 .. (i - 1) : list[k] \notin K}}
      /\ \A a, b \in K : a # b => ~IsDuplicate(a, b)
      /\ \A j \in 1 .. (i - 1) : list[j] \notin K =>
            \E k \in 1 .. (i - 1) : k < j /\ list[k] \in K /\ IsDuplicate(list[j], list[k])
  BY DEF SettledTo
<1>5. r \in RawReports /\ r.id \in Nat
  BY <1>1, ReportIs
<1>6. r \notin K
  <2> SUFFICES ASSUME NEW k \in 1 .. n, done.kept[k] = r PROVE FALSE
    BY <1>3
  <2>1. PICK j \in 1 .. (i - 1) : done.kept[k] = list[j]
    BY <1>4
  <2>2. j \in 1 .. i /\ i \in 1 .. i /\ j # i
    BY <1>1
  <2>3. QED
    BY <1>1, <2>1, <2>2
<1>7. \A j \in 1 .. i : j = i \/ j \in 1 .. (i - 1)
  BY <1>1
<1>8. \A j \in 1 .. (i - 1) : j \in 1 .. i /\ j # i
  BY <1>1
<1>9. i \in 1 .. i
  BY <1>1
<1> HIDE DEF K
<1>10. CASE \E q \in K : IsDuplicate(r, q)
  <2>1. PICK q \in K : IsDuplicate(r, q)
    BY <1>10
  <2>2. next = [done EXCEPT !.removed = @ \cup {r.id}]
    BY <2>1 DEF Settle, K
  <2>3. next.kept = done.kept /\ next.removed = done.removed \cup {r.id}
        /\ next \in [kept : Seq(RawReports), removed : SUBSET Nat]
    BY <1>2, <1>5, <2>2
  <2>4. PICK k \in 1 .. (i - 1) : list[k] = q
    BY <1>3, <1>4
  <2>5. k \in 1 .. i /\ k < i /\ list[k] \in K /\ IsDuplicate(list[i], list[k])
    BY <1>1, <2>1, <2>4
  <2>6. {k2 \in 1 .. i : list[k2] \notin K} = {k2 \in 1 .. (i - 1) : list[k2] \notin K} \cup {i}
    BY <1>6, <1>7, <1>8, <1>9
  <2>7. next.removed = {list[j].id : j \in {k2 \in 1 .. i : list[k2] \notin K}}
    BY <1>4, <2>3, <2>6
  <2>8. \A j \in 1 .. i : list[j] \notin K =>
          \E k2 \in 1 .. i : k2 < j /\ list[k2] \in K /\ IsDuplicate(list[j], list[k2])
    <3> SUFFICES ASSUME NEW j \in 1 .. i, list[j] \notin K
                 PROVE  \E k2 \in 1 .. i : k2 < j /\ list[k2] \in K /\ IsDuplicate(list[j], list[k2])
      OBVIOUS
    <3>1. CASE j = i
      BY <2>5, <3>1
    <3>2. CASE j \in 1 .. (i - 1)
      BY <1>4, <1>8, <3>2
    <3>3. QED
      BY <1>7, <3>1, <3>2
  <2>9. \A k2 \in 1 .. n : \E j \in 1 .. i : done.kept[k2] = list[j]
    BY <1>4, <1>8
  <2>10. ToSet(next.kept) = K /\ Len(next.kept) = n
    BY <2>3 DEF K
  <2> HIDE DEF next, r, n
  <2>11. /\ \A k2, m \in 1 .. n : next.kept[k2] = next.kept[m] => k2 = m
         /\ \A k2 \in 1 .. n : \E j \in 1 .. i : next.kept[k2] = list[j]
    BY <1>4, <2>3, <2>9
  <2>12. SettledTo(list, i, next)
    BY <1>4, <2>3, <2>7, <2>8, <2>10, <2>11 DEF SettledTo
  <2>13. QED
    BY <2>12 DEF next, r
<1>11. CASE ~ \E q \in K : IsDuplicate(r, q)
  <2> DEFINE kept == Append(done.kept, r)
             Q == ToSet(kept)
  <2>1. next = [done EXCEPT !.kept = kept]
    BY <1>11 DEF Settle, K
  <2>2. /\ kept \in Seq(RawReports) /\ Len(kept) = n + 1 /\ kept[n + 1] = r
        /\ \A k \in 1 .. n : kept[k] = done.kept[k]
    BY <1>2, <1>5, AppendProperties
  <2> HIDE DEF kept
  <2>3. next.kept = kept /\ next.removed = done.removed
        /\ next \in [kept : Seq(RawReports), removed : SUBSET Nat]
    BY <1>2, <2>1, <2>2
  <2>4. \A k \in 1 .. Len(kept) : k = n + 1 \/ k \in 1 .. n
    BY <1>3, <2>2
  <2>5. n + 1 \in 1 .. Len(kept) /\ \A k \in 1 .. n : k \in 1 .. Len(kept) /\ k # n + 1
    BY <1>3, <2>2
  <2>6. Q = K \cup {r}
    <3>1. \A x : x \in Q <=> \E k \in 1 .. Len(kept) : kept[k] = x
      BY <2>2, ToSetIs
    <3>2. ASSUME NEW x \in Q PROVE x \in K \cup {r}
      <4>1. PICK k \in 1 .. Len(kept) : kept[k] = x
        BY <3>1
      <4>2. QED
        BY <1>3, <2>2, <2>4, <4>1
    <3>3. ASSUME NEW x \in K PROVE x \in Q
      <4>1. PICK k \in 1 .. n : done.kept[k] = x
        BY <1>3
      <4>2. QED
        BY <2>2, <2>5, <3>1, <4>1
    <3>4. r \in Q
      BY <2>2, <2>5, <3>1
    <3> HIDE DEF Q
    <3>5. QED
      BY <3>2, <3>3, <3>4
  <2> HIDE DEF Q
  <2>7. \A k \in 1 .. n : kept[k] \in K
    BY <1>3, <2>2
  <2>8. \A k, m \in 1 .. Len(kept) : kept[k] = kept[m] => k = m
    <3> SUFFICES ASSUME NEW k \in 1 .. Len(kept), NEW m \in 1 .. Len(kept), kept[k] = kept[m]
                 PROVE  k = m
      OBVIOUS
    <3>1. CASE k \in 1 .. n /\ m \in 1 .. n
      BY <1>4, <2>2, <3>1
    <3>2. CASE k = n + 1 /\ m \in 1 .. n
      BY <1>6, <2>2, <2>7, <3>2
    <3>3. CASE m = n + 1 /\ k \in 1 .. n
      BY <1>6, <2>2, <2>7, <3>3
    <3>4. QED
      BY <2>4, <3>1, <3>2, <3>3
  <2>9. \A k \in 1 .. Len(kept) : \E j \in 1 .. i : kept[k] = list[j]
    <3> SUFFICES ASSUME NEW k \in 1 .. Len(kept) PROVE \E j \in 1 .. i : kept[k] = list[j]
      OBVIOUS
    <3>1. CASE k = n + 1
      BY <1>9, <2>2, <3>1
    <3>2. CASE k \in 1 .. n
      BY <1>4, <1>8, <2>2, <3>2
    <3>3. QED
      BY <2>4, <3>1, <3>2
  <2>10. \A j \in 1 .. (i - 1) : list[j] \notin Q <=> list[j] \notin K
    BY <1>1, <1>8, <1>9, <2>6
  <2>11. {k \in 1 .. i : list[k] \notin Q} = {k \in 1 .. (i - 1) : list[k] \notin K}
    BY <1>7, <1>8, <2>6, <2>10
  <2>12. next.removed = {list[j].id : j \in {k \in 1 .. i : list[k] \notin Q}}
    BY <1>4, <2>3, <2>11
  <2>13. \A a, b \in Q : a # b => ~IsDuplicate(a, b)
    <3> SUFFICES ASSUME NEW a \in Q, NEW b \in Q, a # b, IsDuplicate(a, b) PROVE FALSE
      OBVIOUS
    <3>1. a \in RawReports /\ b \in RawReports
      BY <1>3, <1>5, <2>6
    <3>2. IsDuplicate(b, a)
      BY <3>1, DuplicateIs
    <3> HIDE DEF r
    <3>3. QED
      BY <1>4, <1>11, <2>6, <3>2
  <2>14. \A j \in 1 .. i : list[j] \notin Q =>
           \E k \in 1 .. i : k < j /\ list[k] \in Q /\ IsDuplicate(list[j], list[k])
    <3> SUFFICES ASSUME NEW j \in 1 .. i, list[j] \notin Q
                 PROVE  \E k \in 1 .. i : k < j /\ list[k] \in Q /\ IsDuplicate(list[j], list[k])
      OBVIOUS
    <3>1. j \in 1 .. (i - 1) /\ list[j] \notin K
      BY <1>7, <2>6
    <3>2. PICK k \in 1 .. (i - 1) : k < j /\ list[k] \in K /\ IsDuplicate(list[j], list[k])
      BY <1>4, <3>1
    <3>3. QED
      BY <1>8, <2>6, <3>2
  <2> HIDE DEF next, r, n
  <2>15. SettledTo(list, i, next)
    BY <2>3, <2>8, <2>9, <2>12, <2>13, <2>14 DEF SettledTo, Q
  <2>16. QED
    BY <2>15 DEF next, r
<1>12. QED
  BY <1>10, <1>11

\* The settling of a list, report by report.
Settles(list, k, g) ==
  /\ g = [i \in 0 .. k |-> g[i]]
  /\ g[0] = [kept |-> <<>>, removed |-> {}]
  /\ \A i \in 1 .. k : g[i] = Settle(g[i - 1], list[i])

LEMMA SettlesExist ==
    ASSUME NEW list, NEW n \in Nat
    PROVE  \E g : Settles(list, n, g)
<1> DEFINE T == {k \in 0 .. n : \E g : Settles(list, k, g)}
           start == [kept |-> <<>>, removed |-> {}]
<1>1. 0 \in T
  <2> DEFINE g == [i \in 0 .. 0 |-> start]
  <2>1. Settles(list, 0, g)
    BY DEF Settles
  <2>2. QED
    BY <2>1
<1>2. ASSUME NEW k \in 1 .. n, k - 1 \in T PROVE k \in T
  <2>1. PICK g : Settles(list, k - 1, g)
    BY <1>2
  <2> DEFINE last == Settle(g[k - 1], list[k])
             h == [i \in 0 .. k |-> IF i = k THEN last ELSE g[i]]
  <2>2. k \in Nat /\ k # 0
    OBVIOUS
  <2> HIDE DEF last
  <2>3. h[0] = start /\ \A i \in 1 .. k : h[i] = IF i = k THEN last ELSE g[i]
    BY <2>1, <2>2 DEF Settles
  <2>4. \A i \in 1 .. k : h[i - 1] = g[i - 1]
    BY <2>2
  <2>5. \A i \in 1 .. k : i # k => g[i] = Settle(g[i - 1], list[i])
    <3>1. \A i \in 1 .. k - 1 : g[i] = Settle(g[i - 1], list[i])
      BY <2>1 DEF Settles
    <3>2. \A i \in 1 .. k : i # k => i \in 1 .. k - 1
      BY <2>2
    <3>3. QED
      BY <3>1, <3>2
  <2>6. \A i \in 1 .. k : h[i] = Settle(h[i - 1], list[i])
    <3> SUFFICES ASSUME NEW i \in 1 .. k PROVE h[i] = Settle(h[i - 1], list[i])
      OBVIOUS
    <3> HIDE DEF h
    <3>1. CASE i = k
      BY <2>3, <2>4, <3>1 DEF last
    <3>2. CASE i # k
      BY <2>3, <2>4, <2>5, <3>2
    <3>3. QED
      BY <3>1, <3>2
  <2>7. h = [i \in 0 .. k |-> h[i]]
    OBVIOUS
  <2> HIDE DEF h
  <2>8. Settles(list, k, h)
    BY <2>3, <2>6, <2>7 DEF Settles
  <2>9. QED
    BY <2>8
<1> HIDE DEF T
<1>3. \A k \in 0 .. n : k \in T
  BY <1>1, <1>2, StepByStep
<1>4. QED
  BY <1>3 DEF T

\* One to one, a set and its image are equally large.
LEMMA ImageOneToOne ==
    ASSUME NEW S, IsFiniteSet(S), NEW f, \A x, y \in S : f[x] = f[y] => x = y
    PROVE  IsFiniteSet({f[x] : x \in S}) /\ Cardinality({f[x] : x \in S}) = Cardinality(S)
<1> DEFINE T == {f[x] : x \in S}
           g == [x \in S |-> f[x]]
<1>1. g \in Surjection(S, T) /\ g \in Injection(S, T)
  BY DEF Surjection, Injection, IsInjective
<1>2. QED
  BY <1>1, FS_Surjection

\* What deduplication makes of a set of reports.
Deduped(S, d) ==
  /\ d.kept \in Seq(RawReports) /\ ToSet(d.kept) \subseteq S
  /\ \A k, m \in 1 .. Len(d.kept) : d.kept[k] = d.kept[m] => k = m
  /\ d.removed = {r.id : r \in S \ ToSet(d.kept)}
  /\ \A a, b \in ToSet(d.kept) : a # b => ~IsDuplicate(a, b)
  /\ \A r \in S \ ToSet(d.kept) : \E q \in ToSet(d.kept) : IsDuplicate(r, q) /\ Earlier(q, r)

LEMMA DedupedIs ==
    ASSUME NEW S, ReportSet(S)
    PROVE  Deduped(S, Dedupe(S))
<1> DEFINE n == Cardinality(S)
           list == Chronological(S)
           start == [kept |-> <<>>, removed |-> {}]
           done == CHOOSE g : g = [i \in 0 .. n |-> IF i = 0 THEN start ELSE Settle(g[i - 1], list[i])]
<1>1. n \in Nat /\ S \subseteq RawReports
  BY FS_CardinalityType DEF ReportSet
<1>2. Enumerates(list, S) /\ \A i, j \in 1 .. n : i < j => Earlier(list[i], list[j])
  BY ChronologicalIs
<1>3. Dedupe(S) = done[n]
  BY DEF Dedupe
<1> HIDE DEF list
<1>4. PICK g : Settles(list, n, g)
  BY <1>1, SettlesExist
<1>5. g = [i \in 0 .. n |-> IF i = 0 THEN start ELSE Settle(g[i - 1], list[i])]
  <2>1. \A i \in 0 .. n : g[i] = IF i = 0 THEN start ELSE Settle(g[i - 1], list[i])
    <3>1. \A i \in 0 .. n : i = 0 \/ i \in 1 .. n
      BY <1>1
    <3>2. \A i \in 1 .. n : i # 0
      BY <1>1
    <3> HIDE DEF n
    <3>3. QED
      BY <1>4, <3>1, <3>2 DEF Settles
  <2>2. g = [i \in 0 .. n |-> g[i]]
    BY <1>4 DEF Settles
  <2> HIDE DEF n, start
  <2>3. QED
    BY <2>1, <2>2
<1>6. done = [i \in 0 .. n |-> IF i = 0 THEN start ELSE Settle(done[i - 1], list[i])]
  <2> HIDE DEF n, start
  <2>1. QED
    BY <1>5
<1> HIDE DEF done
<1>7. done[0] = start /\ \A i \in 1 .. n : done[i] = Settle(done[i - 1], list[i])
  <2> HIDE DEF start
  <2>1. 0 \in 0 .. n /\ \A i \in 1 .. n : i \in 0 .. n /\ i # 0
    BY <1>1
  <2>2. QED
    BY <1>6, <2>1
<1> DEFINE T == {k \in 0 .. n : SettledTo(list, k, done[k])}
<1>8. 0 \in T
  <2>1. /\ done[0].kept = <<>> /\ done[0].removed = {}
        /\ done[0] \in [kept : Seq(RawReports), removed : SUBSET Nat]
    BY <1>7
  <2>2. ToSet(done[0].kept) = {} /\ Len(done[0].kept) = 0
    BY <2>1 DEF ToSet
  <2>3. SettledTo(list, 0, done[0])
    BY <2>1, <2>2 DEF SettledTo
  <2>4. QED
    BY <1>1, <2>3
<1>9. ASSUME NEW k \in 1 .. n, k - 1 \in T PROVE k \in T
  <2>1. SettledTo(list, k - 1, done[k - 1])
    BY <1>9
  <2>2. SettledTo(list, k, done[k])
    BY <1>2, <1>7, <2>1, SettleStep
  <2>3. QED
    BY <1>1, <2>2
<1>10. SettledTo(list, n, done[n])
  <2> HIDE DEF T
  <2>1. \A k \in 0 .. n : k \in T
    BY <1>1, <1>8, <1>9, StepByStep
  <2>2. QED
    BY <1>1, <2>1 DEF T
<1> DEFINE d == done[n]
           K == ToSet(d.kept)
<1> HIDE DEF T
<1>11. d.kept \in Seq(RawReports)
  BY <1>10 DEF SettledTo
<1>12. Len(d.kept) \in Nat /\ \A x : x \in K <=> \E k \in 1 .. Len(d.kept) : d.kept[k] = x
  BY <1>11, ToSetIs
<1>13. /\ \A k, m \in 1 .. Len(d.kept) : d.kept[k] = d.kept[m] => k = m
       /\ \A k \in 1 .. Len(d.kept) : \E j \in 1 .. n : d.kept[k] = list[j]
       /\ d.removed = {list[j].id : j \in {k \in 1 .. n : list[k] \notin K}}
       /\ \A a, b \in K : a # b => ~IsDuplicate(a, b)
       /\ \A j \in 1 .. n : list[j] \notin K =>
            \E k \in 1 .. n : k < j /\ list[k] \in K /\ IsDuplicate(list[j], list[k])
  BY <1>10 DEF SettledTo
<1> HIDE DEF d, K, n
<1>14. /\ \A j \in 1 .. n : list[j] \in S
       /\ \A x \in S : \E j \in 1 .. n : list[j] = x
  BY <1>2 DEF Enumerates, n
<1>15. K \subseteq S
  BY <1>12, <1>13, <1>14
<1>16. d.removed = {r.id : r \in S \ K}
  <2>1. \A r \in S \ K : \E j \in {k \in 1 .. n : list[k] \notin K} : list[j] = r
    BY <1>14
  <2>2. \A j \in {k \in 1 .. n : list[k] \notin K} : list[j] \in S \ K
    BY <1>14
  <2>3. QED
    BY <1>13, <2>1, <2>2
<1>17. ASSUME NEW r \in S \ K PROVE \E q \in K : IsDuplicate(r, q) /\ Earlier(q, r)
  <2>1. PICK j \in 1 .. n : list[j] = r
    BY <1>14
  <2>2. PICK k \in 1 .. n : k < j /\ list[k] \in K /\ IsDuplicate(list[j], list[k])
    BY <1>13, <2>1
  <2>3. QED
    BY <1>2, <2>1, <2>2 DEF n
<1>18. Deduped(S, d)
  BY <1>11, <1>13, <1>15, <1>16, <1>17 DEF Deduped, K
<1>19. QED
  BY <1>3, <1>18 DEF d, n, done, list, start

-----------------------------------------------------------------------------
\* Where a report is put: on the nearest street within the limit, or on none.
SnappedTo(at, segment) ==
  IF segment = NoStreet THEN \A s \in DOMAIN StreetAt : Apart(at, StreetAt[s]) > SnapMax
  ELSE /\ segment \in DOMAIN StreetAt
       /\ Apart(at, StreetAt[segment]) <= SnapMax
       /\ \A s \in DOMAIN StreetAt : Apart(at, StreetAt[segment]) <= Apart(at, StreetAt[s])

LEMMA SnapIs ==
    ASSUME NEW report, report.at \in Int
    PROVE  SnappedTo(report.at, SnapTo(report).segment)
<1> DEFINE at == report.at
           D == DOMAIN StreetAt
           gap == [s \in D |-> Apart(at, StreetAt[s])]
           Nearest(s) == \A t \in D : gap[s] < gap[t] \/ (gap[s] = gap[t] /\ s <= t)
           near == CHOOSE s \in D : Nearest(s)
           snap == SnapTo(report)
<1>1. D \subseteq Nat \ {NoStreet} /\ \A s \in D : StreetAt[s] \in Int
  BY PipelineAssumption
<1>2. ASSUME NEW s \in D PROVE gap[s] \in Nat /\ gap[s] = Apart(at, StreetAt[s])
  BY <1>1 DEF Apart
<1>3. SnapMax \in Nat
  BY PipelineAssumption
<1>4. D # {} => near \in D /\ Nearest(near)
  <2> SUFFICES ASSUME D # {} PROVE \E s \in D : Nearest(s)
    OBVIOUS
  <2> HIDE DEF gap, D
  <2> DEFINE G == {gap[s] : s \in D}
  <2>1. G \in SUBSET Nat /\ G # {}
    BY <1>2
  <2>2. PICK g \in G : \A h \in G : g <= h
    BY <2>1, LeastNatural
  <2> DEFINE F == {s \in D : gap[s] = g}
  <2>3. F \in SUBSET Nat /\ F # {}
    BY <1>1, <2>2
  <2>4. PICK s \in F : \A t \in F : s <= t
    BY <2>3, LeastNatural
  <2>5. ASSUME NEW t \in D PROVE gap[s] < gap[t] \/ (gap[s] = gap[t] /\ s <= t)
    <3>1. gap[s] = g /\ gap[s] \in Nat /\ gap[t] \in Nat /\ g <= gap[t]
      BY <1>2, <2>2
    <3>2. gap[t] = g => s <= t
      BY <2>4
    <3>3. QED
      BY <3>1, <3>2
  <2>6. QED
    BY <2>5
<1>5. near = CHOOSE s \in D : \A t \in D : Apart(at, StreetAt[s]) < Apart(at, StreetAt[t])
                                           \/ (Apart(at, StreetAt[s]) = Apart(at, StreetAt[t]) /\ s <= t)
  OBVIOUS
<1>6. snap.segment = IF D = {} \/ Apart(at, StreetAt[near]) > SnapMax THEN NoStreet ELSE near
  BY <1>5 DEF SnapTo
<1> HIDE DEF gap, near, snap, D
<1>7. CASE D = {}
  <2>1. snap.segment = NoStreet
    BY <1>6, <1>7
  <2>2. QED
    BY <1>7, <2>1 DEF SnappedTo, snap, D
<1>8. CASE D # {}
  <2>1. near \in D /\ Nearest(near)
    BY <1>4, <1>8
  <2>2. ASSUME NEW s \in D PROVE Apart(at, StreetAt[near]) <= Apart(at, StreetAt[s])
    BY <1>2, <2>1
  <2>3. ASSUME NEW s \in D, Apart(at, StreetAt[near]) > SnapMax PROVE Apart(at, StreetAt[s]) > SnapMax
    BY <1>2, <1>3, <2>1, <2>2, <2>3
  <2>4. near # NoStreet /\ Apart(at, StreetAt[near]) \in Nat
    BY <1>1, <1>2, <2>1
  <2>5. CASE Apart(at, StreetAt[near]) > SnapMax
    <3>1. snap.segment = NoStreet
      BY <1>6, <2>5
    <3>2. QED
      BY <2>3, <2>5, <3>1 DEF SnappedTo, snap, D
  <2>6. CASE ~(Apart(at, StreetAt[near]) > SnapMax)
    <3>1. snap.segment = near /\ near # NoStreet
      BY <1>6, <1>8, <2>4, <2>6
    <3>2. Apart(at, StreetAt[near]) <= SnapMax
      BY <1>3, <2>4, <2>6
    <3>3. QED
      BY <2>1, <2>2, <3>1, <3>2 DEF SnappedTo, snap, D
  <2>7. QED
    BY <2>5, <2>6
<1>9. QED
  BY <1>7, <1>8 DEF snap

\* Where a report is, once its address is resolved.
PlaceOf(r) == IF r.at # Unset THEN r.at
              ELSE IF r.address \in DOMAIN Gazetteer THEN Gazetteer[r.address] ELSE Unset

LEMMA RecordIs ==
    ASSUME NEW r \in RawReports
    PROVE  CleanRecord(r).id = r.id /\ SnappedTo(PlaceOf(r), CleanRecord(r).segment)
<1>1. r.at \in Int
  BY ReportIs
<1>2. Geocode(r).at = PlaceOf(r) /\ PlaceOf(r) \in Int
  <2>1. CASE r.at = Unset /\ r.address \in DOMAIN Gazetteer
    <3>1. Geocode(r) = [r EXCEPT !.at = Gazetteer[r.address]]
      BY <2>1 DEF Geocode
    <3>2. Geocode(r).at = Gazetteer[r.address]
      BY <3>1 DEF RawReports
    <3>3. QED
      BY <2>1, <3>2, PipelineAssumption DEF PlaceOf
  <2>2. CASE ~(r.at = Unset /\ r.address \in DOMAIN Gazetteer)
    <3>1. Geocode(r) = r
      BY <2>2 DEF Geocode
    <3>2. QED
      BY <1>1, <2>2, <3>1 DEF PlaceOf
  <2>3. QED
    BY <2>1, <2>2
<1>3. SnappedTo(PlaceOf(r), SnapTo(Geocode(r)).segment)
  BY <1>2, SnapIs
<1>4. CleanRecord(r).id = r.id /\ CleanRecord(r).segment = SnapTo(Geocode(r)).segment
  BY DEF CleanRecord
<1>5. QED
  BY <1>3, <1>4

\* The members of a sequence are finitely many, as many as its places when none is repeated.
LEMMA MembersAre ==
    ASSUME NEW R, NEW s \in Seq(R)
    PROVE  /\ IsFiniteSet(ToSet(s)) /\ Len(s) \in Nat /\ IsFiniteSet(1 .. Len(s))
           /\ (\A k, m \in 1 .. Len(s) : s[k] = s[m] => k = m) => Cardinality(ToSet(s)) = Len(s)
<1>1. Len(s) \in Nat /\ ToSet(s) = {s[k] : k \in 1 .. Len(s)}
  BY DEF ToSet
<1>2. IsFiniteSet(1 .. Len(s)) /\ Cardinality(1 .. Len(s)) = Len(s)
  <2> DEFINE n == Len(s)
  <2>1. n \in Nat
    BY <1>1
  <2> HIDE DEF n
  <2>2. 1 \in Int /\ n \in Int
    BY <2>1
  <2>3. IsFiniteSet(1 .. n) /\ Cardinality(1 .. n) = IF 1 > n THEN 0 ELSE n - 1 + 1
    BY <2>2, FS_Interval
  <2>4. QED
    BY <2>1, <2>3 DEF n
<1>3. IsFiniteSet(ToSet(s))
  BY <1>1, <1>2, ImageFinite
<1>4. (\A k, m \in 1 .. Len(s) : s[k] = s[m] => k = m) => Cardinality(ToSet(s)) = Len(s)
  BY <1>1, <1>2, ImageOneToOne
<1>5. QED
  BY <1>1, <1>2, <1>3, <1>4

\* Every report of a window is a record or was removed for a record that is earlier, and the summary
\* adds up.
LEMMA PipelineHolds ==
    ASSUME NEW reports, NEW first, NEW last, PipelineRequest(reports, first, last)
    PROVE  EachEventOnce(reports, first, last, RunPipeline(reports, first, last))
<1> DEFINE All == ToSet(reports)
           S == {r \in All : InWindow(r, first, last)}
           d == Dedupe(S)
           K == ToSet(d.kept)
           n == Len(d.kept)
           records == [i \in DOMAIN d.kept |-> CleanRecord(d.kept[i])]
           placed == {i \in DOMAIN records : records[i].segment # NoStreet}
           result == RunPipeline(reports, first, last)
           sum == result.summary
<1>1. /\ reports \in Seq(RawReports) /\ first \in Nat \cup {Open} /\ last \in Nat \cup {Open}
      /\ \A i, j \in DOMAIN reports : reports[i].id = reports[j].id => i = j
  BY DEF PipelineRequest
<1>2. /\ IsFiniteSet(All) /\ Len(reports) \in Nat /\ All \subseteq RawReports
      /\ \A x : x \in All <=> \E k \in 1 .. Len(reports) : reports[k] = x
      /\ DOMAIN reports = 1 .. Len(reports)
  BY <1>1, MembersAre, ToSetIs
<1>3. \A r, s \in All : r.id = s.id => r = s
  <2> SUFFICES ASSUME NEW r \in All, NEW s \in All, r.id = s.id PROVE r = s
    OBVIOUS
  <2>1. PICK k \in 1 .. Len(reports) : reports[k] = r
    BY <1>2
  <2>2. PICK m \in 1 .. Len(reports) : reports[m] = s
    BY <1>2
  <2>3. k = m
    BY <1>1, <1>2, <2>1, <2>2
  <2>4. QED
    BY <2>1, <2>2, <2>3
<1>4. S \subseteq All /\ IsFiniteSet(S)
  BY <1>2, FS_Subset
<1>5. ReportSet(S)
  BY <1>2, <1>3, <1>4 DEF ReportSet
<1>6. /\ result.records = records /\ result.removed = d.removed
      /\ sum.reportsIn = Len(reports) /\ sum.outside = Len(reports) - Cardinality(S)
      /\ sum.removed = Cardinality(d.removed) /\ sum.snapped = Cardinality(placed)
      /\ sum.unsnapped = Len(records) - Cardinality(placed)
  BY DEF RunPipeline
<1>7. S = {r \in All : first <= r.day /\ (r.day <= last \/ last = Open)}
  <2>1. ASSUME NEW r \in All
        PROVE  InWindow(r, first, last) <=> first <= r.day /\ (r.day <= last \/ last = Open)
    <3>1. r.day \in Nat
      BY <1>2, ReportIs
    <3>2. QED
      BY <1>1, <3>1 DEF InWindow, Open
  <2>2. QED
    BY <2>1
<1> HIDE DEF S, All, result
<1>8. /\ d.kept \in Seq(RawReports) /\ K \subseteq S
      /\ \A k, m \in 1 .. n : d.kept[k] = d.kept[m] => k = m
      /\ d.removed = {r.id : r \in S \ K}
      /\ \A a, b \in K : a # b => ~IsDuplicate(a, b)
      /\ \A r \in S \ K : \E q \in K : IsDuplicate(r, q) /\ Earlier(q, r)
  BY <1>5, DedupedIs DEF Deduped
<1> HIDE DEF d
<1>9. /\ n \in Nat /\ DOMAIN d.kept = 1 .. n
      /\ \A x : x \in K <=> \E k \in 1 .. n : d.kept[k] = x
  BY <1>8, ToSetIs
<1>10. Cardinality(K) = n /\ IsFiniteSet(1 .. n)
  BY <1>8, MembersAre
<1> HIDE DEF K, n
<1>11. \A r \in S : r \in RawReports
  BY <1>5 DEF ReportSet
<1>12. DOMAIN records = 1 .. n /\ Len(records) = n /\ \A i \in 1 .. n : records[i] = CleanRecord(d.kept[i])
  BY <1>9
<1>13. \A i \in 1 .. n : d.kept[i] \in K /\ d.kept[i] \in RawReports
  BY <1>8, <1>9, <1>11
<1> HIDE DEF records
<1>14. \A i \in 1 .. n : /\ records[i].id = d.kept[i].id
                         /\ SnappedTo(PlaceOf(d.kept[i]), records[i].segment)
  BY <1>12, <1>13, RecordIs
<1> DEFINE Recorded == {r \in All : \E i \in DOMAIN result.records : result.records[i].id = r.id}
           Gone == {r \in All : r.id \in result.removed}
<1>15. Recorded = K
  <2>1. ASSUME NEW r \in All, NEW i \in 1 .. n, records[i].id = r.id PROVE r \in K
    <3>1. d.kept[i] \in K /\ d.kept[i] \in All /\ d.kept[i].id = r.id
      BY <1>4, <1>8, <1>13, <1>14, <2>1
    <3>2. QED
      BY <1>3, <3>1
  <2>2. ASSUME NEW r \in K PROVE r \in All /\ \E i \in 1 .. n : records[i].id = r.id
    <3>1. PICK i \in 1 .. n : d.kept[i] = r
      BY <1>9
    <3>2. QED
      BY <1>4, <1>8, <1>14, <3>1
  <2>3. QED
    BY <1>6, <1>12, <2>1, <2>2
<1>16. Gone = S \ K
  <2>1. ASSUME NEW r \in All, r.id \in d.removed PROVE r \in S \ K
    <3>1. PICK q \in S \ K : q.id = r.id
      BY <1>8, <2>1
    <3>2. q = r
      BY <1>3, <1>4, <3>1
    <3>3. QED
      BY <3>1, <3>2
  <2>2. ASSUME NEW r \in S \ K PROVE r \in All /\ r.id \in d.removed
    BY <1>4, <1>8
  <2>3. QED
    BY <1>6, <2>1, <2>2
<1> HIDE DEF Recorded, Gone
<1>17. \A a, b \in Recorded : a # b => ~IsDuplicate(a, b)
  BY <1>8, <1>15
<1>18. \A r \in Gone : \E q \in Recorded :
          IsDuplicate(r, q) /\ (q.time < r.time \/ (q.time = r.time /\ q.id < r.id))
  <2> SUFFICES ASSUME NEW r \in S \ K
               PROVE  \E q \in K : IsDuplicate(r, q) /\ (q.time < r.time \/ (q.time = r.time /\ q.id < r.id))
    BY <1>15, <1>16
  <2>1. PICK q \in K : IsDuplicate(r, q) /\ Earlier(q, r)
    BY <1>8
  <2>2. q \in RawReports /\ r \in RawReports
    BY <1>8, <1>11
  <2>3. q.time # NoTime /\ r.time # NoTime
    BY <2>1, <2>2, DuplicateIs
  <2>4. q.time < r.time \/ (q.time = r.time /\ q.id < r.id)
    BY <2>1, <2>2, <2>3, EarlierIs
  <2>5. QED
    BY <2>1, <2>4
<1>19. Recorded \cap Gone = {} /\ Recorded \cup Gone = S
  BY <1>8, <1>15, <1>16
<1>20. Len(result.records) = Cardinality(Recorded)
  BY <1>6, <1>10, <1>12, <1>15
<1>21. sum.reportsIn = sum.outside + sum.removed + sum.snapped + sum.unsnapped
  <2>1. IsFiniteSet(K) /\ IsFiniteSet(S \ K) /\ K \cup (S \ K) = S
    BY <1>4, <1>8, FS_Subset
  <2>2. Cardinality(S) = Cardinality(K) + Cardinality(S \ K)
    <3>1. Cardinality(K \cup (S \ K)) = Cardinality(K) + Cardinality(S \ K)
      BY <2>1, K \cap (S \ K) = {}, CardinalitiesAdd
    <3>2. QED
      BY <2>1, <3>1
  <2>3. Cardinality(d.removed) = Cardinality(S \ K)
    <3> DEFINE ids == [r \in S |-> r.id]
    <3>1. \A x, y \in S \ K : ids[x] = ids[y] => x = y
      BY <1>3, <1>4
    <3>2. {ids[x] : x \in S \ K} = d.removed
      BY <1>8
    <3> HIDE DEF ids
    <3>3. QED
      BY <2>1, <3>1, <3>2, ImageOneToOne
  <2>4. placed \subseteq 1 .. n
    BY <1>12
  <2>5. Cardinality(placed) \in Nat /\ Cardinality(S) \in Nat /\ Cardinality(S \ K) \in Nat
    <3> HIDE DEF placed
    <3>1. IsFiniteSet(placed)
      BY <1>10, <2>4, FS_Subset
    <3>2. QED
      BY <1>4, <2>1, <3>1, FS_CardinalityType
  <2> DEFINE p == Cardinality(placed)
             c == Cardinality(S)
             g == Cardinality(S \ K)
  <2>6. /\ sum.reportsIn = Len(reports) /\ sum.outside = Len(reports) - c
        /\ sum.removed = g /\ sum.snapped = p /\ sum.unsnapped = n - p
    BY <1>6, <1>12, <2>3, Zenon
  <2>7. Len(reports) \in Nat /\ n \in Nat /\ p \in Nat /\ c \in Nat /\ g \in Nat /\ c = n + g
    BY <1>2, <1>9, <1>10, <2>2, <2>5
  <2> HIDE DEF sum, placed, p, c, g
  <2>8. QED
    BY <2>6, <2>7
<1>22. \A i \in DOMAIN result.records : \A r \in Recorded :
          result.records[i].id = r.id => SnappedTo(PlaceOf(r), result.records[i].segment)
  <2> SUFFICES ASSUME NEW i \in 1 .. n, NEW r \in K, records[i].id = r.id
               PROVE  SnappedTo(PlaceOf(r), records[i].segment)
    BY <1>6, <1>12, <1>15
  <2>1. d.kept[i] \in K /\ d.kept[i].id = r.id
    BY <1>13, <1>14
  <2>2. d.kept[i] = r
    BY <1>3, <1>4, <1>8, <2>1
  <2>3. QED
    BY <1>14, <2>2
<1>23. \A i \in DOMAIN result.records : \A r \in Recorded :
          LET rec   == result.records[i]
              place == IF r.at # Unset THEN r.at
                       ELSE IF r.address \in DOMAIN Gazetteer THEN Gazetteer[r.address] ELSE Unset
          IN rec.id = r.id =>
               IF rec.segment = NoStreet
               THEN \A s \in DOMAIN StreetAt : Apart(place, StreetAt[s]) > SnapMax
               ELSE /\ Apart(place, StreetAt[rec.segment]) <= SnapMax
                    /\ \A s \in DOMAIN StreetAt :
                         Apart(place, StreetAt[rec.segment]) <= Apart(place, StreetAt[s])
  BY <1>22 DEF SnappedTo, PlaceOf
<1>24. Recorded \cup Gone = {r \in All : first <= r.day /\ (r.day <= last \/ last = Open)}
  BY <1>7, <1>19
<1>25. QED
  BY <1>17, <1>18, <1>19, <1>20, <1>21, <1>23, <1>24, Zenon DEF EachEventOnce, Recorded, Gone, All, result, sum

-----------------------------------------------------------------------------
(* Clusters: what the step-up procedure finds is the largest set that      *)
(* keeps its promise.                                                      *)

\* What is tested.
PValues(p) == /\ IsFiniteSet(DOMAIN p) /\ DOMAIN p \subseteq Nat
              /\ \A s \in DOMAIN p : p[s] \in Nat

LEMMA TimesGrows ==
    ASSUME NEW a \in Nat, NEW b \in Nat, NEW c \in Nat, a <= b
    PROVE  a * c <= b * c /\ a * c \in Nat /\ b * c \in Nat
<1>1. b = a + (b - a) /\ b - a \in Nat
  OBVIOUS
<1> DEFINE d == b - a
<1> HIDE DEF d
<1>2. d \in Nat /\ b = a + d
  BY <1>1 DEF d
<1>3. (a + d) * c = a * c + d * c /\ a * c \in Nat /\ d * c \in Nat
  BY <1>2
<1>4. QED
  BY <1>2, <1>3

\* Between 1 and n.
LEMMA CountsUp ==
    ASSUME NEW n \in Nat
    PROVE  IsFiniteSet(1 .. n) /\ Cardinality(1 .. n) = n
<1>1. 1 \in Int /\ n \in Int
  OBVIOUS
<1>2. IsFiniteSet(1 .. n) /\ Cardinality(1 .. n) = IF 1 > n THEN 0 ELSE n - 1 + 1
  BY <1>1, FS_Interval
<1>3. QED
  BY <1>2

\* Of finitely many numbers one is the greatest.
LEMMA GreatestIs ==
    ASSUME NEW n \in Nat, NEW R \in SUBSET (0 .. n), R # {}
    PROVE  Max(R) \in R /\ \A r \in R : Max(R) >= r
<1> DEFINE T == {n - r : r \in R}
<1>1. T \in SUBSET Nat /\ T # {}
  OBVIOUS
<1>2. PICK t \in T : \A u \in T : t <= u
  BY <1>1, LeastNatural
<1>3. PICK x \in R : t = n - x
  BY <1>2
<1>4. ASSUME NEW r \in R PROVE x >= r
  <2>1. n - x <= n - r
    BY <1>2, <1>3
  <2>2. QED
    BY <2>1
<1>5. \E y \in R : \A r \in R : y >= r
  BY <1>4
<1>6. QED
  BY <1>5 DEF Max

LEMMA ByPIs ==
    ASSUME NEW p, PValues(p)
    PROVE  /\ Enumerates(ByP(p), DOMAIN p)
           /\ \A i, j \in 1 .. Cardinality(DOMAIN p) : i <= j => p[ByP(p)[i]] <= p[ByP(p)[j]]
<1> DEFINE S == DOMAIN p
           Before(s, t) == p[s] < p[t] \/ (p[s] = p[t] /\ s < t)
           before == {d \in S \X S : Before(d[1], d[2])}
           L == ByP(p)
           n == Cardinality(S)
<1>1. IsFiniteSet(S) /\ S \subseteq Nat /\ \A s \in S : p[s] \in Nat
  BY DEF PValues
<1>2. L = InOrder(S, before)
  BY DEF ByP
<1>3. ASSUME NEW s \in S, NEW t \in S PROVE <<s, t>> \in before <=> Before(s, t)
  OBVIOUS
<1> HIDE DEF before, L, S
<1>4. /\ \A s \in S : <<s, s>> \notin before
      /\ \A s \in S, t \in S : s = t \/ <<s, t>> \in before \/ <<t, s>> \in before
      /\ \A s \in S, t \in S, u \in S :
            <<s, t>> \in before /\ <<t, u>> \in before => <<s, u>> \in before
  BY <1>1, <1>3
<1>5. /\ n \in Nat /\ L \in [1 .. n -> S]
      /\ \A x \in S : \E i \in 1 .. n : L[i] = x
      /\ \A i, j \in 1 .. n : i < j <=> <<L[i], L[j]>> \in before
  <2>1. IsFiniteSet(S)
    BY <1>1
  <2>2. /\ n \in Nat /\ InOrder(S, before) \in [1 .. n -> S]
        /\ \A x \in S : \E i \in 1 .. n : InOrder(S, before)[i] = x
        /\ \A i, j \in 1 .. n : i < j <=> <<InOrder(S, before)[i], InOrder(S, before)[j]>> \in before
    BY <1>4, <2>1, Enumerated
  <2>3. QED
    BY <1>2, <2>2, Zenon
<1>6. \A i, j \in 1 .. n : L[i] = L[j] => i = j
  <2> SUFFICES ASSUME NEW i \in 1 .. n, NEW j \in 1 .. n, L[i] = L[j] PROVE i = j
    OBVIOUS
  <2>1. <<L[i], L[j]>> \notin before /\ <<L[j], L[i]>> \notin before
    BY <1>4, <1>5
  <2>2. ~(i < j) /\ ~(j < i)
    BY <1>5, <2>1
  <2>3. QED
    BY <1>5, <2>2
<1>7. \A i, j \in 1 .. n : i <= j => p[L[i]] <= p[L[j]]
  <2> SUFFICES ASSUME NEW i \in 1 .. n, NEW j \in 1 .. n, i <= j PROVE p[L[i]] <= p[L[j]]
    OBVIOUS
  <2>1. L[i] \in S /\ L[j] \in S /\ p[L[i]] \in Nat /\ p[L[j]] \in Nat
    BY <1>1, <1>5
  <2>2. CASE i = j
    BY <2>1, <2>2
  <2>3. CASE i < j
    <3>1. Before(L[i], L[j])
      BY <1>3, <1>5, <2>1, <2>3
    <3>2. QED
      BY <2>1, <3>1
  <2>4. QED
    BY <1>5, <2>2, <2>3
<1>8. Enumerates(L, S)
  BY <1>5, <1>6 DEF Enumerates
<1>9. QED
  BY <1>7, <1>8 DEF L, S

\* A set that keeps its promise: no p-value above its share of the level.
Promised(p, level, S) ==
  \A s \in S : p[s] * Cardinality(DOMAIN p) * level.den <= Cardinality(S) * level.num

LEMMA StepUpFinds ==
    ASSUME NEW p, PValues(p), NEW level \in [num : Nat, den : Nat]
    PROVE  /\ BenjaminiHochberg(p, level) \subseteq DOMAIN p
           /\ Promised(p, level, BenjaminiHochberg(p, level))
           /\ \A S \in SUBSET DOMAIN p : Promised(p, level, S) => S \subseteq BenjaminiHochberg(p, level)
<1> DEFINE D == DOMAIN p
           m == Cardinality(D)
           L == ByP(p)
           Cost(s) == p[s] * m * level.den
           passing == {rank \in 1 .. m : Cost(L[rank]) <= rank * level.num}
           k == Max(passing \cup {0})
           Firsts(i) == {L[j] : j \in 1 .. i}
           B == BenjaminiHochberg(p, level)
<1>1. m \in Nat /\ IsFiniteSet(D) /\ \A s \in D : p[s] \in Nat
  BY FS_CardinalityType DEF PValues
<1>2. level.num \in Nat /\ level.den \in Nat
  OBVIOUS
<1>3. /\ L \in [1 .. m -> D]
      /\ \A x \in D : \E i \in 1 .. m : L[i] = x
      /\ \A i, j \in 1 .. m : L[i] = L[j] => i = j
      /\ \A i, j \in 1 .. m : i <= j => p[L[i]] <= p[L[j]]
  BY ByPIs DEF Enumerates
<1>4. B = Firsts(k)
  BY DEF BenjaminiHochberg
<1> HIDE DEF L, m, B
<1>5. k \in passing \cup {0} /\ \A r \in passing : k >= r
  <2> DEFINE R == passing \cup {0}
  <2>1. R \in SUBSET (0 .. m) /\ R # {}
    BY <1>1
  <2> HIDE DEF R
  <2>2. Max(R) \in R /\ \A r \in R : Max(R) >= r
    BY <1>1, <2>1, GreatestIs
  <2>3. QED
    BY <2>2 DEF R
<1>6. k \in 0 .. m /\ k \in Nat
  BY <1>1, <1>5
<1>7. ASSUME NEW s \in D PROVE Cost(s) \in Nat
  BY <1>1, <1>2, <1>7
<1>8. ASSUME NEW s \in D, NEW t \in D, p[s] <= p[t] PROVE Cost(s) <= Cost(t)
  <2>1. p[s] \in Nat /\ p[t] \in Nat
    BY <1>1
  <2>2. p[s] * m <= p[t] * m /\ p[s] * m \in Nat /\ p[t] * m \in Nat
    BY <1>1, <1>8, <2>1, TimesGrows
  <2>3. QED
    BY <1>2, <2>2, TimesGrows
<1>9. ASSUME NEW i \in 0 .. m PROVE IsFiniteSet(Firsts(i)) /\ Cardinality(Firsts(i)) = i
  <2>1. i \in Nat /\ IsFiniteSet(1 .. i) /\ Cardinality(1 .. i) = i
    BY <1>1, CountsUp
  <2>2. \A j \in 1 .. i : j \in 1 .. m
    BY <1>1
  <2>3. \A x, y \in 1 .. i : L[x] = L[y] => x = y
    BY <1>3, <2>2
  <2>4. QED
    BY <2>1, <2>3, ImageOneToOne
<1> HIDE DEF passing, k
<1>10. \A j \in 1 .. k : j \in 1 .. m /\ j <= k
  BY <1>1, <1>6
<1>11. B \subseteq D
  BY <1>3, <1>4, <1>10
<1>12. Promised(p, level, B)
  <2> SUFFICES ASSUME NEW s \in B PROVE Cost(s) <= Cardinality(B) * level.num
    BY DEF Promised, m
  <2>1. PICK i \in 1 .. k : s = L[i]
    BY <1>4
  <2>2. k \in passing
    BY <1>5, <2>1
  <2>3. k \in 1 .. m /\ Cost(L[k]) <= k * level.num
    BY <2>2 DEF passing
  <2>4. i \in 1 .. m /\ i <= k /\ L[i] \in D /\ L[k] \in D
    BY <1>3, <1>10, <2>3
  <2>5. Cost(s) <= Cost(L[k]) /\ Cost(s) \in Nat /\ Cost(L[k]) \in Nat
    BY <1>3, <1>7, <1>8, <2>1, <2>3, <2>4
  <2>6. Cardinality(B) = k
    BY <1>4, <1>6, <1>9
  <2>7. k * level.num \in Nat
    BY <1>2, <1>6
  <2> HIDE DEF Cost
  <2>8. QED
    BY <2>3, <2>5, <2>6, <2>7
<1>13. ASSUME NEW S \in SUBSET D, Promised(p, level, S) PROVE S \subseteq B
  <2> SUFFICES ASSUME NEW s \in S, s \notin B PROVE FALSE
    OBVIOUS
  <2> DEFINE c == Cardinality(S)
  <2>1. c \in Nat /\ IsFiniteSet(S) /\ c <= m
    <3>1. IsFiniteSet(S) /\ Cardinality(S) <= Cardinality(D)
      BY <1>1, FS_Subset
    <3>2. QED
      BY <3>1, FS_CardinalityType DEF m
  <2>2. \A t \in S : Cost(t) <= c * level.num
    BY <1>13 DEF Promised, m
  <2> HIDE DEF c
  <2>3. ASSUME NEW q \in 1 .. m, L[q] \in S, c <= q PROVE q <= k
    <3>1. Cost(L[q]) <= c * level.num /\ Cost(L[q]) \in Nat
      BY <1>7, <2>2, <2>3
    <3>2. c * level.num <= q * level.num /\ c * level.num \in Nat /\ q * level.num \in Nat
      BY <1>1, <1>2, <2>1, <2>3, TimesGrows
    <3>3. Cost(L[q]) <= q * level.num
      <4> HIDE DEF Cost
      <4>1. QED
        BY <3>1, <3>2
    <3>4. q \in passing
      BY <3>3 DEF passing
    <3>5. QED
      BY <1>5, <1>6, <3>4
  <2>4. PICK r \in 1 .. m : L[r] = s
    BY <1>3
  <2>5. ~(r <= k)
    BY <1>4, <1>6, <2>4
  <2>6. r < c
    BY <1>1, <1>6, <2>1, <2>3, <2>4, <2>5
  <2>7. \E q \in 1 .. m : L[q] \in S /\ c <= q
    <3> SUFFICES ASSUME \A q \in 1 .. m : L[q] \in S => ~(c <= q) PROVE FALSE
      OBVIOUS
    <3>1. c - 1 \in 0 .. m /\ c - 1 \in Nat
      BY <1>1, <2>1, <2>6
    <3>2. ASSUME NEW t \in S PROVE t \in Firsts(c - 1)
      <4>1. PICK q \in 1 .. m : L[q] = t
        BY <1>3
      <4>2. q \in 1 .. c - 1
        BY <1>1, <2>1, <4>1
      <4>3. QED
        BY <4>1, <4>2
    <3>3. IsFiniteSet(Firsts(c - 1)) /\ Cardinality(Firsts(c - 1)) = c - 1
      BY <1>9, <3>1
    <3> HIDE DEF Firsts
    <3>4. Cardinality(S) <= Cardinality(Firsts(c - 1))
      BY <3>2, <3>3, FS_Subset
    <3>5. QED
      BY <2>1, <3>3, <3>4 DEF c
  <2>8. PICK q \in 1 .. m : L[q] \in S /\ c <= q
    BY <2>7
  <2>9. q <= k
    BY <2>3, <2>8
  <2>10. QED
    BY <1>1, <1>6, <2>1, <2>5, <2>6, <2>8, <2>9
<1>14. QED
  BY <1>11, <1>12, <1>13 DEF B

\* A recursion over 1..n is defined, when its step is a function on the domain of its values.
Recursion(n, D, start, stride, g) ==
  /\ g \in [0 .. n -> D] /\ g[0] = start
  /\ \A i \in 1 .. n : g[i] = stride[<<i, g[i - 1]>>]

LEMMA RecursionExists ==
    ASSUME NEW n \in Nat, NEW D, NEW start \in D, NEW stride \in [(1 .. n) \X D -> D]
    PROVE  \E g : Recursion(n, D, start, stride, g)
<1> DEFINE Fits(k, g) == Recursion(k, D, start, stride, g)
           T == {k \in 0 .. n : \E g : Fits(k, g)}
<1>1. 0 \in T
  <2> DEFINE g == [i \in 0 .. 0 |-> start]
  <2>1. Fits(0, g)
    BY DEF Recursion
  <2> HIDE DEF Fits
  <2>2. QED
    BY <2>1
<1>2. ASSUME NEW k \in 1 .. n, k - 1 \in T PROVE k \in T
  <2>1. PICK g : Fits(k - 1, g)
    BY <1>2
  <2> USE DEF Recursion
  <2> DEFINE last == stride[<<k, g[k - 1]>>]
             h == [i \in 0 .. k |-> IF i = k THEN last ELSE g[i]]
  <2>2. k \in Nat /\ k # 0 /\ k - 1 \in Nat
    OBVIOUS
  <2>3. last \in D
    <3>1. g[k - 1] \in D
      BY <2>1, <2>2
    <3>2. QED
      BY <3>1
  <2> HIDE DEF last
  <2>4. h \in [0 .. k -> D]
    <3>1. ASSUME NEW i \in 0 .. k, i # k PROVE g[i] \in D
      <4>1. i \in 0 .. k - 1
        BY <2>2, <3>1
      <4>2. QED
        BY <2>1, <4>1
    <3>2. QED
      BY <2>3, <3>1
  <2>5. h[0] = start /\ h[k] = last
    BY <2>1, <2>2
  <2>6. ASSUME NEW i \in 1 .. k PROVE h[i - 1] = g[i - 1] /\ (i # k => h[i] = g[i])
    BY <2>2
  <2>7. ASSUME NEW i \in 1 .. k, i # k PROVE g[i] = stride[<<i, g[i - 1]>>]
    <3>1. i \in 1 .. k - 1
      BY <2>2, <2>7
    <3>2. QED
      BY <2>1, <3>1
  <2> HIDE DEF h
  <2>8. ASSUME NEW i \in 1 .. k PROVE h[i] = stride[<<i, h[i - 1]>>]
    <3>1. CASE i = k
      BY <2>5, <2>6, <3>1 DEF last
    <3>2. CASE i # k
      BY <2>6, <2>7, <3>2
    <3>3. QED
      BY <3>1, <3>2
  <2>9. Fits(k, h)
    BY <2>4, <2>5, <2>8
  <2> HIDE DEF Fits, Recursion
  <2>10. QED
    BY <2>9
<1>3. \E g : Fits(n, g)
  <2> HIDE DEF T
  <2>1. \A k \in 0 .. n : k \in T
    BY <1>1, <1>2, StepByStep
  <2>2. n \in T
    BY <2>1
  <2> HIDE DEF Fits
  <2>3. QED
    BY <2>2 DEF T
<1>4. QED
  BY <1>3

\* The harmonic number is a number, and at least 1 from the first term on.
LEMMA HarmonicIs ==
    ASSUME NEW m \in Nat
    PROVE  /\ Harmonic(m).num \in Nat /\ Harmonic(m).den \in Nat \ {0}
           /\ m # 0 => Harmonic(m).den <= Harmonic(m).num
<1> DEFINE F == [num : Nat, den : Nat \ {0}]
           start == [num |-> 0, den |-> 1]
           Next1(i, f) == [num |-> f.num * i + f.den, den |-> f.den * i]
           stride == [d \in (1 .. m) \X F |-> Next1(d[1], d[2])]
           Fits(g) == g = [i \in 0 .. m |-> IF i = 0 THEN start ELSE Next1(i, g[i - 1])]
           sum == CHOOSE g : Fits(g)
<1>1. start \in F
  OBVIOUS
<1>2. ASSUME NEW i \in 1 .. m, NEW f \in F
      PROVE  /\ Next1(i, f) \in F
             /\ (i = 1 \/ f.den <= f.num) => Next1(i, f).den <= Next1(i, f).num
  <2>1. f.num \in Nat /\ f.den \in Nat /\ f.den # 0 /\ i \in Nat /\ i # 0
    OBVIOUS
  <2>2. f.num * i \in Nat /\ f.den * i \in Nat
    BY <2>1
  <2>3. f.den * i # 0
    BY <2>1
  <2>4. CASE i = 1
    BY <2>1, <2>2, <2>3, <2>4
  <2>5. CASE ~(i = 1)
    <3>1. f.den <= f.num => f.den * i <= f.num * i
      BY <2>1, TimesGrows
    <3> DEFINE x == f.num * i
               y == f.den * i
    <3>2. x \in Nat /\ y \in Nat /\ y # 0 /\ (f.den <= f.num => y <= x)
      BY <2>2, <2>3, <3>1
    <3>3. Next1(i, f) = [num |-> x + f.den, den |-> y]
      OBVIOUS
    <3> HIDE DEF x, y, Next1
    <3>4. QED
      BY <2>1, <2>5, <3>2, <3>3
  <2>6. QED
    BY <2>4, <2>5
<1>3. stride \in [(1 .. m) \X F -> F]
  <2>1. ASSUME NEW d \in (1 .. m) \X F PROVE Next1(d[1], d[2]) \in F
    BY <1>2
  <2> HIDE DEF Next1, F
  <2>2. QED
    BY <2>1
<1>4. \A i \in 1 .. m, f \in F : stride[<<i, f>>] = Next1(i, f)
  <2> HIDE DEF Next1, F
  <2>1. QED
    OBVIOUS
<1> HIDE DEF F, stride, Next1, start
<1>5. PICK g : /\ g \in [0 .. m -> F] /\ g[0] = start
               /\ \A i \in 1 .. m : g[i] = stride[<<i, g[i - 1]>>]
  <2>1. \E g : Recursion(m, F, start, stride, g)
    BY <1>1, <1>3, RecursionExists
  <2>2. QED
    BY <2>1 DEF Recursion
<1>6. \A i \in 1 .. m : g[i] = Next1(i, g[i - 1])
  <2> SUFFICES ASSUME NEW i \in 1 .. m PROVE g[i] = Next1(i, g[i - 1])
    OBVIOUS
  <2>1. g[i - 1] \in F
    BY <1>5
  <2>2. QED
    BY <1>4, <1>5, <2>1
<1>7. Fits(g)
  <2>1. \A i \in 0 .. m : g[i] = IF i = 0 THEN start ELSE Next1(i, g[i - 1])
    <3>1. \A i \in 0 .. m : i = 0 \/ i \in 1 .. m
      OBVIOUS
    <3>2. \A i \in 1 .. m : i # 0
      OBVIOUS
    <3>3. QED
      BY <1>5, <1>6, <3>1, <3>2
  <2>2. g = [i \in 0 .. m |-> g[i]]
    BY <1>5
  <2>3. QED
    BY <2>1, <2>2
<1>8. Fits(sum)
  <2> HIDE DEF Fits
  <2>1. QED
    BY <1>7
<1> HIDE DEF sum
<1>9. sum[0] = start /\ \A i \in 1 .. m : sum[i] = Next1(i, sum[i - 1])
  <2>1. 0 \in 0 .. m /\ \A i \in 1 .. m : i \in 0 .. m /\ i # 0
    OBVIOUS
  <2>2. QED
    BY <1>8, <2>1
<1> DEFINE T == {k \in 0 .. m : sum[k] \in F /\ (k # 0 => sum[k].den <= sum[k].num)}
<1>10. 0 \in T
  BY <1>1, <1>9
<1>11. ASSUME NEW k \in 1 .. m, k - 1 \in T PROVE k \in T
  <2>1. sum[k - 1] \in F /\ (k = 1 \/ sum[k - 1].den <= sum[k - 1].num)
    BY <1>11
  <2>2. sum[k] = Next1(k, sum[k - 1])
    BY <1>9
  <2>3. sum[k] \in F /\ sum[k].den <= sum[k].num
    BY <1>2, <2>1, <2>2
  <2>4. QED
    BY <2>3
<1>12. m \in T
  <2> HIDE DEF T
  <2>1. \A k \in 0 .. m : k \in T
    BY <1>10, <1>11, StepByStep
  <2>2. QED
    BY <2>1
<1>13. Harmonic(m) = sum[m]
  BY DEF Harmonic, sum, Next1, start
<1>14. QED
  BY <1>12, <1>13 DEF F

\* What is found under any dependence is found by the other procedure, at the divided level.
LEMMA StricterFinds ==
    ASSUME NEW p, PValues(p), NEW level \in [num : Nat, den : Nat \ {0}]
    PROVE  /\ Promised(p, level, BenjaminiYekutieli(p, level))
           /\ BenjaminiYekutieli(p, level) \subseteq DOMAIN p
           /\ \A s \in BenjaminiYekutieli(p, level) :
                p[s] * Cardinality(DOMAIN p) * Harmonic(Cardinality(DOMAIN p)).num * level.den
                  <= Cardinality(DOMAIN p) * Harmonic(Cardinality(DOMAIN p)).den * level.num
<1> DEFINE m == Cardinality(DOMAIN p)
           h == Harmonic(m)
           Y == BenjaminiYekutieli(p, level)
           strict == Scaled(level, h)
           c == Cardinality(Y)
<1>1. m \in Nat /\ IsFiniteSet(DOMAIN p)
  BY FS_CardinalityType DEF PValues
<1>2. /\ h.num \in Nat /\ h.den \in Nat /\ h.den # 0 /\ (m # 0 => h.den <= h.num)
      /\ level.num \in Nat /\ level.den \in Nat
  BY <1>1, HarmonicIs
<1>3. strict = [num |-> level.num * h.den, den |-> level.den * h.num]
  BY DEF Scaled
<1>4. strict \in [num : Nat, den : Nat] /\ strict.num = level.num * h.den /\ strict.den = level.den * h.num
  <2>1. level.num * h.den \in Nat /\ level.den * h.num \in Nat
    BY <1>2
  <2> HIDE DEF h
  <2>2. QED
    BY <1>3, <2>1
<1>5. Y = BenjaminiHochberg(p, strict)
  BY DEF BenjaminiYekutieli
<1>6. Y \subseteq DOMAIN p /\ Promised(p, strict, Y)
  BY <1>4, <1>5, StepUpFinds
<1> HIDE DEF Y, strict, h
<1>7. c \in Nat /\ c <= m
  <2>1. IsFiniteSet(Y) /\ Cardinality(Y) <= Cardinality(DOMAIN p)
    BY <1>1, <1>6, FS_Subset
  <2>2. QED
    BY <2>1, FS_CardinalityType
<1>8. ASSUME NEW s \in Y
      PROVE  p[s] * m * level.den <= c * level.num /\ p[s] * m * h.num * level.den <= m * h.den * level.num
  <2> DEFINE a == p[s] * m
             b == level.den
             n == level.num
             x == h.num
             y == h.den
  <2>1. p[s] \in Nat /\ m # 0
    <3>1. s \in DOMAIN p
      BY <1>6
    <3>2. DOMAIN p # {}
      BY <3>1
    <3>3. m # 0
      BY <1>1, <3>2, FS_EmptySet
    <3>4. QED
      BY <3>1, <3>3 DEF PValues
  <2>2. a \in Nat /\ b \in Nat /\ n \in Nat /\ x \in Nat /\ y \in Nat /\ y # 0 /\ y <= x /\ c \in Nat
    BY <1>1, <1>2, <1>7, <2>1
  <2>3. a * (b * x) <= c * (n * y)
    <3>1. a * strict.den <= c * strict.num
      BY <1>6 DEF Promised
    <3> HIDE DEF a, c
    <3>2. QED
      BY <1>4, <3>1, Zenon
  <2>4. p[s] * m * x * b = a * x * b /\ p[s] * m * b = a * b
    OBVIOUS
  <2> HIDE DEF a, b, n, x, y, c, m
  <2>5. a * (b * x) = (a * b) * x /\ a * x * b = (a * b) * x /\ c * (n * y) = (c * n) * y
    BY <2>2
  <2>6. a * b \in Nat /\ c * n \in Nat /\ (a * b) * x \in Nat /\ (a * b) * y \in Nat /\ (c * n) * y \in Nat
    BY <2>2
  <2>7. (a * b) * y <= (c * n) * y
    <3>1. y * (a * b) <= x * (a * b)
      BY <2>2, <2>6, TimesGrows
    <3>2. y * (a * b) = (a * b) * y /\ x * (a * b) = (a * b) * x
      BY <2>2, <2>6
    <3>3. QED
      BY <2>3, <2>5, <2>6, <3>1, <3>2
  <2>8. a * b <= c * n
    <3> SUFFICES ASSUME ~(a * b <= c * n) PROVE FALSE
      OBVIOUS
    <3>1. c * n + 1 <= a * b /\ c * n + 1 \in Nat
      BY <2>6
    <3>2. (c * n + 1) * y <= (a * b) * y
      BY <2>2, <2>6, <3>1, TimesGrows
    <3>3. (c * n + 1) * y = (c * n) * y + y
      BY <2>2, <2>6
    <3>4. QED
      BY <2>2, <2>6, <2>7, <3>2, <3>3
  <2>9. a * x * b <= m * y * n
    <3>1. c * (n * y) <= m * (n * y)
      BY <1>1, <1>7, <2>2, TimesGrows DEF m, c
    <3>2. m * (n * y) = m * y * n /\ m * (n * y) \in Nat /\ c * (n * y) \in Nat
      BY <1>1, <2>2 DEF m
    <3>3. QED
      BY <2>3, <2>5, <2>6, <3>1, <3>2
  <2>10. QED
    BY <2>4, <2>8, <2>9 DEF b, n, x, y, c, m
<1>9. Promised(p, level, Y)
  BY <1>8 DEF Promised
<1>10. QED
  BY <1>6, <1>8, <1>9 DEF Y, h

-----------------------------------------------------------------------------
(* The chain of a component.  In a component where no segment touches more *)
(* than two, a walk that starts at an end, if there is one, and does not   *)
(* turn back never meets a segment again before it has met all of them.    *)

\* A component: whatever is closed in it is all of it.
Connected(network, C) ==
  \A A \in SUBSET C : A # {} /\ (\A t \in A, u \in C : Touching(network, t, u) => u \in A) => A = C

Neighbours(network, C, s) == {t \in C : Touching(network, s, t)}
Ends(network, C) == {s \in C : Cardinality(Neighbours(network, C, s)) <= 1}
Starts(network, C) == IF Ends(network, C) = {} THEN C ELSE Ends(network, C)

Line(network, C) ==
  /\ IsFiniteSet(C) /\ C # {} /\ Connected(network, C)
  /\ \A s \in C : Cardinality(Neighbours(network, C, s)) <= 2

WalkTo(network, C, k, w) ==
  /\ w \in [1 .. k -> C]
  /\ w[1] \in Starts(network, C)
  /\ \A i \in 2 .. k : w[i] \in Neighbours(network, C, w[i - 1])
  /\ \A i \in 3 .. k : w[i] # w[i - 2]

\* Who touches whom is mutual, and nobody touches itself.
LEMMA NeighboursAre ==
    ASSUME NEW network, NEW C
    PROVE  /\ \A s, t \in C : t \in Neighbours(network, C, s) <=> s \in Neighbours(network, C, t)
           /\ \A s \in C : s \notin Neighbours(network, C, s) /\ Neighbours(network, C, s) \subseteq C
BY DEF Neighbours, Touching

\* A segment of a line has at most two neighbours, and one that is no end has two.
LEMMA NeighboursCount ==
    ASSUME NEW network, NEW C, Line(network, C), NEW s \in C
    PROVE  /\ \A a, b, c \in Neighbours(network, C, s) : a # b => c = a \/ c = b
           /\ s \in Ends(network, C) => \A a, b \in Neighbours(network, C, s) : a = b
           /\ s \notin Ends(network, C) => \A a : \E b \in Neighbours(network, C, s) : b # a
<1> DEFINE N == Neighbours(network, C, s)
<1>1. IsFiniteSet(N) /\ Cardinality(N) \in Nat /\ Cardinality(N) <= 2
  <2>1. N \subseteq C /\ IsFiniteSet(C) /\ Cardinality(N) <= 2
    BY NeighboursAre DEF Line
  <2> HIDE DEF N
  <2>2. QED
    BY <2>1, FS_Subset, FS_CardinalityType
<1>2. s \in Ends(network, C) <=> Cardinality(N) <= 1
  BY DEF Ends
<1> HIDE DEF N
<1>3. ASSUME NEW a, NEW b, a # b
      PROVE  IsFiniteSet({a, b}) /\ Cardinality({a, b}) = 2
  <2>1. IsFiniteSet({a}) /\ Cardinality({a}) = 1
    BY FS_Singleton
  <2>2. IsFiniteSet({a} \cup {b}) /\ Cardinality({a} \cup {b}) = Cardinality({a}) + 1
    BY <1>3, <2>1, FS_AddElement
  <2>3. {a} \cup {b} = {a, b}
    OBVIOUS
  <2>4. QED
    BY <2>1, <2>2, <2>3
<1>4. ASSUME NEW a \in N, NEW b \in N, a # b
      PROVE  Cardinality(N) = 2 /\ N = {a, b}
  <2>1. IsFiniteSet({a, b}) /\ Cardinality({a, b}) = 2
    BY <1>3, <1>4
  <2>2. Cardinality({a, b}) <= Cardinality(N) /\ (Cardinality(N) = Cardinality({a, b}) => N = {a, b})
    BY <1>1, FS_Subset
  <2>3. QED
    BY <1>1, <2>1, <2>2
<1>5. ASSUME s \notin Ends(network, C), NEW a PROVE \E b \in N : b # a
  <2> SUFFICES ASSUME N \subseteq {a} PROVE FALSE
    OBVIOUS
  <2>1. IsFiniteSet({a}) /\ Cardinality({a}) = 1
    BY FS_Singleton
  <2>2. Cardinality(N) <= 1
    BY <2>1, FS_Subset
  <2>3. QED
    BY <1>2, <1>5, <2>2
<1>6. \A a, b, c \in N : a # b => c = a \/ c = b
  BY <1>4
<1>7. s \in Ends(network, C) => \A a, b \in N : a = b
  BY <1>1, <1>2, <1>4
<1>8. QED
  BY <1>5, <1>6, <1>7 DEF N

\* Inside a walk the neighbours are the segments before and after.
LEMMA InsideWalk ==
    ASSUME NEW network, NEW C, Line(network, C), NEW k \in Nat, NEW w, WalkTo(network, C, k, w)
    PROVE  /\ \A i \in 1 .. k : w[i] \in C
           /\ \A i \in 2 .. k : w[i] \in Neighbours(network, C, w[i - 1])
                                /\ w[i - 1] \in Neighbours(network, C, w[i])
           /\ \A i \in 2 .. (k - 1) : \A u \in Neighbours(network, C, w[i]) : u = w[i - 1] \/ u = w[i + 1]
           /\ k >= 2 /\ Ends(network, C) # {} =>
                 \A u \in Neighbours(network, C, w[1]) : u = w[2]
<1>1. \A i \in 1 .. k : w[i] \in C
  BY DEF WalkTo
<1>2. ASSUME NEW i \in 2 .. k
      PROVE  w[i] \in Neighbours(network, C, w[i - 1]) /\ w[i - 1] \in Neighbours(network, C, w[i])
  <2>1. i - 1 \in 1 .. k /\ i \in 1 .. k
    OBVIOUS
  <2>2. w[i] \in C /\ w[i - 1] \in C
    BY <1>1, <2>1
  <2>3. w[i] \in Neighbours(network, C, w[i - 1])
    BY DEF WalkTo
  <2>4. QED
    BY <2>2, <2>3, NeighboursAre
<1>3. ASSUME NEW i \in 2 .. (k - 1), NEW u \in Neighbours(network, C, w[i])
      PROVE  u = w[i - 1] \/ u = w[i + 1]
  <2>1. i \in 2 .. k /\ i + 1 \in 2 .. k /\ i + 1 \in 3 .. k /\ i \in 1 .. k
    OBVIOUS
  <2>2. w[i - 1] \in Neighbours(network, C, w[i])
    BY <1>2, <2>1
  <2>3. w[(i + 1) - 1] = w[i] /\ w[(i + 1) - 2] = w[i - 1]
    <3>1. (i + 1) - 1 = i /\ (i + 1) - 2 = i - 1
      OBVIOUS
    <3>2. QED
      BY <3>1
  <2>4. w[i + 1] \in Neighbours(network, C, w[i])
    BY <1>2, <2>1, <2>3
  <2>5. w[i + 1] # w[i - 1]
    BY <2>1, <2>3 DEF WalkTo
  <2>6. w[i] \in C
    BY <1>1, <2>1
  <2>7. QED
    BY <2>2, <2>4, <2>5, <2>6, NeighboursCount
<1>4. ASSUME k >= 2, Ends(network, C) # {}, NEW u \in Neighbours(network, C, w[1]) PROVE u = w[2]
  <2>1. w[1] \in Ends(network, C) /\ w[1] \in C
    BY <1>4 DEF WalkTo, Starts, Ends
  <2>2. w[2] \in Neighbours(network, C, w[1])
    <3>1. 2 \in 2 .. k /\ 2 - 1 = 1
      BY <1>4
    <3>2. QED
      BY <1>2, <3>1
  <2>3. QED
    BY <1>4, <2>1, <2>2, NeighboursCount
<1>5. QED
  BY <1>1, <1>2, <1>3, <1>4

\* A walk whose two ends lead nowhere else has met the whole component.
LEMMA ClosedWalk ==
    ASSUME NEW network, NEW C, Line(network, C), NEW k \in Nat \ {0}, NEW w, WalkTo(network, C, k, w),
           \A u \in Neighbours(network, C, w[1]) : \E i \in 1 .. k : u = w[i],
           \A u \in Neighbours(network, C, w[k]) : \E i \in 1 .. k : u = w[i]
    PROVE  Cardinality(C) <= k
<1> DEFINE A == {w[i] : i \in 1 .. k}
<1>1. k \in Nat /\ 1 \in 1 .. k /\ \A i \in 1 .. k : i = 1 \/ i = k \/ i \in 2 .. (k - 1)
  OBVIOUS
<1>2. \A i \in 1 .. k : w[i] \in C
  BY InsideWalk
<1>3. A \in SUBSET C /\ A # {}
  BY <1>1, <1>2
<1>4. ASSUME NEW i \in 1 .. k, NEW u \in C, Touching(network, w[i], u) PROVE u \in A
  <2>1. u \in Neighbours(network, C, w[i])
    BY <1>4 DEF Neighbours
  <2>2. CASE i = 1 \/ i = k
    BY <2>1, <2>2
  <2>3. CASE i \in 2 .. (k - 1)
    <3>1. u = w[i - 1] \/ u = w[i + 1]
      BY <2>1, <2>3, InsideWalk
    <3>2. i - 1 \in 1 .. k /\ i + 1 \in 1 .. k
      BY <2>3
    <3>3. QED
      BY <3>1, <3>2
  <2>4. QED
    BY <1>1, <2>2, <2>3
<1>5. A = C
  <2>1. \A t \in A, u \in C : Touching(network, t, u) => u \in A
    BY <1>4
  <2> HIDE DEF A
  <2>2. QED
    BY <1>3, <2>1 DEF Line, Connected
<1>6. IsFiniteSet(1 .. k) /\ Cardinality(1 .. k) = k
  BY CountsUp
<1>7. Cardinality(A) <= Cardinality(1 .. k)
  BY <1>6, ImageFinite
<1>8. QED
  BY <1>5, <1>6, <1>7

\* A part of a walk is a walk.
LEMMA ShorterWalk ==
    ASSUME NEW network, NEW C, NEW k \in Nat, NEW w, WalkTo(network, C, k, w), NEW j \in 1 .. k
    PROVE  \E v : WalkTo(network, C, j, v) /\ \A i \in 1 .. j : v[i] = w[i]
<1> DEFINE v == [i \in 1 .. j |-> w[i]]
<1>1. \A i \in 1 .. j : v[i] = w[i]
  OBVIOUS
<1>2. v \in [1 .. j -> C]
  <2>1. \A i \in 1 .. j : i \in 1 .. k
    OBVIOUS
  <2>2. QED
    BY <2>1 DEF WalkTo
<1> HIDE DEF v
<1>3. v[1] \in Starts(network, C)
  BY <1>1 DEF WalkTo
<1>4. \A i \in 2 .. j : v[i] \in Neighbours(network, C, v[i - 1])
  <2> SUFFICES ASSUME NEW i \in 2 .. j PROVE v[i] \in Neighbours(network, C, v[i - 1])
    OBVIOUS
  <2>1. i \in 1 .. j /\ i - 1 \in 1 .. j /\ i \in 2 .. k
    OBVIOUS
  <2>2. v[i] = w[i] /\ v[i - 1] = w[i - 1]
    BY <1>1, <2>1
  <2>3. QED
    BY <2>1, <2>2 DEF WalkTo
<1>5. \A i \in 3 .. j : v[i] # v[i - 2]
  <2> SUFFICES ASSUME NEW i \in 3 .. j PROVE v[i] # v[i - 2]
    OBVIOUS
  <2>1. i \in 1 .. j /\ i - 2 \in 1 .. j /\ i \in 3 .. k
    OBVIOUS
  <2>2. v[i] = w[i] /\ v[i - 2] = w[i - 2]
    BY <1>1, <2>1
  <2>3. QED
    BY <2>1, <2>2 DEF WalkTo
<1>6. WalkTo(network, C, j, v)
  BY <1>2, <1>3, <1>4, <1>5 DEF WalkTo
<1>7. QED
  BY <1>1, <1>6

\* A walk does not meet a segment twice.
LEMMA WalkMeetsOnce ==
    ASSUME NEW network, NEW C, Line(network, C), NEW k \in Nat, k <= Cardinality(C),
           NEW w, WalkTo(network, C, k, w)
    PROVE  \A i, j \in 1 .. k : w[i] = w[j] => i = j
<1> DEFINE Once(j) == \A a, b \in 1 .. j : w[a] = w[b] => a = b
           T == {j \in 0 .. k : Once(j)}
           N(s) == Neighbours(network, C, s)
<1>1. Cardinality(C) \in Nat
  BY FS_CardinalityType DEF Line
<1>2. /\ \A i \in 1 .. k : w[i] \in C
      /\ \A i \in 2 .. k : w[i] \in N(w[i - 1]) /\ w[i - 1] \in N(w[i])
      /\ \A i \in 2 .. (k - 1) : \A u \in N(w[i]) : u = w[i - 1] \/ u = w[i + 1]
      /\ k >= 2 /\ Ends(network, C) # {} => \A u \in N(w[1]) : u = w[2]
  BY InsideWalk
<1>3. \A i \in 3 .. k : w[i] # w[i - 2]
  BY DEF WalkTo
<1>4. \A s \in C : s \notin N(s)
  BY NeighboursAre
<1> HIDE DEF N
<1>5. 0 \in T
  OBVIOUS
<1>6. ASSUME NEW j \in 1 .. k, j - 1 \in T PROVE j \in T
  <2>1. j \in Nat /\ j - 1 \in 0 .. k /\ \A a, b \in 1 .. (j - 1) : w[a] = w[b] => a = b
    BY <1>6
  <2>2. ASSUME NEW i \in 1 .. (j - 1), w[i] = w[j] PROVE FALSE
    <3>1. i \in Nat /\ i >= 1 /\ i < j /\ j \in 2 .. k /\ i \in 1 .. k
      BY <2>1
    <3>2. w[j - 1] \in N(w[j]) /\ w[j] \in C
      BY <1>2, <3>1
    <3>3. w[j - 1] \in N(w[i])
      BY <2>2, <3>2
    <3>4. i # j - 1
      BY <1>2, <1>4, <2>2, <3>1, <3>3
    <3>5. i # j - 2
      <4> SUFFICES ASSUME i = j - 2 PROVE FALSE
        OBVIOUS
      <4>1. j \in 3 .. k
        BY <3>1
      <4>2. QED
        BY <1>3, <2>2, <4>1
    <3>6. i + 1 \in 1 .. (j - 1) /\ j - 1 \in 1 .. (j - 1) /\ i + 1 # j - 1
      BY <3>1, <3>4, <3>5
    <3>7. CASE i # 1
      <4>1. i \in 2 .. (k - 1) /\ i - 1 \in 1 .. (j - 1) /\ i - 1 # j - 1
        BY <3>1, <3>7
      <4>2. w[j - 1] = w[i - 1] \/ w[j - 1] = w[i + 1]
        BY <1>2, <3>3, <4>1
      <4>3. QED
        BY <2>1, <3>6, <4>1, <4>2
    <3>8. CASE i = 1 /\ Ends(network, C) # {}
      <4>1. k >= 2 /\ 2 \in 1 .. (j - 1) /\ 2 # j - 1
        BY <3>1, <3>6, <3>8
      <4>2. w[j - 1] = w[2]
        BY <1>2, <3>3, <3>8, <4>1
      <4>3. QED
        BY <2>1, <3>6, <4>1, <4>2
    <3>9. CASE i = 1 /\ Ends(network, C) = {}
      <4>1. j - 1 \in 1 .. k /\ j - 1 \in Nat \ {0} /\ j - 1 \in 2 .. (k - 1) /\ 2 \in 2 .. k
            /\ 2 \in 1 .. (j - 1) /\ j - 2 \in 1 .. (j - 1) /\ (j - 1) - 1 = j - 2 /\ (j - 1) + 1 = j
            /\ 2 # j - 1 /\ 2 - 1 = 1
        BY <3>1, <3>6, <3>9
      <4>2. PICK v : WalkTo(network, C, j - 1, v) /\ \A a \in 1 .. (j - 1) : v[a] = w[a]
        BY <4>1, ShorterWalk
      <4>3. v[1] = w[1] /\ v[j - 1] = w[j - 1] /\ 1 \in 1 .. (j - 1)
        BY <2>1, <3>6, <4>1, <4>2
      <4>4. ASSUME NEW u \in N(w[1]) PROVE \E a \in 1 .. (j - 1) : u = v[a]
        <5>1. w[2] \in N(w[1])
          BY <1>2, <4>1
        <5>2. w[2] # w[j - 1]
          BY <2>1, <3>6, <4>1
        <5>3. w[j - 1] \in N(w[1])
          BY <3>3, <3>9
        <5>4. w[1] \in C
          BY <1>2, <3>1, <3>9
        <5>5. u = w[2] \/ u = w[j - 1]
          BY <5>1, <5>2, <5>3, <5>4, NeighboursCount DEF N
        <5>6. QED
          BY <3>6, <4>1, <4>2, <5>5
      <4>5. ASSUME NEW u \in N(w[j - 1]) PROVE \E a \in 1 .. (j - 1) : u = v[a]
        <5>1. u = w[(j - 1) - 1] \/ u = w[(j - 1) + 1]
          BY <1>2, <4>1
        <5>2. u = w[j - 2] \/ u = w[1]
          BY <2>2, <3>9, <4>1, <5>1
        <5>3. QED
          BY <4>1, <4>2, <4>3, <5>2
      <4>6. Cardinality(C) <= j - 1
        BY <4>1, <4>2, <4>3, <4>4, <4>5, ClosedWalk DEF N
      <4>7. QED
        BY <1>1, <3>1, <4>1, <4>6
    <3>10. QED
      BY <3>7, <3>8, <3>9
  <2>3. \A a \in 1 .. j : a = j \/ a \in 1 .. (j - 1)
    BY <2>1
  <2>4. ASSUME NEW a \in 1 .. j, NEW b \in 1 .. j, w[a] = w[b] PROVE a = b
    <3>1. CASE a \in 1 .. (j - 1) /\ b \in 1 .. (j - 1)
      BY <2>1, <2>4, <3>1
    <3>2. CASE a = j /\ b \in 1 .. (j - 1)
      BY <2>2, <2>4, <3>2
    <3>3. CASE b = j /\ a \in 1 .. (j - 1)
      BY <2>2, <2>4, <3>3
    <3>4. QED
      BY <2>3, <3>1, <3>2, <3>3
  <2>5. QED
    BY <2>4
<1>7. k \in T
  <2> HIDE DEF T
  <2>1. \A j \in 0 .. k : j \in T
    BY <1>5, <1>6, StepByStep
  <2>2. QED
    BY <2>1
<1>8. QED
  BY <1>7

\* A walk goes on until it has met the whole component.
LEMMA WalkGoesOn ==
    ASSUME NEW network, NEW C, Line(network, C), NEW k \in Nat \ {0}, k < Cardinality(C),
           NEW w, WalkTo(network, C, k, w)
    PROVE  \E u \in Neighbours(network, C, w[k]) : k = 1 \/ u # w[k - 1]
<1> SUFFICES ASSUME \A u \in Neighbours(network, C, w[k]) : k # 1 /\ u = w[k - 1] PROVE FALSE
  OBVIOUS
<1>1. k \in Nat /\ k >= 1 /\ Cardinality(C) \in Nat
  BY FS_CardinalityType DEF Line
<1>2. 1 \in 1 .. k /\ k \in 1 .. k /\ (k # 1 => 2 \in 1 .. k /\ k >= 2 /\ k - 1 \in 1 .. k)
  BY <1>1
<1>3. w[1] \in C /\ w[k] \in C
  BY <1>1, <1>2, InsideWalk
<1>4. Ends(network, C) # {}
  <2> SUFFICES ASSUME Ends(network, C) = {} PROVE FALSE
    OBVIOUS
  <2>1. \A a : \E b \in Neighbours(network, C, w[k]) : b # a
    BY <1>3, NeighboursCount
  <2>2. QED
    BY <2>1
<1>5. ASSUME NEW u \in Neighbours(network, C, w[1]) PROVE \E i \in 1 .. k : u = w[i]
  <2>1. k # 1
    OBVIOUS
  <2>2. u = w[2]
    BY <1>1, <1>2, <1>4, <2>1, InsideWalk
  <2>3. QED
    BY <1>2, <2>1, <2>2
<1>6. ASSUME NEW u \in Neighbours(network, C, w[k]) PROVE \E i \in 1 .. k : u = w[i]
  BY <1>2
<1>7. Cardinality(C) <= k
  BY <1>5, <1>6, ClosedWalk
<1>8. QED
  BY <1>1, <1>7

LEMMA WalkExists ==
    ASSUME NEW network, NEW C, Line(network, C)
    PROVE  \E w : WalkTo(network, C, Cardinality(C), w)
<1> DEFINE n == Cardinality(C)
           T == {k \in 0 .. n : k = 0 \/ \E w : WalkTo(network, C, k, w)}
<1>1. n \in Nat /\ n # 0
  BY FS_CardinalityType, FS_EmptySet DEF Line
<1>2. 0 \in T
  BY <1>1
<1>3. ASSUME NEW k \in 1 .. n, k - 1 \in T PROVE k \in T
  <2>1. CASE k = 1
    <3>1. PICK s \in C : s \in Starts(network, C)
      <4>1. C # {}
        BY DEF Line
      <4>2. QED
        BY <4>1 DEF Starts, Ends
    <3> DEFINE w == [i \in 1 .. 1 |-> s]
    <3>2. w[1] = s /\ w \in [1 .. 1 -> C]
      OBVIOUS
    <3> HIDE DEF w
    <3>3. WalkTo(network, C, 1, w)
      BY <3>1, <3>2 DEF WalkTo
    <3>4. QED
      BY <2>1, <3>3
  <2>2. CASE k # 1
    <3>1. k - 1 \in Nat \ {0} /\ k - 1 < n /\ k \in Nat /\ k >= 2
      BY <1>1, <2>2
    <3>2. PICK v : WalkTo(network, C, k - 1, v)
      BY <1>3, <3>1
    <3>3. PICK u \in Neighbours(network, C, v[k - 1]) : k - 1 = 1 \/ u # v[(k - 1) - 1]
      BY <3>1, <3>2, WalkGoesOn
    <3>4. u \in C
      BY DEF Neighbours
    <3> DEFINE w == [i \in 1 .. k |-> IF i = k THEN u ELSE v[i]]
    <3>5. w[k] = u /\ \A i \in 1 .. (k - 1) : w[i] = v[i]
      BY <3>1
    <3>6. w \in [1 .. k -> C]
      <4>1. \A i \in 1 .. k : i = k \/ i \in 1 .. (k - 1)
        BY <3>1
      <4>2. \A i \in 1 .. (k - 1) : v[i] \in C
        BY <3>2 DEF WalkTo
      <4>3. QED
        BY <3>4, <4>1, <4>2
    <3> HIDE DEF w
    <3>7. w[1] \in Starts(network, C)
      <4>1. 1 \in 1 .. (k - 1)
        BY <3>1
      <4>2. QED
        BY <3>2, <3>5, <4>1 DEF WalkTo
    <3>8. ASSUME NEW i \in 2 .. k PROVE w[i] \in Neighbours(network, C, w[i - 1])
      <4>1. CASE i = k
        <5>1. k - 1 \in 1 .. (k - 1)
          BY <3>1
        <5>2. QED
          BY <3>3, <3>5, <4>1, <5>1
      <4>2. CASE i # k
        <5>1. i \in 2 .. (k - 1) /\ i \in 1 .. (k - 1) /\ i - 1 \in 1 .. (k - 1)
          BY <3>1, <4>2
        <5>2. v[i] \in Neighbours(network, C, v[i - 1])
          BY <3>2, <5>1 DEF WalkTo
        <5>3. QED
          BY <3>5, <5>1, <5>2
      <4>3. QED
        BY <4>1, <4>2
    <3>9. ASSUME NEW i \in 3 .. k PROVE w[i] # w[i - 2]
      <4>1. CASE i = k
        <5>1. k - 2 \in 1 .. (k - 1) /\ (k - 1) - 1 = k - 2 /\ k - 1 # 1
          BY <3>1, <4>1
        <5>2. QED
          BY <3>3, <3>5, <4>1, <5>1
      <4>2. CASE i # k
        <5>1. i \in 3 .. (k - 1) /\ i \in 1 .. (k - 1) /\ i - 2 \in 1 .. (k - 1)
          BY <3>1, <4>2
        <5>2. v[i] # v[i - 2]
          BY <3>2, <5>1 DEF WalkTo
        <5>3. QED
          BY <3>5, <5>1, <5>2
      <4>3. QED
        BY <4>1, <4>2
    <3>10. WalkTo(network, C, k, w)
      BY <3>6, <3>7, <3>8, <3>9 DEF WalkTo
    <3>11. QED
      BY <1>1, <3>10
  <2>3. QED
    BY <2>1, <2>2
<1>4. n \in T
  <2> HIDE DEF T, n
  <2>1. \A k \in 0 .. n : k \in T
    BY <1>1, <1>2, <1>3, StepByStep
  <2>2. QED
    BY <1>1, <2>1
<1>5. QED
  BY <1>1, <1>4

\* A set of more than two has three members.
LEMMA ThreeOf ==
    ASSUME NEW N, IsFiniteSet(N), Cardinality(N) > 2
    PROVE  \E a, b, c \in N : a # b /\ a # c /\ b # c
<1>1. Cardinality(N) \in Nat /\ Cardinality({}) = 0
  BY FS_CardinalityType, FS_EmptySet
<1>2. N # {}
  BY <1>1
<1>3. PICK a \in N : TRUE
  BY <1>2
<1>4. IsFiniteSet({a}) /\ Cardinality({a}) = 1
  BY FS_Singleton
<1>5. N # {a}
  BY <1>4
<1>6. PICK b \in N : b # a
  BY <1>3, <1>5
<1>7. N # {a, b}
  <2> DEFINE A == {a}
  <2>1. b \notin A /\ IsFiniteSet(A) /\ Cardinality(A) = 1
    BY <1>4, <1>6
  <2> HIDE DEF A
  <2>4. Cardinality(A \cup {b}) = IF b \in A THEN Cardinality(A) ELSE Cardinality(A) + 1
    BY <2>1, FS_AddElement
  <2>2. A \cup {b} = {a, b}
    BY DEF A
  <2>3. Cardinality({a, b}) = 2
    BY <2>1, <2>2, <2>4
  <2>5. QED
    BY <2>3
<1>8. PICK c \in N : c # a /\ c # b
  BY <1>3, <1>6, <1>7
<1>9. QED
  BY <1>6, <1>8

\* A segment that touches three others shares one of its nodes with two of them.
LEMMA CrowdedBranches ==
    ASSUME NEW network, NEW C, IsFiniteSet(C), NEW s \in C,
           \E a, b \in network[s].ends : network[s].ends = {a, b},
           Cardinality(Neighbours(network, C, s)) > 2
    PROVE  Branching(network, C)
<1> DEFINE N == Neighbours(network, C, s)
<1>1. N \subseteq C /\ \A t \in N : s # t /\ network[s].ends \cap network[t].ends # {}
  BY DEF Neighbours, Touching
<1>2. PICK t, u, v \in N : t # u /\ t # v /\ u # v
  <2>1. IsFiniteSet(N) /\ Cardinality(N) > 2
    BY <1>1, FS_Subset
  <2> HIDE DEF N
  <2>2. QED
    BY <2>1, ThreeOf
<1>3. PICK a, b : network[s].ends = {a, b}
  OBVIOUS
<1>4. \A x \in {t, u, v} : a \in network[x].ends \/ b \in network[x].ends
  BY <1>1, <1>3
<1>5. PICK x \in {t, u, v}, y \in {t, u, v} :
        /\ x # y
        /\ \/ a \in network[x].ends /\ a \in network[y].ends
           \/ b \in network[x].ends /\ b \in network[y].ends
  BY <1>2, <1>4
<1>6. network[s].ends \cap network[x].ends \cap network[y].ends # {}
  BY <1>3, <1>5
<1>7. x \in C /\ y \in C /\ s # x /\ s # y
  BY <1>1
<1>8. QED
  BY <1>5, <1>6, <1>7 DEF Branching

\* The chains of a component go along it: each lists all of it, in steps from neighbour to neighbour,
\* and only a component that branches may have none.
LEMMA ChainsAre ==
    ASSUME NEW network, NEW C, IsFiniteSet(C), C # {}, Connected(network, C),
           \A s \in C : \E a, b \in network[s].ends : network[s].ends = {a, b}
    PROVE  /\ Chains(network, C) # {} /\ (<<>> \in Chains(network, C) => Branching(network, C))
           /\ \A w \in Chains(network, C) \ {<<>>} :
                /\ Len(w) = Cardinality(C) /\ ToSet(w) = C
                /\ \A i \in 1 .. (Len(w) - 1) : Touching(network, w[i], w[i + 1])
<1> DEFINE n == Cardinality(C)
           All == {w \in [1 .. n -> C] :
                     /\ w[1] \in Starts(network, C)
                     /\ \A i \in 2 .. n : w[i] \in Neighbours(network, C, w[i - 1])
                     /\ \A i \in 3 .. n : w[i] # w[i - 2]}
<1>1. n \in Nat
  BY FS_CardinalityType
<1>2. Chains(network, C) =
        IF \E s \in C : Cardinality(Neighbours(network, C, s)) > 2 THEN {<<>>} ELSE All
  BY DEF Chains, Neighbours, Starts, Ends
<1> HIDE DEF All
<1>3. CASE \E s \in C : Cardinality(Neighbours(network, C, s)) > 2
  BY <1>2, <1>3, CrowdedBranches
<1>4. CASE ~ \E s \in C : Cardinality(Neighbours(network, C, s)) > 2
  <2>1. Chains(network, C) = All
    BY <1>2, <1>4
  <2>2. ASSUME NEW s \in C PROVE Cardinality(Neighbours(network, C, s)) <= 2
    <3> DEFINE N == Neighbours(network, C, s)
    <3>1. N \subseteq C
      BY DEF Neighbours
    <3>2. ~(Cardinality(N) > 2)
      BY <1>4
    <3> HIDE DEF N
    <3>3. Cardinality(N) \in Nat
      BY <3>1, FS_Subset, FS_CardinalityType
    <3>4. QED
      BY <3>2, <3>3 DEF N
  <2>3. Line(network, C)
    BY <2>2 DEF Line
  <2>4. \A w : w \in All <=> WalkTo(network, C, n, w)
    BY DEF All, WalkTo
  <2>5. All # {}
    BY <2>3, <2>4, WalkExists
  <2>6. ASSUME NEW w \in All
        PROVE  /\ Len(w) = Cardinality(C) /\ ToSet(w) = C /\ w # <<>>
               /\ \A i \in 1 .. (Len(w) - 1) : Touching(network, w[i], w[i + 1])
    <3>1. WalkTo(network, C, n, w)
      BY <2>4
    <3>2. w \in [1 .. n -> C] /\ Len(w) = n /\ DOMAIN w = 1 .. n
      BY <1>1, <3>1 DEF WalkTo
    <3>3. \A i, j \in 1 .. n : w[i] = w[j] => i = j
      BY <1>1, <2>3, <3>1, WalkMeetsOnce
    <3>4. ToSet(w) = C
      <4> DEFINE A == {w[i] : i \in 1 .. n}
      <4>1. A \subseteq C /\ ToSet(w) = A
        BY <3>2 DEF ToSet
      <4>2. IsFiniteSet(1 .. n) /\ Cardinality(1 .. n) = n
        BY <1>1, CountsUp
      <4>3. Cardinality(A) = n
        <5> DEFINE I == 1 .. n
        <5>1. IsFiniteSet(I) /\ Cardinality(I) = n /\ \A i, j \in I : w[i] = w[j] => i = j
          BY <3>3, <4>2
        <5>2. A = {w[i] : i \in I}
          OBVIOUS
        <5> HIDE DEF A, I, n
        <5>3. Cardinality({w[i] : i \in I}) = Cardinality(I)
          BY <5>1, ImageOneToOne
        <5>4. QED
          BY <5>1, <5>2, <5>3
      <4> HIDE DEF A
      <4>4. A = C
        BY <4>1, <4>3, FS_Subset
      <4>5. QED
        BY <4>1, <4>4
    <3>5. ASSUME NEW i \in 1 .. (Len(w) - 1) PROVE Touching(network, w[i], w[i + 1])
      <4>1. i + 1 \in 2 .. n /\ (i + 1) - 1 = i
        BY <1>1, <3>2
      <4>2. w[i + 1] \in Neighbours(network, C, w[(i + 1) - 1])
        BY <3>1, <4>1 DEF WalkTo
      <4>3. QED
        BY <4>1, <4>2 DEF Neighbours
    <3>6. w # <<>>
      BY <3>4 DEF ToSet
    <3>7. QED
      BY <3>2, <3>4, <3>5, <3>6
  <2>7. QED
    BY <2>1, <2>5, <2>6
<1>5. QED
  BY <1>3, <1>4

-----------------------------------------------------------------------------
(* Components and corridors.                                               *)

\* What is closed under touching, of the segments of a street.
Closed(network, street, A) == \A t \in A, u \in street : Touching(network, t, u) => u \in A

LEMMA ComponentIs ==
    ASSUME NEW network, NEW street, NEW s \in street
    PROVE  /\ s \in Component(network, street, s) /\ Component(network, street, s) \subseteq street
           /\ Closed(network, street, Component(network, street, s))
           /\ \A A \in SUBSET street : s \in A /\ Closed(network, street, A)
                                         => Component(network, street, s) \subseteq A
           /\ Connected(network, Component(network, street, s))
<1> DEFINE C == Component(network, street, s)
<1>1. C = {t \in street : \A A \in SUBSET street : s \in A /\ Closed(network, street, A) => t \in A}
  BY DEF Component, Closed
<1>2. \A t, u : Touching(network, t, u) <=> Touching(network, u, t)
  BY DEF Touching
<1> HIDE DEF C
<1>3. s \in C /\ C \subseteq street
  BY <1>1
<1>4. \A A \in SUBSET street : s \in A /\ Closed(network, street, A) => C \subseteq A
  BY <1>1
<1>5. Closed(network, street, C)
  <2> SUFFICES ASSUME NEW t \in C, NEW u \in street, Touching(network, t, u) PROVE u \in C
    BY DEF Closed
  <2>1. ASSUME NEW A \in SUBSET street, s \in A, Closed(network, street, A) PROVE u \in A
    <3>1. t \in A
      BY <1>4, <2>1
    <3>2. QED
      BY <2>1, <3>1 DEF Closed
  <2>2. QED
    BY <1>1, <2>1
<1>6. ASSUME NEW A \in SUBSET C, A # {}, \A t \in A, u \in C : Touching(network, t, u) => u \in A
      PROVE  A = C
  <2>1. CASE s \in A
    <3>1. Closed(network, street, A)
      BY <1>5, <1>6 DEF Closed
    <3>2. QED
      BY <1>3, <1>4, <2>1, <3>1
  <2>2. CASE s \notin A
    <3> DEFINE B == C \ A
    <3>1. \A t \in B, u \in street : Touching(network, t, u) => u \in B
      <4> SUFFICES ASSUME NEW t \in B, NEW u \in street, Touching(network, t, u) PROVE u \in B
        OBVIOUS
      <4>1. u \in C
        BY <1>5 DEF Closed
      <4>2. u \notin A
        BY <1>2, <1>6
      <4>3. QED
        BY <4>1, <4>2
    <3>2. B \in SUBSET street /\ s \in B /\ Closed(network, street, B)
      BY <1>3, <2>2, <3>1 DEF Closed
    <3>3. C \subseteq B
      BY <1>4, <3>2
    <3>4. QED
      BY <1>6, <3>3
  <2>3. QED
    BY <2>1, <2>2
<1>7. Connected(network, C)
  BY <1>6 DEF Connected
<1>8. QED
  BY <1>3, <1>4, <1>5, <1>7 DEF C

\* Two components of a street are the same or have nothing in common.
LEMMA ComponentsApart ==
    ASSUME NEW network, NEW street, NEW s \in street, NEW t \in Component(network, street, s)
    PROVE  Component(network, street, t) = Component(network, street, s)
<1> DEFINE C == Component(network, street, s)
           D == Component(network, street, t)
<1>1. t \in street /\ t \in C
  BY ComponentIs
<1>2. /\ C \subseteq street /\ Closed(network, street, C) /\ Connected(network, C)
      /\ D \subseteq street /\ Closed(network, street, D) /\ t \in D
      /\ \A A \in SUBSET street : t \in A /\ Closed(network, street, A) => D \subseteq A
  BY <1>1, ComponentIs
<1> HIDE DEF C, D
<1>3. D \subseteq C
  BY <1>1, <1>2
<1>4. \A a \in D, u \in C : Touching(network, a, u) => u \in D
  BY <1>2 DEF Closed
<1>5. D = C
  BY <1>2, <1>3, <1>4 DEF Connected
<1>6. QED
  BY <1>5 DEF C, D

-----------------------------------------------------------------------------
(* What a cluster report is.                                               *)

\* What the published clusters are.
LEMMA SignificantAre ==
    ASSUME NEW network, NEW stats, ClusterRequest(network, stats)
    PROVE  /\ Significant(stats) =
                {s \in UNION {S \in SUBSET DOMAIN stats.p : Promised(stats.p, stats.alpha, S)} :
                   s \in stats.positive /\ s \notin stats.alone}
           /\ BenjaminiYekutieli(stats.p, stats.alpha)
                \subseteq UNION {S \in SUBSET DOMAIN stats.p : Promised(stats.p, stats.alpha, S)}
           /\ Significant(stats) \subseteq DOMAIN stats.p
<1> DEFINE p == stats.p
           level == stats.alpha
           B == BenjaminiHochberg(p, level)
           found == UNION {S \in SUBSET DOMAIN p : Promised(p, level, S)}
<1>1. PValues(p) /\ level \in [num : Nat, den : Nat \ {0}]
  BY DEF ClusterRequest, PValues
<1>2. level \in [num : Nat, den : Nat]
  BY <1>1
<1>3. /\ B \subseteq DOMAIN p /\ Promised(p, level, B)
      /\ \A S \in SUBSET DOMAIN p : Promised(p, level, S) => S \subseteq B
  <2> HIDE DEF p, level
  <2>1. QED
    BY <1>1, <1>2, StepUpFinds
<1>4. Promised(p, level, BenjaminiYekutieli(p, level)) /\ BenjaminiYekutieli(p, level) \subseteq DOMAIN p
  <2> HIDE DEF p, level
  <2>1. QED
    BY <1>1, StricterFinds
<1>5. Significant(stats) = (B \cap stats.positive) \ stats.alone
  BY DEF Significant
<1> HIDE DEF B, p, level
<1>6. B = found
  BY <1>3
<1>7. BenjaminiYekutieli(p, level) \subseteq found
  BY <1>4
<1>8. Significant(stats) = {s \in found : s \in stats.positive /\ s \notin stats.alone}
  BY <1>5, <1>6
<1>9. Significant(stats) \subseteq DOMAIN p
  BY <1>3, <1>5
<1> HIDE DEF found
<1>10. QED
  BY <1>7, <1>8, <1>9 DEF found, p, level

\* The corridors of the published clusters.
Eligible(network, stats) == Significant(stats) \cap Publishable(stats) \cap DOMAIN network
StreetOf(network, stats, s) == {t \in Eligible(network, stats) : network[t].street = network[s].street}
Member(network, stats, s) == Component(network, StreetOf(network, stats, s), s)

LEMMA EligibleAre ==
    ASSUME NEW network, NEW stats, ClusterRequest(network, stats)
    PROVE  /\ Eligible(network, stats) =
                Significant(stats) \ {s \in DOMAIN stats.count :
                                        0 < stats.count[s] /\ stats.count[s] < stats.floor}
           /\ IsFiniteSet(Eligible(network, stats))
<1> DEFINE withheld == {s \in DOMAIN stats.count : 0 < stats.count[s] /\ stats.count[s] < stats.floor}
           F == Significant(stats)
           E == Eligible(network, stats)
<1>1. /\ F \subseteq DOMAIN stats.p /\ IsFiniteSet(DOMAIN stats.p)
      /\ DOMAIN stats.p \subseteq DOMAIN network /\ DOMAIN stats.p \subseteq DOMAIN stats.count
      /\ stats.floor \in Nat /\ \A s \in DOMAIN stats.p : stats.count[s] \in Nat
  BY SignificantAre DEF ClusterRequest
<1>2. E = F \cap Publishable(stats) \cap DOMAIN network
  BY DEF Eligible
<1>3. ASSUME NEW s \in F PROVE s \in Publishable(stats) <=> s \notin withheld
  <2>1. s \in DOMAIN stats.count /\ stats.count[s] \in Nat /\ stats.floor \in Nat
    BY <1>1
  <2>2. stats.count[s] \in 1 .. (stats.floor - 1) <=> 0 < stats.count[s] /\ stats.count[s] < stats.floor
    BY <2>1
  <2>3. QED
    BY <2>1, <2>2 DEF Publishable
<1> HIDE DEF F, E, withheld
<1>4. E = F \ withheld
  BY <1>1, <1>2, <1>3
<1>5. E \subseteq DOMAIN stats.p
  BY <1>1, <1>4
<1>6. IsFiniteSet(E)
  BY <1>1, <1>5, FS_Subset
<1>7. QED
  BY <1>4, <1>6 DEF F, E, withheld

\* The corridor of a segment: of its street, connected, and the corridor of each of its members.
LEMMA MemberIs ==
    ASSUME NEW network, NEW stats, ClusterRequest(network, stats), NEW s \in Eligible(network, stats)
    PROVE  /\ s \in Member(network, stats, s)
           /\ Member(network, stats, s) \subseteq Eligible(network, stats)
           /\ IsFiniteSet(Member(network, stats, s))
           /\ Connected(network, Member(network, stats, s))
           /\ \A t \in Member(network, stats, s) :
                network[t].street = network[s].street /\ Member(network, stats, t) = Member(network, stats, s)
           /\ \A u \in Eligible(network, stats) :
                Touching(network, s, u) /\ network[u].street = network[s].street
                  => u \in Member(network, stats, s)
<1> DEFINE E == Eligible(network, stats)
           street == StreetOf(network, stats, s)
           C == Component(network, street, s)
<1>1. street = {t \in E : network[t].street = network[s].street}
  BY DEF StreetOf
<1>2. Member(network, stats, s) = C
  BY DEF Member
<1> HIDE DEF street
<1>3. s \in street
  BY <1>1
<1>4. s \in C /\ C \subseteq street /\ Closed(network, street, C) /\ Connected(network, C)
  BY <1>3, ComponentIs
<1> HIDE DEF C
<1>5. C \subseteq E /\ IsFiniteSet(E)
  BY <1>1, <1>4, EligibleAre
<1>6. IsFiniteSet(C)
  BY <1>5, FS_Subset
<1>7. ASSUME NEW t \in C
      PROVE  network[t].street = network[s].street /\ Member(network, stats, t) = C
  <2>1. t \in E /\ network[t].street = network[s].street
    BY <1>1, <1>4
  <2>2. StreetOf(network, stats, t) = street
    BY <1>1, <2>1 DEF StreetOf
  <2>3. Component(network, street, t) = C
    BY <1>3, ComponentsApart DEF C
  <2>4. QED
    BY <2>1, <2>2, <2>3 DEF Member
<1>8. ASSUME NEW u \in E, Touching(network, s, u), network[u].street = network[s].street
      PROVE  u \in C
  <2>1. u \in street
    BY <1>1, <1>8
  <2>2. QED
    BY <1>4, <1>8, <2>1 DEF Closed
<1>9. QED
  BY <1>2, <1>4, <1>5, <1>6, <1>7, <1>8

\* A corridor is what at least two segments are in.
LEMMA CorridorsAre ==
    ASSUME NEW network, NEW stats, ClusterRequest(network, stats)
    PROVE  /\ \A c \in Corridors(network, stats) :
                /\ \E s \in Eligible(network, stats) : c.members = Member(network, stats, s)
                /\ c.chains = Chains(network, c.members)
           /\ \A c, d \in Corridors(network, stats) : c.members = d.members => c = d
           /\ \A s, t \in Eligible(network, stats) :
                Touching(network, s, t) /\ network[s].street = network[t].street
                  => \E c \in Corridors(network, stats) : {s, t} \subseteq c.members
<1> DEFINE E == Eligible(network, stats)
           M(s) == Member(network, stats, s)
           merged == {C \in {M(s) : s \in E} : Cardinality(C) >= 2}
           R(C) == [members |-> C, chains |-> Chains(network, C), count |-> CorridorCount(stats, C)]
           all == Corridors(network, stats)
<1>1. all = {R(C) : C \in merged}
  BY DEF Corridors, Eligible, StreetOf, Member
<1>2. \A C : R(C).members = C /\ R(C).chains = Chains(network, C)
  OBVIOUS
<1> HIDE DEF E, M, R, all
<1>3. ASSUME NEW c \in all
      PROVE  /\ \E s \in E : c.members = M(s)
             /\ c.chains = Chains(network, c.members)
             /\ c = R(c.members)
  <2>1. PICK C \in merged : c = R(C)
    BY <1>1
  <2>2. QED
    BY <1>2, <2>1
<1>4. ASSUME NEW s \in E, NEW t \in E, Touching(network, s, t), network[s].street = network[t].street
      PROVE  \E c \in all : {s, t} \subseteq c.members
  <2>1. s \in M(s) /\ t \in M(s) /\ IsFiniteSet(M(s))
    BY <1>4, MemberIs DEF E, M
  <2>2. s # t
    BY <1>4 DEF Touching
  <2>3. Cardinality(M(s)) >= 2
    <3>1. IsFiniteSet({s}) /\ Cardinality({s}) = 1
      BY FS_Singleton
    <3>2. IsFiniteSet({s} \cup {t}) /\ Cardinality({s} \cup {t}) = 2
      BY <2>2, <3>1, FS_AddElement
    <3>3. {s} \cup {t} \subseteq M(s)
      BY <2>1
    <3> DEFINE P == {s} \cup {t}
    <3> HIDE DEF P
    <3>4. Cardinality(P) <= Cardinality(M(s)) /\ Cardinality(P) = 2
      BY <2>1, <3>2, <3>3, FS_Subset DEF P
    <3>5. Cardinality(M(s)) \in Nat
      BY <2>1, FS_CardinalityType
    <3>6. QED
      BY <3>4, <3>5
  <2>4. M(s) \in merged
    BY <2>3
  <2>5. R(M(s)) \in all /\ R(M(s)).members = M(s)
    BY <1>1, <1>2, <2>4
  <2>6. QED
    BY <2>1, <2>5
<1>5. \A c, d \in all : c.members = d.members => c = d
  BY <1>3
<1>6. \A c \in all : (\E s \in E : c.members = M(s)) /\ c.chains = Chains(network, c.members)
  BY <1>3
<1>7. QED
  BY <1>4, <1>5, <1>6 DEF E, M, all

\* A cluster report is what it promises.
LEMMA ClustersHoldAll ==
    ASSUME NEW network, NEW stats, ClusterRequest(network, stats)
    PROVE  ClustersHold(network, stats, ClusterReport(network, stats))
<1> DEFINE report == ClusterReport(network, stats)
           m == Cardinality(DOMAIN stats.p)
           found == UNION {S \in SUBSET DOMAIN stats.p : Promised(stats.p, stats.alpha, S)}
           F == Significant(stats)
           Y == BenjaminiYekutieli(stats.p, stats.alpha)
           withheld == {s \in DOMAIN stats.count : 0 < stats.count[s] /\ stats.count[s] < stats.floor}
           E == Eligible(network, stats)
           all == Corridors(network, stats)
<1>1. /\ report.significant = F /\ report.corridors = all
      /\ report.robustness = DependenceRobustness(stats)
  BY DEF ClusterReport
<1>2. /\ report.robustness.survivors = F \cap Y
      /\ report.robustness.verdict = "robust" <=> F # {} /\ F \cap Y = F
  BY <1>1 DEF DependenceRobustness
<1>3. F = {s \in found : s \in stats.positive /\ s \notin stats.alone} /\ Y \subseteq found
  BY SignificantAre
<1>4. E = F \ withheld /\ IsFiniteSet(E)
  BY EligibleAre
<1>5. \A s \in Y : stats.p[s] * m * Harmonic(m).num * stats.alpha.den
                     <= m * Harmonic(m).den * stats.alpha.num
  <2>1. PValues(stats.p) /\ stats.alpha \in [num : Nat, den : Nat \ {0}]
    BY DEF ClusterRequest, PValues
  <2>2. QED
    BY <2>1, StricterFinds
<1>6. /\ \A c \in all : /\ \E s \in E : c.members = Member(network, stats, s)
                        /\ c.chains = Chains(network, c.members)
      /\ \A c, d \in all : c.members = d.members => c = d
      /\ \A s, t \in E : Touching(network, s, t) /\ network[s].street = network[t].street
                           => \E c \in all : {s, t} \subseteq c.members
  BY CorridorsAre
<1>7. \A s \in E : /\ s \in Member(network, stats, s) /\ Member(network, stats, s) \subseteq E
                   /\ IsFiniteSet(Member(network, stats, s))
                   /\ Connected(network, Member(network, stats, s))
                   /\ \A t \in Member(network, stats, s) :
                        /\ network[t].street = network[s].street
                        /\ Member(network, stats, t) = Member(network, stats, s)
  BY MemberIs
<1>24. \A s \in E : \E a, b \in network[s].ends : network[s].ends = {a, b}
  <2>1. E \subseteq DOMAIN network
    BY DEF Eligible
  <2>2. QED
    BY <2>1 DEF ClusterRequest
<1> HIDE DEF report, found, F, Y, withheld, E, all, m
<1>8. \A c \in all : c.members \subseteq F \ withheld
  BY <1>4, <1>6, <1>7
<1>9. ASSUME NEW c \in all, NEW d \in all, NEW u \in c.members, u \in d.members PROVE c = d
  <2>1. PICK s \in E : c.members = Member(network, stats, s)
    BY <1>6
  <2>2. PICK t \in E : d.members = Member(network, stats, t)
    BY <1>6
  <2>3. c.members = d.members
    BY <1>7, <1>9, <2>1, <2>2
  <2>4. QED
    BY <1>6, <2>3
<1>10. \A c, d \in all : c # d => c.members \cap d.members = {}
  BY <1>9
<1>11. \A c \in all : \A s, t \in c.members : network[s].street = network[t].street
  <2> SUFFICES ASSUME NEW c \in all, NEW s \in c.members, NEW t \in c.members
               PROVE  network[s].street = network[t].street
    OBVIOUS
  <2>1. PICK u \in E : c.members = Member(network, stats, u)
    BY <1>6
  <2>2. QED
    BY <1>7, <2>1
<1>12. \A c \in all : /\ c.chains # {} /\ (<<>> \in c.chains => Branching(network, c.members))
                      /\ \A w \in c.chains \ {<<>>} :
                           /\ Len(w) = Cardinality(c.members) /\ ToSet(w) = c.members
                           /\ \A i \in 1 .. (Len(w) - 1) : Touching(network, w[i], w[i + 1])
  <2> SUFFICES ASSUME NEW c \in all
               PROVE  /\ c.chains # {} /\ (<<>> \in c.chains => Branching(network, c.members))
                      /\ \A w \in c.chains \ {<<>>} :
                           /\ Len(w) = Cardinality(c.members) /\ ToSet(w) = c.members
                           /\ \A i \in 1 .. (Len(w) - 1) : Touching(network, w[i], w[i + 1])
    OBVIOUS
  <2>1. PICK u \in E : c.members = Member(network, stats, u)
    BY <1>6
  <2>2. c.chains = Chains(network, c.members)
    BY <1>6
  <2> DEFINE C == c.members
  <2> HIDE DEF C
  <2>3. /\ IsFiniteSet(C) /\ C # {} /\ Connected(network, C)
        /\ \A s \in C : \E a, b \in network[s].ends : network[s].ends = {a, b}
    BY <1>7, <1>24, <2>1 DEF C
  <2>4. /\ Chains(network, C) # {} /\ (<<>> \in Chains(network, C) => Branching(network, C))
        /\ \A w \in Chains(network, C) \ {<<>>} :
             /\ Len(w) = Cardinality(C) /\ ToSet(w) = C
             /\ \A i \in 1 .. (Len(w) - 1) : Touching(network, w[i], w[i + 1])
    BY <2>3, ChainsAre
  <2>5. c.chains = Chains(network, C)
    BY <2>2 DEF C
  <2>6. QED
    BY <2>4, <2>5 DEF C
<1>13. report.significant = {s \in found : s \in stats.positive /\ s \notin stats.alone}
  BY <1>1, <1>3
<1>14. report.robustness.survivors \subseteq report.significant
  BY <1>1, <1>2
<1>15. (report.robustness.verdict = "robust")
          <=> (report.robustness.survivors = report.significant /\ report.significant # {})
  BY <1>1, <1>2
<1>16. \A s \in report.robustness.survivors : stats.p[s] * m * Harmonic(m).num * stats.alpha.den
                     <= m * Harmonic(m).den * stats.alpha.num
  BY <1>2, <1>5
<1>17. /\ \A c \in report.corridors : c.members \subseteq report.significant \ withheld
       /\ \A c, d \in report.corridors : c # d => c.members \cap d.members = {}
  BY <1>1, <1>8, <1>10
<1>18. \A s, t \in {u \in report.significant \ withheld : network[u].spanned} :
          Touching(network, s, t) /\ network[s].street = network[t].street
            => \E c \in report.corridors : {s, t} \subseteq c.members
  <2>1. report.significant \ withheld = E /\ report.corridors = all
    BY <1>1, <1>4
  <2>2. QED
    BY <1>6, <2>1
<1>19. \A c \in report.corridors :
          /\ \A s, t \in c.members : network[s].street = network[t].street
          /\ c.chains # {} /\ (<<>> \in c.chains => Branching(network, c.members))
          /\ \A w \in c.chains \ {<<>>} :
               /\ Len(w) = Cardinality(c.members) /\ ToSet(w) = c.members
               /\ \A i \in 1..(Len(w) - 1) : Touching(network, w[i], w[i + 1])
  BY <1>1, <1>11, <1>12
<1>20. found = UNION {S \in SUBSET DOMAIN stats.p :
                 \A s \in S : stats.p[s] * m * stats.alpha.den <= Cardinality(S) * stats.alpha.num}
  BY DEF found, Promised, m
<1>21. Y \subseteq found
  BY <1>3
<1> HIDE DEF found
<1>22. ClustersHold(network, stats, report)
  BY <1>13, <1>14, <1>15, <1>16, <1>17, <1>18, <1>19, <1>20, <1>21, Zenon
     DEF ClustersHold, Y, withheld, m
<1>23. QED
  BY <1>22 DEF report

-----------------------------------------------------------------------------
(* A run of the pipeline and a cluster report, once they are computed, are *)
(* those of their tasks.                                                   *)

ReportInv ==
  /\ part = "pipeline" =>
       /\ task \in PipelineTasks
       /\ outcome \in {Pending, RunPipeline(task.reports, task.first, task.last)}
  /\ part = "clusters" =>
       /\ task \in ClusterTasks
       /\ outcome \in {Pending, ClusterReport(task.network, task.stats)}

\* Nothing is deduplicated and nothing is tested yet.
LEMMA ReportInit == Init => ReportInv
BY DEF Init, Start, ReportInv

\* The one step of such a part computes its outcome from its task.
LEMMA ReportStep == ReportInv /\ [Next]_algorithmVars => ReportInv'
<1> SUFFICES ASSUME ReportInv, [Next]_algorithmVars PROVE ReportInv'
  OBVIOUS
<1>1. part' = part /\ task' = task
  BY DEF Next, JoinFiles, BuildDocuments, BuildContext, RunReports, FindClusters,
     AuditDataset, AssessCity, Compute, algorithmVars, taskVars
<1>2. ASSUME part = "pipeline"
      PROVE  /\ task \in PipelineTasks
             /\ outcome' \in {Pending, RunPipeline(task.reports, task.first, task.last)}
  <2>1. /\ task \in PipelineTasks
        /\ outcome \in {Pending, RunPipeline(task.reports, task.first, task.last)}
    BY <1>2 DEF ReportInv
  <2>2. outcome' = outcome \/ outcome' = RunPipeline(task.reports, task.first, task.last)
    BY <1>2 DEF Next, JoinFiles, BuildDocuments, BuildContext, RunReports, FindClusters,
       AuditDataset, AssessCity, Compute, algorithmVars, taskVars
  <2>3. QED
    BY <2>1, <2>2
<1>3. ASSUME part = "clusters"
      PROVE  /\ task \in ClusterTasks
             /\ outcome' \in {Pending, ClusterReport(task.network, task.stats)}
  <2>1. /\ task \in ClusterTasks
        /\ outcome \in {Pending, ClusterReport(task.network, task.stats)}
    BY <1>3 DEF ReportInv
  <2>2. outcome' = outcome \/ outcome' = ClusterReport(task.network, task.stats)
    BY <1>3 DEF Next, JoinFiles, BuildDocuments, BuildContext, RunReports, FindClusters,
       AuditDataset, AssessCity, Compute, algorithmVars, taskVars
  <2>3. QED
    BY <2>1, <2>2
<1>4. QED
  BY <1>1, <1>2, <1>3 DEF ReportInv

\* Of the reports of a window each event is recorded once, at the nearest street, and the summary
\* accounts for every report (EachEventOnce, pipeline/).
THEOREM EventsStayCounted == Spec => []EventsCountedOnce
<1>1. ReportInv => EventsCountedOnce
  <2> SUFFICES ASSUME ReportInv, part = "pipeline", outcome # Pending
               PROVE  EachEventOnce(task.reports, task.first, task.last, outcome)
    BY DEF EventsCountedOnce, Computed
  <2>1. task \in PipelineTasks /\ outcome = RunPipeline(task.reports, task.first, task.last)
    BY DEF ReportInv
  <2>2. PipelineRequest(task.reports, task.first, task.last)
    BY <2>1, ReportTaskAssumption
  <2>3. QED
    BY <2>1, <2>2, PipelineHolds
<1>2. QED
  BY <1>1, ReportInit, ReportStep, PTL DEF Spec

\* The published clusters are the largest set that keeps its promise, the stricter correction finds
\* no others, and their corridors share no segment, hold nothing that was withheld and are listed
\* along their street (ClustersHold, stats/).
THEOREM ClustersStayReal == Spec => []ClustersAreReal
<1>1. ReportInv => ClustersAreReal
  <2> SUFFICES ASSUME ReportInv, part = "clusters", outcome # Pending
               PROVE  ClustersHold(task.network, task.stats, outcome)
    BY DEF ClustersAreReal, Computed
  <2>1. task \in ClusterTasks /\ outcome = ClusterReport(task.network, task.stats)
    BY DEF ReportInv
  <2>2. ClusterRequest(task.network, task.stats)
    BY <2>1, ReportTaskAssumption
  <2>3. QED
    BY <2>1, <2>2, ClustersHoldAll
<1>2. QED
  BY <1>1, ReportInit, ReportStep, PTL DEF Spec
=============================================================================
