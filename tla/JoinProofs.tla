----------------------------- MODULE JoinProofs -----------------------------
(***************************************************************************)
(* Theorems about the FARS path after a release is fetched: the join of    *)
(* its two files and the artifact that is written of it, for every pair of *)
(* files and every prior release, and the aggregate documents of the       *)
(* joined records, for every snapshot and every reviewed crosswalk.  The   *)
(* sums over crashes and modes are those of CountingProofs.                *)
(***************************************************************************)
EXTENDS CountingProofs

-----------------------------------------------------------------------------
(* The join of two files: an induction over the rows of the second.        *)

LEMMA ModesAre ==
    Modes = {"occupant", "motorcyclist", "cyclist", "pedestrian", "other", "unknown"} /\ IsFiniteSet(Modes)
<1>1. DOMAIN ModeOrder = 1 .. 6
  BY DEF ModeOrder
<1>2. Modes = {ModeOrder[i] : i \in 1 .. 6}
  BY <1>1 DEF Modes, ToSet
<1>3. 1 .. 6 = {1, 2, 3, 4, 5, 6}
  OBVIOUS
<1>4. Modes = {ModeOrder[1], ModeOrder[2], ModeOrder[3], ModeOrder[4], ModeOrder[5], ModeOrder[6]}
  BY <1>2, <1>3
<1>5. /\ ModeOrder[1] = "occupant" /\ ModeOrder[2] = "motorcyclist" /\ ModeOrder[3] = "cyclist"
      /\ ModeOrder[4] = "pedestrian" /\ ModeOrder[5] = "other" /\ ModeOrder[6] = "unknown"
  BY DEF ModeOrder
<1>6. IsFiniteSet(Modes)
  <2>1. 6 \in Nat
    OBVIOUS
  <2>2. IsFiniteSet(1 .. 6)
    BY <2>1, CountsUp
  <2>3. QED
    BY <1>2, <2>2, ImageFinite
<1>7. QED
  BY <1>4, <1>5, <1>6

LEMMA ModeIs ==
    ASSUME NEW p, NEW regime
    PROVE  Mode(p, regime) \in Modes
<1>1. Mode(p, regime) \in {"occupant", "motorcyclist", "cyclist", "pedestrian", "other", "unknown"}
  <2> DEFINE known == TypeDomain(regime).other
  <2> HIDE DEF known
  <2>1. QED
    BY DEF Mode, known
<1>2. QED
  BY <1>1, ModesAre

\* The rows of a case among the first k, what is counted of them, and the summaries made of those.
Mine(persons, k, c) == {i \in 1 .. k : persons[i].case = c}
OfMode(persons, regime, k, c, m) == {i \in Mine(persons, k, c) : Mode(persons[i], regime) = m}
Died(persons, S) == {i \in S : persons[i].injury = Fatal}
CountOf(persons, regime, k, c) ==
  [involved |-> [m \in Modes |-> Cardinality(OfMode(persons, regime, k, c, m))],
   fatal    |-> [m \in Modes |-> Cardinality(Died(persons, OfMode(persons, regime, k, c, m)))]]
CasesTo(persons, k) == {persons[i].case : i \in 1 .. k}
Tally(persons, regime, k) == [c \in CasesTo(persons, k) |-> CountOf(persons, regime, k, c)]

\* With one row more a set has that row more, or not.
LEMMA OneMore ==
    ASSUME NEW k \in Nat \ {0}, NEW A \in SUBSET (1 .. k)
    PROVE  /\ IsFiniteSet(A) /\ Cardinality(A \ {k}) \in Nat
           /\ Cardinality(A) = Cardinality(A \ {k}) + (IF k \in A THEN 1 ELSE 0)
<1>1. IsFiniteSet(1 .. k)
  <2>1. k \in Nat
    OBVIOUS
  <2>2. QED
    BY <2>1, CountsUp
<1>2. IsFiniteSet(A) /\ IsFiniteSet(A \ {k})
  BY <1>1, FS_Subset
<1>3. Cardinality(A) \in Nat /\ Cardinality(A \ {k}) \in Nat
  BY <1>2, FS_CardinalityType
<1>4. CASE k \in A
  <2>1. Cardinality(A \ {k}) = Cardinality(A) - 1
    BY <1>2, <1>4, Smaller
  <2>2. QED
    BY <1>2, <1>3, <1>4, <2>1
<1>5. CASE k \notin A
  <2>1. A \ {k} = A
    BY <1>5
  <2>2. Cardinality(A \ {k}) = Cardinality(A)
    BY <2>1
  <2> DEFINE a == Cardinality(A)
             b == Cardinality(A \ {k})
  <2>3. a \in Nat /\ a = b + 0
    <3>1. a \in Nat /\ a = b
      BY <1>3, <2>2
    <3> HIDE DEF a, b
    <3>2. QED
      BY <3>1
  <2>4. QED
    BY <1>2, <1>3, <1>5, <2>3
<1>6. QED
  BY <1>4, <1>5

LEMMA TallyGrows ==
    ASSUME NEW persons, NEW regime, NEW k \in Nat \ {0}
    PROVE  Counted(Tally(persons, regime, k - 1), persons[k], regime) = Tally(persons, regime, k)
<1> DEFINE p == persons[k]
           T == Tally(persons, regime, k - 1)
           mode == Mode(p, regime)
           old == IF p.case \in DOMAIN T THEN T[p.case] ELSE NoPeople
           dead == IF p.injury = Fatal THEN 1 ELSE 0
           new == [involved |-> [old.involved EXCEPT ![mode] = @ + 1],
                   fatal    |-> [old.fatal EXCEPT ![mode] = @ + dead]]
           I(c, m) == OfMode(persons, regime, k, c, m)
           J(c, m) == OfMode(persons, regime, k - 1, c, m)
           C == CasesTo(persons, k - 1)
<1>1. k \in Nat /\ k - 1 \in Nat /\ \A i : i \in 1 .. k - 1 <=> i \in 1 .. k /\ i # k
  OBVIOUS
<1>2. mode \in Modes
  BY ModeIs
<1>3. CasesTo(persons, k) = C \cup {p.case}
  BY <1>1 DEF CasesTo
<1>4. ASSUME NEW c, NEW m
      PROVE  /\ I(c, m) \in SUBSET (1 .. k) /\ J(c, m) = I(c, m) \ {k}
             /\ k \in I(c, m) <=> c = p.case /\ m = mode
  BY <1>1 DEF OfMode, Mine
<1>5. ASSUME NEW c, NEW m
      PROVE  /\ Died(persons, I(c, m)) \in SUBSET (1 .. k)
             /\ Died(persons, J(c, m)) = Died(persons, I(c, m)) \ {k}
             /\ k \in Died(persons, I(c, m)) <=> c = p.case /\ m = mode /\ p.injury = Fatal
  <2> HIDE DEF I, J, mode
  <2>1. QED
    BY <1>4 DEF Died
<1>6. DOMAIN T = C /\ \A c \in C : T[c] = CountOf(persons, regime, k - 1, c)
  BY DEF Tally
<1> HIDE DEF T, I, J, mode, C
<1>7. old = CountOf(persons, regime, k - 1, p.case)
  <2>1. CASE p.case \in C
    BY <1>6, <2>1
  <2>2. CASE p.case \notin C
    <3>1. \A m : J(p.case, m) = {} /\ Died(persons, J(p.case, m)) = {}
      BY <2>2 DEF J, OfMode, Mine, C, CasesTo, Died
    <3>2. Cardinality({}) = 0
      BY FS_EmptySet
    <3>3. CountOf(persons, regime, k - 1, p.case) = NoPeople
      BY <3>1, <3>2 DEF CountOf, NoPeople, J
    <3>4. QED
      BY <1>6, <2>2, <3>3
  <2>3. QED
    BY <2>1, <2>2
<1> HIDE DEF old
<1>8. /\ old.involved = [m \in Modes |-> Cardinality(J(p.case, m))]
      /\ old.fatal = [m \in Modes |-> Cardinality(Died(persons, J(p.case, m)))]
  BY <1>7 DEF CountOf, J
<1>9. ASSUME NEW c, NEW m
      PROVE  /\ Cardinality(I(c, m)) = Cardinality(J(c, m)) + (IF c = p.case /\ m = mode THEN 1 ELSE 0)
             /\ Cardinality(Died(persons, I(c, m))) =
                  Cardinality(Died(persons, J(c, m))) + (IF c = p.case /\ m = mode THEN dead ELSE 0)
             /\ Cardinality(J(c, m)) \in Nat /\ Cardinality(Died(persons, J(c, m))) \in Nat
  <2>1. /\ Cardinality(I(c, m)) = Cardinality(I(c, m) \ {k}) + (IF k \in I(c, m) THEN 1 ELSE 0)
        /\ Cardinality(I(c, m) \ {k}) \in Nat
    BY <1>4, OneMore
  <2> DEFINE D == Died(persons, I(c, m))
  <2>2. D \in SUBSET (1 .. k)
    BY <1>5
  <2>3. /\ Cardinality(D) = Cardinality(D \ {k}) + (IF k \in D THEN 1 ELSE 0)
        /\ Cardinality(D \ {k}) \in Nat
    <3> HIDE DEF D
    <3>1. QED
      BY <2>2, OneMore
  <2>4. QED
    BY <1>4, <1>5, <2>1, <2>3
<1>10. new.involved = [m \in Modes |-> Cardinality(I(p.case, m))]
  BY <1>2, <1>8, <1>9
<1>11. new.fatal = [m \in Modes |-> Cardinality(Died(persons, I(p.case, m)))]
  BY <1>2, <1>8, <1>9
<1>12. new = CountOf(persons, regime, k, p.case)
  BY <1>10, <1>11 DEF CountOf, I
<1>13. ASSUME NEW c \in C, c # p.case PROVE T[c] = CountOf(persons, regime, k, c)
  <2>1. \A m : Cardinality(I(c, m)) = Cardinality(J(c, m))
    BY <1>9, <1>13
  <2>2. \A m : Cardinality(Died(persons, I(c, m))) = Cardinality(Died(persons, J(c, m)))
    BY <1>9, <1>13
  <2>3. CountOf(persons, regime, k - 1, c) = CountOf(persons, regime, k, c)
    BY <2>1, <2>2 DEF CountOf, I, J
  <2>4. QED
    BY <1>6, <2>3
<1>14. Counted(T, p, regime) = [c \in DOMAIN T \cup {p.case} |-> IF c = p.case THEN new ELSE T[c]]
  BY DEF Counted, old, mode
<1> HIDE DEF new
<1>15. Counted(T, p, regime) = [c \in C \cup {p.case} |-> CountOf(persons, regime, k, c)]
  BY <1>6, <1>12, <1>13, <1>14
<1>16. QED
  BY <1>3, <1>15 DEF T, Tally

\* What a row is refused for: it repeats one before it, or it does not fit its crash.
RowFits(crashes, p, regime) ==
  /\ p.case \in DOMAIN crashes /\ p.state = crashes[p.case].state
  /\ p.injury \in AllowedInjuries /\ p.type \in TypeDomain(regime).allowed
  /\ p.type \in OccupantTypes => ~(p.veh < 1)
  /\ p.type \notin OccupantTypes => ~(p.veh # 0)
Same(p, q) == <<q.case, q.veh, q.per>> = <<p.case, p.veh, p.per>>
Bad(crashes, persons, regime, k) ==
  \E j \in 1 .. k : RowRefused(crashes, SubSeq(persons, 1, j - 1), persons[j], regime)

LEMMA RowRefusedIs ==
    ASSUME NEW persons, persons \in Seq(PersonRows), NEW j \in 1 .. Len(persons), NEW crashes, NEW regime
    PROVE  RowRefused(crashes, SubSeq(persons, 1, j - 1), persons[j], regime) <=>
             (\E i \in 1 .. j - 1 : Same(persons[j], persons[i])) \/ ~RowFits(crashes, persons[j], regime)
<1> DEFINE before == SubSeq(persons, 1, j - 1)
           p == persons[j]
<1>1. Len(persons) \in Nat /\ \A i \in 1 .. Len(persons) : persons[i] \in PersonRows
  BY LenProperties, ElementOfSeq
<1>2. j \in Nat /\ j - 1 \in Nat /\ 1 \in Int /\ j - 1 \in Int
      /\ \A i \in 1 .. j - 1 : persons[i] \in PersonRows
  BY <1>1
<1>3. /\ before \in Seq(PersonRows)
      /\ Len(before) = IF 1 <= j - 1 THEN (j - 1) - 1 + 1 ELSE 0
      /\ \A i \in 1 .. (j - 1) - 1 + 1 : before[i] = persons[1 + i - 1]
  BY <1>2, SubSeqProperties
<1> HIDE DEF before, p
<1>4. Len(before) = j - 1 /\ \A i \in 1 .. j - 1 : before[i] = persons[i]
  BY <1>2, <1>3
<1>5. DOMAIN before = 1 .. j - 1
  BY <1>3, <1>4, LenProperties
<1>6. ToSet(before) = {persons[i] : i \in 1 .. j - 1}
  BY <1>4, <1>5 DEF ToSet
<1>7. (\E q \in ToSet(before) : <<q.case, q.veh, q.per>> = <<p.case, p.veh, p.per>>)
        <=> \E i \in 1 .. j - 1 : Same(p, persons[i])
  BY <1>6 DEF Same
<1>8. QED
  BY <1>7 DEF RowRefused, RowFits, before, p

\* After k rows the summaries are those of k rows, unless one of them was refused.
SumsTo(crashes, persons, regime, k) ==
  IF Bad(crashes, persons, regime, k) THEN Refused ELSE Tally(persons, regime, k)

LEMMA SumsStep ==
    ASSUME NEW persons, persons \in Seq(PersonRows), NEW k \in 1 .. Len(persons), NEW crashes, NEW regime
    PROVE  Tallied(crashes, persons, regime, SumsTo(crashes, persons, regime, k - 1), k)
             = SumsTo(crashes, persons, regime, k)
<1> DEFINE T == Tally(persons, regime, k - 1)
           refused == RowRefused(crashes, SubSeq(persons, 1, k - 1), persons[k], regime)
<1>1. Len(persons) \in Nat /\ \A i \in 1 .. Len(persons) : persons[i] \in PersonRows
  BY LenProperties, ElementOfSeq
<1>2. k \in Nat \ {0} /\ \A i : i \in 1 .. k <=> i \in 1 .. k - 1 \/ i = k
  BY <1>1
<1>3. Bad(crashes, persons, regime, k) <=> Bad(crashes, persons, regime, k - 1) \/ refused
  <2> DEFINE B(i) == RowRefused(crashes, SubSeq(persons, 1, i - 1), persons[i], regime)
  <2> HIDE DEF B
  <2>1. (\E i \in 1 .. k : B(i)) <=> (\E i \in 1 .. k - 1 : B(i)) \/ B(k)
    BY <1>2
  <2>2. QED
    BY <2>1 DEF Bad, B
<1>4. T # Refused
  <2>1. DOMAIN T = CasesTo(persons, k - 1)
    BY DEF Tally
  <2>2. \A i \in 1 .. k - 1 : persons[i].case # "refused"
    <3> SUFFICES ASSUME NEW i \in 1 .. k - 1 PROVE persons[i].case # "refused"
      OBVIOUS
    <3>1. i \in 1 .. Len(persons)
      BY <1>1
    <3>2. persons[i].case \in Cases
      BY <1>1, <3>1 DEF PersonRows
    <3>3. QED
      BY <3>2 DEF Cases
  <2>3. "refused" \notin DOMAIN T
    BY <2>1, <2>2 DEF CasesTo
  <2>4. "refused" \in DOMAIN Refused
    BY DEF Refused
  <2> HIDE DEF T
  <2>5. QED
    BY <2>3, <2>4
<1>5. Counted(T, persons[k], regime) = Tally(persons, regime, k)
  BY <1>2, TallyGrows
<1> HIDE DEF T, refused
<1>6. CASE Bad(crashes, persons, regime, k - 1)
  BY <1>3, <1>6 DEF SumsTo, Tallied
<1>7. CASE ~Bad(crashes, persons, regime, k - 1)
  <2>1. SumsTo(crashes, persons, regime, k - 1) = T
    BY <1>7 DEF SumsTo, T
  <2>2. Tallied(crashes, persons, regime, T, k) = IF refused THEN Refused ELSE Counted(T, persons[k], regime)
    BY <1>4 DEF Tallied, refused
  <2>3. QED
    BY <1>3, <1>5, <1>7, <2>1, <2>2 DEF SumsTo
<1>8. QED
  BY <1>6, <1>7

LEMMA PersonIndexIs ==
    ASSUME NEW persons, persons \in Seq(PersonRows), NEW crashes, NEW regime
    PROVE  LET s == SumsTo(crashes, persons, regime, Len(persons))
           IN PersonIndex(crashes, persons, regime) =
                IF \/ s = Refused \/ DOMAIN s # DOMAIN crashes
                   \/ \E c \in DOMAIN s : Total(s[c].fatal) # crashes[c].fatals
                THEN Refused ELSE s
<1> DEFINE n == Len(persons)
           S(k) == SumsTo(crashes, persons, regime, k)
           Step1(s, i) == Tallied(crashes, persons, regime, s, i)
           Fits(g) == g = [i \in 0 .. n |-> IF i = 0 THEN <<>> ELSE Step1(g[i - 1], i)]
           sums == CHOOSE g : Fits(g)
           G == [k \in 0 .. n |-> S(k)]
<1>1. n \in Nat
  BY LenProperties
<1>2. \A i \in 1 .. n : Step1(S(i - 1), i) = S(i)
  BY SumsStep
<1>3. S(0) = <<>>
  <2> DEFINE T == Tally(persons, regime, 0)
  <2>1. ~Bad(crashes, persons, regime, 0)
    BY DEF Bad
  <2>2. T = [c \in {} |-> CountOf(persons, regime, 0, c)]
    BY DEF Tally, CasesTo
  <2>3. T = <<>>
    BY <2>2
  <2>4. QED
    BY <2>1, <2>3 DEF SumsTo
<1> HIDE DEF n, S, Step1
<1>4. Fits(G)
  <2>1. \A k \in 0 .. n : G[k] = S(k)
    OBVIOUS
  <2>2. \A i \in 1 .. n : i - 1 \in 0 .. n /\ i # 0
    BY <1>1
  <2>3. \A i \in 0 .. n : i = 0 \/ i \in 1 .. n
    BY <1>1
  <2>4. \A i \in 0 .. n : G[i] = IF i = 0 THEN <<>> ELSE Step1(G[i - 1], i)
    <3> HIDE DEF G
    <3>1. QED
      BY <1>2, <1>3, <2>1, <2>2, <2>3
  <2>5. G = [i \in 0 .. n |-> G[i]]
    OBVIOUS
  <2> HIDE DEF G
  <2>6. QED
    BY <2>4, <2>5
<1>5. Fits(sums)
  <2> HIDE DEF Fits
  <2>1. QED
    BY <1>4
<1> HIDE DEF sums
<1>6. sums[0] = <<>> /\ \A i \in 1 .. n : sums[i] = Step1(sums[i - 1], i)
  <2>1. 0 \in 0 .. n /\ \A i \in 1 .. n : i \in 0 .. n /\ i # 0
    BY <1>1
  <2>2. QED
    BY <1>5, <2>1
<1> DEFINE Q == {k \in 0 .. n : sums[k] = S(k)}
<1>7. 0 \in Q
  BY <1>1, <1>3, <1>6
<1>8. ASSUME NEW k \in 1 .. n, k - 1 \in Q PROVE k \in Q
  <2>1. sums[k] = Step1(S(k - 1), k)
    BY <1>6, <1>8
  <2>2. QED
    BY <1>1, <1>2, <2>1
<1>9. sums[n] = S(n)
  <2> HIDE DEF Q
  <2>1. \A k \in 0 .. n : k \in Q
    BY <1>1, <1>7, <1>8, StepByStep
  <2>2. n \in Q
    BY <1>1, <2>1
  <2>3. QED
    BY <2>2 DEF Q
<1>10. PersonIndex(crashes, persons, regime) =
         IF \/ sums[n] = Refused \/ DOMAIN sums[n] # DOMAIN crashes
            \/ \E c \in DOMAIN sums[n] : Total(sums[n][c].fatal) # crashes[c].fatals
         THEN Refused ELSE sums[n]
  BY DEF PersonIndex, sums, Step1, n
<1>11. QED
  BY <1>9, <1>10 DEF S, n

\* Of finitely many things, each in one part, the parts add up to all.
Part(S, at, key) == {i \in S : at[i] = key}

LEMMA PartsAddUp ==
    ASSUME NEW K, IsFiniteSet(K), NEW S, IsFiniteSet(S), NEW at, \A i \in S : at[i] \in K,
           NEW size, \A key \in K : size[key] = Cardinality(Part(S, at, key))
    PROVE  Summed(size, K) = Cardinality(S)
<1> DEFINE Of == [i \in S |-> {at[i]}]
           one == [i \in S |-> 1]
<1>1. \A i \in S : Of[i] \subseteq K
  OBVIOUS
<1>2. \A key \in K : size[key] = Cardinality(HoldingOf(S, Of, key))
  <2>1. \A key \in K : HoldingOf(S, Of, key) = Part(S, at, key)
    BY DEF HoldingOf, Part
  <2>2. QED
    BY <2>1
<1>3. \A i \in S : one[i] = Cardinality(Of[i])
  <2>1. \A i \in S : one[i] = 1 /\ Of[i] = {at[i]}
    OBVIOUS
  <2>2. QED
    BY <2>1, FS_Singleton
<1>4. \A i \in S : one[i] = IF i \in S THEN 1 ELSE 0
  OBVIOUS
<1> HIDE DEF Of, one
<1>5. Summed(size, K) = Summed(one, S)
  BY <1>1, <1>2, <1>3, DoubleCount
<1>6. Summed(one, S) = Cardinality(S)
  BY <1>4, SumCounts
<1>7. QED
  BY <1>5, <1>6

\* The modes of a case add up to its rows, and those of the dead to its dead.
LEMMA TotalsAre ==
    ASSUME NEW persons, NEW regime, NEW k \in Nat, NEW c
    PROVE  /\ IsFiniteSet(Mine(persons, k, c)) /\ IsFiniteSet(Died(persons, Mine(persons, k, c)))
           /\ Total(CountOf(persons, regime, k, c).involved) = Cardinality(Mine(persons, k, c))
           /\ Total(CountOf(persons, regime, k, c).fatal) = Cardinality(Died(persons, Mine(persons, k, c)))
           /\ \A m \in Modes :
                /\ CountOf(persons, regime, k, c).fatal[m] \in Nat
                /\ CountOf(persons, regime, k, c).involved[m] \in Nat
                /\ CountOf(persons, regime, k, c).fatal[m] <= CountOf(persons, regime, k, c).involved[m]
<1> DEFINE M == Mine(persons, k, c)
           D == Died(persons, M)
           n == CountOf(persons, regime, k, c)
           at == [i \in 1 .. k |-> Mode(persons[i], regime)]
<1>1. IsFiniteSet(M) /\ IsFiniteSet(D) /\ M \subseteq 1 .. k /\ D \subseteq M
  <2>1. IsFiniteSet(1 .. k)
    BY CountsUp
  <2>2. M \subseteq 1 .. k /\ D \subseteq M
    BY DEF Mine, Died
  <2> HIDE DEF M, D
  <2>3. QED
    BY <2>1, <2>2, FS_Subset
<1>2. \A i \in 1 .. k : at[i] = Mode(persons[i], regime) /\ at[i] \in Modes
  BY ModeIs
<1> HIDE DEF at
<1>3. ASSUME NEW m \in Modes
      PROVE  /\ n.involved[m] = Cardinality(Part(M, at, m))
             /\ n.fatal[m] = Cardinality(Part(D, at, m))
  <2>1. Part(M, at, m) = OfMode(persons, regime, k, c, m)
    BY <1>1, <1>2 DEF OfMode, Part
  <2>2. Part(D, at, m) = Died(persons, OfMode(persons, regime, k, c, m))
    BY <1>1, <1>2, <2>1 DEF Died, Part
  <2>3. /\ n.involved[m] = Cardinality(OfMode(persons, regime, k, c, m))
        /\ n.fatal[m] = Cardinality(Died(persons, OfMode(persons, regime, k, c, m)))
    BY DEF CountOf
  <2>4. QED
    BY <2>1, <2>2, <2>3
<1> DEFINE N == n.involved
           F == n.fatal
<1> HIDE DEF M, D, n
<1>4. Summed(N, Modes) = Cardinality(M)
  <2>1. \A i \in M : at[i] \in Modes
    BY <1>1, <1>2
  <2>2. \A m \in Modes : N[m] = Cardinality(Part(M, at, m))
    BY <1>3
  <2>3. IsFiniteSet(Modes) /\ IsFiniteSet(M)
    BY <1>1, ModesAre
  <2> HIDE DEF N
  <2>4. QED
    BY <2>1, <2>2, <2>3, PartsAddUp
<1>5. Summed(F, Modes) = Cardinality(D)
  <2>1. \A i \in D : at[i] \in Modes
    BY <1>1, <1>2
  <2>2. \A m \in Modes : F[m] = Cardinality(Part(D, at, m))
    BY <1>3
  <2>3. IsFiniteSet(Modes) /\ IsFiniteSet(D)
    BY <1>1, ModesAre
  <2> HIDE DEF F
  <2>4. QED
    BY <2>1, <2>2, <2>3, PartsAddUp
<1>6. Total(N) = Summed(N, Modes) /\ Total(F) = Summed(F, Modes)
  BY DEF Total, Summed
<1>7. ASSUME NEW m \in Modes PROVE F[m] \in Nat /\ N[m] \in Nat /\ F[m] <= N[m]
  <2> DEFINE A == Part(M, at, m)
             B == Part(D, at, m)
  <2>1. A \subseteq M /\ B \subseteq A
    BY <1>1 DEF Part
  <2>2. N[m] = Cardinality(A) /\ F[m] = Cardinality(B)
    BY <1>3
  <2> HIDE DEF A, B, N, F
  <2>3. IsFiniteSet(A) /\ IsFiniteSet(B) /\ Cardinality(B) <= Cardinality(A)
    BY <1>1, <2>1, FS_Subset
  <2>4. QED
    BY <2>2, <2>3, FS_CardinalityType
<1>8. QED
  BY <1>1, <1>4, <1>5, <1>6, <1>7 DEF M, D, n

\* The crashes of a file by their cases.
CrashCases(accidents) == {accidents[i].case : i \in 1 .. Len(accidents)}
Distinct(accidents) ==
  \A i, j \in 1 .. Len(accidents) : accidents[i].case = accidents[j].case => i = j
IndexOf(accidents, crashes) ==
  /\ DOMAIN crashes = CrashCases(accidents)
  /\ \A i \in 1 .. Len(accidents) : crashes[accidents[i].case] = accidents[i]

LEMMA IndexIs ==
    ASSUME NEW accidents, accidents \in Seq(AccidentRows)
    PROVE  IF accidents # <<>> /\ Distinct(accidents)
           THEN IndexOf(accidents, AccidentIndex(accidents)) /\ AccidentIndex(accidents) # Refused
           ELSE AccidentIndex(accidents) = Refused
<1> DEFINE n == Len(accidents)
           S == 1 .. n
           f == [i \in S |-> accidents[i].case]
           cases == CrashCases(accidents)
           X == AccidentIndex(accidents)
<1>1. /\ n \in Nat /\ DOMAIN accidents = S
      /\ \A i \in S : accidents[i] \in AccidentRows /\ accidents[i].case \in Cases
  <2>1. /\ n \in Nat /\ DOMAIN accidents = S /\ \A i \in S : accidents[i] \in AccidentRows
    BY LenProperties, ElementOfSeq
  <2>2. QED
    BY <2>1 DEF AccidentRows
<1>2. IsFiniteSet(S) /\ Cardinality(S) = n
  BY <1>1, CountsUp
<1>3. cases = {accidents[i].case : i \in S}
  BY DEF CrashCases
<1>4. X = IF accidents = <<>> \/ Cardinality(cases) # n THEN Refused
          ELSE [c \in cases |-> CHOOSE row \in ToSet(accidents) : row.case = c]
  BY <1>1, <1>3 DEF AccidentIndex
<1>5. ToSet(accidents) = {accidents[i] : i \in S}
  BY <1>1 DEF ToSet
<1> HIDE DEF cases, X, S, n
<1>6. Cardinality(cases) = n <=> Distinct(accidents)
  <2>1. f \in Surjection(S, cases)
    BY <1>3 DEF Surjection
  <2>2. Cardinality(cases) = n <=> f \in Injection(S, cases)
    BY <1>2, <2>1, FS_Surjection
  <2>3. f \in Injection(S, cases) <=> \A i, j \in S : accidents[i].case = accidents[j].case => i = j
    BY <1>3 DEF Injection, IsInjective
  <2>4. QED
    BY <2>2, <2>3 DEF Distinct, S, n
<1>7. CASE accidents # <<>> /\ Distinct(accidents)
  <2>1. X = [c \in cases |-> CHOOSE row \in ToSet(accidents) : row.case = c]
    BY <1>4, <1>6, <1>7
  <2>2. DOMAIN X = cases
    BY <2>1
  <2>3. ASSUME NEW i \in S PROVE X[accidents[i].case] = accidents[i]
    <3>1. accidents[i].case \in cases
      BY <1>3
    <3>2. X[accidents[i].case] = CHOOSE row \in ToSet(accidents) : row.case = accidents[i].case
      BY <2>1, <3>1
    <3>3. \A row \in ToSet(accidents) : row.case = accidents[i].case => row = accidents[i]
      BY <1>5, <1>7 DEF Distinct, S, n
    <3>4. accidents[i] \in ToSet(accidents)
      BY <1>5
    <3>5. QED
      BY <3>2, <3>3, <3>4
  <2>4. X # Refused
    <3>1. "refused" \notin cases
      <4> SUFFICES ASSUME NEW i \in S PROVE accidents[i].case # "refused"
        BY <1>3
      <4>1. accidents[i].case \in Cases
        BY <1>1
      <4>2. QED
        BY <4>1 DEF Cases
    <3>2. "refused" \in DOMAIN Refused
      BY DEF Refused
    <3>3. QED
      BY <2>2, <3>1, <3>2
  <2>5. IndexOf(accidents, X)
    BY <2>2, <2>3 DEF IndexOf, cases, S, n
  <2>6. QED
    BY <1>7, <2>4, <2>5 DEF X
<1>8. CASE ~(accidents # <<>> /\ Distinct(accidents))
  BY <1>4, <1>6, <1>8 DEF X
<1>9. QED
  BY <1>7, <1>8

\* Coherence, as the rows show it.
RowsFit(accidents, persons, regime) ==
  /\ \A i, j \in 1 .. Len(persons) : Same(persons[i], persons[j]) => i = j
  /\ \A i \in 1 .. Len(persons) :
       /\ \E j \in 1 .. Len(accidents) : /\ accidents[j].case = persons[i].case
                                         /\ accidents[j].state = persons[i].state
       /\ persons[i].injury \in AllowedInjuries
       /\ persons[i].type \in TypeDomain(regime).allowed
       /\ (persons[i].veh = 0) <=> (persons[i].type \notin OccupantTypes)

LEMMA RowsFitIs ==
    ASSUME NEW accidents, accidents \in Seq(AccidentRows), NEW persons, persons \in Seq(PersonRows),
           NEW regime, NEW crashes, IndexOf(accidents, crashes), Distinct(accidents)
    PROVE  RowsFit(accidents, persons, regime) <=> ~Bad(crashes, persons, regime, Len(persons))
<1> DEFINE n == Len(persons)
           Before(i) == \E j \in 1 .. i - 1 : Same(persons[i], persons[j])
           Fits(i) == RowFits(crashes, persons[i], regime)
<1>1. n \in Nat /\ \A i \in 1 .. n : persons[i] \in PersonRows /\ persons[i].veh \in Nat
  <2>1. n \in Nat /\ \A i \in 1 .. n : persons[i] \in PersonRows
    BY LenProperties, ElementOfSeq
  <2>2. QED
    BY <2>1 DEF PersonRows
<1>2. Bad(crashes, persons, regime, n) <=> \E i \in 1 .. n : Before(i) \/ ~Fits(i)
  BY RowRefusedIs DEF Bad
<1>3. (\A i, j \in 1 .. n : Same(persons[i], persons[j]) => i = j) <=> \A i \in 1 .. n : ~Before(i)
  <2>1. ASSUME \A i \in 1 .. n : ~Before(i), NEW i \in 1 .. n, NEW j \in 1 .. n, Same(persons[i], persons[j])
        PROVE  i = j
    <3>1. i \in Nat /\ j \in Nat /\ Same(persons[j], persons[i])
      BY <1>1, <2>1 DEF Same
    <3>2. ~(j \in 1 .. i - 1) /\ ~(i \in 1 .. j - 1)
      BY <2>1, <3>1
    <3>3. QED
      BY <1>1, <3>1, <3>2
  <2>2. ASSUME \A i, j \in 1 .. n : Same(persons[i], persons[j]) => i = j, NEW i \in 1 .. n, Before(i)
        PROVE  FALSE
    <3>1. PICK j \in 1 .. i - 1 : Same(persons[i], persons[j])
      BY <2>2
    <3>2. j \in 1 .. n /\ j # i
      BY <1>1
    <3>3. QED
      BY <2>2, <3>1, <3>2
  <2>3. QED
    BY <2>1, <2>2
<1>4. ASSUME NEW i \in 1 .. n
      PROVE  Fits(i) <=>
               /\ \E j \in 1 .. Len(accidents) : /\ accidents[j].case = persons[i].case
                                                 /\ accidents[j].state = persons[i].state
               /\ persons[i].injury \in AllowedInjuries
               /\ persons[i].type \in TypeDomain(regime).allowed
               /\ (persons[i].veh = 0) <=> (persons[i].type \notin OccupantTypes)
  <2> DEFINE p == persons[i]
  <2>1. p.veh \in Nat
    BY <1>1
  <2>2. (p.type \in OccupantTypes => ~(p.veh < 1)) /\ (p.type \notin OccupantTypes => ~(p.veh # 0))
          <=> ((p.veh = 0) <=> (p.type \notin OccupantTypes))
    BY <2>1
  <2>3. (p.case \in DOMAIN crashes /\ p.state = crashes[p.case].state)
          <=> \E j \in 1 .. Len(accidents) : accidents[j].case = p.case /\ accidents[j].state = p.state
    <3>1. ASSUME p.case \in DOMAIN crashes, p.state = crashes[p.case].state
          PROVE  \E j \in 1 .. Len(accidents) : accidents[j].case = p.case /\ accidents[j].state = p.state
      <4>1. PICK j \in 1 .. Len(accidents) : p.case = accidents[j].case
        BY <3>1 DEF IndexOf, CrashCases
      <4>2. crashes[accidents[j].case] = accidents[j]
        BY DEF IndexOf
      <4>3. QED
        BY <3>1, <4>1, <4>2
    <3>2. ASSUME NEW j \in 1 .. Len(accidents), accidents[j].case = p.case, accidents[j].state = p.state
          PROVE  p.case \in DOMAIN crashes /\ p.state = crashes[p.case].state
      <4>1. crashes[accidents[j].case] = accidents[j] /\ accidents[j].case \in DOMAIN crashes
        BY DEF IndexOf, CrashCases
      <4>2. QED
        BY <3>2, <4>1
    <3>3. QED
      BY <3>1, <3>2
  <2> HIDE DEF p
  <2>4. RowFits(crashes, p, regime) <=>
           /\ \E j \in 1 .. Len(accidents) : accidents[j].case = p.case /\ accidents[j].state = p.state
           /\ p.injury \in AllowedInjuries /\ p.type \in TypeDomain(regime).allowed
           /\ (p.veh = 0) <=> (p.type \notin OccupantTypes)
    BY <2>2, <2>3, Zenon DEF RowFits
  <2>5. QED
    BY <2>4 DEF p
<1> HIDE DEF Fits, Before
<1>5. RowsFit(accidents, persons, regime) <=>
        (\A i, j \in 1 .. n : Same(persons[i], persons[j]) => i = j) /\ \A i \in 1 .. n : Fits(i)
  BY <1>4 DEF RowsFit
<1>6. QED
  BY <1>2, <1>3, <1>5

\* Every crash has people, and as many died as it says.
DeathsFit(accidents, persons) ==
  \A j \in 1 .. Len(accidents) :
    LET mine == Mine(persons, Len(persons), accidents[j].case)
    IN mine # {} /\ Cardinality(Died(persons, mine)) = accidents[j].fatals

LEMMA CoherentIs ==
    ASSUME NEW accidents, accidents \in Seq(AccidentRows), NEW persons, persons \in Seq(PersonRows),
           NEW regime
    PROVE  Coherent(accidents, persons, regime) <=>
             /\ accidents # <<>> /\ Distinct(accidents)
             /\ RowsFit(accidents, persons, regime) /\ DeathsFit(accidents, persons)
<1>1. DOMAIN accidents = 1 .. Len(accidents) /\ DOMAIN persons = 1 .. Len(persons)
  BY LenProperties
<1>2. Distinct(accidents) <=>
        \A i, j \in DOMAIN accidents : accidents[i].case = accidents[j].case => i = j
  BY <1>1 DEF Distinct
<1>3. RowsFit(accidents, persons, regime) <=>
        /\ \A i, j \in DOMAIN persons :
             <<persons[i].case, persons[i].veh, persons[i].per>>
               = <<persons[j].case, persons[j].veh, persons[j].per>> => i = j
        /\ \A i \in DOMAIN persons :
             /\ \E j \in DOMAIN accidents : /\ accidents[j].case = persons[i].case
                                            /\ accidents[j].state = persons[i].state
             /\ persons[i].injury \in AllowedInjuries
             /\ persons[i].type \in TypeDomain(regime).allowed
             /\ (persons[i].veh = 0) <=> (persons[i].type \notin OccupantTypes)
  BY <1>1 DEF RowsFit, Same
<1>4. DeathsFit(accidents, persons) <=>
        \A j \in DOMAIN accidents :
          LET mine == {i \in DOMAIN persons : persons[i].case = accidents[j].case}
          IN mine # {} /\ Cardinality({i \in mine : persons[i].injury = Fatal}) = accidents[j].fatals
  BY <1>1 DEF DeathsFit, Mine, Died
<1>5. QED
  BY <1>2, <1>3, <1>4, Zenon DEF Coherent

\* What collecting gives of two files that agree.
KeptCrashes(accidents) == {i \in 1 .. Len(accidents) : accidents[i].placed /\ accidents[i].fatals >= 1}
KeptCases(accidents) == {accidents[i].case : i \in KeptCrashes(accidents)}
RecordAt(accidents, persons, regime, i) ==
  [case |-> accidents[i].case, fatals |-> accidents[i].fatals,
   people |-> CountOf(persons, regime, Len(persons), accidents[i].case)]
PeopleOfKept(accidents, persons) ==
  {i \in 1 .. Len(persons) : persons[i].case \in KeptCases(accidents)}

LEMMA PeopleAre ==
    ASSUME NEW accidents, accidents \in Seq(AccidentRows), NEW persons, persons \in Seq(PersonRows),
           NEW regime, NEW crashes, IndexOf(accidents, crashes), Distinct(accidents)
    PROVE  IF RowsFit(accidents, persons, regime) /\ DeathsFit(accidents, persons)
           THEN /\ PersonIndex(crashes, persons, regime) = Tally(persons, regime, Len(persons))
                /\ Tally(persons, regime, Len(persons)) # Refused
                /\ CasesTo(persons, Len(persons)) = CrashCases(accidents)
           ELSE PersonIndex(crashes, persons, regime) = Refused
<1> DEFINE n == Len(persons)
           T == Tally(persons, regime, n)
           s == SumsTo(crashes, persons, regime, n)
           X == PersonIndex(crashes, persons, regime)
           ok == /\ DOMAIN T = DOMAIN crashes
                 /\ \A c \in DOMAIN T : Total(T[c].fatal) = crashes[c].fatals
<1>1. n \in Nat /\ \A i \in 1 .. n : persons[i] \in PersonRows /\ persons[i].case \in Cases
  <2>1. n \in Nat /\ \A i \in 1 .. n : persons[i] \in PersonRows
    BY LenProperties, ElementOfSeq
  <2>2. QED
    BY <2>1 DEF PersonRows
<1>2. X = IF \/ s = Refused \/ DOMAIN s # DOMAIN crashes
             \/ \E c \in DOMAIN s : Total(s[c].fatal) # crashes[c].fatals
          THEN Refused ELSE s
  BY PersonIndexIs
<1>3. DOMAIN T = CasesTo(persons, n) /\ \A c \in DOMAIN T : T[c] = CountOf(persons, regime, n, c)
  BY DEF Tally
<1>4. T # Refused
  <2>1. "refused" \notin DOMAIN T
    <3> SUFFICES ASSUME NEW i \in 1 .. n PROVE persons[i].case # "refused"
      BY <1>3 DEF CasesTo
    <3>1. persons[i].case \in Cases
      BY <1>1
    <3>2. QED
      BY <3>1 DEF Cases
  <2>2. "refused" \in DOMAIN Refused
    BY DEF Refused
  <2> HIDE DEF T
  <2>3. QED
    BY <2>1, <2>2
<1>5. s = IF RowsFit(accidents, persons, regime) THEN T ELSE Refused
  BY RowsFitIs DEF SumsTo
<1> HIDE DEF T, s, X, n
<1>6. X = IF RowsFit(accidents, persons, regime) /\ ok THEN T ELSE Refused
  BY <1>2, <1>4, <1>5
<1>7. \A c \in DOMAIN T : Total(T[c].fatal) = Cardinality(Died(persons, Mine(persons, n, c)))
  BY <1>1, <1>3, TotalsAre
<1>8. ASSUME RowsFit(accidents, persons, regime) PROVE ok <=> DeathsFit(accidents, persons)
  <2>1. DOMAIN T \subseteq DOMAIN crashes
    BY <1>3, <1>8 DEF RowsFit, CasesTo, IndexOf, CrashCases, n
  <2>2. DOMAIN T = DOMAIN crashes <=> \A j \in 1 .. Len(accidents) : Mine(persons, n, accidents[j].case) # {}
    <3>1. DOMAIN T = CasesTo(persons, n) /\ DOMAIN crashes = CrashCases(accidents)
      BY <1>3 DEF IndexOf
    <3>2. \A c : c \in CasesTo(persons, n) <=> Mine(persons, n, c) # {}
      BY DEF CasesTo, Mine
    <3>3. \A c : c \in CrashCases(accidents) <=> \E j \in 1 .. Len(accidents) : c = accidents[j].case
      BY DEF CrashCases
    <3>4. QED
      BY <2>1, <3>1, <3>2, <3>3
  <2>3. ASSUME DOMAIN T = DOMAIN crashes
        PROVE  (\A c \in DOMAIN T : Total(T[c].fatal) = crashes[c].fatals) <=>
                 \A j \in 1 .. Len(accidents) :
                   Cardinality(Died(persons, Mine(persons, n, accidents[j].case))) = accidents[j].fatals
    <3>1. DOMAIN T = CrashCases(accidents)
      BY <2>3 DEF IndexOf
    <3>2. (\A c \in DOMAIN T : Total(T[c].fatal) = crashes[c].fatals) <=>
            \A c \in DOMAIN T : Cardinality(Died(persons, Mine(persons, n, c))) = crashes[c].fatals
      BY <1>7
    <3>3. \A j \in 1 .. Len(accidents) : accidents[j].case \in DOMAIN T
                                         /\ crashes[accidents[j].case] = accidents[j]
      BY <3>1 DEF IndexOf, CrashCases
    <3>4. \A c \in DOMAIN T : \E j \in 1 .. Len(accidents) : c = accidents[j].case
      BY <3>1 DEF CrashCases
    <3>5. ASSUME \A c \in DOMAIN T : Cardinality(Died(persons, Mine(persons, n, c))) = crashes[c].fatals,
                 NEW j \in 1 .. Len(accidents)
          PROVE  Cardinality(Died(persons, Mine(persons, n, accidents[j].case))) = accidents[j].fatals
      BY <3>3, <3>5
    <3>6. ASSUME \A j \in 1 .. Len(accidents) :
                   Cardinality(Died(persons, Mine(persons, n, accidents[j].case))) = accidents[j].fatals,
                 NEW c \in DOMAIN T
          PROVE  Cardinality(Died(persons, Mine(persons, n, c))) = crashes[c].fatals
      <4>1. PICK j \in 1 .. Len(accidents) : c = accidents[j].case
        BY <3>4
      <4>2. QED
        BY <3>3, <3>6, <4>1
    <3>7. QED
      BY <3>2, <3>5, <3>6
  <2>4. DeathsFit(accidents, persons) <=>
          /\ \A j \in 1 .. Len(accidents) : Mine(persons, n, accidents[j].case) # {}
          /\ \A j \in 1 .. Len(accidents) :
               Cardinality(Died(persons, Mine(persons, n, accidents[j].case))) = accidents[j].fatals
    BY DEF DeathsFit, n
  <2>5. QED
    BY <2>2, <2>3, <2>4
<1>9. CASE RowsFit(accidents, persons, regime) /\ DeathsFit(accidents, persons)
  <2>1. X = T /\ DOMAIN T = DOMAIN crashes
    BY <1>6, <1>8, <1>9
  <2>2. CasesTo(persons, n) = CrashCases(accidents)
    BY <1>3, <2>1 DEF IndexOf
  <2>3. QED
    BY <1>4, <1>9, <2>1, <2>2 DEF X, T, n
<1>10. CASE ~(RowsFit(accidents, persons, regime) /\ DeathsFit(accidents, persons))
  BY <1>6, <1>8, <1>10 DEF X
<1>11. QED
  BY <1>9, <1>10

LEMMA RestCounts ==
    ASSUME NEW n \in Nat, NEW A \in SUBSET (1 .. n)
    PROVE  /\ IsFiniteSet(A) /\ Cardinality(A) \in Nat /\ Cardinality(A) <= n
           /\ Cardinality((1 .. n) \ A) = n - Cardinality(A)
<1>1. IsFiniteSet(1 .. n) /\ Cardinality(1 .. n) = n
  BY CountsUp
<1>2. IsFiniteSet(A) /\ Cardinality(A) <= n
  BY <1>1, FS_Subset
<1>3. Cardinality(A) \in Nat
  BY <1>2, FS_CardinalityType
<1>4. (1 .. n) \cap A = A
  OBVIOUS
<1>5. Cardinality((1 .. n) \ A) = n - Cardinality(A)
  <2> DEFINE S == 1 .. n
  <2> HIDE DEF S
  <2>1. Cardinality(S \ A) = Cardinality(S) - Cardinality(S \cap A)
    BY <1>1, FS_Difference DEF S
  <2>2. QED
    BY <1>1, <1>4, <2>1 DEF S
<1>6. QED
  BY <1>2, <1>3, <1>5

\* The records and the accounting of two files that agree.
RecordsJoined(accidents, persons, regime) ==
  {RecordAt(accidents, persons, regime, i) : i \in KeptCrashes(accidents)}
Joined(accidents, persons, regime) ==
  LET kept == Cardinality(KeptCrashes(accidents))
      in   == Cardinality(PeopleOfKept(accidents, persons))
  IN [records   |-> RecordsJoined(accidents, persons, regime),
      crashes   |-> [read |-> Len(accidents), accepted |-> kept],
      persons   |-> [read |-> Len(persons), accepted |-> in, excluded |-> Len(persons) - in],
      cases     |-> [joined |-> kept, excluded |-> Len(accidents) - kept]]

LEMMA KeptCount ==
    ASSUME NEW accidents, accidents \in Seq(AccidentRows), Distinct(accidents)
    PROVE  /\ KeptCrashes(accidents) \in SUBSET (1 .. Len(accidents)) /\ Len(accidents) \in Nat
           /\ IsFiniteSet(KeptCases(accidents)) /\ IsFiniteSet(KeptCrashes(accidents))
           /\ Cardinality(KeptCases(accidents)) = Cardinality(KeptCrashes(accidents))
           /\ Cardinality(KeptCrashes(accidents)) \in Nat
           /\ Cardinality(CrashCases(accidents) \ KeptCases(accidents))
                = Len(accidents) - Cardinality(KeptCrashes(accidents))
<1> DEFINE n == Len(accidents)
           K == KeptCrashes(accidents)
           f == [i \in 1 .. n |-> accidents[i].case]
<1>1. n \in Nat /\ K \in SUBSET (1 .. n)
  BY LenProperties DEF KeptCrashes
<1>2. /\ IsFiniteSet(K) /\ Cardinality(K) \in Nat /\ IsFiniteSet((1 .. n) \ K)
      /\ Cardinality((1 .. n) \ K) = n - Cardinality(K)
  <2>1. (1 .. n) \ K \in SUBSET (1 .. n)
    OBVIOUS
  <2> HIDE DEF K
  <2>2. QED
    BY <1>1, <2>1, RestCounts
<1>3. \A x, y \in 1 .. n : f[x] = f[y] => x = y
  BY DEF Distinct
<1>4. KeptCases(accidents) = {f[x] : x \in K}
  BY <1>1 DEF KeptCases
<1>5. CrashCases(accidents) \ KeptCases(accidents) = {f[x] : x \in (1 .. n) \ K}
  <2>1. CrashCases(accidents) = {f[x] : x \in 1 .. n}
    BY DEF CrashCases
  <2> HIDE DEF K, f, n
  <2>2. QED
    BY <1>1, <1>3, <1>4, <2>1
<1> HIDE DEF K, f, n
<1>6. IsFiniteSet({f[x] : x \in K}) /\ Cardinality({f[x] : x \in K}) = Cardinality(K)
  <2>1. \A x, y \in K : f[x] = f[y] => x = y
    BY <1>1, <1>3
  <2>2. QED
    BY <1>2, <2>1, ImageOneToOne
<1>7. Cardinality({f[x] : x \in (1 .. n) \ K}) = Cardinality((1 .. n) \ K)
  <2> DEFINE R == (1 .. n) \ K
  <2>1. \A x, y \in R : f[x] = f[y] => x = y
    BY <1>3
  <2> HIDE DEF R
  <2>2. IsFiniteSet(R) => Cardinality({f[x] : x \in R}) = Cardinality(R)
    BY <2>1, ImageOneToOne
  <2>3. QED
    BY <1>2, <2>2 DEF R
<1>8. QED
  BY <1>1, <1>2, <1>4, <1>5, <1>6, <1>7 DEF n, K

LEMMA CollectIs ==
    ASSUME NEW accidents, accidents \in Seq(AccidentRows), NEW persons, persons \in Seq(PersonRows),
           NEW regime
    PROVE  IF Coherent(accidents, persons, regime)
           THEN /\ Collect(accidents, persons, regime) = Joined(accidents, persons, regime)
                /\ Collect(accidents, persons, regime) # Refused
           ELSE Collect(accidents, persons, regime) = Refused
<1> DEFINE X == AccidentIndex(accidents)
           people == IF X = Refused THEN Refused ELSE PersonIndex(X, persons, regime)
           kept == {row.case : row \in Accepted(accidents)}
           size == [c \in DOMAIN people |-> Total(people[c].involved)]
           in == MapThenSumSet(LAMBDA c : size[c], kept)
           n == Len(persons)
           T == Tally(persons, regime, n)
           J == Joined(accidents, persons, regime)
           R == Collect(accidents, persons, regime)
           Out == [records   |-> {[case |-> c, fatals |-> X[c].fatals, people |-> people[c]] : c \in kept},
                   crashes   |-> [read |-> Len(accidents), accepted |-> Cardinality(kept)],
                   persons   |-> [read |-> Len(persons), accepted |-> in,
                                  excluded |-> Len(persons) - in],
                   cases     |-> [joined   |-> Cardinality(kept),
                                  excluded |-> Cardinality(DOMAIN people \ kept)]]
<1>1. R = IF people = Refused THEN Refused ELSE Out
  BY DEF Collect
<1>2. Coherent(accidents, persons, regime) <=>
        /\ accidents # <<>> /\ Distinct(accidents)
        /\ RowsFit(accidents, persons, regime) /\ DeathsFit(accidents, persons)
  BY CoherentIs
<1>3. IF accidents # <<>> /\ Distinct(accidents)
      THEN IndexOf(accidents, X) /\ X # Refused
      ELSE X = Refused
  BY IndexIs
<1>4. ASSUME accidents # <<>>, Distinct(accidents)
      PROVE  IF RowsFit(accidents, persons, regime) /\ DeathsFit(accidents, persons)
             THEN /\ people = T /\ T # Refused
                  /\ CasesTo(persons, n) = CrashCases(accidents)
             ELSE people = Refused
  <2>1. IndexOf(accidents, X) /\ people = PersonIndex(X, persons, regime)
    BY <1>3, <1>4
  <2> HIDE DEF X, people
  <2>2. QED
    BY <1>4, <2>1, PeopleAre
<1>5. CASE ~Coherent(accidents, persons, regime)
  <2>1. people = Refused
    <3> HIDE DEF X
    <3>1. CASE ~(accidents # <<>> /\ Distinct(accidents))
      BY <1>3, <3>1
    <3>2. CASE accidents # <<>> /\ Distinct(accidents)
      <4> HIDE DEF people
      <4>1. QED
        BY <1>2, <1>4, <1>5, <3>2
    <3>3. QED
      BY <3>1, <3>2
  <2> HIDE DEF people, R, Out
  <2>2. QED
    BY <1>1, <1>5, <2>1 DEF R
<1>6. CASE Coherent(accidents, persons, regime)
  <2>1. /\ Distinct(accidents) /\ IndexOf(accidents, X) /\ people = T /\ T # Refused
        /\ CasesTo(persons, n) = CrashCases(accidents)
    <3> HIDE DEF X, people, T, n
    <3>1. QED
      BY <1>2, <1>3, <1>4, <1>6
  <2>2. kept = KeptCases(accidents)
    <3>1. DOMAIN accidents = 1 .. Len(accidents)
      BY LenProperties
    <3>2. QED
      BY <3>1 DEF Accepted, ToSet, KeptCases, KeptCrashes
  <2>3. DOMAIN people = CrashCases(accidents)
        /\ \A c \in DOMAIN people : people[c] = CountOf(persons, regime, n, c)
    <3>1. DOMAIN T = CasesTo(persons, n) /\ \A c \in DOMAIN T : T[c] = CountOf(persons, regime, n, c)
      BY DEF Tally
    <3> HIDE DEF people, T, n, X
    <3>2. QED
      BY <2>1, <3>1
  <2>4. n \in Nat
    BY LenProperties
  <2> HIDE DEF people
  <2>5. KeptCases(accidents) \subseteq CrashCases(accidents)
    BY DEF KeptCases, KeptCrashes, CrashCases
  <2>6. {[case |-> c, fatals |-> X[c].fatals, people |-> people[c]] : c \in KeptCases(accidents)} = J.records
    <3>1. \A i \in KeptCrashes(accidents) :
            /\ X[accidents[i].case] = accidents[i] /\ accidents[i].case \in KeptCases(accidents)
            /\ people[accidents[i].case] = CountOf(persons, regime, n, accidents[i].case)
      <4>1. \A i \in KeptCrashes(accidents) : i \in 1 .. Len(accidents)
        BY DEF KeptCrashes
      <4>2. \A i \in KeptCrashes(accidents) : accidents[i].case \in KeptCases(accidents)
        BY DEF KeptCases
      <4> HIDE DEF X
      <4>3. QED
        BY <2>1, <2>3, <2>5, <4>1, <4>2 DEF IndexOf
    <3>2. \A i \in KeptCrashes(accidents) :
            RecordAt(accidents, persons, regime, i)
              = [case |-> accidents[i].case, fatals |-> X[accidents[i].case].fatals,
                 people |-> people[accidents[i].case]]
      BY <3>1 DEF RecordAt
    <3>3. KeptCases(accidents) = {accidents[i].case : i \in KeptCrashes(accidents)}
      BY DEF KeptCases
    <3>4. J.records = {RecordAt(accidents, persons, regime, i) : i \in KeptCrashes(accidents)}
      BY DEF Joined, RecordsJoined
    <3> HIDE DEF X, J
    <3>5. QED
      BY <3>2, <3>3, <3>4
  <2>7. in = Cardinality(PeopleOfKept(accidents, persons))
    <3> DEFINE S == PeopleOfKept(accidents, persons)
               at == [i \in 1 .. n |-> persons[i].case]
               K == KeptCases(accidents)
    <3>1. S \subseteq 1 .. n /\ \A i \in S : at[i] \in K
      BY DEF PeopleOfKept
    <3>2. IsFiniteSet(S) /\ IsFiniteSet(K)
      <4>1. IsFiniteSet(K)
        BY <2>1, KeptCount
      <4> HIDE DEF S, K
      <4>2. QED
        BY <2>4, <3>1, <4>1, RestCounts
    <3>3. \A c \in K : size[c] = Cardinality(Part(S, at, c))
      <4> SUFFICES ASSUME NEW c \in K PROVE size[c] = Cardinality(Part(S, at, c))
        OBVIOUS
      <4>1. size[c] = Total(CountOf(persons, regime, n, c).involved)
        BY <2>3, <2>5
      <4>2. Total(CountOf(persons, regime, n, c).involved) = Cardinality(Mine(persons, n, c))
        BY <2>4, TotalsAre
      <4>3. Mine(persons, n, c) = Part(S, at, c)
        BY DEF Mine, Part, PeopleOfKept
      <4>4. QED
        BY <4>1, <4>2, <4>3
    <3>4. in = Summed(size, K)
      BY <2>2 DEF Summed
    <3> HIDE DEF S, at, K, size, in
    <3>5. Summed(size, K) = Cardinality(S)
      <4>1. IsFiniteSet(S) /\ \A i \in S : at[i] \in K
        BY <3>1, <3>2
      <4>2. IsFiniteSet(K)
        BY <3>2
      <4>3. QED
        BY <3>3, <4>1, <4>2, PartsAddUp
    <3>6. QED
      BY <3>4, <3>5 DEF S
  <2>8. /\ Cardinality(kept) = Cardinality(KeptCrashes(accidents))
        /\ Cardinality(DOMAIN people \ kept) = Len(accidents) - Cardinality(KeptCrashes(accidents))
    BY <2>1, <2>2, <2>3, KeptCount
  <2> HIDE DEF in, kept, X
  <2>9. Out = J
    BY <2>2, <2>6, <2>7, <2>8 DEF Joined
  <2>10. J # Refused
    <3>1. DOMAIN J = {"records", "crashes", "persons", "cases"}
      BY DEF Joined
    <3>2. "refused" \in DOMAIN Refused
      BY DEF Refused
    <3> HIDE DEF J
    <3>3. QED
      BY <3>1, <3>2
  <2>11. people # Refused
    BY <2>1
  <2> HIDE DEF Out, J, R
  <2>12. QED
    BY <1>1, <1>6, <2>9, <2>10, <2>11 DEF R, J
<1>7. QED
  BY <1>5, <1>6

\* The record of each crash that was kept, and no other.
OfCase(records, c) == {r \in records : r.case = c}

LEMMA RecordsAre ==
    ASSUME NEW accidents, accidents \in Seq(AccidentRows), Distinct(accidents),
           NEW persons, NEW regime, NEW j \in 1 .. Len(accidents)
    PROVE  OfCase(RecordsJoined(accidents, persons, regime), accidents[j].case) =
             IF j \in KeptCrashes(accidents) THEN {RecordAt(accidents, persons, regime, j)} ELSE {}
<1>1. \A i : RecordAt(accidents, persons, regime, i).case = accidents[i].case
  BY DEF RecordAt
<1>2. \A i \in KeptCrashes(accidents) : i \in 1 .. Len(accidents) /\ (accidents[i].case = accidents[j].case <=> i = j)
  BY DEF KeptCrashes, Distinct
<1>3. QED
  BY <1>1, <1>2 DEF OfCase, RecordsJoined

LEMMA JoinHoldsAll ==
    ASSUME NEW accidents, accidents \in Seq(AccidentRows), NEW persons, persons \in Seq(PersonRows),
           NEW regime
    PROVE  JoinHolds(accidents, persons, regime, Collect(accidents, persons, regime))
<1> DEFINE R == Collect(accidents, persons, regime)
           n == Len(persons)
           K == KeptCrashes(accidents)
           P == PeopleOfKept(accidents, persons)
           Rec(j) == RecordAt(accidents, persons, regime, j)
           mine(j) == {i \in DOMAIN persons : persons[i].case = accidents[j].case}
           recs(j) == {r \in R.records : r.case = accidents[j].case}
           Right(j) ==
             IF accidents[j].placed /\ accidents[j].fatals >= 1
             THEN /\ Cardinality(recs(j)) = 1
                  /\ \A r \in recs(j), m \in Modes :
                       r.people.involved[m] = Cardinality({i \in mine(j) : Mode(persons[i], regime) = m})
                  /\ \A r \in recs(j) : Total(r.people.fatal) = accidents[j].fatals
             ELSE recs(j) = {}
<1>1. CASE ~Coherent(accidents, persons, regime)
  <2>1. R = Refused
    BY <1>1, CollectIs
  <2>2. QED
    BY <1>1, <2>1 DEF JoinHolds
<1>2. CASE Coherent(accidents, persons, regime)
  <2>1. R = Joined(accidents, persons, regime) /\ R # Refused
    BY <1>2, CollectIs
  <2>2. /\ Distinct(accidents) /\ DeathsFit(accidents, persons)
    BY <1>2, CoherentIs
  <2>3. n \in Nat /\ DOMAIN persons = 1 .. n /\ DOMAIN accidents = 1 .. Len(accidents) /\ Len(accidents) \in Nat
    BY LenProperties
  <2>4. /\ R.records = RecordsJoined(accidents, persons, regime)
        /\ R.crashes = [read |-> Len(accidents), accepted |-> Cardinality(K)]
        /\ R.persons = [read |-> n, accepted |-> Cardinality(P), excluded |-> n - Cardinality(P)]
        /\ R.cases = [joined |-> Cardinality(K), excluded |-> Len(accidents) - Cardinality(K)]
    BY <2>1 DEF Joined
  <2> HIDE DEF R
  <2>5. ASSUME NEW j \in 1 .. Len(accidents) PROVE Right(j)
    <3>1. recs(j) = IF j \in K THEN {Rec(j)} ELSE {}
      <4>1. OfCase(RecordsJoined(accidents, persons, regime), accidents[j].case) =
              IF j \in KeptCrashes(accidents) THEN {RecordAt(accidents, persons, regime, j)} ELSE {}
        BY <2>2, RecordsAre
      <4>2. R.records = RecordsJoined(accidents, persons, regime)
        BY <2>4
      <4>3. QED
        BY <4>1, <4>2 DEF OfCase
    <3>2. j \in K <=> accidents[j].placed /\ accidents[j].fatals >= 1
      BY DEF KeptCrashes
    <3>3. mine(j) = Mine(persons, n, accidents[j].case)
      BY <2>3 DEF Mine
    <3>4. Rec(j).people = CountOf(persons, regime, n, accidents[j].case)
      BY DEF RecordAt
    <3>5. \A m \in Modes :
            Rec(j).people.involved[m] = Cardinality({i \in mine(j) : Mode(persons[i], regime) = m})
      BY <3>3, <3>4 DEF CountOf, OfMode
    <3>6. Total(Rec(j).people.fatal) = accidents[j].fatals
      <4>1. Total(Rec(j).people.fatal) = Cardinality(Died(persons, Mine(persons, n, accidents[j].case)))
        <5> DEFINE c == accidents[j].case
        <5> HIDE DEF c, n
        <5>1. Total(CountOf(persons, regime, n, c).fatal) = Cardinality(Died(persons, Mine(persons, n, c)))
          BY <2>3, TotalsAre
        <5>2. QED
          BY <3>4, <5>1 DEF c
      <4>2. QED
        BY <2>2, <4>1 DEF DeathsFit
    <3> HIDE DEF recs, Rec, mine
    <3>7. CASE j \in K
      <4>1. recs(j) = {Rec(j)}
        BY <3>1, <3>7
      <4>2. Cardinality(recs(j)) = 1
        BY <4>1, FS_Singleton
      <4>3. QED
        BY <3>2, <3>5, <3>6, <3>7, <4>1, <4>2
    <3>8. CASE j \notin K
      BY <3>1, <3>2, <3>8
    <3>9. QED
      BY <3>7, <3>8
  <2>6. P \in SUBSET (1 .. n)
    BY DEF PeopleOfKept
  <2>7. Cardinality(P) \in Nat /\ Cardinality((1 .. n) \ P) = n - Cardinality(P)
    <3> HIDE DEF P
    <3>1. QED
      BY <2>3, <2>6, RestCounts
  <2>8. {i \in DOMAIN persons : persons[i].case \notin {r.case : r \in R.records}} = (1 .. n) \ P
    <3>1. {r.case : r \in R.records} = KeptCases(accidents)
      <4>1. \A i \in K : Rec(i).case = accidents[i].case
        BY DEF RecordAt
      <4> HIDE DEF Rec
      <4>2. QED
        BY <2>4, <4>1 DEF KeptCases, RecordsJoined, Rec
    <3>2. QED
      BY <2>3, <3>1 DEF PeopleOfKept
  <2>9. Cardinality(K) \in Nat
    BY <2>2, KeptCount
  <2>10. /\ R.persons.read = n /\ R.persons.accepted = Cardinality(P) /\ R.persons.excluded = n - Cardinality(P)
         /\ R.cases.joined = Cardinality(K) /\ R.cases.excluded = Len(accidents) - Cardinality(K)
         /\ R.crashes.read = Len(accidents) /\ R.crashes.accepted = Cardinality(K)
    BY <2>4
  <2> DEFINE k == Cardinality(K)
             q == Cardinality(P)
  <2> HIDE DEF K, P, n, k, q
  <2>11. /\ R.persons.read = R.persons.accepted + R.persons.excluded
         /\ R.cases.joined + R.cases.excluded = R.crashes.read
         /\ R.cases.joined = R.crashes.accepted
    <3>1. k \in Nat /\ q \in Nat /\ n \in Nat
      BY <2>3, <2>7, <2>9 DEF k, q
    <3>2. /\ R.persons.read = n /\ R.persons.accepted = q /\ R.persons.excluded = n - q
          /\ R.cases.joined = k /\ R.cases.excluded = Len(accidents) - k
          /\ R.crashes.read = Len(accidents) /\ R.crashes.accepted = k
      BY <2>10 DEF k, q
    <3>3. QED
      BY <2>3, <3>1, <3>2
  <2>12. R.persons.excluded
           = Cardinality({i \in DOMAIN persons : persons[i].case \notin {r.case : r \in R.records}})
    BY <2>7, <2>8, <2>10
  <2>13. \A j \in DOMAIN accidents : Right(j)
    <3> HIDE DEF Right
    <3>1. QED
      BY <2>3, <2>5
  <2> HIDE DEF Right
  <2>14. (R = Refused) <=> ~Coherent(accidents, persons, regime)
    BY <1>2, <2>1
  <2>15. JoinHolds(accidents, persons, regime, R) <=>
           /\ (R = Refused) <=> ~Coherent(accidents, persons, regime)
           /\ R # Refused =>
                /\ \A j \in DOMAIN accidents : Right(j)
                /\ R.persons.read = R.persons.accepted + R.persons.excluded
                /\ R.persons.excluded
                     = Cardinality({i \in DOMAIN persons : persons[i].case \notin {r.case : r \in R.records}})
                /\ R.cases.joined + R.cases.excluded = R.crashes.read
                /\ R.cases.joined = R.crashes.accepted
    BY Zenon DEF JoinHolds, Right
  <2>16. JoinHolds(accidents, persons, regime, R)
    BY <2>11, <2>12, <2>13, <2>14, <2>15, Zenon
  <2>17. QED
    BY <2>16 DEF R
<1>3. QED
  BY <1>1, <1>2

-----------------------------------------------------------------------------
(* The artifact of a join: the records in the order of their cases.        *)

WrittenRecord(r) ==
  [case |-> r.case, fatals |-> r.fatals, people |-> r.people,
   involved |-> ModesIn(r.people.involved), dying |-> ModesIn(r.people.fatal)]

\* at says which crash each record is of.
ListedBy(records, accidents, persons, regime, at) ==
  /\ Enumerates(at, KeptCrashes(accidents))
  /\ records = [i \in 1 .. Cardinality(KeptCrashes(accidents)) |->
                  WrittenRecord(RecordAt(accidents, persons, regime, at[i]))]
  /\ \A i, j \in 1 .. Cardinality(KeptCrashes(accidents)) :
       i < j => CaseOrder[accidents[at[i]].case] < CaseOrder[accidents[at[j]].case]

LEMMA RecordsListed ==
    ASSUME JoinArtifactAssumption,
           NEW accidents, accidents \in Seq(AccidentRows), Distinct(accidents),
           KeptCases(accidents) \subseteq DOMAIN CaseOrder,
           NEW persons, NEW regime, NEW limit, NEW release, NEW policy, NEW result,
           result.records = RecordsJoined(accidents, persons, regime)
    PROVE  \E at : ListedBy(Artifact(result, limit, release, policy).records, accidents, persons, regime, at)
<1> DEFINE K == KeptCrashes(accidents)
           k == Cardinality(K)
           kept == {r.case : r \in result.records}
           before == {d \in kept \X kept : CaseOrder[d[1]] < CaseOrder[d[2]]}
           listed == InOrder(kept, before)
           record(c) == CHOOSE r \in result.records : r.case = c
           Rec(j) == RecordAt(accidents, persons, regime, j)
           at == [i \in 1 .. k |-> CHOOSE j \in K : accidents[j].case = listed[i]]
           R == Artifact(result, limit, release, policy).records
<1>1. /\ K \in SUBSET (1 .. Len(accidents)) /\ Len(accidents) \in Nat /\ IsFiniteSet(K) /\ k \in Nat
      /\ IsFiniteSet(KeptCases(accidents)) /\ Cardinality(KeptCases(accidents)) = k
  BY KeptCount
<1>2. kept = KeptCases(accidents)
  <2>1. \A i \in K : Rec(i).case = accidents[i].case
    BY DEF RecordAt
  <2>2. result.records = {Rec(i) : i \in K}
    BY DEF RecordsJoined
  <2> HIDE DEF Rec
  <2>3. QED
    BY <2>1, <2>2 DEF KeptCases
<1>3. kept \subseteq DOMAIN CaseOrder
  BY <1>2
<1>4. \A x, y \in kept : <<x, y>> \in before <=> CaseOrder[x] < CaseOrder[y]
  OBVIOUS
<1>5. /\ \A x \in kept : CaseOrder[x] \in Nat
      /\ \A x, y \in kept : CaseOrder[x] = CaseOrder[y] => x = y
  BY <1>3 DEF JoinArtifactAssumption
<1> HIDE DEF K, k, kept, before
<1>6. /\ listed \in [1 .. k -> kept]
      /\ \A x \in kept : \E i \in 1 .. k : listed[i] = x
      /\ \A i, j \in 1 .. k : i < j <=> <<listed[i], listed[j]>> \in before
  <2>1. \A x \in kept : <<x, x>> \notin before
    BY <1>4, <1>5
  <2>2. \A x \in kept, y \in kept : x = y \/ <<x, y>> \in before \/ <<y, x>> \in before
    <3> SUFFICES ASSUME NEW x \in kept, NEW y \in kept, x # y PROVE <<x, y>> \in before \/ <<y, x>> \in before
      OBVIOUS
    <3>1. CaseOrder[x] \in Nat /\ CaseOrder[y] \in Nat /\ CaseOrder[x] # CaseOrder[y]
      BY <1>5
    <3>2. CaseOrder[x] < CaseOrder[y] \/ CaseOrder[y] < CaseOrder[x]
      BY <3>1
    <3>3. QED
      BY <1>4, <3>2
  <2>3. \A x \in kept, y \in kept, z \in kept :
          <<x, y>> \in before /\ <<y, z>> \in before => <<x, z>> \in before
    BY <1>4, <1>5
  <2>4. IsFiniteSet(kept) /\ Cardinality(kept) = k
    BY <1>1, <1>2
  <2>5. QED
    BY <2>1, <2>2, <2>3, <2>4, Enumerated
<1> HIDE DEF listed
<1>7. ASSUME NEW i \in 1 .. k
      PROVE  at[i] \in K /\ accidents[at[i]].case = listed[i]
  <2>1. listed[i] \in KeptCases(accidents)
    BY <1>2, <1>6
  <2>2. \E j \in K : accidents[j].case = listed[i]
    BY <2>1 DEF KeptCases, K
  <2>3. QED
    BY <2>2
<1>8. DOMAIN at = 1 .. k
  OBVIOUS
<1>9. \A i, j \in K : accidents[i].case = accidents[j].case => i = j
  BY <1>1 DEF Distinct
<1> HIDE DEF at
<1>10. Enumerates(at, K)
  <2>1. at \in [1 .. k -> K]
    <3>1. at = [i \in 1 .. k |-> at[i]]
      BY <1>8 DEF at
    <3>2. QED
      BY <1>7, <3>1
  <2>2. \A x \in K : \E i \in 1 .. k : at[i] = x
    <3> SUFFICES ASSUME NEW x \in K PROVE \E i \in 1 .. k : at[i] = x
      OBVIOUS
    <3>1. accidents[x].case \in kept
      BY <1>2 DEF KeptCases, K
    <3>2. PICK i \in 1 .. k : listed[i] = accidents[x].case
      BY <1>6, <3>1
    <3>3. QED
      BY <1>7, <1>9, <3>2
  <2>3. \A i, j \in 1 .. k : at[i] = at[j] => i = j
    <3> SUFFICES ASSUME NEW i \in 1 .. k, NEW j \in 1 .. k, at[i] = at[j], i # j PROVE FALSE
      OBVIOUS
    <3>1. listed[i] = listed[j] /\ listed[i] \in kept
      BY <1>6, <1>7
    <3>2. i < j \/ j < i
      BY <1>1
    <3>3. <<listed[i], listed[i]>> \in before
      BY <1>6, <3>1, <3>2
    <3>4. QED
      BY <1>4, <1>5, <3>1, <3>3
  <2>4. QED
    BY <1>1, <2>1, <2>2, <2>3 DEF Enumerates, k
<1>11. \A i, j \in 1 .. k : i < j => CaseOrder[accidents[at[i]].case] < CaseOrder[accidents[at[j]].case]
  <2> SUFFICES ASSUME NEW i \in 1 .. k, NEW j \in 1 .. k, i < j
               PROVE  CaseOrder[accidents[at[i]].case] < CaseOrder[accidents[at[j]].case]
    OBVIOUS
  <2>1. listed[i] \in kept /\ listed[j] \in kept /\ <<listed[i], listed[j]>> \in before
    BY <1>6
  <2>2. CaseOrder[listed[i]] < CaseOrder[listed[j]]
    BY <1>4, <2>1
  <2>3. QED
    BY <1>7, <2>2
<1>12. ASSUME NEW i \in 1 .. k PROVE record(listed[i]) = Rec(at[i])
  <2>1. at[i] \in K /\ accidents[at[i]].case = listed[i]
    BY <1>7
  <2>2. result.records = {Rec(j) : j \in K}
    BY DEF RecordsJoined, K
  <2>3. \A j : Rec(j).case = accidents[j].case
    BY DEF RecordAt
  <2> HIDE DEF Rec
  <2>4. Rec(at[i]) \in result.records /\ Rec(at[i]).case = listed[i]
    BY <2>1, <2>2, <2>3
  <2>5. \A r \in result.records : r.case = listed[i] => r = Rec(at[i])
    BY <1>9, <2>1, <2>2, <2>3
  <2>6. QED
    BY <2>4, <2>5
<1>13. R = [i \in DOMAIN listed |-> WrittenRecord(record(listed[i]))]
  BY DEF Artifact, WrittenRecord, listed, before, kept
<1>14. DOMAIN listed = 1 .. k
  BY <1>6
<1> HIDE DEF R, record, Rec
<1>15. R = [i \in 1 .. k |-> WrittenRecord(Rec(at[i]))]
  BY <1>12, <1>13, <1>14
<1>16. ListedBy(R, accidents, persons, regime, at)
  BY <1>10, <1>11, <1>15 DEF ListedBy, K, k, Rec
<1>17. QED
  BY <1>16 DEF R

\* What is joined, and its artifact.
Joinable(accidents, persons, regime) ==
  /\ JoinRequest(accidents, persons, regime) /\ Coherent(accidents, persons, regime)
  /\ KeptCases(accidents) \subseteq DOMAIN CaseOrder

LEMMA JoinableIs ==
    ASSUME NEW accidents, NEW persons, NEW regime, Joinable(accidents, persons, regime)
    PROVE  /\ accidents \in Seq(AccidentRows) /\ persons \in Seq(PersonRows)
           /\ Len(accidents) \in Nat /\ Len(persons) \in Nat
           /\ Distinct(accidents) /\ RowsFit(accidents, persons, regime) /\ DeathsFit(accidents, persons)
           /\ KeptCrashes(accidents) \in SUBSET (1 .. Len(accidents))
           /\ PeopleOfKept(accidents, persons) \in SUBSET (1 .. Len(persons))
           /\ Cardinality(KeptCrashes(accidents)) \in Nat
           /\ IsFiniteSet(PeopleOfKept(accidents, persons))
           /\ Cardinality(PeopleOfKept(accidents, persons)) \in Nat
<1>1. accidents \in Seq(AccidentRows) /\ persons \in Seq(PersonRows)
  BY DEF Joinable, JoinRequest
<1>2. Distinct(accidents) /\ RowsFit(accidents, persons, regime) /\ DeathsFit(accidents, persons)
  BY <1>1, CoherentIs DEF Joinable
<1>3. Len(accidents) \in Nat /\ Len(persons) \in Nat
  BY <1>1, LenProperties
<1>4. KeptCrashes(accidents) \in SUBSET (1 .. Len(accidents)) /\ Cardinality(KeptCrashes(accidents)) \in Nat
  BY <1>1, <1>2, KeptCount
<1>5. PeopleOfKept(accidents, persons) \in SUBSET (1 .. Len(persons))
  BY DEF PeopleOfKept
<1>6. IsFiniteSet(PeopleOfKept(accidents, persons)) /\ Cardinality(PeopleOfKept(accidents, persons)) \in Nat
  BY <1>3, <1>5, RestCounts
<1>7. QED
  BY <1>1, <1>2, <1>3, <1>4, <1>5, <1>6

ArtifactOf(a, accidents, persons, regime, at) ==
  LET k == Cardinality(KeptCrashes(accidents))
      q == Cardinality(PeopleOfKept(accidents, persons))
  IN /\ ListedBy(a.records, accidents, persons, regime, at)
     /\ a.crash = [read |-> Len(accidents), accepted |-> k, rejected |-> Len(accidents) - k]
     /\ a.person = [read |-> Len(persons), accepted |-> q, excluded |-> Len(persons) - q]
     /\ a.cases = [joined |-> k, excluded |-> Len(accidents) - k]

LEMMA ArtifactIs ==
    ASSUME JoinArtifactAssumption,
           NEW accidents, NEW persons, NEW regime, Joinable(accidents, persons, regime),
           NEW limit, NEW release, NEW policy
    PROVE  \E at : ArtifactOf(Artifact(Collect(accidents, persons, regime), limit, release, policy),
                              accidents, persons, regime, at)
<1> DEFINE result == Collect(accidents, persons, regime)
           a == Artifact(result, limit, release, policy)
<1>1. /\ accidents \in Seq(AccidentRows) /\ persons \in Seq(PersonRows) /\ Distinct(accidents)
      /\ KeptCases(accidents) \subseteq DOMAIN CaseOrder /\ Coherent(accidents, persons, regime)
  BY JoinableIs DEF Joinable
<1>2. result = Joined(accidents, persons, regime)
  BY <1>1, CollectIs
<1>3. result.records = RecordsJoined(accidents, persons, regime)
  BY <1>2 DEF Joined
<1> HIDE DEF result
<1>4. PICK at : ListedBy(a.records, accidents, persons, regime, at)
  BY <1>1, <1>3, RecordsListed
<1>5. /\ a.crash = [read |-> result.crashes.read, accepted |-> result.crashes.accepted,
                    rejected |-> result.crashes.read - result.crashes.accepted]
      /\ a.person = result.persons /\ a.cases = result.cases
  BY DEF Artifact
<1> HIDE DEF a
<1>6. ArtifactOf(a, accidents, persons, regime, at)
  BY <1>2, <1>4, <1>5 DEF ArtifactOf, Joined
<1>7. QED
  BY <1>6 DEF a, result

\* What is counted of the people of each crash adds up.
OfCrash(persons, S, c) == {i \in S : persons[i].case = c}

LEMMA SumsOfRecords ==
    ASSUME NEW accidents, NEW persons, NEW regime, Joinable(accidents, persons, regime),
           NEW at, Enumerates(at, KeptCrashes(accidents)),
           NEW S \in SUBSET PeopleOfKept(accidents, persons),
           NEW count, \A i \in 1 .. Cardinality(KeptCrashes(accidents)) :
                        count[i] = Cardinality(OfCrash(persons, S, accidents[at[i]].case))
    PROVE  Summed(count, 1 .. Cardinality(KeptCrashes(accidents))) = Cardinality(S)
<1> DEFINE K == KeptCrashes(accidents)
           k == Cardinality(K)
           place == [p \in S |-> CHOOSE i \in 1 .. k : accidents[at[i]].case = persons[p].case]
<1>1. /\ k \in Nat /\ \A i \in 1 .. k : at[i] \in K
      /\ \A x \in K : \E i \in 1 .. k : at[i] = x
      /\ \A i, j \in 1 .. k : at[i] = at[j] => i = j
  BY DEF Enumerates
<1>2. \A i, j \in K : accidents[i].case = accidents[j].case => i = j
  BY JoinableIs DEF Distinct
<1>3. ASSUME NEW p \in S
      PROVE  /\ place[p] \in 1 .. k
             /\ \A i \in 1 .. k : place[p] = i <=> persons[p].case = accidents[at[i]].case
  <2>1. PICK x \in K : persons[p].case = accidents[x].case
    BY DEF PeopleOfKept, KeptCases
  <2>2. \E i \in 1 .. k : accidents[at[i]].case = persons[p].case
    BY <1>1, <2>1
  <2>3. place[p] = CHOOSE i \in 1 .. k : accidents[at[i]].case = persons[p].case
    OBVIOUS
  <2> HIDE DEF place, K, k
  <2>4. place[p] \in 1 .. k /\ accidents[at[place[p]]].case = persons[p].case
    BY <2>2, <2>3
  <2>5. ASSUME NEW i \in 1 .. k, persons[p].case = accidents[at[i]].case PROVE place[p] = i
    BY <1>1, <1>2, <2>4, <2>5
  <2>6. QED
    BY <2>4, <2>5
<1> HIDE DEF place
<1>4. \A i \in 1 .. k : Part(S, place, i) = OfCrash(persons, S, accidents[at[i]].case)
  BY <1>3 DEF Part, OfCrash
<1>5. \A i \in 1 .. k : count[i] = Cardinality(Part(S, place, i))
  BY <1>4
<1>6. IsFiniteSet(1 .. k)
  BY <1>1, CountsUp
<1>7. IsFiniteSet(S)
  BY JoinableIs, FS_Subset
<1>8. \A p \in S : place[p] \in 1 .. k
  BY <1>3
<1> DEFINE I == 1 .. k
<1>9. Summed(count, I) = Cardinality(S)
  <2>1. /\ IsFiniteSet(I) /\ \A p \in S : place[p] \in I
    BY <1>6, <1>8
  <2>2. \A i \in I : count[i] = Cardinality(Part(S, place, i))
    BY <1>5
  <2> HIDE DEF I
  <2>3. QED
    BY <1>7, <2>1, <2>2, PartsAddUp
<1>10. QED
  BY <1>9

\* What each record says of its crash.
LEMMA RecordSays ==
    ASSUME NEW accidents, NEW persons, NEW regime, Joinable(accidents, persons, regime),
           NEW records, NEW at, ListedBy(records, accidents, persons, regime, at)
    PROVE  /\ DOMAIN records = 1 .. Cardinality(KeptCrashes(accidents))
           /\ Len(records) = Cardinality(KeptCrashes(accidents))
           /\ \A i \in 1 .. Cardinality(KeptCrashes(accidents)) :
                /\ at[i] \in KeptCrashes(accidents)
                /\ records[i] = WrittenRecord(RecordAt(accidents, persons, regime, at[i]))
                /\ records[i].case = accidents[at[i]].case /\ records[i].fatals = accidents[at[i]].fatals
                /\ records[i].people = CountOf(persons, regime, Len(persons), accidents[at[i]].case)
<1> DEFINE k == Cardinality(KeptCrashes(accidents))
           Rec(i) == WrittenRecord(RecordAt(accidents, persons, regime, at[i]))
<1>1. k \in Nat
  BY JoinableIs
<1>2. records = [i \in 1 .. k |-> Rec(i)] /\ \A i \in 1 .. k : at[i] \in KeptCrashes(accidents)
  BY DEF ListedBy, Enumerates
<1>3. \A i : /\ Rec(i).case = accidents[at[i]].case /\ Rec(i).fatals = accidents[at[i]].fatals
             /\ Rec(i).people = CountOf(persons, regime, Len(persons), accidents[at[i]].case)
  BY DEF WrittenRecord, RecordAt
<1>4. Len(records) = k
  <2> HIDE DEF k, Rec
  <2> DEFINE X == {Rec(i) : i \in 1 .. k}
  <2>1. records \in [1 .. k -> X]
    BY <1>2
  <2> HIDE DEF X
  <2>2. records \in Seq(X) /\ Len(records) = k
    BY <1>1, <2>1
  <2>3. QED
    BY <2>2
<1> HIDE DEF k
<1>5. DOMAIN records = 1 .. k /\ \A i \in 1 .. k : records[i] = Rec(i)
  <2> HIDE DEF Rec
  <2>1. QED
    BY <1>2
<1>6. ASSUME NEW i \in 1 .. k
      PROVE  /\ at[i] \in KeptCrashes(accidents)
             /\ records[i] = Rec(i)
             /\ records[i].case = accidents[at[i]].case /\ records[i].fatals = accidents[at[i]].fatals
             /\ records[i].people = CountOf(persons, regime, Len(persons), accidents[at[i]].case)
  <2> HIDE DEF Rec
  <2>1. QED
    BY <1>2, <1>3, <1>5
<1>7. QED
  BY <1>4, <1>5, <1>6 DEF k

\* Every crash brings people with it: no fewer people than crashes were left out.
LEMMA LeftOut ==
    ASSUME NEW accidents, NEW persons, NEW regime, Joinable(accidents, persons, regime)
    PROVE  Len(accidents) - Cardinality(KeptCrashes(accidents))
             <= Len(persons) - Cardinality(PeopleOfKept(accidents, persons))
<1> DEFINE n == Len(persons)
           P == PeopleOfKept(accidents, persons)
           Q == (1 .. n) \ P
           f == [i \in 1 .. n |-> persons[i].case]
           C == CrashCases(accidents) \ KeptCases(accidents)
<1>1. n \in Nat /\ P \in SUBSET (1 .. n) /\ Q \in SUBSET (1 .. n)
  BY JoinableIs
<1>2. IsFiniteSet(Q) /\ Cardinality(Q) = n - Cardinality(P)
  <2> HIDE DEF P
  <2>1. Cardinality(Q) = n - Cardinality(P)
    BY <1>1, RestCounts
  <2> HIDE DEF Q
  <2>2. QED
    BY <1>1, <2>1, RestCounts
<1>3. Cardinality(C) = Len(accidents) - Cardinality(KeptCrashes(accidents))
  BY JoinableIs, KeptCount
<1>4. {f[x] : x \in Q} = C
  <2>1. \A x \in 1 .. n : persons[x].case \in CrashCases(accidents)
    BY JoinableIs DEF RowsFit, CrashCases
  <2>2. \A x \in 1 .. n : x \in Q <=> persons[x].case \notin KeptCases(accidents)
    BY DEF PeopleOfKept
  <2>3. \A c \in CrashCases(accidents) : \E x \in 1 .. n : persons[x].case = c
    <3> SUFFICES ASSUME NEW j \in 1 .. Len(accidents) PROVE \E x \in 1 .. n : persons[x].case = accidents[j].case
      BY DEF CrashCases
    <3>1. Mine(persons, n, accidents[j].case) # {}
      BY JoinableIs DEF DeathsFit
    <3>2. QED
      BY <3>1 DEF Mine
  <2>4. \A x \in 1 .. n : f[x] = persons[x].case
    OBVIOUS
  <2> HIDE DEF P, f, n
  <2>5. \A x \in Q : x \in 1 .. n
    OBVIOUS
  <2> HIDE DEF Q
  <2>6. ASSUME NEW x \in Q PROVE f[x] \in C
    BY <2>1, <2>2, <2>4, <2>5
  <2>7. ASSUME NEW c \in C PROVE \E x \in Q : f[x] = c
    BY <2>2, <2>3, <2>4, <2>7
  <2> HIDE DEF C
  <2>8. QED
    BY <2>6, <2>7
<1> HIDE DEF Q, f, C, n, P
<1>5. Cardinality({f[x] : x \in Q}) <= Cardinality(Q)
  BY <1>2, ImageFinite
<1>6. Cardinality(C) <= Cardinality(Q)
  BY <1>4, <1>5
<1>7. QED
  BY <1>2, <1>3, <1>6 DEF n, P

LEMMA Accepts ==
    ASSUME NEW accidents, NEW persons, NEW regime, Joinable(accidents, persons, regime),
           NEW a, NEW at, ArtifactOf(a, accidents, persons, regime, at),
           a.limit.num \in Nat, a.limit.den \in Nat
    PROVE  ArtifactAccepts(a) <=>
             /\ Cardinality(KeptCrashes(accidents)) > 0
             /\ (Len(accidents) - Cardinality(KeptCrashes(accidents))) * a.limit.den
                  <= a.limit.num * Len(accidents)
<1> DEFINE K == KeptCrashes(accidents)
           k == Cardinality(K)
           P == PeopleOfKept(accidents, persons)
           q == Cardinality(P)
           m == Len(accidents)
           n == Len(persons)
           c(i) == accidents[at[i]].case
           M(i) == Mine(persons, n, c(i))
           N(i) == CountOf(persons, regime, n, c(i))
           R == a.records
<1>1. /\ m \in Nat /\ n \in Nat /\ k \in Nat /\ q \in Nat /\ K \in SUBSET (1 .. m) /\ P \in SUBSET (1 .. n)
      /\ DeathsFit(accidents, persons)
  BY JoinableIs
<1>2. k <= m /\ q <= n
  BY <1>1, RestCounts
<1>3. /\ ListedBy(R, accidents, persons, regime, at)
      /\ a.crash.read = m /\ a.crash.accepted = k /\ a.crash.rejected = m - k
      /\ a.person.read = n /\ a.person.accepted = q /\ a.person.excluded = n - q
      /\ a.cases.joined = k /\ a.cases.excluded = m - k
  BY DEF ArtifactOf
<1>4. DOMAIN R = 1 .. k /\ Len(R) = k
  BY <1>3, RecordSays
<1>5. ASSUME NEW i \in 1 .. k
      PROVE  /\ at[i] \in K /\ R[i] = WrittenRecord(RecordAt(accidents, persons, regime, at[i]))
             /\ R[i].case = c(i) /\ R[i].fatals = accidents[at[i]].fatals /\ R[i].people = N(i)
  BY <1>3, RecordSays
<1>6. ASSUME NEW i \in 1 .. k
      PROVE  /\ Total(N(i).involved) = Cardinality(M(i)) /\ Total(N(i).fatal) = Cardinality(Died(persons, M(i)))
             /\ IsFiniteSet(M(i)) /\ \A mode \in Modes : N(i).fatal[mode] <= N(i).involved[mode]
  <2> HIDE DEF c, n
  <2>1. QED
    BY <1>1, TotalsAre
<1>7. ASSUME NEW i \in 1 .. k PROVE SummaryAccepts(R[i])
  <2>1. R[i].involved = ModesIn(R[i].people.involved) /\ R[i].dying = ModesIn(R[i].people.fatal)
    <3>1. \A r : /\ WrittenRecord(r).involved = ModesIn(WrittenRecord(r).people.involved)
                 /\ WrittenRecord(r).dying = ModesIn(WrittenRecord(r).people.fatal)
      BY DEF WrittenRecord
    <3> HIDE DEF R
    <3>2. QED
      BY <1>5, <3>1
  <2>2. at[i] \in 1 .. m
    BY <1>1, <1>5
  <2>3. M(i) # {} /\ Cardinality(Died(persons, M(i))) = accidents[at[i]].fatals
    BY <1>1, <2>2 DEF DeathsFit
  <2>4. Cardinality(M(i)) >= 1
    <3> DEFINE S == M(i)
    <3>1. IsFiniteSet(S) /\ S # {}
      BY <1>6, <2>3
    <3> HIDE DEF S
    <3>2. Cardinality(S) \in Nat /\ Cardinality(S) # 0
      BY <3>1, FS_EmptySet, FS_CardinalityType
    <3>3. Cardinality(S) >= 1
      BY <3>2
    <3>4. QED
      BY <3>3 DEF S
  <2>5. R[i].people = N(i) /\ R[i].fatals = accidents[at[i]].fatals
    BY <1>5
  <2> HIDE DEF M, N, R
  <2>6. /\ \A mode \in Modes : R[i].people.fatal[mode] <= R[i].people.involved[mode]
        /\ Total(R[i].people.involved) >= 1
        /\ Total(R[i].people.fatal) = R[i].fatals
    BY <1>6, <2>3, <2>4, <2>5
  <2>7. QED
    BY <2>1, <2>6 DEF SummaryAccepts
<1>8. PeopleOf(a) = q
  <2> DEFINE size == [i \in DOMAIN a.records |-> Total(a.records[i].people.involved)]
  <2>1. \A i \in 1 .. k : size[i] = Cardinality(OfCrash(persons, P, accidents[at[i]].case))
    <3> SUFFICES ASSUME NEW i \in 1 .. k PROVE size[i] = Cardinality(OfCrash(persons, P, accidents[at[i]].case))
      OBVIOUS
    <3>1. size[i] = Cardinality(M(i))
      <4>1. size[i] = Total(R[i].people.involved)
        BY <1>4
      <4>2. R[i].people = N(i)
        BY <1>5
      <4> HIDE DEF size, R, N, M
      <4>3. QED
        BY <1>6, <4>1, <4>2
    <3>2. M(i) = OfCrash(persons, P, accidents[at[i]].case)
      <4>1. accidents[at[i]].case \in KeptCases(accidents)
        BY <1>5 DEF KeptCases
      <4>2. QED
        BY <4>1 DEF Mine, OfCrash, PeopleOfKept
    <3>3. QED
      BY <3>1, <3>2
  <2>2. PeopleOf(a) = Summed(size, 1 .. k)
    BY <1>4 DEF PeopleOf, Summed
  <2>3. Enumerates(at, K)
    BY <1>3 DEF ListedBy
  <2> HIDE DEF size
  <2>4. Summed(size, 1 .. k) = q
    BY <2>1, <2>3, SumsOfRecords
  <2>5. QED
    BY <2>2, <2>4
<1>9. m - k <= n - q
  BY LeftOut
<1>10. CrossAccounting(a)
  <2> HIDE DEF m, k, n, q, R
  <2>1. Len(a.records) = k
    BY <1>4 DEF R
  <2>2. QED
    BY <1>1, <1>2, <1>3, <1>8, <1>9, <2>1 DEF CrossAccounting
<1>11. ToSet(R) = {R[i] : i \in 1 .. k}
  BY <1>4 DEF ToSet
<1>12. \A r \in ToSet(R) : SummaryAccepts(r)
  BY <1>7, <1>11
<1>13. \A r \in ToSet(R) : r.fatals >= 1
  BY <1>5, <1>11 DEF KeptCrashes
<1>14. \A i, j \in DOMAIN R : i < j => CaseOrder[R[i].case] < CaseOrder[R[j].case]
  BY <1>3, <1>4, <1>5 DEF ListedBy
<1>15. R # <<>> <=> k > 0
  <2>1. R = <<>> <=> 1 .. k = {}
    <3>1. R = [i \in 1 .. k |-> R[i]]
      BY <1>3, <1>4 DEF ListedBy
    <3>2. DOMAIN <<>> = {}
      OBVIOUS
    <3> HIDE DEF R, k
    <3>3. 1 .. k = {} => R = <<>>
      <4> SUFFICES ASSUME 1 .. k = {} PROVE R = <<>>
        OBVIOUS
      <4>1. R = [i \in {} |-> R[i]]
        BY <3>1
      <4>2. QED
        BY <4>1
    <3>4. QED
      BY <1>4, <3>2, <3>3
  <2> HIDE DEF R, k
  <2>2. 1 .. k = {} <=> ~(k > 0)
    BY <1>1
  <2>3. QED
    BY <2>1, <2>2
<1>16. OutcomesAccept(a) <=> k > 0 /\ (m - k) * a.limit.den <= a.limit.num * m
  <2> HIDE DEF m, k, R
  <2>1. k + (m - k) = m
    BY <1>1
  <2>2. OutcomesAccept(a) <=>
          /\ R # <<>> /\ a.crash.accepted = Len(R)
          /\ a.crash.accepted + a.crash.rejected = a.crash.read
          /\ a.crash.rejected * a.limit.den <= a.limit.num * a.crash.read
          /\ \A r \in ToSet(R) : r.fatals >= 1
          /\ \A i, j \in DOMAIN R : i < j => CaseOrder[R[i].case] < CaseOrder[R[j].case]
    BY Zenon DEF OutcomesAccept, R
  <2>3. a.crash.accepted = Len(R) /\ a.crash.accepted + a.crash.rejected = a.crash.read
    BY <1>3, <1>4, <2>1
  <2>4. (a.crash.rejected * a.limit.den <= a.limit.num * a.crash.read)
          <=> (m - k) * a.limit.den <= a.limit.num * m
    BY <1>3
  <2>5. QED
    BY <1>13, <1>14, <1>15, <2>2, <2>3, <2>4, Zenon
<1> HIDE DEF m, k, R
<1>17. ArtifactAccepts(a) <=> OutcomesAccept(a)
  BY <1>10, <1>12, Zenon DEF ArtifactAccepts, R
<1>18. QED
  BY <1>16, <1>17 DEF k, m

LEMMA NoFewer ==
    ASSUME NEW n \in Nat, NEW m \in Nat, NEW A \in SUBSET (1 .. n), NEW B \in SUBSET (1 .. m),
           NEW s, NEW t, \A i \in A : \E j \in B : s[i] = t[j],
           \A i, j \in A : s[i] = s[j] => i = j
    PROVE  Cardinality(A) <= Cardinality(B)
<1> DEFINE h == [i \in A |-> CHOOSE j \in B : s[i] = t[j]]
<1>1. IsFiniteSet(A) /\ IsFiniteSet(B)
  BY RestCounts
<1>2. \A i \in A : h[i] \in B /\ s[i] = t[h[i]]
  OBVIOUS
<1>3. h \in [A -> B] /\ \A i, j \in A : h[i] = h[j] => i = j
  <2>1. DOMAIN h = A /\ h = [i \in A |-> h[i]]
    OBVIOUS
  <2> HIDE DEF h
  <2>2. QED
    BY <1>2, <2>1
<1> HIDE DEF h
<1>4. h \in Injection(A, B)
  BY <1>3 DEF Injection, IsInjective
<1>5. QED
  BY <1>1, <1>4, FS_Injection

\* The people of a mode in the kept crashes.
OfModeKept(accidents, persons, regime, m) ==
  {i \in PeopleOfKept(accidents, persons) : Mode(persons[i], regime) = m}

LEMMA ModeTotalsAre ==
    ASSUME NEW accidents, NEW persons, NEW regime, Joinable(accidents, persons, regime),
           NEW a, NEW at, ArtifactOf(a, accidents, persons, regime, at), NEW m \in Modes
    PROVE  /\ ModeTotals(a)["involved"][m] = Cardinality(OfModeKept(accidents, persons, regime, m))
           /\ ModeTotals(a)["fatal"][m] = Cardinality(Died(persons, OfModeKept(accidents, persons, regime, m)))
<1> DEFINE K == KeptCrashes(accidents)
           k == Cardinality(K)
           n == Len(persons)
           P == PeopleOfKept(accidents, persons)
           Q == OfModeKept(accidents, persons, regime, m)
           c(i) == accidents[at[i]].case
           R == a.records
           count(kind) == [i \in DOMAIN a.records |-> a.records[i].people[kind][m]]
<1>1. ListedBy(R, accidents, persons, regime, at) /\ Enumerates(at, K)
  BY DEF ArtifactOf, ListedBy
<1>2. DOMAIN R = 1 .. k
  BY <1>1, RecordSays
<1>3. ASSUME NEW i \in 1 .. k
      PROVE  at[i] \in K /\ R[i].people = CountOf(persons, regime, n, c(i))
  BY <1>1, RecordSays
<1>4. \A kind \in {"involved", "fatal"} : ModeTotals(a)[kind][m] = Summed(count(kind), 1 .. k)
  BY <1>2 DEF ModeTotals, Summed
<1>5. Q \in SUBSET P /\ Died(persons, Q) \in SUBSET P
  BY DEF OfModeKept, Died
<1>6. ASSUME NEW i \in 1 .. k
      PROVE  /\ OfMode(persons, regime, n, c(i), m) = OfCrash(persons, Q, c(i))
             /\ Died(persons, OfMode(persons, regime, n, c(i), m)) = OfCrash(persons, Died(persons, Q), c(i))
  <2>1. c(i) \in KeptCases(accidents)
    BY <1>3 DEF KeptCases
  <2> HIDE DEF c
  <2>2. OfMode(persons, regime, n, c(i), m) = OfCrash(persons, Q, c(i))
    BY <2>1 DEF OfMode, Mine, OfCrash, OfModeKept, PeopleOfKept
  <2>3. Died(persons, OfCrash(persons, Q, c(i))) = OfCrash(persons, Died(persons, Q), c(i))
    BY DEF Died, OfCrash
  <2>4. QED
    BY <2>2, <2>3
<1>7. ASSUME NEW i \in 1 .. k
      PROVE  /\ count("involved")[i] = Cardinality(OfCrash(persons, Q, c(i)))
             /\ count("fatal")[i] = Cardinality(OfCrash(persons, Died(persons, Q), c(i)))
  <2>1. count("involved")[i] = R[i].people.involved[m] /\ count("fatal")[i] = R[i].people.fatal[m]
    BY <1>2
  <2>2. /\ CountOf(persons, regime, n, c(i)).involved[m] = Cardinality(OfMode(persons, regime, n, c(i), m))
        /\ CountOf(persons, regime, n, c(i)).fatal[m]
             = Cardinality(Died(persons, OfMode(persons, regime, n, c(i), m)))
    BY DEF CountOf
  <2> HIDE DEF R, Q, count
  <2>3. QED
    BY <1>3, <1>6, <2>1, <2>2
<1>8. Summed(count("involved"), 1 .. k) = Cardinality(Q)
  <2> DEFINE f == count("involved")
  <2>1. \A i \in 1 .. k : f[i] = Cardinality(OfCrash(persons, Q, accidents[at[i]].case))
    BY <1>7
  <2> HIDE DEF f, Q
  <2>2. Summed(f, 1 .. k) = Cardinality(Q)
    BY <1>1, <1>5, <2>1, SumsOfRecords
  <2>3. QED
    BY <2>2 DEF f
<1>9. Summed(count("fatal"), 1 .. k) = Cardinality(Died(persons, Q))
  <2> DEFINE f == count("fatal")
             D == Died(persons, Q)
  <2>1. \A i \in 1 .. k : f[i] = Cardinality(OfCrash(persons, D, accidents[at[i]].case))
    BY <1>7
  <2> HIDE DEF f, D
  <2>2. Summed(f, 1 .. k) = Cardinality(D)
    BY <1>1, <1>5, <2>1, SumsOfRecords DEF D
  <2>3. QED
    BY <2>2 DEF f, D
<1> HIDE DEF count, k
<1>10. QED
  BY <1>4, <1>8, <1>9

\* A release that only adds accepted crashes, and people of accepted crashes.
OnlyAdds(accidents, persons, was, old) ==
  /\ ToSet(was) \subseteq ToSet(accidents) /\ ToSet(old) \subseteq ToSet(persons)
  /\ ToSet(accidents) \ ToSet(was) \subseteq Accepted(accidents)
  /\ \A p \in ToSet(persons) \ ToSet(old) : \E row \in Accepted(accidents) : row.case = p.case

LEMMA RowsStay ==
    ASSUME NEW accidents, NEW persons, NEW regime, Joinable(accidents, persons, regime),
           NEW was, NEW old, Joinable(was, old, regime), OnlyAdds(accidents, persons, was, old)
    PROVE  /\ \A i \in 1 .. Len(was) : \E j \in 1 .. Len(accidents) : was[i] = accidents[j]
           /\ \A i \in KeptCrashes(was) : \E j \in KeptCrashes(accidents) : was[i] = accidents[j]
           /\ KeptCases(was) \subseteq KeptCases(accidents)
           /\ \A i \in (1 .. Len(accidents)) \ KeptCrashes(accidents) :
                \E j \in (1 .. Len(was)) \ KeptCrashes(was) : accidents[i] = was[j]
           /\ \A i \in 1 .. Len(old) : \E j \in 1 .. Len(persons) : old[i] = persons[j]
           /\ \A i \in (1 .. Len(persons)) \ PeopleOfKept(accidents, persons) :
                \E j \in (1 .. Len(old)) \ PeopleOfKept(was, old) : persons[i] = old[j]
<1>1. /\ DOMAIN accidents = 1 .. Len(accidents) /\ DOMAIN was = 1 .. Len(was)
      /\ DOMAIN persons = 1 .. Len(persons) /\ DOMAIN old = 1 .. Len(old)
  BY JoinableIs, LenProperties
<1>2. /\ ToSet(accidents) = {accidents[i] : i \in 1 .. Len(accidents)}
      /\ ToSet(was) = {was[i] : i \in 1 .. Len(was)}
      /\ ToSet(persons) = {persons[i] : i \in 1 .. Len(persons)} /\ ToSet(old) = {old[i] : i \in 1 .. Len(old)}
  BY <1>1 DEF ToSet
<1>3. Accepted(accidents) = {accidents[i] : i \in KeptCrashes(accidents)}
  BY <1>2 DEF Accepted, KeptCrashes
<1>4. \A i \in 1 .. Len(was) : \E j \in 1 .. Len(accidents) : was[i] = accidents[j]
  BY <1>2 DEF OnlyAdds
<1>5. \A i \in KeptCrashes(was) : \E j \in KeptCrashes(accidents) : was[i] = accidents[j]
  <2> SUFFICES ASSUME NEW i \in KeptCrashes(was) PROVE \E j \in KeptCrashes(accidents) : was[i] = accidents[j]
    OBVIOUS
  <2>1. i \in 1 .. Len(was) /\ was[i].placed /\ was[i].fatals >= 1
    BY DEF KeptCrashes
  <2>2. PICK j \in 1 .. Len(accidents) : was[i] = accidents[j]
    BY <1>4, <2>1
  <2>3. QED
    BY <2>1, <2>2 DEF KeptCrashes
<1>6. KeptCases(was) \subseteq KeptCases(accidents)
  BY <1>5 DEF KeptCases
<1>7. \A i \in (1 .. Len(accidents)) \ KeptCrashes(accidents) :
        \E j \in (1 .. Len(was)) \ KeptCrashes(was) : accidents[i] = was[j]
  <2> SUFFICES ASSUME NEW i \in (1 .. Len(accidents)) \ KeptCrashes(accidents)
               PROVE  \E j \in (1 .. Len(was)) \ KeptCrashes(was) : accidents[i] = was[j]
    OBVIOUS
  <2>1. ~(accidents[i].placed /\ accidents[i].fatals >= 1)
    BY DEF KeptCrashes
  <2>2. accidents[i] \notin Accepted(accidents)
    BY <2>1 DEF Accepted
  <2>3. accidents[i] \in ToSet(was)
    BY <1>2, <2>2 DEF OnlyAdds
  <2>4. PICK j \in 1 .. Len(was) : accidents[i] = was[j]
    BY <1>2, <2>3
  <2>5. QED
    BY <2>1, <2>4 DEF KeptCrashes
<1>8. \A i \in 1 .. Len(old) : \E j \in 1 .. Len(persons) : old[i] = persons[j]
  BY <1>2 DEF OnlyAdds
<1>9. \A i \in (1 .. Len(persons)) \ PeopleOfKept(accidents, persons) :
        \E j \in (1 .. Len(old)) \ PeopleOfKept(was, old) : persons[i] = old[j]
  <2> SUFFICES ASSUME NEW i \in (1 .. Len(persons)) \ PeopleOfKept(accidents, persons)
               PROVE  \E j \in (1 .. Len(old)) \ PeopleOfKept(was, old) : persons[i] = old[j]
    OBVIOUS
  <2>1. persons[i].case \notin KeptCases(accidents)
    BY DEF PeopleOfKept
  <2>2. \A row \in Accepted(accidents) : row.case \in KeptCases(accidents)
    BY <1>3 DEF KeptCases
  <2>3. persons[i] \in ToSet(persons)
    BY <1>2
  <2>4. persons[i] \in ToSet(old)
    BY <2>1, <2>2, <2>3 DEF OnlyAdds
  <2>5. PICK j \in 1 .. Len(old) : persons[i] = old[j]
    BY <1>2, <2>4
  <2>6. QED
    BY <1>6, <2>1, <2>5 DEF PeopleOfKept
<1>10. QED
  BY <1>4, <1>5, <1>6, <1>7, <1>8, <1>9

\* Nothing that is counted falls, and nothing that is left out rises.
LEMMA CountsStay ==
    ASSUME NEW accidents, NEW persons, NEW regime, Joinable(accidents, persons, regime),
           NEW was, NEW old, Joinable(was, old, regime), OnlyAdds(accidents, persons, was, old)
    PROVE  LET k(acc)      == Cardinality(KeptCrashes(acc))
               q(acc, per) == Cardinality(PeopleOfKept(acc, per))
           IN /\ Len(was) <= Len(accidents) /\ k(was) <= k(accidents)
              /\ Len(accidents) - k(accidents) <= Len(was) - k(was)
              /\ Len(old) <= Len(persons) /\ q(was, old) <= q(accidents, persons)
              /\ Len(persons) - q(accidents, persons) <= Len(old) - q(was, old)
<1> DEFINE I == 1 .. Len(accidents)
           J == 1 .. Len(was)
           K == KeptCrashes(accidents)
           L == KeptCrashes(was)
           M == 1 .. Len(persons)
           N == 1 .. Len(old)
           P == PeopleOfKept(accidents, persons)
           Q == PeopleOfKept(was, old)
<1>1. /\ Len(accidents) \in Nat /\ Len(was) \in Nat /\ Len(persons) \in Nat /\ Len(old) \in Nat
      /\ K \in SUBSET I /\ L \in SUBSET J /\ P \in SUBSET M /\ Q \in SUBSET N
  BY JoinableIs
<1>2. /\ \A i, j \in I : accidents[i] = accidents[j] => i = j
      /\ \A i, j \in J : was[i] = was[j] => i = j
  BY JoinableIs DEF Distinct
<1>3. /\ \A i, j \in M : persons[i] = persons[j] => i = j
      /\ \A i, j \in N : old[i] = old[j] => i = j
  BY JoinableIs DEF RowsFit, Same
<1>4. /\ \A i \in J : \E j \in I : was[i] = accidents[j]
      /\ \A i \in L : \E j \in K : was[i] = accidents[j]
      /\ \A i \in I \ K : \E j \in J \ L : accidents[i] = was[j]
      /\ \A i \in N : \E j \in M : old[i] = persons[j]
      /\ \A i \in M \ P : \E j \in N \ Q : persons[i] = old[j]
      /\ KeptCases(was) \subseteq KeptCases(accidents)
  BY RowsStay
<1>5. \A i \in Q : \E j \in P : old[i] = persons[j]
  <2> SUFFICES ASSUME NEW i \in Q PROVE \E j \in P : old[i] = persons[j]
    OBVIOUS
  <2>1. i \in N /\ old[i].case \in KeptCases(accidents)
    BY <1>4 DEF PeopleOfKept
  <2>2. PICK j \in M : old[i] = persons[j]
    BY <1>4, <2>1
  <2>3. QED
    BY <2>1, <2>2 DEF PeopleOfKept
<1>6. /\ Cardinality(I) = Len(accidents) /\ Cardinality(J) = Len(was)
      /\ Cardinality(M) = Len(persons) /\ Cardinality(N) = Len(old)
  BY <1>1, CountsUp
<1>7. /\ Cardinality(I \ K) = Len(accidents) - Cardinality(K) /\ Cardinality(J \ L) = Len(was) - Cardinality(L)
      /\ Cardinality(M \ P) = Len(persons) - Cardinality(P) /\ Cardinality(N \ Q) = Len(old) - Cardinality(Q)
  <2> HIDE DEF K, L, P, Q
  <2>1. QED
    BY <1>1, RestCounts
<1> HIDE DEF K, L, P, Q
<1>8. Cardinality(J) <= Cardinality(I)
  <2>1. I \in SUBSET (1 .. Len(accidents)) /\ J \in SUBSET (1 .. Len(was))
    OBVIOUS
  <2>2. (\A i \in J : \E j \in I : was[i] = accidents[j]) /\ \A i, j \in J : was[i] = was[j] => i = j
    BY <1>2, <1>4
  <2>3. Len(accidents) \in Nat /\ Len(was) \in Nat
    BY <1>1
  <2> HIDE DEF I, J
  <2>4. QED
    BY <2>1, <2>2, <2>3, NoFewer
<1>9. Cardinality(L) <= Cardinality(K)
  <2>1. (\A i \in L : \E j \in K : was[i] = accidents[j]) /\ \A i, j \in L : was[i] = was[j] => i = j
    BY <1>1, <1>2, <1>4
  <2>2. L \in SUBSET (1 .. Len(was)) /\ K \in SUBSET (1 .. Len(accidents))
    BY <1>1
  <2>3. Len(accidents) \in Nat /\ Len(was) \in Nat
    BY <1>1
  <2> HIDE DEF I, J
  <2>4. QED
    BY <2>1, <2>2, <2>3, NoFewer
<1>10. Cardinality(I \ K) <= Cardinality(J \ L)
  <2> DEFINE A == I \ K
             B == J \ L
  <2>1. /\ \A i, j \in A : accidents[i] = accidents[j] => i = j
        /\ A \in SUBSET (1 .. Len(accidents)) /\ B \in SUBSET (1 .. Len(was))
        /\ \A i \in A : \E j \in B : accidents[i] = was[j]
    BY <1>2, <1>4
  <2> HIDE DEF A, B
  <2>2. Cardinality(A) <= Cardinality(B)
    BY <1>1, <2>1, NoFewer
  <2>3. QED
    BY <2>2 DEF A, B
<1>11. Cardinality(N) <= Cardinality(M)
  <2>1. M \in SUBSET (1 .. Len(persons)) /\ N \in SUBSET (1 .. Len(old))
    OBVIOUS
  <2>2. (\A i \in N : \E j \in M : old[i] = persons[j]) /\ \A i, j \in N : old[i] = old[j] => i = j
    BY <1>3, <1>4
  <2>3. Len(persons) \in Nat /\ Len(old) \in Nat
    BY <1>1
  <2> HIDE DEF M, N
  <2>4. QED
    BY <2>1, <2>2, <2>3, NoFewer
<1>12. Cardinality(Q) <= Cardinality(P)
  <2>1. \A i, j \in Q : old[i] = old[j] => i = j
    BY <1>1, <1>3
  <2>2. QED
    BY <1>1, <1>5, <2>1, NoFewer
<1>13. Cardinality(M \ P) <= Cardinality(N \ Q)
  <2> DEFINE A == M \ P
             B == N \ Q
  <2>1. /\ \A i, j \in A : persons[i] = persons[j] => i = j
        /\ A \in SUBSET (1 .. Len(persons)) /\ B \in SUBSET (1 .. Len(old))
        /\ \A i \in A : \E j \in B : persons[i] = old[j]
    BY <1>3, <1>4
  <2> HIDE DEF A, B
  <2>2. Cardinality(A) <= Cardinality(B)
    BY <1>1, <2>1, NoFewer
  <2>3. QED
    BY <2>2 DEF A, B
<1>14. QED
  BY <1>6, <1>7, <1>8, <1>9, <1>10, <1>11, <1>12, <1>13 DEF K, L, P, Q

LEMMA ModesStay ==
    ASSUME NEW accidents, NEW persons, NEW regime, Joinable(accidents, persons, regime),
           NEW was, NEW old, Joinable(was, old, regime), OnlyAdds(accidents, persons, was, old), NEW m
    PROVE  /\ Cardinality(OfModeKept(was, old, regime, m)) <= Cardinality(OfModeKept(accidents, persons, regime, m))
           /\ Cardinality(Died(old, OfModeKept(was, old, regime, m)))
                <= Cardinality(Died(persons, OfModeKept(accidents, persons, regime, m)))
<1> DEFINE A == OfModeKept(was, old, regime, m)
           B == OfModeKept(accidents, persons, regime, m)
           C == Died(old, A)
           D == Died(persons, B)
<1>1. /\ Len(persons) \in Nat /\ Len(old) \in Nat
      /\ PeopleOfKept(accidents, persons) \in SUBSET (1 .. Len(persons))
      /\ PeopleOfKept(was, old) \in SUBSET (1 .. Len(old))
  BY JoinableIs
<1>2. /\ A \in SUBSET (1 .. Len(old)) /\ B \in SUBSET (1 .. Len(persons))
      /\ C \in SUBSET (1 .. Len(old)) /\ D \in SUBSET (1 .. Len(persons)) /\ C \subseteq A
  BY <1>1 DEF OfModeKept, Died
<1>3. \A i, j \in 1 .. Len(old) : old[i] = old[j] => i = j
  BY JoinableIs DEF RowsFit, Same
<1>4. \A i \in A : \E j \in B : old[i] = persons[j]
  <2> SUFFICES ASSUME NEW i \in A PROVE \E j \in B : old[i] = persons[j]
    OBVIOUS
  <2>1. i \in 1 .. Len(old) /\ old[i].case \in KeptCases(was) /\ Mode(old[i], regime) = m
    BY DEF OfModeKept, PeopleOfKept
  <2>2. old[i].case \in KeptCases(accidents) /\ \E j \in 1 .. Len(persons) : old[i] = persons[j]
    BY <2>1, RowsStay
  <2>3. QED
    BY <2>1, <2>2 DEF OfModeKept, PeopleOfKept
<1>5. \A i \in C : \E j \in D : old[i] = persons[j]
  <2>1. \A i \in C : i \in A /\ old[i].injury = Fatal
    BY DEF Died
  <2>2. \A j \in B : persons[j].injury = Fatal => j \in D
    BY DEF Died
  <2> HIDE DEF A, B, C, D
  <2>3. QED
    BY <1>4, <2>1, <2>2
<1> HIDE DEF A, B, C, D
<1>6. Cardinality(A) <= Cardinality(B)
  <2>1. \A i, j \in A : old[i] = old[j] => i = j
    BY <1>2, <1>3
  <2>2. QED
    BY <1>1, <1>2, <1>4, <2>1, NoFewer
<1>7. Cardinality(C) <= Cardinality(D)
  <2>1. \A i, j \in C : old[i] = old[j] => i = j
    BY <1>2, <1>3
  <2>2. QED
    BY <1>1, <1>2, <1>5, <2>1, NoFewer
<1>8. QED
  BY <1>6, <1>7 DEF A, B, C, D

LEMMA ArtifactFields ==
    ASSUME NEW result, NEW limit, NEW release, NEW policy
    PROVE  /\ Artifact(result, limit, release, policy).policy = policy
           /\ Artifact(result, limit, release, policy).release = release
           /\ Artifact(result, limit, release, policy).limit = limit
BY DEF Artifact

\* The gate and the verifier have the same reasons.
LEMMA SameReasons ==
    ASSUME NEW new, NEW old, NEW allowed, new.policy = allowed,
           new.release \in Releases, old.release \in Releases
    PROVE  GateAccepts(new, old, allowed) <=> LineageAccepts(new, old)
<1>1. (<<old.release, new.release>> # <<"final", "preliminary">>)
        <=> ~(old.release = "final" /\ new.release # "final")
  BY DEF Releases
<1>2. GateAccepts(new, old, allowed) <=>
        /\ ArtifactAccepts(new) /\ ArtifactAccepts(old)
        /\ "records" \in allowed \/ ~RecordsRegressed(new, old)
        /\ "release" \in allowed \/ ~(old.release = "final" /\ new.release # "final")
        /\ "modes" \in allowed \/ ~ModesRegressed(new, old)
  BY <1>1 DEF GateAccepts
<1>3. LineageAccepts(new, old) <=>
        /\ ArtifactAccepts(new) /\ ArtifactAccepts(old)
        /\ old.release = "final" /\ new.release # "final" => "release" \in allowed
        /\ RecordsRegressed(new, old) => "records" \in allowed
        /\ ModesRegressed(new, old) => "modes" \in allowed
  BY DEF LineageAccepts
<1>4. QED
  BY <1>2, <1>3

LEMMA KeptIsAccepted ==
    ASSUME NEW accidents, accidents \in Seq(AccidentRows)
    PROVE  /\ Accepted(accidents) = {accidents[i] : i \in KeptCrashes(accidents)}
           /\ KeptCrashes(accidents) =
                {i \in DOMAIN accidents : accidents[i].placed /\ accidents[i].fatals >= 1}
           /\ KeptCases(accidents) = {row.case : row \in Accepted(accidents)}
<1>1. DOMAIN accidents = 1 .. Len(accidents)
  BY LenProperties
<1>2. ToSet(accidents) = {accidents[i] : i \in 1 .. Len(accidents)}
  BY <1>1 DEF ToSet
<1>3. Accepted(accidents) = {accidents[i] : i \in KeptCrashes(accidents)}
  BY <1>2 DEF Accepted, KeptCrashes
<1>4. KeptCrashes(accidents) = {i \in DOMAIN accidents : accidents[i].placed /\ accidents[i].fatals >= 1}
  BY <1>1 DEF KeptCrashes
<1>5. KeptCases(accidents) = {row.case : row \in Accepted(accidents)}
  BY <1>3 DEF KeptCases
<1>6. QED
  BY <1>3, <1>4, <1>5

LEMMA NoRegression ==
    ASSUME NEW accidents, NEW persons, NEW regime, Joinable(accidents, persons, regime),
           NEW was, NEW old, Joinable(was, old, regime), OnlyAdds(accidents, persons, was, old),
           NEW a, NEW at, ArtifactOf(a, accidents, persons, regime, at),
           NEW b, NEW bt, ArtifactOf(b, was, old, regime, bt)
    PROVE  ~RecordsRegressed(a, b) /\ ~ModesRegressed(a, b)
<1> DEFINE k == Cardinality(KeptCrashes(accidents))
           q == Cardinality(PeopleOfKept(accidents, persons))
           m == Len(accidents)
           n == Len(persons)
           k0 == Cardinality(KeptCrashes(was))
           q0 == Cardinality(PeopleOfKept(was, old))
           m0 == Len(was)
           n0 == Len(old)
<1>1. k \in Nat /\ q \in Nat /\ m \in Nat /\ n \in Nat /\ k0 \in Nat /\ q0 \in Nat /\ m0 \in Nat /\ n0 \in Nat
  BY JoinableIs
<1>2. m0 <= m /\ k0 <= k /\ m - k <= m0 - k0 /\ n0 <= n /\ q0 <= q /\ n - q <= n0 - q0
  BY CountsStay
<1>3. /\ Counts(a) = <<m, k, n, q, k>> /\ Exclusions(a) = <<n - q, m - k>>
      /\ Counts(b) = <<m0, k0, n0, q0, k0>> /\ Exclusions(b) = <<n0 - q0, m0 - k0>>
  BY DEF ArtifactOf, Counts, Exclusions
<1> HIDE DEF k, q, m, n, k0, q0, m0, n0
<1>4. \A i \in DOMAIN Counts(a) : ~(Counts(a)[i] < Counts(b)[i])
  <2>1. DOMAIN Counts(a) = 1 .. 5
    BY <1>3
  <2>2. /\ Counts(a)[1] = m /\ Counts(a)[2] = k /\ Counts(a)[3] = n /\ Counts(a)[4] = q /\ Counts(a)[5] = k
        /\ Counts(b)[1] = m0 /\ Counts(b)[2] = k0 /\ Counts(b)[3] = n0 /\ Counts(b)[4] = q0 /\ Counts(b)[5] = k0
    BY <1>3
  <2>3. \A i \in 1 .. 5 : i = 1 \/ i = 2 \/ i = 3 \/ i = 4 \/ i = 5
    OBVIOUS
  <2>4. ~(m < m0) /\ ~(k < k0) /\ ~(n < n0) /\ ~(q < q0)
    BY <1>1, <1>2
  <2>5. QED
    BY <2>1, <2>2, <2>3, <2>4
<1>5. \A i \in DOMAIN Exclusions(a) : ~(Exclusions(a)[i] > Exclusions(b)[i])
  <2>1. DOMAIN Exclusions(a) = 1 .. 2
    BY <1>3
  <2>2. /\ Exclusions(a)[1] = n - q /\ Exclusions(a)[2] = m - k
        /\ Exclusions(b)[1] = n0 - q0 /\ Exclusions(b)[2] = m0 - k0
    BY <1>3
  <2>3. \A i \in 1 .. 2 : i = 1 \/ i = 2
    OBVIOUS
  <2>4. ~(n - q > n0 - q0) /\ ~(m - k > m0 - k0)
    BY <1>1, <1>2
  <2>5. QED
    BY <2>1, <2>2, <2>3, <2>4
<1>6. ASSUME NEW kind \in {"involved", "fatal"}, NEW mode \in Modes
      PROVE  ~(ModeTotals(a)[kind][mode] < ModeTotals(b)[kind][mode])
  <2> DEFINE A == OfModeKept(accidents, persons, regime, mode)
             B == OfModeKept(was, old, regime, mode)
  <2>1. /\ ModeTotals(a)["involved"][mode] = Cardinality(A) /\ ModeTotals(a)["fatal"][mode] = Cardinality(Died(persons, A))
        /\ ModeTotals(b)["involved"][mode] = Cardinality(B) /\ ModeTotals(b)["fatal"][mode] = Cardinality(Died(old, B))
    BY ModeTotalsAre
  <2>2. Cardinality(B) <= Cardinality(A) /\ Cardinality(Died(old, B)) <= Cardinality(Died(persons, A))
    BY ModesStay
  <2>3. /\ A \in SUBSET (1 .. n) /\ Died(persons, A) \in SUBSET (1 .. n)
        /\ B \in SUBSET (1 .. n0) /\ Died(old, B) \in SUBSET (1 .. n0)
    BY JoinableIs DEF OfModeKept, Died, PeopleOfKept, n, n0
  <2> HIDE DEF A, B
  <2>4. /\ Cardinality(A) \in Nat /\ Cardinality(Died(persons, A)) \in Nat
        /\ Cardinality(B) \in Nat /\ Cardinality(Died(old, B)) \in Nat
    BY <1>1, <2>3, RestCounts
  <2>5. ~(Cardinality(A) < Cardinality(B)) /\ ~(Cardinality(Died(persons, A)) < Cardinality(Died(old, B)))
    BY <2>2, <2>4
  <2>6. QED
    BY <2>1, <2>5
<1>7. QED
  BY <1>4, <1>5, <1>6, Zenon DEF RecordsRegressed, ModesRegressed

LEMMA PriorJoinable ==
    ASSUME JoinArtifactAssumption, NEW old \in PriorArchives
    PROVE  /\ Joinable(old.accidents, old.persons, old.regime)
           /\ Cardinality(KeptCrashes(old.accidents)) > 0
<1> DEFINE was == old.accidents
           K == KeptCrashes(was)
<1>1. /\ JoinRequest(was, old.persons, old.regime)
      /\ {row.case : row \in Accepted(was)} \subseteq DOMAIN CaseOrder
      /\ Coherent(was, old.persons, old.regime) /\ Accepted(was) # {}
  BY DEF JoinArtifactAssumption
<1>2. was \in Seq(AccidentRows)
  BY <1>1 DEF JoinRequest
<1>3. KeptCases(was) = {row.case : row \in Accepted(was)} /\ Accepted(was) = {was[i] : i \in K}
  BY <1>2, KeptIsAccepted
<1>4. Joinable(was, old.persons, old.regime)
  BY <1>1, <1>3 DEF Joinable
<1>5. K # {}
  BY <1>1, <1>3
<1>6. K \in SUBSET (1 .. Len(was)) /\ Len(was) \in Nat /\ Cardinality(K) \in Nat
  BY <1>4, JoinableIs
<1> HIDE DEF K
<1>7. IsFiniteSet(K)
  BY <1>6, RestCounts
<1>8. Cardinality(K) # 0
  BY <1>5, <1>7, FS_EmptySet
<1>9. Cardinality(K) > 0
  BY <1>6, <1>8
<1>10. QED
  BY <1>4, <1>9 DEF K

LEMMA ReplacementHoldsAll ==
    ASSUME JoinArtifactAssumption, NEW old \in PriorArchives,
           NEW accidents, NEW persons, NEW regime, Joinable(accidents, persons, regime)
    PROVE  ReplacementHolds(accidents, persons, regime, Collect(accidents, persons, regime), old)
<1> DEFINE result == Collect(accidents, persons, regime)
           before == Collect(old.accidents, old.persons, old.regime)
           Old(limit, release) == Artifact(before, limit, release, {})
           New(limit, release, allowed) == Artifact(result, limit, release, allowed)
           all == [num |-> 1, den |-> 1]
           adds == /\ regime = old.regime
                   /\ ToSet(old.accidents) \subseteq ToSet(accidents)
                   /\ ToSet(old.persons) \subseteq ToSet(persons)
                   /\ ToSet(accidents) \ ToSet(old.accidents) \subseteq Accepted(accidents)
                   /\ \A p \in ToSet(persons) \ ToSet(old.persons) :
                        \E row \in Accepted(accidents) : row.case = p.case
           alike == \A was, is \in Releases, allowed \in SUBSET Allowances, limit \in InvalidLimits :
                      GateAccepts(New(limit, is, allowed), Old(limit, was), allowed)
                        <=> LineageAccepts(New(limit, is, allowed), Old(limit, was))
<1>1. alike
  <2> SUFFICES ASSUME NEW was \in Releases, NEW is \in Releases, NEW allowed \in SUBSET Allowances,
                      NEW limit \in InvalidLimits
               PROVE  GateAccepts(New(limit, is, allowed), Old(limit, was), allowed)
                        <=> LineageAccepts(New(limit, is, allowed), Old(limit, was))
    OBVIOUS
  <2> DEFINE a == New(limit, is, allowed)
             b == Old(limit, was)
  <2>1. a.policy = allowed /\ a.release = is /\ b.release = was
    BY ArtifactFields
  <2> HIDE DEF a, b
  <2>2. GateAccepts(a, b, allowed) <=> LineageAccepts(a, b)
    BY <2>1, SameReasons
  <2>3. QED
    BY <2>2 DEF a, b
<1>2. ASSUME adds PROVE GateAccepts(New(all, "final", {}), Old(all, "final"), {})
  <2> DEFINE a == New(all, "final", {})
             b == Old(all, "final")
             was == old.accidents
             m == Len(accidents)
             k == Cardinality(KeptCrashes(accidents))
             m0 == Len(was)
             k0 == Cardinality(KeptCrashes(was))
  <2>1. /\ a.policy = {} /\ a.release = "final" /\ b.release = "final"
        /\ a.limit = all /\ b.limit = all
    BY ArtifactFields
  <2>2. a.limit.num = 1 /\ a.limit.den = 1 /\ b.limit.num = 1 /\ b.limit.den = 1
    BY <2>1
  <2>3. Joinable(was, old.persons, regime) /\ k0 > 0
    BY <1>2, PriorJoinable
  <2>4. OnlyAdds(accidents, persons, was, old.persons)
    BY <1>2 DEF OnlyAdds
  <2>5. PICK at : ArtifactOf(a, accidents, persons, regime, at)
    BY ArtifactIs
  <2>6. PICK bt : ArtifactOf(b, was, old.persons, regime, bt)
    BY <1>2, <2>3, ArtifactIs
  <2> HIDE DEF a, b, was, adds, alike
  <2>7. ~RecordsRegressed(a, b) /\ ~ModesRegressed(a, b)
    BY <2>3, <2>4, <2>5, <2>6, NoRegression
  <2>8. k0 <= k
    BY <2>3, <2>4, CountsStay
  <2>9. m \in Nat /\ k \in Nat /\ m0 \in Nat /\ k0 \in Nat
    BY <2>3, JoinableIs
  <2>10. ArtifactAccepts(a) <=> k > 0 /\ (m - k) * a.limit.den <= a.limit.num * m
    BY <2>2, <2>5, Accepts
  <2>11. ArtifactAccepts(b) <=> k0 > 0 /\ (m0 - k0) * b.limit.den <= b.limit.num * m0
    BY <2>2, <2>3, <2>6, Accepts
  <2> HIDE DEF m, k, m0, k0
  <2>12. ArtifactAccepts(a)
    BY <2>2, <2>3, <2>8, <2>9, <2>10
  <2>13. ArtifactAccepts(b)
    BY <2>2, <2>3, <2>9, <2>11
  <2>14. GateAccepts(a, b, {})
    <3>1. <<b.release, a.release>> # <<"final", "preliminary">>
      BY <2>1
    <3>2. QED
      BY <2>1, <2>7, <2>12, <2>13, <3>1 DEF GateAccepts
  <2>15. QED
    BY <2>14 DEF a, b
<1>3. ReplacementHolds(accidents, persons, regime, result, old)
        <=> alike /\ (adds => GateAccepts(New(all, "final", {}), Old(all, "final"), {}))
  <2> HIDE DEF result, before
  <2>1. QED
    BY DEF ReplacementHolds, before
<1> HIDE DEF alike, adds, New, Old
<1>4. QED
  BY <1>1, <1>2, <1>3

LEMMA ArtifactHoldsAll ==
    ASSUME JoinArtifactAssumption,
           NEW accidents, NEW persons, NEW regime, JoinRequest(accidents, persons, regime),
           {row.case : row \in Accepted(accidents)} \subseteq DOMAIN CaseOrder
    PROVE  ArtifactHolds(accidents, persons, regime, Collect(accidents, persons, regime))
<1> DEFINE result == Collect(accidents, persons, regime)
           placed == Cardinality({i \in DOMAIN accidents : accidents[i].placed /\ accidents[i].fatals >= 1})
           m == Len(accidents)
           lost == m - placed
<1>1. accidents \in Seq(AccidentRows) /\ persons \in Seq(PersonRows)
  BY DEF JoinRequest
<1>2. SUFFICES ASSUME result # Refused
               PROVE  /\ \A limit \in InvalidLimits :
                           ArtifactAccepts(Artifact(result, limit, "final", {}))
                             <=> placed > 0 /\ lost * limit.den <= limit.num * m
                      /\ \A old \in PriorArchives : ReplacementHolds(accidents, persons, regime, result, old)
  BY DEF ArtifactHolds
<1>3. Joinable(accidents, persons, regime)
  <2>1. Coherent(accidents, persons, regime)
    BY <1>1, <1>2, CollectIs
  <2>2. KeptCases(accidents) \subseteq DOMAIN CaseOrder
    BY <1>1, KeptIsAccepted
  <2>3. QED
    BY <2>1, <2>2 DEF Joinable
<1>4. placed = Cardinality(KeptCrashes(accidents))
  BY <1>1, KeptIsAccepted
<1>5. ASSUME NEW limit \in InvalidLimits
      PROVE  ArtifactAccepts(Artifact(result, limit, "final", {}))
               <=> placed > 0 /\ lost * limit.den <= limit.num * m
  <2> DEFINE a == Artifact(result, limit, "final", {})
  <2>1. a.limit = limit
    BY ArtifactFields
  <2>2. a.limit.num \in Nat /\ a.limit.den \in Nat
    BY <2>1 DEF JoinArtifactAssumption
  <2>3. PICK at : ArtifactOf(a, accidents, persons, regime, at)
    BY <1>3, ArtifactIs
  <2> HIDE DEF a
  <2>4. ArtifactAccepts(a) <=>
          /\ Cardinality(KeptCrashes(accidents)) > 0
          /\ (Len(accidents) - Cardinality(KeptCrashes(accidents))) * a.limit.den
               <= a.limit.num * Len(accidents)
    BY <1>3, <2>2, <2>3, Accepts
  <2>5. QED
    BY <1>4, <2>1, <2>4 DEF a
<1>6. \A old \in PriorArchives : ReplacementHolds(accidents, persons, regime, result, old)
  BY <1>3, ReplacementHoldsAll
<1>7. QED
  BY <1>5, <1>6

JoinInv ==
  part = "join" => /\ task \in JoinTasks
                   /\ outcome \in {Pending, Collect(task.accidents, task.persons, task.regime)}

\* Nothing is joined yet.
LEMMA JoinInit == Init => JoinInv
BY DEF Init, Start, JoinInv

\* The one step of the join computes its outcome from its task.
LEMMA JoinStep == JoinInv /\ [Next]_algorithmVars => JoinInv'
<1> SUFFICES ASSUME JoinInv, [Next]_algorithmVars, part' = "join" PROVE JoinInv'
  BY DEF JoinInv
<1>1. part' = part /\ task' = task
  BY DEF Next, JoinFiles, BuildDocuments, BuildContext, RunReports, FindClusters,
     AuditDataset, AssessCity, Compute, algorithmVars, taskVars
<1>2. task \in JoinTasks /\ outcome \in {Pending, Collect(task.accidents, task.persons, task.regime)}
  BY <1>1 DEF JoinInv
<1>3. outcome' = outcome \/ outcome' = Collect(task.accidents, task.persons, task.regime)
  BY <1>1 DEF Next, JoinFiles, BuildDocuments, BuildContext, RunReports, FindClusters,
     AuditDataset, AssessCity, Compute, algorithmVars, taskVars
<1>4. QED
  BY <1>1, <1>2, <1>3 DEF JoinInv

\* Two files that agree give a record of every accepted crash with all of its people, an accounting of
\* every row, and an artifact that the validators, the gate and the lineage verifier judge alike
\* (JoinHolds and ArtifactHolds, adapters/fars_joined.py and joined_outcome_artifacts.py).
THEOREM JoinsStayAgreed == Spec => []JoinedFilesAgree
<1>1. JoinInv => JoinedFilesAgree
  <2> SUFFICES ASSUME JoinInv, part = "join", outcome # Pending
               PROVE  /\ JoinHolds(task.accidents, task.persons, task.regime, outcome)
                      /\ ArtifactHolds(task.accidents, task.persons, task.regime, outcome)
    BY DEF JoinedFilesAgree, Computed
  <2>1. task \in JoinTasks /\ outcome = Collect(task.accidents, task.persons, task.regime)
    BY DEF JoinInv
  <2>2. /\ JoinRequest(task.accidents, task.persons, task.regime)
        /\ {row.case : row \in Accepted(task.accidents)} \subseteq DOMAIN CaseOrder
    BY <2>1, JoinTaskAssumption
  <2>3. task.accidents \in Seq(AccidentRows) /\ task.persons \in Seq(PersonRows)
    BY <2>2 DEF JoinRequest
  <2>4. JoinHolds(task.accidents, task.persons, task.regime, outcome)
    BY <2>1, <2>3, JoinHoldsAll
  <2>5. ArtifactHolds(task.accidents, task.persons, task.regime, outcome)
    BY <2>1, <2>2, JoinArtifactAssumption, ArtifactHoldsAll
  <2>6. QED
    BY <2>4, <2>5
<1>2. QED
  BY <1>1, JoinInit, JoinStep, PTL DEF Spec


-----------------------------------------------------------------------------
(* The documents of a snapshot.  Every count of them is the size of a set  *)
(* of contributions, a crash with one of its modes, and every total is the *)
(* size of a union of such sets.                                           *)

\* The crashes of a bag one by one, those of some kinds, and their contributions.
Units(b)      == {u \in (DOMAIN b) \X Nat : u[2] \in 1 .. b[u[1]]}
UnitsOf(b, T) == {u \in Units(b) : u[1] \in T}
Shares(b)     == {w \in Units(b) \X ModeSet : w[2] \in w[1][1].modes}

\* The contributions at some places: a place is a state, a county code and a mode.
Place(w)    == <<w[1][1].state, w[1][1].county, w[2]>>
Where(b, C) == {w \in Shares(b) : Place(w) \in C}
Codes       == Reported \cup Sentinels
AllPlaces      == States \X Codes \X ModeSet

IsBag(b) == IsFiniteSet(DOMAIN b) /\ DOMAIN b \subseteq RecordKinds /\ \A x \in DOMAIN b : b[x] \in Nat

LEMMA KindIs ==
    ASSUME NEW b, IsBag(b), NEW x \in DOMAIN b
    PROVE  /\ x.state \in States /\ x.county \in Codes /\ x.modes \subseteq ModeSet /\ x.modes # {}
           /\ b[x] \in Nat
<1>1. x \in RecordKinds /\ b[x] \in Nat
  BY DEF IsBag
<1>2. QED
  BY <1>1 DEF RecordKinds, Codes

LEMMA UnitsCount ==
    ASSUME NEW b, IsBag(b), NEW T \in SUBSET DOMAIN b
    PROVE  /\ IsFiniteSet(UnitsOf(b, T)) /\ Cardinality(UnitsOf(b, T)) \in Nat
           /\ Summed(b, T) = Cardinality(UnitsOf(b, T))
<1> DEFINE D == DOMAIN b
           n == Summed(b, D)
           U == UnitsOf(b, T)
           at == [u \in U |-> u[1]]
<1>1. IsFiniteSet(D) /\ \A x \in D : b[x] \in Nat
  BY DEF IsBag
<1>2. IsFiniteSet(T)
  BY <1>1, FS_Subset
<1> HIDE DEF D
<1>3. n \in Nat
  BY <1>1, SumPicks
<1>4. \A x \in D : b[x] <= n
  <2> SUFFICES ASSUME NEW x \in D PROVE b[x] <= n
    OBVIOUS
  <2>1. n = b[x] + Summed(b, D \ {x})
    BY <1>1, SumStep
  <2>2. IsFiniteSet(D \ {x})
    BY <1>1, FS_Subset
  <2>3. Summed(b, D \ {x}) \in Nat
    <3>1. \A y \in D \ {x} : b[y] \in Nat
      BY <1>1
    <3>2. QED
      BY <2>2, <3>1, SumPicks
  <2> HIDE DEF n
  <2>4. QED
    BY <1>1, <2>1, <2>3
<1> HIDE DEF n
<1>5. IsFiniteSet(U)
  <2>1. IsFiniteSet(1 .. n)
    BY <1>3, CountsUp
  <2>2. IsFiniteSet(D \X (1 .. n))
    BY <1>1, <2>1, FS_Product
  <2>3. U \subseteq D \X (1 .. n)
    <3> SUFFICES ASSUME NEW u \in U PROVE u \in D \X (1 .. n)
      OBVIOUS
    <3>1. u \in D \X Nat /\ u[2] \in 1 .. b[u[1]]
      BY DEF U, UnitsOf, Units, D
    <3>2. u[1] \in D /\ u[2] \in 1 .. b[u[1]] /\ u = <<u[1], u[2]>>
      BY <3>1
    <3>3. b[u[1]] \in Nat /\ b[u[1]] <= n
      BY <1>1, <1>4, <3>2
    <3>4. u[2] \in 1 .. n
      BY <1>3, <3>2, <3>3
    <3>5. QED
      BY <3>2, <3>4
  <2>4. QED
    BY <2>2, <2>3, FS_Subset
<1>6. \A u \in U : at[u] \in T
  BY DEF UnitsOf
<1>7. ASSUME NEW x \in T PROVE b[x] = Cardinality(Part(U, at, x))
  <2>1. Part(U, at, x) = {x} \X (1 .. b[x])
    <3>1. ASSUME NEW u \in Part(U, at, x) PROVE u \in {x} \X (1 .. b[x])
      <4>1. u \in (DOMAIN b) \X Nat /\ u[2] \in 1 .. b[u[1]] /\ u[1] = x
        BY <3>1 DEF Part, UnitsOf, Units
      <4>2. u = <<u[1], u[2]>> /\ u[2] \in 1 .. b[x]
        BY <4>1
      <4>3. QED
        BY <4>1, <4>2
    <3>2. ASSUME NEW u \in {x} \X (1 .. b[x]) PROVE u \in Part(U, at, x)
      <4>1. u[1] = x /\ u[2] \in 1 .. b[x] /\ u = <<u[1], u[2]>> /\ x \in DOMAIN b
        BY <3>2
      <4>2. u \in (DOMAIN b) \X Nat
        BY <4>1
      <4>3. u \in U
        BY <4>1, <4>2 DEF UnitsOf, Units
      <4>4. QED
        BY <4>1, <4>3 DEF Part
    <3>3. QED
      BY <3>1, <3>2
  <2>2. b[x] \in Nat
    BY <1>1 DEF D
  <2>3. IsFiniteSet(1 .. b[x]) /\ Cardinality(1 .. b[x]) = b[x]
    BY <2>2, CountsUp
  <2>4. IsFiniteSet({x}) /\ Cardinality({x}) = 1
    BY FS_Singleton
  <2>5. Cardinality({x} \X (1 .. b[x])) = 1 * b[x]
    BY <2>3, <2>4, FS_Product
  <2>6. 1 * b[x] = b[x]
    BY <2>2
  <2>7. QED
    BY <2>1, <2>5, <2>6
<1> HIDE DEF at, U
<1>8. Summed(b, T) = Cardinality(U)
  BY <1>2, <1>5, <1>6, <1>7, PartsAddUp
<1>9. QED
  BY <1>5, <1>8, FS_CardinalityType DEF U

LEMMA SharesFinite ==
    ASSUME NEW b, IsBag(b), NEW C
    PROVE  /\ IsFiniteSet(Units(b)) /\ IsFiniteSet(Shares(b)) /\ IsFiniteSet(Where(b, C))
           /\ Cardinality(Where(b, C)) \in Nat
           /\ CaseCount(b) = Cardinality(Units(b)) /\ CaseCount(b) \in Nat
<1>1. UnitsOf(b, DOMAIN b) = Units(b)
  BY DEF UnitsOf, Units
<1>2. /\ IsFiniteSet(Units(b)) /\ Cardinality(Units(b)) \in Nat
      /\ Summed(b, DOMAIN b) = Cardinality(Units(b))
  BY <1>1, UnitsCount
<1>3. IsFiniteSet(Units(b) \X ModeSet)
  BY <1>2, DocumentAssumption, FS_Product
<1>4. IsFiniteSet(Shares(b))
  <2>1. Shares(b) \subseteq Units(b) \X ModeSet
    BY DEF Shares
  <2>2. QED
    BY <1>3, <2>1, FS_Subset
<1>5. IsFiniteSet(Where(b, C))
  <2>1. Where(b, C) \subseteq Shares(b)
    BY DEF Where
  <2>2. QED
    BY <1>4, <2>1, FS_Subset
<1>6. CaseCount(b) = Summed(b, DOMAIN b)
  <2>1. {x \in DOMAIN b : TRUE} = DOMAIN b
    OBVIOUS
  <2>2. QED
    BY <2>1 DEF CaseCount, Crashes, Summed
<1>7. QED
  BY <1>2, <1>4, <1>5, <1>6, FS_CardinalityType

\* The crashes that contribute to places of one mode.
LEMMA CrashesAre ==
    ASSUME NEW b, IsBag(b), NEW m \in ModeSet, NEW C, \A t \in C : t[3] = m,
           NEW T, T = {x \in DOMAIN b : m \in x.modes /\ <<x.state, x.county, m>> \in C}
    PROVE  Summed(b, T) = Cardinality(Where(b, C))
<1> DEFINE U == UnitsOf(b, T)
<1>1. /\ IsFiniteSet(U) /\ Cardinality(U) \in Nat /\ Summed(b, T) = Cardinality(U)
  BY UnitsCount
<1>2. Where(b, C) = U \X {m}
  <2>1. ASSUME NEW w \in Where(b, C) PROVE w \in U \X {m}
    <3>1. /\ w \in Units(b) \X ModeSet /\ w[2] \in w[1][1].modes
          /\ <<w[1][1].state, w[1][1].county, w[2]>> \in C
      BY <2>1 DEF Where, Shares, Place
    <3>2. w[1] \in Units(b) /\ w = <<w[1], w[2]>>
      BY <3>1
    <3>3. w[2] = m
      BY <3>1
    <3>4. w[1][1] \in DOMAIN b
      BY <3>2 DEF Units
    <3>5. w[1][1] \in T
      BY <3>1, <3>3, <3>4
    <3>6. w[1] \in U
      BY <3>2, <3>5 DEF UnitsOf
    <3>7. QED
      BY <3>2, <3>3, <3>6
  <2>2. ASSUME NEW w \in U \X {m} PROVE w \in Where(b, C)
    <3>1. w[1] \in UnitsOf(b, T) /\ w[2] = m /\ w = <<w[1], w[2]>>
      BY <2>2
    <3>2. w[1] \in Units(b) /\ w[1][1] \in T
      BY <3>1 DEF UnitsOf
    <3>3. m \in w[1][1].modes /\ <<w[1][1].state, w[1][1].county, m>> \in C
      BY <3>2
    <3>4. w \in Shares(b)
      BY <3>1, <3>2, <3>3 DEF Shares
    <3>5. QED
      BY <3>1, <3>3, <3>4 DEF Where, Place
  <2>3. QED
    BY <2>1, <2>2
<1> HIDE DEF U
<1>3. IsFiniteSet({m}) /\ Cardinality({m}) = 1
  BY FS_Singleton
<1>4. Cardinality(U \X {m}) = Cardinality(U) * 1
  BY <1>1, <1>3, FS_Product
<1>5. QED
  BY <1>1, <1>2, <1>4

\* The places of a state and mode, and of some codes of a state.
At(s, m)           == {s} \X Codes \X {m}
Over(s, codes, m)  == {s} \X codes \X {m}
Under(K)           == {t \in AllPlaces : <<t[1], t[3]>> \in K}

\* Each count of a document is the number of contributions at its places.
LEMMA CellsCount ==
    ASSUME NEW b, IsBag(b)
    PROVE  /\ \A codes \in SUBSET Codes : \A key \in States \X codes \X ModeSet :
                CountyCells(b, codes)[key] = Cardinality(Where(b, {key}))
           /\ \A key \in States \X ModeSet :
                StateModeCounts(b)[key] = Cardinality(Where(b, At(key[1], key[2])))
<1>1. ASSUME NEW codes \in SUBSET Codes, NEW key \in States \X codes \X ModeSet
      PROVE  CountyCells(b, codes)[key] = Cardinality(Where(b, {key}))
  <2> DEFINE T == {x \in DOMAIN b : x.state = key[1] /\ x.county = key[2] /\ key[3] \in x.modes}
  <2>1. key[3] \in ModeSet /\ key = <<key[1], key[2], key[3]>>
    OBVIOUS
  <2>2. CountyCells(b, codes)[key] = Summed(b, T)
    BY DEF CountyCells, Crashes, Summed
  <2>3. T = {x \in DOMAIN b : key[3] \in x.modes /\ <<x.state, x.county, key[3]>> \in {key}}
    BY <2>1
  <2>4. \A t \in {key} : t[3] = key[3]
    OBVIOUS
  <2> HIDE DEF T
  <2>5. Summed(b, T) = Cardinality(Where(b, {key}))
    BY <2>1, <2>3, <2>4, CrashesAre
  <2>6. QED
    BY <2>2, <2>5
<1>2. ASSUME NEW key \in States \X ModeSet
      PROVE  StateModeCounts(b)[key] = Cardinality(Where(b, At(key[1], key[2])))
  <2> DEFINE T == {x \in DOMAIN b : x.state = key[1] /\ key[2] \in x.modes}
             m == key[2]
  <2>1. m \in ModeSet
    OBVIOUS
  <2>2. StateModeCounts(b)[key] = Summed(b, T)
    BY DEF StateModeCounts, Crashes, Summed
  <2>3. T = {x \in DOMAIN b : m \in x.modes /\ <<x.state, x.county, m>> \in At(key[1], key[2])}
    <3>1. \A x \in DOMAIN b : x.county \in Codes
      BY KindIs
    <3>2. \A x \in DOMAIN b : <<x.state, x.county, m>> \in At(key[1], key[2]) <=> x.state = key[1]
      BY <3>1 DEF At
    <3>3. QED
      BY <3>2
  <2>4. \A t \in At(key[1], key[2]) : t[3] = m
    BY DEF At
  <2> HIDE DEF T, m
  <2>5. Summed(b, T) = Cardinality(Where(b, At(key[1], key[2])))
    BY <2>1, <2>3, <2>4, CrashesAre
  <2>6. QED
    BY <2>2, <2>5
<1>3. QED
  BY <1>1, <1>2

LEMMA PlaceIs ==
    ASSUME NEW b, IsBag(b), NEW w \in Shares(b)
    PROVE  /\ Place(w) \in AllPlaces /\ w[1] \in Units(b) /\ w[1][1] \in DOMAIN b
           /\ Place(w)[1] = w[1][1].state /\ Place(w)[2] = w[1][1].county /\ Place(w)[3] = w[2]
<1>1. w \in Units(b) \X ModeSet /\ w[2] \in w[1][1].modes
  BY DEF Shares
<1>2. w[1] \in Units(b) /\ w[2] \in ModeSet
  BY <1>1
<1>3. w[1][1] \in DOMAIN b
  BY <1>2 DEF Units
<1>4. w[1][1].state \in States /\ w[1][1].county \in Codes
  BY <1>3, KindIs
<1>5. QED
  BY <1>2, <1>3, <1>4 DEF Place, AllPlaces

Keyed(C, at, key) == {t \in C : at[t] = key}

\* Sums over places regroup: whatever key each of some contributions has, the keys add up to them.
LEMMA SharesAddUp ==
    ASSUME NEW b, IsBag(b), NEW C, NEW K, IsFiniteSet(K), NEW at, NEW size,
           \A w \in Where(b, C) : at[Place(w)] \in K,
           \A key \in K : size[key] = Cardinality(Where(b, Keyed(C, at, key)))
    PROVE  Summed(size, K) = Cardinality(Where(b, C))
<1> DEFINE S == Where(b, C)
           key(w) == at[Place(w)]
           of == [w \in S |-> at[Place(w)]]
<1>1. IsFiniteSet(S)
  BY SharesFinite
<1>2. \A w \in S : of[w] \in K
  OBVIOUS
<1>3. ASSUME NEW k \in K PROVE size[k] = Cardinality(Part(S, of, k))
  <2>1. Part(S, of, k) = Where(b, Keyed(C, at, k))
    BY DEF Part, Where, Keyed
  <2>2. QED
    BY <2>1
<1> HIDE DEF of, S
<1>4. Summed(size, K) = Cardinality(S)
  BY <1>1, <1>2, <1>3, PartsAddUp
<1>5. QED
  BY <1>4 DEF S

LEMMA PlacesFinite ==
    /\ IsFiniteSet(Codes) /\ IsFiniteSet(States \X ModeSet) /\ IsFiniteSet(AllPlaces)
    /\ \A codes \in SUBSET Codes : IsFiniteSet(States \X codes \X ModeSet)
<1>1. IsFiniteSet(Codes) /\ IsFiniteSet(States) /\ IsFiniteSet(ModeSet)
  BY DocumentAssumption, FS_Union DEF Codes
<1>2. IsFiniteSet(States \X ModeSet)
  BY <1>1, FS_Product
<1>3. ASSUME NEW codes \in SUBSET Codes PROVE IsFiniteSet(States \X codes \X ModeSet)
  <2> DEFINE P == (States \X codes) \X ModeSet
             f == [p \in P |-> <<p[1][1], p[1][2], p[2]>>]
  <2>1. IsFiniteSet(States \X codes)
    BY <1>1, FS_Product, FS_Subset
  <2>2. IsFiniteSet(P)
    BY <1>1, <2>1, FS_Product
  <2>3. IsFiniteSet({f[p] : p \in P})
    <3> HIDE DEF P, f
    <3>1. QED
      BY <2>2, ImageFinite
  <2>4. States \X codes \X ModeSet \subseteq {f[p] : p \in P}
    <3> SUFFICES ASSUME NEW t \in States \X codes \X ModeSet PROVE \E p \in P : f[p] = t
      OBVIOUS
    <3>1. <<<<t[1], t[2]>>, t[3]>> \in P
      OBVIOUS
    <3>2. f[<<<<t[1], t[2]>>, t[3]>>] = t
      BY <3>1
    <3>3. QED
      BY <3>1, <3>2
  <2> HIDE DEF P, f
  <2>5. QED
    BY <2>3, <2>4, FS_Subset
<1>4. QED
  BY <1>1, <1>2, <1>3 DEF AllPlaces

\* The total over some cells is the number of contributions there.
LEMMA SumsCount ==
    ASSUME NEW b, IsBag(b)
    PROVE  /\ \A codes \in SUBSET Codes : \A K \in SUBSET (States \X codes \X ModeSet) :
                SumOver(CountyCells(b, codes), K) = Cardinality(Where(b, K))
           /\ \A K \in SUBSET (States \X ModeSet) :
                SumOver(StateModeCounts(b), K) = Cardinality(Where(b, Under(K)))
<1>1. ASSUME NEW codes \in SUBSET Codes, NEW K \in SUBSET (States \X codes \X ModeSet)
      PROVE  SumOver(CountyCells(b, codes), K) = Cardinality(Where(b, K))
  <2> DEFINE at == [t \in K |-> t]
             size == CountyCells(b, codes)
  <2>1. IsFiniteSet(K)
    BY PlacesFinite, FS_Subset
  <2>2. \A w \in Where(b, K) : at[Place(w)] \in K
    BY DEF Where
  <2>3. ASSUME NEW key \in K PROVE size[key] = Cardinality(Where(b, Keyed(K, at, key)))
    <3>1. Keyed(K, at, key) = {key}
      BY DEF Keyed
    <3>2. size[key] = Cardinality(Where(b, {key}))
      BY CellsCount
    <3>3. QED
      BY <3>1, <3>2
  <2>4. SumOver(size, K) = Summed(size, K)
    BY DEF SumOver, Summed
  <2> HIDE DEF at, size
  <2>5. Summed(size, K) = Cardinality(Where(b, K))
    BY <2>1, <2>2, <2>3, SharesAddUp
  <2>6. QED
    BY <2>4, <2>5 DEF size
<1>2. ASSUME NEW K \in SUBSET (States \X ModeSet)
      PROVE  SumOver(StateModeCounts(b), K) = Cardinality(Where(b, Under(K)))
  <2> DEFINE C == Under(K)
             at == [t \in C |-> <<t[1], t[3]>>]
             size == StateModeCounts(b)
  <2>1. IsFiniteSet(K)
    BY PlacesFinite, FS_Subset
  <2>2. \A w \in Where(b, C) : at[Place(w)] \in K
    BY DEF Where, Under
  <2>3. ASSUME NEW key \in K PROVE size[key] = Cardinality(Where(b, Keyed(C, at, key)))
    <3>1. key \in States \X ModeSet /\ key = <<key[1], key[2]>>
      OBVIOUS
    <3>2. Keyed(C, at, key) = At(key[1], key[2])
      <4>1. ASSUME NEW t \in C, at[t] = key PROVE t \in At(key[1], key[2])
        <5>1. t \in States \X Codes \X ModeSet /\ <<t[1], t[3]>> = key
          BY <4>1 DEF Under, AllPlaces
        <5>2. t = <<t[1], t[2], t[3]>> /\ t[1] = key[1] /\ t[3] = key[2] /\ t[2] \in Codes
          BY <5>1
        <5>3. QED
          BY <5>2 DEF At
      <4>2. ASSUME NEW t \in At(key[1], key[2]) PROVE t \in C /\ at[t] = key
        <5>1. t = <<t[1], t[2], t[3]>> /\ t[1] = key[1] /\ t[3] = key[2] /\ t[2] \in Codes
          BY <4>2 DEF At
        <5>2. t \in AllPlaces
          BY <3>1, <5>1 DEF AllPlaces
        <5>3. <<t[1], t[3]>> = key
          BY <3>1, <5>1
        <5>4. t \in C
          BY <5>2, <5>3 DEF Under
        <5>5. QED
          BY <5>3, <5>4
      <4>3. QED
        BY <4>1, <4>2 DEF Keyed
    <3>3. size[key] = Cardinality(Where(b, At(key[1], key[2])))
      BY <3>1, CellsCount
    <3>4. QED
      BY <3>2, <3>3
  <2>4. SumOver(size, K) = Summed(size, K)
    BY DEF SumOver, Summed
  <2> HIDE DEF at, size, C
  <2>5. Summed(size, K) = Cardinality(Where(b, C))
    BY <2>1, <2>2, <2>3, SharesAddUp
  <2>6. QED
    BY <2>4, <2>5 DEF C, size
<1>3. QED
  BY <1>1, <1>2

\* Withheld are the positive cells below the floor: how many there are, and what they add up to.
Withheld(counts, k) == Positive(counts) \ AtLeast(counts, k)

LEMMA CellsSplit ==
    ASSUME NEW counts, IsFiniteSet(DOMAIN counts), NEW n \in Nat, NEW k \in Nat \ {0},
           \A key \in DOMAIN counts : counts[key] \in 0 .. n
    PROVE  /\ AtLeast(counts, k) \subseteq Positive(counts) /\ Positive(counts) \subseteq DOMAIN counts
           /\ IsFiniteSet(AtLeast(counts, k)) /\ IsFiniteSet(Positive(counts))
           /\ IsFiniteSet(Withheld(counts, k))
           /\ Cardinality(AtLeast(counts, k)) \in Nat /\ Cardinality(Withheld(counts, k)) \in Nat
           /\ Cardinality(Positive(counts)) = Cardinality(AtLeast(counts, k)) + Cardinality(Withheld(counts, k))
           /\ Summed(counts, AtLeast(counts, k)) \in Nat
           /\ Summed(counts, Withheld(counts, k)) \in Nat
           /\ Summed(counts, DOMAIN counts) =
                Summed(counts, AtLeast(counts, k)) + Summed(counts, Withheld(counts, k))
           /\ Summed(counts, Withheld(counts, k)) \in
                Cardinality(Withheld(counts, k)) .. Cardinality(Withheld(counts, k)) * Min({k - 1, n})
           /\ Min({k - 1, n}) \in Nat /\ Min({k - 1, n}) <= k - 1
           /\ Cardinality(Positive(counts)) <= Summed(counts, DOMAIN counts)
<1> DEFINE D == DOMAIN counts
           P == Positive(counts)
           E == AtLeast(counts, k)
           W == Withheld(counts, k)
           h == Min({k - 1, n})
<1>1. /\ P = {key \in D : counts[key] > 0} /\ E = {key \in D : counts[key] >= k}
      /\ W = P \ E /\ IsFiniteSet(D) /\ \A key \in D : counts[key] \in Nat /\ counts[key] <= n
  BY DEF Positive, AtLeast, Withheld
<1>2. h \in {k - 1, n} /\ h <= k - 1 /\ h <= n /\ h \in Nat
  <2>1. {k - 1, n} \in SUBSET Nat /\ {k - 1, n} # {}
    OBVIOUS
  <2>2. h \in {k - 1, n} /\ \A x \in {k - 1, n} : h <= x
    BY <2>1, LeastOf
  <2> HIDE DEF h
  <2>3. QED
    BY <2>2
<1> HIDE DEF D, P, E, W, h
<1>3. E \subseteq P /\ P \subseteq D /\ W \subseteq P /\ E \cup W = P /\ E \cap W = {}
  BY <1>1
<1>4. IsFiniteSet(E) /\ IsFiniteSet(P) /\ IsFiniteSet(W)
  BY <1>1, <1>3, FS_Subset
<1>5. Cardinality(E) \in Nat /\ Cardinality(P) \in Nat /\ Cardinality(W) \in Nat
  BY <1>4, FS_CardinalityType
<1>6. Cardinality(P) = Cardinality(E) + Cardinality(W)
  BY <1>3, <1>4, CardinalitiesAdd
<1>7. /\ \A key \in D : counts[key] \in Nat
      /\ \A key \in P : counts[key] \in Nat
      /\ \A key \in E : counts[key] \in Nat
      /\ \A key \in W : counts[key] \in Nat
  BY <1>1, <1>3
<1>8. Summed(counts, D) \in Nat /\ Summed(counts, P) \in Nat
  BY <1>1, <1>4, <1>7, SumPicks
<1>9. Summed(counts, E) \in Nat /\ Summed(counts, W) \in Nat
  <2>1. Summed(counts, E) \in Nat
    BY <1>4, <1>7, SumPicks
  <2>2. Summed(counts, W) \in Nat
    BY <1>4, <1>7, SumPicks
  <2>3. QED
    BY <2>1, <2>2
<1>10. Summed(counts, D) = Summed(counts, P)
  <2>1. Summed(counts, D) = Summed(counts, P) + Summed(counts, D \ P)
    BY <1>1, <1>3, <1>7, SumSplit
  <2>2. IsFiniteSet(D \ P)
    BY <1>1, FS_Subset
  <2>3. \A key \in D \ P : counts[key] \in 0 .. 0
    BY <1>1
  <2>4. Summed(counts, D \ P) \in 0 * Cardinality(D \ P) .. 0 * Cardinality(D \ P)
    BY <2>2, <2>3, SumBounds
  <2>5. Cardinality(D \ P) \in Nat
    BY <2>2, FS_CardinalityType
  <2>6. Summed(counts, D \ P) = 0
    BY <2>4, <2>5
  <2>7. QED
    BY <1>8, <2>1, <2>6
<1>11. Summed(counts, P) = Summed(counts, E) + Summed(counts, W)
  <2>1. P \ E = W
    BY <1>3
  <2>2. Summed(counts, P) = Summed(counts, E) + Summed(counts, P \ E)
    BY <1>3, <1>4, <1>7, SumSplit
  <2>3. QED
    BY <2>1, <2>2
<1>12. Summed(counts, W) \in Cardinality(W) .. Cardinality(W) * h
  <2>1. \A key \in W : counts[key] \in 1 .. h
    <3> SUFFICES ASSUME NEW key \in W PROVE counts[key] \in 1 .. h
      OBVIOUS
    <3>1. counts[key] \in Nat /\ counts[key] > 0 /\ counts[key] < k /\ counts[key] <= n
      BY <1>1
    <3>2. QED
      BY <1>2, <3>1
  <2>2. Summed(counts, W) \in 1 * Cardinality(W) .. h * Cardinality(W)
    BY <1>2, <1>4, <2>1, SumBounds
  <2>3. h * Cardinality(W) = Cardinality(W) * h /\ 1 * Cardinality(W) = Cardinality(W)
    BY <1>2, <1>5
  <2>4. QED
    BY <2>2, <2>3
<1>13. Cardinality(P) <= Summed(counts, P)
  <2>1. \A key \in P : counts[key] \in 1 .. n
    BY <1>1
  <2>2. Summed(counts, P) \in 1 * Cardinality(P) .. n * Cardinality(P)
    BY <1>4, <2>1, SumBounds
  <2>3. QED
    BY <1>5, <1>8, <2>2
<1>14. QED
  BY <1>2, <1>3, <1>4, <1>5, <1>6, <1>8, <1>9, <1>10, <1>11, <1>12, <1>13 DEF D, P, E, W, h

\* Of finitely many things, as many at most as things that are told apart by a part of them.
LEMMA ImageAtMost ==
    ASSUME NEW S, IsFiniteSet(S), NEW f, NEW T, T \subseteq {f[x] : x \in S}
    PROVE  IsFiniteSet(T) /\ Cardinality(T) <= Cardinality(S) /\ Cardinality(T) \in Nat
<1>1. IsFiniteSet({f[x] : x \in S}) /\ Cardinality({f[x] : x \in S}) <= Cardinality(S)
  BY ImageFinite
<1>2. IsFiniteSet(T) /\ Cardinality(T) <= Cardinality({f[x] : x \in S})
  BY <1>1, FS_Subset
<1>3. Cardinality(T) \in Nat /\ Cardinality({f[x] : x \in S}) \in Nat /\ Cardinality(S) \in Nat
  BY <1>1, <1>2, FS_CardinalityType
<1>4. QED
  BY <1>1, <1>2, <1>3

\* The crashes of some kinds are among all, and there are some if there is a crash of one kind.
LEMMA CrashCounts ==
    ASSUME NEW b, IsBag(b), NEW T \in SUBSET DOMAIN b
    PROVE  Summed(b, T) \in 0 .. CaseCount(b) /\ (Summed(b, T) > 0 <=> \E x \in T : b[x] > 0)
<1> DEFINE n == CaseCount(b)
           U == UnitsOf(b, T)
           c == Summed(b, T)
<1>1. c = Cardinality(U) /\ IsFiniteSet(U) /\ c \in Nat
  BY UnitsCount
<1>2. n = Cardinality(Units(b)) /\ n \in Nat /\ IsFiniteSet(Units(b))
  BY SharesFinite
<1>3. U \subseteq Units(b)
  BY DEF UnitsOf
<1>4. c <= n
  BY <1>1, <1>2, <1>3, FS_Subset
<1>5. U # {} <=> \E x \in T : b[x] > 0
  <2>1. ASSUME NEW x \in T, b[x] > 0 PROVE <<x, 1>> \in U
    <3>1. x \in DOMAIN b /\ b[x] \in Nat
      BY KindIs
    <3>2. 1 \in 1 .. b[x] /\ <<x, 1>> \in (DOMAIN b) \X Nat
      BY <2>1, <3>1
    <3>3. QED
      BY <3>2 DEF UnitsOf, Units
  <2>2. ASSUME NEW u \in U PROVE u[1] \in T /\ b[u[1]] > 0
    <3>1. u[1] \in T /\ u[2] \in 1 .. b[u[1]]
      BY DEF UnitsOf, Units
    <3>2. b[u[1]] \in Nat
      BY <3>1, KindIs
    <3>3. QED
      BY <3>1, <3>2
  <2> HIDE DEF U
  <2>3. QED
    BY <2>1, <2>2
<1> HIDE DEF U, c, n
<1>6. c = 0 <=> U = {}
  BY <1>1, FS_EmptySet
<1>7. QED
  BY <1>1, <1>2, <1>4, <1>5, <1>6 DEF c, n

\* The cells of states and modes: bounded by the crashes, and one is positive in every state with a crash.
LEMMA CountsAre ==
    ASSUME NEW b, IsBag(b)
    PROVE  /\ DOMAIN StateModeCounts(b) = States \X ModeSet
           /\ \A key \in States \X ModeSet :
                /\ StateModeCounts(b)[key] \in 0 .. CaseCount(b)
                /\ StateModeCounts(b)[key] > 0 <=>
                     \E x \in DOMAIN b : x.state = key[1] /\ key[2] \in x.modes /\ b[x] > 0
           /\ Summed(StateModeCounts(b), States \X ModeSet) = Cardinality(Shares(b))
           /\ Cardinality(Shares(b)) \in CaseCount(b) .. (CaseCount(b) * Cardinality(ModeSet))
           /\ Cardinality(StatesWithRecords(b)) <= CaseCount(b)
           /\ Cardinality(StatesWithRecords(b)) <= Cardinality(Positive(StateModeCounts(b)))
           /\ Cardinality(StatesWithRecords(b)) \in Nat /\ StatesWithRecords(b) \subseteq States
<1> DEFINE P == States \X ModeSet
           counts == StateModeCounts(b)
           n == CaseCount(b)
           q == Cardinality(ModeSet)
<1>1. DOMAIN counts = P
  BY DEF StateModeCounts
<1>2. /\ IsFiniteSet(Units(b)) /\ IsFiniteSet(Shares(b)) /\ n = Cardinality(Units(b)) /\ n \in Nat
      /\ IsFiniteSet(ModeSet) /\ q \in Nat
  BY SharesFinite, DocumentAssumption, FS_CardinalityType
<1>3. ASSUME NEW key \in P
      PROVE  /\ counts[key] \in 0 .. n
             /\ counts[key] > 0 <=> \E x \in DOMAIN b : x.state = key[1] /\ key[2] \in x.modes /\ b[x] > 0
  <2> DEFINE T == {x \in DOMAIN b : x.state = key[1] /\ key[2] \in x.modes}
  <2>1. counts[key] = Summed(b, T)
    BY DEF StateModeCounts, Crashes, Summed
  <2>2. Summed(b, T) \in 0 .. n /\ (Summed(b, T) > 0 <=> \E x \in T : b[x] > 0)
    BY CrashCounts
  <2>3. QED
    BY <2>1, <2>2
<1>4. Summed(counts, P) = Cardinality(Shares(b))
  <2>1. SumOver(counts, P) = Cardinality(Where(b, Under(P)))
    BY SumsCount
  <2>2. Where(b, Under(P)) = Shares(b)
    <3>1. \A w \in Shares(b) : Place(w) \in AllPlaces
      BY PlaceIs
    <3>2. AllPlaces = Under(P)
      BY DEF Under, AllPlaces
    <3>3. QED
      BY <3>1, <3>2 DEF Where
  <2>3. SumOver(counts, P) = Summed(counts, P)
    BY DEF SumOver, Summed
  <2>4. QED
    BY <2>1, <2>2, <2>3
<1>5. Cardinality(Shares(b)) \in n .. (n * q)
  <2> DEFINE U == Units(b)
             S == Shares(b)
             at == [w \in S |-> w[1]]
             size == [u \in U |-> Cardinality(u[1].modes)]
  <2>1. \A w \in S : at[w] \in U
    BY PlaceIs
  <2>2. ASSUME NEW u \in U
        PROVE  /\ u[1].modes \subseteq ModeSet /\ u[1].modes # {}
               /\ size[u] = Cardinality(Part(S, at, u)) /\ size[u] \in 1 .. q
    <3>1. u[1] \in DOMAIN b
      BY DEF Units
    <3>2. u[1].modes \subseteq ModeSet /\ u[1].modes # {}
      BY <3>1, KindIs
    <3>3. Part(S, at, u) = {u} \X u[1].modes
      <4>1. ASSUME NEW w \in Part(S, at, u) PROVE w \in {u} \X u[1].modes
        <5>1. w \in Units(b) \X ModeSet /\ w[2] \in w[1][1].modes /\ w[1] = u
          BY <4>1 DEF Part, Shares
        <5>2. w = <<w[1], w[2]>>
          BY <5>1
        <5>3. QED
          BY <5>1, <5>2
      <4>2. ASSUME NEW w \in {u} \X u[1].modes PROVE w \in Part(S, at, u)
        <5>1. w = <<w[1], w[2]>> /\ w[1] = u /\ w[2] \in u[1].modes
          BY <4>2
        <5>2. w \in Units(b) \X ModeSet
          BY <3>2, <5>1
        <5>3. w \in S
          BY <5>1, <5>2 DEF Shares
        <5>4. QED
          BY <5>1, <5>3 DEF Part
      <4>3. QED
        BY <4>1, <4>2
    <3>4. IsFiniteSet(u[1].modes) /\ Cardinality(u[1].modes) <= q /\ Cardinality(u[1].modes) \in Nat
      BY <1>2, <3>2, FS_Subset, FS_CardinalityType
    <3>5. Cardinality(u[1].modes) # 0
      BY <3>2, <3>4, FS_EmptySet
    <3>6. Cardinality({u} \X u[1].modes) = 1 * Cardinality(u[1].modes)
      <4>1. IsFiniteSet({u}) /\ Cardinality({u}) = 1
        BY FS_Singleton
      <4>2. QED
        BY <3>4, <4>1, FS_Product
    <3>7. size[u] = Cardinality(u[1].modes)
      OBVIOUS
    <3> HIDE DEF S, at, U, size, q
    <3>8. QED
      BY <1>2, <3>2, <3>3, <3>4, <3>5, <3>6, <3>7
  <2> HIDE DEF U, S, at, size, q, n
  <2>3. IsFiniteSet(U) /\ IsFiniteSet(S) /\ Cardinality(U) = n
    BY <1>2 DEF U, S
  <2>4. Summed(size, U) = Cardinality(S)
    BY <2>1, <2>2, <2>3, PartsAddUp
  <2>5. Summed(size, U) \in 1 * Cardinality(U) .. q * Cardinality(U)
    BY <1>2, <2>2, <2>3, SumBounds
  <2>6. 1 * Cardinality(U) = n /\ q * Cardinality(U) = n * q
    BY <1>2, <2>3
  <2>7. QED
    BY <2>4, <2>5, <2>6 DEF S
<1>6. StatesWithRecords(b) \subseteq States
  BY DEF StatesWithRecords
<1>7. StatesWithRecords(b) \subseteq {[v \in Units(b) |-> v[1].state][u] : u \in Units(b)}
  <2> SUFFICES ASSUME NEW s \in StatesWithRecords(b) PROVE \E u \in Units(b) : u[1].state = s
    OBVIOUS
  <2>1. PICK x \in DOMAIN b : x.state = s /\ b[x] > 0
    BY DEF StatesWithRecords
  <2>2. b[x] \in Nat
    BY KindIs
  <2>3. <<x, 1>> \in Units(b)
    BY <2>1, <2>2 DEF Units
  <2>4. QED
    BY <2>1, <2>3
<1>8. StatesWithRecords(b) \subseteq {[cell \in P |-> cell[1]][key] : key \in Positive(counts)}
  <2> SUFFICES ASSUME NEW s \in StatesWithRecords(b) PROVE \E key \in Positive(counts) : key \in P /\ key[1] = s
    OBVIOUS
  <2>1. PICK x \in DOMAIN b : x.state = s /\ b[x] > 0
    BY DEF StatesWithRecords
  <2>2. PICK m \in ModeSet : m \in x.modes
    BY KindIs
  <2>3. s \in States
    BY <1>6
  <2>4. <<s, m>> \in P /\ <<s, m>>[1] = s /\ <<s, m>>[2] = m
    BY <2>3
  <2>5. counts[<<s, m>>] > 0
    BY <1>3, <2>1, <2>2, <2>4
  <2>6. QED
    BY <1>1, <2>4, <2>5 DEF Positive
<1>9. IsFiniteSet(Positive(counts))
  <2>1. Positive(counts) \subseteq P
    BY <1>1 DEF Positive
  <2>2. QED
    BY <2>1, PlacesFinite, FS_Subset
<1>10. Cardinality(StatesWithRecords(b)) <= n /\ Cardinality(StatesWithRecords(b)) \in Nat
  BY <1>2, <1>7, ImageAtMost
<1>11. Cardinality(StatesWithRecords(b)) <= Cardinality(Positive(counts))
  BY <1>8, <1>9, ImageAtMost
<1>12. QED
  BY <1>1, <1>3, <1>4, <1>5, <1>6, <1>10, <1>11

-----------------------------------------------------------------------------
(* The national and the public document.                                   *)

\* What the accounting says of the cells, for a floor k.
ShownCells(b, k)   == AtLeast(StateModeCounts(b), k)
HiddenCells(b, k)   == Withheld(StateModeCounts(b), k)
ShownSum(b, k)   == Summed(StateModeCounts(b), ShownCells(b, k))
HiddenSum(b, k)  == Summed(StateModeCounts(b), HiddenCells(b, k))

Accounted(b, k, acc) ==
  /\ acc.cases = CaseCount(b) /\ acc.states = Cardinality(StatesWithRecords(b))
  /\ acc.eligibleIn = Cardinality({key[1] : key \in ShownCells(b, k)})
  /\ acc.positive = Cardinality(Positive(StateModeCounts(b)))
  /\ acc.eligible = Cardinality(ShownCells(b, k)) /\ acc.suppressed = Cardinality(HiddenCells(b, k))
  /\ acc.total = ShownSum(b, k) + HiddenSum(b, k)
  /\ acc.shown = ShownSum(b, k) /\ acc.hidden = HiddenSum(b, k)

\* What is true of these numbers.
NumbersOf(b, k) ==
  /\ CaseCount(b) \in Nat /\ ShownSum(b, k) \in Nat /\ HiddenSum(b, k) \in Nat
  /\ Cardinality(ShownCells(b, k)) \in Nat /\ Cardinality(HiddenCells(b, k)) \in Nat
  /\ Cardinality(Positive(StateModeCounts(b)))
       = Cardinality(ShownCells(b, k)) + Cardinality(HiddenCells(b, k))
  /\ Cardinality(Positive(StateModeCounts(b))) <= ShownSum(b, k) + HiddenSum(b, k)
  /\ ShownSum(b, k) + HiddenSum(b, k) \in CaseCount(b) .. (CaseCount(b) * Cardinality(ModeSet))
  /\ HiddenSum(b, k) \in
       Cardinality(HiddenCells(b, k)) .. Cardinality(HiddenCells(b, k)) * Min({k - 1, CaseCount(b)})
  /\ HiddenSum(b, k) <= Cardinality(HiddenCells(b, k)) * (k - 1)
  /\ Cardinality(HiddenCells(b, k)) = 0 => HiddenSum(b, k) = 0
  /\ IsFiniteSet(ShownCells(b, k)) /\ IsFiniteSet(HiddenCells(b, k))
  /\ ShownCells(b, k) \subseteq Positive(StateModeCounts(b))
  /\ Positive(StateModeCounts(b)) \subseteq States \X ModeSet
  /\ HiddenCells(b, k) = Positive(StateModeCounts(b)) \ ShownCells(b, k)
  /\ \A key \in ShownCells(b, k) : StateModeCounts(b)[key] \in k .. CaseCount(b)

LEMMA NumbersAre ==
    ASSUME NEW b, IsBag(b), NEW k \in Nat \ {0}
    PROVE  NumbersOf(b, k) /\ Accounted(b, k, NationalAccounting(b, k))
<1> DEFINE counts == StateModeCounts(b)
           P == States \X ModeSet
           n == CaseCount(b)
           E == AtLeast(counts, k)
           W == Withheld(counts, k)
           Q == Positive(counts)
           h == Min({k - 1, n})
<1>1. /\ DOMAIN counts = P /\ \A key \in P : counts[key] \in 0 .. n
      /\ Summed(counts, P) \in n .. (n * Cardinality(ModeSet))
  BY CountsAre
<1>2. n \in Nat /\ IsFiniteSet(P)
  BY SharesFinite, PlacesFinite
<1> HIDE DEF counts, n, P
<1>3. /\ E \subseteq Q /\ Q \subseteq P /\ IsFiniteSet(E) /\ IsFiniteSet(W)
      /\ Cardinality(E) \in Nat /\ Cardinality(W) \in Nat /\ Cardinality(Q) = Cardinality(E) + Cardinality(W)
      /\ Summed(counts, E) \in Nat /\ Summed(counts, W) \in Nat
      /\ Summed(counts, P) = Summed(counts, E) + Summed(counts, W)
      /\ Summed(counts, W) \in Cardinality(W) .. Cardinality(W) * h
      /\ h \in Nat /\ h <= k - 1 /\ Cardinality(Q) <= Summed(counts, P)
  BY <1>1, <1>2, CellsSplit
<1>4. W = Q \ E /\ \A key \in E : counts[key] \in k .. n
  BY <1>1 DEF Withheld, AtLeast
<1> HIDE DEF E, W, Q, h
<1>5. Cardinality(W) * h <= Cardinality(W) * (k - 1)
  <2>1. k - 1 \in Nat
    OBVIOUS
  <2>2. QED
    BY <1>3, <2>1, TimesGrows
<1>6. Summed(counts, W) <= Cardinality(W) * (k - 1)
  <2>1. Cardinality(W) * h \in Nat /\ Cardinality(W) * (k - 1) \in Nat
    BY <1>3
  <2>2. QED
    BY <1>3, <1>5, <2>1
<1>7. Cardinality(W) = 0 => Summed(counts, W) = 0
  BY <1>3, <1>6
<1>8. NumbersOf(b, k)
  BY <1>1, <1>2, <1>3, <1>4, <1>6, <1>7, Zenon
     DEF NumbersOf, ShownCells, HiddenCells, ShownSum, HiddenSum, counts, n, P, E, W, Q, h
<1>9. Accounted(b, k, NationalAccounting(b, k))
  <2> DEFINE acc == NationalAccounting(b, k)
  <2>1. SumOver(counts, P) = Summed(counts, P) /\ SumOver(counts, E) = Summed(counts, E)
    BY DEF SumOver, Summed
  <2>2. /\ acc.cases = n /\ acc.states = Cardinality(StatesWithRecords(b))
        /\ acc.eligibleIn = Cardinality({key[1] : key \in E})
        /\ acc.positive = Cardinality(Q) /\ acc.eligible = Cardinality(E)
        /\ acc.suppressed = Cardinality(Q) - Cardinality(E)
        /\ acc.total = SumOver(counts, DOMAIN counts) /\ acc.shown = SumOver(counts, E)
        /\ acc.hidden = SumOver(counts, DOMAIN counts) - SumOver(counts, E)
    BY DEF NationalAccounting, counts, n, E, Q
  <2> HIDE DEF acc
  <2>3. acc.suppressed = Cardinality(W) /\ acc.hidden = Summed(counts, W)
    BY <1>1, <1>3, <2>1, <2>2
  <2>4. acc.total = Summed(counts, E) + Summed(counts, W) /\ acc.shown = Summed(counts, E)
    BY <1>1, <1>3, <2>1, <2>2
  <2>5. QED
    BY <2>2, <2>3, <2>4, Zenon
       DEF Accounted, ShownCells, HiddenCells, ShownSum, HiddenSum, acc, counts, n, E, Q, W
<1>10. QED
  BY <1>8, <1>9

\* The document of a floor.
NationalDoc(b, k) ==
  [k |-> k, accounting |-> NationalAccounting(b, k),
   cells |-> [key \in ShownCells(b, k) |-> StateModeCounts(b)[key]]]

\* What the builder counts passes its own validator in a country that is covered.
LEMMA NationalAccepted ==
    ASSUME NEW b, IsBag(b), NEW k \in Nat \ {0}, k >= MinimumK, StatesWithRecords(b) = States
    PROVE  NationalValid(NationalDoc(b, k))
<1> DEFINE doc == NationalDoc(b, k)
           acc == doc.accounting
           cells == doc.cells
           E == ShownCells(b, k)
           counts == StateModeCounts(b)
           Ein == {key[1] : key \in E}
           n == CaseCount(b)
           q == Cardinality(ModeSet)
           w == Cardinality(HiddenCells(b, k))
           s == Cardinality(States)
           pos == Cardinality(Positive(counts))
<1>1. NumbersOf(b, k) /\ Accounted(b, k, acc)
  BY NumbersAre DEF NationalDoc
<1>2. doc.k = k /\ cells = [key \in E |-> counts[key]]
  BY DEF NationalDoc
<1> HIDE DEF doc
<1>3. /\ acc.cases = n /\ acc.states = s /\ acc.eligibleIn = Cardinality(Ein) /\ acc.positive = pos
      /\ acc.eligible = Cardinality(E) /\ acc.suppressed = w /\ acc.total = ShownSum(b, k) + HiddenSum(b, k)
      /\ acc.shown = ShownSum(b, k) /\ acc.hidden = HiddenSum(b, k)
  BY <1>1 DEF Accounted
<1>4. /\ n \in Nat /\ ShownSum(b, k) \in Nat /\ HiddenSum(b, k) \in Nat
      /\ Cardinality(E) \in Nat /\ w \in Nat
      /\ pos = Cardinality(E) + w /\ pos <= ShownSum(b, k) + HiddenSum(b, k)
      /\ ShownSum(b, k) + HiddenSum(b, k) \in n .. (n * q)
      /\ HiddenSum(b, k) \in w .. w * Min({k - 1, n})
      /\ (w = 0 => HiddenSum(b, k) = 0)
      /\ IsFiniteSet(E) /\ E \subseteq Positive(counts) /\ Positive(counts) \subseteq States \X ModeSet
      /\ \A key \in E : counts[key] \in k .. n
  BY <1>1 DEF NumbersOf
<1> HIDE DEF acc, cells, n, w
<1>5. DOMAIN cells = E /\ \A key \in E : cells[key] = counts[key]
  BY <1>2
<1>6. SumOver(cells, E) = ShownSum(b, k)
  <2>1. \A key \in E : counts[key] \in Nat /\ cells[key] = counts[key]
    BY <1>4, <1>5
  <2>2. SumOver(cells, E) = Summed(cells, E)
    BY DEF SumOver, Summed
  <2> HIDE DEF E, counts
  <2>3. Summed(cells, E) = Summed(counts, E)
    BY <1>4, <2>1, SumEqual
  <2>4. QED
    BY <2>2, <2>3 DEF ShownSum, E, counts
<1>7. /\ IsFiniteSet(States) /\ s \in Nat /\ s <= n /\ s <= pos /\ pos \in Nat
      /\ q \in Nat /\ IsFiniteSet(Positive(counts))
  <2>1. s <= n /\ s <= pos /\ s \in Nat
    BY CountsAre DEF n
  <2>2. IsFiniteSet(States) /\ IsFiniteSet(ModeSet) /\ IsFiniteSet(States \X ModeSet)
    BY DocumentAssumption, PlacesFinite
  <2>3. q \in Nat /\ IsFiniteSet(Positive(counts))
    BY <1>4, <2>2, FS_Subset, FS_CardinalityType
  <2>4. QED
    BY <1>4, <2>1, <2>2, <2>3
<1>8. pos <= s * q
  <2>1. Cardinality(States \X ModeSet) = s * q
    BY DocumentAssumption, FS_Product
  <2>2. pos <= Cardinality(States \X ModeSet)
    BY <1>4, PlacesFinite, FS_Subset
  <2>3. QED
    BY <2>1, <2>2
<1>9. Cardinality(Ein) <= s /\ Cardinality(Ein) <= Cardinality(E)
  <2>1. Ein \subseteq States
    <3>1. \A key \in E : key \in States \X ModeSet
      BY <1>4
    <3>2. \A key \in States \X ModeSet : key[1] \in States
      OBVIOUS
    <3> HIDE DEF E
    <3>3. QED
      BY <3>1, <3>2
  <2>2. Cardinality(Ein) <= s
    BY <1>7, <2>1, FS_Subset
  <2>3. Ein \subseteq {[key \in E |-> key[1]][cell] : cell \in E}
    OBVIOUS
  <2>4. Cardinality(Ein) <= Cardinality(E)
    BY <1>4, <2>3, ImageAtMost
  <2>5. QED
    BY <2>2, <2>4
<1> HIDE DEF E, Ein, counts, q, s, pos
<1>10. /\ doc.k >= MinimumK
       /\ \A key \in DOMAIN doc.cells : doc.cells[key] \in doc.k .. acc.cases
  BY <1>2, <1>3, <1>4, <1>5 DEF cells
<1>11. /\ acc.eligible = Cardinality(DOMAIN doc.cells)
       /\ acc.positive = acc.eligible + acc.suppressed
       /\ acc.shown = SumOver(doc.cells, DOMAIN doc.cells)
       /\ acc.total = acc.shown + acc.hidden
       /\ acc.eligibleIn = Cardinality({key[1] : key \in DOMAIN doc.cells})
  <2>1. doc.cells = cells /\ Ein = {key[1] : key \in E}
    BY DEF cells, Ein
  <2>2. QED
    BY <1>3, <1>4, <1>5, <1>6, <2>1
<1>12. acc.eligibleIn <= acc.states /\ acc.eligibleIn <= acc.eligible
  BY <1>3, <1>9
<1>13. acc.states = Cardinality(States)
  BY <1>3 DEF s
<1>14. acc.states <= acc.cases /\ acc.states <= acc.positive /\ acc.positive <= acc.total
  BY <1>3, <1>4, <1>7
<1>15. acc.positive <= acc.states * Cardinality(ModeSet)
  BY <1>3, <1>8 DEF q
<1>16. acc.total \in acc.cases .. (acc.cases * Cardinality(ModeSet))
  BY <1>3, <1>4 DEF q
<1>17. IF acc.suppressed = 0 THEN acc.hidden = 0
       ELSE acc.hidden \in acc.suppressed .. (acc.suppressed * Min({doc.k - 1, acc.cases}))
  BY <1>2, <1>3, <1>4
<1>18. QED
  BY <1>10, <1>11, <1>12, <1>13, <1>14, <1>15, <1>16, <1>17, Zenon
     DEF NationalValid, acc, doc

\* The public document that is made of the national one.
StateDoc(b, k) ==
  [cells |-> [key \in States \X ModeSet |->
                IF key \in ShownCells(b, k) THEN StateModeCounts(b)[key] ELSE SuppressedOrZero],
   accounting |-> [cases |-> CaseCount(b), published |-> Cardinality(ShownCells(b, k)),
                   positive |-> Cardinality(Positive(StateModeCounts(b))),
                   suppressed |-> Cardinality(HiddenCells(b, k)), total |-> ShownSum(b, k) + HiddenSum(b, k),
                   shown |-> ShownSum(b, k), hidden |-> HiddenSum(b, k)]]

LEMMA StateDocIs ==
    ASSUME NEW b, IsBag(b), NEW k \in Nat \ {0}
    PROVE  /\ NationalDoc(b, k) # Unpublished /\ StateDoc(b, k) # Unpublished
           /\ PublicContext(NationalDoc(b, k)) =
                IF k = PublicK /\ PublicValid(StateDoc(b, k)) THEN StateDoc(b, k) ELSE Unpublished
<1> DEFINE national == NationalDoc(b, k)
           private == national.accounting
           counts == StateModeCounts(b)
           E == ShownCells(b, k)
           cells == [key \in States \X ModeSet |->
                       IF key \in DOMAIN national.cells THEN national.cells[key] ELSE SuppressedOrZero]
           accounting == [cases |-> private.cases, published |-> private.eligible,
                          positive |-> private.positive,
                          suppressed |-> private.suppressed, total |-> private.total,
                          shown |-> private.shown, hidden |-> private.hidden]
<1>1. Accounted(b, k, private)
  BY NumbersAre DEF NationalDoc
<1>2. national.k = k /\ national.cells = [key \in E |-> counts[key]]
  BY DEF NationalDoc
<1>3. national # Unpublished
  <2>1. DOMAIN national = {"k", "accounting", "cells"} /\ DOMAIN Unpublished = {"unpublished"}
    BY DEF NationalDoc, Unpublished
  <2>2. QED
    BY <2>1
<1>4. StateDoc(b, k) # Unpublished
  <2>1. DOMAIN StateDoc(b, k) = {"cells", "accounting"} /\ DOMAIN Unpublished = {"unpublished"}
    BY DEF StateDoc, Unpublished
  <2>2. QED
    BY <2>1
<1> HIDE DEF national, E, counts
<1>5. accounting = StateDoc(b, k).accounting
  BY <1>1 DEF Accounted, StateDoc
<1>6. cells = StateDoc(b, k).cells
  <2>1. DOMAIN national.cells = E /\ \A key \in E : national.cells[key] = counts[key]
    BY <1>2
  <2>2. \A key \in States \X ModeSet :
          (IF key \in DOMAIN national.cells THEN national.cells[key] ELSE SuppressedOrZero)
            = IF key \in E THEN counts[key] ELSE SuppressedOrZero
    BY <2>1
  <2>3. cells = [key \in States \X ModeSet |-> IF key \in E THEN counts[key] ELSE SuppressedOrZero]
    BY <2>2
  <2>4. QED
    BY <2>3 DEF StateDoc, E, counts
<1>7. [cells |-> cells, accounting |-> accounting] = StateDoc(b, k)
  <2> HIDE DEF cells, accounting
  <2>1. StateDoc(b, k) = [cells |-> StateDoc(b, k).cells, accounting |-> StateDoc(b, k).accounting]
    BY DEF StateDoc
  <2>2. QED
    BY <1>5, <1>6, <2>1
<1>8. PublicContext(national) =
        IF national # Unpublished /\ national.k = PublicK /\ PublicValid([cells |-> cells, accounting |-> accounting])
        THEN [cells |-> cells, accounting |-> accounting] ELSE Unpublished
  BY DEF PublicContext
<1> HIDE DEF cells, accounting
<1>9. QED
  BY <1>2, <1>3, <1>4, <1>7, <1>8 DEF national

\* The cells that are shown, and what they add up to.
LEMMA StateCells ==
    ASSUME NEW b, IsBag(b), NEW k \in Nat \ {0}
    PROVE  /\ DOMAIN StateDoc(b, k).cells = States \X ModeSet
           /\ {key \in DOMAIN StateDoc(b, k).cells : StateDoc(b, k).cells[key] # SuppressedOrZero}
                = ShownCells(b, k)
           /\ \A key \in ShownCells(b, k) :
                StateDoc(b, k).cells[key] = StateModeCounts(b)[key] /\ StateDoc(b, k).cells[key] \in k .. CaseCount(b)
           /\ SumOver(StateDoc(b, k).cells, ShownCells(b, k)) = ShownSum(b, k)
           /\ \A key \in (States \X ModeSet) \ ShownCells(b, k) :
                StateDoc(b, k).cells[key] = SuppressedOrZero
<1> DEFINE P == States \X ModeSet
           E == ShownCells(b, k)
           counts == StateModeCounts(b)
           cells == StateDoc(b, k).cells
           n == CaseCount(b)
<1>1. NumbersOf(b, k)
  BY NumbersAre
<1>2. E \subseteq P /\ IsFiniteSet(E) /\ n \in Nat /\ \A key \in E : counts[key] \in k .. n
  BY <1>1 DEF NumbersOf
<1>3. cells = [key \in P |-> IF key \in E THEN counts[key] ELSE SuppressedOrZero]
  BY DEF StateDoc
<1> HIDE DEF P, E, counts, cells, n
<1>4. DOMAIN cells = P
  BY <1>3
<1>5. \A key \in E : cells[key] = counts[key] /\ cells[key] \in k .. n
  BY <1>2, <1>3
<1>6. \A key \in P \ E : cells[key] = SuppressedOrZero
  BY <1>3
<1>7. {key \in DOMAIN cells : cells[key] # SuppressedOrZero} = E
  <2>1. \A key \in E : cells[key] # SuppressedOrZero
    BY <1>2, <1>5 DEF SuppressedOrZero
  <2>2. QED
    BY <1>2, <1>4, <1>6, <2>1
<1>8. SumOver(cells, E) = ShownSum(b, k)
  <2>1. \A key \in E : counts[key] \in Nat /\ cells[key] = counts[key]
    BY <1>2, <1>5
  <2>2. Summed(cells, E) = Summed(counts, E)
    BY <1>2, <2>1, SumEqual
  <2>3. SumOver(cells, E) = Summed(cells, E)
    BY DEF SumOver, Summed
  <2>4. QED
    BY <2>2, <2>3 DEF ShownSum, E, counts
<1>9. QED
  BY <1>4, <1>5, <1>6, <1>7, <1>8 DEF P, E, counts, cells, n

\* At the public floor it is refused only for one withheld positive cell, and the page, the index and
\* the audit accept what the builder does.
LEMMA StateAccepted ==
    ASSUME NEW b, IsBag(b)
    PROVE  /\ PublicValid(StateDoc(b, PublicK)) <=> Cardinality(HiddenCells(b, PublicK)) # 1
           /\ Cardinality(HiddenCells(b, PublicK)) # 1 =>
                /\ PageAccepts(StateDoc(b, PublicK)) /\ IndexAccepts(StateDoc(b, PublicK))
                /\ AuditAccepts(StateDoc(b, PublicK), StateDoc(b, PublicK))
<1> DEFINE k == PublicK
           doc == StateDoc(b, k)
           acc == doc.accounting
           P == States \X ModeSet
           E == ShownCells(b, k)
           W == HiddenCells(b, k)
           Q == Positive(StateModeCounts(b))
           n == CaseCount(b)
           q == Cardinality(ModeSet)
           w == Cardinality(W)
           shown == {key \in DOMAIN doc.cells : doc.cells[key] # SuppressedOrZero}
<1>1. k \in Nat \ {0}
  BY DocumentAssumption
<1>2. /\ acc.cases = n /\ acc.published = Cardinality(E) /\ acc.positive = Cardinality(Q)
      /\ acc.suppressed = w /\ acc.total = ShownSum(b, k) + HiddenSum(b, k)
      /\ acc.shown = ShownSum(b, k) /\ acc.hidden = HiddenSum(b, k)
  BY DEF StateDoc
<1>3. /\ DOMAIN doc.cells = P /\ shown = E
      /\ \A key \in E : doc.cells[key] \in k .. n
      /\ SumOver(doc.cells, E) = ShownSum(b, k)
      /\ \A key \in P \ E : doc.cells[key] = SuppressedOrZero
  <2> HIDE DEF k
  <2>1. QED
    BY <1>1, StateCells
<1>4. /\ n \in Nat /\ ShownSum(b, k) \in Nat /\ HiddenSum(b, k) \in Nat
      /\ Cardinality(E) \in Nat /\ w \in Nat
      /\ Cardinality(Q) = Cardinality(E) + w
      /\ ShownSum(b, k) + HiddenSum(b, k) \in n .. (n * q)
      /\ HiddenSum(b, k) >= w /\ HiddenSum(b, k) <= w * (k - 1)
      /\ (w = 0 => HiddenSum(b, k) = 0)
      /\ IsFiniteSet(E) /\ IsFiniteSet(W) /\ E \subseteq Q /\ Q \subseteq P /\ W = Q \ E
  <2>1. NumbersOf(b, k)
    BY <1>1, NumbersAre
  <2> HIDE DEF k
  <2>2. /\ HiddenSum(b, k) \in w .. w * Min({k - 1, n}) /\ HiddenSum(b, k) <= w * (k - 1)
        /\ w \in Nat /\ HiddenSum(b, k) \in Nat
    BY <2>1 DEF NumbersOf
  <2>3. HiddenSum(b, k) >= w
    BY <2>2
  <2>4. QED
    BY <2>1, <2>2, <2>3 DEF NumbersOf
<1>5. /\ IsFiniteSet(P) /\ Cardinality(P) = Cardinality(E) + Cardinality(P \ E)
      /\ Cardinality(P \ E) \in Nat /\ w <= Cardinality(P \ E)
  <2>1. IsFiniteSet(P) /\ E \subseteq P /\ W \subseteq P \ E
    BY <1>4, PlacesFinite
  <2> HIDE DEF P, E, W, w
  <2>2. IsFiniteSet(P \ E)
    BY <2>1, FS_Subset
  <2>3. E \cup (P \ E) = P /\ E \cap (P \ E) = {}
    BY <2>1
  <2>4. Cardinality(P) = Cardinality(E) + Cardinality(P \ E)
    BY <1>4, <2>2, <2>3, CardinalitiesAdd
  <2>5. w <= Cardinality(P \ E)
    BY <2>1, <2>2, FS_Subset DEF w
  <2>6. QED
    BY <2>1, <2>2, <2>4, <2>5, FS_CardinalityType
<1>6. P \ E = DOMAIN doc.cells \ shown
  BY <1>3
<1> HIDE DEF k, doc, acc, P, E, W, Q, n, q, w, shown
<1>7. SuppressionHolds(acc) <=> w # 1
  <2>1. w * (k - 1) = acc.suppressed * (PublicK - 1)
    BY <1>2 DEF k
  <2>2. w = 0 \/ w = 1 \/ w >= 2
    BY <1>4
  <2>3. SuppressionHolds(acc) <=>
          \/ w = 0 /\ HiddenSum(b, k) = 0
          \/ w >= 2 /\ HiddenSum(b, k) \in w .. w * (k - 1)
    BY <1>2, <2>1 DEF SuppressionHolds
  <2>4. w * (k - 1) \in Nat
    BY <1>1, <1>4
  <2>5. QED
    BY <1>4, <2>2, <2>3, <2>4
<1>8. /\ \A key \in shown : doc.cells[key] <= acc.cases
      /\ \A key \in shown : doc.cells[key] \in PublicK .. acc.cases
      /\ acc.published = Cardinality(shown) /\ acc.positive = acc.published + acc.suppressed
      /\ acc.shown = SumOver(doc.cells, shown) /\ acc.total = acc.shown + acc.hidden
      /\ acc.total \in acc.cases .. (acc.cases * Cardinality(ModeSet))
  <2>1. \A key \in shown : doc.cells[key] \in PublicK .. acc.cases
    BY <1>2, <1>3 DEF k
  <2>2. \A key \in shown : doc.cells[key] <= acc.cases
    BY <1>2, <1>4, <2>1
  <2>3. acc.published = Cardinality(shown) /\ acc.positive = acc.published + acc.suppressed
    BY <1>2, <1>3, <1>4
  <2>4. acc.shown = SumOver(doc.cells, shown) /\ acc.total = acc.shown + acc.hidden
    BY <1>2, <1>3
  <2>5. acc.total \in acc.cases .. (acc.cases * Cardinality(ModeSet))
    BY <1>2, <1>4 DEF q
  <2>6. QED
    BY <2>1, <2>2, <2>3, <2>4, <2>5
<1>9. PublicValid(doc) <=> SuppressionHolds(acc)
  BY <1>8, Zenon DEF PublicValid, acc, shown
<1>10. /\ acc.published + Cardinality(DOMAIN doc.cells \ shown) = Cardinality(DOMAIN doc.cells)
       /\ acc.suppressed <= Cardinality(DOMAIN doc.cells \ shown)
       /\ DOMAIN doc.cells = States \X ModeSet
  <2>1. Cardinality(DOMAIN doc.cells \ shown) = Cardinality(P \ E) /\ DOMAIN doc.cells = P
    BY <1>3, <1>6
  <2>2. QED
    BY <1>2, <1>5, <2>1 DEF P
<1>11. ASSUME w # 1 PROVE PageAccepts(doc) /\ IndexAccepts(doc) /\ AuditAccepts(doc, doc)
  <2>1. SuppressionHolds(acc)
    BY <1>7, <1>11
  <2>2. IndexAccepts(doc)
    BY <1>8, <1>10, <2>1, Zenon DEF IndexAccepts, acc, shown
  <2>3. \/ acc.suppressed = 0 /\ acc.hidden = 0
        \/ acc.suppressed >= 2 /\ acc.hidden >= acc.suppressed /\ acc.hidden < acc.suppressed * PublicK
    <3>1. w = 0 \/ w >= 2
      BY <1>4, <1>11
    <3>2. ASSUME w >= 2 PROVE w * (k - 1) < w * k
      <4>1. w * k = w * (k - 1) + w
        BY <1>1, <1>4
      <4>2. w * (k - 1) \in Nat
        BY <1>1, <1>4
      <4>3. QED
        BY <1>4, <3>2, <4>1, <4>2
    <3>3. w * (k - 1) \in Nat /\ w * k \in Nat
      BY <1>1, <1>4
    <3>4. w >= 2 => HiddenSum(b, k) < w * k
      BY <1>4, <3>2, <3>3
    <3>5. QED
      BY <1>2, <1>4, <3>1, <3>4 DEF k
  <2>4. PageAccountingHolds(doc, DOMAIN doc.cells \ shown)
    BY <1>8, <1>10, <2>3, Zenon DEF PageAccountingHolds, acc
  <2>5. PageAccepts(doc)
    BY <1>8, <1>10, <2>4, Zenon DEF PageAccepts, acc, shown
  <2>6. CellsClearFloor(doc)
    <3>1. \A key \in shown : doc.cells[key] >= PublicK
      BY <1>1, <1>2, <1>4, <1>8 DEF k
    <3>2. QED
      BY <3>1 DEF CellsClearFloor, shown
  <2>7. AccountingRecomputes(doc)
    <3>1. acc.shown + acc.hidden = acc.total
      BY <1>8
    <3>2. QED
      BY <1>8, <3>1, Zenon DEF AccountingRecomputes, acc, shown
  <2>8. QED
    BY <2>2, <2>5, <2>6, <2>7 DEF AuditAccepts
<1>12. QED
  BY <1>7, <1>9, <1>11 DEF doc, k, w, W

-----------------------------------------------------------------------------
(* The county path.                                                        *)

\* Contributions at places of either kind.
LEMMA WhereAdds ==
    ASSUME NEW b, IsBag(b), NEW C, NEW D, C \cap D = {}
    PROVE  Cardinality(Where(b, C \cup D)) = Cardinality(Where(b, C)) + Cardinality(Where(b, D))
<1>1. Where(b, C \cup D) = Where(b, C) \cup Where(b, D) /\ Where(b, C) \cap Where(b, D) = {}
  BY DEF Where
<1>2. IsFiniteSet(Where(b, C)) /\ IsFiniteSet(Where(b, D))
  BY SharesFinite
<1>3. QED
  BY <1>1, <1>2, CardinalitiesAdd

\* The contributions are those at counties and those at sentinels.
LEMMA CountyTotals ==
    ASSUME NEW b, IsBag(b)
    PROVE  /\ SumOver(StateModeCounts(b), States \X ModeSet) =
                Cardinality(Where(b, States \X Reported \X ModeSet))
                  + Cardinality(Where(b, States \X Sentinels \X ModeSet))
           /\ SumOver(CountyCells(b, Reported), States \X Reported \X ModeSet) =
                Cardinality(Where(b, States \X Reported \X ModeSet))
           /\ SumOver(CountyCells(b, Sentinels), States \X Sentinels \X ModeSet) =
                Cardinality(Where(b, States \X Sentinels \X ModeSet))
<1> DEFINE P == States \X ModeSet
           RP == States \X Reported \X ModeSet
           SP == States \X Sentinels \X ModeSet
<1>1. Reported \in SUBSET Codes /\ Sentinels \in SUBSET Codes /\ Reported \cap Sentinels = {}
  BY DocumentAssumption DEF Codes
<1>2. SumOver(StateModeCounts(b), P) = Cardinality(Where(b, Under(P)))
  BY SumsCount
<1>3. SumOver(CountyCells(b, Reported), RP) = Cardinality(Where(b, RP))
  BY <1>1, SumsCount
<1>4. SumOver(CountyCells(b, Sentinels), SP) = Cardinality(Where(b, SP))
  BY <1>1, SumsCount
<1>5. Under(P) = RP \cup SP /\ RP \cap SP = {}
  <2>1. Under(P) = AllPlaces
    BY DEF Under, AllPlaces
  <2>2. AllPlaces = RP \cup SP
    BY DEF AllPlaces, Codes
  <2>3. RP \cap SP = {}
    BY <1>1
  <2>4. QED
    BY <2>1, <2>2, <2>3
<1> HIDE DEF RP, SP, P
<1>6. SumOver(StateModeCounts(b), P) = Cardinality(Where(b, RP)) + Cardinality(Where(b, SP))
  BY <1>2, <1>5, WhereAdds
<1>7. QED
  BY <1>3, <1>4, <1>6 DEF P, RP, SP

LEMMA CountyAtMost ==
    ASSUME NEW b, IsBag(b), NEW codes \in SUBSET Codes
    PROVE  /\ DOMAIN CountyCells(b, codes) = States \X codes \X ModeSet
           /\ \A key \in States \X codes \X ModeSet :
                /\ CountyCells(b, codes)[key] \in 0 .. CaseCount(b)
                /\ CountyCells(b, codes)[key] > 0 <=>
                     \E x \in DOMAIN b : /\ x.state = key[1] /\ x.county = key[2] /\ key[3] \in x.modes
                                         /\ b[x] > 0
<1>1. DOMAIN CountyCells(b, codes) = States \X codes \X ModeSet
  BY DEF CountyCells
<1>2. ASSUME NEW key \in States \X codes \X ModeSet
      PROVE  /\ CountyCells(b, codes)[key] \in 0 .. CaseCount(b)
             /\ CountyCells(b, codes)[key] > 0 <=>
                  \E x \in DOMAIN b : /\ x.state = key[1] /\ x.county = key[2] /\ key[3] \in x.modes
                                      /\ b[x] > 0
  <2> DEFINE T == {x \in DOMAIN b : x.state = key[1] /\ x.county = key[2] /\ key[3] \in x.modes}
  <2>1. CountyCells(b, codes)[key] = Summed(b, T)
    BY DEF CountyCells, Crashes, Summed
  <2>2. Summed(b, T) \in 0 .. CaseCount(b) /\ (Summed(b, T) > 0 <=> \E x \in T : b[x] > 0)
    BY CrashCounts
  <2>3. QED
    BY <2>1, <2>2
<1>3. QED
  BY <1>1, <1>2

CountyDoc(b) ==
  [cases |-> CaseCount(b), county |-> CountyCells(b, Reported),
   sentinel |-> CountyCells(b, Sentinels), totals |-> StateModeCounts(b)]

\* Counties and sentinels together are the states, cell by cell and in all.
LEMMA FeasibilityIs ==
    ASSUME NEW b, IsBag(b), StatesWithRecords(b) = States
    PROVE  Feasibility(b) = CountyDoc(b) /\ CountyDoc(b) # Unpublished
<1> DEFINE f == CountyDoc(b)
           P == States \X ModeSet
           RP == States \X Reported \X ModeSet
           SP == States \X Sentinels \X ModeSet
           n == CaseCount(b)
           ofPair(cells, st, mo) == SumOver(cells, {key \in DOMAIN cells : key[1] = st /\ key[3] = mo})
           total == SumOver(f.totals, DOMAIN f.totals)
<1>1. Reported \in SUBSET Codes /\ Sentinels \in SUBSET Codes /\ Reported \cap Sentinels = {}
  BY DocumentAssumption DEF Codes
<1>2. /\ f.cases = n /\ f.county = CountyCells(b, Reported) /\ f.sentinel = CountyCells(b, Sentinels)
      /\ f.totals = StateModeCounts(b) /\ DOMAIN f.totals = P
  BY CountsAre DEF CountyDoc
<1>3. DOMAIN f.county = RP /\ DOMAIN f.sentinel = SP
  <2> HIDE DEF f
  <2>1. QED
    BY <1>2 DEF CountyCells
<1>4. n \in Nat
  BY SharesFinite
<1>5. \A cells \in {f.county, f.sentinel} : \A key \in DOMAIN cells : cells[key] <= f.cases
  <2>1. \A key \in RP : f.county[key] \in 0 .. n
    BY <1>1, <1>2, CountyAtMost
  <2>2. \A key \in SP : f.sentinel[key] \in 0 .. n
    BY <1>1, <1>2, CountyAtMost
  <2> HIDE DEF f, n
  <2>3. QED
    BY <1>2, <1>3, <1>4, <2>1, <2>2
<1>6. ASSUME NEW s \in States, NEW m \in ModeSet
      PROVE  f.totals[<<s, m>>] = ofPair(f.county, s, m) + ofPair(f.sentinel, s, m)
  <2> DEFINE C == {key \in RP : key[1] = s /\ key[3] = m}
             D == {key \in SP : key[1] = s /\ key[3] = m}
  <2>1. ofPair(f.county, s, m) = Cardinality(Where(b, C))
    <3>1. C \in SUBSET RP
      OBVIOUS
    <3>2. SumOver(CountyCells(b, Reported), C) = Cardinality(Where(b, C))
      BY <1>1, <3>1, SumsCount
    <3>3. QED
      BY <1>2, <1>3, <3>2
  <2>2. ofPair(f.sentinel, s, m) = Cardinality(Where(b, D))
    <3>1. D \in SUBSET SP
      OBVIOUS
    <3>2. SumOver(CountyCells(b, Sentinels), D) = Cardinality(Where(b, D))
      BY <1>1, <3>1, SumsCount
    <3>3. QED
      BY <1>2, <1>3, <3>2
  <2>3. C \cup D = At(s, m) /\ C \cap D = {}
    <3>1. ASSUME NEW t \in At(s, m) PROVE t \in C \cup D
      <4>1. t = <<t[1], t[2], t[3]>> /\ t[1] = s /\ t[2] \in Codes /\ t[3] = m
        BY DEF At
      <4>2. t \in RP \/ t \in SP
        BY <4>1 DEF Codes
      <4>3. QED
        BY <4>1, <4>2
    <3>2. ASSUME NEW t \in C \cup D PROVE t \in At(s, m)
      <4>1. t = <<t[1], t[2], t[3]>> /\ t[1] = s /\ t[2] \in Codes /\ t[3] = m
        BY DEF Codes
      <4>2. QED
        BY <4>1 DEF At
    <3>3. C \cap D = {}
      <4> SUFFICES ASSUME NEW t, t \in C, t \in D PROVE FALSE
        OBVIOUS
      <4>1. t[2] \in Reported /\ t[2] \in Sentinels
        OBVIOUS
      <4>2. QED
        BY <1>1, <4>1
    <3>4. QED
      BY <3>1, <3>2, <3>3
  <2>4. f.totals[<<s, m>>] = Cardinality(Where(b, At(s, m)))
    <3>1. <<s, m>> \in P /\ <<s, m>>[1] = s /\ <<s, m>>[2] = m
      OBVIOUS
    <3>2. QED
      BY <1>2, <3>1, CellsCount
  <2> HIDE DEF C, D, ofPair, f
  <2>5. QED
    BY <2>1, <2>2, <2>3, <2>4, WhereAdds
<1>7. total = SumOver(f.county, DOMAIN f.county) + SumOver(f.sentinel, DOMAIN f.sentinel)
  <2>1. /\ SumOver(StateModeCounts(b), P) = Cardinality(Where(b, RP)) + Cardinality(Where(b, SP))
        /\ SumOver(CountyCells(b, Reported), RP) = Cardinality(Where(b, RP))
        /\ SumOver(CountyCells(b, Sentinels), SP) = Cardinality(Where(b, SP))
    BY CountyTotals
  <2> HIDE DEF f, P, RP, SP
  <2>2. QED
    BY <1>2, <1>3, <2>1
<1>8. total \in f.cases .. (f.cases * Cardinality(ModeSet))
  <2>1. total = Summed(StateModeCounts(b), P)
    BY <1>2 DEF SumOver, Summed
  <2>2. Summed(StateModeCounts(b), P) \in n .. (n * Cardinality(ModeSet))
    BY CountsAre
  <2>3. QED
    BY <1>2, <2>1, <2>2
<1>9. FeasibilityValid(f)
  <2> HIDE DEF f
  <2>1. QED
    BY <1>5, <1>6, <1>7, <1>8, Zenon DEF FeasibilityValid
<1>10. f # Unpublished
  <2>1. DOMAIN f = {"cases", "county", "sentinel", "totals"} /\ DOMAIN Unpublished = {"unpublished"}
    BY DEF CountyDoc, Unpublished
  <2>2. QED
    BY <2>1
<1>11. Feasibility(b) = f
  BY <1>9 DEF Feasibility, CountyDoc
<1>12. QED
  BY <1>10, <1>11

\* The county shard lists a county through every code the review maps to it.
Reach(rows, s, g) == {r.code : r \in {q \in rows : q.state = s /\ q.geoid = g}}
Through(rows, s, g, m) == {s} \X Reach(rows, s, g) \X {m}

ReviewOf(b, rows) == IsBag(b) /\ \A r \in rows : r.state \in States /\ r.code \in Reported

LEMMA ReachIs ==
    ASSUME NEW b, NEW rows, ReviewOf(b, rows), NEW s \in States, NEW g, NEW m \in ModeSet
    PROVE  /\ Reach(rows, s, g) \subseteq Reported
           /\ Through(rows, s, g, m) \subseteq States \X Reported \X ModeSet
           /\ \A c : c \in Reach(rows, s, g) <=> \E r \in rows : r.state = s /\ r.code = c /\ r.geoid = g
<1>1. Reach(rows, s, g) \subseteq Reported
  BY DEF Reach, ReviewOf
<1>2. Through(rows, s, g, m) \subseteq States \X Reported \X ModeSet
  BY <1>1 DEF Through
<1>3. \A c : c \in Reach(rows, s, g) <=> \E r \in rows : r.state = s /\ r.code = c /\ r.geoid = g
  BY DEF Reach
<1>4. QED
  BY <1>1, <1>2, <1>3

\* The crashes the reader would count are those contributions.
LEMMA TrueCountIs ==
    ASSUME NEW b, NEW rows, ReviewOf(b, rows), NEW s \in States, NEW g, NEW m \in ModeSet
    PROVE  TrueCount(b, rows, s, g, m) = Cardinality(Where(b, Through(rows, s, g, m)))
<1> DEFINE T == {x \in DOMAIN b : /\ x.state = s /\ m \in x.modes
                                  /\ \E r \in rows : r.state = s /\ r.code = x.county /\ r.geoid = g}
           C == Through(rows, s, g, m)
<1>1. TrueCount(b, rows, s, g, m) = Summed(b, T)
  BY DEF TrueCount, Crashes, Summed
<1>2. IsBag(b)
  BY DEF ReviewOf
<1>3. \A t \in C : t[3] = m
  BY DEF Through
<1>4. T = {x \in DOMAIN b : m \in x.modes /\ <<x.state, x.county, m>> \in C}
  <2>1. \A x \in DOMAIN b : <<x.state, x.county, m>> \in C <=> x.state = s /\ x.county \in Reach(rows, s, g)
    BY DEF Through
  <2>2. \A x \in DOMAIN b : x.county \in Reach(rows, s, g) <=>
                              \E r \in rows : r.state = s /\ r.code = x.county /\ r.geoid = g
    BY ReachIs
  <2>3. QED
    BY <2>1, <2>2
<1> HIDE DEF T, C
<1>5. Summed(b, T) = Cardinality(Where(b, C))
  BY <1>2, <1>3, <1>4, CrashesAre
<1>6. QED
  BY <1>1, <1>5 DEF C

\* The state-code pairs of a review and of the crashes of a snapshot.
RowPairs(rows)     == {<<r.state, r.code>> : r \in rows}
UsedPairs(county)  == {<<key[1], key[2]>> : key \in Positive(county)}

LEMMA UsedAre ==
    ASSUME NEW b, NEW rows, ReviewOf(b, rows)
    PROVE  UsedPairs(CountyCells(b, Reported)) \subseteq RowPairs(rows) <=>
             \A x \in DOMAIN b : b[x] > 0 /\ x.county \in Reported =>
               \E r \in rows : r.state = x.state /\ r.code = x.county
<1> DEFINE county == CountyCells(b, Reported)
           RP == States \X Reported \X ModeSet
<1>1. IsBag(b) /\ Reported \in SUBSET Codes
  BY DEF ReviewOf, Codes
<1>2. DOMAIN county = RP
  BY DEF CountyCells
<1>3. \A key \in RP : county[key] > 0 <=>
        \E x \in DOMAIN b : x.state = key[1] /\ x.county = key[2] /\ key[3] \in x.modes /\ b[x] > 0
  <2>1. \A key \in RP :
          /\ county[key] \in 0 .. CaseCount(b)
          /\ county[key] > 0 <=>
               \E x \in DOMAIN b : /\ x.state = key[1] /\ x.county = key[2] /\ key[3] \in x.modes
                                   /\ b[x] > 0
    BY <1>1, CountyAtMost, Zenon
  <2>2. QED
    BY <2>1
<1> HIDE DEF county
<1>4. ASSUME NEW x \in DOMAIN b, b[x] > 0, x.county \in Reported
      PROVE  <<x.state, x.county>> \in UsedPairs(county)
  <2>1. x.state \in States /\ x.modes \subseteq ModeSet /\ x.modes # {}
    BY <1>1, KindIs
  <2>2. PICK m \in ModeSet : m \in x.modes
    BY <2>1
  <2> DEFINE key == <<x.state, x.county, m>>
  <2>3. key \in RP /\ key[1] = x.state /\ key[2] = x.county /\ key[3] = m
    BY <1>4, <2>1
  <2> HIDE DEF key
  <2>4. county[key] > 0
    BY <1>3, <1>4, <2>2, <2>3
  <2>5. key \in Positive(county)
    BY <1>2, <2>3, <2>4 DEF Positive
  <2>6. QED
    BY <2>3, <2>5 DEF UsedPairs
<1>5. ASSUME NEW u \in UsedPairs(county)
      PROVE  \E x \in DOMAIN b : b[x] > 0 /\ x.county \in Reported /\ u = <<x.state, x.county>>
  <2>1. PICK key \in Positive(county) : u = <<key[1], key[2]>>
    BY DEF UsedPairs
  <2>2. key \in RP /\ county[key] > 0
    BY <1>2 DEF Positive
  <2>3. PICK x \in DOMAIN b : x.state = key[1] /\ x.county = key[2] /\ key[3] \in x.modes /\ b[x] > 0
    BY <1>3, <2>2
  <2>4. key[2] \in Reported
    BY <2>2
  <2>5. QED
    BY <2>1, <2>3, <2>4
<1>6. ASSUME UsedPairs(county) \subseteq RowPairs(rows),
             NEW x \in DOMAIN b, b[x] > 0, x.county \in Reported
      PROVE  \E r \in rows : r.state = x.state /\ r.code = x.county
  <2>1. <<x.state, x.county>> \in RowPairs(rows)
    BY <1>4, <1>6
  <2>2. QED
    BY <2>1 DEF RowPairs
<1>7. ASSUME \A x \in DOMAIN b : b[x] > 0 /\ x.county \in Reported =>
               \E r \in rows : r.state = x.state /\ r.code = x.county,
             NEW u \in UsedPairs(county)
      PROVE  u \in RowPairs(rows)
  <2>1. PICK x \in DOMAIN b : b[x] > 0 /\ x.county \in Reported /\ u = <<x.state, x.county>>
    BY <1>5, <1>7
  <2>2. PICK r \in rows : r.state = x.state /\ r.code = x.county
    BY <1>7, <2>1
  <2>3. QED
    BY <2>1, <2>2 DEF RowPairs
<1>8. QED
  BY <1>6, <1>7 DEF county

\* The counties of the states, and what the projection publishes of them.
CountyPlaces == {p \in States \X UNION {Counties[s] : s \in States} : p[2] \in Counties[p[1]]}

ProjectionDoc(b, rows) ==
  [cells |-> [key \in CountyPlaces \X ModeSet |->
                SumOver(CountyCells(b, Reported), Through(rows, key[1][1], key[1][2], key[2]))],
   sentinel |-> SumOver(CountyCells(b, Sentinels), DOMAIN CountyCells(b, Sentinels))]

LEMMA ProjectionIs ==
    ASSUME NEW b, NEW rows, CountyDoc(b) # Unpublished
    PROVE  /\ ProjectionDoc(b, rows) # Unpublished
           /\ Projection(CountyDoc(b), rows) =
                IF CrosswalkResolved(rows) /\ UsedPairs(CountyCells(b, Reported)) \subseteq RowPairs(rows)
                THEN ProjectionDoc(b, rows) ELSE Unpublished
<1> DEFINE f == CountyDoc(b)
           To(s, g) == {r.code : r \in {q \in rows : q.state = s /\ q.geoid = g}}
           cells == [key \in CountyPlaces \X ModeSet |->
                       SumOver(f.county, {key[1][1]} \X To(key[1][1], key[1][2]) \X {key[2]})]
           doc == [cells |-> cells, sentinel |-> SumOver(f.sentinel, DOMAIN f.sentinel)]
           used == {<<key[1], key[2]>> : key \in Positive(f.county)}
<1>1. f.county = CountyCells(b, Reported) /\ f.sentinel = CountyCells(b, Sentinels)
  BY DEF CountyDoc
<1>2. Projection(f, rows) =
        IF \/ f = Unpublished \/ ~CrosswalkResolved(rows)
           \/ ~(used \subseteq {<<r.state, r.code>> : r \in rows})
        THEN Unpublished ELSE doc
  BY Zenon DEF Projection, CountyPlaces
<1> HIDE DEF f
<1>3. used = UsedPairs(CountyCells(b, Reported)) /\ {<<r.state, r.code>> : r \in rows} = RowPairs(rows)
  BY <1>1 DEF UsedPairs, RowPairs
<1>4. \A s, g, m : {s} \X To(s, g) \X {m} = Through(rows, s, g, m)
  BY DEF Through, Reach
<1> HIDE DEF To
<1>5. cells = [key \in CountyPlaces \X ModeSet |->
                 SumOver(CountyCells(b, Reported), Through(rows, key[1][1], key[1][2], key[2]))]
  BY <1>1, <1>4
<1>6. doc = ProjectionDoc(b, rows)
  BY <1>1, <1>5 DEF ProjectionDoc
<1>7. ProjectionDoc(b, rows) # Unpublished
  <2>1. DOMAIN ProjectionDoc(b, rows) = {"cells", "sentinel"} /\ DOMAIN Unpublished = {"unpublished"}
    BY DEF ProjectionDoc, Unpublished
  <2>2. QED
    BY <2>1
<1> HIDE DEF doc, used
<1>8. f # Unpublished
  BY DEF f
<1>9. QED
  BY <1>2, <1>3, <1>6, <1>7, <1>8 DEF f

LEMMA CountyPlacesFinite == IsFiniteSet(CountyPlaces) /\ IsFiniteSet(CountyPlaces \X ModeSet)
<1> DEFINE CS == {Counties[s] : s \in States}
<1>1. IsFiniteSet(States) /\ IsFiniteSet(ModeSet) /\ \A s \in States : IsFiniteSet(Counties[s])
  BY DocumentAssumption
<1>2. IsFiniteSet(CS)
  BY <1>1, ImageFinite
<1>3. IsFiniteSet(UNION CS)
  BY <1>1, <1>2, FS_UNION
<1>4. IsFiniteSet(States \X UNION CS)
  BY <1>1, <1>3, FS_Product
<1>5. IsFiniteSet(CountyPlaces)
  <2>1. CountyPlaces \subseteq States \X UNION CS
    BY DEF CountyPlaces
  <2>2. QED
    BY <1>4, <2>1, FS_Subset
<1>6. QED
  BY <1>1, <1>5, FS_Product

\* The counties of a resolved review count each contribution at a county once.
Resolves(b, rows) ==
  /\ CrosswalkResolved(rows)
  /\ \A x \in DOMAIN b : b[x] > 0 /\ x.county \in Reported =>
       \E r \in rows : r.state = x.state /\ r.code = x.county

\* The review has one row of a state and code, and it names a county of the state.
LEMMA RowsAre ==
    ASSUME NEW b, NEW rows, ReviewOf(b, rows), Resolves(b, rows),
           NEW w \in Where(b, States \X Reported \X ModeSet)
    PROVE  \E r \in rows : /\ r.state = Place(w)[1] /\ r.code = Place(w)[2]
                           /\ \A q \in rows : q.state = Place(w)[1] /\ q.code = Place(w)[2] => q = r
                           /\ <<Place(w)[1], r.geoid>> \in CountyPlaces /\ Place(w)[3] \in ModeSet
<1> DEFINE x == w[1][1]
<1>1. w \in Shares(b) /\ Place(w) \in States \X Reported \X ModeSet
  BY DEF Where
<1>2. IsBag(b)
  BY DEF ReviewOf
<1>3. w[1] \in Units(b) /\ x \in DOMAIN b /\ Place(w)[1] = x.state /\ Place(w)[2] = x.county
  BY <1>1, <1>2, PlaceIs
<1>4. b[x] > 0
  <2>1. b[x] \in Nat
    BY <1>2, <1>3 DEF IsBag
  <2>2. w[1][2] \in 1 .. b[x]
    BY <1>3 DEF Units
  <2>3. QED
    BY <2>1, <2>2
<1>5. Place(w)[1] \in States /\ Place(w)[2] \in Reported /\ Place(w)[3] \in ModeSet
  BY <1>1
<1> HIDE DEF x
<1>6. PICK r \in rows : r.state = x.state /\ r.code = x.county
  BY <1>3, <1>4, <1>5 DEF Resolves
<1>7. \A q \in rows : q.state = x.state /\ q.code = x.county => q = r
  BY <1>6 DEF Resolves, CrosswalkResolved, CrosswalkValid
<1>8. r.geoid \in Counties[r.state] /\ r.state \in States
  BY <1>6, <1>3, <1>5 DEF Resolves, CrosswalkResolved
<1>9. <<x.state, r.geoid>> \in CountyPlaces
  <2>1. r.geoid \in Counties[x.state] /\ x.state \in States
    BY <1>6, <1>8
  <2>2. r.geoid \in UNION {Counties[s] : s \in States}
    BY <2>1
  <2>3. QED
    BY <2>1, <2>2 DEF CountyPlaces
<1>10. QED
  BY <1>3, <1>5, <1>6, <1>7, <1>9

LEMMA CountiesAddUp ==
    ASSUME NEW b, NEW rows, ReviewOf(b, rows), Resolves(b, rows)
    PROVE  LET doc == ProjectionDoc(b, rows) IN
           SumOver(doc.cells, DOMAIN doc.cells) + doc.sentinel
             = SumOver(StateModeCounts(b), DOMAIN StateModeCounts(b))
<1> DEFINE cells == ProjectionDoc(b, rows).cells
           K == CountyPlaces \X ModeSet
           RP == States \X Reported \X ModeSet
           SP == States \X Sentinels \X ModeSet
           at == [t \in RP |->
                    << <<t[1], (CHOOSE r \in rows : r.state = t[1] /\ r.code = t[2]).geoid>>, t[3] >>]
<1>1. IsBag(b) /\ Reported \in SUBSET Codes
  BY DEF ReviewOf, Codes
<1>2. /\ DOMAIN cells = K
      /\ \A key \in K : cells[key] = SumOver(CountyCells(b, Reported),
                                             Through(rows, key[1][1], key[1][2], key[2]))
  BY DEF ProjectionDoc
<1>3. ASSUME NEW key \in K
      PROVE  /\ key[1][1] \in States /\ key[2] \in ModeSet /\ key = << <<key[1][1], key[1][2]>>, key[2] >>
             /\ cells[key] = Cardinality(Where(b, Through(rows, key[1][1], key[1][2], key[2])))
  <2>1. key[1] \in CountyPlaces /\ key[2] \in ModeSet /\ key = <<key[1], key[2]>>
    OBVIOUS
  <2>2. key[1][1] \in States /\ key[1] = <<key[1][1], key[1][2]>>
    BY <2>1 DEF CountyPlaces
  <2>3. Through(rows, key[1][1], key[1][2], key[2]) \in SUBSET RP
    BY <2>1, <2>2, ReachIs
  <2> HIDE DEF cells
  <2>4. cells[key] = Cardinality(Where(b, Through(rows, key[1][1], key[1][2], key[2])))
    BY <1>1, <1>2, <2>3, SumsCount
  <2>5. QED
    BY <2>1, <2>2, <2>4
<1>4. ASSUME NEW w \in Where(b, RP)
      PROVE  \E r \in rows : /\ r.state = Place(w)[1] /\ r.code = Place(w)[2]
                             /\ \A q \in rows : q.state = Place(w)[1] /\ q.code = Place(w)[2] => q = r
                             /\ at[Place(w)] = << <<Place(w)[1], r.geoid>>, Place(w)[3] >>
                             /\ at[Place(w)] \in K
  <2>1. PICK r \in rows : /\ r.state = Place(w)[1] /\ r.code = Place(w)[2]
                          /\ \A q \in rows : q.state = Place(w)[1] /\ q.code = Place(w)[2] => q = r
                          /\ <<Place(w)[1], r.geoid>> \in CountyPlaces /\ Place(w)[3] \in ModeSet
    BY RowsAre
  <2>2. (CHOOSE q \in rows : q.state = Place(w)[1] /\ q.code = Place(w)[2]) = r
    BY <2>1
  <2>3. Place(w) \in RP
    BY DEF Where
  <2>4. at[Place(w)] = << <<Place(w)[1], r.geoid>>, Place(w)[3] >>
    BY <2>2, <2>3
  <2> HIDE DEF at
  <2>5. QED
    BY <2>1, <2>4
<1>5. \A w \in Where(b, RP) : at[Place(w)] \in K
  BY <1>4
<1> HIDE DEF at
<1>6. ASSUME NEW key \in K PROVE cells[key] = Cardinality(Where(b, Keyed(RP, at, key)))
  <2> DEFINE s == key[1][1]
             g == key[1][2]
             m == key[2]
  <2>1. s \in States /\ m \in ModeSet /\ key = << <<s, g>>, m >>
    BY <1>3
  <2>2. Through(rows, s, g, m) \subseteq RP
    BY <2>1, ReachIs
  <2>3. \A c : c \in Reach(rows, s, g) <=> \E r \in rows : r.state = s /\ r.code = c /\ r.geoid = g
    BY <2>1, ReachIs
  <2> HIDE DEF s, g, m
  <2>4. ASSUME NEW w \in Where(b, RP)
        PROVE  Place(w) \in Through(rows, s, g, m) <=> at[Place(w)] = key
    <3>1. PICK r \in rows : /\ r.state = Place(w)[1] /\ r.code = Place(w)[2]
                            /\ \A q \in rows : q.state = Place(w)[1] /\ q.code = Place(w)[2] => q = r
                            /\ at[Place(w)] = << <<Place(w)[1], r.geoid>>, Place(w)[3] >>
      BY <1>4
    <3>2. Place(w) = <<Place(w)[1], Place(w)[2], Place(w)[3]>>
      BY DEF Place
    <3>3. Place(w) \in Through(rows, s, g, m) <=>
            Place(w)[1] = s /\ Place(w)[2] \in Reach(rows, s, g) /\ Place(w)[3] = m
      BY <3>2 DEF Through
    <3>4. at[Place(w)] = key <=> Place(w)[1] = s /\ r.geoid = g /\ Place(w)[3] = m
      BY <2>1, <3>1
    <3>5. Place(w)[1] = s => (Place(w)[2] \in Reach(rows, s, g) <=> r.geoid = g)
      BY <2>3, <3>1
    <3>6. QED
      BY <3>3, <3>4, <3>5
  <2>5. Where(b, Through(rows, s, g, m)) = Where(b, Keyed(RP, at, key))
    BY <2>2, <2>4 DEF Where, Keyed
  <2>6. QED
    BY <1>3, <2>5 DEF s, g, m
<1>7. IsFiniteSet(K)
  BY CountyPlacesFinite
<1> HIDE DEF cells, K, RP
<1>8. Summed(cells, K) = Cardinality(Where(b, RP))
  BY <1>1, <1>5, <1>6, <1>7, SharesAddUp
<1>9. SumOver(cells, DOMAIN cells) = Cardinality(Where(b, RP))
  BY <1>2, <1>8 DEF SumOver, Summed
<1>10. ProjectionDoc(b, rows).sentinel = SumOver(CountyCells(b, Sentinels), SP)
  <2>1. DOMAIN CountyCells(b, Sentinels) = SP
    BY DEF CountyCells
  <2>2. QED
    BY <2>1 DEF ProjectionDoc
<1>11. DOMAIN StateModeCounts(b) = States \X ModeSet
  BY DEF StateModeCounts
<1>12. /\ SumOver(StateModeCounts(b), States \X ModeSet)
            = Cardinality(Where(b, RP)) + Cardinality(Where(b, SP))
       /\ SumOver(CountyCells(b, Sentinels), SP) = Cardinality(Where(b, SP))
  BY <1>1, CountyTotals DEF RP
<1> HIDE DEF SP
<1>13. SumOver(cells, DOMAIN cells) + ProjectionDoc(b, rows).sentinel
         = SumOver(StateModeCounts(b), DOMAIN StateModeCounts(b))
  BY <1>9, <1>10, <1>11, <1>12
<1>14. QED
  BY <1>13 DEF cells

\* A published shard shows each count that reaches its floor, and passes its validator.
LEMMA ShardIs ==
    ASSUME NEW b, NEW rows, ReviewOf(b, rows), NEW s \in States, NEW k \in Nat,
           ProjectionDoc(b, rows) # Unpublished, CountyShard(ProjectionDoc(b, rows), s, k) # Unpublished
    PROVE  LET doc == CountyShard(ProjectionDoc(b, rows), s, k) IN
           /\ CountyShardValid(doc, s)
           /\ \A g \in Counties[s], m \in ModeSet :
                doc.cells[<<g, m>>] = IF TrueCount(b, rows, s, g, m) >= k THEN TrueCount(b, rows, s, g, m)
                                      ELSE SuppressedOrZero
<1> DEFINE p == ProjectionDoc(b, rows)
           P == Counties[s] \X ModeSet
           cells == [key \in P |-> p.cells[<< <<s, key[1]>>, key[2] >>]]
           shown == AtLeast(cells, k)
           drawn == [key \in DOMAIN cells |-> IF key \in shown THEN cells[key] ELSE SuppressedOrZero]
           shard == [k |-> k, counties |-> Cardinality(Counties[s]), published |-> Cardinality(shown),
                     withheld |-> Cardinality(DOMAIN cells) - Cardinality(shown), cells |-> drawn]
           doc == CountyShard(p, s, k)
<1>1. k >= PublicK /\ doc = shard
  <2>1. doc = IF p = Unpublished \/ k < PublicK THEN Unpublished ELSE shard
    BY Zenon DEF CountyShard
  <2> HIDE DEF shard, doc, p
  <2>2. p # Unpublished /\ doc # Unpublished
    BY DEF doc, p
  <2>3. ~(k < PublicK) /\ doc = shard
    BY <2>1, <2>2
  <2>4. QED
    BY <2>3, DocumentAssumption
<1>2. k \in Nat \ {0}
  BY <1>1, DocumentAssumption
<1>3. ASSUME NEW g \in Counties[s], NEW m \in ModeSet
      PROVE  /\ cells[<<g, m>>] = TrueCount(b, rows, s, g, m)
             /\ cells[<<g, m>>] \in Nat
  <2> DEFINE key == << <<s, g>>, m >>
  <2>1. <<s, g>> \in CountyPlaces
    <3>1. g \in UNION {Counties[st] : st \in States}
      OBVIOUS
    <3>2. QED
      BY <3>1 DEF CountyPlaces
  <2>2. key \in CountyPlaces \X ModeSet /\ key[1][1] = s /\ key[1][2] = g /\ key[2] = m
    BY <2>1
  <2>3. p.cells[key] = SumOver(CountyCells(b, Reported), Through(rows, s, g, m))
    <3> HIDE DEF key
    <3>1. p.cells[key] = SumOver(CountyCells(b, Reported), Through(rows, key[1][1], key[1][2], key[2]))
      BY <2>2 DEF ProjectionDoc
    <3>2. QED
      BY <2>2, <3>1
  <2>4. IsBag(b) /\ Reported \in SUBSET Codes
    BY DEF ReviewOf, Codes
  <2>5. Through(rows, s, g, m) \in SUBSET (States \X Reported \X ModeSet)
    BY ReachIs
  <2>6. SumOver(CountyCells(b, Reported), Through(rows, s, g, m)) = Cardinality(Where(b, Through(rows, s, g, m)))
    BY <2>4, <2>5, SumsCount
  <2>7. Cardinality(Where(b, Through(rows, s, g, m))) \in Nat
    BY <2>4, SharesFinite
  <2>8. TrueCount(b, rows, s, g, m) = Cardinality(Where(b, Through(rows, s, g, m)))
    BY TrueCountIs
  <2>9. cells[<<g, m>>] = p.cells[key]
    <3>1. <<g, m>> \in P /\ <<g, m>>[1] = g /\ <<g, m>>[2] = m
      OBVIOUS
    <3> HIDE DEF p
    <3>2. QED
      BY <3>1
  <2> HIDE DEF cells, p, key
  <2>10. QED
    BY <2>3, <2>6, <2>7, <2>8, <2>9
<1>4. DOMAIN cells = P
  OBVIOUS
<1>5. \A key \in P : cells[key] \in Nat
  <2> SUFFICES ASSUME NEW key \in P PROVE cells[key] \in Nat
    OBVIOUS
  <2>1. key[1] \in Counties[s] /\ key[2] \in ModeSet /\ key = <<key[1], key[2]>>
    OBVIOUS
  <2> HIDE DEF cells
  <2>2. cells[<<key[1], key[2]>>] \in Nat
    BY <1>3, <2>1
  <2>3. QED
    BY <2>1, <2>2
<1>6. DOMAIN drawn = P /\ \A key \in P : drawn[key] = IF key \in shown THEN cells[key] ELSE SuppressedOrZero
  BY <1>4
<1> HIDE DEF cells
<1>7. shown = {key \in P : cells[key] >= k}
  BY <1>4 DEF AtLeast
<1> HIDE DEF shown, drawn
<1>8. shown = {key \in DOMAIN drawn : drawn[key] # SuppressedOrZero}
  BY <1>2, <1>5, <1>6, <1>7 DEF SuppressedOrZero
<1>9. /\ doc.k = k /\ doc.counties = Cardinality(Counties[s]) /\ doc.published = Cardinality(shown)
      /\ doc.withheld = Cardinality(P) - Cardinality(shown) /\ doc.cells = drawn
  <2> HIDE DEF doc, P
  <2>1. QED
    BY <1>1, <1>4
<1>10. Cardinality(P) - Cardinality(shown) = Cardinality(P \ shown)
  <2>1. IsFiniteSet(P)
    BY DocumentAssumption, FS_Product
  <2>2. shown \subseteq P
    BY <1>7
  <2> HIDE DEF P
  <2>3. IsFiniteSet(shown) /\ IsFiniteSet(P \ shown)
    BY <2>1, <2>2, FS_Subset
  <2>4. shown \cup (P \ shown) = P /\ shown \cap (P \ shown) = {}
    BY <2>2
  <2>5. Cardinality(P) = Cardinality(shown) + Cardinality(P \ shown)
    BY <2>3, <2>4, CardinalitiesAdd
  <2>6. Cardinality(shown) \in Nat /\ Cardinality(P \ shown) \in Nat
    BY <2>3, FS_CardinalityType
  <2>7. QED
    BY <2>5, <2>6
<1> HIDE DEF doc
<1>11. CountyShardValid(doc, s)
  <2>1. {key \in DOMAIN doc.cells : doc.cells[key] # SuppressedOrZero} = shown
    BY <1>8, <1>9
  <2>2. \A key \in shown : doc.cells[key] >= doc.k
    BY <1>6, <1>7, <1>9
  <2>3. DOMAIN doc.cells = P
    BY <1>6, <1>9
  <2>4. doc.withheld = Cardinality(DOMAIN doc.cells \ shown)
    BY <1>9, <1>10, <2>3
  <2> HIDE DEF P
  <2>5. QED
    BY <1>9, <2>1, <2>2, <2>3, <2>4 DEF CountyShardValid, P
<1>12. ASSUME NEW g \in Counties[s], NEW m \in ModeSet
       PROVE  doc.cells[<<g, m>>] = IF TrueCount(b, rows, s, g, m) >= k THEN TrueCount(b, rows, s, g, m)
                                    ELSE SuppressedOrZero
  <2>1. <<g, m>> \in P
    OBVIOUS
  <2> HIDE DEF P
  <2>2. <<g, m>> \in shown <=> cells[<<g, m>>] >= k
    BY <1>7, <2>1
  <2>3. QED
    BY <1>3, <1>6, <1>9, <2>1, <2>2
<1>13. QED
  BY <1>11, <1>12 DEF doc, p

-----------------------------------------------------------------------------
(* All documents of a snapshot.                                            *)

Requested(requested) == Max({MinimumK, requested})

LEMMA NationalIs ==
    ASSUME NEW b, IsBag(b), StatesWithRecords(b) = States, NEW requested \in Nat
    PROVE  /\ Requested(requested) \in Nat \ {0}
           /\ NationalContext(b, requested) = NationalDoc(b, Requested(requested))
<1> DEFINE k == Max({MinimumK, requested})
           counts == StateModeCounts(b)
           doc == [k |-> k, accounting |-> NationalAccounting(b, k),
                   cells |-> [key \in AtLeast(counts, k) |-> counts[key]]]
<1>1. MinimumK \in Nat \ {0}
  BY DocumentAssumption
<1>2. k \in Nat \ {0} /\ k >= MinimumK
  <2>1. Max({MinimumK, requested}) \in Nat /\ Max({MinimumK, requested}) >= MinimumK
    BY <1>1, GreaterOf
  <2>2. QED
    BY <1>1, <2>1
<1>3. doc = NationalDoc(b, k)
  BY DEF NationalDoc, ShownCells
<1>4. NationalContext(b, requested) = IF StatesWithRecords(b) = States /\ NationalValid(doc) THEN doc ELSE Unpublished
  BY Zenon DEF NationalContext
<1> HIDE DEF doc, k
<1>5. NationalValid(doc)
  BY <1>2, <1>3, NationalAccepted
<1>6. QED
  BY <1>2, <1>3, <1>4, <1>5 DEF Requested, k

\* The public document is refused for the floor or for exactly one withheld cell, and what it shows is
\* what was counted.
LEMMA PublicIs ==
    ASSUME NEW b, IsBag(b), NEW k \in Nat \ {0}, NEW doc, doc = PublicContext(NationalDoc(b, k))
    PROVE  /\ doc # Unpublished <=> k = PublicK /\ Cardinality(HiddenCells(b, k)) # 1
           /\ doc # Unpublished =>
                /\ \A key \in DOMAIN StateModeCounts(b) :
                     IF StateModeCounts(b)[key] >= PublicK THEN doc.cells[key] = StateModeCounts(b)[key]
                     ELSE doc.cells[key] = SuppressedOrZero
                /\ PageAccepts(doc) /\ IndexAccepts(doc) /\ AuditAccepts(doc, doc)
<1> DEFINE counts == StateModeCounts(b)
<1>1. /\ StateDoc(b, k) # Unpublished
      /\ doc = IF k = PublicK /\ PublicValid(StateDoc(b, k)) THEN StateDoc(b, k) ELSE Unpublished
  BY StateDocIs
<1>2. doc # Unpublished <=> k = PublicK /\ Cardinality(HiddenCells(b, k)) # 1
  BY <1>1, StateAccepted
<1>3. ASSUME doc # Unpublished
      PROVE  /\ \A key \in DOMAIN counts :
                  IF counts[key] >= PublicK THEN doc.cells[key] = counts[key]
                  ELSE doc.cells[key] = SuppressedOrZero
             /\ PageAccepts(doc) /\ IndexAccepts(doc) /\ AuditAccepts(doc, doc)
  <2>1. k = PublicK /\ doc = StateDoc(b, k)
    BY <1>1, <1>3
  <2>2. PageAccepts(doc) /\ IndexAccepts(doc) /\ AuditAccepts(doc, doc)
    BY <1>2, <1>3, <2>1, StateAccepted
  <2>3. DOMAIN counts = States \X ModeSet
    BY DEF StateModeCounts
  <2>4. /\ \A key \in ShownCells(b, k) : StateDoc(b, k).cells[key] = counts[key]
        /\ \A key \in (States \X ModeSet) \ ShownCells(b, k) : StateDoc(b, k).cells[key] = SuppressedOrZero
    BY StateCells
  <2> HIDE DEF counts
  <2>5. ShownCells(b, k) = {key \in DOMAIN counts : counts[key] >= PublicK}
    BY <2>1 DEF ShownCells, AtLeast, counts
  <2>6. \A key \in DOMAIN counts :
          IF counts[key] >= PublicK THEN doc.cells[key] = counts[key] ELSE doc.cells[key] = SuppressedOrZero
    <3> SUFFICES ASSUME NEW key \in DOMAIN counts
                 PROVE  IF counts[key] >= PublicK THEN doc.cells[key] = counts[key]
                        ELSE doc.cells[key] = SuppressedOrZero
      OBVIOUS
    <3>1. CASE counts[key] >= PublicK
      BY <2>1, <2>4, <2>5, <3>1
    <3>2. CASE ~(counts[key] >= PublicK)
      BY <2>1, <2>3, <2>4, <2>5, <3>2
    <3>3. QED
      BY <3>1, <3>2
  <2>7. QED
    BY <2>2, <2>6
<1> HIDE DEF counts
<1>4. QED
  BY <1>2, <1>3 DEF counts

\* The county path counts what the state path does, and its shards what the snapshot does.
LEMMA ProjectionHolds ==
    ASSUME NEW b, NEW rows, ReviewOf(b, rows), StatesWithRecords(b) = States,
           NEW countyK \in Nat, NEW projection, projection = Projection(Feasibility(b), rows)
    PROVE  /\ projection # Unpublished <=> Resolves(b, rows)
           /\ projection # Unpublished =>
                /\ SumOver(projection.cells, DOMAIN projection.cells) + projection.sentinel
                     = SumOver(StateModeCounts(b), DOMAIN StateModeCounts(b))
                /\ \A s \in States : CountyShard(projection, s, countyK) # Unpublished =>
                     /\ CountyShardValid(CountyShard(projection, s, countyK), s)
                     /\ \A g \in Counties[s], m \in ModeSet :
                          CountyShard(projection, s, countyK).cells[<<g, m>>]
                            = IF TrueCount(b, rows, s, g, m) >= countyK THEN TrueCount(b, rows, s, g, m)
                              ELSE SuppressedOrZero
<1>1. IsBag(b)
  BY DEF ReviewOf
<1>2. Feasibility(b) = CountyDoc(b) /\ CountyDoc(b) # Unpublished
  BY <1>1, FeasibilityIs
<1>3. /\ ProjectionDoc(b, rows) # Unpublished
      /\ projection = IF /\ CrosswalkResolved(rows)
                         /\ UsedPairs(CountyCells(b, Reported)) \subseteq RowPairs(rows)
                      THEN ProjectionDoc(b, rows) ELSE Unpublished
  BY <1>2, ProjectionIs
<1>4. Resolves(b, rows) <=> /\ CrosswalkResolved(rows)
                            /\ UsedPairs(CountyCells(b, Reported)) \subseteq RowPairs(rows)
  BY UsedAre DEF Resolves
<1>5. projection # Unpublished <=> Resolves(b, rows)
  BY <1>3, <1>4
<1>6. ASSUME projection # Unpublished
      PROVE  /\ SumOver(projection.cells, DOMAIN projection.cells) + projection.sentinel
                  = SumOver(StateModeCounts(b), DOMAIN StateModeCounts(b))
             /\ \A s \in States : CountyShard(projection, s, countyK) # Unpublished =>
                  /\ CountyShardValid(CountyShard(projection, s, countyK), s)
                  /\ \A g \in Counties[s], m \in ModeSet :
                       CountyShard(projection, s, countyK).cells[<<g, m>>]
                         = IF TrueCount(b, rows, s, g, m) >= countyK THEN TrueCount(b, rows, s, g, m)
                           ELSE SuppressedOrZero
  <2>1. projection = ProjectionDoc(b, rows)
    BY <1>3, <1>6
  <2>2. Resolves(b, rows)
    BY <1>5, <1>6
  <2>3. SumOver(projection.cells, DOMAIN projection.cells) + projection.sentinel
          = SumOver(StateModeCounts(b), DOMAIN StateModeCounts(b))
    BY <2>1, <2>2, CountiesAddUp
  <2>4. ASSUME NEW s \in States, CountyShard(projection, s, countyK) # Unpublished
        PROVE  /\ CountyShardValid(CountyShard(projection, s, countyK), s)
               /\ \A g \in Counties[s], m \in ModeSet :
                    CountyShard(projection, s, countyK).cells[<<g, m>>]
                      = IF TrueCount(b, rows, s, g, m) >= countyK THEN TrueCount(b, rows, s, g, m)
                        ELSE SuppressedOrZero
    BY <1>3, <2>1, <2>4, ShardIs
  <2>5. QED
    BY <2>3, <2>4
<1>7. QED
  BY <1>5, <1>6

LEMMA DocumentsHold ==
    ASSUME NEW b, NEW requested, NEW rows, NEW countyK, DocumentRequest(b, requested, rows, countyK)
    PROVE  DocumentsAgree(b, requested, rows, countyK, Documents(b, requested, rows, countyK))
<1> DEFINE docs == Documents(b, requested, rows, countyK)
           counts == StateModeCounts(b)
           k == Requested(requested)
           national == NationalContext(b, requested)
           projection == Projection(Feasibility(b), rows)
           hidden == Positive(counts) \ AtLeast(counts, k)
<1>1. IsBag(b) /\ ReviewOf(b, rows) /\ requested \in Nat /\ countyK \in Nat
  BY DEF DocumentRequest, IsBag, ReviewOf
<1>2. SUFFICES ASSUME StatesWithRecords(b) = States
               PROVE  /\ docs.national # Unpublished
                      /\ (docs.public # Unpublished) <=> (k = PublicK /\ Cardinality(hidden) # 1)
                      /\ docs.public # Unpublished =>
                           \A key \in DOMAIN counts :
                             IF counts[key] >= PublicK THEN docs.public.cells[key] = counts[key]
                             ELSE docs.public.cells[key] = SuppressedOrZero
                      /\ docs.public # Unpublished => /\ PageAccepts(docs.public) /\ IndexAccepts(docs.public)
                                                      /\ AuditAccepts(docs.public, docs.public)
                      /\ (docs.projection # Unpublished) <=> Resolves(b, rows)
                      /\ docs.projection # Unpublished =>
                           /\ SumOver(docs.projection.cells, DOMAIN docs.projection.cells)
                                + docs.projection.sentinel = SumOver(counts, DOMAIN counts)
                           /\ \A s \in States : docs.shards[s] # Unpublished =>
                                /\ CountyShardValid(docs.shards[s], s)
                                /\ \A g \in Counties[s], m \in ModeSet :
                                     docs.shards[s].cells[<<g, m>>]
                                       = IF TrueCount(b, rows, s, g, m) >= countyK
                                         THEN TrueCount(b, rows, s, g, m) ELSE SuppressedOrZero
  BY Zenon DEF DocumentsAgree, Resolves, Requested
<1>3. /\ docs.national = national /\ docs.projection = projection
      /\ docs.public = IF national = Unpublished THEN Unpublished ELSE PublicContext(national)
      /\ \A s \in States : docs.shards[s] = IF projection = Unpublished THEN Unpublished
                                            ELSE CountyShard(projection, s, countyK)
  <2> HIDE DEF national, projection
  <2>1. docs = [national |-> national,
                public     |-> IF national = Unpublished THEN Unpublished ELSE PublicContext(national),
                projection |-> projection,
                shards     |-> [s \in States |-> IF projection = Unpublished THEN Unpublished
                                                 ELSE CountyShard(projection, s, countyK)]]
    BY Zenon DEF Documents, national, projection
  <2> HIDE DEF docs
  <2>2. QED
    BY <2>1
<1>4. k \in Nat \ {0} /\ national = NationalDoc(b, k)
  BY <1>1, <1>2, NationalIs
<1>5. national # Unpublished
  BY <1>1, <1>4, StateDocIs
<1>6. docs.public = PublicContext(NationalDoc(b, k))
  <2> HIDE DEF docs, national, projection
  <2>1. QED
    BY <1>3, <1>4, <1>5
<1>7. hidden = HiddenCells(b, k)
  BY DEF HiddenCells, Withheld
<1> HIDE DEF docs, national, projection, k, hidden
<1>8. /\ docs.public # Unpublished <=> k = PublicK /\ Cardinality(hidden) # 1
      /\ docs.public # Unpublished =>
           /\ \A key \in DOMAIN counts :
                IF counts[key] >= PublicK THEN docs.public.cells[key] = counts[key]
                ELSE docs.public.cells[key] = SuppressedOrZero
           /\ PageAccepts(docs.public) /\ IndexAccepts(docs.public)
           /\ AuditAccepts(docs.public, docs.public)
  BY <1>1, <1>4, <1>6, <1>7, PublicIs
<1> HIDE DEF counts
<1>9. /\ projection # Unpublished <=> Resolves(b, rows)
      /\ projection # Unpublished =>
           /\ SumOver(projection.cells, DOMAIN projection.cells) + projection.sentinel
                = SumOver(counts, DOMAIN counts)
           /\ \A s \in States : CountyShard(projection, s, countyK) # Unpublished =>
                /\ CountyShardValid(CountyShard(projection, s, countyK), s)
                /\ \A g \in Counties[s], m \in ModeSet :
                     CountyShard(projection, s, countyK).cells[<<g, m>>]
                       = IF TrueCount(b, rows, s, g, m) >= countyK THEN TrueCount(b, rows, s, g, m)
                         ELSE SuppressedOrZero
  BY <1>1, <1>2, ProjectionHolds DEF counts, projection
<1>10. ASSUME docs.projection # Unpublished
       PROVE  /\ SumOver(docs.projection.cells, DOMAIN docs.projection.cells)
                   + docs.projection.sentinel = SumOver(counts, DOMAIN counts)
              /\ \A s \in States : docs.shards[s] # Unpublished =>
                   /\ CountyShardValid(docs.shards[s], s)
                   /\ \A g \in Counties[s], m \in ModeSet :
                        docs.shards[s].cells[<<g, m>>]
                          = IF TrueCount(b, rows, s, g, m) >= countyK
                            THEN TrueCount(b, rows, s, g, m) ELSE SuppressedOrZero
  <2>1. projection # Unpublished /\ docs.projection = projection
    BY <1>3, <1>10
  <2>2. \A s \in States : docs.shards[s] = CountyShard(projection, s, countyK)
    BY <1>3, <2>1
  <2>3. QED
    BY <1>9, <2>1, <2>2
<1>11. QED
  BY <1>3, <1>5, <1>8, <1>9, <1>10

DocumentInv ==
  part = "documents" =>
    /\ task \in DocumentTasks
    /\ outcome \in {Pending, Documents(task.bag, task.requested, task.rows, task.countyK)}

LEMMA DocumentInit == Init => DocumentInv
BY DEF Init, Start, DocumentInv

\* The one step of the documents computes their outcome from their task.
LEMMA DocumentStep == DocumentInv /\ [Next]_algorithmVars => DocumentInv'
<1> SUFFICES ASSUME DocumentInv, [Next]_algorithmVars, part' = "documents" PROVE DocumentInv'
  BY DEF DocumentInv
<1>1. part' = part /\ task' = task
  BY DEF Next, JoinFiles, BuildDocuments, BuildContext, RunReports, FindClusters,
     AuditDataset, AssessCity, Compute, algorithmVars, taskVars
<1>2. /\ task \in DocumentTasks
      /\ outcome \in {Pending, Documents(task.bag, task.requested, task.rows, task.countyK)}
  BY <1>1 DEF DocumentInv
<1>3. \/ outcome' = outcome
      \/ outcome' = Documents(task.bag, task.requested, task.rows, task.countyK)
  BY <1>1 DEF Next, JoinFiles, BuildDocuments, BuildContext, RunReports, FindClusters,
     AuditDataset, AssessCity, Compute, algorithmVars, taskVars
<1>4. QED
  BY <1>1, <1>2, <1>3 DEF DocumentInv

\* The documents of every verified snapshot agree: the county path counts what the state path does, a
\* shown cell holds its count, and a document is refused only for the reasons the reviewers gave
\* (DocumentsAgree, fars_*_context.py and fars_county_*.py).
THEOREM DocumentsStayOneStory == Spec => []DocumentsTellOneStory
<1>1. DocumentInv => DocumentsTellOneStory
  <2> SUFFICES ASSUME DocumentInv, part = "documents", outcome # Pending
               PROVE  DocumentsAgree(task.bag, task.requested, task.rows, task.countyK, outcome)
    BY DEF DocumentsTellOneStory, Computed
  <2>1. /\ task \in DocumentTasks
        /\ outcome = Documents(task.bag, task.requested, task.rows, task.countyK)
    BY DEF DocumentInv
  <2>2. DocumentRequest(task.bag, task.requested, task.rows, task.countyK)
    BY <2>1, DocumentTaskAssumption
  <2>3. QED
    BY <2>1, <2>2, DocumentsHold
<1>2. QED
  BY <1>1, DocumentInit, DocumentStep, PTL DEF Spec


-----------------------------------------------------------------------------
(* What a county shard withholds could be something else: a snapshot that  *)
(* differs in one crash.                                                   *)

\* Adding a crash adds it to the sums of the kinds it is among.
LEMMA AddedIs ==
    ASSUME NEW b, IsBag(b), NEW x \in RecordKinds
    PROVE  /\ IsBag(Added(b, x)) /\ DOMAIN Added(b, x) = DOMAIN b \cup {x}
           /\ Added(b, x)[x] > 0 /\ \A y \in DOMAIN b : Added(b, x)[y] >= b[y]
           /\ \A y \in DOMAIN b : y # x => Added(b, x)[y] = b[y]
           /\ Added(b, x)[x] = (IF x \in DOMAIN b THEN b[x] ELSE 0) + 1
<1> DEFINE D == DOMAIN b
           c == Added(b, x)
<1>1. IsFiniteSet(D) /\ D \subseteq RecordKinds /\ \A y \in D : b[y] \in Nat
  BY DEF IsBag
<1>2. /\ DOMAIN c = D \cup {x}
      /\ \A y \in D \cup {x} : c[y] = IF y # x THEN b[y] ELSE IF x \in D THEN b[x] + 1 ELSE 1
  BY DEF Added
<1>3. IsFiniteSet(D \cup {x})
  BY <1>1, FS_Singleton, FS_Union
<1> HIDE DEF c, D
<1>4. \A y \in D : y # x => c[y] = b[y]
  BY <1>2
<1>5. c[x] = (IF x \in D THEN b[x] ELSE 0) + 1
  BY <1>1, <1>2
<1>6. c[x] \in Nat /\ c[x] > 0
  BY <1>1, <1>5
<1>7. \A y \in DOMAIN c : c[y] \in Nat
  BY <1>1, <1>2, <1>4, <1>6
<1>8. \A y \in D : c[y] >= b[y]
  BY <1>1, <1>4, <1>5
<1>9. IsBag(c)
  BY <1>1, <1>2, <1>3, <1>7 DEF IsBag
<1>10. QED
  BY <1>2, <1>4, <1>5, <1>6, <1>8, <1>9 DEF c, D

LEMMA AddedSums ==
    ASSUME NEW b, IsBag(b), NEW x \in RecordKinds, NEW R
    PROVE  Summed(Added(b, x), {y \in DOMAIN Added(b, x) : y \in R})
             = Summed(b, {y \in DOMAIN b : y \in R}) + (IF x \in R THEN 1 ELSE 0)
<1> DEFINE c == Added(b, x)
           D == DOMAIN b
           S == {y \in D : y \in R}
           T == {y \in DOMAIN c : y \in R}
<1>1. /\ IsBag(c) /\ DOMAIN c = D \cup {x} /\ \A y \in D : y # x => c[y] = b[y]
      /\ c[x] = (IF x \in D THEN b[x] ELSE 0) + 1
  BY AddedIs
<1>2. IsFiniteSet(S) /\ \A y \in S : b[y] \in Nat
  <2>1. IsFiniteSet(D) /\ \A y \in D : b[y] \in Nat
    BY DEF IsBag
  <2>2. QED
    BY <2>1, FS_Subset
<1>3. IsFiniteSet(T) /\ \A y \in T : c[y] \in Nat
  <2>1. IsFiniteSet(DOMAIN c) /\ \A y \in DOMAIN c : c[y] \in Nat
    BY <1>1 DEF IsBag
  <2>2. QED
    BY <2>1, FS_Subset
<1>4. IsFiniteSet(S \ {x}) /\ \A y \in S \ {x} : b[y] \in Nat /\ c[y] = b[y]
  BY <1>1, <1>2, FS_Subset
<1> HIDE DEF c
<1>5. Summed(c, S \ {x}) = Summed(b, S \ {x})
  BY <1>4, SumEqual
<1>6. CASE x \notin R
  <2>1. S \ {x} = S /\ T = S
    BY <1>1, <1>6
  <2>2. Summed(b, S) \in Nat
    BY <1>2, SumPicks
  <2> HIDE DEF S, T
  <2>3. QED
    BY <1>5, <1>6, <2>1, <2>2 DEF S, T, c
<1>7. CASE x \in R
  <2>1. x \in T /\ T \ {x} = S \ {x}
    BY <1>1, <1>7
  <2>2. Summed(b, S \ {x}) \in Nat
    BY <1>4, SumPicks
  <2>3. x \in S <=> x \in D
    BY <1>7
  <2>4. x \in D => b[x] \in Nat
    BY <1>2, <2>3
  <2>5. x \notin S => S \ {x} = S
    OBVIOUS
  <2> HIDE DEF S, T, D
  <2>6. Summed(c, T) = c[x] + Summed(c, T \ {x})
    BY <1>3, <2>1, SumStep
  <2>7. Summed(c, T) = (IF x \in D THEN b[x] ELSE 0) + 1 + Summed(b, S \ {x})
    BY <1>1, <1>5, <2>1, <2>6
  <2>8. CASE x \in S
    <3>1. Summed(b, S) = b[x] + Summed(b, S \ {x})
      BY <1>2, <2>8, SumStep
    <3>2. Summed(c, T) = Summed(b, S) + 1
      BY <2>2, <2>3, <2>4, <2>7, <2>8, <3>1
    <3>3. QED
      BY <1>7, <3>2 DEF S, T, D, c
  <2>9. CASE x \notin S
    <3>1. Summed(c, T) = Summed(b, S) + 1
      BY <2>2, <2>3, <2>5, <2>7, <2>9
    <3>2. QED
      BY <1>7, <3>1 DEF S, T, D, c
  <2>10. QED
    BY <2>8, <2>9
<1>8. QED
  BY <1>6, <1>7

LEMMA RemovedIs ==
    ASSUME NEW b, IsBag(b), NEW x \in DOMAIN b, b[x] > 0
    PROVE  /\ IsBag(Removed(b, x)) /\ DOMAIN Removed(b, x) = DOMAIN b
           /\ \A y \in DOMAIN b : y # x => Removed(b, x)[y] = b[y]
           /\ Removed(b, x)[x] = b[x] - 1
           /\ \A y \in DOMAIN b : Removed(b, x)[y] <= b[y]
<1> DEFINE c == Removed(b, x)
<1>1. IsFiniteSet(DOMAIN b) /\ DOMAIN b \subseteq RecordKinds /\ \A y \in DOMAIN b : b[y] \in Nat
  BY DEF IsBag
<1>2. DOMAIN c = DOMAIN b /\ c[x] = b[x] - 1 /\ \A y \in DOMAIN b : y # x => c[y] = b[y]
  BY DEF Removed
<1> HIDE DEF c
<1>3. b[x] - 1 \in Nat
  BY <1>1
<1>4. \A y \in DOMAIN b : c[y] \in Nat /\ c[y] <= b[y]
  BY <1>1, <1>2, <1>3
<1>5. IsBag(c)
  BY <1>1, <1>2, <1>4 DEF IsBag
<1>6. QED
  BY <1>2, <1>4, <1>5 DEF c

\* A removed crash is taken from the sums of the kinds it is among.
LEMMA RemovedSums ==
    ASSUME NEW b, IsBag(b), NEW x \in DOMAIN b, b[x] > 0, NEW R
    PROVE  /\ Summed(b, {y \in DOMAIN b : y \in R})
                = Summed(Removed(b, x), {y \in DOMAIN b : y \in R}) + (IF x \in R THEN 1 ELSE 0)
           /\ Summed(Removed(b, x), {y \in DOMAIN b : y \in R}) \in Nat
<1> DEFINE c == Removed(b, x)
           S == {y \in DOMAIN b : y \in R}
<1>1. /\ IsBag(c) /\ DOMAIN c = DOMAIN b /\ \A y \in DOMAIN b : y # x => c[y] = b[y]
      /\ c[x] = b[x] - 1
  BY RemovedIs
<1>2. /\ IsFiniteSet(DOMAIN b) /\ \A y \in DOMAIN b : b[y] \in Nat
      /\ \A y \in DOMAIN b : c[y] \in Nat
  BY <1>1 DEF IsBag
<1>3. IsFiniteSet(S) /\ \A y \in S : b[y] \in Nat /\ c[y] \in Nat
  BY <1>2, FS_Subset
<1>4. IsFiniteSet(S \ {x}) /\ \A y \in S \ {x} : b[y] \in Nat /\ c[y] = b[y]
  BY <1>1, <1>3, FS_Subset
<1>5. b[x] \in Nat
  BY <1>2
<1> HIDE DEF c
<1>6. Summed(c, S \ {x}) = Summed(b, S \ {x})
  BY <1>4, SumEqual
<1>7. Summed(c, S) \in Nat
  BY <1>3, SumPicks
<1>8. CASE x \notin R
  <2>1. S \ {x} = S
    BY <1>8
  <2> HIDE DEF S
  <2>2. Summed(b, S) = Summed(c, S) + 0
    BY <1>6, <1>7, <2>1
  <2>3. QED
    BY <1>7, <1>8, <2>2 DEF S, c
<1>9. CASE x \in R
  <2>1. x \in S
    BY <1>9
  <2>2. Summed(b, S \ {x}) \in Nat
    BY <1>4, SumPicks
  <2> HIDE DEF S
  <2>3. Summed(b, S) = b[x] + Summed(b, S \ {x})
    BY <1>3, <2>1, SumStep
  <2>4. Summed(c, S) = c[x] + Summed(c, S \ {x})
    BY <1>3, <2>1, SumStep
  <2>5. Summed(b, S) = Summed(c, S) + 1
    BY <1>1, <1>5, <1>6, <2>2, <2>3, <2>4
  <2>6. QED
    BY <1>7, <1>9, <2>5 DEF S, c
<1>10. QED
  BY <1>8, <1>9

\* The kinds of crash that the review counts in a county and mode.
CountedAs(rows, s, g, m) ==
  {x \in RecordKinds : /\ x.state = s /\ m \in x.modes
                       /\ \E r \in rows : r.state = s /\ r.code = x.county /\ r.geoid = g}

LEMMA TrueCountSums ==
    ASSUME NEW b, IsBag(b), NEW rows, NEW s, NEW g, NEW m
    PROVE  /\ TrueCount(b, rows, s, g, m)
                = Summed(b, {y \in DOMAIN b : y \in CountedAs(rows, s, g, m)})
           /\ TrueCount(b, rows, s, g, m) \in Nat
           /\ TrueCount(b, rows, s, g, m) > 0 =>
                \E y \in DOMAIN b : y \in CountedAs(rows, s, g, m) /\ b[y] > 0
<1> DEFINE T == {x \in DOMAIN b : /\ x.state = s /\ m \in x.modes
                                  /\ \E r \in rows : r.state = s /\ r.code = x.county /\ r.geoid = g}
           S == {y \in DOMAIN b : y \in CountedAs(rows, s, g, m)}
<1>1. TrueCount(b, rows, s, g, m) = Summed(b, T)
  BY DEF TrueCount, Crashes, Summed
<1>2. T = S
  BY DEF CountedAs, IsBag
<1> HIDE DEF T
<1>3. Summed(b, S) \in 0 .. CaseCount(b) /\ (Summed(b, S) > 0 <=> \E y \in S : b[y] > 0)
  BY CrashCounts
<1>4. CaseCount(b) \in Nat
  BY SharesFinite
<1> HIDE DEF S
<1>5. Summed(b, S) \in Nat
  BY <1>3, <1>4
<1>6. QED
  BY <1>1, <1>2, <1>3, <1>5 DEF S

\* A crash at a code of the review is counted in the county of its row and in no other.
LEMMA CountedOnce ==
    ASSUME NEW b, NEW rows, Resolves(b, rows), NEW x \in RecordKinds,
           NEW r \in rows, r.state = x.state, r.code = x.county
    PROVE  \A g, m : x \in CountedAs(rows, x.state, g, m) <=> g = r.geoid /\ m \in x.modes
<1>1. \A q \in rows : q.state = r.state /\ q.code = r.code => q = r
  BY DEF Resolves, CrosswalkResolved, CrosswalkValid
<1>2. QED
  BY <1>1 DEF CountedAs

\* A snapshot is projected only of a country that is covered, through a review that resolves.
LEMMA ProjectedIs ==
    ASSUME NEW b, NEW rows, ReviewOf(b, rows), Projection(Feasibility(b), rows) # Unpublished
    PROVE  /\ StatesWithRecords(b) = States /\ Resolves(b, rows)
           /\ Projection(Feasibility(b), rows) = ProjectionDoc(b, rows)
<1>1. Feasibility(b) # Unpublished
  BY Zenon DEF Projection
<1>2. StatesWithRecords(b) = States
  BY <1>1 DEF Feasibility
<1>3. IsBag(b)
  BY DEF ReviewOf
<1>4. Feasibility(b) = CountyDoc(b) /\ CountyDoc(b) # Unpublished
  BY <1>2, <1>3, FeasibilityIs
<1>5. /\ ProjectionDoc(b, rows) # Unpublished
      /\ Projection(Feasibility(b), rows) =
           IF CrosswalkResolved(rows) /\ UsedPairs(CountyCells(b, Reported)) \subseteq RowPairs(rows)
           THEN ProjectionDoc(b, rows) ELSE Unpublished
  BY <1>4, ProjectionIs
<1>6. 0 \in Nat
  OBVIOUS
<1>7. Resolves(b, rows)
  BY <1>2, <1>6, ProjectionHolds
<1>8. QED
  BY <1>2, <1>5, <1>7

\* The shard of some counts.
ShardOfCounts(cells, s, k) ==
  [k |-> k, counties |-> Cardinality(Counties[s]), published |-> Cardinality(AtLeast(cells, k)),
   withheld |-> Cardinality(DOMAIN cells) - Cardinality(AtLeast(cells, k)),
   cells |-> [key \in DOMAIN cells |-> IF key \in AtLeast(cells, k) THEN cells[key] ELSE SuppressedOrZero]]

CountsOf(b, rows, s) == [key \in Counties[s] \X ModeSet |-> TrueCount(b, rows, s, key[1], key[2])]

LEMMA ShardShape ==
    ASSUME NEW b, NEW rows, ReviewOf(b, rows), NEW s \in States, NEW k \in Nat, k >= PublicK,
           ProjectionDoc(b, rows) # Unpublished
    PROVE  CountyShard(ProjectionDoc(b, rows), s, k) = ShardOfCounts(CountsOf(b, rows, s), s, k)
<1> DEFINE p == ProjectionDoc(b, rows)
           P == Counties[s] \X ModeSet
           cells == [key \in P |-> p.cells[<< <<s, key[1]>>, key[2] >>]]
<1>1. CountyShard(p, s, k) = IF p = Unpublished \/ k < PublicK THEN Unpublished ELSE ShardOfCounts(cells, s, k)
  BY Zenon DEF CountyShard, ShardOfCounts
<1>2. p # Unpublished /\ ~(k < PublicK)
  BY DocumentAssumption
<1>3. ASSUME NEW key \in P
      PROVE  p.cells[<< <<s, key[1]>>, key[2] >>] = TrueCount(b, rows, s, key[1], key[2])
  <2> DEFINE g == key[1]
             m == key[2]
             place == << <<s, g>>, m >>
  <2>1. g \in Counties[s] /\ m \in ModeSet
    OBVIOUS
  <2> HIDE DEF g, m
  <2>2. <<s, g>> \in CountyPlaces
    <3>1. g \in UNION {Counties[st] : st \in States}
      BY <2>1
    <3>2. QED
      BY <2>1, <3>1 DEF CountyPlaces
  <2>3. place \in CountyPlaces \X ModeSet /\ place[1][1] = s /\ place[1][2] = g /\ place[2] = m
    BY <2>1, <2>2
  <2> HIDE DEF place
  <2>4. p.cells[place] = SumOver(CountyCells(b, Reported), Through(rows, s, g, m))
    <3>1. p.cells[place] = SumOver(CountyCells(b, Reported), Through(rows, place[1][1], place[1][2], place[2]))
      BY <2>3 DEF ProjectionDoc
    <3>2. QED
      BY <2>3, <3>1
  <2>5. IsBag(b) /\ Reported \in SUBSET Codes
    BY DEF ReviewOf, Codes
  <2>6. Through(rows, s, g, m) \in SUBSET (States \X Reported \X ModeSet)
    BY <2>1, ReachIs
  <2>7. SumOver(CountyCells(b, Reported), Through(rows, s, g, m)) = Cardinality(Where(b, Through(rows, s, g, m)))
    BY <2>5, <2>6, SumsCount
  <2>8. TrueCount(b, rows, s, g, m) = Cardinality(Where(b, Through(rows, s, g, m)))
    BY <2>1, TrueCountIs
  <2> HIDE DEF p
  <2>9. QED
    BY <2>4, <2>7, <2>8 DEF place, g, m
<1> HIDE DEF p
<1>4. cells = CountsOf(b, rows, s)
  BY <1>3 DEF CountsOf
<1> HIDE DEF cells
<1>5. QED
  BY <1>1, <1>2, <1>4 DEF p

\* Counts that differ only below the floor have one shard.
LEMMA ShardsAlike ==
    ASSUME NEW b, NEW c, NEW rows, NEW s, NEW k \in Nat,
           \A g \in Counties[s], m \in ModeSet :
             \/ TrueCount(b, rows, s, g, m) = TrueCount(c, rows, s, g, m)
             \/ /\ ~(TrueCount(b, rows, s, g, m) >= k)
                /\ ~(TrueCount(c, rows, s, g, m) >= k)
    PROVE  ShardOfCounts(CountsOf(b, rows, s), s, k) = ShardOfCounts(CountsOf(c, rows, s), s, k)
<1> DEFINE P == Counties[s] \X ModeSet
           B == CountsOf(b, rows, s)
           C == CountsOf(c, rows, s)
           drawn(cells) == [key \in DOMAIN cells |->
                              IF key \in AtLeast(cells, k) THEN cells[key] ELSE SuppressedOrZero]
<1>1. DOMAIN B = P /\ DOMAIN C = P
  BY DEF CountsOf
<1>2. \A key \in P : B[key] = C[key] \/ (~(B[key] >= k) /\ ~(C[key] >= k))
  <2> SUFFICES ASSUME NEW key \in P PROVE B[key] = C[key] \/ (~(B[key] >= k) /\ ~(C[key] >= k))
    OBVIOUS
  <2>1. key[1] \in Counties[s] /\ key[2] \in ModeSet
    OBVIOUS
  <2>2. B[key] = TrueCount(b, rows, s, key[1], key[2]) /\ C[key] = TrueCount(c, rows, s, key[1], key[2])
    BY DEF CountsOf
  <2> HIDE DEF B, C, P
  <2>3. \/ TrueCount(b, rows, s, key[1], key[2]) = TrueCount(c, rows, s, key[1], key[2])
        \/ /\ ~(TrueCount(b, rows, s, key[1], key[2]) >= k)
           /\ ~(TrueCount(c, rows, s, key[1], key[2]) >= k)
    BY <2>1, Zenon
  <2>4. QED
    BY <2>2, <2>3, Zenon
<1> HIDE DEF B, C, P
<1>3. AtLeast(B, k) = AtLeast(C, k) /\ AtLeast(B, k) = {key \in P : B[key] >= k}
  BY <1>1, <1>2 DEF AtLeast
<1>4. drawn(B) = drawn(C)
  BY <1>1, <1>2, <1>3
<1> HIDE DEF drawn
<1>5. /\ ShardOfCounts(B, s, k) =
           [k |-> k, counties |-> Cardinality(Counties[s]), published |-> Cardinality(AtLeast(B, k)),
            withheld |-> Cardinality(DOMAIN B) - Cardinality(AtLeast(B, k)), cells |-> drawn(B)]
      /\ ShardOfCounts(C, s, k) =
           [k |-> k, counties |-> Cardinality(Counties[s]), published |-> Cardinality(AtLeast(C, k)),
            withheld |-> Cardinality(DOMAIN C) - Cardinality(AtLeast(C, k)), cells |-> drawn(C)]
  BY Zenon DEF ShardOfCounts, drawn
<1>6. QED
  BY <1>1, <1>3, <1>4, <1>5 DEF B, C

\* A snapshot that is projected through a review.
Projected(b, rows) == /\ ReviewOf(b, rows) /\ Resolves(b, rows) /\ StatesWithRecords(b) = States
                      /\ Projection(Feasibility(b), rows) = ProjectionDoc(b, rows)
                      /\ ProjectionDoc(b, rows) # Unpublished

\* With more crashes a covered country stays covered, and a review that has their codes resolves.
LEMMA StaysProjected ==
    ASSUME NEW b, IsBag(b), NEW c, IsBag(c), NEW rows, ReviewOf(b, rows), Resolves(b, rows),
           StatesWithRecords(b) = States,
           \A s \in States : \E y \in DOMAIN c : y.state = s /\ c[y] > 0,
           \A y \in DOMAIN c : c[y] > 0 /\ y.county \in Reported =>
             \E r \in rows : r.state = y.state /\ r.code = y.county
    PROVE  Projected(c, rows)
<1>1. StatesWithRecords(c) = States
  BY DEF StatesWithRecords
<1>2. ReviewOf(c, rows) /\ Resolves(c, rows)
  BY DEF ReviewOf, Resolves
<1>3. Projection(Feasibility(c), rows) # Unpublished
  <2>1. 0 \in Nat
    OBVIOUS
  <2>2. QED
    BY <1>1, <1>2, <2>1, ProjectionHolds
<1>4. Projection(Feasibility(c), rows) = ProjectionDoc(c, rows)
  BY <1>2, <1>3, ProjectedIs
<1>5. QED
  BY <1>1, <1>2, <1>3, <1>4 DEF Projected

\* A crash at a code of the review keeps a snapshot one that is projected.
LEMMA AddedProjected ==
    ASSUME NEW b, NEW rows, ReviewOf(b, rows), Resolves(b, rows), StatesWithRecords(b) = States,
           NEW x \in RecordKinds, NEW r \in rows, r.state = x.state, r.code = x.county
    PROVE  /\ Projected(Added(b, x), rows)
           /\ \A s, g, m : TrueCount(Added(b, x), rows, s, g, m)
                             = TrueCount(b, rows, s, g, m) + (IF x \in CountedAs(rows, s, g, m) THEN 1 ELSE 0)
<1> DEFINE c == Added(b, x)
<1>1. IsBag(b)
  BY DEF ReviewOf
<1>2. /\ IsBag(c) /\ DOMAIN c = DOMAIN b \cup {x} /\ c[x] > 0
      /\ \A y \in DOMAIN b : c[y] >= b[y]
      /\ \A y \in DOMAIN b : y # x => c[y] = b[y]
  BY <1>1, AddedIs
<1>3. \A s, g, m : TrueCount(c, rows, s, g, m)
                     = TrueCount(b, rows, s, g, m) + (IF x \in CountedAs(rows, s, g, m) THEN 1 ELSE 0)
  <2> TAKE s, g, m
  <2> DEFINE R == CountedAs(rows, s, g, m)
  <2>1. TrueCount(c, rows, s, g, m) = Summed(c, {y \in DOMAIN c : y \in R})
    BY <1>2, TrueCountSums
  <2>2. TrueCount(b, rows, s, g, m) = Summed(b, {y \in DOMAIN b : y \in R})
    BY <1>1, TrueCountSums
  <2> HIDE DEF R
  <2>3. Summed(c, {y \in DOMAIN c : y \in R})
          = Summed(b, {y \in DOMAIN b : y \in R}) + (IF x \in R THEN 1 ELSE 0)
    BY <1>1, AddedSums
  <2>4. QED
    BY <2>1, <2>2, <2>3 DEF R
<1>4. \A st \in States : \E y \in DOMAIN c : y.state = st /\ c[y] > 0
  <2> SUFFICES ASSUME NEW st \in States PROVE \E y \in DOMAIN c : y.state = st /\ c[y] > 0
    OBVIOUS
  <2>1. PICK y \in DOMAIN b : y.state = st /\ b[y] > 0
    BY DEF StatesWithRecords
  <2>2. y \in DOMAIN c /\ c[y] >= b[y] /\ b[y] \in Nat /\ c[y] \in Nat
    BY <1>1, <1>2 DEF IsBag
  <2>3. QED
    BY <2>1, <2>2
<1>5. \A y \in DOMAIN c : c[y] > 0 /\ y.county \in Reported =>
        \E q \in rows : q.state = y.state /\ q.code = y.county
  <2> SUFFICES ASSUME NEW y \in DOMAIN c, c[y] > 0, y.county \in Reported
               PROVE  \E q \in rows : q.state = y.state /\ q.code = y.county
    OBVIOUS
  <2>1. CASE y = x
    BY <2>1
  <2>2. CASE y # x
    BY <1>2, <2>2 DEF Resolves
  <2>3. QED
    BY <2>1, <2>2
<1> HIDE DEF c
<1>6. Projected(c, rows)
  BY <1>1, <1>2, <1>4, <1>5, StaysProjected
<1>7. QED
  BY <1>3, <1>6 DEF c

\* A snapshot loses a crash of a state that has another: it stays one that is projected.
LEMMA RemovedProjected ==
    ASSUME NEW b, NEW rows, ReviewOf(b, rows), Resolves(b, rows), StatesWithRecords(b) = States,
           NEW x \in DOMAIN b, b[x] > 0,
           \E y \in DOMAIN b : y.state = x.state /\ Removed(b, x)[y] > 0
    PROVE  Projected(Removed(b, x), rows)
<1> DEFINE c == Removed(b, x)
<1>1. IsBag(b)
  BY DEF ReviewOf
<1>2. /\ IsBag(c) /\ DOMAIN c = DOMAIN b
      /\ \A y \in DOMAIN b : c[y] <= b[y]
      /\ \A y \in DOMAIN b : y # x => c[y] = b[y]
  BY <1>1, RemovedIs
<1> HIDE DEF c
<1>3. \A st \in States : \E y \in DOMAIN c : y.state = st /\ c[y] > 0
  <2> SUFFICES ASSUME NEW st \in States PROVE \E y \in DOMAIN c : y.state = st /\ c[y] > 0
    OBVIOUS
  <2>1. CASE st = x.state
    BY <1>2, <2>1 DEF c
  <2>2. CASE st # x.state
    <3>1. PICK y \in DOMAIN b : y.state = st /\ b[y] > 0
      BY DEF StatesWithRecords
    <3>2. y # x
      BY <2>2, <3>1
    <3>3. QED
      BY <1>2, <3>1, <3>2
  <2>3. QED
    BY <2>1, <2>2
<1>4. \A y \in DOMAIN c : c[y] > 0 /\ y.county \in Reported =>
        \E q \in rows : q.state = y.state /\ q.code = y.county
  <2> SUFFICES ASSUME NEW y \in DOMAIN c, c[y] > 0, y.county \in Reported
               PROVE  \E q \in rows : q.state = y.state /\ q.code = y.county
    OBVIOUS
  <2>1. y \in DOMAIN b /\ c[y] <= b[y] /\ b[y] \in Nat /\ c[y] \in Nat
    BY <1>1, <1>2 DEF IsBag
  <2>2. b[y] > 0
    BY <2>1
  <2>3. QED
    BY <2>1, <2>2 DEF Resolves
<1>5. Projected(c, rows)
  BY <1>1, <1>2, <1>3, <1>4, StaysProjected
<1>6. QED
  BY <1>5 DEF c

\* A count that stays below the floor with one more crash: the crash is added.
LEMMA CrashMore ==
    ASSUME NEW b, NEW rows, ReviewOf(b, rows), Resolves(b, rows), StatesWithRecords(b) = States,
           NEW r \in rows, NEW m \in ModeSet
    PROVE  \E c \in OneCrashApart(b) :
             /\ Projected(c, rows)
             /\ TrueCount(c, rows, r.state, r.geoid, m) = TrueCount(b, rows, r.state, r.geoid, m) + 1
             /\ \A g, mo : g # r.geoid \/ mo # m =>
                  TrueCount(c, rows, r.state, g, mo) = TrueCount(b, rows, r.state, g, mo)
<1> DEFINE x == [state |-> r.state, county |-> r.code, modes |-> {m}]
           c == Added(b, x)
           s == r.state
<1>1. IsBag(b) /\ s \in States /\ r.code \in Reported
  BY DEF ReviewOf
<1>2. x \in RecordKinds
  <2>1. {m} \in (SUBSET ModeSet) \ {{}}
    OBVIOUS
  <2>2. QED
    BY <1>1, <2>1 DEF RecordKinds
<1>3. x.state = s /\ x.county = r.code /\ x.modes = {m}
  OBVIOUS
<1> HIDE DEF x
<1>4. c \in OneCrashApart(b)
  BY <1>2 DEF OneCrashApart
<1>5. Projected(c, rows)
  BY <1>2, <1>3, AddedProjected
<1>6. \A g, mo : TrueCount(c, rows, s, g, mo)
                   = TrueCount(b, rows, s, g, mo) + (IF x \in CountedAs(rows, s, g, mo) THEN 1 ELSE 0)
  BY <1>2, <1>3, AddedProjected
<1>7. \A g, mo : x \in CountedAs(rows, s, g, mo) <=> g = r.geoid /\ mo = m
  BY <1>2, <1>3, CountedOnce
<1>8. \A g, mo : TrueCount(b, rows, s, g, mo) \in Nat
  BY <1>1, TrueCountSums
<1> HIDE DEF c
<1>9. TrueCount(c, rows, s, r.geoid, m) = TrueCount(b, rows, s, r.geoid, m) + 1
  BY <1>6, <1>7
<1>10. \A g, mo : g # r.geoid \/ mo # m => TrueCount(c, rows, s, g, mo) = TrueCount(b, rows, s, g, mo)
  BY <1>6, <1>7, <1>8
<1>11. QED
  BY <1>4, <1>5, <1>9, <1>10, Zenon

\* A count of at least two: one of its crashes loses the mode, or is removed if it has no other.
LEMMA CrashLess ==
    ASSUME NEW b, NEW rows, ReviewOf(b, rows), Resolves(b, rows), StatesWithRecords(b) = States,
           NEW r \in rows, NEW m \in ModeSet, TrueCount(b, rows, r.state, r.geoid, m) >= 2
    PROVE  \E c \in OneCrashApart(b) :
             /\ Projected(c, rows)
             /\ TrueCount(b, rows, r.state, r.geoid, m) = TrueCount(c, rows, r.state, r.geoid, m) + 1
             /\ \A g, mo : g # r.geoid \/ mo # m =>
                  TrueCount(c, rows, r.state, g, mo) = TrueCount(b, rows, r.state, g, mo)
<1> DEFINE s == r.state
           n == TrueCount(b, rows, s, r.geoid, m)
<1>1. IsBag(b) /\ n \in Nat /\ n > 0
  <2>1. IsBag(b)
    BY DEF ReviewOf
  <2>2. n \in Nat
    BY <2>1, TrueCountSums
  <2> HIDE DEF n
  <2>3. n >= 2
    BY DEF n
  <2>4. QED
    BY <2>1, <2>2, <2>3
<1>2. PICK x \in DOMAIN b : x \in CountedAs(rows, s, r.geoid, m) /\ b[x] > 0
  BY <1>1, TrueCountSums
<1>3. x \in RecordKinds /\ x.state = s /\ m \in x.modes
  BY <1>2 DEF CountedAs
<1>4. PICK q \in rows : q.state = x.state /\ q.code = x.county /\ q.geoid = r.geoid
  BY <1>2, <1>3 DEF CountedAs
<1>5. \A g, mo : x \in CountedAs(rows, s, g, mo) <=> g = r.geoid /\ mo \in x.modes
  BY <1>3, <1>4, CountedOnce
<1> DEFINE d == Removed(b, x)
<1>6. IsBag(d) /\ DOMAIN d = DOMAIN b
  BY <1>1, <1>2, RemovedIs
<1>7. \A g, mo : /\ TrueCount(b, rows, s, g, mo)
                      = TrueCount(d, rows, s, g, mo) + (IF x \in CountedAs(rows, s, g, mo) THEN 1 ELSE 0)
                 /\ TrueCount(d, rows, s, g, mo) \in Nat
  <2> TAKE g, mo
  <2> DEFINE R == CountedAs(rows, s, g, mo)
  <2>1. /\ TrueCount(d, rows, s, g, mo) = Summed(d, {y \in DOMAIN d : y \in R})
        /\ TrueCount(d, rows, s, g, mo) \in Nat
    BY <1>6, TrueCountSums
  <2>2. TrueCount(b, rows, s, g, mo) = Summed(b, {y \in DOMAIN b : y \in R})
    BY <1>1, TrueCountSums
  <2> HIDE DEF R
  <2>3. Summed(b, {y \in DOMAIN b : y \in R})
          = Summed(d, {y \in DOMAIN b : y \in R}) + (IF x \in R THEN 1 ELSE 0)
    BY <1>1, <1>2, RemovedSums
  <2> HIDE DEF d
  <2>4. QED
    BY <1>6, <2>1, <2>2, <2>3 DEF R
<1> HIDE DEF d, n
<1>8. n = TrueCount(d, rows, s, r.geoid, m) + 1
  BY <1>2, <1>7 DEF n
<1>9. TrueCount(d, rows, s, r.geoid, m) > 0
  <2>1. n >= 2 /\ TrueCount(d, rows, s, r.geoid, m) \in Nat
    BY <1>7 DEF n
  <2>2. QED
    BY <1>8, <2>1
<1>10. Projected(d, rows)
  <2>1. PICK y \in DOMAIN d : y \in CountedAs(rows, s, r.geoid, m) /\ d[y] > 0
    BY <1>6, <1>9, TrueCountSums
  <2>2. y.state = x.state
    BY <1>3, <2>1 DEF CountedAs
  <2>3. QED
    BY <1>2, <1>6, <2>1, <2>2, RemovedProjected DEF d
<1>11. d \in OneCrashApart(b)
  BY <1>2 DEF OneCrashApart, d
<1>12. CASE x.modes = {m}
  <2>1. \A g, mo : g # r.geoid \/ mo # m => x \notin CountedAs(rows, s, g, mo)
    BY <1>5, <1>12
  <2>2. \A g, mo : g # r.geoid \/ mo # m => TrueCount(d, rows, s, g, mo) = TrueCount(b, rows, s, g, mo)
    BY <1>7, <2>1
  <2>3. QED
    BY <1>8, <1>10, <1>11, <2>2, Zenon DEF n
<1>13. CASE x.modes # {m}
  <2> DEFINE y == [state |-> x.state, county |-> x.county, modes |-> x.modes \ {m}]
             c == Added(d, y)
  <2>1. y \in RecordKinds
    <3>1. x.state \in States /\ x.county \in Reported \cup Sentinels /\ x.modes \in SUBSET ModeSet
      BY <1>3 DEF RecordKinds
    <3>2. x.modes \ {m} \in (SUBSET ModeSet) \ {{}}
      BY <1>3, <1>13, <3>1
    <3>3. QED
      BY <3>1, <3>2 DEF RecordKinds
  <2>2. y.state = s /\ y.state = x.state /\ y.county = x.county /\ y.modes = x.modes \ {m}
    BY <1>3
  <2> HIDE DEF y
  <2>3. \A g, mo : y \in CountedAs(rows, s, g, mo) <=> g = r.geoid /\ mo \in y.modes
    BY <1>4, <2>1, <2>2, CountedOnce
  <2>4. c \in OneCrashApart(b)
    BY <1>2, <2>1 DEF OneCrashApart, d
  <2>5. ReviewOf(d, rows) /\ Resolves(d, rows) /\ StatesWithRecords(d) = States
    BY <1>10 DEF Projected
  <2>6. Projected(c, rows)
    BY <1>4, <2>1, <2>2, <2>5, AddedProjected
  <2>7. \A g, mo : TrueCount(c, rows, s, g, mo)
                     = TrueCount(d, rows, s, g, mo) + (IF y \in CountedAs(rows, s, g, mo) THEN 1 ELSE 0)
    BY <1>4, <2>1, <2>2, <2>5, AddedProjected
  <2> HIDE DEF c
  <2>8. y \notin CountedAs(rows, s, r.geoid, m)
    BY <2>2, <2>3
  <2>9. TrueCount(c, rows, s, r.geoid, m) = TrueCount(d, rows, s, r.geoid, m)
    BY <1>7, <2>7, <2>8
  <2>10. \A g, mo : g # r.geoid \/ mo # m =>
           (y \in CountedAs(rows, s, g, mo) <=> x \in CountedAs(rows, s, g, mo))
    BY <1>5, <2>2, <2>3
  <2>11. \A g, mo : g # r.geoid \/ mo # m => TrueCount(c, rows, s, g, mo) = TrueCount(b, rows, s, g, mo)
    BY <1>7, <2>7, <2>10
  <2>12. n = TrueCount(c, rows, s, r.geoid, m) + 1
    BY <1>8, <2>9
  <2>13. QED
    BY <2>4, <2>6, <2>11, <2>12, Zenon DEF n
<1>14. QED
  BY <1>12, <1>13

\* Two projected snapshots whose counts in a state differ in one cell only, which both withhold.
LEMMA OtherShard ==
    ASSUME NEW b, NEW c, NEW rows, Projected(b, rows), Projected(c, rows), NEW s \in States,
           NEW k \in Nat, k >= PublicK, NEW g, NEW m,
           ~(TrueCount(b, rows, s, g, m) >= k), ~(TrueCount(c, rows, s, g, m) >= k),
           \A h, mo : h # g \/ mo # m => TrueCount(c, rows, s, h, mo) = TrueCount(b, rows, s, h, mo)
    PROVE  CountyShard(Projection(Feasibility(c), rows), s, k) = CountyShard(ProjectionDoc(b, rows), s, k)
<1>1. CountyShard(ProjectionDoc(b, rows), s, k) = ShardOfCounts(CountsOf(b, rows, s), s, k)
  BY ShardShape DEF Projected
<1>2. /\ Projection(Feasibility(c), rows) = ProjectionDoc(c, rows)
      /\ CountyShard(ProjectionDoc(c, rows), s, k) = ShardOfCounts(CountsOf(c, rows, s), s, k)
  BY ShardShape DEF Projected
<1>3. \A h \in Counties[s], mo \in ModeSet :
        \/ TrueCount(b, rows, s, h, mo) = TrueCount(c, rows, s, h, mo)
        \/ ~(TrueCount(b, rows, s, h, mo) >= k) /\ ~(TrueCount(c, rows, s, h, mo) >= k)
  <2> SUFFICES ASSUME NEW h \in Counties[s], NEW mo \in ModeSet
               PROVE  \/ TrueCount(b, rows, s, h, mo) = TrueCount(c, rows, s, h, mo)
                      \/ ~(TrueCount(b, rows, s, h, mo) >= k) /\ ~(TrueCount(c, rows, s, h, mo) >= k)
    OBVIOUS
  <2>1. CASE h = g /\ mo = m
    BY <2>1, Zenon
  <2>2. CASE h # g \/ mo # m
    BY <2>2, Zenon
  <2>3. QED
    BY <2>1, <2>2
<1>4. ShardOfCounts(CountsOf(b, rows, s), s, k) = ShardOfCounts(CountsOf(c, rows, s), s, k)
  BY <1>3, ShardsAlike
<1>5. QED
  BY <1>1, <1>2, <1>4

LEMMA ShardKeeps ==
    ASSUME NEW b, NEW requested, NEW rows, NEW countyK, DocumentRequest(b, requested, rows, countyK),
           NEW s \in States, NEW doc, doc = Documents(b, requested, rows, countyK).shards[s]
    PROVE  ShardKeepsWithheld(b, rows, s, countyK, doc)
<1> DEFINE projection == Projection(Feasibility(b), rows)
           ShardOf(c) == CountyShard(Projection(Feasibility(c), rows), s, countyK)
           other(g, m) == \E c \in OneCrashApart(b) :
                            /\ TrueCount(c, rows, s, g, m) # TrueCount(b, rows, s, g, m)
                            /\ ShardOf(c) = doc
<1>1. IsBag(b) /\ ReviewOf(b, rows) /\ countyK \in Nat
  BY DEF DocumentRequest, IsBag, ReviewOf
<1>2. doc = IF projection = Unpublished THEN Unpublished ELSE CountyShard(projection, s, countyK)
  <2> HIDE DEF projection
  <2>1. Documents(b, requested, rows, countyK).shards
          = [st \in States |-> IF projection = Unpublished THEN Unpublished
                               ELSE CountyShard(projection, st, countyK)]
    BY DEF Documents, projection
  <2>2. QED
    BY <2>1
<1>3. ASSUME doc # Unpublished, NEW g \in Counties[s], NEW m \in ModeSet,
             doc.cells[<<g, m>>] = SuppressedOrZero, \E r \in rows : r.state = s /\ r.geoid = g
      PROVE  other(g, m)
  <2> DEFINE n == TrueCount(b, rows, s, g, m)
  <2>1. projection # Unpublished /\ doc = CountyShard(projection, s, countyK)
    BY <1>2, <1>3
  <2>2. StatesWithRecords(b) = States /\ Resolves(b, rows) /\ projection = ProjectionDoc(b, rows)
    BY <1>1, <2>1, ProjectedIs
  <2>3. Projected(b, rows)
    BY <1>1, <2>1, <2>2 DEF Projected
  <2> HIDE DEF projection
  <2>4. doc = CountyShard(ProjectionDoc(b, rows), s, countyK) /\ ProjectionDoc(b, rows) # Unpublished
    BY <2>1, <2>2
  <2>5. ~(countyK < PublicK)
    BY <1>3, <2>4, Zenon DEF CountyShard
  <2>6. countyK >= PublicK /\ countyK >= 3 /\ PublicK \in Nat
    BY <1>1, <2>5, DocumentAssumption
  <2>7. doc.cells[<<g, m>>] = IF n >= countyK THEN n ELSE SuppressedOrZero
    BY <1>1, <1>3, <2>4, ShardIs
  <2>8. n \in Nat
    BY <1>1, TrueCountSums
  <2> HIDE DEF n
  <2>9. n < countyK
    BY <1>1, <1>3, <2>6, <2>7, <2>8 DEF SuppressedOrZero
  <2>10. PICK r \in rows : r.state = s /\ r.geoid = g
    BY <1>3
  <2>11. ASSUME NEW c \in OneCrashApart(b), Projected(c, rows), TrueCount(c, rows, s, g, m) \in Nat,
                TrueCount(c, rows, s, g, m) # n, TrueCount(c, rows, s, g, m) < countyK,
                \A h, mo : h # g \/ mo # m => TrueCount(c, rows, s, h, mo) = TrueCount(b, rows, s, h, mo)
         PROVE  other(g, m)
    <3>1. ~(TrueCount(b, rows, s, g, m) >= countyK)
      BY <1>1, <2>8, <2>9 DEF n
    <3>2. ~(TrueCount(c, rows, s, g, m) >= countyK)
      BY <1>1, <2>11
    <3>3. ShardOf(c) = doc
      BY <1>1, <2>3, <2>4, <2>6, <2>11, <3>1, <3>2, OtherShard
    <3> HIDE DEF ShardOf
    <3>4. QED
      BY <2>11, <3>3 DEF n
  <2> HIDE DEF other
  <2>12. CASE n + 1 < countyK
    <3>1. PICK c \in OneCrashApart(b) :
            /\ Projected(c, rows)
            /\ TrueCount(c, rows, r.state, r.geoid, m) = TrueCount(b, rows, r.state, r.geoid, m) + 1
            /\ \A h, mo : h # r.geoid \/ mo # m =>
                 TrueCount(c, rows, r.state, h, mo) = TrueCount(b, rows, r.state, h, mo)
      BY <1>1, <1>3, <2>2, CrashMore
    <3>2. TrueCount(c, rows, s, g, m) = n + 1
      BY <2>10, <3>1 DEF n
    <3>3. \A h, mo : h # g \/ mo # m => TrueCount(c, rows, s, h, mo) = TrueCount(b, rows, s, h, mo)
      BY <2>10, <3>1
    <3>4. /\ TrueCount(c, rows, s, g, m) \in Nat /\ TrueCount(c, rows, s, g, m) # n
          /\ TrueCount(c, rows, s, g, m) < countyK
      BY <2>8, <2>12, <3>2
    <3>5. QED
      BY <2>11, <3>1, <3>3, <3>4
  <2>13. CASE n + 1 = countyK
    <3>1. n >= 2
      BY <2>6, <2>8, <2>13
    <3>2. TrueCount(b, rows, r.state, r.geoid, m) >= 2
      BY <2>10, <3>1 DEF n
    <3>3. PICK c \in OneCrashApart(b) :
            /\ Projected(c, rows)
            /\ TrueCount(b, rows, r.state, r.geoid, m) = TrueCount(c, rows, r.state, r.geoid, m) + 1
            /\ \A h, mo : h # r.geoid \/ mo # m =>
                 TrueCount(c, rows, r.state, h, mo) = TrueCount(b, rows, r.state, h, mo)
      BY <1>1, <1>3, <2>2, <3>2, CrashLess
    <3>4. n = TrueCount(c, rows, s, g, m) + 1
      BY <2>10, <3>3 DEF n
    <3>5. \A h, mo : h # g \/ mo # m => TrueCount(c, rows, s, h, mo) = TrueCount(b, rows, s, h, mo)
      BY <2>10, <3>3
    <3>6. TrueCount(c, rows, s, g, m) \in Nat
      <4>1. IsBag(c)
        BY <3>3 DEF Projected, ReviewOf
      <4>2. QED
        BY <4>1, TrueCountSums
    <3>7. TrueCount(c, rows, s, g, m) # n /\ TrueCount(c, rows, s, g, m) < countyK
      BY <1>1, <2>8, <2>13, <3>4, <3>6
    <3>8. QED
      BY <2>11, <3>3, <3>5, <3>6, <3>7
  <2>14. n + 1 < countyK \/ n + 1 = countyK
    BY <1>1, <2>8, <2>9
  <2>15. QED
    BY <2>12, <2>13, <2>14
<1>4. doc # Unpublished =>
        \A g \in Counties[s], m \in ModeSet :
          doc.cells[<<g, m>>] = SuppressedOrZero /\ (\E r \in rows : r.state = s /\ r.geoid = g) => other(g, m)
  <2> HIDE DEF other
  <2>1. QED
    BY <1>3
<1>5. QED
  BY <1>4, Zenon DEF ShardKeepsWithheld

\* A reader of a county shard cannot tell a withheld count from another one: some snapshot that
\* differs in one crash has the same shard (ShardKeepsWithheld, fars_county_publication.py).
THEOREM WithheldStaysSecret == Spec => []WithheldStaysWithheld
<1>1. DocumentInv => WithheldStaysWithheld
  <2> SUFFICES ASSUME DocumentInv, part = "documents", outcome # Pending, NEW s \in States
               PROVE  ShardKeepsWithheld(task.bag, task.rows, s, task.countyK, outcome.shards[s])
    BY DEF WithheldStaysWithheld, Computed
  <2>1. /\ task \in DocumentTasks
        /\ outcome = Documents(task.bag, task.requested, task.rows, task.countyK)
    BY DEF DocumentInv
  <2>2. DocumentRequest(task.bag, task.requested, task.rows, task.countyK)
    BY <2>1, DocumentTaskAssumption
  <2>3. QED
    BY <2>1, <2>2, ShardKeeps
<1>2. QED
  BY <1>1, DocumentInit, DocumentStep, PTL DEF Spec
=============================================================================
