------------------------------ MODULE Clusters ------------------------------
(***************************************************************************)
(* Which segments are published as clusters, how that survives another     *)
(* correction, and the corridors merged from them.                         *)
(*                                                                         *)
(* A network gives every segment [street, ends, spanned]; ends is the set  *)
(* of the nodes it joins, after the endpoint tolerance, and spanned says   *)
(* that its name has a cross-street span.  The statistics are              *)
(* [p, positive, alone, count, floor, alpha]: p-values and the level alpha *)
(* in one integer unit, the segments with a positive score, those whose    *)
(* neighbourhood is only themselves, report counts and min_publish_n.      *)
(***************************************************************************)
EXTENDS Naturals, Sequences, FiniteSets, FiniteSetsExt, SequencesExt, Orderings

\* The level of a correction is a fraction [num, den].
Scaled(level, factor) == [num |-> level.num * factor.den, den |-> level.den * factor.num]

\* The m-th harmonic number as a fraction.
Harmonic(m) ==
  LET sum[i \in 0 .. m] ==
        IF i = 0 THEN [num |-> 0, den |-> 1]
        ELSE [num |-> sum[i - 1].num * i + sum[i - 1].den, den |-> sum[i - 1].den * i]
  IN sum[m]

\* The segments by their p-values.
ByP(p) ==
  InOrder(DOMAIN p, {d \in (DOMAIN p) \X (DOMAIN p) :
                       p[d[1]] < p[d[2]] \/ (p[d[1]] = p[d[2]] /\ d[1] < d[2])})

\* Mutant: the procedure stops at the first rank that fails.
StepDown(p, level) ==
  LET m       == Cardinality(DOMAIN p)
      passing == {rank \in 1..m : \A i \in 1..rank : p[ByP(p)[i]] * m * level.den <= i * level.num}
  IN {ByP(p)[i] : i \in 1..Max(passing \cup {0})}

\* Benjamini-Hochberg: everything up to the last rank whose p-value is small enough.
BenjaminiHochberg(p, level) ==
  LET m       == Cardinality(DOMAIN p)
      passing == {rank \in 1..m : p[ByP(p)[rank]] * m * level.den <= rank * level.num}
  IN {ByP(p)[i] : i \in 1..Max(passing \cup {0})}

\* Benjamini-Yekutieli: the same at the level divided by the harmonic number.
BenjaminiYekutieli(p, level) ==
  BenjaminiHochberg(p, Scaled(level, Harmonic(Cardinality(DOMAIN p))))

Significant(stats) ==
  (BenjaminiHochberg(stats.p, stats.alpha) \cap stats.positive) \ stats.alone

\* k-anonymity: a count below the floor is withheld unless it is zero.
Publishable(stats) == {s \in DOMAIN stats.count : stats.count[s] \notin 1..(stats.floor - 1)}

DependenceRobustness(stats) ==
  LET published == Significant(stats)
      survivors == published \cap BenjaminiYekutieli(stats.p, stats.alpha)
  IN IF published = {} THEN [verdict |-> "not_evaluated", survivors |-> {}]
     ELSE [verdict |-> IF survivors = published THEN "robust" ELSE "not_robust",
           survivors |-> survivors]

\* What is tested: segments of the network that are numbered and counted, at a level.
ClusterRequest(network, stats) ==
  /\ IsFiniteSet(DOMAIN stats.p) /\ DOMAIN stats.p \subseteq Nat
  /\ DOMAIN stats.p \subseteq DOMAIN network /\ DOMAIN stats.p \subseteq DOMAIN stats.count
  /\ \A s \in DOMAIN stats.p : stats.p[s] \in Nat /\ stats.count[s] \in Nat
  /\ stats.floor \in Nat /\ stats.alpha \in [num : Nat, den : Nat \ {0}]
  /\ \A s \in DOMAIN network : \E a, b \in network[s].ends : network[s].ends = {a, b}

Touching(network, s, t) == s # t /\ network[s].ends \cap network[t].ends # {}

\* The segments of one street that are reached from s over shared nodes.
Component(network, street, s) ==
  LET Closed(C) == \A t \in C : \A u \in street : Touching(network, t, u) => u \in C
  IN {t \in street : \A C \in SUBSET street : s \in C /\ Closed(C) => t \in C}

(***************************************************************************)
(* The chain of a component: every order the walk may take, which starts   *)
(* at some end (the code takes the first of a list whose order comes from  *)
(* iterating over sets), or <<>> when a member touches three others.       *)
(***************************************************************************)
Chains(network, component) ==
  LET Next(s) == {t \in component : Touching(network, s, t)}
      ends    == {s \in component : Cardinality(Next(s)) <= 1}
      starts  == IF ends = {} THEN component ELSE ends
      n       == Cardinality(component)
  IN IF \E s \in component : Cardinality(Next(s)) > 2 THEN {<<>>}
     ELSE {w \in [1..n -> component] :
             /\ w[1] \in starts
             /\ \A i \in 2..n : w[i] \in Next(w[i - 1])
             /\ \A i \in 3..n : w[i] # w[i - 2]}

CorridorCount(stats, members) == MapThenSumSet(LAMBDA s : stats.count[s], members)

Corridors(network, stats) ==
  LET eligible  == Significant(stats) \cap Publishable(stats) \cap DOMAIN network
      Street(s) == {t \in eligible : network[t].street = network[s].street}
      merged    == {C \in {Component(network, Street(s), s) : s \in eligible} : Cardinality(C) >= 2}
  IN {[members |-> C, chains |-> Chains(network, C), count |-> CorridorCount(stats, C)] : C \in merged}

ClusterReport(network, stats) ==
  [significant |-> Significant(stats), robustness |-> DependenceRobustness(stats),
   corridors |-> Corridors(network, stats)]
-----------------------------------------------------------------------------
(***************************************************************************)
(* The published clusters are the largest set that keeps its own promise:  *)
(* its members' p-values are at most the share |S|/m of the level.  What   *)
(* the stricter correction finds the other one finds too, and it says      *)
(* robust only when it drops none.  Every two touching published clusters  *)
(* of a street whose names have spans are in one corridor, no segment is   *)
(* in two, and a corridor holds no segment that was withheld or is not a   *)
(* cluster.  Only one that branches may go without an order; any order     *)
(* that is listed has every member once, in steps from one segment to one  *)
(* it meets, so that without a branch it goes along the street, in either  *)
(* direction.  A branch of three segments does get an order, although the  *)
(* docstring of _order_chain (corridors.py:142-143) says not, and segments *)
(* of a street without spans are merged, although 47-48 says never.        *)
(***************************************************************************)
Branching(network, C) ==
  \E s, t, u \in C : /\ s # t /\ s # u /\ t # u
                     /\ network[s].ends \cap network[t].ends \cap network[u].ends # {}

ClustersHold(network, stats, report) ==
  LET m == Cardinality(DOMAIN stats.p)
      Promise(S) == \A s \in S : stats.p[s] * m * stats.alpha.den <= Cardinality(S) * stats.alpha.num
      found  == UNION {S \in SUBSET DOMAIN stats.p : Promise(S)}
      strict == report.robustness.survivors
      withheld == {s \in DOMAIN stats.count : 0 < stats.count[s] /\ stats.count[s] < stats.floor}
  IN /\ report.significant = {s \in found : s \in stats.positive /\ s \notin stats.alone}
     /\ BenjaminiYekutieli(stats.p, stats.alpha) \subseteq found
     /\ strict \subseteq report.significant
     /\ (report.robustness.verdict = "robust")
          <=> (strict = report.significant /\ report.significant # {})
     /\ \A s \in strict : stats.p[s] * m * Harmonic(m).num * stats.alpha.den
                            <= m * Harmonic(m).den * stats.alpha.num
     /\ \A c \in report.corridors : c.members \subseteq report.significant \ withheld
     /\ \A c, d \in report.corridors : c # d => c.members \cap d.members = {}
     /\ \A s, t \in {u \in report.significant \ withheld : network[u].spanned} :
          Touching(network, s, t) /\ network[s].street = network[t].street
            => \E c \in report.corridors : {s, t} \subseteq c.members
     /\ \A c \in report.corridors :
          /\ \A s, t \in c.members : network[s].street = network[t].street
          /\ c.chains # {} /\ (<<>> \in c.chains => Branching(network, c.members))
          /\ \A w \in c.chains \ {<<>>} :
               /\ Len(w) = Cardinality(c.members) /\ ToSet(w) = c.members
               /\ \A i \in 1..(Len(w) - 1) : Touching(network, w[i], w[i + 1])
=============================================================================
