----------------------------- MODULE Orderings -----------------------------
(***************************************************************************)
(* What a sort gives, for a relation that is a strict total order.         *)
(***************************************************************************)
EXTENDS Naturals, FiniteSets

\* The elements of a set, each after those that the relation puts before it.
InOrder(S, before) ==
  [i \in 1 .. Cardinality(S) |->
     CHOOSE x \in S : Cardinality({y \in S : <<y, x>> \in before}) = i - 1]
=============================================================================
