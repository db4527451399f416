----------------------------- MODULE MCIngestion -----------------------------
(* Instances of Ingestion for TLC: two raw payloads, each with a normalized *)
(* payload of its own, and attempt ids numbered like the runs.              *)
EXTENDS Ingestion, TLC

CONSTANTS x1, x2, y1, y2

MCAttemptIds == 1 .. MaxRuns
MCRaws       == {x1, x2}
MCNorms      == {y1, y2}
MCNormalize  == x1 :> y1 @@ x2 :> y2

\* Runners may be exchanged, and so may the two payloads with what they become.
Swap     == x1 :> x2 @@ x2 :> x1 @@ y1 :> y2 @@ y2 :> y1
Same     == [v \in MCRaws \cup MCNorms |-> v]
Symmetry == {p @@ q : p \in Permutations(Runners), q \in {Same, Swap}}
=============================================================================
