------------------------------ MODULE MCLineage ------------------------------
(* Instances of LineageVerifier for TLC: three payloads; the third reports   *)
(* fewer records, and each is a year's contract revision of its own.         *)
EXTENDS LineageVerifier, TLC

CONSTANTS x1, x2, x3, y1, y2, y3

MCAttemptIds == 1 .. MaxRuns
MCRaws       == {x1, x2, x3}
MCNorms      == {y1, y2, y3}
MCNormalize  == x1 :> y1 @@ x2 :> y2 @@ x3 :> y3
MCMetric     == y1 :> 2 @@ y2 :> 2 @@ y3 :> 1
MCPayloads   == "fars" :> {x1, x3} @@ "fars-joined" :> {x1, x2}
                @@ "fars-year" :> {x1, x2}
MCReceipts   == "fars" :> 2 @@ "fars-joined" :> 3 @@ "fars-year" :> 2
MCRevision   == y1 :> 1 @@ y2 :> 2 @@ y3 :> 3
=============================================================================
