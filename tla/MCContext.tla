------------------------------ MODULE MCContext ------------------------------
(* An instance of ContextActivation for TLC: the second joined generation   *)
(* reports fewer records than the first and completes when the first does,  *)
(* and a third brings the first one's content back; the third activation    *)
(* ties with the second.  The configurations are model values, all alike.   *)
EXTENDS ContextActivation, TLC

MCPayload == [j \in 1 .. MaxJoined |-> IF j = 2 THEN "fewer" ELSE "full"]

MCCounts == [p \in Payloads |-> IF p = "fewer" THEN 1 ELSE 2]

MCJoinedTime == [j \in 1 .. MaxJoined |-> IF j = 2 THEN 1 ELSE j]

MCJoinedPlace == [j \in 1 .. MaxJoined |-> j]

MCContextTime == [i \in 1 .. MaxContext |-> IF i = 3 THEN 2 ELSE i]

ConfigSymmetry == Permutations(Configs)
=============================================================================
