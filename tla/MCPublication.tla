---------------------------- MODULE MCPublication ----------------------------
(* Instances of Publication for TLC: two contributors; a and b are counted *)
(* on one segment, b lies on a vertex of the other one and has expired, x  *)
(* does not validate.                                                      *)
EXTENDS Publication, TLC

CONSTANTS a, b, x, t1, t2

MCReports   == {a, b, x}
MCValid     == {a, b}
MCTokenOf   == a :> t1 @@ b :> t2 @@ x :> t2
MCSegments  == {"s1", "s2"}
MCSegmentOf == [r \in MCReports |-> "s1"]
MCVertexOn  == a :> Missing @@ b :> "s2" @@ x :> Missing
MCExpired   == {b}
MCPasts     == {{}, {a}}
MCUpstream  == {{a, b}, {a, x}}

Call(cmds, args) == [cmd : cmds, arg : args]

MCCommands ==
    Call({"submit"}, MCReports) \cup Call({"approve", "reject"}, Submissions)
    \cup Call({"delete"}, {t1, t2}) \cup Call({"export", "purge", "publish"}, {Missing})
    \cup Call({"intake"}, {"upstream", "export"}) \cup Call({"run"}, {ReportsPath})

Symmetry == Permutations(Processes)
=============================================================================
