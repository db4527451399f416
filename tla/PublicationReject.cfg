\* An approved submission is rejected: one shell, and nothing dies.
SPECIFICATION Spec
CONSTANTS
    a = a
    b = b
    x = x
    t1 = t1
    t2 = t2
    Torn = Torn
    Missing = Missing
    Processes = {p1}
    Reports <- MCReports
    TokenOf <- MCTokenOf
    Valid <- MCValid
    Upstream <- MCUpstream
    Pasts <- MCPasts
    Expired <- MCExpired
    Segments <- MCSegments
    SegmentOf <- MCSegmentOf
    VertexOn <- MCVertexOn
    Commands <- MCCommands
    ReportsPath = "raw"
    MinPublish = 1
    MaxSubmissions = 2
    MaxCommands = 4
    MaxCrashes = 0
INVARIANTS
    RejectedStaysOut
CHECK_DEADLOCK FALSE
