\* The desk and the publisher: commands overlap, and one of them dies.
SPECIFICATION Spec
CONSTANTS
    a = a
    b = b
    x = x
    t1 = t1
    t2 = t2
    Torn = Torn
    Missing = Missing
    Processes = {p1, p2}
    Reports <- MCReports
    TokenOf <- MCTokenOf
    Valid <- MCValid
    Upstream <- MCUpstream
    Pasts <- MCPasts
    Expired <- MCExpired
    Segments <- MCSegments
    SegmentOf <- MCSegmentOf
    VertexOn <- MCVertexOn
    Commands <- MCCommands
    ReportsPath = "raw"
    MinPublish = 1
    MaxSubmissions = 2
    MaxCommands = 4
    MaxCrashes = 1
SYMMETRY Symmetry
INVARIANTS
    ErasedStaysErased
    OnlyVettedPublished
    RunHonoursDeletions
    PublicationWhole

    
    
CHECK_DEADLOCK FALSE
