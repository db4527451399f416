\* Four calls, at most three of each source, one of which may break, and one reader;
\* a history may hold three receipts.
SPECIFICATION Spec
CONSTANTS
    MaxJoined = 3
    MaxContext = 3
    MaxCalls = 4
    MaxFailures = 1
    MaxSuccesses = 3
    MaxReceipts = 3
    Configs = {a, b}
    Payloads = {"full", "fewer"}
    Payload <- MCPayload
    Counts <- MCCounts
    JoinedTime <- MCJoinedTime
    JoinedPlace <- MCJoinedPlace
    ContextTime <- MCContextTime
    None = None
    Settled = Settled
SYMMETRY ConfigSymmetry
INVARIANTS
    EvidenceSpansCommit
    ContextChainReplays
PROPERTIES
    AcceptedPairCoexisted
    RefusalHasCause
CHECK_DEADLOCK FALSE
