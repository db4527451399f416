\* One runner, three calls and one verifier, for each of the three sources.
SPECIFICATION LineageSpec
CONSTANTS
    x1 = x1
    x2 = x2
    x3 = x3
    y1 = y1
    y2 = y2
    y3 = y3
    Raws <- MCRaws
    Norms <- MCNorms
    Normalize <- MCNormalize
    AttemptIds <- MCAttemptIds
    None = None
    Settled = Settled
    Faults = {"exception", "kill"}
    MaxFaults = 1
    Runners = {r1}
    ClockSteps = {0, 1}
    MaxRuns = 3
    ReuseIds = FALSE
    Sources = {"fars", "fars-joined", "fars-year"}
    Payloads <- MCPayloads
    Metric <- MCMetric
    Waived = {}
    Revision <- MCRevision
    MaxReceipts <- MCReceipts
    MaxSuccesses <- MCReceipts
INVARIANTS
    AcceptedLineage
    AcceptedWasActive
    YearChain
    WithinCapacity
PROPERTIES
    RejectionHasCause
CHECK_DEADLOCK FALSE
