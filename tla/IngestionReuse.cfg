\* The receipt history when callers reuse attempt ids: one runner, three calls.
SPECIFICATION Spec
CONSTANTS
    x1 = x1
    x2 = x2
    y1 = y1
    y2 = y2
    Raws <- MCRaws
    Norms <- MCNorms
    Normalize <- MCNormalize
    AttemptIds <- MCAttemptIds
    None = None
    Settled = Settled
    Faults = {"exception", "interrupt", "kill", "read", "unlink"}
    MaxFaults = 2
    Runners = {r1}
    ClockSteps = {1}
    MaxRuns = 3
    ReuseIds = TRUE
SYMMETRY Symmetry
INVARIANTS
    ChainResolves
    FailureReceiptsTruthful
    ReceiptsResolve
CHECK_DEADLOCK FALSE
