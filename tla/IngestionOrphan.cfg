\* A success receipt that survives the rollback of its own activation.
SPECIFICATION Spec
CONSTANTS
    x1 = x1
    x2 = x2
    y1 = y1
    y2 = y2
    Raws <- MCRaws
    Norms <- MCNorms
    Normalize <- MCNormalize
    AttemptIds <- MCAttemptIds
    None = None
    Settled = Settled
    Faults = {"exception"}
    MaxFaults = 1
    Runners = {r1}
    ClockSteps = {1}
    MaxRuns = 3
    ReuseIds = FALSE
SYMMETRY Symmetry
INVARIANTS
    AuditChainLinear
CHECK_DEADLOCK FALSE
