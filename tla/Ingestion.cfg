\* Safety of the transaction: two runners, three calls, two failures.
SPECIFICATION Spec
CONSTANTS
    x1 = x1
    x2 = x2
    y1 = y1
    y2 = y2
    Raws <- MCRaws
    Norms <- MCNorms
    Normalize <- MCNormalize
    AttemptIds <- MCAttemptIds
    None = None
    Settled = Settled
    Faults = {"exception", "interrupt", "kill", "read", "unlink"}
    MaxFaults = 2
    Runners = {r1, r2}
    ClockSteps = {1}
    MaxRuns = 3
    ReuseIds = FALSE
SYMMETRY Symmetry
INVARIANTS
    TypeOK
    OneWriter
    ResultTruthful
    MarkerResolves
    Reconcilable
PROPERTIES
    SupersededIsArchived
    ImplementsDataset
    StaleLockHasCause
CHECK_DEADLOCK FALSE
