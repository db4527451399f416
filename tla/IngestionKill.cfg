\* A kill between the link and the unlink of _install_immutable.
SPECIFICATION Spec
CONSTANTS
    x1 = x1
    x2 = x2
    y1 = y1
    y2 = y2
    Raws <- MCRaws
    Norms <- MCNorms
    Normalize <- MCNormalize
    AttemptIds <- MCAttemptIds
    None = None
    Settled = Settled
    Faults = {"kill"}
    MaxFaults = 1
    Runners = {r1}
    ClockSteps = {1}
    MaxRuns = 3
    ReuseIds = FALSE
SYMMETRY Symmetry
INVARIANTS
    InterruptionReconciled
CHECK_DEADLOCK FALSE
