\* A retry that trusts an entry nobody synced, then a power loss.
SPECIFICATION Spec
CONSTANTS
    x1 = x1
    x2 = x2
    y1 = y1
    y2 = y2
    Raws <- MCRaws
    Norms <- MCNorms
    Normalize <- MCNormalize
    AttemptIds <- MCAttemptIds
    None = None
    Settled = Settled
    Faults = {"interrupt", "power"}
    MaxFaults = 2
    Runners = {r1}
    ClockSteps = {1}
    MaxRuns = 3
    ReuseIds = FALSE
SYMMETRY Symmetry
INVARIANTS
    MarkerPreserved
CHECK_DEADLOCK FALSE
