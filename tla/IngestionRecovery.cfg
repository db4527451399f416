\* Recovery from any one failure that is not a kill; calls end.
SPECIFICATION FairSpec
CONSTANTS
    x1 = x1
    x2 = x2
    y1 = y1
    y2 = y2
    Raws <- MCRaws
    Norms <- MCNorms
    Normalize <- MCNormalize
    AttemptIds <- MCAttemptIds
    None = None
    Settled = Settled
    Faults = {"exception", "interrupt", "read", "power"}
    MaxFaults = 1
    Runners = {r1}
    ClockSteps = {1}
    MaxRuns = 3
    ReuseIds = FALSE
INVARIANTS
    MarkerPreserved
PROPERTIES
    RunsEnd
CHECK_DEADLOCK FALSE
