SPECIFICATION MCSpec
CONSTANTS
    Targets = {t1, t2}
    MaxPending = 2
    MaxRuns = 3
    MaxGeneration = 2
    MaxRestarts = 2
    FilesMayBeLost = TRUE
    MayReinstall = TRUE
    MayArriveLate = TRUE
SYMMETRY TargetSymmetry
CHECK_DEADLOCK FALSE
INVARIANTS
    CenterAgrees
    EveryAttemptAccounted
    NeverRefused
    CurrentIsNewest
    ComparedInOrder
    ResetClears
PROPERTIES
    CenterOutcomesFinal
