SPECIFICATION Spec
CONSTANTS
    Targets = {t1}
    MaxPending = 1
    MaxRuns = 2
    MaxGeneration = 1
    MaxRestarts = 0
    FilesMayBeLost = FALSE
CHECK_DEADLOCK FALSE
INVARIANTS
    ResultStorable
