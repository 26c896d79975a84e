SPECIFICATION DeliverySpec
CONSTANTS
    Targets = {t1}
    MaxPending = 1
    MaxRuns = 2
    MaxGeneration = 1
    MaxRestarts = 2
    FilesMayBeLost = FALSE
    MayReinstall = TRUE
    MayArriveLate = FALSE
CHECK_DEADLOCK FALSE
INVARIANTS
    RecoveredNodeUploads
