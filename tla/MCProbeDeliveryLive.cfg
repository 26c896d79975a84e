SPECIFICATION LiveSpec
CONSTANTS
    Targets = {t1}
    MaxPending = 1
    MaxRuns = 1
    MaxGeneration = 2
    MaxRestarts = 2
    FilesMayBeLost = FALSE
    MayReinstall = TRUE
    MayArriveLate = TRUE
CHECK_DEADLOCK FALSE
PROPERTIES
    QueueDrains
    RunEnds
