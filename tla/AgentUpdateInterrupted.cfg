SPECIFICATION FairUpdateSpec
CONSTANTS
    MaxTasks = 1
    MaxPolls = 1
    MaxReboots = 1
CHECK_DEADLOCK FALSE
PROPERTIES
    UnhealthyIsRestored
