SPECIFICATION Spec
CONSTANTS
    MaxGeneration = 2
CHECK_DEADLOCK FALSE
INVARIANTS
    ResetLeavesNothing
