SPECIFICATION MCSpec
CONSTANTS
    Targets = {t1, t2}
    MaxPending = 1
    MaxRuns = 3
    MaxGeneration = 2
    MaxRestarts = 2
    FilesMayBeLost = TRUE
SYMMETRY TargetSymmetry
CHECK_DEADLOCK FALSE
INVARIANTS
    OpenSucceeds
    QueueReadable
    NoStaleArtifact
    PendingBounded
    SequencesUnique
    ReceiptNotAhead
    NoOrphanFile
PROPERTIES
    OldestEvictedFirst
    OutcomesFinal
