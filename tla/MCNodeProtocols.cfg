SPECIFICATION MCSpec
CONSTANTS
    Paths = {11, 12}
    PublicIPs = {1, 2}
    MaxPathEvents = 2
    MaxAddressEvents = 6
    MaxAddressRevisions = 2
    OwnerNodes = {1, 2}
    PathNumbers = {1}
    OwnedIPs = {1, 2}
    MaxOwnerRevisions = 3
    MaxSwitches = 1
    Callers = {c1, c2}
    MaxSessions = 2
    MaxConnections = 2
    MaxChanges = 1
    Polls = {p1, p2}
    MaxDeletionStops = 2
    MaxTasks = 2
    MaxPolls = 2
    MaxReboots = 1
CHECK_DEADLOCK FALSE
INVARIANTS
    AddressRefusals
    EveryAddressEventAccounted
    SetEventsBalance
    TargetsFollow
    NoConnectionOutlivesLease
    WakeNotLost
    DeletedNodeIsGone
    TaskOnce
    OutcomesAgree
    UpdateRecoverable
