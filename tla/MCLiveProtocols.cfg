SPECIFICATION MCSpec
CONSTANTS
    MaxGeneration = 4
    MaxLogs = 3
    MaxAgentLogs = 2
    MaxAgentLogBytes = 2
    LargeLogs = {2}
    MaxBatch = 1
    MaxMemoryLogs = 1
    InvalidLogs = {1}
    MaxLogStops = 1
    Events = {e1, e2}
    Senders = {s1}
    JavaScript = {}
    Selected <- EverySender
    MaxActive = 1
    MaxAttempts = 2
    FixedWorkers = 1
    MaxCenterStops = 1
    MaxRuleEdits = 1
    MaxTasks = 1
    MaxPolls = 1
    MaxReboots = 0
CHECK_DEADLOCK FALSE
INVARIANTS
    ProbesOfGeneration
    AgentFollows
    CenterReopens
    DeliveriesSound
PROPERTIES
    LogsImplementPromise
    StopKeepsLogs
    AgentLearns
    LogsReachCenter
    ActiveProtected
    EventsSettle
    TaskEnds
    UpdateEnds
