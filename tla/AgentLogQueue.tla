--------------------------- MODULE AgentLogQueue ---------------------------
(***************************************************************************)
(* Log events on their way from an Agent to the Center: the recorder        *)
(* (src/internal/agent/agentlogs/recorder.go), the queue in state.db        *)
(* (src/internal/agent/state/log.go), the upload loop                       *)
(* (src/internal/agent/control.go) and the log service of the Center        *)
(* (src/internal/center/agentlogs/service.go).                              *)
(*                                                                          *)
(* An event is its number as emitted, a gap the set of events it counts.    *)
(* The key of a queued event grows with its number, so the queue is a set.  *)
(* Levels, times, content and the retention of the Center are left out.     *)
(***************************************************************************)
EXTENDS Naturals, FiniteSets

CONSTANTS
    MaxLogs,         \* bound on events emitted
    MaxAgentLogs,    \* MaxAgentLogEvents, small
    MaxAgentLogBytes,\* MaxAgentLogQueueBytes, small
    LargeLogs,       \* events of two bytes; the others have one
    MaxBatch,        \* batchSize of the upload loop, small
    MaxMemoryLogs,   \* capacity of the recorder's channel
    InvalidLogs,     \* events the Center's validateEvent refuses
    MaxLogStops      \* bound on stops and crashes of the Agent

ASSUME LogAssumption ==
    /\ MaxLogs \in Nat /\ MaxAgentLogs \in Nat /\ MaxAgentLogBytes \in Nat
    /\ MaxBatch \in Nat \ {0} /\ MaxMemoryLogs \in Nat /\ MaxLogStops \in Nat

VARIABLES
    logDisk,    \* state.db: the queued events, the pending and the active gap
    recorder,   \* the recorder: channel, memory drops, the event it holds and how far
    logRun,     \* the process: running, stopping (and since which event), flushed
    logSent,    \* the request of the upload loop, or NoBatch
    logAnswer,  \* the Center has answered it
    logLate,    \* requests whose client is gone
    centerLogs, \* the Center: events it has judged, gaps it has stored
    logCount,   \* events emitted so far
    logStops    \* stops so far

logVars == <<logDisk, recorder, logRun, logSent, logAnswer, logLate, centerLogs, logCount, logStops>>

LogEvent == 1 .. MaxLogs
NoGap == [id |-> 0, events |-> {}]
Gap == [id : LogEvent \cup {0}, events : SUBSET LogEvent]
NoBatch == [gap |-> NoGap, events |-> {}]
Batch == [gap : Gap, events : SUBSET LogEvent]
NewRecorder == [channel |-> {}, drops |-> {}, held |-> 0, counted |-> FALSE]

LogInit ==
    /\ logDisk = [queue |-> {}, pending |-> NoGap, active |-> NoGap]
    /\ recorder = NewRecorder
    /\ logRun = [mode |-> "running", since |-> 0]
    /\ logSent = NoBatch /\ logAnswer = FALSE /\ logLate = {}
    /\ centerLogs = [judged |-> {}, gaps |-> {}]
    /\ logCount = 0 /\ logStops = 0

LogAlive == logRun.mode # "ended"

-----------------------------------------------------------------------------
(* Transactions of the queue                                               *)

\* extendLogGap: new losses go to the pending gap, never to the active one, which
\* may be on its way under its id.
FaultyExtendLogGap(d, lost) ==   \* grows the gap on its way
    IF lost = {} THEN d
    ELSE IF d.active # NoGap THEN [d EXCEPT !.active.events = @ \cup lost]
    ELSE [d EXCEPT !.pending =
            [id |-> IF @.id # 0 THEN @.id ELSE CHOOSE e \in lost : TRUE, events |-> @.events \cup lost]]

ExtendLogGap(d, lost) ==
    IF lost = {} THEN d
    ELSE [d EXCEPT !.pending =
            [id |-> IF @.id # 0 THEN @.id ELSE CHOOSE e \in lost : TRUE, events |-> @.events \cup lost]]

\* The limits of count and bytes, and the oldest events that have to go: those that do
\* not fit together with all newer ones.
LogBytes(q) == Cardinality(q) + Cardinality(q \cap LargeLogs)
LogsFit(q) == Cardinality(q) <= MaxAgentLogs /\ LogBytes(q) <= MaxAgentLogBytes

Overflow(q) == {e \in q : ~LogsFit({f \in q : f >= e})}

EnqueueLog(d, e) ==
    LET q == d.queue \cup {e} IN
    ExtendLogGap([d EXCEPT !.queue = q \ Overflow(q)], Overflow(q))

\* activateLogGap: a gap keeps its id and content until it is acknowledged.
ActivateLogGap(d) ==
    IF d.active # NoGap THEN d ELSE [d EXCEPT !.active = d.pending, !.pending = NoGap]

\* AcknowledgeAgentLogs by id; what was evicted meanwhile is skipped.
FaultyAcknowledgeLogs(d, b) == [d EXCEPT !.queue = @ \ b.events]   \* forgets the gap

AcknowledgeLogs(d, b) ==
    [d EXCEPT !.queue = @ \ b.events,
              !.active = IF @.id = b.gap.id THEN NoGap ELSE @]

-----------------------------------------------------------------------------
(* Recorder                                                                *)

\* Emit, from any goroutine: a full channel drops the event and counts it.
Emit ==
    /\ LogAlive /\ logCount < MaxLogs /\ logCount' = logCount + 1
    /\ recorder' = IF Cardinality(recorder.channel) < MaxMemoryLogs
                   THEN [recorder EXCEPT !.channel = @ \cup {logCount'}]
                   ELSE [recorder EXCEPT !.drops = @ \cup {logCount'}]
    /\ UNCHANGED <<logDisk, logRun, logSent, logAnswer, logLate, centerLogs, logStops>>

RecorderRuns == logRun.mode \in {"running", "stopping"}

ReceiveLog ==
    /\ RecorderRuns /\ recorder.held = 0
    /\ \E e \in recorder.channel :
        /\ \A f \in recorder.channel : e <= f
        /\ recorder' = [recorder EXCEPT !.channel = @ \ {e}, !.held = e, !.counted = FALSE]
    /\ UNCHANGED <<logDisk, logRun, logSent, logAnswer, logLate, centerLogs, logCount, logStops>>

\* persistMemoryDrops, before the event held and at the end of flush.
FaultyFlushDone == logRun.mode = "stopping" /\ recorder.held = 0   \* leaves the channel
FlushDone == logRun.mode = "stopping" /\ recorder.held = 0 /\ recorder.channel = {}

PersistMemoryDrops ==
    /\ \/ RecorderRuns /\ recorder.held # 0 /\ ~recorder.counted
          /\ recorder' = [recorder EXCEPT !.drops = {}, !.counted = TRUE]
          /\ logRun' = logRun
       \/ FlushDone
          /\ recorder' = [recorder EXCEPT !.drops = {}]
          /\ logRun' = [logRun EXCEPT !.mode = "flushed"]
    /\ logDisk' = ExtendLogGap(logDisk, recorder.drops)
    /\ UNCHANGED <<logSent, logAnswer, logLate, centerLogs, logCount, logStops>>

EnqueueAgentLog ==
    /\ RecorderRuns /\ recorder.held # 0 /\ recorder.counted
    /\ logDisk' = EnqueueLog(logDisk, recorder.held)
    /\ recorder' = [recorder EXCEPT !.held = 0, !.counted = FALSE]
    /\ UNCHANGED <<logRun, logSent, logAnswer, logLate, centerLogs, logCount, logStops>>

-----------------------------------------------------------------------------
(* Upload loop and Center                                                  *)

\* PendingAgentLogs: the active gap, then the oldest events as far as the limits of a
\* batch allow.
OldestLogs(q) == {{e \in q : e < n} : n \in 1 .. MaxLogs + 1}

PendingAgentLogs ==
    /\ LogAlive /\ logSent = NoBatch
    /\ logDisk' = ActivateLogGap(logDisk)
    /\ \E es \in OldestLogs(logDisk.queue) :
        /\ logSent' = [gap |-> logDisk'.active, events |-> es]
        /\ logSent' # NoBatch
        /\ Cardinality(es) + (IF logSent'.gap = NoGap THEN 0 ELSE 1) <= MaxBatch
    /\ UNCHANGED <<recorder, logRun, logAnswer, logLate, centerLogs, logCount, logStops>>

\* Upload, one transaction: InsertLogEvent does nothing for an id it has.
StoreBatch(c, b) ==
    [judged |-> c.judged \cup b.events,
     gaps |-> IF b.gap = NoGap \/ \E g \in c.gaps : g.id = b.gap.id THEN c.gaps
              ELSE c.gaps \cup {b.gap}]

UploadAgentLogs ==
    /\ logSent # NoBatch /\ ~logAnswer
    /\ centerLogs' = StoreBatch(centerLogs, logSent)
    /\ logAnswer' = TRUE
    /\ UNCHANGED <<logDisk, recorder, logRun, logSent, logLate, logCount, logStops>>

\* The answer names every event of the batch, accepted or discarded.
AcknowledgeAgentLogs ==
    /\ LogAlive /\ logAnswer
    /\ logDisk' = AcknowledgeLogs(logDisk, logSent)
    /\ logSent' = NoBatch /\ logAnswer' = FALSE
    /\ UNCHANGED <<recorder, logRun, logLate, centerLogs, logCount, logStops>>

\* Nobody waits for the answer any more; a request may still reach the Center (of
\* those that outlived their client one is kept).
AbandonUpload ==
    /\ \/ logLate' = logLate
       \/ logSent # NoBatch /\ ~logAnswer /\ logLate' = {logSent}
    /\ logSent' = NoBatch /\ logAnswer' = FALSE

\* The request or its answer is lost.
UploadLogsFails ==
    /\ LogAlive /\ logSent # NoBatch
    /\ AbandonUpload
    /\ UNCHANGED <<logDisk, recorder, logRun, centerLogs, logCount, logStops>>

LateLogsArrive ==
    /\ \E b \in logLate :
        /\ centerLogs' = StoreBatch(centerLogs, b)
        /\ logLate' = logLate \ {b}
    /\ UNCHANGED <<logDisk, recorder, logRun, logSent, logAnswer, logCount, logStops>>

-----------------------------------------------------------------------------
(* The process                                                             *)

RequestLogStop ==
    /\ logRun.mode = "running" /\ logStops < MaxLogStops
    /\ logRun' = [mode |-> "stopping", since |-> logCount]
    /\ UNCHANGED <<logDisk, recorder, logSent, logAnswer, logLate, centerLogs, logCount, logStops>>

\* The process is gone, with everything in its memory.
LogProcessGone ==
    /\ logRun' = [mode |-> "ended", since |-> logCount]
    /\ recorder' = NewRecorder
    /\ AbandonUpload
    /\ logStops' = logStops + 1
    /\ UNCHANGED <<logDisk, centerLogs, logCount>>

\* RunWithOptions returns when its workers have.
StopLogs ==
    /\ logRun.mode = "flushed" /\ logSent = NoBatch
    /\ LogProcessGone

CrashLogs ==
    /\ LogAlive /\ logStops < MaxLogStops
    /\ LogProcessGone

RestartLogs ==
    /\ logRun.mode = "ended"
    /\ logRun' = [mode |-> "running", since |-> 0]
    /\ UNCHANGED <<logDisk, recorder, logSent, logAnswer, logLate, centerLogs, logCount, logStops>>

-----------------------------------------------------------------------------

LogWork == ReceiveLog \/ PersistMemoryDrops \/ EnqueueAgentLog
LogNext ==
    \/ Emit \/ LogWork
    \/ PendingAgentLogs \/ UploadAgentLogs \/ AcknowledgeAgentLogs \/ UploadLogsFails
    \/ LateLogsArrive
    \/ RequestLogStop \/ StopLogs \/ CrashLogs \/ RestartLogs

LogSpec == LogInit /\ [][LogNext]_logVars

\* Goroutines are scheduled and the process is restarted; the upload loop retries for
\* ever, and one of its requests is answered.  "on" says that the Agent is in use.
LogFairness(on) ==
    /\ WF_logVars(on /\ LogWork)
    /\ WF_logVars(on /\ (StopLogs \/ RestartLogs))
    /\ WF_logVars(on /\ PendingAgentLogs)
    /\ SF_logVars(on /\ UploadAgentLogs) /\ SF_logVars(on /\ AcknowledgeAgentLogs)

FairLogSpec == LogSpec /\ LogFairness(TRUE)

-----------------------------------------------------------------------------
(* Properties                                                              *)

\* Types of the log path of the Agent and the Center; the queue keeps both limits,
\* whatever the sizes of the events that push others out.
LogTypeOK ==
    /\ LogsFit(logDisk.queue)
    /\ logDisk \in [queue : SUBSET LogEvent, pending : Gap, active : Gap]
    /\ recorder \in [channel : SUBSET LogEvent, drops : SUBSET LogEvent,
                     held : LogEvent \cup {0}, counted : BOOLEAN]
    /\ logRun \in [mode : {"running", "stopping", "flushed", "ended"}, since : 0 .. MaxLogs]
    /\ logSent \in Batch /\ logAnswer \in BOOLEAN /\ logLate \subseteq Batch
    /\ centerLogs \in [judged : SUBSET LogEvent, gaps : SUBSET Gap]
    /\ logCount \in 0 .. MaxLogs /\ logStops \in 0 .. MaxLogStops + 1

\* What LossyLog says of an event: the Center's knowledge first, then the disk, then
\* the memory.
LogFate == [e \in LogEvent |->
    IF e \in centerLogs.judged
    THEN IF e \in InvalidLogs THEN "refused" ELSE "delivered"
    ELSE IF e \in logDisk.queue THEN "kept"
    ELSE IF \E g \in centerLogs.gaps : e \in g.events THEN "reported"
    ELSE IF e \in logDisk.pending.events \cup logDisk.active.events THEN "dropped"
    ELSE IF e \in recorder.channel \cup recorder.drops \cup {recorder.held} THEN "volatile"
    ELSE IF e <= logCount THEN "forgotten" ELSE "unborn"]

Promise == INSTANCE LossyLog WITH fate <- LogFate

\* No log event disappears: through both limits of the queue, gaps that grow while one
\* is on its way, lost and late requests, refused events and restarts, each event ends
\* at the Center or in a gap at the Center; the oldest goes first.
LogsImplementPromise == Promise!LossySpec

\* A stop that was requested (Recorder.flush) forgets no event emitted before the request.
StopKeepsLogs ==
    [][StopLogs => \A e \in recorder.channel \cup recorder.drops \cup {recorder.held} :
                       e = 0 \/ e > logRun.since]_logVars

\* An event on disk reaches the Center, or a gap that counts it does.
LogsReachCenter ==
    \A e \in LogEvent :
        LogFate[e] \in {"kept", "dropped"} ~> LogFate[e] \in {"delivered", "refused", "reported"}
=============================================================================
