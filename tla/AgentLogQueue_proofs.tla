------------------------ MODULE AgentLogQueue_proofs ------------------------
(***************************************************************************)
(* The log path of an Agent implements LossyLog, keeps its limits, and      *)
(* forgets nothing when it is stopped, for any numbers of events, limits,   *)
(* sizes of events and batches, and any stops and crashes.                  *)
(***************************************************************************)
EXTENDS AgentLogQueue, FiniteNaturals, FiniteSetTheorems, TLAPS

-----------------------------------------------------------------------------
(* Types                                                                   *)

Disk == [queue : SUBSET LogEvent, pending : Gap, active : Gap]
DiskOK == logDisk \in Disk
RecorderOK == recorder \in [channel : SUBSET LogEvent, drops : SUBSET LogEvent,
                            held : LogEvent \cup {0}, counted : BOOLEAN]
RunOK == /\ logRun \in [mode : {"running", "stopping", "flushed", "ended"}, since : 0 .. MaxLogs]
         /\ logCount \in 0 .. MaxLogs /\ logStops \in 0 .. MaxLogStops + 1
         /\ logRun.mode \in {"stopping", "flushed"} => logStops < MaxLogStops
SentOK == logSent \in Batch /\ logAnswer \in BOOLEAN /\ logLate \subseteq Batch
CenterOK == centerLogs \in [judged : SUBSET LogEvent, gaps : SUBSET Gap]
LogTypes == DiskOK /\ RecorderOK /\ RunOK /\ SentOK /\ CenterOK

LEMMA ExtendTypes ==
  ASSUME NEW d \in Disk, NEW lost \in SUBSET LogEvent
  PROVE  LET r == ExtendLogGap(d, lost) IN
         /\ r \in Disk /\ r.queue = d.queue /\ r.active = d.active
         /\ r.pending.events = d.pending.events \cup lost
         /\ \/ r.pending.id = d.pending.id
            \/ d.pending.id = 0 /\ r.pending.id \in lost
         /\ lost # {} => r.pending.id # 0
<1>1. CASE lost = {}
  BY <1>1 DEF ExtendLogGap, Disk, Gap
<1>2. CASE lost # {}
  <2> DEFINE id == IF d.pending.id # 0 THEN d.pending.id ELSE CHOOSE e \in lost : TRUE
             p == [id |-> id, events |-> d.pending.events \cup lost]
  <2>1. (CHOOSE e \in lost : TRUE) \in lost
    BY <1>2
  <2>2. /\ id = d.pending.id \/ (d.pending.id = 0 /\ id \in lost)
        /\ id \in LogEvent
    <3>1. d.pending \in Gap
      BY DEF Disk
    <3>2. d.pending.id \in LogEvent \cup {0}
      BY <3>1 DEF Gap
    <3>3. CASE d.pending.id # 0
      BY <3>2, <3>3
    <3>4. CASE d.pending.id = 0
      BY <2>1, <3>4
    <3> QED
      BY <3>3, <3>4
  <2> HIDE DEF id
  <2>3. p \in Gap
    BY <2>2 DEF Disk, Gap
  <2>4. ExtendLogGap(d, lost) = [d EXCEPT !.pending = p]
    BY <1>2 DEF ExtendLogGap, id
  <2>5. id # 0
    BY <2>2, LogAssumption DEF LogEvent
  <2> QED
    BY <2>2, <2>3, <2>4, <2>5 DEF Disk
<1> QED
  BY <1>1, <1>2

LEMMA OverflowTypes ==
  ASSUME NEW d \in Disk, NEW e \in LogEvent
  PROVE  LET q == d.queue \cup {e}
             r == EnqueueLog(d, e) IN
         /\ q \in SUBSET LogEvent /\ Overflow(q) \subseteq q
         /\ r \in Disk /\ r.queue = q \ Overflow(q) /\ r.active = d.active
         /\ r.pending.events = d.pending.events \cup Overflow(q)
         /\ \/ r.pending.id = d.pending.id
            \/ d.pending.id = 0 /\ r.pending.id \in Overflow(q)
         /\ Overflow(q) # {} => r.pending.id # 0
<1> DEFINE q == d.queue \cup {e}
           c == [d EXCEPT !.queue = q \ Overflow(q)]
<1>1. q \in SUBSET LogEvent /\ Overflow(q) \subseteq q
  BY DEF Overflow, Disk
<1>2. c \in Disk /\ c.queue = q \ Overflow(q) /\ c.active = d.active /\ c.pending = d.pending
  BY <1>1 DEF Disk
<1>3. EnqueueLog(d, e) = ExtendLogGap(c, Overflow(q))
  BY DEF EnqueueLog
<1> HIDE DEF c, q
<1>4. LET r == ExtendLogGap(c, Overflow(q)) IN
      /\ r \in Disk /\ r.queue = c.queue /\ r.active = c.active
      /\ r.pending.events = c.pending.events \cup Overflow(q)
      /\ \/ r.pending.id = c.pending.id
         \/ c.pending.id = 0 /\ r.pending.id \in Overflow(q)
      /\ Overflow(q) # {} => r.pending.id # 0
  <2>1. Overflow(q) \in SUBSET LogEvent
    BY <1>1
  <2> QED
    BY <1>2, <2>1, ExtendTypes
<1>5. EnqueueLog(d, e) = ExtendLogGap(c, Overflow(q))
  BY <1>3
<1> QED
  BY <1>1, <1>2, <1>4, <1>5 DEF q

LEMMA StoreTypes ==
  ASSUME CenterOK, NEW b \in Batch
  PROVE  LET c == StoreBatch(centerLogs, b) IN
         /\ c \in [judged : SUBSET LogEvent, gaps : SUBSET Gap]
         /\ c.judged = centerLogs.judged \cup b.events
         /\ c.gaps \in {centerLogs.gaps, centerLogs.gaps \cup {b.gap}}
         /\ \/ c.gaps = centerLogs.gaps \cup {b.gap}
            \/ c.gaps = centerLogs.gaps /\ (b.gap = NoGap \/ \E g \in centerLogs.gaps : g.id = b.gap.id)
BY DEF CenterOK, StoreBatch, Batch

LEMMA NextLogTypes == LogTypes /\ [LogNext]_logVars => LogTypes'
<1> SUFFICES ASSUME LogTypes, [LogNext]_logVars PROVE LogTypes'
  OBVIOUS
<1> DiskOK /\ RecorderOK /\ RunOK /\ SentOK /\ CenterOK
  BY DEF LogTypes
<1>0. NewRecorder \in [channel : SUBSET LogEvent, drops : SUBSET LogEvent,
                       held : LogEvent \cup {0}, counted : BOOLEAN]
      /\ NoGap \in Gap /\ NoBatch \in Batch
  BY DEF NewRecorder, NoBatch, NoGap, Batch, Gap
<1>1. CASE Emit
  <2>1. logCount' \in LogEvent /\ logCount' \in 0 .. MaxLogs
    BY <1>1, LogAssumption DEF Emit, RunOK, LogEvent
  <2>2. RecorderOK'
    BY <1>1, <2>1 DEF Emit, RecorderOK
  <2> QED
    BY <1>1, <2>1, <2>2 DEF Emit, LogTypes, DiskOK, RunOK, SentOK, CenterOK
<1>2. CASE ReceiveLog
  <2>1. RecorderOK'
    BY <1>2 DEF ReceiveLog, RecorderOK
  <2> QED
    BY <1>2, <2>1 DEF ReceiveLog, LogTypes, DiskOK, RunOK, SentOK, CenterOK
<1>3. CASE PersistMemoryDrops
  <2>1. DiskOK'
    BY <1>3, ExtendTypes DEF PersistMemoryDrops, DiskOK, RecorderOK
  <2>2. RecorderOK'
    BY <1>3 DEF PersistMemoryDrops, RecorderOK
  <2>3. RunOK'
    BY <1>3 DEF PersistMemoryDrops, RecorderRuns, FlushDone, RunOK
  <2> QED
    BY <1>3, <2>1, <2>2, <2>3 DEF PersistMemoryDrops, LogTypes, SentOK, CenterOK
<1>4. CASE EnqueueAgentLog
  <2>1. DiskOK'
    BY <1>4, OverflowTypes DEF EnqueueAgentLog, DiskOK, RecorderOK
  <2>2. RecorderOK'
    BY <1>4 DEF EnqueueAgentLog, RecorderOK
  <2> QED
    BY <1>4, <2>1, <2>2 DEF EnqueueAgentLog, LogTypes, RunOK, SentOK, CenterOK
<1>5. CASE PendingAgentLogs
  <2>1. DiskOK'
    BY <1>0, <1>5 DEF PendingAgentLogs, ActivateLogGap, DiskOK, Disk
  <2>2. PICK es \in OldestLogs(logDisk.queue) : logSent' = [gap |-> logDisk'.active, events |-> es]
    BY <1>5 DEF PendingAgentLogs
  <2>3. es \in SUBSET LogEvent
    BY DEF OldestLogs, DiskOK, Disk
  <2>4. SentOK'
    BY <1>5, <2>1, <2>2, <2>3 DEF PendingAgentLogs, SentOK, Batch, DiskOK, Disk
  <2> QED
    BY <1>5, <2>1, <2>4 DEF PendingAgentLogs, LogTypes, RecorderOK, RunOK, CenterOK
<1>6. CASE UploadAgentLogs
  BY <1>6, StoreTypes DEF UploadAgentLogs, LogTypes, DiskOK, RecorderOK, RunOK, SentOK, CenterOK
<1>7. CASE AcknowledgeAgentLogs
  <2>1. DiskOK'
    BY <1>0, <1>7 DEF AcknowledgeAgentLogs, AcknowledgeLogs, DiskOK, Disk
  <2> QED
    BY <1>0, <1>7, <2>1 DEF AcknowledgeAgentLogs, LogTypes, RecorderOK, RunOK, SentOK, CenterOK
<1>8. ASSUME AbandonUpload PROVE SentOK'
  BY <1>0, <1>8 DEF AbandonUpload, SentOK
<1>9. CASE UploadLogsFails
  BY <1>8, <1>9 DEF UploadLogsFails, LogTypes, DiskOK, RecorderOK, RunOK, CenterOK
<1>10. CASE LateLogsArrive
  <2>1. PICK b \in logLate : centerLogs' = StoreBatch(centerLogs, b) /\ logLate' = logLate \ {b}
    BY <1>10 DEF LateLogsArrive
  <2>2. CenterOK' /\ SentOK'
    BY <1>10, <2>1, StoreTypes DEF LateLogsArrive, SentOK, CenterOK
  <2> QED
    BY <1>10, <2>2 DEF LateLogsArrive, LogTypes, DiskOK, RecorderOK, RunOK
<1>11. CASE RequestLogStop
  BY <1>11 DEF RequestLogStop, LogTypes, DiskOK, RecorderOK, RunOK, SentOK, CenterOK
<1>12. CASE StopLogs \/ CrashLogs
  <2>1. LogProcessGone /\ logStops < MaxLogStops
    BY <1>12 DEF StopLogs, CrashLogs, RunOK
  <2>2. RunOK'
    BY <2>1, LogAssumption DEF LogProcessGone, RunOK
  <2> QED
    BY <1>0, <1>8, <2>1, <2>2 DEF LogProcessGone, LogTypes, DiskOK, RecorderOK, CenterOK
<1>13. CASE RestartLogs
  BY <1>13, LogAssumption DEF RestartLogs, LogTypes, DiskOK, RecorderOK, RunOK, SentOK, CenterOK
<1>14. CASE UNCHANGED logVars
  BY <1>14 DEF logVars, LogTypes, DiskOK, RecorderOK, RunOK, SentOK, CenterOK
<1> QED
  BY <1>1, <1>2, <1>3, <1>4, <1>5, <1>6, <1>7, <1>9, <1>10, <1>11, <1>12, <1>13, <1>14
     DEF LogNext, LogWork

-----------------------------------------------------------------------------
(* Limits of the queue                                                     *)

LEMMA EventsAreNaturals == LogEvent \subseteq Nat /\ 0 \notin LogEvent
BY LogAssumption DEF LogEvent

\* Part of a queue that fits, fits.
LEMMA PartFits ==
  ASSUME NEW T \in SUBSET LogEvent, NEW S \in SUBSET T, LogsFit(T)
  PROVE  LogsFit(S)
<1>1. IsFiniteSet(T)
  <2>1. IsFiniteSet(1 .. MaxLogs)
    BY LogAssumption, FS_Interval
  <2> QED
    BY <2>1, FS_Subset DEF LogEvent
<1>2. IsFiniteSet(S) /\ Cardinality(S) <= Cardinality(T)
      /\ Cardinality(S) \in Nat /\ Cardinality(T) \in Nat
  BY <1>1, FS_Subset, FS_CardinalityType
<1> DEFINE s == S \cap LargeLogs
           t == T \cap LargeLogs
<1>3. IsFiniteSet(t) /\ s \in SUBSET t
  BY <1>1, FS_Subset
<1> HIDE DEF s, t
<1>4. IsFiniteSet(s) /\ Cardinality(s) <= Cardinality(t)
      /\ Cardinality(s) \in Nat /\ Cardinality(t) \in Nat
  BY <1>3, FS_Subset, FS_CardinalityType
<1> QED
  BY <1>2, <1>4, LogAssumption DEF LogsFit, LogBytes, s, t

LEMMA EmptyFits == LogsFit({})
<1>1. Cardinality({}) = 0 /\ {} \cap LargeLogs = {}
  BY FS_EmptySet
<1> QED
  BY <1>1, LogAssumption DEF LogsFit, LogBytes

\* What is left after the oldest are gone fits.
LEMMA RestFits ==
  ASSUME NEW q \in SUBSET LogEvent
  PROVE  LogsFit(q \ Overflow(q))
<1> DEFINE r == q \ Overflow(q)
<1>1. r \in SUBSET Nat
  BY EventsAreNaturals
<1>2. CASE r = {}
  BY <1>2, EmptyFits
<1>3. CASE r # {}
  <2> HIDE DEF r
  <2>1. PICK n \in r : \A m \in r : n <= m
    BY <1>1, <1>3, NatMinimum
  <2> DEFINE newer == {f \in q : f >= n}
  <2>2. LogsFit(newer)
    BY <2>1 DEF r, Overflow
  <2>3. newer \in SUBSET LogEvent /\ r \in SUBSET newer
    BY <1>1, <2>1 DEF r, LogEvent
  <2> HIDE DEF newer
  <2> QED
    BY <2>2, <2>3, PartFits DEF r
<1> QED
  BY <1>2, <1>3

\* An event is not pushed out while an older one stays.
LEMMA OldestGo ==
  ASSUME NEW q \in SUBSET LogEvent, NEW e \in q, NEW f \in Overflow(q), e < f
  PROVE  e \in Overflow(q)
<1> DEFINE N(x) == {g \in q : g >= x}
<1>1. f \in q /\ ~LogsFit(N(f))
  BY DEF Overflow
<1>2. N(e) \in SUBSET LogEvent /\ N(f) \in SUBSET N(e)
  <2>1. q \in SUBSET Nat
    BY EventsAreNaturals
  <2>2. e \in Nat /\ f \in Nat /\ e < f
    BY <1>1, <2>1
  <2>3. \A g \in q : g >= f => g >= e
    BY <2>1, <2>2
  <2>4. N(f) \in SUBSET N(e)
    BY <2>3
  <2> QED
    BY <2>4
<1> HIDE DEF N
<1>3. ~LogsFit(N(e))
  BY <1>1, <1>2, PartFits
<1> QED
  BY <1>3 DEF Overflow, N

-----------------------------------------------------------------------------
(* Events in one place, gaps that differ                                   *)

\* A gap counts at least the event its id stands for.
GapWellFormed(g) == g \in Gap /\ IF g.id = 0 THEN g.events = {} ELSE g.id \in g.events

\* q is the queue, r what the recorder has, p the pending gap, sg the gaps that were
\* activated: no event is in two of them that still have to be told, and an id stands
\* for one gap.
Separate(q, r, p, sg) ==
    /\ q \cap r = {}
    /\ \A g \in sg \cup {p} : GapWellFormed(g) /\ g.events \cap (q \cup r) = {}
    /\ \A g \in sg : g.events \cap p.events = {}
    /\ \A g, k \in sg : g.id = k.id => g = k

LEMMA WellFormedGaps ==
  /\ GapWellFormed(NoGap) /\ NoGap.events = {} /\ NoGap.id = 0
  /\ \A g : GapWellFormed(g) /\ g.id = 0 => g = NoGap
BY DEF GapWellFormed, NoGap, Gap

LEMMA SeparateLess ==
  ASSUME NEW q, NEW r, NEW p, NEW sg, Separate(q, r, p, sg),
         NEW q2 \in SUBSET q, NEW r2 \in SUBSET r, NEW sg2 \in SUBSET (sg \cup {NoGap})
  PROVE  Separate(q2, r2, p, sg2)
<1>1. \A g \in sg \cup {NoGap} : GapWellFormed(g)
  BY WellFormedGaps DEF Separate
<1>2. \A g, k \in sg \cup {NoGap} : g.id = k.id => g = k
  BY <1>1, WellFormedGaps DEF Separate
<1>3. \A g \in sg \cup {NoGap, p} : g.events \cap (q \cup r) = {}
  BY WellFormedGaps DEF Separate
<1>4. \A g \in sg \cup {NoGap} : g.events \cap p.events = {}
  BY WellFormedGaps DEF Separate
<1>5. GapWellFormed(p) /\ q \cap r = {}
  BY DEF Separate
<1> QED
  BY <1>1, <1>2, <1>3, <1>4, <1>5 DEF Separate

\* ActivateLogGap.
LEMMA SeparateSend ==
  ASSUME NEW q, NEW r, NEW p, NEW sg, Separate(q, r, p, sg)
  PROVE  Separate(q, r, NoGap, sg \cup {p})
<1>1. \A g \in sg : g.id = p.id => g = p
  <2> SUFFICES ASSUME NEW g \in sg, g.id = p.id PROVE g = p
    OBVIOUS
  <2>1. GapWellFormed(g) /\ GapWellFormed(p) /\ g.events \cap p.events = {}
    BY DEF Separate
  <2>2. CASE g.id = 0
    BY <2>1, <2>2, WellFormedGaps
  <2>3. CASE g.id # 0
    BY <2>1, <2>3 DEF GapWellFormed
  <2> QED
    BY <2>2, <2>3
<1>2. \A g, k \in sg \cup {p} : g.id = k.id => g = k
  BY <1>1 DEF Separate
<1>3. \A g \in sg \cup {p} \cup {NoGap} : GapWellFormed(g) /\ g.events \cap (q \cup r) = {}
  BY WellFormedGaps DEF Separate
<1>4. \A g \in sg \cup {p} : g.events \cap NoGap.events = {}
  BY WellFormedGaps
<1> QED
  BY <1>2, <1>3, <1>4 DEF Separate

\* EnqueueLog, the event itself.
LEMMA SeparateQueue ==
  ASSUME NEW q, NEW r, NEW p, NEW sg, Separate(q, r, p, sg), NEW h \in r
  PROVE  Separate(q \cup {h}, r \ {h}, p, sg)
<1>1. (q \cup {h}) \cup (r \ {h}) = q \cup r
  OBVIOUS
<1>2. (q \cup {h}) \cap (r \ {h}) = {}
  BY DEF Separate
<1> QED
  BY <1>1, <1>2 DEF Separate

\* ExtendLogGap.
LEMMA SeparateLost ==
  ASSUME NEW q, NEW r, NEW p, NEW sg, Separate(q, r, p, sg),
         NEW lost \in SUBSET (q \cup r), NEW p2,
         GapWellFormed(p2), p2.events = p.events \cup lost
  PROVE  Separate(q \ lost, r \ lost, p2, sg)
<1>1. \A g \in sg : GapWellFormed(g) /\ g.events \cap (q \cup r) = {} /\ g.events \cap p.events = {}
  BY DEF Separate
<1>2. p2.events \cap ((q \ lost) \cup (r \ lost)) = {}
  BY DEF Separate
<1>3. \A g \in sg : g.events \cap p2.events = {}
  BY <1>1
<1>4. (q \ lost) \cap (r \ lost) = {}
  BY DEF Separate
<1>5. \A g, k \in sg : g.id = k.id => g = k
  BY DEF Separate
<1>6. \A g \in sg \cup {p2} : GapWellFormed(g) /\ g.events \cap ((q \ lost) \cup (r \ lost)) = {}
  BY <1>1, <1>2
<1> QED
  BY <1>3, <1>4, <1>5, <1>6 DEF Separate

\* Emit.
LEMMA SeparateNew ==
  ASSUME NEW q, NEW r, NEW p, NEW sg, Separate(q, r, p, sg), NEW n,
         n \notin q, \A g \in sg \cup {p} : n \notin g.events
  PROVE  Separate(q, r \cup {n}, p, sg)
BY DEF Separate

-----------------------------------------------------------------------------
(* The inductive invariant                                                 *)

Recorded == recorder.channel \cup recorder.drops \cup ({recorder.held} \ {0})
Reported == UNION {g.events : g \in centerLogs.gaps}
Lost == logDisk.pending.events \cup logDisk.active.events
Known == logDisk.queue \cup Lost \cup Reported \cup centerLogs.judged
Batches == {logSent} \cup logLate
SentGaps == {logDisk.active} \cup {b.gap : b \in Batches} \cup centerLogs.gaps

RecorderApart ==
    /\ recorder.channel \cap recorder.drops = {}
    /\ recorder.held \notin recorder.channel \cup recorder.drops
LogsApart == Separate(logDisk.queue, Recorded, logDisk.pending, SentGaps)
LogsCounted == Known \cup Recorded \subseteq 1 .. logCount

\* What was sent is on disk or at the Center as long as a request is under way.
BatchesKnown == \A b \in Batches : b.events \cup b.gap.events \subseteq Known
AnswerTrue ==
    logAnswer => /\ logSent # NoBatch
                 /\ logSent.events \subseteq centerLogs.judged
                 /\ logSent.gap.events \subseteq Reported
FlushKeeps ==
    /\ logRun.mode \in {"stopping", "flushed"} => logRun.since <= logCount
    /\ logRun.mode = "flushed" => \A e \in Recorded : e > logRun.since
QueueFits == LogsFit(logDisk.queue)

LogInductive ==
    /\ LogTypes /\ RecorderApart /\ LogsApart /\ LogsCounted /\ BatchesKnown /\ AnswerTrue
    /\ FlushKeeps /\ QueueFits

LEMMA GapsKnown ==
  ASSUME BatchesKnown
  PROVE  \A g \in SentGaps \cup {logDisk.pending} : g.events \subseteq Known
BY DEF BatchesKnown, SentGaps, Known, Lost, Reported

LEMMA ExtendWellFormed ==
  ASSUME NEW d \in Disk, NEW lost \in SUBSET LogEvent, GapWellFormed(d.pending)
  PROVE  GapWellFormed(ExtendLogGap(d, lost).pending)
<1> DEFINE r == ExtendLogGap(d, lost)
<1>1. /\ r \in Disk
      /\ r.pending.events = d.pending.events \cup lost
      /\ \/ r.pending.id = d.pending.id
         \/ d.pending.id = 0 /\ r.pending.id \in lost
      /\ lost # {} => r.pending.id # 0
  BY ExtendTypes
<1> HIDE DEF r
<1>2. r.pending \in Gap
  BY <1>1 DEF Disk
<1>3. CASE r.pending.id = 0
  <2>1. lost = {} /\ d.pending.id = 0
    BY <1>1, <1>3, EventsAreNaturals
  <2>2. r.pending.events = {}
    BY <1>1, <2>1 DEF GapWellFormed
  <2> QED
    BY <1>2, <1>3, <2>2 DEF GapWellFormed, r
<1>4. CASE r.pending.id # 0
  <2>1. r.pending.id \in r.pending.events
    <3>1. CASE r.pending.id = d.pending.id
      BY <1>1, <1>4, <3>1 DEF GapWellFormed
    <3>2. CASE r.pending.id \in lost
      BY <1>1, <3>2
    <3> QED
      BY <1>1, <3>1, <3>2
  <2> QED
    BY <1>2, <1>4, <2>1 DEF GapWellFormed, r
<1> QED
  BY <1>3, <1>4 DEF r

\* A request that arrives at the Center, the first or the second time.
LEMMA StoreEffect ==
  ASSUME LogTypes, LogsApart, BatchesKnown, NEW b \in Batches,
         centerLogs' = StoreBatch(centerLogs, b)
  PROVE  /\ centerLogs'.judged = centerLogs.judged \cup b.events
         /\ centerLogs.gaps \subseteq centerLogs'.gaps
         /\ centerLogs'.gaps \subseteq SentGaps
         /\ Reported' = Reported \cup b.gap.events
<1>1. b \in Batch /\ CenterOK
  BY DEF Batches, LogTypes, SentOK
<1>2. /\ centerLogs'.judged = centerLogs.judged \cup b.events
      /\ \/ centerLogs'.gaps = centerLogs.gaps \cup {b.gap}
         \/ /\ centerLogs'.gaps = centerLogs.gaps
            /\ b.gap = NoGap \/ \E g \in centerLogs.gaps : g.id = b.gap.id
  BY <1>1, StoreTypes
<1>3. b.gap \in SentGaps /\ centerLogs.gaps \subseteq SentGaps
  BY DEF SentGaps
<1>4. CASE centerLogs'.gaps = centerLogs.gaps \cup {b.gap}
  BY <1>2, <1>3, <1>4 DEF Reported
<1>5. CASE centerLogs'.gaps = centerLogs.gaps /\ b.gap = NoGap
  BY <1>2, <1>3, <1>5, WellFormedGaps DEF Reported
<1>6. CASE centerLogs'.gaps = centerLogs.gaps /\ \E g \in centerLogs.gaps : g.id = b.gap.id
  <2>1. PICK g \in centerLogs.gaps : g.id = b.gap.id
    BY <1>6
  <2>2. g = b.gap
    BY <1>3, <2>1 DEF LogsApart, Separate
  <2> QED
    BY <1>2, <1>3, <1>6, <2>2 DEF Reported
<1> QED
  BY <1>2, <1>4, <1>5, <1>6

-----------------------------------------------------------------------------
(* What the actions of the recorder change                                 *)

LEMMA EmitEffect ==
  ASSUME LogInductive, Emit
  PROVE  /\ logCount' = logCount + 1 /\ logCount' \in LogEvent
         /\ logCount' \notin Known \cup Recorded
         /\ Recorded' = Recorded \cup {logCount'}
         /\ RecorderApart'
<1>1. logCount' = logCount + 1 /\ logCount' \in LogEvent /\ logCount \in Nat /\ RecorderOK
  BY LogAssumption DEF LogInductive, LogTypes, RunOK, Emit, LogEvent
<1>2. logCount' \notin Known \cup Recorded
  BY <1>1 DEF LogInductive, LogsCounted
<1>3. logCount' # recorder.held /\ logCount' \notin recorder.channel \cup recorder.drops
  BY <1>1, <1>2, EventsAreNaturals DEF Recorded
<1>4. /\ recorder'.held = recorder.held
      /\ \/ recorder'.channel = recorder.channel \cup {logCount'} /\ recorder'.drops = recorder.drops
         \/ recorder'.channel = recorder.channel /\ recorder'.drops = recorder.drops \cup {logCount'}
  BY <1>1 DEF Emit, RecorderOK
<1>5. RecorderApart'
  BY <1>3, <1>4 DEF LogInductive, RecorderApart
<1> QED
  BY <1>1, <1>2, <1>4, <1>5 DEF Recorded

LEMMA ReceiveEffect ==
  ASSUME LogInductive, ReceiveLog
  PROVE  Recorded' = Recorded /\ RecorderApart'
<1>1. RecorderOK /\ RecorderApart
  BY DEF LogInductive, LogTypes
<1>2. PICK e \in recorder.channel :
        /\ recorder'.channel = recorder.channel \ {e} /\ recorder'.drops = recorder.drops
        /\ recorder'.held = e /\ e # 0 /\ recorder.held = 0
  BY <1>1, EventsAreNaturals DEF ReceiveLog, RecorderOK
<1> QED
  BY <1>1, <1>2 DEF Recorded, RecorderApart

LEMMA PersistEffect ==
  ASSUME LogInductive, PersistMemoryDrops
  PROVE  /\ Recorded' = Recorded \ recorder.drops /\ recorder.drops \subseteq Recorded
         /\ recorder.drops \in SUBSET LogEvent /\ logDisk \in Disk
         /\ logDisk'.queue = logDisk.queue /\ logDisk'.active = logDisk.active
         /\ logDisk'.pending.events = logDisk.pending.events \cup recorder.drops
         /\ RecorderApart' /\ GapWellFormed(logDisk'.pending)
         /\ logRun'.since = logRun.since
         /\ \/ logRun' = logRun
            \/ logRun.mode = "stopping" /\ logRun'.mode = "flushed" /\ Recorded' = {}
<1>1. RecorderOK /\ RecorderApart /\ DiskOK /\ RunOK /\ GapWellFormed(logDisk.pending)
  BY DEF LogInductive, LogTypes, LogsApart, Separate
<1>2. /\ recorder'.channel = recorder.channel /\ recorder'.held = recorder.held
      /\ recorder'.drops = {} /\ logRun'.since = logRun.since
      /\ \/ logRun' = logRun
         \/ /\ logRun.mode = "stopping" /\ logRun'.mode = "flushed"
            /\ recorder.channel = {} /\ recorder.held = 0
  BY <1>1 DEF PersistMemoryDrops, FlushDone, RecorderOK, RunOK
<1>3. logDisk' = ExtendLogGap(logDisk, recorder.drops) /\ recorder.drops \in SUBSET LogEvent
      /\ logDisk \in Disk
  BY <1>1 DEF PersistMemoryDrops, RecorderOK, DiskOK
<1>4. /\ logDisk'.queue = logDisk.queue /\ logDisk'.active = logDisk.active
      /\ logDisk'.pending.events = logDisk.pending.events \cup recorder.drops
  BY <1>3, ExtendTypes
<1>5. GapWellFormed(logDisk'.pending)
  BY <1>1, <1>3, ExtendWellFormed
<1>6. Recorded' = Recorded \ recorder.drops /\ recorder.drops \subseteq Recorded
  BY <1>1, <1>2, <1>3, EventsAreNaturals DEF Recorded, RecorderApart
<1>7. RecorderApart'
  BY <1>1, <1>2 DEF RecorderApart
<1>8. recorder.channel = {} /\ recorder.held = 0 => Recorded' = {}
  BY <1>2 DEF Recorded
<1> QED
  BY <1>2, <1>3, <1>4, <1>5, <1>6, <1>7, <1>8

LEMMA EnqueueEffect ==
  ASSUME LogInductive, EnqueueAgentLog
  PROVE  LET h == recorder.held
             q == logDisk.queue \cup {h} IN
         /\ h \in Recorded /\ h \in LogEvent /\ Recorded' = Recorded \ {h}
         /\ q \in SUBSET LogEvent /\ Overflow(q) \in SUBSET q
         /\ logDisk'.queue = q \ Overflow(q) /\ logDisk'.active = logDisk.active
         /\ logDisk'.pending.events = logDisk.pending.events \cup Overflow(q)
         /\ RecorderApart' /\ GapWellFormed(logDisk'.pending)
<1> DEFINE h == recorder.held
           q == logDisk.queue \cup {h}
           c == [logDisk EXCEPT !.queue = q \ Overflow(q)]
<1>1. RecorderOK /\ RecorderApart /\ logDisk \in Disk /\ GapWellFormed(logDisk.pending)
  BY DEF LogInductive, LogTypes, DiskOK, LogsApart, Separate
<1>2. /\ h # 0 /\ recorder'.held = 0
      /\ recorder'.channel = recorder.channel /\ recorder'.drops = recorder.drops
  BY <1>1 DEF EnqueueAgentLog, RecorderOK
<1>3. h \in LogEvent
  BY <1>1, <1>2 DEF RecorderOK
<1>4. h \in Recorded /\ Recorded' = Recorded \ {h}
  BY <1>1, <1>2 DEF Recorded, RecorderApart
<1>5. RecorderApart'
  BY <1>1, <1>2, EventsAreNaturals DEF RecorderApart, RecorderOK
<1>6. logDisk' = EnqueueLog(logDisk, h)
  BY DEF EnqueueAgentLog
<1>7. /\ q \in SUBSET LogEvent /\ Overflow(q) \in SUBSET q
      /\ logDisk'.queue = q \ Overflow(q) /\ logDisk'.active = logDisk.active
      /\ logDisk'.pending.events = logDisk.pending.events \cup Overflow(q)
  BY <1>1, <1>3, <1>6, OverflowTypes
<1>8. logDisk' = ExtendLogGap(c, Overflow(q))
  BY <1>6 DEF EnqueueLog
<1>9. c \in Disk /\ c.pending = logDisk.pending /\ Overflow(q) \in SUBSET LogEvent
  BY <1>1, <1>7 DEF Disk
<1> HIDE DEF c, q, h
<1>10. GapWellFormed(logDisk'.pending)
  BY <1>1, <1>8, <1>9, ExtendWellFormed
<1> QED
  BY <1>3, <1>4, <1>5, <1>7, <1>10 DEF q, h

-----------------------------------------------------------------------------
(* The invariant is inductive                                              *)

LEMMA EmitKeeps == LogInductive /\ Emit /\ LogTypes' => LogInductive'
<1> SUFFICES ASSUME LogInductive, Emit, LogTypes' PROVE LogInductive'
  OBVIOUS
<1>1. /\ logCount' = logCount + 1 /\ logCount' \notin Known \cup Recorded
      /\ Recorded' = Recorded \cup {logCount'} /\ RecorderApart'
  BY EmitEffect
<1>2. UNCHANGED <<logDisk, logRun, logSent, logAnswer, logLate, centerLogs>>
  BY DEF Emit
<1>3. Known' = Known /\ SentGaps' = SentGaps /\ Batches' = Batches /\ Reported' = Reported
  BY <1>2 DEF Known, Lost, Reported, SentGaps, Batches
<1>4. LogsApart'
  <2>1. \A g \in SentGaps \cup {logDisk.pending} : logCount' \notin g.events
    BY <1>1, GapsKnown DEF LogInductive
  <2>2. Separate(logDisk.queue, Recorded \cup {logCount'}, logDisk.pending, SentGaps)
    BY <1>1, <2>1, SeparateNew DEF LogInductive, LogsApart, Known
  <2> QED
    BY <1>1, <1>2, <1>3, <2>2 DEF LogsApart
<1>5. logCount \in Nat /\ logRun.since \in Nat
  BY LogAssumption DEF LogInductive, LogTypes, RunOK
<1>6. LogsCounted'
  BY <1>1, <1>3, <1>5 DEF LogInductive, LogsCounted
<1>7. BatchesKnown' /\ AnswerTrue'
  BY <1>2, <1>3 DEF LogInductive, BatchesKnown, AnswerTrue
<1>8. FlushKeeps'
  <2>1. logRun.mode \in {"stopping", "flushed"} => logRun.since <= logCount'
    BY <1>1, <1>5 DEF LogInductive, FlushKeeps
  <2>2. logRun.mode = "flushed" => logCount' > logRun.since
    BY <1>1, <1>5 DEF LogInductive, FlushKeeps
  <2> QED
    BY <1>1, <1>2, <2>1, <2>2 DEF LogInductive, FlushKeeps
<1>9. QueueFits'
  BY <1>2 DEF LogInductive, QueueFits
<1> QED
  BY <1>1, <1>4, <1>6, <1>7, <1>8, <1>9 DEF LogInductive

LEMMA ReceiveKeeps == LogInductive /\ ReceiveLog /\ LogTypes' => LogInductive'
<1> SUFFICES ASSUME LogInductive, ReceiveLog, LogTypes' PROVE LogInductive'
  OBVIOUS
<1>1. Recorded' = Recorded /\ RecorderApart'
  BY ReceiveEffect
<1>2. UNCHANGED <<logDisk, logRun, logSent, logAnswer, logLate, centerLogs, logCount>>
  BY DEF ReceiveLog
<1>3. Known' = Known /\ SentGaps' = SentGaps /\ Batches' = Batches /\ Reported' = Reported
  BY <1>2 DEF Known, Lost, Reported, SentGaps, Batches
<1> QED
  BY <1>1, <1>2, <1>3
     DEF LogInductive, LogsApart, LogsCounted, BatchesKnown, AnswerTrue, FlushKeeps, QueueFits

LEMMA PersistKeeps == LogInductive /\ PersistMemoryDrops /\ LogTypes' => LogInductive'
<1> SUFFICES ASSUME LogInductive, PersistMemoryDrops, LogTypes' PROVE LogInductive'
  OBVIOUS
<1> DEFINE drops == recorder.drops
<1>1. /\ Recorded' = Recorded \ drops /\ drops \subseteq Recorded
      /\ logDisk'.queue = logDisk.queue /\ logDisk'.active = logDisk.active
      /\ logDisk'.pending.events = logDisk.pending.events \cup drops
      /\ RecorderApart' /\ GapWellFormed(logDisk'.pending)
      /\ logRun'.since = logRun.since
      /\ \/ logRun' = logRun
         \/ logRun.mode = "stopping" /\ logRun'.mode = "flushed" /\ Recorded' = {}
  BY PersistEffect
<1> HIDE DEF drops
<1>2. UNCHANGED <<logSent, logAnswer, logLate, centerLogs, logCount>>
  BY DEF PersistMemoryDrops
<1>3. Known' = Known \cup drops /\ SentGaps' = SentGaps /\ Batches' = Batches /\ Reported' = Reported
  BY <1>1, <1>2 DEF Known, Lost, Reported, SentGaps, Batches
<1>4. LogsApart'
  <2>1. Separate(logDisk.queue \ drops, Recorded \ drops, logDisk'.pending, SentGaps)
    BY <1>1, SeparateLost DEF LogInductive, LogsApart
  <2>2. logDisk.queue \ drops = logDisk.queue
    BY <1>1 DEF LogInductive, LogsApart, Separate
  <2> QED
    BY <1>1, <1>3, <2>1, <2>2 DEF LogsApart
<1>5. LogsCounted'
  BY <1>1, <1>2, <1>3 DEF LogInductive, LogsCounted
<1>6. BatchesKnown' /\ AnswerTrue'
  BY <1>2, <1>3 DEF LogInductive, BatchesKnown, AnswerTrue
<1>7. FlushKeeps'
  BY <1>1, <1>2 DEF LogInductive, FlushKeeps
<1>8. QueueFits'
  BY <1>1 DEF LogInductive, QueueFits
<1> QED
  BY <1>1, <1>4, <1>5, <1>6, <1>7, <1>8 DEF LogInductive

LEMMA EnqueueKeeps == LogInductive /\ EnqueueAgentLog /\ LogTypes' => LogInductive'
<1> SUFFICES ASSUME LogInductive, EnqueueAgentLog, LogTypes' PROVE LogInductive'
  OBVIOUS
<1> DEFINE h == recorder.held
           q == logDisk.queue \cup {h}
           over == Overflow(q)
<1>1. /\ h \in Recorded /\ Recorded' = Recorded \ {h}
      /\ q \in SUBSET LogEvent /\ over \in SUBSET q
      /\ logDisk'.queue = q \ over /\ logDisk'.active = logDisk.active
      /\ logDisk'.pending.events = logDisk.pending.events \cup over
      /\ RecorderApart' /\ GapWellFormed(logDisk'.pending)
  BY EnqueueEffect
<1>2. UNCHANGED <<logRun, logSent, logAnswer, logLate, centerLogs, logCount>>
  BY DEF EnqueueAgentLog
<1>3. QueueFits'
  BY <1>1, RestFits DEF QueueFits
<1>4. q = logDisk.queue \cup {h}
  OBVIOUS
<1> HIDE DEF over, q, h
<1>5. Known' = Known \cup {h} /\ SentGaps' = SentGaps /\ Batches' = Batches /\ Reported' = Reported
  BY <1>1, <1>2, <1>4 DEF Known, Lost, Reported, SentGaps, Batches
<1>6. LogsApart'
  <2>1. Separate(q, Recorded \ {h}, logDisk.pending, SentGaps)
    BY <1>1, <1>4, SeparateQueue DEF LogInductive, LogsApart
  <2>2. Separate(q \ over, (Recorded \ {h}) \ over, logDisk'.pending, SentGaps)
    <3>1. over \in SUBSET (q \cup (Recorded \ {h}))
      BY <1>1
    <3> QED
      BY <1>1, <2>1, <3>1, SeparateLost
  <2>3. (Recorded \ {h}) \ over = Recorded \ {h}
    BY <1>1, <2>1 DEF Separate
  <2> QED
    BY <1>1, <1>5, <2>2, <2>3 DEF LogsApart
<1>7. LogsCounted'
  BY <1>1, <1>2, <1>5 DEF LogInductive, LogsCounted
<1>8. BatchesKnown' /\ AnswerTrue'
  BY <1>2, <1>5 DEF LogInductive, BatchesKnown, AnswerTrue
<1>9. FlushKeeps'
  BY <1>1, <1>2 DEF LogInductive, FlushKeeps
<1> QED
  BY <1>1, <1>3, <1>6, <1>7, <1>8, <1>9 DEF LogInductive

LEMMA PendingKeeps == LogInductive /\ PendingAgentLogs /\ LogTypes' => LogInductive'
<1> SUFFICES ASSUME LogInductive, PendingAgentLogs, LogTypes' PROVE LogInductive'
  OBVIOUS
<1>1. UNCHANGED <<recorder, logRun, logAnswer, logLate, centerLogs, logCount>> /\ logSent = NoBatch
  BY DEF PendingAgentLogs
<1>2. ~logAnswer
  BY <1>1 DEF LogInductive, AnswerTrue
<1>3. PICK es \in SUBSET logDisk.queue : logSent' = [gap |-> logDisk'.active, events |-> es]
  BY DEF PendingAgentLogs, OldestLogs
<1>4. logDisk \in Disk
  BY DEF LogInductive, LogTypes, DiskOK
<1>5. /\ logDisk'.queue = logDisk.queue /\ Lost' = Lost
      /\ \/ logDisk'.active = logDisk.active /\ logDisk'.pending = logDisk.pending
         \/ logDisk'.active = logDisk.pending /\ logDisk'.pending = NoGap
  <2>1. CASE logDisk.active # NoGap
    BY <2>1 DEF PendingAgentLogs, ActivateLogGap, Lost
  <2>2. CASE logDisk.active = NoGap
    BY <1>4, <2>2, WellFormedGaps DEF PendingAgentLogs, ActivateLogGap, Disk, Lost
  <2> QED
    BY <2>1, <2>2
<1>6. Known' = Known /\ Reported' = Reported /\ Recorded' = Recorded
  BY <1>1, <1>5 DEF Known, Reported, Recorded
<1>7. SentGaps' \subseteq SentGaps \cup {logDisk'.active}
  BY <1>1, <1>3 DEF SentGaps, Batches
<1>8. LogsApart'
  <2>1. CASE logDisk'.active = logDisk.active /\ logDisk'.pending = logDisk.pending
    <3>1. SentGaps' \in SUBSET (SentGaps \cup {NoGap})
      BY <1>7, <2>1 DEF SentGaps
    <3>2. Separate(logDisk.queue, Recorded, logDisk.pending, SentGaps')
      BY <3>1, SeparateLess DEF LogInductive, LogsApart
    <3> QED
      BY <1>5, <1>6, <2>1, <3>2 DEF LogsApart
  <2>2. CASE logDisk'.active = logDisk.pending /\ logDisk'.pending = NoGap
    <3> DEFINE sg == SentGaps \cup {logDisk.pending}
    <3>1. SentGaps' \in SUBSET (sg \cup {NoGap})
      BY <1>7, <2>2
    <3>2. Separate(logDisk.queue, Recorded, NoGap, sg)
      BY SeparateSend DEF LogInductive, LogsApart
    <3> HIDE DEF sg
    <3>3. Separate(logDisk.queue, Recorded, NoGap, SentGaps')
      BY <3>1, <3>2, SeparateLess
    <3> QED
      BY <1>5, <1>6, <2>2, <3>3 DEF LogsApart
  <2> QED
    BY <1>5, <2>1, <2>2
<1>9. BatchesKnown'
  <2>1. logDisk'.active.events \subseteq Known' /\ es \subseteq Known'
    BY <1>3, <1>5, <1>6 DEF Known, Lost
  <2>2. \A b \in Batches' : b \in Batches \/ b = [gap |-> logDisk'.active, events |-> es]
    BY <1>1, <1>3 DEF Batches
  <2> QED
    BY <1>6, <2>1, <2>2 DEF LogInductive, BatchesKnown
<1>10. LogsCounted' /\ QueueFits' /\ FlushKeeps'
  BY <1>1, <1>5, <1>6 DEF LogInductive, LogsCounted, QueueFits, FlushKeeps
<1>11. AnswerTrue' /\ RecorderApart'
  BY <1>1, <1>2 DEF LogInductive, AnswerTrue, RecorderApart
<1> QED
  BY <1>8, <1>9, <1>10, <1>11 DEF LogInductive

\* UploadAgentLogs and LateLogsArrive.
LEMMA ArrivalKeeps ==
  ASSUME LogInductive, LogTypes', NEW b \in Batches,
         centerLogs' = StoreBatch(centerLogs, b),
         UNCHANGED <<logDisk, recorder, logRun, logSent, logCount>>,
         logLate' \subseteq logLate,
         logAnswer' => logAnswer \/ (b = logSent /\ logSent # NoBatch)
  PROVE  LogInductive'
<1>1. /\ centerLogs'.judged = centerLogs.judged \cup b.events
      /\ centerLogs.gaps \subseteq centerLogs'.gaps
      /\ centerLogs'.gaps \subseteq SentGaps
      /\ Reported' = Reported \cup b.gap.events
  BY StoreEffect DEF LogInductive
<1>2. b.events \cup b.gap.events \subseteq Known
  BY DEF LogInductive, BatchesKnown
<1>3. Recorded' = Recorded /\ Known' = Known /\ Lost' = Lost
  BY <1>1, <1>2 DEF Recorded, Known, Lost
<1>4. Batches' \subseteq Batches /\ SentGaps' \in SUBSET (SentGaps \cup {NoGap})
  BY <1>1 DEF Batches, SentGaps
<1>5. LogsApart'
  <2>1. Separate(logDisk.queue, Recorded, logDisk.pending, SentGaps')
    BY <1>4, SeparateLess DEF LogInductive, LogsApart
  <2> QED
    BY <1>3, <2>1 DEF LogsApart
<1>6. BatchesKnown' /\ LogsCounted'
  BY <1>3, <1>4 DEF LogInductive, BatchesKnown, LogsCounted
<1>7. AnswerTrue'
  BY <1>1 DEF LogInductive, AnswerTrue
<1>8. RecorderApart' /\ FlushKeeps' /\ QueueFits'
  BY <1>3 DEF LogInductive, RecorderApart, FlushKeeps, QueueFits
<1> QED
  BY <1>5, <1>6, <1>7, <1>8 DEF LogInductive

\* Of an acknowledged batch the Center has everything.
LEMMA AcknowledgeEffect ==
  ASSUME LogInductive, AcknowledgeAgentLogs
  PROVE  /\ logDisk'.queue = logDisk.queue \ logSent.events
         /\ logDisk'.pending = logDisk.pending
         /\ \/ logDisk'.active = logDisk.active
            \/ logDisk'.active = NoGap /\ logDisk.active.events \subseteq Reported
         /\ logSent.events \subseteq centerLogs.judged
<1>1. logSent.events \subseteq centerLogs.judged /\ logSent.gap.events \subseteq Reported
  BY DEF AcknowledgeAgentLogs, LogInductive, AnswerTrue
<1>2. logDisk \in Disk
  BY DEF LogInductive, LogTypes, DiskOK
<1>3. /\ logDisk'.queue = logDisk.queue \ logSent.events
      /\ logDisk'.pending = logDisk.pending
      /\ \/ logDisk'.active = logDisk.active
         \/ logDisk'.active = NoGap /\ logDisk.active.id = logSent.gap.id
  BY <1>2 DEF AcknowledgeAgentLogs, AcknowledgeLogs, Disk
<1>4. logDisk.active.id = logSent.gap.id => logDisk.active = logSent.gap
  <2>1. logDisk.active \in SentGaps /\ logSent.gap \in SentGaps
    BY DEF SentGaps, Batches
  <2> QED
    BY <2>1 DEF LogInductive, LogsApart, Separate
<1> QED
  BY <1>1, <1>3, <1>4

LEMMA AcknowledgeKeeps == LogInductive /\ AcknowledgeAgentLogs /\ LogTypes' => LogInductive'
<1> SUFFICES ASSUME LogInductive, AcknowledgeAgentLogs, LogTypes' PROVE LogInductive'
  OBVIOUS
<1>1. /\ logDisk'.queue = logDisk.queue \ logSent.events
      /\ logDisk'.pending = logDisk.pending
      /\ \/ logDisk'.active = logDisk.active
         \/ logDisk'.active = NoGap /\ logDisk.active.events \subseteq Reported
      /\ logSent.events \subseteq centerLogs.judged
  BY AcknowledgeEffect
<1>2. /\ UNCHANGED <<recorder, logRun, logLate, centerLogs, logCount>>
      /\ logSent' = NoBatch /\ ~logAnswer'
  BY DEF AcknowledgeAgentLogs
<1>3. Recorded' = Recorded /\ Reported' = Reported
  BY <1>2 DEF Recorded, Reported
<1>4. Known' = Known
  BY <1>1, <1>2, <1>3, WellFormedGaps DEF Known, Lost
<1>5. Batches' \subseteq Batches \cup {NoBatch} /\ NoBatch.gap = NoGap /\ NoBatch.events = {}
  BY <1>2 DEF Batches, NoBatch
<1>6. SentGaps' \in SUBSET (SentGaps \cup {NoGap})
  BY <1>1, <1>2, <1>5 DEF SentGaps
<1>7. LogsApart'
  <2>1. Separate(logDisk'.queue, Recorded, logDisk.pending, SentGaps')
    BY <1>1, <1>6, SeparateLess DEF LogInductive, LogsApart
  <2> QED
    BY <1>1, <1>3, <2>1 DEF LogsApart
<1>8. BatchesKnown' /\ LogsCounted' /\ AnswerTrue'
  BY <1>2, <1>3, <1>4, <1>5, WellFormedGaps DEF LogInductive, BatchesKnown, LogsCounted, AnswerTrue
<1>9. QueueFits'
  <2>1. logDisk.queue \in SUBSET LogEvent
    BY DEF LogInductive, LogTypes, DiskOK, Disk
  <2> QED
    BY <1>1, <2>1, PartFits DEF LogInductive, QueueFits
<1>10. RecorderApart' /\ FlushKeeps'
  BY <1>2, <1>3 DEF LogInductive, RecorderApart, FlushKeeps
<1> QED
  BY <1>7, <1>8, <1>9, <1>10 DEF LogInductive

\* UploadLogsFails, StopLogs and CrashLogs.
LEMMA AbandonKeeps ==
  ASSUME LogInductive, LogTypes', AbandonUpload,
         UNCHANGED <<logDisk, centerLogs, logCount>>,
         UNCHANGED <<recorder, logRun>> \/ (recorder' = NewRecorder /\ logRun'.mode = "ended")
  PROVE  LogInductive'
<1>1. Known' = Known /\ Reported' = Reported
  BY DEF Known, Lost, Reported
<1>2. Recorded' \in SUBSET Recorded /\ RecorderApart'
  BY EventsAreNaturals DEF Recorded, RecorderApart, NewRecorder, LogInductive
<1>3. Batches' \subseteq Batches \cup {NoBatch} /\ NoBatch.gap = NoGap /\ NoBatch.events = {}
      /\ ~logAnswer'
  BY DEF Batches, NoBatch, AbandonUpload
<1>4. SentGaps' \in SUBSET (SentGaps \cup {NoGap})
  BY <1>3 DEF SentGaps
<1>5. LogsApart'
  <2>1. Separate(logDisk.queue, Recorded', logDisk.pending, SentGaps')
    BY <1>2, <1>4, SeparateLess DEF LogInductive, LogsApart
  <2> QED
    BY <2>1 DEF LogsApart
<1>6. BatchesKnown' /\ LogsCounted' /\ AnswerTrue'
  BY <1>1, <1>2, <1>3, WellFormedGaps DEF LogInductive, BatchesKnown, LogsCounted, AnswerTrue
<1>7. FlushKeeps' /\ QueueFits'
  BY <1>2 DEF LogInductive, FlushKeeps, QueueFits
<1> QED
  BY <1>2, <1>5, <1>6, <1>7 DEF LogInductive

\* RequestLogStop, RestartLogs and steps that change nothing here.
LEMMA RunKeeps ==
  ASSUME LogInductive, LogTypes',
         UNCHANGED <<logDisk, recorder, logSent, logAnswer, logLate, centerLogs, logCount>>,
         \/ logRun' = [mode |-> "stopping", since |-> logCount]
         \/ logRun' = [mode |-> "running", since |-> 0]
         \/ logRun' = logRun
  PROVE  LogInductive'
<1>1. /\ Known' = Known /\ Reported' = Reported /\ Recorded' = Recorded
      /\ Batches' = Batches /\ SentGaps' = SentGaps
  BY DEF Known, Lost, Reported, Recorded, Batches, SentGaps
<1>2. FlushKeeps'
  <2>1. logCount \in Nat
    BY LogAssumption DEF LogInductive, LogTypes, RunOK
  <2> QED
    BY <1>1, <2>1 DEF LogInductive, FlushKeeps
<1> QED
  BY <1>1, <1>2
     DEF LogInductive, RecorderApart, LogsApart, LogsCounted, BatchesKnown, AnswerTrue, QueueFits

LEMMA LogInductiveNext == LogInductive /\ [LogNext]_logVars => LogInductive'
<1> SUFFICES ASSUME LogInductive, [LogNext]_logVars PROVE LogInductive'
  OBVIOUS
<1>1. LogTypes'
  BY NextLogTypes DEF LogInductive
<1>2. CASE Emit
  BY <1>1, <1>2, EmitKeeps
<1>3. CASE LogWork
  BY <1>1, <1>3, ReceiveKeeps, PersistKeeps, EnqueueKeeps DEF LogWork
<1>4. CASE PendingAgentLogs
  BY <1>1, <1>4, PendingKeeps
<1>5. CASE UploadAgentLogs
  <2>1. logSent \in Batches /\ logSent # NoBatch
    BY <1>5 DEF UploadAgentLogs, Batches
  <2> QED
    BY <1>1, <1>5, <2>1, ArrivalKeeps DEF UploadAgentLogs
<1>6. CASE LateLogsArrive
  <2>1. PICK b \in logLate : centerLogs' = StoreBatch(centerLogs, b) /\ logLate' = logLate \ {b}
    BY <1>6 DEF LateLogsArrive
  <2>2. b \in Batches /\ logLate' \subseteq logLate /\ logAnswer' = logAnswer
    BY <1>6, <2>1 DEF LateLogsArrive, Batches
  <2> QED
    BY <1>1, <1>6, <2>1, <2>2, ArrivalKeeps DEF LateLogsArrive
<1>7. CASE AcknowledgeAgentLogs
  BY <1>1, <1>7, AcknowledgeKeeps
<1>8. CASE UploadLogsFails
  BY <1>1, <1>8, AbandonKeeps DEF UploadLogsFails
<1>9. CASE StopLogs \/ CrashLogs
  BY <1>1, <1>9, AbandonKeeps DEF StopLogs, CrashLogs, LogProcessGone
<1>10. CASE RequestLogStop
  BY <1>1, <1>10, RunKeeps DEF RequestLogStop
<1>11. CASE RestartLogs
  BY <1>1, <1>11, RunKeeps DEF RestartLogs
<1>12. CASE UNCHANGED logVars
  BY <1>1, <1>12, RunKeeps DEF logVars
<1> QED
  BY <1>2, <1>3, <1>4, <1>5, <1>6, <1>7, <1>8, <1>9, <1>10, <1>11, <1>12 DEF LogNext

LEMMA LogInductiveInit == LogInit => LogInductive
<1> SUFFICES ASSUME LogInit PROVE LogInductive
  OBVIOUS
<1>1. NoGap \in Gap /\ NoBatch \in Batch /\ NoBatch.gap = NoGap /\ NoBatch.events = {}
  BY DEF NoGap, Gap, NoBatch, Batch
<1>2. LogTypes
  <2>1. DiskOK /\ SentOK /\ CenterOK
    BY <1>1 DEF LogInit, DiskOK, Disk, SentOK, CenterOK
  <2>2. RecorderOK
    BY DEF LogInit, NewRecorder, RecorderOK
  <2>3. RunOK
    BY LogAssumption DEF LogInit, RunOK
  <2> QED
    BY <2>1, <2>2, <2>3 DEF LogTypes
<1>3. Recorded = {} /\ RecorderApart
  BY DEF LogInit, NewRecorder, Recorded, RecorderApart
<1>4. Known = {} /\ Reported = {} /\ Batches = {NoBatch} /\ SentGaps = {NoGap}
  BY <1>1, WellFormedGaps DEF LogInit, Known, Lost, Reported, Batches, SentGaps
<1>5. LogsApart
  BY <1>3, <1>4, WellFormedGaps DEF LogInit, LogsApart, Separate
<1>6. LogsCounted /\ BatchesKnown /\ AnswerTrue
  BY <1>1, <1>3, <1>4, WellFormedGaps DEF LogInit, LogsCounted, BatchesKnown, AnswerTrue
<1>7. FlushKeeps /\ QueueFits
  BY EmptyFits DEF LogInit, FlushKeeps, QueueFits
<1> QED
  BY <1>2, <1>3, <1>5, <1>6, <1>7 DEF LogInductive

LEMMA LogInductiveAlways == LogSpec => []LogInductive
<1> QED
  BY LogInductiveInit, LogInductiveNext, PTL DEF LogSpec

\* The state of the log path has its types, and the queue on disk never exceeds a limit
\* of count or bytes (LogTypeOK), whatever the sizes of the events.
THEOREM LogQueueTypeCorrect == LogSpec => []LogTypeOK
<1>1. LogInductive => LogTypeOK
  BY DEF LogInductive, LogTypes, DiskOK, Disk, RecorderOK, RunOK, SentOK, CenterOK, QueueFits, LogTypeOK
<1> QED
  BY <1>1, LogInductiveAlways, PTL

\* A process that ends because it was asked to (Recorder.flush) has on disk every event
\* emitted before the request: what its memory still holds is younger.
THEOREM FlushForgetsNothing == LogSpec => StopKeepsLogs
<1>1. ASSUME LogInductive, StopLogs
      PROVE  \A e \in recorder.channel \cup recorder.drops \cup {recorder.held} :
                 e = 0 \/ e > logRun.since
  BY <1>1 DEF StopLogs, LogInductive, FlushKeeps, Recorded
<1>2. LogInductive /\ [LogNext]_logVars =>
        [StopLogs => \A e \in recorder.channel \cup recorder.drops \cup {recorder.held} :
                         e = 0 \/ e > logRun.since]_logVars
  BY <1>1
<1> QED
  BY <1>2, LogInductiveAlways, PTL DEF LogSpec, StopKeepsLogs

-----------------------------------------------------------------------------
(* Refinement                                                              *)

\* LogFate of an event, from the sets it is in.
FateOf(e, judged, queue, reported, lost, recorded, n) ==
    IF e \in judged THEN IF e \in InvalidLogs THEN "refused" ELSE "delivered"
    ELSE IF e \in queue THEN "kept"
    ELSE IF e \in reported THEN "reported"
    ELSE IF e \in lost THEN "dropped"
    ELSE IF e \in recorded THEN "volatile"
    ELSE IF e <= n THEN "forgotten" ELSE "unborn"

LEMMA FateOfSets ==
  ASSUME NEW e \in LogEvent
  PROVE  LogFate[e] = FateOf(e, centerLogs.judged, logDisk.queue, Reported, Lost, Recorded, logCount)
<1>1. e # 0
  BY EventsAreNaturals
<1>2. e \in Reported <=> \E g \in centerLogs.gaps : e \in g.events
  BY DEF Reported
<1>3. e \in Recorded <=> e \in recorder.channel \cup recorder.drops \cup {recorder.held}
  BY <1>1 DEF Recorded
<1> QED
  BY <1>2, <1>3 DEF LogFate, FateOf, Lost

LEMMA FateOfSetsNext ==
  ASSUME NEW e \in LogEvent
  PROVE  LogFate'[e] = FateOf(e, centerLogs'.judged, logDisk'.queue, Reported', Lost', Recorded', logCount')
<1>1. e # 0
  BY EventsAreNaturals
<1>2. e \in Reported' <=> \E g \in centerLogs'.gaps : e \in g.events
  BY DEF Reported
<1>3. e \in Recorded' <=> e \in recorder'.channel \cup recorder'.drops \cup {recorder'.held}
  BY <1>1 DEF Recorded
<1> QED
  BY <1>2, <1>3 DEF LogFate, FateOf, Lost

LEMMA FateType ==
  /\ Promise!LogEvent = LogEvent
  /\ LogFate \in [LogEvent -> Promise!Fate] /\ LogFate' \in [LogEvent -> Promise!Fate]
<1>1. Promise!LogEvent = LogEvent
  BY DEF Promise!LogEvent, LogEvent
<1>2. \A e \in LogEvent : LogFate[e] \in Promise!Fate /\ LogFate'[e] \in Promise!Fate
  <2> TAKE e \in LogEvent
  <2>1. LogFate[e] \in Promise!Fate
    BY FateOfSets DEF FateOf, Promise!Fate
  <2>2. LogFate'[e] \in Promise!Fate
    BY FateOfSetsNext DEF FateOf, Promise!Fate
  <2> QED
    BY <2>1, <2>2
<1>3. LogFate = [e \in LogEvent |-> LogFate[e]] /\ LogFate' = [e \in LogEvent |-> LogFate'[e]]
  BY DEF LogFate
<1> QED
  BY <1>1, <1>2, <1>3

\* A step that moves each event along, and pushes no event out while an older one stays.
LEMMA FatesProgress ==
  ASSUME \A e \in LogEvent : \/ LogFate'[e] = LogFate[e]
                             \/ <<LogFate[e], LogFate'[e]>> \in Promise!Moves,
         \A e, f \in LogEvent :
             e < f /\ LogFate[e] = "kept" /\ LogFate'[e] = "kept" /\ LogFate[f] = "kept"
             => LogFate'[f] # "dropped"
  PROVE  Promise!Progress
BY FateType DEF Promise!Progress, Promise!OldestDropped

\* A step that leaves each event where it was.
LEMMA FatesStay ==
  ASSUME \A e \in LogEvent : LogFate'[e] = LogFate[e]
  PROVE  LogFate' = LogFate
BY FateType

LEMMA EmitImplements == LogInductive /\ Emit => Promise!Progress
<1> SUFFICES ASSUME LogInductive, Emit PROVE Promise!Progress
  OBVIOUS
<1>1. /\ logCount' = logCount + 1 /\ logCount' \in LogEvent
      /\ logCount' \notin Known \cup Recorded /\ Recorded' = Recorded \cup {logCount'}
  BY EmitEffect
<1>2. /\ centerLogs'.judged = centerLogs.judged /\ logDisk'.queue = logDisk.queue
      /\ Reported' = Reported /\ Lost' = Lost
  BY DEF Emit, Reported, Lost
<1>3. logCount \in Nat
  BY LogAssumption DEF LogInductive, LogTypes, RunOK
<1>4. ASSUME NEW e \in LogEvent, e # logCount' PROVE LogFate'[e] = LogFate[e]
  <2>1. e \in Nat /\ (e <= logCount' <=> e <= logCount)
    BY <1>1, <1>3, <1>4, EventsAreNaturals
  <2> QED
    BY <1>1, <1>2, <1>4, <2>1, FateOfSets, FateOfSetsNext DEF FateOf
<1>5. LogFate[logCount'] = "unborn" /\ LogFate'[logCount'] = "volatile"
  <2>1. ~(logCount' <= logCount)
    BY <1>1, <1>3
  <2> QED
    BY <1>1, <1>2, <2>1, FateOfSets, FateOfSetsNext DEF FateOf, Known
<1> QED
  BY <1>4, <1>5, FatesProgress DEF Promise!Moves

LEMMA ReceiveImplements == LogInductive /\ ReceiveLog => LogFate' = LogFate
<1> SUFFICES ASSUME LogInductive, ReceiveLog PROVE LogFate' = LogFate
  OBVIOUS
<1>1. Recorded' = Recorded
  BY ReceiveEffect
<1>2. /\ centerLogs'.judged = centerLogs.judged /\ logDisk'.queue = logDisk.queue
      /\ Reported' = Reported /\ Lost' = Lost /\ logCount' = logCount
  BY DEF ReceiveLog, Reported, Lost
<1> QED
  BY <1>1, <1>2, FateOfSets, FateOfSetsNext, FatesStay

\* Memory drops become part of the pending gap.
LEMMA PersistImplements == LogInductive /\ PersistMemoryDrops => Promise!Progress
<1> SUFFICES ASSUME LogInductive, PersistMemoryDrops PROVE Promise!Progress
  OBVIOUS
<1> DEFINE drops == recorder.drops
<1>1. /\ Recorded' = Recorded \ drops /\ drops \subseteq Recorded
      /\ logDisk'.queue = logDisk.queue /\ Lost' = Lost \cup drops
  BY PersistEffect DEF Lost
<1>2. /\ centerLogs'.judged = centerLogs.judged /\ Reported' = Reported /\ logCount' = logCount
  BY DEF PersistMemoryDrops, Reported
<1> HIDE DEF drops
<1>3. ASSUME NEW e \in LogEvent
      PROVE  \/ LogFate'[e] = LogFate[e]
             \/ LogFate[e] = "volatile" /\ LogFate'[e] = "dropped"
  BY <1>1, <1>2, FateOfSets, FateOfSetsNext DEF FateOf
<1> QED
  BY <1>3, FatesProgress DEF Promise!Moves

\* The event held is queued, and the oldest go to the pending gap.
LEMMA EnqueueImplements == LogInductive /\ EnqueueAgentLog => Promise!Progress
<1> SUFFICES ASSUME LogInductive, EnqueueAgentLog PROVE Promise!Progress
  OBVIOUS
<1> DEFINE h == recorder.held
           q == logDisk.queue \cup {h}
           over == Overflow(q)
<1>1. /\ h \in Recorded /\ h \in LogEvent /\ Recorded' = Recorded \ {h}
      /\ q \in SUBSET LogEvent /\ over \in SUBSET q
      /\ logDisk'.queue = q \ over /\ Lost' = Lost \cup over
  BY EnqueueEffect DEF Lost
<1>2. \A e \in q : \A f \in over : e < f => e \in over
  BY <1>1, OldestGo
<1>3. q = logDisk.queue \cup {h}
  OBVIOUS
<1> HIDE DEF over, q, h
<1>4. /\ centerLogs'.judged = centerLogs.judged /\ Reported' = Reported /\ logCount' = logCount
  BY DEF EnqueueAgentLog, Reported
<1>5. (logDisk.queue \cup Recorded) \cap (Reported \cup Lost) = {} /\ logDisk.queue \cap Recorded = {}
  BY DEF LogInductive, LogsApart, Separate, SentGaps, Reported, Lost
<1>6. ASSUME NEW e \in LogEvent
      PROVE  \/ LogFate'[e] = LogFate[e]
             \/ <<LogFate[e], LogFate'[e]>> \in Promise!Moves
  <2>1. CASE e \in centerLogs.judged
    BY <1>4, <2>1, FateOfSets, FateOfSetsNext DEF FateOf
  <2>2. CASE e \notin centerLogs.judged /\ e = h
    <3>1. LogFate[e] = "volatile"
      BY <1>1, <1>5, <2>2, FateOfSets DEF FateOf
    <3>2. LogFate'[e] \in {"kept", "dropped"}
      BY <1>1, <1>3, <1>4, <1>5, <2>2, FateOfSetsNext DEF FateOf
    <3> QED
      BY <3>1, <3>2 DEF Promise!Moves
  <2>3. CASE e \notin centerLogs.judged /\ e \in logDisk.queue
    <3>1. LogFate[e] = "kept"
      BY <2>3, FateOfSets DEF FateOf
    <3>2. LogFate'[e] \in {"kept", "dropped"}
      BY <1>1, <1>3, <1>4, <1>5, <2>3, FateOfSetsNext DEF FateOf
    <3> QED
      BY <3>1, <3>2 DEF Promise!Moves
  <2>4. CASE e \notin centerLogs.judged /\ e \notin q
    <3>1. e \notin over /\ e # h /\ e \notin logDisk.queue
      BY <1>1, <1>3, <2>4
    <3> QED
      BY <1>1, <1>4, <2>4, <3>1, FateOfSets, FateOfSetsNext DEF FateOf
  <2> QED
    BY <1>3, <2>1, <2>2, <2>3, <2>4
<1>7. ASSUME NEW e \in LogEvent, NEW f \in LogEvent, e < f, LogFate[e] = "kept",
             LogFate'[e] = "kept", LogFate[f] = "kept"
      PROVE  LogFate'[f] # "dropped"
  <2>1. e \in logDisk.queue /\ f \in logDisk.queue
    BY <1>7, FateOfSets DEF FateOf
  <2>2. e \notin over
    BY <1>1, <1>7, FateOfSetsNext DEF FateOf
  <2>3. f \notin over
    BY <1>2, <1>3, <1>7, <2>1, <2>2
  <2>4. f \in logDisk'.queue
    BY <1>1, <1>3, <2>1, <2>3
  <2> QED
    BY <2>4, FateOfSetsNext DEF FateOf
<1> QED
  BY <1>6, <1>7, FatesProgress

LEMMA PendingImplements == LogInductive /\ PendingAgentLogs => LogFate' = LogFate
<1> SUFFICES ASSUME LogInductive, PendingAgentLogs PROVE LogFate' = LogFate
  OBVIOUS
<1>1. logDisk \in Disk
  BY DEF LogInductive, LogTypes, DiskOK
<1>2. logDisk'.queue = logDisk.queue /\ Lost' = Lost
  <2>1. CASE logDisk.active # NoGap
    BY <2>1 DEF PendingAgentLogs, ActivateLogGap, Lost
  <2>2. CASE logDisk.active = NoGap
    BY <1>1, <2>2, WellFormedGaps DEF PendingAgentLogs, ActivateLogGap, Disk, Lost
  <2> QED
    BY <2>1, <2>2
<1>3. /\ centerLogs'.judged = centerLogs.judged /\ Reported' = Reported
      /\ Recorded' = Recorded /\ logCount' = logCount
  BY DEF PendingAgentLogs, Reported, Recorded
<1> QED
  BY <1>2, <1>3, FateOfSets, FateOfSetsNext, FatesStay

\* Events become delivered or refused, those of the gap reported, from disk or from an
\* earlier request, never from nowhere.
LEMMA ArrivalImplements ==
  ASSUME LogInductive, NEW b \in Batches, centerLogs' = StoreBatch(centerLogs, b),
         UNCHANGED <<logDisk, recorder, logCount>>
  PROVE  Promise!Progress
<1>1. /\ centerLogs'.judged = centerLogs.judged \cup b.events
      /\ Reported' = Reported \cup b.gap.events
  BY StoreEffect DEF LogInductive
<1>2. b.events \cup b.gap.events \subseteq Known
  BY DEF LogInductive, BatchesKnown
<1>3. Recorded' = Recorded /\ Lost' = Lost /\ logDisk'.queue = logDisk.queue /\ logCount' = logCount
  BY DEF Recorded, Lost
<1>4. ASSUME NEW e \in LogEvent
      PROVE  /\ LogFate'[e] = LogFate[e] \/ <<LogFate[e], LogFate'[e]>> \in Promise!Moves
             /\ LogFate[e] = "kept" => LogFate'[e] # "dropped"
  <2>1. CASE e \in centerLogs.judged
    BY <1>1, <2>1, FateOfSets, FateOfSetsNext DEF FateOf
  <2>2. CASE e \notin centerLogs.judged /\ e \in b.events
    <3>1. LogFate[e] \in {"kept", "reported", "dropped"}
      BY <1>2, <2>2, FateOfSets DEF FateOf, Known
    <3>2. LogFate'[e] \in {"delivered", "refused"}
      BY <1>1, <2>2, FateOfSetsNext DEF FateOf
    <3> QED
      BY <3>1, <3>2 DEF Promise!Moves
  <2>3. CASE e \notin centerLogs.judged \cup b.events /\ e \in b.gap.events
    <3>1. LogFate[e] \in {"kept", "reported", "dropped"}
      BY <1>2, <2>3, FateOfSets DEF FateOf, Known
    <3>2. LogFate'[e] = IF e \in logDisk.queue THEN "kept" ELSE "reported"
      BY <1>1, <1>3, <2>3, FateOfSetsNext DEF FateOf
    <3>3. LogFate[e] = "kept" <=> e \in logDisk.queue
      BY <2>3, FateOfSets DEF FateOf
    <3> QED
      BY <3>1, <3>2, <3>3 DEF Promise!Moves
  <2>4. CASE e \notin centerLogs.judged \cup b.events \cup b.gap.events
    BY <1>1, <1>3, <2>4, FateOfSets, FateOfSetsNext DEF FateOf
  <2> QED
    BY <2>1, <2>2, <2>3, <2>4
<1> QED
  BY <1>4, FatesProgress

LEMMA AcknowledgeImplements == LogInductive /\ AcknowledgeAgentLogs => LogFate' = LogFate
<1> SUFFICES ASSUME LogInductive, AcknowledgeAgentLogs PROVE LogFate' = LogFate
  OBVIOUS
<1>1. /\ logDisk'.queue = logDisk.queue \ logSent.events
      /\ logSent.events \subseteq centerLogs.judged
      /\ Lost' \subseteq Lost /\ Lost \subseteq Lost' \cup Reported
  BY AcknowledgeEffect, WellFormedGaps DEF Lost
<1>2. /\ centerLogs'.judged = centerLogs.judged /\ Reported' = Reported
      /\ Recorded' = Recorded /\ logCount' = logCount
  BY DEF AcknowledgeAgentLogs, Reported, Recorded
<1>3. ASSUME NEW e \in LogEvent PROVE LogFate'[e] = LogFate[e]
  BY <1>1, <1>2, FateOfSets, FateOfSetsNext DEF FateOf
<1> QED
  BY <1>3, FatesStay

\* The end of the process forgets what its memory holds.
LEMMA GoneImplements == LogInductive /\ LogProcessGone => Promise!Forget
<1> SUFFICES ASSUME LogInductive, LogProcessGone PROVE Promise!Forget
  OBVIOUS
<1>1. Recorded' = {}
  BY DEF LogProcessGone, NewRecorder, Recorded
<1>2. /\ centerLogs'.judged = centerLogs.judged /\ Reported' = Reported
      /\ Lost' = Lost /\ logDisk'.queue = logDisk.queue /\ logCount' = logCount
  BY DEF LogProcessGone, Reported, Lost
<1>3. ASSUME NEW e \in LogEvent
      PROVE  LogFate'[e] = IF LogFate[e] = "volatile" THEN "forgotten" ELSE LogFate[e]
  <2>1. e \in Recorded => e <= logCount
    BY DEF LogInductive, LogsCounted
  <2> QED
    BY <1>1, <1>2, <2>1, FateOfSets, FateOfSetsNext DEF FateOf
<1> QED
  BY <1>3, FateType DEF Promise!Forget

LEMMA LogStepImplements == LogInductive /\ [LogNext]_logVars => [Promise!LossyNext]_LogFate
<1> SUFFICES ASSUME LogInductive, [LogNext]_logVars PROVE [Promise!LossyNext]_LogFate
  OBVIOUS
<1>1. CASE Emit
  BY <1>1, EmitImplements DEF Promise!LossyNext
<1>2. CASE LogWork
  BY <1>2, ReceiveImplements, PersistImplements, EnqueueImplements DEF LogWork, Promise!LossyNext
<1>3. CASE PendingAgentLogs \/ AcknowledgeAgentLogs
  BY <1>3, PendingImplements, AcknowledgeImplements
<1>4. CASE UploadAgentLogs
  <2>1. logSent \in Batches
    BY DEF Batches
  <2> QED
    BY <1>4, <2>1, ArrivalImplements DEF UploadAgentLogs, Promise!LossyNext
<1>5. CASE LateLogsArrive
  <2>1. PICK b \in logLate : centerLogs' = StoreBatch(centerLogs, b)
    BY <1>5 DEF LateLogsArrive
  <2>2. b \in Batches
    BY DEF Batches
  <2> QED
    BY <1>5, <2>1, <2>2, ArrivalImplements DEF LateLogsArrive, Promise!LossyNext
<1>6. CASE StopLogs \/ CrashLogs
  BY <1>6, GoneImplements DEF StopLogs, CrashLogs, Promise!LossyNext
<1>7. CASE UploadLogsFails \/ RequestLogStop \/ RestartLogs \/ UNCHANGED logVars
  <2>1. /\ centerLogs'.judged = centerLogs.judged /\ Reported' = Reported /\ Recorded' = Recorded
        /\ Lost' = Lost /\ logDisk'.queue = logDisk.queue /\ logCount' = logCount
    BY <1>7 DEF UploadLogsFails, RequestLogStop, RestartLogs, logVars, Reported, Recorded, Lost
  <2>2. LogFate' = LogFate
    BY <2>1, FateOfSets, FateOfSetsNext, FatesStay
  <2> QED
    BY <2>2
<1> QED
  BY <1>1, <1>2, <1>3, <1>4, <1>5, <1>6, <1>7 DEF LogNext

\* The log path implements LossyLog (LogsImplementPromise): an event is on disk until the
\* Center has it, or in a gap that is on disk until the Center has that; only what was in
\* memory when the process ended is forgotten, and the oldest events are given up first.
THEOREM LogQueueImplementsLossyLog == LogSpec => LogsImplementPromise
<1>1. ASSUME LogInit PROVE Promise!LossyInit
  <2>1. LogInductive
    BY <1>1, LogInductiveInit
  <2>2. Known = {} /\ Recorded = {}
    BY <1>1, <2>1, LogAssumption DEF LogInit, LogInductive, LogsCounted
  <2>3. logCount = 0
    BY <1>1 DEF LogInit
  <2>4. ASSUME NEW e \in LogEvent PROVE LogFate[e] = "unborn"
    <3>1. ~(e <= 0)
      BY LogAssumption DEF LogEvent
    <3> QED
      BY <2>2, <2>3, <3>1, FateOfSets DEF FateOf, Known
  <2> QED
    BY <2>4, FateType DEF Promise!LossyInit
<1> QED
  BY <1>1, LogStepImplements, LogInductiveAlways, PTL DEF LogSpec, LogsImplementPromise, Promise!LossySpec

=============================================================================
