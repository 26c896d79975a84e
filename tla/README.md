# ipchronicle in TLA+

ipchronicle is a Center (a Go server with SQLite databases) and Agents (Go
processes with a bbolt database) that record the public IPs of nodes and what
complete probes say of them. This directory holds TLA+ modules of its protocols,
TLC configurations that check them on small instances, and proofs for the proof
system TLAPS. Paths below are relative to the repository root `src/`.

1. [The system](#1-the-system)
2. [What is modelled](#2-what-is-modelled)
3. [The checks](#3-the-checks)
4. [Fairness](#4-fairness)
5. [The proofs](#5-the-proofs)
6. [Where the code and its documents disagree](#6-where-the-code-and-its-documents-disagree)
7. [What is not modelled](#7-what-is-not-modelled)
8. [Plan](#8-plan)

## 1. The system

An Agent polls the Center over HTTP for configuration and tasks, observes its
public IPs, runs probes against them and uploads three kinds of data, each with a
queue of its own in `state.db`: address events, complete probes and logs. The
Center keeps accounts, nodes, settings and tasks in `config.db`, what Agents
observed in `history.db`, and logs in a third database; no transaction spans two of
them. A *history generation* (32 random bytes) ties them together: an
administrator's *reset* of the history draws a new one, and data labelled with an
older one is obsolete.

| Component | State | Operations | Interacts with | What is hard | What makes it correct |
|---|---|---|---|---|---|
| Agent complete-probe store (`internal/agent/state/probe.go`) | runs, executions, sequences, gaps, upload queue in bbolt; result files in a directory | start, begin, complete, finish and reconcile a run; evict; change generation; read and acknowledge an artifact | probe manager, uploader, control loop | file and transaction are not atomic; crash between them; queue at its limit; a reset during a run | store always opens, queue readable and bounded, oldest evicted first, outcomes final, sequences unique |
| Agent probe manager (`internal/agent/probe/manager.go`) | one run slot, a worker goroutine | start from schedule or task, execute, abandon, reconcile at start | store, control loop | reconciliation races the first task; an error ends the process | a run that starts ends |
| Agent uploader (`internal/agent/probe_control.go`) | the artifact in flight | read, send, acknowledge, retry | store, Center | lost responses, stale revisions, order of random UUIDs | receipts never run ahead; the queue drains |
| Agent control loop (`internal/agent/control.go`) | process, context, workers | poll, apply configuration, stop, restart | everything on the Agent | one worker's error stops all | restartable at every instant |
| Center probe ingest and reset (`internal/center/nodes/probe.go`) | runs, executions, gaps, snapshots; generation and pending generation | upload, reset | uploader, comparison, both databases | repeated, late and reordered uploads; three commits | idempotent, outcomes final, nothing old after a reset |
| Center comparison (`internal/center/history/processor.go`) | per public IP: next sequence, last success, outcome | advance | ingest, notifications | holes, gaps, late reports | each report compared once, in order, and comparison catches up |
| Center opening (`internal/center/database/store.go`) | `config.db` and `history.db` | open, reconcile the generation, promote | reset | stop between two commits; history directory removed | every state left behind can be opened |
| Center node registry (`internal/center/nodes/service.go`, `recovery.go`) | nodes, revisions, tokens, deletion | enrol, recover, poll, configuration, revoke, delete | Agents, both databases | separate reads; deletion in two databases | an Agent at the current revision has the current generation; deletion finishes |
| Center address ingest (`internal/center/nodes/address.go`), Agent address store (`internal/agent/state/address.go`) | address state, events, gaps, ownership of public IPs | observe, queue, evict, upload, ingest | poll, notifications | gap arithmetic, moves between nodes | no event lost without a gap |
| Logs (`internal/agent/state/log.go`, `internal/center/agentlogs`) | queue with two limits, gaps | record, evict, batch, acknowledge | uploader | eviction while a batch is in flight | no event lost without a gap |
| Updates (`internal/agent/update`, `internal/center/updates`) | checkpoint of `state.db`, supervisor, task | download, replace, confirm, roll back | control loop | two processes; crash in the middle | the Agent ends on one working version with its state |
| Probe tasks | task status at the Center, record at the Agent | create, deliver, accept, report, confirm, expire | poll, manager | lost confirmation, expiry race | a task ends, and its run belongs to it |
| Notifications (`internal/center/notifications`) | outbox with claims and retries | enqueue, claim, send, complete | ingest | crash after a send | delivered at least once |
| Sync sessions (`internal/center/syncws`) | one connection per node | register, replace, disconnect | poll | replacement races disconnection | the newest connection stays |
| Login throttle and access limiter (`internal/center/admin/throttle.go`, `agent_access_limit.go`) | bounded tables | admit, fail, evict | HTTP | the table is full | a penalty is not lost |

The rest (runners, report parsing, schedule arithmetic, settings, read side, web
interface, generated code, release tooling) is listed in `PROJECT.json` with the
reason it is left out.

## 2. What is modelled

| Module | Code | How state and actions correspond |
|---|---|---|
| `ProbeStore` | `internal/agent/state/probe.go` | A value `st` is the committed database, one field per bucket; `runQ`, `execQ`, `gapQ` are the artifact bucket by kind, holding the queued revision. An operator that returns a store is one bbolt transaction, or a helper of one. |
| `AgentProbe` | `probe/manager.go`, `probe_control.go`, `state/store.go`, `control.go` | The Agent process: one action per store call of a goroutine. `CompleteProbeExecution` is three steps (file, commit, removal), `LockFree` is the mutex `probeMu`. `Crash`, `RequestStop`/`Stop` and `Open` end and start the process, `LoseResultFile` is disk damage. |
| `ProbeHistory` | `internal/center/nodes/probe.go`, `internal/center/history/processor.go` | A value `c` is the probe tables and the generation. `UploadProbeArtifact(c, a)` is the whole transaction with its answer; `Advance` the comparison at its end. |
| `ProbeDelivery` | both sides | Composes the two over HTTP: the request in flight is `sent`, its answer `answer`, a request that outlived its client `late`. `ResetHistory` in its three commits, and `Reinstall` for a recovery on an empty disk. |
| `ProbeUpload` | both sides | `ProbeDelivery` with the history variable `intact`, which no action reads: FALSE from the first `LoseResultFile` or `Reinstall` on (`DiskFault`). |
| `HistoryReset` | `internal/center/database/store.go`, `nodes/probe.go`, `nodes/service.go`, `nodes/address.go` | The two databases commit by commit: `Open` with `reconcileHistoryGeneration`, `ResetHistory`, admission of uploads, the two reads of `Configuration`, a stop anywhere, the removal of the history directory. |
| `AddressUpload` | `internal/agent/observation/observer.go`, `state/address.go`, `control.go`; `internal/center/nodes/address.go`, `service.go`, `proxy.go` | The addresses a node observes: `addressDisk` is `state.db` (per path the confirmed state, queued events and one gap), `addressCheck` the observer, `addressSent`/`addressAnswer`/`addressLate` the poll, `addressCenter` both databases. A poll is its commits in order (heartbeat, then ingest, then the answer), an administrator switches and deletes proxies between them. |
| `PublicAddresses` | `nodes/address.go`, `nodes/network.go`, `nodes/service.go` | Who probes which public IP when several nodes reach it: `ownership` is `config.db`; a report reselects a path and moves revisions in one transaction, `UpdatePublicAddress` is two statements, `Configuration` two reads. |
| `AgentTask` | `nodes/probe.go`, `internal/center/updates/service.go`; `state/probe.go`, `state/update.go` | One task slot per node: `row` is `probe_tasks`, `store` the Agent's records, `polls` the requests on their way, each handled in two transactions. |
| `AgentUpdate` | `internal/agent/update/manager.go`, `supervisor.go`, `control.go`, `cmd` | Extends `AgentTask` with what an accepted update does: `files` is the update directory (staged binary, checkpoint, health marker), `disk` the two binaries, `supervisor` the step of the second process. Each action ends at a rename, a commit or a command of the service manager; `Crash` and `Reboot` come between any two. |
| `LossyLog`, `AgentLogQueue` | `internal/agent/agentlogs/recorder.go`, `state/log.go`, `control.go`; `internal/center/agentlogs/service.go` | `LossyLog` is what the log path promises of one event (`fate`); `AgentLogQueue` is the path: `recorder` (channel, memory drops, the event held), `logDisk` (queue and two gaps), the request, the Center. `LogFate` maps the second to the first. |
| `NotificationOutbox` | `internal/center/notifications`, the retention of `history` | `processing` is the holder of `processMu` with what it has read, `deliveries` the rows of the outbox, `workers` the deliveries claimed, `received` what the destination saw. |
| `SyncSessions` | `nodes/service.go`, `http.go`, `syncws/hub.go`; `agent/sync.go`, `agent/control.go` | `lease` is the session in `config.db`, `callers` what each request still does with the hub after its commit, `connections` the stage of each WebSocket handler, `syncAgent` the Agent's end and its polls. |
| `NodeDeletion` | `nodes/service.go`, `nodes/address.go` | Revocation, deletion and its worker in two databases, beside polls past their heartbeat. |
| `*_proofs`, `FiniteNaturals` | | theorems and the lemmas they rest on, see section 5 |
| `MC*` | | instances for TLC |

`AgentProbe` extends `ProbeStore`; `ProbeHistory` extends it for the shape of an
artifact; `ProbeDelivery` extends both and uses the actions of the Agent whole. In
`AgentProbe` alone the Center is anything: any artifact may be acknowledged,
refused or left unanswered, and any later generation may be applied. `AgentUpdate`
extends `AgentTask`, whose polls, reports and expiry it leaves as they are. The other
modules share no state with each other in the code either, but for the poll that
carries them: what one of them says of a poll (its commits, its loss) the others
repeat for their own part.

Abstractions. A run is numbered as started, in the place of a fresh UUID, and the
uploader may take any queued key, because keys sort by UUID. A result is its file
alone; times, report content, formats and discarded-item counters are left out. A
generation is numbered as drawn, a log or address event as recorded. A log gap is
the set of events it counts; an address gap keeps its bounds and its count, because
the Center compares the two. A release, its download and its signature are an
outcome; whether a new binary works is open.

Some facts of the code that the models rest on and that are easy to miss: both
databases have one connection (`MaxOpenConns(1)`), and locks are always taken in the
order `processMu` or `historyMu`, history transaction, `config.db`, so that no two
holders wait for each other; a call into the sync hub comes after the commit it
belongs to, outside any lock; a poll that fails after a wake-up is repeated after the
polling interval, not at once.

Definitions called `Faulty…`, `Incomplete…`, `Strict…` or `Reversed…` are errors
on purpose. Each stands in for the definition after it to show that a property
notices it (the `mutants` of `PROJECT.json`); no specification uses them.

## 3. The checks

The constants `Max…` bound behaviours (they appear in guards), except the limits of
the code made small: `MaxPending` (30 probes of a public IP), `MaxPathEvents` (30
address events of a path), `MaxAgentLogs` and `MaxAgentLogBytes`, `MaxBatch`,
`MaxMemoryLogs`, `MaxActive`, `MaxAttempts`. `MaxRestarts`, `MaxLogStops`,
`MaxReboots`, `MaxCenterStops` and `MaxDeletionStops` count faults. Deadlock is not
checked: when the bounds are used up and the queues are empty, the system rightly
stops.

A run checks one or several *instances*: an `MC` module's variable `instance` or
`focus` picks, in the initial state, the part that moves and how far (its definitions
marked `bound`). Parts that share no state are so checked one after the other, never
as a product.

| Run | Instances and bounds | What it shows |
|---|---|---|
| `agent` | "queue": 1 target, queue of 1, 3 runs. "runs": 2 targets (symmetric), 2 runs, no outcome "failed". Both with 2 generations and 1 fault | the store can be opened at every instant (`OpenSucceeds`); the queue of a public IP keeps its limit (`PendingBounded`), evicts the oldest (`OldestEvictedFirst`), can be read (`QueueReadable`) and holds nothing of an old generation (`NoStaleArtifact`); sequences are not reused (`SequencesUnique`), a receipt never runs ahead of the queue (`ReceiptNotAhead`), no result file outlives its record (`NoOrphanFile`), outcomes are final (`OutcomesFinal`). Two targets let a run be half done when the crash, stop or reset comes; three runs overflow a queue twice. |
| `delivery` | "faults": 1 run of 2 targets, 2 faults. "reset": 2 runs whose attempts succeed or are interrupted, 1 reset that may stop after each commit, late requests. "order": 3 runs, each attempt succeeds or fails, queue of 2, uploads in any order | the Center never shows another outcome than the Agent's (`CenterAgrees`) and never takes one back (`CenterOutcomesFinal`); nothing is refused as long as the disk is intact (`NeverRefused`); every attempt is stored, queued, open or in a gap (`EveryAttemptAccounted`); the current snapshot is the newest report (`CurrentIsNewest`); reports are compared once and forward (`ComparedInOrder`); nothing old is left after a reset (`ResetClears`). Three runs give a report a neighbour on each side of a gap. |
| `delivery_live` | 1 target, 1 run, 1 reset that may stop half way, 2 restarts, a recovery on an empty disk, a late request of a success before the first restart | under fairness, a run that started ends (`RunEnds`) and the queue empties (`QueueDrains`). |
| `node_protocols` | "addresses": 2 paths, 2 addresses, queue of 2 per path, 6 events of one path, 3 of several, 2 around a change of configuration. "owners": 2 nodes with a path each, 2 addresses, 3 revisions, 1 request. "sync": 2 callers, 2 connections, 2 of sessions, changes and losses; polls fail only once the access is lost. "deletion": 2 polls, 2 stops. "updates": 1 task with two of polls at a time and reboots, or 2 probe tasks | every address event is queued, counted or known to the Center (`EveryAddressEventAccounted`), events of entering and leaving match the addresses held (`SetEventsBalance`), and without a change of configuration the Center refuses a poll for two reasons only (`AddressRefusals`; the second takes five events queued at once, which `repeated_event` has); an Agent at the current revision probes what the Center selected (`TargetsFollow`); no connection survives its lease (`NoConnectionOutlivesLease`) and no wake-up is lost (`WakeNotLost`); a deleted node leaves nothing, but for one race (`DeletedNodeIsGone`); a task runs once (`TaskOnce`), both sides end it with one outcome (`OutcomesAgree`), an update can be carried on or taken back wherever it is cut off (`UpdateRecoverable`). |
| `live_protocols` | "reset": 4 generations. "logs": 3 events (1 large, 1 invalid), queue of 2 events and of 2 bytes, 1 in memory, 1 stop. "notifications": 2 events, 1 sender, 2 attempts, 1 stop, 1 edit of the rule. "updates": 1 task | probe rows are of the generation `history.db` names (`ProbesOfGeneration`), an Agent at the current revision has the current generation (`AgentFollows`) and learns it (`AgentLearns`), the Center refuses to open in two windows only (`CenterReopens`); the log path implements `LossyLog` (`LogsImplementPromise`), a requested stop forgets nothing (`StopKeepsLogs`) and what is on disk of the logs reaches the Center (`LogsReachCenter`); deliveries are bounded, have a sender and were accepted (`DeliveriesSound`), are not lost (`ActiveProtected`) and end (`EventsSettle`); tasks and updates end (`TaskEnds`, `UpdateEnds`). |

The symmetry of `agent` and `delivery` is sound: their properties are invariants and
action formulas, the same for every target. No run with a liveness property uses
symmetry. The bounds follow one pattern: the smallest queue that overflows and leaves an
order, one interruption, and two of whatever is alike. Where a property is
proved as well (section 5) the proof covers every bound, and the instance is there to show
that the situation occurs and that the property notices a mistake; larger
instances were checked once: "reset" of `delivery` with three runs and gaps (11 million
states), "reset" and "order" with every outcome (3.5 million), "runs" of `agent` with
every outcome (1.5 million).

Runs that find a violation on purpose are those of section 6.

## 4. Fairness

* **Agent.** Weak fairness of what the Agent does without the Center, taken together:
  the worker, the initial reconciliation, the removal of files, the stop of a
  cancelled process and its start. Goroutines are scheduled; every step of a runner
  has a timeout, so `execute` goes on; the service is installed with
  `Restart=on-failure` (`scripts/install-agent.sh`), and an Agent stopped by its
  operator is started by its operator.
* **Network.** Strong fairness of taking an artifact, of answering it and of
  receiving the answer: each can be interrupted again and again, and one of the
  endless retries of `probe_control.go` gets through. Weak fairness of ending an
  attempt the Center answered with an error. Lost requests and responses may be as
  many as one likes.
* **Center.** Weak fairness of opening (`restart: unless-stopped` in
  `deploy/compose.yaml`) and of the two last commits of a reset under way, which
  may fail instead; strong fairness of the two reads of `Configuration` and of
  applying it.
* **Logs** (`LogFairness`). Weak fairness of the recorder, of ending and starting the
  process and of reading a batch; strong fairness of the request and its answer. Nobody
  has to stop the Agent.
* **Notifications** (`OutboxFairness`). Weak fairness of starting the Center, of the
  steps of whoever holds `processMu`, and of dispatching and settling a claimed
  delivery; strong fairness of taking the mutex and of claiming, which other
  holders and workers interrupt. What the sender answers is open.
* **Updates** (`UpdateFairness`). The Agent, its service manager and a supervisor that
  was started keep running; a poll repeated for ever is answered at some time.
  Nothing starts the supervisor after a reboot, because nothing does
  (section 6), and `live_protocols` checks `UpdateEnds` without one.
* Nothing is assumed of the schedule, the administrator or the disk. Nobody
  has to start a reset, or to repeat one that failed; `QueueDrains` therefore
  has the condition that no reset stays pending for ever (uploads wait while one
  is), and `AgentLearns` that the Center serves from some time on.

## 5. The proofs

| Theorem | Says | Rests on |
|---|---|---|
| `TypeCorrect` (`AgentProbe_proofs`) | `Spec => [](TypeOK /\ Named)` | `ProbeQueue_proofs`: every transaction returns a `Store` |
| `StoreOpens` (`AgentProbe_proofs`) | `Spec => []OpenSucceeds` | `TypeCorrect`, `RunInv` |
| `ProbeInvariant` (`AgentProbe_proofs`) | `Spec => []ProbeInv`, the inductive invariant of the queue | `ProbeQueue_proofs`: what each transaction does to the queue |
| `UploadsReadable`, `NothingStale`, `LimitHolds`, `SequencesNameOne`, `ReceiptsFollow`, `FilesRecorded` (`AgentProbe_proofs`) | `QueueReadable`, `NoStaleArtifact`, `PendingBounded`, `SequencesUnique`, `ReceiptNotAhead`, `NoOrphanFile` hold always | `ProbeInvariant` |
| `OutcomesStay`, `OldestLeaveFirst` (`AgentProbe_proofs`) | `OutcomesFinal`, `OldestEvictedFirst`, of every step | `ProbeInvariant`, `Evolves` |
| `HistoryInvariant` (`ProbeDelivery_proofs`) | `DeliverySpec => []HistoryInv`, the inductive invariant of Agent, network and Center | `ProbeInv`; what the comparison and one upload do to any history (`AdvanceInv`, `UploadFacts`) |
| `SnapshotNewest`, `ComparisonOrdered`, `OutcomesAgree`, `OldGenerationCleared` (`ProbeDelivery_proofs`) | `CurrentIsNewest`, `ComparedInOrder`, `CenterAgrees`, `ResetClears` hold always | `HistoryInvariant` |
| `OutcomesKept` (`ProbeDelivery_proofs`) | `CenterOutcomesFinal`, of every step | `HistoryInvariant`, `Grows` |
| `AttemptsAccounted` (`ProbeDelivery_proofs`) | `EveryAttemptAccounted` holds always | `AccountInv`, which strengthens `HistoryInv` |
| `UploadsAccepted` (`ProbeDelivery_proofs`) | `UploadSpec => []NeverRefused`: until the disk loses a result or is replaced, nothing is refused | `intact => DeliveredInv`, and `DeliveredInv` strengthens `HistoryInv` |
| `ResetTypeCorrect`, `ProbesKeepGeneration`, `AgentsFollow`, `CenterOpens` (`CenterProtocols_proofs`) | `TypeOK`, `ProbesOfGeneration`, `AgentFollows`, `CenterReopens` of `HistoryReset` hold always | `Inductive` |
| `DeliveriesAreSound`, `ActiveStaysProtected` (`CenterProtocols_proofs`) | `DeliveriesSound` always, `ActiveProtected` of every step | `OutboxInductive` |
| `UpdateInvariant` (`AgentUpdate_proofs`) | `UpdateSpec => [](TaskInv /\ UpdateInv)`, the inductive invariant of tasks and updates | `TasksKeep`, and a lemma for each step of the update |
| `TasksRunOnce`, `OutcomesAlwaysAgree`, `UpdatesRecoverable` (`AgentUpdate_proofs`) | `TaskOnce`, `OutcomesAgree`, `UpdateRecoverable` hold always | `UpdateInvariant` |
| `LogQueueTypeCorrect`, `FlushForgetsNothing` (`AgentLogQueue_proofs`) | `LogTypeOK` with both limits of the queue, `StopKeepsLogs` | `LogInductive` |
| `LogQueueImplementsLossyLog` (`AgentLogQueue_proofs`) | `LogSpec => Promise!LossySpec`: the log path refines `LossyLog` | `LogInductive` |
| `ConnectionsEndWithLease`, `WakesAreNotLost` (`CenterProtocols_proofs`) | `NoConnectionOutlivesLease`, `WakeNotLost` | `SyncInductive` |
| `OwnerTypeCorrect`, `AgentsFollowSelection` (`CenterProtocols_proofs`) | `OwnerTypeOK`, `TargetsFollow` | `OwnerInductive` |
| `DeletedNodesAreGone` (`CenterProtocols_proofs`) | `DeletedNodeIsGone` | `DeletionInductive` |
| `AddressEventsAccounted`, `RefusalsExplained`, `SetEventsAddUp` (`AddressUpload_proofs`) | `EveryAddressEventAccounted`, `AddressRefusals`, `SetEventsBalance` hold always | `AddressInductive` |

They hold for every value of the bounds, limits and sets; no theorem is about one
instance. The assumptions are those of the modules, as weak as the code justifies:
`TargetsAssumption` (a configuration lists finitely many public IPs; without it a gap's
last sequence would not exist), and for the others that bounds are numbers and that 0,
which stands for nothing, is not a member. TLC evaluates all of them in the runs.

**Types.** The one difficulty is a gap: its bounds are the least and greatest of
a set of sequences. `FiniteNaturals` proves that `Min` and `Max` of the community
modules are what their names say, by least counterexamples. `TypeOK` is not
inductive alone, since an acknowledgement updates the record the artifact in flight
names; `Named` adds that this record, and the worker's run and target, exist.

**`OpenSucceeds`.** `validateProbeControlState` refuses a store whose active run is
not running or whose open executions belong to another run. The invariant must know
why no transaction produces one: `Consistent(db)` adds that an open execution is
one its run lists, and `WorkerHolds` that what is open in the worker's run is what
it has left or is probing. Finishing the active run, when nothing is left, then
leaves no execution open.
Each transaction has a lemma (`DropKeeps`, `ReconcileKeeps`,
`ChangeGenerationKeeps`, …), each action a step that cites it.

**The probe queue.** None of the queue's properties is inductive alone. `QueueInv` relates
the rows of the store to each other. `Records`: what is queued is queued at the
revision of its record, in the current generation, and a file is named by a queued
execution only. `Sequences`: among the runs of a generation a sequence of a target
is used once, and never above the counter. `Gaps`: the count of a gap is the
cardinality of a set of sequences between its bounds that no live execution has, so that
counting one more execution adds one more element; without "not live" an execution could
be counted twice and the count outgrow the bounds. `Bounded`: eviction keeps the limit
because every path that adds a pending result evicts before it commits. `FilesInv` says
which file each place of `CompleteProbeExecution` may have left behind, and `SentInv` that the
artifact under way has a revision the store has reached and a generation it has had.
An acknowledgement is safe because revisions only grow (`Evolves`, proved of every
transaction): a record is deleted with its executions, or grows, and what is closed stays.
`ProbeQueue_proofs` has two lemmas for each transaction, what it does to each row and
that it keeps `QueueInv`. The properties of steps, `OutcomesFinal` and
`OldestEvictedFirst`, follow from the first kind.

**Probe delivery.** `HistoryInv` has four parts beside the Agent's `ProbeInv`.
`CenterInv` is about the Center's tables alone, of any uploads: snapshots, the place the
comparison has reached, the change sets. `Advance` is a recursive function (`Walk`). No
induction is needed for what is proved of it: that the function exists follows from
a greatest sequence at which it could not be continued (`WalkExists`), and what its value says
of the sequences it passed (`WalkSound`) from a greatest counterexample, since the
function refers to larger sequences only. `ResetInv` ties the generations to the step of `ResetHistory`.
`FlightInv` says of what the Agent sent, and of a late request, that it says nothing but what the
record says as long as the record exists (`Truthful`), and `Reflects` the same of
each row of the Center. Both survive a step of the store because records only evolve,
and a step of the Center because it copies only what an artifact carries.

`EveryAttemptAccounted` needs to know why an acknowledgement may take an attempt off
the queue. `AccountInv` adds that what is sent is the queue's content at its revision
(`SentSound`), that an accepted answer means the Center has at least that
(`AnswerSound`), and that every sequence is known to the Center or waits (`Waits`). Each
transaction has a lemma that it retains what waits (`Retains`), and only the
acknowledgement loses anything: what the answer vouches for (`AcknowledgeLoses`).

`NeverRefused` needs every reason the Center has to refuse an artifact excluded, and the
Center's rows may belong to runs the Agent has deleted by then. `HistoryLogged` says that
there is a store that forgets no run (`IsLog`: it remembers what the Agent's store still holds,
gives no sequence twice in a generation, and its finished runs add up) with which every
row of the Center and everything in flight agrees. The program keeps no such log: the
proof carries it along as a witness (`Log`, `LoggedEvolves`). From it follow that an outcome
does not contradict the row, that a sequence does not collide with another
row's, and that the totals of a run's end match its executions. Three parts remain:
`GapsAgree`, a gap has one first sequence wherever it is known; `NotOvertaken`, an outcome of an
execution does not reach the Center before an unfinished artifact of it that is being sent; and
`StoreInv` of the Agent, an uploaded gap only grows at its end and each result
named by the queue is on disk. The code keeps this promise only as long as the disk does: a
node recovered on an empty disk counts from 1 again (`recovered_node`), and a result lost
on disk is added to a gap whose first sequence the Center may have stored already (the
hazard at `queries.sql:846`). So `NeverRefused` speaks of the time until the first such fault,
which the history variable `intact` of `ProbeUpload` marks, and the invariant is
`intact => DeliveredInv`. The run `delivery` lets both faults happen.

**The notifications.** `OutboxInductive` describes what the holders of the two locks and
the workers know. `OnlyProcessedDelivered`: an event without processing has no deliveries,
which makes the insertion of its rows safe after a stop half way. `HolderKnows`:
what the holder of `processMu` has read is still true when it writes. `WorkersHold`: a claimed
delivery is running, with the attempt its worker counted. `RowStep` lists what any
step can do to one row; that a delivery under way is never lost, and the count of attempts,
follow from it alone. Finiteness of the sets counted (`ActiveFinite`) is part of the
invariant: the limit of a sender is a cardinality.

**The reset.** `Databases` bounds how far `config.db` and `history.db` can be
apart at each place of the process: for instance, without a pending generation
`history.db` names the current one or none. `ProbesOfGeneration` needs it because the upload looks
at `config.db` and writes to `history.db`. `Revisions` says that a handed-out
revision names the generation current at that time or a newer one; that is why
`Configuration` has to read the revision first.

**Tasks and updates.** `TaskInv` is about the two sides of a task, `UpdateInv` about what is on
disk. The hard part is a poll that the Agent has given up and the Center applies late.
`PollSound` says of every poll on its way that the outcome it reports is harmless
(`Told`): the row is closed, the record says the same, or the outcome is that of an
update the Agent committed. `AwaitedSound` says more of the one poll the Agent waits for: no
other report of its task can still end the row (`Rivals`), so a task
that comes back with the answer is a new one, or known. A restored checkpoint is the
exception to all of it. `CheckpointOK` says that nothing was recorded since it was made as long as its
update is unconfirmed, so that `RestoreState` forgets no run; and if the Center already knows
that the update succeeded, the state is `Refusing`: the Center refuses every
report from then on and never again answers a poll with a task, and so the records the rollback
took away cannot be delivered a second time. For the update itself everything is said
against `Phase`, the status of the update in the update directory: which checkpoint, binary
and marker each phase has (`DiskOK`), what the Agent's process knows (`ProcessOK`), and which phases each
step of the supervisor can meet (`SupervisorOK`); a reboot only resets the step, which is why
`UpdateRecoverable` follows from `DiskOK` and `CheckpointOK` alone.

**The log path.** `LogFate` looks for an event at the Center first, then on disk, then
in memory, so that a copy left behind changes nothing. What has to be invariant is
where an event can *not* be: `Separate` says that no event is in two of queue, recorder
and gaps at once (a queued event that is also in a gap at the Center would be told
twice, and its eviction would look like a return from "kept" to "reported"), and that
an id stands for one gap, which is what makes "insert unless the id is known"
(`StoreBatch`) and "clear the active gap if its id matches" (`AcknowledgeLogs`) right. Ids
differ because a gap takes its id from an event it counts. `BatchesKnown` says that
what any request, the late ones too, carries is still on disk or at the Center, and
`AnswerTrue` that an answered one is at the Center. Every action then has two lemmas:
`…Keeps` for the invariant and `…Implements` for the step of `LossyLog`. That the
oldest go first, and that what is left fits, is `OldestGo` and `RestFits`: a part of a
queue that fits, fits, whatever the sizes.

**Sync sessions.** `NoConnectionOutlivesLease` is nearly inductive; it needs that a
connection past `Attach` is the hub's or was replaced (`HubKnows`). `WakeNotLost` is
not: a failed poll may be followed by a good answer still under way, so
`WakesCome` speaks of both, and counts only callers whose lookup could have found
this connection.

**Public addresses.** `Follows` needs that nobody is ahead of a node's revision
(`RevisionsBehind`) and that a selection is available (`SelectedServes`); the rest is
that every statement that changes what a node must probe moves its revision in the same
transaction, and names the switch between its two statements where one does not.

**The addresses.** Three things have to be known to account for events. A gap keeps its
id and its first bound as long as it lives and only grows at its end, so that an
acknowledgement that names the id clears nothing but what the Center was told
(`GapsSound`, `Uploading`).
What a stored request carries stays at the Center (`AcceptedStored`), so an answer that arrives late removes
only events that are there. And what left the queue otherwise than into the gap is known to the Center
(`TailKnown`, `HolesKnown`); hence a gap with a hole in it, the one gap the Center can refuse,
spans an event the Center has, which is the first reason of `AddressRefusals`. The second
is all that is left because the sequence of a path names one event: two different
versions of it can differ in the address alone (`LogNumbered`). The balance of entering and leaving is proved
from what one check may emit: at most one event of each kind for an address, which
`transitionAddressState` decides by whether another path holds it. `ObserveUnfolds` turns
the recursive function of the model into at most three uses of
`EnqueueAddress`, each of which keeps the queue sound. Before it was proved the
invariant was checked on three instances (1.7 million states).

Only model-checked: the liveness properties, because reasoning about fairness and
`ENABLED` is beyond the prover.

## 6. Where the code and its documents disagree

| Run | Property | What happens |
|---|---|---|
| `agent_result_directory` | `ResultStorable` | Evicting an execution without a file calls `os.Remove` on the result directory itself (`state/probe.go:637`); when it is empty it is gone, and the next successful probe stops the Agent until a restart creates it again. |
| `comparison_boundary` | `ComparisonCatchesUp` | A run is announced, then its result is evicted into a gap. `Advance` stops at the execution that stays pending, before it looks at gaps (`processor.go:43`), and never compares a later report of that public IP. |
| `recovered_node` | `RecoveredNodeUploads` | A node recovered on an empty disk counts from 1 again in the same generation; the Center answers 500 for ever. |
| `reset_addresses` | `ResetLeavesNothing` | Address uploads do not look at the pending generation (`address.go:95`), so old events enter a cleared database and survive the promotion. |
| `deleted_path` | `DeletedPathsDiscarded` | `reconcilePublicAddresses` stores the path of every uploaded state without asking whether it still exists (`address.go:257`). When a proxy is deleted that the Agent still reports, the foreign key fails, the poll is answered 500, and with it the configuration that would stop the Agent from reporting it. |
| `repeated_event` | `UploadsIdempotent` | The failed first check of a path is an event without an address. The Center stores it under the address the path has at the time of the upload (`publicAddressIDForEvent`, `address.go:481`). When the answer is lost and the path finds another address, the repeated event is another one to the Center: 400, at every poll until it is evicted. |
| `update_interrupted` | `UnhealthyIsRestored` | No unit starts the supervisor at boot (`scripts/install-agent.sh`). After a power loss between the replacement of the binary and the end of the update, a binary that does not start is never taken back. |

Other behaviours that a reader should know of. The properties name them as exceptions,
or the models contain them:

* **Reset.** The Center refuses to open after a stop between the first two commits of
  `ResetHistory` (`store.go:415`), although `ResetHistory` itself would resume; that is
  the `Announced` window of `CenterReopens`. An interrupted first start is the other
  (`Created`).
* **Addresses.** A gap that grew past an event the Center already has is refused with
  400, as is every later poll until its events are out (`AddressRefusals`). So are the
  first events of a proxy that was disabled and enabled again, because its sequences
  restart at 1. Events of an
  address the Center has never seen are accepted without being stored
  (`address.go:162-168`; `unattributed`), although `OPERATOR_GUIDE.en.md:229-232` says they
  are retained. A poll that overtakes the deletion of its node leaves rows nobody
  removes (`overtook`). Paths of a revoked or silent node stay available and selected.
* **Public addresses.** `UpdatePublicAddress` reads the path, sets the flag and moves
  the revision in separate statements; a report in between moves the address, and the node
  that probes it now does not learn of the flag (`overtaken`).
* **Tasks and updates.** Showing the updates page, or a late poll, expires a task the
  Agent has already accepted; every later report of it is refused (`OutcomesAgree`
  excepts it). The supervisor's health timeout may end while the Agent publishes its
  health: the Center has "succeeded", the Agent rolls back (`Overruled`). A crash
  while the checkpoint is removed keeps the Agent from ever starting
  (`files.checkpoint = "damaged"`, excepted by `UpdateRecoverable`). A new binary found at
  "installing" whose supervisor cannot be started reports "failed", which is refused.
* **Sync sessions.** A disconnect meant for one session may close the connection of the
  next, and an older connection attaching late replaces a newer one of the same session;
  both end in a reconnection.

Hazards known and without a property of their own are in `PROJECT.json` with a
note: clocks going backwards; a lost file that lowers the first sequence of a gap
already uploaded (the Center answers 400; found with two pending results and three
runs, after minutes of search); a run that lost an execution to eviction and stays
`running` at the Center; and the bounded tables of the login throttle.

## 7. What is not modelled

* Report content: parsing, comparison of fields, formats, language.
* Time: timestamps, schedules, the length of timeouts and back-off. A timeout is a
  choice to give up; a task or a lease may become overdue at any time.
* The probe schedule: `StartProbeRun` may happen at any time.
* The size of a notification: an event whose payload is just within the limit of 1 MiB and
  whose envelope is not (`notifications/service.go:448`) fails at every attempt and blocks
  all later events, which `EventsSettle` cannot show.
* Errors of SQLite and bbolt other than the ones named (failed commits of a reset and
  of a deletion, a result file that cannot be written): a transaction is atomic and
  durable. In particular `Recorder.Run` loses the event it holds when the store fails or when
  `EnqueueAgentLog` calls the event invalid (`state/log.go:68`, a mistake of the caller),
  and a notification whose settling statement fails stays "running" until a restart.
* Two Agents of one node at once.
* Retention and deletion of history by age, one statement each.
* The components marked `not_modelled` in `PROJECT.json`: the login throttle and access
  limiter (tables of ten thousand entries under one lock, with time as their only
  input), runners and providers, report interpretation, schedule arithmetic, settings,
  release tooling and the web interface.

The modules translate about 6,800 lines. The repository has 75,000, but 43,000 of
them are generated: the API server and client and the SQL packages, which restate
`openapi.yaml` and the queries and hold no control of their own. Of the
hand-written rest, most is record keeping (validation and conversion of one row), report
parsing and the read side. Modelling them would add
definitions without a behaviour to check.

## 8. What could come next

1. An abstract ledger of probe attempts that `ProbeDelivery` refines (each attempt of a
   generation is published once, as an outcome or inside a gap, or is still owed);
   `comparison_boundary` bounds what it can say of comparison.
2. `AgentUpdate` with the probe store beneath it: a rollback of `state.db` reuses
   sequences the Center has seen, as a recovery on an empty disk does.
