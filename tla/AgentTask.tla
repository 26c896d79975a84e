------------------------------ MODULE AgentTask ------------------------------
(***************************************************************************)
(* Immediate tasks of one node.  The Center keeps one row per task in       *)
(* config.db (probe_tasks) and a node has one active task at a time; a task *)
(* is delivered with the answer to a poll, and reported with later polls    *)
(* until the Center accepts a terminal report and the Agent learns it       *)
(* (src/internal/center/nodes/probe.go, src/internal/center/updates,        *)
(* src/internal/agent/state/probe.go and update.go).                        *)
(*                                                                         *)
(* A task is a complete probe, or an update of the Agent's own binary; what *)
(* becomes of an update after the Agent accepted it is in AgentUpdate.      *)
(* A poll is two transactions of config.db, one of which applies the report *)
(* it carries; the Agent may have given up waiting for it.                  *)
(***************************************************************************)
EXTENDS Naturals, FiniteSets

CONSTANTS MaxTasks,  \* bound on tasks created
          MaxPolls   \* polls the Center may be handling at once

ASSUME TaskAssumption == MaxTasks \in Nat \ {0} /\ MaxPolls \in Nat \ {0}

Tasks == 1 .. MaxTasks
NoTask == 0
Scheduled == 0   \* the active run of a schedule, which belongs to no task

VARIABLES
    row,          \* probe_tasks: kind and status of every task
    overdue,      \* tasks created more than two minutes ago
    nodeVersion,  \* the Agent version of the last poll the Center accepted
    polls,        \* polls in the network or at the Center
    store,        \* the Agent's state.db: task records and the active run
    taskAgent,        \* the Agent's process
    started       \* runs started for each task

taskVars == <<row, overdue, nodeVersion, polls, store, taskAgent, started>>

Terminal == {"succeeded", "failed", "rolled-back", "rejected", "expired"}
Rank(s) == CASE s = "pending" -> 0
             [] s = "acknowledged" -> 1
             [] s \in {"running", "verifying"} -> 2
             [] s = "installing" -> 3
             [] s = "restarting" -> 4
             [] OTHER -> 5
Active(t) == row[t].status \notin Terminal \cup {"none"}

\* agentUpdateReportMatchesRunningVersion: the version that polls with a report of an
\* update must be the one the report says is running.
Matches(q) == q.version = CASE q.status = "acknowledged" -> nodeVersion
                            [] q.status \in {"restarting", "succeeded"} -> "new"
                            [] OTHER -> q.previous

Kind(t) == row[t].kind
Handled(t) == store.tasks[t] # "none"
Unconfirmed == {t \in Tasks : Handled(t)} \ store.confirmed
UpdateUnderWay(s) ==
    \E t \in Tasks \ s.confirmed : Kind(t) = "update" /\ s.tasks[t] \notin Terminal \cup {"none"}

TaskInit ==
    /\ row = [t \in Tasks |-> [kind |-> "probe", status |-> "none"]]
    /\ overdue = {} /\ nodeVersion = "old" /\ polls = {}
    /\ store = [tasks |-> [t \in Tasks |-> "none"], confirmed |-> {}, run |-> {},
                previous |-> [t \in Tasks |-> "old"]]
    /\ taskAgent = [process |-> "running", version |-> "old"]
    /\ started = [t \in Tasks |-> 0]

-----------------------------------------------------------------------------
(* Center                                                                  *)

\* CreateCompleteProbeTask, createReadyNewAddressTask and createTask of the updates
\* service: the unique index on active tasks leaves one slot per node.
CreateTask(t, kind) ==
    /\ row[t].status = "none" /\ \A s \in 1 .. t - 1 : row[s].status \in Terminal
    /\ kind = "update" => nodeVersion = "old"
    /\ row' = [row EXCEPT ![t] = [kind |-> kind, status |-> "pending"]]
    /\ UNCHANGED <<overdue, nodeVersion, polls, store, taskAgent, started>>

PassDeadline(t) ==
    /\ row[t].status = "pending" /\ t \notin overdue
    /\ overdue' = overdue \cup {t}
    /\ UNCHANGED <<row, nodeVersion, polls, store, taskAgent, started>>

Expired(t) == IF row[t].status = "pending" /\ t \in overdue
              THEN [row EXCEPT ![t].status = "expired"] ELSE row

\* Showing the updates expires a pending update task.
ViewUpdates(t) ==
    /\ Kind(t) = "update" /\ row[t].status = "pending" /\ t \in overdue
    /\ row' = Expired(t)
    /\ UNCHANGED <<overdue, nodeVersion, polls, store, taskAgent, started>>

\* applyProbeControlReport accepts the report of a poll.
Admits(q) ==
    \/ q.report = NoTask
    \/ /\ Kind(q.report) = "update" => Matches(q)
       /\ IF row[q.report].status \in Terminal THEN q.status = row[q.report].status
                                               ELSE Rank(q.status) >= Rank(row[q.report].status)

Answer(q, next) == polls' = (polls \ {q}) \cup next

\* The first transaction of Poll; an error is answered at once and changes nothing.
ReceivePoll(q) ==
    /\ q.step = "sent"
    /\ IF Admits(q)
       THEN /\ nodeVersion' = q.version
            /\ row' = IF q.report = NoTask THEN row
                      ELSE [row EXCEPT ![q.report].status = q.status]
            /\ Answer(q, {[q EXCEPT !.step = "reported",
                             !.accepted = IF q.status \in Terminal THEN q.report ELSE NoTask]})
       ELSE UNCHANGED <<row, nodeVersion>> /\ Answer(q, {})
    /\ UNCHANGED <<overdue, store, taskAgent, started>>

\* deliverAgentTask, after the transaction committed: an active task is delivered with
\* every poll, and a pending one that nobody fetched in time expires.
DeliverTask(q) ==
    /\ q.step = "reported"
    /\ LET active == {t \in Tasks : Active(t)}
           late == {t \in active : row[t].status = "pending" /\ t \in overdue}
       IN /\ row' = IF late = {} THEN row ELSE Expired(CHOOSE t \in late : TRUE)
          /\ Answer(q, {[q EXCEPT !.step = "answered",
                           !.task = IF active = late THEN NoTask ELSE CHOOSE t \in active : TRUE]})
    /\ UNCHANGED <<overdue, nodeVersion, store, taskAgent, started>>

\* The request or the answer is lost, or the second half of Poll fails.
DropPoll(q) ==
    /\ Answer(q, {})
    /\ UNCHANGED <<row, overdue, nodeVersion, store, taskAgent, started>>

-----------------------------------------------------------------------------
(* Agent                                                                   *)

Awaited == {q \in polls : q.awaited}

\* The control loop does not poll when two records are unconfirmed.
SendPoll ==
    /\ taskAgent.process \in {"health", "running"} /\ Awaited = {} /\ Cardinality(polls) < MaxPolls
    /\ Cardinality(Unconfirmed) <= 1
    /\ LET report == IF Unconfirmed = {} THEN NoTask ELSE CHOOSE t \in Unconfirmed : TRUE
       IN polls' = polls \cup
            {[awaited |-> TRUE, step |-> "sent", report |-> report, version |-> taskAgent.version,
              status |-> IF report = NoTask THEN "none" ELSE store.tasks[report],
              previous |-> IF report = NoTask THEN "old" ELSE store.previous[report],
              task |-> NoTask, accepted |-> NoTask]}
    /\ UNCHANGED <<row, overdue, nodeVersion, store, taskAgent, started>>

Abandoned == {[q EXCEPT !.awaited = FALSE] : q \in polls}

\* The Agent's request times out; the Center may still handle it.
GiveUpPoll ==
    /\ Awaited # {}
    /\ polls' = Abandoned
    /\ UNCHANGED <<row, overdue, nodeVersion, store, taskAgent, started>>

\* ConfirmTerminalProbeTask and ConfirmTerminalAgentUpdate.
Confirmed(s, t) == IF t = NoTask \/ s.tasks[t] = "none" THEN s
                   ELSE [s EXCEPT !.confirmed = @ \cup {t}]
Usable(q) == q.accepted # NoTask => store.tasks[q.accepted] \in Terminal \cup {"none"}

\* The states in which AcceptTask of the probe manager, and AcceptAgentUpdate, may record
\* a delivered task: busy with a run or an update, not eligible, or accepted.
Accepted(s, t) ==
    IF s.tasks[t] # "none" THEN {s.tasks[t]}
    ELSE IF Kind(t) = "probe"
    THEN IF s.run # {} \/ UpdateUnderWay(s) THEN {"rejected"} ELSE {"running", "rejected"}
    ELSE IF s.run # {} THEN {"rejected"} ELSE {"acknowledged"}

\* Another update must be confirmed first; otherwise the process ends.
Unwelcome(s, t) ==
    /\ Kind(t) = "update" /\ s.tasks[t] = "none"
    /\ \E u \in Tasks \ s.confirmed : Kind(u) = "update" /\ s.tasks[u] # "none"

TakeTask(q) ==
    LET s == Confirmed(store, q.accepted) t == q.task
    IN IF Unwelcome(s, t)
       THEN store' = s /\ taskAgent' = [taskAgent EXCEPT !.process = "down"] /\ UNCHANGED started
       ELSE \E status \in Accepted(s, t) :
              LET starts == status = "running" /\ s.run # {t}
              IN /\ store' = [s EXCEPT !.tasks[t] = status, !.run = IF starts THEN {t} ELSE @,
                                       !.previous[t] = IF Kind(t) = "update" /\ s.tasks[t] = "none"
                                                        THEN taskAgent.version ELSE @]
                 /\ started' = IF starts THEN [started EXCEPT ![t] = @ + 1] ELSE started
                 /\ UNCHANGED taskAgent

\* What follows the answer in poll and in the control loop: the confirmation, then the
\* task, unless fetching the configuration failed or the process stopped in between.
TakeAnswer(q) ==
    /\ q.awaited /\ q.step = "answered" /\ taskAgent.process = "running" /\ Usable(q)
    /\ Answer(q, {})
    /\ \/ q.task # NoTask /\ TakeTask(q)
       \/ store' = Confirmed(store, q.accepted) /\ UNCHANGED <<taskAgent, started>>
    /\ UNCHANGED <<row, overdue, nodeVersion>>

StartSchedule ==
    /\ taskAgent.process = "running" /\ store.run = {} /\ ~UpdateUnderWay(store)
    /\ store' = [store EXCEPT !.run = {Scheduled}]
    /\ UNCHANGED <<row, overdue, nodeVersion, polls, taskAgent, started>>

FaultyReconciled(s, status) ==                       \* every unconfirmed probe fails
    [s EXCEPT !.run = {}, !.tasks = [t \in Tasks |->
        IF t \in s.run \/ (@[t] = "succeeded" /\ t \notin s.confirmed /\ Kind(t) = "probe")
        THEN status ELSE @[t]]]

\* finishProbeRun, and ReconcileProbeRun for a run that a stop interrupted.
Finished(s, status) ==
    [s EXCEPT !.run = {}, !.tasks = [t \in Tasks |-> IF t \in s.run THEN status ELSE @[t]]]

FinishRun ==
    /\ taskAgent.process = "running" /\ store.run # {}
    /\ \E status \in {"succeeded", "failed"} : store' = Finished(store, status)
    /\ UNCHANGED <<row, overdue, nodeVersion, polls, taskAgent, started>>

\* CleanupProbeTasks and CleanupAgentUpdates: a day after the confirmation.
FaultyForgotten == {t \in Tasks : store.tasks[t] \in Terminal}
Forgotten == store.confirmed

CleanupTasks ==
    /\ taskAgent.process = "running" /\ Forgotten # {}
    /\ store' = [store EXCEPT !.tasks = [t \in Tasks |-> IF t \in Forgotten THEN "none" ELSE @[t]],
                              !.confirmed = @ \ Forgotten]
    /\ UNCHANGED <<row, overdue, nodeVersion, polls, taskAgent, started>>

\* The process is stopped, or ends with an error.
Stopped == taskAgent' = [taskAgent EXCEPT !.process = "down"] /\ polls' = Abandoned

StopProcess ==
    /\ taskAgent.process # "down"
    /\ Stopped
    /\ UNCHANGED <<row, overdue, nodeVersion, store, started>>

-----------------------------------------------------------------------------

CenterNext ==
    \/ \E t \in Tasks, kind \in {"probe", "update"} : CreateTask(t, kind)
    \/ \E t \in Tasks : PassDeadline(t) \/ ViewUpdates(t)
    \/ \E q \in polls : ReceivePoll(q) \/ DeliverTask(q) \/ DropPoll(q)

AgentNext ==
    \/ SendPoll \/ GiveUpPoll \/ (\E q \in polls : TakeAnswer(q))
    \/ StartSchedule \/ FinishRun \/ CleanupTasks

=============================================================================
