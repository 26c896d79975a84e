----------------------------- MODULE AgentUpdate -----------------------------
(***************************************************************************)
(* An update of the Agent by itself: the update manager stages the new      *)
(* binary (src/internal/agent/update/manager.go), an independent supervisor *)
(* replaces it, waits until the new Agent reports health and otherwise goes *)
(* back to a checkpoint of the binary and of state.db                       *)
(* (src/internal/agent/update/supervisor.go), and the new Agent commits the *)
(* update at its first successful poll (src/internal/agent/control.go).     *)
(*                                                                         *)
(* The two processes share the files of the state directory and nothing     *)
(* else.  A reboot ends both; the service manager then starts the Agent, not *)
(* the supervisor.  Whether the new binary works is open.                   *)
(***************************************************************************)
EXTENDS AgentTask

CONSTANT MaxReboots  \* bound on reboots during an update

ASSUME UpdateAssumption == MaxReboots \in Nat

VARIABLES
    disk,        \* the Agent's and the supervisor's binaries
    files,       \* the update directory: staged binary, checkpoint, health marker
    supervisor,  \* the step of the supervisor; resume: it found a healthy update
    works,       \* the new binary starts and stays up
    reboots

updateVars == <<disk, files, supervisor, works, reboots>>
agentUpdateVars == <<taskVars, updateVars>>

NoFiles(u) == [task |-> u, staged |-> FALSE, checkpoint |-> "none", saved |-> store, marker |-> FALSE]

UpdateInit ==
    /\ TaskInit
    /\ disk = [binary |-> "old", updater |-> "old"]
    /\ files = NoFiles(NoTask)
    /\ supervisor = [step |-> "idle", resume |-> FALSE]
    /\ works \in BOOLEAN
    /\ reboots = 0

Pending == {t \in Unconfirmed : Kind(t) = "update"}
Is(status) == \E u \in Pending : store.tasks[u] = status
Mark(u, status) == store' = [store EXCEPT !.tasks[u] = status]
KeepCenter == UNCHANGED <<row, overdue, nodeVersion, started>>

-----------------------------------------------------------------------------
(* Update manager of the Agent                                             *)

BeginUpdate(u) ==
    /\ taskAgent.process = "running" /\ store.tasks[u] = "acknowledged"
    /\ Mark(u, "verifying")
    /\ KeepCenter /\ UNCHANGED <<polls, taskAgent, updateVars>>

\* stage: the target must be newer than the running version.
Stage(u) ==
    /\ taskAgent.process = "running" /\ store.tasks[u] = "verifying" /\ taskAgent.version = "old"
    /\ files' = [NoFiles(u) EXCEPT !.staged = TRUE]
    /\ KeepCenter /\ UNCHANGED <<polls, taskAgent, store, disk, supervisor, works, reboots>>

MarkInstalling(u) ==
    /\ taskAgent.process = "running" /\ store.tasks[u] = "verifying"
    /\ files.task = u /\ files.staged
    /\ Mark(u, "installing")
    /\ KeepCenter /\ UNCHANGED <<polls, taskAgent, updateVars>>

\* The staging failed, or the supervisor could not be started: stopping the Agent, which
\* is the supervisor's first step, may interrupt the command that starts it.
FailUpdate(u) ==
    /\ taskAgent.process = "running" /\ store.tasks[u] \in {"verifying", "installing"}
    /\ Mark(u, "failed")
    /\ KeepCenter /\ UNCHANGED <<polls, taskAgent, updateVars>>

Go(step) == supervisor' = [supervisor EXCEPT !.step = step]

\* The service manager starts the supervisor unless it runs already.
TriggerSupervisor ==
    /\ \/ taskAgent.process = "running" /\ Is("installing") /\ UNCHANGED taskAgent
       \/ taskAgent.process = "resume" /\ taskAgent' = [taskAgent EXCEPT !.process = "running"]
    /\ supervisor' = IF supervisor.step = "idle" THEN [step |-> "stop", resume |-> FALSE] ELSE supervisor
    /\ KeepCenter /\ UNCHANGED <<polls, store, disk, files, works, reboots>>

-----------------------------------------------------------------------------
(* Start of the Agent                                                      *)

\* The supervisor keeps the Agent's service stopped.
Held ==
    \/ supervisor.step \in {"read", "checkpoint", "replace", "mark", "start",
                            "restore", "revert", "roll_back"}
    \/ supervisor.resume /\ supervisor.step \in {"finalize", "remove", "removing"}

\* RunWithOptions: what the update a starting Agent finds makes it do.
Entry ==
    IF Is("restarting") \/ Is("succeeded")
    THEN CASE files.checkpoint = "damaged" -> "down"
           [] files.checkpoint = "none" -> IF Is("restarting") THEN "down" ELSE "running"
           [] OTHER -> IF disk.binary = "new" THEN "health" ELSE "down"
    ELSE "running"

StartProcess ==
    /\ taskAgent.process = "down" /\ ~Held
    /\ disk.binary = "new" => works
    /\ Entry # "down"
    /\ taskAgent' = [process |-> Entry, version |-> disk.binary]
    /\ store' = IF Entry = "running" /\ store.run # {} THEN Finished(store, "failed") ELSE store
    /\ KeepCenter /\ UNCHANGED <<polls, updateVars>>

\* waitForUpdateHealth: a successful poll is health, unless it brings another task; a
\* failed fetch of the configuration is tried again.
HealthAnswer(q) ==
    /\ q.awaited /\ q.step = "answered" /\ taskAgent.process = "health" /\ Usable(q)
    /\ Answer(q, {})
    /\ store' = Confirmed(store, q.accepted)
    /\ \/ UNCHANGED taskAgent
       \/ taskAgent' = [taskAgent EXCEPT !.process =
                      IF q.task \in {NoTask, files.task} THEN "commit" ELSE "down"]
    /\ KeepCenter /\ UNCHANGED updateVars

CommitHealth ==
    /\ taskAgent.process = "commit"
    /\ store' = IF store.tasks[files.task] = "restarting"
                THEN [store EXCEPT !.tasks[files.task] = "succeeded"] ELSE store
    /\ taskAgent' = [taskAgent EXCEPT !.process = "publish"]
    /\ KeepCenter /\ UNCHANGED <<polls, updateVars>>

WriteHealthMarker ==
    /\ taskAgent.process = "publish"
    /\ files' = [files EXCEPT !.marker = TRUE]
    /\ taskAgent' = [taskAgent EXCEPT !.process = "resume"]
    /\ KeepCenter /\ UNCHANGED <<polls, store, disk, supervisor, works, reboots>>

-----------------------------------------------------------------------------
(* Supervisor                                                              *)

SupervisorKeeps == UNCHANGED <<row, overdue, nodeVersion, started, works, reboots>>

\* Before the update, and before a rollback.
StopAgent ==
    /\ supervisor.step \in {"stop", "stop_again"}
    /\ Stopped
    /\ Go(IF supervisor.step = "stop" THEN "read" ELSE "restore")
    /\ SupervisorKeeps /\ UNCHANGED <<store, disk, files>>

\* It starts the Agent again when there is nothing for it to do.
ReadPendingUpdate ==
    /\ supervisor.step = "read"
    /\ supervisor' =
         IF Is("installing") THEN [step |-> "checkpoint", resume |-> FALSE]
         ELSE IF (Is("restarting") \/ Is("succeeded")) /\ files.checkpoint = "complete"
         THEN IF files.marker THEN [step |-> "finalize", resume |-> TRUE]
                              ELSE [step |-> "start", resume |-> FALSE]
         ELSE [step |-> "idle", resume |-> FALSE]
    /\ SupervisorKeeps /\ UNCHANGED <<polls, store, taskAgent, disk, files>>

\* ensureCheckpoint keeps a complete one; an incomplete one is made again.
FaultySaved == [files EXCEPT !.checkpoint = "complete"]
Saved == IF files.checkpoint = "complete" THEN files
         ELSE [files EXCEPT !.checkpoint = "complete", !.saved = store]

EnsureCheckpoint ==
    /\ supervisor.step = "checkpoint"
    /\ IF files.checkpoint = "damaged" THEN Go("idle") /\ UNCHANGED files
       ELSE Go("replace") /\ files' = Saved
    /\ SupervisorKeeps /\ UNCHANGED <<polls, store, taskAgent, disk>>

\* Replacing the binary and marking the update may fail, which rolls back.
ReplaceBinary ==
    /\ supervisor.step = "replace"
    /\ \/ disk' = [disk EXCEPT !.binary = "new"] /\ Go("mark")
       \/ Go("restore") /\ UNCHANGED disk
    /\ SupervisorKeeps /\ UNCHANGED <<polls, store, taskAgent, files>>

MarkRestarting ==
    /\ supervisor.step = "mark"
    /\ \/ \E u \in Pending : Mark(u, "restarting") /\ Go("start")
       \/ Go("restore") /\ UNCHANGED store
    /\ SupervisorKeeps /\ UNCHANGED <<polls, taskAgent, disk, files>>

\* The marker of an earlier attempt is removed; a service that does not start is rolled back.
StartNewAgent ==
    /\ supervisor.step = "start"
    /\ files' = [files EXCEPT !.marker = FALSE]
    /\ Go("wait") \/ Go("stop_again")
    /\ SupervisorKeeps /\ UNCHANGED <<polls, store, taskAgent, disk>>

SeeHealthMarker ==
    /\ supervisor.step = "wait" /\ files.marker
    /\ Go("finalize")
    /\ SupervisorKeeps /\ UNCHANGED <<polls, store, taskAgent, disk, files>>

FaultyHealthTimeout ==   \* only an Agent that is not there is unhealthy
    /\ supervisor.step = "wait" /\ ~files.marker /\ taskAgent.process = "down"
    /\ Go("stop_again")
    /\ SupervisorKeeps /\ UNCHANGED <<polls, store, taskAgent, disk, files>>

\* Three minutes without the marker; the Agent runs until it is stopped.
HealthTimeout ==
    /\ supervisor.step = "wait" /\ ~files.marker
    /\ Go("stop_again")
    /\ SupervisorKeeps /\ UNCHANGED <<polls, store, taskAgent, disk, files>>

RefreshUpdater ==
    /\ supervisor.step = "finalize"
    /\ disk' = [disk EXCEPT !.updater = disk.binary]
    /\ Go("remove")
    /\ SupervisorKeeps /\ UNCHANGED <<polls, store, taskAgent, files>>

\* restoreCheckpoint: state.db, then the binary, each by a rename.
RestoreState ==
    /\ supervisor.step = "restore"
    /\ store' = files.saved
    /\ Go("revert")
    /\ SupervisorKeeps /\ UNCHANGED <<polls, taskAgent, disk, files>>

RestoreBinary ==
    /\ supervisor.step = "revert"
    /\ disk' = [disk EXCEPT !.binary = "old"]
    /\ Go("roll_back")
    /\ SupervisorKeeps /\ UNCHANGED <<polls, store, taskAgent, files>>

RollBack ==
    /\ supervisor.step = "roll_back"
    /\ \E u \in Pending : Mark(u, "rolled-back")
    /\ Go("remove")
    /\ SupervisorKeeps /\ UNCHANGED <<polls, taskAgent, disk, files>>

\* cleanupUpdateFiles: the checkpoint is a directory whose files go one by one, the file
\* that marks it complete first, last or in between; then the rest.
RemoveCheckpoint ==
    /\ supervisor.step = "remove"
    /\ \E c \in {"none", "damaged"} : files' = [files EXCEPT !.checkpoint = c]
    /\ Go("removing")
    /\ SupervisorKeeps /\ UNCHANGED <<polls, store, taskAgent, disk>>

RemoveFiles ==
    /\ supervisor.step = "removing"
    /\ files' = NoFiles(files.task)
    /\ supervisor' = [step |-> "idle", resume |-> FALSE]
    /\ SupervisorKeeps /\ UNCHANGED <<polls, store, taskAgent, disk>>

\* Power is lost: only what is on disk remains.
Reboot ==
    /\ reboots < MaxReboots /\ reboots' = reboots + 1
    /\ Stopped
    /\ supervisor' = [step |-> "idle", resume |-> FALSE]
    /\ KeepCenter /\ UNCHANGED <<store, disk, files, works>>

-----------------------------------------------------------------------------

ManageUpdate == (\E u \in Pending : BeginUpdate(u) \/ Stage(u) \/ MarkInstalling(u) \/ FailUpdate(u))
                \/ TriggerSupervisor
Commit == (\E q \in polls : HealthAnswer(q)) \/ CommitHealth \/ WriteHealthMarker
Supervise == StopAgent \/ ReadPendingUpdate \/ EnsureCheckpoint \/ ReplaceBinary \/ MarkRestarting
             \/ StartNewAgent \/ SeeHealthMarker \/ HealthTimeout \/ RefreshUpdater
             \/ RestoreState \/ RestoreBinary \/ RollBack \/ RemoveCheckpoint \/ RemoveFiles

UpdateNext ==
    \/ (CenterNext \/ AgentNext \/ StopProcess) /\ UNCHANGED updateVars
    \/ ManageUpdate \/ StartProcess \/ Commit \/ Supervise \/ Reboot

UpdateSpec == UpdateInit /\ [][UpdateNext]_agentUpdateVars

-----------------------------------------------------------------------------
(* Properties                                                              *)

Statuses == Terminal \cup {"none", "pending", "acknowledged", "running", "verifying",
                           "installing", "restarting"}
Versions == {"old", "new"}

\* Types; and the task of the active run, and no other, is recorded as running.
UpdateTypeOK ==
    /\ row \in [Tasks -> [kind : {"probe", "update"}, status : Statuses]]
    /\ overdue \subseteq Tasks /\ nodeVersion \in Versions
    /\ store.tasks \in [Tasks -> Statuses \ {"pending", "expired"}]
    /\ store.confirmed \subseteq Tasks /\ store.run \subseteq Tasks \cup {Scheduled}
    /\ store.run \ {Scheduled} = {t \in Tasks : store.tasks[t] = "running"}
    /\ taskAgent.process \in {"down", "health", "commit", "publish", "resume", "running"}
    /\ disk \in [binary : Versions, updater : Versions]
    /\ files.checkpoint \in {"none", "damaged", "complete"}

\* The Agent never has two unconfirmed tasks: with two it neither polls (poll in
\* control.go) nor opens its store.
OneUnconfirmed == Cardinality(Unconfirmed) <= 1

\* A delivered task is run once, however often it is delivered and whatever the two
\* sides forget afterwards.
RunOnce == \A t \in Tasks : started[t] <= 1

\* All three, whatever is lost between the two sides, repeated or handled late.
TaskOnce == UpdateTypeOK /\ OneUnconfirmed /\ RunOnce

\* An update is rolled back after the Agent committed it: the supervisor's time ran out
\* while the Agent was publishing its health.
Overruled(t) == Kind(t) = "update" /\ row[t].status = "succeeded" /\ store.tasks[t] # "succeeded"

\* Center and Agent end a task with the same outcome.  The exceptions are a task that
\* expired at the Center after the Agent took it (a late poll, or showing the updates,
\* found it pending) and Overruled; every later report of such a task is refused.
OutcomesAgree ==
    \A t \in Tasks :
      row[t].status \in Terminal \ {"expired"} /\ store.tasks[t] \in Terminal =>
        row[t].status = store.tasks[t] \/ Overruled(t)

\* Until an update is over, whatever is lost, there is a complete checkpoint of the state
\* in which it was about to be installed.
CanRollBack ==
    disk.binary = "new" /\ (Is("installing") \/ Is("restarting")) =>
      /\ files.checkpoint = "complete"
      /\ \A u \in Pending : files.saved.tasks[u] = "installing"

\* The Agent can start whenever the supervisor does not hold it, with one window: its
\* checkpoint was being removed.
Startable ==
    taskAgent.process = "down" /\ ~Held /\ files.checkpoint # "damaged" => Entry # "down"

\* The supervisor itself is only replaced by a binary that reported health.
UpdaterWorks == disk.updater = "new" => works

\* Wherever the two processes are cut off from each other, what is on disk lets the
\* update be carried on or taken back.
UpdateRecoverable == CanRollBack /\ Startable /\ UpdaterWorks

\* A binary that does not work is replaced by the previous one (OPERATOR_GUIDE.en.md).
UnhealthyIsRestored == disk.binary = "new" /\ ~works ~> disk.binary = "old"

\* An update that reached the supervisor ends, whatever the new Agent does.
UpdateEnds == (Is("installing") \/ Is("restarting")) ~> ~(Is("installing") \/ Is("restarting"))

\* A report that the Center will always refuse.
Refused ==
    \E t \in Unconfirmed : row[t].status \in Terminal /\ row[t].status # store.tasks[t]

\* A task that the Center created ends, unless the Agent's reports are refused.
TaskEnds == \A t \in Tasks : Active(t) ~> (~Active(t) \/ Refused)

\* The Agent and its service manager keep running, as does the supervisor once started;
\* a poll that is sent again and again is answered at some time.
UpdateFairness(on) ==
    /\ SF_agentUpdateVars(on /\ SendPoll /\ UNCHANGED updateVars)
    /\ SF_agentUpdateVars(on /\ \E q \in Awaited : ReceivePoll(q) /\ UNCHANGED updateVars)
    /\ SF_agentUpdateVars(on /\ \E q \in Awaited : DeliverTask(q) /\ UNCHANGED updateVars)
    /\ SF_agentUpdateVars(on /\ \E q \in Awaited : TakeAnswer(q) /\ q.task = NoTask /\ UNCHANGED updateVars)
    /\ SF_agentUpdateVars(on /\ \E q \in Awaited : TakeAnswer(q) /\ q.task # NoTask /\ Handled(q.task)' /\ UNCHANGED updateVars)
    /\ WF_agentUpdateVars(on /\ \E q \in polls \ Awaited : DropPoll(q) /\ UNCHANGED updateVars)
    /\ WF_agentUpdateVars(on /\ StartProcess) /\ SF_agentUpdateVars(on /\ FinishRun /\ UNCHANGED updateVars)
    /\ SF_agentUpdateVars(on /\ ManageUpdate) /\ SF_agentUpdateVars(on /\ Commit)
    /\ WF_agentUpdateVars(on /\ Supervise)

FairUpdateSpec == UpdateSpec /\ UpdateFairness(TRUE)

=============================================================================
