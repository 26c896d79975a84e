-------------------------- MODULE AgentUpdate_proofs --------------------------
(***************************************************************************)
(* A task of the Agent is run once and ends with one outcome, and wherever  *)
(* an update is interrupted, what is on disk lets it be carried on or taken  *)
(* back: for any number of tasks, polls and reboots, whatever is lost,       *)
(* repeated or late.                                                        *)
(***************************************************************************)
EXTENDS AgentUpdate, FiniteSetTheorems, TLAPS

-----------------------------------------------------------------------------
(***************************************************************************)
(* The types                                                               *)

AgentStatus == Statuses \ {"pending", "expired"}

AgentStore ==
    [tasks : [Tasks -> AgentStatus], confirmed : SUBSET Tasks,
     run : SUBSET (Tasks \cup {Scheduled}), previous : [Tasks -> Versions]]

TaskPoll ==
    [awaited : BOOLEAN, step : {"sent", "reported", "answered"}, report : Tasks \cup {NoTask},
     version : Versions, status : AgentStatus, previous : Versions,
     task : Tasks \cup {NoTask}, accepted : Tasks \cup {NoTask}]

Processes == {"down", "health", "commit", "publish", "resume", "running"}

UpdateFiles ==
    [task : Tasks \cup {NoTask}, staged : BOOLEAN, checkpoint : {"none", "damaged", "complete"},
     saved : AgentStore, marker : BOOLEAN]

Steps == {"idle", "stop", "read", "checkpoint", "replace", "mark", "start", "wait",
          "stop_again", "finalize", "restore", "revert", "roll_back", "remove", "removing"}

TaskTypes ==
    /\ row \in [Tasks -> [kind : {"probe", "update"}, status : Statuses]]
    /\ overdue \subseteq Tasks /\ nodeVersion \in Versions
    /\ polls \subseteq TaskPoll
    /\ store \in AgentStore
    /\ taskAgent \in [process : Processes, version : Versions]

UpdateTypes ==
    /\ disk \in [binary : Versions, updater : Versions]
    /\ files \in UpdateFiles
    /\ supervisor \in [step : Steps, resume : BOOLEAN]
    /\ works \in BOOLEAN

-----------------------------------------------------------------------------
(* The invariant                                                           *)

\* A report with one of these outcomes may be accepted; "expired" is the Center's own.
Outcomes == Terminal \ {"expired"}

\* One active task at a time; a task is run once, and not before it is created.
Rows ==
    /\ \A t \in Tasks : \A s \in 1 .. t - 1 : row[t].status # "none" => row[s].status \in Terminal
    /\ started \in [Tasks -> 0 .. 1]
    /\ \A t \in Tasks : row[t].status = "none" => started[t] = 0

Open(s, t) == s.tasks[t] # "none" /\ t \notin s.confirmed

\* The task records s of a state.db, the present one or the one in the checkpoint, beside
\* the rows r of the Center.
Records(r, s) ==
    /\ \A t, u \in Tasks : Open(s, t) /\ Open(s, u) => t = u
    /\ \A t \in Tasks : s.tasks[t] = "running" <=> t \in s.run
    /\ \A t, u \in s.run : t = u
    /\ \A t \in Tasks :
         /\ s.tasks[t] # "none" => r[t].status # "none"
         /\ s.tasks[t] \in {"acknowledged", "verifying", "installing", "restarting", "rolled-back"}
              => r[t].kind = "update"
         /\ s.tasks[t] = "running" => r[t].kind = "probe"
         /\ Open(s, t) /\ r[t].kind = "update" /\ s.tasks[t] \notin Terminal => s.run = {}
    /\ \A t \in s.confirmed : s.tasks[t] \in Terminal /\ r[t].status \in Outcomes

\* OutcomesAgree of one task, whatever the Agent's record says.
Agrees(r, s, t) ==
    s.tasks[t] # "none" =>
      \/ r[t].status \notin Terminal \/ r[t].status \in {"expired", s.tasks[t]}
      \/ r[t].status = "succeeded" /\ r[t].kind = "update"

\* The Agent took back an update that the Center knows to have succeeded.  The Center
\* refuses all its reports from then on, and answers none of its polls.
Refusing ==
    /\ \E u \in Unconfirmed : Overruled(u)
    /\ taskAgent.process # "commit" /\ \A q \in Awaited : q.step = "sent"

\* A task the Center would deliver again has not been run, if the Agent has no record of it.
NotStarted(s) == \A t \in Tasks : Active(t) /\ s.tasks[t] = "none" => started[t] = 0
StartedOnce == Refusing \/ NotStarted(store)

\* What makes the report of an outcome harmless, however late: the row is closed, the
\* record still says so, or ...
Told(t, outcome) ==
    \/ row[t].status \in Terminal
    \/ store.tasks[t] = outcome
    \/ store.tasks[t] = "none" /\ Refusing
    \/ store.tasks[t] # "none" /\ outcome = "succeeded" /\ Kind(t) = "update"

\* Any poll on its way, also one the Agent has given up.
PollSound(q) ==
    /\ q.step = "sent" => q.task = NoTask /\ q.accepted = NoTask
    /\ q.step # "sent" => q.accepted = IF q.status \in Terminal THEN q.report ELSE NoTask
    /\ q.accepted # NoTask => row[q.accepted].status \in Outcomes
    /\ q.task # NoTask => row[q.task].status # "none" /\ q.step = "answered"
    /\ q.report = NoTask => q.status = "none"
    /\ q.report # NoTask =>
         /\ q.status # "none" /\ row[q.report].status # "none"
         /\ q.status = "succeeded" /\ Kind(q.report) = "update" => Rank(row[q.report].status) >= 4
         /\ q.status \in Terminal => Told(q.report, q.status)
         /\ q.step # "sent" => /\ Rank(row[q.report].status) >= Rank(q.status)
                               /\ row[q.report].status # "pending"

\* What else is on its way about the task that an awaited poll reports under way.
Rivals(q) == {p \in polls : p.report = q.report /\ p.status \in Terminal}

\* The poll that the Agent waits for, of which there is one.
AwaitedSound(q) ==
    /\ taskAgent.process \in {"health", "running"}
    /\ \A p \in polls : p.awaited => p = q
    /\ \A t \in Tasks : Open(store, t) <=> t = q.report
    /\ q.report # NoTask =>
         /\ q.status \in Terminal => store.tasks[q.report] = q.status
         /\ taskAgent.process = "health" => q.status = store.tasks[q.report]
         /\ taskAgent.process = "running" => q.status # "restarting"
         /\ q.status \notin Terminal /\ row[q.report].status \notin Terminal =>
              \A p \in Rivals(q) : p.status = "succeeded" /\ Kind(p.report) = "update"
         /\ q.step # "sent" /\ q.status \notin Terminal /\ taskAgent.process = "running" =>
              Active(q.report) /\ Rivals(q) = {} /\ q.task \in {NoTask, q.report}
    /\ q.task # NoTask =>
         /\ \/ row[q.task].status \notin Terminal \/ row[q.task].status = "expired"
            \/ Open(store, q.task)
         /\ store.tasks[q.task] = "none" => started[q.task] = 0

PollsSound == \A q \in polls : PollSound(q) /\ (q.awaited => AwaitedSound(q))

\* How far the update in the update directory has come.
Phase == IF files.task \in Unconfirmed THEN store.tasks[files.task] ELSE "none"

\* It is the one under way, or is over at both ends.
TaskNamed ==
    /\ files.task \in Tasks =>
         /\ Kind(files.task) = "update"
         /\ IF files.task \in Unconfirmed THEN Phase # "acknowledged"
                                        ELSE row[files.task].status \in Outcomes
    /\ \A u \in Unconfirmed :
         Kind(u) = "update" /\ store.tasks[u] \in {"installing", "restarting", "succeeded"}
           => u = files.task
    /\ \A u \in Tasks :
         store.tasks[u] = "succeeded" /\ Kind(u) = "update" => Rank(row[u].status) >= 4

ProcessOK ==
    /\ Held => taskAgent.process = "down"
    /\ taskAgent.process # "down" => taskAgent.version = disk.binary
    /\ taskAgent.process \in {"health", "commit", "publish", "resume"} =>
         files.task \in Tasks /\ works /\ disk.binary = "new" /\ Phase # "installing"
    /\ taskAgent.process \in {"publish", "resume", "running"} => Phase # "restarting"
    /\ taskAgent.process = "commit" /\ Phase = "restarting" => Rank(row[files.task].status) >= 4

\* What is on disk, against the phase.
DiskOK ==
    /\ files.marker \/ disk.updater = "new" => works
    /\ Phase = "verifying" /\ files.staged => disk.binary = "old"
    /\ Phase = "installing" /\ disk.binary = "new" => files.checkpoint = "complete"
    /\ Phase = "restarting" => files.checkpoint = "complete" /\ disk.binary = "new"
    /\ Phase = "succeeded" => disk.binary = "new"

\* A complete checkpoint is of the state in which the update was about to be installed,
\* and nothing was accepted since.
CheckpointOK ==
    files.checkpoint = "complete" =>
      /\ files.task \in Tasks
      /\ Records(row, files.saved) /\ files.saved.tasks[files.task] = "installing"
      /\ \A t \in Tasks \ {files.task} :
           /\ Agrees(row, files.saved, t)
           /\ files.task \in Unconfirmed /\ files.saved.tasks[t] = "none" => store.tasks[t] = "none"

SupervisorOK ==
    LET step == supervisor.step IN
    /\ supervisor.resume => step \in {"finalize", "remove", "removing"}
    /\ step \in {"replace", "mark", "start", "wait", "stop_again", "restore", "revert", "roll_back"}
         => files.checkpoint = "complete"
    /\ step \in {"start", "wait", "stop_again", "restore"} =>
         Phase \in {"installing", "restarting", "succeeded"} \/ row[files.task].status = "succeeded"
    /\ step \in {"stop", "read"} => Phase # "restarting"
    /\ step \in {"checkpoint", "replace", "mark", "revert", "roll_back"} => Phase = "installing"
    /\ step \in {"mark", "start", "wait", "stop_again", "finalize"} => disk.binary = "new"
    /\ step \in {"start", "wait", "stop_again", "finalize"} => Phase # "installing"
    /\ step = "wait" /\ files.marker => Phase # "restarting"
    /\ step = "finalize" => Phase # "restarting" /\ works
    /\ step \in {"remove", "removing"} =>
         disk.binary = "old" \/ Phase \notin {"installing", "restarting"}

TaskInv == TaskTypes /\ Rows /\ Records(row, store) /\ (\A t \in Tasks : Agrees(row, store, t))
           /\ StartedOnce /\ PollsSound
UpdateInv == UpdateTypes /\ TaskNamed /\ ProcessOK /\ DiskOK /\ CheckpointOK /\ SupervisorOK

-----------------------------------------------------------------------------
(* Facts about the operators                                               *)

LEMMA Ranks ==
  /\ \A s \in Statuses : Rank(s) \in 0 .. 5
  /\ \A s \in Statuses : Rank(s) >= 4 <=> s \in Terminal \cup {"none", "restarting"}
  /\ \A s \in Statuses : Rank(s) = 5 <=> s \in Terminal \cup {"none"}
  /\ Rank("pending") = 0 /\ \A s \in Statuses : Rank(s) = 0 => s = "pending"
BY DEF Statuses, Terminal, Rank

LEMMA SlotIsOne ==
  ASSUME Rows, NEW t \in Tasks, NEW u \in Tasks, Active(t), Active(u)
  PROVE  t = u
<1>0. t \in Nat /\ u \in Nat /\ t >= 1 /\ u >= 1
  BY TaskAssumption DEF Tasks
<1>1. t < u => t \in 1 .. u - 1
  BY <1>0
<1>2. u < t => u \in 1 .. t - 1
  BY <1>0
<1>3. ~(t < u) /\ ~(u < t)
  BY <1>1, <1>2 DEF Rows, Active
<1> QED BY <1>0, <1>3

LEMMA OneIsOpen ==
  ASSUME Records(row, store), NEW t \in Unconfirmed, NEW u \in Unconfirmed
  PROVE  t = u
BY DEF Records, Open, Unconfirmed, Handled

LEMMA UnconfirmedIsOpen == \A t \in Tasks : t \in Unconfirmed <=> Open(store, t)
BY DEF Open, Unconfirmed, Handled

\* What Is asks of the store is the phase of the update in the update directory.
LEMMA IsPhase ==
  ASSUME TaskNamed, UpdateTypes, TaskTypes, Records(row, store),
         NEW s \in {"installing", "restarting", "succeeded"}
  PROVE  /\ Is(s) <=> Phase = s
         /\ Phase = s => files.task \in Tasks
<1>1. Is(s) <=> \E u \in Unconfirmed : Kind(u) = "update" /\ store.tasks[u] = s
  BY DEF Is, Pending
<1>2. files.task \in Unconfirmed => files.task \in Tasks
  BY DEF Unconfirmed
<1>3. \A u \in Unconfirmed : Kind(u) = "update" /\ store.tasks[u] = s => u = files.task
  BY DEF TaskNamed
<1>4. s # "none"
  OBVIOUS
<1>5. files.task \in Tasks => Kind(files.task) = "update"
  BY DEF TaskNamed
<1> QED BY <1>1, <1>2, <1>3, <1>4, <1>5 DEF Phase

-----------------------------------------------------------------------------
(* What any step may do to the rows                                        *)

RowTypes(r) == r \in [Tasks -> [kind : {"probe", "update"}, status : Statuses]]

\* A task keeps its kind, its status does not go back, and an outcome stays.
RowsGrow(r, new) ==
    \A t \in Tasks :
      /\ r[t].status \in Terminal => new[t].status = r[t].status
      /\ r[t].status # "none" => /\ new[t].kind = r[t].kind /\ new[t].status # "none"
                                 /\ Rank(new[t].status) >= Rank(r[t].status)
                                 /\ new[t].status = "pending" => r[t].status = "pending"
      /\ r[t].status = "none" => new[t].status \in {"none", "pending"}
      /\ new[t].status = "expired" => r[t].status \in {"expired", "pending"}

\* An outcome other than expiry is what a poll reported.
RowsReported ==
    \A t \in Tasks : row'[t].status \in Outcomes /\ row[t].status \notin Terminal =>
        \E p \in polls : p.report = t /\ p.status = row'[t].status

LEMMA SameRowsGrow ==
  ASSUME NEW r, RowTypes(r) PROVE RowsGrow(r, r)
<1>1. \A t \in Tasks : Rank(r[t].status) \in Nat
  BY Ranks DEF RowTypes
<1> QED BY <1>1 DEF RowsGrow

LEMMA CreateGrows ==
  ASSUME TaskTypes, NEW t \in Tasks, NEW kind \in {"probe", "update"}, CreateTask(t, kind)
  PROVE  RowTypes(row') /\ RowsGrow(row, row') /\ RowsReported
<1>1. /\ row[t].status = "none" /\ RowTypes(row)
      /\ row' = [row EXCEPT ![t] = [kind |-> kind, status |-> "pending"]]
  BY DEF CreateTask, TaskTypes, RowTypes
<1>2. "pending" \in Statuses /\ "pending" \notin Terminal \cup {"expired"}
  BY DEF Statuses, Terminal
<1>3. RowTypes(row')
  BY <1>1, <1>2 DEF RowTypes
<1>4. RowsGrow(row, row')
  BY <1>1, <1>2, SameRowsGrow DEF RowsGrow, RowTypes, Terminal
<1> QED BY <1>1, <1>2, <1>3, <1>4 DEF RowsReported, RowTypes, Outcomes

LEMMA ExpiryGrows ==
  ASSUME TaskTypes, NEW t \in Tasks, row' = row \/ row' = Expired(t)
  PROVE  RowTypes(row') /\ RowsGrow(row, row') /\ RowsReported
<1>0. RowTypes(row)
  BY DEF TaskTypes, RowTypes
<1>1. CASE row' = row
  BY <1>0, <1>1, SameRowsGrow DEF RowsReported, Outcomes
<1>2. CASE row[t].status = "pending" /\ row' = [row EXCEPT ![t].status = "expired"]
  <2>1. "expired" \in Statuses \cap Terminal /\ "pending" \notin Terminal /\ "pending" \in Statuses
    BY DEF Statuses, Terminal
  <2>2. RowTypes(row')
    BY <1>0, <1>2, <2>1 DEF RowTypes
  <2>3. Rank("expired") >= Rank("pending")
    BY <2>1, Ranks
  <2>4. RowsGrow(row, row')
    BY <1>0, <1>2, <2>1, <2>3, SameRowsGrow DEF RowsGrow, RowTypes
  <2> QED BY <1>0, <1>2, <2>1, <2>2, <2>4 DEF RowsReported, RowTypes, Outcomes
<1> QED BY <1>1, <1>2 DEF Expired

LEMMA ReportGrows ==
  ASSUME TaskTypes, NEW q \in polls, PollSound(q), ReceivePoll(q)
  PROVE  RowTypes(row') /\ RowsGrow(row, row') /\ RowsReported
<1>0. RowTypes(row) /\ q \in TaskPoll
  BY DEF TaskTypes, RowTypes
<1>1. CASE row' = row
  BY <1>0, <1>1, SameRowsGrow DEF RowsReported, Outcomes
<1>2. CASE Admits(q) /\ q.report # NoTask /\ row' = [row EXCEPT ![q.report].status = q.status]
  <2>0. q.report \in Tasks /\ q.status \in AgentStatus
    BY <1>0, <1>2 DEF TaskPoll
  <2> DEFINE t == q.report
  <2>1. row[t].status # "none" /\ q.status # "none"
    BY <1>2 DEF PollSound
  <2>2. IF row[t].status \in Terminal THEN q.status = row[t].status
                                      ELSE Rank(q.status) >= Rank(row[t].status)
    BY <1>2 DEF Admits
  <2>3. RowTypes(row')
    BY <1>0, <1>2, <2>0 DEF RowTypes, AgentStatus
  <2>4. /\ row'[t].status = q.status /\ row'[t].kind = row[t].kind
        /\ \A u \in Tasks : u # t => row'[u] = row[u]
    BY <1>0, <1>2, <2>0 DEF RowTypes
  <2>5. q.status \notin {"pending", "expired"}
    BY <2>0 DEF AgentStatus
  <2>6. RowsGrow(row, row')
    BY <1>0, <2>0, <2>1, <2>2, <2>4, <2>5, SameRowsGrow DEF RowsGrow
  <2> QED BY <2>0, <2>3, <2>4, <2>6 DEF RowsReported, Outcomes
<1> QED BY <1>1, <1>2 DEF ReceivePoll

LEMMA RecordsGrow ==
  ASSUME NEW r, NEW new, NEW s \in AgentStore, RowsGrow(r, new), Records(r, s)
  PROVE  Records(new, s) /\ \A t \in s.confirmed : Agrees(r, s, t) => Agrees(new, s, t)
<1>1. \A t \in Tasks : r[t].status # "none" => new[t].kind = r[t].kind /\ new[t].status # "none"
  BY DEF RowsGrow
<1>2. \A t \in s.confirmed : /\ new[t].status = r[t].status /\ r[t].status # "none"
                             /\ r[t].status \in Terminal
  BY DEF RowsGrow, Records, Outcomes, AgentStore, Terminal
<1>3. s.confirmed \subseteq Tasks
  BY DEF AgentStore
<1>4. Records(new, s)
  <2>1. \A t \in Tasks :
         /\ s.tasks[t] # "none" => new[t].status # "none"
         /\ s.tasks[t] \in {"acknowledged", "verifying", "installing", "restarting", "rolled-back"}
              => new[t].kind = "update"
         /\ s.tasks[t] = "running" => new[t].kind = "probe"
         /\ Open(s, t) /\ new[t].kind = "update" /\ s.tasks[t] \notin Terminal => s.run = {}
    BY <1>1 DEF Records, Open
  <2>2. \A t \in s.confirmed : s.tasks[t] \in Terminal /\ new[t].status \in Outcomes
    BY <1>2 DEF Records
  <2> QED BY <2>1, <2>2 DEF Records
<1> QED BY <1>1, <1>2, <1>3, <1>4 DEF Agrees

-----------------------------------------------------------------------------
(* What a step that leaves the store alone keeps                           *)

LEMMA OutcomesTold ==
  ASSUME TaskTypes, PollsSound, RowsReported, NEW t \in Tasks,
         row'[t].status \in Outcomes, row[t].status \notin Terminal
  PROVE  Told(t, row'[t].status)
<1>1. PICK p \in polls : p.report = t /\ p.status = row'[t].status
  BY DEF RowsReported
<1>2. t # NoTask /\ p.status \in Terminal
  BY <1>1 DEF Outcomes, Tasks, NoTask
<1> QED BY <1>1, <1>2 DEF PollsSound, PollSound

LEMMA RowsKeepStore ==
  ASSUME TaskInv, RowTypes(row'), RowsGrow(row, row'), RowsReported, store' = store
  PROVE  Records(row', store') /\ \A t \in Tasks : Agrees(row', store', t)
<1>0. TaskTypes /\ store \in AgentStore /\ Records(row, store) /\ PollsSound
  BY DEF TaskInv, TaskTypes
<1>1. Records(row', store)
  BY <1>0, RecordsGrow
<1>2. ASSUME NEW t \in Tasks, store.tasks[t] # "none"
      PROVE  \/ row'[t].status \notin Terminal \/ row'[t].status \in {"expired", store.tasks[t]}
             \/ row'[t].status = "succeeded" /\ row'[t].kind = "update"
  <2>1. row'[t].kind = row[t].kind
    BY <1>0, <1>2 DEF RowsGrow, Records
  <2>2. CASE row[t].status \in Terminal
    <3>1. row'[t].status = row[t].status
      BY <2>2 DEF RowsGrow
    <3>2. Agrees(row, store, t)
      BY DEF TaskInv
    <3> QED BY <1>2, <2>1, <2>2, <3>1, <3>2 DEF Agrees
  <2>3. CASE row[t].status \notin Terminal
    <3>1. SUFFICES ASSUME row'[t].status \in Outcomes
                   PROVE  \/ row'[t].status = store.tasks[t]
                          \/ row'[t].status = "succeeded" /\ row[t].kind = "update"
      BY <2>1 DEF Outcomes
    <3>2. Told(t, row'[t].status)
      BY <1>0, <2>3, <3>1, OutcomesTold
    <3> QED BY <1>2, <2>3, <3>2 DEF Told, Kind
  <2> QED BY <2>2, <2>3
<1> QED BY <1>1, <1>2 DEF Agrees

\* A task that was not created has no record, so that a creation changes no Told.
LEMMA RefusingStays ==
  ASSUME TaskInv, RowsGrow(row, row'), store' = store, taskAgent' = taskAgent, Refusing,
         \A q \in Awaited' : q.step = "sent"
  PROVE  Refusing'
<1>1. PICK u \in Unconfirmed : Overruled(u)
  BY DEF Refusing
<1>2. u \in Tasks /\ u \in Unconfirmed'
  BY DEF Unconfirmed, Handled
<1>3. Overruled(u)'
  BY <1>1, <1>2 DEF Overruled, Kind, RowsGrow, Terminal
<1> QED BY <1>2, <1>3 DEF Refusing

LEMMA ToldStays ==
  ASSUME TaskInv, RowsGrow(row, row'), store' = store, Refusing => Refusing',
         NEW t \in Tasks, NEW o, Told(t, o)
  PROVE  Told(t, o)'
<1>1. row[t].status \in Terminal => row'[t].status \in Terminal
  BY DEF RowsGrow
<1>2. store.tasks[t] # "none" => row[t].status # "none"
  BY DEF TaskInv, Records
<1>3. store.tasks[t] # "none" => row'[t].kind = row[t].kind
  BY <1>2 DEF RowsGrow
<1> QED BY <1>1, <1>3 DEF Told, Kind

\* A poll on its way stays sound while the reports of outcomes stay harmless.
LEMMA PollStays ==
  ASSUME TaskTypes, RowsGrow(row, row'), RowTypes(row'), NEW q \in TaskPoll, PollSound(q),
         \A t \in Tasks : \A o \in Terminal : Told(t, o) => Told(t, o)'
  PROVE  PollSound(q)'
<1>1. q.report # NoTask => q.report \in Tasks
  BY DEF TaskPoll
<1>2. q.accepted # NoTask => q.accepted \in Tasks
  BY DEF TaskPoll
<1>3. q.task # NoTask => q.task \in Tasks
  BY DEF TaskPoll
<1>4. q.accepted # NoTask => row'[q.accepted].status \in Outcomes
  BY <1>2 DEF PollSound, RowsGrow, Outcomes
<1>5. q.task # NoTask => row'[q.task].status # "none" /\ q.step = "answered"
  BY <1>3 DEF PollSound, RowsGrow
<1>6. ASSUME q.report # NoTask
      PROVE  /\ q.status # "none" /\ row'[q.report].status # "none"
             /\ q.status = "succeeded" /\ row'[q.report].kind = "update" => Rank(row'[q.report].status) >= 4
             /\ q.status \in Terminal => Told(q.report, q.status)'
             /\ q.step # "sent" => /\ Rank(row'[q.report].status) >= Rank(q.status)
                                   /\ row'[q.report].status # "pending"
  <2> DEFINE t == q.report
  <2>1. t \in Tasks /\ row[t].status # "none" /\ q.status # "none"
    BY <1>1, <1>6 DEF PollSound
  <2>2. /\ row'[t].kind = row[t].kind /\ row'[t].status # "none"
        /\ Rank(row'[t].status) >= Rank(row[t].status)
        /\ row'[t].status = "pending" => row[t].status = "pending"
    BY <2>1 DEF RowsGrow
  <2>3. Rank(row[t].status) \in Nat /\ Rank(row'[t].status) \in Nat /\ Rank(q.status) \in Nat
    BY <2>1, Ranks DEF TaskTypes, RowTypes, TaskPoll, AgentStatus
  <2>4. q.status \in Terminal => Told(t, q.status)
    BY <1>6 DEF PollSound
  <2>5. q.status \in Terminal => Told(t, q.status)'
    BY <2>1, <2>4
  <2>6. /\ q.status = "succeeded" /\ row[t].kind = "update" => Rank(row[t].status) >= 4
        /\ q.step # "sent" => /\ Rank(row[t].status) >= Rank(q.status)
                              /\ row[t].status # "pending"
    BY <1>6 DEF PollSound, Kind
  <2> QED BY <2>1, <2>2, <2>3, <2>5, <2>6
<1> QED BY <1>4, <1>5, <1>6 DEF PollSound, Kind

\* Of the polls after a step of the Center: each was there before, or is an answer to
\* nobody that carries the report of one that was.
PollsCarryOn ==
    /\ polls' \subseteq TaskPoll
    /\ \A p \in polls' : p \in polls \/ (~p.awaited /\ \E q \in polls : q.report = p.report /\ q.status = p.status)

LEMMA AwaitedStays ==
  ASSUME TaskInv, RowTypes(row'), RowsGrow(row, row'), RowsReported, store' = store,
         taskAgent' = taskAgent, started' = started, PollsCarryOn,
         NEW q \in polls', q.awaited
  PROVE  AwaitedSound(q)'
<1>0. q \in polls /\ q \in TaskPoll /\ AwaitedSound(q) /\ PollSound(q) /\ TaskTypes /\ Records(row, store)
  BY DEF TaskInv, PollsCarryOn, PollsSound
<1>1. \A p \in polls' : p.awaited => p = q
  BY <1>0 DEF PollsCarryOn, AwaitedSound
<1>2. \A p \in polls' : \E o \in polls : o.report = p.report /\ o.status = p.status
  BY DEF PollsCarryOn
<1>3. ASSUME q.report # NoTask
      PROVE  /\ q.status \in Terminal => store'.tasks[q.report] = q.status
             /\ taskAgent'.process = "health" => q.status = store'.tasks[q.report]
             /\ taskAgent'.process = "running" => q.status # "restarting"
             /\ q.status \notin Terminal /\ row'[q.report].status \notin Terminal =>
                  \A p \in Rivals(q)' : p.status = "succeeded" /\ row'[p.report].kind = "update"
             /\ q.step # "sent" /\ q.status \notin Terminal /\ taskAgent'.process = "running" =>
                  Active(q.report)' /\ Rivals(q)' = {} /\ q.task \in {NoTask, q.report}
  <2> DEFINE t == q.report
  <2>1. t \in Tasks
    BY <1>0, <1>3 DEF TaskPoll
  <2>2. row[t].status # "none" /\ row'[t].kind = row[t].kind /\ row'[t].status # "none"
    BY <1>0, <1>3, <2>1 DEF PollSound, RowsGrow
  <2>3. \A p \in Rivals(q)' : \E o \in Rivals(q) : o.status = p.status
    BY <1>2 DEF Rivals
  <2>4. row'[t].status \notin Terminal => row[t].status \notin Terminal
    BY <2>1 DEF RowsGrow
  <2>5. q.status \notin Terminal /\ row'[t].status \notin Terminal =>
                  \A p \in Rivals(q)' : p.status = "succeeded" /\ row'[p.report].kind = "update"
    <3>1. \A p \in Rivals(q) \cup Rivals(q)' : p.report = t
      BY DEF Rivals
    <3>2. q.status \notin Terminal /\ row[t].status \notin Terminal =>
                  \A p \in Rivals(q) : p.status = "succeeded" /\ row[p.report].kind = "update"
      BY <1>0, <1>3 DEF AwaitedSound, Kind
    <3> QED BY <2>2, <2>3, <2>4, <3>1, <3>2
  <2>6. ASSUME q.step # "sent", q.status \notin Terminal, taskAgent.process = "running"
        PROVE  Active(t)' /\ Rivals(q)' = {} /\ q.task \in {NoTask, t}
    <3>1. Active(t) /\ Rivals(q) = {} /\ q.task \in {NoTask, t}
      BY <1>0, <1>3, <2>6 DEF AwaitedSound
    <3>2. Rivals(q)' = {}
      BY <2>3, <3>1
    <3>3. row[t].status # "pending"
      BY <1>0, <1>3, <2>6 DEF PollSound
    <3>4. row'[t].status # "expired"
      BY <2>1, <3>1, <3>3 DEF RowsGrow, Active, Terminal
    <3>5. row'[t].status \notin Outcomes
      BY <2>1, <3>1 DEF RowsReported, Active, Rivals, Outcomes
    <3> QED BY <2>2, <3>1, <3>2, <3>4, <3>5 DEF Active, Outcomes
  <2>7. /\ q.status \in Terminal => store.tasks[t] = q.status
        /\ taskAgent.process = "health" => q.status = store.tasks[t]
        /\ taskAgent.process = "running" => q.status # "restarting"
    BY <1>0, <1>3 DEF AwaitedSound
  <2> QED BY <2>5, <2>6, <2>7
<1>4. ASSUME q.task # NoTask
      PROVE  /\ \/ row'[q.task].status \notin Terminal \/ row'[q.task].status = "expired"
                \/ Open(store', q.task)
             /\ store'.tasks[q.task] = "none" => started'[q.task] = 0
  <2> DEFINE t == q.task
  <2>1. t \in Tasks /\ row[t].status # "none" /\ q.step = "answered"
    BY <1>0, <1>4 DEF TaskPoll, PollSound
  <2>2. /\ row[t].status \notin Terminal \/ row[t].status = "expired" \/ Open(store, t)
        /\ store.tasks[t] = "none" => started[t] = 0
    BY <1>0, <1>4 DEF AwaitedSound
  <2>3. row[t].status \in Terminal => row'[t].status = row[t].status
    BY <2>1 DEF RowsGrow
  <2>4. ASSUME row[t].status \notin Terminal, row'[t].status \in Outcomes
        PROVE  Open(store, t)
    <3>1. Told(t, row'[t].status)
      BY <1>0, <2>1, <2>4, OutcomesTold DEF TaskInv
    <3>2. ~Refusing
      BY <1>0, <2>1 DEF Refusing, Awaited
    <3>3. store.tasks[t] # "none"
      BY <2>4, <3>1, <3>2 DEF Told, Outcomes, Terminal
    <3>4. t \notin store.confirmed
      BY <1>0, <2>4 DEF Records, Outcomes
    <3> QED BY <3>3, <3>4 DEF Open
  <2> QED BY <2>2, <2>3, <2>4 DEF Outcomes
<1>5. \A t \in Tasks : Open(store', t) <=> t = q.report
  BY <1>0 DEF AwaitedSound
<1>6. taskAgent'.process \in {"health", "running"}
  BY <1>0 DEF AwaitedSound
<1> QED BY <1>1, <1>3, <1>4, <1>5, <1>6 DEF AwaitedSound, Kind

\* The steps of the Center so far: the rows grow, the Agent stands still.
CenterMoves ==
    /\ RowTypes(row') /\ RowsGrow(row, row') /\ RowsReported
    /\ UNCHANGED <<store, taskAgent, started>>

LEMMA StartedStays ==
  ASSUME TaskInv, RowsGrow(row, row'), store' = store, started' = started, Refusing => Refusing'
  PROVE  StartedOnce'
<1> SUFFICES ASSUME NotStarted(store), NEW t \in Tasks, Active(t)', store.tasks[t] = "none"
             PROVE  started[t] = 0
  BY DEF TaskInv, StartedOnce, NotStarted
<1>1. Active(t) \/ row[t].status = "none"
  BY DEF RowsGrow, Active
<1> QED BY <1>1 DEF TaskInv, Rows, NotStarted

LEMMA FewerPolls ==
  ASSUME TaskInv, CenterMoves, polls' \subseteq polls
  PROVE  StartedOnce' /\ PollsSound'
<1>0. TaskTypes /\ PollsSound /\ polls \subseteq TaskPoll
  BY DEF TaskInv, TaskTypes
<1>1. Refusing => Refusing'
  BY RefusingStays DEF Refusing, Awaited, CenterMoves
<1>2. \A t \in Tasks : \A o \in Terminal : Told(t, o) => Told(t, o)'
  BY <1>1, ToldStays DEF CenterMoves
<1>3. PollsCarryOn
  BY <1>0 DEF PollsCarryOn
<1>4. ASSUME NEW q \in polls' PROVE PollSound(q)' /\ (q.awaited => AwaitedSound(q)')
  <2>1. q \in polls /\ q \in TaskPoll /\ PollSound(q)
    BY <1>0 DEF PollsSound
  <2>2. PollSound(q)'
    BY <1>0, <1>2, <2>1, PollStays DEF CenterMoves
  <2> QED BY <1>3, <2>2, AwaitedStays DEF CenterMoves
<1>5. StartedOnce'
  BY <1>1, StartedStays DEF CenterMoves
<1> QED BY <1>4, <1>5 DEF PollsSound

\* A poll that moved on, to n.
LEMMA PollMoved ==
  ASSUME TaskInv, CenterMoves, NEW q \in polls, NEW n \in TaskPoll,
         polls' = (polls \ {q}) \cup {n},
         n.awaited = q.awaited, n.report = q.report, n.status = q.status,
         Refusing => Refusing', PollSound(n)', n.awaited => AwaitedSound(n)'
  PROVE  StartedOnce' /\ PollsSound'
<1>0. TaskTypes /\ PollsSound /\ polls \subseteq TaskPoll
  BY DEF TaskInv, TaskTypes
<1>1. \A t \in Tasks : \A o \in Terminal : Told(t, o) => Told(t, o)'
  BY ToldStays DEF CenterMoves
<1>2. ASSUME NEW p \in polls', p # n PROVE PollSound(p)' /\ (p.awaited => AwaitedSound(p)')
  <2>1. p \in polls /\ p # q /\ p \in TaskPoll /\ PollSound(p)
    BY <1>0, <1>2 DEF PollsSound
  <2>2. PollSound(p)'
    BY <1>0, <1>1, <2>1, PollStays DEF CenterMoves
  <2>3. ASSUME p.awaited PROVE AwaitedSound(p)'
    <3>1. ~q.awaited
      BY <1>0, <2>1, <2>3 DEF PollsSound, AwaitedSound
    <3>2. PollsCarryOn
      BY <1>0, <3>1 DEF PollsCarryOn, TaskPoll
    <3> QED BY <2>3, <3>2, AwaitedStays DEF CenterMoves
  <2> QED BY <2>2, <2>3
<1>3. StartedOnce'
  BY StartedStays DEF CenterMoves
<1> QED BY <1>2, <1>3 DEF PollsSound

LEMMA AdmittedIsNotRefused ==
  ASSUME TaskInv, NEW q \in polls, q.awaited, Admits(q), Refusing
  PROVE  FALSE
<1>0. AwaitedSound(q) /\ q \in TaskPoll
  BY DEF TaskInv, TaskTypes, PollsSound
<1>1. PICK u \in Unconfirmed : Overruled(u)
  BY DEF Refusing
<1>2. u \in Tasks /\ Open(store, u)
  BY UnconfirmedIsOpen DEF Unconfirmed
<1>3. u = q.report /\ u # NoTask
  BY <1>0, <1>2 DEF AwaitedSound, Tasks, NoTask
<1>4. row[u].status = "succeeded" /\ store.tasks[u] # "succeeded"
  BY <1>1 DEF Overruled
<1>5. "succeeded" \in Terminal
  BY DEF Terminal
<1>6. q.status = "succeeded"
  BY <1>3, <1>4, <1>5 DEF Admits
<1> QED BY <1>0, <1>3, <1>4, <1>5, <1>6 DEF AwaitedSound

LEMMA ReceivePollKeeps ==
  ASSUME TaskInv, NEW q \in polls, ReceivePoll(q), CenterMoves
  PROVE  StartedOnce' /\ PollsSound'
<1>0. /\ TaskTypes /\ PollsSound /\ q \in TaskPoll /\ PollSound(q) /\ Records(row, store)
      /\ q.awaited => AwaitedSound(q)
      /\ RowTypes(row') /\ RowsGrow(row, row') /\ store' = store /\ taskAgent' = taskAgent
  BY DEF TaskInv, TaskTypes, PollsSound, CenterMoves
<1>1. CASE ~Admits(q)
  BY <1>1, FewerPolls DEF ReceivePoll, Answer
<1>2. CASE Admits(q)
  <2> DEFINE n == [q EXCEPT !.step = "reported",
                            !.accepted = IF q.status \in Terminal THEN q.report ELSE NoTask]
  <2>1. /\ q.step = "sent" /\ polls' = (polls \ {q}) \cup {n}
        /\ row' = IF q.report = NoTask THEN row ELSE [row EXCEPT ![q.report].status = q.status]
    BY <1>2 DEF ReceivePoll, Answer
  <2>2. /\ n.awaited = q.awaited /\ n.report = q.report /\ n.status = q.status /\ n.step = "reported"
        /\ n.task = NoTask /\ n.accepted = IF q.status \in Terminal THEN q.report ELSE NoTask
        /\ n \in TaskPoll
    BY <1>0, <2>1 DEF TaskPoll, PollSound
  <2>3. Refusing => Refusing'
    <3> SUFFICES ASSUME Refusing PROVE Refusing'
      OBVIOUS
    <3>1. ~q.awaited
      BY <1>2, AdmittedIsNotRefused
    <3>2. \A p \in Awaited' : p.step = "sent"
      BY <2>1, <2>2, <3>1 DEF Refusing, Awaited
    <3> QED BY <3>2, RefusingStays DEF CenterMoves
  <2> HIDE DEF n
  <2>4. ASSUME q.report # NoTask
        PROVE  /\ q.report \in Tasks /\ q.status # "none" /\ q.status \in AgentStatus
               /\ row'[q.report].status = q.status /\ row'[q.report].kind = row[q.report].kind
               /\ row[q.report].status # "none"
    BY <1>0, <2>1, <2>4 DEF TaskPoll, PollSound, TaskTypes
  <2>5. q.report = NoTask => q.status = "none" /\ q.status \notin Terminal
    BY <1>0 DEF PollSound, Terminal
  <2>6. PollSound(n)'
    <3>1. n.accepted # NoTask => row'[n.accepted].status \in Outcomes
      BY <2>2, <2>4, <2>5 DEF Outcomes, AgentStatus
    <3>2. ASSUME q.report # NoTask
          PROVE  /\ q.status = "succeeded" => Rank(row'[q.report].status) >= 4
                 /\ q.status \in Terminal => Told(q.report, q.status)'
                 /\ Rank(row'[q.report].status) >= Rank(q.status)
                 /\ row'[q.report].status # "pending"
      <4>1. Rank(q.status) \in Nat /\ (q.status = "succeeded" => Rank(q.status) >= 4)
        BY <2>4, <3>2, Ranks DEF AgentStatus, Terminal
      <4>2. q.status # "pending"
        BY <2>4, <3>2 DEF AgentStatus
      <4> QED BY <2>4, <3>2, <4>1, <4>2 DEF Told
    <3> QED BY <2>2, <2>4, <2>5, <3>1, <3>2 DEF PollSound
  <2>7. ASSUME q.awaited PROVE AwaitedSound(n)'
    <3>0. AwaitedSound(q)
      BY <1>0, <2>7
    <3>1. \A p \in polls' : p.awaited => p = n
      BY <2>1, <3>0 DEF AwaitedSound
    <3>2. \A p \in polls' : \E o \in polls : o.report = p.report /\ o.status = p.status
      BY <2>1, <2>2
    <3>3. \A p \in Rivals(n)' : \E o \in Rivals(q) : o.status = p.status
      BY <2>2, <3>2 DEF Rivals
    <3>4. ASSUME q.report # NoTask
          PROVE  /\ q.status \in Terminal => store.tasks[q.report] = q.status
                 /\ taskAgent.process = "health" => q.status = store.tasks[q.report]
                 /\ taskAgent.process = "running" => q.status # "restarting"
      BY <3>0, <3>4 DEF AwaitedSound
    <3>5. ASSUME q.report # NoTask, q.status \notin Terminal
          PROVE  /\ row[q.report].status \notin Terminal /\ Active(q.report)'
                 /\ \A p \in Rivals(q) : p.status = "succeeded" /\ row[q.report].kind = "update"
      <4>1. row[q.report].status \notin Terminal
        BY <1>2, <3>5 DEF Admits
      <4>2. Active(q.report)'
        BY <2>4, <3>5 DEF Active
      <4>3. \A p \in Rivals(q) : p.report = q.report
        BY DEF Rivals
      <4> QED BY <3>0, <3>5, <4>1, <4>2, <4>3 DEF AwaitedSound, Kind
    <3>6. ASSUME q.report # NoTask, q.status \notin Terminal, taskAgent.process = "running"
          PROVE  Rivals(n)' = {}
      <4>1. SUFFICES ASSUME NEW p \in Rivals(q) PROVE FALSE
        BY <3>3
      <4>2. p \in polls /\ p.report = q.report /\ p.status = "succeeded" /\ Kind(p.report) = "update"
        BY <3>5, <3>6 DEF Rivals, Kind
      <4>3. Rank(row[q.report].status) >= 4
        BY <1>0, <3>6, <4>2 DEF PollsSound, PollSound
      <4>4. Rank(q.status) >= Rank(row[q.report].status)
        BY <1>2, <3>5, <3>6 DEF Admits
      <4>5. q.status \in Statuses /\ row[q.report].status \in Statuses /\ q.report \in Tasks
        BY <1>0, <2>4, <3>6 DEF TaskTypes, AgentStatus
      <4>6. Rank(q.status) >= 4
        BY <4>3, <4>4, <4>5, Ranks
      <4>7. q.status \in Terminal \cup {"none", "restarting"}
        BY <4>5, <4>6, Ranks
      <4> QED BY <2>4, <3>4, <3>6, <4>7
    <3>7. \A t \in Tasks : Open(store', t) <=> t = q.report
      BY <1>0, <3>0 DEF AwaitedSound
    <3>8. taskAgent'.process \in {"health", "running"}
      BY <1>0, <3>0 DEF AwaitedSound
    <3>9. ASSUME q.report # NoTask, q.status \notin Terminal
          PROVE  \A p \in Rivals(n)' : p.status = "succeeded" /\ row'[p.report].kind = "update"
      <4>1. \A p \in Rivals(n)' : p.report = q.report
        BY <2>2 DEF Rivals
      <4> QED BY <2>4, <3>3, <3>5, <3>9, <4>1
    <3> QED BY <1>0, <2>2, <3>1, <3>4, <3>5, <3>6, <3>7, <3>8, <3>9 DEF AwaitedSound, Kind
  <2> QED BY <2>1, <2>2, <2>3, <2>6, <2>7, PollMoved
<1> QED BY <1>1, <1>2

LEMMA DeliverTaskKeeps ==
  ASSUME TaskInv, NEW q \in polls, DeliverTask(q)
  PROVE  CenterMoves /\ StartedOnce' /\ PollsSound'
<1>0. /\ TaskTypes /\ Rows /\ PollsSound /\ q \in TaskPoll /\ PollSound(q) /\ Records(row, store)
      /\ q.awaited => AwaitedSound(q)
  BY DEF TaskInv, TaskTypes, PollsSound
<1> DEFINE active == {t \in Tasks : Active(t)}
           late == {t \in active : row[t].status = "pending" /\ t \in overdue}
           chosen == IF active = late THEN NoTask ELSE CHOOSE t \in active : TRUE
<1>1. PICK x : x = chosen
  OBVIOUS
<1> DEFINE n == [q EXCEPT !.step = "answered", !.task = x]
<1>a. /\ row' = IF late = {} THEN row ELSE Expired(CHOOSE t \in late : TRUE)
      /\ polls' = (polls \ {q}) \cup {n} /\ q.step = "reported"
      /\ UNCHANGED <<store, taskAgent, started>>
  BY <1>1 DEF DeliverTask, Answer
<1>2. late # {} => active = late
  <2> SUFFICES ASSUME NEW t \in late, NEW u \in active PROVE u = t
    OBVIOUS
  <2> QED BY <1>0, SlotIsOne
<1>3. CenterMoves
  <2>1. late # {} => (CHOOSE t \in late : TRUE) \in Tasks
    OBVIOUS
  <2>2. CASE late = {}
    <3>1. row' = row
      BY <1>a, <2>2
    <3>2. 1 \in Tasks
      BY TaskAssumption DEF Tasks
    <3> QED BY <1>0, <1>a, <3>1, <3>2, ExpiryGrows DEF CenterMoves
  <2> QED BY <1>0, <1>a, <2>1, <2>2, ExpiryGrows DEF CenterMoves
<1>4. x # NoTask => x \in Tasks /\ Active(x) /\ row' = row
  <2>1. active # late => (CHOOSE t \in active : TRUE) \in active
    OBVIOUS
  <2> QED BY <1>1, <1>a, <1>2, <2>1
<1>5. /\ n.awaited = q.awaited /\ n.report = q.report /\ n.status = q.status /\ n.step = "answered"
      /\ n.task = x /\ n.accepted = q.accepted /\ n \in TaskPoll
  BY <1>0, <1>4 DEF TaskPoll
<1> HIDE DEF n, chosen, active, late
<1>6. Refusing => ~q.awaited
  BY <1>a DEF Refusing, Awaited
<1>7. Refusing => Refusing'
  <2>1. Refusing => \A p \in Awaited' : p.step = "sent"
    BY <1>a, <1>5, <1>6 DEF Refusing, Awaited
  <2> QED BY <1>3, <2>1, RefusingStays DEF CenterMoves
<1>8. \A t \in Tasks : \A o \in Terminal : Told(t, o) => Told(t, o)'
  BY <1>3, <1>7, ToldStays DEF CenterMoves
<1>9. PollSound(q)'
  BY <1>0, <1>3, <1>8, PollStays DEF CenterMoves
<1>10. PollSound(n)'
  <2>1. x # NoTask => row'[x].status # "none"
    BY <1>4 DEF Active
  <2> QED BY <1>a, <1>5, <1>9, <2>1 DEF PollSound
<1>11. ASSUME q.awaited PROVE AwaitedSound(n)'
  <2>0. AwaitedSound(q) /\ ~Refusing
    BY <1>0, <1>6, <1>11
  <2>1. \A p \in polls' : p.awaited => p = n
    BY <1>a, <2>0 DEF AwaitedSound
  <2>3. \A p \in Rivals(n)' : \E o \in Rivals(q) : o.status = p.status
    BY <1>a, <1>5 DEF Rivals
  <2>4. ASSUME q.report # NoTask
        PROVE  /\ q.status \in Terminal => store'.tasks[q.report] = q.status
               /\ taskAgent'.process = "health" => q.status = store'.tasks[q.report]
               /\ taskAgent'.process = "running" => q.status # "restarting"
               /\ q.status \notin Terminal /\ row'[q.report].status \notin Terminal =>
                    \A p \in Rivals(n)' : p.status = "succeeded" /\ row'[p.report].kind = "update"
               /\ q.status \notin Terminal /\ taskAgent'.process = "running" =>
                    Active(q.report)' /\ Rivals(n)' = {} /\ x \in {NoTask, q.report}
    <3> DEFINE t == q.report
    <3>1. t \in Tasks /\ row[t].status # "none"
      BY <1>0, <2>4 DEF TaskPoll, PollSound
    <3>2. row'[t].kind = row[t].kind /\ (row'[t].status \notin Terminal => row[t].status \notin Terminal)
      BY <1>3, <3>1 DEF CenterMoves, RowsGrow
    <3>3. \A p \in Rivals(n)' \cup Rivals(q) : p.report = t
      BY <1>5 DEF Rivals
    <3>4. /\ q.status \in Terminal => store.tasks[t] = q.status
          /\ taskAgent.process = "health" => q.status = store.tasks[t]
          /\ taskAgent.process = "running" => q.status # "restarting"
          /\ q.status \notin Terminal /\ row[t].status \notin Terminal =>
                \A p \in Rivals(q) : p.status = "succeeded" /\ row[p.report].kind = "update"
      BY <2>0, <2>4 DEF AwaitedSound, Kind
    <3>5. q.status \notin Terminal /\ row'[t].status \notin Terminal =>
                \A p \in Rivals(n)' : p.status = "succeeded" /\ row'[p.report].kind = "update"
      BY <2>3, <3>2, <3>3, <3>4
    <3>6. ASSUME q.status \notin Terminal, taskAgent.process = "running"
          PROVE  Active(t)' /\ Rivals(n)' = {} /\ x \in {NoTask, t}
      <4>1. Active(t) /\ Rivals(q) = {}
        BY <1>a, <2>0, <2>4, <3>6 DEF AwaitedSound
      <4>2. row[t].status # "pending"
        BY <1>0, <1>a, <2>4 DEF PollSound
      <4>3. Active(t)'
        <5>1. row'[t].status # "expired" /\ row'[t].status # "none"
          BY <1>3, <3>1, <4>1, <4>2 DEF CenterMoves, RowsGrow, Active, Terminal
        <5>2. row'[t].status \notin Outcomes
          BY <1>3, <3>1, <4>1 DEF CenterMoves, RowsReported, Active, Rivals, Outcomes
        <5> QED BY <5>1, <5>2 DEF Active, Outcomes
      <4>4. x # NoTask => x = t
        BY <1>0, <1>4, <3>1, <4>1, SlotIsOne
      <4> QED BY <2>3, <4>1, <4>3, <4>4
    <3> QED BY <1>a, <3>4, <3>5, <3>6
  <2>5. ASSUME x # NoTask
        PROVE  row'[x].status \notin Terminal /\ (store'.tasks[x] = "none" => started'[x] = 0)
    <3>1. NotStarted(store)
      BY <2>0 DEF TaskInv, StartedOnce
    <3> QED BY <1>a, <1>4, <2>5, <3>1 DEF NotStarted, Active
  <2>6. \A t \in Tasks : Open(store', t) <=> t = q.report
    BY <1>a, <2>0 DEF AwaitedSound
  <2>7. taskAgent'.process \in {"health", "running"}
    BY <1>a, <2>0 DEF AwaitedSound
  <2> QED BY <1>5, <2>1, <2>4, <2>5, <2>6, <2>7 DEF AwaitedSound, Kind
<1> QED BY <1>a, <1>3, <1>5, <1>7, <1>10, <1>11, PollMoved

LEMMA RowsStay ==
  ASSUME TaskInv, CenterMoves, \A t \in Tasks : row[t].status = "none" => row'[t].status = "none"
  PROVE  Rows'
<1>1. \A t \in Tasks : \A s \in 1 .. t - 1 : s \in Tasks
  BY TaskAssumption DEF Tasks
<1>2. \A t \in Tasks : row[t].status \in Terminal => row'[t].status \in Terminal
  BY DEF CenterMoves, RowsGrow
<1>3. \A t \in Tasks : row'[t].status = "none" => row[t].status = "none"
  BY DEF CenterMoves, RowsGrow
<1> QED BY <1>1, <1>2, <1>3 DEF Rows, TaskInv, CenterMoves

LEMMA CreateTaskKeeps ==
  ASSUME TaskInv, NEW t \in Tasks, NEW kind \in {"probe", "update"}, CreateTask(t, kind)
  PROVE  CenterMoves /\ Rows'
<1>0. TaskTypes /\ Rows
  BY DEF TaskInv
<1>1. /\ row[t].status = "none" /\ \A s \in 1 .. t - 1 : row[s].status \in Terminal
      /\ row' = [row EXCEPT ![t] = [kind |-> kind, status |-> "pending"]]
      /\ UNCHANGED <<store, taskAgent, started>>
  BY DEF CreateTask
<1>2. CenterMoves
  BY <1>0, <1>1, CreateGrows DEF CenterMoves
<1>3. \A u \in Tasks : \A s \in 1 .. u - 1 : s \in Tasks
  BY TaskAssumption DEF Tasks
<1>4. \A u \in Tasks : /\ u # t => row'[u].status = row[u].status
                       /\ row[u].status \in Terminal => row'[u].status \in Terminal
  BY <1>0, <1>1, <1>2 DEF TaskTypes, CenterMoves, RowsGrow
<1>5. "none" \notin Terminal /\ row'[t].status = "pending"
  BY <1>0, <1>1 DEF Terminal, TaskTypes
<1> QED BY <1>0, <1>1, <1>2, <1>3, <1>4, <1>5 DEF Rows

\* Every step of the Center.
LEMMA CenterKeeps ==
  ASSUME TaskInv, CenterNext
  PROVE  CenterMoves /\ TaskInv' /\ (Awaited = {} => Awaited' = {})
<1>0. TaskTypes /\ polls \subseteq TaskPoll /\ PollsSound
  BY DEF TaskInv, TaskTypes
<1> DEFINE Kept == CenterMoves /\ Rows' /\ StartedOnce' /\ PollsSound' /\ (Awaited = {} => Awaited' = {})
                   /\ polls' \subseteq TaskPoll /\ overdue' \subseteq Tasks /\ nodeVersion' \in Versions
<1>1. ASSUME NEW t \in Tasks, NEW kind \in {"probe", "update"}, CreateTask(t, kind) PROVE Kept
  <2>1. UNCHANGED <<overdue, nodeVersion, polls>>
    BY <1>1 DEF CreateTask
  <2>2. CenterMoves /\ Rows'
    BY <1>1, CreateTaskKeeps
  <2>3. StartedOnce' /\ PollsSound'
    BY <2>1, <2>2, FewerPolls
  <2> QED BY <1>0, <2>1, <2>2, <2>3 DEF Awaited, TaskTypes
<1>2. ASSUME NEW t \in Tasks, PassDeadline(t) \/ ViewUpdates(t) PROVE Kept
  <2>1. /\ row' = row \/ row' = Expired(t)
        /\ overdue' \in {overdue, overdue \cup {t}} /\ UNCHANGED <<nodeVersion, polls, store, taskAgent, started>>
    BY <1>2 DEF PassDeadline, ViewUpdates
  <2>2. CenterMoves
    BY <1>0, <2>1, ExpiryGrows DEF CenterMoves
  <2>3. \A u \in Tasks : row[u].status = "none" => row'[u].status = "none"
    BY <1>0, <2>1 DEF Expired, TaskTypes
  <2>4. StartedOnce' /\ PollsSound'
    BY <2>1, <2>2, FewerPolls
  <2> QED BY <1>0, <2>1, <2>2, <2>3, <2>4, RowsStay DEF Awaited, TaskTypes
<1>3. ASSUME NEW q \in polls, ReceivePoll(q) PROVE Kept
  <2>0. q \in TaskPoll /\ PollSound(q)
    BY <1>0 DEF PollsSound
  <2>1. /\ RowTypes(row') /\ RowsGrow(row, row') /\ RowsReported
        /\ UNCHANGED <<overdue, store, taskAgent, started>>
        /\ nodeVersion' \in {nodeVersion, q.version}
    BY <1>0, <1>3, <2>0, ReportGrows DEF ReceivePoll
  <2>2. CenterMoves
    BY <2>1 DEF CenterMoves
  <2>3. \A u \in Tasks : row[u].status = "none" => row'[u].status = "none"
    <3>1. q.report # NoTask => q.report \in Tasks /\ row[q.report].status # "none"
      BY <2>0 DEF TaskPoll, PollSound
    <3> QED BY <1>0, <1>3, <3>1 DEF ReceivePoll, TaskTypes
  <2>4. \E n \in TaskPoll : n.awaited = q.awaited /\ polls' \subseteq (polls \ {q}) \cup {n}
    <3> DEFINE n == [q EXCEPT !.step = "reported",
                            !.accepted = IF q.status \in Terminal THEN q.report ELSE NoTask]
    <3>1. n \in TaskPoll /\ n.awaited = q.awaited
      BY <2>0 DEF TaskPoll
    <3>2. polls' \subseteq (polls \ {q}) \cup {n}
      BY <1>3 DEF ReceivePoll, Answer
    <3> HIDE DEF n
    <3> QED BY <3>1, <3>2
  <2>5. polls' \subseteq TaskPoll /\ (Awaited = {} => Awaited' = {})
    BY <1>0, <1>3, <2>4 DEF Awaited
  <2>6. nodeVersion' \in Versions
    BY <1>0, <2>0, <2>1 DEF TaskPoll, TaskTypes
  <2>7. overdue' \subseteq Tasks
    BY <1>0, <2>1 DEF TaskTypes
  <2> QED BY <1>3, <2>2, <2>3, <2>5, <2>6, <2>7, ReceivePollKeeps, RowsStay
<1>4. ASSUME NEW q \in polls, DeliverTask(q) PROVE Kept
  <2>0. q \in TaskPoll
    BY <1>0
  <2>1. CenterMoves /\ StartedOnce' /\ PollsSound'
    BY <1>4, DeliverTaskKeeps
  <2>2. UNCHANGED <<overdue, nodeVersion>>
    BY <1>4 DEF DeliverTask
  <2>3. \A u \in Tasks : row[u].status = "none" => row'[u].status = "none"
    BY <1>0, <1>4 DEF DeliverTask, Expired, TaskTypes
  <2>4. PICK x \in Tasks \cup {NoTask} : polls' = (polls \ {q}) \cup {[q EXCEPT !.step = "answered", !.task = x]}
    BY <1>4 DEF DeliverTask, Answer
  <2> DEFINE n == [q EXCEPT !.step = "answered", !.task = x]
  <2>5. n \in TaskPoll /\ n.awaited = q.awaited /\ polls' = (polls \ {q}) \cup {n}
    BY <2>0, <2>4 DEF TaskPoll
  <2> HIDE DEF n
  <2>6. polls' \subseteq TaskPoll /\ (Awaited = {} => Awaited' = {})
    BY <1>0, <1>4, <2>5 DEF Awaited
  <2> QED BY <1>0, <2>1, <2>2, <2>3, <2>6, RowsStay DEF TaskTypes
<1>5. ASSUME NEW q \in polls, DropPoll(q) PROVE Kept
  <2>1. polls' = polls \ {q} /\ UNCHANGED <<row, overdue, nodeVersion, store, taskAgent, started>>
    BY <1>5 DEF DropPoll, Answer
  <2>2. 1 \in Tasks
    BY TaskAssumption DEF Tasks
  <2>3. CenterMoves
    BY <1>0, <2>1, <2>2, ExpiryGrows DEF CenterMoves
  <2>4. StartedOnce' /\ PollsSound'
    BY <2>1, <2>3, FewerPolls
  <2> QED BY <1>0, <2>1, <2>3, <2>4, RowsStay DEF Awaited, TaskTypes
<1>6. Kept
  BY <1>1, <1>2, <1>3, <1>4, <1>5 DEF CenterNext
<1>7. TaskTypes'
  BY <1>0, <1>6 DEF TaskTypes, CenterMoves, RowTypes
<1>8. Records(row', store') /\ \A t \in Tasks : Agrees(row', store', t)
  BY <1>6, RowsKeepStore DEF CenterMoves
<1> QED BY <1>6, <1>7, <1>8 DEF TaskInv

-----------------------------------------------------------------------------
(* What the steps of the tasks leave of an update                          *)

\* The Agent's records under a step of the tasks: a report is confirmed, a delivered task
\* is recorded, and an update goes on in the steps of its own only.
RecordsMove ==
    \A t \in Tasks :
      /\ Open(store, t) /\ ~Open(store', t) =>
           /\ store.tasks[t] \in Terminal /\ row[t].status \in Outcomes
           /\ store.tasks[t] = "succeeded" => row[t].status = "succeeded"
      /\ ~Open(store, t) /\ Open(store', t) =>
           /\ row[t].status \notin Outcomes
           /\ store'.tasks[t] \in {"acknowledged", "running", "rejected"}
      /\ Open(store, t) /\ Open(store', t) /\ row[t].kind = "update" => store'.tasks[t] = store.tasks[t]
      /\ store'.tasks[t] = "succeeded" /\ row'[t].kind = "update" => store.tasks[t] = "succeeded"
      /\ store.tasks[t] = "none" /\ store'.tasks[t] # "none" => Open(store', t)

LEMMA SameRecordsMove == store' = store => RecordsMove
BY DEF RecordsMove, Open

LEMMA UpdateStays ==
  ASSUME TaskInv, UpdateInv, TaskTypes', Records(row', store'), RowsGrow(row, row'), RecordsMove,
         UNCHANGED <<disk, files, supervisor, works>>
  PROVE  /\ UpdateTypes' /\ TaskNamed' /\ DiskOK' /\ CheckpointOK' /\ SupervisorOK'
         /\ Phase' \in {Phase, "none"}
         /\ Phase' = "restarting" => Rank(row'[files.task].status) >= Rank(row[files.task].status)
<1>0. /\ TaskTypes /\ Records(row, store) /\ UpdateTypes /\ TaskNamed /\ DiskOK /\ CheckpointOK /\ SupervisorOK
      /\ store \in AgentStore /\ files.saved \in AgentStore /\ files.task \in Tasks \cup {NoTask}
      /\ files' = files /\ disk' = disk /\ supervisor' = supervisor /\ works' = works
  BY DEF TaskInv, UpdateInv, TaskTypes, UpdateTypes, UpdateFiles
<1> DEFINE k == files.task
<1>1. \A t \in Tasks : (t \in Unconfirmed <=> Open(store, t)) /\ (t \in Unconfirmed' <=> Open(store', t))
  BY DEF Unconfirmed, Handled, Open
<1>2. \A t \in Tasks : store.tasks[t] # "none" => row[t].status # "none" /\ row'[t].kind = row[t].kind
  BY <1>0 DEF Records, RowsGrow
<1>3. \A t \in Tasks : row[t].status \in Outcomes =>
         row'[t].status = row[t].status /\ row'[t].kind = row[t].kind
  BY DEF RowsGrow, Outcomes, Terminal
<1>4. k \in Tasks /\ Open(store', k) => Open(store, k) /\ store'.tasks[k] = store.tasks[k]
  <2> SUFFICES ASSUME k \in Tasks, Open(store', k) PROVE Open(store, k) /\ store'.tasks[k] = store.tasks[k]
    OBVIOUS
  <2>1. Open(store, k)
    BY <1>0, <1>1 DEF TaskNamed, RecordsMove
  <2> QED BY <1>0, <2>1 DEF TaskNamed, RecordsMove, Kind
<1>5. NoTask \notin Tasks
  BY DEF NoTask, Tasks
<1>6. /\ Phase' = IF k \in Tasks /\ Open(store', k) THEN store'.tasks[k] ELSE "none"
      /\ Phase = IF k \in Tasks /\ Open(store, k) THEN store.tasks[k] ELSE "none"
  BY <1>0, <1>1 DEF Phase, Unconfirmed
<1>7. /\ Phase' \in {Phase, "none"}
      /\ Phase' # Phase => /\ Phase \in Terminal
                           /\ Phase = "succeeded" => row[k].status = "succeeded"
      /\ Phase # "none" => k \in Tasks
  BY <1>4, <1>6 DEF RecordsMove
<1>8. TaskNamed'
  <2>1. ASSUME k \in Tasks
        PROVE  /\ row'[k].kind = "update"
               /\ IF Open(store', k) THEN Phase' # "acknowledged" ELSE row'[k].status \in Outcomes
    <3>1. row[k].kind = "update" /\ IF Open(store, k) THEN Phase # "acknowledged" ELSE row[k].status \in Outcomes
      BY <1>0, <1>1, <2>1 DEF TaskNamed, Kind
    <3>2. row'[k].kind = "update"
      BY <1>2, <1>3, <2>1, <3>1 DEF Open
    <3>3. CASE Open(store', k)
      BY <1>4, <1>6, <2>1, <3>1, <3>2, <3>3
    <3>4. CASE ~Open(store', k)
      BY <1>3, <2>1, <3>1, <3>2, <3>4 DEF RecordsMove
    <3> QED BY <3>3, <3>4
  <2>2. ASSUME NEW u \in Tasks, Open(store', u), row'[u].kind = "update",
               store'.tasks[u] \in {"installing", "restarting", "succeeded"}
        PROVE  u = k
    <3>1. Open(store, u)
      BY <2>2 DEF RecordsMove
    <3>2. row[u].kind = "update"
      BY <1>2, <2>2, <3>1 DEF Open
    <3>3. store'.tasks[u] = store.tasks[u]
      BY <2>2, <3>1, <3>2 DEF RecordsMove
    <3> QED BY <1>0, <1>1, <2>2, <3>1, <3>2, <3>3 DEF TaskNamed, Kind
  <2>3. ASSUME NEW u \in Tasks, store'.tasks[u] = "succeeded", row'[u].kind = "update"
        PROVE  Rank(row'[u].status) >= 4
    <3>1. store.tasks[u] = "succeeded"
      BY <2>3 DEF RecordsMove
    <3>2. row[u].kind = "update" /\ row[u].status # "none"
      BY <1>2, <2>3, <3>1
    <3>3. Rank(row[u].status) >= 4 /\ Rank(row'[u].status) >= Rank(row[u].status)
      BY <1>0, <3>1, <3>2 DEF TaskNamed, RowsGrow, Kind
    <3>4. Rank(row[u].status) \in Nat /\ Rank(row'[u].status) \in Nat
      BY <1>0, Ranks DEF TaskTypes
    <3> QED BY <3>3, <3>4
  <2>4. Unconfirmed' = {t \in Tasks : Open(store', t)}
    BY DEF Unconfirmed, Handled, Open
  <2> QED BY <1>0, <2>1, <2>2, <2>3, <2>4 DEF TaskNamed, Kind
<1>9. CheckpointOK'
  <2> SUFFICES ASSUME files.checkpoint = "complete"
               PROVE  /\ k \in Tasks /\ Records(row', files.saved) /\ files.saved.tasks[k] = "installing"
                      /\ \A t \in Tasks \ {k} :
                           /\ Agrees(row', files.saved, t)
                           /\ Open(store', k) /\ files.saved.tasks[t] = "none" => store'.tasks[t] = "none"
    BY <1>0, <1>1 DEF CheckpointOK
  <2> DEFINE s == files.saved
  <2>1. /\ k \in Tasks /\ Records(row, s) /\ s.tasks[k] = "installing"
        /\ \A t \in Tasks \ {k} :
             /\ Agrees(row, s, t)
             /\ Open(store, k) /\ s.tasks[t] = "none" => store.tasks[t] = "none"
    BY <1>0, <1>1 DEF CheckpointOK
  <2>2. Records(row', s) /\ \A t \in s.confirmed : Agrees(row, s, t) => Agrees(row', s, t)
    BY <1>0, <2>1, RecordsGrow
  <2>3. Open(s, k)
    BY <2>1 DEF Records, Open, Terminal
  <2>4. ASSUME NEW t \in Tasks \ {k} PROVE Agrees(row', s, t)
    <3>1. CASE s.tasks[t] = "none"
      BY <3>1 DEF Agrees
    <3>2. CASE s.tasks[t] # "none"
      <4>1. t \in s.confirmed
        BY <2>1, <2>3, <3>2 DEF Records, Open
      <4> QED BY <2>1, <2>2, <4>1
    <3> QED BY <3>1, <3>2
  <2>5. ASSUME NEW t \in Tasks \ {k}, Open(store', k), s.tasks[t] = "none", store'.tasks[t] # "none"
        PROVE  FALSE
    <3>1. store.tasks[t] = "none"
      BY <1>4, <2>1, <2>5
    <3>2. Open(store', t)
      BY <2>5, <3>1 DEF RecordsMove
    <3> QED BY <2>1, <2>5, <3>2 DEF Records
  <2> QED BY <2>1, <2>2, <2>4, <2>5
<1>10. DiskOK'
  <2>1. Phase' # Phase => Phase' = "none"
    BY <1>7
  <2> QED BY <1>0, <2>1 DEF DiskOK
<1>11. SupervisorOK'
  <2>1. k \in Tasks /\ row[k].status = "succeeded" => row'[k].status = "succeeded"
    BY <1>3 DEF Outcomes, Terminal
  <2>2. supervisor.step \in {"start", "wait", "stop_again", "restore"} => k \in Tasks
    BY <1>0 DEF SupervisorOK, CheckpointOK
  <2>3. CASE Phase' = Phase
    BY <1>0, <2>1, <2>2, <2>3 DEF SupervisorOK
  <2>4. CASE Phase' # Phase
    <3>1. Phase' = "none" /\ Phase \notin {"installing", "restarting"}
          /\ (Phase = "succeeded" => row'[k].status = "succeeded")
      BY <1>7, <2>1, <2>4 DEF Terminal
    <3> QED BY <1>0, <2>1, <2>2, <3>1 DEF SupervisorOK
  <2> QED BY <2>3, <2>4
<1>12. Phase' = "restarting" => Rank(row'[k].status) >= Rank(row[k].status)
  BY <1>2, <1>4, <1>6 DEF RowsGrow, Open
<1> QED BY <1>0, <1>7, <1>8, <1>9, <1>10, <1>11, <1>12 DEF UpdateTypes

\* The Agent's process goes on as it is, or ends.
LEMMA ProcessStays ==
  ASSUME TaskInv, UpdateInv, TaskTypes', Records(row', store'), RowsGrow(row, row'), RecordsMove,
         UNCHANGED <<disk, files, supervisor, works>>,
         taskAgent' = taskAgent \/ taskAgent' = [taskAgent EXCEPT !.process = "down"]
  PROVE  UpdateInv'
<1>1. /\ UpdateTypes' /\ TaskNamed' /\ DiskOK' /\ CheckpointOK' /\ SupervisorOK'
      /\ Phase' \in {Phase, "none"}
      /\ Phase' = "restarting" => Rank(row'[files.task].status) >= Rank(row[files.task].status)
  BY UpdateStays
<1>2. ProcessOK'
  <2>1. ProcessOK /\ (Held' <=> Held) /\ files' = files /\ disk' = disk /\ works' = works
    BY DEF UpdateInv, Held
  <2>2. CASE taskAgent' = taskAgent
    <3>1. taskAgent.process = "commit" /\ Phase' = "restarting" => Rank(row'[files.task].status) >= 4
      <4> SUFFICES ASSUME taskAgent.process = "commit", Phase' = "restarting"
                   PROVE  Rank(row'[files.task].status) >= 4
        OBVIOUS
      <4>1. Phase = "restarting"
        BY <1>1
      <4>2. files.task \in Tasks
        BY <2>1 DEF ProcessOK
      <4>3. Rank(row[files.task].status) \in Nat /\ Rank(row'[files.task].status) \in Nat
        BY <4>2, Ranks DEF TaskInv, TaskTypes
      <4> QED BY <1>1, <2>1, <4>1, <4>3 DEF ProcessOK
    <3> QED BY <1>1, <2>1, <2>2, <3>1 DEF ProcessOK
  <2>3. CASE taskAgent' = [taskAgent EXCEPT !.process = "down"]
    <3>1. taskAgent'.process = "down"
      BY <2>3 DEF TaskInv, TaskTypes
    <3> QED BY <3>1 DEF ProcessOK
  <2> QED BY <2>2, <2>3
<1> QED BY <1>1, <1>2 DEF UpdateInv

-----------------------------------------------------------------------------
(* Polls that the Agent sends and gives up                                 *)

LEMMA RowsSame == Rows /\ row' = row /\ started' = started => Rows'
BY DEF Rows

LEMMA SentPollKeeps ==
  ASSUME TaskInv, UpdateInv, SendPoll
  PROVE  polls' \subseteq TaskPoll /\ StartedOnce' /\ PollsSound'
<1>0. /\ TaskTypes /\ PollsSound /\ Records(row, store) /\ store \in AgentStore /\ ProcessOK /\ TaskNamed
      /\ UpdateTypes /\ taskAgent.process \in {"health", "running"} /\ Awaited = {} /\ polls \subseteq TaskPoll
      /\ UNCHANGED <<row, store, taskAgent, started>>
  BY DEF TaskInv, TaskTypes, UpdateInv, SendPoll
<1>1. PICK k : k = IF Unconfirmed = {} THEN NoTask ELSE CHOOSE t \in Unconfirmed : TRUE
  OBVIOUS
<1>2. k # NoTask => k \in Unconfirmed /\ k \in Tasks
  BY <1>1 DEF Unconfirmed
<1>3. k = NoTask => Unconfirmed = {}
  <2>1. NoTask \notin Unconfirmed
    BY DEF Unconfirmed, Tasks, NoTask
  <2>2. Unconfirmed # {} => (CHOOSE t \in Unconfirmed : TRUE) \in Unconfirmed
    OBVIOUS
  <2> QED BY <1>1, <2>1, <2>2
<1>4. PICK n : n = [awaited |-> TRUE, step |-> "sent", report |-> k, version |-> taskAgent.version,
                    status |-> IF k = NoTask THEN "none" ELSE store.tasks[k],
                    previous |-> IF k = NoTask THEN "old" ELSE store.previous[k],
                    task |-> NoTask, accepted |-> NoTask]
  OBVIOUS
<1>5. polls' = polls \cup {n}
  BY <1>1, <1>4 DEF SendPoll
<1>6. /\ n.awaited /\ n.step = "sent" /\ n.report = k /\ n.task = NoTask /\ n.accepted = NoTask
      /\ k # NoTask => n.status = store.tasks[k]
      /\ k = NoTask => n.status = "none"
  BY <1>4
<1>7. n \in TaskPoll
  <2>1. /\ taskAgent.version \in Versions /\ "old" \in Versions
        /\ (IF k = NoTask THEN "none" ELSE store.tasks[k]) \in AgentStatus
        /\ (IF k = NoTask THEN "old" ELSE store.previous[k]) \in Versions
        /\ k \in Tasks \cup {NoTask}
    BY <1>0, <1>2 DEF TaskTypes, AgentStore, AgentStatus, Statuses, Versions
  <2> QED BY <1>4, <2>1 DEF TaskPoll
<1>8. \A t \in Tasks : Open(store, t) <=> t = k
  BY <1>0, <1>2, <1>3, OneIsOpen, UnconfirmedIsOpen DEF NoTask, Tasks
<1>9. Refusing => Refusing'
  <2>1. \A p \in Awaited' : p.step = "sent"
    BY <1>0, <1>5, <1>6 DEF Awaited
  <2> QED BY <1>0, <2>1, SameRowsGrow, RefusingStays DEF TaskTypes, RowTypes
<1>10. RowsGrow(row, row') /\ RowTypes(row')
  BY <1>0, SameRowsGrow DEF TaskTypes, RowTypes
<1>11. \A t \in Tasks : \A o \in Terminal : Told(t, o) => Told(t, o)'
  BY <1>0, <1>9, <1>10, ToldStays
<1>12. ASSUME NEW p \in polls PROVE PollSound(p)' /\ ~p.awaited
  <2>1. p \in TaskPoll /\ PollSound(p) /\ ~p.awaited
    BY <1>0 DEF PollsSound, Awaited
  <2> QED BY <1>0, <1>10, <1>11, <2>1, PollStays
<1>13. PollSound(n)'
  <2>1. ASSUME k # NoTask
        PROVE  /\ store.tasks[k] # "none" /\ row[k].status # "none"
               /\ store.tasks[k] = "succeeded" /\ Kind(k) = "update" => Rank(row[k].status) >= 4
    BY <1>0, <1>2, <2>1 DEF Unconfirmed, Handled, Records, TaskNamed
  <2> QED BY <1>0, <1>6, <2>1 DEF PollSound, Told, Kind
<1>14. AwaitedSound(n)'
  <2>1. \A p \in polls' : p.awaited => p = n
    BY <1>5, <1>12
  <2>2. ASSUME k # NoTask, taskAgent.process = "running" PROVE n.status # "restarting"
    <3> SUFFICES ASSUME store.tasks[k] = "restarting" PROVE FALSE
      BY <1>6, <2>2
    <3>1. Kind(k) = "update"
      BY <1>0, <1>2, <2>2 DEF Records, Kind
    <3>2. k = files.task
      BY <1>0, <1>2, <2>2, <3>1 DEF TaskNamed
    <3>3. Phase = "restarting"
      BY <1>2, <2>2, <3>2 DEF Phase
    <3> QED BY <1>0, <2>2, <3>3 DEF ProcessOK
  <2>3. ASSUME k # NoTask, n.status \notin Terminal, row[k].status \notin Terminal,
               NEW p \in polls', p.report = k, p.status \in Terminal
        PROVE  p.status = "succeeded" /\ Kind(k) = "update"
    <3>1. p \in polls /\ p.report # NoTask
      BY <1>5, <1>6, <2>3
    <3>2. Told(k, p.status)
      BY <1>0, <2>3, <3>1 DEF PollsSound, PollSound
    <3>3. store.tasks[k] # "none" /\ store.tasks[k] \notin Terminal
      BY <1>2, <1>6, <2>3 DEF Unconfirmed, Handled
    <3> QED BY <2>3, <3>2, <3>3 DEF Told
  <2>4. k # NoTask /\ n.status \notin Terminal /\ row'[k].status \notin Terminal =>
            \A p \in Rivals(n)' : p.status = "succeeded" /\ row'[p.report].kind = "update"
    BY <1>0, <1>6, <2>3 DEF Rivals, Kind
  <2> QED BY <1>0, <1>6, <1>8, <2>1, <2>2, <2>4 DEF AwaitedSound, Kind
<1>15. StartedOnce'
  BY <1>0, <1>9, <1>10, StartedStays
<1> QED BY <1>0, <1>5, <1>7, <1>12, <1>13, <1>14, <1>15 DEF PollsSound

LEMMA AbandonedKeeps ==
  ASSUME TaskInv, polls' = Abandoned, UNCHANGED <<row, store, started>>,
         taskAgent' = taskAgent \/ taskAgent' = [taskAgent EXCEPT !.process = "down"]
  PROVE  polls' \subseteq TaskPoll /\ StartedOnce' /\ PollsSound' /\ Awaited' = {}
<1>0. TaskTypes /\ PollsSound /\ polls \subseteq TaskPoll
  BY DEF TaskInv, TaskTypes
<1>1. Awaited' = {} /\ polls' \subseteq TaskPoll
  <2> SUFFICES ASSUME NEW p \in polls' PROVE ~p.awaited /\ p \in TaskPoll
    BY DEF Awaited
  <2>1. PICK q \in TaskPoll : p = [q EXCEPT !.awaited = FALSE]
    BY <1>0 DEF Abandoned
  <2> QED BY <2>1 DEF TaskPoll
<1>2. taskAgent.process # "commit" => taskAgent'.process # "commit"
  BY <1>0 DEF TaskTypes
<1>3. Refusing => Refusing'
  BY <1>1, <1>2 DEF Refusing, Unconfirmed, Handled, Overruled, Kind
<1>4. RowsGrow(row, row') /\ RowTypes(row')
  BY <1>0, SameRowsGrow DEF TaskTypes, RowTypes
<1>5. \A t \in Tasks : \A o \in Terminal : Told(t, o) => Told(t, o)'
  BY <1>0, <1>3, <1>4, ToldStays
<1>6. ASSUME NEW q \in polls PROVE PollSound([q EXCEPT !.awaited = FALSE])'
  <2>1. q \in TaskPoll /\ PollSound(q)'
    BY <1>0, <1>4, <1>5, PollStays DEF PollsSound
  <2>2. PICK n : n = [q EXCEPT !.awaited = FALSE]
    OBVIOUS
  <2>3. /\ n.step = q.step /\ n.task = q.task /\ n.accepted = q.accepted /\ n.report = q.report
        /\ n.status = q.status
    BY <2>1, <2>2 DEF TaskPoll
  <2>4. PollSound(n)'
    BY <2>1, <2>3 DEF PollSound
  <2> QED BY <2>2, <2>4
<1>7. StartedOnce'
  BY <1>3, <1>4, StartedStays
<1>8. ASSUME NEW p \in polls' PROVE PollSound(p)' /\ ~p.awaited
  <2>1. PICK q \in polls : p = [q EXCEPT !.awaited = FALSE]
    BY DEF Abandoned
  <2> QED BY <1>1, <1>6, <2>1 DEF Awaited
<1> QED BY <1>1, <1>7, <1>8 DEF PollsSound

-----------------------------------------------------------------------------
(* Steps of the Agent that change a record without a poll                  *)

\* Which tasks are open, and what is to be reported of one that has ended, stay.
RecordsSteady(s, new) ==
    \A t \in Tasks :
      /\ Open(new, t) <=> Open(s, t)
      /\ Open(s, t) /\ s.tasks[t] \in Terminal => new.tasks[t] = s.tasks[t]
      /\ s.tasks[t] = "none" => new.tasks[t] = "none"
      /\ new.tasks[t] = "none" => s.tasks[t] = "none" \/ t \in s.confirmed

LEMMA SteadyKeeps ==
  ASSUME TaskInv, UNCHANGED <<row, started, polls>>, RecordsSteady(store, store'),
         Refusing => Refusing',
         Awaited = {} \/ (taskAgent' = taskAgent /\ (store' = store \/ taskAgent.process = "running"))
  PROVE  StartedOnce' /\ PollsSound'
<1>0. TaskTypes /\ PollsSound /\ Records(row, store) /\ polls \subseteq TaskPoll
      /\ RowsGrow(row, row') /\ RowTypes(row') /\ row' = row /\ polls' = polls
  BY SameRowsGrow DEF TaskInv, TaskTypes, RowTypes
<1>1. \A t \in Tasks : t \in store.confirmed => row[t].status \in Terminal /\ row[t].status \in Outcomes
  BY <1>0 DEF Records, Outcomes
<1>2. StartedOnce'
  BY <1>1 DEF TaskInv, StartedOnce, NotStarted, RecordsSteady, Active
<1>3. \A t \in Tasks : \A o \in Terminal : Told(t, o) => Told(t, o)'
  <2> SUFFICES ASSUME NEW t \in Tasks, NEW o \in Terminal, Told(t, o), row[t].status \notin Terminal
               PROVE  Told(t, o)'
    BY <1>0 DEF Told
  <2>1. t \notin store.confirmed /\ o # "none"
    BY <1>1 DEF Terminal
  <2>2. store.tasks[t] # "none" => Open(store, t)
    BY <2>1 DEF Open
  <2> QED BY <1>0, <2>1, <2>2 DEF Told, RecordsSteady, Open, Kind
<1>4. ASSUME NEW q \in polls PROVE PollSound(q)'
  BY <1>0, <1>3, PollStays DEF PollsSound
<1>5. ASSUME NEW q \in polls, q.awaited PROVE AwaitedSound(q)'
  <2>0. AwaitedSound(q) /\ q \in TaskPoll /\ PollSound(q) /\ taskAgent' = taskAgent
        /\ (store' = store \/ taskAgent.process = "running")
    BY <1>0, <1>5 DEF PollsSound, Awaited
  <2>1. \A t \in Tasks : Open(store', t) <=> t = q.report
    BY <2>0 DEF AwaitedSound, RecordsSteady
  <2>2. Rivals(q)' = Rivals(q)
    BY <1>0 DEF Rivals
  <2>3. ASSUME q.report # NoTask
        PROVE  /\ q.status \in Terminal => store'.tasks[q.report] = q.status
               /\ taskAgent'.process = "health" => q.status = store'.tasks[q.report]
    <3>1. q.report \in Tasks /\ Open(store, q.report)
      BY <2>0, <2>3 DEF TaskPoll, AwaitedSound
    <3>2. q.status \in Terminal => store.tasks[q.report] = q.status
      BY <2>0, <2>3 DEF AwaitedSound
    <3>3. taskAgent.process = "health" => q.status = store.tasks[q.report]
      BY <2>0, <2>3 DEF AwaitedSound
    <3> QED BY <2>0, <3>1, <3>2, <3>3 DEF RecordsSteady
  <2>4. ASSUME q.task # NoTask
        PROVE  /\ \/ row[q.task].status \notin Terminal \/ row[q.task].status = "expired"
                  \/ Open(store', q.task)
               /\ store'.tasks[q.task] = "none" => started[q.task] = 0
    <3>1. q.task \in Tasks
      BY <2>0, <2>4 DEF TaskPoll
    <3>2. /\ row[q.task].status \notin Terminal \/ row[q.task].status = "expired" \/ Open(store, q.task)
          /\ store.tasks[q.task] = "none" => started[q.task] = 0
      BY <2>0, <2>4 DEF AwaitedSound
    <3>3. q.task \notin store.confirmed
      BY <1>1, <3>1, <3>2 DEF Open, Outcomes
    <3> QED BY <3>1, <3>2, <3>3 DEF RecordsSteady
  <2> QED BY <1>0, <2>0, <2>1, <2>2, <2>3, <2>4 DEF AwaitedSound, Active, Kind
<1> QED BY <1>0, <1>2, <1>4, <1>5 DEF PollsSound

\* A run begins, or ends with an outcome for the task it was started for.
LEMMA ScheduleRecords ==
  ASSUME TaskInv, store.run = {}, ~UpdateUnderWay(store), store' = [store EXCEPT !.run = {Scheduled}],
         row' = row
  PROVE  /\ store' \in AgentStore /\ Records(row', store') /\ RecordsMove /\ RecordsSteady(store, store')
         /\ \A t \in Tasks : Agrees(row', store', t)
<1>0. TaskTypes /\ store \in AgentStore /\ Records(row, store)
  BY DEF TaskInv, TaskTypes
<1>1. store'.tasks = store.tasks /\ store'.confirmed = store.confirmed /\ store'.run = {Scheduled}
      /\ store' \in AgentStore
  BY <1>0 DEF AgentStore
<1>2. Scheduled \notin Tasks
  BY DEF Scheduled, Tasks
<1>3. \A t \in Tasks : Open(store', t) <=> Open(store, t)
  BY <1>1 DEF Open
<1>4. \A t \in Tasks : store'.tasks[t] # "running"
  BY <1>0, <1>1 DEF Records
<1>5. \A t \in Tasks : Open(store, t) /\ row[t].kind = "update" => store.tasks[t] \in Terminal
  BY DEF UpdateUnderWay, Open, Kind
<1>6. Records(row, store')
  <2>1. \A t \in Tasks : t \notin store'.run
    BY <1>1, <1>2
  <2>2. \A t, u \in store'.run : t = u
    BY <1>1
  <2>3. \A t, u \in Tasks : Open(store', t) /\ Open(store', u) => t = u
    BY <1>0, <1>3 DEF Records
  <2>4. \A t \in Tasks :
         /\ store'.tasks[t] # "none" => row[t].status # "none"
         /\ store'.tasks[t] \in {"acknowledged", "verifying", "installing", "restarting", "rolled-back"}
              => row[t].kind = "update"
         /\ Open(store', t) /\ row[t].kind = "update" => store'.tasks[t] \in Terminal
    BY <1>0, <1>1, <1>3, <1>5 DEF Records
  <2>5. \A t \in store'.confirmed : store'.tasks[t] \in Terminal /\ row[t].status \in Outcomes
    BY <1>0, <1>1 DEF Records
  <2> QED BY <1>4, <2>1, <2>2, <2>3, <2>4, <2>5 DEF Records
<1>7. \A t \in Tasks : Agrees(row', store', t)
  BY <1>1 DEF TaskInv, Agrees
<1> QED BY <1>1, <1>3, <1>6, <1>7 DEF RecordsMove, RecordsSteady, Open

LEMMA FinishedRecords ==
  ASSUME TaskInv, NEW status \in {"succeeded", "failed"}, store' = Finished(store, status), row' = row
  PROVE  /\ store' \in AgentStore /\ Records(row', store') /\ RecordsMove /\ RecordsSteady(store, store')
         /\ \A t \in Tasks : Agrees(row', store', t)
<1>0. TaskTypes /\ store \in AgentStore /\ Records(row, store)
  BY DEF TaskInv, TaskTypes
<1>1. status \in AgentStatus /\ status \in Terminal /\ status \in Outcomes /\ "running" \notin Terminal
  BY DEF AgentStatus, Statuses, Terminal, Outcomes
<1>2. /\ store'.confirmed = store.confirmed /\ store'.run = {}
      /\ \A t \in Tasks : store'.tasks[t] = IF t \in store.run THEN status ELSE store.tasks[t]
      /\ store' \in AgentStore
  BY <1>0, <1>1 DEF AgentStore, Finished
<1>3. \A t \in Tasks : t \in store.run <=> store.tasks[t] = "running"
  BY <1>0 DEF Records
<1>4. \A t \in Tasks : store.tasks[t] = "running" => /\ t \notin store.confirmed /\ Open(store, t)
                                                     /\ row[t].kind = "probe"
  BY <1>0, <1>1 DEF Records, Open
<1>5. \A t \in Tasks : Open(store', t) <=> Open(store, t)
  BY <1>1, <1>2, <1>3 DEF Open, Terminal
<1>6. Records(row, store')
  <2>1. \A t \in Tasks : store'.tasks[t] # "running"
    BY <1>1, <1>2, <1>3
  <2>2. \A t, u \in Tasks : Open(store', t) /\ Open(store', u) => t = u
    BY <1>0, <1>5 DEF Records
  <2>3. \A t \in Tasks :
         /\ store'.tasks[t] # "none" => row[t].status # "none"
         /\ store'.tasks[t] \in {"acknowledged", "verifying", "installing", "restarting", "rolled-back"}
              => row[t].kind = "update"
    BY <1>0, <1>2, <1>3 DEF Records
  <2>4. \A t \in store'.confirmed : t \in Tasks /\ store'.tasks[t] \in Terminal /\ row[t].status \in Outcomes
    BY <1>0, <1>1, <1>2 DEF Records, AgentStore
  <2> QED BY <1>2, <2>1, <2>2, <2>3, <2>4 DEF Records
<1>7. ASSUME NEW t \in Tasks PROVE Agrees(row', store', t)
  <2>1. Agrees(row, store, t)
    BY DEF TaskInv
  <2> QED BY <1>1, <1>2, <1>3, <1>4, <2>1 DEF Agrees
<1>8. RecordsSteady(store, store')
  BY <1>1, <1>2, <1>3, <1>5 DEF RecordsSteady
<1>9. RecordsMove
  BY <1>1, <1>2, <1>3, <1>4, <1>5 DEF RecordsMove
<1> QED BY <1>2, <1>6, <1>7, <1>8, <1>9

LEMMA CleanedRecords ==
  ASSUME TaskInv, row' = row,
         store' = [store EXCEPT !.tasks = [t \in Tasks |-> IF t \in Forgotten THEN "none" ELSE @[t]],
                                !.confirmed = @ \ Forgotten]
  PROVE  /\ store' \in AgentStore /\ Records(row', store') /\ RecordsMove /\ RecordsSteady(store, store')
         /\ \A t \in Tasks : Agrees(row', store', t)
<1>0. TaskTypes /\ store \in AgentStore /\ Records(row, store) /\ Forgotten = store.confirmed
  BY DEF TaskInv, TaskTypes, Forgotten
<1>1. "none" \in AgentStatus /\ "none" \notin Terminal /\ "running" \notin Terminal
  BY DEF AgentStatus, Statuses, Terminal
<1>2. /\ store'.confirmed = {} /\ store'.run = store.run
      /\ \A t \in Tasks : store'.tasks[t] = IF t \in store.confirmed THEN "none" ELSE store.tasks[t]
      /\ store' \in AgentStore
  BY <1>0, <1>1 DEF AgentStore
<1>3. \A t \in Tasks : Open(store', t) <=> Open(store, t)
  BY <1>2 DEF Open
<1>4. \A t \in store.confirmed : t \in Tasks /\ store.tasks[t] # "running"
  BY <1>0, <1>1 DEF Records, AgentStore
<1>5. Records(row, store')
  <2>1. \A t \in Tasks : store'.tasks[t] = "running" <=> t \in store'.run
    BY <1>0, <1>2, <1>4 DEF Records
  <2>2. \A t, u \in Tasks : Open(store', t) /\ Open(store', u) => t = u
    BY <1>0, <1>3 DEF Records
  <2>3. \A t \in Tasks :
         /\ store'.tasks[t] # "none" => row[t].status # "none"
         /\ store'.tasks[t] \in {"acknowledged", "verifying", "installing", "restarting", "rolled-back"}
              => row[t].kind = "update"
         /\ store'.tasks[t] = "running" => row[t].kind = "probe"
         /\ Open(store', t) /\ row[t].kind = "update" /\ store'.tasks[t] \notin Terminal => store'.run = {}
    BY <1>0, <1>2, <1>3 DEF Records, Open
  <2>4. \A t, u \in store'.run : t = u
    BY <1>0, <1>2 DEF Records
  <2> QED BY <1>2, <2>1, <2>2, <2>3, <2>4 DEF Records
<1>6. ASSUME NEW t \in Tasks PROVE Agrees(row', store', t)
  <2>1. Agrees(row, store, t)
    BY DEF TaskInv
  <2> QED BY <1>2, <2>1 DEF Agrees
<1>7. RecordsSteady(store, store')
  BY <1>2, <1>3 DEF RecordsSteady, Open
<1>8. RecordsMove
  BY <1>2, <1>3 DEF RecordsMove, Open
<1> QED BY <1>2, <1>5, <1>6, <1>7, <1>8

\* A step of the Agent's that changes records only.
LEMMA RecordStepKeeps ==
  ASSUME TaskInv, UpdateInv, UNCHANGED <<row, overdue, nodeVersion, polls, started>>,
         taskAgent' = taskAgent, taskAgent.process = "running",
         store' \in AgentStore, Records(row', store'), RecordsMove, RecordsSteady(store, store'),
         \A t \in Tasks : Agrees(row', store', t),
         UNCHANGED <<disk, files, supervisor, works>>
  PROVE  TaskInv' /\ UpdateInv'
<1>0. TaskTypes /\ RowsGrow(row, row')
  BY SameRowsGrow DEF TaskInv, TaskTypes, RowTypes
<1>1. TaskTypes'
  BY <1>0 DEF TaskTypes
<1>2. Refusing => Refusing'
  <2> SUFFICES ASSUME NEW u \in Unconfirmed, Overruled(u), \A q \in Awaited : q.step = "sent"
               PROVE  Refusing'
    BY DEF Refusing
  <2>1. u \in Tasks /\ Open(store, u) /\ Open(store', u)
    BY UnconfirmedIsOpen DEF RecordsSteady, Unconfirmed
  <2>2. store'.tasks[u] = store.tasks[u]
    BY <2>1 DEF RecordsMove, Overruled, Kind
  <2>3. u \in Unconfirmed' /\ Overruled(u)'
    BY <2>1, <2>2 DEF Unconfirmed, Handled, Open, Overruled, Kind
  <2> QED BY <2>3 DEF Refusing, Awaited
<1>3. StartedOnce' /\ PollsSound'
  BY <1>2, SteadyKeeps
<1>4. UpdateInv'
  BY <1>0, <1>1, ProcessStays
<1> QED BY <1>1, <1>3, <1>4, RowsSame DEF TaskInv

-----------------------------------------------------------------------------
(* The answer to a poll                                                    *)

\* What the Agent knows when the answer it waited for arrives.
AnswerKnown(q) ==
    /\ ~Refusing /\ NotStarted(store)
    /\ q.accepted # NoTask =>
         /\ q.accepted \in Tasks /\ Open(store, q.accepted)
         /\ store.tasks[q.accepted] \in Terminal /\ row[q.accepted].status \in Outcomes
         /\ store.tasks[q.accepted] = "succeeded" => row[q.accepted].status = "succeeded"
    /\ \A t \in Tasks : Open(store, t) <=> t = q.report
    /\ q.accepted = NoTask /\ q.report # NoTask /\ taskAgent.process = "running" => q.task \in {NoTask, q.report}

LEMMA AnswerIsKnown ==
  ASSUME TaskInv, NEW q \in polls, q.awaited, q.step = "answered"
  PROVE  AnswerKnown(q)
<1>0. /\ Records(row, store) /\ q \in TaskPoll /\ AwaitedSound(q) /\ PollSound(q)
  BY DEF TaskInv, TaskTypes, PollsSound
<1>1. ~Refusing /\ NotStarted(store)
  BY DEF Refusing, Awaited, TaskInv, StartedOnce
<1>2. q.report # NoTask => q.report \in Tasks
  BY <1>0 DEF TaskPoll
<1>3. ASSUME q.accepted # NoTask
      PROVE  /\ q.accepted \in Tasks /\ Open(store, q.accepted)
             /\ store.tasks[q.accepted] \in Terminal /\ row[q.accepted].status \in Outcomes
             /\ store.tasks[q.accepted] = "succeeded" => row[q.accepted].status = "succeeded"
  <2>1. q.accepted = q.report /\ q.status \in Terminal /\ row[q.accepted].status \in Outcomes
    BY <1>0, <1>3 DEF PollSound
  <2>2. q.report \in Tasks /\ Open(store, q.report) /\ store.tasks[q.report] = q.status
    BY <1>0, <1>2, <1>3, <2>1 DEF AwaitedSound
  <2>3. Agrees(row, store, q.report)
    BY <2>2 DEF TaskInv
  <2> QED BY <2>1, <2>2, <2>3 DEF Agrees, Open, Outcomes
<1>4. q.accepted = NoTask /\ q.report # NoTask /\ taskAgent.process = "running" => q.task \in {NoTask, q.report}
  BY <1>0 DEF AwaitedSound, PollSound
<1> QED BY <1>0, <1>1, <1>3, <1>4 DEF AnswerKnown, AwaitedSound

\* ConfirmTerminalProbeTask and ConfirmTerminalAgentUpdate.
LEMMA ConfirmedIs ==
  ASSUME TaskInv, NEW q \in TaskPoll, AnswerKnown(q), NEW s, s = Confirmed(store, q.accepted)
  PROVE  /\ s \in AgentStore /\ Records(row, s)
         /\ s.tasks = store.tasks /\ s.run = store.run /\ s.previous = store.previous
         /\ \A t \in Tasks : Open(s, t) <=> Open(store, t) /\ t # q.accepted
<1>0. TaskTypes /\ store \in AgentStore /\ Records(row, store)
  BY DEF TaskInv, TaskTypes
<1>1. CASE q.accepted = NoTask
  <2>1. s = store
    BY <1>1 DEF Confirmed
  <2>2. \A t \in Tasks : t # NoTask
    BY DEF Tasks, NoTask
  <2> QED BY <1>0, <1>1, <2>1, <2>2
<1>2. CASE q.accepted # NoTask
  <2>1. q.accepted \in Tasks /\ store.tasks[q.accepted] # "none" /\ store.tasks[q.accepted] \in Terminal
        /\ row[q.accepted].status \in Outcomes
    BY <1>2 DEF AnswerKnown, Open
  <2>2. s = [store EXCEPT !.confirmed = @ \cup {q.accepted}]
    BY <1>2, <2>1 DEF Confirmed
  <2>3. /\ s.tasks = store.tasks /\ s.run = store.run /\ s.previous = store.previous
        /\ s.confirmed = store.confirmed \cup {q.accepted} /\ s \in AgentStore
    BY <1>0, <2>1, <2>2 DEF AgentStore
  <2>4. \A t \in Tasks : Open(s, t) <=> Open(store, t) /\ t # q.accepted
    BY <2>3 DEF Open
  <2>5. Records(row, s)
    BY <1>0, <2>1, <2>3, <2>4 DEF Records
  <2> QED BY <2>3, <2>4, <2>5
<1> QED BY <1>1, <1>2

\* After an answer nothing is awaited, and what other polls report stays harmless.
LEMMA AnswerPolls ==
  ASSUME TaskInv, NEW q \in polls, q.awaited, AnswerKnown(q), polls' = polls \ {q}, row' = row,
         \A t \in Tasks : store.tasks[t] # "none" => store'.tasks[t] = store.tasks[t]
  PROVE  polls' \subseteq TaskPoll /\ PollsSound' /\ Awaited' = {}
<1>0. TaskTypes /\ PollsSound /\ polls \subseteq TaskPoll /\ RowsGrow(row, row') /\ RowTypes(row')
  BY SameRowsGrow DEF TaskInv, TaskTypes, RowTypes
<1>1. Awaited' = {}
  BY <1>0 DEF Awaited, PollsSound, AwaitedSound
<1>2. "none" \notin Terminal
  BY DEF Terminal
<1>3. \A t \in Tasks : \A o \in Terminal : Told(t, o) => Told(t, o)'
  BY <1>2 DEF Told, AnswerKnown, Kind
<1>4. ASSUME NEW p \in polls' PROVE PollSound(p)' /\ ~p.awaited
  <2>1. p \in TaskPoll /\ PollSound(p)
    BY <1>0 DEF PollsSound
  <2> QED BY <1>0, <1>1, <1>3, <2>1, PollStays DEF Awaited
<1> QED BY <1>0, <1>1, <1>4 DEF PollsSound

\* An answer that brings nothing to record but the confirmation.
LEMMA ConfirmKeeps ==
  ASSUME TaskInv, NEW q \in polls, q.awaited, AnswerKnown(q), polls' = polls \ {q},
         store' = Confirmed(store, q.accepted), UNCHANGED <<row, started>>
  PROVE  /\ polls' \subseteq TaskPoll /\ PollsSound' /\ Awaited' = {} /\ StartedOnce'
         /\ store' \in AgentStore /\ Records(row', store') /\ RecordsMove
         /\ \A t \in Tasks : Agrees(row', store', t)
<1>0. TaskTypes /\ q \in TaskPoll /\ store \in AgentStore
  BY DEF TaskInv, TaskTypes
<1>1. /\ store' \in AgentStore /\ Records(row, store')
      /\ store'.tasks = store.tasks
      /\ \A t \in Tasks : Open(store', t) <=> Open(store, t) /\ t # q.accepted
  BY <1>0, ConfirmedIs
<1>2. \A t \in Tasks : Agrees(row', store', t)
  BY <1>1 DEF TaskInv, Agrees
<1>3. RecordsMove
  <2>1. \A t \in Tasks : Open(store, t) /\ ~Open(store', t) =>
           /\ store.tasks[t] \in Terminal /\ row[t].status \in Outcomes
           /\ store.tasks[t] = "succeeded" => row[t].status = "succeeded"
    <3>1. \A t \in Tasks : Open(store, t) /\ ~Open(store', t) => t = q.accepted /\ t # NoTask
      BY <1>1 DEF Tasks, NoTask
    <3> QED BY <3>1 DEF AnswerKnown
  <2> QED BY <1>1, <2>1 DEF RecordsMove
<1>4. StartedOnce'
  BY <1>1 DEF StartedOnce, AnswerKnown, NotStarted, Active
<1>5. polls' \subseteq TaskPoll /\ PollsSound' /\ Awaited' = {}
  BY <1>1, AnswerPolls
<1> QED BY <1>1, <1>2, <1>3, <1>4, <1>5

\* A delivered task that the Agent has a record of changes nothing.
LEMMA KnownTaskTaken ==
  ASSUME TaskInv, NEW q \in TaskPoll, AnswerKnown(q), q.task \in Tasks,
         store.tasks[q.task] # "none", TakeTask(q)
  PROVE  store' = Confirmed(store, q.accepted) /\ started' = started
         /\ (taskAgent' = taskAgent \/ taskAgent' = [taskAgent EXCEPT !.process = "down"])
<1>1. PICK s : s = Confirmed(store, q.accepted)
  OBVIOUS
<1>2. s \in AgentStore /\ Records(row, s) /\ s.tasks = store.tasks
  BY <1>1, ConfirmedIs
<1> DEFINE t == q.task
<1>3. s.tasks[t] # "none"
  BY <1>2
<1>4. CASE Unwelcome(s, t)
  BY <1>1, <1>3, <1>4 DEF Unwelcome
<1>5. CASE ~Unwelcome(s, t)
  <2>1. PICK status \in Accepted(s, t) :
              LET starts == status = "running" /\ s.run # {t}
              IN /\ store' = [s EXCEPT !.tasks[t] = status, !.run = IF starts THEN {t} ELSE @,
                                       !.previous[t] = IF Kind(t) = "update" /\ s.tasks[t] = "none"
                                                        THEN taskAgent.version ELSE @]
                 /\ started' = IF starts THEN [started EXCEPT ![t] = @ + 1] ELSE started
                 /\ UNCHANGED taskAgent
    BY <1>1, <1>5 DEF TakeTask
  <2>2. status = s.tasks[t]
    BY <1>3, <2>1 DEF Accepted
  <2>3. status = "running" => s.run = {t}
    BY <1>2, <2>2 DEF Records
  <2>4. /\ store' = [s EXCEPT !.tasks[t] = s.tasks[t], !.run = s.run, !.previous[t] = s.previous[t]]
        /\ started' = started /\ taskAgent' = taskAgent
    BY <1>3, <2>1, <2>2, <2>3
  <2>5. [s.tasks EXCEPT ![t] = s.tasks[t]] = s.tasks /\ [s.previous EXCEPT ![t] = s.previous[t]] = s.previous
    BY <1>2 DEF AgentStore
  <2>6. store' = s
    BY <1>2, <2>4, <2>5 DEF AgentStore
  <2> QED BY <1>1, <2>4, <2>6
<1> QED BY <1>4, <1>5

\* A delivered task that is new to the Agent: every earlier one is confirmed, so it is
\* recorded, and a probe that is accepted starts its one run.
LEMMA NewTaskTaken ==
  ASSUME TaskInv, NEW q \in polls, q.awaited, q.step = "answered", AnswerKnown(q),
         taskAgent.process = "running", q.task \in Tasks, store.tasks[q.task] = "none",
         TakeTask(q), polls' = polls \ {q}, row' = row
  PROVE  /\ polls' \subseteq TaskPoll /\ PollsSound' /\ Awaited' = {} /\ StartedOnce' /\ Rows'
         /\ store' \in AgentStore /\ Records(row', store') /\ RecordsMove
         /\ \A t \in Tasks : Agrees(row', store', t)
         /\ taskAgent' = taskAgent
<1> DEFINE t == q.task
<1>0. /\ TaskTypes /\ Rows /\ Records(row, store) /\ q \in TaskPoll /\ PollSound(q) /\ AwaitedSound(q)
      /\ store \in AgentStore
  BY DEF TaskInv, TaskTypes, PollsSound
<1>1. PICK s : s = Confirmed(store, q.accepted)
  OBVIOUS
<1>2. /\ s \in AgentStore /\ Records(row, s)
      /\ s.tasks = store.tasks /\ s.run = store.run /\ s.previous = store.previous
      /\ \A u \in Tasks : Open(s, u) <=> Open(store, u) /\ u # q.accepted
  BY <1>0, <1>1, ConfirmedIs
<1>3. t # NoTask
  BY DEF Tasks, NoTask
<1>4. \A u \in Tasks : ~Open(s, u)
  <2>1. \A u \in Tasks : u # NoTask
    BY DEF Tasks, NoTask
  <2>2. ~Open(store, t)
    BY DEF Open
  <2> QED BY <1>2, <1>3, <2>1, <2>2 DEF AnswerKnown
<1>5. s.tasks[t] = "none" /\ t \notin s.confirmed
  BY <1>2 DEF Records, Terminal
<1>6. ~Unwelcome(s, t)
  BY <1>4 DEF Unwelcome, Open
<1>7. ~UpdateUnderWay(s)
  BY <1>4 DEF UpdateUnderWay, Open
<1>8. PICK status \in Accepted(s, t) :
              LET starts == status = "running" /\ s.run # {t}
              IN /\ store' = [s EXCEPT !.tasks[t] = status, !.run = IF starts THEN {t} ELSE @,
                                       !.previous[t] = IF Kind(t) = "update" /\ s.tasks[t] = "none"
                                                        THEN taskAgent.version ELSE @]
                 /\ started' = IF starts THEN [started EXCEPT ![t] = @ + 1] ELSE started
                 /\ UNCHANGED taskAgent
  BY <1>1, <1>6 DEF TakeTask
<1>9. /\ status \in {"running", "acknowledged", "rejected"}
      /\ status = "running" => row[t].kind = "probe" /\ s.run = {}
      /\ status = "acknowledged" => row[t].kind = "update" /\ s.run = {}
  <2>1. row[t].kind \in {"probe", "update"}
    BY <1>0 DEF TaskTypes
  <2> QED BY <1>5, <1>7, <1>8, <2>1 DEF Accepted, Kind
<1>10. /\ store'.tasks = [store.tasks EXCEPT ![t] = status] /\ store'.confirmed = s.confirmed
       /\ store'.run = IF status = "running" THEN {t} ELSE s.run
       /\ started' = IF status = "running" THEN [started EXCEPT ![t] = @ + 1] ELSE started
       /\ taskAgent' = taskAgent
       /\ store' \in AgentStore
  <2>1. status = "running" => s.run # {t}
    BY <1>9
  <2>2. taskAgent.version \in Versions /\ status \in AgentStatus
    BY <1>0, <1>9 DEF TaskTypes, AgentStatus, Statuses, Terminal
  <2>3. PICK run : run = IF status = "running" THEN {t} ELSE s.run
    OBVIOUS
  <2>4. PICK previous : previous = IF Kind(t) = "update" /\ s.tasks[t] = "none"
                                                        THEN taskAgent.version ELSE s.previous[t]
    OBVIOUS
  <2>5. store' = [s EXCEPT !.tasks[t] = status, !.run = run, !.previous[t] = previous]
    BY <1>8, <2>1, <2>3, <2>4
  <2>6. run \in SUBSET (Tasks \cup {Scheduled}) /\ previous \in Versions
    BY <1>2, <2>2, <2>3, <2>4 DEF AgentStore
  <2>7. store' \in AgentStore /\ store'.tasks = [s.tasks EXCEPT ![t] = status] /\ store'.confirmed = s.confirmed
        /\ store'.run = run
    BY <1>2, <2>2, <2>5, <2>6 DEF AgentStore
  <2> QED BY <1>2, <1>8, <2>1, <2>3, <2>7
<1>11. /\ store'.tasks[t] = status /\ \A u \in Tasks \ {t} : store'.tasks[u] = store.tasks[u]
       /\ \A u \in Tasks : Open(store', u) <=> u = t
  <2>1. store'.tasks[t] = status /\ \A u \in Tasks \ {t} : store'.tasks[u] = store.tasks[u]
    BY <1>0, <1>10 DEF AgentStore
  <2>2. \A u \in Tasks : Open(store', u) <=> u = t
    BY <1>2, <1>4, <1>5, <1>9, <1>10, <2>1 DEF Open
  <2> QED BY <2>1, <2>2
<1>12. row[t].status # "none" /\ started[t] = 0 /\ row[t].status \notin Outcomes
  BY <1>0, <1>3 DEF PollSound, AwaitedSound, Open, Outcomes
<1>13. Records(row', store')
  <2>1. \A u, v \in Tasks : Open(store', u) /\ Open(store', v) => u = v
    BY <1>11
  <2>2. \A u \in Tasks : store'.tasks[u] = "running" <=> u \in store'.run
    BY <1>2, <1>5, <1>9, <1>10, <1>11 DEF Records
  <2>3. \A u, v \in store'.run : u = v
    BY <1>2, <1>10 DEF Records
  <2>4. \A u \in Tasks \ {t} :
         /\ store'.tasks[u] # "none" => row[u].status # "none"
         /\ store'.tasks[u] \in {"acknowledged", "verifying", "installing", "restarting", "rolled-back"}
              => row[u].kind = "update"
         /\ store'.tasks[u] = "running" => row[u].kind = "probe"
         /\ ~Open(store', u)
    BY <1>0, <1>11 DEF Records
  <2>5. /\ status \in {"acknowledged", "verifying", "installing", "restarting", "rolled-back"}
              => row[t].kind = "update"
        /\ status = "running" => row[t].kind = "probe"
        /\ row[t].kind = "update" /\ status \notin Terminal => store'.run = {}
    BY <1>9, <1>10 DEF Terminal
  <2>6. \A u \in store'.confirmed : u # t /\ store'.tasks[u] \in Terminal /\ row[u].status \in Outcomes
    BY <1>2, <1>5, <1>10, <1>11 DEF Records, AgentStore
  <2> QED BY <1>11, <1>12, <2>1, <2>2, <2>3, <2>4, <2>5, <2>6 DEF Records
<1>14. RecordsMove
  <2>1. \A u \in Tasks : Open(store, u) => u = q.accepted /\ u # NoTask /\ u # t
    BY <1>2, <1>4 DEF Tasks, NoTask, Open
  <2> QED BY <1>9, <1>11, <1>12, <2>1 DEF RecordsMove, AnswerKnown
<1>15. ASSUME NEW u \in Tasks PROVE Agrees(row', store', u)
  <2>1. Agrees(row, store, u)
    BY DEF TaskInv
  <2> QED BY <1>11, <1>12, <2>1 DEF Agrees, Outcomes
<1>16. StartedOnce'
  <2>1. \A u \in Tasks \ {t} : started'[u] = started[u]
    BY <1>0, <1>10 DEF Rows
  <2> QED BY <1>9, <1>11, <2>1 DEF StartedOnce, AnswerKnown, NotStarted, Active
<1>17. Rows'
  <2>1. started' \in [Tasks -> 0 .. 1]
    BY <1>0, <1>10, <1>12 DEF Rows
  <2>2. \A u \in Tasks : row[u].status = "none" => started'[u] = 0
    BY <1>0, <1>10, <1>12 DEF Rows
  <2> QED BY <1>0, <2>1, <2>2 DEF Rows
<1>18. polls' \subseteq TaskPoll /\ PollsSound' /\ Awaited' = {}
  BY <1>11, AnswerPolls
<1> QED BY <1>10, <1>13, <1>14, <1>15, <1>16, <1>17, <1>18

LEMMA TakeAnswerKeeps ==
  ASSUME TaskInv, UpdateInv, NEW q \in polls, TakeAnswer(q), UNCHANGED updateVars
  PROVE  TaskInv' /\ UpdateInv'
<1>0. /\ TaskTypes /\ Rows /\ q \in TaskPoll /\ PollSound(q) /\ RowsGrow(row, row')
      /\ q.awaited /\ q.step = "answered" /\ taskAgent.process = "running"
      /\ polls' = polls \ {q} /\ UNCHANGED <<row, overdue, nodeVersion>>
  BY SameRowsGrow DEF TaskInv, TaskTypes, RowTypes, PollsSound, TakeAnswer, Answer
<1>1. AnswerKnown(q)
  BY <1>0, AnswerIsKnown
<1> DEFINE Kept ==
         /\ polls' \subseteq TaskPoll /\ PollsSound' /\ StartedOnce' /\ Rows'
         /\ store' \in AgentStore /\ Records(row', store') /\ RecordsMove
         /\ \A t \in Tasks : Agrees(row', store', t)
         /\ taskAgent' = taskAgent \/ taskAgent' = [taskAgent EXCEPT !.process = "down"]
<1>2. ASSUME store' = Confirmed(store, q.accepted), UNCHANGED <<taskAgent, started>> PROVE Kept
  BY <1>0, <1>1, <1>2, ConfirmKeeps, RowsSame
<1>3. ASSUME q.task # NoTask, TakeTask(q) PROVE Kept
  <2>0. q.task \in Tasks
    BY <1>0, <1>3 DEF TaskPoll
  <2>1. CASE store.tasks[q.task] = "none"
    BY <1>0, <1>1, <1>3, <2>0, <2>1, NewTaskTaken
  <2>2. CASE store.tasks[q.task] # "none"
    BY <1>0, <1>1, <1>3, <2>0, <2>2, KnownTaskTaken, ConfirmKeeps, RowsSame
  <2> QED BY <2>1, <2>2
<1>4. Kept
  BY <1>2, <1>3 DEF TakeAnswer
<1>5. TaskTypes'
  BY <1>0, <1>4 DEF TaskTypes, Processes
<1>6. UpdateInv'
  BY <1>0, <1>4, <1>5, ProcessStays DEF updateVars
<1> QED BY <1>4, <1>5, <1>6 DEF TaskInv

\* Every step of the tasks, with the process that takes them.
LEMMA TasksKeep ==
  ASSUME TaskInv, UpdateInv, CenterNext \/ AgentNext \/ StopProcess, UNCHANGED updateVars
  PROVE  TaskInv' /\ UpdateInv'
<1>0. /\ TaskTypes /\ Rows /\ Records(row, store) /\ \A t \in Tasks : Agrees(row, store, t)
      /\ UNCHANGED <<disk, files, supervisor, works>>
  BY DEF TaskInv, updateVars
<1> DEFINE Still == UNCHANGED <<row, overdue, nodeVersion, store, started>>
                    /\ (taskAgent' = taskAgent \/ taskAgent' = [taskAgent EXCEPT !.process = "down"])
<1>1. ASSUME Still, polls' \subseteq TaskPoll, StartedOnce', PollsSound' PROVE TaskInv' /\ UpdateInv'
  <2>1. RowsGrow(row, row') /\ RecordsMove
    BY <1>0, <1>1, SameRowsGrow, SameRecordsMove DEF TaskTypes, RowTypes
  <2>2. TaskTypes'
    BY <1>0, <1>1 DEF TaskTypes, Processes
  <2>3. UpdateInv'
    BY <1>0, <1>1, <2>1, <2>2, ProcessStays
  <2> QED BY <1>0, <1>1, <2>2, <2>3, RowsSame DEF TaskInv
<1>2. CASE CenterNext
  <2>1. CenterMoves /\ TaskInv'
    BY <1>2, CenterKeeps
  <2>2. UpdateInv'
    BY <1>0, <2>1, SameRecordsMove, ProcessStays DEF CenterMoves, TaskInv
  <2> QED BY <2>1, <2>2
<1>3. CASE SendPoll
  BY <1>1, <1>3, SentPollKeeps DEF SendPoll
<1>4. CASE GiveUpPoll \/ StopProcess
  BY <1>1, <1>4, AbandonedKeeps DEF GiveUpPoll, StopProcess, Stopped
<1>5. ASSUME NEW q \in polls, TakeAnswer(q) PROVE TaskInv' /\ UpdateInv'
  BY <1>5, TakeAnswerKeeps
<1>6. CASE StartSchedule
  BY <1>0, <1>6, ScheduleRecords, RecordStepKeeps DEF StartSchedule
<1>7. CASE FinishRun
  BY <1>0, <1>7, FinishedRecords, RecordStepKeeps DEF FinishRun
<1>8. CASE CleanupTasks
  BY <1>0, <1>8, CleanedRecords, RecordStepKeeps DEF CleanupTasks
<1> QED BY <1>2, <1>3, <1>4, <1>5, <1>6, <1>7, <1>8 DEF AgentNext

-----------------------------------------------------------------------------
(* The steps of an update: what they leave of the tasks                    *)

LEMMA NothingAwaited ==
  ASSUME TaskInv, taskAgent.process \notin {"health", "running"}
  PROVE  Awaited = {}
BY DEF TaskInv, PollsSound, AwaitedSound, Awaited

TasksStill == UNCHANGED <<row, overdue, nodeVersion, started, polls>>

\* The process goes on, or there was nothing it waited for.
ProcessMoves ==
    \/ taskAgent' = taskAgent
    \/ /\ Awaited = {} /\ taskAgent'.process # "commit"
       /\ taskAgent' \in [process : Processes, version : Versions]

LEMMA QuietKeeps ==
  ASSUME TaskInv, TasksStill, store' = store, ProcessMoves
  PROVE  TaskInv'
<1>0. TaskTypes /\ Rows /\ Records(row, store) /\ (\A t \in Tasks : Agrees(row, store, t))
  BY DEF TaskInv
<1>1. RecordsSteady(store, store')
  BY DEF TasksStill, RecordsSteady
<1>2. Refusing => Refusing'
  BY DEF TasksStill, ProcessMoves, Refusing, Unconfirmed, Handled, Overruled, Kind, Awaited
<1>3. StartedOnce' /\ PollsSound'
  BY <1>1, <1>2, SteadyKeeps DEF TasksStill, ProcessMoves
<1>4. TaskTypes'
  BY <1>0 DEF TaskTypes, TasksStill, ProcessMoves
<1> QED BY <1>0, <1>3, <1>4, RowsSame DEF TaskInv, TasksStill

\* The update under way goes on to a status: its record stays the one that is open.
LEMMA MarkRecords ==
  ASSUME TaskInv, NEW u \in Pending, store.tasks[u] \notin Terminal, row' = row,
         NEW status \in {"verifying", "installing", "restarting", "rolled-back", "failed", "succeeded"},
         Mark(u, status)
  PROVE  /\ u \in Tasks /\ Open(store, u) /\ row[u].kind = "update"
         /\ store' \in AgentStore /\ Records(row', store') /\ RecordsSteady(store, store')
         /\ \A t \in Tasks : Agrees(row', store', t)
         /\ store'.tasks[u] = status /\ \A t \in Tasks \ {u} : store'.tasks[t] = store.tasks[t]
         /\ \A t \in Tasks : Open(store', t) <=> Open(store, t)
         /\ \A t \in Tasks : Open(store, t) <=> t = u
<1>0. TaskTypes /\ store \in AgentStore /\ Records(row, store)
  BY DEF TaskInv, TaskTypes
<1>1. u \in Tasks /\ Open(store, u) /\ row[u].kind = "update"
  BY DEF Pending, Unconfirmed, Handled, Open, Kind
<1>2. status \in AgentStatus /\ status \notin {"none", "running", "acknowledged"}
  BY DEF AgentStatus, Statuses, Terminal
<1>3. /\ store' \in AgentStore /\ store'.tasks[u] = status /\ store'.run = store.run
      /\ store'.confirmed = store.confirmed
      /\ \A t \in Tasks \ {u} : store'.tasks[t] = store.tasks[t]
  BY <1>0, <1>1, <1>2 DEF Mark, AgentStore
<1>4. \A t \in Tasks : Open(store', t) <=> Open(store, t)
  BY <1>1, <1>2, <1>3 DEF Open
<1>5. store.tasks[u] # "running" /\ u \notin store.run /\ store.run = {}
  BY <1>0, <1>1 DEF Records
<1>6. Records(row, store')
  <2>1. \A t, v \in Tasks : Open(store', t) /\ Open(store', v) => t = v
    BY <1>0, <1>4 DEF Records
  <2>2. \A t \in Tasks : store'.tasks[t] = "running" <=> t \in store'.run
    BY <1>0, <1>2, <1>3, <1>5 DEF Records
  <2>3. \A t \in Tasks :
         /\ store'.tasks[t] # "none" => row[t].status # "none"
         /\ store'.tasks[t] \in {"acknowledged", "verifying", "installing", "restarting", "rolled-back"}
              => row[t].kind = "update"
         /\ store'.tasks[t] = "running" => row[t].kind = "probe"
    BY <1>0, <1>1, <1>2, <1>3 DEF Records, Open
  <2>4. \A t \in store'.confirmed : t # u /\ store'.tasks[t] \in Terminal /\ row[t].status \in Outcomes
    BY <1>0, <1>1, <1>3 DEF Records, Open, AgentStore
  <2> QED BY <1>3, <1>5, <2>1, <2>2, <2>3, <2>4 DEF Records
<1>7. ASSUME NEW t \in Tasks PROVE Agrees(row', store', t)
  <2>1. Agrees(row, store, t)
    BY DEF TaskInv
  <2> QED BY <1>1, <1>3, <2>1 DEF Agrees, Open
<1>8. RecordsSteady(store, store')
  BY <1>1, <1>2, <1>3, <1>4 DEF RecordsSteady, Open
<1>9. \A t \in Tasks : Open(store, t) <=> t = u
  BY <1>0, <1>1 DEF Records
<1> QED BY <1>1, <1>3, <1>4, <1>6, <1>7, <1>8, <1>9

LEMMA MarkKeeps ==
  ASSUME TaskInv, NEW u \in Pending, store.tasks[u] \notin Terminal, TasksStill,
         NEW status \in {"verifying", "installing", "restarting", "rolled-back", "failed", "succeeded"},
         Mark(u, status), ProcessMoves, Awaited = {} \/ taskAgent.process = "running",
         status = "succeeded" => taskAgent.process = "commit"
  PROVE  TaskInv'
<1>0. TaskTypes /\ Rows
  BY DEF TaskInv
<1>1. /\ u \in Tasks /\ Open(store, u) /\ store' \in AgentStore /\ Records(row', store')
      /\ RecordsSteady(store, store') /\ (\A t \in Tasks : Agrees(row', store', t))
      /\ store'.tasks[u] = status /\ \A t \in Tasks \ {u} : store'.tasks[t] = store.tasks[t]
      /\ \A t \in Tasks : Open(store', t) <=> Open(store, t)
  BY MarkRecords DEF TasksStill
<1>2. Refusing => Refusing'
  <2> SUFFICES ASSUME NEW v \in Unconfirmed, Overruled(v), taskAgent.process # "commit",
                      \A q \in Awaited : q.step = "sent"
               PROVE  Refusing'
    BY DEF Refusing
  <2>1. v \in Tasks /\ v \in Unconfirmed'
    BY <1>1, UnconfirmedIsOpen DEF Unconfirmed, Handled, Open
  <2>2. Overruled(v)'
    BY <1>1, <2>1 DEF Overruled, Kind, TasksStill
  <2>3. taskAgent'.process # "commit"
    BY DEF ProcessMoves
  <2> QED BY <2>1, <2>2, <2>3 DEF Refusing, Awaited, TasksStill
<1>3. StartedOnce' /\ PollsSound'
  BY <1>1, <1>2, SteadyKeeps DEF TasksStill, ProcessMoves
<1>4. TaskTypes'
  BY <1>0, <1>1 DEF TaskTypes, TasksStill, ProcessMoves
<1> QED BY <1>0, <1>1, <1>3, <1>4, RowsSame DEF TaskInv, TasksStill

-----------------------------------------------------------------------------
(* ... and of what is known of the update directory                        *)

LEMMA MarkNamed ==
  ASSUME TaskInv, UpdateInv, NEW u \in Pending, store.tasks[u] \notin Terminal, row' = row, files' = files,
         NEW status \in {"verifying", "installing", "restarting", "rolled-back", "failed", "succeeded"},
         Mark(u, status),
         status \in {"installing", "restarting", "succeeded"} => u = files.task,
         status = "succeeded" => Rank(row[u].status) >= 4
  PROVE  /\ TaskNamed' /\ CheckpointOK'
         /\ u = files.task => Phase = store.tasks[u] /\ Phase' = status
         /\ u # files.task => Phase = "none" /\ Phase' = "none"
<1>0. TaskNamed /\ CheckpointOK /\ files.task \in Tasks \cup {NoTask} /\ UpdateTypes
  BY DEF UpdateInv, UpdateTypes, UpdateFiles
<1>1. /\ u \in Tasks /\ Open(store, u) /\ row[u].kind = "update"
      /\ store'.tasks[u] = status /\ \A t \in Tasks \ {u} : store'.tasks[t] = store.tasks[t]
      /\ \A t \in Tasks : Open(store', t) <=> Open(store, t)
      /\ \A t \in Tasks : Open(store, t) <=> t = u
  BY MarkRecords
<1>2. \A t \in Tasks : (t \in Unconfirmed <=> t = u) /\ (t \in Unconfirmed' <=> t = u)
  BY <1>1 DEF Unconfirmed, Handled, Open
<1>3. Unconfirmed \subseteq Tasks /\ Unconfirmed' \subseteq Tasks
  BY DEF Unconfirmed
<1>4. /\ u = files.task => Phase = store.tasks[u] /\ Phase' = status
      /\ u # files.task => Phase = "none" /\ Phase' = "none"
  BY <1>1, <1>2, <1>3 DEF Phase
<1>5. TaskNamed'
  <2>1. files.task \in Tasks =>
         /\ row[files.task].kind = "update"
         /\ IF files.task \in Unconfirmed' THEN Phase' # "acknowledged" ELSE row[files.task].status \in Outcomes
    BY <1>0, <1>2, <1>4 DEF TaskNamed, Kind
  <2>2. \A v \in Unconfirmed' : store'.tasks[v] \in {"installing", "restarting", "succeeded"} => v = files.task
    BY <1>1, <1>2, <1>3
  <2>3. \A v \in Tasks : store'.tasks[v] = "succeeded" /\ row[v].kind = "update" => Rank(row[v].status) >= 4
    BY <1>0, <1>1 DEF TaskNamed, Kind
  <2> QED BY <2>1, <2>2, <2>3 DEF TaskNamed, Kind
<1>6. CheckpointOK'
  BY <1>0, <1>1, <1>2 DEF CheckpointOK, Open
<1> QED BY <1>4, <1>5, <1>6

LEMMA FilesNamed ==
  ASSUME UpdateInv, UNCHANGED <<row, store>>, files'.task = files.task,
         files'.checkpoint = "complete" => files.checkpoint = "complete" /\ files'.saved = files.saved
  PROVE  TaskNamed' /\ CheckpointOK' /\ Phase' = Phase
<1>1. TaskNamed /\ CheckpointOK
  BY DEF UpdateInv
<1>2. Unconfirmed' = Unconfirmed
  BY DEF Unconfirmed, Handled
<1>3. Phase' = Phase
  BY <1>2 DEF Phase
<1>4. TaskNamed'
  BY <1>1, <1>2, <1>3 DEF TaskNamed, Kind
<1>5. CheckpointOK'
  <2> SUFFICES ASSUME files'.checkpoint = "complete" PROVE CheckpointOK'
    BY DEF CheckpointOK
  <2> QED BY <1>1, <1>2 DEF CheckpointOK
<1> QED BY <1>3, <1>4, <1>5

-----------------------------------------------------------------------------
(* The update manager                                                      *)

LEMMA BeginUpdateKeeps ==
  ASSUME TaskInv, UpdateInv, NEW u \in Pending, BeginUpdate(u)
  PROVE  TaskInv' /\ UpdateInv'
<1>0. /\ taskAgent.process = "running" /\ store.tasks[u] = "acknowledged" /\ Mark(u, "verifying")
      /\ TasksStill /\ UNCHANGED <<taskAgent, disk, files, supervisor, works>>
      /\ store.tasks[u] \notin Terminal
  BY DEF BeginUpdate, KeepCenter, TasksStill, updateVars, Terminal
<1>1. TaskInv'
  BY <1>0, MarkKeeps DEF ProcessMoves
<1>2. /\ TaskNamed' /\ CheckpointOK'
      /\ u = files.task => Phase = "acknowledged"
      /\ u # files.task => Phase = "none" /\ Phase' = "none"
  BY <1>0, MarkNamed DEF TasksStill
<1>3. u # files.task
  BY <1>0, <1>2 DEF UpdateInv, TaskNamed, Pending, Unconfirmed, Phase
<1> QED BY <1>0, <1>1, <1>2, <1>3 DEF UpdateInv, UpdateTypes, ProcessOK, DiskOK, SupervisorOK, Held, TasksStill

\* The update directory is made anew only while the supervisor has nothing to do in it.
LEMMA StageKeeps ==
  ASSUME TaskInv, UpdateInv, NEW u \in Pending, Stage(u)
  PROVE  TaskInv' /\ UpdateInv'
<1>0. /\ taskAgent.process = "running" /\ store.tasks[u] = "verifying" /\ taskAgent.version = "old"
      /\ files' = [NoFiles(u) EXCEPT !.staged = TRUE]
      /\ TasksStill /\ UNCHANGED <<store, taskAgent, disk, supervisor, works>>
      /\ u \in Unconfirmed /\ u \in Tasks /\ row[u].kind = "update"
  BY DEF Stage, KeepCenter, TasksStill, Pending, Unconfirmed, Kind
<1>1. TaskInv'
  BY <1>0, QuietKeeps DEF ProcessMoves
<1>2. store \in AgentStore /\ Records(row, store) /\ UpdateTypes /\ TaskNamed
  BY DEF TaskInv, TaskTypes, UpdateInv
<1>3. /\ files' = [task |-> u, staged |-> TRUE, checkpoint |-> "none", saved |-> store, marker |-> FALSE]
      /\ files' \in UpdateFiles
  BY <1>0, <1>2 DEF NoFiles, UpdateFiles
<1>4. /\ files'.task = u /\ files'.checkpoint = "none" /\ ~files'.marker
  BY <1>3
<1>5. Unconfirmed' = Unconfirmed /\ Unconfirmed \subseteq Tasks
  BY <1>0 DEF Unconfirmed, Handled
<1>6. Phase' = "verifying"
  BY <1>0, <1>4, <1>5 DEF Phase
<1>7. disk.binary = "old" /\ ~Held
  BY <1>0 DEF UpdateInv, ProcessOK
<1>8. TaskNamed'
  <2>1. \A v \in Unconfirmed : v = u
    BY <1>0, <1>2, OneIsOpen
  <2> QED BY <1>0, <1>2, <1>4, <1>5, <1>6, <2>1 DEF TaskNamed, Kind, TasksStill
<1>9. CheckpointOK'
  BY <1>4 DEF CheckpointOK
<1>10. UpdateTypes'
  BY <1>0, <1>2, <1>3 DEF UpdateTypes
<1>11. ProcessOK'
  BY <1>0, <1>6, <1>7 DEF UpdateInv, ProcessOK, Held
<1>12. DiskOK'
  BY <1>0, <1>4, <1>6, <1>7 DEF UpdateInv, DiskOK
<1>13. SupervisorOK'
  <2>1. supervisor.step \notin {"read", "checkpoint", "replace", "mark", "start", "restore", "revert", "roll_back"}
    BY <1>7 DEF Held
  <2>2. supervisor.step \notin {"wait", "stop_again", "finalize"}
    BY <1>7 DEF UpdateInv, SupervisorOK
  <2> QED BY <1>0, <1>6, <1>7, <2>1, <2>2 DEF UpdateInv, SupervisorOK
<1> QED BY <1>1, <1>8, <1>9, <1>10, <1>11, <1>12, <1>13 DEF UpdateInv

LEMMA MarkInstallingKeeps ==
  ASSUME TaskInv, UpdateInv, NEW u \in Pending, MarkInstalling(u)
  PROVE  TaskInv' /\ UpdateInv'
<1>0. /\ taskAgent.process = "running" /\ store.tasks[u] = "verifying" /\ Mark(u, "installing")
      /\ files.task = u /\ files.staged
      /\ TasksStill /\ UNCHANGED <<taskAgent, disk, files, supervisor, works>>
      /\ store.tasks[u] \notin Terminal
  BY DEF MarkInstalling, KeepCenter, TasksStill, updateVars, Terminal
<1>1. TaskInv'
  BY <1>0, MarkKeeps DEF ProcessMoves
<1>2. TaskNamed' /\ CheckpointOK' /\ Phase = "verifying" /\ Phase' = "installing"
  BY <1>0, MarkNamed DEF TasksStill
<1>3. disk.binary = "old" /\ ~Held
  BY <1>0, <1>2 DEF UpdateInv, DiskOK, ProcessOK
<1>4. supervisor.step \in {"idle", "stop", "remove", "removing"}
  BY <1>3 DEF UpdateInv, SupervisorOK, UpdateTypes, Steps, Held
<1> QED BY <1>0, <1>1, <1>2, <1>3, <1>4 DEF UpdateInv, UpdateTypes, ProcessOK, DiskOK, SupervisorOK, Held

LEMMA FailUpdateKeeps ==
  ASSUME TaskInv, UpdateInv, NEW u \in Pending, FailUpdate(u)
  PROVE  TaskInv' /\ UpdateInv'
<1>0. /\ taskAgent.process = "running" /\ store.tasks[u] \in {"verifying", "installing"} /\ Mark(u, "failed")
      /\ TasksStill /\ UNCHANGED <<taskAgent, disk, files, supervisor, works>>
      /\ store.tasks[u] \notin Terminal
  BY DEF FailUpdate, KeepCenter, TasksStill, updateVars, Terminal
<1>1. TaskInv'
  BY <1>0, MarkKeeps DEF ProcessMoves
<1>2. /\ TaskNamed' /\ CheckpointOK'
      /\ \/ Phase \in {"verifying", "installing"} /\ Phase' = "failed"
         \/ Phase = "none" /\ Phase' = "none"
  BY <1>0, MarkNamed DEF TasksStill
<1>3. ~Held
  BY <1>0 DEF UpdateInv, ProcessOK
<1>4. SupervisorOK'
  <2>1. supervisor.step \notin {"read", "checkpoint", "replace", "mark", "start", "restore", "revert", "roll_back"}
    BY <1>3 DEF Held
  <2> QED BY <1>0, <1>2, <2>1 DEF UpdateInv, SupervisorOK, TasksStill
<1> QED BY <1>0, <1>1, <1>2, <1>3, <1>4 DEF UpdateInv, UpdateTypes, ProcessOK, DiskOK, Held, TasksStill

LEMMA TriggerSupervisorKeeps ==
  ASSUME TaskInv, UpdateInv, TriggerSupervisor
  PROVE  TaskInv' /\ UpdateInv'
<1>0. /\ TasksStill /\ UNCHANGED <<store, disk, files, works>>
      /\ supervisor' = IF supervisor.step = "idle" THEN [step |-> "stop", resume |-> FALSE] ELSE supervisor
      /\ TaskTypes /\ Records(row, store) /\ UpdateTypes /\ TaskNamed /\ ProcessOK
  BY DEF TriggerSupervisor, KeepCenter, TasksStill, TaskInv, UpdateInv
<1>1. /\ Phase # "restarting" /\ ProcessMoves
      /\ taskAgent' \in [process : Processes, version : Versions]
      /\ taskAgent.process \in {"running", "resume"} /\ taskAgent'.process = "running"
      /\ taskAgent'.version = taskAgent.version
  <2>1. CASE taskAgent.process = "running" /\ Is("installing") /\ UNCHANGED taskAgent
    BY <1>0, <2>1, IsPhase DEF ProcessMoves, TaskTypes
  <2>2. CASE taskAgent.process = "resume" /\ taskAgent' = [taskAgent EXCEPT !.process = "running"]
    <3>1. Awaited = {}
      BY <2>2, NothingAwaited
    <3> QED BY <1>0, <2>2, <3>1 DEF ProcessMoves, TaskTypes, Processes, ProcessOK
  <2> QED BY <2>1, <2>2 DEF TriggerSupervisor
<1>2. TaskInv'
  BY <1>0, <1>1, QuietKeeps
<1>3. TaskNamed' /\ CheckpointOK' /\ Phase' = Phase
  BY <1>0, FilesNamed DEF TasksStill
<1>4. ~Held
  BY <1>1 DEF UpdateInv, ProcessOK
<1>5. supervisor' \in [step : Steps, resume : BOOLEAN]
  BY <1>0 DEF UpdateTypes, Steps
<1>6. SupervisorOK'
  BY <1>0, <1>1, <1>3 DEF UpdateInv, SupervisorOK, TasksStill
<1> QED BY <1>0, <1>1, <1>2, <1>3, <1>4, <1>5, <1>6 DEF UpdateInv, UpdateTypes, ProcessOK, DiskOK, Held, TasksStill

-----------------------------------------------------------------------------
(* A starting Agent, and its report of health                              *)

LEMMA EntryIs ==
  ASSUME TaskTypes, UpdateTypes, TaskNamed, DiskOK, Records(row, store)
  PROVE  /\ Entry \in {"down", "health", "running"}
         /\ Entry = "running" => Phase # "restarting"
         /\ Entry = "health" => /\ files.task \in Tasks /\ disk.binary = "new"
                                /\ Phase \in {"restarting", "succeeded"}
         /\ Entry = "down" => files.checkpoint = "damaged"
<1>1. /\ Is("restarting") <=> Phase = "restarting"
      /\ Is("succeeded") <=> Phase = "succeeded"
      /\ Phase \in {"restarting", "succeeded"} => files.task \in Tasks
  BY IsPhase
<1>2. files.checkpoint \in {"none", "damaged", "complete"} /\ disk.binary \in {"old", "new"}
  BY DEF UpdateTypes, UpdateFiles, Versions
<1>3. CASE Phase \notin {"restarting", "succeeded"}
  BY <1>1, <1>3 DEF Entry
<1>4. CASE Phase \in {"restarting", "succeeded"}
  <2>1. Entry = CASE files.checkpoint = "damaged" -> "down"
           [] files.checkpoint = "none" -> IF Is("restarting") THEN "down" ELSE "running"
           [] OTHER -> IF disk.binary = "new" THEN "health" ELSE "down"
    BY <1>1, <1>4 DEF Entry
  <2>2. disk.binary = "new" /\ (Phase = "restarting" => files.checkpoint = "complete")
    BY <1>4 DEF DiskOK
  <2>3. CASE files.checkpoint = "damaged"
    BY <1>1, <1>4, <2>1, <2>2, <2>3
  <2>4. CASE files.checkpoint = "none"
    BY <1>1, <1>4, <2>1, <2>2, <2>4
  <2>5. CASE files.checkpoint = "complete"
    BY <1>1, <1>4, <2>1, <2>2, <2>5
  <2> QED BY <1>2, <2>3, <2>4, <2>5
<1> QED BY <1>3, <1>4

LEMMA StartProcessKeeps ==
  ASSUME TaskInv, UpdateInv, StartProcess
  PROVE  TaskInv' /\ UpdateInv'
<1>0. /\ TaskTypes /\ Rows /\ Records(row, store) /\ UpdateTypes /\ TaskNamed /\ DiskOK
      /\ taskAgent.process = "down" /\ ~Held /\ (disk.binary = "new" => works) /\ Entry # "down"
      /\ taskAgent' = [process |-> Entry, version |-> disk.binary]
      /\ TasksStill /\ UNCHANGED <<disk, files, supervisor, works>>
      /\ RowsGrow(row, row')
  BY SameRowsGrow DEF StartProcess, KeepCenter, TasksStill, updateVars, TaskInv, UpdateInv, TaskTypes, RowTypes
<1>1. /\ Entry \in {"health", "running"}
      /\ Entry = "running" => Phase # "restarting"
      /\ Entry = "health" => /\ files.task \in Tasks /\ disk.binary = "new"
                             /\ Phase \in {"restarting", "succeeded"}
  BY <1>0, EntryIs
<1>2. Awaited = {}
  BY <1>0, NothingAwaited
<1>3. /\ taskAgent'.process = Entry /\ taskAgent'.version = disk.binary
      /\ taskAgent' \in [process : Processes, version : Versions]
  BY <1>0, <1>1 DEF UpdateTypes, Processes
<1>4. /\ store' \in AgentStore /\ Records(row', store') /\ RecordsMove /\ RecordsSteady(store, store')
      /\ \A t \in Tasks : Agrees(row', store', t)
  <2>1. CASE store' = store
    BY <1>0, <2>1, SameRecordsMove DEF TaskInv, TaskTypes, TasksStill, RecordsSteady
  <2>2. CASE store' = Finished(store, "failed")
    BY <1>0, <2>2, FinishedRecords DEF TasksStill
  <2> QED BY <2>1, <2>2 DEF StartProcess
<1>5. Refusing => Refusing'
  <2> SUFFICES ASSUME NEW u \in Unconfirmed, Overruled(u) PROVE Refusing'
    BY DEF Refusing
  <2>1. u \in Tasks /\ Open(store, u) /\ Open(store', u)
    BY <1>4, UnconfirmedIsOpen DEF RecordsSteady, Unconfirmed
  <2>2. store'.tasks[u] = store.tasks[u]
    BY <1>4, <2>1 DEF RecordsMove, Overruled, Kind
  <2>3. u \in Unconfirmed' /\ Overruled(u)'
    BY <1>0, <2>1, <2>2 DEF Unconfirmed, Handled, Open, Overruled, Kind, TasksStill
  <2>4. Awaited' = {} /\ taskAgent'.process # "commit"
    BY <1>0, <1>1, <1>2, <1>3 DEF Awaited, TasksStill
  <2> QED BY <2>3, <2>4 DEF Refusing
<1>6. StartedOnce' /\ PollsSound'
  BY <1>0, <1>2, <1>4, <1>5, SteadyKeeps DEF TasksStill
<1>7. TaskTypes'
  BY <1>0, <1>3, <1>4 DEF TaskTypes, TasksStill
<1>8. TaskInv'
  BY <1>0, <1>4, <1>6, <1>7, RowsSame DEF TaskInv, TasksStill
<1>9. /\ UpdateTypes' /\ TaskNamed' /\ DiskOK' /\ CheckpointOK' /\ SupervisorOK'
      /\ Phase' \in {Phase, "none"}
  BY <1>0, <1>4, <1>7, UpdateStays
<1>10. ProcessOK'
  BY <1>0, <1>1, <1>3, <1>9 DEF ProcessOK, Held
<1> QED BY <1>8, <1>9, <1>10 DEF UpdateInv

\* The answer is health because it is about the report of the update that restarted, and
\* the Center has accepted that.
LEMMA HealthAnswerKeeps ==
  ASSUME TaskInv, UpdateInv, NEW q \in polls, HealthAnswer(q)
  PROVE  TaskInv' /\ UpdateInv'
<1>0. /\ TaskTypes /\ Rows /\ Records(row, store) /\ UpdateTypes /\ ProcessOK
      /\ q \in TaskPoll /\ PollSound(q) /\ AwaitedSound(q)
      /\ q.awaited /\ q.step = "answered" /\ taskAgent.process = "health"
      /\ polls' = polls \ {q} /\ store' = Confirmed(store, q.accepted)
      /\ UNCHANGED <<row, overdue, nodeVersion, started, disk, files, supervisor, works>>
      /\ RowsGrow(row, row')
  BY SameRowsGrow DEF HealthAnswer, Answer, KeepCenter, updateVars, TaskInv, UpdateInv, TaskTypes, RowTypes, PollsSound
<1>1. AnswerKnown(q)
  BY <1>0, AnswerIsKnown
<1>2. /\ polls' \subseteq TaskPoll /\ PollsSound' /\ StartedOnce'
      /\ store' \in AgentStore /\ Records(row', store') /\ RecordsMove
      /\ \A t \in Tasks : Agrees(row', store', t)
  BY <1>0, <1>1, ConfirmKeeps
<1>3. taskAgent' = taskAgent \/ \E p \in {"commit", "down"} : taskAgent' = [taskAgent EXCEPT !.process = p]
  BY DEF HealthAnswer
<1>4. /\ taskAgent' \in [process : Processes, version : Versions]
      /\ taskAgent'.process \in {"health", "commit", "down"} /\ taskAgent'.version = taskAgent.version
  BY <1>0, <1>3 DEF TaskTypes, Processes
<1>5. TaskTypes'
  BY <1>0, <1>2, <1>4 DEF TaskTypes
<1>6. TaskInv'
  BY <1>0, <1>2, <1>5, RowsSame DEF TaskInv
<1>7. /\ UpdateTypes' /\ TaskNamed' /\ DiskOK' /\ CheckpointOK' /\ SupervisorOK'
      /\ Phase' \in {Phase, "none"}
  BY <1>0, <1>2, <1>5, UpdateStays
<1>8. Phase = "restarting" => Rank(row[files.task].status) >= 4
  <2> SUFFICES ASSUME Phase = "restarting" PROVE Rank(row[files.task].status) >= 4
    OBVIOUS
  <2>1. files.task \in Unconfirmed /\ store.tasks[files.task] = "restarting" /\ files.task \in Tasks
    BY DEF Phase, Unconfirmed
  <2>2. q.report = files.task /\ q.report # NoTask
    BY <1>0, <2>1, UnconfirmedIsOpen DEF AwaitedSound, Tasks, NoTask
  <2>3. q.status = "restarting"
    BY <1>0, <2>1, <2>2 DEF AwaitedSound
  <2>4. Rank(row[q.report].status) >= Rank(q.status)
    BY <1>0, <2>2 DEF PollSound
  <2>5. Rank("restarting") = 4
    BY DEF Rank
  <2> QED BY <2>2, <2>3, <2>4, <2>5
<1>9. ProcessOK'
  BY <1>0, <1>4, <1>7, <1>8 DEF ProcessOK, Held
<1> QED BY <1>6, <1>7, <1>9 DEF UpdateInv

LEMMA CommitHealthKeeps ==
  ASSUME TaskInv, UpdateInv, CommitHealth
  PROVE  TaskInv' /\ UpdateInv'
<1>0. /\ taskAgent.process = "commit" /\ taskAgent' = [taskAgent EXCEPT !.process = "publish"]
      /\ TasksStill /\ UNCHANGED <<disk, files, supervisor, works>>
      /\ TaskTypes /\ Records(row, store) /\ UpdateTypes /\ TaskNamed /\ ProcessOK
  BY DEF CommitHealth, KeepCenter, TasksStill, updateVars, TaskInv, UpdateInv
<1>1. /\ files.task \in Tasks /\ works /\ disk.binary = "new" /\ Phase # "installing" /\ ~Held
      /\ Kind(files.task) = "update"
  BY <1>0 DEF ProcessOK, TaskNamed
<1>2. Awaited = {}
  BY <1>0, NothingAwaited
<1>3. /\ ProcessMoves /\ taskAgent'.process = "publish" /\ taskAgent'.version = taskAgent.version
      /\ taskAgent' \in [process : Processes, version : Versions]
  BY <1>0, <1>2 DEF ProcessMoves, TaskTypes, Processes
<1>4. CASE store.tasks[files.task] = "restarting"
  <2>1. files.task \in Pending /\ Phase = "restarting" /\ "restarting" \notin Terminal
    BY <1>0, <1>1, <1>4 DEF Pending, Unconfirmed, Handled, Records, Phase, Terminal
  <2>2. Mark(files.task, "succeeded")
    BY <1>4 DEF CommitHealth, Mark
  <2>3. TaskInv'
    BY <1>0, <1>2, <1>3, <1>4, <2>1, <2>2, MarkKeeps
  <2>4. TaskNamed' /\ CheckpointOK' /\ Phase' = "succeeded"
    BY <1>0, <1>4, <2>1, <2>2, MarkNamed DEF TasksStill, ProcessOK
  <2>5. SupervisorOK'
    BY <1>0, <1>1, <2>1, <2>4 DEF UpdateInv, SupervisorOK, Held, TasksStill
  <2> QED BY <1>0, <1>1, <1>3, <2>1, <2>3, <2>4, <2>5 DEF UpdateInv, UpdateTypes, ProcessOK, DiskOK, Held
<1>5. CASE store.tasks[files.task] # "restarting"
  <2>1. store' = store
    BY <1>5 DEF CommitHealth
  <2>2. TaskInv'
    BY <1>0, <1>3, <2>1, QuietKeeps
  <2>3. TaskNamed' /\ CheckpointOK' /\ Phase' = Phase
    BY <1>0, <2>1, FilesNamed DEF TasksStill
  <2>4. Phase # "restarting"
    BY <1>5 DEF Phase
  <2>5. SupervisorOK'
    BY <1>0, <2>3 DEF UpdateInv, SupervisorOK, TasksStill
  <2> QED BY <1>0, <1>1, <1>3, <2>2, <2>3, <2>4, <2>5 DEF UpdateInv, UpdateTypes, ProcessOK, DiskOK, Held
<1> QED BY <1>4, <1>5

LEMMA WriteHealthMarkerKeeps ==
  ASSUME TaskInv, UpdateInv, WriteHealthMarker
  PROVE  TaskInv' /\ UpdateInv'
<1>0. /\ taskAgent.process = "publish" /\ taskAgent' = [taskAgent EXCEPT !.process = "resume"]
      /\ files' = [files EXCEPT !.marker = TRUE]
      /\ TasksStill /\ UNCHANGED <<store, disk, supervisor, works>>
      /\ TaskTypes /\ UpdateTypes /\ ProcessOK
  BY DEF WriteHealthMarker, KeepCenter, TasksStill, TaskInv, UpdateInv
<1>1. works /\ ~Held /\ Phase # "restarting"
  BY <1>0 DEF ProcessOK
<1>2. Awaited = {}
  BY <1>0, NothingAwaited
<1>3. /\ ProcessMoves /\ taskAgent'.process = "resume" /\ taskAgent'.version = taskAgent.version
  BY <1>0, <1>2 DEF ProcessMoves, TaskTypes, Processes
<1>4. TaskInv'
  BY <1>0, <1>3, QuietKeeps
<1>5. /\ files' \in UpdateFiles /\ files'.task = files.task /\ files'.staged = files.staged
      /\ files'.checkpoint = files.checkpoint /\ files'.saved = files.saved
  BY <1>0 DEF UpdateTypes, UpdateFiles
<1>6. TaskNamed' /\ CheckpointOK' /\ Phase' = Phase
  BY <1>0, <1>5, FilesNamed DEF TasksStill
<1>7. UpdateTypes' /\ DiskOK'
  BY <1>0, <1>1, <1>5, <1>6 DEF UpdateInv, UpdateTypes, DiskOK
<1>8. ProcessOK'
  BY <1>0, <1>1, <1>3, <1>5, <1>6 DEF ProcessOK, Held
<1>9. SupervisorOK'
  BY <1>0, <1>1, <1>5, <1>6 DEF UpdateInv, SupervisorOK, TasksStill
<1> QED BY <1>4, <1>6, <1>7, <1>8, <1>9 DEF UpdateInv

-----------------------------------------------------------------------------
(* The supervisor                                                          *)

LEMMA StepIs ==
  ASSUME UpdateTypes, NEW s \in Steps, Go(s)
  PROVE  /\ supervisor'.step = s /\ supervisor'.resume = supervisor.resume
         /\ supervisor' \in [step : Steps, resume : BOOLEAN]
BY DEF UpdateTypes, Go

\* A step that writes no record.
LEMMA QuietSupervisor ==
  ASSUME TaskInv, UpdateInv, SupervisorKeeps, UNCHANGED <<polls, store, taskAgent>>,
         files'.task = files.task,
         files'.checkpoint = "complete" => files.checkpoint = "complete" /\ files'.saved = files.saved
  PROVE  TaskInv' /\ TaskNamed' /\ CheckpointOK' /\ Phase' = Phase /\ works' = works
BY QuietKeeps, FilesNamed DEF TasksStill, ProcessMoves, SupervisorKeeps

\* The supervisor, or the power, ends the Agent's process.
LEMMA StoppedKeeps ==
  ASSUME TaskInv, UpdateInv, Stopped, UNCHANGED <<row, overdue, nodeVersion, started, store, disk, files, works>>
  PROVE  /\ TaskInv' /\ TaskNamed' /\ DiskOK' /\ CheckpointOK' /\ Phase' = Phase
         /\ taskAgent'.process = "down"
<1>0. TaskTypes /\ Rows /\ Records(row, store) /\ (\A t \in Tasks : Agrees(row, store, t)) /\ UpdateTypes
  BY DEF TaskInv, UpdateInv
<1>1. polls' \subseteq TaskPoll /\ StartedOnce' /\ PollsSound'
  BY AbandonedKeeps DEF Stopped
<1>2. taskAgent' \in [process : Processes, version : Versions] /\ taskAgent'.process = "down"
  BY <1>0 DEF TaskTypes, Stopped, Processes
<1>3. TaskTypes'
  BY <1>0, <1>1, <1>2 DEF TaskTypes
<1>4. TaskNamed' /\ CheckpointOK' /\ Phase' = Phase
  BY FilesNamed
<1> QED BY <1>0, <1>1, <1>2, <1>3, <1>4, RowsSame DEF TaskInv, UpdateInv, DiskOK

LEMMA StopAgentKeeps ==
  ASSUME TaskInv, UpdateInv, StopAgent
  PROVE  TaskInv' /\ UpdateInv'
<1>0. /\ supervisor.step \in {"stop", "stop_again"} /\ Stopped
      /\ Go(IF supervisor.step = "stop" THEN "read" ELSE "restore")
      /\ UNCHANGED <<row, overdue, nodeVersion, started, store, disk, files, works>>
      /\ UpdateTypes
  BY DEF StopAgent, SupervisorKeeps, UpdateInv
<1>1. /\ TaskInv' /\ TaskNamed' /\ DiskOK' /\ CheckpointOK' /\ Phase' = Phase
      /\ taskAgent'.process = "down"
  BY <1>0, StoppedKeeps
<1>2. /\ supervisor'.step = IF supervisor.step = "stop" THEN "read" ELSE "restore"
      /\ supervisor'.resume = supervisor.resume /\ supervisor' \in [step : Steps, resume : BOOLEAN]
  BY <1>0, StepIs DEF Steps
<1>3. UpdateTypes' /\ ProcessOK'
  BY <1>0, <1>1, <1>2 DEF UpdateTypes, ProcessOK
<1>4. SupervisorOK'
  BY <1>0, <1>1, <1>2 DEF UpdateInv, SupervisorOK
<1> QED BY <1>1, <1>3, <1>4 DEF UpdateInv

LEMMA RebootKeeps ==
  ASSUME TaskInv, UpdateInv, Reboot
  PROVE  TaskInv' /\ UpdateInv'
<1>0. /\ Stopped /\ supervisor' = [step |-> "idle", resume |-> FALSE]
      /\ UNCHANGED <<row, overdue, nodeVersion, started, store, disk, files, works>>
      /\ UpdateTypes
  BY DEF Reboot, KeepCenter, UpdateInv
<1>1. /\ TaskInv' /\ TaskNamed' /\ DiskOK' /\ CheckpointOK' /\ Phase' = Phase
      /\ taskAgent'.process = "down"
  BY <1>0, StoppedKeeps
<1>2. UpdateTypes' /\ ProcessOK' /\ SupervisorOK'
  BY <1>0, <1>1 DEF UpdateTypes, ProcessOK, SupervisorOK, Steps
<1> QED BY <1>1, <1>2 DEF UpdateInv

LEMMA ReadPendingUpdateKeeps ==
  ASSUME TaskInv, UpdateInv, ReadPendingUpdate
  PROVE  TaskInv' /\ UpdateInv'
<1>0. /\ supervisor.step = "read" /\ SupervisorKeeps /\ UNCHANGED <<polls, store, taskAgent, disk, files>>
      /\ TaskTypes /\ Records(row, store) /\ UpdateTypes /\ TaskNamed
  BY DEF ReadPendingUpdate, TaskInv, UpdateInv
<1>1. TaskInv' /\ TaskNamed' /\ CheckpointOK' /\ Phase' = Phase /\ works' = works
  BY <1>0, QuietSupervisor
<1>2. taskAgent.process = "down" /\ Phase # "restarting" /\ ~supervisor.resume
  BY <1>0 DEF UpdateInv, ProcessOK, SupervisorOK, Held
<1>3. /\ Is("installing") <=> Phase = "installing"
      /\ Is("restarting") <=> Phase = "restarting"
      /\ Is("succeeded") <=> Phase = "succeeded"
  BY <1>0, IsPhase
<1>4. \/ supervisor' = [step |-> "checkpoint", resume |-> FALSE] /\ Phase = "installing"
      \/ /\ supervisor' = [step |-> "finalize", resume |-> TRUE]
         /\ Phase = "succeeded" /\ files.checkpoint = "complete" /\ files.marker
      \/ /\ supervisor' = [step |-> "start", resume |-> FALSE]
         /\ Phase = "succeeded" /\ files.checkpoint = "complete"
      \/ supervisor' = [step |-> "idle", resume |-> FALSE]
  BY <1>2, <1>3 DEF ReadPendingUpdate
<1>5. UpdateTypes' /\ DiskOK' /\ ProcessOK'
  <2>0. supervisor' \in [step : Steps, resume : BOOLEAN]
    <3>1. \A s \in Steps, resume \in BOOLEAN :
            [step |-> s, resume |-> resume] \in [step : Steps, resume : BOOLEAN]
      OBVIOUS
    <3>2. "checkpoint" \in Steps /\ "finalize" \in Steps /\ "start" \in Steps /\ "idle" \in Steps
      BY DEF Steps
    <3> QED BY <1>4, <3>1, <3>2
  <2>1. UpdateTypes'
    BY <1>0, <1>1, <2>0 DEF UpdateTypes
  <2>2. DiskOK' /\ ProcessOK'
    BY <1>0, <1>1, <1>2 DEF UpdateInv, DiskOK, ProcessOK
  <2> QED BY <2>1, <2>2
<1>6. SupervisorOK'
  BY <1>0, <1>1, <1>2, <1>4 DEF UpdateInv, SupervisorOK, DiskOK
<1> QED BY <1>1, <1>5, <1>6 DEF UpdateInv

\* What is saved is the state of an update about to be installed, with nothing else open.
LEMMA EnsureCheckpointKeeps ==
  ASSUME TaskInv, UpdateInv, EnsureCheckpoint
  PROVE  TaskInv' /\ UpdateInv'
<1>0. /\ supervisor.step = "checkpoint" /\ SupervisorKeeps /\ UNCHANGED <<polls, store, taskAgent, disk>>
      /\ TaskTypes /\ store \in AgentStore /\ Records(row, store) /\ UpdateTypes /\ TaskNamed
  BY DEF EnsureCheckpoint, TaskInv, TaskTypes, UpdateInv
<1>1. /\ taskAgent.process = "down" /\ Phase = "installing" /\ ~supervisor.resume
      /\ files.task \in Unconfirmed /\ files.task \in Tasks /\ store.tasks[files.task] = "installing"
  BY <1>0 DEF UpdateInv, ProcessOK, SupervisorOK, Held, Phase, Unconfirmed
<1>2. CASE UNCHANGED files
  <2>1. TaskInv' /\ TaskNamed' /\ CheckpointOK' /\ Phase' = Phase /\ works' = works
    BY <1>0, <1>2, QuietSupervisor
  <2>2. \/ supervisor'.step = "idle"
        \/ supervisor'.step = "replace" /\ files.checkpoint = "complete"
    <3>1. CASE files.checkpoint = "damaged"
      <4>1. Go("idle")
        BY <3>1 DEF EnsureCheckpoint
      <4> QED BY <1>0, <4>1, StepIs DEF Steps
    <3>2. CASE files.checkpoint # "damaged"
      <4>1. files.checkpoint = "complete"
        BY <1>0, <1>2, <3>2 DEF EnsureCheckpoint, Saved, UpdateTypes, UpdateFiles
      <4> QED BY <1>0, <3>2, <4>1, StepIs DEF EnsureCheckpoint, Steps
    <3> QED BY <3>1, <3>2
  <2>3. supervisor'.resume = supervisor.resume /\ supervisor' \in [step : Steps, resume : BOOLEAN]
    BY <1>0, StepIs DEF EnsureCheckpoint, Steps
  <2> QED BY <1>0, <1>1, <1>2, <2>1, <2>2, <2>3 DEF UpdateInv, UpdateTypes, DiskOK, ProcessOK, SupervisorOK
<1>3. CASE files.checkpoint = "none" /\ Go("replace")
           /\ files' = [files EXCEPT !.checkpoint = "complete", !.saved = store]
  <2>1. /\ files' \in UpdateFiles /\ files'.task = files.task /\ files'.staged = files.staged
        /\ files'.checkpoint = "complete" /\ files'.saved = store /\ files'.marker = files.marker
    BY <1>0, <1>3 DEF UpdateTypes, UpdateFiles
  <2>2. /\ supervisor'.step = "replace" /\ supervisor'.resume = supervisor.resume
        /\ supervisor' \in [step : Steps, resume : BOOLEAN]
    BY <1>0, <1>3, StepIs DEF Steps
  <2>3. TaskInv'
    BY <1>0, QuietKeeps DEF TasksStill, ProcessMoves, SupervisorKeeps
  <2>4. Unconfirmed' = Unconfirmed /\ Phase' = Phase
    BY <1>0, <2>1 DEF Unconfirmed, Handled, Phase
  <2>5. TaskNamed'
    BY <1>0, <2>1, <2>4 DEF TaskNamed, Kind, SupervisorKeeps
  <2>6. CheckpointOK'
    <3>1. \A t \in Tasks : Agrees(row, store, t)
      BY DEF TaskInv
    <3> QED BY <1>0, <1>1, <2>1, <3>1 DEF CheckpointOK, SupervisorKeeps
  <2>7. UpdateTypes' /\ DiskOK' /\ ProcessOK' /\ SupervisorOK'
    BY <1>0, <1>1, <2>1, <2>2, <2>4 DEF UpdateInv, UpdateTypes, DiskOK, ProcessOK, SupervisorOK, SupervisorKeeps
  <2> QED BY <2>3, <2>5, <2>6, <2>7 DEF UpdateInv
<1>4. files.checkpoint \in {"none", "damaged", "complete"}
  BY <1>0 DEF UpdateTypes, UpdateFiles
<1> QED BY <1>2, <1>3, <1>4 DEF EnsureCheckpoint, Saved

LEMMA ReplaceBinaryKeeps ==
  ASSUME TaskInv, UpdateInv, ReplaceBinary
  PROVE  TaskInv' /\ UpdateInv'
<1>0. /\ supervisor.step = "replace" /\ SupervisorKeeps /\ UNCHANGED <<polls, store, taskAgent, files>>
      /\ UpdateTypes
  BY DEF ReplaceBinary, UpdateInv
<1>1. TaskInv' /\ TaskNamed' /\ CheckpointOK' /\ Phase' = Phase /\ works' = works
  BY <1>0, QuietSupervisor
<1>2. taskAgent.process = "down" /\ Phase = "installing" /\ ~supervisor.resume /\ files.checkpoint = "complete"
  BY <1>0 DEF UpdateInv, ProcessOK, SupervisorOK, Held
<1>3. /\ supervisor'.resume = supervisor.resume /\ supervisor' \in [step : Steps, resume : BOOLEAN]
      /\ disk' \in [binary : Versions, updater : Versions] /\ disk'.updater = disk.updater
      /\ \/ supervisor'.step = "mark" /\ disk'.binary = "new"
         \/ supervisor'.step = "restore"
  BY <1>0, StepIs DEF ReplaceBinary, Steps, UpdateTypes, Versions
<1>4. UpdateTypes' /\ DiskOK' /\ ProcessOK'
  BY <1>0, <1>1, <1>2, <1>3 DEF UpdateInv, UpdateTypes, DiskOK, ProcessOK
<1>5. SupervisorOK'
  BY <1>0, <1>1, <1>2, <1>3 DEF UpdateInv, SupervisorOK
<1> QED BY <1>1, <1>4, <1>5 DEF UpdateInv

LEMMA MarkRestartingKeeps ==
  ASSUME TaskInv, UpdateInv, MarkRestarting
  PROVE  TaskInv' /\ UpdateInv'
<1>0. /\ supervisor.step = "mark" /\ SupervisorKeeps /\ UNCHANGED <<polls, taskAgent, disk, files>>
      /\ UpdateTypes /\ Records(row, store)
  BY DEF MarkRestarting, UpdateInv, TaskInv
<1>1. /\ taskAgent.process = "down" /\ Phase = "installing" /\ ~supervisor.resume /\ disk.binary = "new"
      /\ files.checkpoint = "complete" /\ files.task \in Unconfirmed /\ store.tasks[files.task] = "installing"
  BY <1>0 DEF UpdateInv, ProcessOK, SupervisorOK, Held, Phase
<1>2. ASSUME NEW u \in Pending, Mark(u, "restarting"), Go("start") PROVE TaskInv' /\ UpdateInv'
  <2>1. u = files.task /\ store.tasks[u] \notin Terminal
    BY <1>0, <1>1, OneIsOpen DEF Pending, Terminal
  <2>2. TaskInv'
    BY <1>0, <1>1, <1>2, <2>1, MarkKeeps, NothingAwaited DEF TasksStill, ProcessMoves, SupervisorKeeps
  <2>3. TaskNamed' /\ CheckpointOK' /\ Phase' = "restarting"
    BY <1>0, <1>2, <2>1, MarkNamed DEF SupervisorKeeps
  <2>4. /\ supervisor'.step = "start" /\ supervisor'.resume = supervisor.resume
        /\ supervisor' \in [step : Steps, resume : BOOLEAN]
    BY <1>0, <1>2, StepIs DEF Steps
  <2>5. UpdateTypes' /\ DiskOK' /\ ProcessOK'
    BY <1>0, <1>1, <2>3, <2>4 DEF UpdateInv, UpdateTypes, DiskOK, ProcessOK, SupervisorKeeps
  <2>6. SupervisorOK'
    BY <1>0, <1>1, <2>3, <2>4 DEF UpdateInv, SupervisorOK, SupervisorKeeps
  <2> QED BY <2>2, <2>3, <2>5, <2>6 DEF UpdateInv
<1>3. ASSUME Go("restore"), UNCHANGED store PROVE TaskInv' /\ UpdateInv'
  <2>1. TaskInv' /\ TaskNamed' /\ CheckpointOK' /\ Phase' = Phase /\ works' = works
    BY <1>0, <1>3, QuietSupervisor
  <2>2. /\ supervisor'.step = "restore" /\ supervisor'.resume = supervisor.resume
        /\ supervisor' \in [step : Steps, resume : BOOLEAN]
    BY <1>0, <1>3, StepIs DEF Steps
  <2>3. UpdateTypes' /\ DiskOK' /\ ProcessOK'
    BY <1>0, <1>1, <2>1, <2>2 DEF UpdateInv, UpdateTypes, DiskOK, ProcessOK
  <2>4. SupervisorOK'
    BY <1>0, <1>1, <2>1, <2>2 DEF UpdateInv, SupervisorOK
  <2> QED BY <2>1, <2>3, <2>4 DEF UpdateInv
<1> QED BY <1>2, <1>3 DEF MarkRestarting

LEMMA StartNewAgentKeeps ==
  ASSUME TaskInv, UpdateInv, StartNewAgent
  PROVE  TaskInv' /\ UpdateInv'
<1>0. /\ supervisor.step = "start" /\ SupervisorKeeps /\ UNCHANGED <<polls, store, taskAgent, disk>>
      /\ files' = [files EXCEPT !.marker = FALSE] /\ UpdateTypes
  BY DEF StartNewAgent, UpdateInv
<1>1. /\ files' \in UpdateFiles /\ files'.task = files.task /\ files'.staged = files.staged
      /\ files'.checkpoint = files.checkpoint /\ files'.saved = files.saved /\ ~files'.marker
  BY <1>0 DEF UpdateTypes, UpdateFiles
<1>2. TaskInv' /\ TaskNamed' /\ CheckpointOK' /\ Phase' = Phase /\ works' = works
  BY <1>0, <1>1, QuietSupervisor
<1>3. taskAgent.process = "down" /\ ~supervisor.resume
  BY <1>0 DEF UpdateInv, ProcessOK, SupervisorOK, Held
<1>4. /\ supervisor'.step \in {"wait", "stop_again"} /\ supervisor'.resume = supervisor.resume
      /\ supervisor' \in [step : Steps, resume : BOOLEAN]
  BY <1>0, StepIs DEF StartNewAgent, Steps
<1>5. UpdateTypes' /\ DiskOK' /\ ProcessOK'
  BY <1>0, <1>1, <1>2, <1>3, <1>4 DEF UpdateInv, UpdateTypes, DiskOK, ProcessOK
<1>6. SupervisorOK'
  BY <1>0, <1>1, <1>2, <1>3, <1>4 DEF UpdateInv, SupervisorOK, SupervisorKeeps
<1> QED BY <1>2, <1>5, <1>6 DEF UpdateInv

\* The end of the wait for the marker; nothing is known of the Agent but what it wrote.
LEMMA WaitEndKeeps ==
  ASSUME TaskInv, UpdateInv, SeeHealthMarker \/ HealthTimeout
  PROVE  TaskInv' /\ UpdateInv'
<1>0. /\ supervisor.step = "wait" /\ SupervisorKeeps /\ UNCHANGED <<polls, store, taskAgent, disk, files>>
      /\ UpdateTypes
  BY DEF SeeHealthMarker, HealthTimeout, UpdateInv
<1>1. TaskInv' /\ TaskNamed' /\ CheckpointOK' /\ Phase' = Phase /\ works' = works
  BY <1>0, QuietSupervisor
<1>2. /\ \/ supervisor'.step = "finalize" /\ files.marker
         \/ supervisor'.step = "stop_again"
      /\ supervisor'.resume = supervisor.resume
      /\ supervisor' \in [step : Steps, resume : BOOLEAN]
  BY <1>0, StepIs DEF SeeHealthMarker, HealthTimeout, Steps
<1>3. ~supervisor.resume
  BY <1>0 DEF UpdateInv, SupervisorOK
<1>4. UpdateTypes' /\ DiskOK' /\ ProcessOK'
  BY <1>0, <1>1, <1>2, <1>3 DEF UpdateInv, UpdateTypes, DiskOK, ProcessOK, Held, SupervisorKeeps
<1>5. SupervisorOK'
  BY <1>0, <1>1, <1>2, <1>3 DEF UpdateInv, SupervisorOK, DiskOK, SupervisorKeeps
<1> QED BY <1>1, <1>4, <1>5 DEF UpdateInv

LEMMA RefreshUpdaterKeeps ==
  ASSUME TaskInv, UpdateInv, RefreshUpdater
  PROVE  TaskInv' /\ UpdateInv'
<1>0. /\ supervisor.step = "finalize" /\ SupervisorKeeps /\ UNCHANGED <<polls, store, taskAgent, files>>
      /\ disk' = [disk EXCEPT !.updater = disk.binary] /\ Go("remove") /\ UpdateTypes
  BY DEF RefreshUpdater, UpdateInv
<1>1. TaskInv' /\ TaskNamed' /\ CheckpointOK' /\ Phase' = Phase /\ works' = works
  BY <1>0, QuietSupervisor
<1>2. works /\ Phase \notin {"installing", "restarting"}
  BY <1>0 DEF UpdateInv, SupervisorOK
<1>3. /\ supervisor'.step = "remove" /\ supervisor'.resume = supervisor.resume
      /\ supervisor' \in [step : Steps, resume : BOOLEAN]
      /\ disk' \in [binary : Versions, updater : Versions] /\ disk'.binary = disk.binary
  BY <1>0, StepIs DEF Steps, UpdateTypes
<1>4. UpdateTypes' /\ DiskOK' /\ ProcessOK'
  BY <1>0, <1>1, <1>2, <1>3 DEF UpdateInv, UpdateTypes, DiskOK, ProcessOK, Held
<1>5. SupervisorOK'
  BY <1>0, <1>1, <1>2, <1>3 DEF UpdateInv, SupervisorOK, SupervisorKeeps
<1> QED BY <1>1, <1>4, <1>5 DEF UpdateInv

LEMMA RestoreBinaryKeeps ==
  ASSUME TaskInv, UpdateInv, RestoreBinary
  PROVE  TaskInv' /\ UpdateInv'
<1>0. /\ supervisor.step = "revert" /\ SupervisorKeeps /\ UNCHANGED <<polls, store, taskAgent, files>>
      /\ disk' = [disk EXCEPT !.binary = "old"] /\ Go("roll_back") /\ UpdateTypes
  BY DEF RestoreBinary, UpdateInv
<1>1. TaskInv' /\ TaskNamed' /\ CheckpointOK' /\ Phase' = Phase /\ works' = works
  BY <1>0, QuietSupervisor
<1>2. taskAgent.process = "down" /\ Phase = "installing" /\ ~supervisor.resume
  BY <1>0 DEF UpdateInv, ProcessOK, SupervisorOK, Held
<1>3. /\ supervisor'.step = "roll_back" /\ supervisor'.resume = supervisor.resume
      /\ supervisor' \in [step : Steps, resume : BOOLEAN]
      /\ disk' \in [binary : Versions, updater : Versions]
      /\ disk'.binary = "old" /\ disk'.updater = disk.updater
  BY <1>0, StepIs DEF Steps, UpdateTypes, Versions
<1>4. UpdateTypes' /\ DiskOK' /\ ProcessOK'
  BY <1>0, <1>1, <1>2, <1>3 DEF UpdateInv, UpdateTypes, DiskOK, ProcessOK
<1>5. SupervisorOK'
  BY <1>0, <1>1, <1>2, <1>3 DEF UpdateInv, SupervisorOK, SupervisorKeeps
<1> QED BY <1>1, <1>4, <1>5 DEF UpdateInv

LEMMA RollBackKeeps ==
  ASSUME TaskInv, UpdateInv, RollBack
  PROVE  TaskInv' /\ UpdateInv'
<1>0. /\ supervisor.step = "roll_back" /\ SupervisorKeeps /\ UNCHANGED <<polls, taskAgent, disk, files>>
      /\ Go("remove") /\ UpdateTypes /\ Records(row, store)
  BY DEF RollBack, UpdateInv, TaskInv
<1>1. /\ taskAgent.process = "down" /\ Phase = "installing" /\ ~supervisor.resume
      /\ files.task \in Unconfirmed /\ store.tasks[files.task] = "installing"
  BY <1>0 DEF UpdateInv, ProcessOK, SupervisorOK, Held, Phase
<1>2. PICK u \in Pending : Mark(u, "rolled-back")
  BY DEF RollBack
<1>3. u = files.task /\ store.tasks[u] \notin Terminal
  BY <1>0, <1>1, OneIsOpen DEF Pending, Terminal
<1>4. TaskInv'
  BY <1>0, <1>1, <1>2, <1>3, MarkKeeps, NothingAwaited DEF TasksStill, ProcessMoves, SupervisorKeeps
<1>5. TaskNamed' /\ CheckpointOK' /\ Phase' = "rolled-back"
  BY <1>0, <1>2, <1>3, MarkNamed DEF SupervisorKeeps
<1>6. /\ supervisor'.step = "remove" /\ supervisor'.resume = supervisor.resume
      /\ supervisor' \in [step : Steps, resume : BOOLEAN]
  BY <1>0, StepIs DEF Steps
<1>7. UpdateTypes' /\ DiskOK' /\ ProcessOK'
  BY <1>0, <1>1, <1>5, <1>6 DEF UpdateInv, UpdateTypes, DiskOK, ProcessOK, SupervisorKeeps
<1>8. SupervisorOK'
  BY <1>0, <1>1, <1>5, <1>6 DEF UpdateInv, SupervisorOK, SupervisorKeeps
<1> QED BY <1>4, <1>5, <1>7, <1>8 DEF UpdateInv

LEMMA RemoveCheckpointKeeps ==
  ASSUME TaskInv, UpdateInv, RemoveCheckpoint
  PROVE  TaskInv' /\ UpdateInv'
<1>0. /\ supervisor.step = "remove" /\ SupervisorKeeps /\ UNCHANGED <<polls, store, taskAgent, disk>>
      /\ Go("removing") /\ UpdateTypes
  BY DEF RemoveCheckpoint, UpdateInv
<1>1. /\ files' \in UpdateFiles /\ files'.task = files.task /\ files'.staged = files.staged
      /\ files'.checkpoint # "complete" /\ files'.saved = files.saved /\ files'.marker = files.marker
  BY <1>0 DEF RemoveCheckpoint, UpdateTypes, UpdateFiles
<1>2. TaskInv' /\ TaskNamed' /\ CheckpointOK' /\ Phase' = Phase /\ works' = works
  BY <1>0, <1>1, QuietSupervisor
<1>3. /\ supervisor'.step = "removing" /\ supervisor'.resume = supervisor.resume
      /\ supervisor' \in [step : Steps, resume : BOOLEAN]
  BY <1>0, StepIs DEF Steps
<1>4. disk.binary = "old" \/ Phase \notin {"installing", "restarting"}
  BY <1>0 DEF UpdateInv, SupervisorOK
<1>5. disk.binary = "old" => Phase # "restarting"
  BY DEF UpdateInv, DiskOK
<1>6. UpdateTypes' /\ DiskOK' /\ ProcessOK'
  BY <1>0, <1>1, <1>2, <1>3, <1>4, <1>5 DEF UpdateInv, UpdateTypes, DiskOK, ProcessOK, Held
<1>7. SupervisorOK'
  BY <1>0, <1>2, <1>3, <1>4 DEF UpdateInv, SupervisorOK
<1> QED BY <1>2, <1>6, <1>7 DEF UpdateInv

LEMMA RemoveFilesKeeps ==
  ASSUME TaskInv, UpdateInv, RemoveFiles
  PROVE  TaskInv' /\ UpdateInv'
<1>0. /\ supervisor.step = "removing" /\ SupervisorKeeps /\ UNCHANGED <<polls, store, taskAgent, disk>>
      /\ files' = NoFiles(files.task) /\ supervisor' = [step |-> "idle", resume |-> FALSE]
      /\ UpdateTypes /\ store \in AgentStore
  BY DEF RemoveFiles, UpdateInv, TaskInv, TaskTypes
<1>1. /\ files' \in UpdateFiles /\ files'.task = files.task /\ ~files'.staged
      /\ files'.checkpoint = "none" /\ ~files'.marker
  BY <1>0 DEF NoFiles, UpdateTypes, UpdateFiles
<1>2. TaskInv' /\ TaskNamed' /\ CheckpointOK' /\ Phase' = Phase /\ works' = works
  BY <1>0, <1>1, QuietSupervisor
<1>3. disk.binary = "old" \/ Phase \notin {"installing", "restarting"}
  BY <1>0 DEF UpdateInv, SupervisorOK
<1>4. disk.binary = "old" => Phase # "restarting"
  BY DEF UpdateInv, DiskOK
<1>5. UpdateTypes' /\ DiskOK' /\ ProcessOK' /\ SupervisorOK'
  BY <1>0, <1>1, <1>2, <1>3, <1>4 DEF UpdateInv, UpdateTypes, DiskOK, ProcessOK, SupervisorOK, Held, Steps
<1> QED BY <1>2, <1>5 DEF UpdateInv

\* The state of the checkpoint comes back.  Either the Center does not know yet that the
\* update succeeded, and then no task was recorded since; or it does, and then it refuses
\* every report of the update from now on, and answers no poll that carries one.
LEMMA RestoreStateKeeps ==
  ASSUME TaskInv, UpdateInv, RestoreState
  PROVE  TaskInv' /\ UpdateInv'
<1> DEFINE f == files.task
<1>0. /\ supervisor.step = "restore" /\ store' = files.saved /\ Go("revert")
      /\ UNCHANGED <<row, overdue, nodeVersion, started, works, polls, taskAgent, disk, files>>
      /\ TaskTypes /\ Rows /\ Records(row, store) /\ StartedOnce /\ PollsSound
      /\ UpdateTypes /\ TaskNamed /\ CheckpointOK /\ SupervisorOK
  BY DEF RestoreState, SupervisorKeeps, TaskInv, UpdateInv
<1>1. /\ taskAgent.process = "down" /\ ~supervisor.resume /\ files.checkpoint = "complete"
      /\ Phase \in {"installing", "restarting", "succeeded"} \/ row[f].status = "succeeded"
  BY <1>0 DEF UpdateInv, ProcessOK, SupervisorOK, Held
<1>2. /\ f \in Tasks /\ store' \in AgentStore /\ Records(row, store') /\ store'.tasks[f] = "installing"
      /\ \A t \in Tasks \ {f} :
           /\ Agrees(row, store', t)
           /\ f \in Unconfirmed /\ store'.tasks[t] = "none" => store.tasks[t] = "none"
  BY <1>0, <1>1 DEF CheckpointOK, UpdateTypes, UpdateFiles
<1>3. /\ Kind(f) = "update" /\ RowTypes(row) /\ RowsGrow(row, row')
      /\ Unconfirmed \subseteq Tasks
  BY <1>0, <1>2, SameRowsGrow DEF TaskNamed, TaskTypes, RowTypes, Unconfirmed
<1>4. Open(store', f) /\ \A t \in Tasks : Open(store', t) <=> t = f
  <2>1. Open(store', f)
    BY <1>2 DEF Open, Records, Terminal
  <2> QED BY <1>2, <2>1 DEF Records
<1>5. Unconfirmed' = {f} /\ Phase' = "installing"
  <2>1. Unconfirmed' = {f}
    BY <1>2, <1>4 DEF Unconfirmed, Handled, Open
  <2> QED BY <1>0, <1>2, <2>1 DEF Phase
\* A task that is not the update's is unknown, or confirmed and over.
<1>6. \A t \in Tasks \ {f} : store'.tasks[t] # "none" => row[t].status \in Outcomes
  BY <1>2, <1>4 DEF Open, Records
<1>7. Awaited = {} /\ Awaited' = {}
  BY <1>0, <1>1, NothingAwaited DEF Awaited
<1>8. row[f].status = "succeeded" => Refusing'
  BY <1>0, <1>1, <1>2, <1>3, <1>5, <1>7 DEF Refusing, Overruled, Kind
<1>9. ASSUME row[f].status # "succeeded"
      PROVE  /\ f \in Unconfirmed /\ store.tasks[f] \in {"installing", "restarting", "succeeded"}
             /\ ~Refusing /\ NotStarted(store)
  <2>1. f \in Unconfirmed /\ store.tasks[f] \in {"installing", "restarting", "succeeded"}
    BY <1>1, <1>9 DEF Phase
  <2>2. \A u \in Unconfirmed : u = f
    BY <1>0, <2>1, OneIsOpen
  <2> QED BY <1>0, <1>9, <2>1, <2>2 DEF Refusing, Overruled, StartedOnce
<1>10. ASSUME NEW t \in Tasks PROVE Agrees(row', store', t)
  <2>1. CASE t # f
    BY <1>0, <1>2, <2>1
  <2>2. CASE t = f
    <3>1. Agrees(row, store, f)
      BY <1>2 DEF TaskInv
    <3> QED BY <1>0, <1>3, <1>9, <2>2, <3>1 DEF Agrees, Kind, Terminal
  <2> QED BY <2>1, <2>2
<1>11. StartedOnce'
  <2>1. CASE row[f].status = "succeeded"
    BY <1>8, <2>1 DEF StartedOnce
  <2>2. CASE row[f].status # "succeeded"
    <3>1. \A t \in Tasks : store'.tasks[t] = "none" => store.tasks[t] = "none"
      BY <1>2, <1>9, <2>2
    <3> QED BY <1>0, <1>9, <2>2, <3>1 DEF StartedOnce, NotStarted, Active
  <2> QED BY <2>1, <2>2
<1>12. ASSUME NEW t \in Tasks, NEW o \in Terminal, Told(t, o) PROVE Told(t, o)'
  <2> SUFFICES ASSUME row[t].status \notin Terminal PROVE Told(t, o)'
    BY <1>0 DEF Told
  <2>0. "none" \notin Terminal /\ "installing" \notin Terminal /\ "restarting" \notin Terminal
    BY DEF Terminal
  <2>1. CASE t = f
    <3>1. row[f].status # "succeeded"
      BY <2>1 DEF Terminal
    <3>2. o = "succeeded"
      BY <1>9, <1>12, <2>0, <2>1, <3>1 DEF Told
    <3> QED BY <1>0, <1>2, <1>3, <2>1, <3>2 DEF Told, Kind
  <2>2. CASE t # f
    <3>1. store'.tasks[t] = "none"
      BY <1>6, <2>2 DEF Outcomes
    <3>2. CASE row[f].status = "succeeded"
      BY <1>8, <3>1, <3>2 DEF Told
    <3>3. CASE row[f].status # "succeeded"
      BY <1>2, <1>9, <1>12, <2>0, <2>2, <3>1, <3>3 DEF Told
    <3> QED BY <3>2, <3>3
  <2> QED BY <2>1, <2>2
<1>13. PollsSound'
  <2> SUFFICES ASSUME NEW q \in polls' PROVE PollSound(q)' /\ (q.awaited => AwaitedSound(q)')
    BY DEF PollsSound
  <2>1. q \in TaskPoll /\ PollSound(q) /\ ~q.awaited
    BY <1>0, <1>7 DEF PollsSound, TaskTypes, Awaited
  <2>2. RowTypes(row')
    BY <1>0, <1>3
  <2> QED BY <1>0, <1>3, <1>12, <2>1, <2>2, PollStays
<1>14. TaskInv'
  <2>1. TaskTypes'
    BY <1>0, <1>2 DEF TaskTypes
  <2> QED BY <1>0, <1>2, <1>10, <1>11, <1>13, <2>1, RowsSame DEF TaskInv
<1>15. TaskNamed'
  <2>1. \A u \in Tasks : store'.tasks[u] = "succeeded" => Rank(row[u].status) >= 4
    BY <1>2, <1>3, <1>6, Ranks DEF RowTypes, Outcomes
  <2> QED BY <1>0, <1>2, <1>3, <1>5, <2>1 DEF TaskNamed, Kind
<1>16. CheckpointOK'
  BY <1>0, <1>1, <1>2 DEF CheckpointOK
<1>17. /\ supervisor'.step = "revert" /\ supervisor'.resume = supervisor.resume
       /\ supervisor' \in [step : Steps, resume : BOOLEAN]
  BY <1>0, StepIs DEF Steps
<1>18. UpdateTypes' /\ DiskOK' /\ ProcessOK' /\ SupervisorOK'
  BY <1>0, <1>1, <1>5, <1>17 DEF UpdateInv, UpdateTypes, DiskOK, ProcessOK, SupervisorOK
<1> QED BY <1>14, <1>15, <1>16, <1>18 DEF UpdateInv

-----------------------------------------------------------------------------
(* The invariant, and what it is for                                       *)

LEMMA UpdateInitHolds ==
  ASSUME UpdateInit
  PROVE  TaskInv /\ UpdateInv
<1>0. /\ row = [t \in Tasks |-> [kind |-> "probe", status |-> "none"]]
      /\ overdue = {} /\ nodeVersion = "old" /\ polls = {}
      /\ store = [tasks |-> [t \in Tasks |-> "none"], confirmed |-> {}, run |-> {},
                  previous |-> [t \in Tasks |-> "old"]]
      /\ taskAgent = [process |-> "running", version |-> "old"]
      /\ started = [t \in Tasks |-> 0]
      /\ disk = [binary |-> "old", updater |-> "old"]
      /\ files = [task |-> NoTask, staged |-> FALSE, checkpoint |-> "none", saved |-> store, marker |-> FALSE]
      /\ supervisor = [step |-> "idle", resume |-> FALSE]
      /\ works \in BOOLEAN
  BY DEF UpdateInit, TaskInit, NoFiles
<1>1. "none" \in AgentStatus /\ "none" \in Statuses /\ "old" \in Versions /\ "none" \notin Terminal
  BY DEF AgentStatus, Statuses, Versions, Terminal
<1>2. store \in AgentStore
  BY <1>0, <1>1 DEF AgentStore
<1>3. taskAgent \in [process : Processes, version : Versions]
  BY <1>0, <1>1 DEF Processes
<1>4. TaskTypes
  BY <1>0, <1>1, <1>2, <1>3 DEF TaskTypes
<1>5. \A t \in Tasks : row[t].status = "none" /\ store.tasks[t] = "none" /\ started[t] = 0
  BY <1>0
<1>6. Rows
  BY <1>0, <1>5 DEF Rows
<1>7. Records(row, store) /\ \A t \in Tasks : Agrees(row, store, t)
  BY <1>0, <1>5 DEF Records, Agrees, Open
<1>8. StartedOnce /\ PollsSound
  BY <1>0, <1>5 DEF StartedOnce, NotStarted, PollsSound
<1>9. Unconfirmed = {} /\ NoTask \notin Tasks
  BY <1>5 DEF Unconfirmed, Handled, Tasks, NoTask
<1>10. files \in UpdateFiles
  BY <1>0, <1>2 DEF UpdateFiles
<1>11. UpdateTypes
  BY <1>0, <1>1, <1>10 DEF UpdateTypes, Steps
<1>12. files.task = NoTask /\ ~files.staged /\ files.checkpoint = "none" /\ ~files.marker
  BY <1>0
<1>13. Phase = "none"
  BY <1>9 DEF Phase
<1>14. TaskNamed /\ CheckpointOK
  BY <1>5, <1>9, <1>12 DEF TaskNamed, CheckpointOK
<1>15. ProcessOK /\ DiskOK /\ SupervisorOK
  BY <1>0, <1>12, <1>13 DEF ProcessOK, DiskOK, SupervisorOK, Held
<1> QED BY <1>4, <1>6, <1>7, <1>8, <1>11, <1>14, <1>15 DEF TaskInv, UpdateInv

LEMMA UpdateStutters ==
  ASSUME TaskInv, UpdateInv, UNCHANGED agentUpdateVars
  PROVE  TaskInv' /\ UpdateInv'
<1>0. /\ TaskTypes /\ UpdateTypes /\ TasksStill /\ ProcessMoves
      /\ UNCHANGED <<store, taskAgent, disk, files, supervisor, works>>
  BY DEF TaskInv, UpdateInv, agentUpdateVars, taskVars, updateVars, TasksStill, ProcessMoves
<1>1. TaskInv'
  BY <1>0, QuietKeeps
<1>2. TaskNamed' /\ CheckpointOK' /\ Phase' = Phase
  BY <1>0, FilesNamed DEF TasksStill
<1> QED BY <1>0, <1>1, <1>2 DEF UpdateInv, UpdateTypes, ProcessOK, DiskOK, SupervisorOK, Held, TasksStill

LEMMA UpdateStep ==
  ASSUME TaskInv, UpdateInv, [UpdateNext]_agentUpdateVars
  PROVE  TaskInv' /\ UpdateInv'
<1>1. CASE (CenterNext \/ AgentNext \/ StopProcess) /\ UNCHANGED updateVars
  BY <1>1, TasksKeep
<1>2. ASSUME NEW u \in Pending, BeginUpdate(u) \/ Stage(u) \/ MarkInstalling(u) \/ FailUpdate(u)
      PROVE  TaskInv' /\ UpdateInv'
  BY <1>2, BeginUpdateKeeps, StageKeeps, MarkInstallingKeeps, FailUpdateKeeps
<1>3. CASE TriggerSupervisor
  BY <1>3, TriggerSupervisorKeeps
<1>4. CASE StartProcess
  BY <1>4, StartProcessKeeps
<1>5. ASSUME NEW q \in polls, HealthAnswer(q) PROVE TaskInv' /\ UpdateInv'
  BY <1>5, HealthAnswerKeeps
<1>6. CASE CommitHealth
  BY <1>6, CommitHealthKeeps
<1>7. CASE WriteHealthMarker
  BY <1>7, WriteHealthMarkerKeeps
<1>8. CASE StopAgent
  BY <1>8, StopAgentKeeps
<1>9. CASE ReadPendingUpdate
  BY <1>9, ReadPendingUpdateKeeps
<1>10. CASE EnsureCheckpoint
  BY <1>10, EnsureCheckpointKeeps
<1>11. CASE ReplaceBinary
  BY <1>11, ReplaceBinaryKeeps
<1>12. CASE MarkRestarting
  BY <1>12, MarkRestartingKeeps
<1>13. CASE StartNewAgent
  BY <1>13, StartNewAgentKeeps
<1>14. CASE SeeHealthMarker \/ HealthTimeout
  BY <1>14, WaitEndKeeps
<1>15. CASE RefreshUpdater
  BY <1>15, RefreshUpdaterKeeps
<1>16. CASE RestoreState
  BY <1>16, RestoreStateKeeps
<1>17. CASE RestoreBinary
  BY <1>17, RestoreBinaryKeeps
<1>18. CASE RollBack
  BY <1>18, RollBackKeeps
<1>19. CASE RemoveCheckpoint
  BY <1>19, RemoveCheckpointKeeps
<1>20. CASE RemoveFiles
  BY <1>20, RemoveFilesKeeps
<1>21. CASE Reboot
  BY <1>21, RebootKeeps
<1>22. CASE UNCHANGED agentUpdateVars
  BY <1>22, UpdateStutters
<1>23. CASE ManageUpdate
  BY <1>2, <1>3, <1>23 DEF ManageUpdate
<1>24. CASE Commit
  BY <1>5, <1>6, <1>7, <1>24 DEF Commit
<1>25. CASE Supervise
  BY <1>8, <1>9, <1>10, <1>11, <1>12, <1>13, <1>14, <1>15, <1>16, <1>17, <1>18, <1>19, <1>20, <1>25
     DEF Supervise
<1> QED BY <1>1, <1>4, <1>21, <1>22, <1>23, <1>24, <1>25 DEF UpdateNext

\* Every reachable state of an Agent, its Center and its update: the records of both
\* sides, the polls on their way, the files on disk and the steps of both processes fit
\* together, whatever was lost, repeated, late or interrupted.
THEOREM UpdateInvariant == UpdateSpec => [](TaskInv /\ UpdateInv)
<1>1. UpdateInit => TaskInv /\ UpdateInv
  BY UpdateInitHolds
<1>2. (TaskInv /\ UpdateInv) /\ [UpdateNext]_agentUpdateVars => (TaskInv /\ UpdateInv)'
  BY UpdateStep
<1> QED BY <1>1, <1>2, PTL DEF UpdateSpec

\* What the Agent recorded of a task is typed and belongs to its active run, at most one
\* record waits for the Center's confirmation (with two, the Agent neither polls nor
\* opens its store), and a delivered task is run once: deliverAgentTask repeats the task
\* with every poll, and AcceptTask of src/internal/agent/probe/manager.go must not start
\* it again, even after a rollback took the record of it away.
THEOREM TasksRunOnce == UpdateSpec => []TaskOnce
<1>1. ASSUME TaskInv, UpdateInv PROVE TaskOnce
  <2>0. TaskTypes /\ UpdateTypes /\ Records(row, store) /\ Rows
    BY <1>1 DEF TaskInv, UpdateInv
  <2>1. UpdateTypeOK
    <3>1. store.run \ {Scheduled} = {t \in Tasks : store.tasks[t] = "running"}
      <4>1. Scheduled \notin Tasks
        BY DEF Scheduled, Tasks
      <4> QED BY <2>0, <4>1 DEF Records, TaskTypes, AgentStore
    <3>2. store.tasks \in [Tasks -> AgentStatus]
      BY <2>0 DEF TaskTypes, AgentStore
    <3> QED BY <2>0, <3>1, <3>2
        DEF UpdateTypeOK, TaskTypes, UpdateTypes, UpdateFiles, AgentStore, AgentStatus, Processes
  <2>2. OneUnconfirmed
    <3>1. CASE Unconfirmed = {}
      BY <3>1, FS_EmptySet DEF OneUnconfirmed
    <3>2. CASE Unconfirmed # {}
      <4>1. PICK t \in Unconfirmed : TRUE
        BY <3>2
      <4>2. Unconfirmed = {t}
        BY <2>0, OneIsOpen
      <4> QED BY <4>2, FS_Singleton DEF OneUnconfirmed
    <3> QED BY <3>1, <3>2
  <2>3. RunOnce
    BY <2>0 DEF Rows, RunOnce
  <2> QED BY <2>1, <2>2, <2>3 DEF TaskOnce
<1> QED BY <1>1, UpdateInvariant, PTL

\* Center and Agent end a task with the same outcome, also when a rollback restored the
\* Agent's records of an earlier time (restoreCheckpoint of
\* src/internal/agent/update/supervisor.go) or a poll the Agent gave up is applied late
\* (applyProbeControlReport): except for a task that expired at the Center, and an update
\* that was rolled back after the Agent had committed it.
THEOREM OutcomesAlwaysAgree == UpdateSpec => []OutcomesAgree
<1>1. ASSUME TaskInv, UpdateInv PROVE OutcomesAgree
  <2> SUFFICES ASSUME NEW t \in Tasks, row[t].status \in Terminal \ {"expired"}, store.tasks[t] \in Terminal
               PROVE  row[t].status = store.tasks[t] \/ Overruled(t)
    BY DEF OutcomesAgree
  <2>1. Agrees(row, store, t)
    BY <1>1 DEF TaskInv
  <2>2. store.tasks[t] # "none"
    BY DEF Terminal
  <2> QED BY <2>1, <2>2 DEF Agrees, Overruled, Kind
<1> QED BY <1>1, UpdateInvariant, PTL

\* Wherever the Agent, its supervisor (src/internal/agent/update/supervisor.go) or both
\* are cut off, by a reboot or an error, what is on disk lets the update be carried on or
\* taken back: a complete checkpoint while the new binary is not known to work, an Agent
\* that can start whenever the supervisor does not hold it, a supervisor that works.
THEOREM UpdatesRecoverable == UpdateSpec => []UpdateRecoverable
<1>1. ASSUME TaskInv, UpdateInv PROVE UpdateRecoverable
  <2>0. /\ TaskTypes /\ UpdateTypes /\ TaskNamed /\ DiskOK /\ CheckpointOK /\ Records(row, store)
    BY <1>1 DEF TaskInv, UpdateInv
  <2>1. CanRollBack
    <3> SUFFICES ASSUME disk.binary = "new", Is("installing") \/ Is("restarting")
                 PROVE  /\ files.checkpoint = "complete"
                        /\ \A u \in Pending : files.saved.tasks[u] = "installing"
      BY DEF CanRollBack
    <3>1. Phase \in {"installing", "restarting"}
      BY <2>0, IsPhase
    <3>2. files.checkpoint = "complete"
      BY <2>0, <3>1 DEF DiskOK
    <3>3. files.task \in Unconfirmed
      BY <3>1 DEF Phase
    <3>4. \A u \in Pending : u = files.task
      BY <2>0, <3>3, OneIsOpen DEF Pending
    <3> QED BY <2>0, <3>2, <3>4 DEF CheckpointOK
  <2>2. Startable
    BY <2>0, EntryIs DEF Startable
  <2>3. UpdaterWorks
    BY <2>0 DEF DiskOK, UpdaterWorks
  <2> QED BY <2>1, <2>2, <2>3 DEF UpdateRecoverable
<1> QED BY <1>1, UpdateInvariant, PTL

=============================================================================
