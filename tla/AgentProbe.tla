----------------------------- MODULE AgentProbe -----------------------------
(***************************************************************************)
(* The Agent process around the complete-probe store: the manager that     *)
(* starts and executes runs (src/internal/agent/probe/manager.go), the     *)
(* result directory, the uploader (src/internal/agent/probe_control.go),   *)
(* configuration changes, crashes, graceful stops and restarts.            *)
(*                                                                         *)
(* Store operations hold probeMu: one runs at a time.  Two of them touch   *)
(* the file system before or after their transaction, so they are several  *)
(* steps and a crash may separate them; LockFree keeps the others out.     *)
(***************************************************************************)
EXTENDS ProbeStore

CONSTANTS
    MaxRestarts,    \* bound: crashes, stop requests and lost files
    FilesMayBeLost  \* whether the disk may lose a stored result

ASSUME RestartAssumption == MaxRestarts \in Nat
ASSUME LossAssumption == FilesMayBeLost \in BOOLEAN

VARIABLES
    db,          \* committed content of the bbolt database
    files,       \* executions whose result file is in the result directory
    resultDir,   \* the result directory exists
    removing,    \* files (and an empty name) a committed operation still removes
    up,          \* the Agent process runs
    stopping,    \* its context is cancelled
    reconciled,  \* manager.Run got past its initial ReconcileProbeRun
    worker,      \* the goroutine of Manager.execute
    sent,        \* the artifact the uploader waits for an answer to
    issued,      \* runs started so far
    restarts     \* bounded events so far

vars == <<db, files, resultDir, removing, up, stopping, reconciled, worker, sent,
          issued, restarts>>

IdleWorker == [pc |-> "idle", run |-> 0, left |-> {}, target |-> "-"]
Nothing == [names |-> {}, empty |-> FALSE]

Init ==
    /\ db = EmptyStore
    /\ files = {}
    /\ resultDir = TRUE
    /\ removing = Nothing
    /\ up = TRUE
    /\ stopping = FALSE
    /\ reconciled = FALSE
    /\ worker = IdleWorker
    /\ sent = NoArtifact
    /\ issued = 0
    /\ restarts = 0

\* probeMu is free: no operation is between its transaction and its files.
LockFree == removing = Nothing /\ worker.pc # "commit"

\* The files an operation deletes once it has dropped the executions of D.  The
\* code collects ResultFile of each of them, "" for those that have none.
FaultyObsolete(st, D) == Nothing                              \* leaves the files

Obsolete(st, D) ==
    [names |-> {x \in D : Exec(st, x).file}, empty |-> \E x \in D : ~Exec(st, x).file]

\* An error sent to manager.errors, or returned by another worker, ends the process.
Fail == worker' = IdleWorker /\ stopping' = TRUE

-----------------------------------------------------------------------------
(* The probe manager                                                       *)

\* tryStart: the schedule, or a task from the control loop, which does not wait
\* for the initial reconciliation.
StartProbeRun(S) ==
    /\ up /\ LockFree
    /\ worker.pc = "idle"
    /\ db.active = 0
    /\ issued < MaxRuns
    /\ issued' = issued + 1
    /\ db' = StartRun(db, issued + 1, S)
    /\ worker' = [pc |-> "next", run |-> issued + 1, left |-> S, target |-> "-"]
    /\ UNCHANGED <<files, resultDir, removing, up, stopping, reconciled, sent, restarts>>

FaultyReconcile == UNCHANGED <<db, removing>>                 \* leaves the run open

Reconcile ==
    IF db.active = 0
    THEN UNCHANGED <<db, removing>>
    ELSE /\ db' = ReconcileRun(db)
         /\ removing' =
              IF IsCurrent(db, db.active)
              THEN LET closed == CloseOpenExecutions(db, db.active)
                   IN  Obsolete(closed, OverLimit(closed, OpenTargets(db, db.active)))
              ELSE Nothing

\* Manager.Run, first statement.
ReconcileProbeRun ==
    /\ up /\ ~reconciled /\ LockFree
    /\ Reconcile
    /\ reconciled' = TRUE
    /\ UNCHANGED <<files, resultDir, up, stopping, worker, sent, issued, restarts>>

\* execute, when its context is cancelled between two executions.
AbandonRun ==
    /\ up /\ LockFree /\ stopping
    /\ worker.pc = "next" /\ worker.left # {}
    /\ Reconcile
    /\ worker' = IdleWorker
    /\ UNCHANGED <<files, resultDir, up, stopping, reconciled, sent, issued, restarts>>

StartProbeExecution(t) ==
    /\ up /\ LockFree /\ ~stopping
    /\ worker.pc = "next" /\ t \in worker.left
    /\ \/ /\ db.active = worker.run /\ db.execs[worker.run][t].status = "pending"
          /\ db' = BeginExecution(db, worker.run, t)
          /\ worker' = [worker EXCEPT !.pc = "probing", !.left = @ \ {t}, !.target = t]
          /\ UNCHANGED stopping
       \/ /\ db.active # worker.run      \* ErrInvalidProbeState
          /\ Fail /\ UNCHANGED db
    /\ UNCHANGED <<files, resultDir, removing, up, reconciled, sent, issued, restarts>>

\* The guard of the Update in CompleteProbeExecution.
MayComplete ==
    /\ db.active = worker.run
    /\ db.execs[worker.run][worker.target].status \in {"pending", "running"}

\* CompleteProbeExecution once no file has to be written first.
Commit(outcome) ==
    LET closed == CloseExecution(db, worker.run, worker.target, outcome)
    IN  /\ db' = CompleteExecution(db, worker.run, worker.target, outcome)
        /\ removing' = IF IsCurrent(db, worker.run)
                       THEN Obsolete(closed, OverLimit(closed, {worker.target}))
                       ELSE Nothing
        /\ worker' = [worker EXCEPT !.pc = "next", !.target = "-"]

\* The runner returns: interrupted only after its context was cancelled.
RecordOutcome(outcome) ==
    /\ up /\ LockFree
    /\ worker.pc = "probing"
    /\ outcome \in {"succeeded", "failed", "interrupted"}
    /\ outcome = "interrupted" => stopping
    /\ outcome = "succeeded" => ~IsCurrent(db, worker.run)
    /\ MayComplete
    /\ Commit(outcome)
    /\ UNCHANGED <<files, resultDir, up, stopping, reconciled, sent, issued, restarts>>

\* The run was reconciled under the worker: the outcome is refused.
OutcomeRefused ==
    /\ up /\ LockFree
    /\ worker.pc = "probing"
    /\ ~MayComplete
    /\ Fail
    /\ UNCHANGED <<db, files, resultDir, removing, up, reconciled, sent, issued, restarts>>

\* A successful outcome of a current run: the file is published first, under the
\* lock.  Without the directory writeProbeResult fails and so does the manager.
WriteProbeResult ==
    /\ up /\ LockFree
    /\ worker.pc = "probing" /\ IsCurrent(db, worker.run) /\ MayComplete
    /\ \/ /\ resultDir
          /\ files' = files \cup {<<worker.run, worker.target>>}
          /\ worker' = [worker EXCEPT !.pc = "commit"]
          /\ UNCHANGED stopping
       \/ /\ ~resultDir
          /\ Fail /\ UNCHANGED files
    /\ UNCHANGED <<db, resultDir, removing, up, reconciled, sent, issued, restarts>>

CommitProbeResult ==
    /\ up /\ worker.pc = "commit"
    /\ Commit("succeeded")
    /\ UNCHANGED <<files, resultDir, up, stopping, reconciled, sent, issued, restarts>>

\* os.Remove of each collected name, in the order of eviction.  Joined to the
\* directory the empty name is the directory itself, removed when it is empty.
RemoveObsolete ==
    /\ up /\ removing # Nothing
    /\ files' = files \ removing.names
    /\ resultDir' \in IF ~removing.empty \/ files' # {} THEN {resultDir}
                      ELSE IF removing.names = {} THEN {FALSE} ELSE BOOLEAN
    /\ removing' = Nothing
    /\ UNCHANGED <<db, up, stopping, reconciled, worker, sent, issued, restarts>>

FinishProbeRun ==
    /\ up /\ LockFree
    /\ worker.pc = "next" /\ worker.left = {}
    /\ \/ /\ db.active = worker.run
          /\ db' = FinishRun(db, worker.run)
          /\ worker' = IdleWorker
          /\ UNCHANGED stopping
       \/ /\ db.active # worker.run
          /\ Fail /\ UNCHANGED db
    /\ UNCHANGED <<files, resultDir, removing, up, reconciled, sent, issued, restarts>>

-----------------------------------------------------------------------------
(* Configuration, uploads, and the life of the process                     *)

\* ApplyConfiguration with a new history generation.  Unreferenced files are
\* removed after the commit; a missing directory makes that fail, and no more.
ApplyConfiguration(g) ==
    /\ up /\ LockFree
    /\ g # db.gen
    /\ db' = ChangeGeneration(db, g)
    /\ removing' = [names |-> IF resultDir THEN files \ Referenced(db') ELSE {}, empty |-> FALSE]
    /\ UNCHANGED <<files, resultDir, up, stopping, reconciled, worker, sent, issued, restarts>>

\* A queued execution that names a file is uploaded with the content of the file.
Readable(k) == k.kind = "execution" /\ Exec(db, <<k.run, k.target>>).file
                 => <<k.run, k.target>> \in files

\* uploadNextProbeArtifact: the cursor's first key.  Keys are random UUIDs, so it
\* may be any queued one.
NextProbeArtifact(k) ==
    /\ up /\ LockFree
    /\ sent = NoArtifact
    /\ k \in QueuedKeys(db) /\ Readable(k)
    /\ sent' = Artifact(db, k)
    /\ UNCHANGED <<db, files, resultDir, removing, up, stopping, reconciled, worker,
                   issued, restarts>>

\* The receipt repeats the artifact's id and revision.
AcknowledgeProbeArtifact ==
    /\ up /\ LockFree
    /\ sent # NoArtifact
    /\ db' = Acknowledge(db, sent, sent.rev)
    /\ removing' = [names |-> IF sent.kind = "execution" /\ ~Superseded(db, sent, sent.rev)
                              THEN {<<sent.run, sent.target>>} \cap Referenced(db) ELSE {},
                    empty |-> FALSE]
    /\ sent' = NoArtifact
    /\ UNCHANGED <<files, resultDir, up, stopping, reconciled, worker, issued, restarts>>

\* Lost request, lost response or a retryable answer: the queue is left alone.
UploadFails ==
    /\ up /\ sent # NoArtifact
    /\ sent' = NoArtifact
    /\ UNCHANGED <<db, files, resultDir, removing, up, stopping, reconciled, worker,
                   issued, restarts>>

\* An artifact the Center calls invalid, or a receipt for another one, is a local
\* error of the uploader: the process ends.
UploadRefused ==
    /\ up /\ sent # NoArtifact
    /\ sent' = NoArtifact
    /\ stopping' = TRUE
    /\ UNCHANGED <<db, files, resultDir, removing, up, reconciled, worker, issued, restarts>>

ProcessGone ==
    /\ up' = FALSE
    /\ stopping' = FALSE
    /\ reconciled' = FALSE
    /\ worker' = IdleWorker
    /\ sent' = NoArtifact
    /\ removing' = Nothing

Crash ==
    /\ up
    /\ restarts < MaxRestarts /\ restarts' = restarts + 1
    /\ ProcessGone
    /\ UNCHANGED <<db, files, resultDir, issued>>

\* SIGTERM, an update, or the failure of another worker of the process.
RequestStop ==
    /\ up /\ ~stopping
    /\ restarts < MaxRestarts /\ restarts' = restarts + 1
    /\ stopping' = TRUE
    /\ UNCHANGED <<db, files, resultDir, removing, up, reconciled, worker, sent, issued>>

\* workers.Wait holds the process until manager.Run and execute have returned.  (A
\* stop before the workers are started leaves what Crash leaves.)
Stop ==
    /\ up /\ stopping /\ LockFree
    /\ reconciled /\ worker.pc = "idle"
    /\ ProcessGone
    /\ UNCHANGED <<db, files, resultDir, issued, restarts>>

\* A stored result damaged or deleted on disk while the Agent is down.
LoseResultFile(x) ==
    /\ FilesMayBeLost /\ ~up /\ x \in files
    /\ restarts < MaxRestarts /\ restarts' = restarts + 1
    /\ files' = files \ {x}
    /\ UNCHANGED <<db, resultDir, removing, up, stopping, reconciled, worker, sent, issued>>

\* validateProbeControlState: Open refuses a store that breaks it.
ValidControlState(st) == st.active # 0 => st.runs[st.active].status = "running"

Open ==
    /\ ~up
    /\ ValidControlState(db)
    /\ up' = TRUE
    /\ resultDir' = TRUE
    /\ db' = ReconcileArtifacts(db, files)
    /\ removing' = [names |-> files \ Referenced(db'), empty |-> FALSE]
    /\ UNCHANGED <<files, stopping, reconciled, worker, sent, issued, restarts>>

-----------------------------------------------------------------------------

Execute ==
    \/ \E t \in Targets : StartProbeExecution(t)
    \/ \E outcome \in TerminalStatus : RecordOutcome(outcome)
    \/ OutcomeRefused
    \/ WriteProbeResult
    \/ CommitProbeResult
    \/ FinishProbeRun
    \/ AbandonRun

\* What the Agent does on its own.
Local ==
    \/ \E S \in (SUBSET Targets) \ {{}} : StartProbeRun(S)
    \/ ReconcileProbeRun
    \/ Execute
    \/ RemoveObsolete
    \/ \E k \in QueuedKeys(db) : NextProbeArtifact(k)
    \/ UploadFails
    \/ Crash
    \/ RequestStop
    \/ Stop
    \/ \E x \in files : LoseResultFile(x)
    \/ Open

\* What it does on an answer of the Center.
Next ==
    \/ Local
    \/ \E g \in Generation : g > db.gen /\ ApplyConfiguration(g)
    \/ AcknowledgeProbeArtifact
    \/ UploadRefused

Spec == Init /\ [][Next]_vars

-----------------------------------------------------------------------------
(* Properties                                                              *)

ArtifactRecord ==
    [kind : {"none", "run", "execution", "gap"}, run : RunId \cup {0},
     target : Targets \cup {"-"}, rev : Nat, runRecord : RunRecord,
     manifest : [Targets -> Nat],
     status : {"none", "pending", "running"} \cup TerminalStatus, gap : GapRecord]

\* Every variable keeps the shape the code gives it.
TypeOK ==
    /\ db \in Store
    /\ files \subseteq AllExecutions
    /\ resultDir \in BOOLEAN
    /\ removing \in [names : SUBSET AllExecutions, empty : BOOLEAN]
    /\ up \in BOOLEAN /\ stopping \in BOOLEAN /\ reconciled \in BOOLEAN
    /\ worker \in [pc : {"idle", "next", "probing", "commit"}, run : RunId \cup {0},
                   left : SUBSET Targets, target : Targets \cup {"-"}]
    /\ sent \in ArtifactRecord
    /\ issued \in 0 .. MaxRuns
    /\ restarts \in 0 .. MaxRestarts

\* At every instant a crash may strike, the store is one Open accepts: the active
\* pointer names the one run that is still running, whose executions alone may be
\* open (validateProbeControlState would otherwise refuse to start the Agent).
OpenSucceeds ==
    \A r \in RunId :
        /\ db.runs[r].status = "running" <=> (r = db.active)
        /\ \A t \in Targets : db.execs[r][t].status \in {"pending", "running"} => r = db.active

\* Whatever the uploader picks next can be decoded and read: the run it belongs to
\* and its own record exist at the queued revision, and a result file it names is on
\* disk.  NextProbeArtifact turns anything else into a fatal local error.
QueueReadable ==
    /\ \A r \in RunId : db.runQ[r] # 0 => db.runs[r].rev = db.runQ[r]
    /\ \A x \in AllExecutions :
         db.execQ[x[1]][x[2]] # 0 =>
             /\ x[2] \in db.runs[x[1]].targets
             /\ Exec(db, x).rev = db.execQ[x[1]][x[2]]
             /\ up /\ Exec(db, x).file => x \in files
    /\ \A t \in Targets : db.gapQ[t] = db.gaps[t].rev

\* After a history reset nothing of the old generation is left to upload, even when
\* a run of it is still executing.
NoStaleArtifact ==
    /\ \A r \in RunId : (db.runQ[r] # 0 \/ \E t \in Targets : db.execQ[r][t] # 0)
                           => db.runs[r].gen = db.gen
    /\ \A t \in Targets : db.gapQ[t] # 0 => db.gaps[t].gen = db.gen

\* OPERATOR_GUIDE.en.md:264: at most MaxPending complete results wait per public IP.
PendingBounded == \A t \in Targets : Cardinality(Pending(db, t)) <= MaxPending

\* No result file outlives its record: when no operation is under way, every file
\* in the directory is named by an execution record.
NoOrphanFile == (up /\ LockFree) => files \subseteq Referenced(db)

\* A receipt never runs ahead of the queue (AcknowledgeProbeArtifact refuses it with
\* an error that ends the Agent).
ReceiptNotAhead ==
    sent # NoArtifact => QueuedRevision(db, sent) = 0 \/ QueuedRevision(db, sent) >= sent.rev

\* A sequence names one execution of a target and a generation for good: no two
\* records share it, none is ahead of the counter, and a gap ends before it too.
SequencesUnique ==
    \A t \in Targets :
        /\ \A r \in RunId : db.runs[r].gen = db.gen =>
              /\ db.execs[r][t].seq <= db.seqs[t]
              /\ \A q \in RunId : q # r /\ db.runs[q].gen = db.gen /\ db.execs[q][t].seq # 0
                                     => db.execs[q][t].seq # db.execs[r][t].seq
        /\ db.gaps[t].last <= db.seqs[t]
        /\ db.gaps[t].count <= db.gaps[t].last - db.gaps[t].first + 1

\* An eviction never drops a newer result to keep an older one: when the gap of a
\* target grows, what leaves the queue, or is closed without entering it, is older
\* than every result that stays.
OldestEvictedFirst ==
    [][\A t \in Targets :
          up /\ up' /\ db.gaps[t].rev < db'.gaps[t].rev =>
             LET left == {r \in RunId :
                            /\ db.execQ[r][t] # 0 \/ db.execs[r][t].status = "pending"
                            /\ db'.execQ[r][t] = 0 /\ db'.execs[r][t].status # "pending"}
             IN  \A r \in left : \A q \in Pending(db', t) :
                    db.execs[r][t].seq < db'.execs[q][t].seq]_vars

\* An outcome is final: a terminal execution keeps its status and sequence, a closed
\* run its status, as long as the record exists (the Center compares retransmissions
\* with what it stored, sameTerminalExecution).
OutcomesFinal ==
    [][\A r \in RunId :
        /\ db.runs[r].status \in FinalRunStatus /\ db'.runs[r].status # "none"
              => db'.runs[r] = db.runs[r]
        /\ \A t \in Targets :
              Terminal(db.execs[r][t]) /\ db'.execs[r][t].status # "none"
                 => /\ db'.execs[r][t].status = db.execs[r][t].status
                    /\ db'.execs[r][t].rev = db.execs[r][t].rev]_vars

\* A run that started comes to an end, through crashes, stops and resets, so the
\* Agent's only probe slot is never held for ever.
RunEnds == \A r \in RunId : (db.active = r) ~> (db.active # r)

\* OPERATOR_GUIDE.en.md:264-267: a complete result is retained, or evicted into an
\* explicit gap.  A running Agent must then have somewhere to write it.
ResultStorable == up => resultDir
=============================================================================
