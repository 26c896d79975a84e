-------------------------- MODULE AgentProbe_proofs --------------------------
(***************************************************************************)
(* Theorems about the Agent's complete-probe process, for every set of     *)
(* targets and every bound: its variables keep their types, the store is   *)
(* at every instant one that Open accepts, and what runs, evictions,       *)
(* resets, uploads, stops, crashes and lost files leave of the queue, of   *)
(* the result directory and of the artifact in flight is consistent        *)
(* (ProbeInv), from which the safety properties of AgentProbe follow.      *)
(* StoreInv says what else a store is while no result is lost on disk.     *)
(***************************************************************************)
EXTENDS AgentProbe, ProbeQueue_proofs

-----------------------------------------------------------------------------
(* Type correctness                                                        *)

\* What the sent artifact and the worker name exists.
Named ==
    /\ sent # NoArtifact => NamedKey(sent)
    /\ worker.pc # "idle" => worker.run \in RunId
    /\ worker.pc \in {"probing", "commit"} => worker.target \in Targets

TypeInv == TypeOK /\ Named

\* What stands for no artifact is typed as one.
LEMMA NoArtifactType == NoArtifact \in ArtifactRecord
BY DEF NoArtifact, ArtifactRecord, NoRun, RunRecord, NoGap, GapRecord, FinalRunStatus

\* NextProbeArtifact reads a well-formed artifact for every queued key.
LEMMA ArtifactType ==
  ASSUME NEW st \in Store, NEW k \in QueuedKeys(st)
  PROVE  Artifact(st, k) \in ArtifactRecord /\ NamedKey(Artifact(st, k))
<1>1. \A r \in RunId, t \in Targets :
         /\ st.execs[r][t] \in ExecRecord /\ st.execQ[r][t] \in Nat
         /\ st.runQ[r] \in Nat /\ st.runs[r] \in RunRecord
         /\ st.gaps[t] \in GapRecord /\ st.gapQ[t] \in Nat
  BY DEF Store
<1>2. NoRun \in RunRecord /\ NoGap \in GapRecord
  BY DEF NoRun, RunRecord, NoGap, GapRecord, FinalRunStatus
<1>3. \A r \in RunId : st.runs[r] \in RunRecord /\ st.runQ[r] \in Nat
  BY DEF Store
<1>4. \A r \in RunId : [t \in Targets |-> st.execs[r][t].seq] \in [Targets -> Nat]
  BY <1>1 DEF ExecRecord
<1>5. CASE k.kind = "run"
  <2>1. k.run \in RunId /\ k.target = "-"
    BY <1>5 DEF QueuedKeys
  <2> DEFINE manifest == [t \in Targets |-> st.execs[k.run][t].seq]
  <2>2. Artifact(st, k) = [kind |-> "run", run |-> k.run, target |-> "-", rev |-> st.runQ[k.run],
           runRecord |-> st.runs[k.run], manifest |-> manifest, status |-> "none", gap |-> NoGap]
    BY <1>5, <2>1 DEF Artifact, QueuedRevision
  <2>3. manifest \in [Targets -> Nat]
    BY <1>4, <2>1
  <2> HIDE DEF manifest
  <2> QED BY <1>2, <1>3, <2>1, <2>2, <2>3 DEF ArtifactRecord, NamedKey
<1>6. CASE k.kind = "execution"
  <2>1. k.run \in RunId /\ k.target \in Targets
    BY <1>6 DEF QueuedKeys, AllExecutions
  <2> DEFINE manifest == [t \in Targets |-> st.execs[k.run][t].seq]
             status == st.execs[k.run][k.target].status
  <2>2. Artifact(st, k) = [kind |-> "execution", run |-> k.run, target |-> k.target,
           rev |-> st.execQ[k.run][k.target], runRecord |-> st.runs[k.run],
           manifest |-> manifest, status |-> status, gap |-> NoGap]
    BY <1>6 DEF Artifact, QueuedRevision
  <2>3. manifest \in [Targets -> Nat]
    BY <1>4, <2>1
  <2>4. status \in {"none", "pending", "running"} \cup TerminalStatus
    BY <1>1, <2>1 DEF ExecRecord
  <2> HIDE DEF manifest, status
  <2> QED BY <1>1, <1>2, <1>3, <2>1, <2>2, <2>3, <2>4 DEF ArtifactRecord, NamedKey
<1>7. CASE k.kind = "gap"
  <2>1. k.target \in Targets /\ k.run = st.gaps[k.target].id
    BY <1>7 DEF QueuedKeys
  <2> DEFINE manifest == [t \in Targets |-> 0]
  <2>2. Artifact(st, k) = [kind |-> "gap", run |-> k.run, target |-> k.target,
           rev |-> st.gapQ[k.target], runRecord |-> NoRun, manifest |-> manifest,
           status |-> "none", gap |-> st.gaps[k.target]]
    BY <1>7, <2>1 DEF Artifact, QueuedRevision
  <2>3. manifest \in [Targets -> Nat]
    OBVIOUS
  <2>4. st.gapQ[k.target] \in Nat /\ st.gaps[k.target] \in GapRecord
    BY <2>1 DEF Store
  <2>5. k.run \in RunId \cup {0}
    BY <2>1, <2>4 DEF GapRecord
  <2> HIDE DEF manifest
  <2> QED BY <1>2, <2>1, <2>2, <2>3, <2>4, <2>5 DEF ArtifactRecord, NamedKey
<1> QED BY <1>5, <1>6, <1>7 DEF QueuedKeys

\* The names a transaction collects for removal are names of results.
LEMMA ObsoleteType ==
  ASSUME NEW st, NEW D \in SUBSET AllExecutions
  PROVE  Obsolete(st, D) \in [names : SUBSET AllExecutions, empty : BOOLEAN]
BY DEF Obsolete

\* The evicted executions are executions.
LEMMA OverLimitType ==
  ASSUME NEW st, NEW T \in SUBSET Targets
  PROVE  OverLimit(st, T) \in SUBSET AllExecutions
BY DEF OverLimit, AllExecutions

\* The initial ReconcileProbeRun, and the one of a cancelled execute.
LEMMA ReconcileStepType ==
  ASSUME TypeInv, Reconcile
  PROVE  db' \in Store /\ removing' \in [names : SUBSET AllExecutions, empty : BOOLEAN]
<1>1. CASE db.active = 0
  BY <1>1 DEF TypeInv, TypeOK, Reconcile
<1>2. CASE db.active # 0
  <2> DEFINE closed == CloseOpenExecutions(db, db.active)
             open == OpenTargets(db, db.active)
  <2>1. db \in Store
    BY DEF TypeInv, TypeOK
  <2>2. db' = ReconcileRun(db)
    BY <1>2 DEF Reconcile
  <2>3. removing' = IF IsCurrent(db, db.active) THEN Obsolete(closed, OverLimit(closed, open))
                                                ELSE Nothing
    BY <1>2 DEF Reconcile
  <2>4. open \in SUBSET Targets
    <3>1. db.active \in RunId
      BY <1>2, <2>1 DEF Store
    <3> QED BY <2>1, <3>1 DEF Store, RunRecord, OpenTargets
  <2>5. Nothing \in [names : SUBSET AllExecutions, empty : BOOLEAN]
    BY DEF Nothing
  <2> HIDE DEF closed, open
  <2> QED BY <1>2, <2>1, <2>2, <2>3, <2>4, <2>5, ReconcileRunType, ObsoleteType, OverLimitType
<1> QED BY <1>1, <1>2

\* The transaction of CompleteProbeExecution.
LEMMA CommitStepType ==
  ASSUME TypeInv, worker.pc \in {"probing", "commit"}, NEW o \in TerminalStatus, Commit(o)
  PROVE  /\ db' \in Store
         /\ removing' \in [names : SUBSET AllExecutions, empty : BOOLEAN]
         /\ worker' \in [pc : {"idle", "next", "probing", "commit"}, run : RunId \cup {0},
                         left : SUBSET Targets, target : Targets \cup {"-"}]
         /\ worker'.pc = "next" /\ worker'.run = worker.run
<1>1. db \in Store /\ worker.run \in RunId /\ worker.target \in Targets
  BY DEF TypeInv, TypeOK, Named
<1>2. db' \in Store
  BY <1>1, CompleteExecutionType DEF Commit
<1>3. removing' \in [names : SUBSET AllExecutions, empty : BOOLEAN]
  <2> DEFINE closed == CloseExecution(db, worker.run, worker.target, o)
  <2>1. removing' = IF IsCurrent(db, worker.run)
                    THEN Obsolete(closed, OverLimit(closed, {worker.target})) ELSE Nothing
    BY DEF Commit
  <2>2. Nothing \in [names : SUBSET AllExecutions, empty : BOOLEAN]
    BY DEF Nothing
  <2>3. {worker.target} \in SUBSET Targets
    BY <1>1
  <2> HIDE DEF closed
  <2> QED BY <2>1, <2>2, <2>3, ObsoleteType, OverLimitType
<1>4. worker' = [worker EXCEPT !.pc = "next", !.target = "-"]
  BY DEF Commit
<1>5. worker \in [pc : {"idle", "next", "probing", "commit"}, run : RunId \cup {0},
                  left : SUBSET Targets, target : Targets \cup {"-"}]
  BY DEF TypeInv, TypeOK
<1> QED BY <1>2, <1>3, <1>4, <1>5, Zenon

\* Every step keeps the types.
LEMMA TypeStep == TypeInv /\ [Next]_vars => TypeInv'
<1> SUFFICES ASSUME TypeInv, [Next]_vars PROVE TypeInv'
  OBVIOUS
<1> USE DEF TypeInv
<1>1. ASSUME NEW S \in (SUBSET Targets) \ {{}}, StartProbeRun(S) PROVE TypeInv'
  <2>1. issued + 1 \in RunId /\ issued + 1 \in 0 .. MaxRuns
    BY <1>1, BoundAssumption DEF TypeOK, StartProbeRun, RunId
  <2>2. db' \in Store
    BY <1>1, <2>1, StartRunType DEF TypeOK, StartProbeRun
  <2>3. worker' = [pc |-> "next", run |-> issued + 1, left |-> S, target |-> "-"]
    BY <1>1 DEF StartProbeRun
  <2> QED BY <1>1, <2>1, <2>2, <2>3 DEF TypeOK, Named, StartProbeRun
<1>2. CASE ReconcileProbeRun
  BY <1>2, ReconcileStepType DEF TypeOK, Named, ReconcileProbeRun
<1>3. ASSUME NEW t \in Targets, StartProbeExecution(t) PROVE TypeInv'
  <2>1. CASE db' = BeginExecution(db, worker.run, t) /\
             worker' = [worker EXCEPT !.pc = "probing", !.left = @ \ {t}, !.target = t] /\
             UNCHANGED stopping
    <3>1. worker.run \in RunId
      BY <1>3 DEF Named, StartProbeExecution
    <3>2. db' \in Store
      BY <2>1, <3>1, BeginExecutionType DEF TypeOK
    <3>3. /\ worker' \in [pc : {"idle", "next", "probing", "commit"}, run : RunId \cup {0},
                           left : SUBSET Targets, target : Targets \cup {"-"}]
          /\ worker'.run = worker.run /\ worker'.target = t
      BY <2>1, Zenon DEF TypeOK
    <3> QED BY <1>3, <2>1, <3>1, <3>2, <3>3 DEF TypeOK, Named, StartProbeExecution
  <2>2. CASE Fail /\ UNCHANGED db
    BY <1>3, <2>2 DEF TypeOK, Named, StartProbeExecution, Fail, IdleWorker
  <2> QED BY <1>3, <2>1, <2>2 DEF StartProbeExecution
<1>4. ASSUME NEW o \in TerminalStatus, RecordOutcome(o) PROVE TypeInv'
  <2>1. Commit(o) /\ worker.pc \in {"probing", "commit"}
    BY <1>4 DEF RecordOutcome
  <2> QED BY <1>4, <2>1, CommitStepType DEF TypeOK, Named, RecordOutcome
<1>5. CASE OutcomeRefused
  BY <1>5 DEF TypeOK, Named, OutcomeRefused, Fail, IdleWorker
<1>6. CASE WriteProbeResult
  <2>1. <<worker.run, worker.target>> \in AllExecutions
    BY <1>6 DEF Named, WriteProbeResult, AllExecutions
  <2>2. CASE files' = files \cup {<<worker.run, worker.target>>} /\
             worker' = [worker EXCEPT !.pc = "commit"] /\ UNCHANGED stopping
    BY <1>6, <2>1, <2>2 DEF TypeOK, Named, WriteProbeResult
  <2>3. CASE Fail /\ UNCHANGED files
    BY <1>6, <2>3 DEF TypeOK, Named, WriteProbeResult, Fail, IdleWorker
  <2> QED BY <1>6, <2>2, <2>3 DEF WriteProbeResult
<1>7. CASE CommitProbeResult
  <2>1. Commit("succeeded") /\ worker.pc \in {"probing", "commit"} /\ "succeeded" \in TerminalStatus
    BY <1>7 DEF CommitProbeResult, TerminalStatus
  <2> QED BY <1>7, <2>1, CommitStepType DEF TypeOK, Named, CommitProbeResult
<1>8. CASE RemoveObsolete
  <2>1. removing' = Nothing /\ Nothing \in [names : SUBSET AllExecutions, empty : BOOLEAN]
    BY <1>8 DEF RemoveObsolete, Nothing
  <2>2. resultDir' \in BOOLEAN /\ files' \subseteq AllExecutions
    BY <1>8, Zenon DEF TypeOK, RemoveObsolete
  <2> QED BY <1>8, <2>1, <2>2 DEF TypeOK, Named, RemoveObsolete
<1>9. CASE FinishProbeRun
  <2>1. worker.run \in RunId
    BY <1>9 DEF Named, FinishProbeRun
  <2>2. db' \in Store
    BY <1>9, <2>1, FinishRunType DEF TypeOK, FinishProbeRun
  <2>3. worker' = IdleWorker /\ stopping' \in BOOLEAN
    BY <1>9, Zenon DEF TypeOK, FinishProbeRun, Fail
  <2> QED BY <1>9, <2>2, <2>3 DEF TypeOK, Named, FinishProbeRun, IdleWorker
<1>10. CASE AbandonRun
  BY <1>10, ReconcileStepType DEF TypeOK, Named, AbandonRun, IdleWorker
<1>11. ASSUME NEW g \in Generation, ApplyConfiguration(g) PROVE TypeInv'
  <2>1. db' \in Store
    BY <1>11, ChangeGenerationType DEF TypeOK, ApplyConfiguration
  <2>2. removing' \in [names : SUBSET AllExecutions, empty : BOOLEAN]
    BY <1>11 DEF TypeOK, ApplyConfiguration
  <2> QED BY <1>11, <2>1, <2>2 DEF TypeOK, Named, ApplyConfiguration
<1>12. ASSUME NEW k \in QueuedKeys(db), NextProbeArtifact(k) PROVE TypeInv'
  BY <1>12, ArtifactType DEF TypeOK, Named, NextProbeArtifact
<1>13. CASE AcknowledgeProbeArtifact
  <2>1. db' \in Store
    BY <1>13, AcknowledgeType DEF TypeOK, Named, AcknowledgeProbeArtifact
  <2>2. removing' \in [names : SUBSET AllExecutions, empty : BOOLEAN]
    <3> DEFINE names == IF sent.kind = "execution" /\ ~Superseded(db, sent, sent.rev)
                        THEN {<<sent.run, sent.target>>} \cap Referenced(db) ELSE {}
    <3>1. removing' = [names |-> names, empty |-> FALSE]
      BY <1>13 DEF AcknowledgeProbeArtifact
    <3>2. names \in SUBSET AllExecutions
      BY DEF Referenced
    <3> HIDE DEF names
    <3> QED BY <3>1, <3>2
  <2> QED BY <1>13, <2>1, <2>2, NoArtifactType DEF TypeOK, Named, AcknowledgeProbeArtifact
<1>14. CASE UploadFails
  BY <1>14, NoArtifactType DEF TypeOK, Named, UploadFails
<1>23. CASE UploadRefused
  BY <1>23, NoArtifactType DEF TypeOK, Named, UploadRefused
<1>15. ASSUME ProcessGone, db' = db, files' \subseteq AllExecutions, resultDir' = resultDir,
              issued' = issued, restarts' \in 0 .. MaxRestarts
       PROVE  TypeInv'
  BY <1>15, NoArtifactType, Zenon DEF TypeOK, Named, ProcessGone, IdleWorker, Nothing
<1>16. restarts < MaxRestarts => restarts + 1 \in 0 .. MaxRestarts
  BY RestartAssumption DEF TypeOK
<1>17. CASE Crash
  BY <1>15, <1>16, <1>17 DEF TypeOK, Crash
<1>18. CASE RequestStop
  BY <1>16, <1>18 DEF TypeOK, Named, RequestStop
<1>19. CASE Stop
  BY <1>15, <1>19 DEF TypeOK, Stop
<1>20. ASSUME NEW x \in files, LoseResultFile(x) PROVE TypeInv'
  BY <1>16, <1>20 DEF TypeOK, Named, LoseResultFile
<1>21. CASE Open
  <2>1. db' \in Store
    BY <1>21, DropExecutionsType DEF TypeOK, Open, ReconcileArtifacts
  <2>2. removing' \in [names : SUBSET AllExecutions, empty : BOOLEAN]
    BY <1>21 DEF TypeOK, Open
  <2> QED BY <1>21, <2>1, <2>2 DEF TypeOK, Named, Open
<1>22. CASE UNCHANGED vars
  BY <1>22 DEF TypeOK, Named, vars
<1> QED
  BY <1>1, <1>2, <1>3, <1>4, <1>5, <1>6, <1>7, <1>8, <1>9, <1>10, <1>11, <1>12, <1>13,
     <1>14, <1>17, <1>18, <1>19, <1>20, <1>21, <1>22, <1>23 DEF Next, Local, Execute

\* A new store has its types.
LEMMA TypeStart == Init => TypeInv
<1> SUFFICES ASSUME Init PROVE TypeInv
  OBVIOUS
<1>1. 0 \in 0 .. MaxRuns /\ 0 \in 0 .. MaxRestarts
  BY BoundAssumption, RestartAssumption
<1>2. /\ worker \in [pc : {"idle", "next", "probing", "commit"}, run : RunId \cup {0},
                     left : SUBSET Targets, target : Targets \cup {"-"}]
      /\ worker.pc = "idle"
  BY DEF Init, IdleWorker
<1>3. removing \in [names : SUBSET AllExecutions, empty : BOOLEAN]
  BY DEF Init, Nothing
<1> QED BY <1>1, <1>2, <1>3, EmptyStoreType, NoArtifactType, Zenon DEF Init, TypeInv, TypeOK, Named

\* Whatever the instance, the process and its store keep the shapes the code gives
\* them, and what the worker and the uploader hold names something that exists.
THEOREM TypeCorrect == Spec => [](TypeOK /\ Named)
<1>1. Init => TypeInv
  BY TypeStart
<1>2. TypeInv /\ [Next]_vars => TypeInv'
  BY TypeStep
<1> QED BY <1>1, <1>2, PTL DEF Spec, TypeInv

-----------------------------------------------------------------------------
(* The store is always one that Open accepts                               *)

\* OpenSucceeds of a store, with what FinishProbeRun needs of a manifest: an open
\* execution is one its run lists.
Consistent(st) ==
    \A r \in RunId :
        /\ st.runs[r].status = "running" <=> (r = st.active)
        /\ \A t \in Targets : IsOpen(st.execs[r][t]) => r = st.active /\ t \in st.runs[r].targets

\* A transaction that closes executions at most.
NoneOpened(st, new) ==
    \A r \in RunId, t \in Targets : IsOpen(new.execs[r][t]) => IsOpen(st.execs[r][t])

\* The executions still open in the worker's run are those it has left, and the one
\* it is probing.
WorkerHolds(st, w) ==
    w.pc # "idle" /\ st.active = w.run =>
        \A t \in Targets : IsOpen(st.execs[w.run][t]) =>
            t \in w.left \/ (w.pc \in {"probing", "commit"} /\ t = w.target)

RunInv == Consistent(db) /\ WorkerHolds(db, worker)

\* cleanupProbeRun deletes finished runs only.
LEMMA CleanupKeeps ==
  ASSUME NEW st \in Store, NEW R, Consistent(st)
  PROVE  /\ Consistent(Cleanup(st, R)) /\ NoneOpened(st, Cleanup(st, R))
         /\ Cleanup(st, R).active = st.active
<1> DEFINE gone(r) == /\ st.runs[r].status # "running"
                      /\ \A t \in st.runs[r].targets : st.execQ[r][t] = 0
           lossy(r) == \E t \in st.runs[r].targets : st.execs[r][t].evicted
           deleted == {r \in R : gone(r) /\ (lossy(r) \/ st.runQ[r] = 0)}
           new == Cleanup(st, R)
<1>1. /\ new.active = st.active
      /\ new.runs = [r \in RunId |-> IF r \in deleted THEN NoRun ELSE st.runs[r]]
      /\ new.execs = [r \in RunId |-> IF r \in deleted THEN [t \in Targets |-> NoExec]
                                                        ELSE st.execs[r]]
  BY DEF Cleanup, Store
<1>2. \A r \in deleted : st.runs[r].status # "running"
  OBVIOUS
<1>3. ~IsOpen(NoExec) /\ NoRun.status # "running"
  BY DEF IsOpen, NoExec, NoRun
<1> HIDE DEF new, deleted
<1>4. \A r \in RunId : \/ /\ new.runs[r] = st.runs[r]
                          /\ new.execs[r] = st.execs[r]
                       \/ /\ st.runs[r].status # "running"
                          /\ new.runs[r] = NoRun
                          /\ new.execs[r] = [t \in Targets |-> NoExec]
  BY <1>1, <1>2
<1>5. NoneOpened(st, new)
  BY <1>3, <1>4 DEF NoneOpened
<1>6. Consistent(new)
  BY <1>1, <1>3, <1>4 DEF Consistent
<1> QED BY <1>1, <1>5, <1>6 DEF new

\* Eviction changes no status but that of the runs it deletes.
LEMMA DropKeeps ==
  ASSUME NEW st \in Store, NEW D, Consistent(st)
  PROVE  /\ Consistent(DropExecutions(st, D)) /\ NoneOpened(st, DropExecutions(st, D))
         /\ DropExecutions(st, D).active = st.active
<1> DEFINE runsOf(t) == {r \in RunId : <<r, t>> \in D}
           hit == {t \in Targets : runsOf(t) # {}}
           gaps == [t \in Targets |-> IF t \in hit THEN ExtendGap(st, t, runsOf(t))
                                                   ELSE st.gaps[t]]
           execs == [r \in RunId |-> [t \in Targets |->
                       IF <<r, t>> \in D
                       THEN [st.execs[r][t] EXCEPT !.file = FALSE, !.evicted = TRUE]
                       ELSE st.execs[r][t]]]
           dropped == [st EXCEPT
             !.execQ = [r \in RunId |-> [t \in Targets |->
                         IF <<r, t>> \in D THEN 0 ELSE st.execQ[r][t]]],
             !.execs = execs,
             !.gaps = gaps,
             !.gapQ = [t \in Targets |-> IF t \in hit THEN gaps[t].rev ELSE st.gapQ[t]]]
           R == {r \in RunId : \E t \in Targets : <<r, t>> \in D}
<1>1. DropExecutions(st, D) = Cleanup(dropped, R)
  BY DEF DropExecutions
<1>2. dropped \in Store
  BY DropStepType, Zenon
<1>3. dropped.active = st.active /\ dropped.runs = st.runs /\ dropped.execs = execs
  BY DEF Store
<1> HIDE DEF dropped
<1>4. \A r \in RunId, t \in Targets : dropped.execs[r][t].status = st.execs[r][t].status
  <2>1. \A r \in RunId, t \in Targets : st.execs[r][t] \in ExecRecord
    BY DEF Store
  <2>2. \A e \in ExecRecord : [e EXCEPT !.file = FALSE, !.evicted = TRUE].status = e.status
    BY DEF ExecRecord
  <2>3. \A r \in RunId, t \in Targets :
           execs[r][t] = st.execs[r][t] \/
           execs[r][t] = [st.execs[r][t] EXCEPT !.file = FALSE, !.evicted = TRUE]
    OBVIOUS
  <2> HIDE DEF execs
  <2>4. \A r \in RunId, t \in Targets : execs[r][t].status = st.execs[r][t].status
    BY <2>1, <2>2, <2>3, Zenon
  <2> QED BY <1>3, <2>4
<1>5. Consistent(dropped) /\ NoneOpened(st, dropped)
  BY <1>3, <1>4, Zenon DEF Consistent, NoneOpened, IsOpen
<1> HIDE DEF R
<1>6. /\ Consistent(Cleanup(dropped, R)) /\ NoneOpened(dropped, Cleanup(dropped, R))
      /\ Cleanup(dropped, R).active = dropped.active
  BY <1>2, <1>5, CleanupKeeps
<1>7. NoneOpened(st, Cleanup(dropped, R))
  BY <1>5, <1>6 DEF NoneOpened
<1> QED BY <1>1, <1>3, <1>6, <1>7, Zenon

\* finishProbeRun ends the active run once its executions are closed.
LEMMA FinishKeeps ==
  ASSUME NEW st \in Store, NEW r \in RunId, Consistent(st), st.active = r,
         \A t \in Targets : ~IsOpen(st.execs[r][t])
  PROVE  Consistent(FinishRun(st, r)) /\ FinishRun(st, r).active = 0
<1> DEFINE rev == st.runs[r].rev + 1
           done == [st EXCEPT !.runs[r].status = FinalStatus(st, r), !.runs[r].rev = rev,
                              !.active = 0]
<1>1. FinishRun(st, r) = IF IsCurrent(st, r) THEN [done EXCEPT !.runQ[r] = rev]
                                             ELSE Cleanup(done, {r})
  BY DEF FinishRun
<1>2. FinalStatus(st, r) # "running"
  BY DEF FinalStatus
<1>3. done \in Store
  BY FinishedType, Zenon
<1>4. /\ done.active = 0 /\ done.execs = st.execs
      /\ done.runs[r].status = FinalStatus(st, r)
      /\ \A q \in RunId : q # r => done.runs[q] = st.runs[q]
  BY DEF Store, RunRecord
<1>5. \A q \in RunId : q # 0
  BY DEF RunId
<1> HIDE DEF done
<1>6. Consistent(done)
  BY <1>2, <1>4, <1>5 DEF Consistent
<1>7. Consistent([done EXCEPT !.runQ[r] = rev]) /\ [done EXCEPT !.runQ[r] = rev].active = 0
  BY <1>3, <1>4, <1>6 DEF Consistent, Store
<1> QED BY <1>1, <1>3, <1>4, <1>6, <1>7, CleanupKeeps

\* CompleteProbeExecution closes its execution.
LEMMA CompleteKeeps ==
  ASSUME NEW st \in Store, NEW r \in RunId, NEW t \in Targets, NEW o \in TerminalStatus,
         Consistent(st)
  PROVE  LET new == CompleteExecution(st, r, t, o)
         IN  /\ Consistent(new) /\ NoneOpened(st, new) /\ new.active = st.active
             /\ ~IsOpen(new.execs[r][t])
<1> DEFINE closed == CloseExecution(st, r, t, o)
<1>1. closed \in Store
  BY CloseExecutionType
<1>2. /\ closed.active = st.active /\ closed.runs = st.runs
      /\ closed.execs[r][t].status = o
      /\ \A q \in RunId, u \in Targets : <<q, u>> # <<r, t>> => closed.execs[q][u] = st.execs[q][u]
  BY DEF CloseExecution, Store, ExecRecord
<1>3. ~IsOpen(closed.execs[r][t])
  BY <1>2 DEF IsOpen, TerminalStatus
<1> HIDE DEF closed
<1>4. Consistent(closed) /\ NoneOpened(st, closed)
  BY <1>2, <1>3 DEF Consistent, NoneOpened
<1>5. CompleteExecution(st, r, t, o) =
        IF IsCurrent(st, r) THEN DropExecutions(closed, OverLimit(closed, {t})) ELSE closed
  BY DEF CompleteExecution, EnforceLimit, closed
<1> QED BY <1>1, <1>2, <1>3, <1>4, <1>5, DropKeeps DEF NoneOpened

\* ReconcileProbeRun first closes what is open in the active run.
LEMMA ReconcileCloses ==
  ASSUME NEW st \in Store, Consistent(st), NEW r \in RunId, st.active = r
  PROVE  LET closed == CloseOpenExecutions(st, r)
             limited == IF IsCurrent(st, r) THEN EnforceLimit(closed, OpenTargets(st, r)) ELSE closed
         IN  /\ limited \in Store /\ Consistent(limited) /\ limited.active = r
             /\ \A t \in Targets : ~IsOpen(limited.execs[r][t])
<1> DEFINE closed == CloseOpenExecutions(st, r)
           open == OpenTargets(st, r)
<1>2. closed \in Store
  BY CloseOpenExecutionsType
<1>3. /\ closed.active = r /\ closed.runs = st.runs
      /\ \A q \in RunId : q # r => closed.execs[q] = st.execs[q]
      /\ \A t \in Targets \ open : closed.execs[r][t] = st.execs[r][t]
      /\ \A t \in Targets \cap open : closed.execs[r][t].status \in {"interrupted", "skipped"}
  BY DEF CloseOpenExecutions, Store, ExecRecord
<1>4. \A t \in Targets : IsOpen(st.execs[r][t]) => t \in open
  BY DEF Consistent, OpenTargets, Terminal, IsOpen, TerminalStatus
<1> HIDE DEF closed, open
<1>5. \A t \in Targets : ~IsOpen(closed.execs[r][t])
  BY <1>3, <1>4 DEF IsOpen
<1>6. Consistent(closed)
  BY <1>3, <1>5 DEF Consistent
<1>7. /\ EnforceLimit(closed, open) \in Store /\ Consistent(EnforceLimit(closed, open))
      /\ EnforceLimit(closed, open).active = r
      /\ \A t \in Targets : ~IsOpen(EnforceLimit(closed, open).execs[r][t])
  BY <1>2, <1>3, <1>5, <1>6, DropExecutionsType, DropKeeps DEF EnforceLimit, NoneOpened
<1> QED BY <1>2, <1>3, <1>5, <1>6, <1>7 DEF closed, open

\* ReconcileProbeRun closes what is open and ends the run.
LEMMA ReconcileKeeps ==
  ASSUME NEW st \in Store, Consistent(st), st.active # 0
  PROVE  Consistent(ReconcileRun(st)) /\ ReconcileRun(st).active = 0
<1> DEFINE r == st.active
           limited == IF IsCurrent(st, r) THEN EnforceLimit(CloseOpenExecutions(st, r), OpenTargets(st, r))
                      ELSE CloseOpenExecutions(st, r)
<1>1. r \in RunId
  BY DEF Store
<1>2. ReconcileRun(st) = FinishRun(limited, r)
  BY DEF ReconcileRun
<1>3. limited \in Store /\ Consistent(limited) /\ limited.active = r
      /\ \A t \in Targets : ~IsOpen(limited.execs[r][t])
  BY <1>1, ReconcileCloses
<1> HIDE DEF limited
<1> QED BY <1>1, <1>2, <1>3, FinishKeeps

\* A history reset deletes the finished runs of other generations.
LEMMA ChangeGenerationKeeps ==
  ASSUME NEW st \in Store, NEW g \in Generation, Consistent(st)
  PROVE  LET new == ChangeGeneration(st, g)
         IN  Consistent(new) /\ NoneOpened(st, new) /\ new.active = st.active
<1> DEFINE new == ChangeGeneration(st, g)
           kept(r) == st.runs[r].gen = g \/ st.runs[r].status = "running"
           val(r, t) == IF st.runs[r].gen = g THEN st.execs[r][t]
                        ELSE IF kept(r) /\ t \in st.runs[r].targets
                        THEN [st.execs[r][t] EXCEPT !.file = FALSE, !.evicted = TRUE]
                        ELSE NoExec
<1>1. /\ new.active = st.active
      /\ new.runs = [r \in RunId |-> IF kept(r) THEN st.runs[r] ELSE NoRun]
  BY DEF ChangeGeneration, Store
<1>8. new.execs = [r \in RunId |-> [t \in Targets |-> val(r, t)]]
  BY DEF ChangeGeneration, Store
<1>2. ~IsOpen(NoExec) /\ NoRun.status # "running"
  BY DEF IsOpen, NoExec, NoRun
<1>3. \A r \in RunId, t \in Targets : st.execs[r][t] \in ExecRecord
  BY DEF Store
<1>4. \A e \in ExecRecord : [e EXCEPT !.file = FALSE, !.evicted = TRUE].status = e.status
  BY DEF ExecRecord
<1>9. \A r \in RunId, t \in Targets : IsOpen(val(r, t)) => IsOpen(st.execs[r][t]) /\ kept(r)
  BY <1>2, <1>3, <1>4 DEF IsOpen
<1> HIDE DEF new, val, kept
<1>5. \A r \in RunId, t \in Targets :
        IsOpen(new.execs[r][t]) => IsOpen(st.execs[r][t]) /\ kept(r)
  <2> SUFFICES ASSUME NEW r \in RunId, NEW t \in Targets
               PROVE  new.execs[r][t] = val(r, t)
    BY <1>9
  <2> QED BY <1>8
<1>6. NoneOpened(st, new)
  BY <1>5 DEF NoneOpened
<1>10. \A r \in RunId : new.runs[r] = IF kept(r) THEN st.runs[r] ELSE NoRun
  BY <1>1
<1>11. \A r \in RunId : new.runs[r].status = "running" <=> st.runs[r].status = "running"
  BY <1>2, <1>10 DEF kept
<1>7. Consistent(new)
  BY <1>1, <1>5, <1>11 DEF Consistent
<1> QED BY <1>1, <1>6, <1>7 DEF new

\* Taking an artifact off the queue closes nothing that is open.
LEMMA AcknowledgeKeeps ==
  ASSUME NEW st \in Store, NEW k, NamedKey(k), NEW rev, Consistent(st)
  PROVE  LET new == Acknowledge(st, k, rev)
         IN  Consistent(new) /\ NoneOpened(st, new) /\ new.active = st.active
<1>1. CASE QueuedRevision(st, k) # rev
  BY <1>1 DEF Acknowledge, Superseded, NoneOpened
<1>2. CASE QueuedRevision(st, k) = rev /\ k.kind = "run"
  <2> DEFINE taken == [st EXCEPT !.runQ[k.run] = 0]
  <2>1. taken \in Store
    BY <1>2, Zenon DEF NamedKey, Store
  <2>2. taken.active = st.active /\ taken.runs = st.runs /\ taken.execs = st.execs
    BY DEF Store
  <2>3. Acknowledge(st, k, rev) = Cleanup(taken, {k.run})
    BY <1>2 DEF Acknowledge, Superseded
  <2> HIDE DEF taken
  <2>4. Consistent(taken)
    BY <2>2 DEF Consistent
  <2> QED BY <2>1, <2>2, <2>3, <2>4, CleanupKeeps DEF NoneOpened
<1>3. CASE QueuedRevision(st, k) = rev /\ k.kind = "execution"
  <2> DEFINE taken == [st EXCEPT !.execQ[k.run][k.target] = 0,
                                 !.execs[k.run][k.target].file = FALSE]
  <2>1. k.run \in RunId /\ k.target \in Targets
    BY <1>3 DEF NamedKey
  <2>2. taken \in Store
    BY <2>1, TakenType, Zenon
  <2>3. /\ taken.active = st.active /\ taken.runs = st.runs
        /\ \A r \in RunId, t \in Targets : taken.execs[r][t].status = st.execs[r][t].status
    BY <2>1 DEF Store, ExecRecord
  <2>4. Acknowledge(st, k, rev) = Cleanup(taken, {k.run})
    BY <1>3 DEF Acknowledge, Superseded
  <2> HIDE DEF taken
  <2>5. Consistent(taken) /\ NoneOpened(st, taken)
    BY <2>3 DEF Consistent, NoneOpened, IsOpen
  <2> QED BY <2>2, <2>3, <2>4, <2>5, CleanupKeeps DEF NoneOpened
<1>4. CASE QueuedRevision(st, k) = rev /\ k.kind = "gap"
  <2> DEFINE new == [st EXCEPT !.gapQ[k.target] = 0, !.gaps[k.target] = NoGap]
  <2>1. new.active = st.active /\ new.runs = st.runs /\ new.execs = st.execs
    BY DEF Store
  <2>2. Acknowledge(st, k, rev) = new
    BY <1>4 DEF Acknowledge, Superseded
  <2> HIDE DEF new
  <2> QED BY <2>1, <2>2 DEF Consistent, NoneOpened
<1> QED BY <1>1, <1>2, <1>3, <1>4 DEF NamedKey

\* Every step keeps the store consistent and the worker's account of its run.
LEMMA RunStep == TypeInv /\ RunInv /\ [Next]_vars => RunInv'
<1> SUFFICES ASSUME TypeInv, RunInv, [Next]_vars PROVE RunInv'
  OBVIOUS
<1>0. db \in Store /\ Consistent(db) /\ WorkerHolds(db, worker)
  BY DEF TypeInv, TypeOK, RunInv
\* A store that opens nothing and a worker that stays or goes idle.
<1>a. ASSUME Consistent(db'), NoneOpened(db, db'), db'.active = db.active,
             worker' = worker \/ worker'.pc = "idle"
      PROVE  RunInv'
  <2>1. WorkerHolds(db', worker')
    <3>1. CASE worker'.pc = "idle"
      BY <3>1 DEF WorkerHolds
    <3>2. CASE worker' = worker
      BY <1>0, <1>a, <3>2 DEF WorkerHolds, NoneOpened, TypeInv, TypeOK, Named
    <3> QED BY <1>a, <3>1, <3>2
  <2> QED BY <1>a, <2>1 DEF RunInv
<1>b. ASSUME Reconcile, worker' = worker \/ worker'.pc = "idle" PROVE RunInv'
  <2>1. CASE db.active = 0
    BY <1>0, <1>a, <1>b, <2>1 DEF Reconcile, NoneOpened
  <2>2. CASE db.active # 0
    <3>1. db' = ReconcileRun(db)
      BY <1>b, <2>2 DEF Reconcile
    <3>2. Consistent(db') /\ db'.active = 0
      BY <1>0, <2>2, <3>1, ReconcileKeeps
    <3>3. worker'.pc = "idle" \/ worker'.run # 0
      BY <1>b DEF TypeInv, Named, RunId
    <3>4. WorkerHolds(db', worker')
      BY <3>2, <3>3 DEF WorkerHolds
    <3> QED BY <3>2, <3>4 DEF RunInv
  <2> QED BY <2>1, <2>2
<1>c. ASSUME NEW o \in TerminalStatus, worker.pc \in {"probing", "commit"}, Commit(o)
      PROVE  RunInv'
  <2>1. worker.run \in RunId /\ worker.target \in Targets
    BY <1>c DEF TypeInv, Named
  <2>2. db' = CompleteExecution(db, worker.run, worker.target, o)
    BY <1>c DEF Commit
  <2>3. /\ Consistent(db') /\ NoneOpened(db, db') /\ db'.active = db.active
        /\ ~IsOpen(db'.execs[worker.run][worker.target])
    BY <1>0, <2>1, <2>2, CompleteKeeps
  <2>4. worker'.run = worker.run /\ worker'.left = worker.left
    BY <1>c DEF Commit, TypeInv, TypeOK
  <2>5. WorkerHolds(db', worker')
    BY <1>0, <1>c, <2>1, <2>3, <2>4 DEF WorkerHolds, NoneOpened
  <2> QED BY <2>3, <2>5 DEF RunInv
<1>1. ASSUME NEW S \in (SUBSET Targets) \ {{}}, StartProbeRun(S) PROVE RunInv'
  <2> DEFINE r == issued + 1
  <2>1. r \in RunId /\ r # 0
    BY <1>1, BoundAssumption DEF TypeInv, TypeOK, StartProbeRun, RunId
  <2>2. db' = StartRun(db, r, S) /\ db.active = 0
    BY <1>1 DEF StartProbeRun
  <2>3. worker' = [pc |-> "next", run |-> r, left |-> S, target |-> "-"]
    BY <1>1 DEF StartProbeRun
  <2> HIDE DEF r
  <2>4. /\ db'.active = r
        /\ db'.runs[r].status = "running" /\ db'.runs[r].targets = S
        /\ \A q \in RunId : q # r => db'.runs[q] = db.runs[q] /\ db'.execs[q] = db.execs[q]
        /\ \A t \in Targets \ S : db'.execs[r][t] = NoExec
    BY <1>0, <2>1, <2>2 DEF StartRun, NextSequence, Store
  <2>5. ~IsOpen(NoExec)
    BY DEF IsOpen, NoExec
  <2>6. \A q \in RunId : q # 0
    BY DEF RunId
  <2>7. Consistent(db')
    BY <1>0, <2>1, <2>2, <2>4, <2>5, <2>6 DEF Consistent
  <2>8. WorkerHolds(db', worker')
    BY <2>3, <2>4, <2>5 DEF WorkerHolds
  <2> QED BY <2>7, <2>8 DEF RunInv
<1>2. CASE ReconcileProbeRun
  BY <1>2, <1>b DEF ReconcileProbeRun
<1>3. ASSUME NEW t \in Targets, StartProbeExecution(t) PROVE RunInv'
  <2>1. CASE /\ db.active = worker.run /\ db.execs[worker.run][t].status = "pending"
             /\ db' = BeginExecution(db, worker.run, t)
             /\ worker' = [worker EXCEPT !.pc = "probing", !.left = @ \ {t}, !.target = t]
    <3>1. worker.run \in RunId /\ worker.pc = "next"
      BY <1>3 DEF TypeInv, Named, StartProbeExecution
    <3>2. /\ db'.active = db.active /\ db'.runs = db.runs
          /\ \A q \in RunId, u \in Targets :
                <<q, u>> # <<worker.run, t>> => db'.execs[q][u] = db.execs[q][u]
      BY <1>0, <2>1, <3>1 DEF BeginExecution, Store
    <3>3. IsOpen(db.execs[worker.run][t])
      BY <2>1 DEF IsOpen
    <3>4. Consistent(db')
      BY <1>0, <3>1, <3>2, <3>3 DEF Consistent
    <3>5. /\ worker'.pc = "probing" /\ worker'.run = worker.run
          /\ worker'.left = worker.left \ {t} /\ worker'.target = t
      BY <2>1 DEF TypeInv, TypeOK
    <3>6. WorkerHolds(db', worker')
      BY <1>0, <3>1, <3>2, <3>5 DEF WorkerHolds
    <3> QED BY <3>4, <3>6 DEF RunInv
  <2>2. CASE Fail /\ UNCHANGED db
    BY <1>0, <1>a, <2>2 DEF Fail, IdleWorker, NoneOpened
  <2> QED BY <1>3, <2>1, <2>2 DEF StartProbeExecution
<1>4. ASSUME NEW o \in TerminalStatus, RecordOutcome(o) PROVE RunInv'
  BY <1>4, <1>c DEF RecordOutcome
<1>5. CASE OutcomeRefused
  BY <1>0, <1>5, <1>a DEF OutcomeRefused, Fail, IdleWorker, NoneOpened
<1>6. CASE WriteProbeResult
  <2>1. CASE worker' = [worker EXCEPT !.pc = "commit"]
    <3>1. db' = db /\ worker.pc = "probing"
      BY <1>6 DEF WriteProbeResult
    <3>2. /\ worker'.pc = "commit" /\ worker'.run = worker.run
          /\ worker'.left = worker.left /\ worker'.target = worker.target
      BY <2>1 DEF TypeInv, TypeOK
    <3> QED BY <1>0, <3>1, <3>2 DEF RunInv, WorkerHolds
  <2>2. CASE Fail
    BY <1>0, <1>6, <1>a, <2>2 DEF WriteProbeResult, Fail, IdleWorker, NoneOpened
  <2> QED BY <1>6, <2>1, <2>2 DEF WriteProbeResult
<1>7. CASE CommitProbeResult
  BY <1>7, <1>c DEF CommitProbeResult, TerminalStatus
<1>8. CASE RemoveObsolete
  BY <1>0, <1>8, <1>a DEF RemoveObsolete, NoneOpened
<1>9. CASE FinishProbeRun
  <2>1. CASE db.active = worker.run /\ db' = FinishRun(db, worker.run) /\ worker' = IdleWorker
    <3>1. worker.run \in RunId /\ worker.pc = "next" /\ worker.left = {}
      BY <1>9 DEF TypeInv, Named, FinishProbeRun
    <3>2. \A t \in Targets : ~IsOpen(db.execs[worker.run][t])
      BY <1>0, <2>1, <3>1 DEF WorkerHolds
    <3>3. Consistent(db')
      BY <1>0, <2>1, <3>1, <3>2, FinishKeeps
    <3> QED BY <2>1, <3>3 DEF RunInv, WorkerHolds, IdleWorker
  <2>2. CASE Fail /\ UNCHANGED db
    BY <1>0, <1>a, <2>2 DEF Fail, IdleWorker, NoneOpened
  <2> QED BY <1>9, <2>1, <2>2 DEF FinishProbeRun
<1>10. CASE AbandonRun
  BY <1>10, <1>b DEF AbandonRun, IdleWorker
<1>11. ASSUME NEW g \in Generation, ApplyConfiguration(g) PROVE RunInv'
  BY <1>0, <1>11, <1>a, ChangeGenerationKeeps DEF ApplyConfiguration
<1>12. ASSUME NEW k \in QueuedKeys(db), NextProbeArtifact(k) PROVE RunInv'
  BY <1>0, <1>12, <1>a DEF NextProbeArtifact, NoneOpened
<1>13. CASE AcknowledgeProbeArtifact
  BY <1>0, <1>13, <1>a, AcknowledgeKeeps DEF AcknowledgeProbeArtifact, TypeInv, Named
<1>14. CASE UploadFails
  BY <1>0, <1>14, <1>a DEF UploadFails, NoneOpened
<1>23. CASE UploadRefused
  BY <1>0, <1>23, <1>a DEF UploadRefused, NoneOpened
<1>15. CASE Crash \/ Stop
  BY <1>0, <1>15, <1>a DEF Crash, Stop, ProcessGone, IdleWorker, NoneOpened
<1>16. CASE RequestStop
  BY <1>0, <1>16, <1>a DEF RequestStop, NoneOpened
<1>17. ASSUME NEW x \in files, LoseResultFile(x) PROVE RunInv'
  BY <1>0, <1>17, <1>a DEF LoseResultFile, NoneOpened
<1>18. CASE Open
  BY <1>0, <1>18, <1>a, DropKeeps DEF Open, ReconcileArtifacts
<1>19. CASE UNCHANGED vars
  BY <1>0, <1>19, <1>a DEF vars, NoneOpened
<1> QED
  BY <1>1, <1>2, <1>3, <1>4, <1>5, <1>6, <1>7, <1>8, <1>9, <1>10, <1>11, <1>12, <1>13,
     <1>14, <1>15, <1>16, <1>17, <1>18, <1>19, <1>23 DEF Next, Local, Execute

\* A new store has no run and no worker.
LEMMA RunStart == Init => RunInv
<1>1. \A r \in RunId : r # 0
  BY DEF RunId
<1> QED BY <1>1 DEF Init, RunInv, Consistent, WorkerHolds, EmptyStore, IsOpen, NoRun, NoExec,
                    IdleWorker

\* Wherever a crash strikes, the Agent can be started again: the active pointer names
\* the only running run, and no other run has an open execution.
THEOREM StoreOpens == Spec => []OpenSucceeds
<1>1. Init => RunInv
  BY RunStart
<1>2. TypeInv /\ RunInv /\ [Next]_vars => RunInv'
  BY RunStep
<1>3. RunInv => OpenSucceeds
  BY DEF RunInv, Consistent, OpenSucceeds, IsOpen
<1>4. Spec => []TypeInv
  BY TypeCorrect DEF TypeInv
<1> QED BY <1>1, <1>2, <1>3, <1>4, PTL DEF Spec

-----------------------------------------------------------------------------
(* The queue                                                               *)

\* Between the file and the transaction of a result, the execution is still open and
\* its run is still current.
Committing == worker.pc = "commit" => MayComplete /\ IsCurrent(db, worker.run)

\* OldestEvictedFirst of one transaction.
EvictionOrdered(st, new) ==
    \A t \in Targets : st.gaps[t].rev < new.gaps[t].rev =>
       LET left == {r \in RunId :
                      /\ st.execQ[r][t] # 0 \/ st.execs[r][t].status = "pending"
                      /\ new.execQ[r][t] = 0 /\ new.execs[r][t].status # "pending"}
       IN  \A r \in left : \A q \in Pending(new, t) :
              st.execs[r][t].seq < new.execs[q][t].seq

\* A target without a gap has none that could shrink.
LEMMA NoGapGrows ==
  ASSUME NEW st \in Store, NEW new \in Store,
         \A t \in Targets : new.gaps[t] \in {st.gaps[t], NoGap}
  PROVE  EvictionOrdered(st, new)
<1>1. \A t \in Targets : st.gaps[t].rev \in Nat /\ NoGap.rev = 0
  BY Fields DEF NoGap
<1> QED BY <1>1 DEF EvictionOrdered

\* In a consistent store only the active run has pending executions.
LEMMA RunGapGrows ==
  ASSUME NEW st \in Store, NEW new \in Store, Consistent(st), OldestLeft(st, new, st.active)
  PROVE  EvictionOrdered(st, new)
<1> SUFFICES ASSUME NEW t \in Targets, st.gaps[t].rev < new.gaps[t].rev,
                    NEW a \in RunId, NEW q \in Pending(new, t),
                    st.execQ[a][t] # 0 \/ st.execs[a][t].status = "pending",
                    new.execQ[a][t] = 0
             PROVE  st.execs[a][t].seq < new.execs[q][t].seq
  BY DEF EvictionOrdered
<1>1. new.gaps[t] # st.gaps[t]
  BY Fields
<1>2. a = st.active \/ st.execQ[a][t] # 0
  BY DEF Consistent, IsOpen
<1> QED BY <1>1, <1>2 DEF OldestLeft, Pending

\* The step of the store: the queue invariant, what a step may do to a run, and the
\* order of an eviction.
Kept == /\ QueueInv(db', issued') /\ Evolves(db, db', issued)
        /\ up => EvictionOrdered(db, db')

\* A step that leaves the store alone keeps what was kept.
LEMMA UnchangedKept ==
  ASSUME db \in Store, issued \in Nat, QueueInv(db, issued), db' = db, issued' = issued
  PROVE  Kept
BY EvolvesReflexive, NoGapGrows DEF Kept, QueueInv

\* So does the reconciliation of an interrupted run,
LEMMA ReconcileKept ==
  ASSUME TypeInv, RunInv, QueueInv(db, issued), Reconcile, issued' = issued
  PROVE  Kept
<1>0. db \in Store /\ Consistent(db) /\ issued \in Nat
  BY DEF TypeInv, TypeOK, RunInv
<1>1. CASE db.active = 0
  BY <1>0, <1>1, UnchangedKept DEF Reconcile
<1>2. CASE db.active # 0
  <2>1. db.active \in RunId /\ db' = ReconcileRun(db)
    BY <1>0, <1>2 DEF Reconcile, Store
  <2>2. db.runs[db.active].status = "running"
    BY <1>0, <2>1 DEF Consistent
  <2>3. /\ QueueInv(db', issued) /\ Evolves(db, db', issued)
        /\ OldestLeft(db, db', db.active)
    BY <1>0, <1>2, <2>1, <2>2, ReconcileQueue
  <2>4. db' \in Store
    BY <1>0, <1>2, <2>1, ReconcileRunType
  <2> QED BY <1>0, <2>1, <2>3, <2>4, RunGapGrows DEF Kept
<1> QED BY <1>1, <1>2

\* and the outcome of an execution.
LEMMA CommitKept ==
  ASSUME TypeInv, RunInv, QueueInv(db, issued), worker.pc \in {"probing", "commit"},
         MayComplete, NEW o \in TerminalStatus, Commit(o), issued' = issued
  PROVE  Kept
<1>0. /\ db \in Store /\ Consistent(db) /\ issued \in Nat
      /\ worker.run \in RunId /\ worker.target \in Targets
  BY DEF TypeInv, TypeOK, Named, RunInv
<1>1. PICK r \in RunId, t \in Targets :
         /\ db' = CompleteExecution(db, r, t, o) /\ IsOpen(db.execs[r][t]) /\ db.active = r
  BY <1>0 DEF Commit, MayComplete, IsOpen
<1>2. db' \in Store
  BY <1>0, <1>1, CompleteExecutionType
<1>3. /\ QueueInv(db', issued) /\ Evolves(db, db', issued)
      /\ OldestLeft(db, db', db.active)
  BY <1>0, <1>1, CompleteQueue, Zenon
<1> QED BY <1>0, <1>2, <1>3, RunGapGrows DEF Kept

\* Every step keeps the queue consistent.
LEMMA QueueStep ==
  ASSUME TypeInv, RunInv, QueueInv(db, issued), Committing, [Next]_vars
  PROVE  Kept
<1>0. /\ db \in Store /\ Consistent(db) /\ WorkerHolds(db, worker)
      /\ issued \in Nat /\ QueueInv(db, issued)
  BY DEF TypeInv, TypeOK, RunInv
<1>a. ASSUME db' = db, issued' = issued PROVE Kept
  BY <1>0, <1>a, UnchangedKept
<1>1. ASSUME NEW S \in (SUBSET Targets) \ {{}}, StartProbeRun(S) PROVE Kept
  <2>1. issued + 1 \in RunId
    BY <1>1, <1>0, BoundAssumption DEF StartProbeRun, RunId
  <2>2. db' = StartRun(db, issued + 1, S) /\ issued' = issued + 1
    BY <1>1 DEF StartProbeRun
  <2>3. QueueInv(db', issued') /\ Evolves(db, db', issued) /\ db'.gaps = db.gaps
    BY <1>0, <2>1, <2>2, StartQueue
  <2>4. db' \in Store
    BY <1>0, <2>1, <2>2, StartRunType
  <2> QED BY <1>0, <2>3, <2>4, NoGapGrows DEF Kept
<1>2. CASE ReconcileProbeRun \/ AbandonRun
  BY <1>2, ReconcileKept DEF ReconcileProbeRun, AbandonRun
<1>3. ASSUME NEW t \in Targets, StartProbeExecution(t) PROVE Kept
  <2>1. CASE db' = BeginExecution(db, worker.run, t) /\ db.execs[worker.run][t].status = "pending"
    <3>1. worker.run \in RunId /\ IsOpen(db.execs[worker.run][t]) /\ issued' = issued
      BY <1>3, <2>1 DEF TypeInv, Named, StartProbeExecution, IsOpen
    <3>2. QueueInv(db', issued) /\ Evolves(db, db', issued)
      BY <1>0, <2>1, <3>1, BeginQueue
    <3>3. db' \in Store
      BY <1>0, <2>1, <3>1, BeginExecutionType
    <3>4. db'.gaps = db.gaps
      BY <1>0, <2>1 DEF BeginExecution, Store
    <3> QED BY <1>0, <3>1, <3>2, <3>3, <3>4, NoGapGrows DEF Kept
  <2>2. CASE db' = db
    BY <1>3, <1>a, <2>2 DEF StartProbeExecution
  <2> QED BY <1>3, <2>1, <2>2 DEF StartProbeExecution
<1>4. ASSUME NEW o \in TerminalStatus, RecordOutcome(o) PROVE Kept
  BY <1>4, CommitKept DEF RecordOutcome
<1>5. CASE OutcomeRefused \/ WriteProbeResult \/ RemoveObsolete
  BY <1>5, <1>a, Zenon DEF OutcomeRefused, WriteProbeResult, RemoveObsolete
<1>6. CASE CommitProbeResult
  <2>1. "succeeded" \in TerminalStatus /\ worker.pc = "commit" /\ Commit("succeeded")
        /\ issued' = issued
    BY <1>6 DEF CommitProbeResult, TerminalStatus
  <2> QED BY <2>1, CommitKept DEF Committing
<1>7. CASE FinishProbeRun
  <2>1. CASE db.active = worker.run /\ db' = FinishRun(db, worker.run)
    <3>1. worker.run \in RunId /\ issued' = issued
      BY <1>7 DEF TypeInv, Named, FinishProbeRun
    <3>2. db.runs[worker.run].status = "running"
      BY <1>0, <2>1, <3>1 DEF Consistent
    <3>3. QueueInv(db', issued) /\ Evolves(db, db', issued) /\ db'.gaps = db.gaps
      BY <1>0, <2>1, <3>1, <3>2, FinishQueue
    <3>4. db' \in Store
      BY <1>0, <2>1, <3>1, FinishRunType
    <3> QED BY <1>0, <3>1, <3>3, <3>4, NoGapGrows DEF Kept
  <2>2. CASE db' = db
    BY <1>7, <1>a, <2>2 DEF FinishProbeRun
  <2> QED BY <1>7, <2>1, <2>2 DEF FinishProbeRun
<1>8. ASSUME NEW g \in Generation, g > db.gen, ApplyConfiguration(g) PROVE Kept
  <2>1. db' = ChangeGeneration(db, g) /\ issued' = issued
    BY <1>8 DEF ApplyConfiguration
  <2>2. /\ QueueInv(db', issued) /\ Evolves(db, db', issued)
        /\ \A u \in Targets : db'.gaps[u] = NoGap
    BY <1>0, <1>8, <2>1, ChangeQueue
  <2>3. db' \in Store
    BY <1>0, <2>1, ChangeGenerationType
  <2> QED BY <1>0, <2>1, <2>2, <2>3, NoGapGrows DEF Kept
<1>9. CASE AcknowledgeProbeArtifact
  <2>1. db' = Acknowledge(db, sent, sent.rev) /\ issued' = issued /\ NamedKey(sent)
    BY <1>9 DEF AcknowledgeProbeArtifact, TypeInv, Named
  <2>2. /\ QueueInv(db', issued) /\ Evolves(db, db', issued)
        /\ \A u \in Targets : db'.gaps[u] \in {db.gaps[u], NoGap}
    BY <1>0, <2>1, AcknowledgeQueue
  <2>3. db' \in Store
    BY <1>0, <2>1, AcknowledgeType
  <2> QED BY <1>0, <2>1, <2>2, <2>3, NoGapGrows DEF Kept
<1>10. ASSUME NEW k \in QueuedKeys(db), NextProbeArtifact(k) PROVE Kept
  BY <1>10, <1>a DEF NextProbeArtifact
<1>11. CASE UploadFails \/ UploadRefused \/ Crash \/ Stop \/ RequestStop
  BY <1>11, <1>a DEF UploadFails, UploadRefused, Crash, Stop, RequestStop
<1>12. ASSUME NEW x \in files, LoseResultFile(x) PROVE Kept
  BY <1>12, <1>a DEF LoseResultFile
<1>13. CASE Open
  <2>1. db' = ReconcileArtifacts(db, files) /\ issued' = issued /\ ~up
    BY <1>13 DEF Open
  <2> QED BY <1>0, <2>1, UnreadableQueue DEF Kept
<1>14. CASE UNCHANGED vars
  BY <1>14, <1>a DEF vars
<1> QED
  BY <1>1, <1>2, <1>3, <1>4, <1>5, <1>6, <1>7, <1>8, <1>9, <1>10, <1>11, <1>12, <1>13,
     <1>14 DEF Next, Local, Execute

-----------------------------------------------------------------------------
(* The result directory                                                    *)

\* The file of the result that is being committed has no record that names it yet.
Writing == IF worker.pc = "commit" THEN {<<worker.run, worker.target>>} ELSE {}

\* While the Agent runs, every file a record names is on disk, and a file on disk is
\* named by a record, about to be named, or about to be removed; what is about to be
\* removed is named by none.  Between the file and the transaction of a result nothing
\* else is under way, and the execution is still open in a current run.
FilesInv ==
    /\ worker.pc = "commit" =>
         /\ removing = Nothing /\ <<worker.run, worker.target>> \in files
         /\ MayComplete /\ IsCurrent(db, worker.run)
    /\ removing.names \cap Referenced(db) = {}
    /\ up => /\ Referenced(db) \subseteq files
             /\ files \subseteq Referenced(db) \cup removing.names \cup Writing
    /\ ~resultDir => files = {}
    /\ ~up => removing = Nothing /\ worker = IdleWorker

\* What a transaction collects for removal is what it no longer refers to.
LEMMA ObsoleteNames ==
  ASSUME NEW st, NEW D \in SUBSET AllExecutions
  PROVE  Obsolete(st, D).names = Referenced(st) \cap D
BY DEF Obsolete, Referenced

\* ReconcileProbeRun removes the files its transaction no longer names.
LEMMA ReconcileRemoves ==
  ASSUME TypeInv, RunInv, QueueInv(db, issued), Reconcile, removing = Nothing
  PROVE  /\ Referenced(db') \subseteq Referenced(db)
         /\ removing'.names = Referenced(db) \ Referenced(db')
<1>0. db \in Store /\ Consistent(db) /\ issued \in Nat /\ Nothing.names = {}
  BY DEF TypeInv, TypeOK, RunInv, Nothing
<1>1. CASE db.active = 0
  BY <1>0, <1>1 DEF Reconcile
<1>2. CASE db.active # 0
  <2> DEFINE closed == CloseOpenExecutions(db, db.active)
             D == IF IsCurrent(db, db.active)
                  THEN OverLimit(closed, OpenTargets(db, db.active)) ELSE {}
  <2>1. /\ db.active \in RunId /\ db' = ReconcileRun(db)
        /\ removing' = IF IsCurrent(db, db.active)
                       THEN Obsolete(closed, OverLimit(closed, OpenTargets(db, db.active)))
                       ELSE Nothing
    BY <1>0, <1>2 DEF Reconcile, Store
  <2>2. db.runs[db.active].status = "running"
    BY <1>0, <2>1 DEF Consistent
  <2>3. Referenced(closed) = Referenced(db)
    BY <1>0, <1>2, <2>2, ReconcileQueue
  <2>4. EvictedForget(db, closed, db', db.active, OpenTargets(db, db.active))
    BY <1>0, <1>2, <2>1, <2>2, ReconcileQueue
  <2>5. OpenTargets(db, db.active) \in SUBSET Targets
    BY <1>0, <2>1, Fields DEF OpenTargets
  <2>6. removing'.names = Referenced(closed) \cap D
    BY <1>0, <2>1, <2>5, OverLimitType, ObsoleteNames
  <2>7. Referenced(db') = Referenced(closed) \ D
    BY <2>4 DEF EvictedForget
  <2> HIDE DEF closed, D
  <2> QED BY <2>3, <2>6, <2>7
<1> QED BY <1>1, <1>2

\* CompleteProbeExecution removes the files its transaction no longer names, the one
\* just written among them when it is evicted at once.
LEMMA CommitRemoves ==
  ASSUME TypeInv, RunInv, QueueInv(db, issued), worker.pc \in {"probing", "commit"},
         MayComplete, NEW o \in TerminalStatus, Commit(o),
         NEW made, made = IF IsCurrent(db, worker.run) /\ o = "succeeded"
                          THEN {<<worker.run, worker.target>>} ELSE {}
  PROVE  /\ Referenced(db') \subseteq Referenced(db) \cup made
         /\ removing'.names = (Referenced(db) \cup made) \ Referenced(db')
<1>0. /\ db \in Store /\ issued \in Nat /\ Nothing.names = {}
      /\ worker.run \in RunId /\ worker.target \in Targets
  BY DEF TypeInv, TypeOK, Named, Nothing
<1>1. PICK r \in RunId, t \in Targets : r = worker.run /\ t = worker.target
  BY <1>0
<1> DEFINE closed == CloseExecution(db, r, t, o)
           D == IF IsCurrent(db, r) THEN OverLimit(closed, {t}) ELSE {}
<1>2. db' = CompleteExecution(db, r, t, o) /\ IsOpen(db.execs[r][t])
  BY <1>1 DEF Commit, MayComplete, IsOpen
<1>a. removing' = IF IsCurrent(db, r) THEN Obsolete(closed, OverLimit(closed, {t}))
                                      ELSE Nothing
  BY <1>1 DEF Commit
<1>3. FileNamed(db, closed, r, t, o)
  BY <1>0, <1>2, CompleteQueue, Zenon
<1>4. EvictedForget(db, closed, db', r, {t})
  BY <1>0, <1>2, CompleteQueue
<1>5. removing'.names = Referenced(closed) \cap D
  <2>1. OverLimit(closed, {t}) \in SUBSET AllExecutions
    BY OverLimitType
  <2> QED BY <1>0, <1>a, <2>1, ObsoleteNames, Zenon
<1>6. Referenced(closed) = Referenced(db) \cup made
  BY <1>1, <1>3 DEF FileNamed
<1>7. Referenced(db') = Referenced(closed) \ D
  BY <1>4 DEF EvictedForget
<1> HIDE DEF closed, D
<1> QED BY <1>5, <1>6, <1>7

\* Every step keeps the result directory and the records together.
LEMMA FilesStep ==
  ASSUME TypeInv, RunInv, QueueInv(db, issued), FilesInv, [Next]_vars
  PROVE  FilesInv'
<1>0. /\ db \in Store /\ Consistent(db) /\ issued \in Nat /\ resultDir \in BOOLEAN
      /\ up \in BOOLEAN /\ Nothing.names = {}
  BY DEF TypeInv, TypeOK, RunInv, Nothing
\* A step of the running Agent that touches no file.
<1>a. ASSUME up, LockFree, up' = up, removing' = removing, files' = files,
             resultDir' = resultDir, worker'.pc # "commit", Referenced(db') = Referenced(db)
      PROVE  FilesInv'
  BY <1>0, <1>a DEF FilesInv, LockFree, Writing
\* A step that leaves all of it alone.
<1>b. ASSUME UNCHANGED <<db, files, resultDir, removing, up, worker>> PROVE FilesInv'
  BY <1>b DEF FilesInv, Writing, MayComplete, IsCurrent
\* A transaction of the running Agent after which files are to be removed; made is
\* the file of the result it commits.
<1>c. ASSUME NEW made, up, removing = Nothing, Writing = made, up' = up, files' = files,
             resultDir' = resultDir, worker'.pc # "commit",
             Referenced(db') \subseteq Referenced(db) \cup made, made \subseteq files,
             removing'.names = (Referenced(db) \cup made) \ Referenced(db')
      PROVE  FilesInv'
  <2>1. files = Referenced(db) \cup made
    BY <1>0, <1>c DEF FilesInv
  <2> QED BY <1>c, <2>1 DEF FilesInv, Writing
<1>e. ASSUME up, removing = Nothing, Writing = {}, up' = up, files' = files,
             resultDir' = resultDir, worker'.pc # "commit",
             Referenced(db') \subseteq Referenced(db),
             removing'.names = Referenced(db) \ Referenced(db')
      PROVE  FilesInv'
  <2>1. files = Referenced(db)
    BY <1>0, <1>e DEF FilesInv
  <2> QED BY <1>e, <2>1 DEF FilesInv, Writing
<1>d. ASSUME up, LockFree, Reconcile, up' = up, files' = files, resultDir' = resultDir,
             worker'.pc # "commit"
      PROVE  FilesInv'
  <2>1. /\ Referenced(db') \subseteq Referenced(db)
        /\ removing'.names = Referenced(db) \ Referenced(db')
    BY <1>d, ReconcileRemoves DEF LockFree
  <2>2. removing = Nothing /\ Writing = {}
    BY <1>d DEF LockFree, Writing
  <2> QED BY <1>d, <1>e, <2>1, <2>2
<1>1. ASSUME NEW S \in (SUBSET Targets) \ {{}}, StartProbeRun(S) PROVE FilesInv'
  <2>1. issued + 1 \in RunId
    BY <1>1, <1>0, BoundAssumption DEF StartProbeRun, RunId
  <2>2. Referenced(db') = Referenced(db)
    BY <1>0, <1>1, <2>1, StartQueue DEF StartProbeRun
  <2>3. worker'.pc # "commit"
    BY <1>1 DEF StartProbeRun
  <2> QED BY <1>1, <1>a, <2>2, <2>3 DEF StartProbeRun
<1>2. CASE ReconcileProbeRun
  BY <1>2, <1>d DEF ReconcileProbeRun, LockFree
<1>3. CASE AbandonRun
  BY <1>3, <1>d DEF AbandonRun, IdleWorker
<1>4. ASSUME NEW t \in Targets, StartProbeExecution(t) PROVE FilesInv'
  <2>1. worker'.pc # "commit"
    <3>1. CASE Fail
      BY <3>1 DEF Fail, IdleWorker
    <3>2. CASE worker' = [worker EXCEPT !.pc = "probing", !.left = @ \ {t}, !.target = t]
      BY <3>2 DEF TypeInv, TypeOK
    <3> QED BY <1>4, <3>1, <3>2 DEF StartProbeExecution
  <2>2. Referenced(db') = Referenced(db)
    <3>1. CASE db' = BeginExecution(db, worker.run, t) /\ db.execs[worker.run][t].status = "pending"
      <4>1. worker.run \in RunId /\ IsOpen(db.execs[worker.run][t])
        BY <1>4, <3>1 DEF TypeInv, Named, StartProbeExecution, IsOpen
      <4> QED BY <1>0, <3>1, <4>1, BeginQueue
    <3>2. CASE db' = db
      BY <3>2
    <3> QED BY <1>4, <3>1, <3>2 DEF StartProbeExecution
  <2> QED BY <1>4, <1>a, <2>1, <2>2 DEF StartProbeExecution
<1>5. ASSUME NEW o \in TerminalStatus, RecordOutcome(o) PROVE FilesInv'
  <2> DEFINE made == IF IsCurrent(db, worker.run) /\ o = "succeeded"
                     THEN {<<worker.run, worker.target>>} ELSE {}
  <2>1. /\ worker.pc = "probing" /\ MayComplete /\ Commit(o) /\ removing = Nothing
        /\ up /\ up' = up /\ files' = files /\ resultDir' = resultDir
    BY <1>5 DEF RecordOutcome, LockFree
  <2>2. made = {} /\ Writing = {}
    BY <1>5, <2>1 DEF RecordOutcome, Writing
  <2>3. worker'.pc # "commit"
    BY <2>1, CommitStepType
  <2>4. /\ Referenced(db') \subseteq Referenced(db) \cup made
        /\ removing'.names = (Referenced(db) \cup made) \ Referenced(db')
    BY <2>1, CommitRemoves, Zenon
  <2> HIDE DEF made
  <2> QED BY <1>e, <2>1, <2>2, <2>3, <2>4
<1>6. CASE OutcomeRefused
  BY <1>6, <1>a DEF OutcomeRefused, Fail, IdleWorker
<1>7. CASE WriteProbeResult
  <2>1. CASE Fail /\ files' = files
    BY <1>7, <1>a, <2>1 DEF WriteProbeResult, Fail, IdleWorker
  <2>2. CASE /\ resultDir /\ files' = files \cup {<<worker.run, worker.target>>}
             /\ worker' = [worker EXCEPT !.pc = "commit"]
    <3>1. worker'.pc = "commit" /\ worker'.run = worker.run /\ worker'.target = worker.target
      BY <2>2 DEF TypeInv, TypeOK
    <3>2. /\ up /\ removing = Nothing /\ MayComplete /\ IsCurrent(db, worker.run) /\ Writing = {}
          /\ db' = db /\ removing' = removing /\ resultDir' = resultDir /\ up' = up
      BY <1>7 DEF WriteProbeResult, LockFree, Writing
    <3>3. MayComplete' /\ IsCurrent(db, worker.run)' /\ Writing' = {<<worker.run, worker.target>>}
      BY <3>1, <3>2 DEF MayComplete, IsCurrent, Writing
    <3> QED BY <1>0, <2>2, <3>1, <3>2, <3>3 DEF FilesInv
  <2> QED BY <1>7, <2>1, <2>2 DEF WriteProbeResult
<1>8. CASE CommitProbeResult
  <2> DEFINE made == {<<worker.run, worker.target>>}
  <2>1. /\ worker.pc = "commit" /\ "succeeded" \in TerminalStatus /\ Commit("succeeded")
        /\ MayComplete /\ IsCurrent(db, worker.run) /\ removing = Nothing
        /\ made \subseteq files /\ Writing = made
    BY <1>8 DEF CommitProbeResult, FilesInv, TerminalStatus, Writing
  <2>2. /\ Referenced(db') \subseteq Referenced(db) \cup made
        /\ removing'.names = (Referenced(db) \cup made) \ Referenced(db')
    BY <2>1, CommitRemoves
  <2>3. worker'.pc # "commit"
    BY <2>1, CommitStepType
  <2> HIDE DEF made
  <2> QED BY <1>8, <1>c, <2>1, <2>2, <2>3 DEF CommitProbeResult
<1>9. CASE RemoveObsolete
  <2>1. /\ up /\ removing # Nothing /\ files' = files \ removing.names /\ removing' = Nothing
        /\ ~resultDir' => ~resultDir \/ files' = {}
        /\ db' = db /\ up' = up /\ worker' = worker
    BY <1>9, Zenon DEF RemoveObsolete
  <2>2. worker.pc # "commit" /\ Writing = {} /\ Writing' = {}
    BY <2>1 DEF FilesInv, Writing
  <2> QED BY <1>0, <2>1, <2>2 DEF FilesInv
<1>10. CASE FinishProbeRun
  <2>1. Referenced(db') = Referenced(db)
    <3>1. CASE db.active = worker.run /\ db' = FinishRun(db, worker.run)
      <4>1. worker.run \in RunId
        BY <1>10 DEF TypeInv, Named, FinishProbeRun
      <4>2. db.runs[worker.run].status = "running"
        BY <1>0, <3>1, <4>1 DEF Consistent
      <4> QED BY <1>0, <3>1, <4>1, <4>2, FinishFiles
    <3>2. CASE db' = db
      BY <3>2
    <3> QED BY <1>10, <3>1, <3>2 DEF FinishProbeRun
  <2>2. worker'.pc # "commit"
    BY <1>10 DEF FinishProbeRun, Fail, IdleWorker
  <2> QED BY <1>10, <1>a, <2>1, <2>2 DEF FinishProbeRun
<1>11. ASSUME NEW g \in Generation, g > db.gen, ApplyConfiguration(g) PROVE FilesInv'
  <2>1. Referenced(db') = {}
    BY <1>0, <1>11, ChangeQueue DEF ApplyConfiguration
  <2>2. removing'.names = IF resultDir THEN files ELSE {}
    BY <1>11, <2>1 DEF ApplyConfiguration
  <2>3. /\ up /\ up' = up /\ files' = files /\ resultDir' = resultDir
        /\ worker' = worker /\ worker.pc # "commit"
    BY <1>11 DEF ApplyConfiguration, LockFree
  <2> QED BY <2>1, <2>2, <2>3 DEF FilesInv
<1>12. CASE AcknowledgeProbeArtifact
  <2> DEFINE gone == IF sent.kind = "execution" /\ ~Superseded(db, sent, sent.rev)
                     THEN {<<sent.run, sent.target>>} ELSE {}
  <2>1. Referenced(db') = Referenced(db) \ gone
    <3>1. db' = Acknowledge(db, sent, sent.rev) /\ NamedKey(sent)
      BY <1>12 DEF AcknowledgeProbeArtifact, TypeInv, Named
    <3> QED BY <1>0, <3>1, AcknowledgeFiles
  <2>2. removing'.names = gone \cap Referenced(db)
    BY <1>12 DEF AcknowledgeProbeArtifact
  <2>3. /\ up /\ up' = up /\ files' = files /\ resultDir' = resultDir
        /\ worker' = worker /\ worker.pc # "commit" /\ removing = Nothing /\ Writing = {}
    BY <1>12 DEF AcknowledgeProbeArtifact, LockFree, Writing
  <2> HIDE DEF gone
  <2> QED BY <1>0, <1>c, <2>1, <2>2, <2>3
<1>13. ASSUME NEW k \in QueuedKeys(db), NextProbeArtifact(k) PROVE FilesInv'
  BY <1>13, <1>b DEF NextProbeArtifact
<1>14. CASE UploadFails \/ UploadRefused \/ RequestStop
  BY <1>14, <1>b DEF UploadFails, UploadRefused, RequestStop
<1>15. CASE Crash \/ Stop
  <2>1. ~up' /\ worker' = IdleWorker /\ removing' = Nothing /\ files' = files /\ resultDir' = resultDir
    BY <1>15 DEF Crash, Stop, ProcessGone
  <2> QED BY <1>0, <2>1 DEF FilesInv, IdleWorker
<1>16. ASSUME NEW x \in files, LoseResultFile(x) PROVE FilesInv'
  <2>1. /\ ~up /\ ~up' /\ worker' = worker /\ removing' = removing /\ db' = db
        /\ files' = files \ {x} /\ resultDir' = resultDir
    BY <1>16 DEF LoseResultFile
  <2> QED BY <1>0, <2>1 DEF FilesInv, IdleWorker
<1>17. CASE Open
  <2>1. Referenced(db') = Referenced(db) \cap files
    BY <1>0, <1>17, UnreadableQueue DEF Open
  <2>2. /\ removing'.names = files \ Referenced(db') /\ files' = files /\ resultDir'
        /\ up' /\ worker' = IdleWorker
    BY <1>17 DEF Open, FilesInv
  <2> QED BY <2>1, <2>2 DEF FilesInv, IdleWorker
<1>18. CASE UNCHANGED vars
  BY <1>18, <1>b DEF vars
<1> QED
  BY <1>1, <1>2, <1>3, <1>4, <1>5, <1>6, <1>7, <1>8, <1>9, <1>10, <1>11, <1>12, <1>13,
     <1>14, <1>15, <1>16, <1>17, <1>18 DEF Next, Local, Execute

-----------------------------------------------------------------------------
(* The artifact in flight                                                  *)

\* The queue never falls behind the artifact that is in flight: its record is gone or
\* at least at its revision, and a gap of its name is queued at its revision at least,
\* since the execution that names it is not dropped again.
SentInv ==
    /\ sent.kind = "run" =>
         /\ sent.run <= issued
         /\ db.runs[sent.run] = NoRun \/ db.runs[sent.run].rev >= sent.rev
    /\ sent.kind = "execution" =>
         /\ sent.run <= issued
         /\ \/ db.runs[sent.run] = NoRun
            \/ db.execs[sent.run][sent.target].rev >= sent.rev
    /\ sent.kind = "gap" =>
         /\ sent.run # 0 /\ sent.run <= issued /\ ~Live(db, sent.run, sent.target)
         /\ db.gaps[sent.target].id = sent.run => db.gapQ[sent.target] >= sent.rev

\* What NextProbeArtifact reads.
LEMMA ArtifactSent ==
  ASSUME NEW st \in Store, NEW n \in Nat, QueueInv(st, n), NEW k \in QueuedKeys(st), NEW a,
         a = Artifact(st, k)
  PROVE  /\ a.kind = "run" =>
              a.run <= n /\ st.runs[a.run].rev >= a.rev
         /\ a.kind = "execution" =>
              a.run <= n /\ st.execs[a.run][a.target].rev >= a.rev
         /\ a.kind = "gap" =>
              /\ a.run # 0 /\ a.run <= n /\ ~Live(st, a.run, a.target)
              /\ st.gaps[a.target].id = a.run => st.gapQ[a.target] >= a.rev
<1>1. /\ a.kind = k.kind /\ a.run = k.run /\ a.target = k.target
      /\ a.rev = QueuedRevision(st, k)
  BY DEF Artifact
<1>5. \A r \in RunId : r \in Nat
  BY RunIdFinite
<1>2. CASE k.kind = "run"
  <2>1. k.run \in RunId /\ st.runQ[k.run] # 0 /\ a.rev = st.runQ[k.run]
    BY <1>1, <1>2 DEF QueuedKeys, QueuedRevision
  <2>2. ~(k.run > n) /\ st.runs[k.run].rev = st.runQ[k.run] /\ st.runQ[k.run] \in Nat
    BY <2>1, Exists, Fields DEF QueueInv, Records
  <2> QED BY <1>1, <1>2, <1>5, <2>1, <2>2
<1>3. CASE k.kind = "execution"
  <2>1. /\ k.run \in RunId /\ k.target \in Targets /\ st.execQ[k.run][k.target] # 0
        /\ a.rev = st.execQ[k.run][k.target]
    BY <1>1, <1>3 DEF QueuedKeys, QueuedRevision, AllExecutions
  <2>2. /\ ~(k.run > n) /\ st.execQ[k.run][k.target] \in Nat
        /\ st.execs[k.run][k.target].rev = st.execQ[k.run][k.target]
    BY <2>1, Exists, Fields DEF QueueInv, Records
  <2> QED BY <1>1, <1>3, <1>5, <2>1, <2>2
<1>4. CASE k.kind = "gap"
  <2>1. PICK u \in Targets : st.gapQ[u] # 0 /\ k = [kind |-> "gap", run |-> st.gaps[u].id, target |-> u]
    BY <1>4 DEF QueuedKeys
  <2>2. k.run = st.gaps[u].id /\ k.target = u
    BY <2>1
  <2>3. st.gaps[u] # NoGap
    BY <2>1 DEF QueueInv, Gaps, NoGap
  <2>4. a.rev = st.gapQ[u]
    BY <1>1, <1>4, <2>2 DEF QueuedRevision
  <2>5. /\ st.gaps[u].id # 0 /\ st.gaps[u].id <= n /\ ~Live(st, st.gaps[u].id, u)
        /\ st.gapQ[u] \in Nat
    BY <2>3, Fields DEF QueueInv, Gaps
  <2> QED BY <1>1, <1>4, <2>2, <2>4, <2>5
<1> QED BY <1>1, <1>2, <1>3, <1>4 DEF QueuedKeys

\* How a step changes what is in flight, and the number of runs.
LEMMA SentChanges ==
  ASSUME TypeInv, [Next]_vars
  PROVE  /\ issued \in Nat /\ issued' \in Nat /\ issued <= issued'
         /\ \/ sent' \in {sent, NoArtifact}
            \/ db' = db /\ issued' = issued /\ \E k \in QueuedKeys(db) : sent' = Artifact(db, k)
<1>0. issued \in Nat
  BY DEF TypeInv, TypeOK
<1>1. \/ issued' = issued
      \/ issued' = issued + 1
  BY Zenon DEF Next, Local, Execute, vars, StartProbeRun, ReconcileProbeRun, StartProbeExecution,
         RecordOutcome, OutcomeRefused, WriteProbeResult, CommitProbeResult, FinishProbeRun,
         AbandonRun, RemoveObsolete, NextProbeArtifact, UploadFails, Crash, RequestStop, Stop,
         LoseResultFile, Open, ApplyConfiguration, AcknowledgeProbeArtifact, UploadRefused
<1>2. \/ sent' \in {sent, NoArtifact}
      \/ db' = db /\ issued' = issued /\ \E k \in QueuedKeys(db) : sent' = Artifact(db, k)
  BY Zenon DEF Next, Local, Execute, vars, StartProbeRun, ReconcileProbeRun, StartProbeExecution,
         RecordOutcome, OutcomeRefused, WriteProbeResult, CommitProbeResult, FinishProbeRun,
         AbandonRun, RemoveObsolete, NextProbeArtifact, UploadFails, Crash, RequestStop, Stop,
         LoseResultFile, Open, ApplyConfiguration, AcknowledgeProbeArtifact, UploadRefused,
         ProcessGone
<1> QED BY <1>0, <1>1, <1>2

\* Every step keeps what is known of the artifact that was sent.
LEMMA SentStep ==
  ASSUME TypeInv, TypeInv', SentInv, QueueInv(db, issued), Kept, [Next]_vars
  PROVE  SentInv'
<1>0. /\ db \in Store /\ db' \in Store /\ issued \in Nat /\ issued' \in Nat /\ issued <= issued'
      /\ Evolves(db, db', issued)
  BY SentChanges DEF TypeInv, TypeOK, Kept
<1>a. /\ \A r \in RunId : r \in Nat
      /\ sent.kind # "none" => NamedKey(sent)
  BY RunIdFinite DEF TypeInv, Named, NoArtifact
<1>1. CASE sent' = sent
  <2>1. sent.run \in RunId \cup {0} /\ sent.rev \in Nat
    BY DEF TypeInv, TypeOK, ArtifactRecord
  <2>2. CASE sent.kind = "run"
    <3>1. sent.run \in RunId /\ ~(sent.run > issued) /\ sent.run <= issued'
      BY <1>0, <1>a, <2>2 DEF NamedKey, SentInv
    <3>2. RunEvolves(db, db', sent.run)
      BY <1>0, <3>1 DEF Evolves
    <3>3. db.runs[sent.run].rev \in Nat /\ db'.runs[sent.run].rev \in Nat
      BY <1>0, <3>1, Fields
    <3>4. db.runs[sent.run] = NoRun \/ db.runs[sent.run].rev >= sent.rev
      BY <2>2 DEF SentInv
    <3>5. \/ db'.runs[sent.run] = NoRun
          \/ db.runs[sent.run] # NoRun /\ db'.runs[sent.run].rev >= db.runs[sent.run].rev
      BY <3>2 DEF RunEvolves
    <3>6. db'.runs[sent.run] = NoRun \/ db'.runs[sent.run].rev >= sent.rev
      BY <2>1, <3>3, <3>4, <3>5
    <3> QED BY <1>1, <2>2, <3>1, <3>6 DEF SentInv
  <2>3. CASE sent.kind = "execution"
    <3>1. /\ sent.run \in RunId /\ sent.target \in Targets
          /\ ~(sent.run > issued) /\ sent.run <= issued'
      BY <1>0, <1>a, <2>3 DEF NamedKey, SentInv
    <3>2. RunEvolves(db, db', sent.run)
      BY <1>0, <3>1 DEF Evolves
    <3>3. /\ db.execs[sent.run][sent.target].rev \in Nat
          /\ db'.execs[sent.run][sent.target].rev \in Nat
      BY <1>0, <3>1, Fields
    <3>4. \/ db.runs[sent.run] = NoRun
          \/ db.execs[sent.run][sent.target].rev >= sent.rev
      BY <2>3 DEF SentInv
    <3>5. \/ db'.runs[sent.run] = NoRun
          \/ /\ db.runs[sent.run] # NoRun
             /\ db'.execs[sent.run][sent.target].rev >= db.execs[sent.run][sent.target].rev
      BY <3>1, <3>2 DEF RunEvolves
    <3>6. \/ db'.runs[sent.run] = NoRun
          \/ db'.execs[sent.run][sent.target].rev >= sent.rev
      BY <2>1, <3>3, <3>4, <3>5
    <3> QED BY <1>1, <2>3, <3>1, <3>6 DEF SentInv
  <2>4. CASE sent.kind = "gap"
    <3>1. /\ sent.run \in RunId /\ sent.target \in Targets
          /\ ~(sent.run > issued) /\ sent.run <= issued'
      BY <1>0, <1>a, <2>1, <2>4 DEF NamedKey, SentInv
    <3>2. ~Live(db, sent.run, sent.target) /\ ~Live(db', sent.run, sent.target) /\ sent.run # 0
      BY <1>0, <2>4, <3>1 DEF Evolves, SentInv
    <3>3. db.gapQ[sent.target] \in Nat /\ db'.gapQ[sent.target] \in Nat
      BY <1>0, <3>1, Fields
    <3>4. db'.gaps[sent.target].id = sent.run =>
             db.gaps[sent.target].id = sent.run /\ db'.gapQ[sent.target] >= db.gapQ[sent.target]
      BY <1>0, <3>1, <3>2, <3>3 DEF Evolves, GapEvolves
    <3> QED BY <1>1, <2>1, <2>4, <3>1, <3>2, <3>3, <3>4 DEF SentInv
  <2> QED BY <1>1, <2>2, <2>3, <2>4 DEF SentInv
<1>2. CASE sent' = NoArtifact
  BY <1>2 DEF SentInv, NoArtifact
<1>3. CASE db' = db /\ issued' = issued /\ \E k \in QueuedKeys(db) : sent' = Artifact(db, k)
  BY <1>0, <1>3, ArtifactSent DEF SentInv
<1> QED BY <1>1, <1>2, <1>3, SentChanges

-----------------------------------------------------------------------------
(* The theorems                                                            *)

\* The inductive invariant of the Agent's complete-probe process.
ProbeInv == TypeInv /\ RunInv /\ QueueInv(db, issued) /\ FilesInv /\ SentInv

\* Every step keeps the whole invariant.
LEMMA ProbeStep ==
  ASSUME ProbeInv, [Next]_vars
  PROVE  ProbeInv' /\ Kept
<1>1. TypeInv' /\ RunInv'
  BY TypeStep, RunStep DEF ProbeInv
<1>2. Kept
  <2>1. Committing
    BY DEF ProbeInv, FilesInv, Committing
  <2> QED BY <2>1, QueueStep DEF ProbeInv
<1>3. FilesInv'
  BY FilesStep DEF ProbeInv
<1>4. SentInv'
  BY <1>1, <1>2, SentStep DEF ProbeInv
<1> QED BY <1>1, <1>2, <1>3, <1>4 DEF ProbeInv, Kept

\* A new Agent.
LEMMA ProbeStart == Init => ProbeInv
<1> SUFFICES ASSUME Init PROVE QueueInv(db, issued) /\ FilesInv /\ SentInv
  BY TypeStart, RunStart DEF ProbeInv, TypeInv
<1>1. QueueInv(db, issued)
  BY EmptyQueue DEF Init
<1>2. Referenced(db) = {}
  BY DEF Init, EmptyStore, Referenced, AllExecutions, Exec, NoExec
<1>3. FilesInv
  BY <1>2 DEF Init, FilesInv, Nothing, IdleWorker, Writing
<1>4. SentInv
  BY DEF Init, SentInv, NoArtifact
<1> QED BY <1>1, <1>3, <1>4

\* Records and queue, files and artifact in flight keep to the invariant, whatever the
\* order of runs, uploads, resets, crashes, stops and lost files.
THEOREM ProbeInvariant == Spec => []ProbeInv
<1>1. ProbeInv /\ [Next]_vars => ProbeInv'
  BY ProbeStep
<1> QED BY <1>1, ProbeStart, PTL DEF Spec

\* Whatever the uploader picks next can be decoded and read.
THEOREM UploadsReadable == Spec => []QueueReadable
<1>1. ASSUME ProbeInv PROVE QueueReadable
  <2>0. db \in Store /\ QueueInv(db, issued) /\ Records(db, issued) /\ Gaps(db, issued)
    BY <1>1 DEF ProbeInv, QueueInv, TypeInv, TypeOK
  <2>1. \A r \in RunId : db.runQ[r] # 0 => db.runs[r].rev = db.runQ[r]
    BY <2>0 DEF Records
  <2>2. ASSUME NEW x \in AllExecutions, db.execQ[x[1]][x[2]] # 0
        PROVE  /\ x[2] \in db.runs[x[1]].targets
               /\ Exec(db, x).rev = db.execQ[x[1]][x[2]]
               /\ up /\ Exec(db, x).file => x \in files
    <3>1. PICK r \in RunId, t \in Targets : x = <<r, t>>
      BY DEF AllExecutions
    <3>2. t \in db.runs[r].targets /\ db.execs[r][t].rev = db.execQ[r][t]
      BY <2>0, <2>2, <3>1, Exists DEF Records
    <3>3. up /\ Exec(db, x).file => x \in files
      BY <1>1 DEF ProbeInv, FilesInv, Referenced
    <3> QED BY <3>1, <3>2, <3>3 DEF Exec
  <2>3. \A t \in Targets : db.gapQ[t] = db.gaps[t].rev
    BY <2>0 DEF Gaps
  <2> QED BY <2>1, <2>2, <2>3 DEF QueueReadable
<1> QED BY <1>1, ProbeInvariant, PTL

\* After a history reset nothing of the old generation is left to upload.
THEOREM NothingStale == Spec => []NoStaleArtifact
<1>1. ASSUME ProbeInv PROVE NoStaleArtifact
  <2>1. Records(db, issued) /\ Gaps(db, issued)
    BY <1>1 DEF ProbeInv, QueueInv
  <2>2. \A t \in Targets : db.gapQ[t] # 0 => db.gaps[t].gen = db.gen
    BY <2>1 DEF Gaps, NoGap
  <2> QED BY <2>1, <2>2 DEF NoStaleArtifact, Records
<1> QED BY <1>1, ProbeInvariant, PTL

\* At most MaxPending complete results of a target wait for upload.
THEOREM LimitHolds == Spec => []PendingBounded
<1>1. ProbeInv => PendingBounded
  BY DEF ProbeInv, QueueInv, Bounded, PendingBounded
<1> QED BY <1>1, ProbeInvariant, PTL

\* A sequence names one execution of a target and a generation, and a gap counts no
\* more executions than its bounds enclose.
THEOREM SequencesNameOne == Spec => []SequencesUnique
<1>1. ASSUME ProbeInv PROVE SequencesUnique
  <2>0. db \in Store /\ Sequences(db) /\ Gaps(db, issued)
    BY <1>1 DEF ProbeInv, QueueInv, TypeInv, TypeOK
  <2>1. ASSUME NEW t \in Targets
        PROVE  /\ db.gaps[t].last <= db.seqs[t]
               /\ db.gaps[t].count <= db.gaps[t].last - db.gaps[t].first + 1
    <3>1. /\ db.gaps[t].first \in Nat /\ db.gaps[t].last \in Nat /\ db.gaps[t].count \in Nat
          /\ db.gaps[t].first <= db.gaps[t].last /\ db.gaps[t].last <= db.seqs[t]
      BY <2>0, Fields DEF Gaps
    <3> DEFINE span == db.gaps[t].first .. db.gaps[t].last
    <3>2. PICK X \in SUBSET span : Cardinality(X) = db.gaps[t].count
      BY <2>0 DEF Gaps, Counted
    <3>3. IsFiniteSet(span) /\ Cardinality(span) = db.gaps[t].last - db.gaps[t].first + 1
      <4> DEFINE a == db.gaps[t].first
                 b == db.gaps[t].last
      <4>1. a \in Int /\ b \in Int /\ ~(a > b)
        BY <3>1
      <4> HIDE DEF a, b
      <4>2. IsFiniteSet(a .. b) /\ Cardinality(a .. b) = b - a + 1
        BY <4>1, FS_Interval
      <4> QED BY <4>2 DEF a, b
    <3>4. Cardinality(X) <= Cardinality(span)
      BY <3>3, FS_Subset, Zenon
    <3> QED BY <3>1, <3>2, <3>3, <3>4
  <2>2. ASSUME NEW t \in Targets, NEW r \in RunId, db.runs[r].gen = db.gen
        PROVE  /\ db.execs[r][t].seq <= db.seqs[t]
               /\ \A q \in RunId : q # r /\ db.runs[q].gen = db.gen /\ db.execs[q][t].seq # 0
                                      => db.execs[q][t].seq # db.execs[r][t].seq
    BY <2>0, <2>2 DEF Sequences
  <2> QED BY <2>1, <2>2 DEF SequencesUnique
<1> QED BY <1>1, ProbeInvariant, PTL

\* AcknowledgeProbeArtifact is never given a receipt that is ahead of the queue.
THEOREM ReceiptsFollow == Spec => []ReceiptNotAhead
<1>1. ASSUME ProbeInv, sent # NoArtifact
      PROVE  QueuedRevision(db, sent) = 0 \/ QueuedRevision(db, sent) >= sent.rev
  <2>0. /\ db \in Store /\ QueueInv(db, issued) /\ Records(db, issued)
        /\ SentInv /\ NamedKey(sent)
    BY <1>1 DEF ProbeInv, QueueInv, TypeInv, TypeOK, Named
  <2>1. CASE sent.kind = "run"
    <3>1. db.runQ[sent.run] # 0 => /\ db.runs[sent.run].rev = db.runQ[sent.run]
                                   /\ db.runs[sent.run] # NoRun
      BY <2>0, <2>1, Exists DEF Records, NamedKey
    <3> QED BY <2>0, <2>1, <3>1 DEF SentInv, QueuedRevision
  <2>2. CASE sent.kind = "execution"
    <3>1. db.execQ[sent.run][sent.target] # 0 =>
             /\ db.execs[sent.run][sent.target].rev = db.execQ[sent.run][sent.target]
             /\ db.runs[sent.run] # NoRun
      <4>1. sent.run \in RunId /\ sent.target \in Targets
        BY <2>0, <2>2 DEF NamedKey
      <4>2. db.runs[sent.run].gen = db.gen => db.runs[sent.run] # NoRun
        BY <2>0, <4>1, Exists
      <4> QED BY <2>0, <4>1, <4>2 DEF Records
    <3> QED BY <2>0, <2>2, <3>1 DEF SentInv, QueuedRevision
  <2>3. CASE sent.kind = "gap"
    BY <2>0, <2>3 DEF SentInv, QueuedRevision
  <2> QED BY <2>0, <2>1, <2>2, <2>3 DEF NamedKey
<1>2. ProbeInv => ReceiptNotAhead
  BY <1>1 DEF ReceiptNotAhead
<1> QED BY <1>2, ProbeInvariant, PTL

\* When no operation is under way every file in the result directory has a record.
THEOREM FilesRecorded == Spec => []NoOrphanFile
<1>1. ProbeInv => NoOrphanFile
  BY DEF ProbeInv, FilesInv, NoOrphanFile, LockFree, Nothing, Writing
<1> QED BY <1>1, ProbeInvariant, PTL

\* A closed run and a terminal execution stay as they are while their record exists.
THEOREM OutcomesStay == Spec => OutcomesFinal
<1> DEFINE Final ==
      \A r \in RunId :
        /\ db.runs[r].status \in FinalRunStatus /\ db'.runs[r].status # "none"
              => db'.runs[r] = db.runs[r]
        /\ \A t \in Targets :
              Terminal(db.execs[r][t]) /\ db'.execs[r][t].status # "none"
                 => /\ db'.execs[r][t].status = db.execs[r][t].status
                    /\ db'.execs[r][t].rev = db.execs[r][t].rev
<1>1. ASSUME ProbeInv, [Next]_vars PROVE Final
  <2>1. Records(db, issued) /\ Evolves(db, db', issued)
    BY <1>1, ProbeStep DEF ProbeInv, QueueInv, Kept
  <2>2. ~Terminal(NoExec) /\ NoExec.status = "none" /\ NoRun.targets = {}
        /\ NoRun.status = "none" /\ "none" \notin FinalRunStatus
    BY DEF NoExec, NoRun, Terminal, TerminalStatus, FinalRunStatus
  <2> SUFFICES ASSUME NEW r \in RunId
      PROVE  /\ db.runs[r].status \in FinalRunStatus /\ db'.runs[r].status # "none"
                   => db'.runs[r] = db.runs[r]
             /\ \A t \in Targets :
                   Terminal(db.execs[r][t]) /\ db'.execs[r][t].status # "none"
                      => /\ db'.execs[r][t].status = db.execs[r][t].status
                         /\ db'.execs[r][t].rev = db.execs[r][t].rev
    OBVIOUS
  <2>3. CASE r > issued
    <3>1. db.runs[r] = NoRun /\ \A t \in Targets : db.execs[r][t] = NoExec
      BY <2>1, <2>2, <2>3 DEF Records
    <3> QED BY <2>2, <3>1
  <2>4. CASE ~(r > issued)
    <3>1. RunEvolves(db, db', r)
      BY <2>1, <2>4 DEF Evolves
    <3> QED BY <2>2, <3>1 DEF RunEvolves
  <2> QED BY <2>3, <2>4
<1>2. ASSUME ProbeInv, [Next]_vars PROVE [Final]_vars
  BY <1>1, <1>2
<1> QED BY <1>2, ProbeInvariant, PTL DEF Spec, OutcomesFinal

\* An eviction never drops a newer result to keep an older one.
THEOREM OldestLeaveFirst == Spec => OldestEvictedFirst
<1> DEFINE Ordered ==
      \A t \in Targets :
          up /\ up' /\ db.gaps[t].rev < db'.gaps[t].rev =>
             LET left == {r \in RunId :
                            /\ db.execQ[r][t] # 0 \/ db.execs[r][t].status = "pending"
                            /\ db'.execQ[r][t] = 0 /\ db'.execs[r][t].status # "pending"}
             IN  \A r \in left : \A q \in Pending(db', t) :
                    db.execs[r][t].seq < db'.execs[q][t].seq
<1>1. ASSUME ProbeInv, [Next]_vars PROVE Ordered
  <2>1. Kept
    BY <1>1, ProbeStep
  <2> QED BY <2>1 DEF Kept, EvictionOrdered
<1> QED BY <1>1, ProbeInvariant, PTL DEF Spec, OldestEvictedFirst

-----------------------------------------------------------------------------
(* Gaps and records that are uploaded again                                *)

\* The gap of a target begins no later than any execution that may still be dropped,
\* so an eviction extends it at its end only.
GapLeads(st) ==
    \A t \in Targets, r \in RunId :
        st.gaps[t].id # 0 /\ Live(st, r, t) => st.gaps[t].first <= st.execs[r][t].seq

\* A gap that grows keeps its first sequence (IngestGap refuses another one).
GapStays(st, new) ==
    \A t \in Targets : new.gaps[t].id # 0 /\ new.gaps[t].id = st.gaps[t].id =>
        new.gaps[t].first = st.gaps[t].first

\* A finished run has the status its executions add up to, and they are all closed.
RunAddsUp(st, r) ==
    st.runs[r].status \in FinalRunStatus =>
        /\ st.runs[r].status = FinalStatus(st, r)
        /\ \A t \in st.runs[r].targets : Terminal(st.execs[r][t])

AddsUp(st) == \A r \in RunId : RunAddsUp(st, r)

\* A transaction that adds no gap and extends none.
LEMMA GapLeadsKept ==
  ASSUME NEW st \in Store, NEW new \in Store, NEW n \in Nat, Records(new, n),
         Evolves(st, new, n), GapLeads(st),
         \A t \in Targets : new.gaps[t].id = 0 \/ new.gaps[t] = st.gaps[t]
  PROVE  GapLeads(new) /\ GapStays(st, new)
<1>1. ASSUME NEW t \in Targets, NEW r \in RunId, new.gaps[t].id # 0, Live(new, r, t)
      PROVE  new.gaps[t].first <= new.execs[r][t].seq
  <2>1. new.runs[r] # NoRun /\ ~(r > n)
    BY <1>1, Exists DEF Live
  <2>2. Live(st, r, t) /\ RunEvolves(st, new, r)
    BY <1>1, <2>1 DEF Evolves
  <2>3. new.execs[r][t].seq = st.execs[r][t].seq
    BY <2>1, <2>2 DEF RunEvolves
  <2> QED BY <1>1, <2>2, <2>3 DEF GapLeads
<1> QED BY <1>1 DEF GapLeads, GapStays

\* The limit evicts the oldest results, so that the gap it extends keeps its beginning
\* and the gap it makes begins before what stays.
LEMMA LimitLeads ==
  ASSUME NEW st \in Store, NEW closed \in Store, NEW n \in Nat, QueueInv(st, n),
         NEW r \in RunId, NEW T \in SUBSET Targets, Moves(st, closed, r, T),
         \A t \in T : Terminal(closed.execs[r][t]),
         \A q \in RunId, t \in Targets : IsOpen(st.execs[q][t]) => q = r,
         GapLeads(st)
  PROVE  LET new == IF IsCurrent(st, r) THEN EnforceLimit(closed, T) ELSE closed
         IN  GapLeads(new) /\ GapStays(st, new)
<1> DEFINE D == OverLimit(closed, T)
           new == IF IsCurrent(st, r) THEN EnforceLimit(closed, T) ELSE closed
<1>1. /\ new \in Store /\ QueueInv(new, n) /\ Evolves(st, new, n)
      /\ \A u \in Targets : new.gaps[u] # st.gaps[u] => u \in T
      /\ \A u \in T, a \in RunId, q \in RunId :
           /\ new.gaps[u] # st.gaps[u] /\ new.execQ[a][u] = 0
           /\ a = r \/ st.execQ[a][u] # 0
           /\ q \in Pending(new, u)
           => st.execs[a][u].seq < new.execs[q][u].seq
  BY MovesLimited
<1>2. /\ Records(closed, n) /\ Sequences(closed) /\ Gaps(closed, n) /\ Evolves(st, closed, n)
      /\ Records(new, n) /\ Gaps(st, n)
  BY <1>1, ExecutionMoves DEF QueueInv
<1>3. closed.gaps = st.gaps
  BY DEF Moves
<1>4. CASE ~IsCurrent(st, r)
  <2>1. new = closed
    BY <1>4
  <2> HIDE DEF new
  <2> QED BY <1>2, <1>3, <2>1, GapLeadsKept DEF new
<1>5. CASE IsCurrent(st, r)
  <2>1. new = DropExecutions(closed, D)
    BY <1>5 DEF EnforceLimit
  <2>2. /\ D \in SUBSET AllExecutions
        /\ \A q \in RunId, t \in Targets :
             <<q, t>> \in D => t \in T /\ closed.execQ[q][t] # 0 /\ Terminal(closed.execs[q][t])
    BY OverLimitQueued DEF Pending
  <2> HIDE DEF D, new
  <2>3. /\ Evolves(closed, new, n)
        /\ \A q \in RunId, t \in Targets :
             new.execQ[q][t] = IF <<q, t>> \in D THEN 0 ELSE closed.execQ[q][t]
        /\ \A t \in Targets :
             /\ RunsOf(D, t) = {} => new.gaps[t] = closed.gaps[t]
             /\ RunsOf(D, t) # {} => new.gaps[t] = ExtendGap(closed, t, RunsOf(D, t))
    BY <1>2, <2>1, <2>2, DropQueue
  <2>4. ASSUME NEW u \in Targets, RunsOf(D, u) # {}
        PROVE  /\ \A q \in RunId : new.gaps[u].id # 0 /\ Live(new, q, u) =>
                     new.gaps[u].first <= new.execs[q][u].seq
               /\ new.gaps[u].id # 0 /\ new.gaps[u].id = st.gaps[u].id =>
                     new.gaps[u].first = st.gaps[u].first
    <3> DEFINE R == RunsOf(D, u)
               gap == new.gaps[u]
               old == st.gaps[u]
    <3>1. R \in SUBSET RunId /\ R # {} /\ \A a \in R : <<a, u>> \in D
      BY <2>4 DEF RunsOf
    <3>2. gap = ExtendGap(closed, u, R) /\ old = closed.gaps[u]
      BY <1>3, <2>3, <2>4
    <3> HIDE DEF R, gap, old
    <3>3. /\ \A a \in R : gap.first <= closed.execs[a][u].seq
          /\ gap.first = old.first \/ \E a \in R : gap.first = closed.execs[a][u].seq
          /\ old # NoGap => gap.first <= old.first
          /\ old = NoGap => gap.id \in R
      BY <3>1, <3>2, ExtendGapFields
    <3>4. ASSUME NEW a \in R
          PROVE  /\ a \in RunId /\ a # 0 /\ u \in T /\ new.execQ[a][u] = 0
                 /\ closed.execQ[a][u] # 0 /\ (a = r \/ st.execQ[a][u] # 0)
                 /\ closed.execs[a][u].seq = st.execs[a][u].seq /\ Live(st, a, u)
      <4>1. a \in RunId /\ a # 0 /\ u \in T /\ closed.execQ[a][u] # 0 /\ new.execQ[a][u] = 0
        <5>1. a \in RunId /\ <<a, u>> \in D
          BY <3>1
        <5>2. a # 0
          BY <5>1 DEF RunId
        <5> QED BY <2>2, <2>3, <5>1, <5>2
      <4>2. a = r \/ st.execQ[a][u] # 0
        <5>1. a # r => closed.execQ[a][u] = st.execQ[a][u]
          BY <4>1 DEF Moves
        <5> QED BY <4>1, <5>1
      <4>3. closed.execs[a][u].seq = st.execs[a][u].seq
        <5>1. a # r => closed.execs[a][u] = st.execs[a][u]
          BY <4>1 DEF Moves
        <5>2. closed.execs[r][u].seq = st.execs[r][u].seq
          BY <4>1 DEF Moves
        <5> QED BY <5>1, <5>2
      <4>4. closed.runs[a].gen = closed.gen
        BY <1>2, <4>1 DEF Records
      <4>5. Live(closed, a, u) /\ ~(a > n)
        BY <1>2, <4>1, <4>4, Exists DEF Live
      <4>6. Live(st, a, u)
        BY <1>2, <4>1, <4>5 DEF Evolves
      <4> QED BY <4>1, <4>2, <4>3, <4>6
    <3>5. /\ old.first \in Nat /\ gap.first \in Nat /\ (old # NoGap => old.id # 0)
          /\ \A q \in RunId : st.execs[q][u].seq \in Nat /\ new.execs[q][u].seq \in Nat
      BY <1>1, <1>2, Fields DEF Gaps, gap, old
    <3>6. ASSUME NEW q \in RunId, Live(new, q, u)
          PROVE  gap.first <= new.execs[q][u].seq
      <4>1. new.runs[q] # NoRun /\ ~(q > n)
        BY <1>1, <1>2, <3>6, Exists DEF Live
      <4>2. Live(st, q, u) /\ Live(closed, q, u) /\ RunEvolves(st, new, q) /\ RunEvolves(closed, new, q)
        BY <1>1, <2>3, <3>6, <4>1 DEF Evolves
      <4>3. CASE old # NoGap
        <5>1. old.first <= st.execs[q][u].seq
          BY <3>5, <4>2, <4>3 DEF GapLeads, old
        <5>2. new.execs[q][u].seq = st.execs[q][u].seq
          BY <4>1, <4>2 DEF RunEvolves
        <5> QED BY <3>3, <3>5, <4>3, <5>1, <5>2
      <4>4. CASE old = NoGap
        <5>1. gap # old
          BY <3>3, <3>4, <4>4 DEF NoGap
        <5>2. PICK a \in R : TRUE
          BY <3>1
        <5>3. Terminal(closed.execs[q][u])
          <6>1. ~IsOpen(closed.execs[q][u])
            BY <3>4, <5>2 DEF Moves, IsOpen, Terminal, TerminalStatus
          <6>2. closed.execs[q][u].status # "none"
            BY <1>2, <4>2, <6>1, Exists DEF Records, Live
          <6>3. closed.execs[q][u].status \in {"none", "pending", "running"} \cup TerminalStatus
            BY DEF Store, ExecRecord
          <6> QED BY <6>1, <6>2, <6>3 DEF IsOpen, Terminal
        <5>4. Terminal(new.execs[q][u])
          BY <4>1, <4>2, <5>3 DEF RunEvolves, Terminal
        <5>5. new.execQ[q][u] # 0
          BY <3>6, <5>4 DEF Live, IsOpen, Terminal, TerminalStatus
        <5>6. q \in Pending(new, u)
          BY <5>4, <5>5 DEF Pending
        <5>7. st.execs[a][u].seq < new.execs[q][u].seq
          BY <1>1, <3>4, <5>1, <5>2, <5>6 DEF gap, old
        <5>8. gap.first <= st.execs[a][u].seq /\ st.execs[a][u].seq \in Nat
          BY <3>3, <3>4, <3>5, <5>2
        <5> QED BY <3>5, <5>7, <5>8
      <4> QED BY <4>3, <4>4
    <3>7. ASSUME gap.id # 0, gap.id = old.id PROVE gap.first = old.first
      <4>1. old # NoGap
        BY <3>7 DEF NoGap
      <4>2. \A a \in R : old.first <= st.execs[a][u].seq
        BY <3>4, <3>7 DEF GapLeads, old
      <4>3. CASE gap.first = old.first
        BY <4>3
      <4>4. ASSUME NEW a \in R, gap.first = closed.execs[a][u].seq PROVE gap.first = old.first
        <5>1. old.first <= gap.first
          BY <3>4, <4>2, <4>4
        <5>2. gap.first <= old.first
          BY <3>3, <4>1
        <5> QED BY <3>5, <5>1, <5>2
      <4> QED BY <3>3, <4>3, <4>4
    <3> QED BY <3>6, <3>7 DEF gap, old
  <2>5. ASSUME NEW u \in Targets, RunsOf(D, u) = {}
        PROVE  /\ \A q \in RunId : new.gaps[u].id # 0 /\ Live(new, q, u) =>
                     new.gaps[u].first <= new.execs[q][u].seq
               /\ new.gaps[u].id # 0 /\ new.gaps[u].id = st.gaps[u].id =>
                     new.gaps[u].first = st.gaps[u].first
    <3>1. new.gaps[u] = st.gaps[u]
      BY <1>3, <2>3, <2>5
    <3>2. ASSUME NEW q \in RunId, st.gaps[u].id # 0, Live(new, q, u)
          PROVE  st.gaps[u].first <= new.execs[q][u].seq
      <4>1. new.runs[q] # NoRun /\ ~(q > n)
        BY <1>1, <1>2, <3>2, Exists DEF Live
      <4>2. Live(st, q, u) /\ RunEvolves(st, new, q)
        BY <1>1, <3>2, <4>1 DEF Evolves
      <4>3. new.execs[q][u].seq = st.execs[q][u].seq
        BY <4>1, <4>2 DEF RunEvolves
      <4> QED BY <3>2, <4>2, <4>3 DEF GapLeads
    <3> QED BY <3>1, <3>2
  <2> QED BY <2>4, <2>5 DEF GapLeads, GapStays, new
<1> QED BY <1>4, <1>5

\* The rows of a new run.
LEMMA StartRows ==
  ASSUME NEW st \in Store, NEW r \in RunId, NEW S \in SUBSET Targets
  PROVE  LET new == StartRun(st, r, S)
         IN  /\ new.gen = st.gen /\ new.gaps = st.gaps /\ new.execQ = st.execQ
             /\ \A q \in RunId : q # r => new.runs[q] = st.runs[q] /\ new.execs[q] = st.execs[q]
             /\ new.runs[r] # NoRun /\ new.runs[r].status = "running"
             /\ new.runs[r].gen = st.gen /\ new.runs[r].targets = S
             /\ \A t \in Targets :
                  /\ new.execs[r][t].seq = IF t \in S THEN st.seqs[t] + 1 ELSE 0
                  /\ new.seqs[t] = IF t \in S THEN st.seqs[t] + 1 ELSE st.seqs[t]
<1> DEFINE new == StartRun(st, r, S)
           row == [t \in Targets |-> IF t \in S THEN [NoExec EXCEPT !.status = "pending", !.seq = st.seqs[t] + 1]
                                                ELSE NoExec]
<1>1. /\ new.gen = st.gen /\ new.gaps = st.gaps /\ new.execQ = st.execQ
      /\ new.seqs = [t \in Targets |-> IF t \in S THEN st.seqs[t] + 1 ELSE st.seqs[t]]
      /\ \A q \in RunId : q # r => new.runs[q] = st.runs[q] /\ new.execs[q] = st.execs[q]
      /\ new.runs[r] = [status |-> "running", gen |-> st.gen, rev |-> 1, targets |-> S]
      /\ new.execs[r] = row
  BY Zenon DEF StartRun, NextSequence, Store
<1> HIDE DEF new
<1>2. \A t \in Targets : row[t].seq = IF t \in S THEN st.seqs[t] + 1 ELSE 0
  <2>1. ASSUME NEW t \in S PROVE row[t].seq = st.seqs[t] + 1
    <3>1. row[t] = [NoExec EXCEPT !.status = "pending", !.seq = st.seqs[t] + 1]
      BY <2>1, Zenon
    <3> QED BY <3>1, Zenon DEF NoExec
  <2>2. ASSUME NEW t \in Targets \ S PROVE row[t].seq = 0
    <3>1. row[t] = NoExec
      BY <2>2
    <3> QED BY <3>1 DEF NoExec
  <2> HIDE DEF row
  <2> QED BY <2>1, <2>2
<1> HIDE DEF row
<1>3. /\ new.runs[r].status = "running" /\ new.runs[r].gen = st.gen
      /\ new.runs[r].targets = S
  <2>1. new.runs[r] = [status |-> "running", gen |-> st.gen, rev |-> 1, targets |-> S]
    BY <1>1
  <2> QED BY <2>1
<1>4. new.runs[r] # NoRun
  BY <1>3 DEF NoRun
<1> QED BY <1>1, <1>2, <1>3, <1>4 DEF new

\* A new run's executions come after the gap of their target.
LEMMA StartLeads ==
  ASSUME NEW st \in Store, NEW n \in Nat, n + 1 \in RunId, QueueInv(st, n),
         NEW S \in SUBSET Targets, GapLeads(st)
  PROVE  LET new == StartRun(st, n + 1, S) IN GapLeads(new) /\ GapStays(st, new)
<1> DEFINE r == n + 1
           new == StartRun(st, r, S)
<1>1. new \in Store /\ QueueInv(new, r)
  BY StartQueue, StartRunType
<1>2. /\ new.gen = st.gen /\ new.gaps = st.gaps /\ new.execQ = st.execQ
      /\ \A q \in RunId : q # r => new.runs[q] = st.runs[q] /\ new.execs[q] = st.execs[q]
      /\ new.runs[r].targets = S
      /\ \A t \in Targets : new.execs[r][t].seq = IF t \in S THEN st.seqs[t] + 1 ELSE 0
  BY StartRows
<1> HIDE DEF new, r
<1>3. r \in RunId
  BY DEF r
<1>4. ASSUME NEW t \in Targets, NEW q \in RunId, new.gaps[t].id # 0, Live(new, q, t)
      PROVE  new.gaps[t].first <= new.execs[q][t].seq
  <2>1. CASE q # r
    BY <1>2, <1>4, <2>1 DEF GapLeads, Live
  <2>2. CASE q = r
    <3>1. t \in S
      BY <1>1, <1>2, <1>3, <1>4, <2>2, Exists DEF Live, QueueInv
    <3>2. new.execs[r][t].seq = st.seqs[t] + 1
      BY <1>2, <3>1
    <3>3. /\ st.gaps[t].first \in Nat /\ st.gaps[t].last \in Nat /\ st.seqs[t] \in Nat
          /\ st.gaps[t].first <= st.gaps[t].last /\ st.gaps[t].last <= st.seqs[t]
      BY Fields DEF QueueInv, Gaps
    <3> QED BY <1>2, <2>2, <3>2, <3>3
  <2> QED BY <2>1, <2>2
<1> QED BY <1>2, <1>4 DEF GapLeads, GapStays, new, r

\* CompleteProbeExecution of an open execution.
LEMMA CompleteLeads ==
  ASSUME NEW st \in Store, NEW n \in Nat, QueueInv(st, n), Consistent(st), GapLeads(st),
         NEW r \in RunId, NEW t \in Targets, IsOpen(st.execs[r][t]), NEW o \in TerminalStatus
  PROVE  LET new == CompleteExecution(st, r, t, o) IN GapLeads(new) /\ GapStays(st, new)
<1> DEFINE closed == CloseExecution(st, r, t, o)
<1>1. closed \in Store /\ Moves(st, closed, r, {t}) /\ Terminal(closed.execs[r][t])
  BY CloseExecutionType, CloseMoves
<1>2. \A q \in RunId, u \in Targets : IsOpen(st.execs[q][u]) => q = r
  BY DEF Consistent
<1>3. CompleteExecution(st, r, t, o) = IF IsCurrent(st, r) THEN EnforceLimit(closed, {t}) ELSE closed
  BY DEF CompleteExecution
<1> HIDE DEF closed
<1> QED BY <1>1, <1>2, <1>3, LimitLeads

\* ReconcileProbeRun: the limit, then the end of the run.
LEMMA ReconcileLeads ==
  ASSUME NEW st \in Store, NEW n \in Nat, QueueInv(st, n), Consistent(st), GapLeads(st),
         NEW r \in RunId, st.active = r
  PROVE  GapLeads(ReconcileRun(st)) /\ GapStays(st, ReconcileRun(st))
<1> DEFINE closed == CloseOpenExecutions(st, r)
           open == OpenTargets(st, r)
           limited == IF IsCurrent(st, r) THEN EnforceLimit(closed, open) ELSE closed
           new == FinishRun(limited, r)
<1>1. ReconcileRun(st) = new
  BY DEF ReconcileRun
<1>2. /\ closed \in Store /\ Moves(st, closed, r, open) /\ open \in SUBSET Targets
      /\ \A t \in open : Terminal(closed.execs[r][t])
  BY CloseOpenExecutionsType, CloseOpenMoves DEF QueueInv
<1>3. \A q \in RunId, u \in Targets : IsOpen(st.execs[q][u]) => q = r
  BY DEF Consistent
<1> HIDE DEF closed, open
<1>4. limited \in Store /\ QueueInv(limited, n) /\ limited.runs[r].status = "running"
  <2>1. st.runs[r].status = "running"
    BY DEF Consistent
  <2> QED BY <1>2, <2>1, MovesLimited
<1>5. GapLeads(limited) /\ GapStays(st, limited)
  BY <1>2, <1>3, LimitLeads
<1> HIDE DEF limited
<1>6. new \in Store /\ QueueInv(new, n) /\ Evolves(limited, new, n) /\ new.gaps = limited.gaps
  BY <1>4, FinishQueue, FinishRunType
<1> HIDE DEF new
<1>7. GapLeads(new)
  BY <1>4, <1>5, <1>6, GapLeadsKept DEF QueueInv
<1> QED BY <1>1, <1>5, <1>6, <1>7 DEF GapStays

\* What a run adds up to depends on its own rows.
LEMMA AddsUpSame ==
  ASSUME NEW st \in Store, NEW new, NEW r \in RunId, RunAddsUp(st, r),
         new.runs[r] = st.runs[r],
         \A t \in Targets : new.execs[r][t].status = st.execs[r][t].status
  PROVE  RunAddsUp(new, r)
<1>1. st.runs[r].targets \in SUBSET Targets
  BY Fields
<1>2. FinalStatus(new, r) = FinalStatus(st, r)
  BY <1>1 DEF FinalStatus
<1> QED BY <1>1, <1>2 DEF RunAddsUp, Terminal

\* A transaction that does not end the active run.
LEMMA AddsUpKept ==
  ASSUME NEW st \in Store, NEW new \in Store, NEW n \in Nat, Records(st, n), Records(new, n),
         Evolves(st, new, n), Consistent(st), Consistent(new), new.active = st.active, AddsUp(st)
  PROVE  AddsUp(new)
<1> SUFFICES ASSUME NEW r \in RunId, new.runs[r].status \in FinalRunStatus
             PROVE  RunAddsUp(new, r)
  BY DEF AddsUp, RunAddsUp
<1>1. new.runs[r] # NoRun
  BY DEF NoRun, FinalRunStatus
<1>2. ~(r > n)
  BY <1>1 DEF Records
<1>3. /\ st.runs[r] # NoRun
      /\ st.runs[r].status \in FinalRunStatus => new.runs[r] = st.runs[r]
      /\ \A t \in Targets :
            Terminal(st.execs[r][t]) => new.execs[r][t].status = st.execs[r][t].status
  BY <1>1, <1>2 DEF Evolves, RunEvolves
<1>4. st.runs[r].status \in FinalRunStatus
  <2>1. st.runs[r].status # "running"
    BY DEF Consistent, FinalRunStatus
  <2>2. st.runs[r].status # "none"
    BY <1>3 DEF Records
  <2>3. st.runs[r].status \in {"none", "running"} \cup FinalRunStatus
    BY DEF Store, RunRecord
  <2> QED BY <2>1, <2>2, <2>3
<1>5. /\ st.runs[r].status = FinalStatus(st, r)
      /\ \A t \in st.runs[r].targets : Terminal(st.execs[r][t])
  BY <1>4 DEF AddsUp, RunAddsUp
<1>6. st.runs[r].targets \in SUBSET Targets
  BY Fields
<1>7. FinalStatus(new, r) = FinalStatus(st, r)
  BY <1>3, <1>4, <1>5, <1>6 DEF FinalStatus
<1> QED BY <1>3, <1>4, <1>5, <1>6, <1>7 DEF RunAddsUp, Terminal

\* finishProbeRun: the active run ends with the status its executions add up to.
LEMMA FinishAddsUp ==
  ASSUME NEW st \in Store, NEW n, Records(st, n), AddsUp(st), NEW r \in RunId,
         st.runs[r].status = "running", \A t \in Targets : ~IsOpen(st.execs[r][t])
  PROVE  AddsUp(FinishRun(st, r))
<1> DEFINE rev == st.runs[r].rev + 1
           done == [st EXCEPT !.runs[r].status = FinalStatus(st, r), !.runs[r].rev = rev,
                              !.active = 0]
           queued == [done EXCEPT !.runQ[r] = rev]
<1>1. FinishRun(st, r) = IF IsCurrent(st, r) THEN queued ELSE Cleanup(done, {r})
  BY DEF FinishRun
<1>2. done \in Store
  BY FinishedType, Zenon
<1>3. /\ done.execs = st.execs
      /\ done.runs[r].status = FinalStatus(st, r) /\ done.runs[r].targets = st.runs[r].targets
      /\ \A q \in RunId : q # r => done.runs[q] = st.runs[q]
  BY DEF Store, RunRecord
<1> HIDE DEF done
<1>4. queued.runs = done.runs /\ queued.execs = done.execs
  BY <1>2 DEF Store
<1>5. st.runs[r].targets \in SUBSET Targets
  BY Fields
<1>6. AddsUp(done)
  <2>1. \A q \in RunId : q # r => RunAddsUp(done, q)
    BY <1>3, AddsUpSame DEF AddsUp
  <2>2. \A t \in st.runs[r].targets : Terminal(st.execs[r][t])
    <3> SUFFICES ASSUME NEW t \in st.runs[r].targets PROVE Terminal(st.execs[r][t])
      OBVIOUS
    <3>1. t \in Targets /\ st.execs[r][t].status # "none" /\ ~IsOpen(st.execs[r][t])
      BY <1>5 DEF Records
    <3>2. st.execs[r][t].status \in {"none", "pending", "running"} \cup TerminalStatus
      BY <3>1 DEF Store, ExecRecord
    <3> QED BY <3>1, <3>2 DEF IsOpen, Terminal
  <2>3. FinalStatus(done, r) = FinalStatus(st, r)
    BY <1>3 DEF FinalStatus
  <2>4. RunAddsUp(done, r)
    BY <1>3, <2>2, <2>3 DEF RunAddsUp
  <2> QED BY <2>1, <2>4 DEF AddsUp
<1> HIDE DEF queued
<1>7. CASE IsCurrent(st, r)
  <2>1. AddsUp(queued)
    BY <1>2, <1>4, <1>6, AddsUpSame DEF AddsUp
  <2> QED BY <1>1, <1>7, <2>1
<1>8. CASE ~IsCurrent(st, r)
  <2> DEFINE new == Cleanup(done, {r})
  <2>1. ASSUME NEW q \in RunId PROVE RunAddsUp(new, q)
    <3>1. \/ new.runs[q] = done.runs[q] /\ new.execs[q] = done.execs[q]
          \/ new.runs[q] = NoRun
      BY <1>2, CleanupRows
    <3> HIDE DEF new
    <3>2. CASE new.runs[q] = done.runs[q] /\ new.execs[q] = done.execs[q]
      BY <1>2, <1>6, <3>2, AddsUpSame DEF AddsUp
    <3>3. CASE new.runs[q] = NoRun
      BY <3>3 DEF RunAddsUp, NoRun, FinalRunStatus
    <3> QED BY <3>1, <3>2, <3>3
  <2> QED BY <1>1, <1>8, <2>1 DEF AddsUp
<1> QED BY <1>7, <1>8

\* ReconcileProbeRun.
LEMMA ReconcileAddsUp ==
  ASSUME NEW st \in Store, NEW n \in Nat, QueueInv(st, n), Consistent(st), AddsUp(st),
         NEW r \in RunId, st.active = r
  PROVE  AddsUp(ReconcileRun(st))
<1> DEFINE closed == CloseOpenExecutions(st, r)
           open == OpenTargets(st, r)
           limited == IF IsCurrent(st, r) THEN EnforceLimit(closed, open) ELSE closed
<1>1. ReconcileRun(st) = FinishRun(limited, r)
  BY DEF ReconcileRun
<1>2. /\ closed \in Store /\ Moves(st, closed, r, open) /\ open \in SUBSET Targets
      /\ \A t \in open : Terminal(closed.execs[r][t])
  BY CloseOpenExecutionsType, CloseOpenMoves DEF QueueInv
<1>3. /\ Consistent(limited) /\ limited.active = r
      /\ \A t \in Targets : ~IsOpen(limited.execs[r][t])
  BY ReconcileCloses
<1> HIDE DEF closed, open
<1>4. limited \in Store /\ QueueInv(limited, n) /\ Evolves(st, limited, n)
  BY <1>2, MovesLimited
<1> HIDE DEF limited
<1>5. AddsUp(limited)
  BY <1>3, <1>4, AddsUpKept DEF QueueInv
<1>6. limited.runs[r].status = "running"
  BY <1>3 DEF Consistent
<1> QED BY <1>1, <1>3, <1>4, <1>5, <1>6, FinishAddsUp DEF QueueInv

\* What a store holds as long as the disk loses no result: a gap that an upload has
\* left behind is extended at its end only, and a finished run adds up.
StoreInv == GapLeads(db) /\ AddsUp(db) /\ Referenced(db) \subseteq files

\* The step of the store; without lost files the repair at start finds nothing to do.
LEMMA StoreStep ==
  ASSUME ProbeInv, [Next]_vars, ~\E x \in files : LoseResultFile(x), StoreInv
  PROVE  StoreInv' /\ GapStays(db, db')
<1>0. /\ db \in Store /\ Consistent(db) /\ issued \in Nat /\ QueueInv(db, issued)
      /\ Records(db, issued) /\ GapLeads(db) /\ AddsUp(db) /\ Referenced(db) \subseteq files
  BY DEF ProbeInv, TypeInv, TypeOK, RunInv, QueueInv, StoreInv
<1>1. /\ ProbeInv' /\ db' \in Store /\ Consistent(db') /\ Records(db', issued')
      /\ Evolves(db, db', issued)
  BY ProbeStep DEF ProbeInv, TypeInv, TypeOK, RunInv, QueueInv, Kept
<1> DEFINE Leads == GapLeads(db') /\ GapStays(db, db')
           Adds == AddsUp(db')
\* A transaction that adds no gap and ends no run.
<1>a. ASSUME issued' = issued, \A t \in Targets : db'.gaps[t].id = 0 \/ db'.gaps[t] = db.gaps[t]
      PROVE  Leads
  BY <1>0, <1>1, <1>a, GapLeadsKept
<1>b. ASSUME issued' = issued, db'.active = db.active PROVE Adds
  BY <1>0, <1>1, <1>b, AddsUpKept
<1>c. ASSUME db' = db PROVE Leads /\ Adds
  BY <1>0, <1>c DEF GapStays
<1>2. ASSUME NEW S \in (SUBSET Targets) \ {{}}, StartProbeRun(S) PROVE Leads /\ Adds
  <2>1. issued + 1 \in RunId
    BY <1>0, <1>2, BoundAssumption DEF StartProbeRun, RunId
  <2>2. db' = StartRun(db, issued + 1, S)
    BY <1>2 DEF StartProbeRun
  <2>3. Leads
    BY <1>0, <2>1, <2>2, StartLeads
  <2>4. /\ \A q \in RunId : q # issued + 1 =>
             db'.runs[q] = db.runs[q] /\ db'.execs[q] = db.execs[q]
        /\ db'.runs[issued + 1].status = "running"
    BY <1>0, <2>1, <2>2, StartRows
  <2>5. \A q \in RunId : q # issued + 1 => RunAddsUp(db', q)
    BY <1>0, <2>4, AddsUpSame DEF AddsUp
  <2>6. RunAddsUp(db', issued + 1)
    BY <2>4 DEF RunAddsUp, FinalRunStatus
  <2> QED BY <2>3, <2>5, <2>6 DEF AddsUp
<1>3. ASSUME Reconcile PROVE Leads /\ Adds
  <2>1. CASE db.active = 0
    BY <1>3, <1>c, <2>1 DEF Reconcile
  <2>2. CASE db.active # 0
    <3>1. db' = ReconcileRun(db) /\ db.active \in RunId
      BY <1>0, <1>3, <2>2 DEF Reconcile, Store
    <3> QED BY <1>0, <3>1, ReconcileLeads, ReconcileAddsUp
  <2> QED BY <2>1, <2>2
<1>4. ASSUME NEW t \in Targets, StartProbeExecution(t) PROVE Leads /\ Adds
  <2>1. CASE db' = BeginExecution(db, worker.run, t)
    <3>1. db'.gaps = db.gaps /\ db'.active = db.active
      BY <1>0, <2>1 DEF BeginExecution, Store
    <3>2. issued' = issued
      BY <1>4 DEF StartProbeExecution
    <3> QED BY <1>a, <1>b, <3>1, <3>2
  <2>2. CASE db' = db
    BY <1>c, <2>2
  <2> QED BY <1>4, <2>1, <2>2 DEF StartProbeExecution
<1>5. ASSUME NEW o \in TerminalStatus, worker.pc \in {"probing", "commit"}, MayComplete, Commit(o),
             issued' = issued
      PROVE  Leads /\ Adds
  <2>1. PICK r \in RunId, t \in Targets :
           db' = CompleteExecution(db, r, t, o) /\ IsOpen(db.execs[r][t])
    BY <1>5 DEF Commit, MayComplete, IsOpen, ProbeInv, TypeInv, Named
  <2>2. Leads
    BY <1>0, <2>1, CompleteLeads
  <2>3. db'.active = db.active
    BY <1>0, <2>1, CompleteKeeps
  <2> QED BY <1>5, <1>b, <2>2, <2>3
<1>6. ASSUME FinishProbeRun PROVE Leads /\ Adds
  <2>1. CASE db.active = worker.run /\ db' = FinishRun(db, worker.run)
    <3>1. /\ worker.run \in RunId /\ issued' = issued /\ worker.left = {} /\ worker.pc = "next"
      BY <1>6 DEF ProbeInv, TypeInv, Named, FinishProbeRun
    <3>2. db.runs[worker.run].status = "running"
      BY <1>0, <2>1, <3>1 DEF Consistent
    <3>3. db'.gaps = db.gaps
      BY <1>0, <2>1, <3>1, <3>2, FinishQueue
    <3>4. \A t \in Targets : ~IsOpen(db.execs[worker.run][t])
      BY <2>1, <3>1 DEF ProbeInv, RunInv, WorkerHolds
    <3>5. Adds
      BY <1>0, <2>1, <3>1, <3>2, <3>4, FinishAddsUp
    <3> QED BY <1>a, <3>1, <3>3, <3>5
  <2>2. CASE db' = db
    BY <1>c, <2>2
  <2> QED BY <1>6, <2>1, <2>2 DEF FinishProbeRun
<1>7. ASSUME NEW g \in Generation, g > db.gen, ApplyConfiguration(g) PROVE Leads /\ Adds
  <2>1. db' = ChangeGeneration(db, g) /\ issued' = issued
    BY <1>7 DEF ApplyConfiguration
  <2>2. \A t \in Targets : db'.gaps[t].id = 0
    BY <1>0, <1>7, <2>1, ChangeQueue DEF NoGap
  <2>3. db'.active = db.active
    BY <1>0, <2>1, ChangeGenerationKeeps
  <2> QED BY <1>a, <1>b, <2>1, <2>2, <2>3
<1>8. ASSUME AcknowledgeProbeArtifact PROVE Leads /\ Adds
  <2>1. db' = Acknowledge(db, sent, sent.rev) /\ issued' = issued /\ NamedKey(sent)
    BY <1>8 DEF AcknowledgeProbeArtifact, ProbeInv, TypeInv, Named
  <2>2. \A t \in Targets : db'.gaps[t] \in {db.gaps[t], NoGap}
    BY <1>0, <2>1, AcknowledgeQueue
  <2>3. db'.active = db.active
    BY <1>0, <2>1, AcknowledgeKeeps
  <2> QED BY <1>a, <1>b, <2>1, <2>2, <2>3 DEF NoGap
<1>9. ASSUME Open PROVE Leads /\ Adds
  <2>1. db' = DropExecutions(db, {}) /\ issued' = issued
    <3>1. Unreadable(db, files) = {}
      BY <1>0 DEF Unreadable
    <3> QED BY <1>9, <3>1 DEF Open, ReconcileArtifacts
  <2>2. \A t \in Targets : db'.gaps[t] = db.gaps[t]
    <3>1. \A t \in Targets : RunsOf({}, t) = {}
      BY DEF RunsOf
    <3> QED BY <1>0, <2>1, <3>1, DropQueue DEF QueueInv
  <2>3. db'.active = db.active
    BY <1>0, <2>1, DropKeeps
  <2> QED BY <1>a, <1>b, <2>1, <2>2, <2>3
<1>10. ASSUME OutcomeRefused \/ WriteProbeResult \/ RemoveObsolete \/ UploadFails
              \/ UploadRefused \/ Crash \/ Stop \/ RequestStop \/ UNCHANGED vars
              \/ (\E k \in QueuedKeys(db) : NextProbeArtifact(k))
              \/ (\E x \in files : LoseResultFile(x))
       PROVE  Leads /\ Adds
  <2>1. db' = db
    BY <1>10, Zenon DEF OutcomeRefused, WriteProbeResult, RemoveObsolete, UploadFails, UploadRefused,
                 Crash, Stop, RequestStop, NextProbeArtifact, LoseResultFile, vars
  <2> QED BY <1>c, <2>1
<1> HIDE DEF Leads, Adds
<1>11. Leads /\ Adds
  <2>1. ASSUME ReconcileProbeRun \/ AbandonRun PROVE Leads /\ Adds
    BY <1>3, <2>1 DEF ReconcileProbeRun, AbandonRun
  <2>2. ASSUME NEW o \in TerminalStatus, RecordOutcome(o) PROVE Leads /\ Adds
    BY <1>5, <2>2 DEF RecordOutcome
  <2>3. ASSUME CommitProbeResult PROVE Leads /\ Adds
    <3>1. "succeeded" \in TerminalStatus
      BY DEF TerminalStatus
    <3>2. MayComplete
      BY <2>3 DEF CommitProbeResult, ProbeInv, FilesInv
    <3> QED BY <1>5, <2>3, <3>1, <3>2 DEF CommitProbeResult
  <2> QED BY <1>2, <1>4, <1>6, <1>7, <1>8, <1>9, <1>10, <2>1, <2>2, <2>3 DEF Next, Local, Execute
<1>12. (Referenced(db) \subseteq files)'
  <2>1. CASE up'
    BY <1>1, <2>1 DEF ProbeInv, FilesInv
  <2>2. ASSUME ~up', Local \/ AcknowledgeProbeArtifact \/ UploadRefused \/ UNCHANGED vars
        PROVE  db' = db /\ files' = files
    <3>1. ASSUME Execute PROVE FALSE
      <4>1. ASSUME NEW t \in Targets, StartProbeExecution(t) PROVE FALSE
        <5>1. up /\ up' = up
          BY <4>1, Zenon DEF StartProbeExecution
        <5> QED BY <2>2, <5>1
      <4>3. ASSUME OutcomeRefused PROVE FALSE
        <5>1. up /\ up' = up
          BY <4>3, Zenon DEF OutcomeRefused
        <5> QED BY <2>2, <5>1
      <4>4. ASSUME WriteProbeResult PROVE FALSE
        <5>1. up /\ up' = up
          BY <4>4, Zenon DEF WriteProbeResult
        <5> QED BY <2>2, <5>1
      <4>5. ASSUME CommitProbeResult PROVE FALSE
        <5>1. up /\ up' = up
          BY <4>5, Zenon DEF CommitProbeResult
        <5> QED BY <2>2, <5>1
      <4>2. ASSUME (\E o \in TerminalStatus : RecordOutcome(o)) \/ FinishProbeRun \/ AbandonRun
            PROVE  FALSE
        BY <2>2, <4>2 DEF RecordOutcome, FinishProbeRun, AbandonRun
      <4> QED BY <3>1, <4>1, <4>2, <4>3, <4>4, <4>5 DEF Execute
    <3>2. ASSUME ReconcileProbeRun \/ RemoveObsolete \/ UploadFails \/ RequestStop \/ Open
                 \/ (\E S \in (SUBSET Targets) \ {{}} : StartProbeRun(S))
                 \/ (\E k \in QueuedKeys(db) : NextProbeArtifact(k))
                 \/ AcknowledgeProbeArtifact \/ UploadRefused
          PROVE  FALSE
      <4>1. ASSUME ReconcileProbeRun \/ RemoveObsolete \/ UploadFails \/ RequestStop
            PROVE  FALSE
        <5>1. up /\ up' = up
          BY <4>1, Zenon DEF ReconcileProbeRun, RemoveObsolete, UploadFails, RequestStop
        <5> QED BY <2>2, <5>1
      <4>5. ASSUME Open PROVE FALSE
        <5>1. up' = TRUE
          BY <4>5, Zenon DEF Open
        <5> QED BY <2>2, <5>1
      <4>2. ASSUME \E S \in (SUBSET Targets) \ {{}} : StartProbeRun(S) PROVE FALSE
        BY <2>2, <4>2 DEF StartProbeRun
      <4>3. ASSUME \E k \in QueuedKeys(db) : NextProbeArtifact(k) PROVE FALSE
        BY <2>2, <4>3 DEF NextProbeArtifact
      <4>4. ASSUME AcknowledgeProbeArtifact \/ UploadRefused PROVE FALSE
        BY <2>2, <4>4 DEF AcknowledgeProbeArtifact, UploadRefused
      <4> QED BY <3>2, <4>1, <4>2, <4>3, <4>4, <4>5
    <3>3. ASSUME Crash \/ Stop \/ UNCHANGED vars PROVE db' = db /\ files' = files
      BY <3>3 DEF Crash, Stop, vars
    <3>4. ASSUME NEW x \in files, LoseResultFile(x) PROVE FALSE
      BY <3>4 DEF LoseResultFile
    <3> QED BY <2>2, <3>1, <3>2, <3>3, <3>4 DEF Local
  <2>3. ASSUME NEW g \in Generation, ApplyConfiguration(g) PROVE up'
    BY <2>3 DEF ApplyConfiguration
  <2>4. ASSUME ~up' PROVE db' = db /\ files' = files
    BY <2>2, <2>3, <2>4 DEF Next
  <2> QED BY <1>0, <2>1, <2>4
<1> QED BY <1>11, <1>12 DEF StoreInv, Leads, Adds

\* A fresh store has no gaps, no outcomes and no files.
LEMMA StoreStart == Init => StoreInv
<1> SUFFICES ASSUME Init PROVE StoreInv
  OBVIOUS
<1>1. /\ \A t \in Targets : db.gaps[t] = NoGap
      /\ \A r \in RunId : db.runs[r] = NoRun /\ \A t \in Targets : db.execs[r][t] = NoExec
  BY DEF Init, EmptyStore
<1>2. NoGap.id = 0 /\ NoRun.status \notin FinalRunStatus /\ ~NoExec.file
  BY DEF NoGap, NoRun, NoExec, FinalRunStatus
<1> QED BY <1>1, <1>2 DEF StoreInv, GapLeads, AddsUp, RunAddsUp, Referenced, AllExecutions, Exec

-----------------------------------------------------------------------------
(* The generation of the store and its sequences                           *)

SameCounters(st, new) == new.gen = st.gen /\ new.seqs = st.seqs

\* Only a new configuration changes the generation, and only it and a new run the
\* sequences.
LEMMA TransactionGeneration ==
  ASSUME NEW st \in Store
  PROVE  /\ \A D : SameCounters(st, DropExecutions(st, D))
         /\ \A r \in RunId, S \in SUBSET Targets : StartRun(st, r, S).gen = st.gen
         /\ \A r \in RunId, t \in Targets : SameCounters(st, BeginExecution(st, r, t))
         /\ \A r \in RunId : SameCounters(st, FinishRun(st, r))
         /\ \A r \in RunId, t \in Targets, o \in TerminalStatus :
              SameCounters(st, CompleteExecution(st, r, t, o))
         /\ \A r \in RunId : st.active = r => SameCounters(st, ReconcileRun(st))
         /\ \A k : NamedKey(k) => \A rev : SameCounters(st, Acknowledge(st, k, rev))
<1>1. ASSUME NEW any \in Store, NEW D PROVE SameCounters(any, DropExecutions(any, D))
  <2>1. Dropped(any, D) \in Store /\ SameCounters(any, Dropped(any, D))
    BY DroppedRows, Zenon DEF DropRows, SameCounters
  <2>2. DropExecutions(any, D) = Cleanup(Dropped(any, D), {r \in RunId : \E t \in Targets : <<r, t>> \in D})
    BY DEF DropExecutions, Dropped, RunsOf
  <2> QED BY <2>1, <2>2, CleanupRows DEF SameCounters
<1>2. ASSUME NEW any \in Store, NEW r \in RunId PROVE SameCounters(any, FinishRun(any, r))
  <2> DEFINE done == [any EXCEPT !.runs[r].status = FinalStatus(any, r),
                                 !.runs[r].rev = any.runs[r].rev + 1, !.active = 0]
             queued == [done EXCEPT !.runQ[r] = any.runs[r].rev + 1]
  <2>1. done \in Store
    BY FinishedType, Zenon
  <2>2. SameCounters(any, done)
    BY DEF Store, SameCounters
  <2>3. FinishRun(any, r) = IF IsCurrent(any, r) THEN queued ELSE Cleanup(done, {r})
    BY DEF FinishRun
  <2> HIDE DEF done
  <2>4. SameCounters(any, queued)
    BY <2>1, <2>2 DEF Store, SameCounters
  <2>5. SameCounters(any, Cleanup(done, {r}))
    BY <2>1, <2>2, CleanupRows DEF SameCounters
  <2> QED BY <2>3, <2>4, <2>5 DEF SameCounters
<1>3. \A r \in RunId, S \in SUBSET Targets : StartRun(st, r, S).gen = st.gen
  BY DEF StartRun, Store
<1>4. \A r \in RunId, t \in Targets : SameCounters(st, BeginExecution(st, r, t))
  BY DEF BeginExecution, Store, SameCounters
<1>5. ASSUME NEW r \in RunId, NEW t \in Targets, NEW o \in TerminalStatus
      PROVE  SameCounters(st, CompleteExecution(st, r, t, o))
  <2>1. CloseExecution(st, r, t, o) \in Store
    BY CloseExecutionType
  <2>2. SameCounters(st, CloseExecution(st, r, t, o))
    BY DEF CloseExecution, Store, SameCounters
  <2> QED BY <1>1, <2>1, <2>2 DEF CompleteExecution, EnforceLimit, SameCounters
<1>6. ASSUME NEW r \in RunId, st.active = r PROVE SameCounters(st, ReconcileRun(st))
  <2> DEFINE closed == CloseOpenExecutions(st, r)
             limited == IF IsCurrent(st, r) THEN EnforceLimit(closed, OpenTargets(st, r)) ELSE closed
  <2>1. closed \in Store
    BY CloseOpenExecutionsType
  <2>2. SameCounters(st, closed)
    BY DEF CloseOpenExecutions, Store, SameCounters
  <2>3. ReconcileRun(st) = FinishRun(limited, r)
    BY <1>6 DEF ReconcileRun
  <2> HIDE DEF closed
  <2>4. limited \in Store /\ SameCounters(st, limited)
    BY <1>1, <2>1, <2>2, DropExecutionsType DEF EnforceLimit, SameCounters
  <2> HIDE DEF limited
  <2> QED BY <1>2, <2>3, <2>4 DEF SameCounters
<1>7. ASSUME NEW k, NamedKey(k), NEW rev PROVE SameCounters(st, Acknowledge(st, k, rev))
  <2>1. CASE Superseded(st, k, rev)
    BY <2>1 DEF Acknowledge, SameCounters
  <2>2. CASE ~Superseded(st, k, rev) /\ k.kind = "run"
    <3>1. [st EXCEPT !.runQ[k.run] = 0] \in Store /\ SameCounters(st, [st EXCEPT !.runQ[k.run] = 0])
      BY <1>7, <2>2, Zenon DEF Store, NamedKey, SameCounters
    <3> QED BY <2>2, <3>1, CleanupRows, Zenon DEF Acknowledge, SameCounters
  <2>3. CASE ~Superseded(st, k, rev) /\ k.kind = "execution"
    <3> DEFINE taken == [st EXCEPT !.execQ[k.run][k.target] = 0,
                                   !.execs[k.run][k.target].file = FALSE]
    <3>1. k.run \in RunId /\ k.target \in Targets
      BY <1>7, <2>3 DEF NamedKey, SameCounters
    <3>2. taken \in Store
      BY <3>1, TakenType, Zenon DEF SameCounters
    <3>3. SameCounters(st, taken)
      BY DEF Store, SameCounters
    <3> HIDE DEF taken
    <3>4. Acknowledge(st, k, rev) = Cleanup(taken, {k.run})
      BY <2>3 DEF Acknowledge, taken, SameCounters
    <3> QED BY <3>2, <3>3, <3>4, CleanupRows DEF SameCounters
  <2>4. CASE ~Superseded(st, k, rev) /\ k.kind = "gap"
    BY <2>4, Zenon DEF Acknowledge, Store, SameCounters
  <2> QED BY <1>7, <2>1, <2>2, <2>3, <2>4 DEF NamedKey, SameCounters
<1> QED BY <1>1, <1>2, <1>3, <1>4, <1>5, <1>6, <1>7 DEF SameCounters

\* A step other than a new configuration keeps the generation, and only a new run takes
\* sequences.
LEMMA GenerationStep ==
  ASSUME ProbeInv, Local \/ AcknowledgeProbeArtifact \/ UploadRefused
  PROVE  db'.gen = db.gen /\ (db'.seqs = db.seqs \/ \E S \in (SUBSET Targets) \ {{}} : StartProbeRun(S))
<1> DEFINE Same == SameCounters(db, db')
<1>0. /\ db \in Store /\ issued \in 0 .. MaxRuns
      /\ worker.pc # "idle" => worker.run \in RunId
      /\ worker.pc \in {"probing", "commit"} => worker.target \in Targets
      /\ sent # NoArtifact => NamedKey(sent)
  BY DEF ProbeInv, TypeInv, TypeOK, Named
<1>1. ASSUME NEW S \in (SUBSET Targets) \ {{}}, StartProbeRun(S) PROVE db'.gen = db.gen
  <2>1. issued + 1 \in RunId
    BY <1>0, <1>1, BoundAssumption DEF StartProbeRun, RunId
  <2> QED BY <1>0, <1>1, <2>1, TransactionGeneration DEF StartProbeRun
<1>2. ASSUME ReconcileProbeRun \/ AbandonRun PROVE Same
  BY <1>0, <1>2, TransactionGeneration, Zenon
     DEF ReconcileProbeRun, AbandonRun, Reconcile, Store, SameCounters
<1>3. ASSUME NEW t \in Targets, StartProbeExecution(t) PROVE Same
  BY <1>0, <1>3, TransactionGeneration DEF StartProbeExecution, SameCounters
<1>4. ASSUME NEW o \in TerminalStatus, RecordOutcome(o) PROVE Same
  BY <1>0, <1>4, TransactionGeneration DEF RecordOutcome, Commit, SameCounters
<1>5. ASSUME OutcomeRefused \/ WriteProbeResult \/ RemoveObsolete PROVE Same
  BY <1>5, Zenon DEF OutcomeRefused, WriteProbeResult, RemoveObsolete, SameCounters
<1>6. ASSUME CommitProbeResult PROVE Same
  <2>1. "succeeded" \in TerminalStatus
    BY DEF TerminalStatus
  <2> QED BY <1>0, <1>6, <2>1, TransactionGeneration DEF CommitProbeResult, Commit, SameCounters
<1>7. ASSUME FinishProbeRun PROVE Same
  BY <1>0, <1>7, TransactionGeneration DEF FinishProbeRun, SameCounters
<1>8. ASSUME AcknowledgeProbeArtifact PROVE Same
  BY <1>0, <1>8, TransactionGeneration DEF AcknowledgeProbeArtifact, SameCounters
<1>9. ASSUME NEW k \in QueuedKeys(db), NextProbeArtifact(k) PROVE Same
  BY <1>9 DEF NextProbeArtifact, SameCounters
<1>10. ASSUME UploadFails \/ UploadRefused \/ Crash \/ Stop \/ RequestStop PROVE Same
  BY <1>10 DEF UploadFails, UploadRefused, Crash, Stop, RequestStop, SameCounters
<1>11. ASSUME NEW x \in files, LoseResultFile(x) PROVE Same
  BY <1>11 DEF LoseResultFile, SameCounters
<1>12. ASSUME Open PROVE Same
  BY <1>0, <1>12, TransactionGeneration DEF Open, ReconcileArtifacts, SameCounters
<1> QED BY <1>1, <1>2, <1>3, <1>4, <1>5, <1>6, <1>7, <1>8, <1>9, <1>10, <1>11, <1>12
        DEF Local, Execute, SameCounters

-----------------------------------------------------------------------------
(* A log of every run                                                      *)

\* What Evolves says of the runs.
RunsEvolve(st, new, n) ==
    new.gen >= st.gen /\ \A r \in RunId : ~(r > n) => RunEvolves(st, new, r)

\* The Agent deletes the records of a run, and the Center and late requests still know
\* of it.  The log is a store that forgets none of n runs.
Remembers(w, st) ==
    /\ w.gen = st.gen /\ w.seqs = st.seqs
    /\ \A r \in RunId : st.runs[r] # NoRun => w.runs[r] = st.runs[r] /\ w.execs[r] = st.execs[r]

\* A run has targets, and each of its executions a sequence of its own in the generation
\* of the run.
NumberedRun(w, r) ==
    /\ ~(w.runs[r].gen > w.gen) /\ w.runs[r].targets # {}
    /\ \A t \in Targets :
         /\ t \in w.runs[r].targets => w.execs[r][t].seq # 0
         /\ w.runs[r].gen = w.gen => w.execs[r][t].seq <= w.seqs[t]
         /\ \A q \in RunId :
              q # r /\ w.runs[q] # NoRun /\ w.runs[q].gen = w.runs[r].gen /\ w.execs[r][t].seq # 0
                 => w.execs[q][t].seq # w.execs[r][t].seq

Numbered(w, n) ==
    \A r \in RunId :
        /\ w.runs[r] # NoRun <=> ~(r > n)
        /\ w.runs[r] # NoRun => NumberedRun(w, r)

IsLog(w, st, n) == Remembers(w, st) /\ Numbered(w, n) /\ AddsUp(w)

\* The log after a step of the store: what the store has, and what it deleted.
Log(new, w) ==
    [new EXCEPT !.runs = [r \in RunId |-> IF new.runs[r] # NoRun THEN new.runs[r] ELSE w.runs[r]],
                !.execs = [r \in RunId |-> IF new.runs[r] # NoRun THEN new.execs[r] ELSE w.execs[r]]]

\* The store takes a step, and a new run is the next one.
Advances(st, new, n, m) ==
    \/ m = n /\ (new.gen > st.gen \/ (new.gen = st.gen /\ new.seqs = st.seqs))
    \/ m = n + 1 /\ m \in RunId /\ \E S \in SUBSET Targets : S # {} /\ new = StartRun(st, m, S)

\* The rows of the log, whatever the step.
LEMMA LogRows ==
  ASSUME NEW st \in Store, NEW new \in Store, NEW n \in Nat, NEW m \in Nat, n <= m,
         Records(new, m), Evolves(st, new, n), NEW w \in Store, IsLog(w, st, n)
  PROVE  LET x == Log(new, w)
         IN  /\ x \in Store /\ x.gen = new.gen /\ x.seqs = new.seqs
             /\ \A r \in RunId :
                  /\ x.runs[r] = IF new.runs[r] # NoRun THEN new.runs[r] ELSE w.runs[r]
                  /\ x.execs[r] = IF new.runs[r] # NoRun THEN new.execs[r] ELSE w.execs[r]
             /\ RunsEvolve(w, x, n) /\ Remembers(x, new)
             /\ \A r \in RunId : ~(r > n) =>
                  /\ x.runs[r] # NoRun
                  /\ x.runs[r].gen = w.runs[r].gen /\ x.runs[r].targets = w.runs[r].targets
                  /\ \A t \in Targets : x.execs[r][t].seq = w.execs[r][t].seq
             /\ \A r \in RunId : r > m => x.runs[r] = NoRun
<1> DEFINE x == Log(new, w)
<1>0. \A r \in RunId : r \in Nat
  BY RunIdFinite
<1>1. /\ x \in Store /\ x.gen = new.gen /\ x.seqs = new.seqs
      /\ \A r \in RunId :
           /\ x.runs[r] = IF new.runs[r] # NoRun THEN new.runs[r] ELSE w.runs[r]
           /\ x.execs[r] = IF new.runs[r] # NoRun THEN new.execs[r] ELSE w.execs[r]
  BY Zenon DEF Log, Store
<1> HIDE DEF x
<1>2. ASSUME NEW r \in RunId, ~(r > n)
      PROVE  /\ RunEvolves(w, x, r) /\ x.runs[r] # NoRun
             /\ x.runs[r].gen = w.runs[r].gen /\ x.runs[r].targets = w.runs[r].targets
             /\ \A t \in Targets : x.execs[r][t].seq = w.execs[r][t].seq
  <2>1. w.runs[r] # NoRun
    BY <1>2 DEF IsLog, Numbered
  <2>2. CASE new.runs[r] # NoRun
    <3>1. RunEvolves(st, new, r) /\ x.runs[r] = new.runs[r] /\ x.execs[r] = new.execs[r]
      BY <1>1, <1>2, <2>2 DEF Evolves
    <3>2. st.runs[r] # NoRun
      BY <2>2, <3>1 DEF RunEvolves
    <3>3. w.runs[r] = st.runs[r] /\ w.execs[r] = st.execs[r]
      BY <3>2 DEF IsLog, Remembers
    <3>4. RunEvolves(w, x, r)
      BY <3>1, <3>3 DEF RunEvolves
    <3>5. x.runs[r] # NoRun
      BY <2>2, <3>1
    <3> QED BY <3>4, <3>5 DEF RunEvolves
  <2>3. CASE new.runs[r] = NoRun
    <3>1. x.runs[r] = w.runs[r] /\ x.execs[r] = w.execs[r]
      BY <1>1, <2>3
    <3>2. w.runs[r].rev \in Nat /\ \A t \in Targets : w.execs[r][t].rev \in Nat
      BY Fields
    <3> QED BY <2>1, <3>1, <3>2 DEF RunEvolves
  <2> QED BY <2>2, <2>3
<1>3. RunsEvolve(w, x, n)
  BY <1>1, <1>2 DEF RunsEvolve, Evolves, IsLog, Remembers
<1>4. Remembers(x, new)
  BY <1>1 DEF Remembers
<1>5. ASSUME NEW r \in RunId, r > m PROVE x.runs[r] = NoRun
  <2>1. new.runs[r] = NoRun /\ r > n
    BY <1>0, <1>5 DEF Records
  <2> QED BY <1>1, <2>1 DEF IsLog, Numbered
<1> QED BY <1>1, <1>2, <1>3, <1>4, <1>5 DEF x

\* A new run takes the sequences after all others of its generation.
LEMMA LogNumbered ==
  ASSUME NEW st \in Store, NEW new \in Store, NEW n \in Nat, NEW m \in Nat, n <= m,
         Records(new, m), Evolves(st, new, n), Advances(st, new, n, m),
         NEW w \in Store, IsLog(w, st, n)
  PROVE  Numbered(Log(new, w), m)
<1> DEFINE x == Log(new, w)
<1>1. /\ x \in Store /\ x.gen = new.gen /\ x.seqs = new.seqs
      /\ \A r \in RunId :
           /\ x.runs[r] = IF new.runs[r] # NoRun THEN new.runs[r] ELSE w.runs[r]
           /\ x.execs[r] = IF new.runs[r] # NoRun THEN new.execs[r] ELSE w.execs[r]
      /\ \A r \in RunId : ~(r > n) =>
           /\ x.runs[r] # NoRun
           /\ x.runs[r].gen = w.runs[r].gen /\ x.runs[r].targets = w.runs[r].targets
           /\ \A t \in Targets : x.execs[r][t].seq = w.execs[r][t].seq
      /\ \A r \in RunId : r > m => x.runs[r] = NoRun
  BY LogRows
<1> HIDE DEF x
<1> SUFFICES Numbered(x, m)
  BY DEF x
<1>2. /\ Numbered(w, n) /\ w.gen = st.gen /\ w.seqs = st.seqs /\ w.gen \in Nat /\ x.gen \in Nat
      /\ \A r \in RunId : r \in Nat /\ w.runs[r].gen \in Nat
      /\ \A r \in RunId, t \in Targets : w.execs[r][t].seq \in Nat
      /\ \A t \in Targets : w.seqs[t] \in Nat
  BY <1>1, Fields, RunIdFinite DEF IsLog, Remembers
<1>3. CASE m = n /\ (new.gen > st.gen \/ (new.gen = st.gen /\ new.seqs = st.seqs))
  <2>1. \A r \in RunId : x.runs[r] # NoRun <=> ~(r > m)
    BY <1>1, <1>3
  <2> SUFFICES ASSUME NEW r \in RunId, ~(r > n) PROVE NumberedRun(x, r)
    BY <1>3, <2>1 DEF Numbered
  <2>2. w.runs[r] # NoRun /\ ~(w.runs[r].gen > w.gen) /\ w.runs[r].targets # {}
    BY <1>2 DEF Numbered, NumberedRun
  <2>3. ~(x.runs[r].gen > x.gen)
    BY <1>1, <1>2, <1>3, <2>2
  <2>4. x.runs[r].gen = x.gen => x.gen = w.gen /\ x.seqs = w.seqs
    BY <1>1, <1>2, <1>3, <2>2
  <2>5. \A t \in Targets : x.runs[r].gen = x.gen => x.execs[r][t].seq <= x.seqs[t]
    BY <1>1, <1>2, <2>2, <2>4 DEF Numbered, NumberedRun
  <2>6. ASSUME NEW t \in Targets, NEW q \in RunId, q # r, x.runs[q] # NoRun,
               x.runs[q].gen = x.runs[r].gen, x.execs[r][t].seq # 0
        PROVE  x.execs[q][t].seq # x.execs[r][t].seq
    <3>1. ~(q > n)
      BY <1>3, <2>1, <2>6
    <3>2. w.runs[q] # NoRun /\ w.runs[q].gen = w.runs[r].gen /\ w.execs[r][t].seq # 0
      BY <1>1, <1>2, <2>6, <3>1 DEF Numbered, NumberedRun
    <3>3. w.execs[q][t].seq # w.execs[r][t].seq
      BY <1>2, <2>2, <2>6, <3>2 DEF Numbered, NumberedRun
    <3> QED BY <1>1, <3>1, <3>3
  <2>7. \A t \in Targets : t \in x.runs[r].targets => x.execs[r][t].seq # 0
    BY <1>1, <1>2, <2>2 DEF Numbered, NumberedRun
  <2>8. x.runs[r].targets # {}
    BY <1>1, <2>2
  <2> QED BY <2>3, <2>5, <2>6, <2>7, <2>8 DEF NumberedRun
<1>4. CASE m = n + 1 /\ m \in RunId /\ \E S \in SUBSET Targets : S # {} /\ new = StartRun(st, m, S)
  <2>1. PICK S \in SUBSET Targets : S # {} /\ new = StartRun(st, m, S)
    BY <1>4
  <2>2. /\ new.gen = st.gen
        /\ new.runs[m] # NoRun /\ new.runs[m].gen = st.gen /\ new.runs[m].targets = S
        /\ \A t \in Targets :
             /\ new.execs[m][t].seq = IF t \in S THEN st.seqs[t] + 1 ELSE 0
             /\ new.seqs[t] = IF t \in S THEN st.seqs[t] + 1 ELSE st.seqs[t]
    BY <1>4, <2>1, StartRows
  <2>3. /\ x.gen = w.gen /\ x.runs[m] # NoRun /\ x.runs[m].gen = w.gen /\ x.runs[m].targets = S
        /\ \A t \in Targets :
             /\ x.execs[m][t].seq = IF t \in S THEN w.seqs[t] + 1 ELSE 0
             /\ x.seqs[t] = IF t \in S THEN w.seqs[t] + 1 ELSE w.seqs[t]
    BY <1>1, <1>2, <1>4, <2>2
  <2>4. \A r \in RunId : (x.runs[r] # NoRun <=> ~(r > m)) /\ (~(r > m) => r = m \/ ~(r > n))
    BY <1>1, <1>2, <1>4, <2>3
  <2>5. ASSUME NEW r \in RunId, ~(r > n)
        PROVE  /\ r # m /\ w.runs[r] # NoRun
               /\ ~(x.runs[r].gen > x.gen) /\ x.runs[r].targets # {}
               /\ \A t \in Targets :
                    /\ t \in x.runs[r].targets => x.execs[r][t].seq # 0
                    /\ x.runs[r].gen = x.gen => /\ x.execs[r][t].seq <= w.seqs[t]
                                                /\ x.execs[r][t].seq <= x.seqs[t]
    <3>1. r # m /\ w.runs[r] # NoRun
      BY <1>2, <1>4, <2>5 DEF Numbered, NumberedRun
    <3>2. /\ ~(w.runs[r].gen > w.gen) /\ w.runs[r].targets # {}
          /\ \A t \in Targets :
               /\ t \in w.runs[r].targets => w.execs[r][t].seq # 0
               /\ w.runs[r].gen = w.gen => w.execs[r][t].seq <= w.seqs[t]
      BY <1>2, <3>1 DEF Numbered, NumberedRun
    <3> QED BY <1>1, <1>2, <2>3, <2>5, <3>1, <3>2
  <2>6. ASSUME NEW r \in RunId, NEW q \in RunId, NEW t \in Targets, q # r, ~(r > n), ~(q > n),
               x.runs[q].gen = x.runs[r].gen, x.execs[r][t].seq # 0
        PROVE  x.execs[q][t].seq # x.execs[r][t].seq
    <3>1. w.runs[q] # NoRun /\ w.runs[r] # NoRun
      BY <2>5, <2>6
    <3>2. w.runs[q].gen = w.runs[r].gen /\ w.execs[r][t].seq # 0
      BY <1>1, <2>6
    <3>3. w.execs[q][t].seq # w.execs[r][t].seq
      BY <1>2, <2>6, <3>1, <3>2 DEF Numbered, NumberedRun
    <3> QED BY <1>1, <2>6, <3>3
  <2>7. ASSUME NEW r \in RunId, NEW q \in RunId, NEW t \in Targets, q # r, ~(r > m), ~(q > m),
               x.runs[q].gen = x.runs[r].gen, x.execs[r][t].seq # 0
        PROVE  x.execs[q][t].seq # x.execs[r][t].seq
    <3>1. CASE r = m
      <4>1. ~(q > n)
        BY <2>4, <2>7, <3>1, Zenon
      <4>2. x.execs[q][t].seq <= w.seqs[t] /\ x.execs[r][t].seq = w.seqs[t] + 1
        BY <2>3, <2>5, <2>7, <3>1, <4>1
      <4> QED BY <1>1, <1>2, <4>1, <4>2
    <3>2. CASE q = m
      <4>1. ~(r > n)
        BY <2>4, <2>7, <3>2, Zenon
      <4>2. x.execs[r][t].seq <= w.seqs[t] /\ x.execs[q][t].seq \in {0, w.seqs[t] + 1}
        BY <2>3, <2>5, <2>7, <3>2, <4>1
      <4> QED BY <1>1, <1>2, <2>7, <4>1, <4>2
    <3>3. CASE r # m /\ q # m
      BY <2>4, <2>6, <2>7, <3>3
    <3> QED BY <3>1, <3>2, <3>3
  <2>8. /\ ~(x.runs[m].gen > x.gen) /\ x.runs[m].targets # {}
        /\ \A t \in Targets : t \in x.runs[m].targets => x.execs[m][t].seq # 0
    <3>1. x.runs[m].targets = S /\ S # {} /\ ~(x.runs[m].gen > x.gen)
      <4>1. S # {}
        BY <2>1
      <4>2. x.runs[m].targets = S /\ x.runs[m].gen = x.gen
        BY <2>3
      <4>3. ~(x.gen > x.gen)
        BY <1>2
      <4> QED BY <4>1, <4>2, <4>3
    <3>2. ASSUME NEW t \in Targets, t \in S PROVE x.execs[m][t].seq # 0
      <4>1. x.execs[m][t].seq = w.seqs[t] + 1 /\ w.seqs[t] \in Nat
        BY <1>2, <2>3, <3>2
      <4> QED BY <4>1
    <3> QED BY <3>1, <3>2
  <2>9. ASSUME NEW t \in Targets PROVE x.execs[m][t].seq <= x.seqs[t]
    <3>1. CASE t \in S
      BY <1>2, <2>3, <3>1
    <3>2. CASE t \notin S
      BY <1>2, <2>3, <3>2
    <3> QED BY <3>1, <3>2
  <2>10. ASSUME NEW r \in RunId, ~(r > m) PROVE NumberedRun(x, r)
    <3>1. ~(x.runs[r].gen > x.gen) /\ x.runs[r].targets # {}
      BY <2>4, <2>5, <2>8, <2>10
    <3>2. ASSUME NEW t \in Targets
          PROVE  /\ t \in x.runs[r].targets => x.execs[r][t].seq # 0
                 /\ x.runs[r].gen = x.gen => x.execs[r][t].seq <= x.seqs[t]
      BY <2>4, <2>5, <2>8, <2>9, <2>10
    <3>3. ASSUME NEW t \in Targets, NEW q \in RunId, q # r, x.runs[q] # NoRun,
                 x.runs[q].gen = x.runs[r].gen, x.execs[r][t].seq # 0
          PROVE  x.execs[q][t].seq # x.execs[r][t].seq
      BY <2>4, <2>7, <2>10, <3>3
    <3> QED BY <3>1, <3>2, <3>3 DEF NumberedRun
  <2> QED BY <2>4, <2>10 DEF Numbered
<1> QED BY <1>3, <1>4 DEF Advances

\* The runs of the log have the statuses their executions add up to.
LEMMA LogAddsUp ==
  ASSUME NEW new \in Store, AddsUp(new), NEW w \in Store, AddsUp(w)
  PROVE  AddsUp(Log(new, w))
<1> DEFINE x == Log(new, w)
<1>1. \A r \in RunId :
        /\ x.runs[r] = IF new.runs[r] # NoRun THEN new.runs[r] ELSE w.runs[r]
        /\ x.execs[r] = IF new.runs[r] # NoRun THEN new.execs[r] ELSE w.execs[r]
  BY DEF Log, Store
<1> HIDE DEF x
<1> SUFFICES ASSUME NEW r \in RunId PROVE RunAddsUp(x, r)
  BY DEF AddsUp, x
<1>2. CASE new.runs[r] # NoRun
  <2>1. x.runs[r] = new.runs[r] /\ \A t \in Targets : x.execs[r][t].status = new.execs[r][t].status
    BY <1>1, <1>2
  <2>2. RunAddsUp(new, r)
    BY DEF AddsUp
  <2> QED BY <2>1, <2>2, AddsUpSame
<1>3. CASE new.runs[r] = NoRun
  <2>1. x.runs[r] = w.runs[r] /\ \A t \in Targets : x.execs[r][t].status = w.execs[r][t].status
    BY <1>1, <1>3
  <2>2. RunAddsUp(w, r)
    BY DEF AddsUp
  <2> QED BY <2>1, <2>2, AddsUpSame
<1> QED BY <1>2, <1>3

\* A step of the Agent starts the next run, follows a new generation, or takes no
\* sequence.
LEMMA AgentAdvances ==
  ASSUME ProbeInv, [Next]_vars
  PROVE  Advances(db, db', issued, issued')
<1>0. issued \in Nat /\ issued <= MaxRuns /\ MaxRuns \in Nat
  BY BoundAssumption DEF ProbeInv, TypeInv, TypeOK
<1>1. ASSUME NEW S \in (SUBSET Targets) \ {{}}, StartProbeRun(S)
      PROVE  Advances(db, db', issued, issued')
  <2>1. issued' = issued + 1 /\ issued + 1 \in RunId /\ db' = StartRun(db, issued + 1, S)
    BY <1>0, <1>1 DEF StartProbeRun, RunId
  <2>2. S \in SUBSET Targets /\ S # {}
    OBVIOUS
  <2> QED BY <2>1, <2>2 DEF Advances
<1>2. ASSUME NEW g \in Generation, g > db.gen, ApplyConfiguration(g)
      PROVE  Advances(db, db', issued, issued')
  <2>1. db' = ChangeGeneration(db, g) /\ issued' = issued /\ db \in Store
    BY <1>2 DEF ApplyConfiguration, ProbeInv, TypeInv, TypeOK
  <2>2. db'.gen = g
    BY <2>1 DEF ChangeGeneration, Store
  <2> QED BY <1>2, <2>1, <2>2 DEF Advances
<1>3. ASSUME Local \/ AcknowledgeProbeArtifact \/ UploadRefused,
             ~ \E S \in (SUBSET Targets) \ {{}} : StartProbeRun(S)
      PROVE  Advances(db, db', issued, issued')
  <2>1. db'.gen = db.gen /\ db'.seqs = db.seqs
    BY <1>3, GenerationStep
  <2>2. issued' = issued
    BY <1>3, Zenon DEF Local, Execute, ReconcileProbeRun, StartProbeExecution,
         RecordOutcome, OutcomeRefused, WriteProbeResult, CommitProbeResult, FinishProbeRun,
         AbandonRun, RemoveObsolete, NextProbeArtifact, UploadFails, Crash, RequestStop, Stop,
         LoseResultFile, Open, AcknowledgeProbeArtifact, UploadRefused
  <2> QED BY <2>1, <2>2 DEF Advances
<1>4. CASE UNCHANGED vars
  BY <1>4 DEF Advances, vars
<1> QED BY <1>1, <1>2, <1>3, <1>4 DEF Next
=============================================================================
