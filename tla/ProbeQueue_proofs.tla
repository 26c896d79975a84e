-------------------------- MODULE ProbeQueue_proofs --------------------------
(***************************************************************************)
(* What the transactions of the complete-probe store return and preserve:  *)
(* each returns a store (the typing lemmas), and each keeps records and    *)
(* queue in agreement (Records), a sequence to one execution (Sequences),  *)
(* what a gap counts (Gaps) and the limit of the queue (Bounded).  For     *)
(* the latter each transaction has a lemma that says what it changes, row  *)
(* by row, and one that it preserves the four.                             *)
(***************************************************************************)
EXTENDS ProbeStore, FiniteNaturals

-----------------------------------------------------------------------------
(* Types: every transaction returns a store                                *)

\* The store records with a name, so that a leaf expands one at a time.
LEMMA RunIdFinite == RunId \in SUBSET Nat /\ IsFiniteSet(RunId)
BY BoundAssumption, FS_Interval DEF RunId

\* Updates of one record, of one execution and its queue entry, of a run's row.
LEMMA ExecStarted ==
  ASSUME NEW e \in ExecRecord, NEW n \in Nat
  PROVE  [e EXCEPT !.status = "pending", !.seq = n] \in ExecRecord
BY DEF ExecRecord

LEMMA ExecUpdate ==
  ASSUME NEW st \in Store, NEW r \in RunId, NEW t \in Targets,
         NEW e \in ExecRecord, NEW n \in Nat
  PROVE  [st EXCEPT !.execs[r][t] = e, !.execQ[r][t] = n] \in Store
BY DEF Store

LEMMA RowUpdate ==
  ASSUME NEW st \in Store, NEW r \in RunId,
         NEW e \in [Targets -> ExecRecord], NEW q \in [Targets -> Nat]
  PROVE  [st EXCEPT !.execs[r] = e, !.execQ[r] = q] \in Store
BY DEF Store

LEMMA StartUpdate ==
  ASSUME NEW st \in Store, NEW r \in RunId, NEW run \in RunRecord,
         NEW e \in [Targets -> ExecRecord], NEW q \in [Targets -> Nat]
  PROVE  [st EXCEPT !.runs[r] = run, !.execs[r] = e, !.runQ[r] = 1,
                    !.seqs = q, !.active = r] \in Store
BY DEF Store

\* The empty store is a store.
LEMMA EmptyStoreType == EmptyStore \in Store
<1>1. NoRun \in RunRecord /\ NoExec \in ExecRecord /\ NoGap \in GapRecord
  BY DEF NoRun, RunRecord, NoExec, ExecRecord, NoGap, GapRecord, FinalRunStatus, TerminalStatus
<1>2. 1 \in Generation
  BY BoundAssumption DEF Generation
<1> QED BY <1>1, <1>2 DEF EmptyStore, Store

\* cleanupProbeRun
LEMMA CleanupType ==
  ASSUME NEW st \in Store, NEW R
  PROVE  Cleanup(st, R) \in Store
<1>1. NoRun \in RunRecord /\ NoExec \in ExecRecord
  BY DEF NoRun, RunRecord, NoExec, ExecRecord, FinalRunStatus, TerminalStatus
<1> QED BY <1>1 DEF Cleanup, Store

\* extendProbeGap: a gap that takes in some dropped executions is a gap, and its
\* revision grows.
LEMMA ExtendGapType ==
  ASSUME NEW st \in Store, NEW t \in Targets, NEW D \in SUBSET RunId, D # {}
  PROVE  ExtendGap(st, t, D) \in GapRecord
<1> DEFINE seq == [r \in D |-> st.execs[r][t].seq]
           seqs == {st.execs[r][t].seq : r \in D}
<1>1. \A r \in D : st.execs[r][t].seq \in Nat /\ st.runs[r].gen \in Generation \cup {0}
  BY DEF Store, ExecRecord, RunRecord
<1>2. IsFiniteSet(D) /\ Cardinality(D) \in Nat
  BY RunIdFinite, FS_Subset, FS_CardinalityType
<1>3. seqs \in SUBSET Nat /\ seqs # {}
  BY <1>1
<1>4. IsFiniteSet(seqs)
  <2>1. seq \in [D -> Nat]
    BY <1>1
  <2>2. IsFiniteSet({seq[r] : r \in D})
    <3> HIDE DEF seq
    <3> QED BY <1>2, <2>1, FiniteImage
  <2>3. {seq[r] : r \in D} = seqs
    OBVIOUS
  <2> QED BY <2>2, <2>3
<1>5. Min(seqs) \in seqs /\ Max(seqs) \in seqs
  <2> HIDE DEF seqs
  <2> QED BY <1>3, <1>4, MinProperty, MaxProperty
<1>6. \E r \in D : st.execs[r][t].seq = Min(seqs)
  BY <1>5
<1> DEFINE oldest == CHOOSE r \in D : st.execs[r][t].seq = Min(seqs)
<1>7. oldest \in D
  <2> HIDE DEF seqs
  <2> QED BY <1>6
<1> DEFINE gap == st.gaps[t]
<1>8. gap \in GapRecord
  BY DEF Store
<1>9. Min({gap.first} \cup seqs) \in Nat /\ Max({gap.last} \cup seqs) \in Nat
  <2>1. gap.first \in Nat /\ gap.last \in Nat
    BY <1>8 DEF GapRecord
  <2> HIDE DEF seqs, gap
  <2>2. IsFiniteSet({gap.last} \cup seqs)
    BY <1>4, FS_Singleton, FS_Union
  <2>3. {gap.first} \cup seqs \in SUBSET Nat /\ {gap.last} \cup seqs \in SUBSET Nat
    BY <1>3, <2>1
  <2>4. Min({gap.first} \cup seqs) \in {gap.first} \cup seqs
    BY <2>3, MinProperty
  <2>5. Max({gap.last} \cup seqs) \in {gap.last} \cup seqs
    BY <2>2, <2>3, MaxProperty
  <2> QED BY <2>3, <2>4, <2>5
<1>10. CASE gap = NoGap
  <2> DEFINE new == [id |-> oldest, gen |-> st.runs[oldest].gen, rev |-> Cardinality(D),
                     count |-> Cardinality(D), first |-> Min(seqs), last |-> Max(seqs)]
  <2>1. ExtendGap(st, t, D) = new
    BY <1>10 DEF ExtendGap
  <2>2. Min(seqs) \in Nat /\ Max(seqs) \in Nat
    BY <1>3, <1>5
  <2>3. oldest \in RunId /\ st.runs[oldest].gen \in Generation \cup {0}
    BY <1>1, <1>7
  <2> HIDE DEF oldest, seqs
  <2> QED BY <1>2, <2>1, <2>2, <2>3 DEF GapRecord
<1>11. CASE gap # NoGap
  <2> DEFINE rev == gap.rev + Cardinality(D)
             count == gap.count + Cardinality(D)
             first == Min({gap.first} \cup seqs)
             last == Max({gap.last} \cup seqs)
  <2>1. ExtendGap(st, t, D) =
          [gap EXCEPT !.rev = rev, !.count = count, !.first = first, !.last = last]
    BY <1>11 DEF ExtendGap
  <2>2. rev \in Nat /\ count \in Nat /\ first \in Nat /\ last \in Nat
    BY <1>2, <1>8, <1>9 DEF GapRecord
  <2> HIDE DEF rev, count, first, last, gap
  <2> QED BY <1>8, <2>1, <2>2 DEF GapRecord
<1> QED BY <1>10, <1>11

\* Executions that leave the queue for a gap, before their runs are cleaned up.
LEMMA DropStepType ==
  ASSUME NEW st \in Store, NEW D
  PROVE  LET runsOf(t) == {r \in RunId : <<r, t>> \in D}
             hit == {t \in Targets : runsOf(t) # {}}
             gaps == [t \in Targets |-> IF t \in hit THEN ExtendGap(st, t, runsOf(t))
                                                     ELSE st.gaps[t]]
         IN  [st EXCEPT
                !.execQ = [r \in RunId |-> [t \in Targets |->
                            IF <<r, t>> \in D THEN 0 ELSE st.execQ[r][t]]],
                !.execs = [r \in RunId |-> [t \in Targets |->
                            IF <<r, t>> \in D
                            THEN [st.execs[r][t] EXCEPT !.file = FALSE, !.evicted = TRUE]
                            ELSE st.execs[r][t]]],
                !.gaps = gaps,
                !.gapQ = [t \in Targets |-> IF t \in hit THEN gaps[t].rev ELSE st.gapQ[t]]] \in Store
<1> DEFINE runsOf(t) == {r \in RunId : <<r, t>> \in D}
           hit == {t \in Targets : runsOf(t) # {}}
           gaps == [t \in Targets |-> IF t \in hit THEN ExtendGap(st, t, runsOf(t))
                                                   ELSE st.gaps[t]]
           dropped == [st EXCEPT
             !.execQ = [r \in RunId |-> [t \in Targets |->
                         IF <<r, t>> \in D THEN 0 ELSE st.execQ[r][t]]],
             !.execs = [r \in RunId |-> [t \in Targets |->
                         IF <<r, t>> \in D
                         THEN [st.execs[r][t] EXCEPT !.file = FALSE, !.evicted = TRUE]
                         ELSE st.execs[r][t]]],
             !.gaps = gaps,
             !.gapQ = [t \in Targets |-> IF t \in hit THEN gaps[t].rev ELSE st.gapQ[t]]]
<1>1. gaps \in [Targets -> GapRecord]
  <2>1. \A t \in Targets : st.gaps[t] \in GapRecord
    BY DEF Store
  <2>2. \A t \in hit : ExtendGap(st, t, runsOf(t)) \in GapRecord
    <3> SUFFICES ASSUME NEW t \in hit PROVE ExtendGap(st, t, runsOf(t)) \in GapRecord
      OBVIOUS
    <3>1. t \in Targets /\ runsOf(t) \in SUBSET RunId /\ runsOf(t) # {}
      OBVIOUS
    <3> HIDE DEF runsOf
    <3> QED BY <3>1, ExtendGapType
  <2> QED BY <2>1, <2>2
<1>2. \A t \in Targets : gaps[t].rev \in Nat
  <2> HIDE DEF gaps
  <2> QED BY <1>1 DEF GapRecord
<1>3. \A r \in RunId, t \in Targets :
         st.execs[r][t] \in ExecRecord /\ st.execQ[r][t] \in Nat
  BY DEF Store
<1>4. \A r \in RunId, t \in Targets :
         [st.execs[r][t] EXCEPT !.file = FALSE, !.evicted = TRUE] \in ExecRecord
  BY <1>3 DEF ExecRecord
<1>5. \A t \in Targets : st.gapQ[t] \in Nat
  BY DEF Store
<1>6. dropped \in Store
  <2> HIDE DEF gaps, hit
  <2> QED BY <1>1, <1>2, <1>3, <1>4, <1>5 DEF Store
<1> QED BY <1>6

\* Executions that leave the queue for a gap.
LEMMA DropExecutionsType ==
  ASSUME NEW st \in Store, NEW D
  PROVE  DropExecutions(st, D) \in Store
<1> DEFINE runsOf(t) == {r \in RunId : <<r, t>> \in D}
           hit == {t \in Targets : runsOf(t) # {}}
           gaps == [t \in Targets |-> IF t \in hit THEN ExtendGap(st, t, runsOf(t))
                                                   ELSE st.gaps[t]]
           dropped == [st EXCEPT
             !.execQ = [r \in RunId |-> [t \in Targets |->
                         IF <<r, t>> \in D THEN 0 ELSE st.execQ[r][t]]],
             !.execs = [r \in RunId |-> [t \in Targets |->
                         IF <<r, t>> \in D
                         THEN [st.execs[r][t] EXCEPT !.file = FALSE, !.evicted = TRUE]
                         ELSE st.execs[r][t]]],
             !.gaps = gaps,
             !.gapQ = [t \in Targets |-> IF t \in hit THEN gaps[t].rev ELSE st.gapQ[t]]]
<1>1. DropExecutions(st, D) = Cleanup(dropped, {r \in RunId : \E t \in Targets : <<r, t>> \in D})
  BY DEF DropExecutions
<1>2. dropped \in Store
  BY DropStepType
<1> HIDE DEF dropped
<1> QED BY <1>1, <1>2, CleanupType

\* finishProbeRun
LEMMA FinishedType ==
  ASSUME NEW st \in Store, NEW r \in RunId
  PROVE  [st EXCEPT !.runs[r].status = FinalStatus(st, r), !.runs[r].rev = st.runs[r].rev + 1,
                    !.active = 0] \in Store
<1> DEFINE rev == st.runs[r].rev + 1
<1>1. FinalStatus(st, r) \in FinalRunStatus
  BY DEF FinalStatus, FinalRunStatus
<1>2. st.runs[r] \in RunRecord /\ rev \in Nat
  BY DEF Store, RunRecord
<1>3. [st.runs[r] EXCEPT !.status = FinalStatus(st, r), !.rev = rev] \in RunRecord
  BY <1>1, <1>2 DEF RunRecord
<1> QED BY <1>1, <1>2, <1>3 DEF Store, RunRecord

LEMMA FinishRunType ==
  ASSUME NEW st \in Store, NEW r \in RunId
  PROVE  FinishRun(st, r) \in Store
<1> DEFINE rev == st.runs[r].rev + 1
           done == [st EXCEPT !.runs[r].status = FinalStatus(st, r), !.runs[r].rev = rev,
                              !.active = 0]
<1>1. done \in Store
  BY FinishedType
<1>2. rev \in Nat
  BY DEF Store, RunRecord
<1>3. [done EXCEPT !.runQ[r] = rev] \in Store
  <2> HIDE DEF done, rev
  <2> QED BY <1>1, <1>2 DEF Store
<1>4. FinishRun(st, r) = IF IsCurrent(st, r) THEN [done EXCEPT !.runQ[r] = rev]
                                             ELSE Cleanup(done, {r})
  BY DEF FinishRun
<1> HIDE DEF done, rev
<1> QED BY <1>1, <1>3, <1>4, CleanupType

\* StartProbeRunAtRevision
LEMMA StartRunType ==
  ASSUME NEW st \in Store, NEW r \in RunId, NEW S \in SUBSET Targets
  PROVE  StartRun(st, r, S) \in Store
<1>1. [status |-> "running", gen |-> st.gen, rev |-> 1, targets |-> S] \in RunRecord
  BY DEF Store, RunRecord
<1>2. \A t \in Targets : st.seqs[t] \in Nat
  BY DEF Store
<1>3. NoExec \in ExecRecord /\
      \A t \in Targets : [NoExec EXCEPT !.status = "pending", !.seq = st.seqs[t] + 1] \in ExecRecord
  <2>1. NoExec \in ExecRecord
    BY DEF NoExec, ExecRecord, TerminalStatus
  <2>2. \A t \in Targets : st.seqs[t] + 1 \in Nat
    BY <1>2
  <2> QED BY <2>1, <2>2, ExecStarted
<1> DEFINE run == [status |-> "running", gen |-> st.gen, rev |-> 1, targets |-> S]
           execs == [t \in Targets |->
                       IF t \in S THEN [NoExec EXCEPT !.status = "pending", !.seq = st.seqs[t] + 1]
                                  ELSE NoExec]
           seqs == [t \in Targets |-> IF t \in S THEN st.seqs[t] + 1 ELSE st.seqs[t]]
<1>4. run \in RunRecord /\ execs \in [Targets -> ExecRecord] /\ seqs \in [Targets -> Nat]
  <2>1. \A t \in Targets : st.seqs[t] + 1 \in Nat
    BY <1>2
  <2>2. run \in RunRecord
    BY <1>1
  <2>3. execs \in [Targets -> ExecRecord]
    BY <1>3
  <2>4. seqs \in [Targets -> Nat]
    BY <1>2, <2>1
  <2> QED BY <2>2, <2>3, <2>4
<1>5. StartRun(st, r, S) = [st EXCEPT !.runs[r] = run, !.execs[r] = execs, !.runQ[r] = 1,
                                      !.seqs = seqs, !.active = r]
  BY DEF StartRun, NextSequence
<1> HIDE DEF run, execs, seqs
<1>6. [st EXCEPT !.runs[r] = run, !.execs[r] = execs, !.runQ[r] = 1,
                 !.seqs = seqs, !.active = r] \in Store
  BY <1>4, StartUpdate
<1> QED BY <1>5, <1>6

\* StartProbeExecution
LEMMA BeginExecutionType ==
  ASSUME NEW st \in Store, NEW r \in RunId, NEW t \in Targets
  PROVE  BeginExecution(st, r, t) \in Store
<1>1. st.execs[r][t] \in ExecRecord /\ st.execs[r][t].rev + 1 \in Nat
  BY DEF Store, ExecRecord
<1> DEFINE exec == [st.execs[r][t] EXCEPT !.status = "running", !.rev = st.execs[r][t].rev + 1]
           queued == IF IsCurrent(st, r) THEN st.execs[r][t].rev + 1 ELSE st.execQ[r][t]
<1>2. exec \in ExecRecord
  BY <1>1 DEF ExecRecord
<1>3. queued \in Nat
  BY <1>1 DEF Store
<1>4. BeginExecution(st, r, t) = [st EXCEPT !.execs[r][t] = exec, !.execQ[r][t] = queued]
  BY DEF BeginExecution, Store, ExecRecord
<1> HIDE DEF exec, queued
<1>5. [st EXCEPT !.execs[r][t] = exec, !.execQ[r][t] = queued] \in Store
  BY <1>2, <1>3, ExecUpdate
<1> QED BY <1>4, <1>5

\* CompleteProbeExecution, before and after the limit is enforced.
LEMMA CloseExecutionType ==
  ASSUME NEW st \in Store, NEW r \in RunId, NEW t \in Targets, NEW o \in TerminalStatus
  PROVE  CloseExecution(st, r, t, o) \in Store
<1>1. st.execs[r][t] \in ExecRecord /\ st.execs[r][t].rev + 1 \in Nat
  BY DEF Store, ExecRecord
<1>2. IsCurrent(st, r) \in BOOLEAN
  BY DEF IsCurrent
<1> DEFINE rev == st.execs[r][t].rev + 1
           file == IsCurrent(st, r) /\ o = "succeeded"
           evicted == st.execs[r][t].evicted \/ ~IsCurrent(st, r)
           exec == [st.execs[r][t] EXCEPT !.status = o, !.rev = rev,
                                          !.file = file, !.evicted = evicted]
           queued == IF IsCurrent(st, r) THEN rev ELSE st.execQ[r][t]
<1>3. rev \in Nat /\ file \in BOOLEAN /\ evicted \in BOOLEAN
  BY <1>1
<1>4. exec \in ExecRecord
  <2> HIDE DEF rev, file, evicted
  <2> QED BY <1>1, <1>3 DEF ExecRecord
<1>5. queued \in Nat
  BY <1>1 DEF Store
<1>6. CloseExecution(st, r, t, o) = [st EXCEPT !.execs[r][t] = exec, !.execQ[r][t] = queued]
  BY DEF CloseExecution
<1> HIDE DEF exec, queued
<1>7. [st EXCEPT !.execs[r][t] = exec, !.execQ[r][t] = queued] \in Store
  BY <1>4, <1>5, ExecUpdate
<1> QED BY <1>6, <1>7

LEMMA CompleteExecutionType ==
  ASSUME NEW st \in Store, NEW r \in RunId, NEW t \in Targets, NEW o \in TerminalStatus
  PROVE  CompleteExecution(st, r, t, o) \in Store
BY CloseExecutionType, DropExecutionsType DEF CompleteExecution, EnforceLimit

\* ReconcileProbeRun
LEMMA CloseOpenExecutionsType ==
  ASSUME NEW st \in Store, NEW r \in RunId
  PROVE  CloseOpenExecutions(st, r) \in Store
<1> DEFINE close(e) == [e EXCEPT !.status = IF e.status = "running" THEN "interrupted" ELSE "skipped",
                                 !.rev = @ + 1, !.evicted = @ \/ ~IsCurrent(st, r)]
<1>1. \A t \in Targets : st.execs[r][t] \in ExecRecord /\ st.execQ[r][t] \in Nat
  BY DEF Store
<1>2. \A e \in ExecRecord : close(e) \in ExecRecord /\ e.rev + 1 \in Nat
  <2> SUFFICES ASSUME NEW e \in ExecRecord PROVE close(e) \in ExecRecord /\ e.rev + 1 \in Nat
    OBVIOUS
  <2> DEFINE status == IF e.status = "running" THEN "interrupted" ELSE "skipped"
             rev == e.rev + 1
             evicted == e.evicted \/ ~IsCurrent(st, r)
  <2>1. status \in TerminalStatus /\ rev \in Nat /\ evicted \in BOOLEAN
    BY DEF ExecRecord, TerminalStatus
  <2>2. close(e) = [e EXCEPT !.status = status, !.rev = rev, !.evicted = evicted]
    OBVIOUS
  <2>3. rev = e.rev + 1
    OBVIOUS
  <2> HIDE DEF close, status, rev, evicted
  <2> QED BY <2>1, <2>2, <2>3 DEF ExecRecord
<1>3. \A t \in Targets : close(st.execs[r][t]) \in ExecRecord /\ st.execs[r][t].rev + 1 \in Nat
  BY <1>1, <1>2
<1> DEFINE newE == [t \in Targets |-> IF t \in OpenTargets(st, r) THEN close(st.execs[r][t])
                                                                  ELSE st.execs[r][t]]
           newQ == [t \in Targets |-> IF t \in OpenTargets(st, r) /\ IsCurrent(st, r)
                                      THEN st.execs[r][t].rev + 1 ELSE st.execQ[r][t]]
<1>4. newE \in [Targets -> ExecRecord] /\ newQ \in [Targets -> Nat]
  <2> HIDE DEF close
  <2> QED BY <1>1, <1>3
<1>5. CloseOpenExecutions(st, r) = [st EXCEPT !.execs[r] = newE, !.execQ[r] = newQ]
  BY DEF CloseOpenExecutions
<1> HIDE DEF newE, newQ, close
<1>6. [st EXCEPT !.execs[r] = newE, !.execQ[r] = newQ] \in Store
  BY <1>4, RowUpdate
<1> QED BY <1>5, <1>6

LEMMA ReconcileRunType ==
  ASSUME NEW st \in Store, st.active # 0
  PROVE  ReconcileRun(st) \in Store
<1>1. st.active \in RunId
  BY DEF Store
<1> QED BY <1>1, CloseOpenExecutionsType, DropExecutionsType, FinishRunType
        DEF ReconcileRun, EnforceLimit

\* reconcileProbeGeneration
LEMMA ChangeGenerationType ==
  ASSUME NEW st \in Store, NEW g \in Generation
  PROVE  ChangeGeneration(st, g) \in Store
<1>1. NoRun \in RunRecord /\ NoExec \in ExecRecord /\ NoGap \in GapRecord
  BY DEF NoRun, RunRecord, NoExec, ExecRecord, NoGap, GapRecord, FinalRunStatus, TerminalStatus
<1>2. \A r \in RunId, t \in Targets : st.execs[r][t] \in ExecRecord
  BY DEF Store
<1>3. \A e \in ExecRecord : [e EXCEPT !.file = FALSE, !.evicted = TRUE] \in ExecRecord
  BY DEF ExecRecord
<1> DEFINE stale(r) == st.runs[r].gen # g
           kept(r) == ~stale(r) \/ st.runs[r].status = "running"
           seqs == [t \in Targets |-> 0]
           gaps == [t \in Targets |-> IF st.gaps[t].gen # g THEN NoGap ELSE st.gaps[t]]
           gapQ == [t \in Targets |-> IF st.gaps[t].gen # g THEN 0 ELSE st.gapQ[t]]
           runs == [r \in RunId |-> IF kept(r) THEN st.runs[r] ELSE NoRun]
           runQ == [r \in RunId |-> IF stale(r) THEN 0 ELSE st.runQ[r]]
           execs == [r \in RunId |-> [t \in Targets |->
                       IF ~stale(r) THEN st.execs[r][t]
                       ELSE IF kept(r) /\ t \in st.runs[r].targets
                       THEN [st.execs[r][t] EXCEPT !.file = FALSE, !.evicted = TRUE]
                       ELSE NoExec]]
           execQ == [r \in RunId |-> [t \in Targets |->
                       IF stale(r) THEN 0 ELSE st.execQ[r][t]]]
<1>4. seqs \in [Targets -> Nat] /\ gapQ \in [Targets -> Nat] /\ runQ \in [RunId -> Nat]
  BY DEF Store
<1>5. gaps \in [Targets -> GapRecord] /\ runs \in [RunId -> RunRecord]
  BY <1>1 DEF Store
<1>6. execs \in [RunId -> [Targets -> ExecRecord]]
  <2> HIDE DEF stale, kept
  <2> QED BY <1>1, <1>2, <1>3
<1>7. execQ \in [RunId -> [Targets -> Nat]]
  BY DEF Store
<1>8. ChangeGeneration(st, g) =
        [st EXCEPT !.gen = g, !.seqs = seqs, !.gaps = gaps, !.gapQ = gapQ, !.runs = runs,
                   !.runQ = runQ, !.execs = execs, !.execQ = execQ]
  BY DEF ChangeGeneration
<1> HIDE DEF seqs, gaps, gapQ, runs, runQ, execs, execQ
<1> QED BY <1>4, <1>5, <1>6, <1>7, <1>8 DEF Store

\* AcknowledgeProbeArtifact, for a key that names a run, an execution or a gap.
NamedKey(k) == /\ k.kind \in {"run", "execution"} => k.run \in RunId
               /\ k.kind \in {"execution", "gap"} => k.target \in Targets
               /\ k.kind \in {"run", "execution", "gap"}

LEMMA TakenType ==
  ASSUME NEW st \in Store, NEW r \in RunId, NEW t \in Targets
  PROVE  [st EXCEPT !.execQ[r][t] = 0, !.execs[r][t].file = FALSE] \in Store
<1> DEFINE x == st.execs[r][t]
<1>1. x \in ExecRecord
  BY DEF Store
<1>2. [x EXCEPT !.file = FALSE] \in ExecRecord
  <2> HIDE DEF x
  <2> QED BY <1>1 DEF ExecRecord
<1> QED BY <1>2 DEF Store

LEMMA AcknowledgeType ==
  ASSUME NEW st \in Store, NEW k, NamedKey(k), NEW rev
  PROVE  Acknowledge(st, k, rev) \in Store
<1>1. CASE QueuedRevision(st, k) # rev
  BY <1>1 DEF Acknowledge, Superseded
<1>2. CASE QueuedRevision(st, k) = rev /\ k.kind = "run"
  <2>1. k.run \in RunId
    BY <1>2 DEF NamedKey
  <2>2. [st EXCEPT !.runQ[k.run] = 0] \in Store
    BY <2>1 DEF Store
  <2> QED BY <1>2, <2>2, CleanupType DEF Acknowledge, Superseded
<1>3. CASE QueuedRevision(st, k) = rev /\ k.kind = "execution"
  <2>1. k.run \in RunId /\ k.target \in Targets
    BY <1>3 DEF NamedKey
  <2> DEFINE taken == [st EXCEPT !.execQ[k.run][k.target] = 0,
                                 !.execs[k.run][k.target].file = FALSE]
  <2>2. taken \in Store
    BY <2>1, TakenType
  <2> HIDE DEF taken
  <2>3. Acknowledge(st, k, rev) = Cleanup(taken, {k.run})
    BY <1>3 DEF Acknowledge, Superseded, taken
  <2> QED BY <2>2, <2>3, CleanupType
<1>4. CASE QueuedRevision(st, k) = rev /\ k.kind = "gap"
  <2>1. k.target \in Targets
    BY <1>4 DEF NamedKey
  <2>2. NoGap \in GapRecord
    BY DEF NoGap, GapRecord
  <2>3. [st EXCEPT !.gapQ[k.target] = 0, !.gaps[k.target] = NoGap] \in Store
    BY <2>1, <2>2 DEF Store
  <2> QED BY <1>4, <2>3 DEF Acknowledge, Superseded
<1> QED BY <1>1, <1>2, <1>3, <1>4 DEF NamedKey

-----------------------------------------------------------------------------
(* Rows and queue: what every transaction preserves                        *)

IsOpen(e) == e.status \in {"pending", "running"}

\* The rows of the store against each other, when n runs have been started: what is
\* queued is queued at the revision of its record and belongs to the current
\* generation; only a run's own targets have executions, each with a sequence; a
\* result file is named by queued executions only.
Records(st, n) ==
    \A r \in RunId :
        /\ r > n => st.runs[r] = NoRun
        /\ st.runs[r].status = "none" => st.runs[r] = NoRun
        /\ st.runs[r].gen <= st.gen
        /\ st.runQ[r] # 0 => st.runs[r].rev = st.runQ[r] /\ st.runs[r].gen = st.gen
        /\ \A t \in Targets :
             /\ t \notin st.runs[r].targets => st.execs[r][t] = NoExec
             /\ t \in st.runs[r].targets => /\ st.execs[r][t].seq # 0
                                            /\ st.execs[r][t].status # "none"
             /\ st.execQ[r][t] # 0 => /\ st.execs[r][t].rev = st.execQ[r][t]
                                      /\ st.runs[r].gen = st.gen
             /\ st.execs[r][t].file => st.execQ[r][t] # 0 /\ Terminal(st.execs[r][t])

\* An execution the queue may still lose to a gap: it is queued, or will be.
Live(st, r, t) == st.runs[r].gen = st.gen /\ (st.execQ[r][t] # 0 \/ IsOpen(st.execs[r][t]))

\* Among the runs of the current generation.
Sequences(st) ==
    \A t \in Targets, r \in RunId : st.runs[r].gen = st.gen =>
        /\ st.execs[r][t].seq <= st.seqs[t]
        /\ \A q \in RunId : q # r /\ st.runs[q].gen = st.gen /\ st.execs[q][t].seq # 0
                               => st.execs[q][t].seq # st.execs[r][t].seq

\* X are the sequences the gap of target t has counted.
Counted(st, t, X) ==
    /\ Cardinality(X) = st.gaps[t].count
    /\ \A r \in RunId : Live(st, r, t) => st.execs[r][t].seq \notin X

\* The gap of a target is queued at its revision, is of the current generation, is
\* named by an execution that will not be dropped again, and counts distinct sequences
\* between its bounds, none of which can be dropped again.  A target has had at most
\* one attempt per run.
Gaps(st, n) ==
    \A t \in Targets :
        /\ st.seqs[t] <= n
        /\ st.gapQ[t] = st.gaps[t].rev
        /\ st.gaps[t] # NoGap => st.gaps[t].gen = st.gen /\ st.gaps[t].id # 0
        /\ st.gaps[t].id <= n
        /\ st.gaps[t].id # 0 => ~Live(st, st.gaps[t].id, t)
        /\ st.gaps[t].first <= st.gaps[t].last /\ st.gaps[t].last <= st.seqs[t]
        /\ \E X \in SUBSET (st.gaps[t].first .. st.gaps[t].last) : Counted(st, t, X)

Bounded(st) == \A t \in Targets : Cardinality(Pending(st, t)) <= MaxPending

QueueInv(st, n) == Records(st, n) /\ Sequences(st) /\ Gaps(st, n) /\ Bounded(st)

\* What a transaction may do to the n runs that have been started: a run is deleted
\* with its executions, or revisions grow, a status under an old revision included,
\* what names it stays and what is closed stays as it is.
RunEvolves(st, new, r) ==
    \/ new.runs[r] = NoRun /\ \A t \in Targets : new.execs[r][t] = NoExec
    \/ /\ st.runs[r] # NoRun
       /\ new.runs[r].rev >= st.runs[r].rev
       /\ new.runs[r].gen = st.runs[r].gen /\ new.runs[r].targets = st.runs[r].targets
       /\ st.runs[r].status \in FinalRunStatus => new.runs[r] = st.runs[r]
       /\ \A t \in Targets :
            /\ new.execs[r][t].rev >= st.execs[r][t].rev
            /\ new.execs[r][t].seq = st.execs[r][t].seq
            /\ new.execs[r][t].rev = st.execs[r][t].rev =>
                 new.execs[r][t].status = st.execs[r][t].status
            /\ Terminal(st.execs[r][t]) =>
                 /\ new.execs[r][t].status = st.execs[r][t].status
                 /\ new.execs[r][t].rev = st.execs[r][t].rev

\* The generation does not go back.  A gap stays, grows under a new revision, or is
\* named by an execution that was live; what is not live any more stays so.
GapEvolves(st, new, t) ==
    \/ new.gaps[t].id = 0
    \/ new.gaps[t] = st.gaps[t] /\ new.gapQ[t] = st.gapQ[t]
    \/ /\ new.gaps[t].id = st.gaps[t].id /\ new.gaps[t].gen = st.gaps[t].gen
       /\ new.gapQ[t] > st.gapQ[t]
    \/ Live(st, new.gaps[t].id, t)

Evolves(st, new, n) ==
    /\ new.gen >= st.gen
    /\ \A r \in RunId : ~(r > n) =>
         /\ RunEvolves(st, new, r)
         /\ \A t \in Targets : Live(new, r, t) => Live(st, r, t)
    /\ \A t \in Targets : GapEvolves(st, new, t)

-----------------------------------------------------------------------------
(* The fields of a store                                                   *)

LEMMA Fields ==
  ASSUME NEW st \in Store
  PROVE  /\ st.gen \in Nat \ {0}
         /\ \A r \in RunId : /\ st.runs[r] \in RunRecord /\ st.runs[r].gen \in Nat
                             /\ st.runs[r].rev \in Nat /\ st.runQ[r] \in Nat
                             /\ st.runs[r].targets \in SUBSET Targets
         /\ \A r \in RunId, t \in Targets :
              /\ st.execs[r][t] \in ExecRecord /\ st.execs[r][t].seq \in Nat
              /\ st.execs[r][t].rev \in Nat /\ st.execQ[r][t] \in Nat
              /\ st.execs[r][t].file \in BOOLEAN
         /\ \A t \in Targets : /\ st.gaps[t] \in GapRecord /\ st.gaps[t].id \in Nat
                               /\ st.gaps[t].first \in Nat /\ st.gaps[t].last \in Nat
                               /\ st.gaps[t].count \in Nat /\ st.gaps[t].rev \in Nat
                               /\ st.gapQ[t] \in Nat /\ st.seqs[t] \in Nat
<1>1. Generation \in SUBSET (Nat \ {0}) /\ RunId \in SUBSET Nat
  BY BoundAssumption DEF Generation, RunId
<1>2. ASSUME NEW e \in RunRecord PROVE e.gen \in Nat /\ e.rev \in Nat /\ e.targets \in SUBSET Targets
  <2>1. e.gen \in Generation \cup {0} /\ e.rev \in Nat /\ e.targets \in SUBSET Targets
    BY DEF RunRecord
  <2>2. \A n \in Generation : n \in Nat
    BY <1>1
  <2> QED BY <2>1, <2>2
<1>3. \A e \in ExecRecord : e.seq \in Nat /\ e.rev \in Nat /\ e.file \in BOOLEAN
  BY DEF ExecRecord
<1>4. ASSUME NEW e \in GapRecord
      PROVE  e.id \in Nat /\ e.first \in Nat /\ e.last \in Nat /\ e.count \in Nat /\ e.rev \in Nat
  <2>1. /\ e.id \in RunId \cup {0} /\ e.first \in Nat /\ e.last \in Nat
        /\ e.count \in Nat /\ e.rev \in Nat
    BY DEF GapRecord
  <2>2. \A n \in RunId : n \in Nat
    BY <1>1
  <2> QED BY <2>1, <2>2
<1>5. /\ st.gen \in Generation /\ st.runs \in [RunId -> RunRecord]
      /\ st.execs \in [RunId -> [Targets -> ExecRecord]] /\ st.gaps \in [Targets -> GapRecord]
      /\ st.runQ \in [RunId -> Nat] /\ st.execQ \in [RunId -> [Targets -> Nat]]
      /\ st.gapQ \in [Targets -> Nat] /\ st.seqs \in [Targets -> Nat]
  BY DEF Store
<1>6. \A r \in RunId, t \in Targets : st.execs[r][t] \in ExecRecord /\ st.execQ[r][t] \in Nat
  BY <1>5
<1>7. \A r \in RunId : st.runs[r] \in RunRecord /\ st.runQ[r] \in Nat
  BY <1>5
<1>8. \A t \in Targets : st.gaps[t] \in GapRecord /\ st.gapQ[t] \in Nat /\ st.seqs[t] \in Nat
  BY <1>5
<1>9. \A r \in RunId : /\ st.runs[r].gen \in Nat /\ st.runs[r].rev \in Nat
                        /\ st.runs[r].targets \in SUBSET Targets
  BY <1>2, <1>7
<1>10. \A r \in RunId, t \in Targets :
         /\ st.execs[r][t].seq \in Nat /\ st.execs[r][t].rev \in Nat
         /\ st.execs[r][t].file \in BOOLEAN
  BY <1>3, <1>6
<1>11. \A t \in Targets : /\ st.gaps[t].id \in Nat
                          /\ st.gaps[t].first \in Nat /\ st.gaps[t].last \in Nat
                          /\ st.gaps[t].count \in Nat /\ st.gaps[t].rev \in Nat
  BY <1>4, <1>8
<1> QED BY <1>1, <1>5, <1>6, <1>7, <1>8, <1>9, <1>10, <1>11

\* A run of the current generation exists, and a queued execution is one its run lists.
LEMMA Exists ==
  ASSUME NEW st \in Store, NEW n, Records(st, n), NEW r \in RunId
  PROVE  /\ st.runs[r].gen = st.gen => st.runs[r] # NoRun /\ ~(r > n)
         /\ \A t \in Targets : st.execQ[r][t] # 0 \/ IsOpen(st.execs[r][t])
               => t \in st.runs[r].targets /\ st.execs[r][t].seq # 0
<1>1. NoExec.rev = 0 /\ ~IsOpen(NoExec) /\ NoRun.gen = 0
  BY DEF NoExec, IsOpen, NoRun
<1> QED BY <1>1, Fields DEF Records

-----------------------------------------------------------------------------
(* Transactions that add no gap                                            *)

LEMMA GapsKept ==
  ASSUME NEW st \in Store, NEW new \in Store, NEW n \in Nat, NEW m \in Nat, n <= m,
         Gaps(st, n), new.gen = st.gen, new.gaps = st.gaps, new.gapQ = st.gapQ,
         \A t \in Targets : new.seqs[t] >= st.seqs[t] /\ new.seqs[t] <= m,
         \A r \in RunId, t \in Targets : Live(new, r, t) =>
            \/ Live(st, r, t) /\ new.execs[r][t].seq = st.execs[r][t].seq
            \/ r > n /\ new.execs[r][t].seq > st.seqs[t]
  PROVE  Gaps(new, m)
<1> SUFFICES ASSUME NEW t \in Targets
             PROVE  /\ new.seqs[t] <= m
                    /\ new.gapQ[t] = new.gaps[t].rev
                    /\ new.gaps[t] # NoGap => new.gaps[t].gen = new.gen /\ new.gaps[t].id # 0
                    /\ new.gaps[t].id <= m
                    /\ new.gaps[t].id # 0 => ~Live(new, new.gaps[t].id, t)
                    /\ new.gaps[t].first <= new.gaps[t].last /\ new.gaps[t].last <= new.seqs[t]
                    /\ \E X \in SUBSET (new.gaps[t].first .. new.gaps[t].last) : Counted(new, t, X)
  BY DEF Gaps
<1>1. /\ st.gapQ[t] = st.gaps[t].rev /\ (st.gaps[t] # NoGap => st.gaps[t].gen = st.gen /\ st.gaps[t].id # 0)
      /\ st.gaps[t].id <= n /\ (st.gaps[t].id # 0 => ~Live(st, st.gaps[t].id, t))
      /\ st.gaps[t].first <= st.gaps[t].last /\ st.gaps[t].last <= st.seqs[t]
  BY DEF Gaps
<1>2. PICK X \in SUBSET (st.gaps[t].first .. st.gaps[t].last) : Counted(st, t, X)
  BY DEF Gaps
<1>3. st.gaps[t].id \in RunId \cup {0}
  BY DEF Store, GapRecord
<1>4. /\ st.gaps[t].last \in Nat /\ st.gaps[t].first \in Nat /\ st.gaps[t].id \in Nat
      /\ st.seqs[t] \in Nat /\ new.seqs[t] \in Nat
      /\ \A r \in RunId : new.execs[r][t].seq \in Nat
  BY Fields
<1>5. Counted(new, t, X)
  <2>1. \A x \in X : x <= st.seqs[t]
    BY <1>1, <1>4
  <2> QED BY <1>2, <1>4, <2>1 DEF Counted
<1>6. new.gaps[t].id # 0 => ~Live(new, new.gaps[t].id, t)
  BY <1>1, <1>3, <1>4
<1> QED BY <1>1, <1>2, <1>4, <1>5, <1>6

LEMMA SequencesKept ==
  ASSUME NEW st \in Store, NEW new \in Store, Sequences(st),
         new.gen = st.gen, new.seqs = st.seqs,
         \A r \in RunId : new.runs[r].gen = new.gen =>
            /\ st.runs[r].gen = st.gen
            /\ \A t \in Targets : new.execs[r][t].seq = st.execs[r][t].seq
  PROVE  Sequences(new)
BY DEF Sequences

\* What waits for upload is bounded when no more waits.
LEMMA BoundedKept ==
  ASSUME NEW st \in Store, NEW new \in Store, Bounded(st),
         \A t \in Targets, r \in RunId :
            new.execQ[r][t] # 0 /\ Terminal(new.execs[r][t]) =>
               st.execQ[r][t] # 0 /\ Terminal(st.execs[r][t])
  PROVE  Bounded(new)
<1> SUFFICES ASSUME NEW t \in Targets PROVE Cardinality(Pending(new, t)) <= MaxPending
  BY DEF Bounded
<1>1. Pending(new, t) \subseteq Pending(st, t)
  BY DEF Pending
<1>2. IsFiniteSet(Pending(st, t))
  BY RunIdFinite, FS_Subset DEF Pending
<1>3. /\ Cardinality(Pending(new, t)) <= Cardinality(Pending(st, t))
      /\ Cardinality(Pending(new, t)) \in Nat /\ Cardinality(Pending(st, t)) \in Nat
  BY <1>1, <1>2, FS_Subset, FS_CardinalityType
<1>4. Cardinality(Pending(st, t)) <= MaxPending /\ MaxPending \in Nat
  BY BoundAssumption DEF Bounded
<1> QED BY <1>3, <1>4

\* cleanupProbeRun deletes finished runs that have nothing queued any more.
LEMMA CleanupRows ==
  ASSUME NEW st \in Store, NEW R
  PROVE  LET new == Cleanup(st, R)
         IN  /\ new.gen = st.gen /\ new.gaps = st.gaps /\ new.gapQ = st.gapQ
             /\ new.seqs = st.seqs /\ new.active = st.active /\ new.execQ = st.execQ
             /\ \A r \in RunId :
                  \/ /\ new.runs[r] = st.runs[r] /\ new.execs[r] = st.execs[r]
                     /\ new.runQ[r] = st.runQ[r]
                  \/ /\ st.runs[r].status # "running"
                     /\ \A t \in st.runs[r].targets : st.execQ[r][t] = 0
                     /\ new.runs[r] = NoRun /\ new.runQ[r] = 0
                     /\ new.execs[r] = [t \in Targets |-> NoExec]
<1> DEFINE gone(r) == /\ st.runs[r].status # "running"
                      /\ \A t \in st.runs[r].targets : st.execQ[r][t] = 0
           lossy(r) == \E t \in st.runs[r].targets : st.execs[r][t].evicted
           deleted == {r \in R : gone(r) /\ (lossy(r) \/ st.runQ[r] = 0)}
           new == Cleanup(st, R)
<1>1. /\ new.gen = st.gen /\ new.gaps = st.gaps /\ new.gapQ = st.gapQ
      /\ new.seqs = st.seqs /\ new.active = st.active /\ new.execQ = st.execQ
      /\ new.runs = [r \in RunId |-> IF r \in deleted THEN NoRun ELSE st.runs[r]]
      /\ new.execs = [r \in RunId |-> IF r \in deleted THEN [t \in Targets |-> NoExec]
                                                        ELSE st.execs[r]]
      /\ new.runQ = [r \in RunId |-> IF r \in deleted THEN 0 ELSE st.runQ[r]]
  BY DEF Cleanup, Store
<1>2. \A r \in deleted : gone(r)
  OBVIOUS
<1> HIDE DEF new, deleted
<1> QED BY <1>1, <1>2 DEF new

LEMMA CleanupQueue ==
  ASSUME NEW st \in Store, NEW R, NEW n \in Nat,
         Records(st, n), Sequences(st), Gaps(st, n)
  PROVE  LET new == Cleanup(st, R)
         IN  /\ new \in Store /\ Records(new, n) /\ Sequences(new) /\ Gaps(new, n)
             /\ \A r \in RunId, t \in Targets :
                   new.execQ[r][t] # 0 => new.execs[r][t] = st.execs[r][t]
<1> DEFINE new == Cleanup(st, R)
<1>1. new \in Store
  BY CleanupType
<1>2. /\ new.gen = st.gen /\ new.gaps = st.gaps /\ new.gapQ = st.gapQ
      /\ new.seqs = st.seqs /\ new.execQ = st.execQ
      /\ \A r \in RunId :
           \/ /\ new.runs[r] = st.runs[r] /\ new.execs[r] = st.execs[r]
              /\ new.runQ[r] = st.runQ[r]
           \/ /\ \A t \in st.runs[r].targets : st.execQ[r][t] = 0
              /\ new.runs[r] = NoRun /\ new.runQ[r] = 0
              /\ new.execs[r] = [t \in Targets |-> NoExec]
  BY CleanupRows
<1> HIDE DEF new
<1>3. /\ NoRun.gen = 0 /\ NoRun.targets = {} /\ NoRun.status = "none"
      /\ NoExec.seq = 0 /\ NoExec.rev = 0 /\ NoExec.file = FALSE /\ ~IsOpen(NoExec)
  BY DEF NoRun, NoExec, IsOpen
<1>4. st.gen \in Nat \ {0}
  BY Fields
\* A deleted run had nothing queued.
<1>5. \A r \in RunId :
        \/ /\ new.runs[r] = st.runs[r] /\ new.execs[r] = st.execs[r]
           /\ new.runQ[r] = st.runQ[r]
        \/ /\ \A t \in Targets : new.execQ[r][t] = 0 /\ new.execs[r][t] = NoExec
           /\ new.runs[r] = NoRun /\ new.runQ[r] = 0
  BY <1>2, Exists
<1>6. Records(new, n)
  BY <1>2, <1>3, <1>4, <1>5 DEF Records
<1>7. Sequences(new)
  BY <1>1, <1>2, <1>3, <1>4, <1>5, SequencesKept
<1>8. Gaps(new, n)
  <2>1. \A r \in RunId, t \in Targets : Live(new, r, t) =>
           Live(st, r, t) /\ new.execs[r][t].seq = st.execs[r][t].seq
    BY <1>2, <1>3, <1>4, <1>5 DEF Live
  <2>2. \A t \in Targets : new.seqs[t] >= st.seqs[t] /\ new.seqs[t] <= n
    BY <1>2, Fields DEF Gaps
  <2> QED BY <1>1, <1>2, <2>1, <2>2, GapsKept
<1>9. \A r \in RunId, t \in Targets : new.execQ[r][t] # 0 => new.execs[r][t] = st.execs[r][t]
  BY <1>5
<1> QED BY <1>1, <1>6, <1>7, <1>8, <1>9 DEF new

-----------------------------------------------------------------------------
(* Executions that leave the queue for a gap                               *)

LEMMA SequencesFinite ==
  ASSUME NEW st \in Store, NEW t \in Targets, NEW D \in SUBSET RunId
  PROVE  LET seqs == {st.execs[r][t].seq : r \in D}
         IN  /\ seqs \in SUBSET Nat /\ IsFiniteSet(seqs) /\ IsFiniteSet(D)
             /\ (\A q, r \in D : q # r => st.execs[q][t].seq # st.execs[r][t].seq)
                   => Cardinality(seqs) = Cardinality(D)
<1> DEFINE seq == [r \in D |-> st.execs[r][t].seq]
           seqs == {st.execs[r][t].seq : r \in D}
<1>1. IsFiniteSet(D)
  BY RunIdFinite, FS_Subset
<1>2. \A r \in D : st.execs[r][t].seq \in Nat
  BY Fields
<1>3. seqs \in SUBSET Nat
  BY <1>2
<1>4. seq \in Surjection(D, seqs)
  BY DEF Surjection
<1>5. IsFiniteSet(seqs) /\ (Cardinality(seqs) = Cardinality(D) <=> seq \in Injection(D, seqs))
  <2> HIDE DEF seq, seqs
  <2> QED BY <1>1, <1>4, FS_Surjection
<1>6. (\A q, r \in D : q # r => st.execs[q][t].seq # st.execs[r][t].seq)
         => seq \in Injection(D, seqs)
  BY <1>4 DEF Injection, IsInjective, Surjection
<1> QED BY <1>1, <1>3, <1>5, <1>6

\* extendProbeGap: what it adds to the gap of a target.
LEMMA ExtendGapFields ==
  ASSUME NEW st \in Store, NEW t \in Targets, NEW D \in SUBSET RunId, D # {}
  PROVE  LET old == st.gaps[t]
             gap == ExtendGap(st, t, D)
         IN  /\ gap.rev = old.rev + Cardinality(D) /\ gap.count = old.count + Cardinality(D)
             /\ \A r \in D : gap.first <= st.execs[r][t].seq /\ st.execs[r][t].seq <= gap.last
             /\ gap.last = old.last \/ \E r \in D : gap.last = st.execs[r][t].seq
             /\ gap.first = old.first \/ \E r \in D : gap.first = st.execs[r][t].seq
             /\ old # NoGap => /\ gap.id = old.id /\ gap.gen = old.gen
                               /\ gap.first <= old.first /\ old.last <= gap.last
             /\ old = NoGap => gap.id \in D /\ gap.gen = st.runs[gap.id].gen
<1> DEFINE seqs == {st.execs[r][t].seq : r \in D}
           old == st.gaps[t]
           n == Cardinality(D)
           oldest == CHOOSE r \in D : st.execs[r][t].seq = Min(seqs)
<1>1. seqs \in SUBSET Nat /\ IsFiniteSet(seqs) /\ IsFiniteSet(D) /\ seqs # {}
  BY SequencesFinite
<1>2. n \in Nat
  BY <1>1, FS_CardinalityType
<1>3. \A r \in D : st.execs[r][t].seq \in seqs
  OBVIOUS
<1>4. \A s \in seqs : \E r \in D : s = st.execs[r][t].seq
  OBVIOUS
<1>5. old \in GapRecord /\ old.first \in Nat /\ old.last \in Nat /\ old.rev \in Nat /\ old.count \in Nat
  BY Fields
<1>6. /\ {old.first} \cup seqs \in SUBSET Nat /\ {old.last} \cup seqs \in SUBSET Nat
      /\ IsFiniteSet({old.last} \cup seqs)
  BY <1>1, <1>5, FS_Singleton, FS_Union
<1>7. CASE old = NoGap
  <2>1. ExtendGap(st, t, D) =
          [id |-> oldest, gen |-> st.runs[oldest].gen, rev |-> n, count |-> n,
           first |-> Min(seqs), last |-> Max(seqs)]
    BY <1>7 DEF ExtendGap
  <2>2. /\ Min(seqs) \in seqs /\ \A m \in seqs : Min(seqs) <= m
        /\ Max(seqs) \in seqs /\ \A m \in seqs : Max(seqs) >= m
    <3> HIDE DEF seqs
    <3> QED BY <1>1, MinProperty, MaxProperty
  <2>3. oldest \in D
    <3>1. \E r \in D : st.execs[r][t].seq = Min(seqs)
      BY <1>4, <2>2
    <3> HIDE DEF seqs
    <3> QED BY <3>1
  <2>4. old.rev = 0 /\ old.count = 0
    BY <1>7 DEF NoGap
  <2> HIDE DEF oldest, seqs, n, old
  <2>5. \A s \in seqs : s \in Nat
    BY <1>1
  <2> QED BY <1>2, <1>3, <1>4, <1>7, <2>1, <2>2, <2>3, <2>4, <2>5 DEF old, n
<1>8. CASE old # NoGap
  <2> DEFINE first == Min({old.first} \cup seqs)
             last == Max({old.last} \cup seqs)
  <2>1. ExtendGap(st, t, D) = [old EXCEPT !.rev = @ + n, !.count = @ + n,
                                          !.first = first, !.last = last]
    BY <1>8 DEF ExtendGap
  <2>2. /\ first \in {old.first} \cup seqs /\ \A m \in {old.first} \cup seqs : first <= m
        /\ last \in {old.last} \cup seqs /\ \A m \in {old.last} \cup seqs : last >= m
    <3> HIDE DEF seqs
    <3> QED BY <1>6, MinProperty, MaxProperty
  <2> HIDE DEF first, last, seqs, n
  <2>3. /\ ExtendGap(st, t, D).rev = old.rev + n /\ ExtendGap(st, t, D).count = old.count + n
        /\ ExtendGap(st, t, D).first = first /\ ExtendGap(st, t, D).last = last
        /\ ExtendGap(st, t, D).id = old.id /\ ExtendGap(st, t, D).gen = old.gen
    BY <1>5, <2>1 DEF GapRecord
  <2> HIDE DEF old
  <2>4. first \in Nat /\ last \in Nat
    BY <1>6, <2>2
  <2> QED BY <1>3, <1>4, <1>5, <1>6, <1>8, <2>2, <2>3, <2>4 DEF old, n
<1> QED BY <1>7, <1>8

\* DropExecutions without its last step, the cleanup of the runs.
Dropped(st, D) ==
    LET runsOf(t) == {r \in RunId : <<r, t>> \in D}
        hit == {t \in Targets : runsOf(t) # {}}
        gaps == [t \in Targets |-> IF t \in hit THEN ExtendGap(st, t, runsOf(t))
                                                ELSE st.gaps[t]]
    IN  [st EXCEPT
           !.execQ = [r \in RunId |-> [t \in Targets |->
                        IF <<r, t>> \in D THEN 0 ELSE st.execQ[r][t]]],
           !.execs = [r \in RunId |-> [t \in Targets |->
                        IF <<r, t>> \in D
                        THEN [st.execs[r][t] EXCEPT !.file = FALSE, !.evicted = TRUE]
                        ELSE st.execs[r][t]]],
           !.gaps = gaps,
           !.gapQ = [t \in Targets |-> IF t \in hit THEN gaps[t].rev ELSE st.gapQ[t]]]

RunsOf(D, t) == {r \in RunId : <<r, t>> \in D}

\* What Dropped does to the rows.
DropRows(st, new, D) ==
    /\ new.gen = st.gen /\ new.seqs = st.seqs /\ new.active = st.active
    /\ new.runs = st.runs /\ new.runQ = st.runQ
    /\ \A r \in RunId, t \in Targets :
         /\ <<r, t>> \notin D => /\ new.execs[r][t] = st.execs[r][t]
                                 /\ new.execQ[r][t] = st.execQ[r][t]
         /\ <<r, t>> \in D => /\ new.execQ[r][t] = 0
                              /\ new.execs[r][t].file = FALSE
                              /\ new.execs[r][t].status = st.execs[r][t].status
                              /\ new.execs[r][t].seq = st.execs[r][t].seq
                              /\ new.execs[r][t].rev = st.execs[r][t].rev
    /\ \A t \in Targets :
         /\ RunsOf(D, t) = {} => new.gaps[t] = st.gaps[t] /\ new.gapQ[t] = st.gapQ[t]
         /\ RunsOf(D, t) # {} => /\ new.gaps[t] = ExtendGap(st, t, RunsOf(D, t))
                                 /\ new.gapQ[t] = new.gaps[t].rev

LEMMA DroppedRows ==
  ASSUME NEW st \in Store, NEW D
  PROVE  Dropped(st, D) \in Store /\ DropRows(st, Dropped(st, D), D)
<1> DEFINE new == Dropped(st, D)
           hit == {t \in Targets : RunsOf(D, t) # {}}
           gaps == [t \in Targets |-> IF t \in hit THEN ExtendGap(st, t, RunsOf(D, t))
                                                   ELSE st.gaps[t]]
           out(e) == [e EXCEPT !.file = FALSE, !.evicted = TRUE]
<1>1. new \in Store
  BY DropStepType DEF Dropped
<1>2. /\ new.gen = st.gen /\ new.seqs = st.seqs /\ new.active = st.active
      /\ new.runs = st.runs /\ new.runQ = st.runQ
      /\ new.gaps = gaps
      /\ new.gapQ = [t \in Targets |-> IF t \in hit THEN gaps[t].rev ELSE st.gapQ[t]]
      /\ new.execQ = [r \in RunId |-> [t \in Targets |->
                        IF <<r, t>> \in D THEN 0 ELSE st.execQ[r][t]]]
      /\ new.execs = [r \in RunId |-> [t \in Targets |->
                        IF <<r, t>> \in D THEN out(st.execs[r][t]) ELSE st.execs[r][t]]]
  BY DEF Dropped, Store, RunsOf
<1>3. \A e \in ExecRecord : /\ out(e).file = FALSE /\ out(e).status = e.status
                            /\ out(e).seq = e.seq /\ out(e).rev = e.rev
  BY DEF ExecRecord
<1>4. \A r \in RunId, t \in Targets : st.execs[r][t] \in ExecRecord
  BY Fields
<1> HIDE DEF new, out, gaps
<1>5. \A r \in RunId, t \in Targets :
        /\ new.execQ[r][t] = IF <<r, t>> \in D THEN 0 ELSE st.execQ[r][t]
        /\ new.execs[r][t] = IF <<r, t>> \in D THEN out(st.execs[r][t]) ELSE st.execs[r][t]
  BY <1>2
<1>6. \A t \in Targets : /\ new.gaps[t] = gaps[t]
                         /\ new.gapQ[t] = IF t \in hit THEN gaps[t].rev ELSE st.gapQ[t]
  BY <1>2
<1>7. \A t \in Targets : gaps[t] = IF t \in hit THEN ExtendGap(st, t, RunsOf(D, t)) ELSE st.gaps[t]
  BY DEF gaps
<1>8. \A t \in Targets :
         /\ RunsOf(D, t) = {} => new.gaps[t] = st.gaps[t] /\ new.gapQ[t] = st.gapQ[t]
         /\ RunsOf(D, t) # {} => /\ new.gaps[t] = ExtendGap(st, t, RunsOf(D, t))
                              /\ new.gapQ[t] = new.gaps[t].rev
  BY <1>6, <1>7
<1>9. \A r \in RunId, t \in Targets :
        /\ <<r, t>> \notin D => /\ new.execs[r][t] = st.execs[r][t]
                                /\ new.execQ[r][t] = st.execQ[r][t]
        /\ <<r, t>> \in D => /\ new.execQ[r][t] = 0
                             /\ new.execs[r][t].file = FALSE
                             /\ new.execs[r][t].status = st.execs[r][t].status
                             /\ new.execs[r][t].seq = st.execs[r][t].seq
                             /\ new.execs[r][t].rev = st.execs[r][t].rev
  <2> SUFFICES ASSUME NEW r \in RunId, NEW t \in Targets
               PROVE  /\ <<r, t>> \notin D => /\ new.execs[r][t] = st.execs[r][t]
                                              /\ new.execQ[r][t] = st.execQ[r][t]
                      /\ <<r, t>> \in D => /\ new.execQ[r][t] = 0
                                           /\ new.execs[r][t].file = FALSE
                                           /\ new.execs[r][t].status = st.execs[r][t].status
                                           /\ new.execs[r][t].seq = st.execs[r][t].seq
                                           /\ new.execs[r][t].rev = st.execs[r][t].rev
    OBVIOUS
  <2> DEFINE e == st.execs[r][t]
  <2>1. /\ out(e).file = FALSE /\ out(e).status = e.status
        /\ out(e).seq = e.seq /\ out(e).rev = e.rev
    BY <1>3, <1>4
  <2>2. /\ new.execQ[r][t] = IF <<r, t>> \in D THEN 0 ELSE st.execQ[r][t]
        /\ new.execs[r][t] = IF <<r, t>> \in D THEN out(e) ELSE e
    BY <1>5
  <2>3. CASE <<r, t>> \in D
    BY <2>1, <2>2, <2>3
  <2>4. CASE <<r, t>> \notin D
    BY <2>2, <2>4
  <2> QED BY <2>3, <2>4
<1> QED BY <1>1, <1>2, <1>8, <1>9 DEF new, DropRows

LEMMA DroppedQueue ==
  ASSUME NEW st \in Store, NEW n \in Nat, Records(st, n), Sequences(st), Gaps(st, n),
         NEW D \in SUBSET AllExecutions,
         \A r \in RunId, t \in Targets :
            <<r, t>> \in D => st.execQ[r][t] # 0 /\ Terminal(st.execs[r][t])
  PROVE  LET new == Dropped(st, D)
         IN  Records(new, n) /\ Sequences(new) /\ Gaps(new, n)
<1> DEFINE new == Dropped(st, D)
<1>0. new \in Store /\ DropRows(st, new, D)
  BY DroppedRows
<1> HIDE DEF new
<1>1. /\ new \in Store
      /\ new.gen = st.gen /\ new.seqs = st.seqs
      /\ new.runs = st.runs /\ new.runQ = st.runQ
  BY <1>0 DEF DropRows
<1>2. \A r \in RunId, t \in Targets :
         /\ <<r, t>> \notin D => /\ new.execs[r][t] = st.execs[r][t]
                                 /\ new.execQ[r][t] = st.execQ[r][t]
         /\ <<r, t>> \in D => /\ new.execQ[r][t] = 0
                              /\ new.execs[r][t].file = FALSE
                              /\ new.execs[r][t].status = st.execs[r][t].status
                              /\ new.execs[r][t].seq = st.execs[r][t].seq
                              /\ new.execs[r][t].rev = st.execs[r][t].rev
  BY <1>0 DEF DropRows
<1>3. \A t \in Targets :
         /\ RunsOf(D, t) = {} => new.gaps[t] = st.gaps[t] /\ new.gapQ[t] = st.gapQ[t]
         /\ RunsOf(D, t) # {} => /\ new.gaps[t] = ExtendGap(st, t, RunsOf(D, t))
                              /\ new.gapQ[t] = new.gaps[t].rev
  BY <1>0 DEF DropRows
<1>4. \A r \in RunId, t \in Targets : <<r, t>> \in D =>
         /\ st.runs[r].gen = st.gen /\ t \in st.runs[r].targets /\ ~(r > n)
         /\ st.execs[r][t].seq # 0 /\ ~IsOpen(st.execs[r][t])
         /\ Live(st, r, t) /\ ~Live(new, r, t)
  <2>1. \A e : Terminal(e) => ~IsOpen(e)
    BY DEF Terminal, IsOpen, TerminalStatus
  <2>2. \A r \in RunId, t \in Targets : <<r, t>> \in D =>
           /\ st.runs[r].gen = st.gen /\ t \in st.runs[r].targets /\ ~(r > n)
           /\ st.execs[r][t].seq # 0 /\ ~IsOpen(st.execs[r][t])
    BY <2>1, Exists DEF Records
  <2> QED BY <1>2, <2>2 DEF Live, IsOpen
<1>5. \A r \in RunId, t \in Targets :
        /\ new.execs[r][t].seq = st.execs[r][t].seq
        /\ new.execs[r][t].status = st.execs[r][t].status
        /\ \/ new.execs[r][t] = st.execs[r][t] /\ new.execQ[r][t] = st.execQ[r][t]
           \/ /\ new.execQ[r][t] = 0 /\ new.execs[r][t].file = FALSE
              /\ t \in st.runs[r].targets
  BY <1>2, <1>4
<1>6. Records(new, n) /\ Sequences(new)
  <2>1. Records(new, n)
    BY <1>1, <1>5 DEF Records
  <2>2. Sequences(new)
    BY <1>1, <1>5, SequencesKept
  <2> QED BY <2>1, <2>2
<1>7. \A r \in RunId, t \in Targets : Live(new, r, t) =>
         <<r, t>> \notin D /\ Live(st, r, t) /\ new.execs[r][t].seq = st.execs[r][t].seq
  BY <1>1, <1>2, <1>4 DEF Live
<1>8. Gaps(new, n)
  <2> SUFFICES ASSUME NEW t \in Targets
               PROVE  /\ new.gapQ[t] = new.gaps[t].rev
                      /\ new.gaps[t] # NoGap => new.gaps[t].gen = new.gen /\ new.gaps[t].id # 0
                      /\ new.gaps[t].id <= n
                      /\ new.gaps[t].id # 0 => ~Live(new, new.gaps[t].id, t)
                      /\ new.gaps[t].first <= new.gaps[t].last /\ new.gaps[t].last <= new.seqs[t]
                      /\ \E X \in SUBSET (new.gaps[t].first .. new.gaps[t].last) : Counted(new, t, X)
    BY <1>1 DEF Gaps
  <2>1. /\ st.gapQ[t] = st.gaps[t].rev /\ (st.gaps[t] # NoGap => st.gaps[t].gen = st.gen /\ st.gaps[t].id # 0)
        /\ st.gaps[t].id <= n /\ (st.gaps[t].id # 0 => ~Live(st, st.gaps[t].id, t))
        /\ st.gaps[t].first <= st.gaps[t].last /\ st.gaps[t].last <= st.seqs[t]
    BY DEF Gaps
  <2>2. PICK X \in SUBSET (st.gaps[t].first .. st.gaps[t].last) : Counted(st, t, X)
    BY DEF Gaps
  <2>3. st.gaps[t].id \in RunId \cup {0}
    BY DEF Store, GapRecord
  <2>4. CASE RunsOf(D, t) = {}
    <3>1. new.gaps[t] = st.gaps[t] /\ new.gapQ[t] = st.gapQ[t]
      BY <1>3, <2>4
    <3>2. Counted(new, t, X)
      BY <1>7, <2>2, <3>1 DEF Counted
    <3>3. new.gaps[t].id # 0 => ~Live(new, new.gaps[t].id, t)
      BY <1>7, <2>1, <2>3, <3>1
    <3> QED BY <1>1, <2>1, <2>2, <3>1, <3>2, <3>3
  <2>5. CASE RunsOf(D, t) # {}
    <3> DEFINE Y == {st.execs[r][t].seq : r \in RunsOf(D, t)}
    <3>1. RunsOf(D, t) \in SUBSET RunId /\ \A r \in RunsOf(D, t) : <<r, t>> \in D
      BY DEF RunsOf
    <3>2. /\ new.gaps[t].rev = st.gaps[t].rev + Cardinality(RunsOf(D, t))
          /\ new.gaps[t].count = st.gaps[t].count + Cardinality(RunsOf(D, t))
          /\ \A r \in RunsOf(D, t) : new.gaps[t].first <= st.execs[r][t].seq
                                  /\ st.execs[r][t].seq <= new.gaps[t].last
          /\ \/ new.gaps[t].last = st.gaps[t].last
             \/ \E r \in RunsOf(D, t) : new.gaps[t].last = st.execs[r][t].seq
          /\ st.gaps[t] # NoGap => /\ new.gaps[t].id = st.gaps[t].id
                                   /\ new.gaps[t].gen = st.gaps[t].gen
                                   /\ new.gaps[t].first <= st.gaps[t].first
                                   /\ st.gaps[t].last <= new.gaps[t].last
          /\ st.gaps[t] = NoGap => /\ new.gaps[t].id \in RunsOf(D, t)
                                   /\ new.gaps[t].gen = st.runs[new.gaps[t].id].gen
      <4>1. new.gaps[t] = ExtendGap(st, t, RunsOf(D, t))
        BY <1>3, <2>5
      <4> QED BY <2>5, <3>1, <4>1, ExtendGapFields
    <3>3. \A q, r \in RunsOf(D, t) : q # r => st.execs[q][t].seq # st.execs[r][t].seq
      BY <1>4, <3>1 DEF Sequences
    <3>4. Y \in SUBSET Nat /\ IsFiniteSet(Y) /\ Cardinality(Y) = Cardinality(RunsOf(D, t))
      <4> QED BY <3>1, <3>3, SequencesFinite
    <3>5. /\ st.gaps[t].first \in Nat /\ st.gaps[t].last \in Nat /\ st.gaps[t].count \in Nat
          /\ new.gaps[t].first \in Nat /\ new.gaps[t].last \in Nat /\ st.gaps[t].id \in Nat
          /\ new.gaps[t].id \in Nat
      BY <1>1, Fields
    <3>6. IsFiniteSet(X) /\ Cardinality(X) = st.gaps[t].count
      <4>1. IsFiniteSet(st.gaps[t].first .. st.gaps[t].last)
        <5>1. st.gaps[t].first \in Int /\ st.gaps[t].last \in Int
          BY <3>5
        <5> HIDE DEF Y
        <5> QED BY <5>1, FS_Interval
      <4> QED BY <2>2, <4>1, FS_Subset DEF Counted
    <3>7. st.gaps[t] = NoGap => X = {}
      BY <3>6, FS_EmptySet DEF NoGap
    <3>8. X \cap Y = {}
      BY <1>4, <2>2, <3>1 DEF Counted
    <3>9. Cardinality(X \cup Y) = new.gaps[t].count
      <4> HIDE DEF Y
      <4>1. Cardinality(X \cup Y) = Cardinality(X) + Cardinality(Y) - Cardinality(X \cap Y)
        BY <3>4, <3>6, FS_Union
      <4>2. Cardinality(X \cap Y) = 0
        BY <3>8, FS_EmptySet
      <4>3. Cardinality(X) \in Nat /\ Cardinality(Y) \in Nat
        BY <3>4, <3>6, FS_CardinalityType
      <4> QED BY <3>2, <3>4, <3>6, <4>1, <4>2, <4>3
    <3>10. X \cup Y \in SUBSET (new.gaps[t].first .. new.gaps[t].last)
      <4>1. Y \in SUBSET (new.gaps[t].first .. new.gaps[t].last)
        <5>1. \A r \in RunsOf(D, t) : st.execs[r][t].seq \in Nat
          BY <3>1, Fields
        <5>2. \A r \in RunsOf(D, t) :
                 st.execs[r][t].seq \in new.gaps[t].first .. new.gaps[t].last
          BY <3>2, <3>5, <5>1
        <5> QED BY <5>2
      <4>2. X \in SUBSET (new.gaps[t].first .. new.gaps[t].last)
        BY <2>2, <3>2, <3>5, <3>7
      <4> QED BY <4>1, <4>2
    <3>11. \A r \in RunId : Live(new, r, t) => new.execs[r][t].seq \notin X \cup Y
      <4> SUFFICES ASSUME NEW r \in RunId, Live(new, r, t)
                   PROVE  new.execs[r][t].seq \notin X \cup Y
        OBVIOUS
      <4>1. <<r, t>> \notin D /\ Live(st, r, t) /\ new.execs[r][t].seq = st.execs[r][t].seq
        BY <1>7
      <4>2. st.execs[r][t].seq \notin X
        BY <2>2, <4>1 DEF Counted
      <4>3. \A q \in RunsOf(D, t) : st.execs[q][t].seq # st.execs[r][t].seq
        <5> SUFFICES ASSUME NEW q \in RunId, <<q, t>> \in D
                     PROVE  st.execs[q][t].seq # st.execs[r][t].seq
          BY <3>1
        <5>1. st.runs[q].gen = st.gen /\ st.execs[q][t].seq # 0 /\ q # r
          BY <1>4, <4>1
        <5>2. st.runs[r].gen = st.gen
          BY <4>1 DEF Live
        <5> QED BY <5>1, <5>2 DEF Sequences
      <4> QED BY <4>1, <4>2, <4>3
    <3>12. new.gaps[t].first <= new.gaps[t].last /\ new.gaps[t].last <= new.seqs[t]
      <4>1. \A r \in RunsOf(D, t) : st.execs[r][t].seq <= st.seqs[t]
        BY <1>4, <3>1 DEF Sequences
      <4>2. \A r \in RunId : st.execs[r][t].seq \in Nat
        BY Fields
      <4> QED BY <1>1, <2>1, <2>5, <3>1, <3>2, <3>5, <4>1, <4>2
    <3>13. /\ new.gaps[t].gen = new.gen /\ new.gaps[t].id # 0 /\ new.gaps[t].id <= n
           /\ new.gaps[t].id # 0 => ~Live(new, new.gaps[t].id, t)
      <4>1. CASE st.gaps[t] = NoGap
        <5>1. <<new.gaps[t].id, t>> \in D /\ new.gaps[t].id \in RunId
          BY <3>1, <3>2, <4>1
        <5>2. new.gaps[t].id # 0
          BY <5>1 DEF RunId
        <5> QED BY <1>1, <1>4, <3>2, <3>5, <4>1, <5>1, <5>2
      <4>2. CASE st.gaps[t] # NoGap
        BY <1>1, <1>7, <2>1, <2>3, <3>2, <4>2
      <4> QED BY <4>1, <4>2
    <3> HIDE DEF Y
    <3> QED BY <1>3, <2>5, <3>9, <3>10, <3>11, <3>12, <3>13 DEF Counted
  <2> QED BY <2>4, <2>5
<1> QED BY <1>6, <1>8 DEF new

LEMMA DroppedEvolves ==
  ASSUME NEW st \in Store, NEW n \in Nat, Records(st, n), Gaps(st, n),
         NEW D \in SUBSET AllExecutions,
         \A r \in RunId, t \in Targets :
            <<r, t>> \in D => st.execQ[r][t] # 0 /\ Terminal(st.execs[r][t])
  PROVE  Evolves(st, Dropped(st, D), n)
<1> DEFINE new == Dropped(st, D)
<1>0. new \in Store /\ DropRows(st, new, D)
  BY DroppedRows
<1> HIDE DEF new
<1>1. /\ \A r \in RunId : st.runs[r].rev \in Nat
      /\ \A r \in RunId, t \in Targets : st.execs[r][t].rev \in Nat
      /\ \A t \in Targets : st.gaps[t].rev \in Nat /\ st.gapQ[t] \in Nat /\ new.gapQ[t] \in Nat
  BY <1>0, Fields
<1>2. new.gen = st.gen /\ new.runs = st.runs
  BY <1>0 DEF DropRows
<1>3. \A r \in RunId, t \in Targets :
        /\ new.execs[r][t].rev = st.execs[r][t].rev
        /\ new.execs[r][t].seq = st.execs[r][t].seq
        /\ new.execs[r][t].status = st.execs[r][t].status
        /\ new.execQ[r][t] # 0 => st.execQ[r][t] # 0
        /\ <<r, t>> \in D => Live(st, r, t)
  <2>1. \A r \in RunId, t \in Targets : <<r, t>> \in D => Live(st, r, t)
    BY DEF Records, Live
  <2> QED BY <1>0, <2>1 DEF DropRows
<1>4. \A r \in RunId, t \in Targets : Live(new, r, t) => Live(st, r, t)
  BY <1>2, <1>3 DEF Live, IsOpen
<1>5. \A r \in RunId : ~(r > n) => RunEvolves(st, new, r)
  <2>1. \A r \in RunId : st.runs[r] = NoRun => \A t \in Targets : st.execs[r][t] = NoExec
    BY DEF Records, NoRun
  <2>2. \A r \in RunId, t \in Targets : new.execs[r][t] # st.execs[r][t] => <<r, t>> \in D
    BY <1>0 DEF DropRows
  <2>3. \A r \in RunId, t \in Targets : <<r, t>> \in D => st.runs[r] # NoRun
    BY <1>3, Exists DEF Live
  <2> SUFFICES ASSUME NEW r \in RunId PROVE RunEvolves(st, new, r)
    OBVIOUS
  <2>4. CASE st.runs[r] = NoRun
    <3>1. new.runs[r] = NoRun
      BY <1>2, <2>4
    <3>2. \A t \in Targets : new.execs[r][t] = NoExec
      BY <2>1, <2>2, <2>3, <2>4
    <3> QED BY <3>1, <3>2 DEF RunEvolves
  <2>5. CASE st.runs[r] # NoRun
    <3>1. new.runs[r] = st.runs[r] /\ new.runs[r].rev >= st.runs[r].rev
      BY <1>1, <1>2
    <3>2. \A t \in Targets : /\ new.execs[r][t].status = st.execs[r][t].status
                             /\ new.execs[r][t].seq = st.execs[r][t].seq
                             /\ new.execs[r][t].rev = st.execs[r][t].rev
      BY <1>3
    <3>3. \A t \in Targets : new.execs[r][t].rev >= st.execs[r][t].rev
      BY <1>1, <3>2
    <3> QED BY <2>5, <3>1, <3>2, <3>3 DEF RunEvolves
  <2> QED BY <2>4, <2>5
<1>6. ASSUME NEW t \in Targets PROVE GapEvolves(st, new, t)
  <2>1. CASE RunsOf(D, t) = {}
    BY <1>0, <2>1 DEF DropRows, GapEvolves
  <2>2. CASE RunsOf(D, t) # {}
    <3>1. RunsOf(D, t) \in SUBSET RunId /\ \A r \in RunsOf(D, t) : <<r, t>> \in D
      BY DEF RunsOf
    <3>2. new.gaps[t] = ExtendGap(st, t, RunsOf(D, t)) /\ new.gapQ[t] = new.gaps[t].rev
      BY <1>0, <2>2 DEF DropRows
    <3>3. Cardinality(RunsOf(D, t)) \in Nat \ {0}
      <4>1. IsFiniteSet(RunsOf(D, t))
        BY <3>1, RunIdFinite, FS_Subset
      <4> QED BY <2>2, <4>1, FS_CardinalityType, FS_EmptySet
    <3>4. st.gapQ[t] = st.gaps[t].rev
      BY DEF Gaps
    <3>5. /\ new.gaps[t].rev = st.gaps[t].rev + Cardinality(RunsOf(D, t))
          /\ st.gaps[t] # NoGap => /\ new.gaps[t].id = st.gaps[t].id
                                   /\ new.gaps[t].gen = st.gaps[t].gen
          /\ st.gaps[t] = NoGap => new.gaps[t].id \in RunsOf(D, t)
      BY <2>2, <3>1, <3>2, ExtendGapFields
    <3>6. CASE st.gaps[t] = NoGap
      <4>1. <<new.gaps[t].id, t>> \in D /\ new.gaps[t].id \in RunId
        BY <3>1, <3>5, <3>6
      <4> QED BY <1>3, <4>1 DEF GapEvolves
    <3>7. CASE st.gaps[t] # NoGap
      <4>1. new.gapQ[t] = st.gapQ[t] + Cardinality(RunsOf(D, t)) /\ st.gapQ[t] \in Nat
        BY <1>1, <3>2, <3>4, <3>5
      <4>2. new.gapQ[t] > st.gapQ[t]
        BY <3>3, <4>1
      <4> QED BY <3>5, <3>7, <4>2 DEF GapEvolves
    <3> QED BY <3>6, <3>7
  <2> QED BY <2>1, <2>2
<1>7. new.gen >= st.gen
  BY <1>2, Fields
<1> QED BY <1>4, <1>5, <1>6, <1>7 DEF new, Evolves

LEMMA EvolvesReflexive ==
  ASSUME NEW st \in Store, NEW n \in Nat, Records(st, n)
  PROVE  Evolves(st, st, n)
<1>1. \A q \in RunId : /\ st.runs[q].rev \in Nat
                       /\ \A u \in Targets : st.execs[q][u].rev \in Nat
  BY Fields
<1>2. \A q \in RunId : st.runs[q] = NoRun => \A u \in Targets : st.execs[q][u] = NoExec
  BY DEF Records, NoRun
<1>3. \A q \in RunId : RunEvolves(st, st, q)
  BY <1>1, <1>2 DEF RunEvolves
<1>4. st.gen >= st.gen
  BY Fields
<1> QED BY <1>3, <1>4 DEF Evolves, GapEvolves

LEMMA EvolvesTransitive ==
  ASSUME NEW a \in Store, NEW b \in Store, NEW c \in Store, NEW n \in Nat,
         Records(a, n), Records(b, n), Evolves(a, b, n), Evolves(b, c, n)
  PROVE  Evolves(a, c, n)
<1>1. \A r \in RunId : /\ a.runs[r].rev \in Nat /\ b.runs[r].rev \in Nat /\ c.runs[r].rev \in Nat
                       /\ \A t \in Targets : /\ a.execs[r][t].rev \in Nat
                                             /\ b.execs[r][t].rev \in Nat
                                             /\ c.execs[r][t].rev \in Nat
  BY Fields
<1>2. \A r \in RunId, t \in Targets : Live(b, r, t) => ~(r > n)
  BY Exists DEF Live
<1>3. ASSUME NEW r \in RunId, ~(r > n) PROVE RunEvolves(a, c, r)
  <2>1. RunEvolves(a, b, r) /\ RunEvolves(b, c, r)
    BY <1>3 DEF Evolves
  <2>2. b.runs[r] = NoRun => \A t \in Targets : b.execs[r][t] = NoExec
    BY DEF Records, NoRun
  <2>3. NoRun.status \notin FinalRunStatus
    BY DEF NoRun, FinalRunStatus
  <2>4. CASE c.runs[r] = NoRun /\ \A t \in Targets : c.execs[r][t] = NoExec
    BY <2>4 DEF RunEvolves
  <2>5. CASE ~(c.runs[r] = NoRun /\ \A t \in Targets : c.execs[r][t] = NoExec)
    <3>1. b.runs[r] # NoRun
      BY <2>1, <2>5 DEF RunEvolves
    <3>2. \A t \in Targets :
            /\ c.execs[r][t].rev >= a.execs[r][t].rev
            /\ c.execs[r][t].seq = a.execs[r][t].seq
            /\ c.execs[r][t].rev = a.execs[r][t].rev =>
                 c.execs[r][t].status = a.execs[r][t].status
      <4> SUFFICES ASSUME NEW t \in Targets
                   PROVE  /\ c.execs[r][t].rev >= a.execs[r][t].rev
                          /\ c.execs[r][t].seq = a.execs[r][t].seq
                          /\ c.execs[r][t].rev = a.execs[r][t].rev =>
                               c.execs[r][t].status = a.execs[r][t].status
        OBVIOUS
      <4>1. /\ b.execs[r][t].rev >= a.execs[r][t].rev
            /\ b.execs[r][t].seq = a.execs[r][t].seq
            /\ b.execs[r][t].rev = a.execs[r][t].rev => b.execs[r][t].status = a.execs[r][t].status
        BY <2>1, <3>1 DEF RunEvolves
      <4>2. /\ c.execs[r][t].rev >= b.execs[r][t].rev
            /\ c.execs[r][t].seq = b.execs[r][t].seq
            /\ c.execs[r][t].rev = b.execs[r][t].rev => c.execs[r][t].status = b.execs[r][t].status
        BY <2>1, <2>5 DEF RunEvolves
      <4>3. a.execs[r][t].rev \in Nat /\ b.execs[r][t].rev \in Nat /\ c.execs[r][t].rev \in Nat
        BY <1>1
      <4> QED BY <4>1, <4>2, <4>3
    <3>3. /\ a.runs[r] # NoRun /\ c.runs[r].rev >= a.runs[r].rev
          /\ c.runs[r].gen = a.runs[r].gen /\ c.runs[r].targets = a.runs[r].targets
      BY <1>1, <2>1, <2>5, <3>1 DEF RunEvolves
    <3>4. a.runs[r].status \in FinalRunStatus => c.runs[r] = a.runs[r]
      BY <2>1, <2>5, <3>1 DEF RunEvolves
    <3>5. \A t \in Targets : Terminal(a.execs[r][t]) =>
             c.execs[r][t].status = a.execs[r][t].status /\ c.execs[r][t].rev = a.execs[r][t].rev
      BY <2>1, <2>5, <3>1 DEF RunEvolves, Terminal
    <3> QED BY <3>2, <3>3, <3>4, <3>5 DEF RunEvolves
  <2> QED BY <2>4, <2>5
<1>4. \A r \in RunId, t \in Targets : ~(r > n) /\ Live(c, r, t) => Live(a, r, t)
  BY DEF Evolves
<1>5. ASSUME NEW t \in Targets, c.gaps[t].id # 0 PROVE GapEvolves(a, c, t)
  <2>1. /\ c.gaps[t].id \in RunId
        /\ a.gapQ[t] \in Nat /\ b.gapQ[t] \in Nat /\ c.gapQ[t] \in Nat
    BY <1>5, Fields DEF Store, GapRecord
  <2>2. GapEvolves(a, b, t) /\ GapEvolves(b, c, t)
    BY DEF Evolves
  <2>3. CASE Live(b, c.gaps[t].id, t)
    BY <1>2, <2>1, <2>3 DEF Evolves, GapEvolves
  <2>4. CASE ~Live(b, c.gaps[t].id, t)
    BY <1>5, <2>1, <2>2, <2>4 DEF GapEvolves
  <2> QED BY <2>3, <2>4
<1>6. c.gen >= a.gen
  <2>1. a.gen \in Nat /\ b.gen \in Nat /\ c.gen \in Nat
    BY Fields
  <2> QED BY <2>1 DEF Evolves
<1>7. \A t \in Targets : GapEvolves(a, c, t)
  BY <1>5 DEF GapEvolves
<1> QED BY <1>3, <1>4, <1>6, <1>7 DEF Evolves

\* cleanupProbeRun evolves the runs it deletes.
LEMMA CleanupEvolves ==
  ASSUME NEW st \in Store, NEW R, NEW n \in Nat, Records(st, n), Gaps(st, n)
  PROVE  Evolves(st, Cleanup(st, R), n)
<1> DEFINE new == Cleanup(st, R)
<1>1. /\ new.gen = st.gen /\ new.gaps = st.gaps /\ new.gapQ = st.gapQ /\ new.execQ = st.execQ
      /\ \A r \in RunId :
           \/ new.runs[r] = st.runs[r] /\ new.execs[r] = st.execs[r]
           \/ /\ new.runs[r] = NoRun /\ new.execs[r] = [t \in Targets |-> NoExec]
  BY CleanupRows
<1> HIDE DEF new
<1>2. \A r \in RunId : /\ st.runs[r].rev \in Nat
                       /\ \A t \in Targets : st.execs[r][t].rev \in Nat
  BY Fields
<1>3. new.gen >= st.gen /\ \A t \in Targets : GapEvolves(st, new, t)
  BY <1>1, Fields DEF GapEvolves
<1>4. \A r \in RunId : st.runs[r] = NoRun => \A t \in Targets : st.execs[r][t] = NoExec
  BY DEF Records, NoRun
<1>5. \A r \in RunId : RunEvolves(st, new, r)
  BY <1>1, <1>2, <1>4 DEF RunEvolves
<1>6. \A r \in RunId, t \in Targets : Live(new, r, t) => Live(st, r, t)
  <2>1. st.gen # NoRun.gen
    BY Fields DEF NoRun
  <2> QED BY <1>1, <2>1 DEF Live
<1> QED BY <1>3, <1>5, <1>6 DEF new, Evolves

\* DropExecutions: what leaves the queue was queued and closed.
LEMMA DropQueue ==
  ASSUME NEW st \in Store, NEW n \in Nat, Records(st, n), Sequences(st), Gaps(st, n),
         NEW D \in SUBSET AllExecutions,
         \A r \in RunId, t \in Targets :
            <<r, t>> \in D => st.execQ[r][t] # 0 /\ Terminal(st.execs[r][t])
  PROVE  LET new == DropExecutions(st, D)
         IN  /\ new \in Store /\ Records(new, n) /\ Sequences(new) /\ Gaps(new, n)
             /\ Evolves(st, new, n)
             /\ \A r \in RunId, t \in Targets :
                  /\ new.execQ[r][t] = IF <<r, t>> \in D THEN 0 ELSE st.execQ[r][t]
                  /\ new.execQ[r][t] # 0 => new.execs[r][t] = st.execs[r][t]
             /\ \A t \in Targets :
                  /\ RunsOf(D, t) = {} => new.gaps[t] = st.gaps[t]
                  /\ RunsOf(D, t) # {} => new.gaps[t] = ExtendGap(st, t, RunsOf(D, t))
             /\ \A r \in RunId : st.runs[r].status = "running" => new.runs[r] = st.runs[r]
<1> DEFINE mid == Dropped(st, D)
           new == DropExecutions(st, D)
<1>1. mid \in Store /\ DropRows(st, mid, D)
  BY DroppedRows
<1>2. Records(mid, n) /\ Sequences(mid) /\ Gaps(mid, n)
  BY DroppedQueue
<1>3. Evolves(st, mid, n)
  BY DroppedEvolves
<1>4. new = Cleanup(mid, {r \in RunId : \E t \in Targets : <<r, t>> \in D})
  BY DEF DropExecutions, Dropped
<1> HIDE DEF mid, new
<1>5. /\ new \in Store /\ Records(new, n) /\ Sequences(new) /\ Gaps(new, n)
      /\ \A r \in RunId, t \in Targets :
            new.execQ[r][t] # 0 => new.execs[r][t] = mid.execs[r][t]
  BY <1>1, <1>2, <1>4, CleanupQueue
<1>6. new.execQ = mid.execQ /\ new.gaps = mid.gaps
  BY <1>1, <1>4, CleanupRows
<1>7. Evolves(mid, new, n)
  BY <1>1, <1>2, <1>4, CleanupEvolves
<1>8. Evolves(st, new, n)
  BY <1>1, <1>2, <1>3, <1>5, <1>7, EvolvesTransitive
<1>9. ASSUME NEW r \in RunId, NEW t \in Targets
      PROVE  /\ new.execQ[r][t] = IF <<r, t>> \in D THEN 0 ELSE st.execQ[r][t]
             /\ new.execQ[r][t] # 0 => new.execs[r][t] = st.execs[r][t]
  <2>1. CASE <<r, t>> \in D
    BY <1>1, <1>6, <2>1 DEF DropRows
  <2>2. CASE <<r, t>> \notin D
    BY <1>1, <1>5, <1>6, <2>2 DEF DropRows
  <2> QED BY <2>1, <2>2
<1>10. \A t \in Targets :
         /\ RunsOf(D, t) = {} => new.gaps[t] = st.gaps[t]
         /\ RunsOf(D, t) # {} => new.gaps[t] = ExtendGap(st, t, RunsOf(D, t))
  BY <1>1, <1>6 DEF DropRows
<1>11. \A r \in RunId : st.runs[r].status = "running" => new.runs[r] = st.runs[r]
  <2>1. \A r \in RunId : new.runs[r] = mid.runs[r] \/ mid.runs[r].status # "running"
    BY <1>1, <1>4, CleanupRows
  <2> QED BY <1>1, <2>1 DEF DropRows
<1> QED BY <1>5, <1>8, <1>9, <1>10, <1>11 DEF new

\* A result file is named by queued executions only, so an execution that stays in the
\* queue keeps its file and one that leaves it loses it.
LEMMA FilesFollowQueue ==
  ASSUME NEW st \in Store, NEW new \in Store, NEW n, Records(st, n), Records(new, n),
         \A r \in RunId, t \in Targets :
            /\ new.execQ[r][t] \in {0, st.execQ[r][t]}
            /\ new.execQ[r][t] # 0 => new.execs[r][t] = st.execs[r][t]
  PROVE  \A r \in RunId, t \in Targets :
            new.execs[r][t].file <=> st.execs[r][t].file /\ new.execQ[r][t] # 0
BY DEF Records

-----------------------------------------------------------------------------
(* The limit on what waits for upload                                      *)

LEMMA OverLimitQueued ==
  ASSUME NEW st \in Store, NEW T \in SUBSET Targets
  PROVE  /\ OverLimit(st, T) \in SUBSET AllExecutions
         /\ \A r \in RunId, t \in Targets :
              /\ <<r, t>> \in OverLimit(st, T) <=>
                    t \in T /\ r \in Pending(st, t) /\ Cardinality(Newer(st, t, r)) >= MaxPending
              /\ <<r, t>> \in OverLimit(st, T) =>
                    st.execQ[r][t] # 0 /\ Terminal(st.execs[r][t])
BY DEF OverLimit, AllExecutions, Pending

LEMMA PendingFinite ==
  ASSUME NEW st \in Store, NEW t \in Targets, NEW r \in RunId
  PROVE  /\ IsFiniteSet(Pending(st, t)) /\ IsFiniteSet(Newer(st, t, r))
         /\ Pending(st, t) \in SUBSET RunId /\ Newer(st, t, r) \in SUBSET Pending(st, t)
         /\ Cardinality(Newer(st, t, r)) \in Nat
<1>1. Pending(st, t) \in SUBSET RunId /\ Newer(st, t, r) \in SUBSET Pending(st, t)
  BY DEF Pending, Newer
<1>2. IsFiniteSet(Pending(st, t)) /\ IsFiniteSet(Newer(st, t, r))
  BY <1>1, RunIdFinite, FS_Subset
<1> QED BY <1>1, <1>2, FS_CardinalityType

\* enforceProbeResultLimit evicts the oldest: what it leaves is newer than what it takes.
LEMMA OldestFirst ==
  ASSUME NEW st \in Store, NEW t \in Targets, NEW r \in RunId, NEW q \in RunId,
         r \in Pending(st, t), Cardinality(Newer(st, t, r)) >= MaxPending,
         q \in Pending(st, t), ~(Cardinality(Newer(st, t, q)) >= MaxPending)
  PROVE  st.execs[r][t].seq < st.execs[q][t].seq
<1>1. st.execs[r][t].seq \in Nat /\ st.execs[q][t].seq \in Nat
  BY Fields
<1>2. SUFFICES ASSUME st.execs[q][t].seq <= st.execs[r][t].seq PROVE FALSE
  BY <1>1
<1>3. Newer(st, t, r) \subseteq Newer(st, t, q)
  <2>1. \A p \in RunId : st.execs[p][t].seq \in Nat
    BY Fields
  <2>2. Pending(st, t) \in SUBSET RunId
    BY PendingFinite
  <2> QED BY <1>1, <1>2, <2>1, <2>2 DEF Newer
<1>4. Cardinality(Newer(st, t, r)) <= Cardinality(Newer(st, t, q))
  BY <1>3, PendingFinite, FS_Subset
<1>5. /\ Cardinality(Newer(st, t, r)) \in Nat /\ Cardinality(Newer(st, t, q)) \in Nat
      /\ MaxPending \in Nat
  BY PendingFinite, BoundAssumption
<1> QED BY <1>4, <1>5

\* The executions of a target that have fewer than MaxPending newer ones are MaxPending
\* at most: the oldest of them has all the others as newer ones.
LEMMA LimitBounds ==
  ASSUME NEW st \in Store, NEW n \in Nat, Records(st, n), Sequences(st), NEW t \in Targets,
         NEW K \in SUBSET Pending(st, t),
         \A r \in K : ~(Cardinality(Newer(st, t, r)) >= MaxPending)
  PROVE  Cardinality(K) <= MaxPending
<1> DEFINE seqs == {st.execs[r][t].seq : r \in K}
<1>1. K \in SUBSET RunId /\ IsFiniteSet(K) /\ MaxPending \in Nat
  <2>1. IsFiniteSet(Pending(st, t))
    BY RunIdFinite, FS_Subset DEF Pending
  <2> QED BY <2>1, FS_Subset, BoundAssumption DEF Pending
<1>2. CASE K = {}
  BY <1>1, <1>2, FS_EmptySet
<1>3. CASE K # {}
  <2>1. seqs \in SUBSET Nat /\ seqs # {}
    BY <1>1, <1>3, SequencesFinite
  <2>2. PICK m \in seqs : \A s \in seqs : m <= s
    <3> HIDE DEF seqs
    <3> QED BY <2>1, NatMinimum
  <2>3. PICK p \in K : st.execs[p][t].seq = m
    BY <2>2
  <2>4. \A r \in RunId : st.execs[r][t].seq \in Nat
    BY Fields
  <2>5. \A r \in K : r # p => st.execs[r][t].seq # st.execs[p][t].seq
    <3>1. \A r \in K : st.runs[r].gen = st.gen /\ st.execs[r][t].seq # 0
      <4>1. \A r \in K : r \in RunId /\ st.execQ[r][t] # 0
        BY <1>1 DEF Pending
      <4>2. \A r \in K : st.runs[r].gen = st.gen
        BY <4>1 DEF Records
      <4> QED BY <4>1, <4>2, Exists
    <3> QED BY <1>1, <2>3, <3>1 DEF Sequences
  <2>6. K \ {p} \subseteq Newer(st, t, p)
    <3>1. \A r \in K : m <= st.execs[r][t].seq
      BY <2>2
    <3> HIDE DEF seqs
    <3> QED BY <1>1, <2>3, <2>4, <2>5, <3>1 DEF Newer
  <2>7. p \in RunId /\ IsFiniteSet(Newer(st, t, p)) /\ Cardinality(Newer(st, t, p)) \in Nat
    BY <1>1, <2>3, PendingFinite
  <2>8. IsFiniteSet(K \ {p}) /\ Cardinality(K \ {p}) = Cardinality(K) - 1
    BY <1>1, <2>3, FS_RemoveElement
  <2>9. Cardinality(K \ {p}) <= Cardinality(Newer(st, t, p))
    BY <2>6, <2>7, FS_Subset
  <2>10. Cardinality(K) \in Nat /\ Cardinality(K \ {p}) \in Nat
    BY <1>1, <2>8, FS_CardinalityType
  <2> QED BY <1>1, <2>3, <2>7, <2>8, <2>9, <2>10
<1> QED BY <1>2, <1>3

\* enforceProbeResultLimit for the targets that may exceed the limit.
LEMMA EnforceQueue ==
  ASSUME NEW st \in Store, NEW n \in Nat, Records(st, n), Sequences(st), Gaps(st, n),
         NEW T \in SUBSET Targets,
         \A t \in Targets \ T : Cardinality(Pending(st, t)) <= MaxPending
  PROVE  LET new == EnforceLimit(st, T)
         IN  /\ new \in Store /\ QueueInv(new, n) /\ Evolves(st, new, n)
             /\ \A r \in RunId, t \in Targets :
                  /\ <<r, t>> \notin OverLimit(st, T) => new.execQ[r][t] = st.execQ[r][t]
                  /\ <<r, t>> \in OverLimit(st, T) => new.execQ[r][t] = 0 /\ st.execQ[r][t] # 0
                  /\ new.execQ[r][t] # 0 => new.execs[r][t] = st.execs[r][t]
             /\ \A r \in RunId, q \in RunId, t \in Targets :
                  st.execQ[r][t] # 0 /\ new.execQ[r][t] = 0 /\ q \in Pending(new, t) =>
                     st.execs[r][t].seq < st.execs[q][t].seq
             /\ \A t \in Targets \ T : new.gaps[t] = st.gaps[t]
             /\ \A r \in RunId : st.runs[r].status = "running" => new.runs[r] = st.runs[r]
<1> DEFINE D == OverLimit(st, T)
           new == EnforceLimit(st, T)
<1>1. /\ D \in SUBSET AllExecutions
      /\ \A r \in RunId, t \in Targets :
           <<r, t>> \in D => st.execQ[r][t] # 0 /\ Terminal(st.execs[r][t])
  BY OverLimitQueued
<1>2. \A r \in RunId, t \in Targets :
        <<r, t>> \in D <=>
           t \in T /\ r \in Pending(st, t) /\ Cardinality(Newer(st, t, r)) >= MaxPending
  BY OverLimitQueued
<1>3. new = DropExecutions(st, D)
  BY DEF EnforceLimit
<1> HIDE DEF new, D
<1>4. /\ new \in Store /\ Records(new, n) /\ Sequences(new) /\ Gaps(new, n)
      /\ Evolves(st, new, n)
      /\ \A r \in RunId, t \in Targets :
           /\ new.execQ[r][t] = IF <<r, t>> \in D THEN 0 ELSE st.execQ[r][t]
           /\ new.execQ[r][t] # 0 => new.execs[r][t] = st.execs[r][t]
      /\ \A t \in Targets : RunsOf(D, t) = {} => new.gaps[t] = st.gaps[t]
      /\ \A r \in RunId : st.runs[r].status = "running" => new.runs[r] = st.runs[r]
  BY <1>1, <1>3, DropQueue
<1>5. \A r \in RunId, t \in Targets :
        r \in Pending(new, t) => r \in Pending(st, t) /\ <<r, t>> \notin D
  BY <1>4 DEF Pending
<1>6. Bounded(new)
  <2> SUFFICES ASSUME NEW t \in Targets PROVE Cardinality(Pending(new, t)) <= MaxPending
    BY DEF Bounded
  <2>1. Pending(new, t) \in SUBSET Pending(st, t)
    BY <1>5 DEF Pending
  <2>2. CASE t \in T
    <3>1. \A r \in Pending(new, t) : ~(Cardinality(Newer(st, t, r)) >= MaxPending)
      BY <1>2, <1>5, <2>1, <2>2 DEF Pending
    <3> QED BY <2>1, <3>1, LimitBounds
  <2>3. CASE t \notin T
    <3>1. Cardinality(Pending(st, t)) <= MaxPending
      BY <2>3
    <3>2. IsFiniteSet(Pending(st, t))
      BY RunIdFinite, FS_Subset DEF Pending
    <3>3. /\ Cardinality(Pending(new, t)) <= Cardinality(Pending(st, t))
          /\ Cardinality(Pending(new, t)) \in Nat /\ Cardinality(Pending(st, t)) \in Nat
      BY <2>1, <3>2, FS_Subset, FS_CardinalityType
    <3> QED BY <3>1, <3>3, BoundAssumption
  <2> QED BY <2>2, <2>3
<1>7. ASSUME NEW r \in RunId, NEW q \in RunId, NEW t \in Targets,
             st.execQ[r][t] # 0, new.execQ[r][t] = 0, q \in Pending(new, t)
      PROVE  st.execs[r][t].seq < st.execs[q][t].seq
  <2>1. <<r, t>> \in D
    BY <1>4, <1>7
  <2>2. /\ t \in T /\ r \in Pending(st, t) /\ Cardinality(Newer(st, t, r)) >= MaxPending
        /\ q \in Pending(st, t) /\ ~(Cardinality(Newer(st, t, q)) >= MaxPending)
    BY <1>2, <1>5, <1>7, <2>1
  <2> QED BY <2>2, OldestFirst
<1>8. \A r \in RunId, t \in Targets :
         /\ <<r, t>> \notin D => new.execQ[r][t] = st.execQ[r][t]
         /\ <<r, t>> \in D => new.execQ[r][t] = 0 /\ st.execQ[r][t] # 0
         /\ new.execQ[r][t] # 0 => new.execs[r][t] = st.execs[r][t]
  BY <1>1, <1>4
<1>9. \A t \in Targets \ T : new.gaps[t] = st.gaps[t]
  BY <1>2, <1>4 DEF RunsOf
<1> QED BY <1>4, <1>6, <1>7, <1>8, <1>9 DEF new, D, QueueInv

-----------------------------------------------------------------------------
(* The result files the records name                                       *)

\* A record of the new store names a file when it did so before and is one of S.
LEMMA ReferencedIs ==
  ASSUME NEW st, NEW new, NEW S,
         \A r \in RunId, t \in Targets :
            new.execs[r][t].file <=> st.execs[r][t].file /\ <<r, t>> \in S
  PROVE  Referenced(new) = Referenced(st) \cap S
<1>1. ASSUME NEW x \in AllExecutions
      PROVE  x \in Referenced(new) <=> x \in Referenced(st) /\ x \in S
  <2>1. PICK r \in RunId, t \in Targets : x = <<r, t>>
    BY DEF AllExecutions
  <2>2. \A a : x \in Referenced(a) <=> a.execs[r][t].file
    BY <2>1 DEF Referenced, AllExecutions, Exec
  <2> QED BY <2>1, <2>2
<1>2. Referenced(new) \subseteq AllExecutions /\ Referenced(st) \subseteq AllExecutions
  BY DEF Referenced
<1> QED BY <1>1, <1>2

\* No record gains or loses its file.
LEMMA ReferencedSame ==
  ASSUME NEW st, NEW new,
         \A r \in RunId, t \in Targets : new.execs[r][t].file <=> st.execs[r][t].file
  PROVE  Referenced(new) = Referenced(st)
<1>1. \A r \in RunId, t \in Targets :
         new.execs[r][t].file <=> st.execs[r][t].file /\ <<r, t>> \in AllExecutions
  BY DEF AllExecutions
<1>2. Referenced(new) = Referenced(st) \cap AllExecutions
  BY <1>1, ReferencedIs
<1> QED BY <1>2 DEF Referenced

-----------------------------------------------------------------------------
(* Executions that begin or are closed                                     *)

\* Open executions of a run, those of T, move on: when the run is current they are
\* queued at their new revision, otherwise the queue is left alone.
Moves(st, new, r, T) ==
    /\ new.gen = st.gen /\ new.gaps = st.gaps /\ new.gapQ = st.gapQ /\ new.seqs = st.seqs
    /\ new.runs = st.runs /\ new.runQ = st.runQ
    /\ \A q \in RunId, u \in Targets : q # r \/ u \notin T =>
         new.execs[q][u] = st.execs[q][u] /\ new.execQ[q][u] = st.execQ[q][u]
    /\ \A t \in T :
         /\ IsOpen(st.execs[r][t])
         /\ new.execs[r][t].seq = st.execs[r][t].seq
         /\ new.execs[r][t].rev = st.execs[r][t].rev + 1
         /\ new.execs[r][t].status # "none"
         /\ new.execs[r][t].file => IsCurrent(st, r) /\ Terminal(new.execs[r][t])
         /\ new.execQ[r][t] = IF IsCurrent(st, r) THEN new.execs[r][t].rev ELSE st.execQ[r][t]

LEMMA ExecutionMoves ==
  ASSUME NEW st \in Store, NEW new \in Store, NEW n \in Nat,
         Records(st, n), Sequences(st), Gaps(st, n),
         NEW r \in RunId, NEW T \in SUBSET Targets, Moves(st, new, r, T)
  PROVE  Records(new, n) /\ Sequences(new) /\ Gaps(new, n) /\ Evolves(st, new, n)
<1>1. \A t \in T : /\ t \in st.runs[r].targets /\ st.execs[r][t].seq # 0
                   /\ st.execs[r][t].rev \in Nat /\ st.runs[r] # NoRun
                   /\ ~IsCurrent(st, r) => st.execQ[r][t] = 0
  <2>1. \A t \in T : /\ t \in st.runs[r].targets /\ st.execs[r][t].seq # 0
                     /\ st.execs[r][t].rev \in Nat
    BY Exists, Fields DEF Moves
  <2> QED BY <2>1 DEF Records, IsCurrent, NoRun
<1>2. /\ new.gen = st.gen /\ new.gaps = st.gaps /\ new.gapQ = st.gapQ /\ new.seqs = st.seqs
      /\ new.runs = st.runs /\ new.runQ = st.runQ
  BY DEF Moves
<1>3. \A q \in RunId, u \in Targets :
        \/ /\ new.execs[q][u] = st.execs[q][u] /\ new.execQ[q][u] = st.execQ[q][u]
        \/ /\ q = r /\ u \in T /\ u \in st.runs[q].targets /\ st.runs[q] # NoRun
           /\ IsOpen(st.execs[q][u]) /\ st.execs[q][u].seq # 0
           /\ new.execs[q][u].seq = st.execs[q][u].seq
           /\ new.execs[q][u].rev = st.execs[q][u].rev + 1
           /\ new.execs[q][u].status # "none"
           /\ \/ /\ st.runs[q].gen = st.gen
                 /\ new.execQ[q][u] = new.execs[q][u].rev /\ new.execQ[q][u] # 0
                 /\ new.execs[q][u].file => Terminal(new.execs[q][u])
              \/ /\ st.runs[q].gen # st.gen
                 /\ new.execQ[q][u] = 0 /\ ~new.execs[q][u].file
  BY <1>1 DEF Moves, IsCurrent
<1>4. Records(new, n)
  BY <1>2, <1>3 DEF Records
<1>5. Sequences(new)
  BY <1>2, <1>3, SequencesKept
<1>6. \A q \in RunId, t \in Targets : Live(new, q, t) =>
         Live(st, q, t) /\ new.execs[q][t].seq = st.execs[q][t].seq
  BY <1>2, <1>3 DEF Live
<1>7. Gaps(new, n)
  <2>1. \A t \in Targets : new.seqs[t] >= st.seqs[t] /\ new.seqs[t] <= n
    BY <1>2, Fields DEF Gaps
  <2> QED BY <1>2, <1>6, <2>1, GapsKept
<1>8. ASSUME NEW q \in RunId PROVE RunEvolves(st, new, q)
  <2>1. \A e : IsOpen(e) => ~Terminal(e)
    BY DEF IsOpen, Terminal, TerminalStatus
  <2>2. st.runs[q] = NoRun => \A t \in Targets : st.execs[q][t] = NoExec
    BY DEF Records, NoRun
  <2>3. CASE st.runs[q] = NoRun
    BY <1>2, <1>3, <2>2, <2>3 DEF RunEvolves
  <2>4. CASE st.runs[q] # NoRun
    <3>1. new.runs[q] = st.runs[q] /\ new.runs[q].rev >= st.runs[q].rev
      BY <1>2, Fields
    <3>2. \A t \in Targets : st.execs[q][t].rev \in Nat
      BY Fields
    <3>3. \A t \in Targets :
            /\ new.execs[q][t].rev >= st.execs[q][t].rev
            /\ new.execs[q][t].seq = st.execs[q][t].seq
            /\ new.execs[q][t].rev = st.execs[q][t].rev => new.execs[q][t] = st.execs[q][t]
            /\ Terminal(st.execs[q][t]) => new.execs[q][t] = st.execs[q][t]
      BY <1>3, <2>1, <3>2
    <3> QED BY <2>4, <3>1, <3>3 DEF RunEvolves
  <2> QED BY <2>3, <2>4
<1>9. Evolves(st, new, n)
  <2>1. new.gen >= st.gen /\ \A t \in Targets : GapEvolves(st, new, t)
    BY <1>2, Fields DEF GapEvolves
  <2> QED BY <1>6, <1>8, <2>1 DEF Evolves
<1> QED BY <1>4, <1>5, <1>7, <1>9

\* StartProbeExecution
LEMMA BeginMoves ==
  ASSUME NEW st \in Store, NEW r \in RunId, NEW t \in Targets, IsOpen(st.execs[r][t]),
         ~st.execs[r][t].file
  PROVE  LET new == BeginExecution(st, r, t)
         IN  Moves(st, new, r, {t}) /\ ~Terminal(new.execs[r][t]) /\ ~new.execs[r][t].file
<1> DEFINE new == BeginExecution(st, r, t)
           e == st.execs[r][t]
<1>1. e \in ExecRecord /\ e.rev \in Nat
  BY Fields
<1>2. /\ new.gen = st.gen /\ new.gaps = st.gaps /\ new.gapQ = st.gapQ /\ new.seqs = st.seqs
      /\ new.runs = st.runs /\ new.runQ = st.runQ
      /\ \A q \in RunId, u \in Targets : q # r \/ u # t =>
           new.execs[q][u] = st.execs[q][u] /\ new.execQ[q][u] = st.execQ[q][u]
      /\ new.execs[r][t] = [e EXCEPT !.status = "running", !.rev = e.rev + 1]
      /\ new.execQ[r][t] = IF IsCurrent(st, r) THEN e.rev + 1 ELSE st.execQ[r][t]
  BY DEF BeginExecution, Store
<1> HIDE DEF new
<1>3. /\ new.execs[r][t].seq = e.seq /\ new.execs[r][t].rev = e.rev + 1
      /\ new.execs[r][t].file = e.file /\ new.execs[r][t].status = "running"
  BY <1>1, <1>2 DEF ExecRecord
<1> QED BY <1>2, <1>3 DEF new, Moves, Terminal, TerminalStatus

LEMMA BeginQueue ==
  ASSUME NEW st \in Store, NEW n \in Nat, QueueInv(st, n),
         NEW r \in RunId, NEW t \in Targets, IsOpen(st.execs[r][t])
  PROVE  LET new == BeginExecution(st, r, t)
         IN  /\ QueueInv(new, n) /\ Evolves(st, new, n)
             /\ Referenced(new) = Referenced(st)
<1> DEFINE new == BeginExecution(st, r, t)
<1>1. new \in Store
  BY BeginExecutionType
<1>2. ~st.execs[r][t].file
  BY DEF QueueInv, Records, Terminal, IsOpen, TerminalStatus
<1>3. Moves(st, new, r, {t}) /\ ~Terminal(new.execs[r][t]) /\ ~new.execs[r][t].file
  BY <1>2, BeginMoves
<1> HIDE DEF new
<1>4. Records(new, n) /\ Sequences(new) /\ Gaps(new, n) /\ Evolves(st, new, n)
  BY <1>1, <1>3, ExecutionMoves DEF QueueInv
<1>5. \A q \in RunId, u \in Targets :
        \/ new.execs[q][u] = st.execs[q][u] /\ new.execQ[q][u] = st.execQ[q][u]
        \/ /\ ~Terminal(new.execs[q][u]) /\ ~new.execs[q][u].file /\ ~st.execs[q][u].file
  BY <1>2, <1>3 DEF Moves
<1>6. Bounded(new)
  BY <1>1, <1>5, BoundedKept DEF QueueInv
<1>7. Referenced(new) = Referenced(st)
  BY <1>5, ReferencedSame
<1> QED BY <1>4, <1>6, <1>7 DEF new, QueueInv

\* CompleteProbeExecution, up to the limit.
LEMMA CloseMoves ==
  ASSUME NEW st \in Store, NEW r \in RunId, NEW t \in Targets, IsOpen(st.execs[r][t]),
         NEW o \in TerminalStatus
  PROVE  LET new == CloseExecution(st, r, t, o)
         IN  /\ Moves(st, new, r, {t}) /\ Terminal(new.execs[r][t])
             /\ new.execs[r][t].file <=> IsCurrent(st, r) /\ o = "succeeded"
<1> DEFINE new == CloseExecution(st, r, t, o)
           e == st.execs[r][t]
           file == IsCurrent(st, r) /\ o = "succeeded"
<1>1. e \in ExecRecord /\ e.rev \in Nat
  BY Fields
<1>2. /\ new.gen = st.gen /\ new.gaps = st.gaps /\ new.gapQ = st.gapQ /\ new.seqs = st.seqs
      /\ new.runs = st.runs /\ new.runQ = st.runQ
      /\ \A q \in RunId, u \in Targets : q # r \/ u # t =>
           new.execs[q][u] = st.execs[q][u] /\ new.execQ[q][u] = st.execQ[q][u]
      /\ new.execs[r][t] = [e EXCEPT !.status = o, !.rev = e.rev + 1, !.file = file,
                                     !.evicted = e.evicted \/ ~IsCurrent(st, r)]
      /\ new.execQ[r][t] = IF IsCurrent(st, r) THEN e.rev + 1 ELSE st.execQ[r][t]
  BY DEF CloseExecution, Store
<1> HIDE DEF new, file
<1>3. /\ new.execs[r][t].seq = e.seq /\ new.execs[r][t].rev = e.rev + 1
      /\ new.execs[r][t].file = file /\ new.execs[r][t].status = o
  BY <1>1, <1>2 DEF ExecRecord
<1>4. Terminal(new.execs[r][t]) /\ (new.execs[r][t].file <=> IsCurrent(st, r) /\ o = "succeeded")
  BY <1>3 DEF Terminal, file
<1>5. Moves(st, new, r, {t})
  <2>1. new.execs[r][t].status # "none"
    BY <1>3 DEF TerminalStatus
  <2>2. new.execs[r][t].file => IsCurrent(st, r) /\ Terminal(new.execs[r][t])
    BY <1>4
  <2>3. new.execQ[r][t] = IF IsCurrent(st, r) THEN new.execs[r][t].rev ELSE st.execQ[r][t]
    BY <1>2, <1>3
  <2>4. \A q \in RunId, u \in Targets : q # r \/ u \notin {t} =>
           new.execs[q][u] = st.execs[q][u] /\ new.execQ[q][u] = st.execQ[q][u]
    BY <1>2
  <2> QED BY <1>2, <1>3, <2>1, <2>2, <2>3, <2>4 DEF Moves
<1> QED BY <1>4, <1>5 DEF new

\* ReconcileProbeRun, up to the limit.
LEMMA CloseOpenMoves ==
  ASSUME NEW st \in Store, NEW n, Records(st, n), NEW r \in RunId
  PROVE  LET new == CloseOpenExecutions(st, r)
             open == OpenTargets(st, r)
         IN  /\ Moves(st, new, r, open) /\ open \in SUBSET Targets
             /\ \A t \in open : Terminal(new.execs[r][t]) /\ ~new.execs[r][t].file
<1> DEFINE new == CloseOpenExecutions(st, r)
           open == OpenTargets(st, r)
           current == IsCurrent(st, r)
           close(e) == [e EXCEPT !.status = IF e.status = "running" THEN "interrupted" ELSE "skipped",
                                 !.rev = @ + 1, !.evicted = @ \/ ~current]
<1>1. open \in SUBSET Targets
  BY Fields DEF OpenTargets
<1>2. /\ new.gen = st.gen /\ new.gaps = st.gaps /\ new.gapQ = st.gapQ /\ new.seqs = st.seqs
      /\ new.runs = st.runs /\ new.runQ = st.runQ
      /\ \A q \in RunId : q # r => new.execs[q] = st.execs[q] /\ new.execQ[q] = st.execQ[q]
      /\ new.execs[r] = [t \in Targets |-> IF t \in open THEN close(st.execs[r][t])
                                                         ELSE st.execs[r][t]]
      /\ new.execQ[r] = [t \in Targets |-> IF t \in open /\ current
                                           THEN st.execs[r][t].rev + 1 ELSE st.execQ[r][t]]
  BY DEF CloseOpenExecutions, Store
<1>3. \A e \in ExecRecord :
        /\ close(e).seq = e.seq /\ close(e).rev = e.rev + 1 /\ close(e).file = e.file
        /\ close(e).status \in {"interrupted", "skipped"}
  BY DEF ExecRecord
<1>4. \A t \in Targets : st.execs[r][t] \in ExecRecord
  BY Fields
\* A target the run lists has an execution, which is open unless it is terminal.
<1>5. \A t \in open : IsOpen(st.execs[r][t]) /\ ~st.execs[r][t].file
  <2> SUFFICES ASSUME NEW t \in open PROVE IsOpen(st.execs[r][t]) /\ ~st.execs[r][t].file
    OBVIOUS
  <2>1. t \in st.runs[r].targets /\ ~Terminal(st.execs[r][t]) /\ t \in Targets
    BY <1>1 DEF OpenTargets
  <2>2. st.execs[r][t].status \in {"pending", "running"}
    BY <1>4, <2>1 DEF Records, ExecRecord, Terminal
  <2> QED BY <2>1, <2>2 DEF Records, IsOpen
<1> HIDE DEF new, open, close
<1>6. \A t \in open :
        /\ new.execs[r][t].seq = st.execs[r][t].seq
        /\ new.execs[r][t].rev = st.execs[r][t].rev + 1
        /\ ~new.execs[r][t].file
        /\ new.execs[r][t].status \in {"interrupted", "skipped"}
        /\ new.execQ[r][t] = IF current THEN st.execs[r][t].rev + 1 ELSE st.execQ[r][t]
  <2> SUFFICES ASSUME NEW t \in open
               PROVE  /\ new.execs[r][t].seq = st.execs[r][t].seq
                      /\ new.execs[r][t].rev = st.execs[r][t].rev + 1
                      /\ ~new.execs[r][t].file
                      /\ new.execs[r][t].status \in {"interrupted", "skipped"}
                      /\ new.execQ[r][t] = IF current THEN st.execs[r][t].rev + 1 ELSE st.execQ[r][t]
    OBVIOUS
  <2>1. t \in Targets /\ new.execs[r][t] = close(st.execs[r][t])
    BY <1>1, <1>2
  <2>2. new.execQ[r][t] = IF current THEN st.execs[r][t].rev + 1 ELSE st.execQ[r][t]
    BY <1>1, <1>2
  <2> QED BY <1>3, <1>4, <1>5, <2>1, <2>2
<1>7. \A u \in Targets : u \notin open =>
        new.execs[r][u] = st.execs[r][u] /\ new.execQ[r][u] = st.execQ[r][u]
  BY <1>2
<1>8. \A t \in open : Terminal(new.execs[r][t]) /\ ~new.execs[r][t].file
  BY <1>6 DEF Terminal, TerminalStatus
<1>9. Moves(st, new, r, open)
  BY <1>2, <1>5, <1>6, <1>7 DEF Moves
<1> QED BY <1>1, <1>8, <1>9 DEF new, open

\* Executions of one run are closed and, when the run is current, the limit is enforced.
LEMMA MovesLimited ==
  ASSUME NEW st \in Store, NEW closed \in Store, NEW n \in Nat, QueueInv(st, n),
         NEW r \in RunId, NEW T \in SUBSET Targets, Moves(st, closed, r, T),
         \A t \in T : Terminal(closed.execs[r][t])
  PROVE  LET D == IF IsCurrent(st, r) THEN OverLimit(closed, T) ELSE {}
             new == IF IsCurrent(st, r) THEN EnforceLimit(closed, T) ELSE closed
         IN  /\ new \in Store /\ QueueInv(new, n) /\ Evolves(st, new, n)
             /\ \A q \in RunId, u \in Targets :
                  new.execs[q][u].file <=> closed.execs[q][u].file /\ <<q, u>> \notin D
             /\ \A u \in Targets : new.gaps[u] # st.gaps[u] => u \in T
             /\ \A u \in T, a \in RunId, q \in RunId :
                  /\ new.gaps[u] # st.gaps[u] /\ new.execQ[a][u] = 0
                  /\ a = r \/ st.execQ[a][u] # 0
                  /\ q \in Pending(new, u)
                  => st.execs[a][u].seq < new.execs[q][u].seq
             /\ \A q \in RunId : st.runs[q].status = "running" => new.runs[q] = st.runs[q]
<1> DEFINE D == IF IsCurrent(st, r) THEN OverLimit(closed, T) ELSE {}
           new == IF IsCurrent(st, r) THEN EnforceLimit(closed, T) ELSE closed
<1>1. Records(closed, n) /\ Sequences(closed) /\ Gaps(closed, n) /\ Evolves(st, closed, n)
  BY ExecutionMoves DEF QueueInv
<1>2. \A t \in Targets \ T : Pending(closed, t) = Pending(st, t)
  BY DEF Moves, Pending
<1>3. closed.gaps = st.gaps /\ closed.runs = st.runs
  BY DEF Moves
<1>4. CASE IsCurrent(st, r)
  <2>1. \A t \in Targets \ T : Cardinality(Pending(closed, t)) <= MaxPending
    BY <1>2 DEF QueueInv, Bounded
  <2>2. /\ D = OverLimit(closed, T) /\ new = EnforceLimit(closed, T)
    BY <1>4
  <2> HIDE DEF D, new
  <2>3. /\ new \in Store /\ QueueInv(new, n) /\ Evolves(closed, new, n)
        /\ \A q \in RunId, t \in Targets :
             /\ <<q, t>> \notin D => new.execQ[q][t] = closed.execQ[q][t]
             /\ <<q, t>> \in D => new.execQ[q][t] = 0 /\ closed.execQ[q][t] # 0
             /\ new.execQ[q][t] # 0 => new.execs[q][t] = closed.execs[q][t]
        /\ \A a \in RunId, q \in RunId, t \in Targets :
             closed.execQ[a][t] # 0 /\ new.execQ[a][t] = 0 /\ q \in Pending(new, t) =>
                closed.execs[a][t].seq < closed.execs[q][t].seq
        /\ \A t \in Targets \ T : new.gaps[t] = closed.gaps[t]
        /\ \A q \in RunId : closed.runs[q].status = "running" => new.runs[q] = closed.runs[q]
    BY <1>1, <2>1, <2>2, EnforceQueue
  <2>4. Evolves(st, new, n)
    BY <1>1, <2>3, EvolvesTransitive DEF QueueInv
  <2>5. ASSUME NEW q \in RunId, NEW u \in Targets
        PROVE  new.execs[q][u].file <=> closed.execs[q][u].file /\ <<q, u>> \notin D
    <3>1. \A a \in RunId, t \in Targets : new.execs[a][t].file
             <=> closed.execs[a][t].file /\ new.execQ[a][t] # 0
      <4>1. \A a \in RunId, t \in Targets :
               /\ new.execQ[a][t] \in {0, closed.execQ[a][t]}
               /\ new.execQ[a][t] # 0 => new.execs[a][t] = closed.execs[a][t]
        BY <2>3
      <4> QED BY <1>1, <2>3, <4>1, FilesFollowQueue DEF QueueInv
    <3>2. closed.execs[q][u].file => closed.execQ[q][u] # 0
      BY <1>1 DEF Records
    <3>3. new.execQ[q][u] # 0 <=> closed.execQ[q][u] # 0 /\ <<q, u>> \notin D
      BY <2>3
    <3> QED BY <3>1, <3>2, <3>3
  <2>6. ASSUME NEW u \in T, NEW a \in RunId, NEW q \in RunId,
               new.execQ[a][u] = 0, a = r \/ st.execQ[a][u] # 0, q \in Pending(new, u)
        PROVE  st.execs[a][u].seq < new.execs[q][u].seq
    <3>1. \A t \in T : closed.execQ[r][t] # 0
      <4>1. \A t \in T : st.execs[r][t].rev \in Nat
        BY Fields
      <4> QED BY <1>4, <4>1 DEF Moves
    <3>2. closed.execQ[a][u] # 0
      BY <2>6, <3>1 DEF Moves
    <3>3. closed.execs[a][u].seq = st.execs[a][u].seq
      BY DEF Moves
    <3>4. new.execs[q][u] = closed.execs[q][u]
      BY <2>3, <2>6 DEF Pending
    <3> QED BY <2>3, <2>6, <3>2, <3>3, <3>4
  <2> QED BY <1>3, <2>3, <2>4, <2>5, <2>6 DEF D, new
<1>5. CASE ~IsCurrent(st, r)
  <2>1. Bounded(closed)
    <3>1. \A t \in T : closed.execQ[r][t] = 0
      BY <1>5 DEF Moves, QueueInv, Records, IsCurrent
    <3>2. \A t \in Targets, q \in RunId :
             closed.execQ[q][t] # 0 => /\ st.execQ[q][t] = closed.execQ[q][t]
                                       /\ st.execs[q][t] = closed.execs[q][t]
      BY <3>1 DEF Moves
    <3> QED BY <3>2, BoundedKept DEF QueueInv
  <2> QED BY <1>1, <1>3, <1>5, <2>1 DEF QueueInv
<1> QED BY <1>4, <1>5

-----------------------------------------------------------------------------
(* The transactions                                                        *)

\* A new store, of whatever generation and after however many runs.
LEMMA NewQueue ==
  ASSUME NEW g \in Generation, NEW n \in Nat
  PROVE  LET st == [EmptyStore EXCEPT !.gen = g] IN st \in Store /\ QueueInv(st, n)
<1> DEFINE st == [EmptyStore EXCEPT !.gen = g]
<1>0. st \in Store
  BY EmptyStoreType DEF Store
<1>1. /\ st.gen = g /\ \A r \in RunId : st.runs[r] = NoRun /\ st.runQ[r] = 0
      /\ \A r \in RunId, t \in Targets : st.execs[r][t] = NoExec /\ st.execQ[r][t] = 0
      /\ \A t \in Targets : st.gaps[t] = NoGap /\ st.gapQ[t] = 0 /\ st.seqs[t] = 0
  BY DEF EmptyStore
<1>2. /\ NoRun.gen = 0 /\ NoRun.targets = {} /\ NoRun.status = "none"
      /\ NoExec.file = FALSE /\ ~IsOpen(NoExec) /\ NoGap.id = 0 /\ NoGap.rev = 0
      /\ NoGap.first = 0 /\ NoGap.last = 0 /\ NoGap.count = 0
  BY DEF NoRun, NoExec, NoGap, IsOpen
<1> HIDE DEF st
<1>3. st.gen \in Nat \ {0}
  BY <1>0, Fields
<1>4. Records(st, n)
  BY <1>1, <1>2, <1>3 DEF Records
<1>5. Sequences(st)
  BY <1>1, <1>2, <1>3 DEF Sequences
<1>6. Gaps(st, n)
  <2>1. \A t \in Targets : Counted(st, t, {})
    BY <1>1, <1>2, FS_EmptySet DEF Counted
  <2> QED BY <1>1, <1>2, <2>1 DEF Gaps
<1>7. Bounded(st)
  <2>1. \A t \in Targets : Pending(st, t) = {}
    BY <1>1 DEF Pending
  <2> QED BY <2>1, FS_EmptySet, BoundAssumption DEF Bounded
<1> QED BY <1>0, <1>4, <1>5, <1>6, <1>7 DEF st, QueueInv

LEMMA EmptyQueue == QueueInv(EmptyStore, 0)
<1>1. 1 \in Generation
  BY BoundAssumption DEF Generation
<1>2. [EmptyStore EXCEPT !.gen = 1] = EmptyStore
  <2>1. \A st \in Store : [st EXCEPT !.gen = st.gen] = st
    BY DEF Store
  <2>2. EmptyStore.gen = 1
    BY DEF EmptyStore
  <2> QED BY <2>1, <2>2, EmptyStoreType
<1> QED BY <1>1, <1>2, NewQueue

\* StartProbeRunAtRevision: a fresh run takes the next sequences.
LEMMA StartQueue ==
  ASSUME NEW st \in Store, NEW n \in Nat, n + 1 \in RunId, QueueInv(st, n),
         NEW S \in SUBSET Targets
  PROVE  LET new == StartRun(st, n + 1, S)
         IN  /\ QueueInv(new, n + 1) /\ Evolves(st, new, n)
             /\ new.gaps = st.gaps
             /\ Referenced(new) = Referenced(st)
<1> DEFINE r == n + 1
           new == StartRun(st, r, S)
<1>1. r \in RunId /\ ~(r <= n) /\ \A q \in RunId : q > n + 1 => q > n
  BY RunIdFinite
<1>2. new \in Store
  BY <1>1, StartRunType
<1>3. /\ new.gen = st.gen /\ new.gaps = st.gaps /\ new.gapQ = st.gapQ /\ new.execQ = st.execQ
      /\ \A q \in RunId : q # r => /\ new.runs[q] = st.runs[q] /\ new.execs[q] = st.execs[q]
                                   /\ new.runQ[q] = st.runQ[q]
      /\ new.runs[r] = [status |-> "running", gen |-> st.gen, rev |-> 1, targets |-> S]
      /\ new.runQ[r] = 1
      /\ new.execs[r] = [t \in Targets |->
            IF t \in S THEN [NoExec EXCEPT !.status = "pending", !.seq = st.seqs[t] + 1]
                       ELSE NoExec]
      /\ new.seqs = [t \in Targets |-> IF t \in S THEN st.seqs[t] + 1 ELSE st.seqs[t]]
  BY <1>1 DEF StartRun, NextSequence, Store
<1> HIDE DEF new, r
<1>4. /\ NoExec.file = FALSE /\ NoExec.seq = 0 /\ NoRun.gen = 0 /\ NoRun.targets = {}
      /\ ~IsOpen(NoExec) /\ ~Terminal(NoExec)
  BY DEF NoExec, NoRun, IsOpen, Terminal, TerminalStatus
<1>5. \A t \in Targets : /\ st.seqs[t] \in Nat /\ st.gapQ[t] \in Nat
                         /\ \A q \in RunId : st.execs[q][t].seq \in Nat
  BY Fields
<1>6. \A t \in Targets :
        /\ t \in S => /\ new.execs[r][t].status = "pending" /\ new.execs[r][t].file = FALSE
                      /\ new.execs[r][t].seq = st.seqs[t] + 1 /\ new.seqs[t] = st.seqs[t] + 1
        /\ t \notin S => new.execs[r][t] = NoExec /\ new.seqs[t] = st.seqs[t]
  BY <1>3 DEF NoExec
<1>7. st.runs[r] = NoRun /\ \A t \in Targets : st.execQ[r][t] = 0 /\ st.execs[r][t] = NoExec
  <2>1. r > n
    BY <1>1, RunIdFinite DEF r
  <2>2. st.gen # 0
    BY Fields
  <2> QED BY <1>1, <1>4, <2>1, <2>2 DEF QueueInv, Records
<1>8. Records(new, n + 1)
  <2> SUFFICES ASSUME NEW q \in RunId
               PROVE
        /\ q > n + 1 => new.runs[q] = NoRun
        /\ new.runs[q].status = "none" => new.runs[q] = NoRun
        /\ new.runs[q].gen <= new.gen
        /\ new.runQ[q] # 0 => new.runs[q].rev = new.runQ[q] /\ new.runs[q].gen = new.gen
        /\ \A t \in Targets :
             /\ t \notin new.runs[q].targets => new.execs[q][t] = NoExec
             /\ t \in new.runs[q].targets => /\ new.execs[q][t].seq # 0
                                             /\ new.execs[q][t].status # "none"
             /\ new.execQ[q][t] # 0 => /\ new.execs[q][t].rev = new.execQ[q][t]
                                       /\ new.runs[q].gen = new.gen
             /\ new.execs[q][t].file => new.execQ[q][t] # 0 /\ Terminal(new.execs[q][t])
    BY DEF Records
  <2>1. CASE q # r
    <3>1. /\ new.runs[q] = st.runs[q] /\ new.execs[q] = st.execs[q] /\ new.runQ[q] = st.runQ[q]
          /\ new.execQ[q] = st.execQ[q] /\ new.gen = st.gen /\ (q > n + 1 => q > n)
      BY <1>1, <1>3, <2>1
    <3> QED BY <3>1 DEF QueueInv, Records
  <2>2. CASE q = r
    <3>1. ~(r > n + 1) /\ st.gen <= st.gen
      BY Fields DEF r
    <3>2. /\ new.runs[r].status = "running" /\ new.runs[r].gen = new.gen
          /\ new.runs[r].rev = 1 /\ new.runs[r].targets = S /\ new.runQ[r] = 1
          /\ new.gen = st.gen
      <4>1. /\ new.runs[r] = [status |-> "running", gen |-> st.gen, rev |-> 1, targets |-> S]
            /\ new.runQ[r] = 1 /\ new.gen = st.gen
        BY <1>3
      <4> QED BY <4>1
    <3>3. ASSUME NEW t \in Targets
          PROVE  /\ t \notin S => new.execs[r][t] = NoExec
                 /\ t \in S => new.execs[r][t].seq # 0 /\ new.execs[r][t].status # "none"
                 /\ new.execQ[r][t] = 0 /\ ~new.execs[r][t].file
      <4>1. st.seqs[t] + 1 # 0
        BY <1>5
      <4>2. new.execQ[r][t] = 0
        BY <1>3, <1>7
      <4>3. CASE t \in S
        BY <1>6, <4>1, <4>2, <4>3
      <4>4. CASE t \notin S
        BY <1>4, <1>6, <4>2, <4>4
      <4> QED BY <4>3, <4>4
    <3> QED BY <2>2, <3>1, <3>2, <3>3
  <2> QED BY <2>1, <2>2
<1>9. Sequences(new)
  <2> SUFFICES ASSUME NEW t \in Targets, NEW p \in RunId, new.runs[p].gen = new.gen
               PROVE  /\ new.execs[p][t].seq <= new.seqs[t]
                      /\ \A q \in RunId :
                           q # p /\ new.runs[q].gen = new.gen /\ new.execs[q][t].seq # 0
                              => new.execs[q][t].seq # new.execs[p][t].seq
    BY DEF Sequences
  <2>1. \A q \in RunId : q # r /\ new.runs[q].gen = new.gen =>
           /\ st.runs[q].gen = st.gen /\ new.execs[q][t].seq = st.execs[q][t].seq
           /\ st.execs[q][t].seq <= st.seqs[t]
    BY <1>3 DEF QueueInv, Sequences
  <2>2. /\ new.execs[r][t].seq <= new.seqs[t] /\ new.seqs[t] >= st.seqs[t]
        /\ new.execs[r][t].seq = 0 \/ new.execs[r][t].seq > st.seqs[t]
    BY <1>4, <1>5, <1>6
  <2>3. new.execs[p][t].seq <= new.seqs[t]
    <3>1. new.seqs[t] \in Nat /\ new.execs[p][t].seq \in Nat
      BY <1>2, Fields
    <3> QED BY <1>5, <2>1, <2>2, <3>1
  <2>4. \A q \in RunId : q # p /\ new.runs[q].gen = new.gen /\ new.execs[q][t].seq # 0
                            => new.execs[q][t].seq # new.execs[p][t].seq
    <3> SUFFICES ASSUME NEW q \in RunId, q # p, new.runs[q].gen = new.gen,
                        new.execs[q][t].seq # 0
                 PROVE  new.execs[q][t].seq # new.execs[p][t].seq
      OBVIOUS
    <3>1. CASE q # r /\ p # r
      BY <2>1, <3>1 DEF QueueInv, Sequences
    <3>2. CASE q = r
      BY <1>5, <2>1, <2>2, <3>2
    <3>3. CASE p = r
      BY <1>5, <2>1, <2>2, <3>3
    <3> QED BY <3>1, <3>2, <3>3
  <2> QED BY <2>3, <2>4
<1>10. Gaps(new, n + 1)
  <2>1. \A t \in Targets : new.seqs[t] >= st.seqs[t] /\ new.seqs[t] <= n + 1
    <3>1. \A t \in Targets : st.seqs[t] <= n
      BY DEF QueueInv, Gaps
    <3> QED BY <1>5, <1>6, <3>1
  <2>2. \A q \in RunId, t \in Targets : Live(new, q, t) =>
           \/ Live(st, q, t) /\ new.execs[q][t].seq = st.execs[q][t].seq
           \/ q > n /\ new.execs[q][t].seq > st.seqs[t]
    <3> SUFFICES ASSUME NEW q \in RunId, NEW t \in Targets, Live(new, q, t)
                 PROVE  \/ Live(st, q, t) /\ new.execs[q][t].seq = st.execs[q][t].seq
                        \/ q > n /\ new.execs[q][t].seq > st.seqs[t]
      OBVIOUS
    <3>1. CASE q # r
      BY <1>3, <3>1 DEF Live
    <3>2. CASE q = r
      <4>1. t \in S
        BY <1>3, <1>4, <1>6, <1>7, <3>2 DEF Live
      <4>2. r > n
        BY DEF r
      <4> QED BY <1>5, <1>6, <3>2, <4>1, <4>2
    <3> QED BY <3>1, <3>2
  <2>3. n + 1 \in Nat /\ n <= n + 1
    OBVIOUS
  <2>4. new.gen = st.gen /\ new.gaps = st.gaps /\ new.gapQ = st.gapQ /\ Gaps(st, n)
    BY <1>3 DEF QueueInv
  <2> QED BY <1>2, <2>1, <2>2, <2>3, <2>4, GapsKept
<1>11. Bounded(new)
  <2>1. \A t \in Targets, q \in RunId :
           new.execQ[q][t] # 0 /\ Terminal(new.execs[q][t]) =>
              st.execQ[q][t] # 0 /\ Terminal(st.execs[q][t])
    BY <1>3, <1>7
  <2> QED BY <1>2, <2>1, BoundedKept DEF QueueInv
<1>12. Evolves(st, new, n)
  <2>1. \A q \in RunId : ~(q > n) => q # r
    BY <1>1, RunIdFinite
  <2>2. \A q \in RunId : ~(q > n) => RunEvolves(st, new, q)
    <3>3. \A q \in RunId : ~(q > n) =>
             new.runs[q] = st.runs[q] /\ new.execs[q] = st.execs[q]
      BY <1>3, <2>1
    <3>4. \A q \in RunId : ~(q > n) => RunEvolves(st, st, q)
      BY EvolvesReflexive DEF QueueInv, Evolves
    <3> QED BY <3>3, <3>4 DEF RunEvolves
  <2>3. \A q \in RunId, t \in Targets : ~(q > n) /\ Live(new, q, t) => Live(st, q, t)
    BY <1>3, <2>1 DEF Live
  <2>4. new.gen >= st.gen /\ \A t \in Targets : GapEvolves(st, new, t)
    <3>1. new.gen = st.gen /\ new.gaps = st.gaps /\ new.gapQ = st.gapQ
      BY <1>3
    <3> QED BY <3>1, Fields DEF GapEvolves
  <2> QED BY <2>2, <2>3, <2>4 DEF Evolves
<1>13. ASSUME NEW q \in RunId, NEW u \in Targets
       PROVE  new.execs[q][u].file <=> st.execs[q][u].file
  <2>1. CASE q # r
    BY <1>3, <2>1
  <2>2. CASE q = r
    <3>1. st.execs[r][u].file = FALSE
      BY <1>4, <1>7
    <3>2. new.execs[r][u].file = FALSE
      BY <1>4, <1>6
    <3> QED BY <2>2, <3>1, <3>2
  <2> QED BY <2>1, <2>2
<1>14. Referenced(new) = Referenced(st)
  BY <1>13, ReferencedSame
<1> QED BY <1>3, <1>8, <1>9, <1>10, <1>11, <1>12, <1>14 DEF new, r, QueueInv

\* finishProbeRun ends a running run; one of an old generation is cleaned up.
LEMMA FinishQueue ==
  ASSUME NEW st \in Store, NEW n \in Nat, QueueInv(st, n),
         NEW r \in RunId, st.runs[r].status = "running"
  PROVE  LET new == FinishRun(st, r)
         IN  /\ QueueInv(new, n) /\ Evolves(st, new, n)
             /\ new.gaps = st.gaps /\ new.execQ = st.execQ
             /\ \A q \in RunId, u \in Targets :
                  /\ new.execs[q][u].file <=> st.execs[q][u].file
                  /\ new.execQ[q][u] # 0 => new.execs[q][u] = st.execs[q][u]
<1> DEFINE rev == st.runs[r].rev + 1
           done == [st EXCEPT !.runs[r].status = FinalStatus(st, r), !.runs[r].rev = rev,
                              !.active = 0]
           mid == IF IsCurrent(st, r) THEN [done EXCEPT !.runQ[r] = rev] ELSE done
           new == FinishRun(st, r)
<1>1. done \in Store /\ rev \in Nat
  <2>1. rev \in Nat
    BY Fields
  <2>2. done \in Store
    BY FinishedType
  <2> QED BY <2>1, <2>2
<1>2. FinalStatus(st, r) \in FinalRunStatus
  BY DEF FinalStatus, FinalRunStatus
<1>3. /\ done.gen = st.gen /\ done.gaps = st.gaps /\ done.gapQ = st.gapQ /\ done.seqs = st.seqs
      /\ done.execs = st.execs /\ done.execQ = st.execQ /\ done.runQ = st.runQ
      /\ \A q \in RunId : q # r => done.runs[q] = st.runs[q]
      /\ done.runs[r] = [st.runs[r] EXCEPT !.status = FinalStatus(st, r), !.rev = rev]
  BY DEF Store
<1>4. /\ done.runs[r].status \in FinalRunStatus /\ done.runs[r].rev = rev
      /\ done.runs[r].gen = st.runs[r].gen /\ done.runs[r].targets = st.runs[r].targets
  <2>1. st.runs[r] \in RunRecord
    BY Fields
  <2> HIDE DEF done, rev
  <2> QED BY <1>2, <1>3, <2>1 DEF RunRecord
<1> HIDE DEF done, rev
<1>5. mid \in Store
  BY <1>1 DEF Store
<1>6. /\ mid.gen = st.gen /\ mid.gaps = st.gaps /\ mid.gapQ = st.gapQ /\ mid.seqs = st.seqs
      /\ mid.execs = st.execs /\ mid.execQ = st.execQ /\ mid.runs = done.runs
      /\ \A q \in RunId : q # r => mid.runQ[q] = st.runQ[q]
      /\ mid.runQ[r] = IF IsCurrent(st, r) THEN rev ELSE st.runQ[r]
  BY <1>1, <1>3 DEF Store
<1>7. new = IF IsCurrent(st, r) THEN mid ELSE Cleanup(mid, {r})
  BY DEF FinishRun, done, rev
<1> HIDE DEF mid, new
<1>8. st.runs[r] # NoRun /\ "none" \notin FinalRunStatus
  BY DEF NoRun, FinalRunStatus
<1>9. Records(mid, n)
  <2>1. mid.gen = st.gen /\ mid.execs = st.execs /\ mid.execQ = st.execQ
    BY <1>6
  <2>2. \A q \in RunId :
          \/ mid.runs[q] = st.runs[q] /\ mid.runQ[q] = st.runQ[q]
          \/ /\ st.runs[q] # NoRun /\ mid.runs[q].status # "none"
             /\ mid.runs[q].gen = st.runs[q].gen /\ mid.runs[q].targets = st.runs[q].targets
             /\ mid.runQ[q] # 0 => mid.runs[q].rev = mid.runQ[q] /\ mid.runs[q].gen = mid.gen
    <3>1. ~IsCurrent(st, r) => st.runQ[r] = 0
      BY DEF QueueInv, Records, IsCurrent
    <3>2. ASSUME NEW q \in RunId, q # r
          PROVE  mid.runs[q] = st.runs[q] /\ mid.runQ[q] = st.runQ[q]
      BY <1>3, <1>6, <3>2
    <3>3. /\ st.runs[r] # NoRun /\ mid.runs[r].status # "none"
          /\ mid.runs[r].gen = st.runs[r].gen /\ mid.runs[r].targets = st.runs[r].targets
      BY <1>3, <1>4, <1>6, <1>8
    <3>4. mid.runQ[r] # 0 => mid.runs[r].rev = mid.runQ[r] /\ mid.runs[r].gen = mid.gen
      BY <1>3, <1>4, <1>6, <3>1 DEF IsCurrent
    <3> QED BY <3>2, <3>3, <3>4
  <2> QED BY <2>1, <2>2 DEF QueueInv, Records
<1>10. \A q \in RunId : mid.runs[q].gen = st.runs[q].gen
  BY <1>3, <1>4, <1>6
<1>11. Sequences(mid)
  BY <1>5, <1>6, <1>10, SequencesKept DEF QueueInv
<1>12. Gaps(mid, n)
  <2>1. \A t \in Targets : mid.seqs[t] >= st.seqs[t] /\ mid.seqs[t] <= n
    BY <1>6, Fields DEF QueueInv, Gaps
  <2>2. \A q \in RunId, t \in Targets : Live(mid, q, t) =>
           Live(st, q, t) /\ mid.execs[q][t].seq = st.execs[q][t].seq
    BY <1>6, <1>10 DEF Live
  <2> QED BY <1>5, <1>6, <2>1, <2>2, GapsKept DEF QueueInv
<1>13. Bounded(mid)
  BY <1>5, <1>6, BoundedKept DEF QueueInv
<1>14. Evolves(st, mid, n)
  <2>1. ASSUME NEW q \in RunId PROVE RunEvolves(st, mid, q)
    <3>1. \A t \in Targets : /\ mid.execs[q][t] = st.execs[q][t]
                             /\ mid.execs[q][t].rev >= st.execs[q][t].rev
      BY <1>6, Fields
    <3>2. st.runs[q] = NoRun => \A t \in Targets : st.execs[q][t] = NoExec
      BY DEF QueueInv, Records, NoRun
    <3>3. CASE q = r
      <4>1. /\ mid.runs[r].rev >= st.runs[r].rev /\ st.runs[r].status \notin FinalRunStatus
            /\ mid.runs[r].gen = st.runs[r].gen /\ mid.runs[r].targets = st.runs[r].targets
        BY <1>4, <1>6, Fields DEF rev, FinalRunStatus
      <4> QED BY <1>8, <3>1, <3>3, <4>1 DEF RunEvolves
    <3>4. CASE q # r
      <4>1. mid.runs[q] = st.runs[q] /\ mid.runs[q].rev >= st.runs[q].rev
        BY <1>3, <1>6, <3>4, Fields
      <4> QED BY <3>1, <3>2, <4>1 DEF RunEvolves
    <3> QED BY <3>3, <3>4
  <2>2. \A q \in RunId, t \in Targets : Live(mid, q, t) => Live(st, q, t)
    BY <1>6, <1>10 DEF Live
  <2>3. mid.gen >= st.gen /\ \A t \in Targets : GapEvolves(st, mid, t)
    BY <1>6, Fields DEF GapEvolves
  <2> QED BY <2>1, <2>2, <2>3 DEF Evolves
<1>15. CASE IsCurrent(st, r)
  BY <1>6, <1>7, <1>9, <1>11, <1>12, <1>13, <1>14, <1>15 DEF new, QueueInv
<1>16. CASE ~IsCurrent(st, r)
  <2>1. new = Cleanup(mid, {r})
    BY <1>7, <1>16
  <2>2. /\ new \in Store /\ Records(new, n) /\ Sequences(new) /\ Gaps(new, n)
        /\ \A q \in RunId, t \in Targets :
              new.execQ[q][t] # 0 => new.execs[q][t] = mid.execs[q][t]
    BY <1>5, <1>9, <1>11, <1>12, <2>1, CleanupQueue
  <2>3. new.execQ = mid.execQ /\ new.gaps = mid.gaps
    BY <1>5, <2>1, CleanupRows
  <2>4. Evolves(st, new, n)
    <3>1. Evolves(mid, new, n)
      BY <1>5, <1>9, <1>12, <2>1, CleanupEvolves
    <3> QED BY <1>5, <1>9, <1>14, <2>2, <3>1, EvolvesTransitive DEF QueueInv
  <2>5. Bounded(new)
    BY <1>5, <1>13, <2>2, <2>3, BoundedKept
  <2>6. \A q \in RunId, u \in Targets : new.execs[q][u].file <=> st.execs[q][u].file
    <3>1. \A q \in RunId, u \in Targets :
             new.execs[q][u].file <=> mid.execs[q][u].file /\ new.execQ[q][u] # 0
      BY <1>5, <1>9, <2>2, <2>3, FilesFollowQueue
    <3> QED BY <1>6, <1>9, <2>3, <3>1 DEF Records
  <2> QED BY <1>6, <2>2, <2>3, <2>4, <2>5, <2>6 DEF new, QueueInv
<1> QED BY <1>15, <1>16

\* What leaves the queue for a gap, or is closed by run r without entering it, is older
\* than every result that stays.
OldestLeft(st, new, r) ==
    \A u \in Targets : new.gaps[u] # st.gaps[u] =>
       \A a \in RunId, q \in RunId :
          /\ new.execQ[a][u] = 0 /\ (a = r \/ st.execQ[a][u] # 0)
          /\ q \in Pending(new, u)
          => st.execs[a][u].seq < new.execs[q][u].seq

\* The result file CompleteProbeExecution has just written is named now; what the limit
\* evicts among the executions of T, once those of run r are closed, is not any more.
FileNamed(st, closed, r, t, o) ==
    Referenced(closed) = Referenced(st)
        \cup (IF IsCurrent(st, r) /\ o = "succeeded" THEN {<<r, t>>} ELSE {})

EvictedForget(st, closed, new, r, T) ==
    Referenced(new) = Referenced(closed) \
        (IF IsCurrent(st, r) THEN OverLimit(closed, T) ELSE {})

\* CompleteProbeExecution of an open execution.
LEMMA CompleteQueue ==
  ASSUME NEW st \in Store, NEW n \in Nat, QueueInv(st, n),
         NEW r \in RunId, NEW t \in Targets, IsOpen(st.execs[r][t]), NEW o \in TerminalStatus
  PROVE  LET closed == CloseExecution(st, r, t, o)
             new == CompleteExecution(st, r, t, o)
         IN  /\ QueueInv(new, n) /\ Evolves(st, new, n)
             /\ OldestLeft(st, new, r)
             /\ FileNamed(st, closed, r, t, o)
             /\ EvictedForget(st, closed, new, r, {t})
<1> DEFINE closed == CloseExecution(st, r, t, o)
           D == IF IsCurrent(st, r) THEN OverLimit(closed, {t}) ELSE {}
           new == CompleteExecution(st, r, t, o)
           T == {t}
<1>1. /\ closed \in Store /\ Moves(st, closed, r, T) /\ Terminal(closed.execs[r][t])
      /\ closed.execs[r][t].file <=> IsCurrent(st, r) /\ o = "succeeded"
  BY CloseExecutionType, CloseMoves
<1>2. new = IF IsCurrent(st, r) THEN EnforceLimit(closed, T) ELSE closed
  BY DEF CompleteExecution
<1>3. T \in SUBSET Targets /\ \A u \in T : u = t
  OBVIOUS
<1>4. D = IF IsCurrent(st, r) THEN OverLimit(closed, T) ELSE {}
  OBVIOUS
<1> HIDE DEF closed, new, D
<1>5. /\ new \in Store /\ QueueInv(new, n) /\ Evolves(st, new, n)
      /\ \A q \in RunId, u \in Targets :
           new.execs[q][u].file <=> closed.execs[q][u].file /\ <<q, u>> \notin D
      /\ \A u \in Targets : new.gaps[u] # st.gaps[u] => u \in T
      /\ \A u \in T, a \in RunId, q \in RunId :
           /\ new.gaps[u] # st.gaps[u] /\ new.execQ[a][u] = 0
           /\ a = r \/ st.execQ[a][u] # 0
           /\ q \in Pending(new, u)
           => st.execs[a][u].seq < new.execs[q][u].seq
  <2> HIDE DEF T
  <2> QED BY <1>1, <1>2, <1>3, <1>4, MovesLimited
<1>6. \A q \in RunId, u \in Targets :
        closed.execs[q][u].file <=>
           IF q = r /\ u = t THEN IsCurrent(st, r) /\ o = "succeeded" ELSE st.execs[q][u].file
  BY <1>1 DEF Moves
<1>7. OldestLeft(st, new, r)
  BY <1>5 DEF OldestLeft
<1>8. EvictedForget(st, closed, new, r, T)
  <2>1. \A q \in RunId, u \in Targets :
           new.execs[q][u].file <=> closed.execs[q][u].file /\ <<q, u>> \in AllExecutions \ D
    BY <1>5 DEF AllExecutions
  <2>2. Referenced(new) = Referenced(closed) \cap (AllExecutions \ D)
    BY <2>1, ReferencedIs
  <2>3. Referenced(new) = Referenced(closed) \ D
    BY <2>2 DEF Referenced
  <2> QED BY <2>3 DEF EvictedForget, D
<1>9. FileNamed(st, closed, r, t, o)
  <2>1. ~st.execs[r][t].file
    BY DEF QueueInv, Records, Terminal, IsOpen, TerminalStatus
  <2>2. ASSUME NEW x \in AllExecutions
        PROVE  x \in Referenced(closed) <=>
                  \/ x \in Referenced(st)
                  \/ x = <<r, t>> /\ IsCurrent(st, r) /\ o = "succeeded"
    <3>1. PICK q \in RunId, u \in Targets : x = <<q, u>>
      BY DEF AllExecutions
    <3>2. \A a : x \in Referenced(a) <=> a.execs[q][u].file
      BY <3>1 DEF Referenced, AllExecutions, Exec
    <3>3. x = <<r, t>> <=> q = r /\ u = t
      BY <3>1
    <3>4. closed.execs[q][u].file <=>
             \/ q = r /\ u = t /\ IsCurrent(st, r) /\ o = "succeeded"
             \/ ~(q = r /\ u = t) /\ st.execs[q][u].file
      BY <1>6
    <3> QED BY <2>1, <3>2, <3>3, <3>4
  <2>3. /\ Referenced(closed) \subseteq AllExecutions /\ Referenced(st) \subseteq AllExecutions
        /\ <<r, t>> \in AllExecutions
    BY DEF Referenced, AllExecutions
  <2> QED BY <2>2, <2>3 DEF FileNamed
<1> QED BY <1>5, <1>7, <1>8, <1>9 DEF closed, D, new

\* ReconcileProbeRun of the active run, D being what the limit evicts.
LEMMA ReconcileQueue ==
  ASSUME NEW st \in Store, NEW n \in Nat, QueueInv(st, n),
         st.active # 0, st.runs[st.active].status = "running"
  PROVE  LET r == st.active
             closed == CloseOpenExecutions(st, r)
             open == OpenTargets(st, r)
             new == ReconcileRun(st)
         IN  /\ QueueInv(new, n) /\ Evolves(st, new, n)
             /\ OldestLeft(st, new, r)
             /\ Referenced(closed) = Referenced(st)
             /\ EvictedForget(st, closed, new, r, open)
<1> DEFINE r == st.active
           closed == CloseOpenExecutions(st, r)
           open == OpenTargets(st, r)
           D == IF IsCurrent(st, r) THEN OverLimit(closed, open) ELSE {}
           limited == IF IsCurrent(st, r) THEN EnforceLimit(closed, open) ELSE closed
           new == ReconcileRun(st)
<1>1. r \in RunId
  BY DEF Store
<1>2. /\ closed \in Store /\ Moves(st, closed, r, open) /\ open \in SUBSET Targets
      /\ \A t \in open : Terminal(closed.execs[r][t]) /\ ~closed.execs[r][t].file
  BY <1>1, CloseOpenExecutionsType, CloseOpenMoves DEF QueueInv
<1>3. new = FinishRun(limited, r)
  BY DEF ReconcileRun
<1> HIDE DEF closed, open, new
<1>4. /\ limited \in Store /\ QueueInv(limited, n) /\ Evolves(st, limited, n)
      /\ \A q \in RunId, u \in Targets :
           limited.execs[q][u].file <=> closed.execs[q][u].file /\ <<q, u>> \notin D
      /\ \A u \in Targets : limited.gaps[u] # st.gaps[u] => u \in open
      /\ \A u \in open, a \in RunId, q \in RunId :
           /\ limited.gaps[u] # st.gaps[u] /\ limited.execQ[a][u] = 0
           /\ a = r \/ st.execQ[a][u] # 0
           /\ q \in Pending(limited, u)
           => st.execs[a][u].seq < limited.execs[q][u].seq
      /\ \A q \in RunId : st.runs[q].status = "running" => limited.runs[q] = st.runs[q]
  BY <1>1, <1>2, MovesLimited
<1> HIDE DEF limited, D
<1>5. /\ QueueInv(new, n) /\ Evolves(limited, new, n)
      /\ new.gaps = limited.gaps /\ new.execQ = limited.execQ
      /\ \A q \in RunId, u \in Targets :
           /\ new.execs[q][u].file <=> limited.execs[q][u].file
           /\ new.execQ[q][u] # 0 => new.execs[q][u] = limited.execs[q][u]
  BY <1>1, <1>3, <1>4, FinishQueue
<1>6. Evolves(st, new, n)
  <2>1. new \in Store
    BY <1>1, <1>3, <1>4, FinishRunType
  <2> QED BY <1>4, <1>5, <2>1, EvolvesTransitive DEF QueueInv
<1>7. \A q \in RunId, u \in Targets : closed.execs[q][u].file <=> st.execs[q][u].file
  <2>1. \A u \in open : ~st.execs[r][u].file
    BY <1>1, <1>2 DEF Moves, IsOpen, QueueInv, Records, Terminal, TerminalStatus
  <2> QED BY <1>2, <2>1 DEF Moves
<1>8. ASSUME NEW u \in Targets, new.gaps[u] # st.gaps[u]
      PROVE  \A a \in RunId, q \in RunId :
                /\ new.execQ[a][u] = 0 /\ (a = r \/ st.execQ[a][u] # 0)
                /\ q \in Pending(new, u)
                => st.execs[a][u].seq < new.execs[q][u].seq
  <2>1. limited.gaps[u] # st.gaps[u] /\ u \in open
    BY <1>4, <1>5, <1>8
  <2>2. \A q \in Pending(new, u) : /\ q \in Pending(limited, u) /\ q \in RunId
                                   /\ new.execs[q][u] = limited.execs[q][u]
    BY <1>5 DEF Pending
  <2> QED BY <1>4, <1>5, <2>1, <2>2
<1>9. \A q \in RunId, u \in Targets :
        new.execs[q][u].file <=> closed.execs[q][u].file /\ <<q, u>> \notin D
  BY <1>4, <1>5
<1>10. Referenced(closed) = Referenced(st)
  BY <1>7, ReferencedSame
<1>11. EvictedForget(st, closed, new, r, open)
  <2>1. \A q \in RunId, u \in Targets :
           new.execs[q][u].file <=> closed.execs[q][u].file /\ <<q, u>> \in AllExecutions \ D
    BY <1>9 DEF AllExecutions
  <2>2. Referenced(new) = Referenced(closed) \cap (AllExecutions \ D)
    BY <2>1, ReferencedIs
  <2>3. Referenced(new) = Referenced(closed) \ D
    BY <2>2 DEF Referenced
  <2> QED BY <2>3 DEF EvictedForget, D
<1>12. OldestLeft(st, new, r)
  BY <1>8 DEF OldestLeft
<1> QED BY <1>5, <1>6, <1>10, <1>11, <1>12 DEF closed, open, D, new

\* finishProbeRun deletes no result file.
LEMMA FinishFiles ==
  ASSUME NEW st \in Store, NEW n \in Nat, QueueInv(st, n),
         NEW r \in RunId, st.runs[r].status = "running"
  PROVE  Referenced(FinishRun(st, r)) = Referenced(st)
<1> DEFINE new == FinishRun(st, r)
<1>1. \A q \in RunId, u \in Targets : new.execs[q][u].file <=> st.execs[q][u].file
  BY FinishQueue
<1> HIDE DEF new
<1>2. Referenced(new) = Referenced(st)
  BY <1>1, ReferencedSame
<1> QED BY <1>2 DEF new

\* reconcileProbeGeneration: nothing of an older generation stays in the queue.
LEMMA ChangeQueue ==
  ASSUME NEW st \in Store, NEW n \in Nat, QueueInv(st, n), NEW g \in Generation, g > st.gen
  PROVE  LET new == ChangeGeneration(st, g)
         IN  /\ QueueInv(new, n) /\ Evolves(st, new, n)
             /\ \A u \in Targets : new.gaps[u] = NoGap
             /\ Referenced(new) = {}
<1> DEFINE new == ChangeGeneration(st, g)
           kept(q) == st.runs[q].status = "running"
           out(e) == [e EXCEPT !.file = FALSE, !.evicted = TRUE]
<1>1. g \in Nat /\ st.gen \in Nat \ {0} /\ \A q \in RunId : st.runs[q].gen \in Nat
  BY Fields, BoundAssumption DEF Generation
<1>2. /\ \A q \in RunId : st.runs[q].gen # g
      /\ \A u \in Targets : st.gaps[u].gen # g
  <2>1. \A q \in RunId : st.runs[q].gen <= st.gen
    BY DEF QueueInv, Records
  <2>2. \A u \in Targets : st.gaps[u].gen = st.gen \/ st.gaps[u].gen = 0
    BY DEF QueueInv, Gaps, NoGap
  <2> QED BY <1>1, <2>1, <2>2
<1>3. /\ new.gen = g
      /\ \A u \in Targets : new.seqs[u] = 0 /\ new.gaps[u] = NoGap /\ new.gapQ[u] = 0
      /\ \A q \in RunId : /\ new.runs[q] = IF kept(q) THEN st.runs[q] ELSE NoRun
                          /\ new.runQ[q] = 0
      /\ \A q \in RunId, u \in Targets :
           /\ new.execs[q][u] = IF kept(q) /\ u \in st.runs[q].targets
                                THEN out(st.execs[q][u]) ELSE NoExec
           /\ new.execQ[q][u] = 0
  BY <1>2 DEF ChangeGeneration, Store
<1>4. \A e \in ExecRecord : /\ out(e).file = FALSE /\ out(e).status = e.status
                            /\ out(e).seq = e.seq /\ out(e).rev = e.rev
  BY DEF ExecRecord
<1>5. \A q \in RunId, u \in Targets : st.execs[q][u] \in ExecRecord
  BY Fields
<1> HIDE DEF new, out
<1>6. /\ NoExec.file = FALSE /\ NoRun.gen = 0 /\ NoRun.status = "none" /\ NoRun.targets = {}
      /\ NoGap.id = 0 /\ NoGap.rev = 0 /\ NoGap.first = 0 /\ NoGap.last = 0 /\ NoGap.count = 0
      /\ NoExec.status = "none"
  BY DEF NoExec, NoRun, NoGap
<1>7. \A q \in RunId, u \in Targets :
        \/ /\ kept(q) /\ u \in st.runs[q].targets /\ new.execs[q][u].file = FALSE
           /\ new.execs[q][u].status = st.execs[q][u].status
           /\ new.execs[q][u].seq = st.execs[q][u].seq
           /\ new.execs[q][u].rev = st.execs[q][u].rev
        \/ ~(kept(q) /\ u \in st.runs[q].targets) /\ new.execs[q][u] = NoExec
  BY <1>3, <1>4, <1>5
<1>8. \A q \in RunId, u \in Targets : ~new.execs[q][u].file
  BY <1>6, <1>7
<1>9. \A q \in RunId : new.runs[q].gen # g /\ new.runs[q].gen <= g
  <2>1. \A q \in RunId : st.runs[q].gen <= st.gen
    BY DEF QueueInv, Records
  <2> QED BY <1>1, <1>2, <1>3, <1>6, <2>1
<1>10. Records(new, n)
  <2> SUFFICES ASSUME NEW q \in RunId
               PROVE
        /\ q > n => new.runs[q] = NoRun
        /\ new.runs[q].status = "none" => new.runs[q] = NoRun
        /\ \A u \in Targets :
             /\ u \notin new.runs[q].targets => new.execs[q][u] = NoExec
             /\ u \in new.runs[q].targets => /\ new.execs[q][u].seq # 0
                                             /\ new.execs[q][u].status # "none"
    BY <1>3, <1>8, <1>9 DEF Records
  <2>1. CASE kept(q)
    BY <1>3, <1>7, <2>1 DEF QueueInv, Records
  <2>2. CASE ~kept(q)
    BY <1>3, <1>6, <1>7, <2>2
  <2> QED BY <2>1, <2>2
<1>11. Sequences(new)
  BY <1>3, <1>9 DEF Sequences
<1>12. \A q \in RunId, u \in Targets : ~Live(new, q, u)
  BY <1>3, <1>9 DEF Live
<1>13. Gaps(new, n)
  <2>1. \A u \in Targets : Counted(new, u, {})
    BY <1>3, <1>6, FS_EmptySet DEF Counted
  <2> QED BY <1>3, <1>6, <2>1 DEF Gaps
<1>14. Bounded(new)
  <2>1. \A u \in Targets : Pending(new, u) = {}
    BY <1>3 DEF Pending
  <2> QED BY <2>1, FS_EmptySet, BoundAssumption DEF Bounded
<1>15. Evolves(st, new, n)
  <2> SUFFICES ASSUME NEW q \in RunId PROVE RunEvolves(st, new, q)
    BY <1>1, <1>3, <1>6, <1>12 DEF Evolves, GapEvolves
  <2>1. CASE kept(q)
    <3>1. /\ new.runs[q] = st.runs[q] /\ st.runs[q] # NoRun /\ st.runs[q].status \notin FinalRunStatus
          /\ new.runs[q].rev >= st.runs[q].rev
      BY <1>3, <1>6, <2>1, Fields DEF FinalRunStatus
    <3>2. ASSUME NEW u \in Targets
          PROVE  /\ new.execs[q][u].rev >= st.execs[q][u].rev
                 /\ new.execs[q][u].seq = st.execs[q][u].seq
                 /\ new.execs[q][u].status = st.execs[q][u].status
                 /\ new.execs[q][u].rev = st.execs[q][u].rev
      <4>1. st.execs[q][u].rev \in Nat
        BY Fields
      <4>2. CASE u \in st.runs[q].targets
        BY <1>7, <2>1, <4>1, <4>2
      <4>3. CASE u \notin st.runs[q].targets
        <5>1. st.execs[q][u] = NoExec
          BY <4>3 DEF QueueInv, Records
        <5> QED BY <1>7, <4>1, <4>3, <5>1
      <4> QED BY <4>2, <4>3
    <3> QED BY <3>1, <3>2 DEF RunEvolves
  <2>2. CASE ~kept(q)
    BY <1>3, <2>2 DEF RunEvolves
  <2> QED BY <2>1, <2>2
<1>16. Referenced(new) = {}
  BY <1>8 DEF Referenced, AllExecutions, Exec
<1> QED BY <1>3, <1>10, <1>11, <1>13, <1>14, <1>15, <1>16 DEF new, QueueInv

\* An artifact is taken off the queue, and its run cleaned up.
LEMMA TakenQueue ==
  ASSUME NEW st \in Store, NEW mid \in Store, NEW R, NEW n \in Nat, QueueInv(st, n),
         mid.gen = st.gen, mid.gaps = st.gaps, mid.gapQ = st.gapQ, mid.seqs = st.seqs,
         mid.runs = st.runs,
         \A q \in RunId : mid.runQ[q] \in {0, st.runQ[q]},
         \A q \in RunId, u \in Targets :
            /\ mid.execs[q][u].status = st.execs[q][u].status
            /\ mid.execs[q][u].seq = st.execs[q][u].seq
            /\ mid.execs[q][u].rev = st.execs[q][u].rev
            /\ \/ mid.execs[q][u] = st.execs[q][u] /\ mid.execQ[q][u] = st.execQ[q][u]
               \/ /\ mid.execQ[q][u] = 0 /\ ~mid.execs[q][u].file
                  /\ u \in st.runs[q].targets \/ mid.execs[q][u] = st.execs[q][u]
  PROVE  LET new == Cleanup(mid, R)
         IN  /\ QueueInv(new, n) /\ Evolves(st, new, n) /\ new.gaps = st.gaps
             /\ \A q \in RunId, u \in Targets : new.execs[q][u].file <=> mid.execs[q][u].file
<1> DEFINE new == Cleanup(mid, R)
<1>1. Records(mid, n)
  BY DEF QueueInv, Records, Terminal
<1>2. Sequences(mid)
  BY SequencesKept DEF QueueInv
<1>3. \A q \in RunId, u \in Targets : Live(mid, q, u) => Live(st, q, u)
  BY DEF Live, IsOpen
<1>4. Gaps(mid, n)
  <2>1. \A u \in Targets : mid.seqs[u] >= st.seqs[u] /\ mid.seqs[u] <= n
    BY Fields DEF QueueInv, Gaps
  <2> QED BY <1>3, <2>1, GapsKept DEF QueueInv
<1>5. Bounded(mid)
  BY BoundedKept DEF QueueInv, Terminal
<1>6. Evolves(st, mid, n)
  <2>1. ASSUME NEW q \in RunId PROVE RunEvolves(st, mid, q)
    <3>1. st.runs[q].rev \in Nat /\ \A u \in Targets : st.execs[q][u].rev \in Nat
      BY Fields
    <3>2. st.runs[q] = NoRun => \A u \in Targets : mid.execs[q][u] = NoExec
      BY DEF QueueInv, Records, NoRun
    <3> QED BY <3>1, <3>2 DEF RunEvolves
  <2>2. mid.gen >= st.gen /\ \A u \in Targets : GapEvolves(st, mid, u)
    BY Fields DEF GapEvolves
  <2> QED BY <1>3, <2>1, <2>2 DEF Evolves
<1>7. /\ new \in Store /\ Records(new, n) /\ Sequences(new) /\ Gaps(new, n)
      /\ \A q \in RunId, u \in Targets :
            new.execQ[q][u] # 0 => new.execs[q][u] = mid.execs[q][u]
  BY <1>1, <1>2, <1>4, CleanupQueue
<1>8. new.execQ = mid.execQ /\ new.gaps = mid.gaps
  BY CleanupRows
<1>9. Evolves(st, new, n)
  <2> HIDE DEF new
  <2>1. Evolves(mid, new, n)
    BY <1>1, <1>4, CleanupEvolves DEF new
  <2> QED BY <1>1, <1>6, <1>7, <2>1, EvolvesTransitive DEF QueueInv
<1> HIDE DEF new
<1>10. Bounded(new)
  BY <1>5, <1>7, <1>8, BoundedKept
<1>11. \A q \in RunId, u \in Targets : new.execs[q][u].file <=> mid.execs[q][u].file
  <2>1. \A q \in RunId, u \in Targets :
           new.execs[q][u].file <=> mid.execs[q][u].file /\ new.execQ[q][u] # 0
    BY <1>1, <1>7, <1>8, FilesFollowQueue
  <2> QED BY <1>1, <1>8, <2>1 DEF Records
<1> QED BY <1>7, <1>8, <1>9, <1>10, <1>11 DEF new, QueueInv

\* AcknowledgeProbeArtifact
LEMMA AcknowledgeQueue ==
  ASSUME NEW st \in Store, NEW n \in Nat, QueueInv(st, n), NEW k, NamedKey(k), NEW rev
  PROVE  LET new == Acknowledge(st, k, rev)
             taken(q, u) == /\ k.kind = "execution" /\ ~Superseded(st, k, rev)
                            /\ q = k.run /\ u = k.target
         IN  /\ QueueInv(new, n) /\ Evolves(st, new, n)
             /\ \A u \in Targets : new.gaps[u] \in {st.gaps[u], NoGap}
             /\ \A q \in RunId, u \in Targets :
                  new.execs[q][u].file <=> st.execs[q][u].file /\ ~taken(q, u)
<1> DEFINE new == Acknowledge(st, k, rev)
<1>1. CASE Superseded(st, k, rev)
  <2>1. Evolves(st, st, n)
    BY EvolvesReflexive DEF QueueInv
  <2> QED BY <1>1, <2>1 DEF Acknowledge
<1>2. CASE ~Superseded(st, k, rev) /\ k.kind = "run"
  <2> DEFINE mid == [st EXCEPT !.runQ[k.run] = 0]
  <2>1. mid \in Store
    BY <1>2 DEF NamedKey, Store
  <2>2. /\ mid.gen = st.gen /\ mid.gaps = st.gaps /\ mid.gapQ = st.gapQ /\ mid.seqs = st.seqs
        /\ mid.runs = st.runs /\ mid.execs = st.execs /\ mid.execQ = st.execQ
        /\ \A q \in RunId : mid.runQ[q] \in {0, st.runQ[q]}
    BY DEF Store
  <2>3. new = Cleanup(mid, {k.run})
    BY <1>2 DEF Acknowledge
  <2> HIDE DEF mid, new
  <2>4. /\ QueueInv(new, n) /\ Evolves(st, new, n) /\ new.gaps = st.gaps
        /\ \A q \in RunId, u \in Targets : new.execs[q][u].file <=> mid.execs[q][u].file
    BY <2>1, <2>2, <2>3, TakenQueue
  <2> QED BY <1>2, <2>2, <2>4 DEF new
<1>3. CASE ~Superseded(st, k, rev) /\ k.kind = "execution"
  <2> DEFINE mid == [st EXCEPT !.execQ[k.run][k.target] = 0,
                               !.execs[k.run][k.target].file = FALSE]
             e == st.execs[k.run][k.target]
  <2>1. k.run \in RunId /\ k.target \in Targets
    BY <1>3 DEF NamedKey
  <2>2. mid \in Store
    BY <2>1, TakenType
  <2>3. /\ mid.gen = st.gen /\ mid.gaps = st.gaps /\ mid.gapQ = st.gapQ /\ mid.seqs = st.seqs
        /\ mid.runs = st.runs /\ mid.runQ = st.runQ
        /\ \A q \in RunId, u \in Targets : q # k.run \/ u # k.target =>
             mid.execs[q][u] = st.execs[q][u] /\ mid.execQ[q][u] = st.execQ[q][u]
        /\ mid.execQ[k.run][k.target] = 0
        /\ mid.execs[k.run][k.target] = [e EXCEPT !.file = FALSE]
    BY <2>1 DEF Store
  <2>4. new = Cleanup(mid, {k.run})
    BY <1>3 DEF Acknowledge
  <2>5. e \in ExecRecord /\ (e.file => k.target \in st.runs[k.run].targets)
    BY <2>1, Exists, Fields DEF QueueInv, Records
  <2> HIDE DEF mid, new, e
  <2>6. LET f == [e EXCEPT !.file = FALSE]
        IN  /\ f.status = e.status /\ f.seq = e.seq /\ f.rev = e.rev /\ ~f.file
            /\ ~e.file => f = e
    BY <2>5 DEF ExecRecord
  <2>7. \A q \in RunId, u \in Targets :
          /\ mid.execs[q][u].status = st.execs[q][u].status
          /\ mid.execs[q][u].seq = st.execs[q][u].seq
          /\ mid.execs[q][u].rev = st.execs[q][u].rev
          /\ \/ mid.execs[q][u] = st.execs[q][u] /\ mid.execQ[q][u] = st.execQ[q][u]
             \/ /\ mid.execQ[q][u] = 0 /\ ~mid.execs[q][u].file
                /\ u \in st.runs[q].targets \/ mid.execs[q][u] = st.execs[q][u]
    <3> SUFFICES ASSUME NEW q \in RunId, NEW u \in Targets
                 PROVE  /\ mid.execs[q][u].status = st.execs[q][u].status
                        /\ mid.execs[q][u].seq = st.execs[q][u].seq
                        /\ mid.execs[q][u].rev = st.execs[q][u].rev
                        /\ \/ mid.execs[q][u] = st.execs[q][u] /\ mid.execQ[q][u] = st.execQ[q][u]
                           \/ /\ mid.execQ[q][u] = 0 /\ ~mid.execs[q][u].file
                              /\ u \in st.runs[q].targets \/ mid.execs[q][u] = st.execs[q][u]
      OBVIOUS
    <3>1. CASE q = k.run /\ u = k.target
      <4>1. st.execs[q][u] = e /\ mid.execs[q][u] = [e EXCEPT !.file = FALSE] /\ mid.execQ[q][u] = 0
        BY <2>3, <3>1 DEF e
      <4> QED BY <2>5, <2>6, <3>1, <4>1
    <3>2. CASE ~(q = k.run /\ u = k.target)
      BY <2>3, <3>2
    <3> QED BY <3>1, <3>2
  <2>8. /\ QueueInv(new, n) /\ Evolves(st, new, n) /\ new.gaps = st.gaps
        /\ \A q \in RunId, u \in Targets : new.execs[q][u].file <=> mid.execs[q][u].file
    <3>1. \A q \in RunId : mid.runQ[q] \in {0, st.runQ[q]}
      BY <2>3
    <3>2. /\ mid.gen = st.gen /\ mid.gaps = st.gaps /\ mid.gapQ = st.gapQ
          /\ mid.seqs = st.seqs /\ mid.runs = st.runs
      BY <2>3
    <3> QED BY <2>2, <2>4, <2>7, <3>1, <3>2, TakenQueue
  <2>9. ~mid.execs[k.run][k.target].file
    BY <2>3, <2>6
  <2>10. \A q \in RunId, u \in Targets :
           new.execs[q][u].file <=> st.execs[q][u].file /\ ~(q = k.run /\ u = k.target)
    <3>1. \A q \in RunId, u \in Targets :
            q # k.run \/ u # k.target => mid.execs[q][u] = st.execs[q][u]
      BY <2>3
    <3> QED BY <2>8, <2>9, <3>1
  <2> QED BY <1>3, <2>8, <2>10 DEF new
<1>4. CASE ~Superseded(st, k, rev) /\ k.kind = "gap"
  <2> DEFINE t == k.target
  <2>1. t \in Targets
    BY <1>4 DEF NamedKey
  <2>2. new = [st EXCEPT !.gapQ[t] = 0, !.gaps[t] = NoGap]
    BY <1>4 DEF Acknowledge
  <2>3. new \in Store
    BY AcknowledgeType
  <2>4. /\ new.gen = st.gen /\ new.seqs = st.seqs /\ new.runs = st.runs /\ new.execs = st.execs
        /\ new.runQ = st.runQ /\ new.execQ = st.execQ
        /\ \A u \in Targets : u # t => new.gaps[u] = st.gaps[u] /\ new.gapQ[u] = st.gapQ[u]
        /\ new.gaps[t] = NoGap /\ new.gapQ[t] = 0
    BY <2>1, <2>2 DEF Store
  <2> HIDE DEF new, t
  <2>5. NoGap.id = 0 /\ NoGap.rev = 0 /\ NoGap.first = 0 /\ NoGap.last = 0 /\ NoGap.count = 0
    BY DEF NoGap
  <2>6. Records(new, n)
    BY <2>4 DEF QueueInv, Records
  <2>7. Sequences(new)
    BY <2>4 DEF QueueInv, Sequences
  <2>8. Bounded(new)
    BY <2>3, <2>4, BoundedKept DEF QueueInv
  <2>9. \A q \in RunId, u \in Targets : Live(new, q, u) <=> Live(st, q, u)
    BY <2>4 DEF Live
  <2>10. Gaps(new, n)
    <3>1. Counted(new, t, {})
      BY <2>4, <2>5, FS_EmptySet DEF Counted
    <3>2. \A u \in Targets : u # t => \A X : Counted(st, u, X) => Counted(new, u, X)
      BY <2>4, <2>9 DEF Counted
    <3>3. st.seqs[t] \in Nat
      BY <2>1, Fields DEF t
    <3> SUFFICES ASSUME NEW u \in Targets
                 PROVE  /\ new.seqs[u] <= n
                        /\ new.gapQ[u] = new.gaps[u].rev
                        /\ new.gaps[u] # NoGap => new.gaps[u].gen = new.gen /\ new.gaps[u].id # 0
                        /\ new.gaps[u].id <= n
                        /\ new.gaps[u].id # 0 => ~Live(new, new.gaps[u].id, u)
                        /\ new.gaps[u].first <= new.gaps[u].last /\ new.gaps[u].last <= new.seqs[u]
                        /\ \E X \in SUBSET (new.gaps[u].first .. new.gaps[u].last) :
                              Counted(new, u, X)
      BY DEF Gaps
    <3>4. CASE u = t
      BY <2>4, <2>5, <3>1, <3>3, <3>4 DEF QueueInv, Gaps
    <3>5. CASE u # t
      <4>1. st.gaps[u].id \in RunId \cup {0}
        BY DEF Store, GapRecord
      <4> QED BY <2>4, <2>9, <3>2, <3>5, <4>1 DEF QueueInv, Gaps
    <3> QED BY <3>4, <3>5
  <2>11. Evolves(st, new, n)
    <3>1. \A q \in RunId : RunEvolves(st, new, q)
      <4>1. \A q \in RunId : /\ st.runs[q].rev \in Nat
                             /\ \A u \in Targets : st.execs[q][u].rev \in Nat
        BY Fields
      <4>2. \A q \in RunId : st.runs[q] = NoRun => \A u \in Targets : st.execs[q][u] = NoExec
        BY DEF QueueInv, Records, NoRun
      <4> QED BY <2>4, <4>1, <4>2 DEF RunEvolves
    <3>2. new.gen >= st.gen /\ \A u \in Targets : GapEvolves(st, new, u)
      BY <2>4, <2>5, Fields DEF GapEvolves
    <3> QED BY <2>9, <3>1, <3>2 DEF Evolves
  <2> QED BY <1>4, <2>4, <2>6, <2>7, <2>8, <2>10, <2>11 DEF new, QueueInv
<1> QED BY <1>1, <1>2, <1>3, <1>4 DEF NamedKey

\* reconcileProbeArtifacts
LEMMA UnreadableQueue ==
  ASSUME NEW st \in Store, NEW n \in Nat, QueueInv(st, n), NEW F
  PROVE  LET new == ReconcileArtifacts(st, F)
         IN  /\ QueueInv(new, n) /\ Evolves(st, new, n)
             /\ Referenced(new) = Referenced(st) \cap F
<1> DEFINE D == Unreadable(st, F)
           new == ReconcileArtifacts(st, F)
<1>1. /\ D \in SUBSET AllExecutions
      /\ \A q \in RunId, u \in Targets : <<q, u>> \in D <=>
            st.execs[q][u].file /\ <<q, u>> \notin F /\ st.execQ[q][u] # 0
  BY DEF Unreadable, Referenced, AllExecutions, Exec
<1>2. \A q \in RunId, u \in Targets : st.execs[q][u].file =>
         st.execQ[q][u] # 0 /\ Terminal(st.execs[q][u])
  BY DEF QueueInv, Records
<1>3. new = DropExecutions(st, D)
  BY DEF ReconcileArtifacts
<1> HIDE DEF new, D
<1>4. /\ new \in Store /\ Records(new, n) /\ Sequences(new) /\ Gaps(new, n)
      /\ Evolves(st, new, n)
      /\ \A q \in RunId, u \in Targets :
           /\ new.execQ[q][u] = IF <<q, u>> \in D THEN 0 ELSE st.execQ[q][u]
           /\ new.execQ[q][u] # 0 => new.execs[q][u] = st.execs[q][u]
  BY <1>1, <1>2, <1>3, DropQueue DEF QueueInv
<1>5. \A q \in RunId, u \in Targets :
        /\ new.execQ[q][u] \in {0, st.execQ[q][u]}
        /\ new.execQ[q][u] # 0 => new.execs[q][u] = st.execs[q][u]
  BY <1>4
<1>6. Bounded(new)
  <2>1. \A u \in Targets, q \in RunId :
           new.execQ[q][u] # 0 /\ Terminal(new.execs[q][u]) =>
              st.execQ[q][u] # 0 /\ Terminal(st.execs[q][u])
    BY <1>5
  <2> QED BY <1>4, <2>1, BoundedKept DEF QueueInv
<1>7. ASSUME NEW q \in RunId, NEW u \in Targets
      PROVE  new.execs[q][u].file <=> st.execs[q][u].file /\ <<q, u>> \in F
  <2>1. new.execs[q][u].file <=> st.execs[q][u].file /\ new.execQ[q][u] # 0
    <3>1. \A a \in RunId, b \in Targets :
             new.execs[a][b].file <=> st.execs[a][b].file /\ new.execQ[a][b] # 0
      <4>1. Records(new, n) /\ Records(st, n)
        BY <1>4 DEF QueueInv
      <4> QED BY <1>4, <1>5, <4>1, FilesFollowQueue
    <3> QED BY <3>1
  <2> QED BY <1>1, <1>2, <1>4, <2>1
<1>8. Referenced(new) = Referenced(st) \cap F
  BY <1>7, ReferencedIs
<1> QED BY <1>4, <1>6, <1>8 DEF new, QueueInv
\* An acknowledged execution names its file no longer, and nothing else changes.
LEMMA AcknowledgeFiles ==
  ASSUME NEW st \in Store, NEW n \in Nat, QueueInv(st, n), NEW k, NamedKey(k), NEW rev
  PROVE  Referenced(Acknowledge(st, k, rev)) = Referenced(st) \
            (IF k.kind = "execution" /\ ~Superseded(st, k, rev) THEN {<<k.run, k.target>>} ELSE {})
<1> DEFINE new == Acknowledge(st, k, rev)
           took == k.kind = "execution" /\ ~Superseded(st, k, rev)
           gone == IF took THEN {<<k.run, k.target>>} ELSE {}
<1>1. \A q \in RunId, u \in Targets :
         new.execs[q][u].file <=> st.execs[q][u].file /\ ~(took /\ q = k.run /\ u = k.target)
  BY AcknowledgeQueue
<1>2. \A q \in RunId, u \in Targets :
         <<q, u>> \in AllExecutions \ gone <=> ~(took /\ q = k.run /\ u = k.target)
  BY DEF AllExecutions
<1> HIDE DEF new, took, gone
<1>3. \A q \in RunId, u \in Targets :
         new.execs[q][u].file <=> st.execs[q][u].file /\ <<q, u>> \in AllExecutions \ gone
  BY <1>1, <1>2
<1>4. Referenced(new) = Referenced(st) \cap (AllExecutions \ gone)
  BY <1>3, ReferencedIs
<1>5. Referenced(new) = Referenced(st) \ gone
  BY <1>4 DEF Referenced
<1> QED BY <1>5 DEF new, took, gone
=============================================================================
