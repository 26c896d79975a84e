----------------------------- MODULE ProbeStore -----------------------------
(***************************************************************************)
(* The complete-probe part of the Agent's bbolt store                      *)
(* (src/internal/agent/state/probe.go).  A value st stands for the         *)
(* committed content of the database; an operator that returns a store is  *)
(* one bbolt transaction, or a helper called inside one.                   *)
(*                                                                         *)
(* Abstractions: a run id is the number of runs started before it, plus    *)
(* one (a fresh UUID); an execution is named by its run and target, the    *)
(* way a manifest names it; a gap is named by the run whose eviction       *)
(* created it.  Times, raw results, the schedule and the discarded-item    *)
(* counters are left out.  Result files live outside the database, in the  *)
(* module that uses this one.                                              *)
(***************************************************************************)
EXTENDS Integers, FiniteSets, FiniteSetsExt

CONSTANTS
    Targets,        \* public addresses a configuration may list as probe targets
    MaxPending,     \* maxPendingProbeResultsPerEgress (30 in the code)
    MaxRuns,        \* bound: runs started in a behaviour
    MaxGeneration   \* bound: history generations applied in a behaviour

ASSUME TargetsAssumption == IsFiniteSet(Targets)
ASSUME BoundAssumption == /\ MaxPending \in Nat \ {0}
                          /\ MaxRuns \in Nat \ {0}
                          /\ MaxGeneration \in Nat \ {0}

RunId == 1 .. MaxRuns
Generation == 1 .. MaxGeneration

TerminalStatus == {"succeeded", "failed", "interrupted", "skipped"}
FinalRunStatus == {"succeeded", "partial", "failed"}

\* An absent bbolt key decodes to a record of the same shape.
NoRun  == [status |-> "none", gen |-> 0, rev |-> 0, targets |-> {}]
NoExec == [status |-> "none", seq |-> 0, rev |-> 0, file |-> FALSE, evicted |-> FALSE]
NoGap  == [id |-> 0, gen |-> 0, rev |-> 0, count |-> 0, first |-> 0, last |-> 0]

RunRecord  == [status : {"none", "running"} \cup FinalRunStatus,
               gen : Generation \cup {0}, rev : Nat, targets : SUBSET Targets]
ExecRecord == [status : {"none", "pending", "running"} \cup TerminalStatus,
               seq : Nat, rev : Nat, file : BOOLEAN, evicted : BOOLEAN]
GapRecord  == [id : RunId \cup {0}, gen : Generation \cup {0},
               rev : Nat, count : Nat, first : Nat, last : Nat]

\* The buckets.  runQ, execQ and gapQ are probeArtifactsBucket, split by kind:
\* the queued revision of an artifact, 0 when it is not queued.
Store == [gen    : Generation,                         \* configuration.HistoryGeneration
          runs   : [RunId -> RunRecord],               \* probeRunsBucket
          execs  : [RunId -> [Targets -> ExecRecord]], \* probeExecutionsBucket
          gaps   : [Targets -> GapRecord],             \* probeGapsBucket
          runQ   : [RunId -> Nat],
          execQ  : [RunId -> [Targets -> Nat]],
          gapQ   : [Targets -> Nat],
          seqs   : [Targets -> Nat],                   \* probeSequencesBucket
          active : RunId \cup {0}]                     \* activeProbeRunKey

EmptyStore ==
    [gen |-> 1, runs |-> [r \in RunId |-> NoRun],
     execs |-> [r \in RunId |-> [t \in Targets |-> NoExec]],
     gaps |-> [t \in Targets |-> NoGap],
     runQ |-> [r \in RunId |-> 0],
     execQ |-> [r \in RunId |-> [t \in Targets |-> 0]],
     gapQ |-> [t \in Targets |-> 0],
     seqs |-> [t \in Targets |-> 0], active |-> 0]

Exec(st, x) == st.execs[x[1]][x[2]]
Terminal(e) == e.status \in TerminalStatus

\* Definitions named Faulty..., Incomplete..., Strict... or Reversed... are deliberate
\* errors: each replaces the definition after it to show that a property notices.  No
\* specification uses them.
FaultyIsCurrent(st, r) == TRUE                                \* ignores a reset

\* probeRunUsesCurrentGeneration
IsCurrent(st, r) == st.runs[r].gen = st.gen
AllExecutions == RunId \X Targets

\* The executions whose record names a result file.
Referenced(st) == {x \in AllExecutions : Exec(st, x).file}

-----------------------------------------------------------------------------
(* Helpers called inside transactions                                      *)

\* cleanupProbeRun for every run of R: a finished run that has no execution
\* left in the queue is deleted; one that lost an execution to eviction loses
\* its own queued artifact first.
Cleanup(st, R) ==
    LET gone(r) == /\ st.runs[r].status # "running"
                   /\ \A t \in st.runs[r].targets : st.execQ[r][t] = 0
        lossy(r) == \E t \in st.runs[r].targets : st.execs[r][t].evicted
        deleted == {r \in R : gone(r) /\ (lossy(r) \/ st.runQ[r] = 0)}
    IN  [st EXCEPT
           !.runs  = [r \in RunId |-> IF r \in deleted THEN NoRun ELSE st.runs[r]],
           !.execs = [r \in RunId |-> IF r \in deleted THEN [t \in Targets |-> NoExec]
                                                       ELSE st.execs[r]],
           !.runQ  = [r \in RunId |-> IF r \in deleted THEN 0 ELSE st.runQ[r]]]

\* extendProbeGap for the executions of target t in the runs of D, oldest first.
ExtendGap(st, t, D) ==
    LET gap == st.gaps[t]
        seqs == {st.execs[r][t].seq : r \in D}
        oldest == CHOOSE r \in D : st.execs[r][t].seq = Min(seqs)
        n == Cardinality(D)
    IN  IF gap = NoGap
        THEN [id |-> oldest, gen |-> st.runs[oldest].gen, rev |-> n, count |-> n,
              first |-> Min(seqs), last |-> Max(seqs)]
        ELSE [gap EXCEPT !.rev = @ + n, !.count = @ + n,
                         !.first = Min({@} \cup seqs), !.last = Max({@} \cup seqs)]

\* Take the executions of D out of the queue, account for them in the gap of
\* their target, forget their files, and clean up their runs.
DropExecutions(st, D) ==
    LET runsOf(t) == {r \in RunId : <<r, t>> \in D}
        hit == {t \in Targets : runsOf(t) # {}}
        gaps == [t \in Targets |-> IF t \in hit THEN ExtendGap(st, t, runsOf(t))
                                                ELSE st.gaps[t]]
    IN  Cleanup([st EXCEPT
            !.execQ = [r \in RunId |-> [t \in Targets |->
                         IF <<r, t>> \in D THEN 0 ELSE st.execQ[r][t]]],
            !.execs = [r \in RunId |-> [t \in Targets |->
                         IF <<r, t>> \in D
                         THEN [st.execs[r][t] EXCEPT !.file = FALSE, !.evicted = TRUE]
                         ELSE st.execs[r][t]]],
            !.gaps = gaps,
            !.gapQ = [t \in Targets |-> IF t \in hit THEN gaps[t].rev ELSE st.gapQ[t]]],
          {r \in RunId : \E t \in Targets : <<r, t>> \in D})

\* The terminal executions of target t that wait for upload, and those of them
\* enforceProbeResultLimit drops: all but the MaxPending newest.
Pending(st, t) == {r \in RunId : st.execQ[r][t] # 0 /\ Terminal(st.execs[r][t])}

FaultyNewer(st, t, r) ==                                      \* evicts the newest
    {q \in Pending(st, t) : st.execs[q][t].seq < st.execs[r][t].seq}

Newer(st, t, r) == {q \in Pending(st, t) : st.execs[q][t].seq > st.execs[r][t].seq}

FaultyOverLimit(st, T) ==                                     \* off by one
    {x \in RunId \X T : /\ x[1] \in Pending(st, x[2])
                        /\ Cardinality(Newer(st, x[2], x[1])) > MaxPending}

OverLimit(st, T) ==
    {x \in RunId \X T : /\ x[1] \in Pending(st, x[2])
                        /\ Cardinality(Newer(st, x[2], x[1])) >= MaxPending}

EnforceLimit(st, T) == DropExecutions(st, OverLimit(st, T))

\* finishProbeRun, called with the active run when its executions are terminal.
FinalStatus(st, r) ==
    LET won == {t \in st.runs[r].targets : st.execs[r][t].status = "succeeded"}
    IN  IF won = st.runs[r].targets THEN "succeeded"
        ELSE IF won # {} THEN "partial" ELSE "failed"

FinishRun(st, r) ==
    LET rev == st.runs[r].rev + 1
        done == [st EXCEPT !.runs[r].status = FinalStatus(st, r), !.runs[r].rev = rev,
                           !.active = 0]
    IN  IF IsCurrent(st, r) THEN [done EXCEPT !.runQ[r] = rev]
                            ELSE Cleanup(done, {r})

-----------------------------------------------------------------------------
(* Transactions                                                            *)

\* nextProbeSequence
FaultyNextSequence(st, t) == 1 + Cardinality({r \in RunId : st.execs[r][t].seq # 0})  \* reuses

NextSequence(st, t) == st.seqs[t] + 1

\* StartProbeRunAtRevision: the run, its pending executions with the next
\* sequence of each target, the queued run artifact and the active pointer.
StartRun(st, r, S) ==
    [st EXCEPT
       !.runs[r]  = [status |-> "running", gen |-> st.gen, rev |-> 1, targets |-> S],
       !.execs[r] = [t \in Targets |->
                       IF t \in S THEN [NoExec EXCEPT !.status = "pending", !.seq = NextSequence(st, t)]
                                  ELSE NoExec],
       !.runQ[r] = 1,
       !.seqs = [t \in Targets |-> IF t \in S THEN NextSequence(st, t) ELSE st.seqs[t]],
       !.active = r]

\* StartProbeExecution
BeginExecution(st, r, t) ==
    LET rev == st.execs[r][t].rev + 1
    IN  [st EXCEPT !.execs[r][t].status = "running", !.execs[r][t].rev = rev,
                   !.execQ[r][t] = IF IsCurrent(st, r) THEN rev ELSE @]

\* The Update of CompleteProbeExecution before the limit is enforced, and with it.
\* A run of an old generation keeps its outcome out of the queue and marks it.
CloseExecution(st, r, t, outcome) ==
    LET e == st.execs[r][t]
        current == IsCurrent(st, r)
        closed == [e EXCEPT !.status = outcome, !.rev = e.rev + 1,
                            !.file = current /\ outcome = "succeeded",
                            !.evicted = e.evicted \/ ~current]
    IN  [st EXCEPT !.execs[r][t] = closed,
                   !.execQ[r][t] = IF current THEN e.rev + 1 ELSE @]

CompleteExecution(st, r, t, outcome) ==
    LET closed == CloseExecution(st, r, t, outcome)
    IN  IF IsCurrent(st, r) THEN EnforceLimit(closed, {t}) ELSE closed

\* ReconcileProbeRun: close every open execution of the active run, then the run.
FaultyOpenTargets(st, r) == st.runs[r].targets                \* closes closed ones

IncompleteOpenTargets(st, r) ==                               \* forgets pending ones
    {t \in st.runs[r].targets : st.execs[r][t].status = "running"}

OpenTargets(st, r) == {t \in st.runs[r].targets : ~Terminal(st.execs[r][t])}

CloseOpenExecutions(st, r) ==
    LET open == OpenTargets(st, r)
        current == IsCurrent(st, r)
        close(e) == [e EXCEPT !.status = IF e.status = "running" THEN "interrupted" ELSE "skipped",
                              !.rev = @ + 1, !.evicted = @ \/ ~current]
    IN  [st EXCEPT
           !.execs[r] = [t \in Targets |-> IF t \in open THEN close(st.execs[r][t])
                                                         ELSE st.execs[r][t]],
           !.execQ[r] = [t \in Targets |-> IF t \in open /\ current
                                           THEN st.execs[r][t].rev + 1 ELSE st.execQ[r][t]]]

ReconcileRun(st) ==
    LET r == st.active
        closed == CloseOpenExecutions(st, r)
        open == OpenTargets(st, r)
    IN  FinishRun(IF IsCurrent(st, r) THEN EnforceLimit(closed, open) ELSE closed, r)

\* reconcileProbeGeneration, called by ApplyConfiguration when the history
\* generation differs: sequences restart, nothing of another generation stays
\* queued, only a running run keeps its records.
ChangeGeneration(st, g) ==
    LET stale(r) == st.runs[r].gen # g
        kept(r) == ~stale(r) \/ st.runs[r].status = "running"
    IN  [st EXCEPT
           !.gen = g,
           !.seqs = [t \in Targets |-> 0],
           !.gaps = [t \in Targets |-> IF st.gaps[t].gen # g THEN NoGap ELSE st.gaps[t]],
           !.gapQ = [t \in Targets |-> IF st.gaps[t].gen # g THEN 0 ELSE st.gapQ[t]],
           !.runs = [r \in RunId |-> IF kept(r) THEN st.runs[r] ELSE NoRun],
           !.runQ = [r \in RunId |-> IF stale(r) THEN 0 ELSE st.runQ[r]],
           !.execs = [r \in RunId |-> [t \in Targets |->
                        IF ~stale(r) THEN st.execs[r][t]
                        ELSE IF kept(r) /\ t \in st.runs[r].targets
                        THEN [st.execs[r][t] EXCEPT !.file = FALSE, !.evicted = TRUE]
                        ELSE NoExec]],
           !.execQ = [r \in RunId |-> [t \in Targets |->
                        IF stale(r) THEN 0 ELSE st.execQ[r][t]]]]

\* reconcileProbeArtifacts: a queued execution whose result file cannot be read
\* leaves the queue like an evicted one.
FaultyUnreadable(st, files) == {}                             \* trusts the disk

Unreadable(st, files) ==
    {x \in Referenced(st) \ files : st.execQ[x[1]][x[2]] # 0}

ReconcileArtifacts(st, files) == DropExecutions(st, Unreadable(st, files))

-----------------------------------------------------------------------------
(* The upload queue                                                        *)

QueuedKeys(st) ==
    {[kind |-> "run", run |-> r, target |-> "-"] : r \in {q \in RunId : st.runQ[q] # 0}}
    \cup {[kind |-> "execution", run |-> x[1], target |-> x[2]] :
             x \in {y \in AllExecutions : st.execQ[y[1]][y[2]] # 0}}
    \cup {[kind |-> "gap", run |-> st.gaps[t].id, target |-> t] :
             t \in {u \in Targets : st.gapQ[u] # 0}}

QueuedRevision(st, k) ==
    CASE k.kind = "run"       -> st.runQ[k.run]
      [] k.kind = "execution" -> st.execQ[k.run][k.target]
      [] k.kind = "gap"       -> IF st.gaps[k.target].id = k.run THEN st.gapQ[k.target] ELSE 0

\* What NextProbeArtifact reads for key k: an execution travels with its run.
FaultyArtifact(st, k) ==                                      \* the run's revision
    [kind |-> k.kind, run |-> k.run, target |-> k.target,
     rev |-> IF k.kind = "gap" THEN QueuedRevision(st, k) ELSE st.runs[k.run].rev,
     runRecord |-> IF k.kind = "gap" THEN NoRun ELSE st.runs[k.run],
     manifest |-> [t \in Targets |-> IF k.kind = "gap" THEN 0 ELSE st.execs[k.run][t].seq],
     status |-> IF k.kind = "execution" THEN st.execs[k.run][k.target].status ELSE "none",
     gap |-> IF k.kind = "gap" THEN st.gaps[k.target] ELSE NoGap]

Artifact(st, k) ==
    [kind |-> k.kind, run |-> k.run, target |-> k.target, rev |-> QueuedRevision(st, k),
     runRecord |-> IF k.kind = "gap" THEN NoRun ELSE st.runs[k.run],
     manifest |-> IF k.kind = "gap" THEN [t \in Targets |-> 0]
                  ELSE [t \in Targets |-> st.execs[k.run][t].seq],
     status |-> IF k.kind = "execution" THEN st.execs[k.run][k.target].status ELSE "none",
     gap |-> IF k.kind = "gap" THEN st.gaps[k.target] ELSE NoGap]

NoArtifact ==
    [kind |-> "none", run |-> 0, target |-> "-", rev |-> 0, runRecord |-> NoRun,
     manifest |-> [t \in Targets |-> 0], status |-> "none", gap |-> NoGap]

\* AcknowledgeProbeArtifact: only the queued revision is taken off the queue.
FaultySuperseded(st, k, rev) == QueuedRevision(st, k) = 0     \* drops a newer revision

Superseded(st, k, rev) == QueuedRevision(st, k) # rev

Acknowledge(st, k, rev) ==
    IF Superseded(st, k, rev) THEN st
    ELSE CASE k.kind = "run" -> Cleanup([st EXCEPT !.runQ[k.run] = 0], {k.run})
           [] k.kind = "execution" ->
                Cleanup([st EXCEPT !.execQ[k.run][k.target] = 0,
                                   !.execs[k.run][k.target].file = FALSE], {k.run})
           [] k.kind = "gap" ->
                [st EXCEPT !.gapQ[k.target] = 0, !.gaps[k.target] = NoGap]
=============================================================================
