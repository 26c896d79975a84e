---------------------------- MODULE ProbeHistory ----------------------------
(***************************************************************************)
(* What the Center keeps of complete probes and what it does with one      *)
(* uploaded artifact (UploadProbeArtifact of                               *)
(* src/internal/center/nodes/probe.go, Advance of                          *)
(* src/internal/center/history/processor.go).  A value c stands for the    *)
(* probe tables of history.db and the generations of config.db.            *)
(*                                                                         *)
(* Runs and targets are named as in ProbeStore; a row that does not exist  *)
(* has status "none".  A snapshot exists for every succeeded execution.    *)
(* Left out: the content of a result and with it field changes and format  *)
(* states, node and address ownership, times, retention.                   *)
(***************************************************************************)
EXTENDS ProbeStore

NoRow == [status |-> "none", seq |-> 0]

EmptyHistory(g, p) ==
    [gen     |-> g,      \* system_state.history_generation
     pending |-> p,      \* system_state.pending_history_generation, 0 for NULL
     runs    |-> [r \in RunId |-> "none"],
     execs   |-> [r \in RunId |-> [t \in Targets |-> NoRow]],
     gaps    |-> [t \in Targets |-> {}],
     current |-> [t \in Targets |-> 0],   \* current_probe_snapshots: a run
     next    |-> [t \in Targets |-> 1],   \* probe_comparison_progress.next_sequence
     last    |-> [t \in Targets |-> 0],   \* and its last_success_snapshot_id: a run
     changes |-> [t \in Targets |-> {}],  \* probe_change_sets: <<run, previous run>>
     outcome |-> [t \in Targets |-> "none"]]

History ==
    [gen : Generation, pending : Generation \cup {0},
     runs : [RunId -> {"none", "running"} \cup FinalRunStatus],
     execs : [RunId -> [Targets -> [status : {"none", "pending", "running"} \cup TerminalStatus,
                                    seq : Nat]]],
     gaps : [Targets -> SUBSET [id : RunId, count : Nat, first : Nat, last : Nat]],
     current : [Targets -> RunId \cup {0}],
     next : [Targets -> Nat],
     last : [Targets -> RunId \cup {0}],
     changes : [Targets -> SUBSET (RunId \X (RunId \cup {0}))],
     outcome : [Targets -> {"none", "healthy", "failed"}]]

Stored(c, t, s) == {r \in RunId : c.execs[r][t].status # "none" /\ c.execs[r][t].seq = s}
Covering(c, t, s) == {gap \in c.gaps[t] : gap.first <= s /\ s <= gap.last}

-----------------------------------------------------------------------------
(* Advance                                                                 *)

FaultyDecided(c, t, s) == TRUE                \* passes an execution still under way

Decided(c, t, s) == \E r \in Stored(c, t, s) : Terminal(c.execs[r][t])

\* From sequence n of target t, the loop takes the stored executions in order,
\* jumps over the widest gap where none is stored, and stops at one that is not
\* terminal or at a sequence nothing is known of.
Walk(c, t) ==
    LET stored(n) == Stored(c, t, n)
        widest(n) == Max({gap.last : gap \in Covering(c, t, n)})
        path[n \in 1 .. MaxRuns + 1] ==
            IF stored(n) # {}
            THEN IF Decided(c, t, n)
                 THEN [stop |-> path[n + 1].stop, taken |-> path[n + 1].taken \cup stored(n)]
                 ELSE [stop |-> n, taken |-> {}]
            ELSE IF Covering(c, t, n) # {} THEN path[widest(n) + 1]
            ELSE [stop |-> n, taken |-> {}]
    IN  path[c.next[t]]

Latest(c, t, R) == CHOOSE r \in R : \A q \in R : c.execs[q][t].seq <= c.execs[r][t].seq

\* Every taken success gets a change set against the success before it; the outcome
\* state follows the last one that ran.
Advance(c, t) ==
    LET walk == Walk(c, t)
        won == {r \in walk.taken : c.execs[r][t].status = "succeeded"}
        ran == {r \in walk.taken : c.execs[r][t].status # "skipped"}
        before(r) == {q \in won : c.execs[q][t].seq < c.execs[r][t].seq}
        previous(r) == IF before(r) = {} THEN c.last[t] ELSE Latest(c, t, before(r))
    IN  [c EXCEPT
           !.next[t] = walk.stop,
           !.last[t] = IF won = {} THEN @ ELSE Latest(c, t, won),
           !.changes[t] = @ \cup {<<r, previous(r)>> : r \in won},
           !.outcome[t] = IF ran = {} THEN @
                          ELSE IF Latest(c, t, ran) \in won THEN "healthy" ELSE "failed"]

-----------------------------------------------------------------------------
(* One uploaded artifact                                                   *)

\* Answers: the two dispositions of a receipt; "invalid" is a 400; "busy" (a reset is
\* pending) and "error" (a database error) are 500s the Agent retries.
Accepted(c) == [store |-> c, answer |-> "accepted"]
Refused(c, answer) == [store |-> c, answer |-> answer]

\* UpsertProbeGap: a gap the Center knows grows, but keeps its first sequence.
IngestGap(c, t, gap) ==
    LET known == {old \in c.gaps[t] : old.id = gap.id}
        grown == {[old EXCEPT !.count = Max({@, gap.count}), !.last = Max({@, gap.last})] :
                     old \in known}
        added == {[id |-> gap.id, count |-> gap.count, first |-> gap.first, last |-> gap.last]}
    IN  IF \E old \in known : old.first # gap.first
        THEN Refused(c, "invalid")
        ELSE Accepted(Advance(
               [c EXCEPT !.gaps[t] = IF known = {} THEN @ \cup added
                                                   ELSE (@ \ known) \cup grown], t))

\* ingestProbeRun: an unknown run is stored as running, its unknown executions as
\* pending.  UNIQUE (egress_id, sequence) makes the insertion fail when another
\* execution of the target holds the sequence.
IngestRun(c, a) ==
    LET new == {t \in a.runRecord.targets : c.execs[a.run][t].status = "none"}
    IN  IF \E t \in new : Stored(c, t, a.manifest[t]) # {}
        THEN Refused(c, "error")
        ELSE Accepted(
               [c EXCEPT
                  !.runs[a.run] = IF @ = "none" THEN "running" ELSE @,
                  !.execs[a.run] = [t \in Targets |->
                      IF t \in new THEN [status |-> "pending", seq |-> a.manifest[t]]
                                   ELSE c.execs[a.run][t]]])

\* ensureSnapshot: current_probe_snapshots only moves to a newer sequence.
FaultyNewerSnapshot(c, r, t) == [c EXCEPT !.current[t] = r]   \* the last to arrive

NewerSnapshot(c, r, t) ==
    IF c.current[t] = 0 \/ c.execs[r][t].seq > c.execs[c.current[t]][t].seq
    THEN [c EXCEPT !.current[t] = r] ELSE c

\* ingestProbeExecution: an outcome the Center has is final, a retransmission must
\* repeat it.
FaultyIngestExecution(c, a) ==                                \* the last to arrive
    LET updated == [c EXCEPT !.execs[a.run][a.target].status = a.status]
    IN  Accepted(IF a.status = "succeeded" THEN NewerSnapshot(updated, a.run, a.target)
                                           ELSE updated)

StrictIngestExecution(c, a) ==                                \* no retransmission
    LET updated == [c EXCEPT !.execs[a.run][a.target].status = a.status]
    IN  IF c.execs[a.run][a.target].status \in TerminalStatus
        THEN Refused(c, "invalid")
        ELSE Accepted(IF a.status = "succeeded" THEN NewerSnapshot(updated, a.run, a.target)
                                                ELSE updated)

IngestExecution(c, a) ==
    LET old == c.execs[a.run][a.target].status
        updated == [c EXCEPT !.execs[a.run][a.target].status = a.status]
    IN  IF old \in TerminalStatus /\ old # a.status
        THEN Refused(c, "invalid")
        ELSE Accepted(IF a.status = "succeeded" THEN NewerSnapshot(updated, a.run, a.target)
                                                ELSE updated)

\* reconcileProbeRunSummary: a finished run is closed once all its executions are,
\* with the status they add up to.
Summarise(c, a) ==
    LET r == a.run
        statuses == {c.execs[r][t].status : t \in a.runRecord.targets}
        expected == IF statuses = {"succeeded"} THEN "succeeded"
                    ELSE IF "succeeded" \in statuses THEN "partial" ELSE "failed"
        claimed == a.runRecord.status
    IN  IF claimed = "running" THEN Accepted(c)
        ELSE IF ~(statuses \subseteq TerminalStatus)
             THEN IF c.runs[r] = "running" THEN Accepted(c) ELSE Refused(c, "invalid")
        ELSE IF claimed # expected \/ c.runs[r] \notin {"running", claimed}
             THEN Refused(c, "invalid")
        ELSE Accepted([c EXCEPT !.runs[r] = claimed])

\* UploadProbeArtifact, one transaction: a refusal anywhere leaves c as it was.
UploadProbeArtifact(c, a) ==
    LET gen == IF a.kind = "gap" THEN a.gap.gen ELSE a.runRecord.gen
        run == IngestRun(c, a)
        execution == IF run.answer = "accepted" /\ a.kind = "execution"
                     THEN IngestExecution(run.store, a) ELSE run
        summary == IF execution.answer = "accepted" THEN Summarise(execution.store, a)
                                                    ELSE execution
    IN  IF gen # c.gen THEN Refused(c, "obsolete")
        ELSE IF c.pending # 0 THEN Refused(c, "busy")
        ELSE IF a.kind = "gap" THEN IngestGap(c, a.target, a.gap)
        ELSE IF summary.answer # "accepted" THEN Refused(c, summary.answer)
        ELSE IF a.kind = "execution" THEN Accepted(Advance(summary.store, a.target))
        ELSE summary

-----------------------------------------------------------------------------
(* ResetHistory                                                            *)

SetPendingGeneration(c) == IF c.pending = 0 THEN [c EXCEPT !.pending = c.gen + 1] ELSE c
FaultyClearHistory(c) == [EmptyHistory(c.gen, c.pending) EXCEPT !.runs = c.runs]

ClearHistory(c) == EmptyHistory(c.gen, c.pending)
PromoteGeneration(c) == [c EXCEPT !.gen = c.pending, !.pending = 0]
=============================================================================
