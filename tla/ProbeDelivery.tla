--------------------------- MODULE ProbeDelivery ---------------------------
(***************************************************************************)
(* One Agent (AgentProbe) uploading its complete probes to the Center      *)
(* (ProbeHistory) over HTTP, while the administrator clears the history    *)
(* and the machine of the Agent may be reinstalled.                        *)
(*                                                                         *)
(* A request the Agent gave up may still reach the Center (late); its      *)
(* answer reaches nobody.  At most one such request exists at a time.      *)
(***************************************************************************)
EXTENDS AgentProbe, ProbeHistory

CONSTANTS
    MayArriveLate,  \* whether a request the Agent gave up may still arrive
    MayReinstall    \* whether the node may be recovered on an empty disk

ASSUME DeliveryAssumption == MayArriveLate \in BOOLEAN /\ MayReinstall \in BOOLEAN

VARIABLES
    center,     \* the history the Center keeps
    resetting,  \* step of a running ResetHistory: it holds historyMu
    answer,     \* what the Center answered to sent, "none" before it did
    late        \* a request the Agent no longer waits for

centerVars == <<center, resetting>>
networkVars == <<answer, late>>
agentVars == vars
deliveryVars == <<vars, centerVars, networkVars>>

DeliveryInit ==
    /\ Init
    /\ center = EmptyHistory(1, 0)
    /\ resetting = "no"
    /\ answer = "none"
    /\ late = NoArtifact

\* historyMu is free: UploadProbeArtifact and ResetHistory exclude each other.
HistoryFree == resetting = "no"

-----------------------------------------------------------------------------
(* The Agent, the requests it makes and the answers it gets                *)

\* A request that ends unanswered may stay behind.
Network ==
    IF sent' = sent THEN UNCHANGED networkVars
    ELSE /\ answer' = "none"
         /\ late' \in {late} \cup {a \in {sent} : MayArriveLate /\ a # NoArtifact /\ answer = "none"}

AgentStep == Local /\ Network /\ UNCHANGED centerVars

\* The response to a poll carried generation g, which is the Center's or was.
ReceiveConfiguration ==
    /\ \E g \in Generation : db.gen < g /\ g <= center.gen /\ ApplyConfiguration(g)
    /\ UNCHANGED <<centerVars, networkVars>>

ReceiveAnswer ==
    /\ answer \in {"accepted", "obsolete", "invalid"}
    /\ IF answer = "invalid" THEN UploadRefused ELSE AcknowledgeProbeArtifact
    /\ answer' = "none"
    /\ UNCHANGED <<centerVars, late>>

\* The node is recovered on a new disk: a new credential, an empty store, and the
\* generation the Center hands out.
Reinstall ==
    /\ MayReinstall /\ ~up
    /\ restarts < MaxRestarts /\ restarts' = restarts + 1
    /\ db' = [EmptyStore EXCEPT !.gen = center.gen]
    /\ files' = {}
    /\ UNCHANGED <<resultDir, removing, up, stopping, reconciled, worker, sent, issued,
                   centerVars, networkVars>>

-----------------------------------------------------------------------------
(* The Center                                                              *)

AnswerRequest ==
    /\ HistoryFree
    /\ sent # NoArtifact /\ answer = "none"
    /\ LET result == UploadProbeArtifact(center, sent)
       IN  center' = result.store /\ answer' = result.answer
    /\ UNCHANGED <<agentVars, resetting, late>>

AnswerLateRequest ==
    /\ HistoryFree
    /\ late # NoArtifact
    /\ center' = UploadProbeArtifact(center, late).store
    /\ late' = NoArtifact
    /\ UNCHANGED <<agentVars, resetting, answer>>

\* ResetHistory: three commits, in two databases.
BeginReset ==
    /\ HistoryFree
    /\ center.gen < MaxGeneration
    /\ center' = SetPendingGeneration(center)
    /\ resetting' = "pending"
    /\ UNCHANGED <<agentVars, networkVars>>

ClearObservedHistory ==
    /\ resetting = "pending"
    /\ center' = ClearHistory(center)
    /\ resetting' = "cleared"
    /\ UNCHANGED <<agentVars, networkVars>>

FinishReset ==
    /\ resetting = "cleared"
    /\ center' = PromoteGeneration(center)
    /\ resetting' = "no"
    /\ UNCHANGED <<agentVars, networkVars>>

\* A database error, or the request's context ends: what was committed stays.
AbortReset ==
    /\ ~HistoryFree
    /\ resetting' = "no"
    /\ UNCHANGED <<agentVars, center, networkVars>>

-----------------------------------------------------------------------------

Answer == AnswerRequest \/ AnswerLateRequest
Reset == BeginReset \/ ClearObservedHistory \/ FinishReset \/ AbortReset

DeliveryNext ==
    \/ AgentStep
    \/ ReceiveConfiguration
    \/ ReceiveAnswer
    \/ Reinstall
    \/ Answer
    \/ Reset

DeliverySpec == DeliveryInit /\ [][DeliveryNext]_deliveryVars

\* The Agent does what it can do without the Center; retries go on and one of them is
\* answered; a failed attempt ends; the handlers run.  Nobody has to request a reset or
\* repeat one that failed.
DeliveryFairness ==
    /\ WF_deliveryVars((Execute \/ ReconcileProbeRun \/ RemoveObsolete \/ Stop \/ Open)
                          /\ Network /\ UNCHANGED centerVars)
    /\ SF_deliveryVars((\E k \in QueuedKeys(db) : NextProbeArtifact(k))
                          /\ Network /\ UNCHANGED centerVars)
    /\ SF_deliveryVars(AnswerRequest)
    /\ SF_deliveryVars(ReceiveAnswer)
    /\ WF_deliveryVars(answer \in {"busy", "error"} /\ UploadFails
                          /\ Network /\ UNCHANGED centerVars)
    /\ WF_deliveryVars(ReceiveConfiguration)
    /\ WF_deliveryVars(FinishReset \/ ClearObservedHistory)

FairDeliverySpec == DeliverySpec /\ DeliveryFairness

-----------------------------------------------------------------------------
(* Properties                                                              *)

\* Types of the Center and of what is between it and the Agent (whose own is TypeOK).
DeliveryTypeOK ==
    /\ center \in History
    /\ resetting \in {"no", "pending", "cleared"}
    /\ answer \in {"none", "accepted", "obsolete", "busy", "error", "invalid"}
    /\ late \in ArtifactRecord

\* Every attempt of the current generation is accounted for: its outcome is at the
\* Center or waits for upload, it is still open, or an explicit gap covers it
\* (OPERATOR_GUIDE.en.md:264-268).  No crash, loss, eviction or reset loses one, and
\* none leaves a record that is not well formed.
EveryAttemptAccounted ==
    /\ DeliveryTypeOK
    /\ db.gen = center.gen /\ center.pending = 0 =>
        \A t \in Targets : \A s \in 1 .. db.seqs[t] :
            \/ \E r \in Stored(center, t, s) : Terminal(center.execs[r][t])
            \/ \E gap \in center.gaps[t] : gap.first <= s /\ s <= gap.last
            \/ db.gapQ[t] # 0 /\ db.gaps[t].first <= s /\ s <= db.gaps[t].last
            \/ \E r \in RunId : /\ db.runs[r].gen = db.gen /\ db.execs[r][t].seq = s
                                /\ db.execQ[r][t] # 0 \/ r = db.active

\* What the Center stores belongs to the Agent's record of the same run: it never
\* reports another outcome than the Agent's, nor one the Agent has not reached.
CenterAgrees ==
    \A r \in RunId :
        /\ center.runs[r] \in FinalRunStatus /\ db.runs[r].status # "none"
              => center.runs[r] = db.runs[r].status
        /\ \A t \in Targets :
              Terminal(center.execs[r][t]) /\ db.execs[r][t].status # "none"
                 => center.execs[r][t].status = db.execs[r][t].status

\* An outcome the Center shows is never taken back, except by a reset: a late or
\* repeated request cannot reopen an execution or a run.
CenterOutcomesFinal ==
    [][resetting' = "cleared" \/
       \A r \in RunId :
          /\ center.runs[r] \in FinalRunStatus => center'.runs[r] = center.runs[r]
          /\ \A t \in Targets :
                Terminal(center.execs[r][t]) => center'.execs[r][t] = center.execs[r][t]]_deliveryVars

\* The current snapshot of a public IP is its newest report, in whatever order the
\* reports arrived.
CurrentIsNewest ==
    \A t \in Targets : \A r \in RunId :
        center.execs[r][t].status = "succeeded" =>
            /\ center.current[t] # 0
            /\ center.execs[r][t].seq <= center.execs[center.current[t]][t].seq

\* Reports are compared once, in the order of their sequences, whatever the order of
\* arrival: each against an older one, none twice, and a success the comparison
\* passed was compared unless a gap covers it.
ComparedInOrder ==
    \A t \in Targets :
        LET seq(r) == center.execs[r][t].seq
        IN  /\ \A x \in center.changes[t] :
                 /\ seq(x[1]) < center.next[t]
                 /\ x[2] # 0 => seq(x[2]) < seq(x[1])
                 /\ \A y \in center.changes[t] \ {x} : x[1] # y[1] /\ x[2] # y[2]
            /\ \A r \in RunId :
                 center.execs[r][t].status = "succeeded" /\ seq(r) < center.next[t]
                    => \/ \E x \in center.changes[t] : x[1] = r
                       \/ \E gap \in center.gaps[t] : gap.first <= seq(r) /\ seq(r) <= gap.last

\* Nothing of an old generation is left once a reset has been promoted.
ResetClears ==
    \A r \in RunId : center.runs[r] # "none" /\ db.runs[r].status # "none"
                        => db.runs[r].gen = center.gen

\* Once probes and resets stop, an Agent whose requests get through empties its queue.
QueueDrains == <>[](center.pending = 0) => []<>(QueuedKeys(db) = {})

-----------------------------------------------------------------------------
(* Statements of the documentation and the tests that the code breaks      *)

\* Nothing is queued, sent, open or late.
Settled == /\ up /\ LockFree /\ db.active = 0 /\ QueuedKeys(db) = {}
           /\ sent = NoArtifact /\ late = NoArtifact
           /\ db.gen = center.gen /\ center.pending = 0

\* processor_test.go:140: an explicit gap is a boundary the comparison passes.  Once
\* everything was delivered it has reached the newest sequence of every target.
ComparisonCatchesUp == Settled => \A t \in Targets : center.next[t] = db.seqs[t] + 1

\* OPERATOR_GUIDE.en.md:382-384: recovering a node retains the node and its history.
\* Its new Agent's reports must then be stored next to the old ones.
RecoveredNodeUploads == answer # "error"
=============================================================================
