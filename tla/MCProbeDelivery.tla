-------------------------- MODULE MCProbeDelivery --------------------------
(* Instances of ProbeUpload for TLC.  MCSpec checks three of them in one *)
(* run, which differ in how far a behaviour goes: "faults" loses requests, *)
(* files, processes and disks around one run of two public IPs, "reset"    *)
(* clears the history under several runs of one, and "order" reaches the   *)
(* Center with its last run only: the queue overflows, and what is left is *)
(* uploaded in any order while that run still executes.  LiveSpec adds the *)
(* fairness, for the instance "live".                                      *)
EXTENDS ProbeUpload, TLC

VARIABLE instance

OneTarget == Cardinality(UNION {db'.runs[r].targets : r \in RunId}) <= 1

\* bound: how the attempts of a behaviour end.
Outcomes(S) ==
    \A r \in RunId, t \in Targets :
        Terminal(db'.execs[r][t]) => db'.execs[r][t].status \in S

\* bound: runs, resets and faults of the behaviour.
WithinInstance ==
    CASE instance = "faults" -> issued' <= 1 /\ center'.pending = 0
      [] instance = "reset" -> /\ OneTarget /\ issued' <= 2 /\ restarts' = 0
                               /\ Outcomes({"succeeded", "interrupted"})
                               /\ late' # NoArtifact => center'.pending # 0 \/ center'.gen = 2
      [] instance = "order" -> /\ OneTarget /\ restarts' = 0 /\ Outcomes({"succeeded", "failed"})
                               /\ center'.pending = 0 /\ late' = NoArtifact
                               /\ sent' # NoArtifact => issued' = MaxRuns
      [] instance = "live" -> late' # NoArtifact => late'.status = "succeeded" /\ restarts' = 0

TargetSymmetry == Permutations(Targets)

MCInit == UploadInit /\ instance \in {"faults", "reset", "order"}
MCNext == UploadNext /\ WithinInstance /\ UNCHANGED instance
MCSpec == MCInit /\ [][MCNext]_<<uploadVars, instance>>

LiveInit == UploadInit /\ instance = "live"
LiveSpec == LiveInit /\ [][MCNext]_<<uploadVars, instance>> /\ DeliveryFairness
=============================================================================
