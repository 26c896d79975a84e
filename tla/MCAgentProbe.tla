---------------------------- MODULE MCAgentProbe ----------------------------
(* Instances of AgentProbe for TLC.  One run checks two of them, which     *)
(* differ in how far a behaviour goes: "queue" overflows the queue of one  *)
(* public IP, "runs" interleaves the executions of several.                *)
EXTENDS AgentProbe, TLC

VARIABLE instance

TargetSymmetry == Permutations(Targets)

\* bound: an attempt that has no result was interrupted or skipped, not failed.
NoneFails == \A r \in RunId, t \in Targets : db'.execs[r][t].status # "failed"

\* bound: the executions of the behaviour, and its crashes, stops and lost files.
WithinInstance ==
    CASE instance = "queue" -> /\ Cardinality(UNION {db'.runs[r].targets : r \in RunId}) <= 1
                              /\ restarts' <= 1
      [] instance = "runs" -> issued' <= 2 /\ restarts' <= 1 /\ NoneFails

MCInit == Init /\ instance \in {"queue", "runs"}
MCNext == Next /\ WithinInstance /\ UNCHANGED instance
MCSpec == MCInit /\ [][MCNext]_<<vars, instance>>
=============================================================================
