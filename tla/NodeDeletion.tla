---------------------------- MODULE NodeDeletion ----------------------------
(***************************************************************************)
(* The end of a node: revocation, the deletion an administrator asks for    *)
(* and the worker that carries it out over both databases, beside polls of  *)
(* the same node that were under way                                        *)
(* (src/internal/center/nodes/service.go, address.go).                      *)
(*                                                                          *)
(* A poll commits the heartbeat and then, in another transaction and after  *)
(* waiting for historyMu, what it says of addresses.  The worker deletes    *)
(* the node's rows of history.db under historyMu and its row of config.db   *)
(* after that.  Every action is one commit, and the Center may stop between *)
(* any two; the rows a poll stores are one of each table.                   *)
(***************************************************************************)
EXTENDS Naturals, FiniteSets

CONSTANTS
    Polls,           \* requests of the node at the Center
    MaxDeletionStops \* bound on restarts of the Center and failed commits

ASSUME DeletionAssumption == IsFiniteSet(Polls) /\ MaxDeletionStops \in Nat

VARIABLES
    node,            \* config.db: the node's row
    operation,       \* config.db: its deletion
    nodeHistory,     \* history.db: tables with rows of the node
    polling,         \* where each poll is
    worker,          \* the deletion worker: idle, or between its two commits
    overtook,        \* whether rows came from a poll past its heartbeat when access ended
    deletionStops

deletionVars == <<node, operation, nodeHistory, polling, worker, overtook, deletionStops>>

Tables == {"address_states", "history_gaps"}

DeletionInit ==
    /\ node = "active" /\ operation = "none"
    /\ nodeHistory = {}
    /\ polling = [p \in Polls |-> "none"]
    /\ worker = "idle" /\ overtook = FALSE /\ deletionStops = 0

\* authenticateAgent: a credential that was revoked is known after the node is gone.
PollAnswer == IF node = "active" THEN "heartbeat" ELSE "revoked"

\* Poll, to the commit of the heartbeat.
BeginPoll(p) ==
    /\ polling[p] \notin {"heartbeat"}
    /\ polling' = [polling EXCEPT ![p] = PollAnswer]
    /\ UNCHANGED <<node, operation, nodeHistory, worker, overtook, deletionStops>>

\* ingestAddressUpload under historyMu: of a node without paths nothing is stored, and
\* the poll cannot answer for a node without a row.
Ingested == IF node = "gone" THEN nodeHistory ELSE Tables
IngestAddresses(p) ==
    /\ polling[p] = "heartbeat"
    /\ nodeHistory' = Ingested
    /\ polling' = [polling EXCEPT ![p] = IF node = "gone" THEN "failed" ELSE "answered"]
    /\ overtook' = (overtook \/ node = "revoked")
    /\ UNCHANGED <<node, operation, worker, deletionStops>>

RevokeNode ==
    /\ node = "active" /\ operation = "none"
    /\ node' = "revoked"
    /\ UNCHANGED <<operation, nodeHistory, polling, worker, overtook, deletionStops>>

\* Delete revokes the node and asks for the deletion, in one transaction.
Deleted == "revoked"
DeleteNode ==
    /\ node # "gone" /\ operation \in {"none", "failed"}
    /\ node' = Deleted
    /\ operation' = "pending"
    /\ UNCHANGED <<nodeHistory, polling, worker, overtook, deletionStops>>

\* processNodeDeletions: deleteNodeHistory ...
DeleteHistory ==
    /\ worker = "idle" /\ operation \in {"pending", "failed"}
    /\ nodeHistory' = {} /\ overtook' = FALSE
    /\ operation' = "pending" /\ worker' = "history-deleted"
    /\ UNCHANGED <<node, polling, deletionStops>>

\* ... and the row, with everything that refers to it.
FaultyMayDeleteRow == operation = "pending"   \* whatever became of the history
MayDeleteRow == worker = "history-deleted"
DeleteRow ==
    /\ MayDeleteRow
    /\ node' = "gone" /\ operation' = "completed" /\ worker' = "idle"
    /\ UNCHANGED <<nodeHistory, polling, overtook, deletionStops>>

\* A commit fails: the operation says so, and the next round tries it again.
FailDeletion ==
    /\ operation = "pending" /\ deletionStops < MaxDeletionStops
    /\ operation' = "failed" /\ worker' = "idle" /\ deletionStops' = deletionStops + 1
    /\ UNCHANGED <<node, nodeHistory, polling, overtook>>

\* The Center stops, and its requests with it.
StopDeleting ==
    /\ deletionStops < MaxDeletionStops /\ deletionStops' = deletionStops + 1
    /\ worker' = "idle"
    /\ polling' = [p \in Polls |-> "none"]
    /\ UNCHANGED <<node, operation, nodeHistory, overtook>>

DeletionNext ==
    \/ \E p \in Polls : BeginPoll(p) \/ IngestAddresses(p)
    \/ RevokeNode \/ DeleteNode \/ DeleteHistory \/ DeleteRow
    \/ FailDeletion \/ StopDeleting

DeletionSpec == DeletionInit /\ [][DeletionNext]_deletionVars

-----------------------------------------------------------------------------
(* Properties                                                              *)

\* Types of the deletion and the polls beside it.
DeletionTypeOK ==
    /\ node \in {"active", "revoked", "gone"}
    /\ operation \in {"none", "pending", "failed", "completed"}
    /\ nodeHistory \subseteq Tables
    /\ polling \in [Polls -> {"none", "heartbeat", "answered", "failed", "revoked"}]
    /\ worker \in {"idle", "history-deleted"}
    /\ overtook \in BOOLEAN /\ deletionStops \in 0 .. MaxDeletionStops

\* A deleted node leaves no row of its state behind, whatever stopped the worker between
\* its two commits; only a poll that was past its heartbeat when the node was deleted can
\* store some after the worker cleared them, and nothing removes those.
DeletedNodeIsGone == operation = "completed" => nodeHistory = {} \/ overtook

=============================================================================
