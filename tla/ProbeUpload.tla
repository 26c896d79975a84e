---------------------------- MODULE ProbeUpload ----------------------------
(***************************************************************************)
(* ProbeDelivery with a history variable that remembers whether the disk   *)
(* of the Agent has failed it: what the Center promises the uploads of an  *)
(* Agent it promises up to the first such fault only.  The variable is     *)
(* read by no action.                                                      *)
(***************************************************************************)
EXTENDS ProbeDelivery

VARIABLE intact     \* no result was lost on disk, and the disk was not replaced

uploadVars == <<deliveryVars, intact>>

DiskFault == Reinstall \/ \E x \in files : LoseResultFile(x)

UploadInit == DeliveryInit /\ intact = TRUE
UploadNext == DeliveryNext /\ intact' = (intact /\ ~DiskFault)
UploadSpec == UploadInit /\ [][UploadNext]_uploadVars

\* As long as the disk of the Agent is intact, and whatever else happens (crashes,
\* evictions, resets, requests and answers that are lost, late or repeated), the Center
\* never calls an artifact invalid (which ends the Agent, probe_control.go:122) and
\* never fails to store one (which blocks it for ever): it only postpones uploads during
\* a reset.  A lost result can lower the first sequence of a gap the Center has already
\* (UpsertProbeGap, queries.sql:846), and a new disk repeats sequences
\* (RecoveredNodeUploads); nothing is claimed after either.
NeverRefused == intact => answer \notin {"invalid", "error"}
=============================================================================
