---------------------------- MODULE BundleStatus ----------------------------
(***************************************************************************)
(* The status of an import bundle, as tracker_ingest_runtime computes it.  *)
(* The code counts the bundle's file jobs per status and compares every    *)
(* count with zero, so a bundle is described here by the set of statuses   *)
(* its file jobs have and by the status of its finalize job, which is      *)
(* "absent" until maybe_enqueue_finalize_job inserts it.                   *)
(***************************************************************************)

JobStatuses == {"queued", "running", "succeeded", "failed_retriable", "failed_terminal"}
ActiveStatuses == {"queued", "running", "failed_retriable"}
TerminalStatuses == {"succeeded", "failed_terminal"}

TerminalBundleStatuses == {"succeeded", "partial_success", "failed"}
BundleStatuses == {"queued", "running", "finalizing"} \cup TerminalBundleStatuses

(* Statuses in which refresh_bundle_status keeps started_at filled in.     *)
StartedBundleStatuses == BundleStatuses \ {"queued"}

(* Fault: the finalize job is not looked at.                               *)
DeriveFromFiles(files, finalize) ==
  IF files \cap {"running", "failed_retriable"} # {} THEN "running"
  ELSE IF "queued" \in files THEN "queued"
  ELSE IF TerminalStatuses \subseteq files THEN "partial_success"
  ELSE IF "succeeded" \in files THEN "succeeded"
  ELSE "failed"

(***************************************************************************)
(* derive_bundle_status_from_counts: what every reader of the queue sees.  *)
(* files is the set of statuses of the file jobs, finalize the status of   *)
(* the finalize job or "absent".                                           *)
(***************************************************************************)
DeriveBundleStatus(files, finalize) ==
  IF finalize \in ActiveStatuses THEN "finalizing"
  ELSE IF files \cap {"running", "failed_retriable"} # {} THEN "running"
  ELSE IF "queued" \in files THEN "queued"
  ELSE IF TerminalStatuses \subseteq files THEN "partial_success"
  ELSE IF "succeeded" \in files THEN "succeeded"
  ELSE IF "failed_terminal" \in files \/ finalize # "absent" THEN "failed"
  ELSE "queued"

(***************************************************************************)
(* compute_bundle_status: the status contract the unit tests state.  It    *)
(* takes the readiness of the finalize job instead of its row.             *)
(***************************************************************************)
Readiness == {"NotReady", "Ready", "Completed", "Failed"}

ComputeBundleStatus(files, readiness) ==
  IF readiness = "Failed" THEN "failed"
  ELSE IF files \cap ActiveStatuses # {} THEN "running"
  ELSE IF readiness = "Ready" THEN "finalizing"
  ELSE IF readiness = "NotReady" THEN "queued"
  ELSE IF TerminalStatuses \subseteq files THEN "partial_success"
  ELSE IF "succeeded" \in files THEN "succeeded"
  ELSE "failed"

(* The readiness a row of the finalize job stands for.                     *)
ReadinessOf(finalize) ==
  CASE finalize = "succeeded" -> "Completed"
    [] finalize = "failed_terminal" -> "Failed"
    [] finalize \in ActiveStatuses -> "Ready"
    [] OTHER -> "NotReady"
=============================================================================
