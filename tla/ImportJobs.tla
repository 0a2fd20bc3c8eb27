----------------------------- MODULE ImportJobs -----------------------------
(***************************************************************************)
(* The import jobs as enqueue_bundle leaves them, and what the statements  *)
(* of tracker_ingest_runtime read off a table of their statuses.           *)
(*                                                                         *)
(* A bundle is a user's upload.  It has one file_ingest job per executable *)
(* member and, once maybe_enqueue_finalize_job inserts it, one             *)
(* bundle_finalize job: the unique index of migration 0021 allows one, so  *)
(* the finalize job of bundle b is named b and has status "absent" until   *)
(* then.  The stage column is a function of kind and status and left out.  *)
(***************************************************************************)
EXTENDS Integers, FiniteSets, BundleStatus

CONSTANTS
  Files,        \* file_ingest jobs, one per executable member
  Bundles,      \* bundles, and so their finalize jobs
  None,         \* no job
  BundleOf,     \* the bundle of every file job
  DependsOn,    \* depends_on_job_id of every file job, or None
  FileOrder     \* file_order_index

ASSUME BundleOfAssumption == BundleOf \in [Files -> Bundles]
ASSUME DependsOnAssumption == DependsOn \in [Files -> Files \cup {None}]
ASSUME NamesAssumption == Files \cap Bundles = {} /\ None \notin Files \cup Bundles
(* enqueue_bundle resolves a dependency among the earlier members of the   *)
(* same source file only.                                                  *)
ASSUME EarlierMemberAssumption ==
  /\ FileOrder \in [Files -> Nat]
  /\ \A f \in Files : DependsOn[f] # None =>
       /\ BundleOf[DependsOn[f]] = BundleOf[f]
       /\ FileOrder[DependsOn[f]] < FileOrder[f]

Jobs == Files \cup Bundles
FilesOf(b) == {f \in Files : BundleOf[f] = b}
BundleFor(j) == IF j \in Files THEN BundleOf[j] ELSE j

-----------------------------------------------------------------------------
(* js stands for the job statuses a transaction sees.                      *)

FileStatuses(js, b) == {js[f] : f \in FilesOf(b)}
Derived(js, b) == DeriveBundleStatus(FileStatuses(js, b), js[b])

(* The queued jobs that wait for job j, directly or through other queued   *)
(* jobs: the recursive query of propagate_dependency_failure.              *)
QueuedDependents(js, j) ==
  LET Queued == {f \in Files : js[f] = "queued"}
      Closed(S) == \A f \in Queued : DependsOn[f] \in S \cup {j} => f \in S
  IN {f \in Queued : \A S \in SUBSET Queued : Closed(S) => f \in S}

(* Faults: running files do not hold the finalize back; nor does the lack  *)
(* of a file to materialize; a file that failed does.                      *)
FinalizeDueEarly(js, b) ==
  "queued" \notin FileStatuses(js, b) /\ js[b] = "absent" /\ "succeeded" \in FileStatuses(js, b)
FinalizeDueAlways(js, b) ==
  FileStatuses(js, b) \cap ActiveStatuses = {} /\ js[b] = "absent"
FinalizeDueWhole(js, b) == FileStatuses(js, b) = {"succeeded"} /\ js[b] = "absent"

(* The guard of maybe_enqueue_finalize_job.                                *)
FinalizeDue(js, b) ==
  /\ FileStatuses(js, b) \cap ActiveStatuses = {}
  /\ js[b] = "absent"
  /\ "succeeded" \in FileStatuses(js, b)
=============================================================================
