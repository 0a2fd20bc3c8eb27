----------------------------- MODULE IngestQueue -----------------------------
(***************************************************************************)
(* The database-backed import queue of tracker_ingest_runtime as the       *)
(* workers of parser_worker drive it.  Every action is one committed       *)
(* database transaction.  PostgreSQL runs them READ COMMITTED, so a file   *)
(* transaction counts the jobs of its bundle without what others commit    *)
(* between its count and its own commit: late says what it missed.  Module *)
(* IngestRunner takes the same transactions apart into statements.         *)
(***************************************************************************)
EXTENDS Sequences, Functions, ImportJobs

CONSTANTS
  Workers,      \* runner threads
  MaxAttempts,  \* CHECK_MATE_INGEST_MAX_ATTEMPTS, 3 by default
  MaxCrashes    \* bound on the crashes explored

ASSUME FiniteAssumption == IsFiniteSet(Files) /\ IsFiniteSet(Bundles)
ASSUME BoundsAssumption == MaxAttempts \in Nat /\ MaxCrashes \in Nat

VARIABLES
  queueOrder,   \* ingest_bundles.queue_order; 0 before the bundle is enqueued
  jobStatus,    \* import_jobs.status
  errorCode,    \* import_jobs.error_code
  attempts,     \* the job_attempts rows of a job, by attempt_no
  bundleRow,    \* status, started_at and finished_at of an ingest_bundles row
  events,       \* the ingest_events of a bundle, by sequence_no
  persisted,    \* files whose parsed rows are in the core tables
  materialized, \* the files a bundle's last successful finalize covered
  held,         \* the ClaimedJob a worker is executing, or None
  heldAttempt,  \* its attempt_no
  late,         \* file jobs whose transaction was committed after the worker's counted
  overlapped,   \* history: bundles whose last file transaction missed another one
  crashes       \* crashes so far

tables == <<queueOrder, jobStatus, errorCode, attempts, bundleRow, events,
            persisted, materialized>>
vars == <<queueOrder, jobStatus, errorCode, attempts, bundleRow, events,
          persisted, materialized, held, heldAttempt, late, overlapped, crashes>>

-----------------------------------------------------------------------------
(* Reading the queue.                                                      *)

Enqueued(b) == queueOrder[b] > 0

(* The job table after propagate_dependency_failure.                       *)
Propagate(js, j) ==
  [i \in Jobs |-> IF i \in QueuedDependents(js, j) THEN "failed_terminal" ELSE js[i]]

(* Faults: running jobs are offered again; dependencies are ignored.       *)
ClaimableAgain == {j \in Jobs :
  /\ jobStatus[j] \in {"queued", "running"}
  /\ j \in Files => DependsOn[j] = None \/ jobStatus[DependsOn[j]] = "succeeded"}
ClaimableAlone == {j \in Jobs : jobStatus[j] = "queued"}

(* The jobs claim_next_job may take, and the order it takes them in.       *)
Claimable == {j \in Jobs :
  /\ jobStatus[j] = "queued"
  /\ j \in Files => DependsOn[j] = None \/ jobStatus[DependsOn[j]] = "succeeded"}

Precedes(i, j) ==
  LET bi == queueOrder[BundleFor(i)]
      bj == queueOrder[BundleFor(j)]
  IN \/ bi < bj
     \/ bi = bj /\ i \in Files /\ j \notin Files
     \/ bi = bj /\ i \in Files /\ j \in Files /\ FileOrder[i] < FileOrder[j]

NextJob(j) == j \in Claimable /\ \A i \in Claimable \ {j} : Precedes(j, i)

(* The jobs as a file transaction of worker w counts them, when js is how  *)
(* its commit leaves them: a job it missed still runs.                     *)
Counted(w, js) == [j \in Jobs |-> IF j \in late[w] THEN "running" ELSE js[j]]

(* refresh_bundle_status: the row is rewritten only when it differs.       *)
Refreshed(row, js, b) ==
  LET status == Derived(js, b)
  IN [status   |-> status,
      started  |-> row.started \/ status \in StartedBundleStatuses,
      finished |-> status \in TerminalBundleStatuses]

(* The rows maybe_enqueue_finalize_job writes when its guard holds of the  *)
(* jobs it counts.                                                         *)
WithFinalize(js, seen, b) == IF FinalizeDue(seen, b) THEN [js EXCEPT ![b] = "queued"] ELSE js
RowWithFinalize(row, seen, b) ==
  IF FinalizeDue(seen, b) THEN [row EXCEPT !.status = "finalizing"] ELSE row

-----------------------------------------------------------------------------
(* The ingest_events a transaction appends, with the payload status.       *)

FileEvent(js, f) == [kind |-> "file_updated", job |-> f, status |-> js[f]]
BundleEvent(kind, js, b) == [kind |-> kind, job |-> None, status |-> Derived(js, b)]
Diagnostic(f) == [kind |-> "diagnostic_logged", job |-> f, status |-> "dependency_failed"]

(* propagate_dependency_failure returns the dropped files in no particular *)
(* order.                                                                  *)
Returned(dropped) == Bijection(1..Cardinality(dropped), dropped)

(* emit_dependency_failed_events, in the order the files were returned.    *)
DependencyEvents(js, order) ==
  [k \in 1..(2 * Len(order)) |->
     IF k % 2 = 1 THEN Diagnostic(order[(k + 1) \div 2]) ELSE FileEvent(js, order[k \div 2])]

FinalizeEvents(seen, b) ==
  IF FinalizeDue(seen, b) THEN <<BundleEvent("bundle_updated", WithFinalize(seen, seen, b), b)>>
                          ELSE <<>>

-----------------------------------------------------------------------------
Init ==
  /\ queueOrder = [b \in Bundles |-> 0]
  /\ jobStatus = [j \in Jobs |-> "absent"]
  /\ errorCode = [j \in Jobs |-> "none"]
  /\ attempts = [j \in Jobs |-> <<>>]
  /\ bundleRow = [b \in Bundles |-> [status |-> "queued", started |-> FALSE, finished |-> FALSE]]
  /\ events = [b \in Bundles |-> <<>>]
  /\ persisted = {}
  /\ materialized = [b \in Bundles |-> {}]
  /\ held = [w \in Workers |-> None]
  /\ heldAttempt = [w \in Workers |-> 0]
  /\ late = [w \in Workers |-> {}]
  /\ overlapped = {}
  /\ crashes = 0

(* enqueue_bundle: queue_order comes from a sequence.                      *)
EnqueueBundle(b) ==
  /\ ~Enqueued(b)
  /\ LET js == [j \in Jobs |-> IF j \in FilesOf(b) THEN "queued" ELSE jobStatus[j]]
     IN /\ jobStatus' = js
        /\ events' = [events EXCEPT ![b] = <<BundleEvent("bundle_updated", js, b)>>]
  /\ queueOrder' = [queueOrder EXCEPT ![b] = 1 + Cardinality({c \in Bundles : Enqueued(c)})]
  /\ UNCHANGED <<errorCode, attempts, bundleRow, persisted, materialized, held,
                 heldAttempt, late, overlapped, crashes>>

(* claim_next_job, committed before the job is executed.  The stored       *)
(* status of the bundle is not refreshed here.                             *)
Claim(w) ==
  /\ held[w] = None
  /\ \E j \in Jobs :
       /\ NextJob(j)
       /\ LET js == [jobStatus EXCEPT ![j] = "running"]
              b == BundleFor(j)
          IN /\ jobStatus' = js
             /\ events' = IF j \in Files
                            THEN [events EXCEPT ![b] = @ \o
                                   <<FileEvent(js, j), BundleEvent("bundle_updated", js, b)>>]
                            ELSE events
       /\ attempts' = [attempts EXCEPT ![j] = Append(@, "running")]
       /\ held' = [held EXCEPT ![w] = j]
       /\ heldAttempt' = [heldAttempt EXCEPT ![w] = Len(attempts[j]) + 1]
  /\ UNCHANGED <<queueOrder, errorCode, bundleRow, persisted, materialized, late,
                 overlapped, crashes>>

(* What the end of an execution does to its attempt row and to the worker. *)
Close(w, outcome) ==
  /\ attempts' = [attempts EXCEPT ![held[w]][heldAttempt[w]] = outcome]
  /\ held' = [held EXCEPT ![w] = None]
  /\ heldAttempt' = [heldAttempt EXCEPT ![w] = 0]

(* Another worker with a file of bundle b may have counted the jobs by now *)
(* and then misses this commit, as it misses every later one.  It cannot   *)
(* while the bundle row still has to become "running": both transactions   *)
(* rewrite it before the count for the finalize job, and the second waits. *)
NoRowToWrite(b) == bundleRow[b] = [status |-> "running", started |-> TRUE, finished |-> FALSE]
MissedBySome(w, b) ==
  LET beside == {v \in Workers \ {w} : held[v] \in FilesOf(b)}
      behind == {v \in beside : late[v] # {}}
  IN \E counted \in SUBSET beside :
       /\ counted # {} => NoRowToWrite(b)
       /\ late' = [v \in Workers |->
                     IF v = w THEN {}
                     ELSE IF v \in counted \cup behind THEN late[v] \cup {held[w]} ELSE late[v]]
       /\ overlapped' = IF late[w] = {} THEN overlapped \ {b} ELSE overlapped \cup {b}

(* The persist transaction of a file job: its rows, mark_job_succeeded and *)
(* maybe_enqueue_finalize_job.                                             *)
FileSucceeds(w) ==
  LET f == held[w]
      b == BundleOf[f]
      done == [jobStatus EXCEPT ![f] = "succeeded"]
      seen == Counted(w, done)
  IN /\ f \in Files
     /\ jobStatus' = WithFinalize(done, seen, b)
     /\ bundleRow' = [bundleRow EXCEPT ![b] =
                        RowWithFinalize(Refreshed(@, seen, b), seen, b)]
     /\ events' = [events EXCEPT ![b] = @ \o <<FileEvent(done, f)>> \o FinalizeEvents(seen, b)]
     /\ persisted' = persisted \cup {f}
     /\ Close(w, "succeeded")
     /\ MissedBySome(w, b)
     /\ UNCHANGED <<queueOrder, errorCode, materialized, crashes>>

(* Fault: a failure for good leaves the dependent jobs alone.              *)
MarkedFailedAlone(j, disposition) == [jobStatus EXCEPT ![j] = disposition]

(* mark_job_failed, up to its refresh.                                     *)
MarkedFailed(j, disposition) ==
  LET failed == [jobStatus EXCEPT ![j] = disposition]
  IN IF j \in Files /\ disposition = "failed_terminal" THEN Propagate(failed, j) ELSE failed

(* Fault: one attempt too many.                                            *)
RetriedOnceMore(js, j) ==
  IF js[j] # "failed_retriable" THEN js
  ELSE IF Len(attempts[j]) > MaxAttempts
         THEN Propagate([js EXCEPT ![j] = "failed_terminal"], j)
         ELSE [js EXCEPT ![j] = "queued"]

(* retry_failed_job, up to its refresh.                                    *)
Retried(js, j) ==
  IF js[j] # "failed_retriable" THEN js
  ELSE IF Len(attempts[j]) >= MaxAttempts
         THEN Propagate([js EXCEPT ![j] = "failed_terminal"], j)
         ELSE [js EXCEPT ![j] = "queued"]

(* The files that go from queued to dropped between two job tables.        *)
Dropped(before, after) ==
  {f \in Files : before[f] = "queued" /\ after[f] = "failed_terminal"}

(* Fault: the requeued file is not announced.                              *)
RetryEventsOfBundle(js, seen, f, b) == <<BundleEvent("bundle_updated", seen, b)>>

RetryEvents(js, seen, f, b) == <<FileEvent(js, f), BundleEvent("bundle_updated", seen, b)>>

(* handle_split_job_failure for a file job.  Reading the stored upload may *)
(* be retried; a file that does not parse or persist is a terminal error.  *)
FileFails(w, disposition) ==
  LET f == held[w]
      b == BundleOf[f]
      failed == MarkedFailed(f, disposition)
      after == Retried(failed, f)
      seen == Counted(w, after)
      dropped == Dropped(jobStatus, after)
      retried == IF disposition = "failed_retriable" THEN RetryEvents(after, seen, f, b) ELSE <<>>
  IN /\ f \in Files
     /\ jobStatus' = WithFinalize(after, seen, b)
     /\ errorCode' = [j \in Jobs |-> IF j = f THEN "execution"
                                     ELSE IF j \in dropped THEN "dependency_failed"
                                     ELSE errorCode[j]]
     /\ bundleRow' = [bundleRow EXCEPT ![b] =
                        RowWithFinalize(Refreshed(Refreshed(@, Counted(w, failed), b), seen, b),
                                        seen, b)]
     /\ \E order \in Returned(dropped) :
          events' = [events EXCEPT ![b] =
                       @ \o <<FileEvent(failed, f)>> \o retried
                         \o DependencyEvents(after, order) \o FinalizeEvents(seen, b)]
     /\ Close(w, disposition)
     /\ MissedBySome(w, b)
     /\ UNCHANGED <<queueOrder, persisted, materialized, crashes>>

(* The finalize transaction: the materialized features of every file that  *)
(* is in the core tables, and mark_job_succeeded.                          *)
FinalizeSucceeds(w) ==
  LET b == held[w]
      done == [jobStatus EXCEPT ![b] = "succeeded"]
  IN /\ b \in Bundles
     /\ jobStatus' = done
     /\ bundleRow' = [bundleRow EXCEPT ![b] = Refreshed(@, done, b)]
     /\ events' = [events EXCEPT ![b] = Append(@, BundleEvent("bundle_terminal", done, b))]
     /\ materialized' = [materialized EXCEPT ![b] = FilesOf(b) \cap persisted]
     /\ Close(w, "succeeded")
     /\ UNCHANGED <<queueOrder, errorCode, persisted, late, overlapped, crashes>>

(* handle_split_job_failure for a finalize job: every error of             *)
(* finalize_bundle_split is retriable.                                     *)
FinalizeFails(w) ==
  LET b == held[w]
      failed == MarkedFailed(b, "failed_retriable")
      after == Retried(failed, b)
  IN /\ b \in Bundles
     /\ jobStatus' = after
     /\ errorCode' = [errorCode EXCEPT ![b] = "execution"]
     /\ bundleRow' = [bundleRow EXCEPT ![b] = Refreshed(Refreshed(@, failed, b), after, b)]
     /\ events' = [events EXCEPT ![b] = Append(@, BundleEvent("bundle_terminal", failed, b))]
     /\ Close(w, "failed_retriable")
     /\ UNCHANGED <<queueOrder, persisted, materialized, late, overlapped, crashes>>

(* A worker dies, or leaves its loop on a database error, after the claim  *)
(* was committed: no code ever takes the job back from "running".          *)
Crash(w) ==
  /\ crashes < MaxCrashes
  /\ held[w] # None
  /\ held' = [held EXCEPT ![w] = None]
  /\ heldAttempt' = [heldAttempt EXCEPT ![w] = 0]
  /\ late' = [late EXCEPT ![w] = {}]
  /\ crashes' = crashes + 1
  /\ UNCHANGED <<tables, overlapped>>

(* load_bundle_snapshot, for the HTTP and WebSocket readers, stores the    *)
(* status it derived.                                                      *)
LoadSnapshot(b) ==
  /\ Enqueued(b)
  /\ bundleRow' = [bundleRow EXCEPT ![b].status = Derived(jobStatus, b)]
  /\ UNCHANGED <<queueOrder, jobStatus, errorCode, attempts, events, persisted,
                 materialized, held, heldAttempt, late, overlapped, crashes>>

Execute(w) ==
  \/ FileSucceeds(w)
  \/ \E disposition \in {"failed_retriable", "failed_terminal"} : FileFails(w, disposition)
  \/ FinalizeSucceeds(w)
  \/ FinalizeFails(w)

Next ==
  \/ \E b \in Bundles : EnqueueBundle(b) \/ LoadSnapshot(b)
  \/ \E w \in Workers : Claim(w) \/ Execute(w) \/ Crash(w)

Spec == Init /\ [][Next]_vars

-----------------------------------------------------------------------------
(* Properties.                                                             *)

Started(f) == attempts[f] # <<>>
LastRow(j) == attempts[j][Len(attempts[j])]
Outstanding(b) == \E j \in FilesOf(b) \cup {b} : jobStatus[j] \in ActiveStatuses
AnySucceeded(b) == "succeeded" \in FileStatuses(jobStatus, b)

(* Every table of the queue and every worker keeps within its domain; what *)
(* the event log must say is the subject of the properties below.          *)
TypeOK ==
  /\ queueOrder \in [Bundles -> Nat]
  /\ jobStatus \in [Jobs -> JobStatuses \cup {"absent"}]
  /\ errorCode \in [Jobs -> {"none", "execution", "dependency_failed"}]
  /\ attempts \in [Jobs -> Seq(JobStatuses)]
  /\ bundleRow \in [Bundles -> [status : BundleStatuses, started : BOOLEAN, finished : BOOLEAN]]
  /\ persisted \subseteq Files
  /\ materialized \in [Bundles -> SUBSET Files]
  /\ held \in [Workers -> Jobs \cup {None}]
  /\ heldAttempt \in [Workers -> Nat]
  /\ late \in [Workers -> SUBSET Files]
  /\ overlapped \subseteq Bundles
  /\ crashes \in 0..MaxCrashes

(* The pair contract of the queue: whatever the number of workers, retries *)
(* and crashes, a file job that was ever claimed depends on nothing or on  *)
(* a job that had succeeded, and that success is never taken back.         *)
PairOrder ==
  \A f \in Files : Started(f) /\ DependsOn[f] # None => jobStatus[DependsOn[f]] = "succeeded"

(* The finalize job of a bundle exists only once every file job is done    *)
(* and at least one has rows to materialize: no file job runs beside it.   *)
FinalizeBarrier ==
  \A b \in Bundles : jobStatus[b] # "absent" =>
    FileStatuses(jobStatus, b) \subseteq TerminalStatuses /\ AnySucceeded(b)

(* A job is running exactly when its newest attempt row is; every older    *)
(* attempt failed retriably, and retries stop at MaxAttempts.              *)
AttemptLedger ==
  \A j \in Jobs :
    /\ \A i \in 1..(Len(attempts[j]) - 1) : attempts[j][i] = "failed_retriable"
    /\ jobStatus[j] = "running" <=> Started(j) /\ LastRow(j) = "running"
    /\ jobStatus[j] = "succeeded" => Started(j) /\ LastRow(j) = "succeeded"
    /\ jobStatus[j] = "queued" /\ Started(j) =>
         LastRow(j) = "failed_retriable" /\ Len(attempts[j]) < MaxAttempts
    /\ Len(attempts[j]) <= MaxAttempts \/ Len(attempts[j]) <= 1

(* No two workers execute one job, and a worker's claim is the attempt the *)
(* job table shows: mark_job_* checks neither before it overwrites.        *)
ExclusiveClaim ==
  \A w \in Workers : held[w] # None =>
    /\ jobStatus[held[w]] = "running"
    /\ Started(held[w]) /\ heldAttempt[w] = Len(attempts[held[w]])
    /\ \A v \in Workers \ {w} : held[v] # held[w]

(* A file is dropped with dependency_failed exactly when the job it waits  *)
(* for failed for good, and it is dropped without ever having been tried:  *)
(* no dependent is left waiting for a job that cannot succeed any more.    *)
DependentsFollow ==
  \A f \in Files :
    /\ DependsOn[f] # None /\ jobStatus[DependsOn[f]] = "failed_terminal" =>
         jobStatus[f] = "failed_terminal" /\ errorCode[f] = "dependency_failed"
    /\ errorCode[f] = "dependency_failed" =>
         /\ ~Started(f)
         /\ DependsOn[f] # None
         /\ jobStatus[DependsOn[f]] = "failed_terminal"

(* The finalize job of the bundle is due and nobody will insert it: the    *)
(* transaction that ended its last file counted another one as running.    *)
FinalizeLost(b) == FinalizeDue(jobStatus, b) /\ b \in overlapped

(* A bundle with files is reported as over only when nothing is            *)
(* outstanding and, if any file came in, its finalize has run; the only    *)
(* way to a report without a finalize is that two transactions overlapped, *)
(* which module IngestRunner shows.                                        *)
HonestTerminal ==
  \A b \in Bundles :
    Enqueued(b) /\ Derived(jobStatus, b) \in TerminalBundleStatuses =>
      /\ ~Outstanding(b)
      /\ AnySucceeded(b) => jobStatus[b] \in TerminalStatuses \/ FinalizeLost(b)

(* The places of a log that tell of file f, and the last status they give. *)
FileNews(log, f) == {i \in DOMAIN log : log[i].kind = "file_updated" /\ log[i].job = f}
Says(log, f, status) ==
  \E i \in FileNews(log, f) :
    log[i].status = status /\ \A k \in FileNews(log, f) : k <= i

(* Replaying the event log gives every file the status its job has; a file *)
(* of which it does not tell was never claimed.                            *)
Replays(log, f, status) ==
  Says(log, f, status) \/ (FileNews(log, f) = {} /\ status \in {"absent", "queued"})
LogReplaysFiles ==
  \A b \in Bundles : \A f \in FilesOf(b) : Replays(events[b], f, jobStatus[f])

(* A job that reached a terminal status never leaves it, whatever a late   *)
(* worker, a retry or a propagation does.                                  *)
TerminalIsFinal ==
  [][\A j \in Jobs : jobStatus[j] \in TerminalStatuses => jobStatus'[j] = jobStatus[j]]_vars

(* Nothing is forgotten: when no worker has a job and none finds one to    *)
(* claim, every enqueued bundle is settled, each file job ended and, if    *)
(* one succeeded, the finalize job too.  Only a job whose worker died may  *)
(* keep its own bundle open, never another one, and only two transactions  *)
(* that overlapped may leave a bundle without its finalize.                *)
Settled(b) ==
  /\ FileStatuses(jobStatus, b) \subseteq TerminalStatuses
  /\ AnySucceeded(b) => jobStatus[b] \in TerminalStatuses
Orphaned(b) ==
  \E j \in FilesOf(b) \cup {b} :
    jobStatus[j] = "running" /\ \A w \in Workers : held[w] # j
Quiet == Claimable = {} /\ \A w \in Workers : held[w] = None
NothingForgotten ==
  Quiet => \A b \in Bundles : Enqueued(b) => Settled(b) \/ Orphaned(b) \/ FinalizeLost(b)

-----------------------------------------------------------------------------
(* The inductive invariant of module IngestQueueProofs.                    *)

(* A file job has a row exactly when its bundle is enqueued.               *)
RowsFollowBundle ==
  \A f \in Files : jobStatus[f] = "absent" <=> ~Enqueued(BundleOf[f])

(* The safety core of the queue, strong enough to be preserved by every    *)
(* transaction: rows follow bundles, claims are exclusive, pairs run in    *)
(* order and finalize jobs only after their barrier.                       *)
IInv ==
  /\ TypeOK
  /\ RowsFollowBundle
  /\ ExclusiveClaim
  /\ PairOrder
  /\ FinalizeBarrier

(* The second invariant of module IngestQueueProofs adds what becomes      *)
(* of the files: no job rests in failed_retriable, a job without a row was *)
(* never tried, a file that failed for good was tried or dropped, the      *)
(* finalize job is there as soon as it is due unless it was lost, and the  *)
(* core tables hold exactly the files whose jobs succeeded.                *)
NothingRetriable == \A j \in Jobs : jobStatus[j] # "failed_retriable"
AbsentIsUntried == \A j \in Jobs : jobStatus[j] = "absent" => ~Started(j)
FailureHasReason ==
  \A f \in Files : jobStatus[f] = "failed_terminal" =>
    Started(f) \/ errorCode[f] = "dependency_failed"
FinalizeFollows == \A b \in Bundles : FinalizeDue(jobStatus, b) => FinalizeLost(b)
PersistedSucceeded == \A f \in Files : f \in persisted <=> jobStatus[f] = "succeeded"

OutcomeInv ==
  /\ IInv
  /\ NothingRetriable
  /\ AbsentIsUntried
  /\ AttemptLedger
  /\ FailureHasReason
  /\ DependentsFollow
  /\ FinalizeFollows
  /\ PersistedSucceeded

-----------------------------------------------------------------------------
(* The queue implements the promise of module BundleImport.                *)

ImportOutcome == [f \in Files |->
  IF f \in persisted THEN "imported"
  ELSE IF jobStatus[f] = "failed_terminal" THEN "dropped" ELSE "pending"]
RefreshOutcome == [b \in Bundles |->
  CASE jobStatus[b] = "succeeded" -> "done"
    [] jobStatus[b] = "failed_terminal" -> "abandoned"
    [] OTHER -> "pending"]

Promise == INSTANCE BundleImport WITH
  outcome <- ImportOutcome, refresh <- RefreshOutcome, covered <- materialized

(* Every committed transaction is a step of the promise or changes nothing *)
(* in it: no file comes into the core tables twice, before its dependency  *)
(* or after the refresh, and the refresh covers what came in.              *)
KeepsPromise == Promise!Spec

-----------------------------------------------------------------------------
(* What tests and texts of the repository say and the code does not do.    *)

(* compute_bundle_status and its unit test: a bundle whose finalize failed *)
(* for good is "failed".                                                   *)
FinalizeFailureFailsBundle ==
  \A b \in Bundles : jobStatus[b] = "failed_terminal" =>
    Derived(jobStatus, b) =
      ComputeBundleStatus(FileStatuses(jobStatus, b), ReadinessOf(jobStatus[b]))

(* A bundle_terminal event fixes the final status of the bundle.           *)
TerminalEventIsFinal ==
  \A b \in Bundles : \A i \in DOMAIN events[b] :
    events[b][i].kind = "bundle_terminal" => events[b][i].status \in TerminalBundleStatuses
=============================================================================
