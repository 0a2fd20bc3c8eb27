---------------------------- MODULE IngestRunner ----------------------------
(***************************************************************************)
(* The transactions of IngestQueue taken apart into the SQL statements     *)
(* that can interleave: run_next_job_split_tx runs them on READ COMMITTED, *)
(* where a statement sees what was committed when it began plus what its   *)
(* own transaction wrote, and an UPDATE of a row another transaction wrote *)
(* waits for that transaction to end.                                      *)
(*                                                                         *)
(* The bundles are enqueued when the behaviour begins and the event log is *)
(* left to IngestQueue: no statement of these transactions reads it.       *)
(***************************************************************************)
EXTENDS Sequences, ImportJobs

CONSTANTS
  Workers,      \* runner threads
  Readers,      \* web requests that load a bundle snapshot
  BundleOrder,  \* ingest_bundles.queue_order
  MaxAttempts,  \* CHECK_MATE_INGEST_MAX_ATTEMPTS, 3 by default
  MaxCrashes,   \* bound on the crashes explored
  MaxReads      \* bound on the snapshots loaded

(* run_ingest_runner_parallel refuses to start without a worker.           *)
ASSUME SessionsAssumption == Workers # {} /\ Workers \cap Readers = {}
ASSUME BoundsAssumption == MaxAttempts \in Nat /\ MaxCrashes \in Nat /\ MaxReads \in Nat

Sessions == Workers \cup Readers

VARIABLES
  jobStatus,    \* import_jobs.status, committed
  attempts,     \* how many job_attempts rows a job has, committed
  bundleRow,    \* the ingest_bundles row, committed
  materialized, \* the files the last committed finalize covered
  txJobs,       \* job statuses written by the open transaction of a session
  txRow,        \* bundle rows written by it
  script,       \* the statements the session has still to execute
  held,         \* the job a worker claimed, the bundle a reader reads, or None
  seen,         \* what earlier statements of the session returned
  stopped,      \* workers that left their loop because nothing was claimable
  crashes, reads

vars == <<jobStatus, attempts, bundleRow, materialized, txJobs, txRow, script,
          held, seen, stopped, crashes, reads>>

(* The rows a transaction wrote hide the committed ones.                   *)
Row(key, value) == [k \in {key} |-> value]
Over(written, table) ==
  [k \in DOMAIN written \cup DOMAIN table |->
     IF k \in DOMAIN written THEN written[k] ELSE table[k]]

Empty == [k \in {} |-> None]
NothingSeen == [stored |-> None, derived |-> "queued", loaded |-> {}]

-----------------------------------------------------------------------------
(* What a session sees, and what locks keep it waiting.                    *)

JobsSeen(p) == Over(txJobs[p], jobStatus)
RowSeen(p, b) == Over(txRow[p], bundleRow)[b]

JobLocked(j) == \E p \in Sessions : j \in DOMAIN txJobs[p]
RowLockedByOther(p, b) == \E q \in Sessions \ {p} : b \in DOMAIN txRow[q]

(* Statements of the transactions, in program order.                       *)
Refresh == <<"readStored", "readCounts", "storeStatus">>
EnqueueFinalize == <<"checkDue", "insertFinalize", "storeFinalizing">>
FileDone == Refresh \o EnqueueFinalize \o <<"commit">>
FileRetried == Refresh \o <<"retry">> \o FileDone
FinalizeDone == Refresh \o Refresh \o <<"commit">>
FinalizeRetried == Refresh \o <<"retry">> \o Refresh \o <<"commit">>

-----------------------------------------------------------------------------
Init ==
  /\ jobStatus = [j \in Jobs |-> IF j \in Files THEN "queued" ELSE "absent"]
  /\ attempts = [j \in Jobs |-> 0]
  /\ bundleRow = [b \in Bundles |-> [status |-> "queued", started |-> FALSE, finished |-> FALSE]]
  /\ materialized = [b \in Bundles |-> {}]
  /\ txJobs = [p \in Sessions |-> Empty]
  /\ txRow = [p \in Sessions |-> Empty]
  /\ script = [p \in Sessions |-> <<>>]
  /\ held = [p \in Sessions |-> None]
  /\ seen = [p \in Sessions |-> NothingSeen]
  /\ stopped = {}
  /\ crashes = 0
  /\ reads = 0

Idle(p) == script[p] = <<>> /\ held[p] = None

(* Faults: the rows of other claims are not locked; dependencies are       *)
(* ignored.                                                                *)
ClaimableUnlocked == {j \in Jobs :
  /\ jobStatus[j] = "queued"
  /\ j \in Files => DependsOn[j] = None \/ jobStatus[DependsOn[j]] = "succeeded"}
ClaimableAlone == {j \in Jobs : jobStatus[j] = "queued" /\ ~JobLocked(j)}

(* claim_next_job: FOR UPDATE ... SKIP LOCKED passes over the rows other   *)
(* transactions wrote.                                                     *)
Claimable == {j \in Jobs :
  /\ jobStatus[j] = "queued"
  /\ ~JobLocked(j)
  /\ j \in Files => DependsOn[j] = None \/ jobStatus[DependsOn[j]] = "succeeded"}

Precedes(i, j) ==
  LET bi == BundleOrder[BundleFor(i)]
      bj == BundleOrder[BundleFor(j)]
  IN \/ bi < bj
     \/ bi = bj /\ i \in Files /\ j \notin Files
     \/ bi = bj /\ i \in Files /\ j \in Files /\ FileOrder[i] < FileOrder[j]

Claim(w) ==
  /\ Idle(w) /\ w \notin stopped
  /\ \E j \in Claimable :
       /\ \A i \in Claimable \ {j} : Precedes(j, i)
       /\ txJobs' = [txJobs EXCEPT ![w] = Row(j, "running")]
       /\ held' = [held EXCEPT ![w] = j]
  /\ script' = [script EXCEPT ![w] = <<"commit">>]
  /\ UNCHANGED <<jobStatus, attempts, bundleRow, materialized, txRow, seen, stopped, crashes, reads>>

(* run_ingest_runner_worker leaves its loop when nothing was claimed, and  *)
(* drain_once calls the workers again when all of them have.               *)
Stop(w) ==
  /\ Idle(w) /\ w \notin stopped /\ Claimable = {}
  /\ stopped' = stopped \cup {w}
  /\ UNCHANGED <<jobStatus, attempts, bundleRow, materialized, txJobs, txRow, script,
                 held, seen, crashes, reads>>

Drain ==
  /\ stopped = Workers
  /\ stopped' = {}
  /\ UNCHANGED <<jobStatus, attempts, bundleRow, materialized, txJobs, txRow, script,
                 held, seen, crashes, reads>>

Executing(w) == w \in Workers /\ held[w] # None /\ script[w] = <<>>

(* Fault: dependent jobs stay queued.                                      *)
FailedWritesAlone(js, j, status) == Row(j, status)

FailedWrites(js, j, status) ==
  LET dropped == IF status = "failed_terminal" THEN QueuedDependents(js, j) ELSE {}
  IN [i \in {j} \cup dropped |-> IF i = j THEN status ELSE "failed_terminal"]

(* The transaction a worker opens when the execution of its job ended: the *)
(* first statements of mark_job_succeeded or mark_job_failed.  What a      *)
(* finalize materializes it has read from the core tables before.          *)
Begin(w, writes, statements) ==
  /\ Executing(w)
  /\ txJobs' = [txJobs EXCEPT ![w] = writes]
  /\ script' = [script EXCEPT ![w] = statements]
  /\ UNCHANGED <<jobStatus, attempts, bundleRow, materialized, txRow, held, stopped, crashes, reads>>

Imported(b) == {f \in FilesOf(b) : jobStatus[f] = "succeeded"}

Succeed(w) ==
  /\ Begin(w, Row(held[w], "succeeded"), IF held[w] \in Files THEN FileDone ELSE FinalizeDone)
  /\ seen' = [seen EXCEPT ![w].loaded = Imported(BundleFor(held[w]))]

Fail(w, disposition) ==
  /\ held[w] \in Bundles => disposition = "failed_retriable"
  /\ Begin(w, FailedWrites(jobStatus, held[w], disposition),
           IF held[w] \in Bundles THEN FinalizeRetried
           ELSE IF disposition = "failed_retriable" THEN FileRetried
           ELSE FileDone)
  /\ UNCHANGED seen

-----------------------------------------------------------------------------
(* The statements.                                                         *)

At(p, statement) == script[p] # <<>> /\ Head(script[p]) = statement
Advance(p) == script' = [script EXCEPT ![p] = Tail(@)]
Subject(p) == BundleFor(held[p])

ReadStored(p) ==
  /\ At(p, "readStored")
  /\ seen' = [seen EXCEPT ![p].stored = RowSeen(p, Subject(p))]
  /\ Advance(p)
  /\ UNCHANGED <<jobStatus, attempts, bundleRow, materialized, txJobs, txRow, held, stopped, crashes, reads>>

ReadCounts(p) ==
  /\ At(p, "readCounts")
  /\ seen' = [seen EXCEPT ![p].derived = Derived(JobsSeen(p), Subject(p))]
  /\ Advance(p)
  /\ UNCHANGED <<jobStatus, attempts, bundleRow, materialized, txJobs, txRow, held, stopped, crashes, reads>>

(* refresh_bundle_status writes the row, and so locks it, only when it is  *)
(* not yet what the counts ask for.                                        *)
NeedsUpdate(stored, status) ==
  \/ stored.status # status
  \/ status \in StartedBundleStatuses /\ ~stored.started
  \/ (status \in TerminalBundleStatuses) # stored.finished

StoreStatus(w) ==
  LET b == Subject(w)
      status == seen[w].derived
  IN /\ w \in Workers /\ At(w, "storeStatus")
     /\ IF NeedsUpdate(seen[w].stored, status)
          THEN /\ ~RowLockedByOther(w, b)
               /\ txRow' = [txRow EXCEPT ![w] = Row(b,
                    [status   |-> status,
                     started  |-> RowSeen(w, b).started \/ status \in StartedBundleStatuses,
                     finished |-> status \in TerminalBundleStatuses])]
          ELSE UNCHANGED txRow
     /\ Advance(w)
     /\ UNCHANGED <<jobStatus, attempts, bundleRow, materialized, txJobs, held, seen,
                    stopped, crashes, reads>>

RetryOutcome(j) == IF attempts[j] >= MaxAttempts THEN "failed_terminal" ELSE "queued"

(* retry_failed_job, up to its refresh.                                    *)
Retry(w) ==
  LET j == held[w]
  IN /\ At(w, "retry")
     /\ txJobs' = [txJobs EXCEPT ![w] = Over(FailedWrites(JobsSeen(w), j, RetryOutcome(j)), @)]
     /\ Advance(w)
     /\ UNCHANGED <<jobStatus, attempts, bundleRow, materialized, txRow, held, seen,
                    stopped, crashes, reads>>

(* maybe_enqueue_finalize_job.                                             *)
CheckDue(w) ==
  /\ At(w, "checkDue")
  /\ IF FinalizeDue(JobsSeen(w), Subject(w)) THEN Advance(w)
     ELSE script' = [script EXCEPT ![w] = <<"commit">>]
  /\ UNCHANGED <<jobStatus, attempts, bundleRow, materialized, txJobs, txRow, held, seen,
                 stopped, crashes, reads>>

(* The unique index makes an insert wait for an uncommitted one.           *)
InsertFinalize(w) ==
  LET b == Subject(w)
  IN /\ At(w, "insertFinalize")
     /\ ~JobLocked(b)
     /\ jobStatus[b] = "absent"
     /\ txJobs' = [txJobs EXCEPT ![w] = Over(Row(b, "queued"), @)]
     /\ Advance(w)
     /\ UNCHANGED <<jobStatus, attempts, bundleRow, materialized, txRow, held, seen,
                    stopped, crashes, reads>>

StoreFinalizing(w) ==
  LET b == Subject(w)
  IN /\ At(w, "storeFinalizing")
     /\ ~RowLockedByOther(w, b)
     /\ txRow' = [txRow EXCEPT ![w] =
                    Row(b, [RowSeen(w, b) EXCEPT !.status = "finalizing"])]
     /\ Advance(w)
     /\ UNCHANGED <<jobStatus, attempts, bundleRow, materialized, txJobs, held, seen,
                    stopped, crashes, reads>>

(* A worker keeps the job whose claim it commits and lets go of the job    *)
(* whose end it commits.                                                   *)
Commit(w) ==
  LET j == held[w]
      claimed == txJobs[w][j] = "running"
  IN /\ At(w, "commit")
     /\ jobStatus' = Over(txJobs[w], jobStatus)
     /\ bundleRow' = Over(txRow[w], bundleRow)
     /\ attempts' = IF claimed THEN [attempts EXCEPT ![j] = @ + 1] ELSE attempts
     /\ materialized' = IF j \in Bundles /\ txJobs[w][j] = "succeeded"
                          THEN [materialized EXCEPT ![j] = seen[w].loaded]
                          ELSE materialized
     /\ held' = IF claimed THEN held ELSE [held EXCEPT ![w] = None]
     /\ txJobs' = [txJobs EXCEPT ![w] = Empty]
     /\ txRow' = [txRow EXCEPT ![w] = Empty]
     /\ script' = [script EXCEPT ![w] = <<>>]
     /\ seen' = [seen EXCEPT ![w] = NothingSeen]
     /\ UNCHANGED <<stopped, crashes, reads>>

(* The process dies or a statement fails: PostgreSQL rolls the open        *)
(* transaction back, and the claim stays committed if it was.              *)
Crash(w) ==
  /\ crashes < MaxCrashes
  /\ held[w] # None
  /\ crashes' = crashes + 1
  /\ held' = [held EXCEPT ![w] = None]
  /\ script' = [script EXCEPT ![w] = <<>>]
  /\ txJobs' = [txJobs EXCEPT ![w] = Empty]
  /\ txRow' = [txRow EXCEPT ![w] = Empty]
  /\ seen' = [seen EXCEPT ![w] = NothingSeen]
  /\ UNCHANGED <<jobStatus, attempts, bundleRow, materialized, stopped, reads>>

(* load_bundle_snapshot of a web request: the same two reads, each         *)
(* statement a transaction of its own, and an UPDATE of the status alone.  *)
LoadSnapshot(r, b) ==
  /\ Idle(r) /\ reads < MaxReads
  /\ reads' = reads + 1
  /\ held' = [held EXCEPT ![r] = b]
  /\ script' = [script EXCEPT ![r] = Refresh]
  /\ UNCHANGED <<jobStatus, attempts, bundleRow, materialized, txJobs, txRow, seen, stopped, crashes>>

StoreDerived(r) ==
  LET b == held[r]
  IN /\ r \in Readers /\ At(r, "storeStatus")
     /\ IF seen[r].stored.status # seen[r].derived
          THEN /\ ~RowLockedByOther(r, b)
               /\ bundleRow' = [bundleRow EXCEPT ![b].status = seen[r].derived]
          ELSE UNCHANGED bundleRow
     /\ Advance(r)
     /\ held' = [held EXCEPT ![r] = None]
     /\ seen' = [seen EXCEPT ![r] = NothingSeen]
     /\ UNCHANGED <<jobStatus, attempts, materialized, txJobs, txRow, stopped, crashes, reads>>

Statement(p) ==
  \/ ReadStored(p) \/ ReadCounts(p) \/ StoreStatus(p) \/ Retry(p) \/ CheckDue(p)
  \/ InsertFinalize(p) \/ StoreFinalizing(p) \/ Commit(p) \/ StoreDerived(p)

Next ==
  \/ Drain
  \/ \E w \in Workers :
       \/ Claim(w) \/ Stop(w) \/ Succeed(w) \/ Crash(w)
       \/ \E disposition \in {"failed_retriable", "failed_terminal"} : Fail(w, disposition)
  \/ \E p \in Sessions : Statement(p)
  \/ \E r \in Readers, b \in Bundles : LoadSnapshot(r, b)

Spec == Init /\ [][Next]_vars

-----------------------------------------------------------------------------
(* Properties.                                                             *)

(* No two workers hold one job, although each decides on rows the others   *)
(* may have claimed and not yet committed.                                 *)
ExclusiveClaim ==
  \A v, w \in Workers : v # w /\ held[v] # None => held[v] # held[w]

(* Nobody waits for a session that waits itself, so that no ring of waits  *)
(* of any length can close and every wait ends: bundle rows and the        *)
(* finalize index are taken in no order.                                   *)
Waits(p, q) ==
  /\ p # q
  /\ \/ /\ \/ At(p, "storeStatus") /\ NeedsUpdate(seen[p].stored, seen[p].derived)
           \/ At(p, "storeFinalizing")
        /\ Subject(p) \in DOMAIN txRow[q]
     \/ At(p, "insertFinalize") /\ Subject(p) \in DOMAIN txJobs[q]
NoLockCycle == \A p, q, r \in Sessions : ~(Waits(p, q) /\ Waits(q, r))

(* The insert of a finalize job never meets the one another worker made:   *)
(* the unique index would abort the transaction of a finished file job and *)
(* leave the job running for ever.                                         *)
OneFinalizeInsert ==
  \A w \in Workers : At(w, "insertFinalize") =>
    jobStatus[Subject(w)] = "absent" /\ ~JobLocked(Subject(w))

(* When the runner drained the queue and no worker crashed, every file job *)
(* of every bundle has ended: no worker left while a dependent file was    *)
(* still to become claimable without another worker coming back for it.    *)
DrainCompletes ==
  stopped = Workers /\ crashes = 0 =>
    \A j \in Jobs : jobStatus[j] \in TerminalStatuses \cup {"absent"}

-----------------------------------------------------------------------------
(* The inductive invariant.                                                *)

BundleRows == [status : BundleStatuses, started : BOOLEAN, finished : BOOLEAN]
RefreshStatements == {"readStored", "readCounts", "storeStatus"}
Statements == RefreshStatements \cup {"retry", "checkDue", "insertFinalize", "storeFinalizing", "commit"}

Written(p) == DOMAIN txJobs[p]

TypeOK ==
  /\ jobStatus \in [Jobs -> JobStatuses \cup {"absent"}]
  /\ attempts \in [Jobs -> Nat]
  /\ bundleRow \in [Bundles -> BundleRows]
  /\ materialized \in [Bundles -> SUBSET Files]
  /\ DOMAIN txJobs = Sessions /\ DOMAIN txRow = Sessions
  /\ \A p \in Sessions :
       /\ Written(p) \subseteq Jobs /\ txJobs[p] \in [Written(p) -> JobStatuses]
       /\ DOMAIN txRow[p] \subseteq Bundles /\ txRow[p] \in [DOMAIN txRow[p] -> BundleRows]
  /\ script \in [Sessions -> Seq(Statements)]
  /\ held \in [Sessions -> Jobs \cup {None}]
  /\ seen \in [Sessions -> [stored : BundleRows \cup {None}, derived : BundleStatuses,
                            loaded : SUBSET Files]]
  /\ stopped \subseteq Workers /\ crashes \in Nat /\ reads \in Nat

(* The job may start: what it depends on is imported.                      *)
Unblocked(f) == DependsOn[f] = None \/ jobStatus[DependsOn[f]] = "succeeded"

(* js stands for the job statuses a session sees.                          *)
BarrierMet(js, b) ==
  FileStatuses(js, b) \subseteq TerminalStatuses /\ "succeeded" \in FileStatuses(js, b)

(* Where a worker is in its transaction: a transaction ends with its       *)
(* commit, it retries before anything but a refresh, and inserts a         *)
(* finalize job only right after it looked whether one is due.             *)
InProgram(w) ==
  LET s == script[w]
  IN /\ s # <<>> => held[w] # None
     /\ \A i \in 1..Len(s) :
          /\ s[i] = "commit" <=> i = Len(s)
          /\ s[i] = "retry" => \A k \in 1..(i - 1) : s[k] \in RefreshStatements
          /\ s[i] = "insertFinalize" /\ i > 1 => s[i - 1] = "checkDue"
          /\ s[i] \in {"checkDue", "insertFinalize"} => held[w] \in Files

(* What the open transaction of a worker wrote of job i: a claim, the end  *)
(* of the job it executed, a file dropped with that job, or the finalize   *)
(* job of its bundle.                                                      *)
Claims(w, i) ==
  /\ i = held[w] /\ Written(w) = {i} /\ script[w] = <<"commit">>
  /\ txJobs[w][i] = "running" /\ jobStatus[i] = "queued"
  /\ i \in Files => Unblocked(i)
Ends(w, i) ==
  /\ i = held[w] /\ jobStatus[i] = "running" /\ txJobs[w][i] # "running"
  /\ txJobs[w][i] = "failed_retriable" => Written(w) = {i}
DropsWith(w, i) ==
  /\ held[w] \in Files /\ i \in Files \ {held[w]}
  /\ jobStatus[i] = "queued" /\ DependsOn[i] \in Written(w)
  /\ txJobs[w][i] = "failed_terminal" /\ txJobs[w][held[w]] = "failed_terminal"
Inserts(w, i) ==
  /\ held[w] \in Files /\ i = BundleOf[held[w]]
  /\ jobStatus[i] = "absent" /\ txJobs[w][i] = "queued" /\ BarrierMet(JobsSeen(w), i)

InTransaction(w) ==
  /\ script[w] = <<>> => Written(w) = {} /\ DOMAIN txRow[w] = {}
  /\ script[w] # <<>> => held[w] \in Written(w)
  /\ held[w] # None /\ script[w] = <<>> => jobStatus[held[w]] = "running"
  /\ \A b \in DOMAIN txRow[w] : b = Subject(w)
  /\ \A i \in Written(w) : Claims(w, i) \/ Ends(w, i) \/ DropsWith(w, i) \/ Inserts(w, i)

(* A retriable failure is only seen by the retry of its own transaction,   *)
(* and a file that waits for a dropped one is dropped with it.             *)
HasRetry(s) == \E i \in 1..Len(s) : s[i] = "retry"
RetryPending(w) ==
  HasRetry(script[w]) <=> script[w] # <<>> /\ txJobs[w][held[w]] = "failed_retriable"
DropsAreClosed(w) ==
  \A f \in Files :
    DependsOn[f] \in Written(w) /\ txJobs[w][DependsOn[f]] = "failed_terminal" =>
      f \in Written(w) /\ txJobs[w][f] = "failed_terminal"

(* What was read and checked earlier in the transaction still holds.       *)
StillDue(w) ==
  At(w, "insertFinalize") =>
    /\ jobStatus[Subject(w)] = "absent" /\ Subject(w) \notin Written(w)
    /\ BarrierMet(JobsSeen(w), Subject(w))
StillCovers(w) ==
  held[w] \in Bundles /\ script[w] # <<>> /\ txJobs[w][held[w]] = "succeeded" =>
    seen[w].loaded = Imported(held[w])

WorkerInv(w) ==
  /\ InProgram(w) /\ InTransaction(w) /\ RetryPending(w) /\ DropsAreClosed(w)
  /\ StillDue(w) /\ StillCovers(w)

ReaderInv(r) ==
  /\ held[r] \in Bundles \cup {None} /\ (script[r] = <<>> <=> held[r] = None)
  /\ \A i \in 1..Len(script[r]) :
       script[r][i] \in RefreshStatements /\ (script[r][i] = "storeStatus" <=> i = Len(script[r]))
  /\ Written(r) = {} /\ DOMAIN txRow[r] = {}

LocksExclude ==
  \A p, q \in Sessions : p # q =>
    Written(p) \cap Written(q) = {} /\ DOMAIN txRow[p] \cap DOMAIN txRow[q] = {}

(* The committed statuses.                                                 *)
FileInv(f) ==
  /\ jobStatus[f] \in {"queued", "running"} \cup TerminalStatuses
  /\ \/ jobStatus[f] = "queued" \/ Unblocked(f)
     \/ jobStatus[f] = "failed_terminal" /\ jobStatus[DependsOn[f]] = "failed_terminal"
  /\ DependsOn[f] # None /\ jobStatus[DependsOn[f]] = "failed_terminal" =>
       jobStatus[f] = "failed_terminal"
FinalizeInv(b) ==
  /\ jobStatus[b] \in {"absent", "queued", "running"} \cup TerminalStatuses
  /\ jobStatus[b] # "absent" => BarrierMet(jobStatus, b)

(* A worker leaves its loop without a job, and only a crash loses one.     *)
DrainInv ==
  /\ \A w \in stopped : Idle(w)
  /\ crashes = 0 => \A j \in Jobs : jobStatus[j] = "running" => \E w \in Workers : held[w] = j
  /\ DrainCompletes

RunnerInv ==
  /\ TypeOK
  /\ \A w \in Workers : WorkerInv(w)
  /\ \A r \in Readers : ReaderInv(r)
  /\ LocksExclude /\ ExclusiveClaim
  /\ \A f \in Files : FileInv(f)
  /\ \A b \in Bundles : FinalizeInv(b)
  /\ DrainInv

-----------------------------------------------------------------------------
(* The promise of the import pipeline.                                     *)

ImportOutcome == [f \in Files |->
  CASE jobStatus[f] = "succeeded" -> "imported"
    [] jobStatus[f] = "failed_terminal" -> "dropped"
    [] OTHER -> "pending"]
RefreshOutcome == [b \in Bundles |->
  CASE jobStatus[b] = "succeeded" -> "done"
    [] jobStatus[b] = "failed_terminal" -> "abandoned"
    [] OTHER -> "pending"]

Promise == INSTANCE BundleImport WITH
  outcome <- ImportOutcome, refresh <- RefreshOutcome, covered <- materialized

(* What the workers commit, statement by statement and with stale reads,   *)
(* still imports, drops and refreshes only as BundleImport allows.         *)
KeepsPromise == Promise!Spec

(* The bundle makes one scoped finalize after all its file jobs completed: *)
(* a drained queue holds no imported bundle without a finalize job.        *)
DrainFinalizes ==
  stopped = Workers /\ crashes = 0 =>
    \A b \in Bundles : "succeeded" \in FileStatuses(jobStatus, b) => jobStatus[b] # "absent"
=============================================================================
