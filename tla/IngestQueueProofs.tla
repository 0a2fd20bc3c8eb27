------------------------- MODULE IngestQueueProofs -------------------------
(***************************************************************************)
(* Theorems about IngestQueue for any files, bundles, workers and bounds:  *)
(* first, with the invariant IInv, what the queue never does; then, with   *)
(* OutcomeInv, which builds on it, what becomes of the files: the ledger   *)
(* of attempts, the fate of the files behind a failed one, how honest the  *)
(* reported status is when transactions overlap, that nothing else is      *)
(* forgotten, and that the queue keeps the promise of BundleImport.        *)
(***************************************************************************)
EXTENDS IngestQueue, FiniteSetTheorems, SequenceTheorems, WellFoundedInduction, TLAPS

Statuses == JobStatuses \cup {"absent"}
Dispositions == {"failed_retriable", "failed_terminal"}

-----------------------------------------------------------------------------
(* The recursive query of propagate_dependency_failure.                    *)

(* A queued dependent is a queued file job.                                *)
LEMMA DependentsAreQueued ==
  ASSUME NEW js, NEW j, NEW f \in QueuedDependents(js, j)
  PROVE  f \in Files /\ js[f] = "queued"
BY DEF QueuedDependents

(* A queued file that waits for job j, or for a file the query returns, is *)
(* returned too.                                                           *)
LEMMA DependentsClosed ==
  ASSUME NEW js, NEW j, NEW f \in Files, js[f] = "queued",
         DependsOn[f] \in QueuedDependents(js, j) \cup {j}
  PROVE  f \in QueuedDependents(js, j)
BY DEF QueuedDependents

(* A set of queued files that holds those waiting for j or for one of its  *)
(* members holds all that the query returns.                               *)
LEMMA DependentsLeast ==
  ASSUME NEW js, NEW j, NEW T \in SUBSET {f \in Files : js[f] = "queued"},
         \A f \in Files : js[f] = "queued" /\ DependsOn[f] \in T \cup {j} => f \in T
  PROVE  QueuedDependents(js, j) \subseteq T
BY DEF QueuedDependents

(* Every file it returns waits for j or for a file it returns.             *)
LEMMA DependentsGrounded ==
  ASSUME NEW js, NEW j, NEW f \in QueuedDependents(js, j)
  PROVE  DependsOn[f] \in QueuedDependents(js, j) \cup {j}
PROOF
  <1> DEFINE D == QueuedDependents(js, j)
             T == {g \in D : DependsOn[g] \in D \cup {j}}
  <1>1. T \in SUBSET {g \in Files : js[g] = "queued"}
    BY DependentsAreQueued
  <1>2. \A g \in Files : js[g] = "queued" /\ DependsOn[g] \in T \cup {j} => g \in T
    BY DependentsClosed
  <1>3. D \subseteq T
    <2> HIDE DEF T
    <2> QED BY <1>1, <1>2, DependentsLeast
  <1> QED BY <1>3

(* The files it returns for a file job belong to the bundle of that job.   *)
LEMMA DependentsShareBundle ==
  ASSUME NEW js, NEW j \in Files, NEW f \in QueuedDependents(js, j)
  PROVE  f \in Files /\ BundleOf[f] = BundleOf[j] /\ DependsOn[f] # None
PROOF
  <1> DEFINE D == QueuedDependents(js, j)
             T == {g \in D : BundleOf[g] = BundleOf[j]}
  <1>1. T \in SUBSET {g \in Files : js[g] = "queued"}
    BY DependentsAreQueued
  <1>2. \A g \in Files : js[g] = "queued" /\ DependsOn[g] \in T \cup {j} => g \in T
    <2> SUFFICES ASSUME NEW g \in Files, js[g] = "queued", DependsOn[g] \in T \cup {j}
                 PROVE  g \in T
      OBVIOUS
    <2>1. g \in D
      BY DependentsClosed
    <2>2. DependsOn[g] \in Files /\ BundleOf[DependsOn[g]] = BundleOf[j]
      BY <1>1
    <2>3. BundleOf[DependsOn[g]] = BundleOf[g]
      BY <2>2, EarlierMemberAssumption, NamesAssumption
    <2> QED BY <2>1, <2>2, <2>3
  <1>3. D \subseteq T
    <2> HIDE DEF T
    <2> QED BY <1>1, <1>2, DependentsLeast
  <1>4. f \in Files
    BY DependentsAreQueued
  <1>5. DependsOn[f] \in Files
    BY <1>4, DependentsGrounded, DependentsAreQueued
  <1> QED BY <1>3, <1>4, <1>5, NamesAssumption

(* No file waits for a finalize job.                                       *)
LEMMA NobodyWaitsForFinalize ==
  ASSUME NEW js, NEW b \in Bundles
  PROVE  QueuedDependents(js, b) = {}
PROOF
  <1> DEFINE T == {f \in Files : FALSE}
  <1>1. \A f \in Files : DependsOn[f] # b
    BY DependsOnAssumption, NamesAssumption
  <1>2. T \in SUBSET {f \in Files : js[f] = "queued"} /\ T = {}
    OBVIOUS
  <1>3. \A f \in Files : js[f] = "queued" /\ DependsOn[f] \in T \cup {b} => f \in T
    BY <1>1, <1>2
  <1>4. QueuedDependents(js, b) \subseteq T
    <2> HIDE DEF T
    <2> QED BY <1>2, <1>3, DependentsLeast
  <1> QED BY <1>2, <1>4

-----------------------------------------------------------------------------
(* The guard of maybe_enqueue_finalize_job.                                *)

(* Whether a finalize job is due is read off the statuses of the bundle.   *)
LEMMA DueByStatus ==
  ASSUME NEW js, NEW ks, NEW b, ks[b] = js[b], \A f \in FilesOf(b) : ks[f] = js[f]
  PROVE  FinalizeDue(ks, b) <=> FinalizeDue(js, b)
PROOF
  <1>1. FileStatuses(ks, b) = FileStatuses(js, b)
    BY DEF FileStatuses
  <1> QED BY <1>1 DEF FinalizeDue

(* A transaction that misses the end of a file takes it for running: it    *)
(* never inserts a finalize job too early, and when it misses nothing it   *)
(* sees the jobs as its commit leaves them.                                *)
LEMMA CountedEffect ==
  ASSUME late \in [Workers -> SUBSET Files], NEW w \in Workers, NEW js \in [Jobs -> Statuses]
  PROVE  /\ Counted(w, js) \in [Jobs -> Statuses]
         /\ \A b \in Bundles : FinalizeDue(Counted(w, js), b) => FinalizeDue(js, b)
         /\ late[w] = {} => Counted(w, js) = js
PROOF
  <1> DEFINE seen == Counted(w, js)
  <1>1. /\ seen \in [Jobs -> Statuses]
        /\ \A i \in Jobs : seen[i] = IF i \in late[w] THEN "running" ELSE js[i]
    BY DEF Counted, Statuses, JobStatuses
  <1>2. late[w] = {} => seen = js
    BY DEF Counted
  <1> HIDE DEF seen
  <1>3. ASSUME NEW b \in Bundles, FinalizeDue(seen, b) PROVE FinalizeDue(js, b)
    <2>1. b \in Jobs /\ b \notin late[w] /\ FilesOf(b) \subseteq Jobs
      BY NamesAssumption DEF Jobs, FilesOf
    <2>2. \A f \in FilesOf(b) : seen[f] # "running"
      BY <1>3 DEF FinalizeDue, FileStatuses, ActiveStatuses
    <2>3. js[b] = seen[b] /\ \A f \in FilesOf(b) : js[f] = seen[f]
      BY <1>1, <2>1, <2>2
    <2> QED BY <1>3, <2>3, DueByStatus
  <1> QED BY <1>1, <1>2, <1>3 DEF seen

(* What a file transaction does to the memory of what was missed.          *)
Remembers(w, b) ==
  overlapped' = IF late[w] = {} THEN overlapped \ {b} ELSE overlapped \cup {b}

(* The files missed are files, and a bundle is marked when its transaction *)
(* missed one.                                                             *)
LEMMA MissedEffect ==
  ASSUME late \in [Workers -> SUBSET Files], overlapped \subseteq Bundles,
         NEW w \in Workers, held[w] \in Files, NEW b \in Bundles, MissedBySome(w, b)
  PROVE  /\ late' \in [Workers -> SUBSET Files] /\ overlapped' \subseteq Bundles
         /\ Remembers(w, b)
BY DEF MissedBySome, Remembers

-----------------------------------------------------------------------------
(* Lemmas about the operators of the queue.                                *)

(* Propagation keeps the table well-formed; it only drops queued files.    *)
LEMMA PropagateEffect ==
  ASSUME NEW js \in [Jobs -> Statuses], NEW j
  PROVE  /\ Propagate(js, j) \in [Jobs -> Statuses]
         /\ \A i \in Jobs : \/ Propagate(js, j)[i] = js[i]
                            \/ /\ i \in Files /\ js[i] = "queued"
                               /\ Propagate(js, j)[i] = "failed_terminal"
BY DependentsAreQueued DEF Propagate, Statuses, JobStatuses

(* maybe_enqueue_finalize_job touches the finalize job alone, and only to  *)
(* insert it.                                                              *)
LEMMA WithFinalizeEffect ==
  ASSUME NEW js \in [Jobs -> Statuses], NEW seen, NEW b \in Bundles
  PROVE  /\ WithFinalize(js, seen, b) \in [Jobs -> Statuses]
         /\ \A i \in Jobs \ {b} : WithFinalize(js, seen, b)[i] = js[i]
         /\ \/ WithFinalize(js, seen, b)[b] = js[b]
            \/ WithFinalize(js, seen, b)[b] = "queued" /\ FinalizeDue(seen, b)
BY DEF WithFinalize, Statuses, JobStatuses, Jobs

(* Whatever its disposition, a failure ends in the job being queued again  *)
(* or dead, and disturbs nothing else but queued files it drops.           *)
FailureOutcome(after, j) ==
  /\ after \in [Jobs -> Statuses]
  /\ after[j] \in {"queued", "failed_terminal"}
  /\ \A i \in Jobs \ {j} : \/ after[i] = jobStatus[i]
                           \/ /\ i \in Files /\ jobStatus[i] = "queued"
                              /\ after[i] = "failed_terminal"

(* A job that fails for good, alone or with what waits for it.             *)
LEMMA DeadOutcome ==
  ASSUME jobStatus \in [Jobs -> Statuses], NEW j \in Jobs,
         NEW js, js = [jobStatus EXCEPT ![j] = "failed_terminal"]
  PROVE  /\ FailureOutcome(js, j)
         /\ FailureOutcome(Propagate(js, j), j)
         /\ Propagate(js, j)[j] = "failed_terminal"
PROOF
  <1>1. js \in [Jobs -> Statuses] /\ js[j] = "failed_terminal"
    BY DEF Statuses, JobStatuses
  <1>2. \A i \in Jobs \ {j} : js[i] = jobStatus[i]
    OBVIOUS
  <1>3. /\ Propagate(js, j) \in [Jobs -> Statuses]
        /\ \A i \in Jobs : \/ Propagate(js, j)[i] = js[i]
                           \/ /\ i \in Files /\ js[i] = "queued"
                              /\ Propagate(js, j)[i] = "failed_terminal"
    BY <1>1, PropagateEffect, ZenonT(40)
  <1>4. Propagate(js, j)[j] = "failed_terminal"
    BY <1>1, <1>3
  <1>5. FailureOutcome(js, j)
    BY <1>1, <1>2 DEF FailureOutcome
  <1>6. FailureOutcome(Propagate(js, j), j)
    BY <1>2, <1>3, <1>4 DEF FailureOutcome
  <1> QED BY <1>4, <1>5, <1>6

(* mark_job_failed and retry_failed_job together only touch the job and    *)
(* queued files.                                                           *)
LEMMA FailureEffect ==
  ASSUME jobStatus \in [Jobs -> Statuses], NEW j \in Jobs, NEW disposition \in Dispositions
  PROVE  FailureOutcome(Retried(MarkedFailed(j, disposition), j), j)
PROOF
  <1> DEFINE dead == [jobStatus EXCEPT ![j] = "failed_terminal"]
  <1>1. /\ FailureOutcome(dead, j)
        /\ FailureOutcome(Propagate(dead, j), j)
        /\ Propagate(dead, j)[j] = "failed_terminal"
        /\ dead[j] = "failed_terminal"
    BY DeadOutcome
  <1>2. CASE disposition = "failed_terminal"
    <2>1. MarkedFailed(j, disposition) \in {dead, Propagate(dead, j)}
      BY <1>2 DEF MarkedFailed
    <2>2. Retried(MarkedFailed(j, disposition), j) = MarkedFailed(j, disposition)
      BY <1>1, <2>1 DEF Retried
    <2> QED BY <1>1, <2>1, <2>2
  <1>3. CASE disposition = "failed_retriable"
    <2> DEFINE failed == [jobStatus EXCEPT ![j] = "failed_retriable"]
    <2>1. MarkedFailed(j, disposition) = failed /\ failed[j] = "failed_retriable"
      BY <1>3 DEF MarkedFailed
    <2>2. CASE Len(attempts[j]) >= MaxAttempts
      <3>1. [failed EXCEPT ![j] = "failed_terminal"] = dead
        OBVIOUS
      <3>2. Retried(failed, j) = Propagate(dead, j)
        BY <2>1, <2>2, <3>1 DEF Retried
      <3> QED BY <1>1, <2>1, <3>2
    <2>3. CASE ~(Len(attempts[j]) >= MaxAttempts)
      <3>1. Retried(failed, j) = [failed EXCEPT ![j] = "queued"]
        BY <2>1, <2>3 DEF Retried
      <3>2. FailureOutcome([failed EXCEPT ![j] = "queued"], j)
        BY DEF FailureOutcome, Statuses, JobStatuses
      <3> QED BY <2>1, <3>1, <3>2
    <2> QED BY <2>2, <2>3
  <1> QED BY <1>2, <1>3 DEF Dispositions

RowType == [status : BundleStatuses, started : BOOLEAN, finished : BOOLEAN]

(* Refreshing a bundle row, and marking it finalizing, keeps it a row.     *)
LEMMA RowStaysRow ==
  ASSUME NEW row \in RowType, NEW js, NEW b
  PROVE  Refreshed(row, js, b) \in RowType /\ RowWithFinalize(row, js, b) \in RowType
PROOF
  <1>1. Derived(js, b) \in BundleStatuses
    BY DEF Derived, DeriveBundleStatus, BundleStatuses, TerminalBundleStatuses
  <1>2. Refreshed(row, js, b) \in RowType
    BY <1>1 DEF Refreshed, RowType
  <1>3. RowWithFinalize(row, js, b) \in RowType
    BY DEF RowWithFinalize, RowType, BundleStatuses
  <1> QED BY <1>2, <1>3

-----------------------------------------------------------------------------
(* The end of an execution, whatever its outcome.                          *)

(* Ending an execution rewrites one element of one attempt row and frees   *)
(* the worker.                                                             *)
LEMMA CloseEffect ==
  ASSUME IInv, NEW w \in Workers, held[w] # None, NEW outcome \in JobStatuses,
         Close(w, outcome)
  PROVE  /\ attempts' \in [Jobs -> Seq(JobStatuses)]
         /\ \A i \in Jobs : Len(attempts'[i]) = Len(attempts[i])
         /\ \A i \in Jobs : attempts'[i] = <<>> <=> attempts[i] = <<>>
         /\ held' = [held EXCEPT ![w] = None]
         /\ heldAttempt' = [heldAttempt EXCEPT ![w] = 0]
PROOF
  <1> DEFINE j == held[w]
             k == heldAttempt[w]
             row == [attempts[j] EXCEPT ![k] = outcome]
  <1>1. j \in Jobs /\ attempts[j] \in Seq(JobStatuses)
    BY DEF IInv, TypeOK
  <1>2. k = Len(attempts[j]) /\ attempts[j] # <<>>
    BY DEF IInv, ExclusiveClaim, Started
  <1>3. k \in 1..Len(attempts[j])
    BY <1>1, <1>2
  <1>4. row \in Seq(JobStatuses) /\ Len(row) = Len(attempts[j])
    BY <1>1, <1>3, ExceptSeq
  <1>5. attempts' = [attempts EXCEPT ![j] = row]
    BY DEF Close
  <1>6. attempts' \in [Jobs -> Seq(JobStatuses)]
    BY <1>1, <1>4, <1>5 DEF IInv, TypeOK
  <1>7. \A i \in Jobs : Len(attempts'[i]) = Len(attempts[i])
    BY <1>1, <1>4, <1>5 DEF IInv, TypeOK
  <1>8. \A i \in Jobs : attempts'[i] = <<>> <=> attempts[i] = <<>>
    <2> TAKE i \in Jobs
    <2>1. attempts[i] \in Seq(JobStatuses) /\ attempts'[i] \in Seq(JobStatuses)
      BY <1>6 DEF IInv, TypeOK
    <2>2. Len(attempts'[i]) = Len(attempts[i])
      BY <1>7
    <2> QED BY <2>1, <2>2, EmptySeq
  <1> QED BY <1>6, <1>7, <1>8 DEF Close

(* What the end of job j may do to the job table: j itself leaves          *)
(* "running", queued files are dropped, and a finalize job appears if its  *)
(* barrier is met.                                                         *)
Ends(j) ==
  \A i \in Jobs : jobStatus'[i] # jobStatus[i] =>
    \/ i = j
    \/ i \in Files /\ jobStatus[i] = "queued" /\ jobStatus'[i] = "failed_terminal"
    \/ /\ i \in Bundles /\ jobStatus[i] = "absent"
       /\ \A f \in FilesOf(i) : jobStatus'[f] \in TerminalStatuses
       /\ \E f \in FilesOf(i) : jobStatus'[f] = "succeeded"

(* The end of a job keeps the invariant and takes no other job out of its  *)
(* end.                                                                    *)
LEMMA EndPreserves ==
  ASSUME IInv, NEW w \in Workers, held[w] # None, NEW outcome \in JobStatuses,
         Close(w, outcome), Ends(held[w]), jobStatus'[held[w]] # "absent",
         UNCHANGED queueOrder
  PROVE  /\ RowsFollowBundle' /\ ExclusiveClaim' /\ PairOrder' /\ FinalizeBarrier'
         /\ \A i \in Jobs : jobStatus[i] \in TerminalStatuses => jobStatus'[i] = jobStatus[i]
PROOF
  <1> DEFINE j == held[w]
  <1>1. j \in Jobs /\ jobStatus[j] = "running"
    BY DEF IInv, TypeOK, ExclusiveClaim
  <1>2. /\ \A i \in Jobs : Len(attempts'[i]) = Len(attempts[i])
        /\ \A i \in Jobs : attempts'[i] = <<>> <=> attempts[i] = <<>>
        /\ held' = [held EXCEPT ![w] = None]
        /\ heldAttempt' = [heldAttempt EXCEPT ![w] = 0]
    BY CloseEffect
  <1>3. \A i \in Jobs : jobStatus[i] \in TerminalStatuses => jobStatus'[i] = jobStatus[i]
    BY <1>1 DEF Ends, TerminalStatuses
  <1>4. \A i \in Jobs \ {j} : jobStatus[i] = "running" => jobStatus'[i] = "running"
    BY <1>1 DEF Ends
  <1>5. RowsFollowBundle'
    <2>1. \A f \in Files : jobStatus'[f] = "absent" <=> jobStatus[f] = "absent"
      BY <1>1, NamesAssumption DEF Ends, Jobs
    <2> QED BY <2>1 DEF IInv, RowsFollowBundle, Enqueued
  <1>6. ExclusiveClaim'
    <2> SUFFICES ASSUME NEW v \in Workers, held'[v] # None
                 PROVE  /\ jobStatus'[held'[v]] = "running"
                        /\ attempts'[held'[v]] # <<>>
                        /\ heldAttempt'[v] = Len(attempts'[held'[v]])
                        /\ \A u \in Workers \ {v} : held'[u] # held'[v]
      BY DEF ExclusiveClaim, Started
    <2>1. v # w /\ held'[v] = held[v] /\ heldAttempt'[v] = heldAttempt[v]
      BY <1>2 DEF IInv, TypeOK
    <2>2. held[v] \in Jobs /\ held[v] # j /\ jobStatus[held[v]] = "running"
      BY <2>1 DEF IInv, TypeOK, ExclusiveClaim
    <2>3. jobStatus'[held[v]] = "running"
      BY <1>4, <2>2
    <2>4. attempts'[held[v]] # <<>> /\ heldAttempt[v] = Len(attempts'[held[v]])
      BY <1>2, <2>1, <2>2 DEF IInv, ExclusiveClaim, Started
    <2>5. \A u \in Workers \ {v} : held'[u] # held'[v]
      BY <1>2, <2>1, <2>2 DEF IInv, TypeOK, ExclusiveClaim
    <2> QED BY <2>1, <2>3, <2>4, <2>5
  <1>7. PairOrder'
    <2> SUFFICES ASSUME NEW f \in Files, attempts'[f] # <<>>, DependsOn[f] # None
                 PROVE  jobStatus'[DependsOn[f]] = "succeeded"
      BY DEF PairOrder, Started
    <2>1. attempts[f] # <<>> /\ DependsOn[f] \in Jobs
      BY <1>2, DependsOnAssumption DEF Jobs
    <2>2. jobStatus[DependsOn[f]] = "succeeded"
      BY <2>1 DEF IInv, PairOrder, Started
    <2> QED BY <1>3, <2>1, <2>2 DEF TerminalStatuses
  <1>8. FinalizeBarrier'
    <2> SUFFICES ASSUME NEW b \in Bundles, jobStatus'[b] # "absent"
                 PROVE  /\ \A f \in FilesOf(b) : jobStatus'[f] \in TerminalStatuses
                        /\ \E f \in FilesOf(b) : jobStatus'[f] = "succeeded"
      BY DEF FinalizeBarrier, FileStatuses, AnySucceeded
    <2>1. CASE jobStatus[b] # "absent"
      <3>1. /\ \A f \in FilesOf(b) : jobStatus[f] \in TerminalStatuses
            /\ \E f \in FilesOf(b) : jobStatus[f] = "succeeded"
        BY <2>1 DEF IInv, FinalizeBarrier, FileStatuses, AnySucceeded
      <3>2. \A f \in FilesOf(b) : jobStatus'[f] = jobStatus[f]
        BY <1>3, <3>1 DEF FilesOf, Jobs
      <3> QED BY <3>1, <3>2
    <2>2. CASE jobStatus[b] = "absent"
      <3>1. b \in Jobs /\ b # j /\ b \notin Files
        BY <1>1, <2>2, NamesAssumption DEF Jobs
      <3> QED BY <2>2, <3>1 DEF Ends
    <2> QED BY <2>1, <2>2
  <1> QED BY <1>3, <1>5, <1>6, <1>7, <1>8

-----------------------------------------------------------------------------
(* The inductive invariant holds initially and every transaction keeps it. *)

(* The empty queue.                                                        *)
LEMMA InitInv == Init => IInv
PROOF
  <1> SUFFICES ASSUME Init PROVE IInv
    OBVIOUS
  <1>1. TypeOK
    BY BoundsAssumption DEF Init, TypeOK, BundleStatuses
  <1>2. RowsFollowBundle
    BY BundleOfAssumption DEF Init, RowsFollowBundle, Enqueued, Jobs
  <1>3. ExclusiveClaim
    BY DEF Init, ExclusiveClaim
  <1>4. PairOrder
    BY DEF Init, PairOrder, Started, Jobs
  <1>5. FinalizeBarrier
    BY DEF Init, FinalizeBarrier, Jobs
  <1> QED BY <1>1, <1>2, <1>3, <1>4, <1>5 DEF IInv

(* Enqueueing a bundle gives its files, absent until then, their rows.     *)
LEMMA EnqueueInv ==
  ASSUME IInv, NEW b \in Bundles, EnqueueBundle(b)
  PROVE  /\ IInv'
         /\ \A i \in Jobs : jobStatus[i] \in TerminalStatuses => jobStatus'[i] = jobStatus[i]
PROOF
  <1>1. \A i \in Jobs : jobStatus'[i] = IF i \in FilesOf(b) THEN "queued" ELSE jobStatus[i]
    BY DEF EnqueueBundle
  <1>2. \A f \in FilesOf(b) : f \in Files /\ f \in Jobs /\ jobStatus[f] = "absent"
    BY DEF IInv, RowsFollowBundle, EnqueueBundle, FilesOf, Jobs
  <1>3. \A i \in Jobs : jobStatus[i] # "absent" => jobStatus'[i] = jobStatus[i]
    BY <1>1, <1>2
  <1>4. TypeOK'
    <2>1. Cardinality({c \in Bundles : Enqueued(c)}) \in Nat
      BY FiniteAssumption, FS_Subset, FS_CardinalityType
    <2>2. queueOrder' \in [Bundles -> Nat]
      BY <2>1 DEF EnqueueBundle, IInv, TypeOK
    <2>3. jobStatus' \in [Jobs -> JobStatuses \cup {"absent"}]
      BY DEF EnqueueBundle, IInv, TypeOK, JobStatuses
    <2> QED BY <2>2, <2>3 DEF EnqueueBundle, IInv, TypeOK
  <1>5. RowsFollowBundle'
    <2>1. Cardinality({c \in Bundles : Enqueued(c)}) \in Nat
      BY FiniteAssumption, FS_Subset, FS_CardinalityType
    <2>2. queueOrder'[b] > 0 /\ \A c \in Bundles \ {b} : queueOrder'[c] = queueOrder[c]
      BY <2>1 DEF EnqueueBundle, IInv, TypeOK
    <2> QED BY <1>1, <2>2, BundleOfAssumption
            DEF IInv, RowsFollowBundle, Enqueued, FilesOf, Jobs
  <1>6. ExclusiveClaim'
    BY <1>3 DEF EnqueueBundle, IInv, ExclusiveClaim, Started, TypeOK
  <1>7. PairOrder'
    <2> SUFFICES ASSUME NEW f \in Files, attempts'[f] # <<>>, DependsOn[f] # None
                 PROVE  jobStatus'[DependsOn[f]] = "succeeded"
      BY DEF PairOrder, Started
    <2>1. jobStatus[DependsOn[f]] = "succeeded" /\ DependsOn[f] \in Jobs
      BY DependsOnAssumption DEF EnqueueBundle, IInv, PairOrder, Started, Jobs
    <2> QED BY <1>3, <2>1
  <1>8. FinalizeBarrier'
    <2> SUFFICES ASSUME NEW c \in Bundles, jobStatus'[c] # "absent"
                 PROVE  /\ \A f \in FilesOf(c) : jobStatus'[f] \in TerminalStatuses
                        /\ \E f \in FilesOf(c) : jobStatus'[f] = "succeeded"
      BY DEF FinalizeBarrier, FileStatuses, AnySucceeded
    <2>1. jobStatus[c] # "absent"
      BY <1>1, <1>2, NamesAssumption DEF Jobs
    <2>2. /\ \A f \in FilesOf(c) : jobStatus[f] \in TerminalStatuses
          /\ \E f \in FilesOf(c) : jobStatus[f] = "succeeded"
      BY <2>1 DEF IInv, FinalizeBarrier, FileStatuses, AnySucceeded
    <2>3. \A f \in FilesOf(c) : jobStatus'[f] = jobStatus[f]
      BY <1>3, <2>2 DEF FilesOf, Jobs, TerminalStatuses
    <2> QED BY <2>2, <2>3
  <1>9. \A i \in Jobs : jobStatus[i] \in TerminalStatuses => jobStatus'[i] = jobStatus[i]
    BY <1>3 DEF TerminalStatuses
  <1> QED BY <1>4, <1>5, <1>6, <1>7, <1>8, <1>9 DEF IInv

(* A claim takes a queued job whose dependency has succeeded; no finalize  *)
(* job exists for a bundle with such a file.                               *)
LEMMA ClaimInv ==
  ASSUME IInv, NEW w \in Workers, Claim(w)
  PROVE  /\ IInv'
         /\ \A i \in Jobs : jobStatus[i] \in TerminalStatuses => jobStatus'[i] = jobStatus[i]
PROOF
  <1>1. PICK j \in Jobs :
          /\ NextJob(j)
          /\ jobStatus' = [jobStatus EXCEPT ![j] = "running"]
          /\ attempts' = [attempts EXCEPT ![j] = Append(@, "running")]
          /\ held' = [held EXCEPT ![w] = j]
          /\ heldAttempt' = [heldAttempt EXCEPT ![w] = Len(attempts[j]) + 1]
    BY DEF Claim
  <1>2. /\ jobStatus[j] = "queued"
        /\ j \in Files => DependsOn[j] = None \/ jobStatus[DependsOn[j]] = "succeeded"
    BY <1>1 DEF NextJob, Claimable
  <1>3. attempts[j] \in Seq(JobStatuses) /\ "running" \in JobStatuses
    BY DEF IInv, TypeOK, JobStatuses
  <1>4. /\ Append(attempts[j], "running") \in Seq(JobStatuses)
        /\ Append(attempts[j], "running") # <<>>
        /\ Len(Append(attempts[j], "running")) = Len(attempts[j]) + 1
    BY <1>3, AppendProperties
  <1>5. \A i \in Jobs \ {j} : jobStatus'[i] = jobStatus[i] /\ attempts'[i] = attempts[i]
    BY <1>1 DEF IInv, TypeOK
  <1>6. /\ jobStatus'[j] = "running"
        /\ attempts'[j] = Append(attempts[j], "running")
    BY <1>1 DEF IInv, TypeOK
  <1>7. TypeOK'
    <2>1. attempts' \in [Jobs -> Seq(JobStatuses)]
      BY <1>1, <1>4 DEF IInv, TypeOK
    <2>2. jobStatus' \in [Jobs -> JobStatuses \cup {"absent"}]
      BY <1>1, <1>3 DEF IInv, TypeOK
    <2>3. held' \in [Workers -> Jobs \cup {None}] /\ heldAttempt' \in [Workers -> Nat]
      BY <1>1, <1>3 DEF IInv, TypeOK
    <2> QED BY <2>1, <2>2, <2>3 DEF Claim, IInv, TypeOK
  <1>8. RowsFollowBundle'
    BY <1>2, <1>5, <1>6 DEF Claim, IInv, RowsFollowBundle, Enqueued, Jobs
  <1>9. ExclusiveClaim'
    <2> SUFFICES ASSUME NEW v \in Workers, held'[v] # None
                 PROVE  /\ jobStatus'[held'[v]] = "running"
                        /\ attempts'[held'[v]] # <<>>
                        /\ heldAttempt'[v] = Len(attempts'[held'[v]])
                        /\ \A u \in Workers \ {v} : held'[u] # held'[v]
      BY DEF ExclusiveClaim, Started
    <2>0. \A u \in Workers \ {w} : held'[u] = held[u] /\ heldAttempt'[u] = heldAttempt[u]
      BY <1>1 DEF IInv, TypeOK
    <2>1. \A u \in Workers \ {w} : held[u] # j
      BY <1>2, NamesAssumption DEF IInv, ExclusiveClaim, Jobs
    <2>2. held'[w] = j /\ heldAttempt'[w] = Len(attempts[j]) + 1
      BY <1>1 DEF IInv, TypeOK
    <2>3. CASE v = w
      BY <1>4, <1>6, <2>0, <2>1, <2>2, <2>3
    <2>4. CASE v # w
      <3>1. held[v] \in Jobs \ {j} /\ held'[v] = held[v]
        BY <2>0, <2>1, <2>4 DEF IInv, TypeOK
      <3>2. /\ jobStatus[held[v]] = "running" /\ attempts[held[v]] # <<>>
            /\ heldAttempt[v] = Len(attempts[held[v]])
            /\ \A u \in Workers \ {v} : held[u] # held[v]
        BY <3>1 DEF IInv, ExclusiveClaim, Started
      <3> QED BY <1>5, <2>0, <2>2, <2>4, <3>1, <3>2
    <2> QED BY <2>3, <2>4
  <1>10. PairOrder'
    <2> SUFFICES ASSUME NEW f \in Files, attempts'[f] # <<>>, DependsOn[f] # None
                 PROVE  jobStatus'[DependsOn[f]] = "succeeded"
      BY DEF PairOrder, Started
    <2>1. DependsOn[f] \in Jobs /\ f \in Jobs
      BY DependsOnAssumption DEF Jobs
    <2>2. jobStatus[DependsOn[f]] = "succeeded"
      BY <1>2, <1>5, <2>1 DEF IInv, PairOrder, Started
    <2> QED BY <1>2, <1>5, <2>1, <2>2
  <1>11. FinalizeBarrier'
    <2> SUFFICES ASSUME NEW c \in Bundles, jobStatus'[c] # "absent"
                 PROVE  /\ \A f \in FilesOf(c) : jobStatus'[f] \in TerminalStatuses
                        /\ \E f \in FilesOf(c) : jobStatus'[f] = "succeeded"
      BY DEF FinalizeBarrier, FileStatuses, AnySucceeded
    <2>1. jobStatus[c] # "absent"
      BY <1>2, <1>5 DEF Jobs
    <2>2. /\ \A f \in FilesOf(c) : jobStatus[f] \in TerminalStatuses
          /\ \E f \in FilesOf(c) : jobStatus[f] = "succeeded"
      BY <2>1 DEF IInv, FinalizeBarrier, FileStatuses, AnySucceeded
    <2>3. \A f \in FilesOf(c) : f # j /\ jobStatus'[f] = jobStatus[f]
      BY <1>2, <1>5, <2>2 DEF FilesOf, Jobs, TerminalStatuses
    <2> QED BY <2>2, <2>3
  <1>12. \A i \in Jobs : jobStatus[i] \in TerminalStatuses => jobStatus'[i] = jobStatus[i]
    BY <1>2, <1>5 DEF TerminalStatuses
  <1> QED BY <1>7, <1>8, <1>9, <1>10, <1>11, <1>12 DEF IInv
(* A file execution that leaves table js and then offers the bundle its    *)
(* finalize job has the shape Ends asks for.                               *)
LEMMA EndsWithFinalize ==
  ASSUME IInv, NEW f \in Files, jobStatus[f] = "running",
         NEW js \in [Jobs -> Statuses], js[f] # "absent",
         \A i \in Jobs \ {f} : \/ js[i] = jobStatus[i]
                               \/ /\ i \in Files /\ jobStatus[i] = "queued"
                                  /\ js[i] = "failed_terminal",
         NEW seen, FinalizeDue(seen, BundleOf[f]) => FinalizeDue(js, BundleOf[f]),
         jobStatus' = WithFinalize(js, seen, BundleOf[f])
  PROVE  /\ Ends(f) /\ jobStatus'[f] # "absent"
         /\ jobStatus' \in [Jobs -> Statuses]
PROOF
  <1> DEFINE b == BundleOf[f]
  <1>1. b \in Bundles /\ b \notin Files /\ f \in Jobs /\ b \in Jobs
    BY BundleOfAssumption, NamesAssumption DEF Jobs
  <1>2. /\ jobStatus' \in [Jobs -> Statuses]
        /\ \A i \in Jobs \ {b} : jobStatus'[i] = js[i]
        /\ \/ jobStatus'[b] = js[b]
           \/ jobStatus'[b] = "queued" /\ FinalizeDue(js, b)
    <2> HIDE DEF b
    <2>1. /\ jobStatus' = WithFinalize(js, seen, b)
          /\ FinalizeDue(seen, b) => FinalizeDue(js, b)
      BY DEF b
    <2> QED BY <1>1, <2>1, WithFinalizeEffect
  <1>3. \A g \in FilesOf(b) : g \in Jobs /\ g # b /\ js[g] # "absent"
    BY <1>1 DEF IInv, RowsFollowBundle, FilesOf, Jobs
  <1>4. js[b] = jobStatus[b]
    BY <1>1
  <1>5. ASSUME FinalizeDue(js, b)
        PROVE  /\ jobStatus[b] = "absent"
               /\ \A g \in FilesOf(b) : jobStatus'[g] \in TerminalStatuses
               /\ \E g \in FilesOf(b) : jobStatus'[g] = "succeeded"
    <2>1. jobStatus[b] = "absent"
      BY <1>4, <1>5 DEF FinalizeDue
    <2>2. \A g \in FilesOf(b) : js[g] \in Statuses /\ js[g] \notin ActiveStatuses
      BY <1>3, <1>5 DEF FinalizeDue, FileStatuses
    <2>3. \A g \in FilesOf(b) : js[g] \in TerminalStatuses
      BY <1>3, <2>2 DEF Statuses, JobStatuses, ActiveStatuses, TerminalStatuses
    <2>4. \E g \in FilesOf(b) : js[g] = "succeeded"
      BY <1>5 DEF FinalizeDue, FileStatuses
    <2> QED BY <1>2, <1>3, <2>1, <2>3, <2>4
  <1>6. Ends(f)
    <2> SUFFICES ASSUME NEW i \in Jobs, jobStatus'[i] # jobStatus[i], i # f
                 PROVE  \/ /\ i \in Files /\ jobStatus[i] = "queued"
                           /\ jobStatus'[i] = "failed_terminal"
                        \/ /\ i \in Bundles /\ jobStatus[i] = "absent"
                           /\ \A g \in FilesOf(i) : jobStatus'[g] \in TerminalStatuses
                           /\ \E g \in FilesOf(i) : jobStatus'[g] = "succeeded"
      BY DEF Ends
    <2>1. CASE i = b
      BY <1>1, <1>2, <1>4, <1>5, <2>1
    <2>2. CASE i # b
      BY <1>2, <2>2
    <2> QED BY <2>1, <2>2
  <1>7. jobStatus'[f] # "absent"
    BY <1>1, <1>2
  <1> QED BY <1>2, <1>6, <1>7

(* Every outcome of an execution keeps the invariant.                      *)
LEMMA FileSucceedsInv ==
  ASSUME IInv, NEW w \in Workers, FileSucceeds(w)
  PROVE  /\ IInv'
         /\ \A i \in Jobs : jobStatus[i] \in TerminalStatuses => jobStatus'[i] = jobStatus[i]
PROOF
  <1> DEFINE f == held[w]
             b == BundleOf[f]
             done == [jobStatus EXCEPT ![f] = "succeeded"]
             seen == Counted(w, done)
  <1>1. f \in Files /\ f # None /\ f \in Jobs /\ b \in Bundles
    BY BundleOfAssumption, NamesAssumption DEF FileSucceeds, Jobs
  <1>2. jobStatus[f] = "running"
    BY <1>1 DEF IInv, ExclusiveClaim
  <1>3. done \in [Jobs -> Statuses] /\ done[f] = "succeeded"
    BY <1>1 DEF IInv, TypeOK, Statuses, JobStatuses
  <1>4. \A i \in Jobs \ {f} : done[i] = jobStatus[i]
    BY DEF IInv, TypeOK
  <1>5. /\ jobStatus' = WithFinalize(done, seen, b) /\ MissedBySome(w, b)
        /\ Close(w, "succeeded") /\ "succeeded" \in JobStatuses
        /\ UNCHANGED queueOrder
    BY DEF FileSucceeds, JobStatuses
  <1>6. Ends(f) /\ jobStatus'[f] # "absent" /\ jobStatus' \in [Jobs -> Statuses]
    <2>1. FinalizeDue(seen, b) => FinalizeDue(done, b)
      <3> HIDE DEF done, b
      <3> QED BY <1>1, <1>3, CountedEffect DEF IInv, TypeOK
    <2> HIDE DEF done, seen, f
    <2> QED BY <1>1, <1>2, <1>3, <1>4, <1>5, <2>1, EndsWithFinalize
  <1>7. /\ RowsFollowBundle' /\ ExclusiveClaim' /\ PairOrder' /\ FinalizeBarrier'
        /\ \A i \in Jobs : jobStatus[i] \in TerminalStatuses => jobStatus'[i] = jobStatus[i]
    BY <1>1, <1>5, <1>6, EndPreserves
  <1>8. TypeOK'
    <2>1. bundleRow \in [Bundles -> RowType]
      BY DEF IInv, TypeOK, RowType
    <2>2. bundleRow' \in [Bundles -> RowType]
      <3>1. RowWithFinalize(Refreshed(bundleRow[b], seen, b), seen, b) \in RowType
        BY <1>1, <2>1, RowStaysRow
      <3>2. bundleRow' = [bundleRow EXCEPT ![b] =
                RowWithFinalize(Refreshed(bundleRow[b], seen, b), seen, b)]
        BY DEF FileSucceeds
      <3> QED BY <2>1, <3>1, <3>2
    <2>3. /\ attempts' \in [Jobs -> Seq(JobStatuses)]
          /\ held' = [held EXCEPT ![w] = None]
          /\ heldAttempt' = [heldAttempt EXCEPT ![w] = 0]
      BY <1>1, <1>5, CloseEffect
    <2>4. held' \in [Workers -> Jobs \cup {None}] /\ heldAttempt' \in [Workers -> Nat]
      BY <2>3 DEF IInv, TypeOK
    <2>5. persisted' \subseteq Files
      BY <1>1 DEF FileSucceeds, IInv, TypeOK
    <2>6. late' \in [Workers -> SUBSET Files] /\ overlapped' \subseteq Bundles
      BY <1>1, <1>5, MissedEffect DEF IInv, TypeOK
    <2> QED BY <1>6, <2>2, <2>3, <2>4, <2>5, <2>6
            DEF FileSucceeds, IInv, TypeOK, RowType, Statuses
  <1> QED BY <1>7, <1>8 DEF IInv

(* handle_split_job_failure of a file ends its job.                        *)
LEMMA FileFailsInv ==
  ASSUME IInv, NEW w \in Workers, NEW disposition \in Dispositions, FileFails(w, disposition)
  PROVE  /\ IInv'
         /\ \A i \in Jobs : jobStatus[i] \in TerminalStatuses => jobStatus'[i] = jobStatus[i]
PROOF
  <1> DEFINE f == held[w]
             b == BundleOf[f]
             failed == MarkedFailed(f, disposition)
             after == Retried(failed, f)
             seen == Counted(w, after)
  <1>1. f \in Files /\ f # None /\ f \in Jobs /\ b \in Bundles
    BY BundleOfAssumption, NamesAssumption DEF FileFails, Jobs
  <1>2. jobStatus[f] = "running"
    BY <1>1 DEF IInv, ExclusiveClaim
  <1>3. FailureOutcome(after, f)
    <2>1. jobStatus \in [Jobs -> Statuses]
      BY DEF IInv, TypeOK, Statuses
    <2> QED BY <1>1, <2>1, FailureEffect
  <1>4. /\ after \in [Jobs -> Statuses]
        /\ after[f] # "absent"
        /\ \A i \in Jobs \ {f} : \/ after[i] = jobStatus[i]
                                 \/ /\ i \in Files /\ jobStatus[i] = "queued"
                                    /\ after[i] = "failed_terminal"
    BY <1>3 DEF FailureOutcome
  <1>5. /\ jobStatus' = WithFinalize(after, seen, b) /\ MissedBySome(w, b)
        /\ Close(w, disposition) /\ disposition \in JobStatuses
        /\ UNCHANGED queueOrder
    BY DEF FileFails, JobStatuses, Dispositions
  <1>6. Ends(f) /\ jobStatus'[f] # "absent" /\ jobStatus' \in [Jobs -> Statuses]
    <2>1. FinalizeDue(seen, b) => FinalizeDue(after, b)
      <3> HIDE DEF after, b
      <3> QED BY <1>1, <1>4, CountedEffect DEF IInv, TypeOK
    <2> HIDE DEF after, seen, f
    <2> QED BY <1>1, <1>2, <1>4, <1>5, <2>1, EndsWithFinalize
  <1>7. /\ RowsFollowBundle' /\ ExclusiveClaim' /\ PairOrder' /\ FinalizeBarrier'
        /\ \A i \in Jobs : jobStatus[i] \in TerminalStatuses => jobStatus'[i] = jobStatus[i]
    BY <1>1, <1>5, <1>6, EndPreserves
  <1>8. TypeOK'
    <2>1. bundleRow \in [Bundles -> RowType]
      BY DEF IInv, TypeOK, RowType
    <2>2. bundleRow' \in [Bundles -> RowType]
      <3> DEFINE row == RowWithFinalize(
                          Refreshed(Refreshed(bundleRow[b], Counted(w, failed), b), seen, b),
                          seen, b)
      <3>1. row \in RowType
        BY <1>1, <2>1, RowStaysRow
      <3>2. bundleRow' = [bundleRow EXCEPT ![b] = row]
        BY DEF FileFails
      <3> QED BY <2>1, <3>1, <3>2
    <2>3. /\ attempts' \in [Jobs -> Seq(JobStatuses)]
          /\ held' = [held EXCEPT ![w] = None]
          /\ heldAttempt' = [heldAttempt EXCEPT ![w] = 0]
      BY <1>1, <1>5, CloseEffect
    <2>4. held' \in [Workers -> Jobs \cup {None}] /\ heldAttempt' \in [Workers -> Nat]
      BY <2>3 DEF IInv, TypeOK
    <2>5. errorCode' \in [Jobs -> {"none", "execution", "dependency_failed"}]
      BY DEF FileFails, IInv, TypeOK
    <2>6. late' \in [Workers -> SUBSET Files] /\ overlapped' \subseteq Bundles
      BY <1>1, <1>5, MissedEffect DEF IInv, TypeOK
    <2> QED BY <1>6, <2>2, <2>3, <2>4, <2>5, <2>6
            DEF FileFails, IInv, TypeOK, RowType, Statuses
  <1> QED BY <1>7, <1>8 DEF IInv

(* finalize_bundle_split ends the finalize job.                            *)
LEMMA FinalizeSucceedsInv ==
  ASSUME IInv, NEW w \in Workers, FinalizeSucceeds(w)
  PROVE  /\ IInv'
         /\ \A i \in Jobs : jobStatus[i] \in TerminalStatuses => jobStatus'[i] = jobStatus[i]
PROOF
  <1> DEFINE b == held[w]
             done == [jobStatus EXCEPT ![b] = "succeeded"]
  <1>1. b \in Bundles /\ b # None /\ b \in Jobs
    BY NamesAssumption DEF FinalizeSucceeds, Jobs
  <1>2. done \in [Jobs -> Statuses] /\ done[b] = "succeeded"
    BY <1>1 DEF IInv, TypeOK, Statuses, JobStatuses
  <1>3. jobStatus' = done /\ Close(w, "succeeded") /\ "succeeded" \in JobStatuses
        /\ UNCHANGED queueOrder
    BY DEF FinalizeSucceeds, JobStatuses
  <1>4. Ends(b) /\ jobStatus'[b] # "absent"
    BY <1>2, <1>3 DEF Ends, IInv, TypeOK
  <1>5. /\ RowsFollowBundle' /\ ExclusiveClaim' /\ PairOrder' /\ FinalizeBarrier'
        /\ \A i \in Jobs : jobStatus[i] \in TerminalStatuses => jobStatus'[i] = jobStatus[i]
    BY <1>1, <1>3, <1>4, EndPreserves
  <1>6. TypeOK'
    <2>1. bundleRow \in [Bundles -> RowType]
      BY DEF IInv, TypeOK, RowType
    <2>2. bundleRow' \in [Bundles -> RowType]
      <3>1. Refreshed(bundleRow[b], done, b) \in RowType
        BY <1>1, <2>1, RowStaysRow
      <3>2. bundleRow' = [bundleRow EXCEPT ![b] = Refreshed(bundleRow[b], done, b)]
        BY DEF FinalizeSucceeds
      <3> QED BY <2>1, <3>1, <3>2
    <2>3. /\ attempts' \in [Jobs -> Seq(JobStatuses)]
          /\ held' = [held EXCEPT ![w] = None]
          /\ heldAttempt' = [heldAttempt EXCEPT ![w] = 0]
      BY <1>1, <1>3, CloseEffect
    <2>4. held' \in [Workers -> Jobs \cup {None}] /\ heldAttempt' \in [Workers -> Nat]
      BY <2>3 DEF IInv, TypeOK
    <2>5. materialized' \in [Bundles -> SUBSET Files]
      BY <1>1 DEF FinalizeSucceeds, IInv, TypeOK, FilesOf
    <2> QED BY <1>2, <1>3, <2>2, <2>3, <2>4, <2>5
            DEF FinalizeSucceeds, IInv, TypeOK, RowType, Statuses
  <1> QED BY <1>5, <1>6 DEF IInv

(* So does a failure of it.                                                *)
LEMMA FinalizeFailsInv ==
  ASSUME IInv, NEW w \in Workers, FinalizeFails(w)
  PROVE  /\ IInv'
         /\ \A i \in Jobs : jobStatus[i] \in TerminalStatuses => jobStatus'[i] = jobStatus[i]
PROOF
  <1> DEFINE b == held[w]
             failed == MarkedFailed(b, "failed_retriable")
             after == Retried(failed, b)
  <1>1. b \in Bundles /\ b # None /\ b \in Jobs
    BY NamesAssumption DEF FinalizeFails, Jobs
  <1>2. FailureOutcome(after, b)
    <2>1. jobStatus \in [Jobs -> Statuses] /\ "failed_retriable" \in Dispositions
      BY DEF IInv, TypeOK, Statuses, Dispositions
    <2> QED BY <1>1, <2>1, FailureEffect
  <1>3. jobStatus' = after /\ Close(w, "failed_retriable") /\ "failed_retriable" \in JobStatuses
        /\ UNCHANGED queueOrder
    BY DEF FinalizeFails, JobStatuses
  <1>4. Ends(b) /\ jobStatus'[b] # "absent" /\ jobStatus' \in [Jobs -> Statuses]
    <2> HIDE DEF after, b
    <2> QED BY <1>2, <1>3 DEF Ends, FailureOutcome
  <1>5. /\ RowsFollowBundle' /\ ExclusiveClaim' /\ PairOrder' /\ FinalizeBarrier'
        /\ \A i \in Jobs : jobStatus[i] \in TerminalStatuses => jobStatus'[i] = jobStatus[i]
    BY <1>1, <1>3, <1>4, EndPreserves
  <1>6. TypeOK'
    <2>1. bundleRow \in [Bundles -> RowType]
      BY DEF IInv, TypeOK, RowType
    <2>2. bundleRow' \in [Bundles -> RowType]
      <3> DEFINE row == Refreshed(Refreshed(bundleRow[b], failed, b), after, b)
      <3>1. row \in RowType
        BY <1>1, <2>1, RowStaysRow
      <3>2. bundleRow' = [bundleRow EXCEPT ![b] = row]
        BY DEF FinalizeFails
      <3> QED BY <2>1, <3>1, <3>2
    <2>3. /\ attempts' \in [Jobs -> Seq(JobStatuses)]
          /\ held' = [held EXCEPT ![w] = None]
          /\ heldAttempt' = [heldAttempt EXCEPT ![w] = 0]
      BY <1>1, <1>3, CloseEffect
    <2>4. held' \in [Workers -> Jobs \cup {None}] /\ heldAttempt' \in [Workers -> Nat]
      BY <2>3 DEF IInv, TypeOK
    <2>5. errorCode' \in [Jobs -> {"none", "execution", "dependency_failed"}]
      BY DEF FinalizeFails, IInv, TypeOK
    <2> QED BY <1>4, <2>2, <2>3, <2>4, <2>5
            DEF FinalizeFails, IInv, TypeOK, RowType, Statuses
  <1> QED BY <1>5, <1>6 DEF IInv

(* A crash forgets a claim; a reader rewrites a derived column.            *)
LEMMA CrashInv ==
  ASSUME IInv, NEW w \in Workers, Crash(w)
  PROVE  IInv' /\ jobStatus' = jobStatus
PROOF
  <1>1. TypeOK'
    BY BoundsAssumption DEF Crash, tables, IInv, TypeOK
  <1>2. ExclusiveClaim'
    BY DEF Crash, tables, IInv, TypeOK, ExclusiveClaim, Started
  <1>3. RowsFollowBundle' /\ PairOrder' /\ FinalizeBarrier'
    BY DEF Crash, tables, IInv, RowsFollowBundle, Enqueued, PairOrder, Started,
           FinalizeBarrier, FileStatuses, AnySucceeded
  <1> QED BY <1>1, <1>2, <1>3 DEF IInv, Crash, tables

(* A snapshot may store a status of the bundle, nothing else.              *)
LEMMA LoadSnapshotInv ==
  ASSUME IInv, NEW b \in Bundles, LoadSnapshot(b)
  PROVE  IInv' /\ jobStatus' = jobStatus
PROOF
  <1>1. Derived(jobStatus, b) \in BundleStatuses
    BY DEF Derived, DeriveBundleStatus, BundleStatuses, TerminalBundleStatuses
  <1>2. TypeOK'
    BY <1>1 DEF LoadSnapshot, IInv, TypeOK
  <1>3. /\ ExclusiveClaim' /\ RowsFollowBundle' /\ PairOrder' /\ FinalizeBarrier'
    BY DEF LoadSnapshot, IInv, ExclusiveClaim, RowsFollowBundle, Enqueued, PairOrder,
           Started, FinalizeBarrier, FileStatuses, AnySucceeded
  <1> QED BY <1>2, <1>3 DEF IInv, LoadSnapshot

(* Every step keeps the invariant and takes no job out of its end.         *)
LEMMA StepInv ==
  ASSUME IInv, [Next]_vars
  PROVE  /\ IInv'
         /\ \A i \in Jobs : jobStatus[i] \in TerminalStatuses => jobStatus'[i] = jobStatus[i]
PROOF
  <1>1. ASSUME NEW b \in Bundles, EnqueueBundle(b)
        PROVE  /\ IInv'
               /\ \A i \in Jobs : jobStatus[i] \in TerminalStatuses => jobStatus'[i] = jobStatus[i]
    BY <1>1, EnqueueInv
  <1>2. ASSUME NEW b \in Bundles, LoadSnapshot(b)
        PROVE  IInv' /\ jobStatus' = jobStatus
    BY <1>2, LoadSnapshotInv
  <1>3. ASSUME NEW w \in Workers, Claim(w)
        PROVE  /\ IInv'
               /\ \A i \in Jobs : jobStatus[i] \in TerminalStatuses => jobStatus'[i] = jobStatus[i]
    BY <1>3, ClaimInv
  <1>4. ASSUME NEW w \in Workers, Execute(w)
        PROVE  /\ IInv'
               /\ \A i \in Jobs : jobStatus[i] \in TerminalStatuses => jobStatus'[i] = jobStatus[i]
    BY <1>4, FileSucceedsInv, FileFailsInv, FinalizeSucceedsInv, FinalizeFailsInv
       DEF Execute, Dispositions
  <1>5. ASSUME NEW w \in Workers, Crash(w)
        PROVE  IInv' /\ jobStatus' = jobStatus
    BY <1>5, CrashInv
  <1>6. ASSUME UNCHANGED vars
        PROVE  IInv' /\ jobStatus' = jobStatus
    BY <1>6 DEF vars, IInv, TypeOK, RowsFollowBundle, Enqueued, ExclusiveClaim, PairOrder,
                Started, FinalizeBarrier, FileStatuses, AnySucceeded
  <1> QED BY <1>1, <1>2, <1>3, <1>4, <1>5, <1>6 DEF Next

-----------------------------------------------------------------------------
(* Theorems.                                                               *)

(* The inductive invariant of the queue holds of every behaviour.          *)
THEOREM Invariance == Spec => []IInv
PROOF
  <1>1. IInv /\ [Next]_vars => IInv'
    BY StepInv
  <1> QED BY InitInv, <1>1, PTL DEF Spec

(* Tables and workers keep within their domains, for any files, bundles,   *)
(* workers, retry limit and number of crashes.                             *)
THEOREM TypeCorrect == Spec => []TypeOK
PROOF
  <1>1. IInv => TypeOK
    BY DEF IInv
  <1> QED BY Invariance, <1>1, PTL

(* No two workers execute one job, and each one's claim is the newest      *)
(* attempt of a running job.                                               *)
THEOREM ClaimsAreExclusive == Spec => []ExclusiveClaim
PROOF
  <1>1. IInv => ExclusiveClaim
    BY DEF IInv
  <1> QED BY Invariance, <1>1, PTL

(* A file job is never tried before the job it depends on has succeeded.   *)
THEOREM PairsRunInOrder == Spec => []PairOrder
PROOF
  <1>1. IInv => PairOrder
    BY DEF IInv
  <1> QED BY Invariance, <1>1, PTL

(* A finalize job exists only after all file jobs of its bundle are done.  *)
THEOREM FinalizeWaits == Spec => []FinalizeBarrier
PROOF
  <1>1. IInv => FinalizeBarrier
    BY DEF IInv
  <1> QED BY Invariance, <1>1, PTL

(* No step takes a job out of a terminal status.                           *)
THEOREM TerminalStays == Spec => TerminalIsFinal
PROOF
  <1>1. IInv /\ [Next]_vars =>
          [\A j \in Jobs : jobStatus[j] \in TerminalStatuses => jobStatus'[j] = jobStatus[j]]_vars
    BY StepInv
  <1> QED BY Invariance, <1>1, PTL DEF Spec, TerminalIsFinal

-----------------------------------------------------------------------------
(* The outcomes of a failure.                                              *)

(* The queued files that go with a running job j when it fails for good.   *)
WaitingFor(j) == QueuedDependents([jobStatus EXCEPT ![j] = "failed_terminal"], j)

(* What waits for a running job is queued, of its bundle, and has its own  *)
(* dependency in the same set.                                             *)
LEMMA WaitingFiles ==
  ASSUME jobStatus \in [Jobs -> Statuses], NEW j \in Jobs, jobStatus[j] = "running"
  PROVE  /\ j \notin WaitingFor(j)
         /\ \A f \in WaitingFor(j) :
              /\ f \in Files /\ jobStatus[f] = "queued"
              /\ j \in Files /\ BundleOf[f] = BundleOf[j]
              /\ DependsOn[f] # None /\ DependsOn[f] \in WaitingFor(j) \cup {j}
         /\ \A f \in Files : /\ jobStatus[f] = "queued"
                             /\ DependsOn[f] \in WaitingFor(j) \cup {j}
                            => f \in WaitingFor(j)
PROOF
  <1> DEFINE dead == [jobStatus EXCEPT ![j] = "failed_terminal"]
  <1>1. dead[j] = "failed_terminal" /\ \A i \in Jobs \ {j} : dead[i] = jobStatus[i]
    OBVIOUS
  <1>2. j \notin WaitingFor(j)
    BY <1>1, DependentsAreQueued DEF WaitingFor
  <1>3. ASSUME NEW f \in WaitingFor(j)
        PROVE  /\ f \in Files /\ jobStatus[f] = "queued"
               /\ j \in Files /\ BundleOf[f] = BundleOf[j]
               /\ DependsOn[f] # None /\ DependsOn[f] \in WaitingFor(j) \cup {j}
    <2>1. f \in Files /\ f \in Jobs /\ dead[f] = "queued"
      BY <1>3, DependentsAreQueued DEF WaitingFor, Jobs
    <2>2. jobStatus[f] = "queued"
      BY <1>1, <2>1
    <2>3. j \in Files
      BY <1>3, NobodyWaitsForFinalize DEF WaitingFor, Jobs
    <2>4. BundleOf[f] = BundleOf[j] /\ DependsOn[f] # None
      BY <1>3, <2>3, DependentsShareBundle DEF WaitingFor
    <2>5. DependsOn[f] \in WaitingFor(j) \cup {j}
      BY <1>3, DependentsGrounded DEF WaitingFor
    <2> QED BY <2>1, <2>2, <2>3, <2>4, <2>5
  <1>4. ASSUME NEW f \in Files, jobStatus[f] = "queued",
               DependsOn[f] \in WaitingFor(j) \cup {j}
        PROVE  f \in WaitingFor(j)
    <2>1. dead[f] = "queued"
      BY <1>1, <1>4 DEF Jobs
    <2> QED BY <1>4, <2>1, DependentsClosed DEF WaitingFor
  <1> QED BY <1>2, <1>3, <1>4

(* A failure has two outcomes.  The job is queued again, after a retriable *)
(* error with attempts left, and nothing else changes; or it is dead and   *)
(* the files waiting for it are dropped.                                   *)
Requeued(after, j, disposition) ==
  /\ disposition = "failed_retriable" /\ ~(Len(attempts[j]) >= MaxAttempts)
  /\ after[j] = "queued"
  /\ \A i \in Jobs \ {j} : after[i] = jobStatus[i]
Died(after, j) ==
  /\ after[j] = "failed_terminal"
  /\ \A i \in Jobs \ {j} :
       after[i] = IF i \in WaitingFor(j) THEN "failed_terminal" ELSE jobStatus[i]

(* A failed execution ends in one of two ways: the job is queued again, or *)
(* it is dead and takes what waits for it along.                           *)
LEMMA FailureCases ==
  ASSUME jobStatus \in [Jobs -> Statuses], NEW j \in Jobs, jobStatus[j] = "running",
         NEW disposition \in Dispositions,
         j \in Bundles => disposition = "failed_retriable",
         NEW after, after = Retried(MarkedFailed(j, disposition), j)
  PROVE  Requeued(after, j, disposition) \/ Died(after, j)
PROOF
  <1> DEFINE dead == [jobStatus EXCEPT ![j] = "failed_terminal"]
  <1>1. dead[j] = "failed_terminal" /\ \A i \in Jobs \ {j} : dead[i] = jobStatus[i]
    OBVIOUS
  <1>2. Died(Propagate(dead, j), j)
    BY <1>1, WaitingFiles DEF Died, Propagate, WaitingFor
  <1>3. CASE disposition = "failed_terminal"
    <2>1. j \in Files
      BY <1>3 DEF Jobs
    <2>2. MarkedFailed(j, disposition) = Propagate(dead, j)
      BY <1>3, <2>1 DEF MarkedFailed
    <2>3. after = Propagate(dead, j)
      BY <1>2, <2>2 DEF Retried, Died
    <2> QED BY <1>2, <2>3
  <1>4. CASE disposition = "failed_retriable"
    <2> DEFINE failed == [jobStatus EXCEPT ![j] = "failed_retriable"]
    <2>1. MarkedFailed(j, disposition) = failed /\ failed[j] = "failed_retriable"
      BY <1>4 DEF MarkedFailed
    <2>2. CASE Len(attempts[j]) >= MaxAttempts
      <3>1. [failed EXCEPT ![j] = "failed_terminal"] = dead
        OBVIOUS
      <3>2. Retried(failed, j) = Propagate(dead, j)
        BY <2>1, <2>2, <3>1 DEF Retried
      <3> QED BY <1>2, <2>1, <3>2
    <2>3. CASE ~(Len(attempts[j]) >= MaxAttempts)
      <3>1. Retried(failed, j) = [failed EXCEPT ![j] = "queued"]
        BY <2>1, <2>3 DEF Retried
      <3>2. after = [failed EXCEPT ![j] = "queued"]
        BY <2>1, <3>1
      <3> QED BY <1>4, <2>3, <3>2 DEF Requeued
    <2> QED BY <2>2, <2>3
  <1> QED BY <1>3, <1>4 DEF Dispositions

-----------------------------------------------------------------------------
(* The end of an execution.                                                *)

(* It rewrites the newest attempt row of its job, and no other row.        *)
LEMMA CloseRow ==
  ASSUME IInv, NEW w \in Workers, held[w] # None, NEW outcome \in JobStatuses,
         Close(w, outcome)
  PROVE  /\ \A i \in Jobs \ {held[w]} : attempts'[i] = attempts[i]
         /\ attempts[held[w]] # <<>> /\ attempts'[held[w]] # <<>>
         /\ Len(attempts'[held[w]]) = Len(attempts[held[w]])
         /\ Len(attempts[held[w]]) \in Nat
         /\ attempts'[held[w]][Len(attempts[held[w]])] = outcome
         /\ \A i \in 1..(Len(attempts[held[w]]) - 1) :
              attempts'[held[w]][i] = attempts[held[w]][i]
PROOF
  <1> DEFINE j == held[w]
             k == heldAttempt[w]
             row == [attempts[j] EXCEPT ![k] = outcome]
  <1>1. j \in Jobs /\ attempts[j] \in Seq(JobStatuses)
    BY DEF IInv, TypeOK
  <1>2. k = Len(attempts[j]) /\ attempts[j] # <<>>
    BY DEF IInv, ExclusiveClaim, Started
  <1>3. Len(attempts[j]) \in Nat /\ k \in 1..Len(attempts[j])
    BY <1>1, <1>2
  <1>4. /\ row \in Seq(JobStatuses) /\ Len(row) = Len(attempts[j])
        /\ \A i \in 1..Len(attempts[j]) : row[i] = IF i = k THEN outcome ELSE attempts[j][i]
    BY <1>1, <1>3, ExceptSeq
  <1>5. attempts' = [attempts EXCEPT ![j] = row]
    BY DEF Close
  <1>6. attempts'[j] = row /\ \A i \in Jobs \ {j} : attempts'[i] = attempts[i]
    BY <1>1, <1>5 DEF IInv, TypeOK
  <1>7. row # <<>>
    BY <1>1, <1>2, <1>4, EmptySeq
  <1>8. row[Len(attempts[j])] = outcome
    BY <1>2, <1>3, <1>4
  <1>9. \A i \in 1..(Len(attempts[j]) - 1) : row[i] = attempts[j][i]
    BY <1>2, <1>3, <1>4
  <1> HIDE DEF row
  <1> QED BY <1>2, <1>3, <1>4, <1>6, <1>7, <1>8, <1>9

(* A file whose dependency is queued or running is queued and was never    *)
(* tried: it cannot have started, been dropped or lost its row.            *)
LEMMA WaitsUntried ==
  ASSUME OutcomeInv, NEW f \in Files, DependsOn[f] # None,
         jobStatus[DependsOn[f]] \in {"queued", "running"}
  PROVE  jobStatus[f] = "queued" /\ ~Started(f)
PROOF
  <1> DEFINE d == DependsOn[f]
  <1>1. d \in Files /\ d \in Jobs /\ f \in Jobs /\ BundleOf[d] = BundleOf[f]
    BY DependsOnAssumption, EarlierMemberAssumption DEF Jobs
  <1>2. ~Started(f)
    BY DEF OutcomeInv, IInv, PairOrder
  <1>3. jobStatus[f] # "running" /\ jobStatus[f] # "succeeded"
    BY <1>1, <1>2 DEF OutcomeInv, AttemptLedger
  <1>4. jobStatus[f] # "failed_terminal"
    BY <1>2 DEF OutcomeInv, FailureHasReason, DependentsFollow
  <1>5. jobStatus[f] # "failed_retriable"
    BY <1>1 DEF OutcomeInv, NothingRetriable
  <1>6. jobStatus[f] # "absent"
    BY <1>1 DEF OutcomeInv, IInv, RowsFollowBundle
  <1>7. jobStatus[f] \in JobStatuses \cup {"absent"}
    BY <1>1 DEF OutcomeInv, IInv, TypeOK
  <1> QED BY <1>2, <1>3, <1>4, <1>5, <1>6, <1>7 DEF JobStatuses

(* The ledger of one job, as AttemptLedger states it.                      *)
LedgerOf(j) ==
  /\ \A i \in 1..(Len(attempts[j]) - 1) : attempts[j][i] = "failed_retriable"
  /\ jobStatus[j] = "running" <=> Started(j) /\ LastRow(j) = "running"
  /\ jobStatus[j] = "succeeded" => Started(j) /\ LastRow(j) = "succeeded"
  /\ jobStatus[j] = "queued" /\ Started(j) =>
       LastRow(j) = "failed_retriable" /\ Len(attempts[j]) < MaxAttempts
  /\ Len(attempts[j]) <= MaxAttempts \/ Len(attempts[j]) <= 1

(* The ledger job by job, which is how a step is looked at.                *)
LEMMA LedgerByJob ==
  /\ AttemptLedger <=> \A j \in Jobs : LedgerOf(j)
  /\ AttemptLedger' <=> \A j \in Jobs : LedgerOf(j)'
BY DEF AttemptLedger, LedgerOf

(* The ledger after an execution: the newest row of the job gets the       *)
(* outcome that explains the status the job is left in.                    *)
Explains(outcome, j) ==
  /\ outcome \in {"succeeded", "failed_retriable", "failed_terminal"}
  /\ jobStatus'[j] \in {"succeeded", "queued", "failed_terminal"}
  /\ jobStatus'[j] = "succeeded" => outcome = "succeeded"
  /\ jobStatus'[j] = "queued" =>
       outcome = "failed_retriable" /\ ~(Len(attempts[j]) >= MaxAttempts)
  /\ \A i \in Jobs \ {j} :
       \/ jobStatus'[i] = jobStatus[i]
       \/ jobStatus[i] = "queued" /\ jobStatus'[i] = "failed_terminal"
       \/ jobStatus[i] = "absent" /\ jobStatus'[i] = "queued"

(* The row an ended attempt gets explains what became of its job.          *)
LEMMA LedgerAfterEnd ==
  ASSUME OutcomeInv, NEW w \in Workers, NEW j \in Jobs, held[w] = j, NEW outcome,
         Close(w, outcome), Explains(outcome, j)
  PROVE  NothingRetriable' /\ AbsentIsUntried' /\ AttemptLedger'
PROOF
  <1>1. j # None /\ jobStatus[j] = "running" /\ outcome \in JobStatuses
    BY NamesAssumption DEF OutcomeInv, IInv, ExclusiveClaim, Explains, Jobs, JobStatuses
  <1>2. /\ \A i \in Jobs \ {j} : attempts'[i] = attempts[i]
        /\ attempts[j] # <<>> /\ attempts'[j] # <<>>
        /\ Len(attempts'[j]) = Len(attempts[j])
        /\ Len(attempts[j]) \in Nat
        /\ attempts'[j][Len(attempts[j])] = outcome
        /\ \A i \in 1..(Len(attempts[j]) - 1) : attempts'[j][i] = attempts[j][i]
    BY <1>1, CloseRow DEF OutcomeInv
  <1>3. NothingRetriable'
    BY DEF OutcomeInv, NothingRetriable, Explains
  <1>4. AbsentIsUntried'
    <2> SUFFICES ASSUME NEW i \in Jobs, jobStatus'[i] = "absent"
                 PROVE  attempts'[i] = <<>>
      BY DEF AbsentIsUntried, Started
    <2>1. i # j /\ jobStatus[i] = "absent"
      BY <1>1 DEF Explains
    <2> QED BY <1>2, <2>1 DEF OutcomeInv, AbsentIsUntried, Started
  <1>5. AttemptLedger'
    <2> SUFFICES ASSUME NEW i \in Jobs PROVE LedgerOf(i)'
      BY LedgerByJob
    <2>0. LedgerOf(i)
      BY LedgerByJob DEF OutcomeInv
    <2>1. CASE i = j
      <3>1. Started(j)' /\ LastRow(j)' = outcome
        BY <1>2 DEF Started, LastRow
      <3>2. ~(Len(attempts[j]) >= MaxAttempts) => Len(attempts[j]) < MaxAttempts
        BY <1>2, BoundsAssumption
      <3>3. jobStatus'[j] = "queued" =>
              LastRow(j)' = "failed_retriable" /\ Len(attempts'[j]) < MaxAttempts
        BY <1>2, <3>1, <3>2 DEF Explains
      <3>4. \A n \in 1..(Len(attempts'[j]) - 1) : attempts'[j][n] = "failed_retriable"
        BY <1>2, <2>0, <2>1 DEF LedgerOf
      <3>5. Len(attempts'[j]) <= MaxAttempts \/ Len(attempts'[j]) <= 1
        BY <1>2, <2>0, <2>1 DEF LedgerOf
      <3>6. jobStatus'[j] # "running" /\ outcome # "running"
        BY DEF Explains
      <3>7. jobStatus'[j] = "succeeded" => LastRow(j)' = "succeeded"
        BY <3>1 DEF Explains
      <3> QED BY <2>1, <3>1, <3>3, <3>4, <3>5, <3>6, <3>7 DEF LedgerOf
    <2>2. CASE i # j
      <3>1. /\ attempts'[i] = attempts[i]
            /\ Started(i)' <=> Started(i)
            /\ LastRow(i)' = LastRow(i)
        BY <1>2, <2>2 DEF Started, LastRow
      <3>2. CASE jobStatus'[i] = jobStatus[i]
        BY <2>0, <3>1, <3>2 DEF LedgerOf
      <3>3. CASE jobStatus[i] = "queued" /\ jobStatus'[i] = "failed_terminal"
        BY <2>0, <3>1, <3>3 DEF LedgerOf
      <3>4. CASE jobStatus[i] = "absent" /\ jobStatus'[i] = "queued"
        <4>1. ~Started(i)
          BY <3>4 DEF OutcomeInv, AbsentIsUntried
        <4> QED BY <2>0, <3>1, <3>4, <4>1 DEF LedgerOf
      <3> QED BY <2>2, <3>2, <3>3, <3>4 DEF Explains
    <2> QED BY <2>1, <2>2
  <1> QED BY <1>3, <1>4, <1>5

(* The files after an execution of job j: those of W are dropped with      *)
(* dependency_failed, the others stay as they are.  W is what waits for j  *)
(* when j failed for good, and empty otherwise.                            *)
Drops(j, W) ==
  /\ W = IF jobStatus'[j] = "failed_terminal" THEN WaitingFor(j) ELSE {}
  /\ jobStatus'[j] # "absent"
  /\ \A f \in Files \ {j} :
       IF f \in W
         THEN jobStatus'[f] = "failed_terminal" /\ errorCode'[f] = "dependency_failed"
         ELSE jobStatus'[f] = jobStatus[f] /\ errorCode'[f] = errorCode[f]
  /\ j \in Files => errorCode'[j] # "dependency_failed"

(* What is dropped with a job is what waited for it, and nothing else.     *)
LEMMA FilesAfterEnd ==
  ASSUME OutcomeInv, NEW w \in Workers, NEW j \in Jobs, held[w] = j, NEW outcome \in JobStatuses,
         Close(w, outcome), NEW W, Drops(j, W)
  PROVE  FailureHasReason' /\ DependentsFollow'
PROOF
  <1>1. j # None /\ jobStatus[j] = "running" /\ attempts[j] # <<>>
    BY NamesAssumption DEF OutcomeInv, IInv, ExclusiveClaim, Started, Jobs
  <1>2. \A i \in Jobs : attempts'[i] = <<>> <=> attempts[i] = <<>>
    BY <1>1, CloseEffect DEF OutcomeInv
  <1>3. jobStatus \in [Jobs -> Statuses]
    BY DEF OutcomeInv, IInv, TypeOK, Statuses
  <1>4. /\ j \notin WaitingFor(j)
        /\ \A f \in WaitingFor(j) :
              /\ f \in Files /\ jobStatus[f] = "queued"
              /\ j \in Files
              /\ DependsOn[f] # None /\ DependsOn[f] \in WaitingFor(j) \cup {j}
        /\ \A f \in Files : /\ jobStatus[f] = "queued"
                            /\ DependsOn[f] \in WaitingFor(j) \cup {j}
                            => f \in WaitingFor(j)
    BY <1>1, <1>3, WaitingFiles
  <1>5. Files \subseteq Jobs
    BY DEF Jobs
  <1>6. FailureHasReason'
    <2> SUFFICES ASSUME NEW f \in Files, jobStatus'[f] = "failed_terminal", attempts'[f] = <<>>
                 PROVE  errorCode'[f] = "dependency_failed"
      BY DEF FailureHasReason, Started
    <2>1. f # j /\ attempts[f] = <<>>
      BY <1>1, <1>2, <1>5
    <2>2. CASE f \in W
      BY <2>1, <2>2 DEF Drops
    <2>3. CASE f \notin W
      BY <2>1, <2>3 DEF Drops, OutcomeInv, FailureHasReason, Started
    <2> QED BY <2>2, <2>3
  <1>7. ASSUME NEW f \in Files, DependsOn[f] # None,
               jobStatus'[DependsOn[f]] = "failed_terminal"
        PROVE  jobStatus'[f] = "failed_terminal" /\ errorCode'[f] = "dependency_failed"
    <2> DEFINE d == DependsOn[f]
    <2>1. d \in Files
      BY <1>7, DependsOnAssumption
    <2>2. CASE d = j \/ d \in W
      <3>1. jobStatus'[j] = "failed_terminal" /\ W = WaitingFor(j)
        BY <1>7, <2>2 DEF Drops
      <3>2. jobStatus[d] \in {"queued", "running"}
        BY <1>1, <1>4, <2>2, <3>1
      <3>3. jobStatus[f] = "queued"
        BY <1>7, <3>2, WaitsUntried
      <3>4. f \in W /\ f # j
        BY <1>1, <1>4, <2>2, <3>1, <3>3
      <3> QED BY <3>4 DEF Drops
    <2>3. CASE d # j /\ d \notin W
      <3>1. jobStatus[d] = "failed_terminal"
        BY <1>7, <2>1, <2>3 DEF Drops
      <3>2. jobStatus[f] = "failed_terminal" /\ errorCode[f] = "dependency_failed"
        BY <1>7, <3>1 DEF OutcomeInv, DependentsFollow
      <3>3. f # j
        BY <1>1, <3>2
      <3> QED BY <3>2, <3>3 DEF Drops
    <2> QED BY <2>2, <2>3
  <1>8. ASSUME NEW f \in Files, errorCode'[f] = "dependency_failed"
        PROVE  /\ attempts'[f] = <<>> /\ DependsOn[f] # None
               /\ jobStatus'[DependsOn[f]] = "failed_terminal"
    <2>1. f # j
      BY <1>8 DEF Drops
    <2>2. CASE f \in W
      <3>1. jobStatus'[j] = "failed_terminal" /\ W = WaitingFor(j)
        BY <2>2 DEF Drops
      <3>2. j \in Files /\ DependsOn[f] # None /\ DependsOn[f] \in W \cup {j}
        BY <1>4, <2>2, <3>1
      <3>3. jobStatus'[DependsOn[f]] = "failed_terminal"
        BY <1>4, <3>1, <3>2 DEF Drops
      <3>4. jobStatus[DependsOn[f]] \in {"queued", "running"}
        BY <1>1, <1>4, <3>1, <3>2
      <3>5. attempts[f] = <<>>
        BY <3>2, <3>4, WaitsUntried DEF Started
      <3> QED BY <1>2, <1>5, <3>2, <3>3, <3>5
    <2>3. CASE f \notin W
      <3>1. errorCode[f] = "dependency_failed"
        BY <1>8, <2>1, <2>3 DEF Drops
      <3>2. /\ attempts[f] = <<>> /\ DependsOn[f] # None
            /\ jobStatus[DependsOn[f]] = "failed_terminal"
        BY <3>1 DEF OutcomeInv, DependentsFollow, Started
      <3>3. DependsOn[f] \in Files /\ DependsOn[f] # j
        BY <1>1, <3>2, DependsOnAssumption
      <3>4. jobStatus'[DependsOn[f]] = "failed_terminal"
        BY <3>2, <3>3 DEF Drops
      <3> QED BY <1>2, <1>5, <3>2, <3>4
    <2> QED BY <2>2, <2>3
  <1>9. DependentsFollow'
    BY <1>7, <1>8 DEF DependentsFollow, Started
  <1> QED BY <1>6, <1>9

(* Once maybe_enqueue_finalize_job has run for the bundle of the file that *)
(* ended, no bundle is owed a finalize job but those whose transactions    *)
(* overlapped.                                                             *)
LEMMA FinalizeOffered ==
  ASSUME OutcomeInv, NEW b \in Bundles, NEW js \in [Jobs -> Statuses], NEW w \in Workers,
         \A i \in Jobs : i \notin FilesOf(b) => js[i] = jobStatus[i],
         jobStatus' = WithFinalize(js, Counted(w, js), b), Remembers(w, b)
  PROVE  FinalizeFollows'
PROOF
  <1> DEFINE seen == Counted(w, js)
  <1>1. \A i \in Jobs \ {b} : jobStatus'[i] = js[i]
    BY WithFinalizeEffect
  <1>2. \A c \in Bundles : c \in Jobs /\ c \notin Files /\ FilesOf(c) \subseteq Jobs \ Bundles
    BY NamesAssumption DEF Jobs, FilesOf
  <1>3. late[w] = {} => seen = js
    BY CountedEffect DEF OutcomeInv, IInv, TypeOK
  <1>4. ASSUME NEW c \in Bundles, FinalizeDue(jobStatus', c) PROVE c \in overlapped'
    <2>1. CASE c # b
      <3>1. jobStatus'[c] = jobStatus[c]
        BY <1>1, <1>2, <2>1 DEF FilesOf
      <3>2. \A f \in FilesOf(c) : jobStatus'[f] = jobStatus[f]
        BY <1>1, <1>2, <2>1 DEF FilesOf
      <3>3. FinalizeDue(jobStatus, c)
        BY <1>4, <3>1, <3>2, DueByStatus
      <3> QED BY <2>1, <3>3 DEF OutcomeInv, FinalizeFollows, FinalizeLost, Remembers
    <2>2. CASE c = b
      <3>1. CASE FinalizeDue(seen, b)
        <4>1. jobStatus'[b] = "queued"
          BY <1>2, <3>1 DEF WithFinalize
        <4> QED BY <1>4, <2>2, <4>1 DEF FinalizeDue
      <3>2. CASE ~FinalizeDue(seen, b)
        <4>1. jobStatus' = js
          BY <3>2 DEF WithFinalize
        <4>2. late[w] # {}
          BY <1>3, <1>4, <2>2, <3>2, <4>1
        <4> QED BY <2>2, <4>2 DEF Remembers
      <3> QED BY <3>1, <3>2
    <2> QED BY <2>1, <2>2
  <1> QED BY <1>4 DEF FinalizeFollows, FinalizeLost

-----------------------------------------------------------------------------
(* The inductive invariant holds initially and every transaction keeps it. *)

(* Before the first enqueue there is nothing to be wrong about.            *)
LEMMA InitOutcome == Init => OutcomeInv
PROOF
  <1> SUFFICES ASSUME Init PROVE OutcomeInv
    OBVIOUS
  <1>1. IInv
    BY InitInv
  <1>2. Files \subseteq Jobs
    BY DEF Jobs
  <1>3. \A j \in Jobs : jobStatus[j] = "absent" /\ errorCode[j] = "none" /\ attempts[j] = <<>>
    BY DEF Init
  <1>4. NothingRetriable /\ AbsentIsUntried
    BY <1>3 DEF NothingRetriable, AbsentIsUntried, Started
  <1>5. AttemptLedger
    BY <1>3 DEF AttemptLedger, Started
  <1>6. FailureHasReason /\ DependentsFollow
    BY <1>2, <1>3, DependsOnAssumption DEF FailureHasReason, DependentsFollow
  <1>7. FinalizeFollows
    BY <1>2, <1>3 DEF FinalizeFollows, FinalizeDue, FileStatuses, FilesOf
  <1>8. PersistedSucceeded
    BY <1>2, <1>3 DEF Init, PersistedSucceeded
  <1> QED BY <1>1, <1>4, <1>5, <1>6, <1>7, <1>8 DEF OutcomeInv

(* The files of an enqueued bundle go from absent to queued.               *)
LEMMA EnqueueOutcome ==
  ASSUME OutcomeInv, NEW b \in Bundles, EnqueueBundle(b)
  PROVE  OutcomeInv'
PROOF
  <1>1. IInv'
    BY EnqueueInv DEF OutcomeInv
  <1>2. /\ \A i \in Jobs : jobStatus'[i] = IF i \in FilesOf(b) THEN "queued" ELSE jobStatus[i]
        /\ UNCHANGED <<errorCode, attempts, persisted, overlapped>>
    BY DEF EnqueueBundle
  <1>3. \A f \in FilesOf(b) : f \in Files /\ f \in Jobs /\ jobStatus[f] = "absent"
                              /\ attempts[f] = <<>>
    BY DEF OutcomeInv, AbsentIsUntried, Started, IInv, RowsFollowBundle, EnqueueBundle,
           FilesOf, Jobs
  <1>4. NothingRetriable' /\ AbsentIsUntried'
    BY <1>2, <1>3 DEF OutcomeInv, NothingRetriable, AbsentIsUntried, Started
  <1>5. AttemptLedger'
    <2> SUFFICES ASSUME NEW i \in Jobs PROVE LedgerOf(i)'
      BY LedgerByJob
    <2>1. LedgerOf(i)
      BY LedgerByJob DEF OutcomeInv
    <2>2. CASE i \in FilesOf(b)
      <3>1. ~Started(i) /\ jobStatus'[i] = "queued" /\ jobStatus[i] = "absent"
        BY <1>2, <1>3, <2>2 DEF Started
      <3> QED BY <1>2, <2>1, <3>1 DEF LedgerOf, Started, LastRow
    <2>3. CASE i \notin FilesOf(b)
      BY <1>2, <2>1, <2>3 DEF LedgerOf, Started, LastRow
    <2> QED BY <2>2, <2>3
  <1>6. FailureHasReason'
    BY <1>2, <1>3 DEF OutcomeInv, FailureHasReason, Started, Jobs
  <1>7. DependentsFollow'
    <2>1. \A i \in Jobs : jobStatus'[i] = "failed_terminal" <=> jobStatus[i] = "failed_terminal"
      BY <1>2, <1>3
    <2>2. \A f \in Files : f \in Jobs /\ (DependsOn[f] # None => DependsOn[f] \in Jobs)
      BY DependsOnAssumption DEF Jobs
    <2> QED BY <1>2, <2>1, <2>2 DEF OutcomeInv, DependentsFollow, Started
  <1>8. FinalizeFollows'
    <2> SUFFICES ASSUME NEW c \in Bundles, FinalizeDue(jobStatus', c) PROVE c \in overlapped'
      BY DEF FinalizeFollows, FinalizeLost
    <2>1. CASE c = b
      BY <1>2, <1>3, <2>1 DEF FinalizeDue, FileStatuses
    <2>2. CASE c # b
      <3>1. /\ jobStatus'[c] = jobStatus[c]
            /\ \A f \in FilesOf(c) : jobStatus'[f] = jobStatus[f]
        BY <1>2, <2>2, NamesAssumption DEF FilesOf, Jobs
      <3>2. FinalizeDue(jobStatus, c)
        BY <3>1, DueByStatus
      <3> QED BY <1>2, <3>2 DEF OutcomeInv, FinalizeFollows, FinalizeLost
    <2> QED BY <2>1, <2>2
  <1>9. PersistedSucceeded'
    BY <1>2, <1>3 DEF OutcomeInv, PersistedSucceeded, Jobs
  <1> QED BY <1>1, <1>4, <1>5, <1>6, <1>7, <1>8, <1>9 DEF OutcomeInv

(* A claim opens the next attempt row of a queued job.                     *)
LEMMA ClaimOutcome ==
  ASSUME OutcomeInv, NEW w \in Workers, Claim(w)
  PROVE  OutcomeInv'
PROOF
  <1>1. IInv'
    BY ClaimInv DEF OutcomeInv
  <1>2. PICK j \in Jobs :
          /\ NextJob(j)
          /\ jobStatus' = [jobStatus EXCEPT ![j] = "running"]
          /\ attempts' = [attempts EXCEPT ![j] = Append(@, "running")]
    BY DEF Claim
  <1>3. UNCHANGED <<errorCode, persisted, overlapped>>
    BY DEF Claim
  <1>4. jobStatus[j] = "queued"
    BY <1>2 DEF NextJob, Claimable
  <1>5. attempts[j] \in Seq(JobStatuses) /\ Len(attempts[j]) \in Nat
    BY DEF OutcomeInv, IInv, TypeOK
  <1>6. /\ attempts'[j] # <<>> /\ Len(attempts'[j]) = Len(attempts[j]) + 1
        /\ attempts'[j][Len(attempts[j]) + 1] = "running"
        /\ \A i \in 1..Len(attempts[j]) : attempts'[j][i] = attempts[j][i]
    <2>1. attempts'[j] = Append(attempts[j], "running")
      BY <1>2 DEF OutcomeInv, IInv, TypeOK
    <2>2. "running" \in JobStatuses
      BY DEF JobStatuses
    <2> QED BY <1>5, <2>1, <2>2, AppendProperties
  <1>7. /\ jobStatus'[j] = "running"
        /\ \A i \in Jobs \ {j} : jobStatus'[i] = jobStatus[i] /\ attempts'[i] = attempts[i]
    BY <1>2 DEF OutcomeInv, IInv, TypeOK
  <1>8. NothingRetriable' /\ AbsentIsUntried'
    BY <1>7 DEF OutcomeInv, NothingRetriable, AbsentIsUntried, Started
  <1>9. AttemptLedger'
    <2> SUFFICES ASSUME NEW i \in Jobs PROVE LedgerOf(i)'
      BY LedgerByJob
    <2>1. LedgerOf(i)
      BY LedgerByJob DEF OutcomeInv
    <2>2. CASE i = j
      <3>1. Started(j)' /\ LastRow(j)' = "running"
        BY <1>6 DEF Started, LastRow
      <3>2. CASE Started(j)
        <4>1. LastRow(j) = "failed_retriable" /\ Len(attempts[j]) < MaxAttempts
          BY <1>4, <2>1, <2>2, <3>2 DEF LedgerOf
        <4>2. \A n \in 1..Len(attempts[j]) : attempts[j][n] = "failed_retriable"
          BY <1>5, <2>1, <2>2, <4>1 DEF LedgerOf, LastRow
        <4>3. \A n \in 1..(Len(attempts'[j]) - 1) : attempts'[j][n] = "failed_retriable"
          BY <1>5, <1>6, <4>2
        <4>4. Len(attempts'[j]) <= MaxAttempts
          BY <1>5, <1>6, <4>1, BoundsAssumption
        <4> QED BY <1>7, <2>2, <3>1, <4>3, <4>4 DEF LedgerOf
      <3>3. CASE ~Started(j)
        <4>1. Len(attempts'[j]) = 1
          BY <1>6, <3>3 DEF Started
        <4> QED BY <1>7, <2>2, <3>1, <4>1 DEF LedgerOf
      <3> QED BY <3>2, <3>3
    <2>3. CASE i # j
      BY <1>7, <2>1, <2>3 DEF LedgerOf, Started, LastRow
    <2> QED BY <2>2, <2>3
  <1>10. Files \subseteq Jobs /\ \A f \in Files : DependsOn[f] # None => DependsOn[f] \in Jobs
    BY DependsOnAssumption DEF Jobs
  <1>11. FailureHasReason'
    BY <1>3, <1>7, <1>10 DEF OutcomeInv, FailureHasReason, Started
  <1>12. DependentsFollow'
    <2>1. \A i \in Jobs : jobStatus'[i] = "failed_terminal" <=> jobStatus[i] = "failed_terminal"
      BY <1>4, <1>7
    <2>2. \A f \in Files : errorCode[f] = "dependency_failed" =>
            /\ attempts[f] = <<>> /\ DependsOn[f] # None
            /\ jobStatus[DependsOn[f]] = "failed_terminal" /\ jobStatus[f] = "failed_terminal"
      BY DEF OutcomeInv, DependentsFollow, Started
    <2>3. \A f \in Files : errorCode[f] = "dependency_failed" => f # j /\ attempts'[f] = <<>>
      BY <1>4, <1>7, <1>10, <2>2
    <2> QED BY <1>3, <1>10, <2>1, <2>2, <2>3 DEF OutcomeInv, DependentsFollow, Started
  <1>13. FinalizeFollows'
    <2> SUFFICES ASSUME NEW c \in Bundles, FinalizeDue(jobStatus', c) PROVE c \in overlapped'
      BY DEF FinalizeFollows, FinalizeLost
    <2>1. c # j /\ j \notin FilesOf(c)
      BY <1>7 DEF FinalizeDue, FileStatuses, ActiveStatuses
    <2>2. jobStatus[c] = jobStatus'[c] /\ \A f \in FilesOf(c) : jobStatus[f] = jobStatus'[f]
      BY <1>7, <2>1 DEF FilesOf, Jobs
    <2>3. FinalizeDue(jobStatus, c)
      BY <2>2, DueByStatus
    <2> QED BY <1>3, <2>3 DEF OutcomeInv, FinalizeFollows, FinalizeLost
  <1>14. PersistedSucceeded'
    BY <1>3, <1>4, <1>7, <1>10 DEF OutcomeInv, PersistedSucceeded
  <1> QED BY <1>1, <1>8, <1>9, <1>11, <1>12, <1>13, <1>14 DEF OutcomeInv

(* A file that succeeds was running; its rows enter the core tables with   *)
(* the status.                                                             *)
LEMMA FileSucceedsOutcome ==
  ASSUME OutcomeInv, NEW w \in Workers, NEW f, held[w] = f, FileSucceeds(w)
  PROVE  OutcomeInv'
PROOF
  <1> DEFINE b == BundleOf[f]
             done == [jobStatus EXCEPT ![f] = "succeeded"]
             seen == Counted(w, done)
  <1>1. f \in Files /\ f # None /\ f \in Jobs /\ b \in Bundles /\ b \in Jobs /\ f # b
    BY BundleOfAssumption, NamesAssumption DEF FileSucceeds, Jobs
  <1>2. jobStatus[f] = "running"
    BY <1>1 DEF OutcomeInv, IInv, ExclusiveClaim
  <1>3. done \in [Jobs -> Statuses] /\ done[f] = "succeeded"
    BY <1>1 DEF OutcomeInv, IInv, TypeOK, Statuses, JobStatuses
  <1>4. \A i \in Jobs \ {f} : done[i] = jobStatus[i]
    BY DEF OutcomeInv, IInv, TypeOK
  <1>5. /\ jobStatus' = WithFinalize(done, seen, b) /\ MissedBySome(w, b)
        /\ persisted' = persisted \cup {f}
        /\ Close(w, "succeeded") /\ "succeeded" \in JobStatuses
        /\ UNCHANGED errorCode
    BY DEF FileSucceeds, JobStatuses
  <1>6. /\ \A i \in Jobs \ {b} : jobStatus'[i] = done[i]
        /\ \/ jobStatus'[b] = done[b]
           \/ jobStatus'[b] = "queued" /\ done[b] = "absent"
    <2> HIDE DEF done, b
    <2>1. FinalizeDue(seen, b) => FinalizeDue(done, b)
      BY <1>1, <1>3, CountedEffect DEF OutcomeInv, IInv, TypeOK
    <2> HIDE DEF seen
    <2> QED BY <1>1, <1>3, <1>5, <2>1, WithFinalizeEffect DEF FinalizeDue
  <1>7. IInv'
    BY FileSucceedsInv DEF OutcomeInv
  <1>8. NothingRetriable' /\ AbsentIsUntried' /\ AttemptLedger'
    <2>1. Explains("succeeded", f)
      BY <1>1, <1>3, <1>4, <1>6 DEF Explains
    <2> QED BY <1>1, <1>5, <2>1, LedgerAfterEnd
  <1>9. FailureHasReason' /\ DependentsFollow'
    <2>1. jobStatus'[f] = "succeeded" /\ \A g \in Files \ {f} : jobStatus'[g] = jobStatus[g]
      BY <1>1, <1>3, <1>4, <1>6, NamesAssumption DEF Jobs
    <2>2. errorCode[f] # "dependency_failed"
      BY <1>1, <1>2 DEF OutcomeInv, IInv, ExclusiveClaim, DependentsFollow, AttemptLedger
    <2>3. Drops(f, {})
      BY <1>5, <2>1, <2>2 DEF Drops
    <2> QED BY <1>1, <1>5, <2>3, FilesAfterEnd
  <1>10. FinalizeFollows'
    <2>1. \A i \in Jobs : i \notin FilesOf(b) => done[i] = jobStatus[i]
      BY <1>1, <1>4 DEF FilesOf
    <2>2. Remembers(w, b)
      BY <1>1, <1>5, MissedEffect DEF OutcomeInv, IInv, TypeOK
    <2> HIDE DEF done, b
    <2> QED BY <1>1, <1>3, <1>5, <2>1, <2>2, FinalizeOffered
  <1>11. PersistedSucceeded'
    <2>1. jobStatus'[f] = "succeeded" /\ \A g \in Files \ {f} : jobStatus'[g] = jobStatus[g]
      BY <1>1, <1>3, <1>4, <1>6, NamesAssumption DEF Jobs
    <2> QED BY <1>5, <2>1 DEF OutcomeInv, PersistedSucceeded
  <1> QED BY <1>7, <1>8, <1>9, <1>10, <1>11 DEF OutcomeInv

(* What a failing file leaves behind: itself queued again or dead with the *)
(* files that waited for it, and the finalize job if it is due now.        *)
LEMMA FileFailsEffect ==
  ASSUME OutcomeInv, NEW w \in Workers, NEW f, held[w] = f,
         NEW disposition \in Dispositions, FileFails(w, disposition)
  PROVE  /\ f \in Files /\ f \in Jobs /\ jobStatus[f] = "running"
         /\ \/ /\ disposition = "failed_retriable" /\ ~(Len(attempts[f]) >= MaxAttempts)
               /\ jobStatus'[f] = "queued"
               /\ \A g \in Files \ {f} : jobStatus'[g] = jobStatus[g]
            \/ /\ jobStatus'[f] = "failed_terminal"
               /\ \A g \in Files \ {f} : jobStatus'[g] =
                    IF g \in WaitingFor(f) THEN "failed_terminal" ELSE jobStatus[g]
         /\ \A b \in Bundles : \/ jobStatus'[b] = jobStatus[b]
                               \/ jobStatus'[b] = "queued" /\ jobStatus[b] = "absent"
         /\ \A g \in Files \ {f} : errorCode'[g] =
              IF jobStatus'[f] = "failed_terminal" /\ g \in WaitingFor(f)
                THEN "dependency_failed" ELSE errorCode[g]
         /\ errorCode'[f] = "execution"
         /\ FinalizeFollows'
PROOF
  <1> DEFINE b == BundleOf[f]
             after == Retried(MarkedFailed(f, disposition), f)
  <1>1. f \in Files /\ f # None /\ f \in Jobs /\ b \in Bundles /\ b \in Jobs /\ f # b
        /\ f \notin Bundles
    BY BundleOfAssumption, NamesAssumption DEF FileFails, Jobs
  <1>2. jobStatus[f] = "running"
    BY <1>1 DEF OutcomeInv, IInv, ExclusiveClaim
  <1>3. jobStatus \in [Jobs -> Statuses]
    BY DEF OutcomeInv, IInv, TypeOK, Statuses
  <1>4. Requeued(after, f, disposition) \/ Died(after, f)
    BY <1>1, <1>2, <1>3, FailureCases
  <1>5. after \in [Jobs -> Statuses]
    BY <1>1, <1>3, FailureEffect DEF FailureOutcome
  <1>6. /\ jobStatus' = WithFinalize(after, Counted(w, after), b) /\ MissedBySome(w, b)
        /\ errorCode' = [i \in Jobs |-> IF i = f THEN "execution"
                                        ELSE IF i \in Dropped(jobStatus, after)
                                               THEN "dependency_failed"
                                        ELSE errorCode[i]]
    BY DEF FileFails
  <1> HIDE DEF after
  <1>7. /\ \A i \in Jobs \ {b} : jobStatus'[i] = after[i]
        /\ \/ jobStatus'[b] = after[b]
           \/ jobStatus'[b] = "queued" /\ after[b] = "absent"
    <2>1. FinalizeDue(Counted(w, after), b) => FinalizeDue(after, b)
      BY <1>1, <1>5, CountedEffect DEF OutcomeInv, IInv, TypeOK
    <2> QED BY <1>1, <1>5, <1>6, <2>1, WithFinalizeEffect DEF FinalizeDue
  <1>8. /\ f \notin WaitingFor(f)
        /\ \A g \in WaitingFor(f) : g \in Files /\ jobStatus[g] = "queued" /\ BundleOf[g] = b
    BY <1>1, <1>2, <1>3, WaitingFiles
  <1>9. \A c \in Bundles : after[c] = jobStatus[c]
    BY <1>1, <1>4, <1>8, NamesAssumption DEF Requeued, Died, Jobs
  <1>10. \A g \in Files : g \in Jobs /\ g # b
    BY <1>1, NamesAssumption DEF Jobs
  <1>11. \A c \in Bundles : \/ jobStatus'[c] = jobStatus[c]
                            \/ jobStatus'[c] = "queued" /\ jobStatus[c] = "absent"
    BY <1>1, <1>7, <1>9 DEF Jobs
  <1>12. FinalizeFollows'
    <2>1. \A i \in Jobs : i \notin FilesOf(b) => after[i] = jobStatus[i]
      BY <1>1, <1>4, <1>8 DEF Requeued, Died, FilesOf
    <2>2. Remembers(w, b)
      BY <1>1, <1>6, MissedEffect DEF OutcomeInv, IInv, TypeOK
    <2> HIDE DEF b
    <2> QED BY <1>1, <1>5, <1>6, <2>1, <2>2, FinalizeOffered
  <1>13. jobStatus'[f] = after[f] /\ \A g \in Files : jobStatus'[g] = after[g]
    BY <1>1, <1>7, <1>10
  <1>14. errorCode'[f] = "execution"
    BY <1>1, <1>6
  <1>15. CASE Requeued(after, f, disposition)
    <2>1. Dropped(jobStatus, after) = {}
      BY <1>2, <1>10, <1>15 DEF Dropped, Requeued
    <2>2. \A g \in Files \ {f} : errorCode'[g] = errorCode[g]
      BY <1>6, <1>10, <2>1
    <2>3. jobStatus'[f] = "queued" /\ \A g \in Files \ {f} : jobStatus'[g] = jobStatus[g]
      BY <1>10, <1>13, <1>15 DEF Requeued
    <2> QED BY <1>1, <1>2, <1>11, <1>12, <1>14, <1>15, <2>2, <2>3 DEF Requeued
  <1>16. CASE Died(after, f)
    <2>1. Dropped(jobStatus, after) = WaitingFor(f)
      BY <1>2, <1>8, <1>10, <1>16 DEF Dropped, Died
    <2>2. \A g \in Files \ {f} :
            errorCode'[g] = IF g \in WaitingFor(f) THEN "dependency_failed" ELSE errorCode[g]
      BY <1>6, <1>10, <2>1
    <2>3. /\ jobStatus'[f] = "failed_terminal"
          /\ \A g \in Files \ {f} : jobStatus'[g] =
               IF g \in WaitingFor(f) THEN "failed_terminal" ELSE jobStatus[g]
      BY <1>10, <1>13, <1>16 DEF Died
    <2> QED BY <1>1, <1>2, <1>11, <1>12, <1>14, <2>2, <2>3
  <1> QED BY <1>4, <1>15, <1>16

(* A failed file: retried if tries are left, else dropped with its         *)
(* dependents.                                                             *)
LEMMA FileFailsOutcome ==
  ASSUME OutcomeInv, NEW w \in Workers, NEW f, held[w] = f,
         NEW disposition \in Dispositions, FileFails(w, disposition)
  PROVE  OutcomeInv'
PROOF
  <1>1. /\ f \in Files /\ f \in Jobs /\ jobStatus[f] = "running"
        /\ \/ /\ disposition = "failed_retriable" /\ ~(Len(attempts[f]) >= MaxAttempts)
              /\ jobStatus'[f] = "queued"
              /\ \A g \in Files \ {f} : jobStatus'[g] = jobStatus[g]
           \/ /\ jobStatus'[f] = "failed_terminal"
              /\ \A g \in Files \ {f} : jobStatus'[g] =
                   IF g \in WaitingFor(f) THEN "failed_terminal" ELSE jobStatus[g]
        /\ \A b \in Bundles : \/ jobStatus'[b] = jobStatus[b]
                              \/ jobStatus'[b] = "queued" /\ jobStatus[b] = "absent"
        /\ \A g \in Files \ {f} : errorCode'[g] =
             IF jobStatus'[f] = "failed_terminal" /\ g \in WaitingFor(f)
               THEN "dependency_failed" ELSE errorCode[g]
        /\ errorCode'[f] = "execution"
        /\ FinalizeFollows'
    BY FileFailsEffect
  <1>2. Close(w, disposition) /\ disposition \in JobStatuses /\ UNCHANGED persisted
    BY DEF FileFails, Dispositions, JobStatuses
  <1>3. /\ f \notin WaitingFor(f)
        /\ \A g \in WaitingFor(f) : g \in Files /\ jobStatus[g] = "queued"
    <2>1. jobStatus \in [Jobs -> Statuses]
      BY DEF OutcomeInv, IInv, TypeOK, Statuses
    <2> QED BY <1>1, <2>1, WaitingFiles
  <1>4. IInv'
    BY FileFailsInv DEF OutcomeInv
  <1>5. NothingRetriable' /\ AbsentIsUntried' /\ AttemptLedger'
    <2>1. Explains(disposition, f)
      BY <1>1, <1>3 DEF Explains, Dispositions, Jobs
    <2> QED BY <1>1, <1>2, <2>1, LedgerAfterEnd
  <1>6. FailureHasReason' /\ DependentsFollow'
    <2> DEFINE W == IF jobStatus'[f] = "failed_terminal" THEN WaitingFor(f) ELSE {}
    <2>1. Drops(f, W)
      BY <1>1 DEF Drops
    <2> HIDE DEF W
    <2> QED BY <1>1, <1>2, <2>1, FilesAfterEnd
  <1>7. PersistedSucceeded'
    BY <1>1, <1>2, <1>3 DEF OutcomeInv, PersistedSucceeded
  <1> QED BY <1>1, <1>4, <1>5, <1>6, <1>7 DEF OutcomeInv

(* The end of a finalize job moves its own row and nothing else.           *)
LEMMA FinalizeEndOutcome ==
  ASSUME OutcomeInv, NEW w \in Workers, NEW b \in Bundles, held[w] = b, NEW outcome,
         Close(w, outcome), Explains(outcome, b),
         \A i \in Jobs \ {b} : jobStatus'[i] = jobStatus[i],
         \A f \in Files : errorCode'[f] = errorCode[f],
         UNCHANGED <<persisted, overlapped>>
  PROVE  /\ NothingRetriable' /\ AbsentIsUntried' /\ AttemptLedger' /\ FailureHasReason'
         /\ DependentsFollow' /\ FinalizeFollows' /\ PersistedSucceeded'
PROOF
  <1>1. b \in Jobs /\ b \notin Files /\ Files \subseteq Jobs \ {b} /\ b # None
    BY NamesAssumption DEF Jobs
  <1>2. jobStatus[b] = "running" /\ outcome \in JobStatuses
    BY <1>1 DEF OutcomeInv, IInv, ExclusiveClaim, Explains, JobStatuses
  <1>3. NothingRetriable' /\ AbsentIsUntried' /\ AttemptLedger'
    BY <1>1, LedgerAfterEnd
  <1>4. WaitingFor(b) = {}
    BY NobodyWaitsForFinalize DEF WaitingFor
  <1>5. FailureHasReason' /\ DependentsFollow'
    <2>1. Drops(b, {})
      BY <1>1, <1>4 DEF Drops, Explains
    <2> QED BY <1>1, <1>2, <2>1, FilesAfterEnd
  <1>6. FinalizeFollows'
    <2> SUFFICES ASSUME NEW c \in Bundles, FinalizeDue(jobStatus', c) PROVE c \in overlapped'
      BY DEF FinalizeFollows, FinalizeLost
    <2>1. c # b
      BY DEF FinalizeDue, Explains
    <2>2. jobStatus[c] = jobStatus'[c] /\ \A f \in FilesOf(c) : jobStatus[f] = jobStatus'[f]
      BY <1>1, <2>1 DEF FilesOf, Jobs
    <2>3. FinalizeDue(jobStatus, c)
      BY <2>2, DueByStatus
    <2> QED BY <2>3 DEF OutcomeInv, FinalizeFollows, FinalizeLost
  <1>7. PersistedSucceeded'
    BY <1>1 DEF OutcomeInv, PersistedSucceeded
  <1> QED BY <1>3, <1>5, <1>6, <1>7

(* A finalize job that succeeds touches no other job.                      *)
LEMMA FinalizeSucceedsOutcome ==
  ASSUME OutcomeInv, NEW w \in Workers, NEW b, held[w] = b, FinalizeSucceeds(w)
  PROVE  OutcomeInv'
PROOF
  <1>1. b \in Bundles /\ b \in Jobs
    BY DEF FinalizeSucceeds, Jobs
  <1>2. /\ jobStatus' = [jobStatus EXCEPT ![b] = "succeeded"]
        /\ Close(w, "succeeded") /\ UNCHANGED <<errorCode, persisted, overlapped>>
    BY DEF FinalizeSucceeds
  <1>3. jobStatus'[b] = "succeeded" /\ \A i \in Jobs \ {b} : jobStatus'[i] = jobStatus[i]
    BY <1>1, <1>2 DEF OutcomeInv, IInv, TypeOK
  <1>4. Explains("succeeded", b)
    BY <1>3 DEF Explains
  <1>5. /\ NothingRetriable' /\ AbsentIsUntried' /\ AttemptLedger' /\ FailureHasReason'
        /\ DependentsFollow' /\ FinalizeFollows' /\ PersistedSucceeded'
    BY <1>1, <1>2, <1>3, <1>4, FinalizeEndOutcome
  <1>6. IInv'
    BY FinalizeSucceedsInv DEF OutcomeInv
  <1> QED BY <1>5, <1>6 DEF OutcomeInv

(* A finalize that fails is queued again or dead; no file goes with it.    *)
LEMMA FinalizeFailsEffect ==
  ASSUME OutcomeInv, NEW w \in Workers, NEW b, held[w] = b, FinalizeFails(w)
  PROVE  /\ b \in Bundles /\ b \in Jobs /\ jobStatus[b] = "running"
         /\ \/ jobStatus'[b] = "queued" /\ ~(Len(attempts[b]) >= MaxAttempts)
            \/ jobStatus'[b] = "failed_terminal"
         /\ \A i \in Jobs \ {b} : jobStatus'[i] = jobStatus[i]
PROOF
  <1> DEFINE after == Retried(MarkedFailed(b, "failed_retriable"), b)
  <1>1. b \in Bundles /\ b \in Jobs /\ b # None /\ b \notin Files
    BY NamesAssumption DEF FinalizeFails, Jobs
  <1>2. jobStatus[b] = "running"
    BY <1>1 DEF OutcomeInv, IInv, ExclusiveClaim
  <1>3. jobStatus \in [Jobs -> Statuses] /\ "failed_retriable" \in Dispositions
    BY DEF OutcomeInv, IInv, TypeOK, Statuses, Dispositions
  <1>4. Requeued(after, b, "failed_retriable") \/ Died(after, b)
    BY <1>1, <1>2, <1>3, FailureCases
  <1>5. jobStatus' = after
    BY DEF FinalizeFails
  <1>6. WaitingFor(b) = {}
    BY <1>1, NobodyWaitsForFinalize DEF WaitingFor
  <1> HIDE DEF after
  <1> QED BY <1>1, <1>2, <1>4, <1>5, <1>6 DEF Requeued, Died

(* Nor does one that fails, whether it is tried again or not.              *)
LEMMA FinalizeFailsOutcome ==
  ASSUME OutcomeInv, NEW w \in Workers, NEW b, held[w] = b, FinalizeFails(w)
  PROVE  OutcomeInv'
PROOF
  <1>1. /\ b \in Bundles /\ b \in Jobs
        /\ \/ jobStatus'[b] = "queued" /\ ~(Len(attempts[b]) >= MaxAttempts)
           \/ jobStatus'[b] = "failed_terminal"
        /\ \A i \in Jobs \ {b} : jobStatus'[i] = jobStatus[i]
    BY FinalizeFailsEffect
  <1>2. Close(w, "failed_retriable") /\ UNCHANGED <<persisted, overlapped>>
    BY DEF FinalizeFails
  <1>3. \A f \in Files : errorCode'[f] = errorCode[f]
    BY <1>1, NamesAssumption DEF FinalizeFails, OutcomeInv, IInv, TypeOK, Jobs
  <1>4. Explains("failed_retriable", b)
    BY <1>1 DEF Explains
  <1>5. /\ NothingRetriable' /\ AbsentIsUntried' /\ AttemptLedger' /\ FailureHasReason'
        /\ DependentsFollow' /\ FinalizeFollows' /\ PersistedSucceeded'
    BY <1>1, <1>2, <1>3, <1>4, FinalizeEndOutcome
  <1>6. IInv'
    BY FinalizeFailsInv DEF OutcomeInv
  <1> QED BY <1>5, <1>6 DEF OutcomeInv

(* Crashes and readers do not touch what the invariant adds.               *)
LEMMA QuietOutcome ==
  ASSUME OutcomeInv, IInv', UNCHANGED <<jobStatus, errorCode, attempts, persisted, overlapped>>
  PROVE  OutcomeInv'
PROOF
  <1>1. NothingRetriable' /\ AbsentIsUntried' /\ FailureHasReason' /\ PersistedSucceeded'
    BY DEF OutcomeInv, NothingRetriable, AbsentIsUntried, FailureHasReason,
           PersistedSucceeded, Started
  <1>2. AttemptLedger'
    BY DEF OutcomeInv, AttemptLedger, Started, LastRow
  <1>3. DependentsFollow'
    BY DEF OutcomeInv, DependentsFollow, Started
  <1>4. FinalizeFollows'
    BY DEF OutcomeInv, FinalizeFollows, FinalizeLost, FinalizeDue, FileStatuses
  <1> QED BY <1>1, <1>2, <1>3, <1>4 DEF OutcomeInv

(* Every step of the queue.                                                *)
LEMMA StepOutcome ==
  ASSUME OutcomeInv, [Next]_vars
  PROVE  OutcomeInv'
PROOF
  <1>1. ASSUME NEW b \in Bundles, EnqueueBundle(b) PROVE OutcomeInv'
    BY <1>1, EnqueueOutcome
  <1>2. ASSUME NEW w \in Workers, Claim(w) PROVE OutcomeInv'
    BY <1>2, ClaimOutcome
  <1>3. ASSUME NEW w \in Workers, Execute(w) PROVE OutcomeInv'
    BY <1>3, FileSucceedsOutcome, FileFailsOutcome, FinalizeSucceedsOutcome,
       FinalizeFailsOutcome DEF Execute, Dispositions
  <1>4. IInv'
    BY StepInv DEF OutcomeInv
  <1>5. ASSUME NEW b \in Bundles, LoadSnapshot(b) PROVE OutcomeInv'
    BY <1>4, <1>5, QuietOutcome DEF LoadSnapshot
  <1>6. ASSUME NEW w \in Workers, Crash(w) PROVE OutcomeInv'
    BY <1>4, <1>6, QuietOutcome DEF Crash, tables
  <1>7. ASSUME UNCHANGED vars PROVE OutcomeInv'
    BY <1>4, <1>7, QuietOutcome DEF vars
  <1> QED BY <1>1, <1>2, <1>3, <1>5, <1>6, <1>7 DEF Next

-----------------------------------------------------------------------------
(* Theorems.                                                               *)

(* The inductive invariant of the files' fates holds of every behaviour.   *)
THEOREM OutcomeInvariance == Spec => []OutcomeInv
PROOF
  <1>1. OutcomeInv /\ [Next]_vars => OutcomeInv'
    BY StepOutcome
  <1> QED BY InitOutcome, <1>1, PTL DEF Spec

(* The job_attempts rows tell the truth about every job: it is running     *)
(* exactly when its newest attempt is, older attempts all failed           *)
(* retriably, and there are never more than MaxAttempts of them.           *)
THEOREM LedgerIsTrue == Spec => []AttemptLedger
PROOF
  <1>1. OutcomeInv => AttemptLedger
    BY DEF OutcomeInv
  <1> QED BY OutcomeInvariance, <1>1, PTL

(* Files go with the file they wait for, all of them, and no others: a     *)
(* dropped file was never tried, and its dependency failed for good.       *)
THEOREM DependentsAreDropped == Spec => []DependentsFollow
PROOF
  <1>1. OutcomeInv => DependentsFollow
    BY DEF OutcomeInv
  <1> QED BY OutcomeInvariance, <1>1, PTL

(* A bundle that is reported as over is over: its files have ended and, if *)
(* one came in, its finalize too, unless that was lost to two transactions *)
(* that overlapped.                                                        *)
THEOREM TerminalIsHonest == Spec => []HonestTerminal
PROOF
  <1>1. OutcomeInv => HonestTerminal
    <2> SUFFICES ASSUME OutcomeInv, NEW b \in Bundles,
                        Derived(jobStatus, b) \in TerminalBundleStatuses
                 PROVE  /\ ~Outstanding(b)
                        /\ AnySucceeded(b) =>
                             jobStatus[b] \in TerminalStatuses \/ FinalizeLost(b)
      BY DEF HonestTerminal
    <2>1. /\ jobStatus[b] \notin ActiveStatuses
          /\ FileStatuses(jobStatus, b) \cap ActiveStatuses = {}
      BY DEF Derived, DeriveBundleStatus, TerminalBundleStatuses, ActiveStatuses
    <2>2. ~Outstanding(b)
      BY <2>1 DEF Outstanding, FileStatuses
    <2>3. ASSUME AnySucceeded(b) PROVE jobStatus[b] # "absent" \/ FinalizeLost(b)
      BY <2>1, <2>3 DEF OutcomeInv, FinalizeFollows, FinalizeDue, AnySucceeded
    <2>4. jobStatus[b] \in JobStatuses \cup {"absent"}
      BY DEF OutcomeInv, IInv, TypeOK, Jobs
    <2> QED BY <2>1, <2>2, <2>3, <2>4 DEF JobStatuses, ActiveStatuses, TerminalStatuses
  <1> QED BY OutcomeInvariance, <1>1, PTL

(* The first queued file of a set that is not empty waits for no other.    *)
LEMMA EarliestFile ==
  ASSUME NEW Q \in SUBSET Files, Q # {}
  PROVE  \E f \in Q : DependsOn[f] \notin Q
PROOF
  <1> DEFINE orders == {FileOrder[f] : f \in Q}
             less == OpToRel(<, Nat)
  <1>1. orders \subseteq Nat /\ orders # {}
    BY EarlierMemberAssumption
  <1>2. PICK n \in orders : \A m \in orders : ~(<<m, n>> \in less)
    BY <1>1, WFMin, NatLessThanWellFounded
  <1>3. \A m, k \in Nat : m < k => <<m, k>> \in less
    BY DEF OpToRel
  <1> HIDE DEF less
  <1>4. PICK f \in Q : FileOrder[f] = n
    OBVIOUS
  <1>5. ASSUME DependsOn[f] \in Q PROVE FALSE
    <2>1. FileOrder[DependsOn[f]] \in orders
      BY <1>5
    <2>2. FileOrder[DependsOn[f]] < n /\ FileOrder[DependsOn[f]] \in Nat /\ n \in Nat
      BY <1>4, <1>5, EarlierMemberAssumption, NamesAssumption
    <2> HIDE DEF orders
    <2>3. <<FileOrder[DependsOn[f]], n>> \in less
      BY <1>3, <2>2, Zenon
    <2> QED BY <1>2, <2>1, <2>3
  <1> QED BY <1>5

(* When nothing can be claimed, a queued file waits, through other queued  *)
(* files, for one that runs: the first of them has a dependency that       *)
(* neither came in nor failed for good, for then it would be dropped.      *)
LEMMA QueuedBehindRunning ==
  ASSUME OutcomeInv, Claimable = {}, NEW b \in Bundles, Enqueued(b),
         \A f \in FilesOf(b) : jobStatus[f] # "running"
  PROVE  \A f \in FilesOf(b) : jobStatus[f] # "queued"
PROOF
  <1> DEFINE Q == {f \in FilesOf(b) : jobStatus[f] = "queued"}
  <1>1. Q \in SUBSET Files /\ Files \subseteq Jobs
    BY DEF FilesOf, Jobs
  <1>2. ASSUME NEW f \in Q PROVE DependsOn[f] \in Q
    <2> DEFINE d == DependsOn[f]
    <2>1. f \in Files /\ BundleOf[f] = b /\ jobStatus[f] = "queued"
      BY <1>2 DEF FilesOf
    <2>2. d # None /\ jobStatus[d] # "succeeded"
      BY <1>1, <2>1 DEF Claimable
    <2>3. d \in FilesOf(b) /\ d \in Files /\ d \in Jobs
      BY <1>1, <2>1, <2>2, DependsOnAssumption, EarlierMemberAssumption DEF FilesOf
    <2>4. jobStatus[d] # "failed_terminal"
      BY <2>1, <2>2 DEF OutcomeInv, DependentsFollow
    <2>5. jobStatus[d] \notin {"running", "failed_retriable", "absent"}
      BY <2>3 DEF OutcomeInv, NothingRetriable, IInv, RowsFollowBundle, FilesOf
    <2>6. jobStatus[d] \in JobStatuses \cup {"absent"}
      BY <2>3 DEF OutcomeInv, IInv, TypeOK
    <2> QED BY <2>2, <2>3, <2>4, <2>5, <2>6 DEF JobStatuses
  <1>3. Q = {}
    <2> HIDE DEF Q
    <2> QED BY <1>1, <1>2, EarliestFile
  <1> QED BY <1>3

(* When every worker has looked and found nothing, no bundle is left       *)
(* waiting: it is settled, or a worker died over one of its own jobs, or   *)
(* its finalize was lost to transactions that overlapped.                  *)
THEOREM QuietQueueIsSettled == Spec => []NothingForgotten
PROOF
  <1>1. OutcomeInv => NothingForgotten
    <2> SUFFICES ASSUME OutcomeInv, Quiet, NEW b \in Bundles, Enqueued(b), ~Orphaned(b)
                 PROVE  Settled(b) \/ FinalizeLost(b)
      BY DEF NothingForgotten
    <2>1. /\ \A f \in FilesOf(b) : f \in Files /\ f \in Jobs
          /\ b \in Jobs /\ b \notin Files
      BY NamesAssumption DEF FilesOf, Jobs
    <2>2. \A j \in FilesOf(b) \cup {b} : j \in Jobs /\ jobStatus[j] # "running"
      BY <2>1, NamesAssumption DEF Orphaned, Quiet, Jobs
    <2>3. \A f \in FilesOf(b) : jobStatus[f] # "queued"
      BY <2>2, QueuedBehindRunning DEF Quiet
    <2>4. jobStatus[b] # "queued"
      BY <2>1 DEF Quiet, Claimable
    <2>5. \A j \in FilesOf(b) \cup {b} :
            jobStatus[j] \in TerminalStatuses \cup {"absent"}
      BY <2>2, <2>3, <2>4
         DEF OutcomeInv, IInv, TypeOK, NothingRetriable, JobStatuses, TerminalStatuses
    <2>6. \A f \in FilesOf(b) : jobStatus[f] \in TerminalStatuses
      BY <2>1, <2>5 DEF OutcomeInv, IInv, RowsFollowBundle, FilesOf
    <2>7. CASE jobStatus[b] = "absent" /\ AnySucceeded(b)
      <3>1. FinalizeDue(jobStatus, b)
        BY <2>6, <2>7
           DEF FinalizeDue, FileStatuses, AnySucceeded, ActiveStatuses, TerminalStatuses
      <3> QED BY <3>1 DEF OutcomeInv, FinalizeFollows
    <2>8. CASE ~(jobStatus[b] = "absent" /\ AnySucceeded(b))
      BY <2>5, <2>6, <2>8 DEF Settled, FileStatuses
    <2> QED BY <2>7, <2>8
  <1> QED BY OutcomeInvariance, <1>1, PTL

-----------------------------------------------------------------------------
(* The refinement of BundleImport.  The core tables hold what the job      *)
(* table calls succeeded, so the fate of a file, and of the refresh of a   *)
(* bundle, is a function of the status of its job.                         *)

FileFate(status) ==
  IF status = "succeeded" THEN "imported"
  ELSE IF status = "failed_terminal" THEN "dropped" ELSE "pending"
RefreshFate(status) ==
  IF status = "succeeded" THEN "done"
  ELSE IF status = "failed_terminal" THEN "abandoned" ELSE "pending"

(* The fates BundleImport speaks of, read off the job table.               *)
LEMMA FatesByStatus ==
  /\ PersistedSucceeded => ImportOutcome = [f \in Files |-> FileFate(jobStatus[f])]
  /\ PersistedSucceeded' => ImportOutcome' = [f \in Files |-> FileFate(jobStatus'[f])]
  /\ RefreshOutcome = [b \in Bundles |-> RefreshFate(jobStatus[b])]
  /\ RefreshOutcome' = [b \in Bundles |-> RefreshFate(jobStatus'[b])]
PROOF
  <1>1. PersistedSucceeded => ImportOutcome = [f \in Files |-> FileFate(jobStatus[f])]
    BY DEF PersistedSucceeded, ImportOutcome, FileFate
  <1>2. PersistedSucceeded' => ImportOutcome' = [f \in Files |-> FileFate(jobStatus'[f])]
    BY DEF PersistedSucceeded, ImportOutcome, FileFate
  <1>3. RefreshOutcome = [b \in Bundles |-> RefreshFate(jobStatus[b])]
    BY DEF RefreshOutcome, RefreshFate
  <1>4. RefreshOutcome' = [b \in Bundles |-> RefreshFate(jobStatus'[b])]
    BY DEF RefreshOutcome, RefreshFate
  <1> QED BY <1>1, <1>2, <1>3, <1>4

(* The queue starts where the promise starts.                              *)
LEMMA InitPromise == Init => Promise!Init
PROOF
  <1> SUFFICES ASSUME Init PROVE Promise!Init
    OBVIOUS
  <1>1. OutcomeInv
    BY InitOutcome
  <1>2. \A j \in Jobs : jobStatus[j] = "absent"
    BY DEF Init
  <1>3. ImportOutcome = [f \in Files |-> "pending"]
    BY <1>1, <1>2, FatesByStatus DEF OutcomeInv, FileFate, Jobs
  <1>4. RefreshOutcome = [b \in Bundles |-> "pending"]
    BY <1>2, FatesByStatus DEF RefreshFate, Jobs
  <1> QED BY <1>3, <1>4 DEF Init, Promise!Init

(* A step that leaves the fates alone is a stutter of the promise.         *)
LEMMA StutterPromise ==
  ASSUME OutcomeInv, OutcomeInv', UNCHANGED materialized,
         \A f \in Files : FileFate(jobStatus'[f]) = FileFate(jobStatus[f]),
         \A b \in Bundles : RefreshFate(jobStatus'[b]) = RefreshFate(jobStatus[b])
  PROVE  UNCHANGED Promise!vars
PROOF
  <1>1. ImportOutcome' = ImportOutcome
    BY FatesByStatus DEF OutcomeInv
  <1>2. RefreshOutcome' = RefreshOutcome
    BY FatesByStatus
  <1> QED BY <1>1, <1>2 DEF Promise!vars

(* The persist transaction of a file imports it.                           *)
LEMMA FileSucceedsImports ==
  ASSUME OutcomeInv, OutcomeInv', NEW w \in Workers, NEW f, held[w] = f, FileSucceeds(w)
  PROVE  f \in Files /\ Promise!Import(f)
PROOF
  <1> DEFINE b == BundleOf[f]
             done == [jobStatus EXCEPT ![f] = "succeeded"]
             seen == Counted(w, done)
  <1>1. f \in Files /\ f # None /\ f \in Jobs /\ b \in Bundles /\ b \in Jobs /\ f # b
    BY BundleOfAssumption, NamesAssumption DEF FileSucceeds, Jobs
  <1>2. jobStatus[f] = "running" /\ attempts[f] # <<>>
    BY <1>1 DEF OutcomeInv, IInv, ExclusiveClaim, Started
  <1>3. done \in [Jobs -> Statuses] /\ done[f] = "succeeded"
        /\ \A i \in Jobs \ {f} : done[i] = jobStatus[i]
    BY <1>1 DEF OutcomeInv, IInv, TypeOK, Statuses, JobStatuses
  <1>4. jobStatus' = WithFinalize(done, seen, b) /\ UNCHANGED materialized
    BY DEF FileSucceeds
  <1>5. /\ \A i \in Jobs \ {b} : jobStatus'[i] = done[i]
        /\ \/ jobStatus'[b] = done[b]
           \/ jobStatus'[b] = "queued" /\ done[b] = "absent"
    <2> HIDE DEF done, b
    <2>1. FinalizeDue(seen, b) => FinalizeDue(done, b)
      BY <1>1, <1>3, CountedEffect DEF OutcomeInv, IInv, TypeOK
    <2> HIDE DEF seen
    <2> QED BY <1>1, <1>3, <1>4, <2>1, WithFinalizeEffect DEF FinalizeDue
  <1>6. jobStatus'[f] = "succeeded" /\ \A g \in Files \ {f} : jobStatus'[g] = jobStatus[g]
    BY <1>1, <1>3, <1>5, NamesAssumption DEF Jobs
  <1>7. \A c \in Bundles : RefreshFate(jobStatus'[c]) = RefreshFate(jobStatus[c])
    BY <1>1, <1>3, <1>5, NamesAssumption DEF RefreshFate, Jobs
  <1>8. ImportOutcome[f] = "pending"
    BY <1>1, <1>2, FatesByStatus DEF OutcomeInv, FileFate
  <1>9. DependsOn[f] # None => ImportOutcome[DependsOn[f]] = "imported"
    <2> SUFFICES ASSUME DependsOn[f] # None
                 PROVE  ImportOutcome[DependsOn[f]] = "imported"
      OBVIOUS
    <2>1. DependsOn[f] \in Files /\ jobStatus[DependsOn[f]] = "succeeded"
      BY <1>1, <1>2, DependsOnAssumption DEF OutcomeInv, IInv, PairOrder, Started
    <2> QED BY <2>1, FatesByStatus DEF OutcomeInv, FileFate
  <1>10. ImportOutcome' = [ImportOutcome EXCEPT ![f] = "imported"]
    BY <1>1, <1>6, FatesByStatus DEF OutcomeInv, FileFate
  <1>11. RefreshOutcome' = RefreshOutcome
    BY <1>7, FatesByStatus
  <1> QED BY <1>1, <1>4, <1>8, <1>9, <1>10, <1>11 DEF Promise!Import

(* The failure transaction of a file drops it with all that waits for it,  *)
(* or leaves its fate open.                                                *)
LEMMA FileFailsDrops ==
  ASSUME OutcomeInv, OutcomeInv', NEW w \in Workers, NEW f, held[w] = f,
         NEW disposition \in Dispositions, FileFails(w, disposition)
  PROVE  (\E S \in SUBSET Files : Promise!Drop(S)) \/ UNCHANGED Promise!vars
PROOF
  <1>1. /\ f \in Files /\ f \in Jobs /\ jobStatus[f] = "running"
        /\ \/ /\ jobStatus'[f] = "queued"
              /\ \A g \in Files \ {f} : jobStatus'[g] = jobStatus[g]
           \/ /\ jobStatus'[f] = "failed_terminal"
              /\ \A g \in Files \ {f} : jobStatus'[g] =
                   IF g \in WaitingFor(f) THEN "failed_terminal" ELSE jobStatus[g]
        /\ \A b \in Bundles : \/ jobStatus'[b] = jobStatus[b]
                              \/ jobStatus'[b] = "queued" /\ jobStatus[b] = "absent"
    BY FileFailsEffect
  <1>2. UNCHANGED materialized
    BY DEF FileFails
  <1>3. \A b \in Bundles : RefreshFate(jobStatus'[b]) = RefreshFate(jobStatus[b])
    BY <1>1 DEF RefreshFate
  <1>4. CASE jobStatus'[f] = "queued"
    <2>1. \A g \in Files : FileFate(jobStatus'[g]) = FileFate(jobStatus[g])
      BY <1>1, <1>4 DEF FileFate
    <2> QED BY <1>2, <1>3, <2>1, StutterPromise
  <1>5. CASE jobStatus'[f] = "failed_terminal"
    <2> DEFINE S == WaitingFor(f) \cup {f}
    <2>1. /\ f \notin WaitingFor(f)
          /\ \A g \in WaitingFor(f) : g \in Files /\ jobStatus[g] = "queued"
          /\ \A g \in Files : /\ jobStatus[g] = "queued"
                              /\ DependsOn[g] \in WaitingFor(f) \cup {f}
                              => g \in WaitingFor(f)
      <3>1. jobStatus \in [Jobs -> Statuses]
        BY DEF OutcomeInv, IInv, TypeOK, Statuses
      <3> QED BY <1>1, <3>1, WaitingFiles
    <2>2. S \in SUBSET Files /\ S # {}
      BY <1>1, <2>1
    <2>3. \A g \in S : jobStatus[g] \in {"queued", "running"}
      BY <1>1, <2>1
    <2>4. \A g \in S : ImportOutcome[g] = "pending"
      BY <2>2, <2>3, FatesByStatus DEF OutcomeInv, FileFate
    <2>5. ASSUME NEW g \in Files, DependsOn[g] \in S PROVE g \in S
      <3>1. DependsOn[g] # None
        BY <2>2, <2>5, NamesAssumption
      <3>2. jobStatus[g] = "queued"
        BY <2>3, <2>5, <3>1, WaitsUntried
      <3> QED BY <2>1, <2>5, <3>2
    <2>6. \A g \in Files : jobStatus'[g] = IF g \in S THEN "failed_terminal" ELSE jobStatus[g]
      BY <1>1, <1>5
    <2> HIDE DEF S
    <2>7. ImportOutcome' = [g \in Files |-> IF g \in S THEN "dropped" ELSE ImportOutcome[g]]
      BY <2>6, FatesByStatus DEF OutcomeInv, FileFate
    <2>8. RefreshOutcome' = RefreshOutcome
      BY <1>3, FatesByStatus
    <2>9. Promise!Drop(S)
      BY <1>2, <2>2, <2>4, <2>5, <2>7, <2>8 DEF Promise!Drop
    <2> QED BY <2>2, <2>9
  <1> QED BY <1>1, <1>4, <1>5

(* While a finalize job runs, its bundle's refresh is due and the imported *)
(* files are those in the core tables.                                     *)
LEMMA RunningFinalizeIsDue ==
  ASSUME OutcomeInv, NEW b \in Bundles, jobStatus[b] = "running"
  PROVE  Promise!RefreshDue(b) /\ Promise!Imported(b) = FilesOf(b) \cap persisted
PROOF
  <1>1. Promise!FilesOf(b) = FilesOf(b) /\ FilesOf(b) \subseteq Files
    BY DEF FilesOf, Promise!FilesOf
  <1>2. RefreshOutcome[b] = "pending"
    BY FatesByStatus DEF RefreshFate
  <1>3. /\ \A f \in FilesOf(b) : jobStatus[f] \in TerminalStatuses
        /\ \E f \in FilesOf(b) : jobStatus[f] = "succeeded"
    BY DEF OutcomeInv, IInv, FinalizeBarrier, FileStatuses, AnySucceeded
  <1>4. \A f \in FilesOf(b) : ImportOutcome[f] = FileFate(jobStatus[f])
    BY <1>1, FatesByStatus DEF OutcomeInv
  <1>5. Promise!Decided(b)
    BY <1>1, <1>3, <1>4 DEF Promise!Decided, FileFate, TerminalStatuses
  <1>6. \A f \in FilesOf(b) : ImportOutcome[f] = "imported" <=> f \in persisted
    BY <1>1, <1>4 DEF OutcomeInv, PersistedSucceeded, FileFate
  <1>7. Promise!Imported(b) = FilesOf(b) \cap persisted
    BY <1>1, <1>6 DEF Promise!Imported
  <1>8. Promise!Imported(b) # {}
    BY <1>1, <1>3, <1>4 DEF Promise!Imported, FileFate
  <1> QED BY <1>2, <1>5, <1>7, <1>8 DEF Promise!RefreshDue

(* The finalize transaction refreshes the bundle from all that came in.    *)
LEMMA FinalizeSucceedsRefreshes ==
  ASSUME OutcomeInv, OutcomeInv', NEW w \in Workers, NEW b, held[w] = b, FinalizeSucceeds(w)
  PROVE  b \in Bundles /\ Promise!Refresh(b)
PROOF
  <1>1. b \in Bundles /\ b \in Jobs /\ b # None /\ Files \subseteq Jobs \ {b}
    BY NamesAssumption DEF FinalizeSucceeds, Jobs
  <1>2. jobStatus[b] = "running"
    BY <1>1 DEF OutcomeInv, IInv, ExclusiveClaim
  <1>3. /\ jobStatus' = [jobStatus EXCEPT ![b] = "succeeded"]
        /\ materialized' = [materialized EXCEPT ![b] = FilesOf(b) \cap persisted]
    BY DEF FinalizeSucceeds
  <1>4. jobStatus'[b] = "succeeded" /\ \A i \in Jobs \ {b} : jobStatus'[i] = jobStatus[i]
    BY <1>1, <1>3 DEF OutcomeInv, IInv, TypeOK
  <1>5. ImportOutcome' = ImportOutcome
    BY <1>1, <1>4, FatesByStatus DEF OutcomeInv
  <1>6. RefreshOutcome' = [RefreshOutcome EXCEPT ![b] = "done"]
    BY <1>1, <1>4, FatesByStatus DEF RefreshFate, Jobs
  <1>7. Promise!RefreshDue(b) /\ Promise!Imported(b) = FilesOf(b) \cap persisted
    BY <1>1, <1>2, RunningFinalizeIsDue
  <1> QED BY <1>1, <1>3, <1>5, <1>6, <1>7 DEF Promise!Refresh

(* The failure transaction of a finalize job gives the refresh up or       *)
(* leaves it due.                                                          *)
LEMMA FinalizeFailsGivesUp ==
  ASSUME OutcomeInv, OutcomeInv', NEW w \in Workers, NEW b, held[w] = b, FinalizeFails(w)
  PROVE  (b \in Bundles /\ Promise!GiveUp(b)) \/ UNCHANGED Promise!vars
PROOF
  <1>1. /\ b \in Bundles /\ b \in Jobs /\ jobStatus[b] = "running"
        /\ \/ jobStatus'[b] = "queued"
           \/ jobStatus'[b] = "failed_terminal"
        /\ \A i \in Jobs \ {b} : jobStatus'[i] = jobStatus[i]
    BY FinalizeFailsEffect
  <1>2. UNCHANGED materialized /\ Files \subseteq Jobs \ {b} /\ Bundles \subseteq Jobs
    BY <1>1, NamesAssumption DEF FinalizeFails, Jobs
  <1>3. CASE jobStatus'[b] = "queued"
    BY <1>1, <1>2, <1>3, StutterPromise DEF FileFate, RefreshFate
  <1>4. CASE jobStatus'[b] = "failed_terminal"
    <2>1. ImportOutcome' = ImportOutcome
      BY <1>1, <1>2, FatesByStatus DEF OutcomeInv
    <2>2. RefreshOutcome' = [RefreshOutcome EXCEPT ![b] = "abandoned"]
      BY <1>1, <1>2, <1>4, FatesByStatus DEF RefreshFate
    <2>3. Promise!RefreshDue(b)
      BY <1>1, RunningFinalizeIsDue
    <2> QED BY <1>1, <1>2, <2>1, <2>2, <2>3 DEF Promise!GiveUp
  <1> QED BY <1>1, <1>3, <1>4

(* Every step of the queue is a step of BundleImport or changes nothing in *)
(* it: only the ends of executions are seen there.                         *)
LEMMA StepPromise ==
  ASSUME OutcomeInv, OutcomeInv', [Next]_vars
  PROVE  [Promise!Next]_(Promise!vars)
PROOF
  <1>1. ASSUME NEW b \in Bundles, EnqueueBundle(b) PROVE UNCHANGED Promise!vars
    <2>1. \A i \in Jobs : jobStatus'[i] = IF i \in FilesOf(b) THEN "queued" ELSE jobStatus[i]
      BY <1>1 DEF EnqueueBundle
    <2>2. \A f \in FilesOf(b) : jobStatus[f] = "absent"
      BY <1>1 DEF OutcomeInv, IInv, RowsFollowBundle, EnqueueBundle, FilesOf
    <2>3. \A i \in Jobs : /\ FileFate(jobStatus'[i]) = FileFate(jobStatus[i])
                          /\ RefreshFate(jobStatus'[i]) = RefreshFate(jobStatus[i])
      BY <2>1, <2>2 DEF FileFate, RefreshFate
    <2> QED BY <1>1, <2>3, StutterPromise DEF EnqueueBundle, Jobs
  <1>2. ASSUME NEW w \in Workers, Claim(w) PROVE UNCHANGED Promise!vars
    <2>1. PICK j \in Jobs : /\ jobStatus[j] = "queued"
                            /\ jobStatus' = [jobStatus EXCEPT ![j] = "running"]
      BY <1>2 DEF Claim, NextJob, Claimable
    <2>2. \A i \in Jobs : /\ FileFate(jobStatus'[i]) = FileFate(jobStatus[i])
                          /\ RefreshFate(jobStatus'[i]) = RefreshFate(jobStatus[i])
      BY <2>1 DEF OutcomeInv, IInv, TypeOK, FileFate, RefreshFate
    <2> QED BY <1>2, <2>2, StutterPromise DEF Claim, Jobs
  <1>3. ASSUME NEW w \in Workers, FileSucceeds(w) PROVE Promise!Next
    BY <1>3, FileSucceedsImports DEF Promise!Next
  <1>4. ASSUME NEW w \in Workers, NEW disposition \in Dispositions, FileFails(w, disposition)
        PROVE  Promise!Next \/ UNCHANGED Promise!vars
    BY <1>4, FileFailsDrops DEF Promise!Next
  <1>5. ASSUME NEW w \in Workers, FinalizeSucceeds(w) PROVE Promise!Next
    BY <1>5, FinalizeSucceedsRefreshes DEF Promise!Next
  <1>6. ASSUME NEW w \in Workers, FinalizeFails(w)
        PROVE  Promise!Next \/ UNCHANGED Promise!vars
    BY <1>6, FinalizeFailsGivesUp DEF Promise!Next
  <1>7. ASSUME UNCHANGED <<jobStatus, materialized>> PROVE UNCHANGED Promise!vars
    BY <1>7, StutterPromise
  <1>8. ASSUME NEW b \in Bundles, LoadSnapshot(b) PROVE UNCHANGED Promise!vars
    BY <1>7, <1>8 DEF LoadSnapshot
  <1>9. ASSUME NEW w \in Workers, Crash(w) PROVE UNCHANGED Promise!vars
    BY <1>7, <1>9 DEF Crash, tables
  <1>10. ASSUME UNCHANGED vars PROVE UNCHANGED Promise!vars
    BY <1>7, <1>10 DEF vars
  <1> QED BY <1>1, <1>2, <1>3, <1>4, <1>5, <1>6, <1>8, <1>9, <1>10
          DEF Next, Execute, Dispositions

(* The queue, whatever its workers, retries and crashes, implements what   *)
(* BundleImport promises of every bundle.                                  *)
THEOREM QueueKeepsPromise == Spec => KeepsPromise
PROOF
  <1>1. OutcomeInv /\ OutcomeInv' /\ [Next]_vars => [Promise!Next]_(Promise!vars)
    BY StepPromise
  <1> QED BY OutcomeInvariance, InitPromise, <1>1, PTL DEF Spec, KeepsPromise, Promise!Spec

-----------------------------------------------------------------------------
(* The event log.  A transaction appends to it, in the order of its        *)
(* statements, and the last word on a file is the status its job is left   *)
(* with.                                                                   *)

EventStatuses == Statuses \cup BundleStatuses \cup {"dependency_failed"}
EventRows == [kind : {"bundle_updated", "file_updated", "diagnostic_logged", "bundle_terminal"},
              job : Files \cup {None}, status : EventStatuses]

LogInv == events \in [Bundles -> Seq(EventRows)] /\ LogReplaysFiles

(* What is appended has the last word, unless it says nothing.             *)
LEMMA Appended ==
  ASSUME NEW log \in Seq(EventRows), NEW more \in Seq(EventRows), NEW f, NEW status
  PROVE  /\ log \o more \in Seq(EventRows)
         /\ Says(more, f, status) => Says(log \o more, f, status)
         /\ FileNews(more, f) = {} /\ Replays(log, f, status) =>
              Replays(log \o more, f, status)
PROOF
  <1> DEFINE both == log \o more
             n == Len(log)
             m == Len(more)
  <1>1. /\ both \in Seq(EventRows) /\ n \in Nat /\ m \in Nat
        /\ DOMAIN log = 1..n /\ DOMAIN more = 1..m /\ DOMAIN both = 1..(n + m)
        /\ \A i \in 1..n : both[i] = log[i]
        /\ \A i \in 1..m : both[n + i] = more[i]
    OBVIOUS
  <1> HIDE DEF both, n, m
  <1>2. \A i \in 1..(n + m) : i \in 1..n \/ (i - n \in 1..m /\ i = n + (i - n))
    BY <1>1
  <1>3. /\ \A i \in FileNews(log, f) : i \in 1..n /\ i \in FileNews(both, f)
        /\ \A i \in FileNews(more, f) : i \in 1..m /\ n + i \in FileNews(both, f)
        /\ \A i \in FileNews(both, f) : \/ i \in FileNews(log, f)
                                        \/ i - n \in FileNews(more, f)
    <2>1. \A i \in FileNews(log, f) : i \in 1..n /\ i \in FileNews(both, f)
      BY <1>1 DEF FileNews
    <2>2. \A i \in FileNews(more, f) : i \in 1..m /\ n + i \in FileNews(both, f)
      BY <1>1 DEF FileNews
    <2>3. ASSUME NEW i \in FileNews(both, f)
          PROVE  i \in FileNews(log, f) \/ i - n \in FileNews(more, f)
      <3>1. i \in 1..(n + m) /\ both[i].kind = "file_updated" /\ both[i].job = f
        BY <1>1 DEF FileNews
      <3>2. CASE i \in 1..n
        BY <1>1, <3>1, <3>2 DEF FileNews
      <3>3. CASE i - n \in 1..m /\ i = n + (i - n)
        BY <1>1, <3>1, <3>3 DEF FileNews
      <3> QED BY <1>2, <3>1, <3>2, <3>3
    <2> QED BY <2>1, <2>2, <2>3
  <1>4. ASSUME Says(more, f, status) PROVE Says(both, f, status)
    <2>1. PICK i \in FileNews(more, f) :
            more[i].status = status /\ \A k \in FileNews(more, f) : k <= i
      BY <1>4 DEF Says
    <2>2. both[n + i].status = status
      BY <1>1, <1>3, <2>1
    <2>3. \A k \in FileNews(both, f) : k <= n + i
      <3>1. ASSUME NEW k \in FileNews(both, f) PROVE k <= n + i
        <4>1. k \in 1..(n + m) /\ i \in 1..m
          BY <1>1, <1>3, <2>1 DEF FileNews
        <4>2. k \in 1..n \/ k - n <= i
          BY <1>3, <2>1
        <4> QED BY <1>1, <4>1, <4>2
      <3> QED BY <3>1
    <2> QED BY <1>3, <2>1, <2>2, <2>3 DEF Says
  <1>5. ASSUME FileNews(more, f) = {}, Replays(log, f, status) PROVE Replays(both, f, status)
    <2>1. FileNews(both, f) = FileNews(log, f)
      BY <1>3, <1>5
    <2>2. \A i \in FileNews(log, f) : both[i] = log[i]
      BY <1>1, <1>3
    <2> QED BY <1>5, <2>1, <2>2 DEF Replays, Says
  <1> QED BY <1>1, <1>4, <1>5 DEF both

(* The events of files and of bundles.                                     *)
LEMMA EventShapes ==
  ASSUME NEW js \in [Jobs -> Statuses]
  PROVE  /\ \A f \in Files : Diagnostic(f) \in EventRows /\ FileEvent(js, f) \in EventRows
         /\ \A b \in Bundles : \A kind \in {"bundle_updated", "bundle_terminal"} :
              BundleEvent(kind, js, b) \in EventRows
PROOF
  <1>1. \A b \in Bundles : Derived(js, b) \in EventStatuses
    BY DEF Derived, DeriveBundleStatus, EventStatuses, BundleStatuses, TerminalBundleStatuses
  <1>2. \A f \in Files : js[f] \in EventStatuses /\ "dependency_failed" \in EventStatuses
    BY DEF EventStatuses, Jobs
  <1> QED BY <1>1, <1>2 DEF Diagnostic, FileEvent, BundleEvent, EventRows

(* One file event says what it says; events of the bundle, and events of   *)
(* other files, say nothing.                                               *)
LEMMA OneFileEvent ==
  ASSUME NEW js \in [Jobs -> Statuses], NEW f \in Files
  PROVE  /\ <<FileEvent(js, f)>> \in Seq(EventRows)
         /\ Says(<<FileEvent(js, f)>>, f, js[f])
         /\ \A g \in Files \ {f} : FileNews(<<FileEvent(js, f)>>, g) = {}
BY EventShapes DEF FileEvent, FileNews, Says

(* An event of the bundle says nothing about files.                        *)
LEMMA OneBundleEvent ==
  ASSUME NEW js \in [Jobs -> Statuses], NEW b \in Bundles,
         NEW kind \in {"bundle_updated", "bundle_terminal"}
  PROVE  /\ <<BundleEvent(kind, js, b)>> \in Seq(EventRows)
         /\ \A g \in Files : FileNews(<<BundleEvent(kind, js, b)>>, g) = {}
PROOF
  <1> DEFINE e == BundleEvent(kind, js, b)
  <1>1. e \in EventRows
    BY EventShapes
  <1>2. e.kind = kind /\ kind # "file_updated"
    BY DEF BundleEvent
  <1> HIDE DEF e
  <1>3. \A g \in Files : FileNews(<<e>>, g) = {}
    BY <1>2 DEF FileNews
  <1> QED BY <1>1, <1>3 DEF e

(* A file event followed by one of the bundle says the status of that file *)
(* only.                                                                   *)
LEMMA TwoEvents ==
  ASSUME NEW js \in [Jobs -> Statuses], NEW seen \in [Jobs -> Statuses],
         NEW b \in Bundles, NEW f \in Files,
         NEW more, more = <<FileEvent(js, f), BundleEvent("bundle_updated", seen, b)>>
  PROVE  /\ more \in Seq(EventRows)
         /\ Says(more, f, js[f])
         /\ \A g \in Files \ {f} : FileNews(more, g) = {}
PROOF
  <1>1. /\ DOMAIN more = 1..2 /\ more[1] = FileEvent(js, f)
        /\ more[2] = BundleEvent("bundle_updated", seen, b)
    OBVIOUS
  <1>2. more \in Seq(EventRows)
    BY EventShapes
  <1>3. FileNews(more, f) = {1} /\ more[1].status = js[f]
    BY <1>1 DEF FileNews, FileEvent, BundleEvent
  <1>4. \A g \in Files \ {f} : FileNews(more, g) = {}
    BY <1>1 DEF FileNews, FileEvent, BundleEvent
  <1> QED BY <1>2, <1>3, <1>4 DEF Says

(* Nor do the events of a new finalize job.                                *)
LEMMA FinalizeSaysNothing ==
  ASSUME NEW js \in [Jobs -> Statuses], NEW b \in Bundles
  PROVE  /\ FinalizeEvents(js, b) \in Seq(EventRows)
         /\ \A g \in Files : FileNews(FinalizeEvents(js, b), g) = {}
PROOF
  <1>1. WithFinalize(js, js, b) \in [Jobs -> Statuses]
    BY WithFinalizeEffect
  <1>2. CASE FinalizeDue(js, b)
    BY <1>1, <1>2, OneBundleEvent DEF FinalizeEvents
  <1>3. CASE ~FinalizeDue(js, b)
    BY <1>3 DEF FinalizeEvents, FileNews
  <1> QED BY <1>2, <1>3

(* Every dropped file is announced once, in whatever order the database    *)
(* returned them, and no other file is.                                    *)
LEMMA DropsTold ==
  ASSUME NEW js \in [Jobs -> Statuses], NEW dropped \in SUBSET Files,
         NEW order \in Returned(dropped)
  PROVE  /\ DependencyEvents(js, order) \in Seq(EventRows)
         /\ \A g \in dropped : Says(DependencyEvents(js, order), g, js[g])
         /\ \A g \in Files \ dropped : FileNews(DependencyEvents(js, order), g) = {}
PROOF
  <1> DEFINE n == Cardinality(dropped)
             told == DependencyEvents(js, order)
  <1>1. n \in Nat
    BY FiniteAssumption, FS_Subset, FS_CardinalityType
  <1>2. order \in Bijection(1..n, dropped)
    BY DEF Returned
  <1>3. /\ order \in [1..n -> dropped] /\ Len(order) = n
        /\ \A g \in dropped : \E i \in 1..n : order[i] = g
        /\ \A i, k \in 1..n : order[i] = order[k] => i = k
    <2>1. order \in [1..n -> dropped]
      BY <1>2 DEF Bijection, Injection
    <2>2. Len(order) = n
      BY <1>1, <2>1
    <2>3. \A g \in dropped : \E i \in 1..n : order[i] = g
      BY <1>2 DEF Bijection, Surjection
    <2>4. \A i, k \in 1..n : order[i] = order[k] => i = k
      BY <1>2, <2>1 DEF Bijection, Injection, IsInjective
    <2> QED BY <2>1, <2>2, <2>3, <2>4
  <1> HIDE DEF n
  <1>4. /\ DOMAIN told = 1..(2 * n)
        /\ \A k \in 1..(2 * n) :
             \/ k % 2 = 1 /\ (k + 1) \div 2 \in 1..n /\ told[k] = Diagnostic(order[(k + 1) \div 2])
             \/ k % 2 = 0 /\ k \div 2 \in 1..n /\ 2 * (k \div 2) = k
                /\ told[k] = FileEvent(js, order[k \div 2])
        /\ \A i \in 1..n : 2 * i \in 1..(2 * n) /\ told[2 * i] = FileEvent(js, order[i])
        /\ told = [k \in 1..(2 * n) |-> told[k]]
    <2>1. told = [k \in 1..(2 * n) |-> IF k % 2 = 1 THEN Diagnostic(order[(k + 1) \div 2])
                                       ELSE FileEvent(js, order[k \div 2])]
      BY <1>3 DEF DependencyEvents
    <2> HIDE DEF told
    <2>2. \A k \in 1..(2 * n) : \/ k % 2 = 1 /\ (k + 1) \div 2 \in 1..n
                                \/ k % 2 = 0 /\ k \div 2 \in 1..n /\ 2 * (k \div 2) = k
      BY <1>1
    <2>3. \A i \in 1..n : 2 * i \in 1..(2 * n) /\ (2 * i) % 2 = 0 /\ (2 * i) \div 2 = i
      BY <1>1
    <2>4. \A i \in 1..n : told[2 * i] = FileEvent(js, order[i])
      BY <2>1, <2>3
    <2> QED BY <2>1, <2>2, <2>3, <2>4
  <1> HIDE DEF told
  <1>5. told \in Seq(EventRows)
    <2>1. ASSUME NEW k \in 1..(2 * n) PROVE told[k] \in EventRows
      <3>1. CASE (k + 1) \div 2 \in 1..n /\ told[k] = Diagnostic(order[(k + 1) \div 2])
        <4>1. order[(k + 1) \div 2] \in Files
          BY <1>3, <3>1
        <4> QED BY <3>1, <4>1, EventShapes
      <3>2. CASE k \div 2 \in 1..n /\ told[k] = FileEvent(js, order[k \div 2])
        <4>1. order[k \div 2] \in Files
          BY <1>3, <3>2
        <4> QED BY <3>2, <4>1, EventShapes
      <3> QED BY <1>4, <3>1, <3>2
    <2>2. told \in [1..(2 * n) -> EventRows]
      BY <1>4, <2>1
    <2> QED BY <1>1, <2>2
  <1>6. \A g \in Files : \A k \in FileNews(told, g) :
          \E i \in 1..n : k = 2 * i /\ order[i] = g
    BY <1>4 DEF FileNews, Diagnostic, FileEvent
  <1>7. ASSUME NEW g \in dropped PROVE Says(told, g, js[g])
    <2>1. PICK i \in 1..n : order[i] = g
      BY <1>3
    <2>2. 2 * i \in FileNews(told, g) /\ told[2 * i].status = js[g]
      <3>1. 2 * i \in 1..(2 * n) /\ told[2 * i] = FileEvent(js, g)
        BY <1>4, <2>1
      <3>2. 2 * i \in DOMAIN told
        BY <1>4, <3>1
      <3>3. /\ told[2 * i].kind = "file_updated" /\ told[2 * i].job = g
            /\ told[2 * i].status = js[g]
        BY <3>1 DEF FileEvent
      <3> QED BY <3>2, <3>3 DEF FileNews
    <2>3. \A k \in FileNews(told, g) : k = 2 * i
      BY <1>3, <1>6, <2>1
    <2> QED BY <1>1, <2>2, <2>3 DEF Says
  <1>8. \A g \in Files \ dropped : FileNews(told, g) = {}
    BY <1>3, <1>6
  <1> QED BY <1>5, <1>7, <1>8 DEF told

(* A transaction writes the log of one bundle, and no job of another.      *)
LEMMA LogOfBundle ==
  ASSUME LogInv, NEW b \in Bundles, NEW log \in Seq(EventRows),
         events' = [events EXCEPT ![b] = log],
         \A f \in FilesOf(b) : Replays(log, f, jobStatus'[f]),
         \A f \in Files \ FilesOf(b) : jobStatus'[f] = jobStatus[f]
  PROVE  LogInv'
PROOF
  <1>1. events'[b] = log /\ \A c \in Bundles \ {b} : events'[c] = events[c]
    BY DEF LogInv
  <1>2. events' \in [Bundles -> Seq(EventRows)]
    BY DEF LogInv
  <1>3. ASSUME NEW c \in Bundles, NEW f \in FilesOf(c)
        PROVE  Replays(events'[c], f, jobStatus'[f])
    <2>1. CASE c = b
      BY <1>1, <1>3, <2>1
    <2>2. CASE c # b
      <3>1. f \in Files \ FilesOf(b)
        BY <1>3, <2>2 DEF FilesOf
      <3> QED BY <1>1, <1>3, <2>2, <3>1 DEF LogInv, LogReplaysFiles
    <2> QED BY <2>1, <2>2
  <1>4. LogReplaysFiles'
    BY <1>3 DEF LogReplaysFiles, FilesOf
  <1> QED BY <1>2, <1>4 DEF LogInv

(* Before anything is enqueued the log is empty and no file has a status.  *)
LEMMA InitLog == Init => LogInv
PROOF
  <1> SUFFICES ASSUME Init PROVE LogInv
    OBVIOUS
  <1>1. \A b \in Bundles : events[b] = <<>>
    BY DEF Init
  <1>2. \A f \in Files : jobStatus[f] = "absent"
    BY DEF Init, Jobs
  <1>3. \A f \in Files : FileNews(<<>>, f) = {}
    BY DEF FileNews
  <1>4. LogReplaysFiles
    BY <1>1, <1>2, <1>3 DEF LogReplaysFiles, Replays, FilesOf
  <1> QED BY <1>4 DEF LogInv, Init

(* The log of a bundle starts when it is enqueued.                         *)
LEMMA EnqueueLog ==
  ASSUME OutcomeInv, LogInv, NEW b \in Bundles, EnqueueBundle(b)
  PROVE  LogInv'
PROOF
  <1> DEFINE js == [j \in Jobs |-> IF j \in FilesOf(b) THEN "queued" ELSE jobStatus[j]]
             e == <<BundleEvent("bundle_updated", js, b)>>
  <1>1. jobStatus' = js /\ events' = [events EXCEPT ![b] = e]
    BY DEF EnqueueBundle
  <1>2. js \in [Jobs -> Statuses]
    BY DEF OutcomeInv, IInv, TypeOK, Statuses, JobStatuses
  <1>3. e \in Seq(EventRows) /\ \A f \in Files : FileNews(e, f) = {}
    BY <1>2, OneBundleEvent
  <1>4. /\ \A f \in FilesOf(b) : f \in Files /\ js[f] = "queued"
        /\ \A f \in Files \ FilesOf(b) : js[f] = jobStatus[f]
    BY DEF FilesOf, Jobs
  <1> HIDE DEF js, e
  <1>5. \A f \in FilesOf(b) : Replays(e, f, jobStatus'[f])
    BY <1>1, <1>3, <1>4 DEF Replays
  <1> QED BY <1>1, <1>3, <1>4, <1>5, LogOfBundle

(* A file is announced when it is claimed; a finalize job is not.          *)
LEMMA ClaimLog ==
  ASSUME OutcomeInv, LogInv, NEW w \in Workers, Claim(w)
  PROVE  LogInv'
PROOF
  <1>1. PICK j \in Jobs :
          /\ jobStatus' = [jobStatus EXCEPT ![j] = "running"]
          /\ events' = IF j \in Files
                         THEN [events EXCEPT ![BundleFor(j)] = @ \o
                                <<FileEvent([jobStatus EXCEPT ![j] = "running"], j),
                                  BundleEvent("bundle_updated",
                                    [jobStatus EXCEPT ![j] = "running"], BundleFor(j))>>]
                         ELSE events
    BY DEF Claim
  <1> DEFINE b == BundleFor(j)
             more == <<FileEvent(jobStatus', j), BundleEvent("bundle_updated", jobStatus', b)>>
  <1>2. /\ jobStatus' \in [Jobs -> Statuses]
        /\ jobStatus'[j] = "running" /\ \A i \in Jobs \ {j} : jobStatus'[i] = jobStatus[i]
    BY <1>1 DEF OutcomeInv, IInv, TypeOK, Statuses, JobStatuses
  <1>3. \A f \in Files : f \in Jobs
    BY DEF Jobs
  <1>4. CASE j \in Files
    <2>1. b \in Bundles /\ b = BundleOf[j]
      BY <1>4, BundleOfAssumption DEF BundleFor
    <2>2. events' = [events EXCEPT ![b] = events[b] \o more]
      BY <1>1, <1>4
    <2>3. /\ more \in Seq(EventRows) /\ Says(more, j, "running")
          /\ \A g \in Files \ {j} : FileNews(more, g) = {}
      BY <1>2, <1>4, <2>1, TwoEvents
    <2> HIDE DEF more, b
    <2>4. events[b] \in Seq(EventRows)
      BY <2>1 DEF LogInv
    <2>5. events[b] \o more \in Seq(EventRows)
      BY <2>3, <2>4, Appended
    <2>6. Replays(events[b] \o more, j, jobStatus'[j])
      BY <1>2, <2>3, <2>4, Appended DEF Replays
    <2>7. ASSUME NEW f \in FilesOf(b), f # j
          PROVE  Replays(events[b] \o more, f, jobStatus'[f])
      <3>1. f \in Files /\ jobStatus'[f] = jobStatus[f]
        BY <1>2, <1>3, <2>7 DEF FilesOf
      <3>2. Replays(events[b], f, jobStatus[f])
        BY <2>1, <2>7 DEF LogInv, LogReplaysFiles
      <3> QED BY <2>3, <2>4, <2>7, <3>1, <3>2, Appended
    <2>8. j \in FilesOf(b)
      BY <1>4, <2>1 DEF FilesOf
    <2>9. \A f \in Files \ FilesOf(b) : jobStatus'[f] = jobStatus[f]
      BY <1>2, <1>3, <2>8
    <2> QED BY <2>1, <2>2, <2>5, <2>6, <2>7, <2>9, LogOfBundle
  <1>5. CASE j \notin Files
    <2>1. events' = events /\ \A f \in Files : jobStatus'[f] = jobStatus[f]
      BY <1>1, <1>2, <1>3, <1>5
    <2> QED BY <2>1 DEF LogInv, LogReplaysFiles, FilesOf
  <1> QED BY <1>4, <1>5

(* The end of a finalize job speaks of the bundle only.                    *)
LEMMA FinalizeEndLog ==
  ASSUME OutcomeInv, LogInv, NEW b \in Bundles, NEW js \in [Jobs -> Statuses],
         events' = [events EXCEPT ![b] = Append(@, BundleEvent("bundle_terminal", js, b))],
         \A f \in Files : jobStatus'[f] = jobStatus[f]
  PROVE  LogInv'
PROOF
  <1> DEFINE more == <<BundleEvent("bundle_terminal", js, b)>>
  <1>1. events[b] \in Seq(EventRows)
    BY DEF LogInv
  <1>2. more \in Seq(EventRows) /\ \A g \in Files : FileNews(more, g) = {}
    BY OneBundleEvent
  <1>3. events' = [events EXCEPT ![b] = events[b] \o more]
    <2>1. BundleEvent("bundle_terminal", js, b) \in EventRows
      BY EventShapes
    <2>2. Append(events[b], BundleEvent("bundle_terminal", js, b)) = events[b] \o more
      BY <1>1, <2>1
    <2> QED BY <2>2
  <1> HIDE DEF more
  <1>4. events[b] \o more \in Seq(EventRows)
    BY <1>1, <1>2, Appended
  <1>5. ASSUME NEW f \in FilesOf(b) PROVE Replays(events[b] \o more, f, jobStatus'[f])
    <2>1. f \in Files
      BY <1>5 DEF FilesOf
    <2>2. Replays(events[b], f, jobStatus[f])
      BY <1>5 DEF LogInv, LogReplaysFiles
    <2> QED BY <1>1, <1>2, <2>1, <2>2, Appended
  <1> QED BY <1>3, <1>4, <1>5, LogOfBundle

(* A file that came in is announced before the finalize job it makes due.  *)
LEMMA FileSucceedsLog ==
  ASSUME OutcomeInv, LogInv, NEW w \in Workers, NEW f, held[w] = f, FileSucceeds(w)
  PROVE  LogInv'
PROOF
  <1> DEFINE b == BundleOf[f]
             done == [jobStatus EXCEPT ![f] = "succeeded"]
             seen == Counted(w, done)
             told == events[b] \o <<FileEvent(done, f)>>
             log == told \o FinalizeEvents(seen, b)
  <1>1. f \in Files /\ f \in Jobs /\ b \in Bundles
    BY BundleOfAssumption DEF FileSucceeds, Jobs
  <1>2. jobStatus' = WithFinalize(done, seen, b) /\ events' = [events EXCEPT ![b] = log]
    BY DEF FileSucceeds
  <1>3. /\ done \in [Jobs -> Statuses] /\ done[f] = "succeeded"
        /\ \A i \in Jobs \ {f} : done[i] = jobStatus[i]
    BY <1>1 DEF OutcomeInv, IInv, TypeOK, Statuses, JobStatuses
  <1>4. <<FileEvent(done, f)>> \in Seq(EventRows) /\ Says(<<FileEvent(done, f)>>, f, "succeeded")
        /\ \A g \in Files \ {f} : FileNews(<<FileEvent(done, f)>>, g) = {}
    BY <1>1, <1>3, OneFileEvent
  <1>5. /\ FinalizeEvents(seen, b) \in Seq(EventRows)
        /\ \A g \in Files : FileNews(FinalizeEvents(seen, b), g) = {}
    <2> HIDE DEF done
    <2>1. seen \in [Jobs -> Statuses]
      BY <1>3, CountedEffect DEF OutcomeInv, IInv, TypeOK
    <2> QED BY <1>1, <2>1, FinalizeSaysNothing
  <1>6. \A g \in Files : jobStatus'[g] = done[g]
    <2>1. \A i \in Jobs \ {b} : jobStatus'[i] = done[i]
      <3> HIDE DEF done, seen, b, log
      <3> QED BY <1>1, <1>2, <1>3, WithFinalizeEffect
    <2> QED BY <1>1, <2>1, NamesAssumption DEF Jobs
  <1> HIDE DEF done, seen, b
  <1>7. events[b] \in Seq(EventRows)
    BY <1>1 DEF LogInv
  <1>8. told \in Seq(EventRows)
    BY <1>4, <1>7, Appended
  <1>9. ASSUME NEW g \in FilesOf(b) PROVE Replays(told, g, done[g])
    <2>1. g \in Files /\ g \in Jobs /\ Replays(events[b], g, jobStatus[g])
      BY <1>1, <1>9 DEF LogInv, LogReplaysFiles, FilesOf, Jobs
    <2>2. CASE g = f
      BY <1>3, <1>4, <1>7, <2>2, Appended DEF Replays
    <2>3. CASE g # f
      BY <1>3, <1>4, <1>7, <2>1, <2>3, Appended
    <2> QED BY <2>2, <2>3
  <1> HIDE DEF told
  <1>10. log \in Seq(EventRows)
    BY <1>5, <1>8, Appended
  <1>11. ASSUME NEW g \in FilesOf(b) PROVE Replays(log, g, jobStatus'[g])
    <2>1. g \in Files
      BY <1>11 DEF FilesOf
    <2> QED BY <1>5, <1>6, <1>8, <1>9, <1>11, <2>1, Appended
  <1>12. \A g \in Files \ FilesOf(b) : jobStatus'[g] = jobStatus[g]
    <2>1. f \in FilesOf(b)
      BY <1>1 DEF FilesOf, b
    <2> QED BY <1>3, <1>6, <2>1 DEF Jobs
  <1> HIDE DEF log
  <1> QED BY <1>1, <1>2, <1>10, <1>11, <1>12, LogOfBundle

(* A file that failed is announced as it failed, again as it was requeued  *)
(* or given up, and after it the files dropped with it.                    *)
LEMMA FileFailsLog ==
  ASSUME OutcomeInv, LogInv, NEW w \in Workers, NEW f, held[w] = f,
         NEW disposition \in Dispositions, FileFails(w, disposition)
  PROVE  LogInv'
PROOF
  <1> DEFINE b == BundleOf[f]
             failed == MarkedFailed(f, disposition)
             after == Retried(failed, f)
             dropped == Dropped(jobStatus, after)
             first == <<FileEvent(failed, f)>>
             seen == Counted(w, after)
             retried == IF disposition = "failed_retriable"
                          THEN RetryEvents(after, seen, f, b) ELSE <<>>
             last == FinalizeEvents(seen, b)
  <1>1. f \in Files /\ f \in Jobs /\ b \in Bundles /\ f # None
    BY BundleOfAssumption, NamesAssumption DEF FileFails, Jobs
  <1>2. PICK order \in Returned(dropped) :
          events' = [events EXCEPT ![b] =
                       @ \o first \o retried \o DependencyEvents(after, order) \o last]
    BY DEF FileFails
  <1> DEFINE middle == DependencyEvents(after, order)
             log1 == events[b] \o first
             log2 == log1 \o retried
             log3 == log2 \o middle
             log4 == log3 \o last
  <1>3. events' = [events EXCEPT ![b] = log4]
    BY <1>2
  <1>4. jobStatus \in [Jobs -> Statuses] /\ jobStatus[f] = "running"
    BY <1>1 DEF OutcomeInv, IInv, TypeOK, Statuses, ExclusiveClaim
  <1>5. failed \in [Jobs -> Statuses] /\ failed[f] = disposition
    <2> DEFINE marked == [jobStatus EXCEPT ![f] = disposition]
    <2>1. marked \in [Jobs -> Statuses] /\ marked[f] = disposition
      BY <1>1, <1>4 DEF Statuses, JobStatuses, Dispositions
    <2> HIDE DEF marked
    <2>2. /\ Propagate(marked, f) \in [Jobs -> Statuses]
          /\ disposition = "failed_terminal" => Propagate(marked, f)[f] = disposition
      BY <1>1, <2>1, PropagateEffect
    <2> QED BY <2>1, <2>2 DEF MarkedFailed, marked
  <1>6. after \in [Jobs -> Statuses] /\ (Requeued(after, f, disposition) \/ Died(after, f))
    <2>1. after \in [Jobs -> Statuses]
      BY <1>1, <1>4, FailureEffect DEF FailureOutcome
    <2>2. f \notin Bundles
      BY <1>1, NamesAssumption
    <2> QED BY <1>1, <1>4, <2>1, <2>2, FailureCases
  <1>7. \A g \in Files : g \in Jobs /\ jobStatus'[g] = after[g]
    <2>1. jobStatus' = WithFinalize(after, seen, b)
      BY DEF FileFails
    <2>2. \A i \in Jobs \ {b} : jobStatus'[i] = after[i]
      BY <1>1, <1>6, <2>1, WithFinalizeEffect
    <2> QED BY <1>1, <2>2, NamesAssumption DEF Jobs
  <1>8. /\ dropped \subseteq Files \ {f}
        /\ \A g \in dropped : g \in FilesOf(b) /\ after[g] = "failed_terminal"
        /\ \A g \in Files \ {f} : g \notin dropped => after[g] = jobStatus[g]
    <2>1. /\ \A g \in WaitingFor(f) : g \in Files /\ jobStatus[g] = "queued" /\ BundleOf[g] = b
      BY <1>1, <1>4, WaitingFiles
    <2>2. dropped \subseteq Files \ {f} /\ \A g \in dropped : after[g] = "failed_terminal"
      BY <1>4 DEF Dropped
    <2>3. ASSUME NEW g \in dropped PROVE g \in FilesOf(b)
      <3>1. g \in Files \ {f} /\ jobStatus[g] = "queued" /\ after[g] = "failed_terminal" /\ g \in Jobs
        BY <1>7, <2>2, <2>3 DEF Dropped
      <3>2. g \in WaitingFor(f)
        BY <1>6, <3>1 DEF Requeued, Died
      <3> QED BY <2>1, <3>1, <3>2 DEF FilesOf
    <2>4. ASSUME NEW g \in Files \ {f}, g \notin dropped PROVE after[g] = jobStatus[g]
      <3>1. g \in WaitingFor(f) /\ Died(after, f) => g \in dropped
        BY <1>7, <2>1 DEF Died, Dropped
      <3> QED BY <1>6, <1>7, <2>4, <3>1 DEF Requeued, Died
    <2> QED BY <2>2, <2>3, <2>4
  <1>25. seen \in [Jobs -> Statuses]
    <2> HIDE DEF after
    <2> QED BY <1>6, CountedEffect DEF OutcomeInv, IInv, TypeOK
  <1>9. /\ first \in Seq(EventRows) /\ Says(first, f, disposition)
        /\ \A g \in Files \ {f} : FileNews(first, g) = {}
    BY <1>1, <1>5, OneFileEvent
  <1>10. /\ retried \in Seq(EventRows)
         /\ disposition = "failed_retriable" => Says(retried, f, after[f])
         /\ disposition # "failed_retriable" => FileNews(retried, f) = {}
         /\ \A g \in Files \ {f} : FileNews(retried, g) = {}
    <2>1. CASE disposition = "failed_retriable"
      <3>1. retried = <<FileEvent(after, f), BundleEvent("bundle_updated", seen, b)>>
        BY <2>1 DEF RetryEvents
      <3> HIDE DEF retried, after, seen
      <3> QED BY <1>1, <1>6, <1>25, <2>1, <3>1, TwoEvents
    <2>2. CASE disposition # "failed_retriable"
      BY <2>2 DEF FileNews
    <2> QED BY <2>1, <2>2
  <1>11. /\ last \in Seq(EventRows) /\ \A g \in Files : FileNews(last, g) = {}
    <2> HIDE DEF seen
    <2> QED BY <1>1, <1>25, FinalizeSaysNothing
  <1> HIDE DEF after, seen, dropped, first, retried, last, b
  <1>12. /\ middle \in Seq(EventRows)
         /\ \A g \in dropped : Says(middle, g, after[g])
         /\ \A g \in Files \ dropped : FileNews(middle, g) = {}
    BY <1>2, <1>6, <1>8, DropsTold
  <1> HIDE DEF middle, failed
  <1>13. events[b] \in Seq(EventRows)
    BY <1>1 DEF LogInv
  <1>14. log1 \in Seq(EventRows)
    BY <1>9, <1>13, Appended
  <1>15. ASSUME NEW g \in FilesOf(b), g # f PROVE Replays(log1, g, jobStatus[g])
    <2>1. g \in Files /\ Replays(events[b], g, jobStatus[g])
      BY <1>1, <1>15 DEF LogInv, LogReplaysFiles, FilesOf
    <2> QED BY <1>9, <1>13, <1>15, <2>1, Appended
  <1>16. Replays(log1, f, disposition)
    BY <1>9, <1>13, Appended DEF Replays
  <1> HIDE DEF log1
  <1>17. log2 \in Seq(EventRows)
    BY <1>10, <1>14, Appended
  <1>18. ASSUME NEW g \in FilesOf(b), g # f PROVE Replays(log2, g, jobStatus[g])
    <2>1. g \in Files
      BY <1>18 DEF FilesOf
    <2> QED BY <1>10, <1>14, <1>15, <1>18, <2>1, Appended
  <1>19. Replays(log2, f, after[f])
    <2>1. CASE disposition = "failed_retriable"
      BY <1>10, <1>14, <2>1, Appended DEF Replays
    <2>2. CASE disposition = "failed_terminal"
      <3>1. after[f] = "failed_terminal"
        BY <1>6, <2>2 DEF Requeued, Died
      <3> QED BY <1>10, <1>14, <1>16, <2>2, <3>1, Appended
    <2> QED BY <2>1, <2>2 DEF Dispositions
  <1> HIDE DEF log2
  <1>20. log3 \in Seq(EventRows)
    BY <1>12, <1>17, Appended
  <1>21. ASSUME NEW g \in FilesOf(b) PROVE Replays(log3, g, after[g])
    <2>1. g \in Files
      BY <1>21 DEF FilesOf
    <2>2. CASE g \in dropped
      BY <1>12, <1>17, <2>2, Appended DEF Replays
    <2>3. CASE g \notin dropped
      <3>1. Replays(log2, g, after[g])
        BY <1>8, <1>18, <1>19, <1>21, <2>1, <2>3
      <3> QED BY <1>12, <1>17, <2>1, <2>3, <3>1, Appended
    <2> QED BY <2>2, <2>3
  <1> HIDE DEF log3
  <1>22. log4 \in Seq(EventRows)
    BY <1>11, <1>20, Appended
  <1>23. ASSUME NEW g \in FilesOf(b) PROVE Replays(log4, g, jobStatus'[g])
    <2>1. g \in Files
      BY <1>23 DEF FilesOf
    <2> QED BY <1>7, <1>11, <1>20, <1>21, <1>23, <2>1, Appended
  <1>24. \A g \in Files \ FilesOf(b) : jobStatus'[g] = jobStatus[g]
    <2>1. f \in FilesOf(b)
      BY <1>1 DEF FilesOf, b
    <2> QED BY <1>7, <1>8, <2>1
  <1> HIDE DEF log4
  <1> QED BY <1>1, <1>3, <1>22, <1>23, <1>24, LogOfBundle

(* Every step of the queue.                                                *)
LEMMA StepLog ==
  ASSUME OutcomeInv, LogInv, [Next]_vars
  PROVE  LogInv'
PROOF
  <1>1. ASSUME NEW b \in Bundles, EnqueueBundle(b) PROVE LogInv'
    BY <1>1, EnqueueLog
  <1>2. ASSUME NEW w \in Workers, Claim(w) PROVE LogInv'
    BY <1>2, ClaimLog
  <1>3. ASSUME NEW w \in Workers, FileSucceeds(w) PROVE LogInv'
    BY <1>3, FileSucceedsLog
  <1>4. ASSUME NEW w \in Workers, NEW disposition \in Dispositions, FileFails(w, disposition)
        PROVE  LogInv'
    BY <1>4, FileFailsLog
  <1>5. \A f \in Files : f \in Jobs /\ f \notin Bundles
    BY NamesAssumption DEF Jobs
  <1>6. jobStatus \in [Jobs -> Statuses]
    BY DEF OutcomeInv, IInv, TypeOK, Statuses
  <1>7. ASSUME NEW w \in Workers, FinalizeSucceeds(w) PROVE LogInv'
    <2> DEFINE b == held[w]
               done == [jobStatus EXCEPT ![b] = "succeeded"]
    <2>1. /\ b \in Bundles /\ jobStatus' = done
          /\ events' = [events EXCEPT ![b] = Append(@, BundleEvent("bundle_terminal", done, b))]
      BY <1>7 DEF FinalizeSucceeds
    <2>2. done \in [Jobs -> Statuses] /\ \A f \in Files : done[f] = jobStatus[f]
      BY <1>5, <1>6, <2>1 DEF Statuses, JobStatuses
    <2> HIDE DEF b, done
    <2> QED BY <2>1, <2>2, FinalizeEndLog
  <1>8. ASSUME NEW w \in Workers, FinalizeFails(w) PROVE LogInv'
    <2> DEFINE b == held[w]
               failed == MarkedFailed(b, "failed_retriable")
    <2>1. /\ b \in Bundles
          /\ events' = [events EXCEPT ![b] = Append(@, BundleEvent("bundle_terminal", failed, b))]
      BY <1>8 DEF FinalizeFails
    <2>2. failed \in [Jobs -> Statuses]
      BY <1>6 DEF MarkedFailed, Statuses, JobStatuses
    <2>3. \A f \in Files : jobStatus'[f] = jobStatus[f]
      BY <1>5, <1>8, <2>1, FinalizeFailsEffect
    <2> HIDE DEF b, failed
    <2> QED BY <2>1, <2>2, <2>3, FinalizeEndLog
  <1>9. ASSUME UNCHANGED <<jobStatus, events>> PROVE LogInv'
    BY <1>9 DEF LogInv, LogReplaysFiles
  <1>10. ASSUME NEW b \in Bundles, LoadSnapshot(b) PROVE LogInv'
    BY <1>9, <1>10 DEF LoadSnapshot
  <1>11. ASSUME NEW w \in Workers, Crash(w) PROVE LogInv'
    BY <1>9, <1>11 DEF Crash, tables
  <1>12. ASSUME UNCHANGED vars PROVE LogInv'
    BY <1>9, <1>12 DEF vars
  <1> QED BY <1>1, <1>2, <1>3, <1>4, <1>7, <1>8, <1>10, <1>11, <1>12
          DEF Next, Execute, Dispositions

(* A client that replays the event log of a bundle knows the status of     *)
(* each of its files, whatever fails, is retried or is dropped, and in     *)
(* whatever order the dropped files are announced.                         *)
THEOREM EventsTellEverything == Spec => []LogReplaysFiles
PROOF
  <1>1. OutcomeInv /\ LogInv /\ [Next]_vars => LogInv'
    BY StepLog
  <1>2. LogInv => LogReplaysFiles
    BY DEF LogInv
  <1> QED BY InitLog, OutcomeInvariance, <1>1, <1>2, PTL DEF Spec
=============================================================================
