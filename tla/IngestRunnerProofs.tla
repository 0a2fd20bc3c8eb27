------------------------- MODULE IngestRunnerProofs -------------------------
(***************************************************************************)
(* Theorems about IngestRunner, for every number of workers, readers,      *)
(* bundles, files, attempts and crashes: the inductive invariant RunnerInv *)
(* and the properties that follow from it.  A step changes the private     *)
(* state of one session; only a commit changes what the others see.        *)
(***************************************************************************)
EXTENDS IngestRunner, SequenceTheorems, WellFoundedInduction, TLAPS

-----------------------------------------------------------------------------
(* The recursive query of propagate_dependency_failure.                    *)

(* A queued dependent is a queued file job.                                *)
LEMMA DependentsAreQueued ==
  ASSUME NEW js, NEW j, NEW f \in QueuedDependents(js, j)
  PROVE  f \in Files /\ js[f] = "queued"
BY DEF QueuedDependents

(* A queued file that waits for job j, or for a file the query returns, is *)
(* returned too.                                                           *)
LEMMA DependentsClosed ==
  ASSUME NEW js, NEW j, NEW f \in Files, js[f] = "queued",
         DependsOn[f] \in QueuedDependents(js, j) \cup {j}
  PROVE  f \in QueuedDependents(js, j)
BY DEF QueuedDependents

(* A set of queued files that holds those waiting for j or for one of its  *)
(* members holds all that the query returns.                               *)
LEMMA DependentsLeast ==
  ASSUME NEW js, NEW j, NEW T \in SUBSET {f \in Files : js[f] = "queued"},
         \A f \in Files : js[f] = "queued" /\ DependsOn[f] \in T \cup {j} => f \in T
  PROVE  QueuedDependents(js, j) \subseteq T
BY DEF QueuedDependents

(* Every file it returns waits for j or for a file it returns.             *)
LEMMA DependentsGrounded ==
  ASSUME NEW js, NEW j, NEW f \in QueuedDependents(js, j)
  PROVE  DependsOn[f] \in QueuedDependents(js, j) \cup {j}
PROOF
  <1> DEFINE D == QueuedDependents(js, j)
             T == {g \in D : DependsOn[g] \in D \cup {j}}
  <1>1. T \in SUBSET {g \in Files : js[g] = "queued"}
    BY DependentsAreQueued
  <1>2. \A g \in Files : js[g] = "queued" /\ DependsOn[g] \in T \cup {j} => g \in T
    BY DependentsClosed
  <1>3. D \subseteq T
    <2> HIDE DEF T
    <2> QED BY <1>1, <1>2, DependentsLeast
  <1> QED BY <1>3

(* No file waits for a finalize job.                                       *)
LEMMA NobodyWaitsForFinalize ==
  ASSUME NEW js, NEW b \in Bundles
  PROVE  QueuedDependents(js, b) = {}
PROOF
  <1> DEFINE T == {f \in Files : FALSE}
  <1>1. \A f \in Files : DependsOn[f] # b
    BY DependsOnAssumption, NamesAssumption
  <1>2. T \in SUBSET {f \in Files : js[f] = "queued"} /\ T = {}
    OBVIOUS
  <1>3. \A f \in Files : js[f] = "queued" /\ DependsOn[f] \in T \cup {b} => f \in T
    BY <1>1, <1>2
  <1>4. QueuedDependents(js, b) \subseteq T
    <2> HIDE DEF T
    <2> QED BY <1>2, <1>3, DependentsLeast
  <1> QED BY <1>2, <1>4

-----------------------------------------------------------------------------
(* The rows a transaction sees.                                            *)

(* A table with one row.                                                   *)
LEMMA RowRows ==
  ASSUME NEW key, NEW value
  PROVE  DOMAIN Row(key, value) = {key} /\ Row(key, value)[key] = value
BY DEF Row

(* A table without rows.                                                   *)
LEMMA EmptyRows == DOMAIN Empty = {}
BY DEF Empty

(* A worker sees what it wrote of a job, and the committed status else.    *)
LEMMA SeenByWorker ==
  ASSUME TypeOK, NEW p \in Sessions, NEW j \in Jobs
  PROVE  JobsSeen(p)[j] = IF j \in Written(p) THEN txJobs[p][j] ELSE jobStatus[j]
PROOF
  <1>1. DOMAIN jobStatus = Jobs
    BY DEF TypeOK
  <1> QED BY <1>1 DEF JobsSeen, Written, Over

(* Every job belongs to a bundle.                                          *)
LEMMA SubjectIsBundle ==
  ASSUME NEW j \in Jobs
  PROVE  BundleFor(j) \in Bundles
BY BundleOfAssumption DEF BundleFor, Jobs

(* Only a worker writes, and only rows of jobs that have not ended.        *)
LEMMA WrittenAreOpen ==
  ASSUME RunnerInv, NEW p \in Sessions, NEW i \in Written(p)
  PROVE  /\ p \in Workers /\ i \in Jobs /\ script[p] # <<>> /\ held[p] \in Written(p)
         /\ jobStatus[i] \in {"queued", "running", "absent"}
         /\ txJobs[p][i] \in JobStatuses
         /\ i = held[p] \/ DropsWith(p, i) \/ Inserts(p, i)
PROOF
  <1>1. p \in Workers
    BY DEF RunnerInv, ReaderInv, Sessions
  <1>2. InTransaction(p)
    BY <1>1 DEF RunnerInv, WorkerInv
  <1>3. Claims(p, i) \/ Ends(p, i) \/ DropsWith(p, i) \/ Inserts(p, i)
    BY <1>2 DEF InTransaction
  <1>4. i \in Jobs /\ txJobs[p][i] \in JobStatuses
    BY DEF RunnerInv, TypeOK
  <1>5. script[p] # <<>> /\ held[p] \in Written(p)
    BY <1>2 DEF InTransaction
  <1> QED BY <1>1, <1>3, <1>4, <1>5 DEF Claims, Ends, DropsWith, Inserts

(* A running job that is written was executed by the writer.               *)
LEMMA RunningIsHeld ==
  ASSUME RunnerInv, NEW p \in Sessions, NEW i \in Written(p), jobStatus[i] = "running"
  PROVE  p \in Workers /\ i = held[p]
BY WrittenAreOpen DEF DropsWith, Inserts

(* A worker between its two transactions holds a running job.              *)
LEMMA ExecutingRuns ==
  ASSUME RunnerInv, NEW w \in Workers, Executing(w)
  PROVE  /\ held[w] \in Jobs /\ jobStatus[held[w]] = "running"
         /\ Written(w) = {} /\ DOMAIN txRow[w] = {}
BY DEF Executing, RunnerInv, TypeOK, WorkerInv, InTransaction, Sessions

-----------------------------------------------------------------------------
(* Steps that leave the private state of a session alone.                  *)

Untouched(p) ==
  /\ held'[p] = held[p] /\ script'[p] = script[p] /\ seen'[p] = seen[p]
  /\ txJobs'[p] = txJobs[p] /\ txRow'[p] = txRow[p]

(* A worker whose session a step does not touch, when nothing is           *)
(* committed.                                                              *)
LEMMA UntouchedWorker ==
  ASSUME NEW w \in Workers, WorkerInv(w), Untouched(w), jobStatus' = jobStatus
  PROVE  WorkerInv(w)'
PROOF
  <1>1. JobsSeen(w)' = JobsSeen(w) /\ Subject(w)' = Subject(w) /\ Written(w)' = Written(w)
    BY DEF Untouched, JobsSeen, Subject, Written
  <1>2. InProgram(w)' /\ RetryPending(w)'
    BY DEF WorkerInv, InProgram, RetryPending, Untouched
  <1>3. \A i \in Written(w) :
          /\ Claims(w, i) => Claims(w, i)'
          /\ Ends(w, i) => Ends(w, i)'
          /\ DropsWith(w, i) => DropsWith(w, i)'
          /\ Inserts(w, i) => Inserts(w, i)'
    BY <1>1 DEF Untouched, Claims, Ends, DropsWith, Inserts, Unblocked
  <1>4. InTransaction(w)'
    BY <1>1, <1>3 DEF WorkerInv, InTransaction, Untouched
  <1>5. DropsAreClosed(w)'
    BY <1>1 DEF WorkerInv, DropsAreClosed, Untouched
  <1>6. StillDue(w)' /\ StillCovers(w)'
    BY <1>1 DEF WorkerInv, StillDue, StillCovers, Imported, At, Untouched
  <1> QED BY <1>2, <1>4, <1>5, <1>6 DEF WorkerInv

(* Likewise a reader.                                                      *)
LEMMA UntouchedReader ==
  ASSUME NEW r \in Readers, ReaderInv(r), Untouched(r)
  PROVE  ReaderInv(r)'
BY DEF ReaderInv, Untouched, Written

(* A step of session p that changes no committed job keeps the invariant   *)
(* when the private part of p does.                                        *)
LEMMA PrivateStep ==
  ASSUME RunnerInv, TypeOK', NEW p \in Sessions,
         \A q \in Sessions \ {p} : Untouched(q),
         jobStatus' = jobStatus,
         p \in Workers => WorkerInv(p)', p \in Readers => ReaderInv(p)',
         \A q \in Sessions \ {p} :
           /\ Written(p)' \cap Written(q) = {}
           /\ DOMAIN txRow'[p] \cap DOMAIN txRow[q] = {},
         p \in Workers /\ held'[p] # None /\ held'[p] # held[p] =>
           \A q \in Workers \ {p} : held[q] # held'[p],
         DrainInv'
  PROVE  RunnerInv'
PROOF
  <1>1. \A w \in Workers : WorkerInv(w)'
    BY UntouchedWorker DEF RunnerInv, Sessions
  <1>2. \A r \in Readers : ReaderInv(r)'
    BY UntouchedReader DEF RunnerInv, Sessions
  <1>3. \A q \in Sessions \ {p} : Written(q)' = Written(q) /\ txRow'[q] = txRow[q]
    BY DEF Untouched, Written
  <1>4. LocksExclude'
    BY <1>3 DEF RunnerInv, LocksExclude
  <1>5. ExclusiveClaim'
    <2>1. \A q \in Workers \ {p} : held'[q] = held[q]
      BY DEF Untouched, Sessions
    <2>2. ExclusiveClaim
      BY DEF RunnerInv
    <2>3. p \in Workers /\ held'[p] # None => \A q \in Workers \ {p} : held[q] # held'[p]
      BY <2>2 DEF ExclusiveClaim
    <2> QED BY <2>1, <2>2, <2>3 DEF ExclusiveClaim
  <1>6. \A f \in Files : FileInv(f)'
    BY DEF RunnerInv, FileInv, Unblocked
  <1>7. \A b \in Bundles : FinalizeInv(b)'
    BY DEF RunnerInv, FinalizeInv
  <1> QED BY <1>1, <1>2, <1>4, <1>5, <1>6, <1>7 DEF RunnerInv

-----------------------------------------------------------------------------
(* Programs.                                                               *)

(* The statements that are left after the next one.                        *)
LEMMA RestOf ==
  ASSUME NEW S, NEW s \in Seq(S), s # <<>>
  PROVE  /\ Len(s) \in Nat /\ Len(s) > 0 /\ Head(s) = s[1]
         /\ Tail(s) \in Seq(S) /\ Len(Tail(s)) = Len(s) - 1
         /\ \A i \in 1..(Len(s) - 1) : Tail(s)[i] = s[i + 1]
BY EmptySeq, HeadTailProperties

(* A worker that executed a statement other than a commit has a statement  *)
(* left, its last one still the commit, and comes to an insert only from   *)
(* the check before it.                                                    *)
LEMMA NextStatement ==
  ASSUME NEW w \in Sessions, TypeOK, InProgram(w), script[w] # <<>>, Head(script[w]) # "commit",
         script'[w] = Tail(script[w]), held'[w] = held[w]
  PROVE  /\ InProgram(w)' /\ script'[w] # <<>>
         /\ Head(script[w]) # "checkDue" => Head(script'[w]) # "insertFinalize"
         /\ Head(script'[w]) = "insertFinalize" => held[w] \in Files
         /\ Head(script[w]) # "retry" => (HasRetry(script[w]) <=> HasRetry(script'[w]))
         /\ Head(script[w]) = "retry" => ~HasRetry(script'[w])
PROOF
  <1> DEFINE s == script[w]
             t == Tail(s)
  <1>1. s \in Seq(Statements) /\ s # <<>>
    BY DEF TypeOK
  <1> HIDE DEF s
  <1>2. /\ Len(s) \in Nat /\ Len(s) > 0 /\ Head(s) = s[1]
        /\ t \in Seq(Statements) /\ Len(t) = Len(s) - 1
        /\ \A i \in 1..(Len(s) - 1) : t[i] = s[i + 1]
    BY <1>1, RestOf
  <1>3. \A i \in 1..Len(s) :
          /\ s[i] = "commit" <=> i = Len(s)
          /\ s[i] = "retry" => \A k \in 1..(i - 1) : s[k] \in RefreshStatements
          /\ s[i] = "insertFinalize" /\ i > 1 => s[i - 1] = "checkDue"
          /\ s[i] \in {"checkDue", "insertFinalize"} => held[w] \in Files
    BY DEF s, InProgram
  <1>4. held[w] # None
    BY DEF InProgram
  <1>5. s[1] # "commit"
    BY <1>2 DEF s
  <1>6. Len(s) > 1
    <2>1. 1 \in 1..Len(s)
      BY <1>2
    <2>2. 1 # Len(s)
      BY <1>3, <1>5, <2>1
    <2> QED BY <1>2, <2>2
  <1> HIDE DEF t
  <1>7. t # <<>> /\ Head(t) = t[1] /\ t[1] = s[2]
    BY <1>2, <1>6, EmptySeq, HeadTailProperties
  <1>8. \A i \in 1..Len(t) :
          /\ t[i] = "commit" <=> i = Len(t)
          /\ t[i] = "retry" => \A k \in 1..(i - 1) : t[k] \in RefreshStatements
          /\ t[i] = "insertFinalize" /\ i > 1 => t[i - 1] = "checkDue"
          /\ t[i] \in {"checkDue", "insertFinalize"} => held[w] \in Files
    <2> TAKE i \in 1..Len(t)
    <2>1. i + 1 \in 1..Len(s) /\ i \in 1..(Len(s) - 1) /\ t[i] = s[i + 1]
      BY <1>2
    <2>2. t[i] = "commit" <=> i = Len(t)
      BY <1>2, <1>3, <2>1
    <2>3. t[i] = "retry" => \A k \in 1..(i - 1) : t[k] \in RefreshStatements
      <3> SUFFICES ASSUME t[i] = "retry", NEW k \in 1..(i - 1)
                   PROVE  t[k] \in RefreshStatements
        OBVIOUS
      <3>1. k \in 1..(Len(s) - 1) /\ k + 1 \in 1..((i + 1) - 1)
        BY <2>1, <1>2
      <3>2. s[k + 1] \in RefreshStatements
        BY <1>3, <2>1, <3>1
      <3> QED BY <1>2, <3>1, <3>2
    <2>4. t[i] = "insertFinalize" /\ i > 1 => t[i - 1] = "checkDue"
      <3> SUFFICES ASSUME t[i] = "insertFinalize", i > 1
                   PROVE  t[i - 1] = "checkDue"
        OBVIOUS
      <3>1. s[(i + 1) - 1] = "checkDue"
        BY <1>2, <1>3, <2>1
      <3>2. i - 1 \in 1..(Len(s) - 1) /\ (i - 1) + 1 = (i + 1) - 1
        BY <2>1, <1>2
      <3> QED BY <1>2, <3>1, <3>2
    <2> QED BY <1>3, <2>1, <2>2, <2>3, <2>4
  <1>9. InProgram(w)' /\ script'[w] # <<>>
    BY <1>4, <1>7, <1>8 DEF InProgram, s, t
  <1>10. s[1] # "checkDue" => t[1] # "insertFinalize"
    BY <1>2, <1>3, <1>6, <1>7
  <1>11. t[1] = "insertFinalize" => held[w] \in Files
    BY <1>2, <1>3, <1>6, <1>7
  <1>12. s[1] # "retry" => (HasRetry(s) <=> HasRetry(t))
    <2>1. ASSUME s[1] # "retry", NEW i \in 1..Len(s), s[i] = "retry"
          PROVE  HasRetry(t)
      <3>1. i - 1 \in 1..Len(t) /\ t[i - 1] = s[(i - 1) + 1] /\ (i - 1) + 1 = i
        BY <1>2, <2>1
      <3> QED BY <2>1, <3>1 DEF HasRetry
    <2>2. ASSUME NEW i \in 1..Len(t), t[i] = "retry"
          PROVE  HasRetry(s)
      <3>1. i + 1 \in 1..Len(s) /\ t[i] = s[i + 1]
        BY <1>2
      <3> QED BY <2>2, <3>1 DEF HasRetry
    <2> QED BY <2>1, <2>2 DEF HasRetry
  <1>13. s[1] = "retry" => ~HasRetry(t)
    <2> SUFFICES ASSUME s[1] = "retry", NEW i \in 1..Len(t), t[i] = "retry"
                 PROVE  FALSE
      BY DEF HasRetry
    <2>1. i + 1 \in 1..Len(s) /\ t[i] = s[i + 1] /\ 1 \in 1..((i + 1) - 1)
      BY <1>2
    <2>2. s[1] \in RefreshStatements
      BY <1>3, <2>1
    <2> QED BY <2>2 DEF RefreshStatements
  <1> QED BY <1>2, <1>7, <1>9, <1>10, <1>11, <1>12, <1>13 DEF s, t

(* No statement of a worker that has left its loop is executed, and no     *)
(* job is lost by a step other than the end of its execution or a crash.   *)
LEMMA DrainStays ==
  ASSUME RunnerInv, NEW p \in Sessions, p \notin stopped,
         \A q \in Sessions \ {p} : Untouched(q),
         jobStatus' = jobStatus, stopped' = stopped, crashes' = crashes,
         p \in Workers => held'[p] = held[p] \/ held[p] = None
  PROVE  DrainInv'
PROOF
  <1>1. DrainInv /\ stopped \subseteq Workers /\ held \in [Sessions -> Jobs \cup {None}]
    BY DEF RunnerInv, TypeOK
  <1>2. \A w \in stopped' : Idle(w)'
    BY <1>1 DEF DrainInv, Idle, Untouched, Sessions
  <1>3. ASSUME crashes' = 0, NEW j \in Jobs, jobStatus'[j] = "running"
        PROVE  \E w \in Workers : held'[w] = j
    <2>1. PICK w \in Workers : held[w] = j
      BY <1>1, <1>3 DEF DrainInv
    <2>2. held[w] # None
      BY <2>1, NamesAssumption DEF Jobs
    <2>3. held'[w] = held[w]
      BY <2>2 DEF Untouched, Sessions
    <2> QED BY <2>1, <2>3
  <1>4. DrainCompletes'
    BY <1>1 DEF DrainInv, DrainCompletes
  <1> QED BY <1>2, <1>3, <1>4 DEF DrainInv

(* A worker within a transaction, or holding a job, has not left.          *)
LEMMA BusyHasNotLeft ==
  ASSUME RunnerInv, NEW p \in Sessions, script[p] # <<>> \/ held[p] # None
  PROVE  p \notin stopped
BY DEF RunnerInv, DrainInv, Idle

(* A statement that writes no job leaves the worker in its program.        *)
LEMMA AdvanceWorker ==
  ASSUME RunnerInv, NEW w \in Workers, script[w] # <<>>,
         Head(script[w]) \notin {"commit", "retry", "checkDue"},
         script'[w] = Tail(script[w]), held'[w] = held[w], txJobs'[w] = txJobs[w],
         jobStatus' = jobStatus, seen'[w].loaded = seen[w].loaded,
         \A b \in DOMAIN txRow'[w] : b = Subject(w)
  PROVE  WorkerInv(w)'
PROOF
  <1>1. WorkerInv(w) /\ TypeOK /\ w \in Sessions
    BY DEF RunnerInv, Sessions
  <1>2. /\ InProgram(w)' /\ script'[w] # <<>> /\ Head(script'[w]) # "insertFinalize"
        /\ HasRetry(script[w]) <=> HasRetry(script'[w])
    BY <1>1, NextStatement DEF WorkerInv
  <1>3. /\ JobsSeen(w)' = JobsSeen(w) /\ Subject(w)' = Subject(w)
        /\ Written(w)' = Written(w)
    BY DEF JobsSeen, Subject, Written
  <1>4. RetryPending(w)' /\ DropsAreClosed(w)' /\ StillDue(w)' /\ StillCovers(w)'
    BY <1>1, <1>2, <1>3 DEF WorkerInv, RetryPending, DropsAreClosed, StillDue, StillCovers, Imported, At
  <1>5. InTransaction(w)'
    <2>1. held[w] \in Written(w)
      BY <1>1 DEF WorkerInv, InTransaction
    <2>2. \A i \in Written(w) :
            /\ ~Claims(w, i)
            /\ Ends(w, i) => Ends(w, i)'
            /\ DropsWith(w, i) => DropsWith(w, i)'
            /\ Inserts(w, i) => Inserts(w, i)'
      BY <1>3 DEF Claims, Ends, DropsWith, Inserts
    <2> QED BY <1>1, <1>2, <1>3, <2>1, <2>2 DEF WorkerInv, InTransaction
  <1> QED BY <1>2, <1>4, <1>5 DEF WorkerInv

(* A reader that has executed a statement other than its last.             *)
LEMMA AdvanceReader ==
  ASSUME RunnerInv, NEW r \in Readers, script[r] # <<>>, Head(script[r]) # "storeStatus",
         script'[r] = Tail(script[r]), held'[r] = held[r], txJobs'[r] = txJobs[r],
         txRow'[r] = txRow[r]
  PROVE  ReaderInv(r)'
PROOF
  <1> DEFINE s == script[r]
             t == Tail(s)
  <1>1. s \in Seq(Statements) /\ s # <<>> /\ ReaderInv(r)
    BY DEF RunnerInv, TypeOK, Sessions
  <1>2. \A i \in 1..Len(s) :
          s[i] \in RefreshStatements /\ (s[i] = "storeStatus" <=> i = Len(s))
    BY <1>1 DEF ReaderInv
  <1>3. Head(s) # "storeStatus"
    OBVIOUS
  <1>4. script'[r] = t
    OBVIOUS
  <1> HIDE DEF s
  <1>5. /\ Len(s) \in Nat /\ Len(s) > 0 /\ Head(s) = s[1]
        /\ t \in Seq(Statements) /\ Len(t) = Len(s) - 1
        /\ \A i \in 1..(Len(s) - 1) : t[i] = s[i + 1]
    BY <1>1, RestOf
  <1> HIDE DEF t
  <1>6. Len(s) > 1
    <2>1. 1 \in 1..Len(s)
      BY <1>5
    <2>2. 1 # Len(s)
      BY <1>2, <1>3, <1>5, <2>1
    <2> QED BY <1>5, <2>2
  <1>7. t # <<>>
    BY <1>5, <1>6, EmptySeq
  <1>8. \A i \in 1..Len(t) :
          t[i] \in RefreshStatements /\ (t[i] = "storeStatus" <=> i = Len(t))
    BY <1>2, <1>5
  <1> QED BY <1>1, <1>4, <1>7, <1>8 DEF ReaderInv, Written, s

-----------------------------------------------------------------------------
(* The statements that write no job.                                       *)

(* A session that executes statements has a job, or a bundle.              *)
LEMMA AtStatement ==
  ASSUME RunnerInv, NEW p \in Sessions, script[p] # <<>>
  PROVE  /\ held[p] \in Jobs /\ Subject(p) \in Bundles /\ p \notin stopped
         /\ Tail(script[p]) \in Seq(Statements)
PROOF
  <1>1. script[p] \in Seq(Statements) /\ held[p] \in Jobs \cup {None}
    BY DEF RunnerInv, TypeOK
  <1>2. held[p] # None
    BY DEF RunnerInv, WorkerInv, InProgram, ReaderInv, Sessions
  <1>3. Tail(script[p]) \in Seq(Statements)
    BY <1>1, HeadTailProperties
  <1> QED BY <1>1, <1>2, <1>3, SubjectIsBundle, BusyHasNotLeft DEF Subject

(* The bundle row a statement sees is a bundle row.                        *)
LEMMA RowTypes ==
  ASSUME TypeOK, NEW p \in Sessions, NEW b \in Bundles
  PROVE  RowSeen(p, b) \in BundleRows
PROOF
  <1>1. DOMAIN bundleRow = Bundles /\ bundleRow[b] \in BundleRows
    BY DEF TypeOK
  <1>2. b \in DOMAIN txRow[p] => txRow[p][b] \in BundleRows
    BY DEF TypeOK
  <1> QED BY <1>1, <1>2 DEF RowSeen, Over

(* The status derived from the counts is a bundle status.                  *)
LEMMA DerivedTypes ==
  ASSUME NEW js, NEW b
  PROVE  Derived(js, b) \in BundleStatuses
BY DEF Derived, DeriveBundleStatus, BundleStatuses, TerminalBundleStatuses

(* The statements of refresh_bundle_status, and of the status that is      *)
(* stored when a finalize job appears: none of them writes a job.          *)
LEMMA ReadStoredKeeps ==
  ASSUME RunnerInv, NEW p \in Sessions, ReadStored(p)
  PROVE  RunnerInv'
PROOF
  <1>1. script[p] # <<>> /\ Head(script[p]) = "readStored" /\ TypeOK
    BY DEF ReadStored, At, RunnerInv
  <1>2. RowSeen(p, Subject(p)) \in BundleRows /\ Tail(script[p]) \in Seq(Statements)
    BY <1>1, AtStatement, RowTypes
  <1>3. /\ seen' = [seen EXCEPT ![p].stored = RowSeen(p, Subject(p))]
        /\ script' = [script EXCEPT ![p] = Tail(@)]
        /\ UNCHANGED <<jobStatus, attempts, bundleRow, materialized, txJobs, txRow, held, stopped, crashes, reads>>
    BY DEF ReadStored, Advance
  <1>4. TypeOK'
    BY <1>1, <1>2, <1>3 DEF TypeOK, Written
  <1>5. script'[p] = Tail(script[p]) /\ seen'[p].loaded = seen[p].loaded
    BY <1>1, <1>3 DEF TypeOK
  <1>6. \A q \in Sessions \ {p} : Untouched(q)
    BY <1>1, <1>3 DEF TypeOK, Untouched
  <1>7. p \in Workers => \A b \in DOMAIN txRow[p] : b = Subject(p)
    BY DEF RunnerInv, WorkerInv, InTransaction
  <1>8. p \in Workers => WorkerInv(p)'
    BY <1>1, <1>3, <1>5, <1>7, AdvanceWorker
  <1>9. p \in Readers => ReaderInv(p)'
    BY <1>1, <1>3, <1>5, AdvanceReader
  <1>10. DrainInv'
    BY <1>1, <1>3, <1>6, AtStatement, DrainStays
  <1>11. LocksExclude /\ Written(p)' = Written(p)
    BY <1>3 DEF RunnerInv, Written
  <1> QED BY <1>3, <1>4, <1>6, <1>8, <1>9, <1>10, <1>11, PrivateStep DEF LocksExclude

(* The counts of refresh_bundle_status.                                    *)
LEMMA ReadCountsKeeps ==
  ASSUME RunnerInv, NEW p \in Sessions, ReadCounts(p)
  PROVE  RunnerInv'
PROOF
  <1>1. script[p] # <<>> /\ Head(script[p]) = "readCounts" /\ TypeOK
    BY DEF ReadCounts, At, RunnerInv
  <1>2. Tail(script[p]) \in Seq(Statements)
    BY <1>1, AtStatement
  <1>3. /\ seen' = [seen EXCEPT ![p].derived = Derived(JobsSeen(p), Subject(p))]
        /\ script' = [script EXCEPT ![p] = Tail(@)]
        /\ UNCHANGED <<jobStatus, attempts, bundleRow, materialized, txJobs, txRow, held, stopped, crashes, reads>>
    BY DEF ReadCounts, Advance
  <1>4. TypeOK'
    <2>1. Derived(JobsSeen(p), Subject(p)) \in BundleStatuses
      BY DerivedTypes
    <2> QED BY <1>1, <1>2, <1>3, <2>1 DEF TypeOK, Written
  <1>5. script'[p] = Tail(script[p]) /\ seen'[p].loaded = seen[p].loaded
    BY <1>1, <1>3 DEF TypeOK
  <1>6. \A q \in Sessions \ {p} : Untouched(q)
    BY <1>1, <1>3 DEF TypeOK, Untouched
  <1>7. p \in Workers => \A b \in DOMAIN txRow[p] : b = Subject(p)
    BY DEF RunnerInv, WorkerInv, InTransaction
  <1>8. p \in Workers => WorkerInv(p)'
    BY <1>1, <1>3, <1>5, <1>7, AdvanceWorker
  <1>9. p \in Readers => ReaderInv(p)'
    BY <1>1, <1>3, <1>5, AdvanceReader
  <1>10. DrainInv'
    BY <1>1, <1>3, <1>6, AtStatement, DrainStays
  <1>11. LocksExclude /\ Written(p)' = Written(p)
    BY <1>3 DEF RunnerInv, Written
  <1> QED BY <1>3, <1>4, <1>6, <1>8, <1>9, <1>10, <1>11, PrivateStep DEF LocksExclude

(* A statement that writes the bundle row keeps the invariant when no      *)
(* other transaction wrote it.                                             *)
LEMMA RowWritten ==
  ASSUME RunnerInv, NEW w \in Workers, script[w] # <<>>,
         Head(script[w]) \in {"storeStatus", "storeFinalizing"},
         NEW row \in BundleRows, ~RowLockedByOther(w, Subject(w)),
         txRow' = [txRow EXCEPT ![w] = Row(Subject(w), row)],
         Advance(w),
         UNCHANGED <<jobStatus, attempts, bundleRow, materialized, txJobs, held, seen,
                     stopped, crashes, reads>>
  PROVE  RunnerInv'
PROOF
  <1> DEFINE b == Subject(w)
             rows == Row(b, row)
  <1>1. TypeOK /\ w \in Sessions
    BY DEF RunnerInv, Sessions
  <1>2. Tail(script[w]) \in Seq(Statements) /\ b \in Bundles /\ w \notin stopped
    BY <1>1, AtStatement
  <1>3. script' = [script EXCEPT ![w] = Tail(@)]
    BY DEF Advance
  <1>4. DOMAIN rows = {b} /\ rows[b] = row /\ rows \in [DOMAIN rows -> BundleRows]
    BY DEF Row
  <1>5. txRow' = [txRow EXCEPT ![w] = rows]
    OBVIOUS
  <1>6. \A q \in Sessions \ {w} : b \notin DOMAIN txRow[q]
    BY DEF RowLockedByOther
  <1>7. Subject(w) = b
    OBVIOUS
  <1> HIDE DEF rows, b
  <1>8. txRow'[w] = rows /\ script'[w] = Tail(script[w])
        /\ \A q \in Sessions \ {w} : txRow'[q] = txRow[q] /\ script'[q] = script[q]
    BY <1>1, <1>3, <1>5 DEF TypeOK
  <1>9. TypeOK'
    <2>1. \A q \in Sessions : /\ DOMAIN txRow'[q] \subseteq Bundles
                              /\ txRow'[q] \in [DOMAIN txRow'[q] -> BundleRows]
      BY <1>1, <1>2, <1>4, <1>8 DEF TypeOK
    <2>2. script' \in [Sessions -> Seq(Statements)] /\ DOMAIN txRow' = Sessions
      BY <1>1, <1>2, <1>3, <1>5 DEF TypeOK
    <2> QED BY <1>1, <2>1, <2>2 DEF TypeOK, Written
  <1>10. \A q \in Sessions \ {w} : Untouched(q)
    BY <1>8 DEF Untouched
  <1>11. \A c \in DOMAIN txRow'[w] : c = Subject(w)
    BY <1>4, <1>7, <1>8
  <1>12. WorkerInv(w)'
    BY <1>8, <1>11, AdvanceWorker
  <1>13. DrainInv'
    BY <1>1, <1>2, <1>10, DrainStays
  <1>14. \A q \in Sessions \ {w} :
           /\ Written(w)' \cap Written(q) = {}
           /\ DOMAIN txRow'[w] \cap DOMAIN txRow[q] = {}
    BY <1>1, <1>4, <1>6, <1>8 DEF RunnerInv, LocksExclude, Written
  <1>15. w \notin Readers
    BY SessionsAssumption
  <1> QED BY <1>1, <1>9, <1>10, <1>12, <1>13, <1>14, <1>15, PrivateStep

(* The UPDATE of refresh_bundle_status.                                    *)
LEMMA StoreStatusKeeps ==
  ASSUME RunnerInv, NEW w \in Workers, StoreStatus(w)
  PROVE  RunnerInv'
PROOF
  <1> DEFINE b == Subject(w)
             status == seen[w].derived
             row == [status   |-> status,
                     started  |-> RowSeen(w, b).started \/ status \in StartedBundleStatuses,
                     finished |-> status \in TerminalBundleStatuses]
  <1>1. script[w] # <<>> /\ Head(script[w]) = "storeStatus" /\ TypeOK /\ w \in Sessions
    BY DEF StoreStatus, At, RunnerInv, Sessions
  <1>2. CASE NeedsUpdate(seen[w].stored, status)
    <2>1. row \in BundleRows
      <3>1. status \in BundleStatuses
        BY <1>1 DEF TypeOK
      <3> DEFINE started == RowSeen(w, b).started \/ status \in StartedBundleStatuses
                 finished == status \in TerminalBundleStatuses
      <3>2. started \in BOOLEAN /\ finished \in BOOLEAN
        OBVIOUS
      <3>3. row = [status |-> status, started |-> started, finished |-> finished]
        BY Zenon
      <3> HIDE DEF status, started, finished, row
      <3> QED BY <3>1, <3>2, <3>3, Zenon DEF BundleRows
    <2>2. ~RowLockedByOther(w, b) /\ txRow' = [txRow EXCEPT ![w] = Row(b, row)]
      BY <1>2 DEF StoreStatus
    <2>3. /\ Advance(w)
          /\ UNCHANGED <<jobStatus, attempts, bundleRow, materialized, txJobs, held, seen,
                         stopped, crashes, reads>>
      BY DEF StoreStatus
    <2> HIDE DEF row, status
    <2> QED BY <1>1, <2>1, <2>2, <2>3, RowWritten
  <1>3. CASE ~NeedsUpdate(seen[w].stored, status)
    <2>1. UNCHANGED <<jobStatus, attempts, bundleRow, materialized, txJobs, txRow, held, seen,
                      stopped, crashes, reads>>
      BY <1>3 DEF StoreStatus
    <2>2. script' = [script EXCEPT ![w] = Tail(@)]
      BY DEF StoreStatus, Advance
    <2>3. Tail(script[w]) \in Seq(Statements) /\ w \notin stopped
      BY <1>1, AtStatement
    <2>4. TypeOK'
      BY <1>1, <2>1, <2>2, <2>3 DEF TypeOK, Written
    <2>5. script'[w] = Tail(script[w])
      BY <1>1, <2>2 DEF TypeOK
    <2>6. \A q \in Sessions \ {w} : Untouched(q)
      BY <1>1, <2>1, <2>2 DEF TypeOK, Untouched
    <2>7. \A c \in DOMAIN txRow[w] : c = Subject(w)
      BY DEF RunnerInv, WorkerInv, InTransaction
    <2>8. WorkerInv(w)'
      BY <1>1, <2>1, <2>5, <2>7, AdvanceWorker
    <2>9. DrainInv'
      BY <1>1, <2>1, <2>3, <2>6, DrainStays
    <2>10. LocksExclude /\ Written(w)' = Written(w) /\ w \notin Readers
      BY <2>1, SessionsAssumption DEF RunnerInv, Written
    <2> QED BY <1>1, <2>1, <2>4, <2>6, <2>8, <2>9, <2>10, PrivateStep DEF LocksExclude
  <1> QED BY <1>2, <1>3

(* The UPDATE of maybe_enqueue_finalize_job.                               *)
LEMMA StoreFinalizingKeeps ==
  ASSUME RunnerInv, NEW w \in Workers, StoreFinalizing(w)
  PROVE  RunnerInv'
PROOF
  <1> DEFINE b == Subject(w)
             row == [RowSeen(w, b) EXCEPT !.status = "finalizing"]
  <1>1. script[w] # <<>> /\ Head(script[w]) = "storeFinalizing" /\ TypeOK /\ w \in Sessions
    BY DEF StoreFinalizing, At, RunnerInv, Sessions
  <1>2. row \in BundleRows
    <2>1. RowSeen(w, b) \in BundleRows
      BY <1>1, AtStatement, RowTypes
    <2>2. "finalizing" \in BundleStatuses
      BY DEF BundleStatuses
    <2> QED BY <2>1, <2>2 DEF BundleRows
  <1>3. ~RowLockedByOther(w, b) /\ txRow' = [txRow EXCEPT ![w] = Row(b, row)]
    BY DEF StoreFinalizing
  <1>4. /\ Advance(w)
        /\ UNCHANGED <<jobStatus, attempts, bundleRow, materialized, txJobs, held, seen,
                       stopped, crashes, reads>>
    BY DEF StoreFinalizing
  <1> HIDE DEF row
  <1> QED BY <1>1, <1>2, <1>3, <1>4, RowWritten

-----------------------------------------------------------------------------
(* The snapshots of the web requests.                                      *)

(* A snapshot reader begins.                                               *)
LEMMA LoadSnapshotKeeps ==
  ASSUME RunnerInv, NEW r \in Readers, NEW b \in Bundles, LoadSnapshot(r, b)
  PROVE  RunnerInv'
PROOF
  <1>1. TypeOK /\ r \in Sessions /\ r \notin Workers /\ script[r] = <<>> /\ held[r] = None
    BY SessionsAssumption DEF RunnerInv, Sessions, LoadSnapshot, Idle
  <1>2. /\ held' = [held EXCEPT ![r] = b] /\ script' = [script EXCEPT ![r] = Refresh]
        /\ reads' = reads + 1
        /\ UNCHANGED <<jobStatus, attempts, bundleRow, materialized, txJobs, txRow, seen,
                       stopped, crashes>>
    BY DEF LoadSnapshot
  <1>3. Refresh \in Seq(Statements) /\ b \in Jobs
    BY DEF Refresh, Statements, RefreshStatements, Jobs
  <1>4. TypeOK'
    BY <1>1, <1>2, <1>3 DEF TypeOK, Written
  <1>5. held'[r] = b /\ script'[r] = Refresh /\ \A q \in Sessions \ {r} : Untouched(q)
    BY <1>1, <1>2 DEF TypeOK, Untouched
  <1>6. ReaderInv(r)'
    <2>1. /\ Refresh # <<>>
          /\ \A i \in 1..Len(Refresh) :
               Refresh[i] \in RefreshStatements /\ (Refresh[i] = "storeStatus" <=> i = Len(Refresh))
      BY DEF Refresh, RefreshStatements
    <2>2. ReaderInv(r) /\ b # None
      BY NamesAssumption DEF RunnerInv
    <2> HIDE DEF Refresh
    <2> QED BY <1>2, <1>5, <2>1, <2>2 DEF ReaderInv, Written
  <1>7. DrainInv'
    <2>1. r \notin stopped
      BY <1>1 DEF TypeOK
    <2> QED BY <1>1, <1>2, <1>5, <2>1, DrainStays
  <1>8. LocksExclude /\ Written(r)' = Written(r)
    BY <1>2 DEF RunnerInv, Written
  <1> QED BY <1>1, <1>2, <1>4, <1>5, <1>6, <1>7, <1>8, PrivateStep DEF LocksExclude

(* A snapshot reader stores the status it derived, and is done.            *)
LEMMA StoreDerivedKeeps ==
  ASSUME RunnerInv, NEW r \in Readers, StoreDerived(r)
  PROVE  RunnerInv'
PROOF
  <1> DEFINE b == held[r]
             s == script[r]
  <1>1. /\ TypeOK /\ ReaderInv(r) /\ r \in Sessions /\ r \notin Workers
        /\ s # <<>> /\ Head(s) = "storeStatus"
    BY SessionsAssumption DEF RunnerInv, Sessions, StoreDerived, At
  <1>2. /\ script' = [script EXCEPT ![r] = Tail(@)] /\ held' = [held EXCEPT ![r] = None]
        /\ seen' = [seen EXCEPT ![r] = NothingSeen]
        /\ UNCHANGED <<jobStatus, attempts, materialized, txJobs, txRow, stopped, crashes, reads>>
    BY DEF StoreDerived, Advance
  <1>3. b \in Bundles
    BY <1>1 DEF ReaderInv
  <1>4. Tail(s) = <<>> /\ Tail(s) \in Seq(Statements)
    <2>1. s \in Seq(Statements) /\ \A i \in 1..Len(s) : s[i] = "storeStatus" <=> i = Len(s)
      BY <1>1 DEF ReaderInv, TypeOK
    <2>2. s # <<>> /\ Head(s) = "storeStatus"
      BY <1>1
    <2> HIDE DEF s
    <2>3. /\ Len(s) \in Nat /\ Len(s) > 0 /\ Head(s) = s[1]
          /\ Tail(s) \in Seq(Statements) /\ Len(Tail(s)) = Len(s) - 1
      BY <2>1, <2>2, RestOf
    <2>4. 1 \in 1..Len(s)
      BY <2>3
    <2>5. Len(s) = 1
      BY <2>1, <2>2, <2>3, <2>4
    <2>6. Len(Tail(s)) = 0
      BY <2>3, <2>5
    <2> QED BY <2>3, <2>6, EmptySeq
  <1>5. bundleRow' \in [Bundles -> BundleRows]
    <2>1. CASE bundleRow' = [bundleRow EXCEPT ![b].status = seen[r].derived]
      <3> DEFINE row == [bundleRow[b] EXCEPT !.status = seen[r].derived]
      <3>1. seen[r].derived \in BundleStatuses /\ bundleRow[b] \in BundleRows
        BY <1>1, <1>3 DEF TypeOK
      <3>2. row \in BundleRows
        BY <3>1 DEF BundleRows
      <3>3. bundleRow' = [bundleRow EXCEPT ![b] = row]
        BY <2>1
      <3> HIDE DEF row
      <3> QED BY <1>1, <3>2, <3>3 DEF TypeOK
    <2>2. CASE UNCHANGED bundleRow
      BY <1>1, <2>2 DEF TypeOK
    <2> QED BY <2>1, <2>2 DEF StoreDerived
  <1>6. TypeOK'
    <2>1. NothingSeen \in [stored : BundleRows \cup {None}, derived : BundleStatuses,
                           loaded : SUBSET Files]
      BY DEF NothingSeen, BundleStatuses
    <2> HIDE DEF b, s
    <2>2. script' \in [Sessions -> Seq(Statements)]
      BY <1>1, <1>2, <1>4 DEF TypeOK, s
    <2> QED BY <1>1, <1>2, <1>5, <2>1, <2>2 DEF TypeOK, Written
  <1>7. held'[r] = None /\ script'[r] = <<>> /\ \A q \in Sessions \ {r} : Untouched(q)
    BY <1>1, <1>2, <1>4 DEF TypeOK, Untouched
  <1>8. ReaderInv(r)'
    BY <1>1, <1>2, <1>7 DEF ReaderInv, Written
  <1>9. DrainInv'
    <2>1. r \notin stopped
      BY <1>1 DEF TypeOK
    <2> QED BY <1>1, <1>2, <1>7, <2>1, DrainStays
  <1>10. LocksExclude /\ Written(r)' = Written(r)
    BY <1>2 DEF RunnerInv, Written
  <1> QED BY <1>1, <1>2, <1>6, <1>7, <1>8, <1>9, <1>10, PrivateStep DEF LocksExclude

-----------------------------------------------------------------------------
(* The loop of the workers.                                                *)

(* drain_once starts its workers again.                                    *)
LEMMA DrainKeeps ==
  ASSUME RunnerInv, Drain
  PROVE  RunnerInv'
PROOF
  <1>1. PICK w \in Workers : TRUE
    BY SessionsAssumption
  <1>2. /\ stopped' = {}
        /\ UNCHANGED <<jobStatus, attempts, bundleRow, materialized, txJobs, txRow, script,
                       held, seen, crashes, reads>>
    BY DEF Drain
  <1>3. TypeOK'
    BY <1>2 DEF RunnerInv, TypeOK, Written
  <1>4. \A q \in Sessions : Untouched(q)
    BY <1>2 DEF Untouched
  <1>5. w \in Sessions /\ w \notin Readers /\ WorkerInv(w)'
    BY <1>2, <1>4, SessionsAssumption, UntouchedWorker DEF RunnerInv, Sessions
  <1>6. DrainInv'
    BY <1>1, <1>2 DEF RunnerInv, DrainInv, DrainCompletes
  <1>7. LocksExclude /\ Written(w)' = Written(w)
    BY <1>2 DEF RunnerInv, Written
  <1> QED BY <1>2, <1>3, <1>4, <1>5, <1>6, <1>7, PrivateStep DEF LocksExclude

(* The first queued file of a set that is not empty waits for no other.    *)
LEMMA EarliestFile ==
  ASSUME NEW Q \in SUBSET Files, Q # {}
  PROVE  \E f \in Q : DependsOn[f] \notin Q
PROOF
  <1> DEFINE orders == {FileOrder[f] : f \in Q}
             less == OpToRel(<, Nat)
  <1>1. orders \subseteq Nat /\ orders # {}
    BY EarlierMemberAssumption
  <1>2. PICK n \in orders : \A m \in orders : ~(<<m, n>> \in less)
    BY <1>1, WFMin, NatLessThanWellFounded
  <1>3. \A m, k \in Nat : m < k => <<m, k>> \in less
    BY DEF OpToRel
  <1> HIDE DEF less
  <1>4. PICK f \in Q : FileOrder[f] = n
    OBVIOUS
  <1>5. ASSUME DependsOn[f] \in Q
        PROVE  FALSE
    <2>1. FileOrder[DependsOn[f]] \in orders
      BY <1>5
    <2>2. FileOrder[DependsOn[f]] < n /\ FileOrder[DependsOn[f]] \in Nat /\ n \in Nat
      BY <1>4, <1>5, EarlierMemberAssumption, NamesAssumption
    <2> HIDE DEF orders
    <2>3. <<FileOrder[DependsOn[f]], n>> \in less
      BY <1>3, <2>2, Zenon
    <2> QED BY <1>2, <2>1, <2>3
  <1> QED BY <1>5

(* When no worker is at work, no worker crashed and nothing is claimable,  *)
(* every job has ended: the first queued file waits for an imported one.   *)
LEMMA NothingIsLeft ==
  ASSUME RunnerInv, \A w \in Workers : Idle(w), Claimable = {}, crashes = 0, NEW j \in Jobs
  PROVE  jobStatus[j] \in TerminalStatuses \cup {"absent"}
PROOF
  <1>1. \A i \in Jobs : ~JobLocked(i)
    BY WrittenAreOpen DEF JobLocked, Written, Idle
  <1>2. \A i \in Jobs : jobStatus[i] # "running"
    BY NamesAssumption DEF RunnerInv, DrainInv, Idle, Jobs
  <1>3. \A i \in Jobs : jobStatus[i] = "queued" => i \in Files /\ ~Unblocked(i)
    BY <1>1 DEF Claimable, Unblocked, Jobs
  <1> DEFINE Q == {f \in Files : jobStatus[f] = "queued"}
  <1>4. ASSUME NEW f \in Q
        PROVE  DependsOn[f] \in Q
    <2>1. ~Unblocked(f)
      BY <1>3, <1>4 DEF Jobs
    <2>2. DependsOn[f] \in Files
      BY <2>1, <1>4, DependsOnAssumption DEF Unblocked
    <2>3. FileInv(DependsOn[f]) /\ FileInv(f)
      BY <1>4, <2>2 DEF RunnerInv
    <2>4. jobStatus[DependsOn[f]] # "failed_terminal"
      BY <1>4, <2>2, <2>3, NamesAssumption DEF FileInv
    <2> QED BY <1>2, <2>1, <2>2, <2>3, <2>4 DEF FileInv, TerminalStatuses, Unblocked, Jobs
  <1>5. Q = {}
    <2>1. Q \in SUBSET Files
      OBVIOUS
    <2> HIDE DEF Q
    <2> QED BY <1>4, <2>1, EarliestFile
  <1>6. jobStatus[j] # "queued" /\ jobStatus[j] # "running"
    BY <1>2, <1>3, <1>5
  <1>7. CASE j \in Files
    BY <1>6, <1>7 DEF RunnerInv, FileInv
  <1>8. CASE j \in Bundles
    BY <1>6, <1>8 DEF RunnerInv, FinalizeInv
  <1> QED BY <1>7, <1>8 DEF Jobs

(* A worker leaves its loop: with no job claimable and none in work, no    *)
(* file is left that waits (NothingIsLeft).                                *)
LEMMA StopKeeps ==
  ASSUME RunnerInv, NEW w \in Workers, Stop(w)
  PROVE  RunnerInv'
PROOF
  <1>1. /\ Idle(w) /\ Claimable = {} /\ stopped' = stopped \cup {w}
        /\ UNCHANGED <<jobStatus, attempts, bundleRow, materialized, txJobs, txRow, script,
                       held, seen, crashes, reads>>
    BY DEF Stop
  <1>2. TypeOK'
    BY <1>1 DEF RunnerInv, TypeOK, Written
  <1>3. \A q \in Sessions : Untouched(q)
    BY <1>1 DEF Untouched
  <1>4. w \in Sessions /\ w \notin Readers /\ WorkerInv(w)'
    BY <1>1, <1>3, SessionsAssumption, UntouchedWorker DEF RunnerInv, Sessions
  <1>5. DrainInv'
    <2>1. DrainInv
      BY DEF RunnerInv
    <2>2. \A v \in stopped' : Idle(v)'
      BY <1>1, <2>1 DEF DrainInv, Idle
    <2>3. ASSUME stopped' = Workers, crashes' = 0, NEW j \in Jobs
          PROVE  jobStatus'[j] \in TerminalStatuses \cup {"absent"}
      <3>1. \A v \in Workers : Idle(v)
        BY <1>1, <2>1, <2>3 DEF DrainInv
      <3> QED BY <1>1, <2>3, <3>1, NothingIsLeft
    <2>4. DrainCompletes'
      BY <2>3 DEF DrainCompletes
    <2> QED BY <1>1, <2>1, <2>2, <2>4 DEF DrainInv
  <1>6. LocksExclude /\ Written(w)' = Written(w)
    BY <1>1 DEF RunnerInv, Written
  <1> QED BY <1>1, <1>2, <1>3, <1>4, <1>5, <1>6, PrivateStep DEF LocksExclude

(* A rolled back transaction leaves nothing behind but the claim.          *)
LEMMA CrashKeeps ==
  ASSUME RunnerInv, NEW w \in Workers, Crash(w)
  PROVE  RunnerInv'
PROOF
  <1>1. /\ crashes' = crashes + 1 /\ held' = [held EXCEPT ![w] = None]
        /\ script' = [script EXCEPT ![w] = <<>>] /\ txJobs' = [txJobs EXCEPT ![w] = Empty]
        /\ txRow' = [txRow EXCEPT ![w] = Empty] /\ seen' = [seen EXCEPT ![w] = NothingSeen]
        /\ UNCHANGED <<jobStatus, attempts, bundleRow, materialized, stopped, reads>>
    BY DEF Crash
  <1>2. TypeOK /\ w \in Sessions /\ w \notin Readers /\ held[w] # None
    BY SessionsAssumption DEF RunnerInv, Sessions, Crash
  <1>3. /\ held'[w] = None /\ script'[w] = <<>> /\ txJobs'[w] = Empty /\ txRow'[w] = Empty
        /\ \A q \in Sessions \ {w} : Untouched(q)
    BY <1>1, <1>2 DEF TypeOK, Untouched
  <1>4. TypeOK'
    <2>1. NothingSeen \in [stored : BundleRows \cup {None}, derived : BundleStatuses,
                           loaded : SUBSET Files]
      BY DEF NothingSeen, BundleStatuses
    <2>2. <<>> \in Seq(Statements)
      BY EmptySeq
    <2>3. DOMAIN Empty = {} /\ Empty \in [{} -> JobStatuses] /\ Empty \in [{} -> BundleRows]
      BY DEF Empty
    <2> QED BY <1>1, <1>2, <2>1, <2>2, <2>3 DEF TypeOK, Written
  <1>5. WorkerInv(w)'
    <2>1. DOMAIN txJobs'[w] = {} /\ DOMAIN txRow'[w] = {}
      BY <1>3, EmptyRows
    <2>2. ~HasRetry(script'[w])
      BY <1>3, EmptySeq DEF HasRetry
    <2>3. InProgram(w)' /\ InTransaction(w)' /\ RetryPending(w)'
      BY <1>3, <2>1, <2>2 DEF InProgram, InTransaction, RetryPending, Written
    <2>4. DropsAreClosed(w)' /\ StillDue(w)' /\ StillCovers(w)'
      BY <1>3, <2>1 DEF DropsAreClosed, StillDue, StillCovers, At, Written
    <2> QED BY <2>3, <2>4 DEF WorkerInv
  <1>6. DrainInv'
    <2>1. DrainInv /\ w \notin stopped
      BY <1>2, BusyHasNotLeft DEF RunnerInv
    <2>2. \A v \in stopped' : Idle(v)'
      BY <1>1, <1>2, <1>3, <2>1 DEF DrainInv, Idle, Untouched, TypeOK, Sessions
    <2>3. crashes' # 0
      BY <1>1, <1>2 DEF TypeOK
    <2> QED BY <2>2, <2>3 DEF DrainInv, DrainCompletes
  <1>7. Written(w)' = {} /\ DOMAIN txRow'[w] = {}
    BY <1>3, EmptyRows DEF Written
  <1> QED BY <1>1, <1>2, <1>3, <1>4, <1>5, <1>6, <1>7, PrivateStep

(* A job that is not locked is held by nobody while it is queued.          *)
LEMMA ClaimKeeps ==
  ASSUME RunnerInv, NEW w \in Workers, Claim(w)
  PROVE  RunnerInv'
PROOF
  <1>1. PICK j \in Claimable :
          /\ txJobs' = [txJobs EXCEPT ![w] = Row(j, "running")] /\ held' = [held EXCEPT ![w] = j]
    BY DEF Claim
  <1>2. /\ script' = [script EXCEPT ![w] = <<"commit">>]
        /\ UNCHANGED <<jobStatus, attempts, bundleRow, materialized, txRow, seen, stopped, crashes, reads>>
    BY DEF Claim
  <1>3. /\ TypeOK /\ w \in Sessions /\ w \notin Readers /\ w \notin stopped
        /\ script[w] = <<>> /\ held[w] = None
    BY SessionsAssumption DEF RunnerInv, Sessions, Claim, Idle
  <1>4. /\ j \in Jobs /\ jobStatus[j] = "queued" /\ ~JobLocked(j)
        /\ j \in Files => Unblocked(j)
    BY DEF Claimable, Unblocked
  <1>5. j # None
    BY <1>4, NamesAssumption DEF Jobs
  <1>6. DOMAIN Row(j, "running") = {j} /\ Row(j, "running")[j] = "running"
        /\ Row(j, "running") \in [{j} -> JobStatuses]
    BY DEF Row, JobStatuses
  <1>7. /\ held'[w] = j /\ script'[w] = <<"commit">> /\ txJobs'[w] = Row(j, "running")
        /\ \A q \in Sessions \ {w} : Untouched(q)
    BY <1>1, <1>2, <1>3 DEF TypeOK, Untouched
  <1>8. TypeOK'
    <2>1. <<"commit">> \in Seq(Statements)
      BY DEF Statements
    <2>2. script' \in [Sessions -> Seq(Statements)] /\ held' \in [Sessions -> Jobs \cup {None}]
      BY <1>1, <1>2, <1>3, <1>4, <2>1 DEF TypeOK
    <2>3. \A p \in Sessions :
            DOMAIN txJobs'[p] \subseteq Jobs /\ txJobs'[p] \in [DOMAIN txJobs'[p] -> JobStatuses]
      <3> TAKE p \in Sessions
      <3>1. CASE p = w
        BY <1>4, <1>6, <1>7, <3>1
      <3>2. CASE p # w
        BY <1>3, <1>7, <3>2 DEF TypeOK, Untouched, Written
      <3> QED BY <3>1, <3>2
    <2>4. DOMAIN txJobs' = Sessions
      BY <1>1, <1>3 DEF TypeOK
    <2> QED BY <1>2, <1>3, <2>2, <2>3, <2>4 DEF TypeOK, Written
  <1>9. WorkerInv(w)'
    <2> DEFINE s == <<"commit">>
    <2>1. /\ s # <<>> /\ Len(s) = 1 /\ s[1] = "commit" /\ Head(s) = "commit"
          /\ \A i \in 1..Len(s) : i = 1
      OBVIOUS
    <2> HIDE DEF s
    <2>2. script'[w] = s
      BY <1>7 DEF s
    <2>3. InProgram(w)' /\ ~HasRetry(script'[w])
      BY <1>5, <1>7, <2>1, <2>2 DEF InProgram, HasRetry
    <2>4. Written(w)' = {j} /\ txJobs'[w][j] = "running"
      BY <1>6, <1>7 DEF Written
    <2>5. Claims(w, j)'
      BY <1>2, <1>4, <1>7, <2>4 DEF Claims, Unblocked
    <2>6. DOMAIN txRow'[w] = {}
      BY <1>2, <1>3 DEF RunnerInv, WorkerInv, InTransaction
    <2>7. InTransaction(w)'
      BY <1>7, <2>1, <2>2, <2>4, <2>5, <2>6 DEF InTransaction
    <2>8. RetryPending(w)' /\ StillCovers(w)'
      BY <1>7, <2>3, <2>4 DEF RetryPending, StillCovers
    <2>9. DropsAreClosed(w)' /\ StillDue(w)'
      BY <2>1, <2>2, <2>4 DEF DropsAreClosed, StillDue, At
    <2> QED BY <2>3, <2>7, <2>8, <2>9 DEF WorkerInv
  <1>10. ASSUME NEW q \in Workers \ {w}
         PROVE  held[q] # j
    <2>1. SUFFICES ASSUME held[q] = j
                   PROVE  FALSE
      OBVIOUS
    <2>2. j \notin Written(q) /\ InTransaction(q)
      BY <1>4 DEF JobLocked, Written, Sessions, RunnerInv, WorkerInv
    <2> QED BY <1>4, <1>5, <2>1, <2>2 DEF InTransaction
  <1>11. DrainInv'
    BY <1>2, <1>3, <1>7, DrainStays
  <1>12. \A q \in Sessions \ {w} :
           /\ Written(w)' \cap Written(q) = {}
           /\ DOMAIN txRow'[w] \cap DOMAIN txRow[q] = {}
    BY <1>2, <1>3, <1>4, <1>6, <1>7 DEF RunnerInv, LocksExclude, JobLocked, Written
  <1> QED BY <1>2, <1>3, <1>7, <1>8, <1>9, <1>10, <1>11, <1>12, PrivateStep

-----------------------------------------------------------------------------
(* The finalize job of a bundle.                                           *)

(* What FinalizeDue says of the statuses a worker sees.                    *)
LEMMA DueMeetsBarrier ==
  ASSUME RunnerInv, NEW w \in Workers, NEW b \in Bundles, FinalizeDue(JobsSeen(w), b)
  PROVE  /\ jobStatus[b] = "absent" /\ b \notin Written(w)
         /\ BarrierMet(JobsSeen(w), b)
PROOF
  <1>1. TypeOK /\ w \in Sessions
    BY DEF RunnerInv, Sessions
  <1>2. JobsSeen(w)[b] = "absent"
    BY DEF FinalizeDue
  <1>3. b \notin Written(w)
    <2>1. b \in Written(w) => txJobs[w][b] # "absent"
      BY <1>1 DEF TypeOK, JobStatuses
    <2> QED BY <1>1, <1>2, <2>1, SeenByWorker DEF Jobs
  <1>4. jobStatus[b] = "absent"
    BY <1>1, <1>2, <1>3, SeenByWorker DEF Jobs
  <1>5. ASSUME NEW f \in FilesOf(b)
        PROVE  JobsSeen(w)[f] \in TerminalStatuses
    <2>1. f \in Files /\ f \in Jobs
      BY DEF FilesOf, Jobs
    <2>2. JobsSeen(w)[f] \in JobStatuses
      <3>1. f \in Written(w) => txJobs[w][f] \in JobStatuses
        BY <1>1 DEF TypeOK
      <3>2. jobStatus[f] \in JobStatuses
        BY <2>1 DEF RunnerInv, FileInv, JobStatuses, TerminalStatuses
      <3> QED BY <1>1, <2>1, <3>1, <3>2, SeenByWorker
    <2>3. JobsSeen(w)[f] \notin ActiveStatuses
      BY DEF FinalizeDue, FileStatuses
    <2> QED BY <2>2, <2>3 DEF JobStatuses, ActiveStatuses, TerminalStatuses
  <1>6. "succeeded" \in FileStatuses(JobsSeen(w), b)
    BY DEF FinalizeDue
  <1> QED BY <1>3, <1>4, <1>5, <1>6 DEF BarrierMet, FileStatuses

(* The guard of maybe_enqueue_finalize_job: what it saw is what StillDue   *)
(* remembers.                                                              *)
LEMMA CheckDueKeeps ==
  ASSUME RunnerInv, NEW w \in Workers, CheckDue(w)
  PROVE  RunnerInv'
PROOF
  <1>1. /\ TypeOK /\ w \in Sessions /\ w \notin Readers
        /\ script[w] # <<>> /\ Head(script[w]) = "checkDue"
    BY SessionsAssumption DEF RunnerInv, Sessions, CheckDue, At
  <1>2. UNCHANGED <<jobStatus, attempts, bundleRow, materialized, txJobs, txRow, held, seen,
                    stopped, crashes, reads>>
    BY DEF CheckDue
  <1>3. Tail(script[w]) \in Seq(Statements) /\ w \notin stopped /\ Subject(w) \in Bundles
    BY <1>1, AtStatement
  <1>4. <<"commit">> \in Seq(Statements)
    BY DEF Statements
  <1>5. PICK rest \in Seq(Statements) : script' = [script EXCEPT ![w] = rest]
    BY <1>3, <1>4 DEF CheckDue, Advance
  <1>6. script'[w] = rest /\ \A q \in Sessions \ {w} : Untouched(q)
    BY <1>1, <1>2, <1>5 DEF TypeOK, Untouched
  <1>7. TypeOK'
    BY <1>1, <1>2, <1>5 DEF TypeOK, Written
  <1>8. /\ JobsSeen(w)' = JobsSeen(w) /\ Subject(w)' = Subject(w) /\ Written(w)' = Written(w)
        /\ held'[w] = held[w] /\ txJobs'[w] = txJobs[w]
    BY <1>2 DEF JobsSeen, Subject, Written
  <1>9. WorkerInv(w)
    BY DEF RunnerInv
  <1>10. InTransaction(w)'
    <2>1. held[w] \in Written(w) /\ script'[w] # <<>>
      <3>1. CASE rest = Tail(script[w])
        BY <1>1, <1>6, <1>8, <1>9, <3>1, NextStatement DEF WorkerInv, InTransaction
      <3>2. CASE rest = <<"commit">>
        BY <1>1, <1>6, <1>9, <3>2 DEF WorkerInv, InTransaction
      <3> QED BY <1>1, <1>5, <1>6, <3>1, <3>2 DEF CheckDue, Advance, TypeOK
    <2>2. \A i \in Written(w) :
            /\ ~Claims(w, i)
            /\ Ends(w, i) => Ends(w, i)'
            /\ DropsWith(w, i) => DropsWith(w, i)'
            /\ Inserts(w, i) => Inserts(w, i)'
      BY <1>1, <1>2, <1>8 DEF Claims, Ends, DropsWith, Inserts
    <2> QED BY <1>1, <1>2, <1>8, <1>9, <2>1, <2>2 DEF WorkerInv, InTransaction
  <1>11. InProgram(w)' /\ RetryPending(w)' /\ StillDue(w)'
    <2>1. CASE FinalizeDue(JobsSeen(w), Subject(w))
      <3>1. script'[w] = Tail(script[w])
        BY <1>1, <2>1 DEF CheckDue, Advance, TypeOK
      <3>2. InProgram(w)' /\ script'[w] # <<>> /\ (HasRetry(script[w]) <=> HasRetry(script'[w]))
        BY <1>1, <1>8, <1>9, <3>1, NextStatement DEF WorkerInv
      <3>3. StillDue(w)'
        BY <1>2, <1>3, <1>8, <2>1, DueMeetsBarrier DEF StillDue
      <3> QED BY <1>1, <1>8, <1>9, <3>2, <3>3 DEF WorkerInv, RetryPending
    <2>2. CASE ~FinalizeDue(JobsSeen(w), Subject(w))
      <3> DEFINE s == <<"commit">>
      <3>1. /\ s # <<>> /\ Len(s) = 1 /\ s[1] = "commit" /\ Head(s) = "commit"
            /\ \A i \in 1..Len(s) : i = 1
        OBVIOUS
      <3> HIDE DEF s
      <3>2. script'[w] = s
        BY <1>1, <2>2 DEF CheckDue, TypeOK, s
      <3>3. InProgram(w)' /\ ~HasRetry(script'[w])
        BY <1>1, <1>8, <1>9, <3>1, <3>2 DEF WorkerInv, InProgram, HasRetry
      <3>4. ~HasRetry(script[w])
        <4>1. /\ Len(script[w]) \in Nat /\ Len(script[w]) > 0 /\ script[w][1] = "checkDue"
          BY <1>1, RestOf DEF TypeOK
        <4>2. \A i \in 1..Len(script[w]) :
                script[w][i] = "retry" => \A k \in 1..(i - 1) : script[w][k] \in RefreshStatements
          BY <1>9 DEF WorkerInv, InProgram
        <4>3. ASSUME NEW i \in 1..Len(script[w]), script[w][i] = "retry"
              PROVE  FALSE
          <5>1. i # 1
            BY <4>1, <4>3
          <5>2. 1 \in 1..(i - 1)
            BY <4>1, <5>1
          <5> QED BY <4>1, <4>2, <4>3, <5>2 DEF RefreshStatements
        <4> QED BY <4>3 DEF HasRetry
      <3> QED BY <1>1, <1>8, <1>9, <3>1, <3>2, <3>3, <3>4 DEF WorkerInv, RetryPending, StillDue, At
    <2> QED BY <2>1, <2>2
  <1>12. DropsAreClosed(w)' /\ StillCovers(w)'
    BY <1>1, <1>2, <1>8, <1>9 DEF WorkerInv, DropsAreClosed, StillCovers, Imported
  <1>13. DrainInv'
    BY <1>1, <1>2, <1>3, <1>6, DrainStays
  <1>14. LocksExclude
    BY DEF RunnerInv
  <1> QED BY <1>1, <1>2, <1>6, <1>7, <1>8, <1>10, <1>11, <1>12, <1>13, <1>14, PrivateStep
            DEF LocksExclude, WorkerInv

-----------------------------------------------------------------------------
(* The end of an execution.                                                *)

(* The files dropped with a running job are written by nobody else: those  *)
(* of its dependents that nobody else writes hold all of them, because a   *)
(* claimed file waits for an imported one and a file another worker drops  *)
(* waits for a job that worker wrote.                                      *)
LEMMA DropsAreFree ==
  ASSUME RunnerInv, NEW w \in Workers, NEW j \in Jobs, held[w] = j, jobStatus[j] = "running",
         NEW js, \A f \in Files : js[f] = "queued" <=> jobStatus[f] = "queued",
         NEW v \in Sessions \ {w}
  PROVE  QueuedDependents(js, j) \cap Written(v) = {}
PROOF
  <1> DEFINE D == QueuedDependents(js, j)
             T == D \ Written(v)
  <1>1. \A f \in D : f \in Files /\ f \in Jobs /\ jobStatus[f] = "queued"
    BY DependentsAreQueued DEF Jobs
  <1>2. j \notin Written(v)
    <2>1. ASSUME j \in Written(v)
          PROVE  FALSE
      <3>1. v \in Workers /\ held[v] = j
        BY <2>1, RunningIsHeld
      <3> QED BY <3>1, NamesAssumption DEF RunnerInv, ExclusiveClaim, Jobs
    <2> QED BY <2>1
  <1>3. T \in SUBSET {f \in Files : js[f] = "queued"}
    BY DependentsAreQueued
  <1>4. ASSUME NEW g \in Files, js[g] = "queued", DependsOn[g] \in T \cup {j}
        PROVE  g \in T
    <2>1. g \in D
      BY <1>4, DependentsClosed
    <2>2. DependsOn[g] \in Jobs /\ jobStatus[DependsOn[g]] \in {"queued", "running"}
          /\ DependsOn[g] \notin Written(v)
      BY <1>1, <1>2, <1>4
    <2>3. ASSUME g \in Written(v)
          PROVE  FALSE
      <3>1. v \in Workers /\ jobStatus[g] = "queued"
        BY <1>4, <2>3, WrittenAreOpen
      <3>2. Claims(v, g) \/ Ends(v, g) \/ DropsWith(v, g) \/ Inserts(v, g)
        BY <2>3, <3>1 DEF RunnerInv, WorkerInv, InTransaction
      <3>3. ~Ends(v, g) /\ ~Inserts(v, g) /\ ~DropsWith(v, g)
        BY <2>2, <3>1 DEF Ends, Inserts, DropsWith
      <3>4. ~Claims(v, g)
        BY <1>4, <2>2, NamesAssumption DEF Claims, Unblocked, Jobs
      <3> QED BY <3>2, <3>3, <3>4
    <2> QED BY <2>1, <2>3
  <1>5. D \subseteq T
    <2> HIDE DEF T
    <2> QED BY <1>3, <1>4, DependentsLeast
  <1> QED BY <1>5

(* What the end of the execution of job j writes.                          *)
EndOf(w, j, status, writes) ==
  /\ DOMAIN writes \subseteq Jobs /\ writes \in [DOMAIN writes -> JobStatuses]
  /\ j \in DOMAIN writes /\ writes[j] = status
  /\ status # "failed_terminal" => DOMAIN writes = {j}
  /\ \A i \in DOMAIN writes \ {j} :
       /\ j \in Files /\ i \in Files
       /\ jobStatus[i] = "queued" /\ DependsOn[i] \in DOMAIN writes
       /\ writes[i] = "failed_terminal" /\ status = "failed_terminal"
  /\ \A v \in Sessions \ {w} : DOMAIN writes \cap Written(v) = {}
  /\ \A f \in Files :
       DependsOn[f] \in DOMAIN writes /\ writes[DependsOn[f]] = "failed_terminal" =>
         f \in DOMAIN writes /\ writes[f] = "failed_terminal"

(* Nobody else writes a job that is being executed.                        *)
LEMMA NotWrittenElsewhere ==
  ASSUME RunnerInv, NEW w \in Workers, NEW j \in Jobs, held[w] = j, jobStatus[j] = "running",
         NEW v \in Sessions \ {w}
  PROVE  j \notin Written(v)
PROOF
  <1>1. ASSUME j \in Written(v)
        PROVE  FALSE
    <2>1. v \in Workers /\ held[v] = j
      BY <1>1, RunningIsHeld
    <2> QED BY <2>1, NamesAssumption DEF RunnerInv, ExclusiveClaim, Jobs
  <1> QED BY <1>1

(* What mark_job_failed writes ends the job and drops what waits for it.   *)
LEMMA FailedWritesEnd ==
  ASSUME RunnerInv, NEW w \in Workers, NEW j \in Jobs, held[w] = j, jobStatus[j] = "running",
         NEW js, \A f \in Files : js[f] = "queued" <=> jobStatus[f] = "queued",
         NEW status \in JobStatuses
  PROVE  EndOf(w, j, status, FailedWrites(js, j, status))
PROOF
  <1> DEFINE D == QueuedDependents(js, j)
             dropped == IF status = "failed_terminal" THEN D ELSE {}
             writes == FailedWrites(js, j, status)
  <1>1. \A f \in D : f \in Files /\ f \in Jobs /\ jobStatus[f] = "queued" /\ DependsOn[f] \in D \cup {j}
    BY DependentsAreQueued, DependentsGrounded DEF Jobs
  <1>2. \A v \in Sessions \ {w} : D \cap Written(v) = {} /\ j \notin Written(v)
    BY DropsAreFree, NotWrittenElsewhere
  <1>3. \A f \in Files : DependsOn[f] \in D \cup {j} => f \in D
    <2> SUFFICES ASSUME NEW f \in Files, DependsOn[f] \in D \cup {j}
                 PROVE  f \in D
      OBVIOUS
    <2>1. DependsOn[f] # None /\ jobStatus[DependsOn[f]] \in {"queued", "running"}
      BY <1>1, NamesAssumption DEF Jobs
    <2>2. jobStatus[f] = "queued"
      BY <2>1 DEF RunnerInv, FileInv, Unblocked
    <2> QED BY <2>2, DependentsClosed
  <1>4. /\ DOMAIN writes = {j} \cup dropped
        /\ \A i \in {j} \cup dropped : writes[i] = IF i = j THEN status ELSE "failed_terminal"
        /\ writes = [i \in {j} \cup dropped |-> writes[i]]
    BY DEF FailedWrites
  <1> HIDE DEF writes, D
  <1>5. writes \in [DOMAIN writes -> JobStatuses]
    BY <1>4 DEF JobStatuses
  <1>6. j \notin D
    BY <1>1
  <1>7. /\ DOMAIN writes \subseteq Jobs /\ j \in DOMAIN writes /\ writes[j] = status
        /\ status # "failed_terminal" => DOMAIN writes = {j}
    BY <1>1, <1>4
  <1>8. \A i \in DOMAIN writes \ {j} :
          /\ j \in Files /\ i \in Files
          /\ jobStatus[i] = "queued" /\ DependsOn[i] \in DOMAIN writes
          /\ writes[i] = "failed_terminal" /\ status = "failed_terminal"
    <2>1. D # {} => j \in Files
      BY NobodyWaitsForFinalize DEF D, Jobs
    <2> QED BY <1>1, <1>4, <2>1
  <1>9. \A v \in Sessions \ {w} : DOMAIN writes \cap Written(v) = {}
    BY <1>2, <1>4
  <1>10. \A f \in Files :
           DependsOn[f] \in DOMAIN writes /\ writes[DependsOn[f]] = "failed_terminal" =>
             f \in DOMAIN writes /\ writes[f] = "failed_terminal"
    BY <1>3, <1>4, <1>6
  <1> QED BY <1>5, <1>7, <1>8, <1>9, <1>10 DEF EndOf, writes

(* A success, or a failure that may be retried, writes the one row of the  *)
(* job.                                                                    *)
LEMMA RowEnds ==
  ASSUME RunnerInv, NEW w \in Workers, NEW j \in Jobs, held[w] = j, jobStatus[j] = "running",
         NEW status \in JobStatuses \ {"failed_terminal"}
  PROVE  EndOf(w, j, status, Row(j, status))
PROOF
  <1>1. \A v \in Sessions \ {w} : j \notin Written(v)
    BY NotWrittenElsewhere
  <1> QED BY <1>1, RowRows DEF EndOf, Row

(* A step that writes the end of the execution keeps the invariant, if it  *)
(* leaves the worker in its program and writes a retriable failure only    *)
(* when the program will retry it.                                         *)
LEMMA EndKeeps ==
  ASSUME RunnerInv, NEW w \in Workers, NEW j \in Jobs, held[w] = j, jobStatus[j] = "running",
         NEW status \in JobStatuses \ {"running"}, NEW writes, EndOf(w, j, status, writes),
         txJobs' = [txJobs EXCEPT ![w] = writes],
         script'[w] \in Seq(Statements), script' = [script EXCEPT ![w] = script'[w]],
         InProgram(w)', script'[w] # <<>>, Head(script'[w]) # "insertFinalize",
         HasRetry(script'[w]) <=> status = "failed_retriable",
         NEW loaded \in SUBSET Files, seen' = [seen EXCEPT ![w].loaded = loaded],
         j \in Bundles /\ status = "succeeded" =>
           loaded = Imported(j),
         UNCHANGED <<jobStatus, attempts, bundleRow, materialized, txRow, held, stopped,
                     crashes, reads>>
  PROVE  RunnerInv'
PROOF
  <1>1. TypeOK /\ w \in Sessions /\ w \notin Readers /\ WorkerInv(w) /\ j # None
    BY SessionsAssumption, NamesAssumption DEF RunnerInv, Sessions, Jobs
  <1>2. /\ txJobs'[w] = writes /\ held'[w] = j /\ seen'[w].loaded = loaded
        /\ \A q \in Sessions \ {w} : Untouched(q)
    BY <1>1 DEF TypeOK, Untouched
  <1>3. TypeOK'
    <2>1. script' \in [Sessions -> Seq(Statements)] /\ DOMAIN txJobs' = Sessions
      BY <1>1 DEF TypeOK
    <2>2. \A p \in Sessions :
            DOMAIN txJobs'[p] \subseteq Jobs /\ txJobs'[p] \in [DOMAIN txJobs'[p] -> JobStatuses]
      <3> TAKE p \in Sessions
      <3>1. CASE p = w
        BY <1>2, <3>1 DEF EndOf
      <3>2. CASE p # w
        BY <1>1, <1>2, <3>2 DEF TypeOK, Untouched, Written
      <3> QED BY <3>1, <3>2
    <2>3. seen' \in [Sessions -> [stored : BundleRows \cup {None}, derived : BundleStatuses,
                                  loaded : SUBSET Files]]
      <3> DEFINE Memory == [stored : BundleRows \cup {None}, derived : BundleStatuses,
                            loaded : SUBSET Files]
                 m == [seen[w] EXCEPT !.loaded = loaded]
      <3>1. seen \in [Sessions -> Memory]
        BY <1>1 DEF TypeOK
      <3>2. seen[w] \in Memory
        BY <1>1, <3>1
      <3>3. m \in Memory
        BY <3>2
      <3>4. seen' = [seen EXCEPT ![w] = m]
        OBVIOUS
      <3> HIDE DEF Memory, m
      <3>5. seen' \in [Sessions -> Memory]
        BY <1>1, <3>1, <3>3, <3>4
      <3> QED BY <3>5 DEF Memory
    <2> QED BY <1>1, <2>1, <2>2, <2>3 DEF TypeOK, Written
  <1>4. Written(w)' = DOMAIN writes
    BY <1>2 DEF Written
  <1>5. InTransaction(w)'
    <2>1. ASSUME NEW i \in DOMAIN writes
          PROVE  Ends(w, i)' \/ DropsWith(w, i)'
      <3>1. CASE i = j
        BY <1>2, <1>4, <3>1 DEF Ends, EndOf
      <3>2. CASE i # j
        BY <1>2, <1>4, <2>1, <3>2 DEF DropsWith, EndOf
      <3> QED BY <3>1, <3>2
    <2>2. \A b \in DOMAIN txRow'[w] : b = Subject(w)'
      BY <1>1 DEF WorkerInv, InTransaction, Subject
    <2> QED BY <1>2, <1>4, <2>1, <2>2 DEF InTransaction, EndOf
  <1>6. RetryPending(w)' /\ DropsAreClosed(w)' /\ StillDue(w)' /\ StillCovers(w)'
    BY <1>2, <1>4 DEF RetryPending, DropsAreClosed, StillDue, StillCovers, Imported, At, EndOf
  <1>7. WorkerInv(w)'
    BY <1>5, <1>6 DEF WorkerInv
  <1>8. w \notin stopped
    BY <1>1, BusyHasNotLeft
  <1>9. DrainInv'
    BY <1>1, <1>2, <1>8, DrainStays
  <1>10. \A q \in Sessions \ {w} :
           /\ Written(w)' \cap Written(q) = {}
           /\ DOMAIN txRow'[w] \cap DOMAIN txRow[q] = {}
    BY <1>1, <1>4 DEF EndOf, RunnerInv, LocksExclude
  <1> QED BY <1>1, <1>2, <1>3, <1>7, <1>9, <1>10, PrivateStep

(* The programs of the transactions that end an execution.                 *)
WellFormed(s) ==
  /\ s \in Seq(Statements) /\ s # <<>> /\ Head(s) = "readStored"
  /\ \A i \in 1..Len(s) :
       /\ s[i] = "commit" <=> i = Len(s)
       /\ s[i] = "retry" => \A k \in 1..(i - 1) : s[k] \in RefreshStatements
       /\ s[i] = "insertFinalize" /\ i > 1 => s[i - 1] = "checkDue"

(* The statements of the four transactions are in the order InProgram asks *)
(* for.                                                                    *)
LEMMA FileDoneProgram == WellFormed(FileDone) /\ ~HasRetry(FileDone)
PROOF
  <1>1. /\ FileDone \in Seq(Statements) /\ Len(FileDone) = 7
        /\ FileDone[1] = "readStored" /\ FileDone[2] = "readCounts" /\ FileDone[3] = "storeStatus"
        /\ FileDone[4] = "checkDue" /\ FileDone[5] = "insertFinalize"
        /\ FileDone[6] = "storeFinalizing" /\ FileDone[7] = "commit"
    BY DEF FileDone, Refresh, EnqueueFinalize, Statements, RefreshStatements
  <1>2. FileDone # <<>> /\ Head(FileDone) = FileDone[1]
    BY <1>1, EmptySeq, RestOf
  <1>3. \A i \in 1..7 : i = 1 \/ i = 2 \/ i = 3 \/ i = 4 \/ i = 5 \/ i = 6 \/ i = 7
    OBVIOUS
  <1> QED BY <1>1, <1>2, <1>3 DEF WellFormed, HasRetry, RefreshStatements

(* The transaction of a finalize job that succeeded.                       *)
LEMMA FinalizeDoneProgram ==
  /\ WellFormed(FinalizeDone) /\ ~HasRetry(FinalizeDone)
  /\ \A i \in 1..Len(FinalizeDone) : FinalizeDone[i] \notin {"checkDue", "insertFinalize"}
PROOF
  <1>1. /\ FinalizeDone \in Seq(Statements) /\ Len(FinalizeDone) = 7
        /\ FinalizeDone[1] = "readStored" /\ FinalizeDone[2] = "readCounts"
        /\ FinalizeDone[3] = "storeStatus" /\ FinalizeDone[4] = "readStored"
        /\ FinalizeDone[5] = "readCounts" /\ FinalizeDone[6] = "storeStatus"
        /\ FinalizeDone[7] = "commit"
    BY DEF FinalizeDone, Refresh, Statements, RefreshStatements
  <1>2. FinalizeDone # <<>> /\ Head(FinalizeDone) = FinalizeDone[1]
    BY <1>1, EmptySeq, RestOf
  <1>3. \A i \in 1..7 : i = 1 \/ i = 2 \/ i = 3 \/ i = 4 \/ i = 5 \/ i = 6 \/ i = 7
    OBVIOUS
  <1> QED BY <1>1, <1>2, <1>3 DEF WellFormed, HasRetry, RefreshStatements

(* The transaction of a finalize job that failed.                          *)
LEMMA FinalizeRetriedProgram ==
  /\ WellFormed(FinalizeRetried) /\ HasRetry(FinalizeRetried)
  /\ \A i \in 1..Len(FinalizeRetried) : FinalizeRetried[i] \notin {"checkDue", "insertFinalize"}
PROOF
  <1>1. /\ FinalizeRetried \in Seq(Statements) /\ Len(FinalizeRetried) = 8
        /\ FinalizeRetried[1] = "readStored" /\ FinalizeRetried[2] = "readCounts"
        /\ FinalizeRetried[3] = "storeStatus" /\ FinalizeRetried[4] = "retry"
        /\ FinalizeRetried[5] = "readStored" /\ FinalizeRetried[6] = "readCounts"
        /\ FinalizeRetried[7] = "storeStatus" /\ FinalizeRetried[8] = "commit"
    BY DEF FinalizeRetried, Refresh, Statements, RefreshStatements
  <1>2. FinalizeRetried # <<>> /\ Head(FinalizeRetried) = FinalizeRetried[1]
    BY <1>1, EmptySeq, RestOf, SMTT(30)
  <1>3. \A i \in 1..8 :
          i = 1 \/ i = 2 \/ i = 3 \/ i = 4 \/ i = 5 \/ i = 6 \/ i = 7 \/ i = 8
    OBVIOUS
  <1>4. HasRetry(FinalizeRetried)
    BY <1>1 DEF HasRetry
  <1> QED BY <1>1, <1>2, <1>3, <1>4 DEF WellFormed, RefreshStatements

(* The transaction of a file that failed and may be retried.               *)
LEMMA FileRetriedProgram == WellFormed(FileRetried) /\ HasRetry(FileRetried)
PROOF
  <1>1. /\ FileRetried \in Seq(Statements) /\ Len(FileRetried) = 11
        /\ FileRetried[1] = "readStored" /\ FileRetried[2] = "readCounts"
        /\ FileRetried[3] = "storeStatus" /\ FileRetried[4] = "retry"
        /\ FileRetried[5] = "readStored" /\ FileRetried[6] = "readCounts"
        /\ FileRetried[7] = "storeStatus" /\ FileRetried[8] = "checkDue"
        /\ FileRetried[9] = "insertFinalize" /\ FileRetried[10] = "storeFinalizing"
        /\ FileRetried[11] = "commit"
    BY DEF FileRetried, FileDone, Refresh, EnqueueFinalize, Statements, RefreshStatements
  <1>2. FileRetried # <<>> /\ Head(FileRetried) = FileRetried[1]
    BY <1>1, EmptySeq, RestOf
  <1>3. \A i \in 1..11 :
          \/ i = 1 \/ i = 2 \/ i = 3 \/ i = 4 \/ i = 5 \/ i = 6 \/ i = 7 \/ i = 8
          \/ i = 9 \/ i = 10 \/ i = 11
    OBVIOUS
  <1>4. HasRetry(FileRetried)
    BY <1>1 DEF HasRetry
  <1> QED BY <1>1, <1>2, <1>3, <1>4 DEF WellFormed, RefreshStatements

(* A worker that begins the transaction that ends its job.                 *)
LEMMA BeginKeeps ==
  ASSUME RunnerInv, NEW w \in Workers, NEW j \in Jobs, held[w] = j,
         NEW status \in JobStatuses \ {"running"}, NEW writes, EndOf(w, j, status, writes),
         NEW program, WellFormed(program), HasRetry(program) <=> status = "failed_retriable",
         j \in Files \/ \A i \in 1..Len(program) : program[i] \notin {"checkDue", "insertFinalize"},
         Begin(w, writes, program),
         NEW loaded \in SUBSET Files, seen' = [seen EXCEPT ![w].loaded = loaded],
         j \in Bundles /\ status = "succeeded" =>
           loaded = Imported(j)
  PROVE  RunnerInv'
PROOF
  <1>1. TypeOK /\ w \in Sessions /\ jobStatus[j] = "running" /\ j # None
    BY ExecutingRuns, NamesAssumption DEF RunnerInv, Sessions, Begin, Jobs
  <1>2. /\ txJobs' = [txJobs EXCEPT ![w] = writes] /\ script' = [script EXCEPT ![w] = program]
        /\ UNCHANGED <<jobStatus, attempts, bundleRow, materialized, txRow, held, stopped, crashes, reads>>
    BY DEF Begin
  <1>3. script'[w] = program
    BY <1>1, <1>2 DEF TypeOK
  <1>4. InProgram(w)'
    BY <1>1, <1>2, <1>3 DEF InProgram, WellFormed
  <1>5. Head(program) # "insertFinalize" /\ program \in Seq(Statements) /\ program # <<>>
    BY DEF WellFormed
  <1> QED BY <1>1, <1>2, <1>3, <1>4, <1>5, EndKeeps

(* mark_job_succeeded.                                                     *)
LEMMA SucceedKeeps ==
  ASSUME RunnerInv, NEW w \in Workers, Succeed(w)
  PROVE  RunnerInv'
PROOF
  <1> DEFINE j == held[w]
             program == IF j \in Files THEN FileDone ELSE FinalizeDone
             loaded == Imported(BundleFor(j))
             status == "succeeded"
             writes == Row(j, status)
  <1>1. Begin(w, writes, program) /\ seen' = [seen EXCEPT ![w].loaded = loaded]
    BY DEF Succeed
  <1>2. j \in Jobs /\ jobStatus[j] = "running"
    BY <1>1, ExecutingRuns DEF Begin
  <1>3. status \in JobStatuses \ {"running"} /\ status # "failed_terminal"
        /\ status # "failed_retriable"
    BY DEF JobStatuses
  <1>4. EndOf(w, j, status, writes)
    BY <1>2, <1>3, RowEnds
  <1>5. WellFormed(program) /\ ~HasRetry(program)
    BY FileDoneProgram, FinalizeDoneProgram
  <1>6. j \in Files \/ \A i \in 1..Len(program) : program[i] \notin {"checkDue", "insertFinalize"}
    BY FinalizeDoneProgram
  <1>7. loaded \in SUBSET Files
    BY DEF Imported, FilesOf
  <1>8. j \in Bundles => loaded = Imported(j)
    BY NamesAssumption DEF BundleFor
  <1> HIDE DEF program, loaded, status, writes
  <1> QED BY <1>1, <1>2, <1>3, <1>4, <1>5, <1>6, <1>7, <1>8, BeginKeeps

(* mark_job_failed.                                                        *)
LEMMA FailKeeps ==
  ASSUME RunnerInv, NEW w \in Workers,
         NEW disposition \in {"failed_retriable", "failed_terminal"}, Fail(w, disposition)
  PROVE  RunnerInv'
PROOF
  <1> DEFINE j == held[w]
             program == IF j \in Bundles THEN FinalizeRetried
                        ELSE IF disposition = "failed_retriable" THEN FileRetried
                        ELSE FileDone
             writes == FailedWrites(jobStatus, j, disposition)
             loaded == seen[w].loaded
  <1>1. /\ Begin(w, writes, program) /\ UNCHANGED seen
        /\ j \in Bundles => disposition = "failed_retriable"
    BY DEF Fail
  <1>2. j \in Jobs /\ jobStatus[j] = "running"
    BY <1>1, ExecutingRuns DEF Begin
  <1>3. disposition \in JobStatuses \ {"running"} /\ disposition # "succeeded"
    BY DEF JobStatuses
  <1>4. EndOf(w, j, disposition, writes)
    BY <1>2, <1>3, FailedWritesEnd
  <1>5. WellFormed(program) /\ (HasRetry(program) <=> disposition = "failed_retriable")
    BY <1>1, FileDoneProgram, FileRetriedProgram, FinalizeRetriedProgram
  <1>6. j \in Files \/ \A i \in 1..Len(program) : program[i] \notin {"checkDue", "insertFinalize"}
    BY <1>2, FinalizeRetriedProgram DEF Jobs
  <1>7. loaded \in SUBSET Files /\ seen' = [seen EXCEPT ![w].loaded = loaded]
    BY <1>1 DEF RunnerInv, TypeOK, Sessions
  <1> HIDE DEF program, writes, loaded
  <1> QED BY <1>1, <1>2, <1>3, <1>4, <1>5, <1>6, <1>7, BeginKeeps

(* retry_failed_job: the retriable failure becomes the end it decides on.  *)
LEMMA RetryKeeps ==
  ASSUME RunnerInv, NEW w \in Workers, Retry(w)
  PROVE  RunnerInv'
PROOF
  <1> DEFINE j == held[w]
             status == RetryOutcome(j)
             failed == FailedWrites(JobsSeen(w), j, status)
             writes == Over(failed, txJobs[w])
             loaded == seen[w].loaded
  <1>1. /\ TypeOK /\ w \in Sessions /\ WorkerInv(w)
        /\ script[w] # <<>> /\ Head(script[w]) = "retry"
    BY DEF RunnerInv, Sessions, Retry, At
  <1>2. /\ txJobs' = [txJobs EXCEPT ![w] = writes] /\ script' = [script EXCEPT ![w] = Tail(@)]
        /\ UNCHANGED <<jobStatus, attempts, bundleRow, materialized, txRow, held, seen,
                       stopped, crashes, reads>>
    BY DEF Retry, Advance
  <1>3. HasRetry(script[w])
    <2>1. Len(script[w]) \in Nat /\ Len(script[w]) > 0 /\ script[w][1] = "retry"
      BY <1>1, RestOf DEF TypeOK
    <2> QED BY <2>1 DEF HasRetry
  <1>4. txJobs[w][j] = "failed_retriable" /\ j \in Written(w)
    BY <1>1, <1>3 DEF WorkerInv, RetryPending, InTransaction
  <1>5. jobStatus[j] = "running" /\ Written(w) = {j} /\ j \in Jobs
    <2>1. Claims(w, j) \/ Ends(w, j) \/ DropsWith(w, j) \/ Inserts(w, j)
      BY <1>1, <1>4 DEF WorkerInv, InTransaction
    <2>2. Ends(w, j)
      BY <1>4, <2>1 DEF Claims, DropsWith, Inserts
    <2> QED BY <1>1, <1>4, <2>2 DEF Ends, TypeOK
  <1>6. \A f \in Files : JobsSeen(w)[f] = "queued" <=> jobStatus[f] = "queued"
    <2> SUFFICES ASSUME NEW f \in Files
                 PROVE  JobsSeen(w)[f] = "queued" <=> jobStatus[f] = "queued"
      OBVIOUS
    <2>1. f \in Jobs
      BY DEF Jobs
    <2>2. JobsSeen(w)[f] = IF f \in Written(w) THEN txJobs[w][f] ELSE jobStatus[f]
      BY <1>1, <2>1, SeenByWorker
    <2> QED BY <1>4, <1>5, <2>2
  <1>7. status \in JobStatuses \ {"running"} /\ status # "failed_retriable" /\ status # "succeeded"
    BY DEF RetryOutcome, JobStatuses
  <1> HIDE DEF status
  <1>8. EndOf(w, j, status, failed)
    BY <1>5, <1>6, <1>7, FailedWritesEnd
  <1> HIDE DEF failed
  <1>9. EndOf(w, j, status, writes)
    <2>1. j \in DOMAIN failed /\ DOMAIN txJobs[w] = {j}
      BY <1>5, <1>8 DEF EndOf, Written
    <2>2. /\ DOMAIN writes = DOMAIN failed
          /\ \A i \in DOMAIN failed : writes[i] = failed[i]
          /\ writes = [i \in DOMAIN writes |-> writes[i]]
      BY <2>1 DEF Over
    <2> HIDE DEF writes
    <2>3. writes \in [DOMAIN writes -> JobStatuses]
      BY <1>8, <2>2 DEF EndOf
    <2> QED BY <1>8, <2>2, <2>3 DEF EndOf
  <1>10. script'[w] = Tail(script[w]) /\ script'[w] \in Seq(Statements)
    BY <1>1, <1>2, AtStatement DEF TypeOK
  <1>11. /\ InProgram(w)' /\ script'[w] # <<>> /\ Head(script'[w]) # "insertFinalize"
         /\ ~HasRetry(script'[w])
    <2>1. held'[w] = held[w]
      BY <1>2
    <2> QED BY <1>1, <1>10, <2>1, NextStatement DEF WorkerInv
  <1>12. script' = [script EXCEPT ![w] = script'[w]]
    BY <1>2, <1>10
  <1>13. loaded \in SUBSET Files /\ seen' = [seen EXCEPT ![w].loaded = loaded]
    BY <1>1, <1>2 DEF TypeOK
  <1> HIDE DEF writes, loaded
  <1> QED BY <1>2, <1>5, <1>7, <1>9, <1>10, <1>11, <1>12, <1>13, EndKeeps, ZenonT(40)

-----------------------------------------------------------------------------
(* The insert of the finalize job.                                         *)

(* The insert of the finalize job: the file the worker ends is among the   *)
(* files of the bundle, and nobody else can insert it.                     *)
LEMMA InsertKeeps ==
  ASSUME RunnerInv, NEW w \in Workers, InsertFinalize(w)
  PROVE  RunnerInv'
PROOF
  <1> DEFINE b == Subject(w)
             j == held[w]
             writes == Over(Row(b, "queued"), txJobs[w])
  <1>1. /\ TypeOK /\ w \in Sessions /\ w \notin Readers /\ WorkerInv(w)
        /\ script[w] # <<>> /\ Head(script[w]) = "insertFinalize"
    BY SessionsAssumption DEF RunnerInv, Sessions, InsertFinalize, At
  <1>2. /\ ~JobLocked(b) /\ txJobs' = [txJobs EXCEPT ![w] = writes]
        /\ script' = [script EXCEPT ![w] = Tail(@)]
        /\ UNCHANGED <<jobStatus, attempts, bundleRow, materialized, txRow, held, seen,
                       stopped, crashes, reads>>
    BY DEF InsertFinalize, Advance
  <1>3. j \in Jobs /\ b \in Bundles /\ Tail(script[w]) \in Seq(Statements) /\ w \notin stopped
    BY <1>1, AtStatement
  <1>4. /\ Len(script[w]) \in Nat /\ Len(script[w]) > 0 /\ script[w][1] = "insertFinalize"
        /\ 1 \in 1..Len(script[w])
    BY <1>1, RestOf DEF TypeOK
  <1>5. j \in Files /\ b = BundleOf[j] /\ j # b
    <2>1. j \in Files
      BY <1>1, <1>4 DEF WorkerInv, InProgram
    <2> QED BY <1>3, <2>1, NamesAssumption DEF Subject, BundleFor
  <1>6. ~HasRetry(script[w])
    <2>1. ASSUME NEW i \in 1..Len(script[w]), script[w][i] = "retry"
          PROVE  FALSE
      <3>1. i # 1 /\ 1 \in 1..(i - 1)
        BY <1>4, <2>1
      <3>2. script[w][1] \in RefreshStatements
        BY <1>1, <2>1, <3>1 DEF WorkerInv, InProgram
      <3> QED BY <1>4, <3>2 DEF RefreshStatements
    <2> QED BY <2>1 DEF HasRetry
  <1>7. j \in Written(w) /\ txJobs[w][j] # "failed_retriable"
    BY <1>1, <1>6 DEF WorkerInv, InTransaction, RetryPending
  <1>8. /\ jobStatus[b] = "absent" /\ b \notin Written(w) /\ BarrierMet(JobsSeen(w), b)
    BY <1>1 DEF WorkerInv, StillDue, At
  <1>9. /\ DOMAIN writes = Written(w) \cup {b} /\ writes[b] = "queued"
        /\ \A i \in Written(w) : writes[i] = txJobs[w][i]
        /\ writes = [i \in DOMAIN writes |-> writes[i]]
    BY <1>8 DEF Over, Row, Written
  <1> HIDE DEF writes
  <1>10. /\ script'[w] = Tail(script[w]) /\ held'[w] = j /\ txJobs'[w] = writes
         /\ \A q \in Sessions \ {w} : Untouched(q)
    BY <1>1, <1>2 DEF TypeOK, Untouched
  <1>11. TypeOK'
    <2>1. script' \in [Sessions -> Seq(Statements)] /\ DOMAIN txJobs' = Sessions
      BY <1>1, <1>2, <1>3 DEF TypeOK
    <2>2. \A p \in Sessions :
            DOMAIN txJobs'[p] \subseteq Jobs /\ txJobs'[p] \in [DOMAIN txJobs'[p] -> JobStatuses]
      <3> TAKE p \in Sessions
      <3>1. CASE p = w
        <4>1. \A i \in DOMAIN writes : writes[i] \in JobStatuses
          BY <1>1, <1>9 DEF TypeOK, JobStatuses
        <4>2. DOMAIN writes \subseteq Jobs
          BY <1>1, <1>3, <1>9 DEF TypeOK, Jobs
        <4> QED BY <1>9, <1>10, <3>1, <4>1, <4>2
      <3>2. CASE p # w
        BY <1>1, <1>10, <3>2 DEF TypeOK, Untouched, Written
      <3> QED BY <3>1, <3>2
    <2> QED BY <1>1, <1>2, <2>1, <2>2 DEF TypeOK, Written
  <1>12. /\ InProgram(w)' /\ script'[w] # <<>> /\ Head(script'[w]) # "insertFinalize"
         /\ ~HasRetry(script'[w])
    BY <1>1, <1>6, <1>10, NextStatement DEF WorkerInv
  <1>13. Written(w)' = Written(w) \cup {b} /\ Subject(w)' = b
    BY <1>2, <1>9, <1>10 DEF Written, Subject
  <1>14. BarrierMet(JobsSeen(w)', b)
    <2>1. \A f \in FilesOf(b) : JobsSeen(w)'[f] = JobsSeen(w)[f]
      <3> TAKE f \in FilesOf(b)
      <3>1. f \in Files /\ f \in Jobs /\ f # b
        BY <1>3, NamesAssumption DEF FilesOf, Jobs
      <3>2. JobsSeen(w)[f] = IF f \in Written(w) THEN txJobs[w][f] ELSE jobStatus[f]
        BY <1>1, <3>1, SeenByWorker
      <3>3. DOMAIN jobStatus = Jobs
        BY <1>1 DEF TypeOK
      <3>4. JobsSeen(w)'[f] = IF f \in Written(w) THEN txJobs[w][f] ELSE jobStatus[f]
        BY <1>2, <1>9, <1>10, <3>1, <3>3 DEF JobsSeen, Over
      <3> QED BY <3>2, <3>4
    <2>2. FileStatuses(JobsSeen(w)', b) = FileStatuses(JobsSeen(w), b)
      BY <2>1 DEF FileStatuses
    <2> QED BY <1>8, <2>2 DEF BarrierMet
  <1>15. InTransaction(w)'
    <2>1. ASSUME NEW i \in Written(w)
          PROVE  Ends(w, i)' \/ DropsWith(w, i)'
      <3>1. ~Claims(w, i) /\ ~Inserts(w, i)
        BY <1>1, <1>5, <1>8, <2>1 DEF Claims, Inserts
      <3>2. Ends(w, i) => Ends(w, i)'
        BY <1>2, <1>7, <1>9, <1>10 DEF Ends
      <3>3. DropsWith(w, i) => DropsWith(w, i)'
        BY <1>2, <1>7, <1>9, <1>10, <1>13 DEF DropsWith
      <3> QED BY <1>1, <3>1, <3>2, <3>3 DEF WorkerInv, InTransaction
    <2>2. ASSUME NEW i, i = b
          PROVE  Inserts(w, i)'
      BY <1>2, <1>5, <1>8, <1>9, <1>10, <1>14, <2>2 DEF Inserts
    <2>3. \A c \in DOMAIN txRow'[w] : c = Subject(w)'
      BY <1>1, <1>2, <1>13 DEF WorkerInv, InTransaction
    <2> QED BY <1>7, <1>10, <1>12, <1>13, <2>1, <2>2, <2>3 DEF InTransaction
  <1>16. RetryPending(w)' /\ StillDue(w)'
    BY <1>7, <1>9, <1>10, <1>12 DEF RetryPending, StillDue, At
  <1>17. StillCovers(w)'
    BY <1>5, <1>10, NamesAssumption DEF StillCovers
  <1>18. DropsAreClosed(w)'
    <2> SUFFICES ASSUME NEW f \in Files, DependsOn[f] \in Written(w) \cup {b},
                        writes[DependsOn[f]] = "failed_terminal"
                 PROVE  f \in Written(w) /\ txJobs[w][f] = "failed_terminal"
      BY <1>9, <1>10, <1>13 DEF DropsAreClosed
    <2>1. DependsOn[f] \in Written(w)
      BY <1>3, DependsOnAssumption, NamesAssumption
    <2> QED BY <1>1, <1>9, <2>1 DEF WorkerInv, DropsAreClosed
  <1>19. DrainInv'
    BY <1>1, <1>2, <1>3, <1>10, DrainStays
  <1>20. \A q \in Sessions \ {w} :
           /\ Written(w)' \cap Written(q) = {}
           /\ DOMAIN txRow'[w] \cap DOMAIN txRow[q] = {}
    BY <1>1, <1>2, <1>13 DEF RunnerInv, LocksExclude, JobLocked, Written
  <1>21. WorkerInv(w)'
    BY <1>12, <1>15, <1>16, <1>17, <1>18 DEF WorkerInv
  <1> QED BY <1>1, <1>2, <1>10, <1>11, <1>19, <1>20, <1>21, PrivateStep

-----------------------------------------------------------------------------
(* The commit.                                                             *)

(* What a transaction that is about to commit wrote: a claim and nothing   *)
(* else, or the end of a job, with the files dropped and the finalize job. *)
LEMMA CommitWrites ==
  ASSUME RunnerInv, NEW w \in Workers, At(w, "commit")
  PROVE  /\ held[w] \in Jobs /\ held[w] \in Written(w)
         /\ \/ Claims(w, held[w])
            \/ /\ jobStatus[held[w]] = "running"
               /\ txJobs[w][held[w]] \in {"queued"} \cup TerminalStatuses
         /\ \A i \in Written(w) :
              /\ i \in Jobs /\ txJobs[w][i] # "failed_retriable"
              /\ i = held[w] \/ DropsWith(w, i) \/ Inserts(w, i)
PROOF
  <1> DEFINE j == held[w]
  <1>1. /\ TypeOK /\ WorkerInv(w) /\ w \in Sessions
        /\ script[w] # <<>> /\ Head(script[w]) = "commit"
    BY DEF RunnerInv, At, Sessions
  <1>2. j \in Jobs /\ j \in Written(w)
    BY <1>1, AtStatement DEF WorkerInv, InTransaction
  <1>3. ~HasRetry(script[w])
    <2>1. /\ Len(script[w]) \in Nat /\ Len(script[w]) > 0 /\ script[w][1] = "commit"
      BY <1>1, RestOf DEF TypeOK
    <2>2. 1 \in 1..Len(script[w])
      BY <2>1
    <2>3. Len(script[w]) = 1
      BY <1>1, <2>1, <2>2 DEF WorkerInv, InProgram
    <2>4. \A i \in 1..1 : i = 1
      OBVIOUS
    <2> QED BY <2>1, <2>3, <2>4 DEF HasRetry
  <1>4. txJobs[w][j] # "failed_retriable"
    BY <1>1, <1>3 DEF WorkerInv, RetryPending
  <1>5. \A i \in Written(w) : Claims(w, i) \/ Ends(w, i) \/ DropsWith(w, i) \/ Inserts(w, i)
    BY <1>1 DEF WorkerInv, InTransaction
  <1>6. Claims(w, j) \/ Ends(w, j)
    <2>1. ~Inserts(w, j)
      BY BundleOfAssumption, NamesAssumption DEF Inserts
    <2> QED BY <1>2, <1>5, <2>1 DEF DropsWith
  <1>7. \/ Claims(w, j)
        \/ jobStatus[j] = "running" /\ txJobs[w][j] \in {"queued"} \cup TerminalStatuses
    <2>1. txJobs[w][j] \in JobStatuses
      BY <1>1, <1>2 DEF TypeOK
    <2> QED BY <1>4, <1>6, <2>1 DEF Ends, JobStatuses, TerminalStatuses
  <1>8. ASSUME NEW i \in Written(w)
        PROVE  /\ i \in Jobs /\ txJobs[w][i] # "failed_retriable"
               /\ i = j \/ DropsWith(w, i) \/ Inserts(w, i)
    <2>1. i \in Jobs
      BY <1>1 DEF TypeOK
    <2>2. i = j \/ DropsWith(w, i) \/ Inserts(w, i)
      BY <1>5 DEF Claims, Ends
    <2> QED BY <1>4, <2>1, <2>2 DEF DropsWith, Inserts
  <1> QED BY <1>2, <1>7, <1>8

(* The job statuses after the commit of worker w.                          *)
Committed(w) ==
  /\ \A i \in Written(w) : jobStatus'[i] = txJobs[w][i]
  /\ \A i \in Jobs \ Written(w) : jobStatus'[i] = jobStatus[i]

(* A commit makes the statuses the worker saw those everybody sees.        *)
LEMMA CommitStatuses ==
  ASSUME RunnerInv, NEW w \in Workers, Commit(w)
  PROVE  Committed(w) /\ jobStatus' \in [Jobs -> JobStatuses \cup {"absent"}]
         /\ \A i \in Jobs : jobStatus'[i] = JobsSeen(w)[i]
PROOF
  <1>1. TypeOK /\ w \in Sessions /\ jobStatus' = Over(txJobs[w], jobStatus)
    BY DEF RunnerInv, Sessions, Commit
  <1>2. DOMAIN jobStatus = Jobs /\ Written(w) \subseteq Jobs
    BY <1>1 DEF TypeOK
  <1>3. /\ DOMAIN jobStatus' = Jobs
        /\ \A i \in Jobs : jobStatus'[i] = IF i \in Written(w) THEN txJobs[w][i] ELSE jobStatus[i]
        /\ jobStatus' = [i \in Jobs |-> jobStatus'[i]]
    <2>1. DOMAIN txJobs[w] \cup DOMAIN jobStatus = Jobs
      BY <1>2 DEF Written
    <2> QED BY <1>1, <2>1 DEF Over, Written
  <1>4. \A i \in Jobs : jobStatus'[i] \in JobStatuses \cup {"absent"}
    BY <1>1, <1>3 DEF TypeOK
  <1>5. jobStatus' \in [Jobs -> JobStatuses \cup {"absent"}]
    BY <1>3, <1>4
  <1>6. \A i \in Jobs : jobStatus'[i] = JobsSeen(w)[i]
    BY <1>1, <1>3, SeenByWorker
  <1> QED BY <1>2, <1>3, <1>5, <1>6 DEF Committed

(* A job that has ended keeps its status.                                  *)
LEMMA EndedStays ==
  ASSUME RunnerInv, NEW w \in Workers, Committed(w), NEW i \in Jobs,
         jobStatus[i] \in TerminalStatuses
  PROVE  jobStatus'[i] = jobStatus[i]
PROOF
  <1>1. i \notin Written(w)
    BY WrittenAreOpen DEF Sessions, TerminalStatuses
  <1> QED BY <1>1 DEF Committed

(* Once all files of a bundle are done, no commit changes that.            *)
LEMMA BarrierStays ==
  ASSUME RunnerInv, NEW w \in Workers, Committed(w), NEW b \in Bundles,
         BarrierMet(jobStatus, b)
  PROVE  BarrierMet(jobStatus, b)' /\ Imported(b)' = Imported(b)
PROOF
  <1>1. \A f \in FilesOf(b) : jobStatus'[f] = jobStatus[f]
    BY EndedStays DEF BarrierMet, FileStatuses, FilesOf, Jobs
  <1>2. FileStatuses(jobStatus, b)' = FileStatuses(jobStatus, b)
    BY <1>1 DEF FileStatuses
  <1> QED BY <1>1, <1>2 DEF BarrierMet, Imported

(* Nor does the commit of another worker change it for one who saw it.     *)
LEMMA BarrierSeenStays ==
  ASSUME RunnerInv, NEW w \in Workers, Commit(w), NEW v \in Workers \ {w}, Untouched(v),
         NEW b \in Bundles, BarrierMet(JobsSeen(v), b)
  PROVE  BarrierMet(JobsSeen(v), b)'
PROOF
  <1>1. TypeOK /\ v \in Sessions /\ Committed(w)
        /\ jobStatus' \in [Jobs -> JobStatuses \cup {"absent"}]
    BY CommitStatuses DEF RunnerInv, Sessions
  <1>2. ASSUME NEW f \in FilesOf(b)
        PROVE  JobsSeen(v)'[f] = JobsSeen(v)[f]
    <2>1. f \in Jobs
      BY DEF FilesOf, Jobs
    <2>2. JobsSeen(v)[f] = IF f \in Written(v) THEN txJobs[v][f] ELSE jobStatus[f]
      BY <1>1, <2>1, SeenByWorker
    <2>3. JobsSeen(v)'[f] = IF f \in Written(v) THEN txJobs[v][f] ELSE jobStatus'[f]
      BY <1>1, <2>1 DEF JobsSeen, Over, Written, Untouched
    <2>4. f \notin Written(v) => jobStatus[f] \in TerminalStatuses
      BY <2>2 DEF BarrierMet, FileStatuses
    <2>5. f \notin Written(v) => jobStatus'[f] = jobStatus[f]
      BY <1>1, <2>1, <2>4, EndedStays
    <2> QED BY <2>2, <2>3, <2>5
  <1>3. FileStatuses(JobsSeen(v), b)' = FileStatuses(JobsSeen(v), b)
    BY <1>2 DEF FileStatuses
  <1> QED BY <1>3 DEF BarrierMet

(* No other worker writes the finalize job a worker is about to insert: it *)
(* would have seen the file of that worker end, and it has not.            *)
LEMMA InsertIsAlone ==
  ASSUME RunnerInv, NEW w \in Workers, At(w, "insertFinalize"), NEW v \in Sessions
  PROVE  Subject(w) \notin Written(v)
PROOF
  <1> DEFINE b == Subject(w)
  <1>1. /\ TypeOK /\ WorkerInv(w) /\ w \in Sessions
        /\ script[w] # <<>> /\ Head(script[w]) = "insertFinalize"
    BY DEF RunnerInv, At, Sessions
  <1>2. jobStatus[b] = "absent" /\ b \notin Written(w) /\ b \in Bundles
    BY <1>1, AtStatement DEF WorkerInv, StillDue, At
  <1>3. held[w] \in Files /\ b = BundleOf[held[w]] /\ held[w] \in FilesOf(b)
    <2>1. Len(script[w]) \in Nat /\ Len(script[w]) > 0 /\ script[w][1] = "insertFinalize"
      BY <1>1, RestOf DEF TypeOK
    <2>2. 1 \in 1..Len(script[w])
      BY <2>1
    <2>3. held[w] \in Files
      BY <1>1, <2>1, <2>2 DEF WorkerInv, InProgram
    <2> QED BY <2>3 DEF Subject, BundleFor, FilesOf
  <1>4. held[w] \in Written(w) /\ jobStatus[held[w]] = "running"
    <2>1. held[w] \in Written(w)
      BY <1>1 DEF WorkerInv, InTransaction
    <2>2. Claims(w, held[w]) \/ Ends(w, held[w]) \/ DropsWith(w, held[w]) \/ Inserts(w, held[w])
      BY <1>1, <2>1 DEF WorkerInv, InTransaction
    <2>3. ~Claims(w, held[w])
      BY <1>1 DEF Claims
    <2> QED BY <1>2, <1>3, <2>1, <2>2, <2>3 DEF Ends, DropsWith, Inserts
  <1>5. ASSUME b \in Written(v)
        PROVE  FALSE
    <2>1. v # w
      BY <1>2, <1>5
    <2>2. v \in Workers
      BY <1>5, WrittenAreOpen
    <2>3. Claims(v, b) \/ Ends(v, b) \/ DropsWith(v, b) \/ Inserts(v, b)
      BY <1>5, <2>2 DEF RunnerInv, WorkerInv, InTransaction
    <2>4. BarrierMet(JobsSeen(v), b)
      BY <1>2, <2>3, NamesAssumption DEF Claims, Ends, DropsWith, Inserts
    <2>5. held[w] \notin Written(v)
      BY <1>1, <1>4, <2>1 DEF RunnerInv, LocksExclude
    <2>6. JobsSeen(v)[held[w]] = "running"
      BY <1>1, <1>3, <1>4, <2>5, SeenByWorker DEF Jobs
    <2> QED BY <1>3, <2>4, <2>6 DEF BarrierMet, FileStatuses, TerminalStatuses
  <1> QED BY <1>5

(* What the other workers did and checked still holds after the commit.    *)
LEMMA CommitLeavesOthers ==
  ASSUME RunnerInv, NEW w \in Workers, Commit(w), NEW v \in Workers \ {w}, Untouched(v)
  PROVE  WorkerInv(v)'
PROOF
  <1>1. /\ TypeOK /\ v \in Sessions /\ w \in Sessions /\ WorkerInv(v) /\ Committed(w)
        /\ held[v] \in Jobs \cup {None} /\ Written(v) \subseteq Jobs
    BY CommitStatuses DEF RunnerInv, Sessions, TypeOK
  <1>2. Subject(v)' = Subject(v) /\ Written(v)' = Written(v)
    BY DEF Untouched, Subject, Written
  <1>3. InProgram(v)' /\ RetryPending(v)' /\ DropsAreClosed(v)'
    BY <1>1, <1>2 DEF WorkerInv, InProgram, RetryPending, DropsAreClosed, Untouched
  <1>4. \A i \in Written(v) : jobStatus'[i] = jobStatus[i]
    BY <1>1 DEF RunnerInv, LocksExclude, Committed
  <1>5. ASSUME NEW i \in Written(v)
        PROVE  /\ Claims(v, i) => Claims(v, i)'
               /\ Ends(v, i) => Ends(v, i)'
               /\ DropsWith(v, i) => DropsWith(v, i)'
               /\ Inserts(v, i) => Inserts(v, i)'
    <2>1. ASSUME i \in Files, Unblocked(i)
          PROVE  Unblocked(i)'
      <3>1. DependsOn[i] \in Files \cup {None}
        BY <2>1, DependsOnAssumption
      <3> QED BY <1>1, <2>1, <3>1, EndedStays DEF Unblocked, Jobs, TerminalStatuses
    <2>2. Claims(v, i) => Claims(v, i)'
      BY <1>2, <1>4, <2>1 DEF Claims, Untouched
    <2>3. Ends(v, i) => Ends(v, i)'
      BY <1>2, <1>4 DEF Ends, Untouched
    <2>4. DropsWith(v, i) => DropsWith(v, i)'
      BY <1>2, <1>4 DEF DropsWith, Untouched
    <2>5. Inserts(v, i) => Inserts(v, i)'
      BY <1>4, BundleOfAssumption, BarrierSeenStays DEF Inserts, Untouched
    <2> QED BY <2>2, <2>3, <2>4, <2>5
  <1>6. held[v] # None /\ script[v] = <<>> => jobStatus'[held[v]] = "running"
    <2> SUFFICES ASSUME held[v] # None, script[v] = <<>>
                 PROVE  jobStatus'[held[v]] = "running"
      OBVIOUS
    <2>1. held[v] \in Jobs /\ jobStatus[held[v]] = "running"
      BY <1>1 DEF WorkerInv, InTransaction
    <2>2. held[v] \notin Written(w)
      BY <1>1, <2>1, NotWrittenElsewhere
    <2> QED BY <1>1, <2>1, <2>2 DEF Committed
  <1>7. InTransaction(v)'
    BY <1>1, <1>2, <1>5, <1>6 DEF WorkerInv, InTransaction, Untouched
  <1>8. StillDue(v)'
    <2> SUFFICES ASSUME At(v, "insertFinalize")
                 PROVE  /\ jobStatus'[Subject(v)] = "absent" /\ Subject(v) \notin Written(v)
                        /\ BarrierMet(JobsSeen(v), Subject(v))'
      BY <1>2 DEF StillDue, At, Untouched
    <2>1. Subject(v) \in Bundles
      BY <1>1, AtStatement DEF At
    <2>2. /\ jobStatus[Subject(v)] = "absent" /\ Subject(v) \notin Written(v)
          /\ BarrierMet(JobsSeen(v), Subject(v))
      BY <1>1 DEF WorkerInv, StillDue
    <2>3. Subject(v) \notin Written(w)
      BY <1>1, InsertIsAlone
    <2>4. jobStatus'[Subject(v)] = "absent"
      BY <1>1, <2>1, <2>2, <2>3 DEF Committed, Jobs
    <2>5. ASSUME NEW b \in Bundles, b = Subject(v)
          PROVE  BarrierMet(JobsSeen(v), b)'
      BY <2>2, <2>5, BarrierSeenStays
    <2> QED BY <1>2, <2>1, <2>2, <2>4, <2>5
  <1>9. StillCovers(v)'
    <2> SUFFICES ASSUME held[v] \in Bundles, script[v] # <<>>,
                        txJobs[v][held[v]] = "succeeded"
                 PROVE  seen[v].loaded = Imported(held[v])'
      BY DEF StillCovers, Untouched
    <2>1. seen[v].loaded = Imported(held[v]) /\ held[v] \in Written(v)
      BY <1>1 DEF WorkerInv, StillCovers, InTransaction
    <2>2. Claims(v, held[v]) \/ Ends(v, held[v]) \/ DropsWith(v, held[v]) \/ Inserts(v, held[v])
      BY <1>1, <2>1 DEF WorkerInv, InTransaction
    <2>3. jobStatus[held[v]] # "absent"
      BY <2>2 DEF Claims, Ends, DropsWith, Inserts
    <2>4. ASSUME NEW b \in Bundles, b = held[v]
          PROVE  Imported(b)' = Imported(b)
      BY <1>1, <2>3, <2>4, BarrierStays DEF RunnerInv, FinalizeInv
    <2>5. held'[v] = held[v]
      BY DEF Untouched
    <2> QED BY <2>1, <2>4, <2>5
  <1> QED BY <1>3, <1>7, <1>8, <1>9 DEF WorkerInv

(* The committed statuses stay in order: files behind imported or dropped  *)
(* ones, finalize jobs behind all their files.                             *)
LEMMA CommitKeepsFiles ==
  ASSUME RunnerInv, NEW w \in Workers, Commit(w), NEW f \in Files
  PROVE  FileInv(f)'
PROOF
  <1> DEFINE j == held[w]
  <1>1. /\ WorkerInv(w) /\ FileInv(f) /\ Committed(w) /\ f \in Jobs
        /\ DependsOn[f] \in Files \cup {None}
    BY CommitStatuses, DependsOnAssumption DEF RunnerInv, Jobs
  <1>2. /\ j \in Jobs /\ j \in Written(w)
        /\ \/ Claims(w, j)
           \/ jobStatus[j] = "running" /\ txJobs[w][j] \in {"queued"} \cup TerminalStatuses
        /\ \A i \in Written(w) :
             /\ i \in Jobs /\ txJobs[w][i] # "failed_retriable"
             /\ i = j \/ DropsWith(w, i) \/ Inserts(w, i)
    BY CommitWrites DEF Commit
  <1>3. \A i \in Written(w) \ {j} : i \in Files => DropsWith(w, i)
    BY <1>2, BundleOfAssumption, NamesAssumption DEF Inserts
  <1>4. Unblocked(f) => Unblocked(f)'
    BY <1>1, EndedStays DEF Unblocked, Jobs, TerminalStatuses
  <1>5. jobStatus'[f] \in {"queued", "running"} \cup TerminalStatuses
    BY <1>1, <1>2, <1>3 DEF Committed, FileInv, Claims, DropsWith, TerminalStatuses
  <1>6. \/ jobStatus'[f] = "queued" \/ Unblocked(f)'
        \/ jobStatus'[f] = "failed_terminal" /\ jobStatus'[DependsOn[f]] = "failed_terminal"
    <2>1. CASE f \notin Written(w)
      <3>1. jobStatus'[f] = jobStatus[f]
        BY <1>1, <2>1 DEF Committed
      <3>2. jobStatus[DependsOn[f]] = "failed_terminal" /\ DependsOn[f] # None =>
              jobStatus'[DependsOn[f]] = "failed_terminal"
        BY <1>1, EndedStays DEF Jobs, TerminalStatuses
      <3> QED BY <1>1, <1>4, <3>1, <3>2 DEF FileInv, Unblocked
    <2>2. CASE f = j
      BY <1>1, <1>2, <1>4, <2>2 DEF Claims, FileInv
    <2>3. CASE f \in Written(w) \ {j}
      <3>1. DropsWith(w, f)
        BY <1>3, <2>3
      <3>2. DependsOn[f] \in Written(w) /\ txJobs[w][f] = "failed_terminal"
            /\ txJobs[w][j] = "failed_terminal"
        BY <3>1 DEF DropsWith
      <3>3. DependsOn[f] \in Files
        BY <1>1, <1>2, <3>2, NamesAssumption DEF Jobs
      <3>4. txJobs[w][DependsOn[f]] = "failed_terminal"
        BY <1>3, <3>2, <3>3 DEF DropsWith
      <3> QED BY <1>1, <2>3, <3>2, <3>4 DEF Committed
    <2> QED BY <2>1, <2>2, <2>3
  <1>7. DependsOn[f] # None /\ jobStatus'[DependsOn[f]] = "failed_terminal" =>
          jobStatus'[f] = "failed_terminal"
    <2> SUFFICES ASSUME DependsOn[f] # None, jobStatus'[DependsOn[f]] = "failed_terminal"
                 PROVE  jobStatus'[f] = "failed_terminal"
      OBVIOUS
    <2>1. DependsOn[f] \in Files /\ DependsOn[f] \in Jobs
      BY <1>1 DEF Jobs
    <2>2. CASE DependsOn[f] \in Written(w)
      <3>1. txJobs[w][DependsOn[f]] = "failed_terminal"
        BY <1>1, <2>2 DEF Committed
      <3>2. f \in Written(w) /\ txJobs[w][f] = "failed_terminal"
        BY <1>1, <2>2, <3>1 DEF WorkerInv, DropsAreClosed
      <3> QED BY <1>1, <3>2 DEF Committed
    <2>3. CASE DependsOn[f] \notin Written(w)
      <3>1. jobStatus[f] = "failed_terminal"
        BY <1>1, <2>1, <2>3 DEF Committed, FileInv
      <3> QED BY <1>1, <3>1, EndedStays DEF TerminalStatuses
    <2> QED BY <2>2, <2>3
  <1> QED BY <1>5, <1>6, <1>7 DEF FileInv

(* A finalize job is committed only above finished files.                  *)
LEMMA CommitKeepsFinalize ==
  ASSUME RunnerInv, NEW w \in Workers, Commit(w), NEW b \in Bundles
  PROVE  FinalizeInv(b)'
PROOF
  <1> DEFINE j == held[w]
  <1>1. /\ FinalizeInv(b) /\ Committed(w) /\ b \in Jobs /\ b \notin Files
        /\ \A i \in Jobs : jobStatus'[i] = JobsSeen(w)[i]
    BY CommitStatuses, NamesAssumption DEF RunnerInv, Jobs
  <1>2. /\ j \in Jobs /\ j \in Written(w)
        /\ \/ Claims(w, j)
           \/ jobStatus[j] = "running" /\ txJobs[w][j] \in {"queued"} \cup TerminalStatuses
        /\ \A i \in Written(w) :
             /\ i \in Jobs /\ txJobs[w][i] # "failed_retriable"
             /\ i = j \/ DropsWith(w, i) \/ Inserts(w, i)
    BY CommitWrites DEF Commit
  <1>3. jobStatus'[b] \in {"absent", "queued", "running"} \cup TerminalStatuses
    BY <1>1, <1>2 DEF Committed, FinalizeInv, Claims, DropsWith, Inserts
  <1>4. jobStatus[b] # "absent" => BarrierMet(jobStatus, b)'
    BY <1>1, BarrierStays DEF FinalizeInv
  <1>5. Inserts(w, b) => BarrierMet(jobStatus, b)'
    <2>1. \A f \in FilesOf(b) : jobStatus'[f] = JobsSeen(w)[f]
      BY <1>1 DEF FilesOf, Jobs
    <2>2. FileStatuses(jobStatus, b)' = FileStatuses(JobsSeen(w), b)
      BY <2>1 DEF FileStatuses
    <2> QED BY <2>2 DEF Inserts, BarrierMet
  <1>6. jobStatus[b] = "absent" /\ jobStatus'[b] # "absent" => Inserts(w, b)
    BY <1>1, <1>2 DEF Committed, Claims, DropsWith
  <1> QED BY <1>3, <1>4, <1>5, <1>6 DEF FinalizeInv

(* A commit keeps the tables within their domains.                         *)
LEMMA CommitTypes ==
  ASSUME RunnerInv, NEW w \in Workers, Commit(w)
  PROVE  TypeOK'
PROOF
  <1> DEFINE j == held[w]
             claimed == txJobs[w][j] = "running"
  <1>1. /\ TypeOK /\ w \in Sessions /\ j \in Jobs
        /\ jobStatus' \in [Jobs -> JobStatuses \cup {"absent"}]
    BY CommitStatuses, CommitWrites DEF RunnerInv, Sessions, Commit
  <1>2. bundleRow' \in [Bundles -> BundleRows]
    <2>1. bundleRow' = Over(txRow[w], bundleRow)
      BY DEF Commit
    <2>2. DOMAIN txRow[w] \cup DOMAIN bundleRow = Bundles /\ DOMAIN bundleRow = Bundles
      BY <1>1 DEF TypeOK
    <2>3. bundleRow' = [k \in Bundles |-> IF k \in DOMAIN txRow[w] THEN txRow[w][k] ELSE bundleRow[k]]
      BY <2>1, <2>2 DEF Over
    <2>4. \A k \in Bundles :
            (IF k \in DOMAIN txRow[w] THEN txRow[w][k] ELSE bundleRow[k]) \in BundleRows
      BY <1>1 DEF TypeOK
    <2> QED BY <2>3, <2>4
  <1>3. attempts' \in [Jobs -> Nat]
    <2>1. attempts \in [Jobs -> Nat]
      BY <1>1 DEF TypeOK
    <2>2. attempts' = IF claimed THEN [attempts EXCEPT ![j] = @ + 1] ELSE attempts
      BY DEF Commit
    <2> QED BY <1>1, <2>1, <2>2
  <1>4. materialized' \in [Bundles -> SUBSET Files]
    <2>1. seen[w].loaded \in SUBSET Files /\ materialized \in [Bundles -> SUBSET Files]
      BY <1>1 DEF TypeOK
    <2>2. \/ materialized' = materialized
          \/ j \in Bundles /\ materialized' = [materialized EXCEPT ![j] = seen[w].loaded]
      BY DEF Commit
    <2> QED BY <2>1, <2>2
  <1>5. \A p \in Sessions :
          /\ DOMAIN txJobs'[p] \subseteq Jobs /\ txJobs'[p] \in [DOMAIN txJobs'[p] -> JobStatuses]
          /\ DOMAIN txRow'[p] \subseteq Bundles /\ txRow'[p] \in [DOMAIN txRow'[p] -> BundleRows]
    <2>1. txJobs' = [txJobs EXCEPT ![w] = Empty] /\ txRow' = [txRow EXCEPT ![w] = Empty]
      BY DEF Commit
    <2>2. DOMAIN Empty = {} /\ Empty \in [{} -> JobStatuses] /\ Empty \in [{} -> BundleRows]
      BY DEF Empty
    <2> TAKE p \in Sessions
    <2>3. CASE p = w
      <3>1. txJobs'[p] = Empty /\ txRow'[p] = Empty
        BY <1>1, <2>1, <2>3 DEF TypeOK
      <3> QED BY <2>2, <3>1
    <2>4. CASE p # w
      <3>1. txJobs'[p] = txJobs[p] /\ txRow'[p] = txRow[p]
        BY <1>1, <2>1, <2>4 DEF TypeOK
      <3> QED BY <1>1, <3>1 DEF TypeOK, Written
    <2> QED BY <2>3, <2>4
  <1>6. /\ DOMAIN txJobs' = Sessions /\ DOMAIN txRow' = Sessions
        /\ script' \in [Sessions -> Seq(Statements)] /\ held' \in [Sessions -> Jobs \cup {None}]
    <2>1. <<>> \in Seq(Statements)
      BY EmptySeq
    <2> QED BY <1>1, <2>1 DEF TypeOK, Commit
  <1>7. seen' \in [Sessions -> [stored : BundleRows \cup {None}, derived : BundleStatuses,
                                loaded : SUBSET Files]]
    <2>1. NothingSeen \in [stored : BundleRows \cup {None}, derived : BundleStatuses,
                           loaded : SUBSET Files]
      BY DEF NothingSeen, BundleStatuses
    <2>2. seen' = [seen EXCEPT ![w] = NothingSeen]
      BY DEF Commit
    <2> HIDE DEF NothingSeen
    <2> QED BY <1>1, <2>1, <2>2 DEF TypeOK
  <1>8. UNCHANGED <<stopped, crashes, reads>>
    BY DEF Commit
  <1> QED BY <1>1, <1>2, <1>3, <1>4, <1>5, <1>6, <1>7, <1>8 DEF TypeOK, Written

(* The commit: the one statement that others see.                          *)
LEMMA CommitKeeps ==
  ASSUME RunnerInv, NEW w \in Workers, Commit(w)
  PROVE  RunnerInv'
PROOF
  <1> DEFINE j == held[w]
             claimed == txJobs[w][j] = "running"
  <1>1. /\ TypeOK /\ w \in Sessions /\ w \notin Readers /\ At(w, "commit") /\ Committed(w)
        /\ script[w] # <<>>
    BY SessionsAssumption, CommitStatuses DEF RunnerInv, Sessions, Commit, At
  <1>2. /\ j \in Jobs /\ j \in Written(w) /\ j # None
        /\ \/ Claims(w, j)
           \/ jobStatus[j] = "running" /\ txJobs[w][j] \in {"queued"} \cup TerminalStatuses
        /\ \A i \in Written(w) : i = j \/ DropsWith(w, i) \/ Inserts(w, i)
    BY <1>1, CommitWrites, NamesAssumption DEF Jobs
  <1>3. /\ held' = IF claimed THEN held ELSE [held EXCEPT ![w] = None]
        /\ txJobs' = [txJobs EXCEPT ![w] = Empty] /\ txRow' = [txRow EXCEPT ![w] = Empty]
        /\ script' = [script EXCEPT ![w] = <<>>] /\ seen' = [seen EXCEPT ![w] = NothingSeen]
        /\ UNCHANGED <<stopped, crashes, reads>>
    BY DEF Commit
  <1>4. /\ held'[w] = IF claimed THEN j ELSE None
        /\ txJobs'[w] = Empty /\ txRow'[w] = Empty /\ script'[w] = <<>>
        /\ \A q \in Sessions \ {w} : Untouched(q)
    BY <1>1, <1>3 DEF TypeOK, Untouched
  <1>5. Written(w)' = {} /\ DOMAIN txRow'[w] = {}
    BY <1>4, EmptyRows DEF Written
  <1>6. claimed <=> Claims(w, j)
    BY <1>2 DEF Claims, TerminalStatuses
  <1>7. claimed => jobStatus'[j] = "running"
    BY <1>1, <1>2 DEF Committed
  <1>8. WorkerInv(w)'
    <2>1. ~HasRetry(script'[w])
      BY <1>4, EmptySeq DEF HasRetry
    <2>2. InProgram(w)' /\ InTransaction(w)' /\ RetryPending(w)'
      BY <1>4, <1>5, <1>7, <2>1 DEF InProgram, InTransaction, RetryPending
    <2>3. DropsAreClosed(w)' /\ StillDue(w)' /\ StillCovers(w)'
      BY <1>4, <1>5 DEF DropsAreClosed, StillDue, StillCovers, At
    <2> QED BY <2>2, <2>3 DEF WorkerInv
  <1>9. \A v \in Workers : WorkerInv(v)'
    BY <1>4, <1>8, CommitLeavesOthers DEF Sessions
  <1>10. \A r \in Readers : ReaderInv(r)'
    BY <1>1, <1>4, UntouchedReader DEF RunnerInv, Sessions
  <1>11. LocksExclude'
    <2>1. \A q \in Sessions \ {w} : Written(q)' = Written(q) /\ txRow'[q] = txRow[q]
      BY <1>4 DEF Untouched, Written
    <2> QED BY <1>5, <2>1 DEF RunnerInv, LocksExclude
  <1>12. ExclusiveClaim'
    <2>1. \A v \in Workers \ {w} : held'[v] = held[v]
      BY <1>4 DEF Untouched, Sessions
    <2> QED BY <1>4, <2>1 DEF RunnerInv, ExclusiveClaim
  <1>13. DrainInv'
    <2>1. DrainInv /\ w \notin stopped /\ stopped \subseteq Workers
      BY <1>1, BusyHasNotLeft DEF RunnerInv, TypeOK
    <2>2. \A v \in stopped' : Idle(v)'
      BY <1>3, <1>4, <2>1 DEF DrainInv, Idle, Untouched, Sessions
    <2>3. ASSUME crashes' = 0, NEW i \in Jobs, jobStatus'[i] = "running"
          PROVE  \E v \in Workers : held'[v] = i
      <3>1. CASE i = j
        <4>1. claimed
          BY <1>1, <1>2, <2>3, <3>1 DEF Committed, TerminalStatuses
        <4> QED BY <1>4, <3>1, <4>1
      <3>2. CASE i # j
        <4>1. i \notin Written(w)
          BY <1>1, <1>2, <2>3, <3>2 DEF Committed, DropsWith, Inserts
        <4>2. PICK v \in Workers : held[v] = i
          BY <1>1, <1>3, <2>1, <2>3, <4>1 DEF Committed, DrainInv
        <4>3. v # w
          BY <3>2, <4>2
        <4> QED BY <1>4, <4>2, <4>3 DEF Untouched, Sessions
      <3> QED BY <3>1, <3>2
    <2>4. DrainCompletes'
      BY <1>3, <2>1 DEF DrainCompletes
    <2> QED BY <2>2, <2>3, <2>4 DEF DrainInv
  <1>14. TypeOK'
    BY CommitTypes
  <1>15. \A f \in Files : FileInv(f)'
    BY CommitKeepsFiles
  <1>16. \A b \in Bundles : FinalizeInv(b)'
    BY CommitKeepsFinalize
  <1> QED BY <1>9, <1>10, <1>11, <1>12, <1>13, <1>14, <1>15, <1>16 DEF RunnerInv

-----------------------------------------------------------------------------
(* The invariant.                                                          *)

(* The bundles as enqueued.                                                *)
LEMMA InitRunner == Init => RunnerInv
PROOF
  <1> SUFFICES ASSUME Init
               PROVE  RunnerInv
    OBVIOUS
  <1>1. /\ \A p \in Sessions : /\ txJobs[p] = Empty /\ txRow[p] = Empty
                               /\ script[p] = <<>> /\ held[p] = None
        /\ \A f \in Files : jobStatus[f] = "queued"
        /\ \A b \in Bundles : jobStatus[b] = "absent"
        /\ stopped = {} /\ crashes = 0
    BY NamesAssumption DEF Init, Jobs
  <1>2. \A p \in Sessions : Written(p) = {} /\ DOMAIN txRow[p] = {}
    BY <1>1, EmptyRows DEF Written
  <1>3. TypeOK
    <2>1. jobStatus \in [Jobs -> JobStatuses \cup {"absent"}] /\ attempts \in [Jobs -> Nat]
      BY DEF Init, JobStatuses
    <2>2. bundleRow \in [Bundles -> BundleRows] /\ materialized \in [Bundles -> SUBSET Files]
      BY DEF Init, BundleRows, BundleStatuses
    <2>3. \A p \in Sessions :
            /\ txJobs[p] \in [Written(p) -> JobStatuses]
            /\ txRow[p] \in [DOMAIN txRow[p] -> BundleRows]
      BY <1>1 DEF Empty, Written
    <2>4. script \in [Sessions -> Seq(Statements)]
      BY EmptySeq DEF Init
    <2>5. seen \in [Sessions -> [stored : BundleRows \cup {None}, derived : BundleStatuses,
                                 loaded : SUBSET Files]]
      BY DEF Init, NothingSeen, BundleStatuses
    <2> QED BY <1>1, <1>2, <2>1, <2>2, <2>3, <2>4, <2>5 DEF TypeOK, Init
  <1>4. ASSUME NEW w \in Workers
        PROVE  WorkerInv(w)
    <2>1. w \in Sessions
      BY DEF Sessions
    <2>2. ~HasRetry(script[w])
      BY <1>1, <2>1, EmptySeq DEF HasRetry
    <2>3. InProgram(w) /\ InTransaction(w) /\ RetryPending(w)
      BY <1>1, <1>2, <2>1, <2>2 DEF InProgram, InTransaction, RetryPending
    <2>4. DropsAreClosed(w) /\ StillDue(w) /\ StillCovers(w)
      BY <1>1, <1>2, <2>1 DEF DropsAreClosed, StillDue, StillCovers, At
    <2> QED BY <2>3, <2>4 DEF WorkerInv
  <1>5. \A r \in Readers : ReaderInv(r)
    BY <1>1, <1>2, EmptySeq DEF ReaderInv, Sessions
  <1>6. LocksExclude /\ ExclusiveClaim
    BY <1>1, <1>2 DEF LocksExclude, ExclusiveClaim, Sessions
  <1>7. \A f \in Files : FileInv(f)
    BY <1>1, DependsOnAssumption DEF FileInv
  <1>8. \A b \in Bundles : FinalizeInv(b)
    BY <1>1 DEF FinalizeInv
  <1>9. DrainInv
    BY <1>1, SessionsAssumption DEF DrainInv, DrainCompletes, Jobs
  <1> QED BY <1>3, <1>4, <1>5, <1>6, <1>7, <1>8, <1>9 DEF RunnerInv

(* A web request only refreshes.                                           *)
LEMMA ReadersOnlyRead ==
  ASSUME RunnerInv, NEW r \in Readers, script[r] # <<>>
  PROVE  Head(script[r]) \in RefreshStatements
PROOF
  <1>1. script[r] \in Seq(Statements) /\ ReaderInv(r)
    BY DEF RunnerInv, TypeOK, Sessions
  <1>2. Len(script[r]) \in Nat /\ Len(script[r]) > 0 /\ Head(script[r]) = script[r][1]
    BY <1>1, RestOf
  <1>3. 1 \in 1..Len(script[r])
    BY <1>2
  <1> QED BY <1>1, <1>2, <1>3 DEF ReaderInv

(* Every step of the sessions.                                             *)
LEMMA StepRunner ==
  ASSUME RunnerInv, [Next]_vars
  PROVE  RunnerInv'
PROOF
  <1>1. ASSUME NEW p \in Sessions, Statement(p)
        PROVE  RunnerInv'
    <2>1. CASE ReadStored(p) \/ ReadCounts(p)
      BY <2>1, ReadStoredKeeps, ReadCountsKeeps
    <2>2. CASE StoreStatus(p)
      BY <2>2, StoreStatusKeeps DEF StoreStatus
    <2>3. CASE StoreDerived(p)
      BY <2>3, StoreDerivedKeeps DEF StoreDerived
    <2>4. CASE Retry(p) \/ CheckDue(p) \/ InsertFinalize(p) \/ StoreFinalizing(p) \/ Commit(p)
      <3>1. script[p] # <<>> /\ Head(script[p]) \notin RefreshStatements
        BY <2>4 DEF Retry, CheckDue, InsertFinalize, StoreFinalizing, Commit, At, RefreshStatements
      <3>2. p \in Workers
        BY <3>1, ReadersOnlyRead DEF Sessions
      <3> QED BY <2>4, <3>2, RetryKeeps, CheckDueKeeps, InsertKeeps, StoreFinalizingKeeps, CommitKeeps
    <2> QED BY <1>1, <2>1, <2>2, <2>3, <2>4 DEF Statement
  <1>2. ASSUME NEW w \in Workers, Claim(w) \/ Stop(w) \/ Succeed(w) \/ Crash(w)
        PROVE  RunnerInv'
    BY <1>2, ClaimKeeps, StopKeeps, SucceedKeeps, CrashKeeps
  <1>3. ASSUME NEW w \in Workers, NEW disposition \in {"failed_retriable", "failed_terminal"},
               Fail(w, disposition)
        PROVE  RunnerInv'
    BY <1>3, FailKeeps
  <1>4. ASSUME NEW r \in Readers, NEW b \in Bundles, LoadSnapshot(r, b)
        PROVE  RunnerInv'
    BY <1>4, LoadSnapshotKeeps
  <1>5. CASE UNCHANGED vars
    <2>1. TypeOK' /\ DrainInv'
      BY <1>5 DEF RunnerInv, TypeOK, DrainInv, DrainCompletes, Idle, Written, vars
    <2>2. \A q \in Sessions : Untouched(q)
      BY <1>5 DEF Untouched, vars
    <2>3. PICK w \in Workers : TRUE
      BY SessionsAssumption
    <2>4. w \in Sessions /\ w \notin Readers /\ WorkerInv(w)'
      BY <1>5, <2>2, SessionsAssumption, UntouchedWorker DEF RunnerInv, Sessions, vars
    <2>5. LocksExclude /\ Written(w)' = Written(w)
      BY <1>5 DEF RunnerInv, Written, vars
    <2> QED BY <1>5, <2>1, <2>2, <2>4, <2>5, PrivateStep DEF LocksExclude, vars
  <1> QED BY <1>1, <1>2, <1>3, <1>4, <1>5, DrainKeeps DEF Next

(* The inductive invariant of the interleaved transactions.                *)
THEOREM RunnerInvariance == Spec => []RunnerInv
BY InitRunner, StepRunner, PTL DEF Spec

(* Two workers never hold one job, although each claims on rows the others *)
(* may have written and not yet committed.                                 *)
THEOREM RunnerClaimsAreExclusive == Spec => []ExclusiveClaim
PROOF
  <1>1. RunnerInv => ExclusiveClaim
    BY DEF RunnerInv
  <1> QED BY <1>1, RunnerInvariance, PTL

(* A worker that decided to insert a finalize job never runs into one      *)
(* another worker inserted, so the unique index aborts no transaction.     *)
THEOREM InsertsNeverCollide == Spec => []OneFinalizeInsert
PROOF
  <1>1. ASSUME RunnerInv
        PROVE  OneFinalizeInsert
    <2> SUFFICES ASSUME NEW w \in Workers, At(w, "insertFinalize")
                 PROVE  jobStatus[Subject(w)] = "absent" /\ ~JobLocked(Subject(w))
      BY DEF OneFinalizeInsert
    <2>1. jobStatus[Subject(w)] = "absent"
      BY <1>1 DEF RunnerInv, WorkerInv, StillDue
    <2>2. ~JobLocked(Subject(w))
      BY <1>1, InsertIsAlone DEF JobLocked, Written
    <2> QED BY <2>1, <2>2
  <1> QED BY <1>1, RunnerInvariance, PTL

(* No session waits for one that waits: a transaction locks the row of one *)
(* bundle only, so the one that is waited for would wait for the row it    *)
(* holds itself, and an insert waits for nobody.                           *)
THEOREM LocksNeverCycle == Spec => []NoLockCycle
PROOF
  <1>1. ASSUME RunnerInv
        PROVE  NoLockCycle
    <2> SUFFICES ASSUME NEW p \in Sessions, NEW q \in Sessions, NEW r \in Sessions,
                        Waits(p, q), Waits(q, r)
                 PROVE  FALSE
      BY DEF NoLockCycle
    <2>1. ASSUME NEW x \in Sessions, NEW y \in Sessions, Waits(x, y)
          PROVE  Subject(x) \in DOMAIN txRow[y] /\ Subject(x) = Subject(y)
      <3>1. ~(At(x, "insertFinalize") /\ Subject(x) \in DOMAIN txJobs[y])
        <4> SUFFICES ASSUME At(x, "insertFinalize"), Subject(x) \in Written(y)
                     PROVE  FALSE
          BY DEF Written
        <4>1. x \in Workers
          BY <1>1, ReadersOnlyRead DEF At, RefreshStatements, Sessions
        <4> QED BY <1>1, <4>1, InsertIsAlone
      <3>2. Subject(x) \in DOMAIN txRow[y]
        BY <2>1, <3>1 DEF Waits
      <3>3. y \in Workers
        BY <1>1, <3>2 DEF RunnerInv, ReaderInv, Sessions
      <3>4. InTransaction(y)
        BY <1>1, <3>3 DEF RunnerInv, WorkerInv
      <3> QED BY <3>2, <3>4 DEF InTransaction
    <2>2. q # r
      BY DEF Waits
    <2>3. Subject(q) \in DOMAIN txRow[q] \cap DOMAIN txRow[r]
      BY <2>1
    <2> QED BY <1>1, <2>2, <2>3 DEF RunnerInv, LocksExclude
  <1> QED BY <1>1, RunnerInvariance, PTL

(* When the workers have left their loops and none crashed, every job has  *)
(* ended: nobody left a file behind that became claimable too late.        *)
THEOREM DrainedQueueIsComplete == Spec => []DrainCompletes
PROOF
  <1>1. RunnerInv => DrainCompletes
    BY DEF RunnerInv, DrainInv
  <1> QED BY <1>1, RunnerInvariance, PTL

-----------------------------------------------------------------------------
(* The promise of BundleImport.                                            *)

(* What became of a file, and of the refresh of a bundle, by the committed *)
(* status of its job.                                                      *)
FileFate(status) ==
  CASE status = "succeeded" -> "imported"
    [] status = "failed_terminal" -> "dropped"
    [] OTHER -> "pending"
RefreshFate(status) ==
  CASE status = "succeeded" -> "done"
    [] status = "failed_terminal" -> "abandoned"
    [] OTHER -> "pending"

(* The fates BundleImport speaks of, read off the committed job table.     *)
LEMMA FatesByStatus ==
  /\ ImportOutcome = [f \in Files |-> FileFate(jobStatus[f])]
  /\ ImportOutcome' = [f \in Files |-> FileFate(jobStatus'[f])]
  /\ RefreshOutcome = [b \in Bundles |-> RefreshFate(jobStatus[b])]
  /\ RefreshOutcome' = [b \in Bundles |-> RefreshFate(jobStatus'[b])]
PROOF
  <1>1. ImportOutcome = [f \in Files |-> FileFate(jobStatus[f])]
    BY DEF ImportOutcome, FileFate
  <1>2. ImportOutcome' = [f \in Files |-> FileFate(jobStatus'[f])]
    BY DEF ImportOutcome, FileFate
  <1>3. RefreshOutcome = [b \in Bundles |-> RefreshFate(jobStatus[b])]
    BY DEF RefreshOutcome, RefreshFate
  <1>4. RefreshOutcome' = [b \in Bundles |-> RefreshFate(jobStatus'[b])]
    BY DEF RefreshOutcome, RefreshFate
  <1> QED BY <1>1, <1>2, <1>3, <1>4

(* The enqueued bundles are initial in BundleImport.                       *)
LEMMA InitPromise == Init => Promise!Init
PROOF
  <1> SUFFICES ASSUME Init
               PROVE  Promise!Init
    OBVIOUS
  <1>1. /\ \A f \in Files : jobStatus[f] = "queued"
        /\ \A b \in Bundles : jobStatus[b] = "absent"
    BY NamesAssumption DEF Init, Jobs
  <1>2. ImportOutcome = [f \in Files |-> "pending"]
    BY <1>1, FatesByStatus DEF FileFate
  <1>3. RefreshOutcome = [b \in Bundles |-> "pending"]
    BY <1>1, FatesByStatus DEF RefreshFate
  <1> QED BY <1>2, <1>3 DEF Init, Promise!Init

(* A step that leaves the fates alone is a stutter of the promise.         *)
LEMMA StutterPromise ==
  ASSUME UNCHANGED materialized,
         \A f \in Files : FileFate(jobStatus'[f]) = FileFate(jobStatus[f]),
         \A b \in Bundles : RefreshFate(jobStatus'[b]) = RefreshFate(jobStatus[b])
  PROVE  UNCHANGED Promise!vars
PROOF
  <1>1. ImportOutcome' = ImportOutcome
    BY FatesByStatus
  <1>2. RefreshOutcome' = RefreshOutcome
    BY FatesByStatus
  <1> QED BY <1>1, <1>2 DEF Promise!vars

(* The statuses a commit may write beside that of the worker's own job.    *)
LEMMA CommitBeside ==
  ASSUME RunnerInv, NEW w \in Workers, Commit(w), NEW i \in Written(w), i # held[w]
  PROVE  /\ held[w] \in Files /\ txJobs[w][held[w]] # "running"
         /\ \/ /\ i \in Files /\ jobStatus[i] = "queued" /\ DependsOn[i] \in Written(w)
               /\ txJobs[w][i] = "failed_terminal" /\ txJobs[w][held[w]] = "failed_terminal"
            \/ i \in Bundles /\ jobStatus[i] = "absent" /\ txJobs[w][i] = "queued"
PROOF
  <1>1. /\ DropsWith(w, i) \/ Inserts(w, i)
        /\ \/ Claims(w, held[w])
           \/ txJobs[w][held[w]] \in {"queued"} \cup TerminalStatuses
    BY CommitWrites DEF Commit
  <1>2. ~Claims(w, held[w])
    BY DEF Claims
  <1> QED BY <1>1, <1>2, BundleOfAssumption DEF DropsWith, Inserts, TerminalStatuses

(* The end of a file job imports the file, drops it with all that waits    *)
(* for it, or leaves its fate open.                                        *)
LEMMA FileCommit ==
  ASSUME RunnerInv, NEW w \in Workers, Commit(w), NEW j \in Files, held[w] = j,
         jobStatus[j] = "running", txJobs[w][j] \in {"queued"} \cup TerminalStatuses
  PROVE  Promise!Next \/ UNCHANGED Promise!vars
PROOF
  <1>1. /\ Committed(w) /\ j \in Jobs /\ Files \subseteq Jobs /\ Bundles \subseteq Jobs
        /\ j \in Written(w) /\ WorkerInv(w) /\ j \notin Bundles
    BY CommitStatuses, CommitWrites, NamesAssumption DEF Jobs, Commit, RunnerInv
  <1>2. UNCHANGED materialized
    BY <1>1 DEF Commit
  <1>3. \A b \in Bundles : RefreshFate(jobStatus'[b]) = RefreshFate(jobStatus[b])
    BY <1>1, CommitBeside, NamesAssumption DEF Committed, RefreshFate
  <1>4. CASE txJobs[w][j] = "queued"
    <2>1. \A f \in Files : FileFate(jobStatus'[f]) = FileFate(jobStatus[f])
      BY <1>1, <1>4, CommitBeside, NamesAssumption DEF Committed, FileFate
    <2> QED BY <1>2, <1>3, <2>1, StutterPromise
  <1>5. CASE txJobs[w][j] = "succeeded"
    <2>1. jobStatus'[j] = "succeeded" /\ \A f \in Files \ {j} : jobStatus'[f] = jobStatus[f]
      BY <1>1, <1>5, CommitBeside, NamesAssumption DEF Committed
    <2>2. ImportOutcome[j] = "pending"
      BY FatesByStatus DEF FileFate
    <2>3. DependsOn[j] # None => ImportOutcome[DependsOn[j]] = "imported"
      <3> SUFFICES ASSUME DependsOn[j] # None
                   PROVE  ImportOutcome[DependsOn[j]] = "imported"
        OBVIOUS
      <3>1. DependsOn[j] \in Files /\ jobStatus[DependsOn[j]] = "succeeded"
        BY DependsOnAssumption DEF RunnerInv, FileInv, Unblocked
      <3> QED BY <3>1, FatesByStatus DEF FileFate
    <2>4. ImportOutcome' = [ImportOutcome EXCEPT ![j] = "imported"]
      BY <2>1, FatesByStatus DEF FileFate
    <2>5. RefreshOutcome' = RefreshOutcome
      BY <1>3, FatesByStatus
    <2>6. Promise!Import(j)
      BY <1>2, <2>2, <2>3, <2>4, <2>5 DEF Promise!Import
    <2> QED BY <2>6 DEF Promise!Next
  <1>6. CASE txJobs[w][j] = "failed_terminal"
    <2> DEFINE S == Written(w) \cap Files
    <2>1. S \in SUBSET Files /\ S # {}
      BY <1>1
    <2>2. \A f \in S : txJobs[w][f] = "failed_terminal" /\ jobStatus[f] \in {"queued", "running"}
      BY <1>6, CommitBeside, NamesAssumption
    <2>3. \A f \in S : ImportOutcome[f] = "pending"
      BY <2>2, FatesByStatus DEF FileFate
    <2>4. \A f \in Files : DependsOn[f] \in S => f \in S
      BY <1>1, <2>2 DEF WorkerInv, DropsAreClosed
    <2>5. \A f \in Files : jobStatus'[f] = IF f \in S THEN "failed_terminal" ELSE jobStatus[f]
      BY <1>1, <2>2 DEF Committed
    <2> HIDE DEF S
    <2>6. ImportOutcome' = [f \in Files |-> IF f \in S THEN "dropped" ELSE ImportOutcome[f]]
      BY <2>5, FatesByStatus DEF FileFate
    <2>7. RefreshOutcome' = RefreshOutcome
      BY <1>3, FatesByStatus
    <2>8. Promise!Drop(S)
      BY <1>2, <2>1, <2>3, <2>4, <2>6, <2>7 DEF Promise!Drop
    <2> QED BY <2>1, <2>8 DEF Promise!Next
  <1> QED BY <1>4, <1>5, <1>6 DEF TerminalStatuses

(* The end of a finalize job refreshes its bundle from the files that were *)
(* imported, gives the refresh up, or leaves it due.                       *)
LEMMA FinalizeCommit ==
  ASSUME RunnerInv, NEW w \in Workers, Commit(w), NEW j \in Bundles, held[w] = j,
         jobStatus[j] = "running", txJobs[w][j] \in {"queued"} \cup TerminalStatuses
  PROVE  Promise!Next \/ UNCHANGED Promise!vars
PROOF
  <1>1. /\ Committed(w) /\ j \in Jobs /\ Files \subseteq Jobs /\ Bundles \subseteq Jobs
        /\ j \in Written(w) /\ WorkerInv(w) /\ j \notin Files /\ script[w] # <<>>
    BY CommitStatuses, CommitWrites, NamesAssumption DEF Jobs, Commit, RunnerInv, At
  <1>2. /\ jobStatus'[j] = txJobs[w][j]
        /\ \A i \in Jobs \ {j} : jobStatus'[i] = jobStatus[i]
    BY <1>1, CommitBeside DEF Committed
  <1>3. ImportOutcome' = ImportOutcome
    BY <1>1, <1>2, FatesByStatus
  <1>4. Promise!RefreshDue(j) /\ Promise!Imported(j) = Imported(j)
    <2>1. Promise!FilesOf(j) = FilesOf(j) /\ FilesOf(j) \subseteq Files
      BY DEF FilesOf, Promise!FilesOf
    <2>2. RefreshOutcome[j] = "pending"
      BY FatesByStatus DEF RefreshFate
    <2>3. /\ \A f \in FilesOf(j) : jobStatus[f] \in TerminalStatuses
          /\ \E f \in FilesOf(j) : jobStatus[f] = "succeeded"
      BY DEF RunnerInv, FinalizeInv, BarrierMet, FileStatuses
    <2>4. \A f \in FilesOf(j) : ImportOutcome[f] = FileFate(jobStatus[f])
      BY <2>1, FatesByStatus
    <2>5. Promise!Decided(j)
      BY <2>1, <2>3, <2>4 DEF Promise!Decided, FileFate, TerminalStatuses
    <2>6. \A f \in FilesOf(j) : ImportOutcome[f] = "imported" <=> jobStatus[f] = "succeeded"
      BY <2>4 DEF FileFate
    <2>7. Promise!Imported(j) = Imported(j)
      BY <2>1, <2>6 DEF Promise!Imported, Imported
    <2>8. Promise!Imported(j) # {}
      BY <2>1, <2>3, <2>6 DEF Promise!Imported
    <2> QED BY <2>2, <2>5, <2>7, <2>8 DEF Promise!RefreshDue
  <1>5. CASE txJobs[w][j] = "queued"
    <2>1. UNCHANGED materialized
      BY <1>5 DEF Commit
    <2> QED BY <1>1, <1>2, <1>5, <2>1, StutterPromise DEF RefreshFate
  <1>6. CASE txJobs[w][j] = "failed_terminal"
    <2>1. UNCHANGED materialized
      BY <1>6 DEF Commit
    <2>2. RefreshOutcome' = [RefreshOutcome EXCEPT ![j] = "abandoned"]
      BY <1>1, <1>2, <1>6, FatesByStatus DEF RefreshFate
    <2>3. Promise!GiveUp(j)
      BY <1>3, <1>4, <2>1, <2>2 DEF Promise!GiveUp
    <2> QED BY <2>3 DEF Promise!Next
  <1>7. CASE txJobs[w][j] = "succeeded"
    <2>1. seen[w].loaded = Imported(j)
      BY <1>1, <1>7 DEF WorkerInv, StillCovers
    <2>2. materialized' = [materialized EXCEPT ![j] = Imported(j)]
      BY <1>7, <2>1 DEF Commit
    <2>3. RefreshOutcome' = [RefreshOutcome EXCEPT ![j] = "done"]
      BY <1>1, <1>2, <1>7, FatesByStatus DEF RefreshFate
    <2>4. Promise!Refresh(j)
      BY <1>3, <1>4, <2>2, <2>3 DEF Promise!Refresh
    <2> QED BY <2>4 DEF Promise!Next
  <1> QED BY <1>5, <1>6, <1>7 DEF TerminalStatuses

(* A commit is a step of BundleImport, or it claims or requeues a job and  *)
(* changes nothing there.                                                  *)
LEMMA CommitPromise ==
  ASSUME RunnerInv, NEW w \in Workers, Commit(w)
  PROVE  [Promise!Next]_(Promise!vars)
PROOF
  <1> DEFINE j == held[w]
  <1>1. /\ Committed(w) /\ j \in Jobs /\ j \in Written(w)
        /\ \/ Claims(w, j)
           \/ jobStatus[j] = "running" /\ txJobs[w][j] \in {"queued"} \cup TerminalStatuses
    BY CommitStatuses, CommitWrites DEF Commit
  <1>2. CASE Claims(w, j)
    <2>1. /\ jobStatus[j] = "queued" /\ jobStatus'[j] = "running"
          /\ \A i \in Jobs \ {j} : jobStatus'[i] = jobStatus[i]
      BY <1>1, <1>2 DEF Claims, Committed
    <2>2. UNCHANGED materialized
      BY <1>2 DEF Claims, Commit
    <2>3. \A i \in Jobs : /\ FileFate(jobStatus'[i]) = FileFate(jobStatus[i])
                          /\ RefreshFate(jobStatus'[i]) = RefreshFate(jobStatus[i])
      BY <2>1 DEF FileFate, RefreshFate
    <2> QED BY <2>2, <2>3, StutterPromise DEF Jobs
  <1>3. CASE jobStatus[j] = "running" /\ txJobs[w][j] \in {"queued"} \cup TerminalStatuses
    <2>1. j \in Files \/ j \in Bundles
      BY <1>1 DEF Jobs
    <2> QED BY <1>3, <2>1, FileCommit, FinalizeCommit
  <1> QED BY <1>1, <1>2, <1>3

(* No other statement changes anything in BundleImport.                    *)
LEMMA StepPromise ==
  ASSUME RunnerInv, [Next]_vars
  PROVE  [Promise!Next]_(Promise!vars)
PROOF
  <1>1. ASSUME UNCHANGED <<jobStatus, materialized>>
        PROVE  UNCHANGED Promise!vars
    BY <1>1, StutterPromise
  <1>2. ASSUME NEW p \in Sessions, Statement(p)
        PROVE  [Promise!Next]_(Promise!vars)
    <2>1. CASE Commit(p)
      <3>1. script[p] # <<>> /\ Head(script[p]) = "commit"
        BY <2>1 DEF Commit, At
      <3>2. p \in Workers
        BY <3>1, ReadersOnlyRead DEF Sessions, RefreshStatements
      <3> QED BY <2>1, <3>2, CommitPromise
    <2>2. CASE ~Commit(p)
      <3>1. UNCHANGED <<jobStatus, materialized>>
        BY <1>2, <2>2 DEF Statement, ReadStored, ReadCounts, StoreStatus, Retry, CheckDue,
                          InsertFinalize, StoreFinalizing, StoreDerived
      <3> QED BY <1>1, <3>1
    <2> QED BY <2>1, <2>2
  <1>3. ASSUME \/ Drain
               \/ \E w \in Workers : Claim(w) \/ Stop(w) \/ Succeed(w) \/ Crash(w)
               \/ \E w \in Workers, disposition \in {"failed_retriable", "failed_terminal"} :
                    Fail(w, disposition)
               \/ \E r \in Readers, b \in Bundles : LoadSnapshot(r, b)
               \/ UNCHANGED vars
        PROVE  UNCHANGED <<jobStatus, materialized>>
    BY <1>3 DEF Drain, Claim, Stop, Succeed, Crash, Fail, Begin, LoadSnapshot, vars
  <1> QED BY <1>1, <1>2, <1>3 DEF Next

(* What the workers commit, statement by statement and with stale reads,   *)
(* imports, drops and refreshes as BundleImport allows.                    *)
THEOREM RunnerKeepsPromise == Spec => KeepsPromise
PROOF
  <1>1. RunnerInv /\ [Next]_vars => [Promise!Next]_(Promise!vars)
    BY StepPromise
  <1> QED BY RunnerInvariance, InitPromise, <1>1, PTL DEF Spec, KeepsPromise, Promise!Spec
=============================================================================
