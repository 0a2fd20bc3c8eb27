------------------------- MODULE TrackerStoreProofs -------------------------
(***************************************************************************)
(* What holds of every upload, whatever files the user has and however     *)
(* many bundles, workers and zone changes there are: no file is forgotten, *)
(* and what was derived from published hands follows from the stored rows, *)
(* although imports, finalize jobs and a zone change overlap statement by  *)
(* statement, the statistics count the same knockouts and the same final   *)
(* table along every path, and the dashboard shows each of them once.  A   *)
(* statement changes the record of its own transaction only; the tables    *)
(* change with commits.                                                    *)
(***************************************************************************)
EXTENDS FtDashboard, TotalsProofs

(* Paths are compared by their order only, so numbers stand for them.      *)
FileSet(files) == IsFiniteSet(files) /\ \A f \in files : f.path \in Nat

SameDocs(bucket) == \A f, g \in bucket : f.doc = g.doc

(* The one entry of a tournament: its pair, or the files of its rejection. *)
EntryOf(files, t) ==
  IF t \in Paired(files)
  THEN {Representative(Bucket(files, t, "ts")), Representative(Bucket(files, t, "hh"))}
  ELSE Reported(Bucket(files, t, "ts")) \cup Reported(Bucket(files, t, "hh"))

-----------------------------------------------------------------------------
(* Buckets.                                                                *)

(* A bucket holds the candidates of one tournament and kind.               *)
LEMMA BucketOfFiles ==
  ASSUME NEW files, NEW t, NEW kind
  PROVE  /\ Bucket(files, t, kind) \subseteq files
         /\ \A f \in Bucket(files, t, kind) :
              IsCandidate(f) /\ f.doc.tournament = t /\ f.doc.kind = kind
BY DEF Bucket

(* The documents of a finite bucket are finitely many.                     *)
LEMMA FiniteDocs ==
  ASSUME NEW files, IsFiniteSet(files), NEW bucket \in SUBSET files
  PROVE  IsFiniteSet({f.doc : f \in bucket})
<1> DEFINE docs == {f.doc : f \in bucket}
           docOf == [f \in bucket |-> f.doc]
<1>1. IsFiniteSet(bucket)
  BY FS_Subset
<1>2. docOf \in Surjection(bucket, docs)
  BY DEF Surjection
<1> QED
  BY <1>1, <1>2, FS_Surjection

(* What the three resolutions mean.                                        *)
LEMMA ResolutionMeans ==
  ASSUME NEW files, FileSet(files), NEW bucket \in SUBSET files
  PROVE  /\ Resolution(bucket) \in {"missing", "ready", "conflict"}
         /\ Resolution(bucket) = "missing" <=> bucket = {}
         /\ Resolution(bucket) = "ready" <=> bucket # {} /\ SameDocs(bucket)
<1> DEFINE docs == {f.doc : f \in bucket}
<1>1. IsFiniteSet(docs)
  BY FiniteDocs DEF FileSet
<1>2. Cardinality(docs) = 1 <=> \E d : docs = {d}
  BY <1>1, FS_Singleton
<1>3. (\E d : docs = {d}) <=> bucket # {} /\ SameDocs(bucket)
  BY DEF SameDocs
<1>4. Cardinality(docs) = 1 <=> bucket # {} /\ SameDocs(bucket)
  BY <1>2, <1>3
<1> HIDE DEF docs
<1>5. Resolution(bucket) = IF bucket = {} THEN "missing"
                           ELSE IF Cardinality(docs) = 1 THEN "ready" ELSE "conflict"
  BY <1>4 DEF Resolution, docs
<1> QED
  BY <1>4, <1>5

(* The first path exists, so that a bucket is represented by one of its    *)
(* own files.                                                              *)
LEMMA RepresentativeIsMember ==
  ASSUME NEW files, FileSet(files), NEW bucket \in SUBSET files, bucket # {}
  PROVE  Representative(bucket) \in bucket
<1> DEFINE paths == {f.path : f \in bucket}
           less == OpToRel(<, Nat)
<1>1. paths \subseteq Nat /\ paths # {}
  BY DEF FileSet
<1>2. PICK p \in paths : \A q \in paths : ~(<<q, p>> \in less)
  BY <1>1, WFMin, NatLessThanWellFounded
<1>3. \A m, n \in Nat : m < n => <<m, n>> \in less
  BY DEF OpToRel
<1> HIDE DEF less
<1>4. \A q \in paths : p <= q
  <2> HIDE DEF paths
  <2> TAKE q \in paths
  <2>1. p \in Nat /\ q \in Nat
    BY <1>1
  <2>2. ~(q < p)
    BY <1>2, <1>3, <2>1, Zenon
  <2> QED
    BY <2>1, <2>2
<1>5. \E f \in bucket : \A g \in bucket : f.path <= g.path
  BY <1>4
<1> QED
  BY <1>5 DEF Representative

(* A bucket reports files of its own, and every document of it.            *)
LEMMA ReportedIsMember ==
  ASSUME NEW files, FileSet(files), NEW bucket \in SUBSET files
  PROVE  /\ Reported(bucket) \subseteq bucket
         /\ \A f \in bucket : \E g \in Reported(bucket) : g.doc = f.doc
<1>1. CASE Resolution(bucket) = "ready"
  <2>1. bucket # {} /\ SameDocs(bucket)
    BY <1>1, ResolutionMeans
  <2>2. Representative(bucket) \in bucket
    BY <2>1, RepresentativeIsMember
  <2> QED
    BY <1>1, <2>1, <2>2 DEF Reported, SameDocs
<1>2. CASE Resolution(bucket) # "ready"
  BY <1>2 DEF Reported
<1> QED
  BY <1>1, <1>2

-----------------------------------------------------------------------------
(* Entries.                                                                *)

(* A paired tournament has both documents, each without a rival.           *)
LEMMA PairedBuckets ==
  ASSUME NEW files, FileSet(files), NEW t \in Paired(files), NEW kind \in Kinds
  PROVE  Bucket(files, t, kind) # {} /\ SameDocs(Bucket(files, t, kind))
<1>1. Bucket(files, t, kind) \in SUBSET files
  BY BucketOfFiles
<1>2. Resolution(Bucket(files, t, kind)) = "ready"
  BY DEF Paired
<1> QED
  BY <1>1, <1>2, ResolutionMeans

(* The entry of a tournament has files of it only, and each of its         *)
(* documents.                                                              *)
LEMMA EntryOfTournament ==
  ASSUME NEW files, FileSet(files), NEW t
  PROVE  /\ \A f \in EntryOf(files, t) :
              f \in files /\ IsCandidate(f) /\ f.doc.tournament = t
         /\ \A f \in files : IsCandidate(f) /\ f.doc.tournament = t =>
              \E g \in EntryOf(files, t) : g.doc = f.doc
<1> DEFINE ts == Bucket(files, t, "ts")
           hh == Bucket(files, t, "hh")
<1>1. /\ ts \in SUBSET files /\ hh \in SUBSET files
      /\ \A f \in ts \cup hh : IsCandidate(f) /\ f.doc.tournament = t
  BY BucketOfFiles
<1>2. \A f \in files : IsCandidate(f) /\ f.doc.tournament = t => f \in ts \cup hh
  BY DEF Bucket, IsCandidate, Kinds
<1>3. CASE t \in Paired(files)
  <2>1. ts # {} /\ hh # {} /\ SameDocs(ts) /\ SameDocs(hh)
    BY <1>3, PairedBuckets DEF Kinds
  <2>2. Representative(ts) \in ts /\ Representative(hh) \in hh
    BY <1>1, <2>1, RepresentativeIsMember
  <2>3. EntryOf(files, t) = {Representative(ts), Representative(hh)}
    BY <1>3 DEF EntryOf
  <2> HIDE DEF ts, hh
  <2> QED
    BY <1>1, <1>2, <2>1, <2>2, <2>3 DEF SameDocs
<1>4. CASE t \notin Paired(files)
  <2>1. EntryOf(files, t) = Reported(ts) \cup Reported(hh)
    BY <1>4 DEF EntryOf
  <2>2. /\ Reported(ts) \subseteq ts
        /\ \A f \in ts : \E g \in Reported(ts) : g.doc = f.doc
    BY <1>1, ReportedIsMember
  <2>3. /\ Reported(hh) \subseteq hh
        /\ \A f \in hh : \E g \in Reported(hh) : g.doc = f.doc
    BY <1>1, ReportedIsMember
  <2> HIDE DEF ts, hh
  <2> QED
    BY <1>1, <1>2, <2>1, <2>2, <2>3
<1> QED
  BY <1>3, <1>4

(* Every entry is a rejected file or the entry of a tournament.            *)
LEMMA EntriesAre ==
  ASSUME NEW files
  PROVE  Entries(files) = {{f} : f \in {g \in files : ~IsCandidate(g)}}
                          \cup {EntryOf(files, t) : t \in Buckets(files)}
<1> DEFINE Rejects(t) == UNION {Reported(Bucket(files, t, kind)) : kind \in Kinds}
           Pair(t) == {Representative(Bucket(files, t, kind)) : kind \in Kinds}
<1>1. {r.files : r \in ScanRejected(files)} = {{f} : f \in {g \in files : ~IsCandidate(g)}}
  <2> DEFINE rejection(f) ==
        [tournament |-> NoTournament, files |-> {f}, reason |-> ScanReason(f)]
  <2>1. ScanRejected(files) = {rejection(f) : f \in {g \in files : ~IsCandidate(g)}}
    BY Zenon DEF ScanRejected
  <2>2. \A f : rejection(f).files = {f}
    OBVIOUS
  <2> HIDE DEF rejection
  <2>3. \A f \in {g \in files : ~IsCandidate(g)} :
          {f} \in {r.files : r \in ScanRejected(files)}
    BY <2>1, <2>2
  <2>4. \A r \in ScanRejected(files) :
          r.files \in {{f} : f \in {g \in files : ~IsCandidate(g)}}
    BY <2>1, <2>2
  <2> QED
    BY <2>3, <2>4
<1>2. {r.files : r \in PairRejected(files)} = {Rejects(t) : t \in Buckets(files) \ Paired(files)}
  <2> DEFINE rejection(t) ==
        [tournament |-> t, files |-> Rejects(t),
         reason |-> PairReason(Resolution(Bucket(files, t, "ts")),
                               Resolution(Bucket(files, t, "hh")))]
  <2>1. PairRejected(files) = {rejection(t) : t \in Buckets(files) \ Paired(files)}
    BY Zenon DEF PairRejected
  <2>2. \A t : rejection(t).files = Rejects(t)
    OBVIOUS
  <2> HIDE DEF rejection
  <2>3. \A t \in Buckets(files) \ Paired(files) :
          Rejects(t) \in {r.files : r \in PairRejected(files)}
    BY <2>1, <2>2
  <2>4. \A r \in PairRejected(files) :
          r.files \in {Rejects(t) : t \in Buckets(files) \ Paired(files)}
    BY <2>1, <2>2
  <2> HIDE DEF Rejects
  <2> QED
    BY <2>3, <2>4
<1>3. Entries(files) = {r.files : r \in ScanRejected(files)}
                       \cup {r.files : r \in PairRejected(files)}
                       \cup {Pair(t) : t \in Paired(files)}
  BY Zenon DEF Entries, Rejected
<1>4. \A t : Rejects(t) = Reported(Bucket(files, t, "ts")) \cup Reported(Bucket(files, t, "hh"))
  BY DEF Kinds
<1>5. \A t : Pair(t) = {Representative(Bucket(files, t, "ts")), Representative(Bucket(files, t, "hh"))}
  BY DEF Kinds
<1>6. Paired(files) \subseteq Buckets(files)
  BY DEF Paired
<1>7. \A t \in Paired(files) : EntryOf(files, t) = Pair(t)
  BY <1>5 DEF EntryOf
<1>8. \A t \in Buckets(files) \ Paired(files) : EntryOf(files, t) = Rejects(t)
  BY <1>4 DEF EntryOf
<1> HIDE DEF Rejects, Pair
<1> QED
  BY <1>1, <1>2, <1>3, <1>6, <1>7, <1>8

-----------------------------------------------------------------------------
(* Every file of a finite upload is in exactly one pair or rejection, or   *)
(* is a copy of a file that is (build_prepared_archive_input forgets none  *)
(* and reports none twice).                                                *)
THEOREM EveryFileAccounted ==
  ASSUME NEW files, FileSet(files)
  PROVE  Accounted(files)
<1> SUFFICES ASSUME NEW f \in files
             PROVE  \/ Cardinality({e \in Entries(files) : f \in e}) = 1
                    \/ /\ \A e \in Entries(files) : f \notin e
                       /\ \E e \in Entries(files) : \E g \in e : g.doc = f.doc
  BY DEF Accounted
<1> DEFINE t == f.doc.tournament
           with == {e \in Entries(files) : f \in e}
<1>1. \A b : \A g \in EntryOf(files, b) :
         IsCandidate(g) /\ g.doc.tournament = b
  BY EntryOfTournament
<1>2. CASE ~IsCandidate(f)
  <2>1. with = {{f}}
    BY <1>1, <1>2, EntriesAre
  <2> QED
    BY <2>1, FS_Singleton
<1>3. CASE IsCandidate(f)
  <2>1. EntryOf(files, t) \in Entries(files)
    BY <1>3, EntriesAre DEF Buckets
  <2>2. \A e \in Entries(files) : f \in e => e = EntryOf(files, t)
    BY <1>1, <1>3, EntriesAre
  <2>3. CASE f \in EntryOf(files, t)
    <3>1. with = {EntryOf(files, t)}
      BY <2>1, <2>2, <2>3
    <3> QED
      BY <3>1, FS_Singleton
  <2>4. CASE f \notin EntryOf(files, t)
    <3>1. \E g \in EntryOf(files, t) : g.doc = f.doc
      BY <1>3, EntryOfTournament
    <3> QED
      BY <2>1, <2>2, <2>4, <3>1
  <2> QED
    BY <2>3, <2>4
<1> QED
  BY <1>2, <1>3

(* A tournament is imported only when all its summaries are one document   *)
(* and all its histories are one document (resolve_candidates).            *)
THEOREM NoRivalImported ==
  ASSUME NEW files, FileSet(files)
  PROVE  Unanimous(files)
<1> SUFFICES ASSUME NEW t \in Paired(files), NEW kind \in Kinds,
                    NEW f \in Bucket(files, t, kind)
             PROVE  f.doc = MemberDoc(files, t, kind)
  BY DEF Unanimous
<1>1. Bucket(files, t, kind) \in SUBSET files
  BY BucketOfFiles
<1>2. Bucket(files, t, kind) # {} /\ SameDocs(Bucket(files, t, kind))
  BY PairedBuckets
<1>3. Representative(Bucket(files, t, kind)) \in Bucket(files, t, kind)
  BY <1>1, <1>2, RepresentativeIsMember
<1> QED
  BY <1>2, <1>3 DEF SameDocs, MemberDoc

-----------------------------------------------------------------------------
(* The transactions of the imports.                                        *)


UploadsType == uploads \in Uploads

(* No transaction touches the uploads: what was prepared is what was       *)
(* uploaded.                                                               *)
LEMMA UploadsStay ==
  ASSUME [Next]_vars
  PROVE  uploads' = uploads
<1>1. ASSUME NEW b \in Bundles, Enqueue(b)
      PROVE  uploads' = uploads
  BY <1>1 DEF Enqueue
<1>2. ASSUME NEW b \in Bundles, FinalizeBegin(b)
      PROVE  uploads' = uploads
  BY <1>2 DEF FinalizeBegin
<1>3. ASSUME Stays
      PROVE  uploads' = uploads
  BY <1>3 DEF Stays
<1>4. ASSUME NEW b, Abort(b)
      PROVE  uploads' = uploads
  BY <1>4 DEF Abort
<1>5. ASSUME Rollback
      PROVE  uploads' = uploads
  BY <1>5, <1>3 DEF Rollback
<1>6. ASSUME NEW b \in Bundles,
             OrderHands(b) \/ StoreHelper(b) \/ FinalizeCommit(b) \/ FinalizeConflict(b)
      PROVE  uploads' = uploads
  BY <1>6, <1>3, <1>4 DEF OrderHands, StoreHelper, FinalizeCommit, FinalizeConflict
<1>7. ASSUME NEW j, NEW status, Finish(j, status)
      PROVE  uploads' = uploads
  BY <1>7 DEF Finish
<1>8. ASSUME NEW j \in Jobs,
             FileBegin(j) \/ PersistSummary(j) \/ PersistHands(j) \/ FileFails(j)
      PROVE  uploads' = uploads
  BY <1>8, <1>7 DEF FileBegin, PersistSummary, PersistHands, FileFails
<1>9. ASSUME NEW p \in Sessions, DeleteFeatures(p) \/ InsertRows(p) \/ DeadlockVictim(p)
      PROVE  uploads' = uploads
  BY <1>9, <1>3, <1>4, <1>5 DEF DeleteFeatures, InsertRows, DeadlockVictim
<1>10. ASSUME NEW zone \in Zones, SetZone(zone)
       PROVE  uploads' = uploads
  BY <1>10 DEF SetZone
<1>11. ASSUME UpdateZones \/ ZoneCommit \/ ZoneConflict
       PROVE  uploads' = uploads
  BY <1>11, <1>3, <1>5 DEF UpdateZones, ZoneCommit, ZoneConflict
<1>12. ASSUME UNCHANGED vars
       PROVE  uploads' = uploads
  BY <1>12 DEF vars
<1> QED
  BY <1>1, <1>2, <1>6, <1>8, <1>9, <1>10, <1>11, <1>12 DEF Next

(* What bundles bring together are finite sets of files whose paths are    *)
(* numbers.                                                                *)
LEMMA UploadsAreFileSets ==
  ASSUME UploadsType
  PROVE  \A files \in SUBSET UNION {uploads[b] : b \in Bundles} : FileSet(files)
<1>1. UNION {uploads[b] : b \in Bundles} \subseteq Files
  BY UploadsAssumption DEF UploadsType
<1>2. \A files \in SUBSET Files : IsFiniteSet(files)
  BY FilesAssumption, FS_Subset
<1> QED
  BY <1>1, <1>2, FilesAssumption DEF FileSet

(* Whichever files come in one upload (tracker_ingest_prepare, pair.rs),   *)
(* each is imported, named by one rejection or a copy of such a file, and  *)
(* no tournament with rival versions is imported.                          *)
THEOREM UploadsAreAccounted == Spec => []UploadsAccounted
<1>1. Init => UploadsType
  BY DEF Init, UploadsType
<1>2. UploadsType /\ [Next]_vars => UploadsType'
  BY UploadsStay DEF UploadsType
<1>3. UploadsType => UploadsAccounted
  BY UploadsAreFileSets, EveryFileAccounted, NoRivalImported DEF UploadsAccounted
<1> QED
  BY <1>1, <1>2, <1>3, PTL DEF Spec

-----------------------------------------------------------------------------
(* Steps that leave the tables alone.                                      *)

(* The tournament a transaction takes next is one it still has to do.      *)
LEMMA LeastIsMember ==
  ASSUME NEW S \in SUBSET Nat, S # {}
  PROVE  LeastOf(S) \in S
PROOF
  <1> DEFINE less == OpToRel(<, Nat)
  <1>1. PICK n \in S : \A m \in S : ~(<<m, n>> \in less)
    BY WFMin, NatLessThanWellFounded
  <1>2. \A m, k \in Nat : m < k => <<m, k>> \in less
    BY DEF OpToRel
  <1> HIDE DEF less
  <1>3. \A m \in S : n <= m
    <2> SUFFICES ASSUME NEW m \in S
                 PROVE  n <= m
      OBVIOUS
    <2>1. m \in Nat /\ n \in Nat /\ ~(m < n)
      BY <1>1, <1>2
    <2> QED BY <2>1
  <1> QED BY <1>3 DEF LeastOf

(* Sessions are told apart, and hands know their bundle.                   *)
LEMMA Names ==
  ASSUME TypeOK
  PROVE  /\ Bundles \subseteq Sessions /\ ZoneChange \in Sessions
         /\ ZoneChange \notin Bundles
         /\ \A h \in Stored : h \in Hands /\ hand[h].by \in Bundles
BY BundlesAssumption DEF TypeOK, Sessions, ZoneChange, Stored

(* What a transaction holds of the order of tournaments stands while the   *)
(* others leave its hands alone and do not publish what came in later.     *)
LEMMA OrderStays ==
  ASSUME NEW b \in Bundles, OrderHeld(b), tx'[b] = tx[b], Stored \subseteq Stored',
         \A h \in LockedHands(b) : hand'[h].stage = hand[h].stage,
         \A t \in Ordered(b) : \A h \in HandsIn({t})' \ LockedOf(b, t) :
           hand'[h].order = 0 /\ ~Published(h)' /\ hand'[h].by # b
  PROVE  OrderHeld(b)'
PROOF
  <1>1. /\ UNCHANGED <<Ordered(b), Helped(b), LockedHands(b)>>
        /\ \A t : UNCHANGED LockedOf(b, t)
    BY DEF Ordered, Helped, At, LockedOf, LockedHands
  <1>2. \A t \in tx[b].scope : HandsIn({t})' # {}
    BY DEF OrderHeld, HandsIn
  <1>3. \A t \in Ordered(b) : HoldsAll(b, t)'
    BY <1>1 DEF OrderHeld, HoldsAll
  <1>4. ASSUME NEW t \in Helped(b) PROVE HelperHeld(b, t)'
    <2>1. StageSeen(LockedOf(b, t))' = StageSeen(LockedOf(b, t))
      BY <1>1 DEF StageSeen, LockedOf
    <2>2. HelperHeld(b, t)
      BY <1>4 DEF OrderHeld
    <2> QED BY <1>1, <2>1, <2>2 DEF HelperHeld
  <1> QED BY <1>1, <1>2, <1>3, <1>4 DEF OrderHeld

(* Published tournaments stay as they are while their hands, and which of  *)
(* these are published, do.                                                *)
LEMMA HelperStays ==
  ASSUME NEW t \in Tournaments, HelperFollowsRows, helper'[t] = helper[t],
         UNCHANGED HandsIn({t}),
         \A h \in HandsIn({t}) :
           /\ hand'[h].order = hand[h].order /\ hand'[h].stage = hand[h].stage
           /\ Published(h)' => Published(h),
         t \in PublishedTournaments'
  PROVE  /\ OrdersOf(t)' = [h \in HandsIn({t})' |-> HandOrder(info, HandsIn({t})', h)]
         /\ helper'[t] = HelperRow(info, HandsIn({t})', StageSeen(HandsIn({t}))', OrdersOf(t)')
PROOF
  <1>1. t \in PublishedTournaments
    BY DEF PublishedTournaments
  <1>2. OrdersOf(t)' = OrdersOf(t) /\ StageSeen(HandsIn({t}))' = StageSeen(HandsIn({t}))
    BY DEF OrdersOf, StageSeen
  <1> QED BY <1>1, <1>2 DEF HelperFollowsRows

(* What a step of transaction p leaves alone: the tables the invariant is  *)
(* about, and whether a finalize job is due or has succeeded.              *)
Quiet(p) ==
  /\ UNCHANGED <<job, hand, features, helper>>
  /\ fin' \in [Bundles -> JobStates]
  /\ \A c \in Bundles : \/ fin'[c] = fin[c]
                        \/ /\ c = p
                           /\ fin[c] \notin {"absent", "succeeded"}
                           /\ fin'[c] \notin {"absent", "succeeded"}

(* A statement that leaves the tables alone is quiet.                      *)
LEMMA StaysQuiet ==
  ASSUME StoreInv, Stays, NEW p
  PROVE  Quiet(p) /\ fin' = fin
BY DEF StoreInv, TypeOK, Stays, core, Quiet

(* A quiet statement stores no hand and publishes none.                    *)
LEMMA QuietPublishes ==
  ASSUME StoreInv, NEW p, Quiet(p)
  PROVE  /\ UNCHANGED Stored /\ \A ts : UNCHANGED HandsIn(ts)
         /\ \A h \in Stored : Published(h)' <=> Published(h)
         /\ \A ts : \A h \in HandsIn(ts) : h \in Stored
PROOF
  <1>1. UNCHANGED Stored
    BY DEF Quiet, Stored
  <1>2. \A ts : UNCHANGED HandsIn(ts) /\ \A h \in HandsIn(ts) : h \in Stored
    BY <1>1 DEF HandsIn
  <1>3. \A h \in Stored : Published(h)' <=> Published(h)
    BY DEF StoreInv, TypeOK, Published, Quiet
  <1> QED BY <1>1, <1>2, <1>3

(* A statement of one transaction changes that transaction; the others,    *)
(* and what is committed, stay.                                            *)
LEMMA StatementKeeps ==
  ASSUME StoreInv, NEW p \in Sessions, Quiet(p),
         DOMAIN tx' = Sessions, \A q \in Sessions \ {p} : tx'[q] = tx[q], IsTx(tx'[p]),
         p \in Bundles => Progress(p)' /\ OrderHeld(p)',
         p = ZoneChange => ZoneHeld',
         RowsHeld(p)',
         \A q \in Sessions \ {p} : PendingRows(p)' \cap PendingRows(q) = {},
         p \in Bundles => \A c \in Bundles \ {p} : Ordered(p)' \cap Ordered(c) = {}
  PROVE  StoreInv'
PROOF
  <1>1. UNCHANGED <<job, hand, features, helper>>
    BY DEF Quiet
  <1>0. /\ UNCHANGED Stored /\ \A ts : UNCHANGED HandsIn(ts)
        /\ \A h \in Stored : Published(h)' <=> Published(h)
        /\ \A ts : \A h \in HandsIn(ts) : h \in Stored
    BY QuietPublishes
  <1>2. TypeOK'
    BY <1>0, <1>1 DEF StoreInv, TypeOK, Quiet
  <1>3. BarrierHolds'
    BY <1>1 DEF StoreInv, BarrierHolds, JobsOf, Quiet
  <1>4. \A q \in Sessions \ {p} :
          /\ UNCHANGED <<PendingRows(q), DeletedRows(q), InScope(q), LockedHands(q)>>
          /\ \A pc : At(q, pc)' <=> At(q, pc)
    BY <1>0 DEF PendingRows, DeletedRows, InScope, LockedHands, At
  <1>5. \A b \in Bundles : Progress(b)'
    <2>1. ASSUME NEW b \in Bundles, b # p PROVE Progress(b)'
      <3>1. tx'[b] = tx[b] /\ Progress(b) /\ fin'[b] = fin[b]
        BY <2>1 DEF StoreInv, Sessions, Quiet
      <3> QED BY <1>0, <1>1, <3>1 DEF Progress, At, Ordered, Helped, LockedHands, Idle, NoFn
    <2> QED BY <2>1
  <1>6. \A q \in Sessions : RowsHeld(q)'
    <2>1. ASSUME NEW q \in Sessions, q # p PROVE RowsHeld(q)'
      <3>1. tx'[q] = tx[q] /\ RowsHeld(q)
        BY <2>1 DEF StoreInv
      <3>2. InScope(q) \subseteq Stored
        BY <1>0 DEF InScope
      <3> QED BY <1>0, <1>1, <1>4, <2>1, <3>1, <3>2 DEF RowsHeld, At
    <2> QED BY <2>1
  <1>7. RowsApart'
    <2> SUFFICES ASSUME NEW q \in Sessions, NEW r \in Sessions, q # r
                 PROVE  PendingRows(q)' \cap PendingRows(r)' = {}
      BY DEF RowsApart
    <2>1. CASE q # p /\ r # p
      BY <1>4, <2>1 DEF StoreInv, RowsApart
    <2>2. CASE q = p
      BY <1>4, <2>2
    <2>3. CASE r = p
      BY <1>4, <2>3
    <2> QED BY <2>1, <2>2, <2>3
  <1>8. FeaturesFollowRows' /\ HelperFollowsRows'
    <2>1. FeaturesFollowRows'
      BY <1>0, <1>1 DEF StoreInv, FeaturesFollowRows
    <2>2. ASSUME NEW t \in PublishedTournaments'
          PROVE  /\ OrdersOf(t)' = [h \in HandsIn({t})' |-> HandOrder(info, HandsIn({t})', h)]
                 /\ helper'[t] = HelperRow(info, HandsIn({t})', StageSeen(HandsIn({t}))', OrdersOf(t)')
      <3>1. t \in Tournaments /\ HelperFollowsRows
        BY DEF PublishedTournaments, StoreInv
      <3> QED BY <1>0, <1>1, <3>1, HelperStays
    <2>4. HelperFollowsRows'
      BY <2>2 DEF HelperFollowsRows
    <2> QED BY <2>1, <2>4
  <1>9. \A b \in Bundles : OrderHeld(b)'
    <2>1. ASSUME NEW b \in Bundles, b # p PROVE OrderHeld(b)'
      <3>1. tx'[b] = tx[b] /\ OrderHeld(b)
        BY <2>1 DEF StoreInv, Sessions
      <3>3. \A t \in Ordered(b) : \A h \in HandsIn({t})' \ LockedOf(b, t) :
              hand'[h].order = 0 /\ ~Published(h)' /\ hand'[h].by # b
        BY <1>0, <1>1, <3>1 DEF OrderHeld, HoldsAll
      <3> QED BY <1>0, <1>1, <3>1, <3>3, OrderStays
    <2> QED BY <2>1
  <1>10. OrderApart'
    <2>1. \A b \in Bundles \ {p} : UNCHANGED Ordered(b)
      BY DEF Ordered, At, Sessions
    <2> SUFFICES ASSUME NEW b \in Bundles, NEW c \in Bundles, b # c
                 PROVE  Ordered(b)' \cap Ordered(c)' = {}
      BY DEF OrderApart
    <2>2. CASE b # p /\ c # p
      BY <2>1, <2>2 DEF StoreInv, OrderApart
    <2>3. CASE b = p
      BY <2>1, <2>3
    <2>4. CASE c = p
      BY <2>1, <2>4
    <2> QED BY <2>2, <2>3, <2>4
  <1>11. ZoneHeld'
    <2>1. CASE p = ZoneChange
      BY <2>1
    <2>2. CASE p # ZoneChange
      <3>1. tx'[ZoneChange] = tx[ZoneChange]
        BY <2>2 DEF Sessions
      <3> QED BY <1>0, <3>1 DEF StoreInv, ZoneHeld, LockedHands, ZoneChange
    <2> QED BY <2>1, <2>2
  <1> QED BY <1>2, <1>3, <1>5, <1>6, <1>7, <1>8, <1>9, <1>10, <1>11 DEF StoreInv

(* File jobs that come and go may make a finalize job due; nothing is      *)
(* published by that.                                                      *)
LEMMA JobsKeep ==
  ASSUME StoreInv, UNCHANGED <<hand, features, helper, tx>>,
         job' \in [Jobs -> JobStates], fin' \in [Bundles -> JobStates], BarrierHolds',
         \A b \in Bundles : \/ fin'[b] = fin[b]
                            \/ fin[b] = "absent" /\ fin'[b] = "queued"
  PROVE  StoreInv'
PROOF
  <1>1. TypeOK'
    BY DEF StoreInv, TypeOK, Stored
  <1>2. UNCHANGED Stored /\ \A h \in Stored : Published(h)' <=> Published(h)
    BY DEF StoreInv, TypeOK, Stored, Published
  <1>3. /\ \A ts : UNCHANGED HandsIn(ts)
        /\ \A ts : \A h \in HandsIn(ts) : h \in Stored
    BY <1>2 DEF HandsIn
  <1>4. \A b \in Bundles : Progress(b)'
    BY <1>2 DEF StoreInv, Progress, At, Ordered, Helped, LockedHands, Idle, NoFn
  <1>5. \A p \in Sessions : RowsHeld(p)'
    <2> SUFFICES ASSUME NEW p \in Sessions PROVE RowsHeld(p)'
      OBVIOUS
    <2>1. UNCHANGED <<InScope(p), PendingRows(p), DeletedRows(p)>> /\ InScope(p) \subseteq Stored
      BY <1>2, <1>3 DEF InScope, PendingRows, DeletedRows
    <2> QED BY <1>2, <2>1 DEF StoreInv, RowsHeld, At
  <1>6. RowsApart' /\ OrderApart' /\ ZoneHeld'
    <2>1. RowsApart' /\ OrderApart'
      BY DEF StoreInv, RowsApart, OrderApart, PendingRows, Ordered, At
    <2>2. ZoneHeld'
      BY <1>2 DEF StoreInv, ZoneHeld, LockedHands, ZoneChange
    <2> QED BY <2>1, <2>2
  <1>7. FeaturesFollowRows'
    BY <1>2 DEF StoreInv, FeaturesFollowRows
  <1>8. HelperFollowsRows'
    <2>1. UNCHANGED PublishedTournaments
      BY <1>2, <1>3 DEF PublishedTournaments
    <2> QED BY <1>3, <2>1 DEF StoreInv, HelperFollowsRows, OrdersOf, StageSeen
  <1>9. \A b \in Bundles : OrderHeld(b)'
    <2> SUFFICES ASSUME NEW b \in Bundles PROVE OrderHeld(b)'
      OBVIOUS
    <2>1. OrderHeld(b)
      BY DEF StoreInv
    <2>2. \A t \in Ordered(b) : \A h \in HandsIn({t})' \ LockedOf(b, t) :
            hand'[h].order = 0 /\ ~Published(h)' /\ hand'[h].by # b
      BY <1>2, <1>3, <2>1 DEF OrderHeld, HoldsAll
    <2> QED BY <1>2, <2>1, <2>2, OrderStays
  <1> QED BY <1>1, <1>4, <1>5, <1>6, <1>7, <1>8, <1>9 DEF StoreInv
(* A statement replaces the record of one open transaction.                *)
Moves(p, r) == DOMAIN tx' = Sessions /\ tx'[p] = r /\ \A q \in Sessions \ {p} : tx'[q] = tx[q]

(* What such a replacement is.                                             *)
LEMMA Moved ==
  ASSUME StoreInv, NEW p \in Sessions, NEW r, tx' = [tx EXCEPT ![p] = r]
  PROVE  Moves(p, r) /\ IsTx(tx[p]) /\ DOMAIN tx = Sessions
BY DEF StoreInv, TypeOK, Moves

(* A record of a transaction keeps the fields a statement does not name.   *)
WithOrder(r, pc, todo, order) == [r EXCEPT !.pc = pc, !.todo = todo, !.order = order]

(* The fields that ordering a tournament leaves.                           *)
LEMMA OrderFields ==
  ASSUME NEW r, IsTx(r), NEW pc, NEW todo, NEW order
  PROVE  LET new == WithOrder(r, pc, todo, order)
         IN /\ new.pc = pc /\ new.todo = todo /\ new.order = order
            /\ new.scope = r.scope /\ new.helper = r.helper
            /\ new.gone = r.gone /\ new.rows = r.rows /\ IsTx(new)
BY DEF IsTx, WithOrder

(* Numbering the hands of one more tournament.                             *)
LEMMA OrderHandsKeeps ==
  ASSUME StoreInv, NEW b \in Bundles, OrderHands(b)
  PROVE  StoreInv'
PROOF
  <1>0. PICK t : t = LeastOf(tx[b].todo)
    OBVIOUS
  <1> DEFINE left == tx[b].todo \ {t}
             hs == HandsIn({t})
             numbers == [h \in hs |-> HandOrder(info, hs, h)]
             pc == IF left = {} THEN "helper" ELSE "order"
             todo == IF left = {} THEN tx[b].scope ELSE left
             order == Over(numbers, tx[b].order)
             new == WithOrder(tx[b], pc, todo, order)
  <1>1. At(b, "order") /\ ~LockedByOther(b, hs) /\ Stays
    BY <1>0 DEF OrderHands
  <1>2. /\ b \in Sessions /\ b # ZoneChange
        /\ Progress(b) /\ OrderHeld(b) /\ RowsHeld(b)
    BY BundlesAssumption DEF StoreInv, Sessions, ZoneChange
  <1>3. /\ DOMAIN tx' = Sessions /\ \A q \in Sessions \ {b} : tx'[q] = tx[q]
        /\ tx'[b].pc = pc /\ tx'[b].todo = todo /\ tx'[b].order = order
        /\ tx'[b].scope = tx[b].scope /\ tx'[b].helper = tx[b].helper
        /\ tx'[b].gone = tx[b].gone /\ tx'[b].rows = tx[b].rows
        /\ IsTx(tx'[b])
    <2>1. tx' = [tx EXCEPT ![b] = new]
      BY <1>0 DEF OrderHands, WithOrder
    <2> HIDE DEF new, pc, todo, order
    <2>2. Moves(b, new) /\ IsTx(tx[b])
      BY <1>2, <2>1, Moved
    <2>3. /\ new.pc = pc /\ new.todo = todo /\ new.order = order
          /\ new.scope = tx[b].scope /\ new.helper = tx[b].helper
          /\ new.gone = tx[b].gone /\ new.rows = tx[b].rows /\ IsTx(new)
      BY <2>2, OrderFields DEF new
    <2> QED BY <2>2, <2>3 DEF Moves
  <1>4. t \in tx[b].todo /\ tx[b].todo \subseteq tx[b].scope /\ t \in Tournaments
    <2>1. /\ tx[b].todo # {} /\ tx[b].todo \subseteq tx[b].scope /\ tx[b].scope \subseteq Tournaments
      BY <1>1, <1>2 DEF Progress
    <2>2. LeastOf(tx[b].todo) \in tx[b].todo
      BY <2>1, LeastIsMember, InfoAssumption
    <2> QED BY <1>0, <2>1, <2>2
  <1>5. UNCHANGED <<fin, hand, Stored>> /\ (\A ts : UNCHANGED HandsIn(ts))
        /\ (\A h : UNCHANGED Published(h)) /\ UNCHANGED InScope(b)
    <2>1. UNCHANGED <<fin, hand>>
      BY <1>1 DEF Stays, core
    <2>2. UNCHANGED Stored
      BY <2>1 DEF Stored
    <2>3. (\A ts : UNCHANGED HandsIn(ts)) /\ (\A h : UNCHANGED Published(h))
      BY <2>1, <2>2 DEF HandsIn, Published
    <2>4. UNCHANGED InScope(b)
      BY <1>2, <1>3, <2>3 DEF InScope
    <2> QED BY <2>1, <2>2, <2>3, <2>4
  <1>6. Ordered(b) = tx[b].scope \ tx[b].todo /\ Ordered(b)' = Ordered(b) \cup {t}
    <2>1. CASE left = {}
      BY <1>1, <1>3, <1>4, <2>1 DEF Ordered, At
    <2>2. CASE left # {}
      BY <1>1, <1>3, <1>4, <2>2 DEF Ordered, At
    <2> QED BY <2>1, <2>2
  <1>7. Helped(b) = {} /\ Helped(b)' = {}
    <2>1. CASE left = {}
      <3>1. tx[b].pc = "order" /\ tx'[b].pc = "helper" /\ tx'[b].todo = tx'[b].scope
        BY <1>1, <1>3, <2>1 DEF At
      <3> QED BY <3>1 DEF Helped, At
    <2>2. CASE left # {}
      <3>1. tx[b].pc = "order" /\ tx'[b].pc = "order"
        BY <1>1, <1>3, <2>2 DEF At
      <3> QED BY <3>1 DEF Helped, At
    <2> QED BY <2>1, <2>2
  <1>8. tx[b].pc = "order" /\ tx'[b].pc \in {"helper", "order"}
    BY <1>1, <1>3 DEF At
  <1> HIDE DEF pc
  <1>9. /\ LockedHands(b)' = hs \cup LockedHands(b)
        /\ \A h \in hs : tx'[b].order[h] = HandOrder(info, hs, h)
        /\ \A h \in LockedHands(b) \ hs : tx'[b].order[h] = tx[b].order[h]
    <2> HIDE DEF hs
    <2>1. DOMAIN numbers = hs /\ \A h \in hs : numbers[h] = HandOrder(info, hs, h)
      OBVIOUS
    <2> HIDE DEF numbers
    <2>2. /\ DOMAIN order = hs \cup DOMAIN tx[b].order
          /\ \A h \in hs : order[h] = numbers[h]
          /\ \A h \in DOMAIN tx[b].order \ hs : order[h] = tx[b].order[h]
      BY <2>1 DEF Over
    <2> HIDE DEF order
    <2> QED BY <1>3, <2>1, <2>2 DEF LockedHands
  <1> HIDE DEF numbers, order
  <1>10. /\ LockedOf(b, t)' = hs
         /\ \A u : u # t => LockedOf(b, u)' = LockedOf(b, u)
    <2>1. \A h \in LockedHands(b) : info[h].tournament \in tx[b].scope \ tx[b].todo
      BY <1>2, <1>6 DEF Progress
    <2>2. \A h \in hs : info[h].tournament = t
      BY DEF HandsIn
    <2> HIDE DEF hs, left, todo
    <2>3. \A u : LockedOf(b, u)' = {h \in hs \cup LockedHands(b) : info[h].tournament = u}
      BY <1>9 DEF LockedOf
    <2>4. LockedOf(b, t)' = hs
      <3>1. \A h \in LockedHands(b) : info[h].tournament # t
        BY <1>4, <2>1
      <3> QED BY <2>2, <2>3, <3>1
    <2>5. ASSUME NEW u, u # t PROVE LockedOf(b, u)' = LockedOf(b, u)
      BY <2>2, <2>3, <2>5 DEF LockedOf
    <2> QED BY <2>4, <2>5
  <1>11. Progress(b)'
    <2>2. ~At(b, "idle") /\ ~At(b, "idle")'
      BY <1>8 DEF At
    <2>3. /\ tx'[b].scope \subseteq Tournaments
          /\ tx'[b].todo # {} /\ tx'[b].todo \subseteq tx'[b].scope
      BY <1>2, <1>3, <1>4 DEF Progress
    <2>4. DOMAIN tx'[b].helper = Helped(b)'
      BY <1>2, <1>3, <1>7 DEF Progress
    <2>5. \A h \in LockedHands(b)' : h \in Stored' /\ info[h].tournament \in Ordered(b)'
      BY <1>2, <1>5, <1>6, <1>9 DEF Progress, HandsIn
    <2>6. \A h \in Stored' : hand'[h].by = b => info[h].tournament \in tx'[b].scope
      BY <1>2, <1>3, <1>5, <2>2 DEF Progress
    <2>7. fin'[b] = "running"
      BY <1>2, <1>5, <2>2 DEF Progress
    <2> HIDE DEF todo
    <2> QED BY <2>2, <2>3, <2>4, <2>5, <2>6, <2>7 DEF Progress
  <1>12. OrderHeld(b)'
    <2>1. \A u \in tx'[b].scope : HandsIn({u})' # {}
      BY <1>2, <1>3, <1>5 DEF OrderHeld
    <2>2. HoldsAll(b, t)'
      <3>1. hs # {} /\ HandsIn({t})' = hs
        BY <1>2, <1>4, <1>5 DEF OrderHeld
      <3> HIDE DEF hs
      <3>2. \A h \in hs : tx'[b].order[h] = HandOrder(info, hs, h)
        BY <1>9
      <3> QED BY <1>10, <3>1, <3>2 DEF HoldsAll
    <2>3. ASSUME NEW u \in Ordered(b), u # t PROVE HoldsAll(b, u)'
      <3>1. HoldsAll(b, u)
        BY <1>2, <2>3 DEF OrderHeld
      <3>2. \A h \in LockedOf(b, u) : h \in LockedHands(b) \ hs
        BY <2>3 DEF LockedOf, HandsIn
      <3> HIDE DEF hs
      <3> QED BY <1>5, <1>9, <1>10, <2>3, <3>1, <3>2 DEF HoldsAll
    <2>4. \A u \in Ordered(b)' : HoldsAll(b, u)'
      BY <1>6, <2>2, <2>3
    <2>5. \A u \in Helped(b)' : HelperHeld(b, u)'
      BY <1>7
    <2> QED BY <2>1, <2>4, <2>5 DEF OrderHeld
  <1>13. RowsHeld(b)' /\ PendingRows(b)' = {}
    <2>1. ~At(b, "rows") /\ ~At(b, "streets") /\ ~At(b, "rows")' /\ ~At(b, "streets")'
      BY <1>8 DEF At
    <2>2. PendingRows(b)' = {} /\ DeletedRows(b)' = {}
      BY <1>2, <1>3, <2>1 DEF RowsHeld, PendingRows, DeletedRows
    <2> QED BY <2>1, <2>2 DEF RowsHeld
  <1>14. ASSUME NEW c \in Bundles \ {b} PROVE Ordered(b)' \cap Ordered(c) = {}
    <2>1. Ordered(b) \cap Ordered(c) = {}
      BY <1>14 DEF StoreInv, OrderApart
    <2>2. t \notin Ordered(c)
      <3> SUFFICES ASSUME t \in Ordered(c) PROVE FALSE
        OBVIOUS
      <3>1. HoldsAll(c, t) /\ Progress(c)
        BY <1>14 DEF StoreInv, OrderHeld
      <3>2. PICK h \in LockedHands(c) : info[h].tournament = t /\ h \in Stored
        BY <3>1 DEF HoldsAll, LockedOf, Progress
      <3>3. c \in Others(b)
        BY <1>14 DEF Others, Sessions
      <3> QED BY <1>1, <3>2, <3>3 DEF LockedByOther, HandsIn
    <2> QED BY <1>6, <2>1, <2>2
  <1> QED
    <2>1. \A q \in Sessions \ {b} : PendingRows(b)' \cap PendingRows(q) = {}
      BY <1>13
    <2> HIDE DEF hs, todo
    <2> QED BY <1>1, <1>2, <1>3, <1>11, <1>12, <1>13, <1>14, <2>1, StatementKeeps, StaysQuiet
WithHelper(r, pc, todo, hp) == [r EXCEPT !.pc = pc, !.todo = todo, !.helper = hp]

(* The same of the statement that stores a helper row.                     *)
LEMMA HelperFields ==
  ASSUME NEW r, IsTx(r), NEW pc, NEW todo, NEW hp
  PROVE  LET new == WithHelper(r, pc, todo, hp)
         IN /\ new.pc = pc /\ new.todo = todo /\ new.helper = hp
            /\ new.scope = r.scope /\ new.order = r.order
            /\ new.gone = r.gone /\ new.rows = r.rows /\ IsTx(new)
BY DEF IsTx, WithHelper

(* Building one more helper row, when every hand has a number.             *)
LEMMA StoreHelperKeeps ==
  ASSUME StoreInv, NEW b \in Bundles, StoreHelper(b), ~Abort(b)
  PROVE  StoreInv'
PROOF
  <1>0. PICK t : t = LeastOf(tx[b].todo)
    OBVIOUS
  <1> DEFINE left == tx[b].todo \ {t}
             hs == HandsIn({t})
             row == HelperRow(info, hs, StageSeen(hs), OrderSeen(b, hs))
             pc == IF left = {} THEN "delete" ELSE "helper"
             built == Over([x \in {t} |-> row], tx[b].helper)
             new == WithHelper(tx[b], pc, left, built)
  <1>1. At(b, "helper") /\ ~Unordered(b, t) /\ Stays
    BY <1>0 DEF StoreHelper
  <1>2. /\ b \in Sessions /\ b # ZoneChange
        /\ Progress(b) /\ OrderHeld(b) /\ RowsHeld(b)
    BY BundlesAssumption DEF StoreInv, Sessions, ZoneChange
  <1>3. /\ DOMAIN tx' = Sessions /\ \A q \in Sessions \ {b} : tx'[q] = tx[q]
        /\ tx'[b].pc = pc /\ tx'[b].todo = left /\ tx'[b].helper = built
        /\ tx'[b].scope = tx[b].scope /\ tx'[b].order = tx[b].order
        /\ tx'[b].gone = tx[b].gone /\ tx'[b].rows = tx[b].rows
        /\ IsTx(tx'[b])
    <2>1. tx' = [tx EXCEPT ![b] = new]
      BY <1>0 DEF StoreHelper, WithHelper, SourceHands
    <2> HIDE DEF new, pc, left, built
    <2>2. Moves(b, new) /\ IsTx(tx[b])
      BY <1>2, <2>1, Moved
    <2>3. /\ new.pc = pc /\ new.todo = left /\ new.helper = built
          /\ new.scope = tx[b].scope /\ new.order = tx[b].order
          /\ new.gone = tx[b].gone /\ new.rows = tx[b].rows /\ IsTx(new)
      BY <2>2, HelperFields DEF new
    <2> QED BY <2>2, <2>3 DEF Moves
  <1>4. t \in tx[b].todo /\ tx[b].todo \subseteq tx[b].scope /\ t \in Tournaments
    <2>1. /\ tx[b].todo # {} /\ tx[b].todo \subseteq tx[b].scope /\ tx[b].scope \subseteq Tournaments
      BY <1>1, <1>2 DEF Progress
    <2>2. LeastOf(tx[b].todo) \in tx[b].todo
      BY <2>1, LeastIsMember, InfoAssumption
    <2> QED BY <1>0, <2>1, <2>2
  <1>5. UNCHANGED <<fin, hand, Stored>> /\ (\A ts : UNCHANGED HandsIn(ts))
        /\ (\A h : UNCHANGED Published(h)) /\ UNCHANGED InScope(b)
    <2>1. UNCHANGED <<fin, hand>>
      BY <1>1 DEF Stays, core
    <2>2. UNCHANGED Stored
      BY <2>1 DEF Stored
    <2>3. (\A ts : UNCHANGED HandsIn(ts)) /\ (\A h : UNCHANGED Published(h))
      BY <2>1, <2>2 DEF HandsIn, Published
    <2>4. UNCHANGED InScope(b)
      BY <1>2, <1>3, <2>3 DEF InScope
    <2> QED BY <2>1, <2>2, <2>3, <2>4
  <1>6. tx[b].pc = "helper" /\ tx'[b].pc \in {"delete", "helper"}
    BY <1>1, <1>3 DEF At
  <1>7. Ordered(b) = tx[b].scope /\ Ordered(b)' = tx[b].scope
    BY <1>3, <1>6 DEF Ordered, At
  <1>8. Helped(b) = tx[b].scope \ tx[b].todo /\ Helped(b)' = Helped(b) \cup {t}
    <2>1. CASE left = {}
      <3>1. tx[b].pc = "helper" /\ tx'[b].pc = "delete" /\ tx[b].todo = {t}
        BY <1>3, <1>4, <1>6, <2>1
      <3> QED BY <1>3, <1>4, <3>1 DEF Helped, At
    <2>2. CASE left # {}
      <3>1. tx[b].pc = "helper" /\ tx'[b].pc = "helper"
        BY <1>3, <1>6, <2>2
      <3> QED BY <1>3, <1>4, <3>1 DEF Helped, At
    <2> QED BY <2>1, <2>2
  <1>9. UNCHANGED LockedHands(b) /\ \A u : UNCHANGED LockedOf(b, u)
    BY <1>3 DEF LockedHands, LockedOf
  <1>10. /\ DOMAIN tx'[b].helper = Helped(b)' /\ tx'[b].helper[t] = row
         /\ \A u \in Helped(b) : tx'[b].helper[u] = tx[b].helper[u]
    <2> HIDE DEF row
    <2>1. DOMAIN tx[b].helper = Helped(b) /\ t \notin Helped(b)
      BY <1>2, <1>4, <1>8 DEF Progress
    <2>2. /\ DOMAIN built = {t} \cup DOMAIN tx[b].helper /\ built[t] = row
          /\ \A u \in DOMAIN tx[b].helper \ {t} : built[u] = tx[b].helper[u]
      BY DEF Over
    <2> HIDE DEF built
    <2> QED BY <1>3, <1>8, <2>1, <2>2
  <1> HIDE DEF built
  <1>11. LockedOf(b, t) = hs
    <2>1. HoldsAll(b, t)
      BY <1>2, <1>4, <1>7 DEF OrderHeld
    <2>2. \A h \in hs : OrderSeen(b, hs)[h] # 0
      BY <1>1 DEF Unordered, SourceHands
    <2>3. ASSUME NEW h \in hs PROVE h \in LockedOf(b, t)
      <3>1. CASE h \in LockedHands(b)
        BY <2>3, <3>1 DEF LockedOf, HandsIn
      <3>2. CASE h \notin LockedHands(b)
        <4>1. OrderSeen(b, hs)[h] = hand[h].order
          BY <2>3, <3>2 DEF OrderSeen
        <4>2. h \notin LockedOf(b, t)
          BY <3>2 DEF LockedOf
        <4>3. hand[h].order = 0
          BY <2>1, <2>3, <4>2 DEF HoldsAll
        <4> QED BY <2>2, <2>3, <4>1, <4>3
      <3> QED BY <3>1, <3>2
    <2>4. LockedOf(b, t) \subseteq hs
      BY <1>2 DEF LockedOf, Progress, HandsIn
    <2> QED BY <2>3, <2>4
  <1>12. Progress(b)'
    <2>1. ~At(b, "idle") /\ ~At(b, "idle")' /\ ~At(b, "order")'
      BY <1>6 DEF At
    <2>2. At(b, "helper")' => tx'[b].todo # {} /\ tx'[b].todo \subseteq tx'[b].scope
      BY <1>3, <1>4 DEF At
    <2>3. tx'[b].scope \subseteq Tournaments
      BY <1>2, <1>3 DEF Progress
    <2>4. \A h \in LockedHands(b)' : h \in Stored' /\ info[h].tournament \in Ordered(b)'
      BY <1>2, <1>5, <1>7, <1>9 DEF Progress
    <2>5. \A h \in Stored' : hand'[h].by = b => info[h].tournament \in tx'[b].scope
      BY <1>2, <1>3, <1>5, <2>1 DEF Progress
    <2>6. fin'[b] = "running" /\ DOMAIN tx'[b].helper = Helped(b)'
      BY <1>2, <1>5, <1>10, <2>1 DEF Progress
    <2> QED BY <2>1, <2>2, <2>3, <2>4, <2>5, <2>6 DEF Progress
  <1>13. OrderHeld(b)'
    <2>1. \A u \in tx'[b].scope : HandsIn({u})' # {}
      BY <1>2, <1>3, <1>5 DEF OrderHeld
    <2>2. ASSUME NEW u \in Ordered(b)' PROVE HoldsAll(b, u)'
      <3>1. HoldsAll(b, u)
        BY <1>2, <1>7, <2>2 DEF OrderHeld
      <3> QED BY <1>3, <1>5, <1>9, <3>1 DEF HoldsAll
    <2>3. \A u : StageSeen(LockedOf(b, u))' = StageSeen(LockedOf(b, u))
      BY <1>5, <1>9 DEF StageSeen
    <2>4. ASSUME NEW u \in Helped(b) PROVE HelperHeld(b, u)'
      <3>1. HelperHeld(b, u)
        BY <1>2, <2>4 DEF OrderHeld
      <3> QED BY <1>3, <1>9, <1>10, <2>3, <2>4, <3>1 DEF HelperHeld
    <2>5. HelperHeld(b, t)'
      <3>1. OrderSeen(b, hs) = [h \in hs |-> tx[b].order[h]]
        BY <1>11 DEF OrderSeen, LockedOf
      <3>2. tx'[b].helper[t] = HelperRow(info, hs, StageSeen(hs), [h \in hs |-> tx[b].order[h]])
        BY <1>10, <3>1
      <3> HIDE DEF row, hs
      <3> QED BY <1>3, <1>9, <1>11, <2>3, <3>2 DEF HelperHeld
    <2>6. \A u \in Helped(b)' : HelperHeld(b, u)'
      BY <1>8, <2>4, <2>5
    <2> QED BY <2>1, <2>2, <2>6 DEF OrderHeld
  <1>14. RowsHeld(b)' /\ PendingRows(b)' = {}
    <2>1. ~At(b, "rows") /\ ~At(b, "streets") /\ ~At(b, "rows")' /\ ~At(b, "streets")'
      BY <1>6 DEF At
    <2>2. PendingRows(b)' = {} /\ DeletedRows(b)' = {}
      BY <1>2, <1>3, <2>1 DEF RowsHeld, PendingRows, DeletedRows
    <2> QED BY <2>1, <2>2 DEF RowsHeld
  <1>15. \A c \in Bundles \ {b} : Ordered(b)' \cap Ordered(c) = {}
    BY <1>7 DEF StoreInv, OrderApart
  <1> QED
    <2>1. \A q \in Sessions \ {b} : PendingRows(b)' \cap PendingRows(q) = {}
      BY <1>14
    <2> HIDE DEF hs, row, left, pc
    <2> QED BY <1>1, <1>2, <1>3, <1>12, <1>13, <1>14, <1>15, <2>1, StatementKeeps, StaysQuiet
(* Materializing leaves order, scope and helper rows alone.                *)
LEMMA LaterStatement ==
  ASSUME StoreInv, Stays, NEW b \in Bundles,
         tx[b].pc \in {"delete", "rows", "streets"}, tx'[b].pc \in {"delete", "rows", "streets"},
         tx'[b].scope = tx[b].scope, tx'[b].order = tx[b].order, tx'[b].helper = tx[b].helper
  PROVE  Progress(b)' /\ OrderHeld(b)' /\ Ordered(b)' = Ordered(b)
PROOF
  <1>1. Progress(b) /\ OrderHeld(b)
    BY DEF StoreInv
  <1>2. /\ UNCHANGED <<Ordered(b), Helped(b), LockedHands(b)>>
        /\ ~At(b, "idle") /\ ~At(b, "idle")'
        /\ ~At(b, "order")' /\ ~At(b, "helper")'
    BY DEF Ordered, Helped, At, LockedHands
  <1>3. UNCHANGED <<fin, hand, Stored>> /\ (\A ts : UNCHANGED HandsIn(ts))
        /\ (\A h : UNCHANGED Published(h)) /\ \A t : UNCHANGED LockedOf(b, t)
    BY <1>2 DEF Stays, core, Stored, HandsIn, Published, LockedOf
  <1>4. Progress(b)'
    BY <1>1, <1>2, <1>3 DEF Progress
  <1>5. OrderHeld(b)'
    <2>1. \A t : StageSeen(LockedOf(b, t))' = StageSeen(LockedOf(b, t))
      BY <1>3 DEF StageSeen
    <2>2. ASSUME NEW t \in Ordered(b)' PROVE HoldsAll(b, t)'
      <3>1. HoldsAll(b, t)
        BY <1>1, <1>2, <2>2 DEF OrderHeld
      <3> QED BY <1>3, <3>1 DEF HoldsAll
    <2>3. ASSUME NEW t \in Helped(b)' PROVE HelperHeld(b, t)'
      <3>1. HelperHeld(b, t)
        BY <1>1, <1>2, <2>3 DEF OrderHeld
      <3> QED BY <1>3, <2>1, <3>1 DEF HelperHeld
    <2>4. \A t \in tx'[b].scope : HandsIn({t})' # {}
      BY <1>1, <1>3 DEF OrderHeld
    <2> QED BY <2>2, <2>3, <2>4 DEF OrderHeld
  <1> QED BY <1>2, <1>4, <1>5

WithGone(r, gone) == [r EXCEPT !.pc = "rows", !.gone = gone]
WithRows(r, rows) == [r EXCEPT !.pc = "streets", !.rows = rows]
WithScan(r, pc, scan, order) == [r EXCEPT !.pc = pc, !.scan = scan, !.order = order]

(* The fields of the statements that materialize, and of a zone change.    *)
LEMMA RowFields ==
  ASSUME NEW r, IsTx(r), NEW x
  PROVE  /\ LET new == WithGone(r, x)
            IN /\ new.pc = "rows" /\ new.gone = x /\ new.rows = r.rows
               /\ new.scope = r.scope /\ new.order = r.order /\ new.helper = r.helper
               /\ new.seen = r.seen /\ IsTx(new)
         /\ LET new == WithRows(r, x)
            IN /\ new.pc = "streets" /\ new.rows = x /\ new.gone = r.gone
               /\ new.scope = r.scope /\ new.order = r.order /\ new.helper = r.helper
               /\ new.seen = r.seen /\ IsTx(new)
BY DEF IsTx, WithGone, WithRows

(* The fields that a scan of the zone change leaves.                       *)
LEMMA ScanFields ==
  ASSUME NEW r, IsTx(r), NEW pc, NEW scan, NEW order
  PROVE  LET new == WithScan(r, pc, scan, order)
         IN /\ new.pc = pc /\ new.gone = r.gone /\ new.rows = r.rows /\ IsTx(new)
            /\ new.order = order /\ new.seen = r.seen
BY DEF IsTx, WithScan

(* What is in scope of a transaction and what hands there are does not     *)
(* change within it.                                                       *)
LEMMA ScopeStays ==
  ASSUME Stays, NEW p, tx'[p].scope = tx[p].scope
  PROVE  UNCHANGED InScope(p) /\ InScope(p) \subseteq Stored
PROOF
  <1>1. UNCHANGED hand
    BY DEF Stays, core
  <1>2. UNCHANGED Stored /\ \A ts : UNCHANGED HandsIn(ts)
    BY <1>1 DEF Stored, HandsIn
  <1> QED BY <1>2 DEF InScope, HandsIn

(* A statement that neither locks hands nor scans keeps what the zone      *)
(* change holds.                                                           *)
LEMMA ZoneStays ==
  ASSUME StoreInv, Stays, tx'[ZoneChange].order = tx[ZoneChange].order,
         tx'[ZoneChange].seen = tx[ZoneChange].seen
  PROVE  ZoneHeld'
PROOF
  <1>1. UNCHANGED Stored
    BY DEF Stays, core, Stored
  <1> QED BY <1>1 DEF StoreInv, ZoneHeld, LockedHands, ZoneChange

(* DELETE of the features in scope: they are gone for this transaction     *)
(* only.                                                                   *)
LEMMA DeleteKeeps ==
  ASSUME StoreInv, NEW p \in Sessions, DeleteFeatures(p)
  PROVE  StoreInv'
PROOF
  <1> DEFINE gone == Featured(p)
  <1>1. At(p, "delete") /\ Stays /\ tx' = [tx EXCEPT ![p] = WithGone(tx[p], gone)]
    BY DEF DeleteFeatures, WithGone
  <1>2. gone \subseteq InScope(p)
    BY DEF Featured
  <1> HIDE DEF gone
  <1>3. Moves(p, WithGone(tx[p], gone)) /\ IsTx(tx[p])
    BY <1>1, Moved
  <1>4. /\ DOMAIN tx' = Sessions /\ (\A q \in Sessions \ {p} : tx'[q] = tx[q]) /\ IsTx(tx'[p])
        /\ tx'[p].pc = "rows" /\ tx'[p].gone = gone /\ tx'[p].rows = tx[p].rows
        /\ tx'[p].scope = tx[p].scope /\ tx'[p].order = tx[p].order /\ tx'[p].helper = tx[p].helper
        /\ tx'[p].seen = tx[p].seen
    BY <1>3, RowFields DEF Moves
  <1>5. tx[p].pc = "delete" /\ RowsHeld(p)
    BY <1>1 DEF At, StoreInv
  <1>6. p \in Bundles => Progress(p)' /\ OrderHeld(p)' /\ Ordered(p)' = Ordered(p)
    BY <1>1, <1>4, <1>5, LaterStatement
  <1>7. PendingRows(p)' = {}
    BY <1>4, <1>5 DEF RowsHeld, At, PendingRows
  <1>8. RowsHeld(p)'
    <2>1. DeletedRows(p)' \subseteq InScope(p)'
      BY <1>1, <1>2, <1>4, ScopeStays DEF DeletedRows
    <2> QED BY <1>4, <1>7, <2>1 DEF RowsHeld, At
  <1>9. \A c \in Bundles \ {p} : p \in Bundles => Ordered(p)' \cap Ordered(c) = {}
    BY <1>6 DEF StoreInv, OrderApart
  <1>10. p = ZoneChange => ZoneHeld'
    BY <1>1, <1>4, ZoneStays
  <1> QED BY <1>1, <1>4, <1>6, <1>7, <1>8, <1>9, <1>10, StatementKeeps, StaysQuiet

(* INSERT of the feature rows, from the hands as they are stored then.     *)
LEMMA InsertKeeps ==
  ASSUME StoreInv, NEW p \in Sessions, InsertRows(p)
  PROVE  StoreInv'
PROOF
  <1> DEFINE facts == InScope(p)
             rows == [h \in facts |-> FeatureRow(hand[h].stage, hand[h].results)]
  <1>1. /\ At(p, "rows") /\ Stays /\ tx' = [tx EXCEPT ![p] = WithRows(tx[p], rows)]
        /\ \A q \in Others(p) : PendingRows(q) \cap facts = {}
    BY DEF InsertRows, WithRows
  <1>2. DOMAIN rows = facts /\ \A h \in facts : rows[h] = FeatureRow(hand[h].stage, hand[h].results)
    OBVIOUS
  <1> HIDE DEF rows
  <1>3. Moves(p, WithRows(tx[p], rows)) /\ IsTx(tx[p])
    BY <1>1, Moved
  <1>4. /\ DOMAIN tx' = Sessions /\ (\A q \in Sessions \ {p} : tx'[q] = tx[q]) /\ IsTx(tx'[p])
        /\ tx'[p].pc = "streets" /\ tx'[p].gone = tx[p].gone /\ tx'[p].rows = rows
        /\ tx'[p].scope = tx[p].scope /\ tx'[p].order = tx[p].order /\ tx'[p].helper = tx[p].helper
        /\ tx'[p].seen = tx[p].seen
    BY <1>3, RowFields DEF Moves
  <1>5. tx[p].pc = "rows" /\ RowsHeld(p)
    BY <1>1 DEF At, StoreInv
  <1>6. p \in Bundles => Progress(p)' /\ OrderHeld(p)' /\ Ordered(p)' = Ordered(p)
    BY <1>1, <1>4, <1>5, LaterStatement
  <1>7. UNCHANGED <<hand, Stored>> /\ InScope(p)' = facts /\ facts \subseteq Stored
    <2>1. UNCHANGED hand
      BY <1>1 DEF Stays, core
    <2>2. UNCHANGED Stored
      BY <2>1 DEF Stored
    <2>3. InScope(p)' = facts /\ facts \subseteq Stored
      BY <1>1, <1>4, ScopeStays
    <2> QED BY <2>1, <2>2, <2>3
  <1>8. \A h \in Stored : hand[h].by = p => h \in facts
    <2>1. CASE p \in Bundles
      <3>1. Progress(p) /\ ~At(p, "idle")
        BY <1>5, <2>1 DEF StoreInv, At
      <3>2. p # ZoneChange
        BY <2>1, BundlesAssumption DEF ZoneChange
      <3> QED BY <3>1, <3>2 DEF Progress, InScope, HandsIn
    <2>2. CASE p \notin Bundles
      BY <2>2 DEF StoreInv, TypeOK
    <2> QED BY <2>1, <2>2
  <1>9. PendingRows(p)' = facts /\ DeletedRows(p)' = DeletedRows(p) /\ DeletedRows(p) \subseteq facts
    BY <1>2, <1>4, <1>5 DEF PendingRows, DeletedRows, RowsHeld
  <1>10. RowsHeld(p)'
    <2>1. \A h \in PendingRows(p)' :
            tx'[p].rows[h] = FeatureRow(hand'[h].stage, hand'[h].results)
      BY <1>2, <1>4, <1>7, <1>9
    <2> HIDE DEF facts
    <2> QED BY <1>4, <1>7, <1>8, <1>9, <2>1 DEF RowsHeld, At
  <1>11. \A c \in Bundles \ {p} : p \in Bundles => Ordered(p)' \cap Ordered(c) = {}
    BY <1>6 DEF StoreInv, OrderApart
  <1>12. \A q \in Sessions \ {p} : PendingRows(p)' \cap PendingRows(q) = {}
    BY <1>1, <1>9 DEF Others
  <1>13. p = ZoneChange => ZoneHeld'
    BY <1>1, <1>4, ZoneStays
  <1> QED BY <1>1, <1>4, <1>6, <1>10, <1>11, <1>12, <1>13, StatementKeeps, StaysQuiet

(* The zone change up to its materialization, and its end without commit.  *)
LEMMA ZoneStatementKeeps ==
  ASSUME StoreInv, Quiet(ZoneChange), DOMAIN tx' = Sessions,
         \A q \in Sessions \ {ZoneChange} : tx'[q] = tx[q], IsTx(tx'[ZoneChange]),
         tx'[ZoneChange].pc # "streets", DOMAIN tx'[ZoneChange].rows = {},
         tx'[ZoneChange].gone = {}, ZoneHeld'
  PROVE  StoreInv'
PROOF
  <1>1. ZoneChange \in Sessions /\ ZoneChange \notin Bundles
    BY BundlesAssumption DEF Sessions, ZoneChange
  <1>2. PendingRows(ZoneChange)' = {} /\ DeletedRows(ZoneChange)' = {}
    BY DEF PendingRows, DeletedRows, ZoneChange
  <1>3. RowsHeld(ZoneChange)'
    BY <1>2 DEF RowsHeld, At, ZoneChange
  <1>4. \A q \in Sessions \ {ZoneChange} : PendingRows(ZoneChange)' \cap PendingRows(q) = {}
    BY <1>2
  <1> QED BY <1>1, <1>3, <1>4, StatementKeeps

(* A zone change begins and reads the hands.                               *)
LEMMA SetZoneKeeps ==
  ASSUME StoreInv, NEW zone, SetZone(zone)
  PROVE  StoreInv'
PROOF
  <1>1. PICK scan :
          tx' = [tx EXCEPT ![ZoneChange] =
            [Idle EXCEPT !.pc = IF scan = <<>> THEN "delete" ELSE "hands",
                         !.scan = scan, !.seen = Stored, !.zone = zone,
                         !.tournaments = {t \in Tournaments : tournament[t].by # None}]]
    BY Zenon DEF SetZone
  <1> DEFINE pc == IF scan = <<>> THEN "delete" ELSE "hands"
             seen == Stored
             held == {t \in Tournaments : tournament[t].by # None}
             new == [Idle EXCEPT !.pc = pc, !.scan = scan, !.seen = seen, !.zone = zone,
                                 !.tournaments = held]
  <1>2. tx' = [tx EXCEPT ![ZoneChange] = new]
    BY <1>1
  <1>3. pc # "streets"
    OBVIOUS
  <1> HIDE DEF pc, seen, held
  <1>4. IsTx(new) /\ new.pc = pc /\ new.rows = NoFn /\ new.gone = {}
    BY DEF IsTx, Idle
  <1> HIDE DEF new
  <1>5. ZoneChange \in Sessions /\ Quiet(ZoneChange)
    BY DEF Sessions, Quiet, SetZone, core, StoreInv, TypeOK
  <1>6. Moves(ZoneChange, new)
    BY <1>2, <1>5, Moved
  <1>7. DOMAIN NoFn = {}
    BY DEF NoFn
  <1>8. ZoneHeld'
    <2>1. seen = Stored /\ UNCHANGED Stored
      BY DEF seen, SetZone, core, Stored
    <2>2. new.seen = seen /\ new.order = NoFn
      BY DEF new, Idle
    <2>3. tx'[ZoneChange].seen = Stored' /\ DOMAIN tx'[ZoneChange].order = {}
      BY <1>6, <1>7, <2>1, <2>2 DEF Moves
    <2> QED BY <2>3 DEF ZoneHeld, LockedHands, ZoneChange
  <1> QED BY <1>3, <1>4, <1>5, <1>6, <1>7, <1>8, ZoneStatementKeeps DEF Moves

(* It locks the hands of one tournament after the other.                   *)
LEMMA UpdateZonesKeeps ==
  ASSUME StoreInv, UpdateZones
  PROVE  StoreInv'
PROOF
  <1> DEFINE pc == IF Len(tx[ZoneChange].scan) = 1 THEN "delete" ELSE "hands"
             scan == Tail(tx[ZoneChange].scan)
             order == Over([h \in ZoneTargets |-> 0], tx[ZoneChange].order)
             new == WithScan(tx[ZoneChange], pc, scan, order)
  <1>1. Stays /\ At(ZoneChange, "hands") /\ tx' = [tx EXCEPT ![ZoneChange] = new]
    BY DEF UpdateZones, WithScan
  <1>2. pc # "streets"
    OBVIOUS
  <1>3. ZoneChange \in Sessions /\ Quiet(ZoneChange) /\ RowsHeld(ZoneChange)
    BY <1>1, StaysQuiet DEF Sessions, StoreInv
  <1> HIDE DEF pc, scan, order
  <1>4. Moves(ZoneChange, new) /\ IsTx(tx[ZoneChange])
    BY <1>1, <1>3, Moved
  <1>5. /\ new.pc = pc /\ new.gone = tx[ZoneChange].gone /\ new.rows = tx[ZoneChange].rows
        /\ IsTx(new)
    BY <1>4, ScanFields
  <1>6. tx[ZoneChange].gone = {} /\ DOMAIN tx[ZoneChange].rows = {}
    BY <1>1, <1>3 DEF RowsHeld, At, PendingRows, DeletedRows
  <1>7. new.seen = tx[ZoneChange].seen /\ new.order = order
    BY <1>4, ScanFields
  <1> HIDE DEF new
  <1>8. ZoneHeld'
    <2>1. UNCHANGED Stored
      BY <1>1 DEF Stays, core, Stored
    <2>2. DOMAIN order = ZoneTargets \cup LockedHands(ZoneChange)
      BY DEF order, Over, LockedHands
    <2>3. ZoneTargets \subseteq tx[ZoneChange].seen
      BY DEF ZoneTargets
    <2>4. tx'[ZoneChange].seen = tx[ZoneChange].seen /\ LockedHands(ZoneChange)' = DOMAIN order
      BY <1>4, <1>7 DEF Moves, LockedHands, ZoneChange
    <2> QED BY <2>1, <2>2, <2>3, <2>4 DEF StoreInv, ZoneHeld, ZoneChange
  <1> QED BY <1>2, <1>3, <1>4, <1>5, <1>6, <1>8, ZoneStatementKeeps DEF Moves

(* A session without a transaction holds nothing.                          *)
LEMMA IdleFields ==
  /\ IsTx(Idle) /\ Idle.seen = {} /\ Idle.pc = "idle" /\ Idle.gone = {} /\ DOMAIN Idle.rows = {}
  /\ Idle.scope = {} /\ Idle.todo = {} /\ DOMAIN Idle.order = {} /\ DOMAIN Idle.helper = {}
BY DEF IsTx, Idle, NoFn

(* A zone change that is rolled back.                                      *)
LEMMA RollbackKeeps ==
  ASSUME StoreInv, Rollback
  PROVE  StoreInv'
PROOF
  <1>1. Stays /\ tx' = [tx EXCEPT ![ZoneChange] = Idle]
    BY DEF Rollback
  <1>2. ZoneChange \in Sessions /\ Quiet(ZoneChange)
    BY <1>1, StaysQuiet DEF Sessions
  <1>3. Moves(ZoneChange, Idle)
    BY <1>1, <1>2, Moved
  <1>4. ZoneHeld'
    BY <1>3, IdleFields DEF Moves, ZoneHeld, LockedHands, ZoneChange
  <1> QED BY <1>2, <1>3, <1>4, IdleFields, ZoneStatementKeeps DEF Moves

(* The end of a finalize transaction, and its beginning.                   *)
LEMMA IdleHolds ==
  ASSUME StoreInv, NEW b \in Bundles, Quiet(b), fin'[b] # "running",
         DOMAIN tx' = Sessions, \A q \in Sessions \ {b} : tx'[q] = tx[q], tx'[b] = Idle
  PROVE  StoreInv'
PROOF
  <1>1. /\ At(b, "idle")' /\ ~At(b, "order")' /\ ~At(b, "helper")'
        /\ ~At(b, "rows")' /\ ~At(b, "streets")'
    BY IdleFields DEF At
  <1>2. /\ Ordered(b)' = {} /\ Helped(b)' = {} /\ LockedHands(b)' = {}
        /\ PendingRows(b)' = {} /\ DeletedRows(b)' = {}
    BY <1>1, IdleFields DEF Ordered, Helped, LockedHands, PendingRows, DeletedRows, At
  <1>3. Progress(b)'
    <2>1. tx'[b] = Idle /\ Idle' = Idle
      BY DEF Idle, NoFn
    <2> QED BY <1>1, <1>2, <2>1, IdleFields DEF Progress
  <1>4. OrderHeld(b)'
    BY <1>2, IdleFields DEF OrderHeld
  <1>5. RowsHeld(b)'
    BY <1>1, <1>2 DEF RowsHeld
  <1>6. b \in Sessions /\ b # ZoneChange
    BY BundlesAssumption DEF Sessions, ZoneChange
  <1> QED BY <1>2, <1>3, <1>4, <1>5, <1>6, IdleFields, StatementKeeps

(* A finalize that is rolled back and tried again or given up.             *)
LEMMA AbortKeeps ==
  ASSUME StoreInv, NEW b \in Bundles, ~At(b, "idle"), Abort(b)
  PROVE  StoreInv'
PROOF
  <1>1. /\ tx' = [tx EXCEPT ![b] = Idle] /\ UNCHANGED <<job, core>>
        /\ fin' = [fin EXCEPT ![b] = IF tries[b] < MaxAttempts THEN "queued" ELSE "failed"]
    BY DEF Abort
  <1>2. fin[b] = "running" /\ fin \in [Bundles -> JobStates]
    BY DEF StoreInv, Progress, TypeOK
  <1>3. Quiet(b) /\ fin'[b] # "running"
    BY <1>1, <1>2 DEF Quiet, core, JobStates
  <1>4. Moves(b, Idle)
    BY <1>1, Moved DEF Sessions
  <1> QED BY <1>3, <1>4, IdleHolds DEF Moves

(* A finalize begins with the tournaments of its bundle, all file jobs of  *)
(* which are over.                                                         *)
LEMMA FinalizeBeginKeeps ==
  ASSUME StoreInv, NEW b \in Bundles, FinalizeBegin(b)
  PROVE  StoreInv'
PROOF
  <1> DEFINE ts == TournamentsOf(b)
             pc == IF ts = {} THEN "delete" ELSE "order"
             new == [Idle EXCEPT !.pc = pc, !.todo = ts, !.scope = ts]
  <1>1. /\ fin[b] = "queued" /\ fin' = [fin EXCEPT ![b] = "running"]
        /\ tx' = [tx EXCEPT ![b] = new] /\ UNCHANGED <<job, core>>
    BY DEF FinalizeBegin
  <1>2. /\ ts \subseteq Tournaments
        /\ \A h \in Stored : hand[h].by = b => info[h].tournament \in ts
        /\ \A t \in ts : HandsIn({t}) # {}
    <2>1. \A h \in Stored : h \in Hands /\ hand[h].by # None
      BY BundlesAssumption DEF StoreInv, TypeOK, Stored
    <2> QED BY <2>1, InfoAssumption DEF TournamentsOf, FromArchiveOf, HandsIn
  <1>3. pc \in {"delete", "order"} /\ (pc = "order" <=> ts # {})
    OBVIOUS
  <1> HIDE DEF ts, pc
  <1>4. /\ IsTx(new) /\ new.pc = pc /\ new.scope = ts /\ new.todo = ts
        /\ new.gone = {} /\ new.rows = NoFn /\ new.order = NoFn /\ new.helper = NoFn
    BY DEF IsTx, Idle
  <1> HIDE DEF new
  <1>5. b \in Sessions /\ b # ZoneChange
    BY BundlesAssumption DEF Sessions, ZoneChange
  <1>6. DOMAIN tx' = Sessions /\ tx'[b] = new /\ \A q \in Sessions \ {b} : tx'[q] = tx[q]
    BY <1>1, <1>5, Moved DEF Moves
  <1>7. Quiet(b) /\ fin'[b] = "running"
    BY <1>1 DEF Quiet, core, StoreInv, TypeOK, JobStates
  <1>8. /\ UNCHANGED <<hand, Stored>> /\ \A u : UNCHANGED HandsIn(u)
    BY <1>7, QuietPublishes DEF Quiet
  <1>9. DOMAIN NoFn = {}
    BY DEF NoFn
  <1>10. tx'[b].pc = pc /\ tx'[b].scope = ts /\ tx'[b].todo = ts /\ IsTx(tx'[b])
    BY <1>4, <1>6
  <1>11. /\ LockedHands(b)' = {} /\ PendingRows(b)' = {} /\ DeletedRows(b)' = {}
         /\ DOMAIN tx'[b].helper = {}
    BY <1>4, <1>6, <1>9 DEF LockedHands, PendingRows, DeletedRows
  <1>12. Ordered(b)' = {} /\ Helped(b)' = {}
    BY <1>3, <1>10 DEF Ordered, Helped, At
  <1>13. ~At(b, "idle")' /\ ~At(b, "helper")' /\ (At(b, "order")' => ts # {})
         /\ ~At(b, "rows")' /\ ~At(b, "streets")'
    BY <1>3, <1>10 DEF At
  <1>14. Progress(b)'
    BY <1>2, <1>7, <1>8, <1>10, <1>11, <1>12, <1>13 DEF Progress
  <1>15. OrderHeld(b)'
    BY <1>2, <1>8, <1>10, <1>12 DEF OrderHeld
  <1>16. RowsHeld(b)'
    BY <1>11, <1>13 DEF RowsHeld
  <1> QED BY <1>5, <1>6, <1>7, <1>10, <1>11, <1>12, <1>14, <1>15, <1>16, StatementKeeps
-----------------------------------------------------------------------------
(* File jobs.                                                              *)

(* While a file job of a bundle has not ended there is no finalize job.    *)
LEMMA NoFinalizeYet ==
  ASSUME StoreInv, NEW j \in Jobs, job[j] \in {"queued", "running"}
  PROVE  j[1] \in Bundles /\ fin[j[1]] = "absent"
BY DEF StoreInv, BarrierHolds, Jobs

(* A new bundle has file jobs and nothing else.                            *)
LEMMA EnqueueKeeps ==
  ASSUME StoreInv, NEW b \in Bundles, Enqueue(b)
  PROVE  StoreInv'
PROOF
  <1>1. /\ UNCHANGED <<hand, features, helper, tx, fin>> /\ JobsOf(b) = {}
        /\ job' = [j \in Jobs |-> IF j \in Members(b) THEN "queued" ELSE job[j]]
    BY DEF Enqueue, core
  <1>2. \A j \in Members(b) : j[1] = b
    BY DEF Members
  <1>3. job' \in [Jobs -> JobStates] /\ fin' \in [Bundles -> JobStates]
    BY <1>1 DEF StoreInv, TypeOK, JobStates
  <1>4. fin[b] = "absent"
    BY <1>1 DEF StoreInv, BarrierHolds
  <1>5. \A j \in Jobs : j[1] # b => job'[j] = job[j]
    BY <1>1, <1>2
  <1>6. BarrierHolds'
    <2> SUFFICES ASSUME NEW c \in Bundles, fin'[c] # "absent"
                 PROVE  /\ JobsOf(c)' # {}
                        /\ \A j \in Jobs : j[1] = c => job'[j] \notin {"queued", "running"}
      BY DEF BarrierHolds
    <2>1. c # b /\ fin[c] # "absent"
      BY <1>1, <1>4
    <2>2. JobsOf(c)' = JobsOf(c)
      BY <1>5, <2>1 DEF JobsOf
    <2> QED BY <1>5, <2>1, <2>2 DEF StoreInv, BarrierHolds
  <1> QED BY <1>1, <1>3, <1>6, JobsKeep

(* An import reads the zone and writes nothing yet.                        *)
LEMMA FileBeginKeeps ==
  ASSUME StoreInv, NEW j \in Jobs, FileBegin(j)
  PROVE  StoreInv'
PROOF
  <1>1. /\ UNCHANGED <<hand, features, helper, tx, fin>> /\ job[j] = "queued"
        /\ job' = [job EXCEPT ![j] = "running"]
    BY DEF FileBegin, core
  <1>2. job' \in [Jobs -> JobStates] /\ fin' \in [Bundles -> JobStates]
    BY <1>1 DEF StoreInv, TypeOK, JobStates
  <1>3. fin[j[1]] = "absent" /\ job \in [Jobs -> JobStates]
    BY <1>1, NoFinalizeYet DEF StoreInv, TypeOK
  <1>4. \A i \in Jobs : i[1] # j[1] => job'[i] = job[i]
    BY <1>1, <1>3
  <1>5. BarrierHolds'
    <2> SUFFICES ASSUME NEW c \in Bundles, fin'[c] # "absent"
                 PROVE  /\ JobsOf(c)' # {}
                        /\ \A i \in Jobs : i[1] = c => job'[i] \notin {"queued", "running"}
      BY DEF BarrierHolds
    <2>1. c # j[1] /\ fin[c] # "absent"
      BY <1>1, <1>3
    <2>2. JobsOf(c)' = JobsOf(c)
      BY <1>4, <2>1 DEF JobsOf
    <2> QED BY <1>4, <2>1, <2>2 DEF StoreInv, BarrierHolds
  <1> QED BY <1>1, <1>2, <1>5, JobsKeep

(* The end of a file job makes the finalize job of its bundle due at most. *)
LEMMA FinishBarrier ==
  ASSUME StoreInv, NEW j \in Jobs, job[j] = "running",
         NEW status \in {"succeeded", "failed"}, Finish(j, status)
  PROVE  /\ job' \in [Jobs -> JobStates] /\ fin' \in [Bundles -> JobStates]
         /\ BarrierHolds' /\ UNCHANGED tx
         /\ \A b \in Bundles : \/ fin'[b] = fin[b]
                               \/ fin[b] = "absent" /\ fin'[b] = "queued"
PROOF
  <1> DEFINE b == j[1]
             dropped == IF status = "failed" /\ j[3] = "ts" THEN {<<j[1], j[2], "hh">>} ELSE {}
             after == [i \in Jobs |-> IF i = j THEN status
                                      ELSE IF i \in dropped THEN "failed" ELSE job[i]]
  <1>1. job' = after /\ fin' \in {fin, WithFinalize(after, b)} /\ UNCHANGED tx
    BY DEF Finish
  <1>2. b \in Bundles /\ fin[b] = "absent" /\ job \in [Jobs -> JobStates]
        /\ fin \in [Bundles -> JobStates]
    BY NoFinalizeYet DEF StoreInv, TypeOK
  <1>3. \A i \in dropped : i[1] = b
    OBVIOUS
  <1> HIDE DEF b, dropped
  <1>4. after \in [Jobs -> JobStates]
    BY <1>2 DEF JobStates
  <1>5. \A i \in Jobs : i[1] # b => after[i] = job[i]
    BY <1>3 DEF b
  <1>6. /\ after[j] \in {"succeeded", "failed"}
        /\ \A i \in Jobs : after[i] = job[i] \/ after[i] \in {"succeeded", "failed"}
    OBVIOUS
  <1> HIDE DEF after
  <1>7. \/ fin' = fin
        \/ /\ fin' = [fin EXCEPT ![b] = "queued"]
           /\ \A i \in JobsOf(b) : after[i] \in {"succeeded", "failed"}
    BY <1>1 DEF WithFinalize
  <1>8. /\ fin' \in [Bundles -> JobStates]
        /\ \A c \in Bundles : \/ fin'[c] = fin[c]
                              \/ fin[c] = "absent" /\ fin'[c] = "queued"
        /\ \A c \in Bundles : c # b => fin'[c] = fin[c]
    BY <1>2, <1>7 DEF JobStates
  <1>9. BarrierHolds'
    <2> SUFFICES ASSUME NEW c \in Bundles, fin'[c] # "absent"
                 PROVE  /\ JobsOf(c)' # {}
                        /\ \A i \in Jobs : i[1] = c => job'[i] \notin {"queued", "running"}
      BY DEF BarrierHolds
    <2>1. CASE c # b
      <3>1. fin[c] # "absent"
        BY <1>8, <2>1
      <3>2. JobsOf(c)' = JobsOf(c)
        BY <1>1, <1>5, <2>1 DEF JobsOf
      <3> QED BY <1>1, <1>5, <2>1, <3>1, <3>2 DEF StoreInv, BarrierHolds
    <2>2. CASE c = b
      <3>1. \A i \in JobsOf(b) : after[i] \in {"succeeded", "failed"}
        BY <1>2, <1>7, <2>2
      <3>2. j \in JobsOf(c)'
        BY <1>1, <1>6, <2>2 DEF JobsOf, b
      <3>3. ASSUME NEW i \in Jobs, i[1] = c PROVE after[i] \notin {"queued", "running"}
        <4>1. CASE i \in JobsOf(b)
          BY <3>1, <4>1
        <4>2. CASE i \notin JobsOf(b)
          <5>1. job[i] = "absent"
            BY <2>2, <3>3, <4>2 DEF JobsOf
          <5> QED BY <1>6, <5>1
        <4> QED BY <4>1, <4>2
      <3> QED BY <1>1, <3>2, <3>3
    <2> QED BY <2>1, <2>2
  <1> QED BY <1>1, <1>4, <1>8, <1>9

(* An import that stores no hands ends a file job.                         *)
LEMMA SummaryAndFailureKeep ==
  ASSUME StoreInv, NEW j \in Jobs, PersistSummary(j) \/ FileFails(j)
  PROVE  StoreInv'
PROOF
  <1>1. PICK status \in {"succeeded", "failed"} :
          Finish(j, status) /\ job[j] = "running" /\ UNCHANGED <<hand, features, helper>>
    BY DEF PersistSummary, FileFails, core
  <1> QED BY <1>1, FinishBarrier, JobsKeep
(* Hands that are stored, once more or for the first time, belong to a     *)
(* bundle that is not finalized yet, and no transaction holds them.        *)
LEMMA PersistHandsKeeps ==
  ASSUME StoreInv, NEW j \in Jobs, PersistHands(j)
  PROVE  StoreInv'
PROOF
  <1> DEFINE hs == doc[j].hands
             b0 == j[1]
             new == [h \in Hands |-> IF h \in hs THEN PersistedHand(j, h) ELSE hand[h]]
  <1>1. /\ job[j] = "running" /\ hand' = new /\ Finish(j, "succeeded")
        /\ UNCHANGED <<helper, features>>
        /\ \A p \in Sessions : LockedHands(p) \cap hs = {}
    BY DEF PersistHands
  <1>2. /\ job' \in [Jobs -> JobStates] /\ fin' \in [Bundles -> JobStates]
        /\ BarrierHolds' /\ tx' = tx
        /\ \A b \in Bundles : \/ fin'[b] = fin[b]
                              \/ fin[b] = "absent" /\ fin'[b] = "queued"
    BY <1>1, FinishBarrier
  <1>3. b0 \in Bundles /\ fin[b0] = "absent" /\ fin'[b0] \in {"absent", "queued"}
    BY <1>1, <1>2, NoFinalizeYet
  <1>4. /\ DOMAIN hand' = Hands
        /\ \A h \in Hands \ hs : hand'[h] = hand[h]
        /\ \A h \in Hands \cap hs :
             IsHand(hand'[h]) /\ hand'[h].by = b0 /\ hand'[h].order = hand[h].order
    BY <1>1 DEF PersistedHand, IsHand
  <1> HIDE DEF hs, b0, new
  <1>5. /\ \A h \in Hands : h \in Stored <=> hand[h] # NoHand
        /\ \A h \in Hands \cap hs : h \in Stored'
        /\ \A h \in Hands \ hs : h \in Stored' <=> h \in Stored
        /\ Stored \subseteq Hands /\ Stored' \subseteq Hands
    <2>1. \A h \in Hands \cap hs : hand'[h] # NoHand
      BY <1>3, <1>4, BundlesAssumption DEF NoHand
    <2>2. NoHand' = NoHand
      BY DEF NoHand
    <2> QED BY <1>4, <2>1, <2>2 DEF Stored
  <1>6. TypeOK'
    BY <1>1, <1>2, <1>3, <1>4, <1>5 DEF StoreInv, TypeOK
  <1>7. /\ \A h \in Hands \cap hs : ~Published(h)'
        /\ \A h \in Stored \ hs : Published(h)' <=> Published(h)
    <2>1. \A h \in Stored \ hs : hand[h].by \in Bundles /\ hand'[h] = hand[h]
      BY <1>4, <1>5 DEF StoreInv, TypeOK
    <2> QED BY <1>2, <1>3, <1>4, <2>1 DEF Published
  <1>8. \A ts : /\ HandsIn(ts) \subseteq HandsIn(ts)' /\ HandsIn(ts) \subseteq Stored
                /\ \A h \in HandsIn(ts)' : h \in Hands
                /\ \A h \in HandsIn(ts)' : h \in HandsIn(ts) \/ h \in hs
    BY <1>5 DEF HandsIn
  <1>9. ASSUME NEW b \in Bundles, ~At(b, "idle")
        PROVE  b # b0
    BY <1>3, <1>9 DEF StoreInv, Progress
  <1>10. \A b \in Bundles : Progress(b)'
    <2> SUFFICES ASSUME NEW b \in Bundles PROVE Progress(b)'
      OBVIOUS
    <2>1. Progress(b) /\ Idle' = Idle
      BY DEF StoreInv, Idle, NoFn
    <2>2. UNCHANGED <<Ordered(b), Helped(b), LockedHands(b)>> /\ \A pc : At(b, pc)' <=> At(b, pc)
      BY <1>2 DEF Ordered, Helped, LockedHands, At
    <2>3. fin'[b] = "running" <=> ~At(b, "idle")'
      BY <1>2, <2>1, <2>2 DEF Progress
    <2>4. \A h \in LockedHands(b)' : h \in Stored' /\ info[h].tournament \in Ordered(b)'
      BY <1>5, <2>1, <2>2 DEF Progress
    <2>5. \A h \in Stored' : hand'[h].by = b /\ ~At(b, "idle")' => info[h].tournament \in tx'[b].scope
      <3> SUFFICES ASSUME NEW h \in Stored', hand'[h].by = b, ~At(b, "idle")
                   PROVE  info[h].tournament \in tx[b].scope
        BY <1>2, <2>2
      <3>1. h \notin hs
        BY <1>4, <1>5, <1>9
      <3>2. h \in Stored /\ hand[h].by = b
        BY <1>4, <1>5, <3>1
      <3> QED BY <2>1, <3>2 DEF Progress
    <2> QED BY <1>2, <2>1, <2>2, <2>3, <2>4, <2>5 DEF Progress
  <1>11. \A p \in Sessions : RowsHeld(p)'
    <2> SUFFICES ASSUME NEW p \in Sessions PROVE RowsHeld(p)'
      OBVIOUS
    <2>1. RowsHeld(p)
      BY DEF StoreInv
    <2>2. UNCHANGED <<PendingRows(p), DeletedRows(p)>> /\ \A pc : At(p, pc)' <=> At(p, pc)
      BY <1>2 DEF PendingRows, DeletedRows, At
    <2>3. InScope(p) \subseteq InScope(p)' /\ InScope(p)' \subseteq Hands
      BY <1>2, <1>5, <1>8 DEF InScope
    <2>4. ASSUME NEW h \in Hands, hand'[h].by = p, h \in Stored', At(p, "streets")
          PROVE  h \notin hs
      <3>1. p \in Bundles
        BY <1>6, <2>4 DEF TypeOK
      <3>2. p # b0
        BY <1>9, <2>4, <3>1 DEF At
      <3> QED BY <1>4, <2>4, <3>2
    <2>5. At(p, "streets")' => \A h \in Stored' : hand'[h].by = p => h \in PendingRows(p)'
      <3> SUFFICES ASSUME At(p, "streets"), NEW h \in Stored', hand'[h].by = p
                   PROVE  h \in PendingRows(p)
        BY <2>2
      <3>1. h \notin hs /\ h \in Hands
        BY <1>5, <2>4
      <3> QED BY <1>4, <1>5, <2>1, <3>1 DEF RowsHeld
    <2>6. \A h \in PendingRows(p)' : Published(h)' \/ hand'[h].by = p =>
            tx'[p].rows[h] = FeatureRow(hand'[h].stage, hand'[h].results)
      <3> SUFFICES ASSUME NEW h \in PendingRows(p), Published(h)' \/ hand'[h].by = p
                   PROVE  tx[p].rows[h] = FeatureRow(hand'[h].stage, hand'[h].results)
        BY <1>2, <2>2
      <3>1. At(p, "streets") /\ h \in InScope(p)
        BY <2>1 DEF RowsHeld
      <3>2. h \in Stored /\ h \in Stored' /\ h \in Hands
        BY <1>5, <1>8, <3>1 DEF InScope
      <3>3. h \notin hs
        BY <1>7, <2>4, <3>1, <3>2
      <3>4. hand'[h] = hand[h] /\ (Published(h) \/ hand[h].by = p)
        BY <1>4, <1>7, <3>2, <3>3
      <3> QED BY <2>1, <3>4 DEF RowsHeld
    <2> QED BY <2>1, <2>2, <2>3, <2>5, <2>6 DEF RowsHeld
  <1>12. RowsApart' /\ OrderApart' /\ ZoneHeld'
    <2>1. RowsApart' /\ OrderApart'
      BY <1>2 DEF StoreInv, RowsApart, OrderApart, PendingRows, Ordered, At
    <2>2. ZoneHeld'
      BY <1>2, <1>5 DEF StoreInv, ZoneHeld, LockedHands, ZoneChange
    <2> QED BY <2>1, <2>2
  <1>13. FeaturesFollowRows'
    <2> SUFFICES ASSUME NEW h \in Stored', Published(h)'
                 PROVE  features'[h] = [row |-> FeatureRow(hand'[h].stage, hand'[h].results),
                                        street |-> TRUE]
      BY DEF FeaturesFollowRows
    <2>1. h \in Stored /\ hand'[h] = hand[h] /\ Published(h)
      BY <1>4, <1>5, <1>7
    <2> QED BY <1>1, <2>1 DEF StoreInv, FeaturesFollowRows
  <1>14. HelperFollowsRows'
    <2>1. ASSUME NEW t \in PublishedTournaments'
          PROVE  /\ OrdersOf(t)' = [h \in HandsIn({t})' |-> HandOrder(info, HandsIn({t})', h)]
                 /\ helper'[t] = HelperRow(info, HandsIn({t})', StageSeen(HandsIn({t}))', OrdersOf(t)')
      <3>1. t \in Tournaments /\ \A h \in HandsIn({t})' : Published(h)'
        BY DEF PublishedTournaments
      <3>2. \A h \in HandsIn({t})' : h \notin hs
        BY <1>7, <1>8, <3>1
      <3>3. UNCHANGED HandsIn({t})
        BY <1>8, <3>2
      <3>4. \A h \in HandsIn({t}) : hand'[h] = hand[h] /\ (Published(h)' => Published(h))
        BY <1>4, <1>5, <1>7, <1>8, <3>2, <3>3
      <3>5. HelperFollowsRows
        BY DEF StoreInv
      <3> QED BY <1>1, <3>1, <3>3, <3>4, <3>5, HelperStays
    <2> QED BY <2>1 DEF HelperFollowsRows
  <1>15. \A b \in Bundles : OrderHeld(b)'
    <2> SUFFICES ASSUME NEW b \in Bundles PROVE OrderHeld(b)'
      OBVIOUS
    <2>1. OrderHeld(b) /\ Progress(b) /\ b \in Sessions
      BY DEF StoreInv, Sessions
    <2>2. \A h \in LockedHands(b) : hand'[h].stage = hand[h].stage
      BY <1>1, <1>4, <1>5, <2>1 DEF Progress
    <2>3. ASSUME NEW t \in Ordered(b), NEW h \in HandsIn({t})' \ LockedOf(b, t)
          PROVE  hand'[h].order = 0 /\ ~Published(h)' /\ hand'[h].by # b
      <3>1. HoldsAll(b, t)
        BY <2>1 DEF OrderHeld
      <3>2. b # b0
        <4>1. ~At(b, "idle")
          <5> SUFFICES ASSUME At(b, "idle") PROVE FALSE
            OBVIOUS
          <5>1. tx[b] = Idle
            BY <2>1 DEF Progress
          <5>2. Ordered(b) = {}
            BY <5>1, IdleFields DEF Ordered, At
          <5> QED BY <5>2
        <4> QED BY <1>9, <4>1
      <3>3. CASE h \in hs
        <4>1. h \in Hands
          BY <1>8
        <4>2. hand'[h].order = hand[h].order /\ hand'[h].by = b0 /\ ~Published(h)'
          BY <1>4, <1>7, <3>3, <4>1
        <4>3. hand[h].order = 0
          <5>1. CASE h \in Stored
            <6>1. h \in HandsIn({t}) \ LockedOf(b, t)
              BY <5>1 DEF HandsIn
            <6> QED BY <3>1, <6>1 DEF HoldsAll
          <5>2. CASE h \notin Stored
            BY <1>5, <4>1, <5>2 DEF NoHand
          <5> QED BY <5>1, <5>2
        <4> QED BY <3>2, <4>2, <4>3
      <3>4. CASE h \notin hs
        <4>1. h \in HandsIn({t}) \ LockedOf(b, t) /\ h \in Stored /\ h \in Hands
          BY <1>5, <1>8, <3>4
        <4> QED BY <1>4, <1>7, <3>1, <3>4, <4>1 DEF HoldsAll
      <3> QED BY <3>3, <3>4
    <2>4. Stored \subseteq Stored'
      BY <1>5
    <2> QED BY <1>2, <2>1, <2>2, <2>3, <2>4, OrderStays
  <1> QED BY <1>2, <1>6, <1>10, <1>11, <1>12, <1>13, <1>14, <1>15 DEF StoreInv
-----------------------------------------------------------------------------
(* Commits.                                                                *)

(* What a materialization leaves of a hand that is published, or is by its *)
(* commit: the features of its rows.                                       *)
LEMMA MaterializedFollows ==
  ASSUME StoreInv, NEW p \in Sessions, At(p, "streets"),
         NEW h \in Stored, Published(h) \/ hand[h].by = p
  PROVE  Materialized(p)[h] =
           [row |-> FeatureRow(hand[h].stage, hand[h].results), street |-> TRUE]
PROOF
  <1>1. /\ RowsHeld(p) /\ h \in Hands
        /\ Published(h) => features[h] = [row |-> FeatureRow(hand[h].stage, hand[h].results),
                                          street |-> TRUE]
    BY DEF StoreInv, FeaturesFollowRows, Stored
  <1>2. /\ PendingRows(p) \subseteq InScope(p) /\ DeletedRows(p) \subseteq PendingRows(p)
        /\ hand[h].by = p => h \in PendingRows(p)
        /\ h \in PendingRows(p) => tx[p].rows[h] = FeatureRow(hand[h].stage, hand[h].results)
    BY <1>1 DEF RowsHeld
  <1>3. CASE h \in PendingRows(p)
    BY <1>1, <1>2, <1>3 DEF Materialized
  <1>4. CASE h \notin PendingRows(p)
    <2>1. features[h].row = FeatureRow(hand[h].stage, hand[h].results) /\ features[h].street = TRUE
      BY <1>1, <1>2, <1>4
    <2>2. h \notin DeletedRows(p)
      BY <1>2, <1>4
    <2> QED BY <1>1, <1>4, <2>1, <2>2 DEF Materialized
  <1> QED BY <1>3, <1>4

(* Commits touch hands that are stored, in columns that keep them theirs.  *)
SameHands ==
  /\ DOMAIN hand' = Hands
  /\ \A h \in Hands : IsHand(hand'[h]) /\ (h \in Stored <=> hand'[h] # NoHand)
  /\ \A h \in Stored : /\ hand'[h].by = hand[h].by /\ hand'[h].stage = hand[h].stage
                       /\ hand'[h].results = hand[h].results

(* When rows change but neither bundle, stage nor results, the same hands  *)
(* are stored and in scope.                                                *)
LEMMA SameHandsStored ==
  ASSUME SameHands
  PROVE  /\ UNCHANGED Stored /\ \A ts : UNCHANGED HandsIn(ts)
         /\ \A ts : \A h \in HandsIn(ts) : h \in Stored
         /\ \A ts : StageSeen(HandsIn(ts))' = StageSeen(HandsIn(ts))
         /\ \A p : tx'[p].scope = tx[p].scope => UNCHANGED InScope(p)
PROOF
  <1>1. NoHand' = NoHand
    BY DEF NoHand
  <1>2. UNCHANGED Stored
    BY <1>1 DEF SameHands, Stored
  <1>3. (\A ts : UNCHANGED HandsIn(ts)) /\ \A ts : \A h \in HandsIn(ts) : h \in Stored
    BY <1>2 DEF HandsIn
  <1>4. ASSUME NEW ts PROVE StageSeen(HandsIn(ts))' = StageSeen(HandsIn(ts))
    BY <1>3 DEF StageSeen, SameHands
  <1>5. ASSUME NEW p, tx'[p].scope = tx[p].scope PROVE UNCHANGED InScope(p)
    BY <1>2, <1>3, <1>5 DEF InScope
  <1> QED BY <1>2, <1>3, <1>4, <1>5

(* The commit of a zone change writes the zone of the hands it locked and  *)
(* features of all stored hands.                                           *)
LEMMA ZoneCommitKeeps ==
  ASSUME StoreInv, ZoneCommit
  PROVE  StoreInv'
PROOF
  <1> DEFINE p == ZoneChange
             zone == tx[p].zone
  <1>1. /\ At(p, "streets") /\ features' = Materialized(p)
        /\ hand' = [h \in Hands |->
             IF h \in LockedHands(p) THEN [hand[h] EXCEPT !.zone = zone] ELSE hand[h]]
        /\ tx' = [tx EXCEPT ![p] = Idle]
        /\ UNCHANGED <<job, fin, helper>>
    BY DEF ZoneCommit
  <1> HIDE DEF zone
  <1>2. /\ p \in Sessions /\ p \notin Bundles /\ TypeOK
        /\ \A b \in Bundles : b \in Sessions /\ b # p
    BY BundlesAssumption DEF Sessions, StoreInv, ZoneChange
  <1>3. Moves(p, Idle)
    BY <1>1, <1>2, Moved
  <1>4. LockedHands(p) \subseteq Stored
    BY DEF StoreInv, ZoneHeld
  <1> HIDE DEF p
  <1>5. ASSUME NEW h \in Hands
        PROVE  /\ IsHand(hand'[h]) /\ hand'[h].by = hand[h].by /\ hand'[h].stage = hand[h].stage
               /\ hand'[h].results = hand[h].results /\ hand'[h].order = hand[h].order
    <2>1. IsHand(hand[h])
      BY <1>2 DEF TypeOK
    <2>2. CASE h \in LockedHands(p)
      <3>1. hand'[h] = [hand[h] EXCEPT !.zone = zone]
        BY <1>1, <2>2
      <3> QED BY <2>1, <3>1 DEF IsHand
    <2>3. CASE h \notin LockedHands(p)
      BY <1>1, <2>1, <2>3
    <2> QED BY <2>2, <2>3
  <1>6. ASSUME NEW h \in Hands PROVE h \in Stored <=> hand'[h] # NoHand
    <2>1. CASE h \in Stored
      <3>1. hand'[h].by \in Bundles /\ NoHand.by = None
        BY <1>2, <1>5, <2>1 DEF TypeOK, NoHand
      <3> QED BY <2>1, <3>1, BundlesAssumption
    <2>2. CASE h \notin Stored
      BY <1>1, <1>4, <2>2 DEF Stored
    <2> QED BY <2>1, <2>2
  <1>7. SameHands
    BY <1>1, <1>5, <1>6 DEF SameHands, Stored
  <1>8. /\ UNCHANGED Stored /\ \A ts : UNCHANGED HandsIn(ts)
        /\ \A ts : \A h \in HandsIn(ts) : h \in Stored
        /\ \A ts : StageSeen(HandsIn(ts))' = StageSeen(HandsIn(ts))
        /\ \A q : tx'[q].scope = tx[q].scope => UNCHANGED InScope(q)
    BY <1>7, SameHandsStored
  <1>9. Stored \subseteq Hands /\ \A h \in Stored : Published(h)' <=> Published(h)
    BY <1>1, <1>5 DEF Stored, Published
  <1>10. \A q \in Sessions \ {p} : tx'[q] = tx[q]
    BY <1>3 DEF Moves
  <1>11. tx'[p] = Idle /\ DOMAIN tx' = Sessions
    BY <1>3 DEF Moves
  <1>12. TypeOK'
    <2>1. \A q \in Sessions : IsTx(tx'[q])
      BY <1>2, <1>10, <1>11, IdleFields DEF TypeOK
    <2>2. \A h \in Stored' : hand'[h].by \in Bundles
      BY <1>2, <1>5, <1>8, <1>9 DEF TypeOK
    <2>3. DOMAIN features' = Hands
      BY <1>1 DEF Materialized
    <2>4. DOMAIN hand' = Hands /\ \A h \in Hands : IsHand(hand'[h])
      BY <1>1, <1>5
    <2> QED BY <1>1, <1>2, <1>11, <2>1, <2>2, <2>3, <2>4 DEF TypeOK
  <1>13. BarrierHolds'
    BY <1>1 DEF StoreInv, BarrierHolds, JobsOf
  <1>14. ASSUME NEW b \in Bundles PROVE Progress(b)'
    <2>1. Progress(b) /\ tx'[b] = tx[b]
      BY <1>2, <1>10 DEF StoreInv
    <2>2. \A h \in Stored' : h \in Stored /\ hand'[h].by = hand[h].by
      BY <1>5, <1>8, <1>9
    <2> QED BY <1>1, <1>8, <2>1, <2>2 DEF Progress, At, Ordered, Helped, LockedHands, Idle, NoFn
  <1>15. ASSUME NEW q \in Sessions PROVE RowsHeld(q)'
    <2>1. CASE q = p
      <3>1. /\ ~At(q, "rows")' /\ ~At(q, "streets")'
            /\ PendingRows(q)' = {} /\ DeletedRows(q)' = {}
        BY <1>11, <2>1, IdleFields DEF At, PendingRows, DeletedRows
      <3> QED BY <3>1 DEF RowsHeld
    <2>2. CASE q # p
      <3>1. tx'[q] = tx[q] /\ RowsHeld(q)
        BY <1>10, <2>2 DEF StoreInv
      <3>2. UNCHANGED <<InScope(q), PendingRows(q), DeletedRows(q)>> /\ InScope(q) \subseteq Stored
        BY <1>8, <3>1 DEF PendingRows, DeletedRows, InScope
      <3>3. \A h \in Stored : /\ hand'[h].by = hand[h].by /\ hand'[h].stage = hand[h].stage
                              /\ hand'[h].results = hand[h].results
        BY <1>5, <1>9
      <3> QED BY <1>8, <1>9, <3>1, <3>2, <3>3 DEF RowsHeld, At
    <2> QED BY <2>1, <2>2
  <1>16. RowsApart'
    <2> SUFFICES ASSUME NEW q \in Sessions, NEW r \in Sessions, q # r
                 PROVE  PendingRows(q)' \cap PendingRows(r)' = {}
      BY DEF RowsApart
    <2>1. PendingRows(p)' = {} /\ \A s \in Sessions \ {p} : PendingRows(s)' = PendingRows(s)
      BY <1>10, <1>11, IdleFields DEF PendingRows
    <2>2. PendingRows(q) \cap PendingRows(r) = {}
      BY DEF StoreInv, RowsApart
    <2> QED BY <2>1, <2>2
  <1>17. ZoneHeld'
    BY <1>11, IdleFields DEF ZoneHeld, LockedHands, p
  <1>18. FeaturesFollowRows'
    <2> SUFFICES ASSUME NEW h \in Stored', Published(h)'
                 PROVE  features'[h] = [row |-> FeatureRow(hand'[h].stage, hand'[h].results),
                                        street |-> TRUE]
      BY DEF FeaturesFollowRows
    <2>1. h \in Stored /\ Published(h) /\ h \in Hands
      BY <1>8, <1>9
    <2>2. Materialized(p)[h] = [row |-> FeatureRow(hand[h].stage, hand[h].results),
                                street |-> TRUE]
      BY <1>1, <1>2, <2>1, MaterializedFollows
    <2>3. hand'[h].stage = hand[h].stage /\ hand'[h].results = hand[h].results
      BY <1>5, <2>1
    <2> QED BY <1>1, <2>2, <2>3
  <1>19. ASSUME NEW b \in Bundles PROVE OrderHeld(b)'
    <2>1. OrderHeld(b) /\ Progress(b) /\ tx'[b] = tx[b]
      BY <1>2, <1>10 DEF StoreInv
    <2>2. \A h \in LockedHands(b) : hand'[h].stage = hand[h].stage
      BY <1>5, <1>9, <2>1 DEF Progress
    <2>3. \A t \in Ordered(b) : \A h \in HandsIn({t})' \ LockedOf(b, t) :
            hand'[h].order = 0 /\ ~Published(h)' /\ hand'[h].by # b
      BY <1>5, <1>8, <1>9, <2>1 DEF OrderHeld, HoldsAll
    <2> QED BY <1>8, <2>1, <2>2, <2>3, OrderStays
  <1>20. OrderApart'
    <2>1. \A b \in Bundles : UNCHANGED Ordered(b)
      BY <1>2, <1>10 DEF Ordered, At
    <2> QED BY <2>1 DEF StoreInv, OrderApart
  <1>21. HelperFollowsRows'
    <2>1. ASSUME NEW t \in PublishedTournaments'
          PROVE  /\ OrdersOf(t)' = [h \in HandsIn({t})' |-> HandOrder(info, HandsIn({t})', h)]
                 /\ helper'[t] = HelperRow(info, HandsIn({t})', StageSeen(HandsIn({t}))', OrdersOf(t)')
      <3>1. t \in Tournaments /\ HelperFollowsRows
        BY DEF PublishedTournaments, StoreInv
      <3>2. \A h \in HandsIn({t}) : /\ hand'[h].order = hand[h].order
                                    /\ hand'[h].stage = hand[h].stage
                                    /\ (Published(h)' => Published(h))
        BY <1>5, <1>8, <1>9
      <3> QED BY <1>1, <1>8, <3>1, <3>2, HelperStays
    <2> QED BY <2>1 DEF HelperFollowsRows
  <1> QED BY <1>12, <1>13, <1>14, <1>15, <1>16, <1>17, <1>18, <1>19, <1>20, <1>21 DEF StoreInv
(* Features, numbers and helper rows of the bundle's tournaments are       *)
(* committed together: no other transaction could number a hand of them,   *)
(* and a hand that came in meanwhile is not published.                     *)
LEMMA FinalizeCommitKeeps ==
  ASSUME StoreInv, NEW b \in Bundles, FinalizeCommit(b)
  PROVE  StoreInv'
PROOF
  <1>1. /\ At(b, "streets") /\ features' = Materialized(b)
        /\ hand' = [h \in Hands |->
             IF h \in LockedHands(b) THEN [hand[h] EXCEPT !.order = tx[b].order[h]] ELSE hand[h]]
        /\ helper' = Over(tx[b].helper, helper)
        /\ fin' = [fin EXCEPT ![b] = "succeeded"]
        /\ tx' = [tx EXCEPT ![b] = Idle]
        /\ UNCHANGED job
    BY DEF FinalizeCommit
  <1>2. /\ b \in Sessions /\ b # ZoneChange /\ TypeOK
        /\ Bundles \subseteq Sessions /\ ZoneChange \notin Bundles
        /\ Progress(b) /\ OrderHeld(b) /\ RowsHeld(b)
    BY BundlesAssumption DEF Sessions, StoreInv, ZoneChange
  <1>3. Moves(b, Idle)
    BY <1>1, <1>2, Moved
  <1>4. /\ Ordered(b) = tx[b].scope /\ Helped(b) = tx[b].scope
        /\ DOMAIN tx[b].helper = tx[b].scope /\ tx[b].scope \subseteq Tournaments
        /\ \A h \in LockedHands(b) : h \in Stored /\ info[h].tournament \in tx[b].scope
        /\ \A h \in Stored : hand[h].by = b => info[h].tournament \in tx[b].scope
    <2>1. Ordered(b) = tx[b].scope /\ Helped(b) = tx[b].scope /\ ~At(b, "idle")
      BY <1>1 DEF Ordered, Helped, At
    <2> QED BY <1>2, <2>1 DEF Progress
  <1>5. ASSUME NEW h \in Hands
        PROVE  /\ IsHand(hand'[h]) /\ hand'[h].by = hand[h].by /\ hand'[h].stage = hand[h].stage
               /\ hand'[h].results = hand[h].results
               /\ hand'[h].order = IF h \in LockedHands(b) THEN tx[b].order[h] ELSE hand[h].order
    <2>1. IsHand(hand[h])
      BY <1>2 DEF TypeOK
    <2>2. CASE h \in LockedHands(b)
      <3>1. hand'[h] = [hand[h] EXCEPT !.order = tx[b].order[h]]
        BY <1>1, <2>2
      <3> QED BY <2>1, <2>2, <3>1 DEF IsHand
    <2>3. CASE h \notin LockedHands(b)
      BY <1>1, <2>1, <2>3
    <2> QED BY <2>2, <2>3
  <1>6. ASSUME NEW h \in Hands PROVE h \in Stored <=> hand'[h] # NoHand
    <2>1. CASE h \in Stored
      <3>1. hand'[h].by \in Bundles /\ NoHand.by = None
        BY <1>2, <1>5, <2>1 DEF TypeOK, NoHand
      <3> QED BY <2>1, <3>1, BundlesAssumption
    <2>2. CASE h \notin Stored
      BY <1>1, <1>4, <2>2 DEF Stored
    <2> QED BY <2>1, <2>2
  <1>7. SameHands
    BY <1>1, <1>5, <1>6 DEF SameHands, Stored
  <1>8. /\ UNCHANGED Stored /\ \A ts : UNCHANGED HandsIn(ts)
        /\ \A ts : \A h \in HandsIn(ts) : h \in Stored
        /\ \A ts : StageSeen(HandsIn(ts))' = StageSeen(HandsIn(ts))
        /\ \A q : tx'[q].scope = tx[q].scope => UNCHANGED InScope(q)
    BY <1>7, SameHandsStored
  <1>9. /\ Stored \subseteq Hands
        /\ \A h \in Stored : /\ Published(h) => Published(h)'
                             /\ Published(h)' => Published(h) \/ hand[h].by = b
    <2>1. Stored \subseteq Hands
      BY DEF Stored
    <2>2. \A c \in Bundles : fin'[c] = IF c = b THEN "succeeded" ELSE fin[c]
      BY <1>1, <1>2 DEF TypeOK
    <2>3. \A h \in Stored : hand'[h].by = hand[h].by /\ hand[h].by \in Bundles
      BY <1>2, <1>5, <2>1 DEF TypeOK
    <2> QED BY <2>1, <2>2, <2>3 DEF Published
  <1>10. \A q \in Sessions \ {b} : tx'[q] = tx[q]
    BY <1>3 DEF Moves
  <1>11. tx'[b] = Idle /\ DOMAIN tx' = Sessions
    BY <1>3 DEF Moves
  <1>12. DOMAIN helper' = Tournaments /\ (\A t \in tx[b].scope : helper'[t] = tx[b].helper[t])
         /\ \A t \in Tournaments \ tx[b].scope : helper'[t] = helper[t]
    <2>1. DOMAIN helper = Tournaments
      BY <1>2 DEF TypeOK
    <2> QED BY <1>1, <1>4, <2>1 DEF Over
  <1>13. TypeOK'
    <2>1. \A q \in Sessions : IsTx(tx'[q])
      BY <1>2, <1>10, <1>11, IdleFields DEF TypeOK
    <2>2. \A h \in Stored' : hand'[h].by \in Bundles
      BY <1>2, <1>5, <1>8, <1>9 DEF TypeOK
    <2>3. DOMAIN features' = Hands
      BY <1>1 DEF Materialized
    <2>4. DOMAIN hand' = Hands /\ \A h \in Hands : IsHand(hand'[h])
      BY <1>1, <1>5
    <2>5. job' \in [Jobs -> JobStates] /\ fin' \in [Bundles -> JobStates]
      BY <1>1, <1>2 DEF TypeOK, JobStates
    <2> QED BY <1>11, <1>12, <2>1, <2>2, <2>3, <2>4, <2>5 DEF TypeOK
  <1>14. BarrierHolds'
    <2>1. fin[b] # "absent"
      BY <1>1, <1>2 DEF Progress, At
    <2>2. \A c \in Bundles : fin'[c] # "absent" => fin[c] # "absent"
      BY <1>1, <1>2, <2>1 DEF TypeOK
    <2> QED BY <1>1, <2>2 DEF StoreInv, BarrierHolds, JobsOf
  <1>15. ASSUME NEW c \in Bundles PROVE Progress(c)'
    <2>1. CASE c = b
      <3>1. /\ Ordered(c)' = {} /\ Helped(c)' = {} /\ LockedHands(c)' = {}
            /\ At(c, "idle")' /\ ~At(c, "order")' /\ ~At(c, "helper")'
        BY <1>11, <2>1, IdleFields DEF Ordered, Helped, At, LockedHands
      <3>2. fin'[c] # "running" /\ Idle' = Idle
        BY <1>1, <1>2, <2>1 DEF TypeOK, Idle, NoFn
      <3> QED BY <1>11, <2>1, <3>1, <3>2, IdleFields DEF Progress
    <2>2. CASE c # b
      <3>1. Progress(c) /\ tx'[c] = tx[c] /\ fin'[c] = fin[c]
        BY <1>1, <1>2, <1>10, <2>2 DEF StoreInv, TypeOK
      <3>2. \A h \in Stored' : h \in Stored /\ hand'[h].by = hand[h].by
        BY <1>5, <1>8, <1>9
      <3> QED BY <1>8, <3>1, <3>2 DEF Progress, At, Ordered, Helped, LockedHands, Idle, NoFn
    <2> QED BY <2>1, <2>2
  <1>16. ASSUME NEW q \in Sessions PROVE RowsHeld(q)'
    <2>1. CASE q = b
      <3>1. /\ ~At(q, "rows")' /\ ~At(q, "streets")'
            /\ PendingRows(q)' = {} /\ DeletedRows(q)' = {}
        BY <1>11, <2>1, IdleFields DEF At, PendingRows, DeletedRows
      <3> QED BY <3>1 DEF RowsHeld
    <2>2. CASE q # b
      <3>1. tx'[q] = tx[q] /\ RowsHeld(q)
        BY <1>10, <2>2 DEF StoreInv
      <3>2. UNCHANGED <<InScope(q), PendingRows(q), DeletedRows(q)>> /\ InScope(q) \subseteq Stored
        BY <1>8, <3>1 DEF PendingRows, DeletedRows, InScope
      <3>3. \A h \in Stored : /\ hand'[h].by = hand[h].by /\ hand'[h].stage = hand[h].stage
                              /\ hand'[h].results = hand[h].results
        BY <1>5, <1>9
      <3>4. ASSUME NEW h \in PendingRows(q), Published(h)' \/ hand'[h].by = q
            PROVE  tx'[q].rows[h] = FeatureRow(hand'[h].stage, hand'[h].results)
        <4>1. h \in Stored
          BY <3>1, <3>2 DEF RowsHeld
        <4>2. hand[h].by # b
          <5>1. PendingRows(b) \cap PendingRows(q) = {}
            BY <1>2, <2>2 DEF StoreInv, RowsApart
          <5>2. hand[h].by = b => h \in PendingRows(b)
            BY <1>1, <1>2, <4>1 DEF RowsHeld
          <5> QED BY <3>4, <5>1, <5>2
        <4>3. Published(h) \/ hand[h].by = q
          BY <1>9, <3>3, <3>4, <4>1, <4>2
        <4> QED BY <3>1, <3>3, <4>1, <4>3 DEF RowsHeld
      <3>5. UNCHANGED <<At(q, "rows"), At(q, "streets")>>
        BY <3>1 DEF At
      <3> QED BY <1>8, <3>1, <3>2, <3>3, <3>4, <3>5 DEF RowsHeld
    <2> QED BY <2>1, <2>2
  <1>17. RowsApart'
    <2> SUFFICES ASSUME NEW q \in Sessions, NEW r \in Sessions, q # r
                 PROVE  PendingRows(q)' \cap PendingRows(r)' = {}
      BY DEF RowsApart
    <2>1. PendingRows(b)' = {} /\ \A s \in Sessions \ {b} : PendingRows(s)' = PendingRows(s)
      BY <1>10, <1>11, IdleFields DEF PendingRows
    <2>2. PendingRows(q) \cap PendingRows(r) = {}
      BY DEF StoreInv, RowsApart
    <2> QED BY <2>1, <2>2
  <1>18. ZoneHeld'
    <2>1. tx'[ZoneChange] = tx[ZoneChange]
      BY <1>2, <1>10 DEF Sessions
    <2> QED BY <1>8, <2>1 DEF StoreInv, ZoneHeld, LockedHands, ZoneChange
  <1>19. FeaturesFollowRows'
    <2> SUFFICES ASSUME NEW h \in Stored', Published(h)'
                 PROVE  features'[h] = [row |-> FeatureRow(hand'[h].stage, hand'[h].results),
                                        street |-> TRUE]
      BY DEF FeaturesFollowRows
    <2>1. h \in Stored /\ (Published(h) \/ hand[h].by = b) /\ h \in Hands
      BY <1>8, <1>9
    <2>2. Materialized(b)[h] = [row |-> FeatureRow(hand[h].stage, hand[h].results),
                                street |-> TRUE]
      BY <1>1, <1>2, <2>1, MaterializedFollows
    <2>3. hand'[h].stage = hand[h].stage /\ hand'[h].results = hand[h].results
      BY <1>5, <2>1
    <2> QED BY <1>1, <2>2, <2>3
  <1>20. ASSUME NEW c \in Bundles PROVE OrderHeld(c)'
    <2>1. CASE c = b
      <3>1. Ordered(c)' = {} /\ Helped(c)' = {} /\ tx'[c].scope = {}
        BY <1>11, <2>1, IdleFields DEF Ordered, Helped, At
      <3> QED BY <3>1 DEF OrderHeld
    <2>2. CASE c # b
      <3>1. OrderHeld(c) /\ Progress(c) /\ tx'[c] = tx[c]
        BY <1>2, <1>10, <2>2 DEF StoreInv
      <3>2. \A h \in LockedHands(c) : hand'[h].stage = hand[h].stage
        BY <1>5, <1>9, <3>1 DEF Progress
      <3>3. ASSUME NEW t \in Ordered(c), NEW h \in HandsIn({t})' \ LockedOf(c, t)
            PROVE  hand'[h].order = 0 /\ ~Published(h)' /\ hand'[h].by # c
        <4>1. h \in HandsIn({t}) \ LockedOf(c, t) /\ h \in Stored /\ info[h].tournament = t
          BY <1>8 DEF HandsIn
        <4>2. hand[h].order = 0 /\ ~Published(h) /\ hand[h].by # c
          BY <3>1, <4>1 DEF OrderHeld, HoldsAll
        <4>3. t \notin tx[b].scope
          BY <1>4, <2>2 DEF StoreInv, OrderApart
        <4>4. h \notin LockedHands(b) /\ hand[h].by # b
          BY <1>4, <4>1, <4>3
        <4> QED BY <1>5, <1>9, <4>1, <4>2, <4>4
      <3> QED BY <1>8, <3>1, <3>2, <3>3, OrderStays
    <2> QED BY <2>1, <2>2
  <1>21. OrderApart'
    <2>1. Ordered(b)' = {} /\ \A c \in Bundles \ {b} : Ordered(c)' = Ordered(c)
      BY <1>2, <1>10, <1>11, IdleFields DEF Ordered, At
    <2> QED BY <2>1 DEF StoreInv, OrderApart
  <1>22. HelperFollowsRows'
    <2>1. ASSUME NEW t \in PublishedTournaments'
          PROVE  /\ OrdersOf(t)' = [h \in HandsIn({t})' |-> HandOrder(info, HandsIn({t})', h)]
                 /\ helper'[t] = HelperRow(info, HandsIn({t})', StageSeen(HandsIn({t}))', OrdersOf(t)')
      <3>1. t \in Tournaments /\ HelperFollowsRows /\ \A h \in HandsIn({t}) : Published(h)'
        BY <1>8 DEF PublishedTournaments, StoreInv
      <3>2. CASE t \notin tx[b].scope
        <4>1. \A h \in HandsIn({t}) : h \notin LockedHands(b) /\ hand[h].by # b
          BY <1>4, <3>2 DEF HandsIn
        <4>2. \A h \in HandsIn({t}) : /\ hand'[h].order = hand[h].order
                                      /\ hand'[h].stage = hand[h].stage
                                      /\ (Published(h)' => Published(h))
          BY <1>5, <1>8, <1>9, <4>1
        <4>3. helper'[t] = helper[t] /\ UNCHANGED HandsIn({t})
          BY <1>8, <1>12, <3>1, <3>2
        <4> QED BY <3>1, <4>2, <4>3, HelperStays
      <3>3. CASE t \in tx[b].scope
        <4> DEFINE hs == HandsIn({t})
        <4>1. HoldsAll(b, t) /\ HelperHeld(b, t)
          BY <1>2, <1>4, <3>3 DEF OrderHeld
        <4>2. LockedOf(b, t) = hs
          <5>1. LockedOf(b, t) \subseteq hs
            BY <1>4 DEF LockedOf, HandsIn
          <5>2. ASSUME NEW h \in hs, h \notin LockedOf(b, t) PROVE FALSE
            <6>1. ~Published(h) /\ hand[h].by # b
              BY <4>1, <5>2 DEF HoldsAll
            <6> QED BY <1>8, <1>9, <3>1, <5>2, <6>1
          <5> QED BY <5>1, <5>2
        <4>3. \A h \in hs : hand'[h].order = tx[b].order[h] /\ tx[b].order[h] = HandOrder(info, hs, h)
          <5>1. \A h \in hs : h \in LockedHands(b) /\ h \in Hands
            BY <1>4, <4>2 DEF LockedOf, HandsIn, Stored
          <5> HIDE DEF hs
          <5> QED BY <1>5, <4>1, <4>2, <5>1 DEF HoldsAll
        <4>4. HandsIn({t})' = hs /\ StageSeen(HandsIn({t}))' = StageSeen(hs)
          BY <1>8
        <4> HIDE DEF hs
        <4>5. OrdersOf(t)' = [h \in hs |-> hand'[h].order]
          BY <4>4 DEF OrdersOf
        <4>6. OrdersOf(t)' = [h \in hs |-> HandOrder(info, hs, h)]
          BY <4>3, <4>5
        <4>7. OrdersOf(t)' = [h \in hs |-> tx[b].order[h]]
          BY <4>3, <4>5
        <4>8. helper'[t] = HelperRow(info, hs, StageSeen(hs), OrdersOf(t)')
          BY <1>12, <3>3, <4>1, <4>2, <4>7 DEF HelperHeld
        <4> QED BY <4>4, <4>6, <4>8
      <3> QED BY <3>2, <3>3
    <2> QED BY <2>1 DEF HelperFollowsRows
  <1> QED BY <1>13, <1>14, <1>15, <1>16, <1>17, <1>18, <1>19, <1>20, <1>21, <1>22 DEF StoreInv
-----------------------------------------------------------------------------
(* The theorems.                                                           *)

(* Nothing is stored at the beginning.                                     *)
LEMMA StoreInit ==
  ASSUME Init
  PROVE  StoreInv
PROOF
  <1>1. Stored = {} /\ \A ts : HandsIn(ts) = {}
    <2>1. Stored = {}
      BY DEF Init, Stored
    <2> QED BY <2>1 DEF HandsIn
  <1>2. DOMAIN tx = Sessions /\ \A p \in Sessions : tx[p] = Idle
    BY DEF Init
  <1>3. TypeOK
    <2>1. IsHand(NoHand)
      BY DEF IsHand, NoHand
    <2>2. DOMAIN hand = Hands /\ \A h \in Hands : hand[h] = NoHand
      BY DEF Init
    <2>3. DOMAIN features = Hands /\ DOMAIN helper = Tournaments
      BY DEF Init
    <2>4. job \in [Jobs -> JobStates] /\ fin \in [Bundles -> JobStates]
      BY DEF Init, JobStates
    <2> QED BY <1>1, <1>2, <2>1, <2>2, <2>3, <2>4, IdleFields DEF TypeOK
  <1>4. BarrierHolds
    BY DEF Init, BarrierHolds
  <1>5. \A p \in Sessions : /\ At(p, "idle") /\ ~At(p, "order") /\ ~At(p, "helper")
                            /\ ~At(p, "rows") /\ ~At(p, "streets")
                            /\ PendingRows(p) = {} /\ DeletedRows(p) = {} /\ LockedHands(p) = {}
                            /\ Ordered(p) = {} /\ Helped(p) = {}
    BY <1>2, IdleFields DEF At, PendingRows, DeletedRows, LockedHands, Ordered, Helped
  <1>6. \A b \in Bundles : b \in Sessions /\ fin[b] = "absent"
    BY DEF Init, Sessions
  <1>7. \A b \in Bundles : Progress(b)
    BY <1>1, <1>2, <1>5, <1>6, IdleFields DEF Progress
  <1>8. (\A p \in Sessions : RowsHeld(p)) /\ RowsApart
    BY <1>5 DEF RowsHeld, RowsApart
  <1>9. ZoneHeld
    BY <1>2, IdleFields DEF ZoneHeld, LockedHands, ZoneChange, Sessions
  <1>10. \A b \in Bundles : OrderHeld(b)
    BY <1>2, <1>5, <1>6, IdleFields DEF OrderHeld
  <1>11. OrderApart
    BY <1>5, <1>6 DEF OrderApart
  <1>12. FeaturesFollowRows /\ HelperFollowsRows
    BY <1>1 DEF FeaturesFollowRows, HelperFollowsRows, PublishedTournaments
  <1> QED BY <1>3, <1>4, <1>7, <1>8, <1>9, <1>10, <1>11, <1>12 DEF StoreInv

(* Every step keeps the invariant.                                         *)
LEMMA StoreStep ==
  ASSUME StoreInv, [Next]_vars
  PROVE  StoreInv'
PROOF
  <1>1. ASSUME UNCHANGED vars PROVE StoreInv'
    <2>1. /\ UNCHANGED <<hand, features, helper, tx, job, fin>>
      BY <1>1 DEF vars, core
    <2>2. job' \in [Jobs -> JobStates] /\ fin' \in [Bundles -> JobStates] /\ BarrierHolds'
      BY <2>1 DEF StoreInv, TypeOK, BarrierHolds, JobsOf
    <2> QED BY <2>1, <2>2, JobsKeep
  <1>2. ASSUME NEW b \in Bundles, Enqueue(b) \/ FinalizeBegin(b) \/ OrderHands(b)
        PROVE  StoreInv'
    BY <1>2, EnqueueKeeps, FinalizeBeginKeeps, OrderHandsKeeps
  <1>3. ASSUME NEW b \in Bundles, StoreHelper(b) PROVE StoreInv'
    <2>1. ~At(b, "idle")
      BY <1>3 DEF StoreHelper, At
    <2>2. CASE Abort(b)
      BY <2>1, <2>2, AbortKeeps
    <2>3. CASE ~Abort(b)
      BY <1>3, <2>3, StoreHelperKeeps
    <2> QED BY <2>2, <2>3
  <1>4. ASSUME NEW b \in Bundles, FinalizeCommit(b) PROVE StoreInv'
    BY <1>4, FinalizeCommitKeeps
  <1>5. ASSUME NEW b \in Bundles, FinalizeConflict(b) PROVE StoreInv'
    <2>1. Abort(b) /\ ~At(b, "idle")
      BY <1>5 DEF FinalizeConflict, RowConflict, StreetConflict, At
    <2> QED BY <2>1, AbortKeeps
  <1>6. ASSUME NEW j \in Jobs, FileBegin(j) \/ PersistSummary(j) \/ PersistHands(j) \/ FileFails(j)
        PROVE  StoreInv'
    BY <1>6, FileBeginKeeps, SummaryAndFailureKeep, PersistHandsKeeps
  <1>7. ASSUME NEW p \in Sessions, DeleteFeatures(p) \/ InsertRows(p) PROVE StoreInv'
    BY <1>7, DeleteKeeps, InsertKeeps
  <1>8. ASSUME NEW p \in Sessions, DeadlockVictim(p) PROVE StoreInv'
    <2>1. CASE p = ZoneChange
      BY <1>8, <2>1, RollbackKeeps DEF DeadlockVictim
    <2>2. CASE p # ZoneChange
      <3>1. PICK q \in Sessions : Deadlocked(p, q)
        BY <1>8 DEF DeadlockVictim
      <3>2. WantedHands(p) # {}
        BY <3>1 DEF Deadlocked
      <3>3. ~At(p, "idle")
        BY <2>2, <3>2 DEF WantedHands, At
      <3> QED BY <1>8, <2>2, <3>3, AbortKeeps DEF DeadlockVictim, Sessions
    <2> QED BY <2>1, <2>2
  <1>9. ASSUME NEW zone \in Zones, SetZone(zone) PROVE StoreInv'
    BY <1>9, SetZoneKeeps
  <1>10. ASSUME UpdateZones \/ ZoneCommit \/ ZoneConflict PROVE StoreInv'
    BY <1>10, UpdateZonesKeeps, ZoneCommitKeeps, RollbackKeeps DEF ZoneConflict
  <1> QED
    BY <1>1, <1>2, <1>3, <1>4, <1>5, <1>6, <1>7, <1>8, <1>9, <1>10 DEF Next

(* The inductive invariant: what the open transactions hold and have       *)
(* written, and what has been committed.                                   *)
THEOREM StoreInvariance == Spec => []StoreInv
<1>1. Init => StoreInv
  BY StoreInit
<1>2. StoreInv /\ [Next]_vars => StoreInv'
  BY StoreStep
<1> QED
  BY <1>1, <1>2, PTL DEF Spec

(* Whatever imports, finalize jobs and zone changes run side by side       *)
(* (finalize_bundle_split, materialize_player_hand_features_inner), the    *)
(* features of a published hand are those of its rows.                     *)
THEOREM FeaturesAreCurrent == Spec => []FeaturesFollowRows
<1>1. StoreInv => FeaturesFollowRows
  BY DEF StoreInv
<1> QED
  BY <1>1, StoreInvariance, PTL

(* The hands of a published tournament are numbered as they were played    *)
(* and its final-table helper is that of its rows                          *)
(* (compute_tournament_hand_order, upsert_mbr_tournament_ft_helper).       *)
THEOREM HelpersAreCurrent == Spec => []HelperFollowsRows
<1>1. StoreInv => HelperFollowsRows
  BY DEF StoreInv
<1> QED
  BY <1>1, StoreInvariance, PTL

-----------------------------------------------------------------------------
(* What the statistics count.                                              *)

(* The document of a file job is one of the user's files while the job is  *)
(* to run, and what a stored hand says of stage and results was computed   *)
(* from its text, among the hands of the file that brought it, all of      *)
(* which are stored.                                                       *)
Docs == {f.doc : f \in Files}
FromText(h) ==
  /\ \E d \in Docs : /\ h \in d.hands /\ d.hands \subseteq Stored
                     /\ hand[h].stage = StageRow(info, d.hands, h)
  /\ hand[h].results = ResultRows(info, h)
DocOf(d, t) == d \in Docs /\ d.tournament = t /\ t # NoTournament
JobsHaveTexts == \A j \in Jobs : job[j] \in {"queued", "running"} => DocOf(doc[j], j[2])
TextInv == UploadsType /\ JobsHaveTexts /\ \A h \in Stored : FromText(h)

(* A member of an upload is the document of one of its files.              *)
LEMMA MembersAreDocs ==
  ASSUME UploadsType, NEW b \in Bundles, NEW t \in Paired(uploads[b]), NEW kind \in Kinds
  PROVE  DocOf(MemberDoc(uploads[b], t, kind), t)
<1> DEFINE bucket == Bucket(uploads[b], t, kind)
<1>1. uploads[b] \subseteq Files
  BY UploadsAssumption DEF UploadsType
<1>2. FileSet(uploads[b])
  BY <1>1, FilesAssumption, FS_Subset DEF FileSet
<1>3. bucket \in SUBSET uploads[b] /\ bucket # {}
  BY <1>2, BucketOfFiles, PairedBuckets
<1>4. Representative(bucket) \in bucket
  BY <1>2, <1>3, RepresentativeIsMember
<1>5. IsCandidate(Representative(bucket)) /\ Representative(bucket).doc.tournament = t
  BY <1>4, BucketOfFiles
<1> QED BY <1>1, <1>3, <1>4, <1>5 DEF MemberDoc, DocOf, Docs, IsCandidate

(* A step that neither stores nor changes a stage or result row leaves     *)
(* what the hands say.                                                     *)
LEMMA TextStays ==
  ASSUME TextInv, uploads' = uploads,
         \A j \in Jobs : job'[j] \in {"queued", "running"} =>
           job[j] \in {"queued", "running"} /\ doc'[j] = doc[j],
         Stored' = Stored,
         \A h \in Stored : hand'[h].stage = hand[h].stage /\ hand'[h].results = hand[h].results
  PROVE  TextInv'
BY DEF TextInv, UploadsType, JobsHaveTexts, DocOf, FromText, Docs

(* The end of a file job leaves the documents, and no further job to run.  *)
LEMMA FinishLeaves ==
  ASSUME StoreInv, NEW j \in Jobs, NEW status \in {"succeeded", "failed"}, Finish(j, status)
  PROVE  /\ doc' = doc /\ uploads' = uploads
         /\ \A i \in Jobs : job'[i] \in {"queued", "running"} => job[i] \in {"queued", "running"}
BY DEF Finish

(* The rows of an import are computed from its file.                       *)
LEMMA PersistHandsText ==
  ASSUME StoreInv, TextInv, NEW j \in Jobs, PersistHands(j)
  PROVE  TextInv'
<1> DEFINE hs == doc[j].hands
<1>1. /\ job[j] = "running" /\ Finish(j, "succeeded")
      /\ hand' = [h \in Hands |-> IF h \in hs THEN PersistedHand(j, h) ELSE hand[h]]
  BY DEF PersistHands
<1>2. /\ doc' = doc /\ uploads' = uploads
      /\ \A i \in Jobs : job'[i] \in {"queued", "running"} => job[i] \in {"queued", "running"}
  BY <1>1, FinishLeaves
<1>3. doc[j] \in Docs /\ hs \in SUBSET Hands
  <2>1. doc[j] \in Docs
    BY <1>1 DEF TextInv, JobsHaveTexts, DocOf
  <2> QED BY <2>1, FilesAssumption DEF Docs
<1>4. hs \subseteq Stored' /\ Stored \subseteq Stored'
  <2>1. j[1] # None
    BY BundlesAssumption DEF Jobs
  <2>2. \A h \in hs : hand'[h].by # None
    BY <1>1, <1>3, <2>1 DEF PersistedHand
  <2>3. \A h \in hs : hand'[h] # NoHand
    BY <2>2 DEF NoHand
  <2> HIDE DEF hs
  <2> QED BY <1>1, <1>3, <2>3 DEF Stored, NoHand
<1>5. \A h \in Stored' : FromText(h)'
  <2> SUFFICES ASSUME NEW h \in Stored' PROVE FromText(h)'
    OBVIOUS
  <2>1. CASE h \in hs
    <3>1. hand'[h] = PersistedHand(j, h)
      BY <1>1, <1>3, <2>1
    <3>2. hand'[h].stage = StageRow(info, hs, h) /\ hand'[h].results = ResultRows(info, h)
      BY <3>1 DEF PersistedHand
    <3>3. hs \subseteq Stored' /\ hs = doc[j].hands
      BY <1>4
    <3> HIDE DEF hs
    <3> QED BY <1>3, <2>1, <3>2, <3>3 DEF FromText, Docs
  <2>2. CASE h \notin hs
    <3>1. h \in Hands /\ hand'[h] = hand[h]
      BY <1>1, <2>2 DEF Stored
    <3>2. h \in Stored
      BY <3>1 DEF Stored, NoHand
    <3>3. FromText(h)
      BY <3>2 DEF TextInv
    <3>4. PICK d \in Docs : /\ h \in d.hands /\ d.hands \subseteq Stored
                            /\ hand[h].stage = StageRow(info, d.hands, h)
      BY <3>3 DEF FromText
    <3>5. d.hands \subseteq Stored'
      BY <1>4, <3>4
    <3> QED BY <3>1, <3>3, <3>4, <3>5 DEF FromText, Docs
  <2> QED BY <2>1, <2>2
<1> QED BY <1>2, <1>5 DEF TextInv, UploadsType, JobsHaveTexts, DocOf, Docs

(* A commit writes order or zone of hands that are stored, and leaves the  *)
(* other columns.                                                          *)
LEMMA CommitText ==
  ASSUME StoreInv, TextInv, NEW L \in SUBSET Stored,
         UNCHANGED <<uploads, job, doc>>, DOMAIN hand' = Hands,
         \A h \in Hands : /\ hand'[h].stage = hand[h].stage /\ hand'[h].results = hand[h].results
                          /\ hand'[h].by = hand[h].by
                          /\ h \notin L => hand'[h] = hand[h]
  PROVE  TextInv'
<1>1. \A h \in Stored : h \in Hands
  BY DEF Stored
<1>2. Stored' = Stored
  <2>1. \A h \in L : hand'[h].by # None
    <3>1. \A h \in Stored : hand[h].by \in Bundles
      BY DEF StoreInv, TypeOK
    <3> QED BY <1>1, <3>1, BundlesAssumption
  <2>2. \A h \in L : hand'[h] # NoHand
    BY <2>1 DEF NoHand
  <2> QED BY <1>1, <2>2 DEF Stored, NoHand
<1> QED BY <1>1, <1>2, TextStays

(* The numbers of the hands leave their rows.                              *)
LEMMA FinalizeCommitText ==
  ASSUME StoreInv, TextInv, NEW b \in Bundles, FinalizeCommit(b)
  PROVE  TextInv'
<1>1. /\ UNCHANGED <<uploads, job, doc>>
      /\ hand' = [h \in Hands |->
           IF h \in LockedHands(b) THEN [hand[h] EXCEPT !.order = tx[b].order[h]] ELSE hand[h]]
  BY DEF FinalizeCommit
<1>2. LockedHands(b) \subseteq Stored
  BY DEF StoreInv, Progress
<1>3. ASSUME NEW h \in Hands
      PROVE  /\ hand'[h].stage = hand[h].stage /\ hand'[h].results = hand[h].results
             /\ hand'[h].by = hand[h].by
             /\ h \notin LockedHands(b) => hand'[h] = hand[h]
  <2>1. IsHand(hand[h])
    BY DEF StoreInv, TypeOK
  <2>2. CASE h \in LockedHands(b)
    <3>1. hand'[h] = [hand[h] EXCEPT !.order = tx[b].order[h]]
      BY <1>1, <2>2
    <3> QED BY <2>1, <2>2, <3>1 DEF IsHand
  <2>3. CASE h \notin LockedHands(b)
    BY <1>1, <2>3
  <2> QED BY <2>2, <2>3
<1>4. DOMAIN hand' = Hands
  BY <1>1
<1> QED BY <1>1, <1>2, <1>3, <1>4, CommitText

(* So does a new zone.                                                     *)
LEMMA ZoneCommitText ==
  ASSUME StoreInv, TextInv, ZoneCommit
  PROVE  TextInv'
<1> DEFINE zone == tx[ZoneChange].zone
<1>1. /\ UNCHANGED <<uploads, job, doc>>
      /\ hand' = [h \in Hands |->
           IF h \in LockedHands(ZoneChange) THEN [hand[h] EXCEPT !.zone = zone] ELSE hand[h]]
  BY DEF ZoneCommit
<1> HIDE DEF zone
<1>2. LockedHands(ZoneChange) \subseteq Stored
  BY DEF StoreInv, ZoneHeld
<1>3. ASSUME NEW h \in Hands
      PROVE  /\ hand'[h].stage = hand[h].stage /\ hand'[h].results = hand[h].results
             /\ hand'[h].by = hand[h].by
             /\ h \notin LockedHands(ZoneChange) => hand'[h] = hand[h]
  <2>1. IsHand(hand[h])
    BY DEF StoreInv, TypeOK
  <2>2. CASE h \in LockedHands(ZoneChange)
    <3>1. hand'[h] = [hand[h] EXCEPT !.zone = zone]
      BY <1>1, <2>2
    <3> QED BY <2>1, <2>2, <3>1 DEF IsHand
  <2>3. CASE h \notin LockedHands(ZoneChange)
    BY <1>1, <2>3
  <2> QED BY <2>2, <2>3
<1>4. DOMAIN hand' = Hands
  BY <1>1
<1> QED BY <1>1, <1>2, <1>3, <1>4, CommitText

(* No other transaction writes hands or documents.                         *)
LEMMA TextStep ==
  ASSUME StoreInv, TextInv, [Next]_vars
  PROVE  TextInv'
<1>0. ASSUME UNCHANGED <<uploads, job, doc, hand>> PROVE TextInv'
  BY <1>0, TextStays DEF Stored, NoHand
<1>1. ASSUME NEW b \in Bundles, Enqueue(b) PROVE TextInv'
  <2>1. \A j \in Jobs : j \in Members(b) => DocOf(doc'[j], j[2])
    <3> SUFFICES ASSUME NEW j \in Jobs, j \in Members(b) PROVE DocOf(doc'[j], j[2])
      OBVIOUS
    <3>1. j[2] \in Paired(uploads[b]) /\ j[3] \in Kinds
      BY DEF Members
    <3>2. DocOf(MemberDoc(uploads[b], j[2], j[3]), j[2])
      BY <3>1, MembersAreDocs DEF TextInv
    <3> QED BY <1>1, <3>2 DEF Enqueue
  <2>2. \A j \in Jobs : j \notin Members(b) => doc'[j] = doc[j] /\ job'[j] = job[j]
    BY <1>1 DEF Enqueue
  <2>3. uploads' = uploads /\ hand' = hand
    BY <1>1 DEF Enqueue, core
  <2>4. JobsHaveTexts'
    BY <2>1, <2>2 DEF TextInv, JobsHaveTexts, DocOf, Docs
  <2> QED BY <2>3, <2>4 DEF TextInv, UploadsType, FromText, Stored, NoHand
<1>2. ASSUME NEW b \in Bundles,
             FinalizeBegin(b) \/ OrderHands(b) \/ StoreHelper(b) \/ FinalizeConflict(b)
      PROVE  TextInv'
  <2>1. UNCHANGED <<uploads, job, doc, hand>>
    BY <1>2 DEF FinalizeBegin, OrderHands, StoreHelper, FinalizeConflict, Abort, Stays, core
  <2> QED BY <2>1, <1>0
<1>3. ASSUME NEW b \in Bundles, FinalizeCommit(b) PROVE TextInv'
  BY <1>3, FinalizeCommitText
<1>4. ASSUME NEW j \in Jobs, FileBegin(j) PROVE TextInv'
  <2>1. UNCHANGED <<uploads, doc, hand>> /\ job[j] = "queued" /\ job' = [job EXCEPT ![j] = "running"]
    BY <1>4 DEF FileBegin, core
  <2>2. job \in [Jobs -> JobStates]
    BY DEF StoreInv, TypeOK
  <2>3. \A i \in Jobs : job'[i] \in {"queued", "running"} => job[i] \in {"queued", "running"}
    BY <2>1, <2>2
  <2> QED BY <2>1, <2>3, TextStays DEF Stored, NoHand
<1>5. ASSUME NEW j \in Jobs, PersistSummary(j) \/ FileFails(j) PROVE TextInv'
  <2>1. hand' = hand /\ \E status \in {"succeeded", "failed"} : Finish(j, status)
    BY <1>5 DEF PersistSummary, FileFails, core
  <2>2. /\ doc' = doc /\ uploads' = uploads
        /\ \A i \in Jobs : job'[i] \in {"queued", "running"} => job[i] \in {"queued", "running"}
    BY <2>1, FinishLeaves
  <2> QED BY <2>1, <2>2, TextStays DEF Stored, NoHand
<1>6. ASSUME NEW j \in Jobs, PersistHands(j) PROVE TextInv'
  BY <1>6, PersistHandsText
<1>7. ASSUME NEW p \in Sessions, DeleteFeatures(p) \/ InsertRows(p) \/ DeadlockVictim(p)
      PROVE  TextInv'
  <2>1. UNCHANGED <<uploads, job, doc, hand>>
    BY <1>7 DEF DeleteFeatures, InsertRows, DeadlockVictim, Rollback, Abort, Stays, core
  <2> QED BY <2>1, <1>0
<1>8. ASSUME NEW zone \in Zones, SetZone(zone) PROVE TextInv'
  BY <1>8, <1>0 DEF SetZone, core
<1>9. ASSUME UpdateZones \/ ZoneConflict PROVE TextInv'
  BY <1>9, <1>0 DEF UpdateZones, ZoneConflict, Rollback, Stays, core
<1>10. ASSUME ZoneCommit PROVE TextInv'
  BY <1>10, ZoneCommitText
<1>11. ASSUME UNCHANGED vars PROVE TextInv'
  BY <1>11, <1>0 DEF vars, core
<1> QED
  BY <1>1, <1>2, <1>3, <1>4, <1>5, <1>6, <1>7, <1>8, <1>9, <1>10, <1>11 DEF Next

LEMMA TextInit == Init => TextInv
<1> SUFFICES ASSUME Init PROVE TextInv
  OBVIOUS
<1>1. Stored = {}
  BY DEF Init, Stored
<1>2. JobsHaveTexts
  BY DEF Init, JobsHaveTexts
<1> QED BY <1>1, <1>2 DEF Init, TextInv, UploadsType

-----------------------------------------------------------------------------
(* Sums over hands.                                                        *)

(* A total is the sum over its domain of whatever has the same terms.      *)
LEMMA TotalOn ==
  ASSUME NEW F, NEW S, IsFiniteSet(S), NEW f, DOMAIN f = S, \A x \in S : f[x] = F[x] /\ f[x] \in Int
  PROVE  Total(f) = TotalOver(F, S)
<1>1. Total(f) = TotalOver(f, S)
  BY TotalIsRec
<1> QED BY <1>1, SameTerms

(* What is counted in two places adds up.                                  *)
LEMMA TotalOfParts ==
  ASSUME NEW F, NEW S, IsFiniteSet(S), NEW T, IsFiniteSet(T), S \cap T = {},
         \A x \in S \cup T : F[x] \in Int
  PROVE  TotalOver(F, S \cup T) = TotalOver(F, S) + TotalOver(F, T)
<1> DEFINE G == {U \in SUBSET T : TotalOver(F, S \cup U) = TotalOver(F, S) + TotalOver(F, U)}
<1>1. {} \in G
  <2>1. S \cup {} = S /\ TotalOver(F, {}) = 0 /\ TotalOver(F, S) \in Int
    BY FS_EmptySet, TotalOverStep
  <2> QED BY <2>1
<1>2. ASSUME NEW U \in SUBSET T, NEW x \in T \ U, U \in G PROVE U \cup {x} \in G
  <2>1. IsFiniteSet(U) /\ IsFiniteSet(S \cup U) /\ x \notin S \cup U
    BY FS_Subset, FS_Union
  <2>2. F[x] \in Int /\ (\A y \in U : F[y] \in Int) /\ \A y \in S \cup U : F[y] \in Int
    OBVIOUS
  <2>3. TotalOver(F, (S \cup U) \cup {x}) = F[x] + TotalOver(F, S \cup U)
    BY <2>1, <2>2, TotalOverAdd
  <2>4. TotalOver(F, U \cup {x}) = F[x] + TotalOver(F, U)
    BY <2>1, <2>2, TotalOverAdd
  <2>5. TotalOver(F, S) \in Int /\ TotalOver(F, U) \in Int
    BY <2>1, <2>2, TotalOverStep
  <2>6. TotalOver(F, S \cup U) = TotalOver(F, S) + TotalOver(F, U)
    BY <1>2
  <2>7. TotalOver(F, (S \cup U) \cup {x}) = TotalOver(F, S) + TotalOver(F, U \cup {x})
    BY <2>2, <2>3, <2>4, <2>5, <2>6
  <2>8. S \cup (U \cup {x}) = (S \cup U) \cup {x}
    OBVIOUS
  <2>9. TotalOver(F, S \cup (U \cup {x})) = TotalOver(F, S) + TotalOver(F, U \cup {x})
    BY <2>7, <2>8
  <2> QED BY <2>9
<1>3. G \in SUBSET (SUBSET T)
  OBVIOUS
<1>4. T \in G
  <2> HIDE DEF G
  <2> QED BY <1>1, <1>2, <1>3, FiniteInduction
<1> QED BY <1>4

(* A part is not more than the whole.                                      *)
LEMMA PartOfTotal ==
  ASSUME NEW F, NEW S, IsFiniteSet(S), NEW T \in SUBSET S, \A x \in S : F[x] \in Nat
  PROVE  TotalOver(F, T) <= TotalOver(F, S) /\ TotalOver(F, T) \in Nat /\ TotalOver(F, S) \in Nat
<1> DEFINE R == S \ T
<1>1. IsFiniteSet(T) /\ IsFiniteSet(R) /\ T \cap R = {} /\ T \cup R = S
  BY FS_Subset
<1>2. (\A x \in T : F[x] \in Nat) /\ (\A x \in R : F[x] \in Nat) /\ \A x \in T \cup R : F[x] \in Int
  OBVIOUS
<1> HIDE DEF R
<1>3. TotalOver(F, T \cup R) = TotalOver(F, T) + TotalOver(F, R)
  BY <1>1, <1>2, TotalOfParts
<1>4. TotalOver(F, T) \in Nat /\ TotalOver(F, R) \in Nat
  BY <1>1, <1>2, TotalNat
<1>5. TotalOver(F, S) = TotalOver(F, T) + TotalOver(F, R)
  BY <1>1, <1>3, Zenon
<1> QED BY <1>4, <1>5

-----------------------------------------------------------------------------
(* A stored hand.                                                          *)

(* One of some hands was played first.                                     *)
LEMMA EarliestIs ==
  ASSUME NEW S \in SUBSET Hands, S # {}
  PROVE  Earliest(info, S) \in S /\ \A g \in S \ {Earliest(info, S)} : Earlier(info, Earliest(info, S), g)
<1> DEFINE First(T, h) == h \in T /\ \A g \in T \ {h} : Earlier(info, h, g)
           G == {T \in SUBSET S : T # {} => \E h \in T : First(T, h)}
<1>0. \A h \in Hands : h \in Nat /\ info[h].at \in Nat
  BY HandsAssumption
<1>1. ASSUME NEW T \in SUBSET S, NEW x \in S \ T, T \in G PROVE T \cup {x} \in G
  <2>1. CASE T = {}
    <3>1. First(T \cup {x}, x)
      BY <2>1
    <3> QED BY <3>1
  <2>2. CASE T # {}
    <3>1. PICK h \in T : First(T, h)
      BY <1>1, <2>2
    <3>2. CASE Earlier(info, h, x)
      <4>1. First(T \cup {x}, h)
        BY <3>1, <3>2
      <4> QED BY <4>1
    <3>3. CASE ~Earlier(info, h, x)
      <4>1. Earlier(info, x, h)
        BY <1>0, <3>1, <3>3 DEF Earlier
      <4>2. \A g \in T \ {h} : Earlier(info, x, g)
        <5> SUFFICES ASSUME NEW g \in T \ {h} PROVE Earlier(info, x, g)
          OBVIOUS
        <5>1. Earlier(info, h, g)
          BY <3>1
        <5> QED BY <1>0, <4>1, <5>1 DEF Earlier
      <4>3. First(T \cup {x}, x)
        BY <4>1, <4>2
      <4> QED BY <4>3
    <3> QED BY <3>2, <3>3
  <2> QED BY <2>1, <2>2
<1>2. {} \in G /\ G \in SUBSET (SUBSET S) /\ IsFiniteSet(S)
  BY HandsAssumption, FS_Subset
<1>3. S \in G
  <2> HIDE DEF G
  <2> QED BY <1>1, <1>2, FiniteInduction
<1>4. \E h \in S : \A g \in S \ {h} : Earlier(info, h, g)
  BY <1>3
<1> QED BY <1>4 DEF Earliest

(* A boundary hand is before the final table.                              *)
LEMMA BoundaryIsEarlier ==
  ASSUME NEW hs \in SUBSET Hands, NEW h \in BoundaryCandidates(info, hs)
  PROVE  ~IsFt(info, h)
<1> DEFINE ft == {g \in hs : IsFt(info, g)}
           e == Earliest(info, ft)
<1>1. h \in hs /\ ft # {} /\ Earlier(info, h, e)
  BY DEF BoundaryCandidates
<1>2. e \in ft /\ \A g \in ft \ {e} : Earlier(info, e, g)
  BY <1>1, EarliestIs
<1>3. h \in Nat /\ e \in Nat /\ info[h].at \in Nat /\ info[e].at \in Nat
  BY <1>1, <1>2, HandsAssumption
<1>4. ~Earlier(info, e, h)
  BY <1>1, <1>3 DEF Earlier
<1>5. e # h
  BY <1>1, <1>3 DEF Earlier
<1>6. h \notin ft
  BY <1>2, <1>4, <1>5
<1> QED BY <1>1, <1>6

(* The columns of a stage row.                                             *)
LEMMA StageColumns ==
  ASSUME NEW hs, NEW h
  PROVE  /\ StageRow(info, hs, h).ft <=> IsFt(info, h)
         /\ IsFt(info, h) => StageRow(info, hs, h).size = info[h].seats
         /\ StageRow(info, hs, h).boundary <=> h \in BoundaryCandidates(info, hs)
         /\ StageRow(info, hs, h).boundaryKo # None =>
              StageRow(info, hs, h).boundaryKo = ExactShare(info[h].kos)
<1> DEFINE C == BoundaryCandidates(info, hs)
           row == StageRow(info, hs, h)
<1>1. row = [ft |-> IsFt(info, h),
             size |-> IF IsFt(info, h) THEN info[h].seats ELSE None,
             boundary |-> h \in C,
             state |-> BoundaryState(C),
             candidates |-> Cardinality(C),
             boundaryKo |-> IF h \in C /\ BoundaryState(C) = "exact"
                            THEN ExactShare(info[h].kos) ELSE None]
  BY DEF StageRow
<1> HIDE DEF row, C
<1>2. row.ft = IsFt(info, h)
  BY <1>1
<1>3. row.boundary = (h \in C)
  BY <1>1
<1>4. IsFt(info, h) => row.size = info[h].seats
  BY <1>1
<1>5. row.boundaryKo # None => row.boundaryKo = ExactShare(info[h].kos)
  BY <1>1
<1> QED BY <1>2, <1>3, <1>4, <1>5 DEF row, C

(* What the rows of a stored hand are.                                     *)
SoundRows(h) ==
  /\ h \in Hands
  /\ hand[h].stage.ft => hand[h].stage.size \in 2..FtPlayers
  /\ hand[h].stage.boundary => ~hand[h].stage.ft
  /\ hand[h].stage.boundaryKo # None => hand[h].stage.boundaryKo = Share(h)
  /\ Cardinality(Knockouts(h)) \in Nat
  /\ Share(h) \in Nat
  /\ hand[h].results.attempts \in Nat
LEMMA StoredRows ==
  ASSUME TextInv, NEW h \in Stored
  PROVE  SoundRows(h)
<1>1. h \in Hands
  BY DEF Stored
<1>2. PICK hs \in SUBSET Hands : h \in hs /\ hand[h].stage = StageRow(info, hs, h)
  BY FilesAssumption DEF TextInv, FromText, Docs
<1>3. hand[h].results = ResultRows(info, h)
  BY DEF TextInv, FromText
<1>4. hand[h].results.kos = info[h].kos /\ hand[h].results.attempts = info[h].attempts
  BY <1>3 DEF ResultRows
<1>5. /\ hand[h].stage.ft <=> IsFt(info, h)
      /\ IsFt(info, h) => hand[h].stage.size = info[h].seats
      /\ hand[h].stage.boundary <=> h \in BoundaryCandidates(info, hs)
      /\ hand[h].stage.boundaryKo # None => hand[h].stage.boundaryKo = ExactShare(info[h].kos)
  BY <1>2, StageColumns
<1>6. Knockouts(h) = {k \in info[h].kos : k.exact}
  BY <1>4 DEF Knockouts, ExactKos
<1>7. IsFiniteSet(Knockouts(h)) /\ \A k \in Knockouts(h) : k.share \in Nat
  BY <1>1, <1>6, HandsAssumption, FS_Subset
<1>8. Cardinality(Knockouts(h)) \in Nat
  BY <1>7, FS_CardinalityType
<1>9. Share(h) \in Nat
  <2> DEFINE f == [k \in Knockouts(h) |-> k.share]
  <2>1. DOMAIN f = Knockouts(h) /\ \A k \in Knockouts(h) : f[k] \in Nat
    BY <1>7
  <2>2. Share(h) = Total(f)
    BY DEF Share
  <2> HIDE DEF f
  <2>3. Total(f) = TotalOver(f, Knockouts(h))
    BY <2>1, TotalIsRec
  <2> QED BY <1>7, <2>1, <2>2, <2>3, TotalNat
<1>10. ExactShare(info[h].kos) # None => ExactShare(info[h].kos) = Share(h)
  BY <1>6 DEF ExactShare, Share
<1>11. hand[h].stage.boundary => ~hand[h].stage.ft
  BY <1>5, BoundaryIsEarlier
<1>12. hand[h].stage.ft => hand[h].stage.size \in 2..FtPlayers
  BY <1>1, <1>5, HandsAssumption
<1>13. hand[h].stage.boundaryKo # None => hand[h].stage.boundaryKo = Share(h)
  BY <1>5, <1>10
<1>14. hand[h].results.attempts \in Nat
  BY <1>1, <1>4, HandsAssumption
<1> QED BY <1>1, <1>8, <1>9, <1>11, <1>12, <1>13, <1>14 DEF SoundRows

(* The hands of a tournament are finitely many, and so are any of them.    *)
LEMMA FiniteHands ==
  ASSUME NEW t, NEW S \in SUBSET HandsIn({t})
  PROVE  S \subseteq Stored /\ S \subseteq Hands /\ IsFiniteSet(S)
<1>1. S \subseteq Stored /\ S \subseteq Hands
  BY DEF HandsIn, Stored
<1> QED BY <1>1, HandsAssumption, FS_Subset

(* What a hand counts for.                                                 *)
KoOf == [h \in Hands |-> Cardinality(Knockouts(h))]
ShareOf == [h \in Hands |-> Share(h)]
AttemptsOf == [h \in Hands |-> hand[h].results.attempts]

(* The facts of a tournament are sums over its hands.                      *)
LEMMA FactsAreSums ==
  ASSUME TextInv, NEW t, NEW S \in SUBSET HandsIn({t})
  PROVE  /\ \A h \in S : KoOf[h] \in Nat /\ ShareOf[h] \in Nat /\ AttemptsOf[h] \in Nat
         /\ Events(S) = TotalOver(KoOf, S)
         /\ Shares(S) = TotalOver(ShareOf, S)
         /\ Attempts(S) = TotalOver(AttemptsOf, S)
<1>1. IsFiniteSet(S) /\ \A h \in S : h \in Stored /\ h \in Hands
  BY FiniteHands
<1>2. \A h \in S : KoOf[h] = Cardinality(Knockouts(h)) /\ ShareOf[h] = Share(h)
                    /\ AttemptsOf[h] = hand[h].results.attempts
  BY <1>1 DEF KoOf, ShareOf, AttemptsOf
<1>3. \A h \in S : KoOf[h] \in Nat /\ ShareOf[h] \in Nat /\ AttemptsOf[h] \in Nat
  BY <1>1, <1>2, StoredRows DEF SoundRows
<1>4. Events(S) = TotalOver(KoOf, S)
  <2> DEFINE f == [h \in S |-> Cardinality(Knockouts(h))]
  <2>1. DOMAIN f = S /\ \A h \in S : f[h] = KoOf[h] /\ f[h] \in Int
    BY <1>2, <1>3
  <2>2. Events(S) = Total(f)
    BY DEF Events
  <2> HIDE DEF f
  <2> QED BY <1>1, <2>1, <2>2, TotalOn
<1>5. Shares(S) = TotalOver(ShareOf, S)
  <2> DEFINE f == [h \in S |-> Share(h)]
  <2>1. DOMAIN f = S /\ \A h \in S : f[h] = ShareOf[h] /\ f[h] \in Int
    BY <1>2, <1>3
  <2>2. Shares(S) = Total(f)
    BY DEF Shares
  <2> HIDE DEF f
  <2> QED BY <1>1, <2>1, <2>2, TotalOn
<1>6. Attempts(S) = TotalOver(AttemptsOf, S)
  <2> DEFINE f == [h \in S |-> hand[h].results.attempts]
  <2>1. DOMAIN f = S /\ \A h \in S : f[h] = AttemptsOf[h] /\ f[h] \in Int
    BY <1>2, <1>3
  <2>2. Attempts(S) = Total(f)
    BY DEF Attempts
  <2> HIDE DEF f
  <2> QED BY <1>1, <2>1, <2>2, TotalOn
<1> QED BY <1>3, <1>4, <1>5, <1>6

(* The features of a published hand are those of its rows.                 *)
LEMMA PublishedFeatures ==
  ASSUME StoreInv, NEW t \in PublishedTournaments, NEW h \in HandsIn({t})
  PROVE  features[h].row = FeatureRow(hand[h].stage, hand[h].results)
<1>1. h \in Stored /\ Published(h)
  BY DEF HandsIn, PublishedTournaments
<1>2. FeaturesFollowRows
  BY DEF StoreInv
<1>3. features[h] = [row |-> FeatureRow(hand[h].stage, hand[h].results), street |-> TRUE]
  BY <1>1, <1>2 DEF FeaturesFollowRows
<1> QED BY <1>3

(* The hands of S are those whose features name one of the stages.         *)
InStages(S, t, stages) ==
  \A h \in HandsIn({t}) : h \in S <=> stages = {} \/ features[h].row.in \cap stages # {}

(* A sum over features is the sum of what they were computed from.         *)
LEMMA FeatureSums ==
  ASSUME StoreInv, TextInv, NEW t \in PublishedTournaments, NEW stages,
         NEW S \in SUBSET HandsIn({t}), InStages(S, t, stages)
  PROVE  /\ FeatureSum(t, "exactKos", stages) = TotalOver(KoOf, S)
         /\ FeatureSum(t, "attempts", stages) = TotalOver(AttemptsOf, S)
<1>1. IsFiniteSet(S) /\ \A h \in S : h \in Stored /\ h \in Hands
  BY FiniteHands
<1>2. S = {g \in HandsIn({t}) : stages = {} \/ features[g].row.in \cap stages # {}}
  BY DEF InStages
<1>3. ASSUME NEW h \in S
      PROVE  /\ features[h].row["exactKos"] = KoOf[h]
             /\ features[h].row["attempts"] = AttemptsOf[h]
             /\ KoOf[h] \in Int /\ AttemptsOf[h] \in Int
  <2>1. features[h].row = FeatureRow(hand[h].stage, hand[h].results)
    BY PublishedFeatures
  <2>2. /\ features[h].row["exactKos"] = Cardinality(ExactKos(hand[h].results.kos))
        /\ features[h].row["attempts"] = hand[h].results.attempts
    BY <2>1 DEF FeatureRow
  <2>3. KoOf[h] = Cardinality(ExactKos(hand[h].results.kos)) /\ AttemptsOf[h] = hand[h].results.attempts
    BY <1>1 DEF KoOf, AttemptsOf, Knockouts
  <2>4. KoOf[h] \in Nat /\ AttemptsOf[h] \in Nat
    BY FactsAreSums
  <2> QED BY <2>2, <2>3, <2>4
<1>4. FeatureSum(t, "exactKos", stages) = TotalOver(KoOf, S)
  <2> DEFINE f == [h \in S |-> features[h].row["exactKos"]]
  <2>1. DOMAIN f = S /\ \A h \in S : f[h] = KoOf[h] /\ f[h] \in Int
    BY <1>3
  <2>2. FeatureSum(t, "exactKos", stages) = Total(f)
    BY <1>2 DEF FeatureSum
  <2> HIDE DEF f
  <2> QED BY <1>1, <2>1, <2>2, TotalOn
<1>5. FeatureSum(t, "attempts", stages) = TotalOver(AttemptsOf, S)
  <2> DEFINE f == [h \in S |-> features[h].row["attempts"]]
  <2>1. DOMAIN f = S /\ \A h \in S : f[h] = AttemptsOf[h] /\ f[h] \in Int
    BY <1>3
  <2>2. FeatureSum(t, "attempts", stages) = Total(f)
    BY <1>2 DEF FeatureSum
  <2> HIDE DEF f
  <2> QED BY <1>1, <2>1, <2>2, TotalOn
<1> QED BY <1>4, <1>5

(* The stages a feature row names are those of the hand.                   *)
LEMMA FeatureStages ==
  ASSUME StoreInv, TextInv, NEW t \in PublishedTournaments, NEW h \in HandsIn({t})
  PROVE  features[h].row.in = {s \in DOMAIN Stages : hand[h].stage.ft /\ hand[h].stage.size \in Stages[s]}
<1>1. features[h].row = FeatureRow(hand[h].stage, hand[h].results)
  BY PublishedFeatures
<1> QED BY <1>1 DEF FeatureRow

-----------------------------------------------------------------------------
(* The conjuncts of StatisticsAgree.                                       *)

LEMMA EventsAgree ==
  ASSUME StoreInv, TextInv, NEW t \in PublishedTournaments
  PROVE  /\ KoEventFact(t).events = FeatureSum(t, "exactKos", {})
         /\ KoEventFact(t).earlyEvents = FeatureSum(t, "exactKos", {"stage_6_9"})
         /\ StageAttemptFact(t).stage.ko_5_6 = FeatureSum(t, "attempts", {"stage_5_6"})
         /\ StageAttemptFact(t).ft = FeatureSum(t, "attempts", DOMAIN Stages)
<1> DEFINE H == HandsIn({t})
<1>1. \A h \in H : h \in Stored /\ SoundRows(h)
  BY FiniteHands, StoredRows
<1>2. Events(H) = FeatureSum(t, "exactKos", {})
  <2>1. H \in SUBSET H
    OBVIOUS
  <2>2. InStages(H, t, {})
    BY DEF InStages
  <2> HIDE DEF H
  <2>3. Events(H) = TotalOver(KoOf, H)
    BY <2>1, FactsAreSums DEF H
  <2>4. FeatureSum(t, "exactKos", {}) = TotalOver(KoOf, H)
    BY <2>1, <2>2, FeatureSums DEF H
  <2> QED BY <2>3, <2>4
<1>3. ASSUME NEW s \in DOMAIN Stages, NEW sizes, sizes = Stages[s]
      PROVE  /\ Events(HandsAt(t, sizes)) = FeatureSum(t, "exactKos", {s})
             /\ Attempts(HandsAt(t, sizes)) = FeatureSum(t, "attempts", {s})
  <2>1. HandsAt(t, sizes) \in SUBSET H
    BY DEF HandsAt, FtHands
  <2>2. InStages(HandsAt(t, sizes), t, {s})
    BY <1>3, FeatureStages DEF HandsAt, FtHands, InStages
  <2>3. /\ Events(HandsAt(t, sizes)) = TotalOver(KoOf, HandsAt(t, sizes))
        /\ Attempts(HandsAt(t, sizes)) = TotalOver(AttemptsOf, HandsAt(t, sizes))
    BY <2>1, FactsAreSums
  <2>4. /\ FeatureSum(t, "exactKos", {s}) = TotalOver(KoOf, HandsAt(t, sizes))
        /\ FeatureSum(t, "attempts", {s}) = TotalOver(AttemptsOf, HandsAt(t, sizes))
    BY <2>1, <2>2, FeatureSums
  <2> QED BY <2>3, <2>4
<1>4. Attempts(FtHands(t)) = FeatureSum(t, "attempts", DOMAIN Stages)
  <2>1. FtHands(t) \in SUBSET H
    BY DEF FtHands
  <2>2. ASSUME NEW h \in H
        PROVE  h \in FtHands(t) <=> DOMAIN Stages = {} \/ features[h].row.in \cap DOMAIN Stages # {}
    <3>1. DOMAIN Stages # {} /\ \A n \in 2..FtPlayers : \E s \in DOMAIN Stages : n \in Stages[s]
      BY DEF Stages, FtPlayers
    <3>2. hand[h].stage.ft => hand[h].stage.size \in 2..FtPlayers
      BY <1>1 DEF SoundRows
    <3>3. features[h].row.in = {s \in DOMAIN Stages : hand[h].stage.ft /\ hand[h].stage.size \in Stages[s]}
      BY FeatureStages
    <3> QED BY <3>1, <3>2, <3>3 DEF FtHands
  <2>3. InStages(FtHands(t), t, DOMAIN Stages)
    BY <2>2 DEF InStages
  <2>4. Attempts(FtHands(t)) = TotalOver(AttemptsOf, FtHands(t))
    BY <2>1, FactsAreSums
  <2>5. FeatureSum(t, "attempts", DOMAIN Stages) = TotalOver(AttemptsOf, FtHands(t))
    BY <2>1, <2>3, FeatureSums
  <2> QED BY <2>4, <2>5
<1>5. /\ "stage_6_9" \in DOMAIN Stages /\ Stages["stage_6_9"] = StatStages.ko_6_9
      /\ "stage_5_6" \in DOMAIN Stages /\ Stages["stage_5_6"] = StatStages.ko_5_6
  BY DEF Stages, StatStages, FtPlayers
<1>6. KoEventFact(t).events = Events(H) /\ KoEventFact(t).earlyEvents = Events(HandsAt(t, StatStages.ko_6_9))
  BY DEF KoEventFact
<1>7. /\ StageAttemptFact(t).ft = Attempts(FtHands(t))
      /\ StageAttemptFact(t).stage.ko_5_6 = Attempts(HandsAt(t, StatStages.ko_5_6))
  BY DEF StageAttemptFact, StatStages
<1> QED BY <1>2, <1>3, <1>4, <1>5, <1>6, <1>7

(* What the helper of a published tournament says.                         *)
HelperSays(t) ==
  /\ helper[t] # NoHelper
  /\ helper[t].reached <=> FtHands(t) # {}
  /\ FtHands(t) = {} => helper[t].deepest = None
  /\ FtHands(t) # {} =>
       \E first \in FtHands(t) :
         /\ \A g \in FtHands(t) \ {first} :
              hand[first].order < hand[g].order \/ (hand[first].order = hand[g].order /\ first < g)
         /\ helper[t].firstSize = hand[first].stage.size
         /\ helper[t].stack = info[first].stack
         /\ helper[t].entryBb = (100 * info[first].stack) \div info[first].bb
         /\ helper[t].deepest \in {hand[h].stage.size : h \in FtHands(t)}
         /\ \A h \in FtHands(t) : helper[t].deepest <= hand[h].stage.size

(* The hands of a published tournament are numbered from one.              *)
LEMMA Numbered ==
  ASSUME StoreInv, NEW t \in PublishedTournaments, NEW h \in HandsIn({t})
  PROVE  hand[h].order \in Nat \ {0}
<1> DEFINE hs == HandsIn({t})
           before == {g \in hs : Earlier(info, g, h)}
<1>1. OrdersOf(t) = [g \in hs |-> HandOrder(info, hs, g)]
  BY DEF StoreInv, HelperFollowsRows
<1>2. hand[h].order = HandOrder(info, hs, h)
  BY <1>1 DEF OrdersOf
<1>3. before \in SUBSET HandsIn({t})
  OBVIOUS
<1>4. Cardinality(before) \in Nat
  <2> HIDE DEF before
  <2> QED BY <1>3, FiniteHands, FS_CardinalityType
<1> QED BY <1>2, <1>4 DEF HandOrder

(* Of some hands one has the least number.                                 *)
FirstOf(T, h) ==
  /\ h \in T
  /\ \A g \in T \ {h} : hand[h].order < hand[g].order \/ (hand[h].order = hand[g].order /\ h < g)
LEMMA OneIsFirst ==
  ASSUME NEW S \in SUBSET Hands, S # {}, \A h \in S : hand[h].order \in Nat
  PROVE  \E h \in S : FirstOf(S, h)
<1> DEFINE G == {T \in SUBSET S : T # {} => \E h \in T : FirstOf(T, h)}
<1>0. \A h \in S : h \in Nat
  BY HandsAssumption
<1>1. ASSUME NEW T \in SUBSET S, NEW x \in S \ T, T \in G PROVE T \cup {x} \in G
  <2>1. CASE T = {}
    <3>1. FirstOf(T \cup {x}, x)
      BY <2>1 DEF FirstOf
    <3> QED BY <3>1
  <2>2. CASE T # {}
    <3>1. PICK h \in T : FirstOf(T, h)
      BY <1>1, <2>2
    <3>2. h # x /\ h \in Nat /\ x \in Nat /\ hand[h].order \in Nat /\ hand[x].order \in Nat
      BY <1>0, <1>1
    <3>3. CASE hand[h].order < hand[x].order \/ (hand[h].order = hand[x].order /\ h < x)
      <4>1. FirstOf(T \cup {x}, h)
        BY <3>1, <3>3 DEF FirstOf
      <4> QED BY <4>1
    <3>4. CASE ~(hand[h].order < hand[x].order \/ (hand[h].order = hand[x].order /\ h < x))
      <4>1. hand[x].order < hand[h].order \/ (hand[x].order = hand[h].order /\ x < h)
        BY <3>2, <3>4
      <4>2. ASSUME NEW g \in T \ {h}
            PROVE  hand[x].order < hand[g].order \/ (hand[x].order = hand[g].order /\ x < g)
        <5>1. hand[h].order < hand[g].order \/ (hand[h].order = hand[g].order /\ h < g)
          BY <3>1 DEF FirstOf
        <5>2. hand[g].order \in Nat /\ g \in Nat
          BY <1>0
        <5> QED BY <3>2, <4>1, <5>1, <5>2
      <4>3. FirstOf(T \cup {x}, x)
        BY <4>1, <4>2 DEF FirstOf
      <4> QED BY <4>3
    <3> QED BY <3>3, <3>4
  <2> QED BY <2>1, <2>2
<1>2. {} \in G /\ G \in SUBSET (SUBSET S) /\ IsFiniteSet(S)
  BY HandsAssumption, FS_Subset
<1>3. S \in G
  <2> HIDE DEF G
  <2> QED BY <1>1, <1>2, FiniteInduction
<1> QED BY <1>3

LEMMA SizesAreFinite == IsFiniteSet(2..9)
<1> DEFINE m == 2
           n == 9
<1>1. m \in Int /\ n \in Int
  OBVIOUS
<1> HIDE DEF m, n
<1>2. IsFiniteSet(m..n)
  BY <1>1, FS_Interval
<1> QED BY <1>2 DEF m, n

(* The columns of the helper row are those of the stored final table.      *)
LEMMA HelperColumns ==
  ASSUME StoreInv, TextInv, NEW t \in PublishedTournaments
  PROVE  HelperSays(t)
<1> DEFINE hs == HandsIn({t})
           stage == StageSeen(hs)
           order == OrdersOf(t)
           ft == {h \in hs : stage[h].ft}
           sizes == {stage[h].size : h \in ft}
           first == CHOOSE h \in ft : \A g \in ft \ {h} :
                      order[h] < order[g] \/ (order[h] = order[g] /\ h < g)
           deepest == CHOOSE n \in sizes : \A k \in sizes : n <= k
           row == HelperRow(info, hs, stage, order)
<1>1. helper[t] = row
  BY DEF StoreInv, HelperFollowsRows
<1>2. /\ \A h \in hs : stage[h] = hand[h].stage /\ order[h] = hand[h].order
      /\ ft = FtHands(t)
  BY DEF StageSeen, OrdersOf, FtHands
<1>3. row = [reached |-> ft # {},
      first |-> IF ft = {} THEN None ELSE first,
      firstSize |-> IF ft = {} THEN None ELSE stage[first].size,
      incomplete |-> IF ft = {} THEN None ELSE stage[first].size < FtPlayers,
      deepest |-> IF ft = {} THEN None ELSE deepest,
      stack |-> IF ft = {} THEN None ELSE info[first].stack,
      entryBb |-> IF ft = {} THEN None ELSE (100 * info[first].stack) \div info[first].bb,
      boundary |-> \E h \in hs : stage[h].boundary,
      state |-> MergedState({stage[h].state : h \in hs})]
  BY DEF HelperRow
<1>4. ft # {} => /\ first \in ft
                 /\ \A g \in ft \ {first} : hand[first].order < hand[g].order
                                            \/ (hand[first].order = hand[g].order /\ first < g)
  <2> SUFFICES ASSUME ft # {}
               PROVE  /\ first \in ft
                      /\ \A g \in ft \ {first} : hand[first].order < hand[g].order
                                            \/ (hand[first].order = hand[g].order /\ first < g)
    OBVIOUS
  <2>1. ft \in SUBSET Hands /\ \A h \in ft : hand[h].order \in Nat
    <3>1. ft \in SUBSET HandsIn({t})
      OBVIOUS
    <3> HIDE DEF ft
    <3> QED BY <3>1, FiniteHands, Numbered
  <2>2. PICK h \in ft : FirstOf(ft, h)
    <3> HIDE DEF ft
    <3> QED BY <2>1, OneIsFirst
  <2>3. \A g \in ft \ {h} : order[h] < order[g] \/ (order[h] = order[g] /\ h < g)
    BY <1>2, <2>2 DEF FirstOf
  <2>4. first \in ft /\ \A g \in ft \ {first} :
          order[first] < order[g] \/ (order[first] = order[g] /\ first < g)
    <3> HIDE DEF ft, order
    <3> QED BY <2>2, <2>3
  <2>5. \A g \in ft : order[g] = hand[g].order
    BY <1>2
  <2> HIDE DEF first, ft, order
  <2> QED BY <2>4, <2>5
<1>5. ft # {} => deepest \in sizes /\ \A n \in sizes : deepest <= n
  <2> SUFFICES ASSUME ft # {} PROVE deepest \in sizes /\ \A n \in sizes : deepest <= n
    OBVIOUS
  <2>1. \A h \in ft : stage[h].size \in 2..9
    <3>1. \A h \in hs : h \in Stored
      BY FiniteHands
    <3>2. \A h \in hs : hand[h].stage.ft => hand[h].stage.size \in 2..FtPlayers
      BY <3>1, StoredRows DEF SoundRows
    <3> HIDE DEF hs, stage
    <3>3. \A h \in ft : stage[h] = hand[h].stage /\ stage[h].size \in 2..FtPlayers
      BY <1>2, <3>2
    <3> QED BY <3>3 DEF FtPlayers
  <2>2. sizes \in SUBSET (2..9)
    BY <2>1
  <2>3. IsFiniteSet(sizes)
    <3> HIDE DEF sizes
    <3> QED BY <2>2, SizesAreFinite, FS_Subset
  <2>4. sizes \in SUBSET Int /\ sizes # {}
    <3>1. sizes \in SUBSET Int
      <4> HIDE DEF sizes
      <4> QED BY <2>2
    <3>2. sizes # {}
      <4> HIDE DEF ft, stage
      <4> QED OBVIOUS
    <3> QED BY <3>1, <3>2
  <2> HIDE DEF sizes
  <2>5. \E n \in sizes : \A k \in sizes : n <= k
    BY <2>3, <2>4, FiniteMin
  <2> QED BY <2>5
<1>6. \A n : n \in sizes <=> \E h \in FtHands(t) : n = hand[h].stage.size
  BY <1>2
<1> HIDE DEF first, deepest, row, sizes, stage, order, ft, hs
<1>7. row.reached = (ft # {})
  BY <1>3
<1>8. ft = {} => row.deepest = None
  BY <1>3
<1>9. ft # {} => /\ row.firstSize = stage[first].size
                 /\ row.deepest = deepest
  BY <1>3
<1>10. ft # {} => /\ row.stack = info[first].stack
                  /\ row.entryBb = (100 * info[first].stack) \div info[first].bb
  BY <1>3
<1>11. row # NoHelper
  <2>1. "reached" \in DOMAIN row
    BY <1>3
  <2>2. "reached" \notin DOMAIN NoHelper
    BY DEF NoHelper
  <2> QED BY <2>1, <2>2
<1>12. ft # {} => stage[first] = hand[first].stage
  BY <1>2, <1>4 DEF ft, hs
<1>13. ft # {} => deepest \in {hand[h].stage.size : h \in FtHands(t)}
                  /\ \A h \in FtHands(t) : deepest <= hand[h].stage.size
  BY <1>5, <1>6
<1>14. CASE ft = {}
  BY <1>1, <1>2, <1>7, <1>8, <1>11, <1>14 DEF HelperSays
<1>15. CASE ft # {}
  <2>1. /\ first \in FtHands(t)
        /\ \A g \in FtHands(t) \ {first} :
             hand[first].order < hand[g].order \/ (hand[first].order = hand[g].order /\ first < g)
    BY <1>2, <1>4, <1>15
  <2>2. /\ helper[t].firstSize = hand[first].stage.size
        /\ helper[t].deepest = deepest
    BY <1>1, <1>9, <1>12, <1>15
  <2>3. /\ helper[t].stack = info[first].stack
        /\ helper[t].entryBb = (100 * info[first].stack) \div info[first].bb
    BY <1>1, <1>10, <1>15
  <2>4. helper[t] # NoHelper /\ (helper[t].reached <=> FtHands(t) # {}) /\ FtHands(t) # {}
    BY <1>1, <1>2, <1>7, <1>11, <1>15
  <2>5. /\ helper[t].deepest \in {hand[h].stage.size : h \in FtHands(t)}
        /\ \A h \in FtHands(t) : helper[t].deepest <= hand[h].stage.size
    BY <1>13, <1>15, <2>2
  <2> QED BY <2>1, <2>2, <2>3, <2>4, <2>5 DEF HelperSays
<1> QED BY <1>14, <1>15

(* The helper says that the final table was reached exactly when a stored  *)
(* hand was played there, and that it was deep when one was short-handed.  *)
LEMMA ReachedAgrees ==
  ASSUME StoreInv, TextInv, NEW t \in PublishedTournaments
  PROVE  Reached(t) <=> FtHands(t) # {}
BY HelperColumns DEF HelperSays, Reached

LEMMA DeepAgrees ==
  ASSUME StoreInv, TextInv, NEW t \in PublishedTournaments
  PROVE  Deep(t) <=> DeepFtEntryFact(t) # NoEntry
<1> DEFINE hs == HandsAt(t, 2..5)
           first == CHOOSE h \in hs : \A g \in hs \ {h} : PlayedBefore(h, g)
           row == [stack |-> info[first].stack, bb |-> (100 * info[first].stack) \div info[first].bb,
                   players |-> hand[first].stage.size]
<1>1. HelperSays(t)
  BY HelperColumns
<1>2. \A h \in FtHands(t) : hand[h].stage.size \in 2..FtPlayers
  <2>1. FtHands(t) \in SUBSET HandsIn({t})
    BY DEF FtHands
  <2>2. \A h \in FtHands(t) : SoundRows(h)
    BY <2>1, FiniteHands, StoredRows
  <2> QED BY <2>2 DEF SoundRows, FtHands
<1>3. Deep(t) <=> hs # {}
  <2>1. CASE FtHands(t) = {}
    BY <1>1, <2>1 DEF HelperSays, Deep, HandsAt
  <2>2. CASE FtHands(t) # {}
    <3>1. /\ helper[t] # NoHelper
          /\ \E h \in FtHands(t) : helper[t].deepest = hand[h].stage.size
          /\ \A h \in FtHands(t) : helper[t].deepest <= hand[h].stage.size
      BY <1>1, <2>2 DEF HelperSays
    <3>2. PICK h \in FtHands(t) : helper[t].deepest = hand[h].stage.size
      BY <3>1
    <3>3. helper[t].deepest \in 2..FtPlayers
      BY <1>2, <3>2
    <3>4. helper[t].deepest # None
      BY <3>3, HandsAssumption DEF FtPlayers
    <3>5. Deep(t) <=> helper[t].deepest <= 5
      BY <3>1, <3>4 DEF Deep
    <3>6. ASSUME helper[t].deepest <= 5 PROVE hs # {}
      <4>1. hand[h].stage.size \in 2..5
        BY <3>2, <3>3, <3>6 DEF FtPlayers
      <4> QED BY <4>1 DEF HandsAt
    <3>7. ASSUME hs # {} PROVE helper[t].deepest <= 5
      <4>1. PICK g \in FtHands(t) : hand[g].stage.size \in 2..5
        BY <3>7 DEF HandsAt
      <4>2. helper[t].deepest <= hand[g].stage.size
        BY <3>1
      <4> QED BY <3>3, <4>1, <4>2 DEF FtPlayers
    <3> QED BY <3>5, <3>6, <3>7
  <2> QED BY <2>1, <2>2
<1>4. DeepFtEntryFact(t) = IF hs = {} THEN NoEntry ELSE row
  BY DEF DeepFtEntryFact, EntryFact
<1>5. row # NoEntry
  <2>1. "bb" \in DOMAIN row /\ "bb" \notin DOMAIN NoEntry
    BY DEF NoEntry
  <2> QED BY <2>1
<1> QED BY <1>3, <1>4, <1>5

(* The hero's entry into the final table is the one the helper names.      *)
LEMMA EntryAgrees ==
  ASSUME StoreInv, TextInv, NEW t \in PublishedTournaments, Reached(t)
  PROVE  EntryFact(t, 2..9) =
           [stack |-> helper[t].stack, bb |-> helper[t].entryBb, players |-> helper[t].firstSize]
<1> DEFINE hs == HandsAt(t, 2..9)
           entry == CHOOSE h \in hs : \A g \in hs \ {h} : PlayedBefore(h, g)
<1>1. HelperSays(t) /\ FtHands(t) # {}
  BY HelperColumns, ReachedAgrees
<1>2. PICK first \in FtHands(t) :
        /\ \A g \in FtHands(t) \ {first} :
             hand[first].order < hand[g].order \/ (hand[first].order = hand[g].order /\ first < g)
        /\ helper[t].firstSize = hand[first].stage.size
        /\ helper[t].stack = info[first].stack
        /\ helper[t].entryBb = (100 * info[first].stack) \div info[first].bb
  BY <1>1 DEF HelperSays
<1>3. FtHands(t) \in SUBSET HandsIn({t})
  BY DEF FtHands
<1>4. \A h \in FtHands(t) : SoundRows(h) /\ hand[h].order \in Nat \ {0} /\ h \in Nat
  BY <1>3, FiniteHands, StoredRows, Numbered, HandsAssumption
<1>5. hs = FtHands(t)
  BY <1>4 DEF HandsAt, FtHands, SoundRows, FtPlayers
<1>6. \A g \in hs \ {first} : PlayedBefore(first, g) /\ ~PlayedBefore(g, first)
  <2> SUFFICES ASSUME NEW g \in hs \ {first} PROVE PlayedBefore(first, g) /\ ~PlayedBefore(g, first)
    OBVIOUS
  <2>1. hand[first].order < hand[g].order \/ (hand[first].order = hand[g].order /\ first < g)
    BY <1>2, <1>5
  <2>2. hand[first].order \in Nat \ {0} /\ hand[g].order \in Nat \ {0} /\ first \in Nat /\ g \in Nat
    BY <1>4, <1>5
  <2> QED BY <2>1, <2>2 DEF PlayedBefore
<1>7. entry = first
  <2>1. first \in hs
    BY <1>2, <1>5
  <2> HIDE DEF hs
  <2>2. entry \in hs /\ \A g \in hs \ {entry} : PlayedBefore(entry, g)
    BY <1>6, <2>1
  <2> HIDE DEF entry
  <2> QED BY <1>6, <2>1, <2>2
<1>8. EntryFact(t, 2..9) =
        [stack |-> info[entry].stack, bb |-> (100 * info[entry].stack) \div info[entry].bb,
         players |-> hand[entry].stage.size]
  BY <1>1, <1>5 DEF EntryFact
<1> HIDE DEF entry
<1> QED BY <1>2, <1>7, <1>8

(* A boundary hand is no final-table hand: what the boundary adds to the   *)
(* counts of the final table is not more than the whole.                   *)
LEMMA TransitionIsApart ==
  ASSUME TextInv, NEW t
  PROVE  /\ TransitionHands(t) \in SUBSET HandsIn({t}) /\ FtHands(t) \in SUBSET HandsIn({t})
         /\ TransitionHands(t) \cap FtHands(t) = {}
<1>1. \A h \in HandsIn({t}) : SoundRows(h)
  BY FiniteHands, StoredRows
<1> QED BY <1>1 DEF TransitionHands, FtHands, SoundRows

LEMMA AttemptsNest ==
  ASSUME StoreInv, TextInv, NEW t \in PublishedTournaments
  PROVE  StageAttemptFact(t).transition + StageAttemptFact(t).ft <= FeatureSum(t, "attempts", {})
<1> DEFINE H == HandsIn({t})
           T == TransitionHands(t)
           F == FtHands(t)
<1>1. T \in SUBSET H /\ F \in SUBSET H /\ T \cap F = {} /\ T \cup F \in SUBSET H /\ H \in SUBSET H
  BY TransitionIsApart
<1>2. InStages(H, t, {})
  BY DEF InStages
<1>3. StageAttemptFact(t).transition = Attempts(T) /\ StageAttemptFact(t).ft = Attempts(F)
  BY DEF StageAttemptFact
<1> HIDE DEF H, T, F
<1>4. /\ Attempts(T) = TotalOver(AttemptsOf, T)
      /\ Attempts(F) = TotalOver(AttemptsOf, F)
      /\ \A h \in H : AttemptsOf[h] \in Nat
  BY <1>1, FactsAreSums DEF H
<1>5. FeatureSum(t, "attempts", {}) = TotalOver(AttemptsOf, H)
  BY <1>1, <1>2, FeatureSums DEF H
<1>6. IsFiniteSet(T) /\ IsFiniteSet(F) /\ IsFiniteSet(H)
  BY <1>1, FiniteHands DEF H
<1>7. TotalOver(AttemptsOf, T \cup F) = TotalOver(AttemptsOf, T) + TotalOver(AttemptsOf, F)
  <2>1. \A h \in T \cup F : AttemptsOf[h] \in Int
    BY <1>1, <1>4
  <2> QED BY <1>1, <1>6, <2>1, TotalOfParts
<1>8. TotalOver(AttemptsOf, T \cup F) <= TotalOver(AttemptsOf, H)
  BY <1>1, <1>4, <1>6, PartOfTotal
<1> QED BY <1>3, <1>4, <1>5, <1>7, <1>8, Zenon

(* The knockouts of the final table are those of three stages.             *)
LEMMA StagesAddUp ==
  ASSUME TextInv, NEW t
  PROVE  /\ KoEventFact(t).earlyShare = StageEventFact(t).share.ko_6_9
         /\ KoEventFact(t).ftShare = StageEventFact(t).share.ko_2_3
              + StageEventFact(t).share.ko_4_5 + StageEventFact(t).share.ko_6_9
<1> DEFINE F == FtHands(t)
           A == HandsAt(t, 2..3)
           B == HandsAt(t, 4..5)
           C == HandsAt(t, 6..9)
<1>1. F \in SUBSET HandsIn({t}) /\ \A h \in F : SoundRows(h) /\ hand[h].stage.ft
  <2>1. F \in SUBSET HandsIn({t})
    BY DEF FtHands
  <2>2. \A h \in F : h \in Stored
    BY <2>1, FiniteHands
  <2> QED BY <2>1, <2>2, StoredRows DEF FtHands
<1>2. /\ A \cap B = {} /\ (A \cup B) \cap C = {} /\ (A \cup B) \cup C = F
      /\ A \in SUBSET F /\ B \in SUBSET F /\ C \in SUBSET F /\ A \cup B \in SUBSET F
  <2>1. \A h \in F : hand[h].stage.size \in 2..9
    BY <1>1 DEF SoundRows, FtPlayers
  <2> HIDE DEF F
  <2>2. /\ \A h : h \in A <=> h \in F /\ hand[h].stage.size \in 2..3
        /\ \A h : h \in B <=> h \in F /\ hand[h].stage.size \in 4..5
        /\ \A h : h \in C <=> h \in F /\ hand[h].stage.size \in 6..9
    BY DEF HandsAt, F
  <2> HIDE DEF A, B, C
  <2>3. \A h \in F : /\ h \in A \/ h \in B \/ h \in C
                     /\ ~(h \in A /\ h \in B) /\ ~(h \in A /\ h \in C) /\ ~(h \in B /\ h \in C)
    BY <2>1, <2>2
  <2> QED BY <2>2, <2>3
<1>3. /\ StageEventFact(t).share.ko_2_3 = Shares(A)
      /\ StageEventFact(t).share.ko_4_5 = Shares(B)
      /\ StageEventFact(t).share.ko_6_9 = Shares(C)
      /\ KoEventFact(t).ftShare = Shares(F)
      /\ KoEventFact(t).earlyShare = Shares(C)
  BY DEF StageEventFact, KoEventFact, StatStages
<1> HIDE DEF F, A, B, C
<1>4. /\ Shares(A) = TotalOver(ShareOf, A) /\ Shares(B) = TotalOver(ShareOf, B)
      /\ Shares(C) = TotalOver(ShareOf, C) /\ Shares(F) = TotalOver(ShareOf, F)
      /\ \A h \in F : ShareOf[h] \in Nat
  BY <1>1, <1>2, FactsAreSums
<1>5. IsFiniteSet(A) /\ IsFiniteSet(B) /\ IsFiniteSet(C) /\ IsFiniteSet(A \cup B)
  BY <1>1, <1>2, FiniteHands
<1>6. TotalOver(ShareOf, A \cup B) = TotalOver(ShareOf, A) + TotalOver(ShareOf, B)
  <2>1. \A h \in A \cup B : ShareOf[h] \in Int
    BY <1>2, <1>4
  <2> QED BY <1>2, <1>5, <2>1, TotalOfParts
<1>7. TotalOver(ShareOf, (A \cup B) \cup C) = TotalOver(ShareOf, A \cup B) + TotalOver(ShareOf, C)
  <2>1. \A h \in (A \cup B) \cup C : ShareOf[h] \in Int
    BY <1>2, <1>4
  <2> QED BY <1>2, <1>5, <2>1, TotalOfParts
<1>8. Shares(F) = (Shares(A) + Shares(B)) + Shares(C)
  BY <1>2, <1>4, <1>6, <1>7, Zenon
<1> QED BY <1>3, <1>8

(* The boundary knockouts are some of the knockouts before the final       *)
(* table: with those of the final table they are not more than all.        *)
LEMMA SharesNest ==
  ASSUME TextInv, NEW t
  PROVE  StageEventFact(t).transition + KoEventFact(t).ftShare <= KoEventFact(t).share
<1> DEFINE H == HandsIn({t})
           T == {g \in TransitionHands(t) : hand[g].stage.boundaryKo # None}
           F == FtHands(t)
           f == [h \in T |-> hand[h].stage.boundaryKo]
<1>1. T \in SUBSET H /\ F \in SUBSET H /\ T \cap F = {} /\ T \cup F \in SUBSET H /\ H \in SUBSET H
  BY TransitionIsApart
<1>2. /\ StageEventFact(t).transition = Total(f)
      /\ KoEventFact(t).ftShare = Shares(F) /\ KoEventFact(t).share = Shares(H)
  BY DEF StageEventFact, KoEventFact
<1>3. \A h \in T : hand[h].stage.boundaryKo = Share(h) /\ h \in Hands
  <2>1. \A h \in T : h \in Stored /\ hand[h].stage.boundaryKo # None
    BY <1>1, FiniteHands
  <2> QED BY <2>1, StoredRows DEF SoundRows
<1>4. DOMAIN f = T /\ \A h \in T : f[h] = ShareOf[h]
  BY <1>3 DEF ShareOf
<1> HIDE DEF f, T, F, H
<1>5. /\ Shares(F) = TotalOver(ShareOf, F) /\ Shares(H) = TotalOver(ShareOf, H)
      /\ \A h \in H : ShareOf[h] \in Nat
  BY <1>1, FactsAreSums DEF H
<1>6. IsFiniteSet(T) /\ IsFiniteSet(F) /\ IsFiniteSet(H)
  BY <1>1, FiniteHands DEF H
<1>7. Total(f) = TotalOver(ShareOf, T)
  <2>1. \A h \in T : f[h] = ShareOf[h] /\ f[h] \in Int
    BY <1>1, <1>4, <1>5
  <2> QED BY <1>4, <1>6, <2>1, TotalOn
<1>8. TotalOver(ShareOf, T \cup F) = TotalOver(ShareOf, T) + TotalOver(ShareOf, F)
  <2>1. \A h \in T \cup F : ShareOf[h] \in Int
    BY <1>1, <1>5
  <2> QED BY <1>1, <1>6, <2>1, TotalOfParts
<1>9. TotalOver(ShareOf, T \cup F) <= TotalOver(ShareOf, H)
  BY <1>1, <1>5, <1>6, PartOfTotal
<1> QED BY <1>2, <1>5, <1>7, <1>8, <1>9, Zenon

(* The statistics of a published tournament, counted from the core rows,   *)
(* are what its features and its final-table helper say.                   *)
LEMMA InvStatistics == StoreInv /\ TextInv => StatisticsAgree
<1> SUFFICES ASSUME StoreInv, TextInv, NEW t \in PublishedTournaments
             PROVE  /\ Reached(t) <=> FtHands(t) # {}
                    /\ Deep(t) <=> DeepFtEntryFact(t) # NoEntry
                    /\ Reached(t) => EntryFact(t, 2..9) =
                         [stack |-> helper[t].stack, bb |-> helper[t].entryBb,
                          players |-> helper[t].firstSize]
                    /\ KoEventFact(t).events = FeatureSum(t, "exactKos", {})
                    /\ KoEventFact(t).earlyEvents = FeatureSum(t, "exactKos", {"stage_6_9"})
                    /\ StageAttemptFact(t).stage.ko_5_6 = FeatureSum(t, "attempts", {"stage_5_6"})
                    /\ StageAttemptFact(t).ft = FeatureSum(t, "attempts", DOMAIN Stages)
                    /\ StageAttemptFact(t).transition + StageAttemptFact(t).ft
                         <= FeatureSum(t, "attempts", {})
                    /\ KoEventFact(t).earlyShare = StageEventFact(t).share.ko_6_9
                    /\ KoEventFact(t).ftShare = StageEventFact(t).share.ko_2_3
                         + StageEventFact(t).share.ko_4_5 + StageEventFact(t).share.ko_6_9
                    /\ StageEventFact(t).transition + KoEventFact(t).ftShare
                         <= KoEventFact(t).share
  BY DEF StatisticsAgree
<1> QED
  BY ReachedAgrees, DeepAgrees, EntryAgrees, EventsAgree, AttemptsNest, StagesAddUp, SharesNest

(* However imports, finalize jobs and zone changes interleave, the         *)
(* statistics of a published tournament agree: the knockouts and attempts  *)
(* of the features are those of the core rows, the helper, the stage rows  *)
(* and the entries name one final table, and the parts add up.             *)
THEOREM StatisticsAlwaysAgree == Spec => []StatisticsAgree
<1>1. Init => TextInv
  BY TextInit
<1>2. StoreInv /\ TextInv /\ [Next]_vars => TextInv'
  BY TextStep
<1>3. StoreInv /\ TextInv => StatisticsAgree
  BY InvStatistics
<1> QED BY <1>1, <1>2, <1>3, StoreInvariance, PTL DEF Spec

-----------------------------------------------------------------------------
(* The boundary of a tournament.                                           *)

(* A merged state that is exact is the state of every row.                 *)
LEMMA MergedExact ==
  ASSUME NEW states, states \subseteq {"exact", "uncertain"}, MergedState(states) = "exact"
  PROVE  states = {"exact"}
<1>1. IsFiniteSet(states)
  <2>1. IsFiniteSet({"exact"} \cup {"uncertain"})
    BY FS_Singleton, FS_Union
  <2>2. states \in SUBSET ({"exact"} \cup {"uncertain"})
    OBVIOUS
  <2> QED BY <2>1, <2>2, FS_Subset
<1>2. Cardinality(states) = 1
  BY DEF MergedState
<1>3. PICK s : states = {s}
  BY <1>1, <1>2, FS_Singleton
<1>4. (CHOOSE r \in states : TRUE) = "exact"
  BY <1>2 DEF MergedState
<1>5. (CHOOSE r \in states : TRUE) \in states
  BY <1>3
<1> QED BY <1>3, <1>4, <1>5

LEMMA StageState ==
  ASSUME NEW hs, NEW h
  PROVE  StageRow(info, hs, h).state = BoundaryState(BoundaryCandidates(info, hs))
BY DEF StageRow

LEMMA HelperState ==
  ASSUME NEW hs, NEW stage, NEW order
  PROVE  HelperRow(info, hs, stage, order).state = MergedState({stage[h].state : h \in hs})
<1> DEFINE state == MergedState({stage[h].state : h \in hs})
           row == HelperRow(info, hs, stage, order)
           ft == {h \in hs : stage[h].ft}
           first == CHOOSE h \in ft : \A g \in ft \ {h} :
                      order[h] < order[g] \/ (order[h] = order[g] /\ h < g)
           sizes == {stage[h].size : h \in ft}
           deepest == CHOOSE n \in sizes : \A k \in sizes : n <= k
           boundary == \E h \in hs : stage[h].boundary
<1>1. row = [reached |-> ft # {},
      first |-> IF ft = {} THEN None ELSE first,
      firstSize |-> IF ft = {} THEN None ELSE stage[first].size,
      incomplete |-> IF ft = {} THEN None ELSE stage[first].size < FtPlayers,
      deepest |-> IF ft = {} THEN None ELSE deepest,
      stack |-> IF ft = {} THEN None ELSE info[first].stack,
      entryBb |-> IF ft = {} THEN None ELSE (100 * info[first].stack) \div info[first].bb,
      boundary |-> boundary,
      state |-> state]
  BY DEF HelperRow
<1> HIDE DEF state, row, ft, first, deepest, boundary
<1>2. row.state = state
  BY <1>1
<1> QED BY <1>2 DEF row, state

(* Candidates that are exact are one hand.                                 *)
LEMMA ExactIsOne ==
  ASSUME NEW hs \in SUBSET Hands, BoundaryState(BoundaryCandidates(info, hs)) = "exact"
  PROVE  BoundaryCandidates(info, hs) # {}
<1>1. Cardinality(BoundaryCandidates(info, hs)) = 1
  BY DEF BoundaryState
<1> QED BY <1>1, FS_EmptySet

(* Hands are played one after the other.                                   *)
LEMMA Order ==
  ASSUME NEW g \in Hands, NEW h \in Hands
  PROVE  /\ g # h => Earlier(info, g, h) \/ Earlier(info, h, g)
         /\ ~(Earlier(info, g, h) /\ Earlier(info, h, g))
         /\ ~Earlier(info, h, h)
         /\ info[g].at < info[h].at => Earlier(info, g, h)
         /\ info[g].at \in Nat
BY HandsAssumption DEF Earlier

(* A stretch of play in which a boundary is found holds the first hand of  *)
(* the final table, and its boundary hands are those of the tournament.    *)
LEMMA StretchHasBoundary ==
  ASSUME PlayedInStretches, NEW H \in SUBSET Hands, NEW d \in Docs, d.hands \subseteq H,
         \A g, h \in H : info[g].tournament = info[h].tournament,
         BoundaryCandidates(info, d.hands) # {}, NEW h \in d.hands
  PROVE  h \in BoundaryCandidates(info, d.hands) <=> h \in BoundaryCandidates(info, H)
<1> DEFINE hs == d.hands
           ftF == {k \in hs : IsFt(info, k)}
           ftH == {k \in H : IsFt(info, k)}
           eF == Earliest(info, ftF)
           e == Earliest(info, ftH)
           beforeF == {k \in hs : Earlier(info, k, eF)}
           beforeH == {k \in H : Earlier(info, k, e)}
<1>1. hs \in SUBSET H /\ hs \in SUBSET Hands
  OBVIOUS
<1>2. ftF # {} /\ ftH # {} /\ ftF \in SUBSET Hands /\ ftH \in SUBSET Hands
  BY DEF BoundaryCandidates
<1>3. PICK b \in hs : Earlier(info, b, eF) /\ b \in BoundaryCandidates(info, hs)
  BY <1>2 DEF BoundaryCandidates
<1>4. eF \in ftF /\ \A g \in ftF \ {eF} : Earlier(info, eF, g)
  <2> HIDE DEF ftF
  <2> QED BY <1>2, EarliestIs
<1>5. e \in ftH /\ \A g \in ftH \ {e} : Earlier(info, e, g)
  <2> HIDE DEF ftH
  <2> QED BY <1>2, EarliestIs
<1>6. ~IsFt(info, b)
  BY <1>1, <1>3, BoundaryIsEarlier
<1>7. Earlier(info, b, e)
  <2>1. IsFt(info, e) /\ e \in Hands /\ b \in Hands /\ info[e].tournament = info[b].tournament
    BY <1>1, <1>5
  <2>2. ~Earlier(info, e, b)
    BY <1>6, <2>1 DEF PlayedInStretches
  <2>3. e # b
    BY <1>6, <2>1
  <2> QED BY <2>1, <2>2, <2>3, Order
<1>8. \A k \in H : Earlier(info, b, k) /\ (k = eF \/ Earlier(info, k, eF)) => k \in hs
  <2> SUFFICES ASSUME NEW k \in H, Earlier(info, b, k), Earlier(info, k, eF) PROVE k \in hs
    BY <1>4
  <2>1. PICK f \in Files : f.doc = d
    BY DEF Docs
  <2>2. b \in f.doc.hands /\ eF \in f.doc.hands /\ info[k].tournament = info[b].tournament /\ k \in Hands
    BY <1>1, <1>3, <1>4, <2>1
  <2>3. k \in f.doc.hands
    BY <2>2 DEF PlayedInStretches
  <2> QED BY <2>1, <2>3
<1>9. e = eF \/ Earlier(info, e, eF)
  BY <1>1, <1>4, <1>5
<1>10. e \in hs
  BY <1>5, <1>7, <1>8, <1>9
<1>11. e = eF
  <2>1. e \in ftF
    BY <1>5, <1>10
  <2>2. e = eF \/ Earlier(info, eF, e)
    BY <1>4, <2>1
  <2>3. e \in Hands /\ eF \in Hands
    BY <1>1, <1>4, <1>10
  <2> QED BY <1>9, <2>2, <2>3, Order
<1>12. BoundaryCandidates(info, hs) = {k \in beforeF : \A g \in beforeF : info[g].at <= info[k].at}
  BY <1>2 DEF BoundaryCandidates
<1>13. BoundaryCandidates(info, H) = {k \in beforeH : \A g \in beforeH : info[g].at <= info[k].at}
  BY <1>2 DEF BoundaryCandidates
<1>14. beforeF \subseteq beforeH /\ \A k \in hs : k \in beforeF <=> k \in beforeH
  BY <1>1, <1>11
<1>15. ASSUME h \in BoundaryCandidates(info, H) PROVE h \in BoundaryCandidates(info, hs)
  <2>1. h \in beforeH /\ \A g \in beforeH : info[g].at <= info[h].at
    BY <1>13, <1>15
  <2> HIDE DEF beforeF, beforeH
  <2> QED BY <1>12, <1>14, <2>1
<1>16. ASSUME h \in BoundaryCandidates(info, hs) PROVE h \in BoundaryCandidates(info, H)
  <2>1. h \in beforeF /\ \A g \in beforeF : info[g].at <= info[h].at
    BY <1>12, <1>16
  <2>2. ASSUME NEW g \in beforeH PROVE info[g].at <= info[h].at
    <3>1. g \in Hands /\ h \in Hands /\ b \in Hands
      BY <1>1, <1>3
    <3>2. SUFFICES ASSUME info[h].at < info[g].at PROVE FALSE
      BY <3>1, Order
    <3>3. info[b].at <= info[h].at
      BY <1>3, <2>1
    <3>4. info[b].at < info[g].at
      BY <3>1, <3>2, <3>3, Order
    <3>5. Earlier(info, b, g) /\ Earlier(info, g, eF) /\ g \in H
      BY <1>11, <3>1, <3>4, Order
    <3>6. g \in beforeF
      BY <1>8, <3>5
    <3>7. info[g].at <= info[h].at
      BY <2>1, <3>6
    <3> QED BY <3>1, <3>2, <3>7, Order
  <2>3. h \in beforeH
    BY <1>14, <2>1
  <2> HIDE DEF beforeF, beforeH
  <2> QED BY <1>13, <2>2, <2>3
<1> QED BY <1>15, <1>16

LEMMA InvBoundary ==
  ASSUME PlayedInStretches, StoreInv, TextInv, NEW t \in PublishedTournaments,
         helper[t].state = "exact"
  PROVE  {h \in HandsIn({t}) : hand[h].stage.boundary} = BoundaryCandidates(info, HandsIn({t}))
<1> DEFINE H == HandsIn({t})
           states == {hand[h].stage.state : h \in H}
<1>1. H \in SUBSET Hands /\ H \in SUBSET Stored /\ \A g, h \in H : info[g].tournament = info[h].tournament
  BY DEF HandsIn, Stored
<1>2. MergedState(states) = "exact"
  <2>1. helper[t] = HelperRow(info, H, StageSeen(H), OrdersOf(t))
    BY DEF StoreInv, HelperFollowsRows
  <2>2. helper[t].state = MergedState({StageSeen(H)[h].state : h \in H})
    <3> DEFINE S == StageSeen(H)
               O == OrdersOf(t)
    <3>1. helper[t] = HelperRow(info, H, S, O)
      BY <2>1
    <3> HIDE DEF H, S, O
    <3>2. HelperRow(info, H, S, O).state = MergedState({S[h].state : h \in H})
      BY HelperState
    <3>3. helper[t].state = MergedState({S[h].state : h \in H})
      BY <3>1, <3>2, Zenon
    <3> QED BY <3>3 DEF S
  <2>3. {StageSeen(H)[h].state : h \in H} = states
    BY DEF StageSeen
  <2> QED BY <2>2, <2>3
<1>3. \A h \in H : \E d \in Docs :
        /\ h \in d.hands /\ d.hands \subseteq H
        /\ hand[h].stage = StageRow(info, d.hands, h)
  <2> SUFFICES ASSUME NEW h \in H
               PROVE  \E d \in Docs : /\ h \in d.hands /\ d.hands \subseteq H
                                      /\ hand[h].stage = StageRow(info, d.hands, h)
    OBVIOUS
  <2>1. h \in Stored /\ info[h].tournament = t
    BY DEF HandsIn
  <2>2. PICK d \in Docs : /\ h \in d.hands /\ d.hands \subseteq Stored
                          /\ hand[h].stage = StageRow(info, d.hands, h)
    BY <2>1 DEF TextInv, FromText
  <2>3. \A g \in d.hands : info[g].tournament = t
    BY <2>1, <2>2 DEF PlayedInStretches, Docs
  <2>4. d.hands \subseteq H
    BY <2>2, <2>3 DEF HandsIn
  <2> QED BY <2>2, <2>4
<1>4. states \subseteq {"exact", "uncertain"}
  <2>1. \A h \in H : hand[h].stage.state \in {"exact", "uncertain"}
    BY <1>3, StageState DEF BoundaryState
  <2> QED BY <2>1
<1>5. states = {"exact"}
  <2> HIDE DEF states
  <2> QED BY <1>2, <1>4, MergedExact
<1>6. ASSUME NEW h \in H
      PROVE  hand[h].stage.boundary <=> h \in BoundaryCandidates(info, H)
  <2>1. PICK d \in Docs : /\ h \in d.hands /\ d.hands \subseteq H
                          /\ hand[h].stage = StageRow(info, d.hands, h)
    BY <1>3
  <2>2. hand[h].stage.state = "exact"
    BY <1>5
  <2>3. BoundaryState(BoundaryCandidates(info, d.hands)) = "exact"
    BY <2>1, <2>2 DEF StageRow
  <2>4. d.hands \in SUBSET Hands
    BY <1>1, <2>1
  <2>5. BoundaryCandidates(info, d.hands) # {}
    BY <2>3, <2>4, ExactIsOne
  <2>6. hand[h].stage.boundary <=> h \in BoundaryCandidates(info, d.hands)
    BY <2>1, StageColumns
  <2> HIDE DEF H
  <2>7. h \in BoundaryCandidates(info, d.hands) <=> h \in BoundaryCandidates(info, H)
    BY <1>1, <2>1, <2>5, StretchHasBoundary
  <2> QED BY <2>6, <2>7
<1>7. BoundaryCandidates(info, H) \subseteq H
  BY DEF BoundaryCandidates
<1> QED BY <1>6, <1>7

(* For files played in stretches: a boundary that the helper of a          *)
(* published tournament calls exact is that of all its hands, in whatever  *)
(* pieces, order and overlap its files were imported.                      *)
THEOREM ExactBoundaryHolds == PlayedInStretches /\ Spec => []ExactBoundaryIsTrue
<1>1. Init => TextInv
  BY TextInit
<1>2. StoreInv /\ TextInv /\ [Next]_vars => TextInv'
  BY TextStep
<1>3. PlayedInStretches /\ StoreInv /\ TextInv => ExactBoundaryIsTrue
  BY InvBoundary DEF ExactBoundaryIsTrue
<1>4. Spec => [](StoreInv /\ TextInv)
  BY <1>1, <1>2, StoreInvariance, PTL DEF Spec
<1>5. ASSUME PlayedInStretches PROVE StoreInv /\ TextInv => ExactBoundaryIsTrue
  BY <1>3, <1>5
<1>6. ASSUME PlayedInStretches PROVE Spec => []ExactBoundaryIsTrue
  BY <1>4, <1>5, <1>6, PTL
<1> QED BY <1>6

-----------------------------------------------------------------------------
(* Tournaments, summaries and finalize jobs.                               *)

(* The row of a tournament is that of a file job that has succeeded, and   *)
(* hands are stored after their summary.                                   *)
SummaryOf(t) == <<tournament[t].by, t, "ts">>
LinkInv ==
  /\ DOMAIN tournament = Tournaments
  /\ \A t \in Tournaments : DOMAIN tournament[t] = {"by", "zone"}
  /\ \A t \in StoredTournaments :
       tournament[t].by \in Bundles /\ job[SummaryOf(t)] = "succeeded"
  /\ \A h \in Stored : info[h].tournament \in StoredTournaments

(* A commit stores no hand.                                                *)
LEMMA CommitStoresNone ==
  ASSUME StoreInv, (\E b \in Bundles : FinalizeCommit(b)) \/ ZoneCommit
  PROVE  Stored' \subseteq Stored
<1>1. ASSUME NEW b \in Bundles, FinalizeCommit(b) PROVE Stored' \subseteq Stored
  <2>1. hand' = [h \in Hands |->
           IF h \in LockedHands(b) THEN [hand[h] EXCEPT !.order = tx[b].order[h]] ELSE hand[h]]
    BY <1>1 DEF FinalizeCommit
  <2>2. LockedHands(b) \subseteq Stored
    BY DEF StoreInv, Progress
  <2>3. \A h \in Hands : h \notin Stored => hand'[h] = hand[h]
    BY <2>1, <2>2
  <2> QED BY <2>3 DEF Stored, NoHand
<1>2. ASSUME ZoneCommit PROVE Stored' \subseteq Stored
  <2> DEFINE zone == tx[ZoneChange].zone
  <2>1. hand' = [h \in Hands |->
           IF h \in LockedHands(ZoneChange) THEN [hand[h] EXCEPT !.zone = zone] ELSE hand[h]]
    BY <1>2 DEF ZoneCommit
  <2> HIDE DEF zone
  <2>2. LockedHands(ZoneChange) \subseteq Stored
    BY DEF StoreInv, ZoneHeld
  <2>3. \A h \in Hands : h \notin Stored => hand'[h] = hand[h]
    BY <2>1, <2>2
  <2> QED BY <2>3 DEF Stored, NoHand
<1> QED BY <1>1, <1>2

(* A step that leaves the file jobs and the summaries.                     *)
LEMMA LinkStays ==
  ASSUME LinkInv, UNCHANGED <<job, tournament>>, Stored' \subseteq Stored
  PROVE  LinkInv'
BY DEF LinkInv, SummaryOf, StoredTournaments

(* The end of a file job takes no success of a summary back.               *)
LEMMA FinishLinks ==
  ASSUME StoreInv, NEW j \in Jobs, job[j] = "running",
         NEW status \in {"succeeded", "failed"}, Finish(j, status)
  PROVE  /\ job'[j] = status
         /\ \A i \in Jobs : job[i] = "succeeded" /\ (status = "succeeded" \/ i[3] = "ts")
              => job'[i] = "succeeded"
<1> DEFINE dropped == IF status = "failed" /\ j[3] = "ts" THEN {<<j[1], j[2], "hh">>} ELSE {}
           after == [i \in Jobs |-> IF i = j THEN status
                                    ELSE IF i \in dropped THEN "failed" ELSE job[i]]
<1>1. job' = after
  BY DEF Finish
<1>2. \A i \in dropped : i[3] = "hh" /\ status = "failed"
  OBVIOUS
<1> HIDE DEF dropped
<1>3. after[j] = status
  OBVIOUS
<1>4. \A i \in Jobs : job[i] = "succeeded" /\ (status = "succeeded" \/ i[3] = "ts")
                        => after[i] = "succeeded"
  BY <1>2
<1> QED BY <1>1, <1>3, <1>4

(* An upload is enqueued once.                                             *)
LEMMA EnqueueLinks ==
  ASSUME LinkInv, StoreInv, NEW b \in Bundles, Enqueue(b)
  PROVE  LinkInv'
<1>1. /\ JobsOf(b) = {}
      /\ job' = [j \in Jobs |-> IF j \in Members(b) THEN "queued" ELSE job[j]]
      /\ UNCHANGED <<fin, tournament, hand>>
  BY DEF Enqueue, core
<1>2. \A j \in Members(b) : j[1] = b
  BY DEF Members
<1>3. \A j \in Jobs : job[j] = "succeeded" => job'[j] = "succeeded"
  BY <1>1, <1>2 DEF JobsOf
<1>4. \A t \in StoredTournaments : SummaryOf(t) \in Jobs
  BY DEF LinkInv, StoredTournaments, SummaryOf, Jobs, Kinds
<1>5. \A t \in StoredTournaments : tournament[t].by \in Bundles /\ job'[SummaryOf(t)] = "succeeded"
  BY <1>3, <1>4 DEF LinkInv
<1> QED BY <1>1, <1>5 DEF LinkInv, SummaryOf, StoredTournaments, Stored, NoHand

(* A file job that begins was not over.                                    *)
LEMMA FileBeginLinks ==
  ASSUME LinkInv, StoreInv, NEW j \in Jobs, FileBegin(j)
  PROVE  LinkInv'
<1>1. /\ job[j] = "queued" /\ job' = [job EXCEPT ![j] = "running"]
      /\ UNCHANGED <<fin, tournament, hand>>
  BY DEF FileBegin, core
<1>2. job \in [Jobs -> JobStates]
  BY DEF StoreInv, TypeOK
<1>3. \A i \in Jobs : job[i] = "succeeded" => job'[i] = "succeeded"
  BY <1>1, <1>2
<1>4. \A t \in StoredTournaments : SummaryOf(t) \in Jobs
  BY DEF LinkInv, StoredTournaments, SummaryOf, Jobs, Kinds
<1>5. \A t \in StoredTournaments : tournament[t].by \in Bundles /\ job'[SummaryOf(t)] = "succeeded"
  BY <1>3, <1>4 DEF LinkInv
<1> QED BY <1>1, <1>5 DEF LinkInv, SummaryOf, StoredTournaments, Stored, NoHand

(* A failure of a file job drops no summary that was stored.               *)
LEMMA FailureLinks ==
  ASSUME LinkInv, StoreInv, NEW j \in Jobs, FileFails(j)
  PROVE  LinkInv'
<1>1. job[j] = "running" /\ Finish(j, "failed") /\ UNCHANGED <<tournament, hand>>
  BY DEF FileFails, core
<1>2. \A i \in Jobs : job[i] = "succeeded" /\ i[3] = "ts" => job'[i] = "succeeded"
  BY <1>1, FinishLinks
<1>3. \A t \in StoredTournaments : SummaryOf(t) \in Jobs /\ SummaryOf(t)[3] = "ts"
  BY DEF LinkInv, StoredTournaments, SummaryOf, Jobs, Kinds
<1>4. \A t \in StoredTournaments : tournament[t].by \in Bundles /\ job'[SummaryOf(t)] = "succeeded"
  BY <1>2, <1>3 DEF LinkInv
<1> QED BY <1>1, <1>2, <1>4 DEF LinkInv, SummaryOf, StoredTournaments, Stored, NoHand

(* A summary is stored by a file job that ends with it.                    *)
LEMMA SummaryLinks ==
  ASSUME LinkInv, StoreInv, NEW j \in Jobs, PersistSummary(j)
  PROVE  LinkInv'
<1>1. /\ job[j] = "running" /\ j[3] = "ts" /\ Finish(j, "succeeded") /\ hand' = hand
      /\ tournament' = [tournament EXCEPT ![j[2]] = [by |-> j[1], zone |-> readZone[j]]]
  BY DEF PersistSummary
<1>2. /\ job'[j] = "succeeded"
      /\ \A i \in Jobs : job[i] = "succeeded" => job'[i] = "succeeded"
  BY <1>1, FinishLinks
<1>3. j[1] \in Bundles /\ j[2] \in Tournaments /\ j = <<j[1], j[2], "ts">>
  BY <1>1 DEF Jobs
<1>4. /\ DOMAIN tournament' = Tournaments
      /\ \A t \in Tournaments : DOMAIN tournament'[t] = {"by", "zone"}
      /\ \A t \in Tournaments : t # j[2] => tournament'[t] = tournament[t]
      /\ tournament'[j[2]].by = j[1]
  BY <1>1, <1>3 DEF LinkInv
<1>5. ASSUME NEW t \in StoredTournaments' PROVE tournament'[t].by \in Bundles /\ job'[SummaryOf(t)'] = "succeeded"
  <2>1. CASE t = j[2]
    BY <1>2, <1>3, <1>4, <2>1 DEF SummaryOf
  <2>2. CASE t # j[2]
    <3>1. t \in StoredTournaments /\ tournament'[t] = tournament[t]
      BY <1>4, <2>2 DEF StoredTournaments
    <3>2. SummaryOf(t) \in Jobs /\ SummaryOf(t)' = SummaryOf(t)
      BY <3>1 DEF LinkInv, StoredTournaments, SummaryOf, Jobs, Kinds
    <3> QED BY <1>2, <3>1, <3>2 DEF LinkInv
  <2> QED BY <2>1, <2>2
<1>6. Stored' = Stored /\ StoredTournaments \subseteq StoredTournaments'
  <2>1. j[1] # None
    BY <1>3, BundlesAssumption
  <2>2. \A t \in StoredTournaments : t \in Tournaments /\ tournament'[t].by # None
    BY <1>4, <2>1 DEF StoredTournaments
  <2> QED BY <1>1, <2>2 DEF Stored, NoHand, StoredTournaments
<1> QED BY <1>2, <1>4, <1>5, <1>6 DEF LinkInv

(* The hands of a file are stored after its summary.                       *)
LEMMA HandsLink ==
  ASSUME RoomData, LinkInv, TextInv, StoreInv, NEW j \in Jobs, PersistHands(j)
  PROVE  LinkInv'
<1> DEFINE hs == doc[j].hands
<1>1. /\ job[j] = "running" /\ Finish(j, "succeeded") /\ tournament' = tournament
      /\ tournament[j[2]].by # None
      /\ hand' = [h \in Hands |-> IF h \in hs THEN PersistedHand(j, h) ELSE hand[h]]
  BY DEF PersistHands
<1>2. \A i \in Jobs : job[i] = "succeeded" => job'[i] = "succeeded"
  BY <1>1, FinishLinks
<1>3. \A t \in StoredTournaments : SummaryOf(t) \in Jobs
  BY DEF LinkInv, StoredTournaments, SummaryOf, Jobs, Kinds
<1>4. \A t \in StoredTournaments : tournament[t].by \in Bundles /\ job'[SummaryOf(t)] = "succeeded"
  BY <1>2, <1>3 DEF LinkInv
<1>5. ASSUME NEW h \in Stored' PROVE info[h].tournament \in StoredTournaments
  <2>1. h \in Hands
    BY DEF Stored
  <2>2. CASE h \in hs
    <3>1. DocOf(doc[j], j[2])
      BY <1>1 DEF TextInv, JobsHaveTexts
    <3>2. info[h].tournament = j[2]
      BY <2>2, <3>1 DEF DocOf, Docs, RoomData
    <3> QED BY <1>1, <3>2 DEF Jobs, StoredTournaments
  <2>3. CASE h \notin hs
    <3>1. hand'[h] = hand[h]
      BY <1>1, <2>1, <2>3
    <3>2. h \in Stored
      BY <2>1, <3>1 DEF Stored, NoHand
    <3> QED BY <3>2 DEF LinkInv
  <2> QED BY <2>2, <2>3
<1> HIDE DEF hs
<1> QED BY <1>1, <1>2, <1>4, <1>5 DEF LinkInv, SummaryOf, StoredTournaments

(* A new zone leaves who stored a tournament.                              *)
LEMMA ZoneCommitLinks ==
  ASSUME LinkInv, StoreInv, ZoneCommit
  PROVE  LinkInv'
<1> DEFINE zone == tx[ZoneChange].zone
<1>1. /\ job' = job
      /\ tournament' = [t \in Tournaments |->
           IF t \in LockedTournaments(ZoneChange) THEN [tournament[t] EXCEPT !.zone = zone]
           ELSE tournament[t]]
  BY DEF ZoneCommit
<1> HIDE DEF zone
<1>2. Stored' \subseteq Stored
  BY CommitStoresNone
<1>3. \A t \in Tournaments : DOMAIN tournament'[t] = {"by", "zone"} /\ tournament'[t].by = tournament[t].by
  <2> SUFFICES ASSUME NEW t \in Tournaments
               PROVE  DOMAIN tournament'[t] = {"by", "zone"} /\ tournament'[t].by = tournament[t].by
    OBVIOUS
  <2>1. DOMAIN tournament[t] = {"by", "zone"}
    BY DEF LinkInv
  <2>2. CASE t \in LockedTournaments(ZoneChange)
    <3>1. tournament'[t] = [tournament[t] EXCEPT !.zone = zone]
      BY <1>1, <2>2
    <3> QED BY <2>1, <3>1
  <2>3. CASE t \notin LockedTournaments(ZoneChange)
    <3>1. tournament'[t] = tournament[t]
      BY <1>1, <2>3
    <3> QED BY <2>1, <3>1
  <2> QED BY <2>2, <2>3
<1>4. DOMAIN tournament' = Tournaments
  BY <1>1
<1>5. StoredTournaments' = StoredTournaments
  BY <1>3 DEF StoredTournaments
<1>6. \A t \in StoredTournaments : t \in Tournaments
  BY DEF StoredTournaments
<1>7. \A t \in StoredTournaments : tournament'[t].by \in Bundles /\ job'[SummaryOf(t)'] = "succeeded"
  BY <1>1, <1>3, <1>6 DEF LinkInv, SummaryOf
<1> QED BY <1>2, <1>3, <1>4, <1>5, <1>7 DEF LinkInv

(* Every step keeps these links.                                           *)
LEMMA LinkStep ==
  ASSUME RoomData, StoreInv, TextInv, LinkInv, [Next]_vars
  PROVE  LinkInv'
<1>0. ASSUME UNCHANGED <<job, tournament, hand>> PROVE LinkInv'
  BY <1>0, LinkStays DEF Stored, NoHand
<1>1. ASSUME NEW b \in Bundles, Enqueue(b) PROVE LinkInv'
  BY <1>1, EnqueueLinks
<1>2. ASSUME NEW b \in Bundles,
             FinalizeBegin(b) \/ OrderHands(b) \/ StoreHelper(b) \/ FinalizeConflict(b)
      PROVE  LinkInv'
  BY <1>0, <1>2 DEF FinalizeBegin, OrderHands, StoreHelper, FinalizeConflict, Abort, Stays, core
<1>3. ASSUME NEW b \in Bundles, FinalizeCommit(b) PROVE LinkInv'
  BY <1>3, CommitStoresNone, LinkStays DEF FinalizeCommit
<1>4. ASSUME NEW j \in Jobs, FileBegin(j) PROVE LinkInv'
  BY <1>4, FileBeginLinks
<1>5. ASSUME NEW j \in Jobs, PersistSummary(j) PROVE LinkInv'
  BY <1>5, SummaryLinks
<1>6. ASSUME NEW j \in Jobs, PersistHands(j) PROVE LinkInv'
  BY <1>6, HandsLink
<1>7. ASSUME NEW j \in Jobs, FileFails(j) PROVE LinkInv'
  BY <1>7, FailureLinks
<1>8. ASSUME NEW p \in Sessions, DeleteFeatures(p) \/ InsertRows(p) \/ DeadlockVictim(p)
      PROVE  LinkInv'
  BY <1>0, <1>8 DEF DeleteFeatures, InsertRows, DeadlockVictim, Rollback, Abort, Stays, core
<1>9. ASSUME NEW zone \in Zones, SetZone(zone) PROVE LinkInv'
  BY <1>9, <1>0 DEF SetZone, core
<1>10. ASSUME UpdateZones \/ ZoneConflict PROVE LinkInv'
  BY <1>10, <1>0 DEF UpdateZones, ZoneConflict, Rollback, Stays, core
<1>11. ASSUME ZoneCommit PROVE LinkInv'
  BY <1>11, ZoneCommitLinks
<1>12. ASSUME UNCHANGED vars PROVE LinkInv'
  BY <1>12, <1>0 DEF vars, core
<1> QED
  BY <1>1, <1>2, <1>3, <1>4, <1>5, <1>6, <1>7, <1>8, <1>9, <1>10, <1>11, <1>12 DEF Next

LEMMA LinkInit == Init => LinkInv
<1> SUFFICES ASSUME Init PROVE LinkInv
  OBVIOUS
<1>1. Stored = {} /\ StoredTournaments = {}
  BY DEF Init, Stored, StoredTournaments
<1>2. DOMAIN tournament = Tournaments /\ \A t \in Tournaments : DOMAIN tournament[t] = {"by", "zone"}
  BY DEF Init
<1> QED BY <1>1, <1>2 DEF LinkInv

-----------------------------------------------------------------------------
(* Tournaments without hands have no helper.                               *)
HelpersHaveHands == \A t \in Tournaments : helper[t] # NoHelper => HandsIn({t}) # {}

(* A stored hand stays stored.                                             *)
LEMMA HandsStay ==
  ASSUME StoreInv, [Next]_vars
  PROVE  Stored \subseteq Stored'
<1>0. ASSUME hand' = hand PROVE Stored \subseteq Stored'
  BY <1>0 DEF Stored, NoHand
<1>a. \A h \in Stored : h \in Hands /\ hand[h].by \in Bundles /\ IsHand(hand[h])
  BY DEF StoreInv, TypeOK, Stored
<1>b. ASSUME \A h \in Stored : hand'[h].by \in Bundles PROVE Stored \subseteq Stored'
  <2>1. \A h \in Stored : hand'[h] # NoHand
    BY <1>b, BundlesAssumption DEF NoHand
  <2> QED BY <1>a, <2>1 DEF Stored, NoHand
<1>1. ASSUME NEW b \in Bundles, FinalizeCommit(b) PROVE Stored \subseteq Stored'
  <2>1. hand' = [h \in Hands |->
           IF h \in LockedHands(b) THEN [hand[h] EXCEPT !.order = tx[b].order[h]] ELSE hand[h]]
    BY <1>1 DEF FinalizeCommit
  <2>2. ASSUME NEW h \in Stored PROVE hand'[h].by \in Bundles
    <3>1. CASE h \in LockedHands(b)
      <4>1. hand'[h] = [hand[h] EXCEPT !.order = tx[b].order[h]]
        BY <1>a, <2>1, <3>1
      <4> QED BY <1>a, <4>1 DEF IsHand
    <3>2. CASE h \notin LockedHands(b)
      BY <1>a, <2>1, <3>2
    <3> QED BY <3>1, <3>2
  <2> QED BY <1>b, <2>2
<1>2. ASSUME ZoneCommit PROVE Stored \subseteq Stored'
  <2> DEFINE zone == tx[ZoneChange].zone
  <2>1. hand' = [h \in Hands |->
           IF h \in LockedHands(ZoneChange) THEN [hand[h] EXCEPT !.zone = zone] ELSE hand[h]]
    BY <1>2 DEF ZoneCommit
  <2> HIDE DEF zone
  <2>2. ASSUME NEW h \in Stored PROVE hand'[h].by \in Bundles
    <3>1. CASE h \in LockedHands(ZoneChange)
      <4>1. hand'[h] = [hand[h] EXCEPT !.zone = zone]
        BY <1>a, <2>1, <3>1
      <4> QED BY <1>a, <4>1 DEF IsHand
    <3>2. CASE h \notin LockedHands(ZoneChange)
      BY <1>a, <2>1, <3>2
    <3> QED BY <3>1, <3>2
  <2> QED BY <1>b, <2>2
<1>3. ASSUME NEW j \in Jobs, PersistHands(j) PROVE Stored \subseteq Stored'
  <2>1. hand' = [h \in Hands |-> IF h \in doc[j].hands THEN PersistedHand(j, h) ELSE hand[h]]
    BY <1>3 DEF PersistHands
  <2>2. \A h : PersistedHand(j, h).by \in Bundles
    BY DEF PersistedHand, Jobs
  <2>3. \A h \in Stored : hand'[h].by \in Bundles
    BY <1>a, <2>1, <2>2
  <2> QED BY <1>b, <2>3
<1>4. ASSUME NEW j \in Jobs, FileBegin(j) \/ PersistSummary(j) \/ FileFails(j)
      PROVE  Stored \subseteq Stored'
  BY <1>4, <1>0 DEF FileBegin, PersistSummary, FileFails, core
<1>5. ASSUME NEW b \in Bundles,
             Enqueue(b) \/ FinalizeBegin(b) \/ OrderHands(b) \/ StoreHelper(b) \/ FinalizeConflict(b)
      PROVE  Stored \subseteq Stored'
  BY <1>5, <1>0 DEF Enqueue, FinalizeBegin, OrderHands, StoreHelper, FinalizeConflict, Abort, Stays, core
<1>6. ASSUME NEW p \in Sessions, DeleteFeatures(p) \/ InsertRows(p) \/ DeadlockVictim(p)
      PROVE  Stored \subseteq Stored'
  BY <1>6, <1>0 DEF DeleteFeatures, InsertRows, DeadlockVictim, Rollback, Abort, Stays, core
<1>7. ASSUME NEW zone \in Zones, SetZone(zone) PROVE Stored \subseteq Stored'
  BY <1>7, <1>0 DEF SetZone, core
<1>8. ASSUME UpdateZones \/ ZoneConflict \/ UNCHANGED vars PROVE Stored \subseteq Stored'
  BY <1>8, <1>0 DEF UpdateZones, ZoneConflict, Rollback, Stays, core, vars
<1> QED BY <1>1, <1>2, <1>3, <1>4, <1>5, <1>6, <1>7, <1>8 DEF Next

(* A finalize job builds helpers of tournaments with hands.                *)
LEMMA HelpersStep ==
  ASSUME StoreInv, HelpersHaveHands, [Next]_vars
  PROVE  HelpersHaveHands'
<1>1. \A t : HandsIn({t}) \subseteq HandsIn({t})'
  BY HandsStay DEF HandsIn
<1>0. ASSUME helper' = helper PROVE HelpersHaveHands'
  BY <1>0, <1>1 DEF HelpersHaveHands, NoHelper
<1>2. ASSUME NEW b \in Bundles, FinalizeCommit(b) PROVE HelpersHaveHands'
  <2>1. helper' = Over(tx[b].helper, helper) /\ At(b, "streets")
    BY <1>2 DEF FinalizeCommit
  <2>2. DOMAIN tx[b].helper = tx[b].scope
    BY <2>1 DEF StoreInv, Progress, Helped, At
  <2>3. DOMAIN helper = Tournaments
    BY DEF StoreInv, TypeOK
  <2>4. \A t \in Tournaments : t \notin tx[b].scope => helper'[t] = helper[t]
    BY <2>1, <2>2, <2>3 DEF Over
  <2>5. \A t \in tx[b].scope : HandsIn({t}) # {}
    BY DEF StoreInv, OrderHeld
  <2> QED BY <1>1, <2>4, <2>5 DEF HelpersHaveHands, NoHelper
<1>3. ASSUME NEW b \in Bundles,
             Enqueue(b) \/ FinalizeBegin(b) \/ OrderHands(b) \/ StoreHelper(b) \/ FinalizeConflict(b)
      PROVE  HelpersHaveHands'
  BY <1>3, <1>0 DEF Enqueue, FinalizeBegin, OrderHands, StoreHelper, FinalizeConflict, Abort, Stays, core
<1>4. ASSUME NEW j \in Jobs, FileBegin(j) \/ PersistSummary(j) \/ PersistHands(j) \/ FileFails(j)
      PROVE  HelpersHaveHands'
  BY <1>4, <1>0 DEF FileBegin, PersistSummary, PersistHands, FileFails, core
<1>5. ASSUME NEW p \in Sessions, DeleteFeatures(p) \/ InsertRows(p) \/ DeadlockVictim(p)
      PROVE  HelpersHaveHands'
  BY <1>5, <1>0 DEF DeleteFeatures, InsertRows, DeadlockVictim, Rollback, Abort, Stays, core
<1>6. ASSUME NEW zone \in Zones, SetZone(zone) PROVE HelpersHaveHands'
  BY <1>6, <1>0 DEF SetZone, core
<1>7. ASSUME UpdateZones \/ ZoneConflict \/ ZoneCommit \/ UNCHANGED vars PROVE HelpersHaveHands'
  BY <1>7, <1>0 DEF UpdateZones, ZoneConflict, ZoneCommit, Rollback, Stays, core, vars
<1> QED BY <1>2, <1>3, <1>4, <1>5, <1>6, <1>7 DEF Next

LEMMA HelpersInit == Init => HelpersHaveHands
BY DEF Init, HelpersHaveHands

-----------------------------------------------------------------------------
(* When everything is published.                                           *)

(* A final table that a helper reports is one of a published tournament.   *)
LEMMA ReachedIsPublished ==
  ASSUME HelpersHaveHands, AllPublished, NEW t \in Tournaments, Reached(t) \/ Deep(t)
  PROVE  t \in PublishedTournaments
<1>1. HandsIn({t}) # {}
  BY DEF Reached, Deep, HelpersHaveHands
<1>2. \A h \in HandsIn({t}) : Published(h)
  BY DEF HandsIn, AllPublished
<1> QED BY <1>1, <1>2 DEF PublishedTournaments

(* The bundle that stored the summary of a tournament is offered.          *)
LEMMA OfferedBundle ==
  ASSUME StoreInv, LinkInv, AllPublished, NEW t \in StoredTournaments
  PROVE  tournament[t].by \in BundleOptions /\ t \in BundleScope(tournament[t].by)
<1> DEFINE b == tournament[t].by
           files == {QueueStatus(job[j]) : j \in JobsOf(b)}
<1>1. t \in Tournaments /\ b # None /\ b \in Bundles /\ job[SummaryOf(t)] = "succeeded"
  BY DEF LinkInv, StoredTournaments
<1>2. SummaryOf(t) \in JobsOf(b)
  BY <1>1 DEF SummaryOf, JobsOf, Jobs, Kinds
<1>3. \A j \in JobsOf(b) : job[j] \in {"succeeded", "failed"}
  BY DEF AllPublished, JobsOf, StoreInv, TypeOK, JobStates
<1>4. fin[b] \in {"absent", "succeeded", "failed"}
  BY <1>1 DEF AllPublished, StoreInv, TypeOK, JobStates
<1>5. QueueStatus(fin[b]) \notin ActiveStatuses
  BY <1>4 DEF QueueStatus, ActiveStatuses
<1>6. files \subseteq TerminalStatuses /\ "succeeded" \in files
  BY <1>1, <1>2, <1>3 DEF QueueStatus, TerminalStatuses
<1> HIDE DEF files
<1>7. DeriveBundleStatus(files, QueueStatus(fin[b])) \in {"succeeded", "partial_success"}
  BY <1>5, <1>6 DEF DeriveBundleStatus, TerminalStatuses
<1>8. b \in BundleOptions
  BY <1>1, <1>2, <1>7 DEF BundleOptions, StatusOfBundle, files
<1>9. t \in BundleScope(b)
  BY <1>1 DEF BundleScope, FromArchiveOf
<1> QED BY <1>8, <1>9

(* So each stored tournament is under an offered bundle, and nothing else  *)
(* is.                                                                     *)
LEMMA EveryTournamentOffered ==
  ASSUME StoreInv, LinkInv, AllPublished
  PROVE  UNION {BundleScope(b) : b \in BundleOptions} = Everything
<1>1. Everything = StoredTournaments
  BY DEF Everything, Chosen, Scope, BuyinOptions
<1>2. \A b \in BundleOptions : BundleScope(b) \subseteq StoredTournaments
  <2> SUFFICES ASSUME NEW b \in BundleOptions, NEW t \in BundleScope(b)
               PROVE  t \in StoredTournaments
    OBVIOUS
  <2> QED BY DEF BundleScope, FromArchiveOf, StoredTournaments, LinkInv
<1>3. \A t \in StoredTournaments : \E b \in BundleOptions : t \in BundleScope(b)
  BY OfferedBundle
<1> QED BY <1>1, <1>2, <1>3

-----------------------------------------------------------------------------
(* The state of the dashboard.                                             *)

(* The dashboard is ready as soon as a tournament in scope has hands.      *)
LEMMA ReadyIsCovered ==
  ASSUME RoomData, NEW ts \in SUBSET Tournaments
  PROVE  (DataState(ts) = "ready") <=> (Covered(ts) # {})
<1> DEFINE cards == StatCards(ts)
           charts == ChartStates(ts)
           covered == Covered(ts)
           reached == Cardinality({t \in ts : Reached(t)} \cap covered)
           blocked == /\ \A c \in DOMAIN cards : cards[c].state # "ready"
                      /\ \A c \in DOMAIN charts : charts[c] # "ready"
<1>1. DataState(ts) = CASE ts = {} -> "empty"
                        [] ts # {} /\ blocked -> "blocked"
                        [] OTHER -> IF covered = {} THEN "partial" ELSE "ready"
  BY DEF DataState
<1>2. "ftReach" \in DOMAIN cards /\ cards["ftReach"] = Card(FinalTableStats(ts).ftReach, None)
  BY DEF StatCards, CardsOf
<1>3. FinalTableStats(ts).ftReach = Ratio(reached, Cardinality(covered))
  BY DEF FinalTableStats
<1>4. covered \subseteq ts /\ IsFiniteSet(covered)
  BY FS_Subset DEF RoomData, Covered
<1>5. covered # {} => ~blocked
  <2> SUFFICES ASSUME covered # {} PROVE cards["ftReach"].state = "ready"
    BY <1>2
  <2>1. Cardinality(covered) \in Nat /\ Cardinality(covered) > 0
    BY <1>4, FS_EmptySet, FS_CardinalityType
  <2>2. reached \in Nat
    BY <1>4, FS_Subset, FS_CardinalityType
  <2> HIDE DEF covered, reached, cards
  <2>3. FinalTableStats(ts).ftReach \in Nat \X Nat
    BY <1>3, <2>1, <2>2 DEF Ratio
  <2>4. FinalTableStats(ts).ftReach # None
    BY <2>3 DEF RoomData
  <2> QED BY <1>2, <2>4 DEF Card
<1> HIDE DEF covered, blocked
<1>6. DataState(ts) = "ready" <=> covered # {}
  BY <1>1, <1>4, <1>5
<1> QED BY <1>6 DEF covered

-----------------------------------------------------------------------------
(* Charts.                                                                 *)

(* A set cut into parts is counted by them.                                *)
LEMMA PartsCount ==
  ASSUME NEW B, IsFiniteSet(B), NEW R, IsFiniteSet(R), NEW part, NEW f,
         \A b \in B : part[b] \in SUBSET R /\ f[b] = Cardinality(part[b]),
         \A r \in R : \E b \in B : r \in part[b],
         \A b, c \in B : b # c => part[b] \cap part[c] = {}
  PROVE  TotalOver(f, B) = Cardinality(R)
<1> DEFINE Whole(C) == UNION {part[b] : b \in C}
           G == {C \in SUBSET B : TotalOver(f, C) = Cardinality(Whole(C))}
<1>0. \A b \in B : f[b] \in Int
  <2> SUFFICES ASSUME NEW b \in B PROVE f[b] \in Int
    OBVIOUS
  <2>1. IsFiniteSet(part[b])
    BY FS_Subset
  <2> QED BY <2>1, FS_CardinalityType
<1>1. {} \in G
  <2>1. Whole({}) = {}
    OBVIOUS
  <2> QED BY <1>0, <2>1, FS_EmptySet, TotalOverStep
<1>2. ASSUME NEW C \in SUBSET B, NEW x \in B \ C, C \in G PROVE C \cup {x} \in G
  <2>1. IsFiniteSet(C)
    BY FS_Subset
  <2>2. Whole(C) \in SUBSET R /\ part[x] \in SUBSET R /\ Whole(C) \cap part[x] = {}
    OBVIOUS
  <2>3. IsFiniteSet(Whole(C)) /\ IsFiniteSet(part[x])
    BY <2>2, FS_Subset
  <2>4. Whole(C \cup {x}) = Whole(C) \cup part[x]
    OBVIOUS
  <2>5. TotalOver(f, C) = Cardinality(Whole(C))
    BY <1>2
  <2>6. TotalOver(f, C \cup {x}) = f[x] + TotalOver(f, C)
    BY <1>0, <2>1, TotalOverAdd
  <2> HIDE DEF Whole
  <2>7. Cardinality(Whole(C) \cup part[x]) = Cardinality(Whole(C)) + Cardinality(part[x])
    <3>1. Cardinality(Whole(C) \cap part[x]) = 0
      BY <2>2, FS_EmptySet
    <3>2. /\ Cardinality(Whole(C)) \in Nat /\ Cardinality(part[x]) \in Nat
          /\ Cardinality(Whole(C) \cup part[x]) =
               Cardinality(Whole(C)) + Cardinality(part[x]) - Cardinality(Whole(C) \cap part[x])
      BY <2>3, FS_Union, FS_CardinalityType
    <3> QED BY <3>1, <3>2
  <2>8. Cardinality(Whole(C)) \in Nat /\ Cardinality(part[x]) \in Nat /\ f[x] = Cardinality(part[x])
    BY <2>3, FS_CardinalityType
  <2>9. TotalOver(f, C \cup {x}) = Cardinality(Whole(C) \cup part[x])
    BY <2>5, <2>6, <2>7, <2>8
  <2>10. TotalOver(f, C \cup {x}) = Cardinality(Whole(C \cup {x}))
    BY <2>4, <2>9, Zenon
  <2> QED BY <2>10
<1> HIDE DEF G
<1>3. B \in G
  BY <1>1, <1>2, FiniteInduction DEF G
<1>4. Whole(B) = R
  OBVIOUS
<1> QED BY <1>3, <1>4 DEF G

(* The last bar.                                                           *)
LEMMA AboveAllStacks == AboveAll \in Nat /\ AboveAll > 4000
BY SMT DEF AboveAll

(* Each stack is in exactly one bar.                                       *)
In(n, bar) == n >= bar[1] /\ n < bar[2]
LastStep(step) == 3200 \div step - 1
StepBar(low, step, k) == <<low + k * step, low + (k + 1) * step>>
(* The bars of a width.                                                    *)
LEMMA StepsHave ==
  ASSUME NEW low, NEW high, NEW step, NEW last, 0..((high - low) \div step - 1) = 0..last
  PROVE  \A b : b \in Steps(low, high, step) <=> \E k \in 0..last : b = StepBar(low, step, k)
<1>1. Steps(low, high, step) = {StepBar(low, step, k) : k \in 0..last}
  BY DEF Steps, StepBar
<1> QED BY <1>1

LEMMA StepsAre ==
  ASSUME NEW step \in FtSteps
  PROVE  \A b : b \in Steps(800, 4000, step) <=>
                \E k \in 0..LastStep(step) : b = StepBar(800, step, k)
<1> DEFINE low == 800
           high == 4000
           last == LastStep(step)
<1>1. 0..((high - low) \div step - 1) = 0..last
  BY DEF LastStep
<1> HIDE DEF low, high, last
<1>2. \A b : b \in Steps(low, high, step) <=> \E k \in 0..last : b = StepBar(low, step, k)
  BY <1>1, StepsHave
<1> QED BY <1>2 DEF low, high, last

(* A stack that is charted is in one bar and in no other, for each width;  *)
(* one that is not is in none.                                             *)
LEMMA InOneBar ==
  ASSUME NEW step \in FtSteps, NEW n \in 0..AboveAll - 1
  PROVE  /\ (\E bar \in FtIntervals(step) : In(n, bar)) <=> ~Uncharted(step, n)
         /\ \A bar, other \in FtIntervals(step) : In(n, bar) /\ In(n, other) => bar = other
<1> DEFINE bar(k) == StepBar(800, step, k)
           last == LastStep(step)
           k0 == (n - 800) \div step
<1>0. n \in Nat /\ n < AboveAll /\ AboveAll \in Nat /\ AboveAll > 4000
  BY AboveAllStacks
<1>1. \A b : b \in FtIntervals(step) <=>
                b = <<0, 800>> \/ b = <<4000, AboveAll>> \/ \E k \in 0..last : b = bar(k)
  <2>1. \A b : b \in Steps(800, 4000, step) <=> \E k \in 0..last : b = bar(k)
    BY StepsAre
  <2> HIDE DEF bar, last
  <2> DEFINE middle == Steps(800, 4000, step)
             low == <<0, 800>>
             high == <<4000, AboveAll>>
  <2>2. FtIntervals(step) = {low} \cup middle \cup {high}
    BY DEF FtIntervals
  <2> HIDE DEF middle, low, high
  <2>3. \A b : b \in FtIntervals(step) <=> b = low \/ b = high \/ b \in middle
    BY <2>2
  <2> QED BY <2>1, <2>3 DEF middle, low, high
<1>3. \A k \in 0..last : In(n, bar(k)) <=> n >= 800 + k * step /\ n < 800 + (k + 1) * step
  BY DEF In, StepBar
<1>4. In(n, <<0, 800>>) <=> n < 800
  BY <1>0 DEF In
<1>5. In(n, <<4000, AboveAll>>) <=> n >= 4000
  BY <1>0 DEF In
<1>6. n >= 800 /\ n < 4000 /\ ~Uncharted(step, n) =>
        \E k \in 0..last : n >= 800 + k * step /\ n < 800 + (k + 1) * step
  <2> SUFFICES ASSUME n >= 800, n < 4000, ~Uncharted(step, n)
               PROVE  k0 \in 0..last /\ n >= 800 + k0 * step /\ n < 800 + (k0 + 1) * step
    OBVIOUS
  <2>1. CASE step = 100
    BY <1>0, <2>1 DEF LastStep, Uncharted
  <2>2. CASE step = 200
    BY <1>0, <2>2 DEF LastStep, Uncharted
  <2>3. CASE step = 400
    BY <1>0, <2>3 DEF LastStep, Uncharted
  <2>4. CASE step = 1000
    BY <1>0, <2>4 DEF LastStep, Uncharted
  <2> QED BY <2>1, <2>2, <2>3, <2>4 DEF FtSteps
<1>7. \A j, k \in 0..last :
        /\ n >= 800 + k * step /\ n < 800 + (k + 1) * step
        /\ n >= 800 + j * step /\ n < 800 + (j + 1) * step
        => j = k
  <2>1. CASE step = 100
    BY <1>0, <2>1 DEF LastStep
  <2>2. CASE step = 200
    BY <1>0, <2>2 DEF LastStep
  <2>3. CASE step = 400
    BY <1>0, <2>3 DEF LastStep
  <2>4. CASE step = 1000
    BY <1>0, <2>4 DEF LastStep
  <2> QED BY <2>1, <2>2, <2>3, <2>4 DEF FtSteps
<1>8. \A k \in 0..last :
        n >= 800 + k * step /\ n < 800 + (k + 1) * step => n >= 800 /\ n < 4000 /\ ~Uncharted(step, n)
  <2>1. CASE step = 100
    BY <1>0, <2>1 DEF LastStep, Uncharted
  <2>2. CASE step = 200
    BY <1>0, <2>2 DEF LastStep, Uncharted
  <2>3. CASE step = 400
    BY <1>0, <2>3 DEF LastStep, Uncharted
  <2>4. CASE step = 1000
    BY <1>0, <2>4 DEF LastStep, Uncharted
  <2> QED BY <2>1, <2>2, <2>3, <2>4 DEF FtSteps
<1>9. Uncharted(step, n) => n >= 800 /\ n < 4000
  <2>1. CASE step = 100
    BY <1>0, <2>1 DEF Uncharted
  <2>2. CASE step = 200
    BY <1>0, <2>2 DEF Uncharted
  <2>3. CASE step = 400
    BY <1>0, <2>3 DEF Uncharted
  <2>4. CASE step = 1000
    BY <1>0, <2>4 DEF Uncharted
  <2> QED BY <2>1, <2>2, <2>3, <2>4 DEF FtSteps
<1> HIDE DEF bar, last
<1>11. (\E b \in FtIntervals(step) : In(n, b)) <=> ~Uncharted(step, n)
  <2>1. ASSUME ~Uncharted(step, n) PROVE \E b \in FtIntervals(step) : In(n, b)
    BY <1>0, <1>1, <1>3, <1>4, <1>5, <1>6, <2>1
  <2>2. ASSUME Uncharted(step, n), NEW b \in FtIntervals(step), In(n, b) PROVE FALSE
    BY <1>0, <1>1, <1>3, <1>4, <1>5, <1>8, <1>9, <2>2
  <2> QED BY <2>1, <2>2
<1>10. ASSUME NEW b \in FtIntervals(step), NEW c \in FtIntervals(step), In(n, b), In(n, c)
       PROVE  b = c
  <2>1. CASE n < 800
    BY <1>0, <1>1, <1>3, <1>5, <1>8, <1>10, <2>1
  <2>2. CASE n >= 4000
    BY <1>0, <1>1, <1>3, <1>4, <1>8, <1>10, <2>2
  <2>3. CASE n >= 800 /\ n < 4000
    <3>1. (\E k \in 0..last : b = bar(k)) /\ (\E j \in 0..last : c = bar(j))
      BY <1>0, <1>1, <1>4, <1>5, <1>10, <2>3
    <3>2. PICK k \in 0..last, j \in 0..last : b = bar(k) /\ c = bar(j)
      BY <3>1
    <3>3. j = k
      BY <1>3, <1>7, <1>10, <3>2
    <3> QED BY <3>2, <3>3
  <2> QED BY <1>0, <2>1, <2>2, <2>3
<1> QED BY <1>10, <1>11

LEMMA BarsAreFinite ==
  ASSUME NEW step \in FtSteps
  PROVE  IsFiniteSet(FtIntervals(step))
<1> DEFINE m == 0
           last == LastStep(step)
           barOf == [k \in m..last |-> StepBar(800, step, k)]
           middle == Steps(800, 4000, step)
<1>1. m \in Int /\ last \in Int
  <2>1. last \in {31, 15, 7, 2}
    BY DEF LastStep, FtSteps
  <2> QED BY <2>1
<1>2. barOf \in Surjection(m..last, middle)
  <2>1. \A b : b \in middle <=> \E k \in m..last : b = barOf[k]
    BY StepsAre
  <2>2. DOMAIN barOf = m..last /\ barOf = [k \in m..last |-> barOf[k]]
    OBVIOUS
  <2> HIDE DEF m, last, barOf, middle
  <2>3. barOf \in [m..last -> middle]
    BY <2>1, <2>2
  <2> QED BY <2>1, <2>3 DEF Surjection
<1> DEFINE low == <<0, 800>>
           high == <<4000, AboveAll>>
<1>3. FtIntervals(step) = ({low} \cup middle) \cup {high}
  BY DEF FtIntervals
<1> HIDE DEF m, last, barOf, middle, low, high
<1>4. IsFiniteSet(middle)
  BY <1>1, <1>2, FS_Interval, FS_Surjection
<1>5. IsFiniteSet({low} \cup middle)
  BY <1>4, FS_Union, FS_Singleton
<1>6. IsFiniteSet(({low} \cup middle) \cup {high})
  BY <1>5, FS_Union, FS_Singleton
<1> QED BY <1>3, <1>6

(* The stacks of the reached final tables fit the bars.                    *)
StacksFit(ts) ==
  IsFiniteSet(StackRecords(ts)) /\ \A t \in StackRecords(ts) : helper[t].stack \in 0..AboveAll - 1
LEMMA StacksAreBelow ==
  ASSUME RoomData, StoreInv, TextInv, HelpersHaveHands, AllPublished, NEW ts \in SUBSET Tournaments
  PROVE  StacksFit(ts)
<1>1. IsFiniteSet(StackRecords(ts))
  BY FS_Subset DEF RoomData, StackRecords
<1>2. ASSUME NEW t \in StackRecords(ts) PROVE helper[t].stack \in 0..AboveAll - 1
  <2>1. t \in Tournaments /\ Reached(t)
    BY DEF StackRecords
  <2>2. t \in PublishedTournaments
    BY <2>1, ReachedIsPublished
  <2>3. HelperSays(t) /\ FtHands(t) # {}
    BY <2>1, <2>2, HelperColumns, ReachedAgrees
  <2>4. PICK first \in FtHands(t) : helper[t].stack = info[first].stack
    BY <2>3 DEF HelperSays
  <2>5. first \in Hands
    BY DEF FtHands, HandsIn, Stored
  <2> QED BY <2>4, <2>5 DEF RoomData
<1> QED BY <1>1, <1>2 DEF StacksFit

(* A finite set of naturals has a greatest element.                        *)
LEMMA BoundedMax ==
  ASSUME NEW S \in SUBSET Nat, S # {}, NEW n \in Nat, \A s \in S : s <= n
  PROVE  \E m \in S : \A s \in S : s <= m
<1> DEFINE U == {n - s : s \in S}
<1>1. U \in SUBSET Nat /\ U # {} /\ \A u \in U : u <= n
  <2>1. \A s \in S : n - s \in Nat /\ n - s <= n
    OBVIOUS
  <2> QED BY <2>1
<1> HIDE DEF U
<1>2. IsFiniteSet(U)
  BY <1>1, FS_BoundedSetOfNaturals DEF U
<1>3. PICK u \in U : \A v \in U : u <= v
  BY <1>1, <1>2, FiniteMin
<1>4. PICK m \in S : u = n - m
  BY <1>3 DEF U
<1>5. \A s \in S : s \in Nat /\ n - s \in U
  BY DEF U
<1> QED BY <1>3, <1>4, <1>5

(* The median stack is the stack of some tournament.                       *)
LEMMA MedianIsStack ==
  ASSUME NEW ts, StacksFit(ts), StackRecords(ts) # {}
  PROVE  \E t \in StackRecords(ts) : helper[t].stack = MedianStack(ts)
<1> DEFINE records == StackRecords(ts)
           stacks == {helper[t].stack : t \in records}
           atMost(n) == Cardinality({t \in records : helper[t].stack <= n})
           half == Cardinality(records) \div 2
           beyond == {n \in stacks : atMost(n) > half}
<1>1. stacks \in SUBSET Nat /\ stacks # {} /\ \A n \in stacks : n <= AboveAll
  BY AboveAllStacks DEF StacksFit
<1> HIDE DEF stacks
<1>a. \E m \in stacks : \A n \in stacks : n <= m
  <2> DEFINE top == AboveAll
  <2>1. top \in Nat /\ \A n \in stacks : n <= top
    BY <1>1, AboveAllStacks
  <2> HIDE DEF top
  <2> QED BY <1>1, <2>1, BoundedMax
<1>2. PICK m \in stacks : \A n \in stacks : n <= m
  BY <1>a
<1>3. {t \in records : helper[t].stack <= m} = records
  BY <1>2 DEF stacks
<1>4. Cardinality(records) \in Nat /\ Cardinality(records) > 0
  BY FS_EmptySet, FS_CardinalityType DEF StacksFit
<1>5. atMost(m) > half
  BY <1>3, <1>4
<1>6. beyond \in SUBSET Nat /\ beyond # {}
  BY <1>1, <1>2, <1>5
<1>7. MedianStack(ts) = LeastOf(beyond)
  BY DEF MedianStack, stacks
<1>8. beyond \subseteq stacks
  OBVIOUS
<1> HIDE DEF beyond
<1>9. MedianStack(ts) \in stacks
  BY <1>6, <1>7, <1>8, LeastIsMember
<1> QED BY <1>9 DEF stacks

(* The bars count each final table once, and the bar of the median counts  *)
(* some.                                                                   *)
LEMMA StacksCount ==
  ASSUME NEW ts, StacksFit(ts)
  PROVE  ChartsCount(ts)
<1> SUFFICES ASSUME NEW step \in FtSteps
             PROVE  LET bars == Bars("count", ts, FtIntervals(step))
                        charted == {t \in StackRecords(ts) : ~Uncharted(step, helper[t].stack)}
                    IN /\ Total([bar \in DOMAIN bars |-> bars[bar].sample]) = Cardinality(charted)
                       /\ StackRecords(ts) # {} =>
                            Uncharted(step, MedianStack(ts)) \/ bars[MedianBar(ts, step)].sample > 0
  BY DEF ChartsCount
<1> DEFINE intervals == FtIntervals(step)
           records == StackRecords(ts)
           charted == {t \in records : ~Uncharted(step, helper[t].stack)}
           bars == Bars("count", ts, intervals)
           part == [bar \in intervals |-> Within(records, bar)]
           f == [bar \in DOMAIN bars |-> bars[bar].sample]
<1>1. DOMAIN bars = intervals /\ DOMAIN f = intervals
  BY DEF Bars
<1>2. \A bar \in intervals : /\ part[bar] = {t \in records : In(helper[t].stack, bar)}
                             /\ bars[bar].sample = Cardinality(part[bar])
                             /\ f[bar] = bars[bar].sample
  BY DEF Bars, Bar, Within, In
<1>3. IsFiniteSet(intervals) /\ IsFiniteSet(records) /\ IsFiniteSet(charted)
  BY BarsAreFinite, FS_Subset DEF StacksFit
<1>4. \A t \in records : /\ (\E bar \in intervals : In(helper[t].stack, bar)) <=> ~Uncharted(step, helper[t].stack)
                         /\ \A b, c \in intervals : In(helper[t].stack, b) /\ In(helper[t].stack, c) => b = c
  BY InOneBar DEF StacksFit
<1>5. Total(f) = TotalOver(f, intervals)
  BY <1>1, TotalIsRec
<1>6. MedianBar(ts, step) =
        LET at == {bar \in intervals : In(MedianStack(ts), bar)}
        IN IF at = {} THEN <<4000, AboveAll>> ELSE CHOOSE bar \in at : TRUE
  BY DEF MedianBar, In
<1> HIDE DEF f, bars, part, intervals
<1>7. Total(f) = Cardinality(charted)
  <2>1. \A b \in intervals : part[b] \in SUBSET charted /\ f[b] = Cardinality(part[b])
    BY <1>2, <1>4
  <2>2. \A t \in charted : \E b \in intervals : t \in part[b]
    BY <1>2, <1>4
  <2>3. \A b, c \in intervals : b # c => part[b] \cap part[c] = {}
    BY <1>2, <1>4
  <2> HIDE DEF records, charted
  <2> QED BY <1>3, <1>5, <2>1, <2>2, <2>3, PartsCount
<1>8. ASSUME records # {}, ~Uncharted(step, MedianStack(ts))
      PROVE  bars[MedianBar(ts, step)].sample > 0
  <2>1. PICK t \in records : helper[t].stack = MedianStack(ts)
    BY <1>8, MedianIsStack
  <2>2. MedianBar(ts, step) \in intervals /\ In(helper[t].stack, MedianBar(ts, step))
    BY <1>4, <1>6, <1>8, <2>1
  <2>3. t \in part[MedianBar(ts, step)] /\ part[MedianBar(ts, step)] \in SUBSET records
    BY <1>2, <2>2
  <2>4. Cardinality(part[MedianBar(ts, step)]) > 0
    BY <1>3, <2>3, FS_Subset, FS_EmptySet, FS_CardinalityType
  <2> QED BY <1>2, <2>2, <2>4
<1> QED BY <1>7, <1>8 DEF f, bars, intervals

-----------------------------------------------------------------------------
(* The dashboard of a state in which everything is published.              *)
LEMMA InvDashboard ==
  ASSUME RoomData, StoreInv, TextInv, LinkInv, HelpersHaveHands
  PROVE  DashboardIsWhole
<1> SUFFICES ASSUME AllPublished
             PROVE  /\ UNION {BundleScope(b) : b \in BundleOptions} = Everything
                    /\ \A b \in BundleOptions :
                         LET ts == Chosen(b, None, None, BuyinOptions)
                         IN /\ (DataState(ts) = "ready") <=> (Covered(ts) # {})
                            /\ ChartsCount(ts)
  BY DEF DashboardIsWhole
<1>1. UNION {BundleScope(b) : b \in BundleOptions} = Everything
  BY EveryTournamentOffered
<1>2. ASSUME NEW b \in BundleOptions
      PROVE  LET ts == Chosen(b, None, None, BuyinOptions)
             IN /\ (DataState(ts) = "ready") <=> (Covered(ts) # {})
                /\ ChartsCount(ts)
  <2> DEFINE ts == Chosen(b, None, None, BuyinOptions)
  <2>1. ts \in SUBSET Tournaments
    BY DEF Chosen, Scope, StoredTournaments
  <2> HIDE DEF ts
  <2>2. ChartsCount(ts)
    BY <2>1, StacksAreBelow, StacksCount
  <2>3. (DataState(ts) = "ready") <=> (Covered(ts) # {})
    BY <2>1, ReadyIsCovered
  <2> QED BY <2>2, <2>3, Zenon DEF ts
<1> QED BY <1>1, <1>2

(* For data as they come from the room: once everything that was stored is *)
(* published, however imports, failures, finalize jobs and zone changes    *)
(* went before, the bundles the dashboard offers (bundle options of        *)
(* ft_dashboard.rs) hold every stored tournament; the dashboard of a       *)
(* bundle is ready exactly when one of its tournaments has hands; and for  *)
(* each of the four steps on offer the charts of stacks count each final   *)
(* table once, but for the stacks from 3800 to 4000 with steps of 1000,    *)
(* which are in no bar.                                                    *)
THEOREM DashboardAlwaysWhole == RoomData /\ Spec => []DashboardIsWhole
<1>1. Init => TextInv
  BY TextInit
<1>2. StoreInv /\ TextInv /\ [Next]_vars => TextInv'
  BY TextStep
<1>3. Spec => [](StoreInv /\ TextInv)
  BY <1>1, <1>2, StoreInvariance, PTL DEF Spec
<1>4. Init => LinkInv /\ HelpersHaveHands
  BY LinkInit, HelpersInit
<1>5. ASSUME RoomData PROVE StoreInv /\ TextInv /\ LinkInv /\ HelpersHaveHands /\ [Next]_vars
                              => LinkInv' /\ HelpersHaveHands'
  BY <1>5, LinkStep, HelpersStep
<1>6. ASSUME RoomData PROVE StoreInv /\ TextInv /\ LinkInv /\ HelpersHaveHands => DashboardIsWhole
  BY <1>6, InvDashboard
<1>7. ASSUME RoomData PROVE Spec => []DashboardIsWhole
  BY <1>3, <1>4, <1>5, <1>6, <1>7, PTL DEF Spec
<1> QED BY <1>7
=============================================================================
