--------------------------- MODULE IngestPrepare ---------------------------
(* Preparation of an upload (crate tracker_ingest_prepare): every scanned  *)
(* file is classified by its header, the files of a tournament are         *)
(* resolved per kind by their content hashes, and a tournament with one    *)
(* summary and one hand history becomes a pair.  A file is a record        *)
(* [path, doc]; its document is a record [kind, tournament, hands].  Two   *)
(* files have the same hash exactly when they have the same document.      *)
EXTENDS Naturals, FiniteSets

CONSTANT NoTournament

Kinds == {"ts", "hh"}

(* classify_line: a header that is neither a summary nor a hand history,   *)
(* or one without a tournament id, is rejected file by file.               *)
IsCandidate(f) == f.doc.kind \in Kinds /\ f.doc.tournament # NoTournament
ScanReason(f) ==
  IF f.doc.kind \in Kinds THEN "missing_tournament_id" ELSE "unsupported_source"
ScanRejected(files) ==
  {[tournament |-> NoTournament, files |-> {f}, reason |-> ScanReason(f)] :
     f \in {g \in files : ~IsCandidate(g)}}

Bucket(files, t, kind) ==
  {f \in files : IsCandidate(f) /\ f.doc.tournament = t /\ f.doc.kind = kind}
Buckets(files) == {f.doc.tournament : f \in {g \in files : IsCandidate(g)}}

(* resolve_candidates: copies of one document collapse into the file whose *)
(* path comes first; different documents conflict.                         *)
FirstFileWins(bucket) ==  \* no conflict is ever reported
  IF bucket = {} THEN "missing" ELSE "ready"
Resolution(bucket) ==
  CASE bucket = {} -> "missing"
    [] Cardinality({f.doc : f \in bucket}) = 1 -> "ready"
    [] OTHER -> "conflict"
Representative(bucket) ==
  CHOOSE f \in bucket : \A g \in bucket : f.path <= g.path
(* The files of a bucket that a pair or a rejection mentions.              *)
Reported(bucket) ==
  IF Resolution(bucket) = "ready" THEN {Representative(bucket)} ELSE bucket

Paired(files) ==
  {t \in Buckets(files) :
     \A kind \in Kinds : Resolution(Bucket(files, t, kind)) = "ready"}

PairReason(ts, hh) ==
  CASE ts = "conflict" -> "conflicting_ts"
    [] ts # "conflict" /\ hh = "conflict" -> "conflicting_hh"
    [] ts = "missing" /\ hh = "ready" -> "missing_ts"
    [] ts = "ready" /\ hh = "missing" -> "missing_hh"
PairRejected(files) ==
  {[tournament |-> t,
    files |-> UNION {Reported(Bucket(files, t, kind)) : kind \in Kinds},
    reason |-> PairReason(Resolution(Bucket(files, t, "ts")),
                          Resolution(Bucket(files, t, "hh")))] :
     t \in Buckets(files) \ Paired(files)}

Rejected(files) == ScanRejected(files) \cup PairRejected(files)

(* build_prepared_archive_input: the documents of the members, a summary   *)
(* and the hand history that depends on it per pair.                       *)
MemberDoc(files, t, kind) == Representative(Bucket(files, t, kind)).doc

-----------------------------------------------------------------------------
(* What the user of an upload must be able to rely on: every file he gave  *)
(* is imported with its tournament or named by one rejection, or is a copy *)
(* of a file that is; and nothing is imported for a tournament whose files *)
(* disagree.                                                               *)
Entries(files) ==
  {r.files : r \in Rejected(files)}
  \cup {{Representative(Bucket(files, t, kind)) : kind \in Kinds} : t \in Paired(files)}
Accounted(files) ==
  LET entries == Entries(files)
  IN \A f \in files :
       \/ Cardinality({e \in entries : f \in e}) = 1
       \/ /\ \A e \in entries : f \notin e
          /\ \E e \in entries : \E g \in e : g.doc = f.doc
Unanimous(files) ==
  \A t \in Paired(files) : \A kind \in Kinds :
    \A f \in Bucket(files, t, kind) : f.doc = MemberDoc(files, t, kind)
=============================================================================
