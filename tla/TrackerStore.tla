---------------------------- MODULE TrackerStore ----------------------------
(* The core and analytics tables while uploads are imported: the pairs of  *)
(* an upload become file jobs, each file job stores its rows in one        *)
(* transaction, the finalize job of a bundle orders, stages and            *)
(* materializes the tournaments of the bundle statement by statement, and  *)
(* the user changes his time zone at any time.  Statements are READ        *)
(* COMMITTED: they see what is committed when they run.  A statement that  *)
(* has to wait for a row is modelled as starting when it gets the row.     *)
(* The queue itself is in IngestQueue; here a bundle's jobs are what that  *)
(* module promises (BundleImport).                                         *)
EXTENDS IngestPrepare, HandFeatures, Sequences

CONSTANTS
  Bundles,        \* uploads, one bundle each (numbers)
  Tournaments,    \* external tournament ids, in the order of their row ids
  Hands,          \* external hand ids
  info,           \* what the text of a hand says
  Files,          \* the files a user may have
  Uploads,        \* what the uploads may hold: a set of files for each bundle
  Zones,          \* IANA time zones a user may set
  InitialZone,    \* the user's zone before the first import, or None
  Workers,        \* jobs that run at once
  MaxAttempts, MaxZoneChanges, MaxFailures

ASSUME FilesAssumption ==
  IsFiniteSet(Files) /\ \A f \in Files : f.path \in Nat /\ f.doc.hands \subseteq Hands
ASSUME UploadsAssumption == Uploads \subseteq [Bundles -> SUBSET Files]
ASSUME BundlesAssumption == Bundles \subseteq Nat \ {0} /\ None \notin Bundles
ASSUME InfoAssumption ==
  Tournaments \subseteq Nat /\ \A h \in Hands : info[h].tournament \in Tournaments
ASSUME HandsAssumption ==
  /\ Hands \subseteq Nat /\ IsFiniteSet(Hands) /\ None \notin Nat
  /\ \A h \in Hands :
       /\ info[h].at \in Nat /\ info[h].attempts \in Nat
       /\ IsFt(info, h) => info[h].seats \in 2..FtPlayers
       /\ IsFiniteSet(info[h].kos) /\ \A k \in info[h].kos : k.share \in Nat

VARIABLES
  uploads,    \* the files of each bundle
  job,        \* status of each file job <<bundle, tournament, kind>>
  doc,        \* the document of each file job
  readZone,   \* the zone the transaction of a running file job has read
  beside,     \* running file jobs that may count one as running that has ended
  fin,        \* status of the finalize job of each bundle
  tries,      \* attempts of each finalize job
  tournament, \* core.tournaments: the bundle of its summary, the zone of its start
  hand,       \* core.hands and its children
  helper,     \* derived.mbr_tournament_ft_helper
  features,   \* analytics.player_hand_* and player_street_* rows
  userZone,   \* auth.users.timezone_name
  tx,         \* the open transaction of each finalize job and of the zone change
  zoneChanges, failures

core == <<tournament, hand, helper, features, userZone>>
vars == <<uploads, job, doc, readZone, beside, fin, tries, core, tx, zoneChanges, failures>>

ZoneChange == 0
Sessions == Bundles \cup {ZoneChange}
Jobs == Bundles \X Tournaments \X Kinds

NoHand == [by |-> None, zone |-> None, order |-> 0, stage |-> None, results |-> None]
NoFeatures == [row |-> None, street |-> FALSE]
NoHelper == [state |-> None]
NoFn == [x \in {} |-> None]
Over(new, old) ==
  [x \in DOMAIN new \cup DOMAIN old |-> IF x \in DOMAIN new THEN new[x] ELSE old[x]]

(* No transaction is open.  An open one is at statement pc: it has still   *)
(* to go through the tournaments todo of its scope (scan, and the hands it *)
(* has seen, for a zone change), holds the rows of tournaments, and has    *)
(* written order, helper and rows and deleted the features of gone.        *)
Idle == [pc |-> "idle", todo |-> {}, scope |-> {}, scan |-> <<>>, seen |-> {},
         tournaments |-> {}, order |-> NoFn, helper |-> NoFn, gone |-> {},
         rows |-> NoFn, zone |-> None]

Stored == {h \in Hands : hand[h] # NoHand}
HandsIn(ts) == {h \in Stored : info[h].tournament \in ts}
LeastOf(S) == CHOOSE n \in S : \A k \in S : n <= k

(* Rows an open transaction has written and others cannot lock.            *)
LockedHands(p) == DOMAIN tx[p].order
LockedTournaments(p) == tx[p].tournaments
PendingRows(p) == DOMAIN tx[p].rows
DeletedRows(p) == tx[p].gone
Others(p) == Sessions \ {p}
LockedByOther(p, hs) == \E q \in Others(p) : LockedHands(q) \cap hs # {}

FreeWorker ==
  Cardinality({j \in Jobs : job[j] = "running"})
    + Cardinality({b \in Bundles : fin[b] = "running"}) < Workers

Init ==
  /\ uploads \in Uploads
  /\ job = [j \in Jobs |-> "absent"]
  /\ doc = [j \in Jobs |-> None]
  /\ readZone = [j \in Jobs |-> None]
  /\ beside = {}
  /\ fin = [b \in Bundles |-> "absent"]
  /\ tries = [b \in Bundles |-> 0]
  /\ tournament = [t \in Tournaments |-> [by |-> None, zone |-> None]]
  /\ hand = [h \in Hands |-> NoHand]
  /\ helper = [t \in Tournaments |-> NoHelper]
  /\ features = [h \in Hands |-> NoFeatures]
  /\ userZone = InitialZone
  /\ tx = [p \in Sessions |-> Idle]
  /\ zoneChanges = 0 /\ failures = 0

-----------------------------------------------------------------------------
(* Bundles and file jobs.                                                  *)

Members(b) == {b} \X Paired(uploads[b]) \X Kinds
JobsOf(b) == {j \in Jobs : j[1] = b /\ job[j] # "absent"}

Enqueue(b) ==
  /\ Members(b) # {}
  /\ JobsOf(b) = {}
  /\ job' = [j \in Jobs |-> IF j \in Members(b) THEN "queued" ELSE job[j]]
  /\ doc' = [j \in Jobs |-> IF j \in Members(b) THEN MemberDoc(uploads[b], j[2], j[3])
                            ELSE doc[j]]
  /\ UNCHANGED <<uploads, readZone, beside, fin, tries, core, tx, zoneChanges, failures>>

(* The finalize job follows the last file job if one has succeeded.        *)
WithFinalize(js, b) ==
  IF /\ \A j \in JobsOf(b) : js[j] \in {"succeeded", "failed"}
     /\ \E j \in JobsOf(b) : js[j] = "succeeded"
  THEN [fin EXCEPT ![b] = "queued"] ELSE fin

(* The persist transaction starts with load_existing_context, which reads  *)
(* the user's time zone.                                                   *)
FileBegin(j) ==
  /\ job[j] = "queued"
  /\ j[3] = "hh" => job[<<j[1], j[2], "ts">>] = "succeeded"
  /\ FreeWorker
  /\ job' = [job EXCEPT ![j] = "running"]
  /\ readZone' = [readZone EXCEPT ![j] = userZone]
  /\ UNCHANGED <<uploads, doc, beside, fin, tries, core, tx, zoneChanges, failures>>

(* A file job that ran while another one of its bundle ended may have      *)
(* counted that one as running, and then inserts no finalize job.  (Not    *)
(* for the first two files: both wait for the bundle row.  The narrower    *)
(* condition is in IngestQueue.)                                           *)
RunningBeside(j) == {i \in JobsOf(j[1]) \ {j} : job[i] = "running"}
BundleBegun(b) == \E i \in JobsOf(b) : job[i] \in {"succeeded", "failed"}

Finish(j, status) ==
  LET dropped == IF status = "failed" /\ j[3] = "ts" THEN {<<j[1], j[2], "hh">>} ELSE {}
      after == [i \in Jobs |-> IF i = j THEN status
                               ELSE IF i \in dropped THEN "failed" ELSE job[i]]
  IN /\ job' = after
     /\ \/ fin' = WithFinalize(after, j[1])
        \/ j \in beside /\ fin' = fin
     /\ beside' = (beside \cup IF BundleBegun(j[1]) THEN RunningBeside(j) ELSE {}) \ {j}
     /\ readZone' = [readZone EXCEPT ![j] = None]
     /\ UNCHANGED <<uploads, doc, tries, tx, zoneChanges>>

PersistSummary(j) ==
  /\ job[j] = "running" /\ j[3] = "ts"
  /\ \A p \in Sessions : j[2] \notin LockedTournaments(p)
  /\ tournament' = [tournament EXCEPT ![j[2]] = [by |-> j[1], zone |-> readZone[j]]]
  /\ Finish(j, "succeeded")
  /\ UNCHANGED <<hand, helper, features, userZone, failures>>

(* The rows of a hand after its file was stored: the upsert keeps the hand *)
(* order; the children, the stage and result rows among them, are deleted  *)
(* and inserted again from this file.                                      *)
PersistedHand(j, h) ==
  [by |-> j[1], zone |-> readZone[j], order |-> hand[h].order,
   stage |-> StageRow(info, doc[j].hands, h), results |-> ResultRows(info, h)]
PersistHands(j) ==
  LET hs == doc[j].hands
  IN /\ job[j] = "running" /\ j[3] = "hh"
     /\ tournament[j[2]].by # None
     /\ \A p \in Sessions : LockedHands(p) \cap hs = {}
     /\ hand' = [h \in Hands |-> IF h \in hs THEN PersistedHand(j, h) ELSE hand[h]]
     /\ Finish(j, "succeeded")
     /\ UNCHANGED <<tournament, helper, features, userZone, failures>>

(* A parse error, or an economics error of a summary: terminal.            *)
FileFails(j) ==
  /\ job[j] = "running"
  /\ failures < MaxFailures
  /\ failures' = failures + 1
  /\ Finish(j, "failed")
  /\ UNCHANGED core

-----------------------------------------------------------------------------
(* The finalize transaction (finalize_bundle_split).                       *)

(* enqueue_bundle and upsert_source_file_member: the pairs of an upload    *)
(* are one archive; the same pairs uploaded again are the same source file *)
(* and the same members.                                                   *)
Archive(b) == {doc[j] : j \in JobsOf(b)}
FromArchiveOf(b, row) == row.by # None /\ Archive(row.by) = Archive(b)

(* load_bundle_tournament_ids: the tournaments of the hands whose raw      *)
(* fragment is one of the bundle's members; a hand stored again from       *)
(* another archive belongs to that one.                                    *)
FirstTournamentOf(b) ==  \* only one of them
  {t \in {1} : \E h \in Stored : FromArchiveOf(b, hand[h]) /\ info[h].tournament = t}
TournamentsOf(b) ==
  {info[h].tournament : h \in {g \in Stored : FromArchiveOf(b, hand[g])}}

FinalizeBegin(b) ==
  /\ fin[b] = "queued"
  /\ FreeWorker
  /\ fin' = [fin EXCEPT ![b] = "running"]
  /\ tries' = [tries EXCEPT ![b] = @ + 1]
  /\ tx' = [tx EXCEPT ![b] =
       [Idle EXCEPT !.pc = IF TournamentsOf(b) = {} THEN "delete" ELSE "order",
                    !.todo = TournamentsOf(b), !.scope = TournamentsOf(b)]]
  /\ UNCHANGED <<uploads, job, doc, readZone, beside, core, zoneChanges, failures>>

At(p, pc) == tx[p].pc = pc
Stays == UNCHANGED <<uploads, job, doc, readZone, beside, fin, tries, core, zoneChanges, failures>>

(* compute_tournament_hand_order, tournament by tournament: an UPDATE of   *)
(* every hand of the tournament.                                           *)
OrderHands(b) ==
  /\ At(b, "order")
  /\ LET t == LeastOf(tx[b].todo)
         left == tx[b].todo \ {t}
         hs == HandsIn({t})
     IN /\ ~LockedByOther(b, hs)
        /\ tx' = [tx EXCEPT ![b] = [@ EXCEPT
             !.pc = IF left = {} THEN "helper" ELSE "order",
             !.todo = IF left = {} THEN tx[b].scope ELSE left,
             !.order = Over([h \in hs |-> HandOrder(info, hs, h)], tx[b].order)]]
  /\ Stays

(* What the transaction sees of the order and the stage of some hands.     *)
OrderSeen(p, hs) ==
  [h \in hs |-> IF h \in LockedHands(p) THEN tx[p].order[h] ELSE hand[h].order]
StageSeen(hs) == [h \in hs |-> hand[h].stage]

Abort(b) ==
  /\ tx' = [tx EXCEPT ![b] = Idle]
  /\ fin' = [fin EXCEPT ![b] = IF tries[b] < MaxAttempts THEN "queued" ELSE "failed"]
  /\ UNCHANGED <<uploads, job, doc, readZone, beside, tries, core, zoneChanges, failures>>

(* load_ft_helper_source_hands_from_db: all hands of the tournament; it    *)
(* fails on a hand without an order, one that another bundle has stored    *)
(* since the UPDATE.                                                       *)
OwnHands(b, t) == {h \in HandsIn({t}) : FromArchiveOf(b, hand[h])}  \* only the bundle's own
SourceHands(b, t) == HandsIn({t})
Unordered(b, t) == \E h \in SourceHands(b, t) : OrderSeen(b, SourceHands(b, t))[h] = 0
StoreHelper(b) ==
  /\ At(b, "helper")
  /\ LET t == LeastOf(tx[b].todo)
         left == tx[b].todo \ {t}
         hs == SourceHands(b, t)
         row == HelperRow(info, hs, StageSeen(hs), OrderSeen(b, hs))
     IN \/ Unordered(b, t) /\ Abort(b)
        \/ /\ ~Unordered(b, t)
           /\ tx' = [tx EXCEPT ![b] = [@ EXCEPT
                !.pc = IF left = {} THEN "delete" ELSE "helper",
                !.todo = left,
                !.helper = Over([x \in {t} |-> row], tx[b].helper)]]
           /\ Stays

(* materialize_player_hand_features_inner: delete, then insert what the    *)
(* facts say, for the hands in scope: those of the bundle's tournaments, or *)
(* all of the player's when the zone changes.                              *)
InScope(p) == IF p = ZoneChange THEN Stored ELSE HandsIn(tx[p].scope)
Featured(p) == {h \in InScope(p) : features[h] # NoFeatures}
DeleteFeatures(p) ==
  /\ At(p, "delete")
  /\ \A q \in Others(p) : DeletedRows(q) \cap Featured(p) = {}
  /\ tx' = [tx EXCEPT ![p] = [@ EXCEPT !.pc = "rows", !.gone = Featured(p)]]
  /\ Stays

(* An insert waits for an uncommitted row of the same key and fails on a   *)
(* committed one.                                                          *)
InsertRows(p) ==
  LET facts == InScope(p)
  IN /\ At(p, "rows")
     /\ \A q \in Others(p) : PendingRows(q) \cap facts = {}
     /\ \A h \in facts \ DeletedRows(p) : features[h].row = None
     /\ tx' = [tx EXCEPT ![p] = [@ EXCEPT
          !.pc = "streets",
          !.rows = [h \in facts |-> FeatureRow(hand[h].stage, hand[h].results)]]]
     /\ Stays
RowConflict(p) ==
  /\ At(p, "rows")
  /\ \E h \in InScope(p) \ DeletedRows(p) : features[h].row # None

StreetConflict(p) ==
  /\ At(p, "streets")
  /\ \E h \in InScope(p) \ DeletedRows(p) : features[h].street
(* The street rows, read by a statement of their own, and the commit.      *)
Materialized(p) ==
  [h \in Hands |->
    LET old == IF h \in DeletedRows(p) THEN NoFeatures ELSE features[h]
    IN [row |-> IF h \in PendingRows(p) THEN tx[p].rows[h] ELSE old.row,
        street |-> h \in InScope(p) \/ old.street]]

FinalizeCommit(b) ==
  /\ At(b, "streets")
  /\ \A h \in InScope(b) \ DeletedRows(b) : ~features[h].street
  /\ features' = Materialized(b)
  /\ hand' = [h \in Hands |->
       IF h \in LockedHands(b) THEN [hand[h] EXCEPT !.order = tx[b].order[h]] ELSE hand[h]]
  /\ helper' = Over(tx[b].helper, helper)
  /\ fin' = [fin EXCEPT ![b] = "succeeded"]
  /\ tx' = [tx EXCEPT ![b] = Idle]
  /\ UNCHANGED <<uploads, job, doc, readZone, beside, tries, tournament, userZone, zoneChanges, failures>>

FinalizeConflict(b) == (RowConflict(b) \/ StreetConflict(b)) /\ Abort(b)

-----------------------------------------------------------------------------
(* set_user_timezone and clear_user_timezone: the user's row, the          *)
(* tournaments, the hands (row by row in the order of the scan) and a full *)
(* materialization, in one transaction.                                    *)

Scans ==
  LET ts == {info[h].tournament : h \in Stored}
  IN {s \in [1..Cardinality(ts) -> ts] : \A m, n \in DOMAIN s : m # n => s[m] # s[n]}

SetZone(zone) ==
  /\ At(ZoneChange, "idle")
  /\ zoneChanges < MaxZoneChanges
  /\ zoneChanges' = zoneChanges + 1
  /\ \E scan \in Scans :
       tx' = [tx EXCEPT ![ZoneChange] =
         [Idle EXCEPT !.pc = IF scan = <<>> THEN "delete" ELSE "hands",
                      !.scan = scan, !.seen = Stored, !.zone = zone,
                      !.tournaments = {t \in Tournaments : tournament[t].by # None}]]
  /\ UNCHANGED <<uploads, job, doc, readZone, beside, fin, tries, core, failures>>

ZoneTargets == {h \in tx[ZoneChange].seen : info[h].tournament = Head(tx[ZoneChange].scan)}
UpdateZones ==
  /\ At(ZoneChange, "hands")
  /\ ~LockedByOther(ZoneChange, ZoneTargets)
  /\ tx' = [tx EXCEPT ![ZoneChange] = [@ EXCEPT
       !.pc = IF Len(tx[ZoneChange].scan) = 1 THEN "delete" ELSE "hands",
       !.scan = Tail(tx[ZoneChange].scan),
       !.order = Over([h \in ZoneTargets |-> 0], tx[ZoneChange].order)]]
  /\ Stays

Rollback ==
  /\ tx' = [tx EXCEPT ![ZoneChange] = Idle]
  /\ Stays

ZoneCommit ==
  LET zone == tx[ZoneChange].zone
  IN /\ At(ZoneChange, "streets")
     /\ \A h \in InScope(ZoneChange) \ DeletedRows(ZoneChange) : ~features[h].street
     /\ features' = Materialized(ZoneChange)
     /\ hand' = [h \in Hands |->
          IF h \in LockedHands(ZoneChange) THEN [hand[h] EXCEPT !.zone = zone] ELSE hand[h]]
     /\ tournament' = [t \in Tournaments |->
          IF t \in LockedTournaments(ZoneChange) THEN [tournament[t] EXCEPT !.zone = zone]
          ELSE tournament[t]]
     /\ userZone' = zone
     /\ tx' = [tx EXCEPT ![ZoneChange] = Idle]
     /\ UNCHANGED <<uploads, job, doc, readZone, beside, fin, tries, helper, zoneChanges, failures>>

ZoneConflict == (RowConflict(ZoneChange) \/ StreetConflict(ZoneChange)) /\ Rollback

-----------------------------------------------------------------------------
(* Deadlocks: PostgreSQL aborts one of two transactions that wait for each *)
(* other's hands.                                                          *)
WantedHands(p) ==
  CASE p # ZoneChange /\ At(p, "order") -> HandsIn({LeastOf(tx[p].todo)})
    [] p = ZoneChange /\ At(p, "hands") -> ZoneTargets
    [] OTHER -> {}
Deadlocked(p, q) ==
  /\ p # q
  /\ WantedHands(p) \cap LockedHands(q) # {}
  /\ WantedHands(q) \cap LockedHands(p) # {}
DeadlockVictim(p) ==
  /\ \E q \in Sessions : Deadlocked(p, q)
  /\ IF p = ZoneChange THEN Rollback ELSE Abort(p)

Next ==
  \/ \E b \in Bundles :
       Enqueue(b) \/ FinalizeBegin(b) \/ OrderHands(b) \/ StoreHelper(b)
       \/ FinalizeCommit(b) \/ FinalizeConflict(b)
  \/ \E j \in Jobs : FileBegin(j) \/ PersistSummary(j) \/ PersistHands(j) \/ FileFails(j)
  \/ \E p \in Sessions : DeleteFeatures(p) \/ InsertRows(p) \/ DeadlockVictim(p)
  \/ \E zone \in Zones : SetZone(zone)
  \/ UpdateZones \/ ZoneCommit \/ ZoneConflict

Spec == Init /\ [][Next]_vars

-----------------------------------------------------------------------------
(* Properties.  A hand is published when the finalize job of the bundle    *)
(* that stored it last has succeeded, a tournament when all its hands are. *)

Published(h) == fin[hand[h].by] = "succeeded"
PublishedTournaments ==
  {t \in Tournaments : HandsIn({t}) # {} /\ \A h \in HandsIn({t}) : Published(h)}
OrdersOf(t) == [h \in HandsIn({t}) |-> hand[h].order]

(* Whatever finalize jobs, imports of the same hands and zone changes did  *)
(* meanwhile, the features of a published hand are those of its rows.      *)
FeaturesFollowRows ==
  \A h \in Stored : Published(h) =>
    features[h] = [row |-> FeatureRow(hand[h].stage, hand[h].results), street |-> TRUE]

(* The hands of a published tournament are numbered in the order they were *)
(* played and its final-table helper is the one of its rows, although the  *)
(* bundles that brought them were finalized side by side.                  *)
HelperFollowsRows ==
  \A t \in PublishedTournaments :
    LET hs == HandsIn({t})
    IN /\ OrdersOf(t) = [h \in hs |-> HandOrder(info, hs, h)]
       /\ helper[t] = HelperRow(info, hs, StageSeen(hs), OrdersOf(t))

(* Files as the room writes them: each holds one stretch of play of one    *)
(* tournament, and a player who has reached the final table stays there.   *)
PlayedInStretches ==
  /\ \A f \in Files : \A g, h \in f.doc.hands :
       /\ info[g].tournament = info[h].tournament
       /\ \A k \in {i \in Hands : info[i].tournament = info[g].tournament} :
            Earlier(info, g, k) /\ Earlier(info, k, h) => k \in f.doc.hands
  /\ \A g, h \in Hands :
       info[g].tournament = info[h].tournament /\ IsFt(info, g) /\ Earlier(info, g, h)
         => IsFt(info, h)

(* A boundary that the helper calls exact is the one of all the hands of   *)
(* the tournament, although each file resolved it among its own hands and  *)
(* an older, shorter file may have been stored over a longer one.  That is *)
(* so for files played in stretches, as those of the run.                  *)
ExactBoundaryIsTrue ==
  \A t \in PublishedTournaments : helper[t].state = "exact" =>
    {h \in HandsIn({t}) : hand[h].stage.boundary} = BoundaryCandidates(info, HandsIn({t}))

(* Whichever of his files a user uploads together, each is imported, named *)
(* by one rejection or a copy of such a file; files that disagree are      *)
(* never imported.  Preparation reads no table: it is checked before       *)
(* anything is enqueued.                                                   *)
UploadsAccounted ==
  (\A j \in Jobs : job[j] = "absent") =>
    \A files \in SUBSET UNION {uploads[b] : b \in Bundles} : Accounted(files) /\ Unanimous(files)

-----------------------------------------------------------------------------
(* The inductive invariant of module TrackerStoreProofs.                   *)

JobStates == {"absent", "queued", "running", "succeeded", "failed"}
IsHand(r) == DOMAIN r = {"by", "zone", "order", "stage", "results"}
IsTx(r) == DOMAIN r = {"pc", "todo", "scope", "scan", "seen", "tournaments", "order", "helper",
                       "gone", "rows", "zone"}

(* Every table has its keys, and every row its columns.                    *)
TypeOK ==
  /\ job \in [Jobs -> JobStates] /\ fin \in [Bundles -> JobStates]
  /\ DOMAIN hand = Hands /\ \A h \in Hands : IsHand(hand[h])
  /\ \A h \in Stored : hand[h].by \in Bundles
  /\ DOMAIN features = Hands /\ DOMAIN helper = Tournaments
  /\ DOMAIN tx = Sessions /\ \A p \in Sessions : IsTx(tx[p])

(* A bundle has a finalize job once its file jobs are over.                *)
BarrierHolds ==
  \A b \in Bundles : fin[b] # "absent" =>
    JobsOf(b) # {} /\ \A j \in Jobs : j[1] = b => job[j] \notin {"queued", "running"}

(* The transaction of a finalize job goes through the tournaments of its   *)
(* scope in two rounds, and the hands its bundle stored last are in scope. *)
Ordered(b) == IF At(b, "order") THEN tx[b].scope \ tx[b].todo ELSE tx[b].scope
Helped(b) ==
  CASE At(b, "order") -> {}
    [] At(b, "helper") -> tx[b].scope \ tx[b].todo
    [] OTHER -> tx[b].scope
Progress(b) ==
  /\ fin[b] = "running" <=> ~At(b, "idle")
  /\ At(b, "idle") => tx[b] = Idle
  /\ tx[b].scope \subseteq Tournaments
  /\ At(b, "order") \/ At(b, "helper") => tx[b].todo # {} /\ tx[b].todo \subseteq tx[b].scope
  /\ DOMAIN tx[b].helper = Helped(b)
  /\ \A h \in LockedHands(b) : h \in Stored /\ info[h].tournament \in Ordered(b)
  /\ \A h \in Stored : hand[h].by = b /\ ~At(b, "idle") => info[h].tournament \in tx[b].scope

(* The feature rows a transaction has written are those of the hands as    *)
(* far as they are published, now or by the transaction itself; no other   *)
(* transaction writes them, and what it deleted it writes again.           *)
RowsHeld(p) ==
  /\ ~At(p, "streets") => PendingRows(p) = {}
  /\ ~At(p, "rows") /\ ~At(p, "streets") => DeletedRows(p) = {}
  /\ PendingRows(p) \subseteq InScope(p) /\ DeletedRows(p) \subseteq InScope(p)
  /\ At(p, "streets") =>
       /\ DeletedRows(p) \subseteq PendingRows(p)
       /\ \A h \in Stored : hand[h].by = p => h \in PendingRows(p)
  /\ \A h \in PendingRows(p) : Published(h) \/ hand[h].by = p =>
       tx[p].rows[h] = FeatureRow(hand[h].stage, hand[h].results)
RowsApart ==
  \A p, q \in Sessions : p # q => PendingRows(p) \cap PendingRows(q) = {}

(* A zone change updates hands that were there when it began.              *)
ZoneHeld ==
  LockedHands(ZoneChange) \subseteq tx[ZoneChange].seen /\ tx[ZoneChange].seen \subseteq Stored

(* A transaction that has numbered the hands of a tournament holds all of  *)
(* them, except those that came in after that: they have no number and are *)
(* not published before the transaction has ended.                         *)
LockedOf(b, t) == {h \in LockedHands(b) : info[h].tournament = t}
HoldsAll(b, t) ==
  /\ LockedOf(b, t) # {}
  /\ \A h \in LockedOf(b, t) : tx[b].order[h] = HandOrder(info, LockedOf(b, t), h)
  /\ \A h \in HandsIn({t}) \ LockedOf(b, t) :
       hand[h].order = 0 /\ ~Published(h) /\ hand[h].by # b
HelperHeld(b, t) ==
  tx[b].helper[t] = HelperRow(info, LockedOf(b, t), StageSeen(LockedOf(b, t)),
                              [h \in LockedOf(b, t) |-> tx[b].order[h]])
OrderHeld(b) ==
  /\ \A t \in tx[b].scope : HandsIn({t}) # {}
  /\ \A t \in Ordered(b) : HoldsAll(b, t)
  /\ \A t \in Helped(b) : HelperHeld(b, t)
OrderApart ==
  \A b, c \in Bundles : b # c => Ordered(b) \cap Ordered(c) = {}

StoreInv ==
  /\ TypeOK
  /\ BarrierHolds
  /\ \A b \in Bundles : Progress(b)
  /\ \A p \in Sessions : RowsHeld(p)
  /\ RowsApart
  /\ ZoneHeld
  /\ FeaturesFollowRows
  /\ \A b \in Bundles : OrderHeld(b)
  /\ OrderApart
  /\ HelperFollowsRows
=============================================================================
