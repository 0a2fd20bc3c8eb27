# Check Mate: specifications of the import, the hand and the statistics

Check Mate imports poker tournaments: a player uploads hand histories (HH) and
tournament summaries (TS), a queue of jobs parses and stores them, derived
statistics are materialized per upload, and a page follows the progress. This
directory holds TLA+ models of the parts of that program where order, failure
and arithmetic over many steps decide whether it is right, the TLC
configurations that check them, and proofs checked by TLAPS.

All paths below are relative to the root of the repository; `crates/` stands for
`backend/crates/`.

## 1. The system

### Components, what they keep, and how they talk to each other

| component | state | operations | models |
| --- | --- | --- | --- |
| Ingest queue, `crates/tracker_ingest_runtime` | tables `ingest_bundles`, `import_jobs`, `job_attempts`, `ingest_events` | `enqueue_bundle`, `claim_next_job`, `mark_job_succeeded`, `mark_job_failed`, `retry_failed_job`, `propagate_dependency_failure`, `refresh_bundle_status`, `maybe_enqueue_finalize_job`, `load_bundle_snapshot` | `BundleStatus`, `ImportJobs`, `IngestQueue`, `IngestRunner`, `BundleImport` |
| Ingest workers, `crates/parser_worker/src/local_import/runner.rs`, `crates/tracker_ingest_runner` | the claimed job, an open transaction | claim in one transaction, compute outside any, persist or fail in another; retry classification; drain loop | `IngestQueue`, `IngestRunner` |
| Progress stream, `crates/tracker_web_api/src/ws.rs` and `routes/ingest.rs`, `src/components/UploadHandsPage.jsx` | a cursor per WebSocket, the view of the page | bootstrap (snapshot, then cursor), polling, `applyBundleEvent` | `BundleStream` |
| Hand replay, `crates/tracker_parser_core` | stacks, round contributions, statuses, who acts | `annotate_action_all_in_metadata`, `evaluate_action_legality`, `ReplayState::apply_event` | `HandEvents`, `ActionLegality`, `HandReplay`, `HandTable`, `HandHistory` |
| Pots, settlement, knockouts, `pot_resolution.rs`, the end of `normalizer.rs` | pots, candidate allocations | `resolve_hand_pots`: side pots from commitments, search against the collected amounts; `normalize_hand`: final stacks, eliminations, KO shares | `PotSettlement`, `HandOutcome`, `HandBounties` |
| HH and TS parsers | none | regular expressions over lines | no |
| Street strength, starting hands | none | functions of cards | no |
| Ingest preparation, `crates/tracker_ingest_prepare` | the scanned files | scan, hash, pair TS with HH, reject | `IngestPrepare` |
| Compute and persist, `local_import/compute_rows.rs`, `persist.rs`, `batch_sql.rs` | core tables | rows of a tournament and of its hands, one transaction per file; knockout attempts and opportunities | `TrackerStore`, `HandFeatures`, `KoEvents` |
| Stages and final table, `mbr_domain.rs` | stage rows, hand order, `mbr_tournament_ft_helper` | boundary between rush and final table, hand order, helper row | `TournamentStages`, `TrackerStore` |
| Time zone recomputation, `timezone.rs` | core tables | UPDATEs and rematerialization | `TrackerStore` |
| Statistics, `crates/mbr_stats_runtime` | feature tables | materialize, query, dashboard | `HandFeatures`, `TrackerStore`, `TournamentStats`, `FtDashboard` |
| Mystery bounty decoding, `big_ko.rs`, `split_bounty.rs` | none | search for envelopes, posterior per tier | `BigKo`, `HandBounties` |
| Hand queries, `crates/tracker_query_runtime` | none | filters over rows | no |
| Web API, frontend pages, schema, scripts | sessions, spooled uploads, form state | I/O | no |

The upload route spools the files, prepares them (scan and pairing) and enqueues
a bundle. Runner threads poll the queue. A claim is committed on its own, the
file is then parsed and computed outside a transaction, and a second transaction
writes the rows, the status of the job, the status of the bundle, the events and,
when it was the last file, the finalize job. The page hears of it through the
event log only: the WebSocket handler reads a snapshot, then polls the log. A
file job calls the parser core, which replays every hand three times over the
same lines, settles its pots and names the eliminations. The rows of a file
replace those of the same hands, from whatever upload they came. The finalize
job orders the hands of its tournaments, writes their final-table helper and
materializes feature rows; the time zone setting does the last part for all
hands. The dashboard reads core rows, helper and features, not in one statement.

### What is hard here

* **Interleaving.** Workers run the same transactions on READ COMMITTED: counts
  are stale as soon as they are read, rows are locked in an order that depends
  on what was seen, and sequence numbers are drawn before they become visible.
* **Failure and retry.** A failed summary must drop its hand histories, at once
  or when its retries run out, across several levels; a retry counts attempts
  that are rows of another table.
* **Crash.** A claim survives the worker that made it.
* **Ordering.** Files run after their dependency, the finalize job after all
  files, the terminal event after all file events.
* **Shared tournaments.** Two uploads may bring hands of one tournament: their
  finalize jobs, imports and a time zone change rewrite the same rows, each from
  what its statements saw.
* **Missing text.** A history may hide cards, leave out collect lines or
  contradict itself: what is called exact must still be true.
* **Money.** Three replays with separate code must agree about stacks, refunds
  and all-ins over any sequence of lines, also those no legal hand contains; the
  legality engine must report exactly what the rules of no-limit hold'em forbid.

`PROJECT.json` lists each hazard with its line and the properties that would
catch it. The hazards without a property say why.

### What makes each component correct

* Queue: nobody runs a file before its dependency succeeded; one worker per job;
  terminal is final; at most `MaxAttempts` attempts; a bundle is materialized once,
  after its last file and from all files that came in; what is dropped is exactly
  what waits for a failure; no bundle is forgotten; the log tells the whole story.
* Workers: the same, when their statements interleave; no lock cycle; no insert
  of a finalize job that another worker already made; a drained queue is empty.
* Stream: the page never goes back; it loses nothing but what slipped past the
  cursor; when it is closed by the terminal event it is complete; it is closed.
* Hand replay: chips are neither made nor lost; the replays agree; legal hands
  pass and illegal lines are reported; the snapshot of an all-in hand is the end
  of its betting.
* Settlement: what is called exact is what the room did; a hand that shows
  everything is settled; a knockout goes to those who covered the busted player.
* Envelope decoding: what was drawn is among what is decoded.
* Preparation: every scanned file ends in one pair, one rejection or as a copy.
* Store: when the bundles of a tournament are done, order, helper and features
  are those of the stored rows, whoever wrote last.
* Statistics: the paths to one number agree; the dashboard covers every stored
  tournament under some filter it offers.

## 2. The modules

```
BundleStatus <- ImportJobs <- IngestQueue, IngestRunner   both refine BundleImport
BundleStream
HandEvents <- ActionLegality <- HandTable
           <- HandReplay     <- HandTable, HandHistory
           <- KoEvents       <- HandTable
Totals <- PotSettlement <- HandOutcome <- HandBounties
                           BigKo       <- HandBounties
IngestPrepare                              <- TrackerStore <- TournamentStats <- FtDashboard
Totals <- TournamentStages <- HandFeatures <- TrackerStore

proofs:
IngestQueue <- IngestQueueProofs        (and its part of ImportJobs)
IngestRunner <- IngestRunnerProofs      (and its part of ImportJobs)
BundleStream <- BundleStreamProofs
Totals <- TotalsProofs <- HandLineProofs (of HandHistory) <- HandTableProofs (of HandTable)
                       <- HandBountiesProofs (of HandBounties)
                       <- TrackerStoreProofs (of IngestPrepare, TrackerStore,
                                              TournamentStats and FtDashboard)
```

`Totals` has one operator, the sum of the values of a function with a finite
domain: chips over players, shares over pots, results over hands.

### The import

**`BundleStatus`** is `derive_bundle_status_from_counts` and
`compute_bundle_status`. The code counts file jobs per status and only compares
the counts with zero, so the set of statuses that occur stands for the counts.

**`ImportJobs`** has what both views of the queue share: the file and finalize
jobs as `enqueue_bundle` leaves them, the recursive query for the queued
dependents of a job, the guard of `maybe_enqueue_finalize_job`.

**`BundleImport`** is the promise, without jobs, attempts or workers: a file is
imported once or dropped once; it is imported after the file it depends on, and
dropped with it; the derived data of a bundle are refreshed at most once, after
the fate of its last file is known, from exactly the imported files.

**`IngestQueue`** is the queue with one action per committed transaction, but not
as if the transactions ran one after the other. They are READ COMMITTED: a file
transaction counts the jobs of its bundle at some moment before its commit, and
others may commit in between. `late[w]` holds the files whose end the transaction
of worker `w` missed in this way; it counts them as running (`Counted`), in the
status of the bundle as well as in the guard of the finalize job. So the finalize
job of a bundle may be lost here too, as finding 1 of section 4 says. Each
transaction has one view in this module, taken when the first other one commits
that it misses (`MissedBySome`), and a view cannot be older than the row of the
bundle: as long as that row is not yet `running` both transactions rewrite it, and
the second one waits. `IngestRunner` has the single statements.

| code | model |
| --- | --- |
| row of `ingest_bundles` | `queueOrder`, `bundleRow` |
| rows of `import_jobs` | `jobStatus`, `errorCode`; `"absent"` before the insert |
| rows of `job_attempts` | `attempts`, a sequence per job |
| rows of `ingest_events` | `events`, a sequence per bundle: kind, job, payload status |
| rows of a file in the core tables | `persisted` |
| feature tables of a bundle | `materialized` |
| `ClaimedJob` of a thread | `held`, `heldAttempt` |
| what the open transaction of a thread has counted | `late`; `overlapped` remembers the bundles whose last transaction missed one |
| `enqueue_bundle` | `EnqueueBundle` |
| `claim_next_job` and its commit | `Claim`, with `NextJob` for ORDER BY and LIMIT 1 |
| persist transaction of a file | `FileSucceeds` |
| `handle_split_job_failure` of a file | `FileFails`, with `MarkedFailed`, `Retried`, `QueuedDependents` |
| finalize transaction, and its failure | `FinalizeSucceeds`, `FinalizeFails` |
| the thread ends after the claim | `Crash` |
| `load_bundle_snapshot` | `LoadSnapshot` |

The recursive query of `propagate_dependency_failure` has no ORDER BY, so the
events of the dropped files come in any order (`Returned`). The unique index on
finalize jobs allows one per bundle, so it carries the name
of its bundle.

**`IngestRunner`** takes the same transactions apart. `script[p]` is the list of
SQL statements a session has still to execute; `txJobs` and `txRow` are what its
open transaction wrote. A statement reads what is committed plus what its own
transaction wrote; an UPDATE of a row another transaction wrote waits; an INSERT
that meets an uncommitted entry of the unique index waits; SKIP LOCKED passes
over locked rows; a crash rolls back. The worker loop is here too: a worker
leaves when nothing is claimable (`Stop`) and `drain_once` starts over (`Drain`).
Bundles are enqueued at the start and the event log is left out, which no
statement of these transactions reads.

**`BundleStream`** is the event log from the insert to the page. `Emit` draws a
`sequence_no`, `Commit` makes the rows visible; the handler reads files
(`ReadFiles`), then the cursor (`ReadCursor`), then polls (`Poll`) and sends
(`Send`). The log is a function of the numbers, so that a commit can put rows
below those already read; a batch is the set of numbers still to be sent, which
go out in their order. The page keeps, per file, the number of the last event
it saw.
`raced` is a history variable: a commit that the handler can no longer deliver,
because it fell between the two reads of the bootstrap or below its cursor.

### The hand

**`HandEvents`** has the seats, the positions (`compute_position_facts`), the
lines of a history and the money of one line. Cards, names and texts are gone:
a line is a street, a seat, a type, an amount and the all-in mark. Lines of the
board only change the street of the lines after them.

**`ActionLegality`** is `evaluate_action_legality`: `EngineAfter` is
`apply_event`, whose stages (`AdvanceStreet`, `WithActors`, `SurfaceIssues`,
`OrderIssues`, `BetIssues`, `EngineMoney`, `EngineStatus`, `AdvanceRound`) are
operators of the order the code calls them in. An issue is its kind.

**`HandReplay`** is the all-in annotation of the parser and `ReplayState` of the
normalizer up to the snapshot.

**`HandTable`** composes the replays with a dealer who plays every hand the rules
of no-limit hold'em allow. The dealer is written from the rules: he keeps who has
spoken since the last full raise, the smallest full raise and a place that moves
clockwise, and none of the lists of the engine. It is the reference the engine is
compared with. A seat that is asked for an ante or a blind it has no chips for is
passed over without a line; the button always plays, as `compute_position_facts`
refuses a hand without it (`StartsAssumption`).

| rules | model |
| --- | --- |
| antes from the button on, small blind, big blind | `PostAnte`, `PostSmallBlind`, `PostBigBlind` |
| who has to speak | `Awaited`, `ToSpeak` |
| fold, check, call, bet or raise | `Act`, with `Allowed` for what the rules permit |
| the return of what nobody matched | `ReturnUncalled` |
| next street, or the showdown | `NextStreet`, `Showdown` |

**`HandHistory`** composes the replays with an arbitrary list of lines, as the
parser would accept it: streets in any order, twice or backwards, refunds nobody
is owed, debits larger than the stack. Its variables (`dealt`, `read`, `marking`,
`legality`, `ledger`) have names of their own, so that the proofs about `HandTable`
can use its lemmas.

**`KoEvents`** is `compute_rows.rs` on the hero's knockout attempts and
opportunities. The code looks up line numbers in the finished hand (the hero's
push, the target's fold, all-in and forced all-in, the hero's answer); `ko` keeps
line by line what those look-ups compare, and `HandTable` carries it along.

### The settlement and the bounties

**`PotSettlement`** is `resolve_hand_pots`: pots per level of commitment, who is
eligible, the observed payouts from collect lines or else the summary, every way
each pot may have been paid (odd chips included), and the combinations that give
the observed totals. One is `exact`, several are uncertain, none is inconsistent.
**`HandOutcome`** is what `normalize_hand` makes of it: final stacks,
the invariants, and the eliminations with the pot that took the last chips.
**`BigKo`** is the decoding of envelopes from the sum of the bounties: candidate
cents of a share, the search with its limit, the posterior per tier.

**`HandBounties`** composes them with the poker room, which is external: it deals
strengths, pays the pots by the rules, writes a history that may leave out or
contradict amounts (`WriteHistory`), and draws envelopes (`DrawBounties`). The
tracker only sees the history and the sum (`NormalizeHand`, `DecodeBounties`).

### The stored tournaments

**`IngestPrepare`** is the preparation of an upload: classification by header,
copies and conflicts by content hash, pairs and rejections.
**`TournamentStages`** is `mbr_domain.rs`: boundary candidates, stage row, hand
order, helper row. **`HandFeatures`** is the feature row of a hand.

**`TrackerStore`** is the core and analytics tables while uploads are imported.

| code | model |
| --- | --- |
| `core.hands` and its children (stage, knockouts, attempts) | `hand` |
| `core.tournaments` | `tournament` |
| `derived.mbr_tournament_ft_helper` | `helper` |
| `analytics.player_hand_*`, `player_street_*` | `features` |
| `auth.users.timezone_name` | `userZone` |
| file jobs and the documents they import | `job`, `doc`, `readZone` |
| finalize jobs and their attempts | `fin`, `tries` |
| open transactions of finalize and zone change | `tx`, a record per session: next statement, rows written, rows deleted, hands and tournaments it has locked, what it read |
| persist transaction of a file | `FileBegin`, then `PersistSummary`, `PersistHands` or `FileFails` |
| `finalize_bundle_split` | `FinalizeBegin`, `OrderHands`, `StoreHelper`, `DeleteFeatures`, `InsertRows`, `FinalizeCommit` |
| `set_user_timezone`, `clear_user_timezone` | `SetZone`, `UpdateZones`, `DeleteFeatures`, `InsertRows`, `ZoneCommit` |
| unique-key conflict, deadlock | `FinalizeConflict`, `ZoneConflict`, `DeadlockVictim` |

A statement sees what is committed when it runs, and a row written by an open
transaction makes others wait. A bundle's queue is reduced to what `BundleImport`
promises, and to what it does not promise: a file job that ran while another one of
its bundle ended may insert no finalize job (`beside`), so that all derived tables
are also checked with bundles that are never finalized. An UPDATE that waits is
modelled as starting when it gets its rows.

**`TournamentStats`** is the canonical statistics of `queries.rs`, one operator
per kind of fact of a tournament and one per group of totals, as ratios instead
of floating point. **`FtDashboard`** is the scope of the filters, the cards, the
charts and the states of `ft_dashboard.rs`. Both read the state of
`TrackerStore` and add no variable.

## 3. The runs

| run | module, config | what it shows |
| --- | --- | --- |
| `queue` | `MCIngestQueue`, `IngestQueue.cfg` | invariants of the queue, nothing forgotten when it is quiet, and its refinement of `BundleImport` |
| `runner` | `MCIngestRunner`, `IngestRunner.cfg` | exclusive claims, no lock cycle, no doubled finalize insert, complete drains, and the same refinement statement by statement |
| `stream` | `BundleStream`, `BundleStream.cfg` | what the page may and may not miss |
| `hand_table` | `MCHandTable`, `HandTable.cfg` | legal hands pass, the engine reports exactly the forbidden lines, the snapshot is the end of the betting, knockout rows are confrontations |
| `hand_history` | `MCHandHistory`, `HandHistory.cfg` | money and verdict on arbitrary histories |
| `settlement` | `MCHandBounties`, `HandBounties.cfg` | what is called exact is true, whatever the history hides |
| `store` | `MCTrackerStore`, `TrackerStore.cfg` | derived tables, statistics and dashboard under concurrent imports |

### What the properties say

Queue: `PairOrder` (a job ever tried has a dependency that succeeded and still
does), `ExclusiveClaim`, `FinalizeBarrier` (the finalize job exists only after
all files ended and one succeeded), `AttemptLedger` (the attempt rows agree with
the status; the retry bound),
`DependentsFollow` (dropped files are exactly those behind a failure, and were
never tried), `HonestTerminal` (a bundle reported as over has nothing
outstanding, and its finalize has run if a file came in, unless two transactions
that overlapped lost it), `LogReplaysFiles` (replaying the log gives every file its status),
`TerminalIsFinal`, `KeepsPromise` (refinement: a file whose rows are in the core
tables is an imported one, and a finished finalize covered all of these),
`NothingForgotten` (when no worker has a job and none finds one to claim, every
enqueued bundle is settled; the exceptions are named: a bundle of which a job is
held by nobody because its worker died (`Orphaned`), and a bundle whose finalize
was lost to an overlap (`FinalizeLost`). It stands in for a liveness property: attempts
are bounded, so every behaviour of the queue comes to a quiet state if somebody
serves it, and where it may come to rest is the question).
`OutcomeInv` is the inductive invariant of the proofs, checked so that the proofs
and the run speak of one formula; `ExclusiveClaim` is a conjunct of it and
listed only where statements interleave, in `runner`.

Runner: `ExclusiveClaim` (nobody else executes or is claiming the job one
holds), `NoLockCycle` (nobody waits for a session that waits itself, so no ring
of any length closes), `OneFinalizeInsert`, `DrainCompletes`, and again
`KeepsPromise`, because each is decided by statements that read stale rows;
`RunnerInv` is the inductive invariant of the proofs.

Stream: `PageNeverRegresses` (no message takes the page back, not even when
commits slipped past the cursor), `CaughtUpPageIsCurrent`,
`ClosedPageIsComplete`, `EndReachesPage`.

Hand: `LegalHandPasses`, `EngineDecides`, `ReplaysAgree`, `SnapshotIsTerminal`,
`RunoutHasSnapshot`, `KnockoutsAreConfrontations` (at the showdown the attempts are
all-in players the hero covers and faces, each of whom is an opportunity) on legal
hands; `MoneyKept`, `SameMoney`, `SameVerdict` on
arbitrary ones.

Settlement: `ExactIsTruth` (an exact settlement is the room's, pot by pot),
`KnownHandSettles` (a hand that shows every card and amount is settled, but for the
origin of an odd chip), `KnockoutIsFair` (an exact knockout is credited to the
winners of the last pot the busted player had chips in; their shares make one),
`BustsAreReal` (amounts suffice to know who was eliminated), `TruthIsDecoded` (the
envelopes that were drawn are among the decoded ones, provided that the millionths
a share is stored in still tell its cents, `SharesKeepTheirCents`; see section 4).

Store: `FeaturesFollowRows`, `HelperFollowsRows`, `ExactBoundaryIsTrue` for hands
and tournaments whose bundles are finalized; `UploadsAccounted` over every subset
of the files (`ExactBoundaryIsTrue` relies on a history file being one stretch of play,
`PlayedInStretches`, which `MCTrackerStore` assumes and TLC finds true of the
files of the run, and which files of the site are: the code looks at the hands of
one file at a time, and could be misled by a file with a gap); `StatisticsAgree` (knockouts and attempts counted from features and
from core rows are the same, and so is the final table from helper, stage rows
and entries); `DashboardIsWhole` (once everything is published, the bundles the
filter offers cover every stored tournament; for each of the four steps the charts
offer, 1000 included, every final table is in one bar and the median in a bar that
is not empty, but for the stacks from 3800 to 3999 with steps of 1000, which
`Uncharted` names; it relies on `RoomData`, which `MCTrackerStore` assumes likewise).

Each property of a passing run has a mutant in `PROJECT.json`: a named faulty
variant of one definition, kept beside it and marked "Fault", under which TLC
finds the property violated.

### Bounds, and why they are enough

* `queue`: two bundles, so that claims pass from one to the next; four files,
  three of them a summary with two hand histories, so that two files of a bundle
  run at once and a failure drops more than one; two workers; two attempts, so
  that a failure may be retried or be the last; one crash (`MaxCrashes`). Two
  workers are enough for a transaction to miss another one. The bundle whose job a
  dead worker held never settles: nothing takes a job back from `running`, and
  nothing in the repository promises it. One thing a third worker could add is not
  covered: a transaction whose view is so old that it sees a file as queued that has
  been claimed since, and writes the row of the bundle from that.
* `runner`: one bundle with a pair and an independent file; two workers suffice
  for a ring of two waits and for the race of two last files; `MaxReads` allows
  one snapshot. The workers are interchangeable and taken as symmetric.
* `stream`: two files and two workers (two transactions that commit in the other
  order than they drew their numbers), one attempt; a page that connects at any
  moment.
* `hand_table`: five seats, one of which sits out, so that position, heads-up
  (two empty seats) and multiway hands all occur; stacks 0, 1, 2, 4, 7 with
  blinds 1 and 2 and an ante of 1: the ante or a blind exhausts a stack, raises
  can be full, short and all-in, twice in a round; preflop and flop
  (`LastStreet`): turn and river have the order and the reset of the flop.
  `MaxLevel` bounds the amounts that are tried out by `EngineDecides` at the
  largest stack. The big blind is covered: what a short one makes the others pay
  is not stated in the repository.
* The hero of `hand_table` is seat 4, left of the button: as every other seat may
  be empty and all stacks occur, he covers and is covered, posts a blind or is all-in
  by the ante, and folds before and after the all-ins of others.
* `settlement`: five players in three shapes of commitments: one pot, three nested
  pots, two pots that do not divide by their winners; two or three strengths, so
  that pots are split; folded players and players who are not dealt in; seven
  kinds of report; three envelopes, two big and one small;
  `MaxRecorded = 4` instead of 64, so that the limit is reached. The shares of these
  pots keep their cents; that of the largest envelope of the seeds is beyond the
  integers of TLC (32 bits), and the subject of two theorems instead.
* `store`: two uploads and two tournaments in three combinations (a longer and a
  shorter history of one tournament; two halves, a copy and a conflict; the same
  pair twice), five hands, two workers, one zone change, one failing file, two
  attempts of a finalize; one final table has 3800 chips, which steps of 1000 do not
  chart. Two transactions that write the same rows and one file
  that replaces them meanwhile are the smallest conflict; a third bundle would
  repeat one of the three roles.
* `hand_history`: two players, three lines (`LineBound`), every order of three
  streets. Three lines are needed for a bet, a street and a refund. The theorems
  below remove the bound.

`CHECK_DEADLOCK FALSE` is said where the system stops: a history has an end, a
hand is over, a stream is closed. The queue and the runner are checked for
deadlock: their workers and readers can always take a step.

### Fairness

* `stream`: weak fairness of each worker's next transaction step and of the
  handler, which polls in a loop until it has sent a terminal event or the socket
  breaks (`Disconnect`, which is not fair: it may never happen).
* No other run assumes fairness. What the queue owes its bundles is stated as safety
  (`NothingForgotten`), so nothing is assumed of a runner that died.

## 4. Disagreements between code and texts

Each has a run of its own in which TLC finds the quoted statement violated.

1. `lost_finalize`: two workers that end the last two files of a bundle each
   count the other's job as running (READ COMMITTED), so neither inserts the
   finalize job, and no later transaction of that bundle looks again.
   `docs/ingest_v2_rearchitecture_plan.md:539` says a bundle makes one scoped
   finalize after all file jobs are done. `IngestQueue` and `TrackerStore` have this
   behaviour too: their properties name the bundles it leaves behind (`FinalizeLost`)
   or hold in spite of it.
2. `finalize_failure`: a bundle whose finalize failed for good is reported as
   `succeeded` or `partial_success`; `compute_bundle_status` and its test
   (`crates/tracker_ingest_runtime/tests/state_machine.rs:36`) say `failed`.
3. `terminal_event`: a finalize failure that will be retried emits
   `bundle_terminal` with status `finalizing`, and stream and page close on it;
   `src/components/UploadHandsPage.jsx:52` says the event fixes the final status.
4. `find_big_ko_not_counted`: a hero who surely drew a big envelope and, in the
   same tournament, a small one is counted no big knockout at all, because an
   allocation with an envelope outside the six big tiers gets no weight
   (`big_ko.rs:109`). `docs/stat_catalog/mbr_stats_spec_v1.yml:41` promises
   posterior-weighted tier counts.
5. `return_snapshot`: heads-up, the button is all-in by the ante for less than the
   big blind. The return of the rest of the blind clears the big blind, who was
   awaited, and the same line takes the all-in snapshot (`normalizer.rs:485`);
   `backend/docs/exact_core_contract.md:209` says that a return must not take one
   after the event. `SnapshotIsTerminal` is what holds of the code as it is: the
   snapshot, whichever line took it, is the end of the betting.

One more is proved, since its numbers are beyond the integers of TLC. The share of
a knockout is stored in millionths (`migrations/0001_init_source_of_truth.sql:310`):
a third of the largest envelope of the seeds, 3,000,000 cents, is 1,000,000 cents
to the hero, and the only candidate of 0.333333 is 999,999, so that what was drawn
is called infeasible (`split_bounty.rs:33`, theorem `ShareLosesItsCent`).
`docs/architecture/ko_split_bounty_rounding_policy.md:6` wants to keep valid split
cases out of fake `Infeasible` states. `TruthIsDecoded` therefore has a
precondition, and `ShareKeepsItsCent` says how far the code carries: no share loses
its cent as long as the cents of the envelope times the denominator of the share
stay below two millions.

Two more, seen while modelling, have no run. Stack bars in steps of 1000 leave the
stacks from 3800 to 3999 in no bar (`ft_dashboard.rs:1171`); no text says that the
bars cover every stack. And
`early_ft_bust_count` is the larger of a count by finish place and one by hands
(`queries.rs:1397`), where the catalogue speaks of finish places 6 to 9
(`docs/stat_catalog/mbr_stats_spec_v1.yml:59`).

## 5. What is proved

TLC checks the instances above. The proof modules prove the following for every
value of the constants that satisfies the named assumptions; every leaf is checked
by TLAPS. No proof module adds an assumption of its own. Each inductive invariant
was checked by TLC on the run of its module as well (`AsDealt` with one envelope);
`OutcomeInv` and `RunnerInv` still are. For `HandTable` TLC also had hands with a
short big blind, or with one player only, which the theorems cover and the run of
section 3 leaves out. Every invariant of a passing run is stated by a theorem,
except `TruthIsDecoded`, and so is every property that is not liveness.

### Sums and induction

Sums are folds, and folds are recursive. `TotalsProofs` shows once what the rest
needs of `Total`: it takes one value after the other (`TotalOverStep`), adds
and compares value by value (`TotalOfSums`, `TotalNat`), may be taken in either order
over two sets (`TotalsExchange`), and does not mind other names of its terms
(`TotalReindexed`). That the recursion defines a function at all (`RecUnique`,
`RecExists`) and the inductions of the later sections (`FiniteInduction`,
`NaturalInduction`) rest on one argument: of the finite subsets of a set that
violate a claim one is smallest, because the subset relation is well-founded on
finite sets. The induction is over a *set* of those for which the claim holds;
the library states its induction theorems with an operator as parameter, which the
installed provers cannot instantiate.

### The queue

Assumptions (module `ImportJobs`): every file has a bundle
(`BundleOfAssumption`); a dependency is a file or none (`DependsOnAssumption`),
of the same bundle and earlier (`EarlierMemberAssumption`, as `enqueue_bundle`
resolves it); files, bundles and "no job" have different names
(`NamesAssumption`). Module `IngestQueue`: there are finitely many files and
bundles (`FiniteAssumption`); the bounds are numbers (`BoundsAssumption`). The
number of files, bundles and workers, the dependency structure, the retry limit
and the number of crashes are arbitrary.

| theorem | statement |
| --- | --- |
| `Invariance` | `Spec => []IInv` |
| `TypeCorrect` | `Spec => []TypeOK` |
| `ClaimsAreExclusive` | `Spec => []ExclusiveClaim` |
| `PairsRunInOrder` | `Spec => []PairOrder` |
| `FinalizeWaits` | `Spec => []FinalizeBarrier` |
| `TerminalStays` | `Spec => TerminalIsFinal` |
| `OutcomeInvariance` | `Spec => []OutcomeInv` |
| `LedgerIsTrue` | `Spec => []AttemptLedger` |
| `DependentsAreDropped` | `Spec => []DependentsFollow` |
| `TerminalIsHonest` | `Spec => []HonestTerminal` |
| `QuietQueueIsSettled` | `Spec => []NothingForgotten` |
| `EventsTellEverything` | `Spec => []LogReplaysFiles` |
| `QueueKeepsPromise` | `Spec => KeepsPromise` (safety of the refinement) |

The safety properties are not inductive one by one. That a success is never
taken back (`PairOrder`) needs that the worker who ends a job holds a running
job, which is `ExclusiveClaim`; that no file job appears below a finalize job
(`FinalizeBarrier`) needs that a bundle without rows was never enqueued, which
is `RowsFollowBundle`. `IInv` is their conjunction with the types.

Four of the transactions end a job. What they have in common is the predicate
`Ends(j)`: of the job table only `j` itself changes, queued files are dropped,
and a finalize job appears if its barrier is met. `EndPreserves` proves once
that such a step keeps the invariant; `FileSucceedsInv`, `FileFailsInv`,
`FinalizeSucceedsInv` and `FinalizeFailsInv` only show that their transaction is
one (`PropagateEffect`, `FailureEffect` and `WithFinalizeEffect` say what the
helpers do to the job table). Enqueueing, claiming, crashing and reading have a
lemma each.

`OutcomeInv` adds what becomes of files: no job rests in `failed_retriable`, an
absent job was never tried, a failure has its reason, the rows in the core
tables are those of the succeeded files, and a finalize that is due exists unless
it was lost: a transaction that missed nothing counts the true table, and a bundle
whose last file transaction missed something is in `overlapped`. That
a file is dropped exactly with what it waits for is an argument about the least
set of `QueuedDependents`: it is closed under "waits for", and whatever is in it
waits for a member of it. The status a reader is given (`load_bundle_snapshot`) is
computed from the committed table, and a terminal one leaves nothing that could
still change. In a quiet queue no file is queued whose bundle has no orphan: the
earliest one waits for a file that ended without success, and would have been dropped
with it (`QueuedBehindRunning`), so every file ended, and what may be missing is
a finalize that was lost (`QuietQueueIsSettled`). `LogInv` is the event log:
a transaction appends an event for every file whose status it changes and for
no other, in whatever order the dropped ones come, so the last event of a file
says its status. The refinement follows from `OutcomeInv` step by step: only
`FileSucceeds`, `FileFails` and the two finalize transactions change
what `BundleImport` sees; dropping is one step of it for the failed
file and all that waits for it.

### The interleaved workers

Assumptions: those of `ImportJobs`; there is a worker and readers are not workers
(`SessionsAssumption`); the bounds are numbers (`BoundsAssumption`).

| theorem | statement |
| --- | --- |
| `RunnerInvariance` | `Spec => []RunnerInv` |
| `RunnerClaimsAreExclusive` | `Spec => []ExclusiveClaim` |
| `InsertsNeverCollide` | `Spec => []OneFinalizeInsert` |
| `LocksNeverCycle` | `Spec => []NoLockCycle` |
| `DrainedQueueIsComplete` | `Spec => []DrainCompletes` |
| `RunnerKeepsPromise` | `Spec => KeepsPromise` |

A statement changes the private state of one session (what it wrote and has not
committed, what it saw, what is left of its script); only a commit changes what
the others see. So `RunnerInv` says of each worker which statements it still has
to execute and what its open transaction holds, and of each two that their
uncommitted jobs are disjoint (`LocksExclude`). A count that another session
makes stale can only be wrong in one direction: a file seen as over is over, one
seen as running may have ended. That is why a finalize job that is due is due
also for everybody else, why no two transactions insert it
(the one that sees no active file is the last), and why nobody counts a success
twice. A transaction writes the row of its own bundle only and waits only there;
the one that holds it, and an inserter, wait for nobody: that is
`NoLockCycle`. For drains the earliest waiting file of a bundle is
looked at (it exists because file orders are numbers): what it waits for is
running, over or claimable, so a worker that found nothing claimable leaves some
other worker at work. That a finalize may be missing after a drain is finding 1;
the theorem speaks of the jobs that exist.

### The progress stream

Assumption: the finalize job and "no job" are not files
(`StreamNamesAssumption`). Files, workers and attempts are arbitrary; of the
fairness in `Spec` nothing is used.

| theorem | statement |
| --- | --- |
| `StreamInvariance` | `Spec => []StreamInv` |
| `PageMovesOn` | `Spec => PageNeverRegresses` |
| `CaughtUpIsCurrent` | `Spec => []CaughtUpPageIsCurrent` |
| `ClosedIsComplete` | `Spec => []ClosedPageIsComplete` |

Numbers are drawn in one order and committed in another, but one worker at a
time writes a file, so the events of one file are numbered in the order of its
versions (`Counted`, and `CountsOn` for those not yet committed), and the
finalize job begins after the last file, so `bundle_terminal` is above all file
events (`TerminalLast`). What the page shows of a file is at least what every
event up to the cursor said (`ShownAbove`, unless a commit slipped past) and at
most what those above it will say (`ShownBelow`, always): hence it never goes
back, and shows everything when nothing is above the cursor. A batch being sent
has no gap unless a commit slipped into it (`BatchIsWhole`).

### The hand

Assumptions (modules `HandEvents` and `HandHistory`): at least two seats, the
button on one of them, blinds and ante are natural numbers (`TableAssumption`);
stacks are natural numbers and the lines are lines (`HistoryAssumption`). The
table, the stacks, the set of lines and the length of the history are arbitrary.

| theorem | statement |
| --- | --- |
| `MoneyIsKept` | `HistorySpec => []MoneyKept` |
| `ReplaysNeverDrift` | `HistorySpec => []SameMoney` |
| `OneVerdict` | `HistorySpec => []SameVerdict` |

The invariant is the conjunction of the three properties with the shapes of the
two states. They have to be proved together: the engine checks a debit and a
refund against its own books, so that both accept the same ones because the
books agree, and the books go on to agree because both accepted. The proof
follows the code: `HandLineProofs` has one lemma per stage of `apply_event` on each
side (street, money, status, and the stages that move no money), which `EngineLine`
and `ReplayLine` put together, and `AnnotationLine` for the all-in marks; `Steps`
compares them.

### The hand the rules allow

Assumptions (modules `HandEvents`, `HandTable`, `KoEvents`): the table as above; the
button plays every hand, with chips (`StartsAssumption`); betting ends on a betting
street and `MaxLevel` is a number (`StreetAssumption`); the hero has a seat (`HeroAssumption`). The number of
seats and of players, the stacks, the ante and the blinds (zero, one larger than
the other or larger than the stacks) are arbitrary.

| theorem | statement |
| --- | --- |
| `TableIsKept` | `Spec => []TableInv` |
| `LegalHandsPass` | `Spec => []LegalHandPasses` |
| `EngineAlwaysDecides` | `Spec => []EngineDecides` |
| `LegalMoneyPasses` | `Spec => [](~replay.invalid /\ ~Reported(engine))` |
| `ReplaysAlwaysAgree` | `Spec => []ReplaysAgree` |
| `SnapshotsAreTerminal` | `Spec => []SnapshotIsTerminal` |
| `RunoutsHaveSnapshots` | `Spec => []RunoutHasSnapshot` |
| `KnockoutsFaced` | `Hero \notin SittingOut` implies `Spec => []KnockoutsAreConfrontations` |
| `LegalAmountsPass` | `Spec => [](engine.issues \subseteq OrderKinds)` |
| `AmountsAreDecided` | `Spec => []TurnDecided` |

The first two properties are what the engine is for: no line of a hand played by
the rules is reported, and of all lines the players could have next, whoever acts
and with whatever amount, exactly those the rules forbid. `LegalMoneyPasses`
is the part of `LegalHandPasses` that marks a hand as unusable:
`Reported` means an issue of `issue_triggers_fail_safe`. A hero who sits out is
in no hand, but the code would still look his knockouts up; the last theorem
therefore speaks of a hero who is dealt in.

`TableInv` has four parts, each needed by the next.

* `DealerInv` is about the dealer alone. Besides shapes it says that chips tell who
  still bets (`Solvent`), and that whoever still bets, or did on this street, put in
  at least as much on the earlier streets as anybody (`Leveled`). That is what a
  refund must not disturb, and what makes two all-in players comparable by what
  they put in on this street.
* `BooksInv`: the three replays hold the dealer's stacks and statuses. Their round
  is the dealer's round, but a replay notices a street only with the first line on
  it, so their street may lie behind and their round is then the one they are going
  to begin (`InStep`, `RoundOf`). As the dealer moves only chips a seat has, and
  returns exactly the overage, no replay refuses a line (`BooksRead`).
* `AwaitInv`: `pending_live_actors` are the players the dealer awaits. There is one
  exception, the moment after a refund: the code then awaits nobody, though
  the seat has chips again and may not have spoken. By then at most one player has
  chips and owes nothing, and the snapshot is taken or there is nobody to take it
  against.
* `SnapshotInv`: the snapshot is taken by the line that leaves nobody awaited
  (`SnapshotFollows`). Afterwards only a refund moves chips, and it goes to the
  seat that put in the most (`RefundSettles`).

Each of the dealer's actions is first said in terms of what it changes of the
table (`PostChange`, `ActChange`, `Refunded`, `Opened`, `Closed`); `ChipsMove` proves
once that chips that move fairly leave the table in order, `BooksRead` that every
replay follows.

`KoInv`, the invariant of the knockouts, is proved on top of it. As long as the
hero is in the hand, the targets that went all-in by the lines the code looks at, or
whose posts add up to their stack, are those the dealer has all-in (`TargetsSeen`).
A refund would break that: it makes an all-in player live again. It never goes
to a target while the hero is in, because a hero who covers the target matched it or
is himself all-in for at least as much (`TargetMatched`); this is where `Leveled`
is needed.

`PriceInv`, the invariant of the prices, is also proved on top of `TableInv`: on the
street of the dealer the engine has the dealer's price, size of the last full raise
and right to raise, or is going to have them with the first line on it (`PriceOn`,
`FullOn`, `OpenOn`). It ends with the betting of the street, because a refund takes
the dealer's price back and not the engine's. `LegalAmountsPass` follows: of
the kinds of issues the engine knows, a legal hand can at most be given the four
of `OrderKinds`, which are about seats and not amounts. `AmountsAreDecided` is the
converse as well: `TurnDecided` says of the seat whose turn it is, every type of
action and every natural number, that the engine finds a fault in the amount or
in the right to raise exactly when the rules forbid it.

`TurnInv`, the invariant of the turn, has what the amounts leave open: whom the
engine lets act. While a street is bet on and the engine has seen a line of it,
its row of eligible actors holds exactly the seats the dealer awaits, and goes
clockwise from the dealer's place; before that line nobody has spoken, and the
place is the one the order of the street starts from (`OpeningPlace`). The engine
removes who acted and, after a raise, rotates the list; the dealer picks the
nearest awaited seat. `Only(order, seats)` is the common form of the lists: those
of an order who are in a set (`OnlyKeeps`, by induction over prefixes). A row that
goes clockwise goes on to do so when its first seat leaves, when it is turned or
when seats are taken out (`RowOnward`, `RowTurned`), and its first seat is the
dealer's nearest. With `TurnInv` the engine reports a wrong turn exactly for seats
that are not next, and a street is complete when nobody is awaited:
`LegalHandsPass` follows from it and `LegalAmountsPass`, `EngineAlwaysDecides`
from it and `AmountsAreDecided`, for every `MaxLevel`.

One thing to know of these theorems: when the big blind is short, the dealer of the
model asks for what was posted, as the code does; a card room asks for the whole
blind. For such hands they say that the code keeps to its own reading of the rules;
for all others the two readings are the same. `PROJECT.json` lists this as a hazard
without property.

### The settlement

Assumptions (module `HandBounties`): the players are finitely many, envelopes and
their weights are positive (`BountyAssumption`); nobody commits more than he has,
somebody commits, and what one committed somebody who is still in the hand matched
(`DealAssumption`); a report has one of the known forms (`ReportAssumption`). Players,
stacks, cards, folds and commitments, with all the side pots they make, are arbitrary.

| theorem | statement |
| --- | --- |
| `AsDealtHolds` | `Spec => []AsDealt` |
| `ExactIsTruthHolds` | `Spec => []ExactIsTruth` |
| `KnownHandSettlesHolds` | `Spec => []KnownHandSettles` |
| `KnockoutIsFairHolds` | `Spec => []KnockoutIsFair` |
| `BustsAreRealHolds` | `Spec => []BustsAreReal` |
| `ShareKeepsItsCent` | the cents of a share are candidates, if `KeepsItsCent(cents, share, of)` |
| `ShareLosesItsCent` | of a third of 3000000 cents the only candidate is 999999 |

`AsDealt` is the induction, and simple: the table is a legal deal that the room paid,
the hand is a history of it, the outcome is computed from the hand. The work
is about what `resolve_hand_pots` computes from any history of any legal deal.

* `PotsAreRoomPots`: the code builds pots level by level from the commitments, the
  room from single chips; they are the same pots with the same players. The
  levels are numbered by induction (`SmallestIs`, `LevelsAre`).
* `TruthIsOption`: what the room paid from a pot, wherever its odd chips went, is
  among the allocations the code tries for it. `TruthIsExact`: the true
  allocation of all pots gives the amounts the history reports, because a
  player's sum over pots of his shares is what he got (`ReceivedByPot`, by
  exchanging sums). So the truth is always among the combinations the search finds,
  and if the search finds one, that one is the truth (`SettleIs`,
  `ExactSettlement`). A hand that shows everything leaves one set of winners per pot,
  so that only odd chips can make a second combination (`KnownSettlement`).
* `FairElimination`: the last pot a busted player has chips in is a real one
  (`StackIsSpent`, `LastPotIs`), its winners covered him, and their shares make one.
* `ShareKeepsItsCent`: a share with denominator n differs from its millionths by at
  most half a millionth, and cents times that, times n, by less than one
  (`RoundedShare`). The value of the share is a multiple of 1/n, so rounding cannot
  carry it over a cent (`QuotientIs`), except down from a whole number of cents,
  where the candidates of the code include the next one.
* `ChipsBalance`, `PotBalance`: what the players committed is what the pots hold
  (`CommittedByPot`, exchanging sums again) and what they got back. Hence the code's
  two checks hold of every history with amounts, and its final stacks are zero
  for exactly the players the room sent away (`StacksAre`, `RealBusts`).

### The preparation of an upload

Assumptions (module `TrackerStore`): the files are finitely many and their paths
are ordered, which numbers stand for (`FilesAssumption`); an upload gives each
bundle some of them (`UploadsAssumption`). What the documents are, how many
tournaments, copies and versions there are, is arbitrary.

| theorem | statement |
| --- | --- |
| `EveryFileAccounted` | `FileSet(files)` implies `Accounted(files)` |
| `NoRivalImported` | `FileSet(files)` implies `Unanimous(files)` |
| `UploadsAreAccounted` | `Spec => []UploadsAccounted` |

The argument: `Resolution` compares a cardinality with one, which for the
documents of a finite bucket means that no two differ (`ResolutionMeans`, with
`FiniteDocs` for the finiteness); the first path exists because the numbers are
well-founded, so the file that represents a bucket is one of its own
(`RepresentativeIsMember`). A tournament has one entry, a pair or a rejection,
whose files are all of this tournament and among which each of its documents
occurs (`EntryOfTournament`, `EntriesAre`). No transaction touches the uploads
(`UploadsStay`), so it holds in every state.

### The stored tournaments

Assumptions (module `TrackerStore`): those of the preparation; bundles are
positive numbers, 0 being the zone change, and none of them is "nobody"
(`BundlesAssumption`); tournaments are numbers and every hand is of one of them
(`InfoAssumption`); hands are finitely many numbers, their times and counts of
attempts are numbers and a final table has two to nine seats
(`HandsAssumption`). What hands, stages and knockouts are, how many bundles,
workers, retries, failures and zone changes there are, is arbitrary.

| theorem | statement |
| --- | --- |
| `StoreInvariance` | `Spec => []StoreInv` |
| `FeaturesAreCurrent` | `Spec => []FeaturesFollowRows` |
| `HelpersAreCurrent` | `Spec => []HelperFollowsRows` |
| `StatisticsAlwaysAgree` | `Spec => []StatisticsAgree` |
| `ExactBoundaryHolds` | `PlayedInStretches /\ Spec => []ExactBoundaryIsTrue` |
| `DashboardAlwaysWhole` | `RoomData /\ Spec => []DashboardIsWhole` |

The first two properties are about published hands, whose bundle's finalize job has
succeeded; what makes them inductive is what open transactions hold.

* `BarrierHolds`, `Progress`: a finalize job exists only when the file jobs of its
  bundle are over, so no import of the bundle runs beside it; its two rounds go
  over the tournaments of the bundle, and every hand the bundle stored last is in
  its scope.
* `RowsHeld`, `RowsApart`: the feature rows that an open transaction has written
  are those of the hands as they are, for every hand in its scope that is
  published or will be by its own commit; what it deleted it writes again; no two
  open transactions write features of one hand.
* `OrderHeld`, `OrderApart`: a transaction that has numbered a tournament holds
  all hands of it, except hands that came in after that, which have no number and
  are not published; no two hold one tournament. So the next
  finalize, of the bundle that brought the late hands, numbers them all anew, and
  until then the tournament is not published.
* `ZoneHeld`: a zone change updates hands that were stored when it began.

A statement of a transaction changes only its own record: `StatementKeeps` proves
once, from `Quiet(p)`, that everything said of others survives; each statement
then shows its own part. The commits have the work: `MaterializedFollows` says
which features a commit leaves, `FinalizeCommitKeeps` that the hands it publishes
have features, numbers and helper of their rows. An import that replaces hands
takes them out of publication, because they are then stored by a bundle whose
finalize job does not exist yet.

The statistics and the dashboard are computed from these tables. What the rows
themselves say is a second invariant, `TextInv`: the documents of file jobs are
files of the user and of the job's tournament, and the stage and knockout rows of a
stored hand were computed from its text within a file all of whose hands are stored.

* `StatisticsAlwaysAgree`: features are those of the rows (`FeaturesFollowRows`), rows
  are those of the text, so both ways to count a knockout count the same events; the
  parts of a whole are compared sum by sum.
* `ExactBoundaryHolds` has the hypothesis that a file is one stretch of play
  and a player stays at the final table (`PlayedInStretches`). Then each file that
  calls a boundary exact saw the last hand before it and the first after it, and the
  least of them is that of the tournament, whichever files came last.
* `DashboardAlwaysWhole` has the hypothesis that the data are those of a room
  (`RoomData`: stacks are below the last bar, the hands of a file are of its
  tournament). `LinkInv` is proved for it: a tournament has a row only after a
  summary job of its bundle, hands come after their summary; and `HelpersHaveHands`.
  So when all is published every stored tournament is offered
  (`EveryTournamentOffered`), and one with hands is ready (`ReadyIsCovered`). The
  bars of each offered step partition the stacks it charts (`PartsCount`,
  `InOneBar`), and the median of a chart is a stack of it (`MedianIsStack`).

TLC evaluates both hypotheses on the files of the run (`SmallFilesAreStretches` and
`SmallDataAreRoomData` of `MCTrackerStore`), so the run and the theorem speak of the
same thing.

### What is only model-checked

* **Liveness** (`EndReachesPage`): out of reach of TLAPS.
* **`TruthIsDecoded`**, the search over all shares of the hero: its arithmetic is
  proved (`ShareKeepsItsCent`), the sums over the envelopes are checked by TLC.
* The five disagreements of section 4 that have a run, which are violations.

## 6. What is not modelled, and why

* **Text and cards.** The grammars of the parsers, street strength, starting
  hands: functions of large data without state. The settlement takes ranks.
* **Hand queries and filters** (`tracker_query_runtime`): a conjunction of
  conditions over rows loaded by SQL; no state.
* **Expected value of an envelope** and street features: sums of constants.
  `TournamentStats` leaves out what depends on the odds.
* **Files.** Spooling, ZIP archives, temporary directories (`dir_import` deletes
  its own while another runner may still read it).
* **The one-shot command line** (`import_path`, `dir_import`), which drives the
  queue until its own bundle is done.
* **Statements that fail for the database's own reasons** (lost connection,
  serialization) are crashes of the worker or failures of the file; `TrackerStore`
  has unique-key conflicts and deadlocks.
* **Labels, percentages, activity log** of the page; two uploads on one page. The
  dashboard and settings pages render what the API returns.
* **Reads of the dashboard between commits.** Its statements are separate and not
  in one transaction; the model reads one state.
* In `HandReplay`: the pots and the board inside the snapshot.

## 7. Plan

Done, in this order: `BundleStatus`, `BundleImport`, `IngestQueue` and its proof;
`IngestRunner`; `BundleStream`; `HandEvents`, `ActionLegality`, `HandReplay`,
`HandTable`; `HandHistory` and its proof; `PotSettlement`, `HandOutcome`, `BigKo`,
`HandBounties`; `IngestPrepare`, `TournamentStages`, `HandFeatures`,
`TrackerStore`; `TournamentStats`, `FtDashboard`; `KoEvents`; the proof about
`IngestPrepare`; outcomes, event log and refinement of the queue; the interleaved
workers and their refinement; the stream; features, order and helper of the
store; the legal hand: replays, snapshot, knockouts, prices, and the turn; sums, and
with them the settlement; the boundary, the statistics and the dashboard.

Left out of the proofs are the liveness properties; left out of the models is what
section 6 lists.
