---------------------------- MODULE FtDashboard ----------------------------
(* The final-table dashboard (mbr_stats_runtime, ft_dashboard.rs): the     *)
(* scope a filter chooses, the cards and the charts, whose bars are the    *)
(* tournaments in an interval of the hero's stack at the start of the      *)
(* final table.  Labels and the odds of the envelopes are left out.        *)
EXTENDS TournamentStats, BundleStatus

-----------------------------------------------------------------------------
(* Scope: the filters for a bundle, for dates and for buy-ins.             *)

QueueStatus(status) == IF status = "failed" THEN "failed_terminal" ELSE status
StatusOfBundle(b) ==
  DeriveBundleStatus({QueueStatus(job[j]) : j \in JobsOf(b)}, QueueStatus(fin[b]))
BundleOptions ==
  {b \in Bundles : JobsOf(b) # {} /\ StatusOfBundle(b) \in {"succeeded", "partial_success"}}

(* load_bundle_tournament_ids: the tournaments whose summary, or one of    *)
(* whose hands, was stored last from the archive of the bundle.            *)
HandScope(b) ==  \* only those with hands
  {info[h].tournament : h \in {g \in Stored : FromArchiveOf(b, hand[g])}}
BundleScope(b) ==
  {t \in Tournaments : FromArchiveOf(b, tournament[t])}
    \cup {info[h].tournament : h \in {g \in Stored : FromArchiveOf(b, hand[g])}}
DateScope(from, to) ==
  {t \in StoredTournaments : /\ from # None => economics[t].at >= from
                             /\ to # None => economics[t].at <= to}
Chosen(bundle, from, to, buyins) ==
  LET inBundle == IF bundle = None THEN StoredTournaments
                  ELSE StoredTournaments \cap BundleScope(bundle)
      dated == IF from = None /\ to = None THEN inBundle ELSE inBundle \cap DateScope(from, to)
  IN Scope(buyins, dated)
BuyinOptions == {economics[t].buyin : t \in StoredTournaments}
Everything == Chosen(None, None, None, BuyinOptions)

-----------------------------------------------------------------------------
(* Cards: a value and a second one, blocked without the first.             *)

Card(value, aux) ==
  [state |-> IF value = None THEN "blocked" ELSE "ready", value |-> value,
   aux |-> IF value = None THEN None ELSE aux]
Rest100(ratio) == IF ratio = None THEN None ELSE <<ratio[2] - ratio[1], ratio[2]>>
CardsOf(result, table, ko) ==
  [roi |-> Card(result.roi, None), ftReach |-> Card(table.ftReach, None),
   itm |-> Card(result.itm, None),
   avgKo |-> Card(ko.perTournament, ko.earlyPerTournament),
   koAttempts1 |-> Card(None, None), koAttempts2 |-> Card(None, None),
   koAttempts3p |-> Card(None, None),
   roiOnFt |-> Card(result.roiOnFt, None),
   avgFtStack |-> Card(table.avgFtStack, table.avgFtStackBb),
   deepFtReach |-> Card(table.deepFtReach, None),
   ftStackConv79 |-> Card(ko.conversion_7_9, ko.attemptsPerFt.ko_7_9),
   winningsFromKo |-> Card(result.koContribution, None),
   winningsFromItm |-> Card(Rest100(result.koContribution), None),
   avgPlaceFt |-> Card(result.avgPlaceFt, None), avgPlaceAll |-> Card(result.avgPlace, None),
   deepFtRoi |-> Card(result.deepFtRoi, None),
   deepFtStack |-> Card(table.deepFtStack, table.deepFtStackBb),
   ftStackConv56 |-> Card(ko.conversion_5_6, ko.attemptsPerFt.ko_5_6),
   ftStackConv34 |-> Card(ko.conversion_3_4, ko.attemptsPerFt.ko_3_4)]
StatCards(ts) == CardsOf(ResultStats(ts), FinalTableStats(ts), KoStats(ts))

-----------------------------------------------------------------------------
(* Charts.                                                                 *)

AboveAll == 1000000
StackRecords(ts) == {t \in ts : Reached(t)}
Within(records, bar) == {t \in records : helper[t].stack >= bar[1] /\ helper[t].stack < bar[2]}

(* Steps of a width between two ends; a last one that would go past the    *)
(* upper end is left out.                                                  *)
Steps(low, high, step) ==
  {<<low + k * step, low + (k + 1) * step>> : k \in 0..((high - low) \div step - 1)}
FtIntervals(step) == {<<0, 800>>} \cup Steps(800, 4000, step) \cup {<<4000, AboveAll>>}
FtSteps == {100, 200, 400, 1000}
ShortIntervals(step) == Steps(0, 1500, step)
StageIntervals == {<<500, 1200>>, <<1200, 1800>>, <<1800, 3000>>, <<3000, AboveAll>>}

EarlyKo(t) == KoEventFact(t).earlyShare
StackMetric(metric, ts) ==
  CASE metric = "count" -> <<Cardinality(ts), 1>>
    [] metric = "roi" -> Roi(ts)
    [] metric = "conv" -> Ratio(MapThenSumSet(EarlyKo, ts),
                                MapThenSumSet(LAMBDA t : helper[t].entryBb, ts))
    [] metric = "avg_ko" -> Average(ts, LAMBDA t : KoEventFact(t).share)
    [] metric = "early_avg_ko" -> Average(ts, EarlyKo)
Attempted(ts, stage) == Average(ts, LAMBDA t : StageAttemptFact(t).stage[stage])
Bar(metric, ts) ==
  [sample |-> Cardinality(ts),
   value |-> IF ts = {} THEN None ELSE StackMetric(metric, ts),
   attempts |-> IF metric = "conv" THEN Attempted(ts, "ko_6_9") ELSE None]
Bars(metric, ts, intervals) == [bar \in intervals |-> Bar(metric, Within(StackRecords(ts), bar))]
StageBar(ts, stage) ==
  LET entryBb(t) == IF stage = "ko_6_9" THEN helper[t].entryBb
                    ELSE IF EntryFact(t, StatStages[stage]) = NoEntry THEN 0
                    ELSE EntryFact(t, StatStages[stage]).bb
  IN [sample |-> Cardinality(ts),
      value |-> Ratio(MapThenSumSet(LAMBDA t : StageEventFact(t).share[stage], ts),
                      MapThenSumSet(entryBb, ts)),
      attempts |-> Attempted(ts, stage)]
StageBars(ts, stage) == [bar \in StageIntervals |-> StageBar(Within(StackRecords(ts), bar), stage)]

(* median_label_for_records: the upper median of the stacks, and its bar.  *)
MedianStack(ts) ==
  LET atMost(n) == Cardinality({t \in StackRecords(ts) : helper[t].stack <= n})
      stacks == {helper[t].stack : t \in StackRecords(ts)}
      beyond == {n \in stacks : atMost(n) > Cardinality(StackRecords(ts)) \div 2}
  IN LeastOf(beyond)
MedianBar(ts, step) ==
  LET bars == {bar \in FtIntervals(step) : MedianStack(ts) >= bar[1] /\ MedianStack(ts) < bar[2]}
  IN IF bars = {} THEN <<4000, AboveAll>> ELSE CHOOSE bar \in bars : TRUE

(* Places, attempts of a tournament summed over stages that overlap, and   *)
(* knockouts by place.                                                     *)
PlaceBars(ts, places) ==
  [place \in places |-> Cardinality({t \in ts : economics[t].place = place})]
StageAttempts(t) ==
  MapThenSumSet(LAMBDA s : StageAttemptFact(t).stage[s], DOMAIN StatStages)
AttemptBars(ts) ==
  [n \in 1..5 |-> Cardinality({t \in ts : IF n = 5 THEN StageAttempts(t) >= 5
                                         ELSE StageAttempts(t) = n})]
KoByPlaceBars(ts) ==
  [place \in 1..8 |-> Average({t \in ts : economics[t].place = place},
                              LAMBDA t : KoEventFact(t).share)]

ReadyIf(some) == IF some THEN "ready" ELSE "blocked"
PlaceChart(ts, places) ==
  IF \E p \in places : PlaceBars(ts, places)[p] > 0 THEN "ready" ELSE "empty"
SomeSample(bars) == \E bar \in DOMAIN bars : bars[bar].sample > 0
ChartStates(ts) ==
  LET stacks == ReadyIf(StackRecords(ts) # {})
  IN [ft |-> PlaceChart(ts, 1..9), pre_ft |-> PlaceChart(ts, 10..18),
      all |-> PlaceChart(ts, 1..18),
      ft_stack |-> stacks, ft_stack_roi |-> stacks, ft_stack_conv |-> stacks,
      avg_ko_by_ft_stack |-> stacks, avg_ko_by_early_ft_stack |-> stacks,
      ft_stack_roi_0_800 |->
        ReadyIf(\E step \in {50, 100} : SomeSample(Bars("roi", ts, ShortIntervals(step)))),
      ft_stack_conv_7_9 |-> ReadyIf(SomeSample(StageBars(ts, "ko_6_9"))),
      ft_stack_conv_5_6 |-> ReadyIf(SomeSample(StageBars(ts, "ko_5_6"))),
      ko_attempts |-> ReadyIf(\E n \in 1..5 : AttemptBars(ts)[n] > 0),
      avg_ko_by_position |-> ReadyIf(\E p \in 1..8 : KoByPlaceBars(ts)[p] # None)]

(* resolve_dashboard_state; the summaries are all the tournaments.         *)
DataState(ts) ==
  LET cards == StatCards(ts)
      charts == ChartStates(ts)
  IN CASE ts = {} -> "empty"
       [] /\ ts # {}
          /\ \A c \in DOMAIN cards : cards[c].state # "ready"
          /\ \A c \in DOMAIN charts : charts[c] # "ready" -> "blocked"
       [] OTHER -> IF Covered(ts) = {} THEN "partial" ELSE "ready"

-----------------------------------------------------------------------------
(* Data as they come from the room: stacks stay below the last bar, and    *)
(* the hands of a file are of its tournament.                              *)
RoomData ==
  /\ IsFiniteSet(Tournaments) /\ None \notin Nat \X Nat
  /\ \A h \in Hands : info[h].stack \in 0..AboveAll - 1
  /\ \A f \in Files : f.doc.tournament # NoTournament =>
       \A h \in f.doc.hands : info[h].tournament = f.doc.tournament

AllPublished ==
  /\ \A j \in Jobs : job[j] \notin {"queued", "running"}
  /\ \A b \in Bundles : fin[b] \notin {"queued", "running"}
  /\ \A h \in Stored : Published(h)

(* Stacks in no bar: what the steps leave below 4000, which is nothing but *)
(* for steps of 1000, and there the stacks from 3800.                      *)
Uncharted(step, n) == n >= 800 + (3200 \div step) * step /\ n < 4000

(* For every step the charts offer, the bars count each final table once,  *)
(* those with an uncharted stack excepted, and the bar named as that of    *)
(* the median is not empty, unless the median itself is uncharted.         *)
ChartsCount(ts) ==
  \A step \in FtSteps :
    LET bars == Bars("count", ts, FtIntervals(step))
        charted == {t \in StackRecords(ts) : ~Uncharted(step, helper[t].stack)}
    IN /\ Total([bar \in DOMAIN bars |-> bars[bar].sample]) = Cardinality(charted)
       /\ StackRecords(ts) # {} =>
            Uncharted(step, MedianStack(ts)) \/ bars[MedianBar(ts, step)].sample > 0

(* Once everything that was stored is published, each stored tournament is *)
(* found under some bundle the filter offers, whoever stored it last; and  *)
(* under each offered bundle the dashboard is ready exactly when one of    *)
(* its tournaments has hands, and the charts count the final tables.       *)
DashboardIsWhole ==
  AllPublished =>
    /\ UNION {BundleScope(b) : b \in BundleOptions} = Everything
    /\ \A b \in BundleOptions :
         LET ts == Chosen(b, None, None, BuyinOptions)
         IN /\ (DataState(ts) = "ready") <=> (Covered(ts) # {})
            /\ ChartsCount(ts)
=============================================================================
