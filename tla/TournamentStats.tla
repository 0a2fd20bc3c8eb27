-------------------------- MODULE TournamentStats --------------------------
(* The canonical statistics of a set of tournaments (mbr_stats_runtime,    *)
(* queries.rs), read from the core tables and the final-table helpers of   *)
(* TrackerStore.  Shares and weights are percents, ratios are pairs        *)
(* <<numerator, denominator>>; what is computed from the odds of the       *)
(* envelopes (expected money, posterior of big knockouts) is in BigKo.     *)
EXTENDS TrackerStore

CONSTANT economics  \* what a summary says: [buyin, payout, prize, place, at]

StartingChips == 1000
TableChips == 18 * StartingChips
StatStages == [ko_2_3 |-> 2..3, ko_3_4 |-> 3..4, ko_4_5 |-> 4..5,
               ko_5_6 |-> 5..6, ko_6_9 |-> 6..9, ko_7_9 |-> 7..9]

Ratio(numerator, denominator) ==
  IF denominator > 0 THEN <<numerator, denominator>> ELSE None
Average(S, value(_)) == Ratio(MapThenSumSet(value, S), Cardinality(S))

-----------------------------------------------------------------------------
(* Facts of one tournament.                                                *)

FtHands(t) == {h \in HandsIn({t}) : hand[h].stage.ft}
HandsAt(t, sizes) == {h \in FtHands(t) : hand[h].stage.size \in sizes}

CertainAndDoubtful(h) == hand[h].results.kos  \* the certainty is not looked at
Knockouts(h) == ExactKos(hand[h].results.kos)
Events(hs) == Total([h \in hs |-> Cardinality(Knockouts(h))])
Share(h) == Total([k \in Knockouts(h) |-> k.share])
Shares(hs) == Total([h \in hs |-> Share(h)])
Attempts(hs) == Total([h \in hs |-> hand[h].results.attempts])
Opportunities(hs) == Total([h \in hs |-> hand[h].results.opportunities])

KoEventFact(t) ==
  [events |-> Events(HandsIn({t})), earlyEvents |-> Events(HandsAt(t, StatStages.ko_6_9)),
   share |-> Shares(HandsIn({t})), ftShare |-> Shares(FtHands(t)),
   earlyShare |-> Shares(HandsAt(t, StatStages.ko_6_9))]

(* The hero's stack in the first hand with so many players, by hand order, *)
(* unordered hands last.                                                   *)
PlayedBefore(g, h) ==
  LET m == hand[g].order
      n == hand[h].order
  IN \/ m # 0 /\ (n = 0 \/ m < n)
     \/ m = n /\ g < h
NoEntry == [stack |-> None]
EntryFact(t, sizes) ==
  LET hs == HandsAt(t, sizes)
      first == CHOOSE h \in hs : \A g \in hs \ {h} : PlayedBefore(h, g)
  IN IF hs = {} THEN NoEntry
     ELSE [stack |-> info[first].stack, bb |-> (100 * info[first].stack) \div info[first].bb,
           players |-> hand[first].stage.size]
DeepFtEntryFact(t) == EntryFact(t, 2..5)

(* The boundary hands count when the helper calls the boundary exact.      *)
TransitionHands(t) ==
  {h \in HandsIn({t}) : helper[t] # NoHelper /\ helper[t].state = "exact" /\ hand[h].stage.boundary}
StageEventFact(t) ==
  [earlyBusts |-> Cardinality({h \in HandsAt(t, StatStages.ko_6_9) : hand[h].results.bust}),
   share |-> [s \in DOMAIN StatStages |-> Shares(HandsAt(t, StatStages[s]))],
   transition |-> Total([h \in {g \in TransitionHands(t) : hand[g].stage.boundaryKo # None} |->
                          hand[h].stage.boundaryKo])]
StageAttemptFact(t) ==
  [ft |-> Attempts(FtHands(t)),
   transition |-> Attempts(TransitionHands(t)),
   transitionOpportunities |-> Opportunities(TransitionHands(t)),
   stage |-> [s \in DOMAIN StatStages |-> Attempts(HandsAt(t, StatStages[s]))]]
StageEntryFact(t) ==
  [reached |-> {s \in DOMAIN StatStages \ {"ko_6_9"} : HandsAt(t, StatStages[s]) # {}},
   ko_5_6 |-> EntryFact(t, StatStages.ko_5_6), ko_3_4 |-> EntryFact(t, StatStages.ko_3_4)]

Reached(t) == helper[t] # NoHelper /\ helper[t].reached
Deep(t) == helper[t] # NoHelper /\ helper[t].deepest # None /\ helper[t].deepest <= 5

-----------------------------------------------------------------------------
(* Scope: the tournaments of the wanted buy-ins and of an extra scope.     *)
StoredTournaments == {t \in Tournaments : tournament[t].by # None}
Scope(buyins, allowed) == {t \in StoredTournaments \cap allowed : economics[t].buyin \in buyins}
Covered(ts) == {t \in ts : HandsIn({t}) # {}}

TransitionWeight(size) ==
  CASE size = 8 -> 40 [] size = 7 -> 50 [] size \in 5..6 -> 60 [] size = 4 -> 65
    [] size \in 2..3 -> 70 [] OTHER -> 0
Weighted(ts, value(_)) ==
  MapThenSumSet(LAMBDA t : value(t) * TransitionWeight(helper[t].firstSize),
                {t \in ts : helper[t] # NoHelper})

(* Knockouts a stack is expected to bring: its part of the chips, times    *)
(* the players that are to go; per TableChips.                             *)
Expected(stack, players, left) == IF players > left THEN stack * (players - left) ELSE 0
ExpectedFt(ts, left) ==
  MapThenSumSet(LAMBDA t : Expected(helper[t].stack, helper[t].firstSize, left), ts)
ExpectedAt(ts, entry(_), left) ==
  MapThenSumSet(LAMBDA t : Expected(entry(t).stack, entry(t).players, left),
                {t \in ts : entry(t) # NoEntry})
StackConversion(share, expected) == Ratio(share * TableChips, expected)

(* build_canonical_stat_snapshot: results of the summaries.                *)
Payout(ts) == Total([t \in ts |-> economics[t].payout])
Buyin(ts) == Total([t \in ts |-> economics[t].buyin])
Prize(ts) == Total([t \in ts |-> economics[t].prize])
Roi(ts) == Ratio(Payout(ts) - Buyin(ts), Buyin(ts))
Placed(ts) == {t \in ts : economics[t].place # None}
AvgPlace(ts) == Average(Placed(ts), LAMBDA t : economics[t].place)
ResultStats(ts) ==
  LET ft == {t \in ts : Reached(t)}
      noFt == {t \in ts \ ft : helper[t] # NoHelper}
  IN [roi |-> Roi(ts), roiOnFt |-> Roi(ft), deepFtRoi |-> Roi({t \in ts : Deep(t)}),
      avgPlace |-> AvgPlace(ts), avgPlaceFt |-> AvgPlace(ft), avgPlaceNoFt |-> AvgPlace(noFt),
      itm |-> Ratio(Cardinality({t \in ts : economics[t].prize > 0}), Cardinality(ts)),
      fromItm |-> Prize(ts), fromKo |-> Payout(ts) - Prize(ts),
      koContribution |-> Ratio(Payout(ts) - Prize(ts), Payout(ts))]

(* The early busts are those of the places or those of the hands,          *)
(* whichever are more.                                                     *)
EarlyBusts(ts) ==
  LET byPlace == Cardinality({t \in Placed(ts) : Reached(t) /\ economics[t].place \in 6..9})
      byHands == Total([t \in ts |-> StageEventFact(t).earlyBusts])
  IN IF byHands > byPlace THEN byHands ELSE byPlace

FinalTableStats(ts) ==
  LET ft == {t \in ts : Reached(t)}
      covered == Covered(ts)
      stacks == MapThenSumSet(LAMBDA t : helper[t].stack, ft)
  IN [ftReach |-> Ratio(Cardinality(ft \cap covered), Cardinality(covered)),
      incompleteFt |-> Ratio(Cardinality({t \in ft : helper[t].incomplete}), Cardinality(ft)),
      avgFtStack |-> Average(ft, LAMBDA t : helper[t].stack),
      avgFtStackBb |-> Average(ft, LAMBDA t : helper[t].entryBb),
      deepFtReach |-> Ratio(Cardinality({t \in covered : Deep(t)}), Cardinality(covered)),
      deepFtStack |-> Average({t \in ts : DeepFtEntryFact(t) # NoEntry},
                              LAMBDA t : DeepFtEntryFact(t).stack),
      deepFtStackBb |-> Average({t \in ts : DeepFtEntryFact(t) # NoEntry},
                                LAMBDA t : DeepFtEntryFact(t).bb),
      earlyBusts |-> EarlyBusts(ts),
      earlyBustRate |-> Ratio(EarlyBusts(ts), Cardinality(Placed(ft))),
      preFtChips |-> Ratio(stacks - StartingChips * Cardinality(covered), Cardinality(covered))]

KoStats(ts) ==
  LET ft == {t \in ts : Reached(t)}
      covered == Covered(ts)
      stage == [s \in DOMAIN StatStages |->
                 MapThenSumSet(LAMBDA t : StageEventFact(t).share[s], ts)]
      attempts == [s \in DOMAIN StatStages |->
                    MapThenSumSet(LAMBDA t : StageAttemptFact(t).stage[s], ts)]
      ftAttempts == MapThenSumSet(LAMBDA t : StageAttemptFact(t).ft, ts)
      ftShare == MapThenSumSet(LAMBDA t : KoEventFact(t).ftShare, ts)
      early == MapThenSumSet(LAMBDA t : KoEventFact(t).earlyShare, ts)
      preFt == Weighted(ts, LAMBDA t : StageEventFact(t).transition)
      total == 100 * MapThenSumSet(LAMBDA t : KoEventFact(t).share, ts) + preFt
  IN [total |-> total, perTournament |-> Ratio(total, Cardinality(covered)),
      events |-> MapThenSumSet(LAMBDA t : KoEventFact(t).events, covered),
      earlyEvents |-> MapThenSumSet(LAMBDA t : KoEventFact(t).earlyEvents, covered),
      early |-> early, earlyPerTournament |-> Ratio(early, Cardinality(ft)),
      preFt |-> preFt,
      preFtAttempts |-> Weighted(ts, LAMBDA t : StageAttemptFact(t).transition),
      stage |-> stage,
      attemptsPerFt |-> [s \in DOMAIN StatStages |-> Ratio(attempts[s], Cardinality(ft))],
      success |-> [s \in DOMAIN StatStages |-> Ratio(stage[s], attempts[s])],
      avgAttempts |-> Ratio(ftAttempts, Cardinality(ft)),
      ftSuccess |-> Ratio(ftShare, ftAttempts),
      conversion |-> StackConversion(ftShare, ExpectedFt(ft, 1)),
      conversion_7_9 |-> StackConversion(stage.ko_7_9, ExpectedFt(ft, 6)),
      conversion_5_6 |->
        StackConversion(stage.ko_5_6, ExpectedAt(ts, LAMBDA t : StageEntryFact(t).ko_5_6, 4)),
      conversion_3_4 |->
        StackConversion(stage.ko_3_4, ExpectedAt(ts, LAMBDA t : StageEntryFact(t).ko_3_4, 2))]

-----------------------------------------------------------------------------
(* The same knockouts reach a reader along two paths: the features, stored *)
(* by finalize jobs, and the core rows the statistics count; the same      *)
(* final table along three, the helper, the stage rows and the entries.    *)
(* For a published tournament they agree, and the totals nest.             *)
FeatureSum(t, column, stages) ==
  Total([h \in {g \in HandsIn({t}) : stages = {} \/ features[g].row.in \cap stages # {}} |->
          features[h].row[column]])
StatisticsAgree ==
  \A t \in PublishedTournaments :
    LET ko == KoEventFact(t)
        stage == StageEventFact(t)
        attempts == StageAttemptFact(t)
    IN /\ Reached(t) <=> FtHands(t) # {}
       /\ Deep(t) <=> DeepFtEntryFact(t) # NoEntry
       /\ Reached(t) => EntryFact(t, 2..9) =
            [stack |-> helper[t].stack, bb |-> helper[t].entryBb, players |-> helper[t].firstSize]
       /\ ko.events = FeatureSum(t, "exactKos", {})
       /\ ko.earlyEvents = FeatureSum(t, "exactKos", {"stage_6_9"})
       /\ attempts.stage.ko_5_6 = FeatureSum(t, "attempts", {"stage_5_6"})
       /\ attempts.ft = FeatureSum(t, "attempts", DOMAIN Stages)
       /\ attempts.transition + attempts.ft <= FeatureSum(t, "attempts", {})
       /\ ko.earlyShare = stage.share.ko_6_9
       /\ ko.ftShare = stage.share.ko_2_3 + stage.share.ko_4_5 + stage.share.ko_6_9
       /\ stage.transition + ko.ftShare <= ko.share
=============================================================================
