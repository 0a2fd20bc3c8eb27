---------------------------- MODULE HandFeatures ----------------------------
(* The analytics features of a stored hand (mbr_stats_runtime,             *)
(* materializer.rs and registry.rs), computed from the rows of the hand:   *)
(* its stage row and its knockout rows.                                    *)
EXTENDS TournamentStages

Stages == [stage_2 |-> 2..2, stage_3_4 |-> 3..4, stage_4_5 |-> 4..5,
           stage_5_6 |-> 5..6, stage_6_9 |-> 6..FtPlayers]

(* ft_stage_bucket *)
StageBucket(stage) ==
  CASE stage.ft /\ stage.size \in 7..FtPlayers -> "ft_7_9"
    [] stage.ft /\ stage.size \in 5..6 -> "ft_5_6"
    [] stage.ft /\ stage.size \in 3..4 -> "ft_3_4"
    [] stage.ft /\ stage.size = 2 -> "ft_2_3"
    [] OTHER -> "not_ft"

(* The rows of a hand that its knockouts come from: the eliminations the   *)
(* hero shares in, his knockout attempts and opportunities, and whether he *)
(* is the one eliminated for certain.                                      *)
ResultRows(info, h) ==
  [kos |-> info[h].kos, attempts |-> info[h].attempts,
   opportunities |-> info[h].opportunities, bust |-> info[h].bust]

(* load_hand_feature_facts and build_feature_rows.                         *)
ExactKos(kos) == {k \in kos : k.exact}
FeatureRow(stage, results) ==
  [ft |-> stage.ft,
   in |-> {s \in DOMAIN Stages : stage.ft /\ stage.size \in Stages[s]},
   size |-> stage.size,
   bucket |-> StageBucket(stage),
   boundary |-> stage.boundary,
   exactKos |-> Cardinality(ExactKos(results.kos)),
   splitKos |-> Cardinality({k \in ExactKos(results.kos) : k.share < 100}),
   sidepotKos |-> Cardinality({k \in ExactKos(results.kos) : k.pot > 1}),
   attempts |-> results.attempts,
   opportunities |-> results.opportunities]
=============================================================================
