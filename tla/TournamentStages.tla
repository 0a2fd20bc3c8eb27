-------------------------- MODULE TournamentStages --------------------------
(* Final-table stages of a tournament's hands (parser_worker,              *)
(* mbr_domain.rs): the boundary between rush and final table found among   *)
(* the hands of one file, the stage row stored with each hand, the hand    *)
(* order of a tournament and its final-table helper row.  A hand is a      *)
(* number, its external id; info[h] is what its text says: the time, the   *)
(* table's maximum and occupied seats, the hero's stack, the big blind and *)
(* the knockouts the hero shares in, [seat, share (percent), pot, exact].  *)
EXTENDS Integers, FiniteSets, Totals

CONSTANT None

(* GG_MBR_FT_MAX_PLAYERS *)
FtPlayers == 9

Earlier(info, g, h) ==
  info[g].at < info[h].at \/ (info[g].at = info[h].at /\ g < h)
Earliest(info, hs) == CHOOSE h \in hs : \A g \in hs \ {h} : Earlier(info, h, g)

IsFt(info, h) == info[h].max = FtPlayers

(* resolve_boundary_candidates: the hands with the last time before the    *)
(* first final-table hand.                                                 *)
BoundaryCandidates(info, hs) ==
  LET ft == {h \in hs : IsFt(info, h)}
      before == IF ft = {} THEN {}
                ELSE {h \in hs : Earlier(info, h, Earliest(info, ft))}
  IN {h \in before : \A g \in before : info[g].at <= info[h].at}
BoundaryState(candidates) == IF Cardinality(candidates) = 1 THEN "exact" ELSE "uncertain"

(* exact_hero_boundary_ko_share *)
ExactShare(kos) ==
  IF {k \in kos : k.exact} = {} THEN None
  ELSE Total([k \in {j \in kos : j.exact} |-> k.share])

(* build_mbr_stage_resolutions_from_facts, for a hand h of a file that     *)
(* holds the hands hs.                                                     *)
StageRow(info, hs, h) ==
  LET candidates == BoundaryCandidates(info, hs)
      boundary == h \in candidates
  IN [ft |-> IsFt(info, h),
      size |-> IF IsFt(info, h) THEN info[h].seats ELSE None,
      boundary |-> boundary,
      state |-> BoundaryState(candidates),
      candidates |-> Cardinality(candidates),
      boundaryKo |-> IF boundary /\ BoundaryState(candidates) = "exact"
                     THEN ExactShare(info[h].kos) ELSE None]

(* compute_tournament_hand_order, for a hand h of the tournament's hands.  *)
HandOrder(info, hs, h) == 1 + Cardinality({g \in hs : Earlier(info, g, h)})

AnyState(states) ==  \* the state of one hand stands for all
  IF states = {} THEN "inconsistent" ELSE CHOOSE s \in states : TRUE
MergedState(states) ==
  IF Cardinality(states) = 1 THEN CHOOSE s \in states : TRUE ELSE "inconsistent"

(* build_mbr_tournament_ft_helper_row: stage and order give the stored     *)
(* stage row and order of each hand of the tournament.                     *)
HelperRow(info, hs, stage, order) ==
  LET ft == {h \in hs : stage[h].ft}
      first == CHOOSE h \in ft : \A g \in ft \ {h} :
                 order[h] < order[g] \/ (order[h] = order[g] /\ h < g)
      sizes == {stage[h].size : h \in ft}
  IN [reached |-> ft # {},
      first |-> IF ft = {} THEN None ELSE first,
      firstSize |-> IF ft = {} THEN None ELSE stage[first].size,
      incomplete |-> IF ft = {} THEN None ELSE stage[first].size < FtPlayers,
      deepest |-> IF ft = {} THEN None
                  ELSE CHOOSE n \in sizes : \A k \in sizes : n <= k,
      stack |-> IF ft = {} THEN None ELSE info[first].stack,
      entryBb |-> IF ft = {} THEN None ELSE (100 * info[first].stack) \div info[first].bb,
      boundary |-> \E h \in hs : stage[h].boundary,
      state |-> MergedState({stage[h].state : h \in hs})]
=============================================================================
