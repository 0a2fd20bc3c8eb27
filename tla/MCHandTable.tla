---------------------------- MODULE MCHandTable -----------------------------
(* Small instances of HandTable for TLC: an ante of 1, blinds of 1 and 2,  *)
(* five seats one of which sits out; stacks that the ante or a blind       *)
(* exhausts, that make short and full all-in raises, and an empty seat for *)
(* the heads-up hands.                                                     *)
EXTENDS HandTable

StacksOf(chips) ==
  {hand \in [Seats -> chips] : \A s \in SittingOut : hand[s] = Max(chips)}

(* Two players at least, the button among them (compute_position_facts     *)
(* refuses the rest), and a big blind that is covered after the ante.      *)
Covered(starts) ==
  {hand \in starts :
     LET playing == {s \in Seats : hand[s] > 0 /\ s \notin SittingOut}
     IN Button \in playing /\ Cardinality(playing) >= 2 /\ hand[BigBlindSeat(playing)] >= Ante + BigBlind}

SmallStacks == Covered(StacksOf({0, 1, 2, 4, 7}))
=============================================================================
