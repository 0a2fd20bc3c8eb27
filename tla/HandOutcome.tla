----------------------------- MODULE HandOutcome -----------------------------
(***************************************************************************)
(* normalize_hand after the replay: the stacks the hand ends with, who was *)
(* eliminated and who is credited with the knockout.                       *)
(***************************************************************************)
EXTENDS PotSettlement

(* build_final_stacks.                                                     *)
FinalStacks(h, payouts) ==
  [p \in Players |-> h.start[p] - h.committed[p] + PaidTo(payouts, p)]

(* The pots a player put chips in, and his stack after he paid into pot i. *)
PotsOf(s, p) == {i \in DOMAIN s.pots : p \in s.pots[i].contributors}
StackAfterPot(h, s, p, i) ==
  h.start[p] - Total([j \in {k \in PotsOf(s, p) : k <= i} |-> s.pots[j].each])

WonShare(s, p, i) == s.selected # <<>> /\ PaidTo(s.selected[i], p) > 0

(* Fault: the knockout goes to the first pot the busted player lost.       *)
LostPots(h, s, p) == {i \in PotsOf(s, p) : p \in s.pots[i].eligible /\ ~WonShare(s, p, i)}

(* The pots that may have busted a player: he could win it, did not, and   *)
(* had nothing left.  build_elimination takes the first.                   *)
BustingPots(h, s, p) ==
  {i \in PotsOf(s, p) : /\ p \in s.pots[i].eligible /\ ~WonShare(s, p, i)
                        /\ StackAfterPot(h, s, p, i) <= 0}

(* fallback_ko_certainty_state.                                            *)
FallbackCertainty(certainty) == IF certainty = "inconsistent" THEN "inconsistent" ELSE "uncertain"

(* build_elimination: pot 0 when no pot explains the bust; shares is the   *)
(* allocation of the busting pot, a share is share / of of the bounty.     *)
Elimination(h, s, p) ==
  LET pot == IF BustingPots(h, s, p) = {} THEN 0 ELSE Min(BustingPots(h, s, p))
  IN IF pot # 0 /\ s.selected # <<>>
       THEN [pot |-> pot, shares |-> s.selected[pot], of |-> s.pots[pot].amount, certainty |-> "exact"]
       ELSE [pot |-> pot, shares |-> Nothing, of |-> 0, certainty |-> FallbackCertainty(s.certainty)]

(* normalize_hand.  What was observed decides the stacks; the settlement   *)
(* only when nothing was.  Tournament hands are not raked.                 *)
Normalize(h) ==
  LET settlement == IF h.invalid THEN Invalidated(Settle(h)) ELSE Settle(h)
      best == ObservedPayouts(h).best
      payouts == IF best = Nothing THEN SelectedTotals(settlement) ELSE best
      stacks == FinalStacks(h, payouts)
  IN [settlement |-> settlement,
      stacks |-> stacks,
      busts |-> [p \in {q \in Players : h.start[q] > 0 /\ stacks[q] = 0} |->
                   Elimination(h, settlement, p)],
      chipsKept |-> Total(h.start) = Total(stacks),
      potKept |-> Total(h.committed) = Total(payouts)]
=============================================================================
