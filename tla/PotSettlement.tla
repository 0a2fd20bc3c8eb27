---------------------------- MODULE PotSettlement ----------------------------
(***************************************************************************)
(* resolve_hand_pots: the pots of a hand from what every player committed, *)
(* the ways each pot may have been paid out, and the one combination of    *)
(* them, if there is exactly one, that explains the collected amounts.     *)
(*                                                                         *)
(* A hand h is what the parser and the replay know of it:                  *)
(*   h.start, h.committed  chips of every player before and in the hand    *)
(*   h.folded              who folded                                      *)
(*   h.rank                showdown ranks of the players with known cards  *)
(*   h.collected, h.won    amounts of the collect lines, of the summary    *)
(*   h.lost                who the summary says won nothing                *)
(*   h.invalid             the replay or the legality engine failed        *)
(* Names, seats, cards and the evidence lists are left out.                *)
(***************************************************************************)
EXTENDS Sequences, FiniteSets, SequencesExt, Totals

CONSTANT Players

Positive(f) == [p \in {q \in DOMAIN f : f[q] > 0} |-> f[p]]
PaidTo(payouts, p) == IF p \in DOMAIN payouts THEN payouts[p] ELSE 0
Nothing == [p \in {} |-> 0]

-----------------------------------------------------------------------------
(* construct_pots: one pot for every different amount committed.           *)

Levels(h) == {h.committed[p] : p \in Players} \ {0}

PotUpTo(h, level) ==
  LET contributors == {p \in Players : h.committed[p] >= level}
      each == level - Max({0} \cup {l \in Levels(h) : l < level})
  IN [each |-> each,
      amount |-> each * Cardinality(contributors),
      contributors |-> contributors,
      eligible |-> contributors \ h.folded]

(* The i-th smallest number of a set.                                      *)
Smallest(i, S) == CHOOSE x \in S : Cardinality({y \in S : y <= x}) = i

Pots(h) == [i \in 1..Cardinality(Levels(h)) |-> PotUpTo(h, Smallest(i, Levels(h)))]

(* pot_contenders.                                                         *)
Contenders(h, pot) ==
  IF pot.eligible \subseteq h.lost THEN pot.eligible ELSE pot.eligible \ h.lost

-----------------------------------------------------------------------------
(* Fault: the summary is only believed to contradict.                      *)
CollectsOnly(h) ==
  LET collects == Positive(h.collected)
  IN [kind |-> IF collects = Nothing THEN "missing" ELSE "ready", totals |-> collects, best |-> collects]

(* observed_payouts: collect lines and summary, when both speak, must      *)
(* agree.                                                                  *)

ObservedPayouts(h) ==
  LET collects == Positive(h.collected)
      summary == Positive(h.won)
  IN CASE collects = Nothing /\ summary = Nothing -> [kind |-> "missing", totals |-> Nothing, best |-> Nothing]
       [] collects = Nothing /\ summary # Nothing -> [kind |-> "ready", totals |-> summary, best |-> summary]
       [] collects # Nothing /\ summary \in {Nothing, collects} ->
            [kind |-> "ready", totals |-> collects, best |-> collects]
       [] OTHER -> [kind |-> "conflict", totals |-> Nothing, best |-> collects]

-----------------------------------------------------------------------------
(* The allocations a pot admits.  No allocation at all: the pot is         *)
(* uncertain (a contender's cards are hidden and nothing else tells).      *)

(* Fault: the odd chips all go to the first winner.                        *)
OddChipsToFirst(h, pot, contenders) ==
  LET best == Max({h.rank[p] : p \in contenders})
      winners == {p \in contenders : h.rank[p] = best}
      share == pot.amount \div Cardinality(winners)
  IN {[p \in winners |-> IF p = Min(winners) THEN pot.amount - share * (Cardinality(winners) - 1)
                         ELSE share]}

(* build_showdown_options: the best hands share, and each way to hand out  *)
(* the odd chips is an option.                                             *)
ShowdownOptions(h, pot, contenders) ==
  LET best == Max({h.rank[p] : p \in contenders})
      winners == {p \in contenders : h.rank[p] = best}
      share == pot.amount \div Cardinality(winners)
  IN {[p \in winners |-> share + IF p \in lucky THEN 1 ELSE 0] :
        lucky \in kSubset(pot.amount % Cardinality(winners), winners)}

(* build_pot_options.                                                      *)
PotOptions(h, pot, potCount, payouts) ==
  LET contenders == Contenders(h, pot)
      collects == [p \in contenders \cap DOMAIN payouts |-> payouts[p]]
  IN IF contenders # {} /\ contenders \subseteq DOMAIN h.rank
       THEN ShowdownOptions(h, pot, contenders)
     ELSE IF Cardinality(contenders) = 1 THEN {[p \in contenders |-> pot.amount]}
     ELSE IF potCount = 1 /\ collects # Nothing /\ Total(collects) = pot.amount THEN {collects}
     ELSE IF Cardinality(DOMAIN payouts) = 1 /\ DOMAIN payouts \subseteq contenders
       THEN {[p \in DOMAIN payouts |-> pot.amount]}
     ELSE {}

(* Fault: the search stops at the first combination it finds.             *)
FirstAllocation(options, payouts) ==
  LET fits == {choice \in [DOMAIN options -> UNION Range(options)] :
                 /\ \A i \in DOMAIN options : choice[i] \in options[i]
                 /\ \A p \in Players :
                      PaidTo(payouts, p) = Total([i \in DOMAIN options |-> PaidTo(choice[i], p)])}
  IN IF fits = {} THEN {} ELSE {CHOOSE choice \in fits : TRUE}

(* search_settlement_combinations, with apply_shares: one option per pot,  *)
(* every share positive, and together exactly what was paid.               *)
ExactAllocations(options, payouts) ==
  {choice \in [DOMAIN options -> UNION Range(options)] :
     /\ \A i \in DOMAIN options : choice[i] \in options[i]
     /\ \A i \in DOMAIN options : \A p \in DOMAIN choice[i] : choice[i][p] > 0
     /\ \A p \in Players :
          PaidTo(payouts, p) = Total([i \in DOMAIN options |-> PaidTo(choice[i], p)])}

(* build_settlement_pots: the selected allocation is one function of       *)
(* shares per pot, or nothing.                                             *)
Verdict(pots, certainty, issue, selected) ==
  [certainty |-> certainty, issue |-> issue, pots |-> pots, selected |-> selected]

Several(S) == \E a, b \in S : a # b

(* settle_pots.                                                            *)
Settle(h) ==
  LET pots == Pots(h)
      observed == ObservedPayouts(h)
      options == [i \in DOMAIN pots |-> PotOptions(h, pots[i], Len(pots), observed.totals)]
      exact == ExactAllocations(options, observed.totals)
  IN IF pots = <<>>
       THEN IF Positive(h.collected) = Nothing THEN Verdict(pots, "exact", "none", <<>>)
            ELSE Verdict(pots, "inconsistent", "collect_without_pots", <<>>)
     ELSE IF \E i \in DOMAIN pots : options[i] = {} THEN Verdict(pots, "uncertain", "none", <<>>)
     ELSE IF observed.kind = "conflict" THEN Verdict(pots, "inconsistent", "collect_conflict", <<>>)
     ELSE IF observed.kind = "missing"
       THEN IF \E i \in DOMAIN pots : Several(options[i])
              THEN Verdict(pots, "uncertain", "multiple_allocations", <<>>)
              ELSE Verdict(pots, "inconsistent", "missing_collections", <<>>)
     ELSE IF exact = {} THEN Verdict(pots, "inconsistent", "collect_conflict", <<>>)
     ELSE IF Several(exact) THEN Verdict(pots, "uncertain", "multiple_allocations", <<>>)
     ELSE Verdict(pots, "exact", "none", CHOOSE choice \in exact : TRUE)

(* invalidate_settlement.                                                  *)
Invalidated(s) ==
  [s EXCEPT !.certainty = "inconsistent", !.issue = "replay_invalid", !.selected = <<>>]

(* exact_selected_payout_totals; Settle selects for all pots or for none.  *)
SelectedTotals(s) ==
  IF s.certainty # "exact" THEN Nothing
  ELSE Positive([p \in Players |-> Total([i \in DOMAIN s.selected |-> PaidTo(s.selected[i], p)])])
=============================================================================
