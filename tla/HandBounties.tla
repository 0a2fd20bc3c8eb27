---------------------------- MODULE HandBounties -----------------------------
(***************************************************************************)
(* From the pots of a hand to the bounties of its knockouts: the room pays *)
(* the pots and draws an envelope for every player it eliminates; the      *)
(* tracker reads the history, settles the hand, credits the knockouts and, *)
(* from the sum of the bounties alone, decodes the envelopes.  The room is *)
(* external: it plays by the rules of the game, and its history may leave  *)
(* out cards, collect lines or the summary, or contradict itself.          *)
(***************************************************************************)
EXTENDS HandOutcome, BigKo

CONSTANTS
  Deals,   \* [start, committed, folded, away, strength, hero]: hands as played
  Reports, \* [amounts, told, broken]: what the history of a hand tells
  None

ASSUME BountyAssumption ==
  /\ Players \subseteq Nat \ {0} /\ IsFiniteSet(Players)
  /\ MaxRecorded \in Nat \ {0}
  /\ \A e \in Envelopes : e.cents \in Nat \ {0} /\ e.weight \in Nat \ {0}

(* A hand is played by the rules: nobody commits chips he does not have,   *)
(* and whatever one committed, somebody who is still in the hand matched.  *)
ASSUME DealAssumption ==
  /\ Deals \subseteq [start : [Players -> Nat], committed : [Players -> Nat],
                      folded : SUBSET Players, away : SUBSET Players,
                      strength : [Players -> Nat], hero : Players, paid : {None}]
  /\ \A d \in Deals :
       /\ \A p \in Players : d.committed[p] <= d.start[p]
       /\ \E p \in Players : d.committed[p] > 0
       /\ \A p \in Players : d.committed[p] > 0 =>
            \E q \in Players \ (d.folded \cup d.away) : d.committed[q] >= d.committed[p]

ASSUME ReportAssumption ==
  Reports \subseteq [amounts : {"both", "collects", "summary", "misread", "none"},
                    told : BOOLEAN, broken : BOOLEAN]

VARIABLES
  table,    \* the deal, and what the room paid from each pot
  hand,     \* the hand as parsed
  outcome,  \* normalize_hand
  bounties, \* what the room drew and paid to the hero
  decoded   \* decode_big_ko_allocations

vars == <<table, hand, outcome, bounties, decoded>>

-----------------------------------------------------------------------------
(* The room.  A pot is told by the players with chips in it; it goes to    *)
(* the best of those who neither folded nor sat out, and odd chips go      *)
(* where the room wants.                                                   *)

AtLeast(t, k) == {p \in Players : t.committed[p] >= k}
Chips(t) == 1..Max({t.committed[p] : p \in Players})
RoomPots(t) == {AtLeast(t, k) : k \in Chips(t)}
RoomAmount(t, c) == Cardinality(c) * Cardinality({k \in Chips(t) : AtLeast(t, k) = c})
InHand(t) == {p \in Players : t.committed[p] > 0} \ (t.folded \cup t.away)
Winners(t, c) ==
  {p \in c \cap InHand(t) : \A q \in c \cap InHand(t) : t.strength[q] <= t.strength[p]}

RoomShares(t, c) ==
  LET n == Cardinality(Winners(t, c))
  IN {[p \in Winners(t, c) |-> (RoomAmount(t, c) \div n) + IF p \in lucky THEN 1 ELSE 0] :
        lucky \in kSubset(RoomAmount(t, c) % n, Winners(t, c))}

Payments(t) ==
  {paid \in [RoomPots(t) -> UNION {RoomShares(t, c) : c \in RoomPots(t)}] :
     \A c \in RoomPots(t) : paid[c] \in RoomShares(t, c)}

Received(t) ==
  [p \in Players |-> Total([c \in RoomPots(t) |-> PaidTo(t.paid[c], p)])]

(* The smallest pot a player reached is the last one he had chips in.      *)
LastPotOf(t, p) == CHOOSE c \in RoomPots(t) : p \in c /\ \A d \in RoomPots(t) : p \in d => c \subseteq d
Busted(t) == {p \in Players : t.start[p] > 0 /\ t.start[p] - t.committed[p] + Received(t)[p] = 0}

Init ==
  /\ \E deal \in Deals : \E paid \in Payments(deal) :
       table = [deal EXCEPT !.paid = paid]
  /\ hand = None /\ outcome = None /\ bounties = None /\ decoded = None

NoAmounts == [p \in Players |-> 0]
Misread(amounts, p) == [amounts EXCEPT ![p] = @ + 1]

(* The history of the hand.  The hero's cards are always known at a        *)
(* showdown, the others' when they show; a summary names who won nothing.  *)
Losers(t) == {p \in Players : t.committed[p] > 0 /\ Received(t)[p] = 0}

HistoryOf(t, shown, report) ==
  LET received == Received(t)
  IN [start |-> t.start, committed |-> t.committed, folded |-> t.folded,
      rank |-> [p \in shown |-> t.strength[p]],
      collected |-> IF report.amounts \in {"summary", "none"} THEN NoAmounts ELSE received,
      won |-> IF report.amounts = "misread" THEN Misread(received, t.hero)
              ELSE IF report.amounts \in {"collects", "none"} THEN NoAmounts ELSE received,
      lost |-> IF report.told THEN Losers(t) ELSE {},
      invalid |-> report.broken]

WriteHistory ==
  /\ hand = None
  /\ LET contested == Cardinality(InHand(table)) > 1
     IN \E shown \in SUBSET InHand(table), report \in Reports :
          /\ shown # {} => contested
          /\ contested /\ table.hero \in InHand(table) => table.hero \in shown
          /\ hand' = HistoryOf(table, shown, report)
  /\ UNCHANGED <<table, outcome, bounties, decoded>>

NormalizeHand ==
  /\ hand # None /\ outcome = None
  /\ outcome' = Normalize(hand)
  /\ UNCHANGED <<table, hand, bounties, decoded>>

(* The hero's knockouts as the room sees them, and as the tracker does:    *)
(* load_tournament_ko_money_event_facts takes the exact ones.              *)
RoomKnockouts(t) == {p \in Busted(t) : PaidTo(t.paid[LastPotOf(t, p)], t.hero) > 0}
HeroShareOf(p) ==
  LET e == outcome.busts[p]
  IN IF e.certainty = "exact" /\ PaidTo(e.shares, table.hero) > 0
       THEN Micros(e.shares[table.hero], e.of) ELSE 0
CreditedKnockouts == {p \in DOMAIN outcome.busts : HeroShareOf(p) > 0}

(* The room draws an envelope per knockout and pays the hero his share of  *)
(* it, up to a cent.                                                       *)
DrawBounties ==
  /\ outcome # None /\ bounties = None
  /\ outcome.settlement.certainty = "exact"
  /\ \E drawn \in [RoomKnockouts(table) -> Envelopes], up \in SUBSET RoomKnockouts(table) :
       LET Pot(p) == LastPotOf(table, p)
           share(p) == table.paid[Pot(p)][table.hero] * drawn[p].cents
           paid(p) == (share(p) \div RoomAmount(table, Pot(p))) + IF p \in up THEN 1 ELSE 0
       IN /\ \A p \in up : share(p) % RoomAmount(table, Pot(p)) # 0
          /\ bounties' = [p \in RoomKnockouts(table) |-> [cents |-> drawn[p].cents, got |-> paid(p)]]
  /\ UNCHANGED <<table, hand, outcome, decoded>>

HeroShares ==
  LET order == SetToSortSeq(CreditedKnockouts, <)
  IN [i \in DOMAIN order |-> HeroShareOf(order[i])]
MysteryMoney == MapThenSumSet(LAMBDA p : bounties[p].got, DOMAIN bounties)

DecodeBounties ==
  /\ bounties # None /\ decoded = None
  /\ decoded' = Decode(MysteryMoney, HeroShares)
  /\ UNCHANGED <<table, hand, outcome, bounties>>

Next == WriteHistory \/ NormalizeHand \/ DrawBounties \/ DecodeBounties

Spec == Init /\ [][Next]_vars

-----------------------------------------------------------------------------
(* Properties.                                                             *)

(* A settlement the core calls exact is what the room did, pot by pot,     *)
(* whatever the history left out: hidden cards, missing collect lines and  *)
(* contradicting amounts may only cost certainty.                          *)
ExactIsTruth ==
  outcome # None /\ outcome.settlement.certainty = "exact" =>
    \A i \in DOMAIN outcome.settlement.pots :
      LET pot == outcome.settlement.pots[i]
      IN /\ pot.amount = RoomAmount(table, pot.contributors)
         /\ outcome.settlement.selected[i] = table.paid[pot.contributors]

(* A hand that shows every card and amount is settled; the only thing that *)
(* may stay open is which pot an odd chip came from.                       *)
KnownHandSettles ==
  outcome # None /\ ~hand.invalid /\ hand.won = hand.collected /\ hand.won # NoAmounts
  /\ (Cardinality(InHand(table)) > 1 => DOMAIN hand.rank = InHand(table))
  /\ table.away \cap {p \in Players : table.committed[p] > 0} \subseteq hand.lost =>
    outcome.settlement.certainty = "exact" \/ outcome.settlement.issue = "multiple_allocations"

(* The knockout of a busted player is credited to those who won the last   *)
(* pot he had chips in: they covered him, survived the hand, and their     *)
(* shares of his bounty make a whole one.                                  *)
KnockoutIsFair ==
  outcome # None =>
    \A p \in DOMAIN outcome.busts :
      LET e == outcome.busts[p]
      IN IF e.certainty = "exact"
           THEN /\ e.shares = table.paid[LastPotOf(table, p)]
                /\ Total(e.shares) = e.of
                /\ \A w \in DOMAIN e.shares : table.start[w] >= table.start[p] /\ w \notin DOMAIN outcome.busts
           ELSE e.shares = Nothing

(* A history with the amounts, even if it hides the cards, tells exactly   *)
(* who was eliminated, and no chip appears or is lost.                     *)
BustsAreReal ==
  outcome # None /\ (hand.collected # NoAmounts \/ hand.won # NoAmounts) =>
    /\ DOMAIN outcome.busts = Busted(table)
    /\ outcome.chipsKept /\ outcome.potKept

(* A share of an envelope is stored in millionths.  Written as a fraction  *)
(* with denominator n, it still tells the cents it is worth when cents * n *)
(* stays below two millions; beyond, the cents paid may be no candidate    *)
(* (theorems ShareKeepsItsCent and ShareLosesItsCent).                     *)
KeepsItsCent(cents, share, of) ==
  \E n \in 1..of : (share * n) % of = 0 /\ cents * n < 2 * ShareScale
SharesKeepTheirCents ==
  \A p \in DOMAIN bounties :
    LET pot == LastPotOf(table, p)
    IN KeepsItsCent(bounties[p].cents, table.paid[pot][table.hero], RoomAmount(table, pot))

(* If the shares keep their cents, the envelopes the room drew are among   *)
(* the allocations the decoder records, unless it stopped at its limit,    *)
(* and a single allocation is the truth.                                   *)
TruthIsDecoded ==
  decoded # None /\ bounties # << >> /\ SharesKeepTheirCents =>
    LET order == SetToSortSeq(CreditedKnockouts, <)
        drawn == [i \in DOMAIN order |-> bounties[order[i]]]
    IN /\ decoded.status # "infeasible"
       /\ drawn \in decoded.allocations \/ Cardinality(decoded.allocations) = MaxRecorded
       /\ decoded.status = "exact" /\ MaxRecorded > 1 => decoded.allocations = {drawn}

(* docs/stat_catalog/mbr_stats_spec_v1.yml promises posterior-weighted     *)
(* tier counts: a hero whose envelopes are known for certain is counted    *)
(* the big ones he drew.                                                   *)
KnownBigKoIsCounted ==
  decoded # None /\ decoded.status = "exact" =>
    \A a \in decoded.allocations : \A i \in DOMAIN a :
      HasBucket(a[i].cents) =>
        PosteriorMass(decoded, HeroShares, EnvelopeOf(a[i].cents).sort) > 0
=============================================================================
