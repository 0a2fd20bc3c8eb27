--------------------------- MODULE ActionLegality ---------------------------
(***************************************************************************)
(* evaluate_action_legality: the engine that replays the lines of a hand   *)
(* and reports what no legal hand contains.  It never stops: an illegal    *)
(* line is reported and replayed as far as its money allows.               *)
(*                                                                         *)
(* An issue is told by its kind.  street_opener, street_closer,            *)
(* last_aggressor and action_reopened are left out: the engine writes them *)
(* and nothing reads them.                                                 *)
(***************************************************************************)
EXTENDS HandEvents

MoneyIssues ==
  {"action_amount_exceeds_stack", "refund_exceeds_committed",
   "refund_exceeds_betting_round_contrib"}
FailSafeIssues ==
  MoneyIssues \cup {"uncalled_return_actor_mismatch", "uncalled_return_amount_mismatch"}

EngineInit(start) ==
  [street |-> "preflop", stack |-> start, contrib |-> NoChips,
   status |-> InitialStatus(start),
   order |-> ActiveOrder({s \in Seats : InitialStatus(start)[s] = "live"}),
   toCall |-> 0,         \* current_to_call
   lastRaise |-> BigBlind, \* last_full_raise_size
   eligible |-> <<>>,    \* eligible_to_act
   ready |-> FALSE,      \* street_initialized
   reopened |-> [s \in Seats |-> InitialStatus(start)[s] = "live"],
   issues |-> {}]

Flagged(e, kinds) == [e EXCEPT !.issues = @ \cup kinds]
LiveSeats(e) == {s \in Seats : e.status[s] = "live"}
Contesting(e) == {s \in Seats : e.status[s] \in {"live", "all_in"}}

AdvanceStreet(e, street) ==
  IF street = e.street THEN e
  ELSE [e EXCEPT
    !.street = street, !.toCall = 0, !.lastRaise = BigBlind, !.eligible = <<>>, !.ready = FALSE,
    !.contrib = IF street \in BettingStreets THEN NoChips ELSE @,
    !.reopened = IF street \in BettingStreets THEN [s \in Seats |-> e.status[s] = "live"] ELSE @,
    !.issues = IF e.street \in BettingStreets /\ street # "preflop" /\ e.eligible # <<>>
                 THEN @ \cup {"premature_street_close"} ELSE @]

StreetActors(e) ==
  CASE e.street = "preflop" -> IF BigBlind = 0 THEN RotateLeft(e.order, 1) ELSE PreflopOrder(e.order)
    [] e.street \in {"flop", "turn", "river"} -> PostflopOrder(e.order)
    [] OTHER -> <<>>

(* ensure_street_initialized, at the first voluntary action of a street.   *)
WithActors(e) ==
  IF e.ready \/ e.street \notin BettingStreets THEN e
  ELSE [e EXCEPT !.ready = TRUE,
                 !.eligible = Only(StreetActors(e), LiveSeats(e))]

Need(e, seat) == AtLeast0(e.toCall - e.contrib[seat])

(* The seats that must post the blinds; none in a game without blinds.     *)
BlindSeat(e, type) ==
  IF Len(e.order) < 2 \/ BigBlind = 0 THEN {}
  ELSE LET small == IF Len(e.order) = 2 THEN 1 ELSE 2
       IN {e.order[IF type = "post_sb" THEN small ELSE small + 1]}

SurfaceIssues(e, line) ==
  LET overage == Overage(e.contrib, line.seat)
  IN CASE line.type = "post_sb" ->
            {k \in {"illegal_small_blind_actor"} : BlindSeat(e, "post_sb") \notin {{}, {line.seat}}}
       [] line.type = "post_bb" ->
            {k \in {"illegal_big_blind_actor"} : BlindSeat(e, "post_bb") \notin {{}, {line.seat}}}
       [] line.type = "return_uncalled" ->
            IF overage = 0 THEN {"uncalled_return_actor_mismatch"}
            ELSE {k \in {"uncalled_return_amount_mismatch"} : ~(line.chips <= overage)}
       [] OTHER -> {}

OrderIssues(e, line) ==
  {k \in {"illegal_actor_order"} : e.eligible # <<>> /\ Head(e.eligible) # line.seat}

(* What a bet or raise does to the price of the street.                    *)
Level(e, line) == IF line.type = "bet" THEN e.contrib[line.seat] + line.chips ELSE line.chips
Aggression(e, line) ==
  IF line.type \notin {"bet", "raise_to"} \/ Level(e, line) <= e.toCall THEN "none"
  ELSE IF Level(e, line) - e.toCall >= e.lastRaise THEN "full" ELSE "short"

(* Fault: the right to raise is never taken away.                          *)
AlwaysReopened(e, seat) == TRUE

MayRaise(e, seat) == e.reopened[seat]

RaiseIssues(e, line) ==
  {k \in {"action_not_reopened_after_short_all_in"} : Need(e, line.seat) > 0 /\ ~MayRaise(e, line.seat)}
  \cup {k \in {"incomplete_raise_to_call"} : Level(e, line) <= e.toCall}
  \cup {k \in {"incomplete_raise_size"} : Aggression(e, line) = "short" /\ ~line.allIn}

BetIssues(e, line) ==
  LET need == Need(e, line.seat)
      due == Atmost(need, e.stack[line.seat])
  IN CASE line.type = "check" -> {k \in {"illegal_check"} : need # 0}
       [] line.type = "call" ->
            IF need = 0 THEN {"illegal_call_amount"}
            ELSE {k \in {"undercall_inconsistency"} : line.chips < due}
                 \cup {k \in {"overcall_inconsistency"} : line.chips > due}
       [] line.type = "bet" ->
            {k \in {"illegal_bet_facing_open_bet"} : need # 0} \cup RaiseIssues(e, line)
       [] line.type = "raise_to" -> RaiseIssues(e, line)
       [] OTHER -> {}

(* Fault: a refund is paid out whatever the round says.                    *)
RefundAlways(e, line) == TRUE

RefundAllowed(e, line) ==
  /\ SurfaceIssues(e, line) = {}
  /\ line.chips <= e.contrib[line.seat]

EngineMoney(e, line) ==
  LET s == line.seat
      d == Delta(line, e.contrib[s])
  IN IF line.type = "return_uncalled"
     THEN Flagged(IF RefundAllowed(e, line)
                    THEN [e EXCEPT !.stack[s] = @ + line.chips, !.contrib[s] = @ - line.chips]
                    ELSE e,
                  {k \in {"refund_exceeds_betting_round_contrib"} : line.chips > e.contrib[s]})
     ELSE IF d > e.stack[s] THEN Flagged(e, {"action_amount_exceeds_stack"})
     ELSE [e EXCEPT !.stack[s] = @ - d,
                    !.contrib[s] = IF CountsInRound(line.type) THEN @ + d ELSE @]

EngineStatus(e, line) ==
  [e EXCEPT !.status[line.seat] = StatusAfter(@, line, e.stack)]

(* Fault: those who answer are taken in the order of the street.           *)
AnsweringFromTheTop(e, seat, level) ==
  Only(StreetActors(e), {s \in LiveSeats(e) \ {seat} : e.contrib[s] < level})

(* Who has to answer an aggressive action.                                 *)
Answering(e, seat, level) ==
  Only(Following(StreetActors(e), seat), {s \in LiveSeats(e) : e.contrib[s] < level})

RoundClosed(e) ==
  LET live == Cardinality(LiveSeats(e))
  IN \/ Cardinality(Contesting(e)) <= 1
     \/ live = 0
     \/ live <= 1 /\ \A s \in Range(e.eligible) \cap LiveSeats(e) : e.contrib[s] >= e.toCall
     \/ e.street \notin BettingStreets

(* advance_round.                                                          *)
AdvanceRound(e, line, aggression, level) ==
  LET s == line.seat
      acted == [e EXCEPT !.eligible = Only(@, Seats \ {s}), !.reopened[s] = FALSE]
      priced ==
        CASE aggression = "none" -> acted
          [] aggression = "short" ->
               [acted EXCEPT !.toCall = level, !.eligible = Answering(e, s, level)]
          [] aggression = "full" ->
               [acted EXCEPT !.toCall = level, !.lastRaise = level - e.toCall,
                             !.eligible = Answering(e, s, level),
                             !.reopened = [t \in Seats |-> e.status[t] = "live" /\ t # s]]
  IN IF RoundClosed(priced) THEN [priced EXCEPT !.eligible = <<>>] ELSE priced

(* apply_event.                                                            *)
EngineAfter(engine, line) ==
  LET street == AdvanceStreet(engine, line.street)
      before == IF line.type \in Voluntary THEN WithActors(street) ELSE street
      found == SurfaceIssues(before, line)
               \cup (IF line.type \in Voluntary
                       THEN OrderIssues(before, line) \cup BetIssues(before, line) ELSE {})
      after == EngineStatus(EngineMoney(Flagged(before, found), line), line)
  IN IF line.type \in Voluntary
     THEN AdvanceRound(after, line, Aggression(before, line), Level(before, line))
     ELSE IF line.type \in Posts \ {"post_ante"} /\ line.street = "preflop"
     THEN [after EXCEPT !.toCall = Max({@, after.contrib[line.seat]})]
     ELSE after
=============================================================================
