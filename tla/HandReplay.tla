----------------------------- MODULE HandReplay -----------------------------
(***************************************************************************)
(* annotate_action_all_in_metadata, which marks the lines that exhaust a   *)
(* stack, and ReplayState, which follows the money of a hand, decides when *)
(* the betting of an all-in hand is over and freezes that moment as the    *)
(* snapshot.                                                               *)
(***************************************************************************)
EXTENDS HandEvents

(* -- the annotation of the parser --------------------------------------- *)

AnnotationInit(start) == [street |-> "preflop", stack |-> start, contrib |-> NoChips]

AnnotationStreet(a, street) ==
  [a EXCEPT !.street = street,
            !.contrib = IF {a.street, street} \subseteq BettingStreets /\ a.street # street
                          THEN NoChips ELSE @]

(* The refund is checked against the round only, not against the others.   *)
AnnotationMoney(a, line) ==
  LET s == line.seat
      d == Delta(line, a.contrib[s])
  IN IF line.type = "return_uncalled"
     THEN IF line.chips <= a.contrib[s]
            THEN [a EXCEPT !.stack[s] = @ + line.chips, !.contrib[s] = @ - line.chips] ELSE a
     ELSE IF d > a.stack[s] THEN a
     ELSE [a EXCEPT !.stack[s] = @ - d,
                    !.contrib[s] = IF CountsInRound(line.type) THEN @ + d ELSE @]

AnnotationAfter(a, line) == AnnotationMoney(AnnotationStreet(a, line.street), line)

Annotated(a, line) ==
  [line EXCEPT !.allIn = @ \/ (line.type # "return_uncalled"
                               /\ AnnotationAfter(a, line).stack[line.seat] = 0)]

(* -- the replay of the normalizer --------------------------------------- *)

NoSnapshot == [taken |-> FALSE]

ReplayInit(start) ==
  [street |-> "preflop", stack |-> start, contrib |-> NoChips,
   committed |-> NoChips,
   byStreet |-> [s \in Seats |-> [t \in BettingStreets |-> 0]],
   status |-> InitialStatus(start),
   pending |-> {s \in Seats : InitialStatus(start)[s] = "live"},  \* pending_live_actors
   snapshot |-> NoSnapshot,
   invalid |-> FALSE]    \* replay_state_invalid

LiveIn(r) == {s \in Seats : r.status[s] = "live"}

(* advance_street_if_needed; the showdown keeps the round of the river.    *)
ReplayStreet(r, street) ==
  IF street = "showdown" THEN [r EXCEPT !.street = street]
  ELSE IF street = r.street THEN r
  ELSE [r EXCEPT !.street = street, !.contrib = NoChips, !.pending = LiveIn(r)]

StreetKey(street) == IF street = "showdown" THEN "river" ELSE street

(* Fault: a refund is not taken out of what was committed.                 *)
RefundStackOnly(r, seat, chips) ==
  [r EXCEPT !.stack[seat] = @ + chips, !.contrib[seat] = @ - chips]

Refund(r, seat, chips) ==
  [r EXCEPT !.stack[seat] = @ + chips,
            !.contrib[seat] = @ - chips,
            !.committed[seat] = @ - chips,
            !.byStreet[seat][StreetKey(r.street)] = @ - chips]

Debit(r, seat, chips, inRound) ==
  [r EXCEPT !.stack[seat] = @ - chips,
            !.contrib[seat] = IF inRound THEN @ + chips ELSE @,
            !.committed[seat] = @ + chips,
            !.byStreet[seat][StreetKey(r.street)] = @ + chips]

(* Fault: a refund is only checked against the total of the hand.          *)
RefundFitsHand(r, line) == line.chips <= r.committed[line.seat]

(* refund_surface_allows_mutation and validate_refund.                     *)
RefundFits(r, line) ==
  /\ Overage(r.contrib, line.seat) > 0 /\ line.chips <= Overage(r.contrib, line.seat)
  /\ line.chips <= r.committed[line.seat] /\ line.chips <= r.contrib[line.seat]

ReplayMoney(r, line) ==
  LET d == Delta(line, r.contrib[line.seat])
  IN IF line.type = "return_uncalled"
     THEN IF RefundFits(r, line) THEN Refund(r, line.seat, line.chips)
          ELSE [r EXCEPT !.invalid = TRUE]
     ELSE IF d > r.stack[line.seat] THEN [r EXCEPT !.invalid = TRUE]
     ELSE Debit(r, line.seat, d, CountsInRound(line.type))

(* The fold of the match and update_player_status.                         *)
ReplayStatus(r, line) ==
  [r EXCEPT !.status[line.seat] = StatusAfter(@, line, r.stack)]

(* Fault: a raise leaves those who already acted out of the round.         *)
PendingOnce(r, line) ==
  IF line.type = "return_uncalled" THEN [r EXCEPT !.pending = {}]
  ELSE [r EXCEPT !.pending = (@ \cap LiveIn(r)) \ {s \in {line.seat} : line.type \in Voluntary}]

(* update_pending_live_actors.                                             *)
ReplayPending(r, line) ==
  [r EXCEPT !.pending =
    CASE line.type \in {"bet", "raise_to"} -> LiveIn(r) \ {line.seat}
      [] line.type \in {"check", "call", "fold"} -> (@ \cap LiveIn(r)) \ {line.seat}
      [] line.type = "return_uncalled" -> {}
      [] OTHER -> @ \cap LiveIn(r)]

(* Fault: the player who covers the others has to be all-in too.           *)
NobodyLive(r) ==
  /\ r.street # "showdown" /\ r.pending = {} /\ LiveIn(r) = {}
  /\ Cardinality({s \in Seats : r.status[s] = "all_in"}) >= 2

(* should_capture_snapshot.                                                *)
TerminalAllIn(r) ==
  LET allIn == {s \in Seats : r.status[s] = "all_in"}
      contestants == allIn \cup LiveIn(r)
  IN /\ r.street # "showdown" /\ r.pending = {}
     /\ Cardinality(contestants) >= 2
     /\ contestants = allIn \/ (allIn # {} /\ Cardinality(LiveIn(r)) = 1)

WithSnapshot(r, line) ==
  IF r.invalid \/ r.snapshot.taken \/ ~TerminalAllIn(r) THEN r
  ELSE [r EXCEPT !.snapshot = [taken |-> TRUE, street |-> r.street,
                               committed |-> r.committed, status |-> r.status]]

(* apply_event.                                                            *)
ReplayAfter(r, line) ==
  WithSnapshot(ReplayPending(ReplayStatus(ReplayMoney(ReplayStreet(r, line.street), line), line),
                             line), line)
=============================================================================
