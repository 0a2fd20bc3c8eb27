----------------------------- MODULE HandTable ------------------------------
(***************************************************************************)
(* A no-limit hold'em table deals a hand by the rules of the game and      *)
(* writes its history, line by line; the three replays of the parser core  *)
(* read every line.  In the code each replay runs over the whole history   *)
(* in turn; as each depends only on the lines before, they move together   *)
(* here.                                                                   *)
(*                                                                         *)
(* The table is the reference, written from the rules and not from the     *)
(* engine: it keeps who has spoken since the last full raise and a place   *)
(* that moves clockwise.  Cards are not dealt: they do not matter to       *)
(* betting.  The big blind is always covered (Starts says so): what a      *)
(* short big blind makes the others pay is a rule of the room that the     *)
(* repository does not state.                                              *)
(***************************************************************************)
EXTENDS ActionLegality, HandReplay, KoEvents

CONSTANTS
  Starts,      \* the starting stacks of the hands to deal
  LastStreet,  \* bound: no betting after this street
  MaxLevel     \* bound: chips of the lines that are tried out

(* compute_position_facts refuses a hand without a player on the button.   *)
ASSUME StartsAssumption ==
  /\ Button \notin SittingOut
  /\ \A stacks \in Starts : stacks \in [Seats -> Nat] /\ stacks[Button] > 0
ASSUME StreetAssumption == LastStreet \in BettingStreets /\ MaxLevel \in Nat

VARIABLES
  start,       \* starting stacks
  table,       \* the dealer's state
  annotation,  \* annotate_action_all_in_metadata
  engine,      \* LegalityEngine
  replay,      \* ReplayState
  ko           \* what the hero's knockout rows are looked up from

vars == <<start, table, annotation, engine, replay, ko>>

-----------------------------------------------------------------------------
(* The dealer.                                                             *)

NextSeat(from, among) ==
  CHOOSE s \in among :
    \A t \in among : (s - from - 1) % MaxSeats <= (t - from - 1) % MaxSeats

Playing == {s \in Seats : start[s] > 0 /\ s \notin SittingOut}
SmallBlindSeat(playing) ==
  IF Cardinality(playing) = 2 THEN Button ELSE NextSeat(Button, playing)
BigBlindSeat(playing) == NextSeat(SmallBlindSeat(playing), playing)

(* A street is opened by the seat to the left of this one.                 *)
OpeningPlace(street) ==
  IF street = "preflop" /\ BigBlind > 0 THEN BigBlindSeat(Playing) ELSE Button

Init ==
  /\ start \in Starts
  /\ table = [phase |-> "antes", street |-> "preflop", owing |-> Playing, stack |-> start,
              put |-> NoChips, status |-> InitialStatus(start), price |-> 0, minRaise |-> BigBlind,
              spoken |-> {}, place |-> OpeningPlace("preflop")]
  /\ annotation = AnnotationInit(start)
  /\ engine = EngineInit(start)
  /\ replay = ReplayInit(start)
  /\ ko = KoInit

(* A line of the history reaches the replays with its all-in mark.         *)
Read(line) ==
  LET marked == Annotated(annotation, line)
  IN /\ annotation' = AnnotationAfter(annotation, line)
     /\ engine' = EngineAfter(engine, marked)
     /\ replay' = ReplayAfter(replay, marked)
     /\ ko' = KoAfter(ko, start, marked)

Line(seat, type, chips) ==
  [street |-> table.street, seat |-> seat, type |-> type, chips |-> chips, allIn |-> FALSE]

Live(t) == {s \in Seats : t.status[s] = "live"}
InHand(t) == {s \in Seats : t.status[s] \in {"live", "all_in"}}

(* The seat puts chips in; in the round they count towards its level.      *)
Pay(t, seat, chips, inRound) ==
  [t EXCEPT !.stack[seat] = @ - chips,
            !.put[seat] = IF inRound THEN @ + chips ELSE @,
            !.status[seat] = IF t.stack[seat] = chips THEN "all_in" ELSE @]

(* A seat posts what is due, or what it has; no line when it has nothing.  *)
Posted(seat, type, due, phase) ==
  LET chips == Atmost(due, table.stack[seat])
      paid == Pay(table, seat, chips, type # "post_ante")
  IN /\ IF chips = 0 THEN UNCHANGED <<annotation, engine, replay, ko>>
                     ELSE Read(Line(seat, type, chips))
     /\ table' = [paid EXCEPT !.phase = phase, !.owing = @ \ {seat},
                              !.price = Max({@, paid.put[seat]})]
     /\ UNCHANGED start

(* The antes from the button on, then the blinds.                          *)
PostAnte ==
  /\ table.phase = "antes"
  /\ LET s == NextSeat(Button - 1, table.owing)
     IN Posted(s, "post_ante", Ante, IF table.owing = {s} THEN "small blind" ELSE "antes")
PostSmallBlind ==
  /\ table.phase = "small blind"
  /\ Posted(SmallBlindSeat(Playing), "post_sb", SmallBlind, "big blind")
PostBigBlind ==
  /\ table.phase = "big blind"
  /\ Posted(BigBlindSeat(Playing), "post_bb", BigBlind, "betting")
Post == PostAnte \/ PostSmallBlind \/ PostBigBlind

(* Who still has to speak, and when the betting of the street is over.     *)
Awaited(t) == {s \in Live(t) : s \notin t.spoken \/ t.put[s] < t.price}
BettingOver(t) ==
  \/ Cardinality(InHand(t)) <= 1
  \/ Awaited(t) = {}
  \/ Cardinality(Live(t)) <= 1 /\ \A s \in Live(t) : t.put[s] >= t.price
ToSpeak(t) == NextSeat(t.place, Awaited(t))

Spoke(t, seat) == [t EXCEPT !.spoken = @ \cup {seat}, !.place = seat]

(* What the seat may do when it is its turn, by the rules.                 *)
CallChips(t, seat) == Atmost(t.price - t.put[seat], t.stack[seat])
MayRaiseTo(t, seat, level) ==
  /\ level > t.price
  /\ level <= t.put[seat] + t.stack[seat]
  /\ level - t.price >= t.minRaise \/ level = t.put[seat] + t.stack[seat]
  /\ seat \notin t.spoken
Allowed(t, seat, type, chips) ==
  /\ t.phase = "betting" /\ ~BettingOver(t) /\ seat = ToSpeak(t)
  /\ CASE type = "fold" -> TRUE
       [] type = "check" -> t.put[seat] = t.price
       [] type = "call" -> t.put[seat] < t.price /\ chips = CallChips(t, seat)
       [] type = "bet" -> t.put[seat] = t.price /\ MayRaiseTo(t, seat, t.put[seat] + chips)
       [] type = "raise_to" -> MayRaiseTo(t, seat, chips)

Raised(t, seat, level) ==
  LET full == level - t.price >= t.minRaise
      paid == Pay(t, seat, level - t.put[seat], TRUE)
  IN [paid EXCEPT !.price = level,
                  !.minRaise = IF full THEN level - t.price ELSE @,
                  !.spoken = IF full THEN {seat} ELSE @ \cup {seat},
                  !.place = seat]

Act ==
  /\ table.phase = "betting" /\ ~BettingOver(table)
  /\ LET s == ToSpeak(table)
     IN \/ /\ Read(Line(s, "fold", 0))
           /\ table' = [Spoke(table, s) EXCEPT !.status[s] = "folded"]
        \/ /\ Allowed(table, s, "check", 0)
           /\ Read(Line(s, "check", 0))
           /\ table' = Spoke(table, s)
        \/ LET chips == CallChips(table, s)
           IN /\ Allowed(table, s, "call", chips)
              /\ Read(Line(s, "call", chips))
              /\ table' = Spoke(Pay(table, s, chips, TRUE), s)
        \/ \E level \in 1..table.put[s] + table.stack[s] :
             /\ MayRaiseTo(table, s, level)
             /\ Read(IF table.price = 0 THEN Line(s, "bet", level - table.put[s])
                                        ELSE Line(s, "raise_to", level))
             /\ table' = Raised(table, s, level)
  /\ UNCHANGED start

(* What nobody can match goes back to the seat that put it in.             *)
Uncalled == {s \in InHand(table) : Overage(table.put, s) > 0}
ReturnUncalled ==
  /\ table.phase = "betting" /\ BettingOver(table)
  /\ \E s \in Uncalled :
       LET back == Overage(table.put, s)
       IN /\ Read(Line(s, "return_uncalled", back))
          /\ table' = [table EXCEPT !.stack[s] = @ + back, !.put[s] = @ - back,
                                    !.price = table.put[s] - back, !.status[s] = "live"]
  /\ UNCHANGED start

NextOf == [preflop |-> "flop", flop |-> "turn", turn |-> "river"]

(* The board, which is no line of a player, or the showdown.               *)
NextStreet ==
  /\ table.phase = "betting" /\ BettingOver(table) /\ Uncalled = {}
  /\ IF Cardinality(InHand(table)) > 1 /\ table.street \notin {LastStreet, "river"}
     THEN table' = [table EXCEPT
            !.street = NextOf[@],
            !.put = NoChips, !.price = 0, !.minRaise = BigBlind, !.spoken = {}, !.place = Button]
     ELSE table' = [table EXCEPT !.phase = "showdown", !.street = "showdown"]
  /\ UNCHANGED <<start, annotation, engine, replay, ko>>

Showdown ==
  /\ table.phase = "showdown"
  /\ \E s \in InHand(table), type \in {"show", "muck", "collect"} :
       /\ Read(Line(s, type, 0))
       /\ table' = [table EXCEPT !.phase = IF type = "collect" THEN "over" ELSE @]
  /\ UNCHANGED start

Next == Post \/ Act \/ ReturnUncalled \/ NextStreet \/ Showdown

Spec == Init /\ [][Next]_vars

-----------------------------------------------------------------------------
(* Properties.                                                             *)

Chips == 0..MaxLevel

(* A hand dealt by the rules is never reported: no issue, no fail-safe, no *)
(* action missing at the end of a street, whatever the stacks, short       *)
(* all-ins, walks and refunds of the hand.                                 *)
LegalHandPasses == engine.issues = {} /\ ~replay.invalid

(* And nothing else passes: of all lines a player could have at this point *)
(* of the hand, the engine reports exactly those the rules forbid, whoever *)
(* acts, in or out of turn, with whatever amount.                          *)
TriedLines(types) ==
  {Annotated(annotation, Line(s, type, chips)) : s \in Seats, type \in types, chips \in Chips}
EngineDecides ==
  table.phase = "betting" /\ ~BettingOver(table) =>
    \A line \in TriedLines({"call", "bet", "raise_to"}) \cup
                 {Annotated(annotation, Line(s, type, 0)) : s \in Seats, type \in {"fold", "check"}} :
      (EngineAfter(engine, line).issues = {}) <=> Allowed(table, line.seat, line.type, line.chips)

(* The money of a player is in front of him or committed, on some street,  *)
(* and the round holds no more than that.                                  *)
Accounted(r) ==
  \A s \in Seats :
    /\ r.stack[s] >= 0 /\ 0 <= r.contrib[s] /\ r.contrib[s] <= r.committed[s]
    /\ r.stack[s] + r.committed[s] = start[s]

(* The three replays and the dealer count the same chips; what a player    *)
(* committed is what he lacks, split between the streets it was bet on.    *)
ReplaysAgree ==
  /\ Accounted(replay)
  /\ annotation.stack = table.stack /\ engine.stack = table.stack /\ replay.stack = table.stack
  /\ engine.status = table.status /\ replay.status = table.status
  /\ \A s \in Seats :
       replay.committed[s] =
         replay.byStreet[s]["preflop"] + replay.byStreet[s]["flop"]
         + replay.byStreet[s]["turn"] + replay.byStreet[s]["river"]

(* The all-in snapshot freezes the end of the betting: once it is taken    *)
(* nobody bets any more on this street or a later one, and what is taken   *)
(* back afterwards was never called.  It may be taken by that return       *)
(* itself: see ReturnTakesNoSnapshot.                                      *)
SnapshotIsTerminal ==
  replay.snapshot.taken =>
    /\ BettingOver(table)
    /\ Cardinality(InHand(table)) >= 2
    /\ \A s, t \in InHand(table) :
         replay.snapshot.committed[s] > replay.committed[s] =>
           replay.committed[s] >= replay.committed[t]

(* When the betting ends with somebody all-in and at most one player who   *)
(* still has chips, the moment is not missed: the snapshot is taken by the *)
(* line that ends it.  (Unless that player never spoke on the street: the  *)
(* replay still waits for him and the hand may run out without snapshot.)  *)
RunoutHasSnapshot ==
  (/\ table.phase = "betting" /\ BettingOver(table)
   /\ Cardinality(InHand(table)) >= 2 /\ Cardinality(Live(table)) <= 1
   /\ Live(table) \subseteq table.spoken)
    => replay.snapshot.taken

(* When the hands are shown, the hero's knockout attempts are among the    *)
(* all-in players he covers and faces, and each of these is counted as an  *)
(* opportunity; when the hero is all-in himself each is an attempt.  (A    *)
(* player who calls all-in after the hero's last bet is an opportunity the *)
(* hero may win without an attempt.)                                       *)
KnockoutsAreConfrontations ==
  table.phase = "showdown" =>
    LET faced == {t \in Targets(start) : /\ {Hero, t} \subseteq InHand(table)
                                         /\ table.status[t] = "all_in"}
        attempts == KoAttempts(ko, start)
    IN /\ attempts \subseteq faced
       /\ faced \subseteq KoOpportunities(ko, start)
       /\ table.status[Hero] = "all_in" => faced \subseteq attempts

-----------------------------------------------------------------------------
(* What a text of the repository says and the code does not do.            *)

(* exact_core_contract.md: the return of an uncalled bet does not create   *)
(* the terminal all-in snapshot after the fact.  (A player who never spoke *)
(* on the street is awaited until the return, and the return clears him.)  *)
ReturnTakesNoSnapshot ==
  [][ReturnUncalled => replay'.snapshot = replay.snapshot]_vars
=============================================================================
