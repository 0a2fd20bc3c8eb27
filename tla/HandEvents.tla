----------------------------- MODULE HandEvents -----------------------------
(***************************************************************************)
(* The seats of a table, the lines of a hand history and the money moves   *)
(* they stand for: what the three replays of a hand (the all-in annotation *)
(* of the parser, the legality engine, the normalizer) have in common.     *)
(*                                                                         *)
(* A player is told by the seat.  A line that belongs to no player (board, *)
(* headers) changes nothing but the street of the lines after it, so only  *)
(* the lines of players are kept, each with its street.  "showdown" stands *)
(* for the showdown and the summary.                                       *)
(***************************************************************************)
EXTENDS Integers, Sequences, FiniteSets, SequencesExt, FiniteSetsExt

CONSTANTS
  MaxSeats,    \* seats are 1..MaxSeats
  Button,      \* the button's seat
  SittingOut,  \* seats marked "is sitting out"
  SmallBlind, BigBlind, Ante

ASSUME TableAssumption ==
  /\ MaxSeats \in Nat /\ MaxSeats >= 2
  /\ Button \in 1..MaxSeats
  /\ SittingOut \subseteq 1..MaxSeats
  /\ SmallBlind \in Nat /\ BigBlind \in Nat /\ Ante \in Nat

Seats == 1..MaxSeats
StreetOrder == <<"preflop", "flop", "turn", "river", "showdown">>
BettingStreets == {"preflop", "flop", "turn", "river"}
Streets == BettingStreets \cup {"showdown"}
Statuses == {"live", "all_in", "folded", "eliminated"}

Posts == {"post_ante", "post_sb", "post_bb", "post_dead"}
Voluntary == {"fold", "check", "call", "bet", "raise_to"}
ActionTypes == Posts \cup Voluntary \cup {"return_uncalled", "collect", "show", "muck"}

(* chips is the amount of the line, or the level a raise goes to.          *)
Lines == [street : Streets, seat : Seats, type : ActionTypes, chips : Nat, allIn : BOOLEAN]

AtLeast0(n) == IF n > 0 THEN n ELSE 0
Atmost(a, b) == IF a < b THEN a ELSE b
NoChips == [s \in Seats |-> 0]

InitialStatus(start) ==
  [s \in Seats |-> IF start[s] > 0 /\ s \notin SittingOut THEN "live" ELSE "eliminated"]

-----------------------------------------------------------------------------
(* Seats in a row.  Only keeps those that are in a set, in their order; it *)
(* is SelectSeq with a set for the test, so that lemmas can speak of it.   *)

Only(order, seats) ==
  LET kept[i \in 0..Len(order)] ==
        IF i = 0 THEN <<>>
        ELSE IF order[i] \in seats THEN Append(kept[i - 1], order[i]) ELSE kept[i - 1]
  IN kept[Len(order)]

(* compute_position_facts: the active seats clockwise from the button.     *)

RotateLeft(order, k) ==
  [i \in 1..Len(order) |-> order[((i - 1 + k) % Len(order)) + 1]]

ActiveOrder(active) ==
  Only([i \in 1..MaxSeats |-> ((Button + i - 2) % MaxSeats) + 1], active)

(* Heads-up, the button posts the small blind and acts first preflop.      *)
PreflopOrder(order) == IF Len(order) = 2 THEN order ELSE RotateLeft(order, 3)
PostflopOrder(order) == IF Len(order) = 2 THEN Reverse(order) ELSE RotateLeft(order, 1)

Following(order, seat) ==
  LET at == SelectInSeq(order, LAMBDA s : s = seat)
  IN IF at = 0 THEN order ELSE Tail(RotateLeft(order, at - 1))

-----------------------------------------------------------------------------
(* What a line takes from a player who has put contrib into the round, and *)
(* whether that counts towards the betting round.                          *)

Delta(line, contrib) ==
  CASE line.type \in Posts \cup {"call", "bet"} -> line.chips
    [] line.type = "raise_to" -> AtLeast0(line.chips - contrib)
    [] OTHER -> 0
CountsInRound(type) == type # "post_ante"

(* The status of the player of a line, once its chips have moved.          *)
StatusAfter(was, line, stack) ==
  IF was = "eliminated" THEN was
  ELSE IF was = "folded" \/ line.type = "fold" THEN "folded"
  ELSE IF line.allIn \/ stack[line.seat] = 0 THEN "all_in"
  ELSE "live"

(* How much more than everybody else the seat has put into the round.      *)
Overage(contrib, seat) ==
  AtLeast0(contrib[seat] - Max({0} \cup {contrib[s] : s \in Seats \ {seat}}))
=============================================================================
