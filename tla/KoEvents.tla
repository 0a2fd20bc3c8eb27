------------------------------ MODULE KoEvents ------------------------------
(* The knockout attempts and opportunities of the hero (parser_worker,     *)
(* compute_rows.rs), which the statistics count.  The code looks them up   *)
(* in the finished hand by line numbers; here ko keeps, line by line, what *)
(* those searches compare.                                                 *)
EXTENDS HandEvents

CONSTANT Hero  \* the seat of the hero

ASSUME HeroAssumption == Hero \in Seats

(* target_seat_rows: the players the hero covers.                          *)
Targets(start) == {s \in Seats \ {Hero} : 0 < start[s] /\ start[s] <= start[Hero]}

KoInit ==
  [folded |-> FALSE,    \* the hero has folded
   pushed |-> FALSE,    \* the hero is all-in, or has bet nine tenths of his stack
   early |-> {},        \* targets that folded before the hero pushed
   allIn |-> {},        \* targets that went all-in of their own accord
   late |-> {},         \* those of them that did so after the hero's fold
   answered |-> {},     \* those the hero put chips in after
   posted |-> NoChips,  \* antes and blinds
   forced |-> {}]       \* targets whose posts took the whole stack

PutsIn(line) == line.type \in {"call", "bet", "raise_to"}

(* first_hero_push_trigger *)
IsPush(start, line) ==
  line.allIn \/ (line.type \in {"bet", "raise_to"} /\ 10 * line.chips >= 9 * start[Hero])
HeroSpoke(ko, start, line) ==
  [ko EXCEPT !.folded = @ \/ line.type = "fold",
             !.pushed = @ \/ IsPush(start, line),
             !.answered = IF PutsIn(line) \/ line.allIn THEN ko.allIn ELSE @]

(* target_action_facts *)
TargetSpoke(ko, start, line) ==
  LET s == line.seat
      goesAllIn == PutsIn(line) /\ line.allIn /\ s \notin ko.allIn
      posted == IF line.type \in Posts THEN ko.posted[s] + line.chips ELSE ko.posted[s]
  IN [ko EXCEPT !.early = IF line.type = "fold" /\ ~ko.pushed THEN @ \cup {s} ELSE @,
                !.allIn = IF goesAllIn THEN @ \cup {s} ELSE @,
                !.late = IF goesAllIn /\ ko.folded THEN @ \cup {s} ELSE @,
                !.posted[s] = posted,
                !.forced = IF posted >= start[s] THEN @ \cup {s} ELSE @]

KoAfter(ko, start, line) ==
  IF line.seat = Hero THEN HeroSpoke(ko, start, line)
  ELSE IF line.seat \in Targets(start) THEN TargetSpoke(ko, start, line)
  ELSE ko

DealtIn(ko) == TRUE  \* the fold is not looked at
StillIn(ko) == ~ko.folded

(* build_hand_ko_attempt_rows, build_hand_ko_opportunity_rows *)
KoAttempts(ko, start) ==
  {t \in Targets(start) :
     /\ StillIn(ko)
     /\ IF ko.pushed THEN t \notin ko.early /\ t \in ko.allIn \cup ko.forced
        ELSE IF t \in ko.allIn THEN t \in ko.answered
        ELSE t \in ko.forced}
KoOpportunities(ko, start) ==
  {t \in Targets(start) : IF t \in ko.allIn THEN t \notin ko.late ELSE t \in ko.forced}
=============================================================================
