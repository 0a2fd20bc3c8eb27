-------------------------- MODULE HandTableProofs --------------------------
(***************************************************************************)
(* A hand dealt by the rules, for every table, blinds and stacks: the      *)
(* replays count the dealer's chips, the all-in snapshot marks the end of  *)
(* the betting, the knockouts counted are those of players the hero faces, *)
(* and the engine passes what the rules allow and reports what they        *)
(* forbid.                                                                 *)
(*                                                                         *)
(* The invariant has four parts.  DealerInv is about the table alone: who  *)
(* still bets has put in as much as anybody on the streets before.         *)
(* BooksInv says that the replays have read the dealer's books, a street   *)
(* late if nobody spoke on it yet.  AwaitInv says that the normalizer      *)
(* awaits whom the dealer awaits, but for the moment after a refund, when  *)
(* it awaits nobody.  SnapshotInv is what the last two make of the         *)
(* snapshot.  The knockouts, the prices of the engine and the seats it     *)
(* lets act have invariants of their own further down: KoInv, PriceInv and *)
(* TurnInv.                                                                *)
(***************************************************************************)
EXTENDS HandTable, HandLineProofs, FiniteSetTheorems, WellFoundedInduction

TableFields ==
  {"phase", "street", "owing", "stack", "put", "status", "price", "minRaise", "spoken", "place"}
Posting == {"antes", "small blind", "big blind"}
Phases == Posting \cup {"betting", "showdown", "over"}

TableShape(t) ==
  /\ DOMAIN t = TableFields
  /\ t.phase \in Phases /\ t.street \in Streets /\ t.owing \subseteq Playing
  /\ t.stack \in [Seats -> Nat] /\ t.put \in [Seats -> Nat]
  /\ t.status \in [Seats -> Statuses]
  /\ t.price \in Nat /\ t.spoken \subseteq Seats /\ t.place \in Seats

(* Chips tell who still plays, and the price is what the round costs.      *)
Solvent(t) ==
  \A s \in Seats :
    /\ t.status[s] = "live" => t.stack[s] > 0
    /\ t.status[s] = "all_in" => t.stack[s] = 0
    /\ t.put[s] <= t.price

(* Before the betting nobody has spoken or folded.                         *)
Dealt(t) ==
  t.phase \in Posting =>
    /\ t.spoken = {} /\ t.street = "preflop"
    /\ \A s \in Seats : t.status[s] \in IF s \in Playing THEN {"live", "all_in"} ELSE {"eliminated"}

(* The antes of those that do not owe theirs any more.                     *)
Anted(t) ==
  t.phase = "antes" =>
    /\ t.owing # {} /\ t.put = NoChips
    /\ \A s \in Seats :
         start[s] - t.stack[s] = IF s \in Playing \ t.owing THEN Atmost(Ante, start[s]) ELSE 0

(* What a seat put in before this round: nobody put in more than those     *)
(* that still bet, or did on this street.                                  *)
Before(t, s) == start[s] - t.stack[s] - t.put[s]
Leveled(t) ==
  t.phase # "antes" /\ t.street # "showdown" =>
    \A s, u \in Seats :
      t.status[s] = "live" \/ t.put[s] > 0 => Before(t, u) <= Before(t, s)

Shown(t) == t.phase \in {"showdown", "over"} <=> t.street = "showdown"

Dealer(t) == TableShape(t) /\ Shown(t) /\ Solvent(t) /\ Dealt(t) /\ Anted(t) /\ Leveled(t)
DealerInv == start \in Starts /\ Dealer(table)

(* The streets a replay may be on when the dealer is on a street.          *)
Reached(street) ==
  CASE street = "preflop" -> {"preflop"}
    [] street = "flop" -> {"preflop", "flop"}
    [] street = "turn" -> {"preflop", "flop", "turn"}
    [] OTHER -> BettingStreets

InStep(state) ==
  table.street # "showdown" =>
    /\ state.street \in Reached(table.street)
    /\ RoundOf(state, table.street) = table.put

BooksInv ==
  /\ AnnotationShape(annotation) /\ EngineShape(engine) /\ ReplayShape(replay)
  /\ Kept(replay, start)
  /\ ~replay.invalid /\ ~Reported(engine)
  /\ annotation.stack = table.stack /\ engine.stack = table.stack /\ replay.stack = table.stack
  /\ engine.status = table.status /\ replay.status = table.status
  /\ InStep(annotation) /\ InStep(engine) /\ InStep(replay)

(* At most one player still has chips, and he owes none.                   *)
Lone(t) == Cardinality(Live(t)) <= 1 /\ \A s \in Live(t) : t.put[s] >= t.price

Pending == AwaitedOn(replay, table.street)
AwaitInv ==
  table.street # "showdown" =>
    \/ Pending = Awaited(table)
    \/ /\ table.phase = "betting" /\ Pending = {} /\ Lone(table)
       /\ replay.snapshot.taken \/ Cardinality(InHand(table)) <= 1

Settled ==
  \A s, t \in InHand(table) :
    replay.snapshot.committed[s] > replay.committed[s] => replay.committed[s] >= replay.committed[t]

SnapshotInv ==
  /\ replay.snapshot.taken =>
       /\ Lone(table) /\ Cardinality(InHand(table)) >= 2 /\ Settled
       /\ table.phase \in Posting => Live(table) = {}
  /\ (/\ table.street # "showdown" /\ BettingOver(table)
      /\ Cardinality(InHand(table)) >= 2 /\ Cardinality(Live(table)) <= 1
      /\ Live(table) \subseteq table.spoken)
     => replay.snapshot.taken

TableInv == DealerInv /\ BooksInv /\ AwaitInv /\ SnapshotInv

-----------------------------------------------------------------------------
(* Seats.                                                                  *)

(* The assumptions about the constants.                                    *)
LEMMA Constants ==
  /\ MaxSeats \in Nat \ {0} /\ Seats = 1..MaxSeats /\ Button \in Seats
  /\ SmallBlind \in Nat /\ BigBlind \in Nat /\ Ante \in Nat
BY TableAssumption DEF Seats

(* The button plays every hand that is dealt.                              *)
LEMMA ButtonPlays ==
  ASSUME start \in Starts
  PROVE  start \in [Seats -> Nat] /\ Button \in Playing /\ Playing \subseteq Seats
BY StartsAssumption, Constants DEF Playing

(* At most one seat, and none, told without counting.                      *)
LEMMA FewSeats ==
  ASSUME NEW S, S \subseteq Seats
  PROVE  /\ Cardinality(S) \in Nat
         /\ Cardinality(S) = 0 <=> S = {}
         /\ Cardinality(S) <= 1 <=> \A s, u \in S : s = u
<1>1. IsFiniteSet(S)
  <2>1. MaxSeats \in Int /\ IsFiniteSet(1..MaxSeats)
    BY Constants, FS_Interval
  <2> QED BY <2>1, Constants, FS_Subset
<1>2. Cardinality(S) \in Nat /\ (Cardinality(S) = 0 <=> S = {})
  BY <1>1, FS_CardinalityType, FS_EmptySet
<1>3. Cardinality(S) = 1 => \A s, u \in S : s = u
  BY <1>1, FS_Singleton
<1>4. ASSUME \A s, u \in S : s = u, S # {} PROVE Cardinality(S) = 1
  <2>1. PICK s \in S : TRUE
    BY <1>4
  <2>2. S = {s}
    BY <1>4, <2>1
  <2> QED BY <2>2, FS_Singleton
<1> QED BY <1>2, <1>3, <1>4

(* The next of some seats is one of them.                                  *)
LEMMA NextSeatIsOne ==
  ASSUME NEW from \in Int, NEW among, among \subseteq Seats, among # {}
  PROVE  NextSeat(from, among) \in among
<1> DEFINE far(s) == (s - from - 1) % MaxSeats
           steps == {far(s) : s \in among}
           less == OpToRel(<, Nat)
<1>1. \A s \in Seats : far(s) \in Nat
  BY Constants
<1> HIDE DEF far
<1>2. steps \subseteq Nat /\ steps # {}
  BY <1>1
<1>3. PICK d \in steps : \A e \in steps : ~(<<e, d>> \in less)
  BY <1>2, WFMin, NatLessThanWellFounded
<1>4. \A m, n \in Nat : m < n => <<m, n>> \in less
  BY DEF OpToRel
<1> HIDE DEF steps, less
<1>5. \A e \in steps : d <= e
  <2> SUFFICES ASSUME NEW e \in steps PROVE d <= e
    OBVIOUS
  <2>1. d \in Nat /\ e \in Nat /\ ~(e < d)
    BY <1>2, <1>3, <1>4
  <2> QED BY <2>1
<1>6. PICK s \in among : d = far(s)
  BY <1>3 DEF steps
<1>7. \A u \in among : far(s) <= far(u)
  BY <1>5, <1>6 DEF steps
<1> QED BY <1>7 DEF NextSeat, far

(* The maximum of two numbers.                                             *)
LEMMA MaxOfTwo ==
  ASSUME NEW a \in Nat, NEW b \in Nat
  PROVE  Max({a, b}) = IF a >= b THEN a ELSE b
<1> DEFINE m == IF a >= b THEN a ELSE b
<1>1. m \in {a, b} /\ \A y \in {a, b} : m >= y
  OBVIOUS
<1>2. \A x \in {a, b} : (\A y \in {a, b} : x >= y) => x = m
  OBVIOUS
<1> QED BY <1>1, <1>2 DEF Max

(* Some of the seats has the most chips.                                   *)
LEMMA MostChips ==
  ASSUME NEW c \in [Seats -> Nat], NEW U, U \subseteq Seats, U # {}
  PROVE  \E u \in U : \A w \in U : c[w] <= c[u]
<1> DEFINE richer(u) == {w \in U : c[w] > c[u]}
           sets == {richer(u) : u \in U}
           R == StrictSubsetOrdering(Seats)
<1>1. IsFiniteSet(Seats)
  BY Constants, FS_Interval
<1>2. sets \subseteq SUBSET Seats /\ sets # {}
  OBVIOUS
<1>3. IsWellFoundedOn(R, SUBSET Seats)
  BY <1>1, FS_StrictSubsetOrderingWellFounded, FS_FiniteSubsetsOfFinite
<1> HIDE DEF R
<1>4. PICK least \in sets : \A other \in sets : ~(<<other, least>> \in R)
  <2> HIDE DEF sets
  <2> QED BY <1>2, <1>3, WFMin
<1>5. PICK u \in U : least = richer(u)
  BY <1>4
<1>6. ASSUME NEW w \in U, c[w] > c[u] PROVE FALSE
  <2>1. c[w] \in Nat /\ c[u] \in Nat /\ \A x \in U : c[x] \in Nat
    OBVIOUS
  <2>2. richer(w) \subseteq richer(u)
    BY <1>6, <2>1
  <2>3. w \in richer(u) /\ w \notin richer(w)
    BY <1>6, <2>1
  <2>4. <<richer(w), richer(u)>> \in R
    <3>1. richer(w) \in SUBSET Seats /\ richer(u) \in SUBSET Seats
      OBVIOUS
    <3> HIDE DEF richer
    <3> QED BY <2>2, <2>3, <3>1 DEF R, StrictSubsetOrdering
  <2> QED BY <1>4, <1>5, <2>4
<1>7. \A w \in U : c[w] \in Nat /\ c[u] \in Nat
  OBVIOUS
<1> QED BY <1>6, <1>7

(* What a seat put in above all others.                                    *)
LEMMA OverageBounds ==
  ASSUME NEW c \in [Seats -> Nat], NEW s \in Seats
  PROVE  /\ Overage(c, s) \in Nat /\ Overage(c, s) <= c[s]
         /\ Overage(c, s) > 0 => \A u \in Seats \ {s} : c[u] <= c[s] - Overage(c, s)
<1> DEFINE U == Seats \ {s}
           S == {0} \cup {c[u] : u \in U}
<1>1. S \subseteq Nat /\ \A u \in U : c[u] \in S
  OBVIOUS
<1>2. \E m \in S : \A y \in S : m >= y
  <2>1. CASE U = {}
    <3>1. S = {0}
      BY <2>1
    <3> QED BY <3>1
  <2>2. CASE U # {}
    <3>1. PICK u \in U : \A w \in U : c[w] <= c[u]
      BY <2>2, MostChips
    <3>2. c[u] \in S /\ c[u] \in Nat
      BY <3>1
    <3>3. \A y \in S : y = 0 \/ \E w \in U : y = c[w]
      OBVIOUS
    <3>4. \A y \in S : c[u] >= y
      BY <1>1, <3>1, <3>2, <3>3
    <3> QED BY <3>2, <3>4
  <2> QED BY <2>1, <2>2
<1>3. PICK m : m = Max(S)
  OBVIOUS
<1> HIDE DEF S
<1>4. m \in S /\ \A y \in S : m >= y
  BY <1>2, <1>3 DEF Max
<1>5. Overage(c, s) = AtLeast0(c[s] - m)
  BY <1>3 DEF Overage, S
<1>6. /\ m \in Nat /\ c[s] \in Nat
      /\ \A u \in U : c[u] \in Nat /\ c[u] <= m
  BY <1>1, <1>4
<1> QED BY <1>5, <1>6 DEF AtLeast0

-----------------------------------------------------------------------------
(* A line reaches the replays.                                             *)

(* What the mark of a line changes of the status: nothing, as it is true   *)
(* of the stack.                                                           *)
LEMMA MarkedStatus ==
  ASSUME NEW line, NEW marked, NEW stack, NEW was, ~line.allIn,
         marked.seat = line.seat, marked.type = line.type,
         marked.allIn => stack[line.seat] = 0
  PROVE  StatusAfter(was, marked, stack) = StatusAfter(was, line, stack)
BY DEF StatusAfter

(* A line that all replays accept moves the same chips in each.            *)
LEMMA LineRead ==
  ASSUME start \in [Seats -> Nat], BooksInv,
         NEW line \in Lines, ~line.allIn, Read(line), NEW stack,
         annotation.street \in BettingStreets \/ line.street = "showdown",
         \A state \in {annotation, engine, replay} :
           LET c == RoundOf(state, line.street)
           IN ~Refused(line, table.stack, c) /\ StackAfter(line, table.stack, c) = stack
  PROVE  /\ AnnotationShape(annotation') /\ EngineShape(engine') /\ ReplayShape(replay')
         /\ Kept(replay', start) /\ ~replay'.invalid /\ ~Reported(engine')
         /\ \A state \in {annotation', engine', replay'} :
              state.street = line.street /\ state.stack = stack
         /\ annotation'.contrib = ContribAfter(line, table.stack, RoundOf(annotation, line.street))
         /\ engine'.contrib = ContribAfter(line, table.stack, RoundOf(engine, line.street))
         /\ replay'.contrib = ContribAfter(line, table.stack, RoundOf(replay, line.street))
         /\ \A state \in {engine', replay'} :
              state.status = [table.status EXCEPT ![line.seat] =
                                StatusAfter(table.status[line.seat], line, stack)]
         /\ replay'.pending =
              LET was == AwaitedOn(replay, line.street)
              IN CASE line.type \in {"bet", "raise_to"} -> LiveIn(replay') \ {line.seat}
                   [] line.type \in {"check", "call", "fold"} ->
                        (was \cap LiveIn(replay')) \ {line.seat}
                   [] line.type = "return_uncalled" -> {}
                   [] OTHER -> was \cap LiveIn(replay')
         /\ replay'.snapshot =
              IF replay.snapshot.taken \/ ~TerminalAllIn(replay') THEN replay.snapshot
              ELSE [taken |-> TRUE, street |-> line.street,
                    committed |-> replay'.committed, status |-> replay'.status]
<1> DEFINE marked == Annotated(annotation, line)
           ca == RoundOf(annotation, line.street)
           ce == RoundOf(engine, line.street)
           cr == RoundOf(replay, line.street)
<1>0. /\ AnnotationShape(annotation) /\ EngineShape(engine) /\ ReplayShape(replay)
      /\ Kept(replay, start) /\ ~replay.invalid /\ ~Reported(engine)
      /\ annotation.stack = table.stack /\ engine.stack = table.stack /\ replay.stack = table.stack
      /\ engine.status = table.status /\ replay.status = table.status
  BY DEF BooksInv
<1>1. /\ ~Refused(line, table.stack, ca) /\ StackAfter(line, table.stack, ca) = stack
      /\ ~Refused(line, table.stack, ce) /\ StackAfter(line, table.stack, ce) = stack
      /\ ~Refused(line, table.stack, cr) /\ StackAfter(line, table.stack, cr) = stack
  OBVIOUS
<1>2. /\ annotation' = AnnotationAfter(annotation, line)
      /\ engine' = EngineAfter(engine, marked) /\ replay' = ReplayAfter(replay, marked)
  BY DEF Read
<1>3. /\ AnnotationShape(annotation') /\ annotation'.street = line.street
      /\ annotation'.stack = stack /\ annotation'.contrib = ContribAfter(line, table.stack, ca)
  BY <1>0, <1>1, <1>2, AnnotationLine
<1>4. /\ marked \in Lines /\ marked.street = line.street /\ marked.seat = line.seat
      /\ marked.type = line.type
      /\ marked.allIn => stack[line.seat] = 0
  BY <1>2, <1>3, Marked
<1>5. \A c : /\ StackAfter(marked, table.stack, c) = StackAfter(line, table.stack, c)
             /\ ContribAfter(marked, table.stack, c) = ContribAfter(line, table.stack, c)
             /\ Refused(marked, table.stack, c) <=> Refused(line, table.stack, c)
  BY Marked
<1> HIDE DEF marked, ca, ce, cr
<1>6. StatusAfter(table.status[line.seat], marked, stack)
        = StatusAfter(table.status[line.seat], line, stack)
  BY <1>4, MarkedStatus
<1>7. /\ EngineShape(engine') /\ engine'.street = line.street /\ engine'.stack = stack
      /\ engine'.contrib = ContribAfter(line, table.stack, ce)
      /\ engine'.status = [table.status EXCEPT ![line.seat] =
                             StatusAfter(table.status[line.seat], line, stack)]
      /\ ~Reported(engine')
  <2>1. RoundOf(engine, marked.street) = ce
    BY <1>4 DEF ce
  <2>2. /\ EngineShape(engine') /\ engine'.street = marked.street
        /\ engine'.stack = StackAfter(marked, engine.stack, ce)
        /\ engine'.contrib = ContribAfter(marked, engine.stack, ce)
        /\ engine'.status = [engine.status EXCEPT ![marked.seat] =
                               StatusAfter(engine.status[marked.seat], marked, engine'.stack)]
        /\ Reported(engine') <=> Reported(engine) \/ Refused(marked, engine.stack, ce)
    BY <1>0, <1>2, <1>4, <2>1, EngineLine
  <2>3. engine'.stack = stack
    BY <1>0, <1>1, <1>5, <2>2
  <2> QED BY <1>0, <1>1, <1>4, <1>5, <1>6, <2>2, <2>3
<1>8. /\ ReplayShape(replay') /\ Kept(replay', start)
      /\ replay'.street = line.street /\ replay'.stack = stack
      /\ replay'.contrib = ContribAfter(line, table.stack, cr)
      /\ replay'.status = [table.status EXCEPT ![line.seat] =
                             StatusAfter(table.status[line.seat], line, stack)]
      /\ ~replay'.invalid
  <2>1. RoundOf(replay, marked.street) = cr
    BY <1>4 DEF cr
  <2>2. /\ ReplayShape(replay') /\ Kept(replay', start) /\ replay'.street = marked.street
        /\ replay'.stack = StackAfter(marked, replay.stack, cr)
        /\ replay'.contrib = ContribAfter(marked, replay.stack, cr)
        /\ replay'.status = [replay.status EXCEPT ![marked.seat] =
                               StatusAfter(replay.status[marked.seat], marked, replay'.stack)]
        /\ replay'.invalid <=> replay.invalid \/ Refused(marked, replay.stack, cr)
    BY <1>0, <1>2, <1>4, <2>1, ReplayLine
  <2>3. replay'.stack = stack
    BY <1>0, <1>1, <1>5, <2>2
  <2> QED BY <1>0, <1>1, <1>4, <1>5, <1>6, <2>2, <2>3
<1>9. /\ replay'.pending =
           LET was == AwaitedOn(replay, line.street)
           IN CASE line.type \in {"bet", "raise_to"} -> LiveIn(replay') \ {line.seat}
                [] line.type \in {"check", "call", "fold"} ->
                     (was \cap LiveIn(replay')) \ {line.seat}
                [] line.type = "return_uncalled" -> {}
                [] OTHER -> was \cap LiveIn(replay')
      /\ replay'.snapshot =
           IF replay'.invalid \/ replay.snapshot.taken \/ ~TerminalAllIn(replay')
             THEN replay.snapshot
           ELSE [taken |-> TRUE, street |-> replay'.street,
                 committed |-> replay'.committed, status |-> replay'.status]
  <2>1. /\ replay'.pending =
             LET was == AwaitedOn(replay, marked.street)
             IN CASE marked.type \in {"bet", "raise_to"} -> LiveIn(replay') \ {marked.seat}
                  [] marked.type \in {"check", "call", "fold"} ->
                       (was \cap LiveIn(replay')) \ {marked.seat}
                  [] marked.type = "return_uncalled" -> {}
                  [] OTHER -> was \cap LiveIn(replay')
        /\ replay'.snapshot =
             IF replay'.invalid \/ replay.snapshot.taken \/ ~TerminalAllIn(replay')
               THEN replay.snapshot
             ELSE [taken |-> TRUE, street |-> replay'.street,
                   committed |-> replay'.committed, status |-> replay'.status]
    BY <1>0, <1>2, <1>4, ReplayAwaits
  <2> QED BY <1>4, <2>1
<1> QED BY <1>3, <1>7, <1>8, <1>9 DEF ca, ce, cr

-----------------------------------------------------------------------------
(* The dealer.                                                             *)

(* What Pay changes of the table.                                          *)
LEMMA PayFields ==
  ASSUME NEW t, TableShape(t), NEW s \in Seats, NEW chips, NEW inRound \in BOOLEAN
  PROVE  LET p == Pay(t, s, chips, inRound)
         IN /\ DOMAIN p = TableFields
            /\ p.stack = [t.stack EXCEPT ![s] = @ - chips]
            /\ p.put = [t.put EXCEPT ![s] = IF inRound THEN @ + chips ELSE @]
            /\ p.status = [t.status EXCEPT ![s] = IF t.stack[s] = chips THEN "all_in" ELSE @]
            /\ p.phase = t.phase /\ p.street = t.street /\ p.owing = t.owing
            /\ p.price = t.price /\ p.minRaise = t.minRaise
            /\ p.spoken = t.spoken /\ p.place = t.place
BY DEF Pay, TableShape, TableFields

(* Chips go from the stack of a seat to the round, or back.                *)
Moves(t, n, s, chips, status) ==
  /\ DOMAIN n = TableFields
  /\ n.stack = [t.stack EXCEPT ![s] = @ - chips]
  /\ n.put = [t.put EXCEPT ![s] = @ + chips]
  /\ n.status = [t.status EXCEPT ![s] = status]
  /\ n.phase \in {"small blind", "big blind", "betting"} /\ n.street = t.street
  /\ n.owing \subseteq Playing /\ n.price \in Nat /\ n.spoken \subseteq Seats /\ n.place \in Seats

(* As the rules have it: a seat that pays still bet, one that takes chips  *)
(* back has some in the round.                                             *)
Fair(t, n, s, chips, status) ==
  /\ chips <= t.stack[s] /\ 0 <= t.put[s] + chips
  /\ status = "live" => chips < t.stack[s]
  /\ status = "all_in" => chips = t.stack[s]
  /\ status = "live" \/ t.put[s] + chips > 0 => t.status[s] = "live" \/ t.put[s] > 0
  /\ \A u \in Seats : n.put[u] <= n.price

(* After the antes, that leaves everybody level.                           *)
LEMMA ChipsMove ==
  ASSUME start \in [Seats -> Nat], NEW t, Dealer(t), t.phase # "antes", t.street # "showdown",
         NEW s \in Seats, NEW chips \in Int, NEW status \in Statuses, NEW n,
         Moves(t, n, s, chips, status), Fair(t, n, s, chips, status), Dealt(n)
  PROVE  Dealer(n)
<1>1. /\ t.stack \in [Seats -> Nat] /\ t.put \in [Seats -> Nat]
      /\ t.status \in [Seats -> Statuses] /\ t.street \in Streets
  BY DEF Dealer, TableShape
<1>2. /\ n.stack[s] = t.stack[s] - chips /\ n.put[s] = t.put[s] + chips /\ n.status[s] = status
      /\ \A u \in Seats \ {s} :
           n.stack[u] = t.stack[u] /\ n.put[u] = t.put[u] /\ n.status[u] = t.status[u]
  BY <1>1 DEF Moves
<1>3. TableShape(n)
  <2>1. t.stack[s] - chips \in Nat /\ t.put[s] + chips \in Nat
    <3>1. t.stack[s] \in Nat /\ t.put[s] \in Nat
      BY <1>1
    <3> QED BY <3>1 DEF Fair
  <2>2. n.stack \in [Seats -> Nat] /\ n.put \in [Seats -> Nat] /\ n.status \in [Seats -> Statuses]
    <3>1. n.stack = [t.stack EXCEPT ![s] = t.stack[s] - chips]
      BY DEF Moves
    <3>2. n.put = [t.put EXCEPT ![s] = t.put[s] + chips]
      BY DEF Moves
    <3>3. n.status = [t.status EXCEPT ![s] = status]
      BY DEF Moves
    <3>4. n.stack \in [Seats -> Nat]
      BY <1>1, <2>1, <3>1
    <3>5. n.put \in [Seats -> Nat]
      BY <1>1, <2>1, <3>2
    <3>6. n.status \in [Seats -> Statuses]
      BY <1>1, <3>3
    <3> QED BY <3>4, <3>5, <3>6
  <2> QED BY <1>1, <2>2 DEF TableShape, Phases, Posting, Moves
<1>4. Shown(n)
  BY DEF Shown, Moves
<1>5. Solvent(n)
  BY <1>1, <1>2 DEF Solvent, Dealer, Fair
<1>6. Leveled(n)
  <2>1. ASSUME NEW u \in Seats PROVE Before(n, u) = Before(t, u)
    <3>1. start[u] \in Int /\ t.stack[u] \in Int /\ t.put[u] \in Int
      BY <1>1
    <3>2. CASE u = s
      BY <1>2, <3>1, <3>2 DEF Before
    <3>3. CASE u # s
      BY <1>2, <3>3 DEF Before
    <3> QED BY <3>2, <3>3
  <2>2. \A u \in Seats : n.status[u] = "live" \/ n.put[u] > 0 => t.status[u] = "live" \/ t.put[u] > 0
    BY <1>2 DEF Fair
  <2> QED BY <2>1, <2>2 DEF Leveled, Dealer, Moves
<1>7. Anted(n)
  BY DEF Anted, Moves
<1> QED BY <1>3, <1>4, <1>5, <1>6, <1>7 DEF Dealer

-----------------------------------------------------------------------------
(* The books.                                                              *)

(* The replay and the table tell the same players apart.                   *)
LEMMA SamePlayers ==
  ASSUME NEW r, NEW t, r.status = t.status
  PROVE  /\ LiveIn(r) = Live(t)
         /\ {s \in Seats : r.status[s] = "all_in"} \cup LiveIn(r) = InHand(t)
         /\ {s \in Seats : r.status[s] = "all_in"} = InHand(t) \ Live(t)
BY DEF LiveIn, Live, InHand

(* When the dealer moves the chips of a line before the showdown, every    *)
(* replay writes the same into its books.                                  *)
LEMMA BooksRead ==
  ASSUME start \in [Seats -> Nat], start' = start, BooksInv, table.street \in BettingStreets,
         NEW line \in Lines, ~line.allIn, line.street = table.street, Read(line),
         ~Refused(line, table.stack, table.put),
         table'.street = table.street,
         table'.stack = StackAfter(line, table.stack, table.put),
         table'.put = ContribAfter(line, table.stack, table.put),
         table'.status = [table.status EXCEPT ![line.seat] =
                            StatusAfter(table.status[line.seat], line, table'.stack)]
  PROVE  /\ BooksInv' /\ replay'.street = table.street
         /\ replay'.pending =
              CASE line.type \in {"bet", "raise_to"} -> Live(table') \ {line.seat}
                [] line.type \in {"check", "call", "fold"} ->
                     (Pending \cap Live(table')) \ {line.seat}
                [] line.type = "return_uncalled" -> {}
                [] OTHER -> Pending \cap Live(table')
         /\ replay'.snapshot =
              IF replay.snapshot.taken \/ ~TerminalAllIn(replay') THEN replay.snapshot
              ELSE [taken |-> TRUE, street |-> line.street,
                    committed |-> replay'.committed, status |-> replay'.status]
<1>1. table.street # "showdown"
  BY DEF BettingStreets
<1>2. /\ annotation.street \in BettingStreets
      /\ RoundOf(annotation, line.street) = table.put
      /\ RoundOf(engine, line.street) = table.put /\ RoundOf(replay, line.street) = table.put
  BY <1>1 DEF BooksInv, InStep, Reached, BettingStreets
<1>3. \A state \in {annotation, engine, replay} :
        LET c == RoundOf(state, line.street)
        IN ~Refused(line, table.stack, c) /\ StackAfter(line, table.stack, c) = table'.stack
  BY <1>2
<1>4. /\ AnnotationShape(annotation') /\ EngineShape(engine') /\ ReplayShape(replay')
      /\ Kept(replay', start) /\ ~replay'.invalid /\ ~Reported(engine')
      /\ \A state \in {annotation', engine', replay'} :
           state.street = line.street /\ state.stack = table'.stack
      /\ annotation'.contrib = ContribAfter(line, table.stack, RoundOf(annotation, line.street))
      /\ engine'.contrib = ContribAfter(line, table.stack, RoundOf(engine, line.street))
      /\ replay'.contrib = ContribAfter(line, table.stack, RoundOf(replay, line.street))
      /\ \A state \in {engine', replay'} :
           state.status = [table.status EXCEPT ![line.seat] =
                             StatusAfter(table.status[line.seat], line, table'.stack)]
      /\ replay'.pending =
           LET was == AwaitedOn(replay, line.street)
           IN CASE line.type \in {"bet", "raise_to"} -> LiveIn(replay') \ {line.seat}
                [] line.type \in {"check", "call", "fold"} ->
                     (was \cap LiveIn(replay')) \ {line.seat}
                [] line.type = "return_uncalled" -> {}
                [] OTHER -> was \cap LiveIn(replay')
      /\ replay'.snapshot =
           IF replay.snapshot.taken \/ ~TerminalAllIn(replay') THEN replay.snapshot
           ELSE [taken |-> TRUE, street |-> line.street,
                 committed |-> replay'.committed, status |-> replay'.status]
  BY <1>2, <1>3, LineRead
<1>5. /\ annotation'.contrib = table'.put /\ engine'.contrib = table'.put
      /\ replay'.contrib = table'.put
      /\ engine'.status = table'.status /\ replay'.status = table'.status
      /\ annotation'.street = table'.street /\ engine'.street = table'.street
      /\ replay'.street = table'.street
      /\ annotation'.stack = table'.stack /\ engine'.stack = table'.stack
      /\ replay'.stack = table'.stack
  BY <1>2, <1>4
<1>6. LiveIn(replay') = Live(table') /\ AwaitedOn(replay, line.street) = Pending
  BY <1>5, SamePlayers DEF Pending
<1>7. ASSUME NEW state, state.street = table'.street, state.contrib = table'.put
      PROVE  /\ state.street \in Reached(table'.street)
             /\ RoundOf(state, table'.street) = table'.put
  BY <1>7 DEF RoundOf, Reached, BettingStreets
<1>8. InStep(annotation)' /\ InStep(engine)' /\ InStep(replay)'
  BY <1>5, <1>7 DEF InStep
<1>9. BooksInv'
  BY <1>4, <1>5, <1>8 DEF BooksInv, AnnotationShape, EngineShape, ReplayShape, Kept, Reported
<1> QED BY <1>4, <1>5, <1>6, <1>9

(* A line that pays its seat's chips moves them to the round, or as an     *)
(* ante to nowhere in particular.                                          *)
LEMMA LinePays ==
  ASSUME NEW line \in Lines, line.type # "return_uncalled",
         NEW stack \in [Seats -> Nat], NEW put \in [Seats -> Nat],
         NEW d, d = Delta(line, put[line.seat]), d <= stack[line.seat]
  PROVE  /\ ~Refused(line, stack, put)
         /\ StackAfter(line, stack, put) = [stack EXCEPT ![line.seat] = @ - d]
         /\ ContribAfter(line, stack, put) =
              IF line.type = "post_ante" THEN put ELSE [put EXCEPT ![line.seat] = @ + d]
<1>1. Pays(line, stack, put) /\ ~Refunds(line, put)
  BY DEF Pays, Refunds
<1> QED BY <1>1 DEF Refused, StackAfter, ContribAfter, CountsInRound

(* A refund of what nobody called goes back to the stack.                  *)
LEMMA LineRefunds ==
  ASSUME NEW line \in Lines, line.type = "return_uncalled",
         NEW stack \in [Seats -> Nat], NEW put \in [Seats -> Nat],
         line.chips = Overage(put, line.seat), line.chips > 0
  PROVE  /\ ~Refused(line, stack, put)
         /\ StackAfter(line, stack, put) = [stack EXCEPT ![line.seat] = @ + line.chips]
         /\ ContribAfter(line, stack, put) = [put EXCEPT ![line.seat] = @ - line.chips]
<1>1. line.seat \in Seats
  BY DEF Lines
<1>2. Overage(put, line.seat) \in Nat /\ Overage(put, line.seat) <= put[line.seat]
  BY <1>1, OverageBounds
<1>3. Refunds(line, put)
  BY <1>2 DEF Refunds
<1> QED BY <1>3 DEF Refused, StackAfter, ContribAfter

-----------------------------------------------------------------------------
(* The snapshot.                                                           *)

(* should_capture_snapshot, told of the table: nobody is awaited, two are  *)
(* in the hand and at most one of them has chips.                          *)
LEMMA TerminalMeans ==
  ASSUME NEW r, NEW t, r.status = t.status, r.street # "showdown"
  PROVE  TerminalAllIn(r) <=>
           r.pending = {} /\ Cardinality(InHand(t)) >= 2 /\ Cardinality(Live(t)) <= 1
<1> DEFINE allIn == {s \in Seats : r.status[s] = "all_in"}
<1>1. LiveIn(r) = Live(t) /\ allIn \cup LiveIn(r) = InHand(t) /\ allIn = InHand(t) \ Live(t)
  BY SamePlayers
<1>2. Live(t) \subseteq InHand(t) /\ InHand(t) \subseteq Seats
  BY DEF Live, InHand
<1>3. /\ Cardinality(Live(t)) \in Nat
      /\ Cardinality(Live(t)) = 0 <=> Live(t) = {}
  BY <1>2, FewSeats
<1>4. InHand(t) = Live(t) /\ Cardinality(Live(t)) <= 1 => ~(Cardinality(InHand(t)) >= 2)
  BY <1>3
<1> HIDE DEF allIn
<1>5. TerminalAllIn(r) <=>
        /\ r.pending = {} /\ Cardinality(InHand(t)) >= 2
        /\ InHand(t) = allIn \/ (allIn # {} /\ Cardinality(Live(t)) = 1)
  BY <1>1 DEF TerminalAllIn, allIn
<1>6. InHand(t) = allIn <=> Live(t) = {}
  BY <1>1, <1>2
<1>7. allIn = {} => InHand(t) = Live(t)
  BY <1>1, <1>2
<1>8. Cardinality(Live(t)) <= 1 <=> Cardinality(Live(t)) = 0 \/ Cardinality(Live(t)) = 1
  BY <1>3
<1> QED BY <1>3, <1>4, <1>5, <1>6, <1>7, <1>8

(* When the normalizer awaits whom it should, the line that ends the       *)
(* betting of an all-in hand takes the snapshot, and no other line does.   *)
LEMMA SnapshotFollows ==
  ASSUME AwaitInv', table'.street # "showdown", replay'.street = table'.street,
         replay'.status = table'.status, table'.spoken \subseteq Seats,
         ReplayShape(replay'), table'.put \in [Seats -> Nat], table'.price \in Nat,
         table'.phase \in Posting => table'.spoken = {},
         NEW street, NEW status,
         replay'.snapshot =
           IF replay.snapshot.taken \/ ~TerminalAllIn(replay') THEN replay.snapshot
           ELSE [taken |-> TRUE, street |-> street,
                 committed |-> replay'.committed, status |-> status],
         replay.snapshot.taken =>
           /\ Lone(table') /\ Cardinality(InHand(table')) >= 2 /\ Settled'
           /\ table'.phase \in Posting => Live(table') = {}
  PROVE  SnapshotInv'
<1>1. /\ TerminalAllIn(replay') <=>
           /\ replay'.pending = {}
           /\ Cardinality(InHand(table')) >= 2 /\ Cardinality(Live(table')) <= 1
  BY TerminalMeans
<1>2. Pending' = replay'.pending
  BY DEF Pending, AwaitedOn
<1>3. \/ replay'.pending = Awaited(table')
      \/ /\ table'.phase = "betting" /\ replay'.pending = {} /\ Lone(table')
         /\ replay'.snapshot.taken \/ Cardinality(InHand(table')) <= 1
  BY <1>2 DEF AwaitInv, Awaited, Lone, InHand, Live
<1>4. CASE replay.snapshot.taken
  <2>1. replay'.snapshot = replay.snapshot
    BY <1>4
  <2> QED BY <1>4, <2>1 DEF SnapshotInv, Lone, InHand, Live
<1>5. CASE ~replay.snapshot.taken /\ TerminalAllIn(replay')
  <2>1. replay'.snapshot = [taken |-> TRUE, street |-> street,
                            committed |-> replay'.committed, status |-> status]
    BY <1>5
  <2>2. replay'.snapshot.taken /\ replay'.snapshot.committed = replay'.committed
    BY <2>1
  <2>3. /\ replay'.pending = {}
        /\ Cardinality(InHand(table')) >= 2 /\ Cardinality(Live(table')) <= 1
    BY <1>1, <1>5
  <2>4. Lone(table')
    <3>1. CASE Awaited(table') = {}
      <4>1. \A s \in Live(table') : ~(table'.put[s] < table'.price)
        BY <3>1 DEF Awaited
      <4>2. \A s \in Live(table') : s \in Seats
        BY DEF Live
      <4> QED BY <2>3, <4>1, <4>2 DEF Lone
    <3>2. CASE Lone(table')
      BY <3>2
    <3> QED BY <1>3, <2>3, <3>1, <3>2
  <2>5. Settled'
    <3>1. \A s \in InHand(table') : replay'.committed[s] \in Int
      BY DEF InHand, ReplayShape
    <3>2. \A s \in InHand(table') : ~(replay'.snapshot.committed[s] > replay'.committed[s])
      BY <2>2, <3>1
    <3> QED BY <3>2 DEF Settled, InHand
  <2>6. table'.phase \in Posting => Live(table') = {}
    BY <1>3, <2>3 DEF Awaited, Posting
  <2> QED BY <2>2, <2>3, <2>4, <2>5, <2>6 DEF SnapshotInv, Lone, InHand, Live
<1>6. CASE ~replay.snapshot.taken /\ ~TerminalAllIn(replay')
  <2>1. ~replay'.snapshot.taken
    BY <1>6
  <2>2. ASSUME BettingOver(table'), Cardinality(InHand(table')) >= 2,
               Cardinality(Live(table')) <= 1, Live(table') \subseteq table'.spoken
        PROVE  FALSE
    <3>1. ~(Cardinality(InHand(table')) <= 1)
      <4>1. InHand(table') \subseteq Seats
        BY DEF InHand
      <4> QED BY <2>2, <4>1, FewSeats
    <3>2. replay'.pending = Awaited(table')
      BY <1>3, <2>1, <3>1
    <3>3. Awaited(table') = {}
      <4>1. \A s \in Live(table') : s \in Seats
        BY DEF Live
      <4> QED BY <2>2, <3>1, <4>1 DEF BettingOver, Awaited
    <3> QED BY <1>1, <1>6, <2>2, <3>2, <3>3
  <2> QED BY <2>1, <2>2 DEF SnapshotInv, Lone, InHand, Live, BettingOver, Awaited
<1> QED BY <1>4, <1>5, <1>6

-----------------------------------------------------------------------------
(* The first state.                                                        *)

(* The blinds are players of the hand.                                     *)
LEMMA BlindsPlay ==
  ASSUME start \in Starts
  PROVE  /\ SmallBlindSeat(Playing) \in Playing /\ BigBlindSeat(Playing) \in Playing
         /\ \A street : OpeningPlace(street) \in Playing
<1>1. Button \in Playing /\ Playing \subseteq Seats /\ Button \in Int
  BY ButtonPlays, Constants
<1>2. SmallBlindSeat(Playing) \in Playing
  BY <1>1, NextSeatIsOne DEF SmallBlindSeat
<1>3. SmallBlindSeat(Playing) \in Int
  <2>1. \A s \in Seats : s \in Int
    BY Constants
  <2> QED BY <1>1, <1>2, <2>1
<1>4. BigBlindSeat(Playing) \in Playing
  BY <1>1, <1>2, <1>3, NextSeatIsOne DEF BigBlindSeat
<1> QED BY <1>1, <1>2, <1>4 DEF OpeningPlace

(* A hand starts with the invariant.                                       *)
LEMMA TableInitially == Init => TableInv
<1> SUFFICES ASSUME Init PROVE TableInv
  OBVIOUS
<1>1. /\ start \in Starts /\ start \in [Seats -> Nat] /\ Playing \subseteq Seats
      /\ Playing # {} /\ OpeningPlace("preflop") \in Seats
  BY ButtonPlays, BlindsPlay DEF Init
<1>2. /\ DOMAIN table = TableFields /\ table.phase = "antes" /\ table.street = "preflop"
      /\ table.owing = Playing /\ table.stack = start /\ table.put = NoChips
      /\ table.status = InitialStatus(start) /\ table.price = 0
      /\ table.spoken = {} /\ table.place = OpeningPlace("preflop")
  BY DEF Init, TableFields
<1>3. /\ NoChips \in [Seats -> Nat] /\ NoChips \in [Seats -> Int]
      /\ \A s \in Seats : NoChips[s] = 0
  BY DEF NoChips
<1>4. /\ InitialStatus(start) \in [Seats -> Statuses]
      /\ \A s \in Seats : InitialStatus(start)[s] = IF s \in Playing THEN "live" ELSE "eliminated"
  BY DEF InitialStatus, Statuses, Playing
<1>5. DealerInv
  <2>1. TableShape(table)
    BY <1>1, <1>2, <1>3, <1>4 DEF TableShape, Phases, Posting, Streets, BettingStreets
  <2>2. Shown(table) /\ Leveled(table)
    BY <1>2 DEF Shown, Leveled
  <2>3. Solvent(table)
    BY <1>1, <1>2, <1>3, <1>4 DEF Solvent, Playing
  <2>4. Dealt(table)
    BY <1>2, <1>4 DEF Dealt
  <2>5. Anted(table)
    BY <1>1, <1>2 DEF Anted
  <2> QED BY <1>1, <2>1, <2>2, <2>3, <2>4, <2>5 DEF DealerInv, Dealer
<1>6. /\ AnnotationShape(annotation) /\ annotation.street = "preflop"
      /\ annotation.stack = start /\ annotation.contrib = NoChips
  BY <1>1, <1>3 DEF Init, AnnotationInit, AnnotationShape, Streets, BettingStreets
<1>7. /\ EngineShape(engine) /\ engine.street = "preflop" /\ engine.stack = start
      /\ engine.contrib = NoChips /\ engine.status = InitialStatus(start) /\ engine.issues = {}
  <2>1. /\ engine = [f \in EngineFields |-> engine[f]]
        /\ engine.street = "preflop" /\ engine.stack = start
        /\ engine.contrib = NoChips /\ engine.status = InitialStatus(start) /\ engine.issues = {}
    BY DEF Init, EngineInit, EngineFields
  <2> QED BY <1>1, <1>3, <1>4, <2>1 DEF EngineShape, Streets, BettingStreets
<1>8. /\ ReplayShape(replay) /\ replay.street = "preflop" /\ replay.stack = start
      /\ replay.contrib = NoChips /\ replay.status = InitialStatus(start)
      /\ replay.pending = Playing /\ replay.snapshot = NoSnapshot /\ ~replay.invalid
      /\ Kept(replay, start)
  <2>1. /\ replay = [f \in ReplayFields |-> replay[f]]
        /\ replay.street = "preflop" /\ replay.stack = start
        /\ replay.contrib = NoChips /\ replay.committed = NoChips
        /\ replay.byStreet = [s \in Seats |-> [t \in BettingStreets |-> 0]]
        /\ replay.status = InitialStatus(start)
        /\ replay.pending = {s \in Seats : InitialStatus(start)[s] = "live"}
        /\ replay.snapshot = NoSnapshot /\ replay.invalid = FALSE
    BY DEF Init, ReplayInit, ReplayFields
  <2>2. {s \in Seats : InitialStatus(start)[s] = "live"} = Playing
    BY <1>1, <1>4
  <2>3. ReplayShape(replay)
    <3>1. [s \in Seats |-> [t \in BettingStreets |-> 0]] \in [Seats -> [BettingStreets -> Int]]
      OBVIOUS
    <3>2. /\ replay.stack \in [Seats -> Int] /\ replay.contrib \in [Seats -> Int]
          /\ replay.committed \in [Seats -> Int] /\ replay.status \in [Seats -> Statuses]
      BY <1>1, <1>3, <1>4, <2>1
    <3>3. replay.street \in Streets
      BY <2>1 DEF Streets, BettingStreets
    <3> QED BY <2>1, <3>1, <3>2, <3>3 DEF ReplayShape
  <2>4. Kept(replay, start)
    BY <1>1, <1>3, <2>1 DEF Kept, BettingStreets
  <2> QED BY <2>1, <2>2, <2>3, <2>4
<1>9. BooksInv
  <2>1. InStep(annotation) /\ InStep(engine) /\ InStep(replay)
    BY <1>2, <1>6, <1>7, <1>8 DEF InStep, Reached, RoundOf
  <2>2. ~Reported(engine)
    BY <1>7 DEF Reported
  <2> QED BY <1>2, <1>6, <1>7, <1>8, <2>1, <2>2 DEF BooksInv
<1>10. Live(table) = Playing /\ InHand(table) = Playing /\ Awaited(table) = Playing
  BY <1>1, <1>2, <1>4 DEF Live, InHand, Awaited
<1>11. AwaitInv
  BY <1>2, <1>8, <1>10 DEF AwaitInv, Pending, AwaitedOn
<1>12. SnapshotInv
  BY <1>1, <1>2, <1>8, <1>10 DEF SnapshotInv, NoSnapshot
<1> QED BY <1>5, <1>9, <1>11, <1>12 DEF TableInv

-----------------------------------------------------------------------------
(* The antes and the blinds.                                               *)

(* The lines the dealer writes are lines.                                  *)
LEMMA LineIsLine ==
  ASSUME TableShape(table), NEW s \in Seats, NEW type \in ActionTypes, NEW chips \in Nat
  PROVE  /\ Line(s, type, chips) \in Lines /\ ~Line(s, type, chips).allIn
         /\ Line(s, type, chips).street = table.street /\ Line(s, type, chips).seat = s
         /\ Line(s, type, chips).type = type /\ Line(s, type, chips).chips = chips
BY DEF Line, Lines, TableShape

(* What a post changes of the table.                                       *)
PostChange(seat, type, due, phase) ==
  LET chips == Atmost(due, table.stack[seat])
  IN /\ chips \in Nat /\ chips <= due /\ chips <= table.stack[seat] /\ start' = start
     /\ chips < due => chips = table.stack[seat]
     /\ DOMAIN table' = TableFields
     /\ table'.stack = [table.stack EXCEPT ![seat] = @ - chips]
     /\ table'.put = IF type = "post_ante" THEN table.put
                     ELSE [table.put EXCEPT ![seat] = @ + chips]
     /\ table'.status = [table.status EXCEPT ![seat] =
                           IF table.stack[seat] = chips THEN "all_in" ELSE @]
     /\ table'.phase = phase /\ table'.owing = table.owing \ {seat}
     /\ table'.price = IF table.price >= table'.put[seat] THEN table.price
                       ELSE table'.put[seat]
     /\ table'.street = table.street /\ table'.minRaise = table.minRaise
     /\ table'.spoken = table.spoken /\ table'.place = table.place

(* The action changes it so.                                               *)
LEMMA PostFields ==
  ASSUME DealerInv, NEW seat \in Seats, NEW type, NEW due \in Nat, NEW phase,
         Posted(seat, type, due, phase)
  PROVE  PostChange(seat, type, due, phase)
<1> DEFINE chips == Atmost(due, table.stack[seat])
           paid == Pay(table, seat, chips, type # "post_ante")
<1>1. TableShape(table) /\ (type # "post_ante") \in BOOLEAN
  BY DEF DealerInv, Dealer
<1>2. /\ DOMAIN paid = TableFields
      /\ paid.stack = [table.stack EXCEPT ![seat] = @ - chips]
      /\ paid.put = [table.put EXCEPT ![seat] = IF type # "post_ante" THEN @ + chips ELSE @]
      /\ paid.status = [table.status EXCEPT ![seat] =
                          IF table.stack[seat] = chips THEN "all_in" ELSE @]
      /\ paid.phase = table.phase /\ paid.street = table.street /\ paid.owing = table.owing
      /\ paid.price = table.price /\ paid.minRaise = table.minRaise
      /\ paid.spoken = table.spoken /\ paid.place = table.place
  BY <1>1 DEF Pay, TableShape, TableFields
<1>3. table' = [paid EXCEPT !.phase = phase, !.owing = @ \ {seat},
                            !.price = Max({@, paid.put[seat]})]
  BY DEF Posted
<1>4. /\ table.stack[seat] \in Nat /\ table.put[seat] \in Nat /\ table.price \in Nat
      /\ table.put \in [Seats -> Nat]
  BY <1>1 DEF TableShape
<1>5. /\ chips \in Nat /\ chips <= due /\ chips <= table.stack[seat]
      /\ chips < due => chips = table.stack[seat]
  BY <1>4 DEF Atmost
<1> HIDE DEF paid, chips
<1>6. /\ DOMAIN table' = TableFields
      /\ table'.stack = paid.stack /\ table'.put = paid.put /\ table'.status = paid.status
      /\ table'.phase = phase /\ table'.owing = table.owing \ {seat}
      /\ table'.price = Max({table.price, paid.put[seat]})
      /\ table'.street = paid.street /\ table'.minRaise = paid.minRaise
      /\ table'.spoken = paid.spoken /\ table'.place = paid.place
  BY <1>2, <1>3 DEF TableFields
<1>7. paid.put = IF type = "post_ante" THEN table.put ELSE [table.put EXCEPT ![seat] = @ + chips]
  BY <1>2, <1>4
<1>8. paid.put[seat] \in Nat
  <2>1. table.put[seat] + chips \in Nat
    BY <1>4, <1>5
  <2> QED BY <1>4, <1>7, <2>1
<1> QED BY <1>2, <1>4, <1>5, <1>6, <1>7, <1>8, MaxOfTwo DEF Posted, PostChange, chips

(* A post that finds nothing writes no line and moves nothing.             *)
LEMMA PostNothing ==
  ASSUME DealerInv, table.phase \in Posting, NEW seat \in Playing,
         NEW type, NEW due \in Nat, NEW phase, Posted(seat, type, due, phase),
         Atmost(due, table.stack[seat]) = 0
  PROVE  /\ UNCHANGED <<annotation, engine, replay, ko>>
         /\ table'.stack = table.stack /\ table'.put = table.put
         /\ table'.status = table.status /\ table'.price = table.price
<1>1. seat \in Seats
  BY DEF Playing
<1>2. /\ table.stack \in [Seats -> Nat] /\ table.put \in [Seats -> Nat]
      /\ table.status \in [Seats -> Statuses] /\ table.price \in Nat
  BY DEF DealerInv, Dealer, TableShape
<1>3. /\ table'.stack = [table.stack EXCEPT ![seat] = @ - 0]
      /\ table'.put = IF type = "post_ante" THEN table.put
                      ELSE [table.put EXCEPT ![seat] = @ + 0]
      /\ table'.status = [table.status EXCEPT ![seat] =
                            IF table.stack[seat] = 0 THEN "all_in" ELSE @]
      /\ table'.price = IF table.price >= table'.put[seat] THEN table.price
                        ELSE table'.put[seat]
  <2>1. PostChange(seat, type, due, phase)
    BY <1>1, PostFields
  <2> QED BY <2>1 DEF PostChange
<1>4. table'.stack = table.stack /\ table'.put = table.put
  BY <1>1, <1>2, <1>3
<1>5. table.stack[seat] = 0 => table.status[seat] = "all_in"
  BY <1>1, <1>2 DEF DealerInv, Dealer, Dealt, Solvent
<1>6. table'.status = table.status
  BY <1>1, <1>2, <1>3, <1>5
<1>7. table'.price = table.price
  <2>1. table.put[seat] <= table.price /\ table.put[seat] \in Nat
    BY <1>1, <1>2 DEF DealerInv, Dealer, Solvent
  <2> QED BY <1>2, <1>3, <1>4, <2>1
<1>8. UNCHANGED <<annotation, engine, replay, ko>>
  BY DEF Posted
<1> QED BY <1>4, <1>6, <1>7, <1>8

(* The replays keep up with a post.                                        *)
LEMMA PostStep ==
  ASSUME TableInv, table.phase \in Posting, NEW seat \in Playing,
         NEW type \in {"post_ante", "post_sb", "post_bb"}, NEW due \in Nat,
         NEW phase \in Posting \cup {"betting"}, Posted(seat, type, due, phase), Dealer(table')
  PROVE  BooksInv' /\ AwaitInv' /\ SnapshotInv'
<1> DEFINE chips == Atmost(due, table.stack[seat])
<1>0. /\ DealerInv /\ BooksInv /\ AwaitInv /\ SnapshotInv
      /\ seat \in Seats /\ start \in [Seats -> Nat] /\ TableShape(table)
  BY ButtonPlays DEF TableInv, DealerInv, Dealer, Playing
<1>1. /\ table.street = "preflop" /\ table.spoken = {}
      /\ \A s \in Seats : table.status[s] \in IF s \in Playing THEN {"live", "all_in"}
                                              ELSE {"eliminated"}
  BY <1>0 DEF DealerInv, Dealer, Dealt
<1>2. /\ chips \in Nat /\ chips <= table.stack[seat] /\ start' = start
      /\ table'.stack = [table.stack EXCEPT ![seat] = @ - chips]
      /\ table'.put = IF type = "post_ante" THEN table.put
                      ELSE [table.put EXCEPT ![seat] = @ + chips]
      /\ table'.status = [table.status EXCEPT ![seat] =
                            IF table.stack[seat] = chips THEN "all_in" ELSE @]
      /\ table'.phase = phase /\ table'.street = table.street /\ table'.spoken = table.spoken
  <2>1. PostChange(seat, type, due, phase)
    BY <1>0, PostFields
  <2> QED BY <2>1 DEF PostChange
<1>3. table.stack \in [Seats -> Nat] /\ table.put \in [Seats -> Nat]
      /\ table.status \in [Seats -> Statuses]
  BY <1>0 DEF TableShape
<1>4. Pending = Live(table)
  <2>1. Pending = Awaited(table)
    BY <1>0, <1>1 DEF AwaitInv, Posting
  <2> QED BY <1>1, <2>1 DEF Awaited
<1>5. Awaited(table') = Live(table')
  BY <1>1, <1>2 DEF Awaited
<1> HIDE DEF chips
<1>6. CASE chips = 0
  <2>1. /\ UNCHANGED <<annotation, engine, replay, ko>>
        /\ table'.stack = table.stack /\ table'.put = table.put
        /\ table'.status = table.status /\ table'.price = table.price
    BY <1>0, <1>6, PostNothing DEF chips
  <2>2. Live(table') = Live(table) /\ InHand(table') = InHand(table)
    BY <2>1 DEF Live, InHand
  <2>3. BooksInv'
    BY <1>0, <1>2, <2>1 DEF BooksInv, InStep, AnnotationShape, EngineShape, ReplayShape, Kept, Reported
  <2>4. Pending' = Awaited(table')
    BY <1>2, <1>4, <1>5, <2>1, <2>2 DEF Pending
  <2>5. AwaitInv'
    BY <2>4 DEF AwaitInv, Awaited, Live
  <2>6. SnapshotInv'
    <3>1. replay.snapshot.taken => /\ Lone(table) /\ Cardinality(InHand(table)) >= 2 /\ Settled
                                   /\ Live(table) = {}
      BY <1>0 DEF SnapshotInv
    <3>2. ASSUME replay.snapshot.taken
          PROVE  /\ Lone(table') /\ Cardinality(InHand(table')) >= 2 /\ Settled'
                 /\ Live(table') = {}
      BY <2>1, <2>2, <3>1, <3>2 DEF Lone, Settled, InHand
    <3>3. ASSUME Cardinality(InHand(table')) >= 2, Live(table') \subseteq table'.spoken
          PROVE  replay.snapshot.taken
      <4>1. Live(table) = {}
        BY <1>1, <1>2, <2>2, <3>3
      <4>2. Awaited(table) = {} /\ Cardinality(Live(table)) <= 1
        <5>1. Cardinality(Live(table)) = 0
          BY <4>1, FewSeats
        <5> QED BY <4>1, <5>1 DEF Awaited
      <4> QED BY <1>0, <1>1, <2>2, <3>3, <4>1, <4>2 DEF SnapshotInv, BettingOver
    <3> QED BY <2>1, <3>2, <3>3 DEF SnapshotInv, Lone, InHand, Live, BettingOver
  <2> QED BY <2>3, <2>5, <2>6
<1>7. CASE chips # 0
  <2> DEFINE line == Line(seat, type, chips)
  <2>1. /\ line \in Lines /\ ~line.allIn /\ line.street = table.street /\ line.seat = seat
        /\ line.type = type /\ line.chips = chips
    BY <1>0, <1>2, LineIsLine DEF ActionTypes, Posts
  <2>2. Read(line)
    BY <1>7 DEF Posted, chips
  <2> HIDE DEF line
  <2>3. chips = Delta(line, table.put[line.seat])
    BY <2>1 DEF Delta, Posts
  <2>4. /\ ~Refused(line, table.stack, table.put)
        /\ StackAfter(line, table.stack, table.put) = table'.stack
        /\ ContribAfter(line, table.stack, table.put) = table'.put
    BY <1>2, <1>3, <2>1, <2>3, LinePays
  <2>5. table.stack[seat] \in Nat /\ table.stack[seat] # 0 /\ table.status[seat] = "live"
    BY <1>0, <1>1, <1>2, <1>3, <1>7 DEF DealerInv, Dealer, Solvent
  <2>6. table'.stack[seat] = table.stack[seat] - chips
    BY <1>0, <1>2, <1>3
  <2>7. table'.status = [table.status EXCEPT ![line.seat] =
                           StatusAfter(table.status[line.seat], line, table'.stack)]
    <3>1. StatusAfter(table.status[line.seat], line, table'.stack)
            = IF table.stack[seat] = chips THEN "all_in" ELSE table.status[seat]
      BY <1>2, <2>1, <2>5, <2>6 DEF StatusAfter
    <3> QED BY <1>2, <2>1, <3>1
  <2>8. /\ BooksInv' /\ replay'.street = table.street
        /\ replay'.pending = Pending \cap Live(table')
        /\ replay'.snapshot =
             IF replay.snapshot.taken \/ ~TerminalAllIn(replay') THEN replay.snapshot
             ELSE [taken |-> TRUE, street |-> line.street,
                   committed |-> replay'.committed, status |-> replay'.status]
    <3>1. table.street \in BettingStreets
      BY <1>1 DEF BettingStreets
    <3>2. /\ BooksInv' /\ replay'.street = table.street
          /\ replay'.pending =
               CASE line.type \in {"bet", "raise_to"} -> Live(table') \ {line.seat}
                 [] line.type \in {"check", "call", "fold"} ->
                      (Pending \cap Live(table')) \ {line.seat}
                 [] line.type = "return_uncalled" -> {}
                 [] OTHER -> Pending \cap Live(table')
          /\ replay'.snapshot =
               IF replay.snapshot.taken \/ ~TerminalAllIn(replay') THEN replay.snapshot
               ELSE [taken |-> TRUE, street |-> line.street,
                     committed |-> replay'.committed, status |-> replay'.status]
      BY <1>0, <1>2, <2>1, <2>2, <2>4, <2>7, <3>1, BooksRead
    <3> QED BY <2>1, <3>2
  <2>9. Live(table') \subseteq Live(table)
    BY <1>2, <1>3, <2>5 DEF Live
  <2>10. Pending' = Awaited(table')
    BY <1>2, <1>4, <1>5, <2>8, <2>9 DEF Pending, AwaitedOn
  <2>11. AwaitInv'
    BY <2>10 DEF AwaitInv, Awaited, Live
  <2>12. ~replay.snapshot.taken
    BY <1>0, <2>5 DEF SnapshotInv, Live
  <2>13. SnapshotInv'
    <3>1. replay'.status = table'.status /\ ReplayShape(replay')
      BY <2>8 DEF BooksInv, ReplayShape
    <3>2. table'.put \in [Seats -> Nat] /\ table'.price \in Nat
      BY DEF Dealer, TableShape
    <3> QED BY <1>1, <1>2, <2>8, <2>11, <2>12, <3>1, <3>2, SnapshotFollows
  <2> QED BY <2>8, <2>11, <2>13
<1> QED BY <1>6, <1>7

(* The starting stacks stay what they are.                                 *)
LEMMA SameStart ==
  ASSUME DealerInv, start' = start, Dealer(table')
  PROVE  DealerInv'
BY DEF DealerInv, Dealer, TableShape, Shown, Solvent, Dealt, Anted, Leveled, Before, Playing

(* A round without chips.                                                  *)
LEMMA NoneIn == \A s \in Seats : ~(NoChips[s] > 0)
BY DEF NoChips

(* Naturals are integers.                                                  *)
LEMMA NaturalIsInteger == \A n \in Nat : n \in Int
OBVIOUS

(* Whoever has chips left after the antes paid no less than anybody.       *)
LEMMA AntesLevel ==
  ASSUME start \in [Seats -> Nat], NEW t, TableShape(t), t.put = NoChips,
         NEW s \in Seats, NEW u \in Seats, t.stack[s] > 0,
         start[s] - t.stack[s] = Atmost(Ante, start[s]),
         start[u] - t.stack[u] = Atmost(Ante, start[u]) \/ start[u] - t.stack[u] = 0
  PROVE  Before(t, u) <= Before(t, s)
<1>1. /\ start[s] \in Nat /\ start[u] \in Nat /\ t.stack[s] \in Nat /\ t.stack[u] \in Nat
      /\ t.put[s] = 0 /\ t.put[u] = 0 /\ Ante \in Nat
  BY Constants DEF TableShape, NoChips
<1>2. start[s] - t.stack[s] = Ante
  BY <1>1 DEF Atmost
<1>3. start[u] - t.stack[u] <= Ante
  BY <1>1 DEF Atmost
<1> QED BY <1>1, <1>2, <1>3 DEF Before

(* Once the last ante is paid, whoever still has chips paid it in full.    *)
LEMMA AnteDealer ==
  ASSUME DealerInv, PostAnte
  PROVE  \E seat \in Playing, phase \in Posting :
           Posted(seat, "post_ante", Ante, phase) /\ Dealer(table')
<1> DEFINE seat == NextSeat(Button - 1, table.owing)
           phase == IF table.owing = {seat} THEN "small blind" ELSE "antes"
           chips == Atmost(Ante, table.stack[seat])
<1>1. /\ TableShape(table) /\ table.phase = "antes" /\ table.owing # {}
      /\ Solvent(table) /\ Dealt(table) /\ start \in [Seats -> Nat]
      /\ table.put = NoChips
      /\ \A s \in Seats :
           start[s] - table.stack[s] = IF s \in Playing \ table.owing THEN Atmost(Ante, start[s])
                                       ELSE 0
  BY StartsAssumption DEF DealerInv, Dealer, Anted, PostAnte
<1>2. table.owing \subseteq Playing /\ Playing \subseteq Seats
  BY <1>1 DEF TableShape, Playing
<1>3. seat \in table.owing
  <2>1. Button - 1 \in Int
    BY Constants
  <2> QED BY <1>1, <1>2, <2>1, NextSeatIsOne
<1>4. Posted(seat, "post_ante", Ante, phase)
  BY DEF PostAnte
<1> HIDE DEF seat, phase
<1>5. PostChange(seat, "post_ante", Ante, phase)
  BY <1>2, <1>3, <1>4, Constants, PostFields
<1>6. /\ chips \in Nat /\ chips <= table.stack[seat] /\ DOMAIN table' = TableFields
      /\ table'.stack = [table.stack EXCEPT ![seat] = @ - chips] /\ table'.put = table.put
      /\ table'.status = [table.status EXCEPT ![seat] =
                            IF table.stack[seat] = chips THEN "all_in" ELSE @]
      /\ table'.phase = phase /\ table'.owing = table.owing \ {seat}
      /\ table'.price = IF table.price >= table'.put[seat] THEN table.price ELSE table'.put[seat]
      /\ table'.street = table.street /\ table'.spoken = table.spoken
      /\ table'.place = table.place
  BY <1>5 DEF PostChange
<1>7. /\ seat \in Seats /\ seat \in Playing
      /\ table.stack \in [Seats -> Nat] /\ table.stack[seat] \in Nat
      /\ table.status \in [Seats -> Statuses] /\ table.price \in Nat
      /\ \A s \in Seats : NoChips[s] = 0 /\ NoChips \in [Seats -> Nat]
  BY <1>1, <1>2, <1>3 DEF TableShape, NoChips
<1>8. chips = Atmost(Ante, start[seat])
  <2>1. start[seat] - table.stack[seat] = 0 /\ start[seat] \in Nat
    BY <1>1, <1>3, <1>7
  <2>2. start[seat] = table.stack[seat]
    BY <1>7, <2>1
  <2> QED BY <2>2
<1> HIDE DEF chips
<1>9. table'.price = table.price
  BY <1>1, <1>6, <1>7
<1>10. /\ table'.stack[seat] = table.stack[seat] - chips
       /\ table'.status[seat] = IF table.stack[seat] = chips THEN "all_in" ELSE table.status[seat]
       /\ \A s \in Seats \ {seat} :
            table'.stack[s] = table.stack[s] /\ table'.status[s] = table.status[s]
  BY <1>6, <1>7
<1>11. phase \in {"antes", "small blind"} /\ (phase = "antes" <=> table.owing # {seat})
  BY DEF phase
<1>12. TableShape(table')
  <2>1. table.stack[seat] - chips \in Nat
    BY <1>6, <1>7
  <2>2. table'.stack \in [Seats -> Nat]
    BY <1>6, <1>7, <2>1
  <2>3. table'.status \in [Seats -> Statuses]
    BY <1>6, <1>7 DEF Statuses
  <2> QED BY <1>1, <1>6, <1>7, <1>9, <1>11, <2>2, <2>3 DEF TableShape, Phases, Posting
<1>13. Shown(table')
  BY <1>1, <1>6, <1>11 DEF Shown, Dealt, Posting
<1>14. Solvent(table')
  <2>1. ASSUME NEW s \in Seats
        PROVE  /\ table'.status[s] = "live" => table'.stack[s] > 0
               /\ table'.status[s] = "all_in" => table'.stack[s] = 0
    <3>1. CASE s = seat
      <4>1. table.status[seat] \in {"live", "all_in"}
        BY <1>1, <1>7 DEF Dealt, Posting
      <4>2. table.status[seat] = "all_in" => table.stack[seat] = 0
        BY <1>1, <1>7 DEF Solvent
      <4> QED BY <1>6, <1>7, <1>10, <3>1, <4>1, <4>2
    <3>2. CASE s # seat
      BY <1>1, <1>10, <3>2 DEF Solvent
    <3> QED BY <3>1, <3>2
  <2> QED BY <1>1, <1>6, <1>9, <2>1 DEF Solvent
<1>15. Dealt(table')
  BY <1>1, <1>6, <1>7, <1>10, <1>11 DEF Dealt, Posting
<1>16. \A s \in Seats :
         start[s] - table'.stack[s] = IF s \in Playing \ table'.owing THEN Atmost(Ante, start[s])
                                      ELSE 0
  <2>1. ASSUME NEW s \in Seats
        PROVE  start[s] - table'.stack[s] = IF s \in Playing \ table'.owing
                                              THEN Atmost(Ante, start[s]) ELSE 0
    <3>1. CASE s = seat
      <4>1. start[s] \in Nat /\ start[s] - table.stack[s] = 0
        BY <1>1, <1>3, <3>1
      <4>2. seat \in Playing \ table'.owing
        BY <1>6, <1>7
      <4>3. start[s] - (table.stack[s] - chips) = chips
        BY <1>6, <1>7, <3>1, <4>1
      <4> QED BY <1>8, <1>10, <3>1, <4>2, <4>3
    <3>2. CASE s # seat
      BY <1>1, <1>6, <1>10, <3>2
    <3> QED BY <3>1, <3>2
  <2> QED BY <2>1
<1>17. Anted(table')
  BY <1>1, <1>3, <1>6, <1>11, <1>16 DEF Anted
<1>18. Leveled(table')
  <2> SUFFICES ASSUME phase = "small blind", NEW s \in Seats, NEW u \in Seats,
                      table'.status[s] = "live" \/ table'.put[s] > 0
               PROVE  Before(table', u) <= Before(table', s)
    BY <1>6, <1>11 DEF Leveled
  <2>1. table'.put = NoChips /\ table'.owing = {}
    BY <1>1, <1>3, <1>6, <1>11
  <2>2. ~(table'.put[s] > 0)
    BY <2>1, NoneIn
  <2>3. table'.status[s] = "live"
    BY <2>2
  <2>4. s \in Playing
    BY <1>6, <1>11, <1>15, <2>3 DEF Dealt, Posting
  <2>5. table'.stack[s] > 0
    BY <1>14, <2>3 DEF Solvent
  <2>6. start[s] - table'.stack[s] = Atmost(Ante, start[s])
    BY <1>16, <2>1, <2>4
  <2>7. start[u] - table'.stack[u] = Atmost(Ante, start[u]) \/ start[u] - table'.stack[u] = 0
    BY <1>16, <2>1
  <2> QED BY <1>1, <1>12, <2>1, <2>5, <2>6, <2>7, AntesLevel
<1>19. phase \in Posting
  BY <1>11 DEF Posting
<1> QED BY <1>4, <1>7, <1>12, <1>13, <1>14, <1>15, <1>17, <1>18, <1>19 DEF Dealer

(* A seat that pays into the round, at a price no lower than before.       *)
LEMMA PayIsFair ==
  ASSUME NEW t, TableShape(t), Solvent(t), NEW n, NEW seat \in Seats,
         NEW chips \in Nat, chips <= t.stack[seat],
         t.status[seat] = "live" \/ t.status[seat] = "all_in",
         n.put = [t.put EXCEPT ![seat] = @ + chips], n.price \in Nat,
         t.price <= n.price, t.put[seat] + chips <= n.price
  PROVE  Fair(t, n, seat, chips, IF t.stack[seat] = chips THEN "all_in" ELSE t.status[seat])
<1>1. /\ t.stack[seat] \in Nat /\ t.put[seat] \in Nat /\ t.put \in [Seats -> Nat]
      /\ t.price \in Nat
  BY DEF TableShape
<1>2. \A u \in Seats : t.put[u] \in Nat /\ t.put[u] <= t.price
  BY <1>1 DEF Solvent
<1>3. \A u \in Seats : n.put[u] <= n.price
  <2> SUFFICES ASSUME NEW u \in Seats PROVE n.put[u] <= n.price
    OBVIOUS
  <2>1. CASE u = seat
    BY <1>1, <2>1
  <2>2. CASE u # seat
    BY <1>1, <1>2, <2>2
  <2> QED BY <2>1, <2>2
<1>4. /\ t.status[seat] = "live" => t.stack[seat] > 0
      /\ t.status[seat] = "all_in" => t.stack[seat] = 0
  BY DEF Solvent
<1>5. t.status[seat] = "all_in" => chips = 0 /\ t.stack[seat] = chips
  BY <1>1, <1>4
<1>6. t.put[seat] + chips > 0 => t.status[seat] = "live" \/ t.put[seat] > 0
  BY <1>1, <1>5
<1>7. 0 <= t.put[seat] + chips /\ (t.stack[seat] # chips => chips < t.stack[seat])
  BY <1>1
<1> QED BY <1>3, <1>5, <1>6, <1>7 DEF Fair

(* The price is what the dearest seat put in.                              *)
LEMMA Dearer ==
  ASSUME NEW a \in Nat, NEW b \in Nat, NEW c, c = IF a >= b THEN a ELSE b
  PROVE  c \in Nat /\ a <= c /\ b <= c
OBVIOUS

(* The two blinds, and what comes after them.                              *)
Blinds(from, to) == from \in {"small blind", "big blind"} /\ to \in {"big blind", "betting"}

(* A blind counts in the round.                                            *)
LEMMA BlindDealer ==
  ASSUME DealerInv, NEW phase, Blinds(table.phase, phase),
         NEW seat \in Playing, NEW type, type # "post_ante", NEW due \in Nat,
         Posted(seat, type, due, phase)
  PROVE  Dealer(table')
<1> DEFINE chips == Atmost(due, table.stack[seat])
           status == IF table.stack[seat] = chips THEN "all_in" ELSE table.status[seat]
<1>1. /\ TableShape(table) /\ Solvent(table) /\ Dealt(table) /\ Dealer(table)
      /\ start \in [Seats -> Nat] /\ seat \in Seats
  BY StartsAssumption DEF DealerInv, Dealer, Playing
<1>2. /\ table.street = "preflop" /\ table.spoken = {} /\ table.phase # "antes"
      /\ phase \in {"small blind", "big blind", "betting"}
      /\ \A s \in Seats : table.status[s] \in IF s \in Playing THEN {"live", "all_in"}
                                              ELSE {"eliminated"}
  BY <1>1 DEF Dealt, Posting, Blinds
<1>3. PostChange(seat, type, due, phase)
  BY <1>1, PostFields
<1>4. /\ chips \in Nat /\ chips <= table.stack[seat] /\ DOMAIN table' = TableFields
      /\ table'.stack = [table.stack EXCEPT ![seat] = @ - chips]
      /\ table'.put = [table.put EXCEPT ![seat] = @ + chips]
      /\ table'.status = [table.status EXCEPT ![seat] = status]
      /\ table'.phase = phase /\ table'.owing = table.owing \ {seat}
      /\ table'.price = IF table.price >= table'.put[seat] THEN table.price ELSE table'.put[seat]
      /\ table'.street = table.street /\ table'.spoken = table.spoken
      /\ table'.place = table.place
  BY <1>3 DEF PostChange
<1> HIDE DEF chips
<1>5. /\ table.status[seat] = "live" \/ table.status[seat] = "all_in"
      /\ table.put \in [Seats -> Nat] /\ table.put[seat] \in Nat /\ table.price \in Nat
  BY <1>1, <1>2 DEF TableShape
<1>6. status \in Statuses
  BY <1>5 DEF Statuses
<1>7. table'.put[seat] = table.put[seat] + chips
  BY <1>1, <1>4, <1>5
<1>8. table.put[seat] + chips \in Nat
  BY <1>4, <1>5
<1>9. table'.price \in Nat /\ table.price <= table'.price /\ table.put[seat] + chips <= table'.price
  BY <1>4, <1>5, <1>7, <1>8, Dearer
<1>10. Fair(table, table', seat, chips, status)
  BY <1>1, <1>4, <1>5, <1>9, PayIsFair
<1> HIDE DEF status
<1>11. Moves(table, table', seat, chips, status)
  BY <1>1, <1>2, <1>4, <1>9 DEF Moves, TableShape
<1>12. Dealt(table')
  BY <1>1, <1>2, <1>4, <1>5 DEF Dealt, TableShape, status
<1>13. chips \in Int /\ table.street # "showdown"
  <2>1. table.street # "showdown"
    BY <1>2
  <2>2. chips \in Nat
    BY <1>4
  <2> QED BY <2>1, <2>2, NaturalIsInteger
<1> QED BY <1>1, <1>2, <1>6, <1>10, <1>11, <1>12, <1>13, ChipsMove

(* Antes and blinds are posts of players.                                  *)
Charged(seat, type, due, phase) ==
  /\ seat \in Playing /\ type \in {"post_ante", "post_sb", "post_bb"} /\ due \in Nat
  /\ phase \in Posting \cup {"betting"} /\ table.phase \in Posting
  /\ Posted(seat, type, due, phase) /\ Dealer(table')
  /\ type = "post_sb" => seat = SmallBlindSeat(Playing)
  /\ type = "post_bb" => seat = BigBlindSeat(Playing)

(* One of them is what the dealer asks for.                                *)
LEMMA PostCharges ==
  ASSUME DealerInv, Post
  PROVE  \E seat, type, due, phase : Charged(seat, type, due, phase)
<1>1. DealerInv
  OBVIOUS
<1>2. \E seat \in Playing, type \in {"post_ante", "post_sb", "post_bb"}, due \in Nat,
         phase \in Posting \cup {"betting"} :
        /\ Posted(seat, type, due, phase) /\ Dealer(table') /\ table.phase \in Posting
        /\ type = "post_sb" => seat = SmallBlindSeat(Playing)
        /\ type = "post_bb" => seat = BigBlindSeat(Playing)
  <2>1. CASE PostAnte
    BY <1>1, <2>1, AnteDealer, Constants DEF PostAnte, Posting
  <2>2. CASE PostSmallBlind
    <3>1. SmallBlindSeat(Playing) \in Playing
      BY <1>1, BlindsPlay DEF DealerInv
    <3>2. /\ Posted(SmallBlindSeat(Playing), "post_sb", SmallBlind, "big blind")
          /\ table.phase = "small blind"
      BY <2>2 DEF PostSmallBlind
    <3>3. Dealer(table')
      BY <1>1, <3>1, <3>2, BlindDealer, Constants DEF Blinds
    <3> QED BY <3>1, <3>2, <3>3, Constants DEF Posting
  <2>3. CASE PostBigBlind
    <3>1. BigBlindSeat(Playing) \in Playing
      BY <1>1, BlindsPlay DEF DealerInv
    <3>2. /\ Posted(BigBlindSeat(Playing), "post_bb", BigBlind, "betting")
          /\ table.phase = "big blind"
      BY <2>3 DEF PostBigBlind
    <3>3. Dealer(table')
      BY <1>1, <3>1, <3>2, BlindDealer, Constants DEF Blinds
    <3> QED BY <3>1, <3>2, <3>3, Constants DEF Posting
  <2> QED BY <2>1, <2>2, <2>3 DEF Post
<1> QED BY <1>2 DEF Charged

(* Antes and blinds keep the invariant.                                    *)
LEMMA PostKeeps == TableInv /\ Post => TableInv'
<1> SUFFICES ASSUME TableInv, Post PROVE TableInv'
  OBVIOUS
<1>1. DealerInv
  BY DEF TableInv
<1>2. PICK seat, type, due, phase : Charged(seat, type, due, phase)
  BY <1>1, PostCharges
<1>3. BooksInv' /\ AwaitInv' /\ SnapshotInv' /\ Dealer(table')
  BY <1>2, PostStep DEF Charged
<1>4. start' = start
  BY DEF Post, PostAnte, PostSmallBlind, PostBigBlind, Posted
<1> QED BY <1>1, <1>3, <1>4, SameStart DEF TableInv

-----------------------------------------------------------------------------
(* The betting.                                                            *)

(* While the betting goes on, the seat whose turn it is has chips, the     *)
(* normalizer awaits whom the dealer awaits and has no snapshot.           *)
LEMMA OnTurn ==
  ASSUME TableInv, table.phase = "betting", ~BettingOver(table)
  PROVE  /\ ToSpeak(table) \in Seats /\ table.status[ToSpeak(table)] = "live"
         /\ ToSpeak(table) \in Awaited(table)
         /\ table.street \in BettingStreets
         /\ Pending = Awaited(table) /\ ~replay.snapshot.taken
<1>1. DealerInv /\ AwaitInv /\ SnapshotInv /\ TableShape(table) /\ Shown(table)
  BY DEF TableInv, DealerInv, Dealer
<1>2. table.street \in BettingStreets /\ table.street # "showdown"
  BY <1>1 DEF Shown, TableShape, Streets, BettingStreets
<1>3. Awaited(table) # {} /\ ~Lone(table)
  BY DEF BettingOver, Lone
<1>4. table.place \in Int
  <2>1. \A s \in Seats : s \in Int
    BY Constants
  <2> QED BY <1>1, <2>1 DEF TableShape
<1>5. Awaited(table) \subseteq Live(table) /\ Live(table) \subseteq Seats
  BY DEF Awaited, Live
<1>6. ToSpeak(table) \in Awaited(table)
  BY <1>3, <1>4, <1>5, NextSeatIsOne DEF ToSpeak
<1>7. ToSpeak(table) \in Seats /\ table.status[ToSpeak(table)] = "live"
  BY <1>5, <1>6 DEF Live
<1>8. Pending = Awaited(table) /\ ~replay.snapshot.taken
  BY <1>1, <1>2, <1>3 DEF AwaitInv, SnapshotInv
<1> QED BY <1>2, <1>6, <1>7, <1>8

(* What a seat changes of the table when it acts.                          *)
ActStatus(s, type, d) ==
  IF type = "fold" THEN "folded" ELSE IF table.stack[s] = d THEN "all_in" ELSE table.status[s]
ActChange(s, type, d) ==
  /\ start' = start /\ DOMAIN table' = TableFields
  /\ table'.stack = [table.stack EXCEPT ![s] = @ - d]
  /\ table'.put = [table.put EXCEPT ![s] = @ + d]
  /\ table'.status = [table.status EXCEPT ![s] = ActStatus(s, type, d)]
  /\ table'.phase = "betting" /\ table'.street = table.street /\ table'.owing = table.owing
  /\ table'.place = s /\ table'.price \in Nat /\ table'.spoken \subseteq Seats
  /\ table.price <= table'.price /\ table.put[s] + d <= table'.price

(* A seat that follows pays the price or all it has; one that leads makes  *)
(* everybody speak again.                                                  *)
Follows(s, type) ==
  /\ type \in {"fold", "check", "call"}
  /\ table'.price = table.price /\ table'.spoken = table.spoken \cup {s}
  /\ table'.status[s] = "live" => table'.put[s] = table'.price
Leads(s, type) ==
  /\ type \in {"bet", "raise_to"}
  /\ table.price < table'.price /\ s \in table'.spoken /\ table'.put[s] = table'.price

(* Who has to speak after that.                                            *)
LEMMA AwaitedNext ==
  ASSUME TableShape(table), Solvent(table), NEW s \in Seats, NEW type, NEW d \in Nat,
         ActChange(s, type, d), Follows(s, type) \/ Leads(s, type)
  PROVE  Awaited(table') =
           IF type \in {"bet", "raise_to"} THEN Live(table') \ {s}
           ELSE (Awaited(table) \cap Live(table')) \ {s}
<1>1. /\ table.put \in [Seats -> Nat] /\ table.status \in [Seats -> Statuses]
      /\ table.price \in Nat /\ table'.price \in Nat
      /\ table'.put = [table.put EXCEPT ![s] = @ + d]
      /\ table'.status = [table.status EXCEPT ![s] = ActStatus(s, type, d)]
  BY DEF TableShape, ActChange
<1>2. \A u \in Seats \ {s} : table'.put[u] = table.put[u] /\ table'.status[u] = table.status[u]
  BY <1>1
<1>3. CASE Follows(s, type)
  <2>1. ~(table'.status[s] = "live" /\ (s \notin table'.spoken \/ table'.put[s] < table'.price))
    <3>1. table'.status[s] = "live" => ~(table'.put[s] < table'.price)
      <4>1. table'.price \in Nat /\ (table'.status[s] = "live" => table'.put[s] = table'.price)
        BY <1>1, <1>3 DEF Follows
      <4> QED BY <4>1
    <3>2. s \in table'.spoken
      BY <1>3 DEF Follows
    <3> QED BY <3>1, <3>2
  <2>2. /\ table'.price = table.price /\ type \notin {"bet", "raise_to"}
        /\ \A u \in Seats \ {s} : u \in table'.spoken <=> u \in table.spoken
    BY <1>3 DEF Follows
  <2> QED BY <1>2, <2>1, <2>2 DEF Awaited, Live
<1>4. CASE Leads(s, type)
  <2>1. table.price < table'.price /\ s \in table'.spoken /\ table'.put[s] = table'.price
        /\ type \in {"bet", "raise_to"}
    BY <1>4 DEF Leads
  <2>2. \A u \in Seats \ {s} : table'.put[u] < table'.price
    <3> SUFFICES ASSUME NEW u \in Seats \ {s} PROVE table'.put[u] < table'.price
      OBVIOUS
    <3>1. table.put[u] \in Nat /\ table.put[u] <= table.price /\ table'.put[u] = table.put[u]
      BY <1>1, <1>2 DEF Solvent
    <3> QED BY <1>1, <2>1, <3>1
  <2>3. ~(table'.put[s] < table'.price)
    BY <1>1, <2>1
  <2> QED BY <2>1, <2>2, <2>3 DEF Awaited, Live
<1> QED BY <1>3, <1>4

(* A seat that folds is as fair as one that pays.                          *)
LEMMA FoldIsFair ==
  ASSUME NEW t, NEW n, NEW s, NEW chips, NEW status, t.status[s] = "live",
         Fair(t, n, s, chips, status)
  PROVE  Fair(t, n, s, chips, "folded")
BY DEF Fair

(* The table after it.                                                     *)
LEMMA ActDealer ==
  ASSUME DealerInv, table.street # "showdown", table.phase = "betting",
         NEW s \in Seats, table.status[s] = "live", NEW type, NEW d \in Nat, d <= table.stack[s],
         ActChange(s, type, d)
  PROVE  Dealer(table') /\ DealerInv'
<1>1. /\ TableShape(table) /\ Solvent(table) /\ Dealer(table) /\ start \in [Seats -> Nat]
      /\ table.phase # "antes" /\ d \in Int
  BY StartsAssumption, NaturalIsInteger DEF DealerInv, Dealer
<1>2. Fair(table, table', s, d, ActStatus(s, type, d))
  <2>1. Fair(table, table', s, d, IF table.stack[s] = d THEN "all_in" ELSE table.status[s])
    BY <1>1, PayIsFair DEF ActChange
  <2>2. CASE type = "fold"
    BY <2>1, <2>2, FoldIsFair DEF ActStatus
  <2>3. CASE type # "fold"
    BY <2>1, <2>3 DEF ActStatus
  <2> QED BY <2>2, <2>3
<1>3. ActStatus(s, type, d) \in Statuses
  BY DEF ActStatus, Statuses
<1>4. Moves(table, table', s, d, ActStatus(s, type, d))
  BY <1>1 DEF Moves, ActChange, TableShape
<1>5. Dealt(table')
  BY DEF Dealt, ActChange, Posting
<1>6. Dealer(table')
  BY <1>1, <1>2, <1>3, <1>4, <1>5, ChipsMove
<1> QED BY <1>6, SameStart DEF ActChange

(* The price of it, and who has spoken since the last full raise.          *)
Ruled(s, type, chips) ==
  \/ /\ type \in {"fold", "check", "call"} /\ table'.minRaise = table.minRaise
     /\ type = "check" => table.put[s] = table.price
     /\ type = "call" => table.put[s] < table.price /\ chips = CallChips(table, s)
  \/ /\ type \in {"bet", "raise_to"} /\ MayRaiseTo(table, s, table'.price)
     /\ IF type = "bet" THEN table.price = 0 /\ chips = table'.price - table.put[s]
                        ELSE chips = table'.price
     /\ LET full == table'.price - table.price >= table.minRaise
        IN /\ table'.minRaise = IF full THEN table'.price - table.price ELSE table.minRaise
           /\ table'.spoken = IF full THEN {s} ELSE table.spoken \cup {s}

(* A turn: the line of the seat that has to speak, and what it changes.    *)
Turn(s, type, chips, d) ==
  /\ s = ToSpeak(table) /\ type \in Voluntary /\ chips \in Nat /\ d \in Nat
  /\ Read(Line(s, type, chips)) /\ d = Delta(Line(s, type, chips), table.put[s])
  /\ d <= table.stack[s] /\ ActChange(s, type, d) /\ (Follows(s, type) \/ Leads(s, type))
  /\ Ruled(s, type, chips)

(* The replays keep up with it.                                            *)
LEMMA ActStep ==
  ASSUME TableInv, table.phase = "betting", ~BettingOver(table),
         NEW s, s = ToSpeak(table), NEW type \in Voluntary, NEW chips \in Nat, NEW d \in Nat,
         Read(Line(s, type, chips)), d = Delta(Line(s, type, chips), table.put[s]),
         d <= table.stack[s], ActChange(s, type, d), Follows(s, type) \/ Leads(s, type)
  PROVE  TableInv'
<1> DEFINE line == Line(s, type, chips)
<1>1. /\ s \in Seats /\ table.status[s] = "live" /\ table.street \in BettingStreets
      /\ Pending = Awaited(table) /\ ~replay.snapshot.taken
  BY OnTurn
<1>2. /\ DealerInv /\ BooksInv /\ TableShape(table) /\ Solvent(table) /\ start \in [Seats -> Nat]
      /\ table.street # "showdown" /\ start' = start
  BY <1>1, StartsAssumption DEF TableInv, DealerInv, Dealer, BettingStreets, ActChange
<1>3. Dealer(table') /\ DealerInv'
  BY <1>1, <1>2, ActDealer
<1>4. /\ line \in Lines /\ ~line.allIn /\ line.street = table.street /\ line.seat = s
      /\ line.type = type /\ line.type # "return_uncalled" /\ line.type # "post_ante"
      /\ Read(line) /\ d = Delta(line, table.put[line.seat])
  <2>1. type \in ActionTypes /\ type # "return_uncalled" /\ type # "post_ante"
    BY DEF ActionTypes, Voluntary
  <2>2. /\ line \in Lines /\ ~line.allIn /\ line.street = table.street /\ line.seat = s
        /\ line.type = type
    BY <1>1, <1>2, <2>1, LineIsLine
  <2> QED BY <2>1, <2>2
<1> HIDE DEF line
<1>5. /\ table.stack \in [Seats -> Nat] /\ table.put \in [Seats -> Nat]
      /\ table.status \in [Seats -> Statuses] /\ table.stack[s] \in Nat
  BY <1>1, <1>2 DEF TableShape
<1>6. /\ table'.stack = [table.stack EXCEPT ![s] = @ - d]
      /\ table'.put = [table.put EXCEPT ![s] = @ + d]
      /\ table'.status = [table.status EXCEPT ![s] = ActStatus(s, type, d)]
      /\ table'.street = table.street /\ table'.phase = "betting"
  BY DEF ActChange
<1>7. /\ ~Refused(line, table.stack, table.put)
      /\ table'.stack = StackAfter(line, table.stack, table.put)
      /\ table'.put = ContribAfter(line, table.stack, table.put)
  BY <1>4, <1>5, <1>6, LinePays
<1>8. table'.status = [table.status EXCEPT ![line.seat] =
                         StatusAfter(table.status[line.seat], line, table'.stack)]
  <2>1. table'.stack[s] = table.stack[s] - d
    BY <1>1, <1>5, <1>6
  <2>2. table'.stack[s] = 0 <=> table.stack[s] = d
    BY <1>5, <2>1
  <2>3. StatusAfter(table.status[line.seat], line, table'.stack) = ActStatus(s, type, d)
    BY <1>1, <1>4, <2>2 DEF StatusAfter, ActStatus
  <2> QED BY <1>4, <1>6, <2>3
<1>9. /\ BooksInv' /\ replay'.street = table.street
      /\ replay'.pending = CASE line.type \in {"bet", "raise_to"} -> Live(table') \ {line.seat}
                             [] line.type \in {"check", "call", "fold"} ->
                                  (Pending \cap Live(table')) \ {line.seat}
                             [] line.type = "return_uncalled" -> {}
                             [] OTHER -> Pending \cap Live(table')
      /\ replay'.snapshot =
           IF replay.snapshot.taken \/ ~TerminalAllIn(replay') THEN replay.snapshot
           ELSE [taken |-> TRUE, street |-> line.street,
                 committed |-> replay'.committed, status |-> replay'.status]
  BY <1>1, <1>2, <1>4, <1>6, <1>7, <1>8, BooksRead
<1>10. replay'.pending = Awaited(table')
  <2>1. replay'.pending = IF type \in {"bet", "raise_to"} THEN Live(table') \ {s}
                          ELSE (Pending \cap Live(table')) \ {s}
    <3>1. type \in {"bet", "raise_to"} \/ type \in {"check", "call", "fold"}
      BY DEF Voluntary
    <3>2. type \in {"check", "call", "fold"} => type \notin {"bet", "raise_to"}
      OBVIOUS
    <3> QED BY <1>4, <1>9, <3>1, <3>2
  <2>2. Awaited(table') = IF type \in {"bet", "raise_to"} THEN Live(table') \ {s}
                          ELSE (Awaited(table) \cap Live(table')) \ {s}
    BY <1>1, <1>2, AwaitedNext
  <2> QED BY <1>1, <2>1, <2>2
<1>11. AwaitInv'
  <2>1. Pending' = replay'.pending
    BY <1>6, <1>9 DEF Pending, AwaitedOn
  <2> QED BY <1>10, <2>1 DEF AwaitInv, Awaited, Live
<1>12. SnapshotInv'
  <2>1. replay'.status = table'.status /\ ReplayShape(replay')
    BY <1>9 DEF BooksInv, ReplayShape
  <2>2. table'.put \in [Seats -> Nat] /\ table'.price \in Nat /\ table'.spoken \subseteq Seats
    BY <1>3 DEF Dealer, TableShape
  <2>3. table'.street # "showdown" /\ (table'.phase \in Posting => table'.spoken = {})
    BY <1>2, <1>6 DEF Posting
  <2> QED BY <1>1, <1>6, <1>9, <1>11, <2>1, <2>2, <2>3, SnapshotFollows
<1> QED BY <1>3, <1>9, <1>11, <1>12 DEF TableInv

(* A seat that folds or checks keeps its chips.                            *)
LEMMA ActFree ==
  ASSUME TableInv, table.phase = "betting", ~BettingOver(table),
         NEW s, s = ToSpeak(table), NEW type, type \in {"fold", "check"},
         type = "check" => table.put[s] = table.price, Read(Line(s, type, 0)), start' = start,
         table' = [Spoke(table, s) EXCEPT
                     !.status = IF type = "fold" THEN [table.status EXCEPT ![s] = "folded"]
                                ELSE table.status]
  PROVE  Turn(s, type, 0, 0)
<1>1. s \in Seats /\ table.status[s] = "live" /\ TableShape(table) /\ Solvent(table)
  BY OnTurn DEF TableInv, DealerInv, Dealer
<1>2. /\ table.stack \in [Seats -> Nat] /\ table.put \in [Seats -> Nat]
      /\ table.status \in [Seats -> Statuses] /\ table.price \in Nat
      /\ table.stack[s] \in Nat /\ table.put[s] \in Nat /\ table.spoken \subseteq Seats
      /\ table.stack[s] > 0 /\ table.put[s] <= table.price
  BY <1>1 DEF TableShape, Solvent
<1>3. /\ DOMAIN table' = TableFields /\ table'.stack = table.stack /\ table'.put = table.put
      /\ table'.status = IF type = "fold" THEN [table.status EXCEPT ![s] = "folded"]
                         ELSE table.status
      /\ table'.phase = table.phase /\ table'.street = table.street
      /\ table'.owing = table.owing /\ table'.place = s /\ table'.price = table.price
      /\ table'.spoken = table.spoken \cup {s} /\ table'.minRaise = table.minRaise
  BY <1>1 DEF Spoke, TableShape, TableFields
<1>4. ActChange(s, type, 0)
  <2>1. table.stack[s] # 0 /\ table.stack[s] - 0 = table.stack[s] /\ table.put[s] + 0 = table.put[s]
    BY <1>2
  <2>2. /\ table.stack = [table.stack EXCEPT ![s] = @ - 0]
        /\ table.put = [table.put EXCEPT ![s] = @ + 0]
    BY <1>2, <2>1
  <2>3. table'.status = [table.status EXCEPT ![s] = ActStatus(s, type, 0)]
    BY <1>1, <1>2, <1>3, <2>1 DEF ActStatus
  <2>4. table'.spoken \subseteq Seats /\ table'.price \in Nat
    BY <1>1, <1>2, <1>3
  <2>5. table.price <= table'.price /\ table.put[s] + 0 <= table'.price
    BY <1>2, <1>3
  <2> QED BY <1>3, <2>2, <2>3, <2>4, <2>5 DEF ActChange
<1>5. Follows(s, type)
  <2>1. type = "fold" => table'.status[s] = "folded"
    BY <1>1, <1>2, <1>3
  <2> QED BY <1>3, <2>1 DEF Follows
<1>6. 0 = Delta(Line(s, type, 0), table.put[s])
  BY <1>1, LineIsLine DEF Delta, Posts, ActionTypes, Voluntary
<1>7. type \in Voluntary /\ 0 \in Nat /\ 0 <= table.stack[s]
  BY <1>2 DEF Voluntary
<1>8. Ruled(s, type, 0)
  BY <1>3 DEF Ruled
<1> QED BY <1>4, <1>5, <1>6, <1>7, <1>8 DEF Turn

(* What a call changes of the table.                                       *)
Called(t, s, chips) == Spoke(Pay(t, s, chips, TRUE), s)

(* It is a call by the rules.                                              *)
LEMMA CallChange ==
  ASSUME TableShape(table), NEW s \in Seats, table.status[s] = "live", NEW chips \in Nat,
         table.put[s] + chips <= table.price,
         chips # table.stack[s] => table.put[s] + chips = table.price,
         start' = start, table' = Called(table, s, chips), table.phase = "betting"
  PROVE  /\ ActChange(s, "call", chips) /\ Follows(s, "call")
         /\ table'.minRaise = table.minRaise
<1>2. /\ table.stack \in [Seats -> Nat] /\ table.put \in [Seats -> Nat]
      /\ table.status \in [Seats -> Statuses] /\ table.price \in Nat
      /\ table.stack[s] \in Nat /\ table.put[s] \in Nat /\ table.spoken \subseteq Seats
  BY DEF TableShape
<1> DEFINE paid == Pay(table, s, chips, TRUE)
<1>3. /\ DOMAIN paid = TableFields
      /\ paid.stack = [table.stack EXCEPT ![s] = @ - chips]
      /\ paid.put = [table.put EXCEPT ![s] = @ + chips]
      /\ paid.status = [table.status EXCEPT ![s] = IF table.stack[s] = chips THEN "all_in" ELSE @]
      /\ paid.phase = table.phase /\ paid.street = table.street /\ paid.owing = table.owing
      /\ paid.price = table.price /\ paid.minRaise = table.minRaise
      /\ paid.spoken = table.spoken /\ paid.place = table.place
  BY DEF Pay, TableShape, TableFields
<1>4. table' = Spoke(paid, s)
  BY DEF Called
<1> HIDE DEF paid
<1>5. /\ DOMAIN table' = TableFields /\ table'.stack = paid.stack /\ table'.put = paid.put
      /\ table'.status = paid.status
      /\ table'.phase = table.phase /\ table'.street = table.street
      /\ table'.owing = table.owing /\ table'.place = s /\ table'.price = table.price
      /\ table'.spoken = table.spoken \cup {s} /\ table'.minRaise = table.minRaise
  BY <1>3, <1>4 DEF Spoke, TableFields
<1>6. ActChange(s, "call", chips)
  <2>1. table'.status = [table.status EXCEPT ![s] = ActStatus(s, "call", chips)]
    BY <1>3, <1>5 DEF ActStatus
  <2>2. table'.spoken \subseteq Seats /\ table'.price \in Nat
    BY <1>2, <1>5
  <2>3. table.price <= table'.price
    BY <1>2, <1>5
  <2> QED BY <1>3, <1>5, <2>1, <2>2, <2>3 DEF ActChange
<1>7. Follows(s, "call")
  <2>1. table'.put[s] = table.put[s] + chips
    BY <1>2, <1>3, <1>5
  <2>2. table.stack[s] = chips => table'.status[s] = "all_in"
    BY <1>2, <1>3, <1>5
  <2>3. table'.status[s] = "live" => table'.put[s] = table'.price
    BY <1>5, <2>1, <2>2
  <2> QED BY <1>5, <2>3 DEF Follows
<1> QED BY <1>5, <1>6, <1>7

(* A seat that calls pays up to the price.                                 *)
LEMMA ActCall ==
  ASSUME TableInv, table.phase = "betting", ~BettingOver(table),
         NEW s, s = ToSpeak(table), NEW chips, chips = CallChips(table, s),
         table.put[s] < table.price, Read(Line(s, "call", chips)), start' = start,
         table' = Called(table, s, chips)
  PROVE  Turn(s, "call", chips, chips)
<1>1. s \in Seats /\ table.status[s] = "live" /\ TableShape(table) /\ Solvent(table)
  BY OnTurn DEF TableInv, DealerInv, Dealer
<1>2. /\ table.stack \in [Seats -> Nat] /\ table.put \in [Seats -> Nat]
      /\ table.status \in [Seats -> Statuses] /\ table.price \in Nat
      /\ table.stack[s] \in Nat /\ table.put[s] \in Nat /\ table.spoken \subseteq Seats
  BY <1>1 DEF TableShape
<1>3. /\ chips \in Nat /\ chips <= table.stack[s] /\ table.put[s] + chips <= table.price
      /\ chips # table.stack[s] => table.put[s] + chips = table.price
  BY <1>2 DEF CallChips, Atmost
<1>4. /\ ActChange(s, "call", chips) /\ Follows(s, "call")
      /\ table'.minRaise = table.minRaise
  BY <1>1, <1>3, CallChange
<1>5. chips = Delta(Line(s, "call", chips), table.put[s])
  BY <1>1, <1>3, LineIsLine DEF Delta, Posts, ActionTypes, Voluntary
<1>6. "call" \in Voluntary
  BY DEF Voluntary
<1>7. Ruled(s, "call", chips)
  BY <1>4 DEF Ruled
<1> QED BY <1>3, <1>4, <1>5, <1>6, <1>7 DEF Turn

(* A seat that bets or raises pays up to its level.                        *)
LEMMA ActRaise ==
  ASSUME TableInv, table.phase = "betting", ~BettingOver(table),
         NEW s, s = ToSpeak(table), NEW level \in Nat, MayRaiseTo(table, s, level),
         Read(IF table.price = 0 THEN Line(s, "bet", level - table.put[s])
                                 ELSE Line(s, "raise_to", level)),
         start' = start, table' = Raised(table, s, level)
  PROVE  \E type, chips, d : Turn(s, type, chips, d)
<1>1. s \in Seats /\ table.status[s] = "live" /\ TableShape(table) /\ Solvent(table)
  BY OnTurn DEF TableInv, DealerInv, Dealer
<1>2. /\ table.stack \in [Seats -> Nat] /\ table.put \in [Seats -> Nat]
      /\ table.status \in [Seats -> Statuses] /\ table.price \in Nat
      /\ table.stack[s] \in Nat /\ table.put[s] \in Nat /\ table.spoken \subseteq Seats
      /\ table.put[s] <= table.price
  BY <1>1 DEF TableShape, Solvent
<1>3. level > table.price /\ level <= table.put[s] + table.stack[s]
  BY DEF MayRaiseTo
<1>4. PICK d \in Nat : d = level - table.put[s]
  BY <1>2, <1>3
<1>5. d <= table.stack[s] /\ table.put[s] + d = level /\ d > 0
  BY <1>2, <1>3, <1>4
<1> DEFINE paid == Pay(table, s, d, TRUE)
<1>6. /\ DOMAIN paid = TableFields
      /\ paid.stack = [table.stack EXCEPT ![s] = @ - d]
      /\ paid.put = [table.put EXCEPT ![s] = @ + d]
      /\ paid.status = [table.status EXCEPT ![s] = IF table.stack[s] = d THEN "all_in" ELSE @]
      /\ paid.phase = table.phase /\ paid.street = table.street /\ paid.owing = table.owing
      /\ paid.spoken = table.spoken /\ paid.minRaise = table.minRaise
  BY <1>1 DEF Pay, TableShape, TableFields
<1> DEFINE full == level - table.price >= table.minRaise
<1>7. table' = [paid EXCEPT !.price = level,
                            !.minRaise = IF full THEN level - table.price ELSE @,
                            !.spoken = IF full THEN {s} ELSE @ \cup {s}, !.place = s]
  BY <1>4 DEF Raised
<1> HIDE DEF paid, full
<1>8. /\ DOMAIN table' = TableFields /\ table'.stack = paid.stack /\ table'.put = paid.put
      /\ table'.status = paid.status
      /\ table'.phase = table.phase /\ table'.street = table.street
      /\ table'.owing = table.owing /\ table'.place = s /\ table'.price = level
      /\ table'.minRaise = IF full THEN level - table.price ELSE table.minRaise
      /\ table'.spoken = IF full THEN {s} ELSE table.spoken \cup {s}
  BY <1>6, <1>7 DEF TableFields
<1>9. table'.spoken \subseteq Seats /\ s \in table'.spoken
  BY <1>1, <1>2, <1>8
<1>10. table'.put[s] = level
  BY <1>1, <1>2, <1>5, <1>6, <1>8
<1>11. ASSUME NEW type, type \in {"bet", "raise_to"}
       PROVE  ActChange(s, type, d) /\ Leads(s, type)
  <2>1. table'.status = [table.status EXCEPT ![s] = ActStatus(s, type, d)]
    BY <1>1, <1>6, <1>8, <1>11 DEF ActStatus
  <2>2. table.price <= table'.price /\ table.put[s] + d <= table'.price /\ table'.price \in Nat
    BY <1>2, <1>3, <1>5, <1>8
  <2>3. ActChange(s, type, d)
    BY <1>6, <1>8, <1>9, <2>1, <2>2 DEF ActChange
  <2>4. Leads(s, type)
    BY <1>3, <1>8, <1>9, <1>10, <1>11 DEF Leads
  <2> QED BY <2>3, <2>4
<1>12. CASE table.price = 0
  <2>1. Read(Line(s, "bet", d))
    BY <1>4, <1>12
  <2>2. d = Delta(Line(s, "bet", d), table.put[s])
    BY <1>1, LineIsLine DEF Delta, Posts, ActionTypes, Voluntary
  <2>3. "bet" \in Voluntary
    BY DEF Voluntary
  <2>4. ActChange(s, "bet", d) /\ Leads(s, "bet")
    BY <1>11
  <2>5. Ruled(s, "bet", d)
    BY <1>4, <1>8, <1>12 DEF Ruled, full
  <2>6. Turn(s, "bet", d, d)
    BY <1>5, <2>1, <2>2, <2>3, <2>4, <2>5 DEF Turn
  <2> QED BY <2>6
<1>13. CASE table.price # 0
  <2>1. Read(Line(s, "raise_to", level))
    BY <1>13
  <2>2. d = Delta(Line(s, "raise_to", level), table.put[s])
    <3>1. /\ Line(s, "raise_to", level).type = "raise_to"
          /\ Line(s, "raise_to", level).chips = level
      BY DEF Line
    <3>2. Delta(Line(s, "raise_to", level), table.put[s]) = AtLeast0(level - table.put[s])
      BY <3>1 DEF Delta, Posts
    <3> QED BY <1>4, <1>5, <3>2 DEF AtLeast0
  <2>3. "raise_to" \in Voluntary
    BY DEF Voluntary
  <2>4. ActChange(s, "raise_to", d) /\ Leads(s, "raise_to")
    BY <1>11
  <2>5. Ruled(s, "raise_to", level)
    BY <1>8 DEF Ruled, full
  <2>6. Turn(s, "raise_to", level, d)
    BY <1>5, <2>1, <2>2, <2>3, <2>4, <2>5 DEF Turn
  <2> QED BY <2>6
<1> QED BY <1>12, <1>13

(* Whatever a seat does when it is its turn is a turn.                     *)
LEMMA ActTurns ==
  ASSUME TableInv, Act
  PROVE  \E s, type, chips, d : Turn(s, type, chips, d)
<1> DEFINE s == ToSpeak(table)
           chips == CallChips(table, s)
<1>1. table.phase = "betting" /\ ~BettingOver(table) /\ start' = start
  BY DEF Act
<1>2. TableShape(table) /\ s \in Seats
  BY <1>1, OnTurn DEF TableInv, DealerInv, Dealer
<1>3. CASE /\ Read(Line(s, "fold", 0))
           /\ table' = [Spoke(table, s) EXCEPT !.status[s] = "folded"]
  <2>1. table' = [Spoke(table, s) EXCEPT !.status = [table.status EXCEPT ![s] = "folded"]]
    BY <1>2, <1>3 DEF Spoke, TableShape, TableFields
  <2> QED BY <1>1, <1>3, <2>1, ActFree
<1>4. CASE /\ Allowed(table, s, "check", 0) /\ Read(Line(s, "check", 0))
           /\ table' = Spoke(table, s)
  <2>1. table' = [Spoke(table, s) EXCEPT !.status = table.status]
    BY <1>2, <1>4 DEF Spoke, TableShape, TableFields
  <2>2. table.put[s] = table.price
    BY <1>4 DEF Allowed
  <2> QED BY <1>1, <1>4, <2>1, <2>2, ActFree
<1>5. CASE /\ Allowed(table, s, "call", chips) /\ Read(Line(s, "call", chips))
           /\ table' = Spoke(Pay(table, s, chips, TRUE), s)
  <2>1. table.put[s] < table.price
    BY <1>5 DEF Allowed
  <2> QED BY <1>1, <1>5, <2>1, ActCall DEF Called
<1>6. CASE \E level \in 1..table.put[s] + table.stack[s] :
             /\ MayRaiseTo(table, s, level)
             /\ Read(IF table.price = 0 THEN Line(s, "bet", level - table.put[s])
                                        ELSE Line(s, "raise_to", level))
             /\ table' = Raised(table, s, level)
  <2>1. PICK level \in 1..table.put[s] + table.stack[s] :
             /\ MayRaiseTo(table, s, level)
             /\ Read(IF table.price = 0 THEN Line(s, "bet", level - table.put[s])
                                        ELSE Line(s, "raise_to", level))
             /\ table' = Raised(table, s, level)
    BY <1>6
  <2>2. level \in Nat
    <3>1. table.put[s] \in Nat /\ table.stack[s] \in Nat
      BY <1>2 DEF TableShape
    <3> HIDE DEF s
    <3> QED BY <3>1
  <2> QED BY <1>1, <2>1, <2>2, ActRaise
<1> QED BY <1>3, <1>4, <1>5, <1>6 DEF Act

(* A turn keeps the invariant.                                             *)
LEMMA ActKeeps == TableInv /\ Act => TableInv'
<1> SUFFICES ASSUME TableInv, Act PROVE TableInv'
  OBVIOUS
<1>1. PICK s, type, chips, d : Turn(s, type, chips, d)
  BY ActTurns
<1>2. table.phase = "betting" /\ ~BettingOver(table)
  BY DEF Act
<1> QED BY <1>1, <1>2, ActStep DEF Turn

-----------------------------------------------------------------------------
(* What nobody called.                                                     *)

(* What a refund changes of the table.                                     *)
Refunded(s, back) ==
  /\ table.phase = "betting" /\ s \in Seats /\ table.status[s] \in {"live", "all_in"}
  /\ back \in Nat /\ back > 0 /\ back = Overage(table.put, s) /\ back <= table.put[s]
  /\ \A u \in Seats \ {s} : table.put[u] <= table.put[s] - back
  /\ start' = start /\ DOMAIN table' = TableFields
  /\ table'.stack = [table.stack EXCEPT ![s] = @ + back]
  /\ table'.put = [table.put EXCEPT ![s] = @ - back]
  /\ table'.status = [table.status EXCEPT ![s] = "live"]
  /\ table'.price = table.put[s] - back
  /\ table'.phase = table.phase /\ table'.street = table.street /\ table'.owing = table.owing
  /\ table'.spoken = table.spoken /\ table'.place = table.place

(* The action changes it so.                                               *)
LEMMA RefundFields ==
  ASSUME DealerInv, ReturnUncalled
  PROVE  \E s, back : Refunded(s, back) /\ Read(Line(s, "return_uncalled", back))
<1>1. TableShape(table)
  BY DEF DealerInv, Dealer
<1>2. PICK s \in Uncalled :
        /\ Read(Line(s, "return_uncalled", Overage(table.put, s)))
        /\ table' = [table EXCEPT !.stack[s] = @ + Overage(table.put, s),
                                  !.put[s] = @ - Overage(table.put, s),
                                  !.price = table.put[s] - Overage(table.put, s),
                                  !.status[s] = "live"]
  BY DEF ReturnUncalled
<1>3. PICK back : back = Overage(table.put, s)
  OBVIOUS
<1>4. /\ s \in Seats /\ table.status[s] \in {"live", "all_in"} /\ back > 0
      /\ table.put \in [Seats -> Nat]
  BY <1>1, <1>2, <1>3 DEF Uncalled, InHand, TableShape
<1>5. back \in Nat /\ back <= table.put[s] /\ \A u \in Seats \ {s} : table.put[u] <= table.put[s] - back
  BY <1>3, <1>4, OverageBounds
<1>6. table' = [table EXCEPT !.stack[s] = @ + back, !.put[s] = @ - back,
                             !.price = table.put[s] - back, !.status[s] = "live"]
  BY <1>2, <1>3
<1>7. /\ DOMAIN table' = TableFields
      /\ table'.stack = [table.stack EXCEPT ![s] = @ + back]
      /\ table'.put = [table.put EXCEPT ![s] = @ - back]
      /\ table'.status = [table.status EXCEPT ![s] = "live"]
      /\ table'.price = table.put[s] - back
      /\ table'.phase = table.phase /\ table'.street = table.street /\ table'.owing = table.owing
      /\ table'.spoken = table.spoken /\ table'.place = table.place
  BY <1>1, <1>6 DEF TableShape, TableFields
<1>8. table.phase = "betting" /\ start' = start
  BY DEF ReturnUncalled
<1>9. Refunded(s, back)
  BY <1>3, <1>4, <1>5, <1>7, <1>8 DEF Refunded
<1> QED BY <1>2, <1>3, <1>9

(* It takes nobody's chips and leaves the others below the price.          *)
LEMMA RefundFair ==
  ASSUME TableShape(table), NEW s, NEW back, Refunded(s, back)
  PROVE  Fair(table, table', s, -back, "live") /\ Moves(table, table', s, -back, "live")
<1>1. /\ table.stack \in [Seats -> Nat] /\ table.put \in [Seats -> Nat]
      /\ table.status \in [Seats -> Statuses]
      /\ s \in Seats /\ back \in Nat /\ back > 0 /\ back <= table.put[s]
  BY DEF TableShape, Refunded
<1>2. table.stack[s] \in Nat /\ table.put[s] \in Nat
  BY <1>1
<1>3. /\ -back < table.stack[s] /\ -back <= table.stack[s] /\ 0 <= table.put[s] + (-back)
      /\ table.put[s] > 0 /\ table.put[s] - back \in Nat
      /\ table.stack[s] - (-back) = table.stack[s] + back
      /\ table.put[s] + (-back) = table.put[s] - back
  BY <1>1, <1>2
<1>4. /\ table'.stack = [table.stack EXCEPT ![s] = @ - (-back)]
      /\ table'.put = [table.put EXCEPT ![s] = @ + (-back)]
  <2>1. table'.stack = [table.stack EXCEPT ![s] = table.stack[s] + back]
    BY DEF Refunded
  <2>2. table'.put = [table.put EXCEPT ![s] = table.put[s] - back]
    BY DEF Refunded
  <2> QED BY <1>3, <2>1, <2>2
<1>5. \A u \in Seats : table'.put[u] <= table'.price
  <2> SUFFICES ASSUME NEW u \in Seats PROVE table'.put[u] <= table'.price
    OBVIOUS
  <2>1. table'.price = table.put[s] - back /\ table'.price \in Nat
    BY <1>3 DEF Refunded
  <2>2. CASE u = s
    <3>1. table'.put[s] = table.put[s] - back
      BY <1>1 DEF Refunded
    <3> QED BY <2>1, <2>2, <3>1
  <2>3. CASE u # s
    <3>1. table'.put[u] = table.put[u] /\ table.put[u] <= table.put[s] - back
      BY <1>1, <2>3 DEF Refunded
    <3> QED BY <2>1, <3>1
  <2> QED BY <2>2, <2>3
<1>6. Fair(table, table', s, -back, "live")
  BY <1>3, <1>5 DEF Fair
<1>7. Moves(table, table', s, -back, "live")
  <2>1. table'.price \in Nat
    BY <1>3 DEF Refunded
  <2> QED BY <1>4, <2>1 DEF Moves, Refunded, TableShape
<1> QED BY <1>6, <1>7

(* The betting over, at most the seat that takes chips back has any.       *)
LEMMA RefundLone ==
  ASSUME TableShape(table), Solvent(table), BettingOver(table),
         NEW s, NEW back, Refunded(s, back)
  PROVE  InHand(table') = InHand(table) /\ Live(table') \subseteq {s} /\ Lone(table')
<1>1. /\ table.put \in [Seats -> Nat] /\ table.status \in [Seats -> Statuses]
      /\ s \in Seats /\ back \in Nat /\ back > 0 /\ back <= table.put[s] /\ table.price \in Nat
      /\ table.status[s] \in {"live", "all_in"}
      /\ table'.status = [table.status EXCEPT ![s] = "live"]
  BY DEF TableShape, Refunded
<1>2. /\ InHand(table') = InHand(table) /\ Live(table') = Live(table) \cup {s}
      /\ s \in InHand(table) /\ Live(table) \subseteq InHand(table) /\ InHand(table) \subseteq Seats
  BY <1>1 DEF InHand, Live
<1>3. \A u \in Seats \ {s} : table.put[u] < table.price
  <2> SUFFICES ASSUME NEW u \in Seats \ {s} PROVE table.put[u] < table.price
    OBVIOUS
  <2>1. table.put[u] <= table.put[s] - back /\ table.put[u] \in Nat /\ table.put[s] \in Nat
    BY <1>1 DEF Refunded
  <2>2. table.put[s] <= table.price
    BY <1>1 DEF Solvent
  <2> QED BY <1>1, <2>1, <2>2
<1>4. Live(table') \subseteq {s}
  <2>1. CASE Cardinality(InHand(table)) <= 1
    <3>1. \A u, v \in InHand(table) : u = v
      BY <1>2, <2>1, FewSeats
    <3> QED BY <1>2, <3>1
  <2>2. CASE Awaited(table) = {}
    BY <1>2, <1>3, <2>2 DEF Awaited, Live
  <2>3. CASE \A u \in Live(table) : table.put[u] >= table.price
    <3>1. ASSUME NEW u \in Live(table), u # s PROVE FALSE
      <4>1. u \in Seats \ {s}
        BY <3>1 DEF Live
      <4>2. table.put[u] < table.price /\ table.put[u] >= table.price /\ table.put[u] \in Nat
        BY <1>1, <1>3, <2>3, <4>1
      <4> QED BY <1>1, <4>2
    <3> QED BY <1>2, <3>1
  <2> QED BY <2>1, <2>2, <2>3 DEF BettingOver
<1>5. Cardinality(Live(table')) <= 1
  <2>1. Live(table') \subseteq Seats /\ \A u, v \in Live(table') : u = v
    BY <1>1, <1>4
  <2> QED BY <2>1, FewSeats
<1>6. table'.put[s] >= table'.price
  <2>1. table'.put[s] = table.put[s] - back /\ table'.price = table.put[s] - back
    BY <1>1 DEF Refunded
  <2>2. table.put[s] \in Nat
    BY <1>1
  <2> QED BY <1>1, <2>1, <2>2
<1> QED BY <1>2, <1>4, <1>5, <1>6 DEF Lone

(* Who takes chips back still put in the most of those in the hand.        *)
Topped(frozen, paid, hand) ==
  \A u, v \in hand : frozen[u] > paid[u] => paid[u] >= paid[v]
Lacking(stack, paid) == \A u \in Seats : start[u] - stack[u] = paid[u]

(* A refund keeps it so.                                                   *)
LEMMA RefundSettles ==
  ASSUME TableShape(table), Dealer(table'), NEW s, NEW back, Refunded(s, back),
         start \in [Seats -> Nat], table.street # "showdown",
         NEW old, NEW new, NEW frozen,
         Lacking(table.stack, old), Lacking(table'.stack, new),
         NEW hand \in SUBSET Seats, s \in hand, Topped(frozen, old, hand)
  PROVE  Topped(frozen, new, hand)
<1>1. /\ table.stack \in [Seats -> Nat] /\ table'.stack \in [Seats -> Nat]
      /\ table'.put \in [Seats -> Nat] /\ table'.price \in Nat
      /\ s \in Seats /\ back \in Nat /\ back > 0
  BY DEF TableShape, Refunded, Dealer
<1>2. \A u \in Seats : new[u] = IF u = s THEN old[u] - back ELSE old[u]
  <2> SUFFICES ASSUME NEW u \in Seats PROVE new[u] = IF u = s THEN old[u] - back ELSE old[u]
    OBVIOUS
  <2>1. start[u] \in Nat /\ table.stack[u] \in Nat
    BY <1>1
  <2>2. old[u] = start[u] - table.stack[u] /\ new[u] = start[u] - table'.stack[u]
    BY DEF Lacking
  <2>3. table'.stack[u] = IF u = s THEN table.stack[u] + back ELSE table.stack[u]
    BY <1>1 DEF Refunded
  <2> QED BY <1>1, <2>1, <2>2, <2>3
<1>3. \A u \in Seats : new[u] \in Int /\ old[u] \in Int /\ new[u] <= old[u]
  <2> SUFFICES ASSUME NEW u \in Seats PROVE new[u] \in Int /\ old[u] \in Int /\ new[u] <= old[u]
    OBVIOUS
  <2>1. start[u] \in Nat /\ table.stack[u] \in Nat /\ old[u] = start[u] - table.stack[u]
    BY <1>1 DEF Lacking
  <2> QED BY <1>1, <1>2, <2>1
<1>4. \A v \in Seats : new[v] <= new[s]
  <2> SUFFICES ASSUME NEW v \in Seats PROVE new[v] <= new[s]
    OBVIOUS
  <2>1. table'.status[s] = "live" /\ table'.phase # "antes" /\ table'.street # "showdown"
    BY <1>1 DEF Refunded, TableShape
  <2>2. Before(table', v) <= Before(table', s)
    BY <1>1, <2>1 DEF Dealer, Leveled
  <2>3. table'.put[v] <= table'.put[s]
    <3>1. table'.put[v] <= table'.price
      BY DEF Dealer, Solvent
    <3>2. table'.put[s] = table'.price
      BY <1>1 DEF Refunded, TableShape
    <3> QED BY <3>1, <3>2
  <2>4. new[v] = start[v] - table'.stack[v] /\ new[s] = start[s] - table'.stack[s]
    BY <1>1 DEF Lacking
  <2>5. /\ start[v] \in Nat /\ start[s] \in Nat /\ table'.stack[v] \in Nat /\ table'.stack[s] \in Nat
        /\ table'.put[v] \in Nat /\ table'.put[s] \in Nat
    BY <1>1
  <2> QED BY <2>2, <2>3, <2>4, <2>5 DEF Before
<1> SUFFICES ASSUME NEW u \in hand, NEW v \in hand, frozen[u] > new[u] PROVE new[u] >= new[v]
  BY DEF Topped
<1>5. CASE u = s
  BY <1>3, <1>4, <1>5
<1>6. CASE u # s
  <2>1. new[u] = old[u]
    BY <1>2, <1>6
  <2>2. old[u] >= old[v]
    BY <2>1 DEF Topped
  <2> QED BY <1>3, <2>1, <2>2
<1> QED BY <1>5, <1>6

(* A refund keeps the invariant: it is the one line after which the        *)
(* normalizer awaits nobody though the seat has chips again.               *)
LEMMA ReturnKeeps == TableInv /\ ReturnUncalled => TableInv'
<1> SUFFICES ASSUME TableInv, ReturnUncalled PROVE TableInv'
  OBVIOUS
<1>1. /\ DealerInv /\ BooksInv /\ SnapshotInv /\ TableShape(table) /\ Solvent(table) /\ Dealer(table)
      /\ Shown(table) /\ start \in [Seats -> Nat] /\ BettingOver(table)
  BY StartsAssumption DEF TableInv, DealerInv, Dealer, ReturnUncalled
<1>2. PICK s, back : Refunded(s, back) /\ Read(Line(s, "return_uncalled", back))
  BY <1>1, RefundFields
<1>3. table.street \in BettingStreets /\ table.street # "showdown" /\ table.phase = "betting"
  BY <1>1, <1>2 DEF Shown, TableShape, Streets, BettingStreets, Refunded
<1>4. Dealer(table') /\ DealerInv'
  <2>1. Fair(table, table', s, -back, "live") /\ Moves(table, table', s, -back, "live")
    BY <1>1, <1>2, RefundFair
  <2>2. s \in Seats /\ -back \in Int /\ "live" \in Statuses /\ table.phase # "antes"
    BY <1>2, <1>3 DEF Refunded, Statuses
  <2>3. Dealt(table')
    BY <1>2, <1>3 DEF Dealt, Refunded, Posting
  <2>4. Dealer(table')
    BY <1>1, <1>3, <2>1, <2>2, <2>3, ChipsMove
  <2> QED BY <1>1, <1>2, <2>4, SameStart DEF Refunded
<1>5. InHand(table') = InHand(table) /\ Live(table') \subseteq {s} /\ Lone(table')
  BY <1>1, <1>2, RefundLone
<1> DEFINE line == Line(s, "return_uncalled", back)
<1>6. /\ s \in Seats /\ back \in Nat /\ back > 0 /\ back = Overage(table.put, s)
      /\ table.status[s] \in {"live", "all_in"} /\ s \in InHand(table)
      /\ start' = start /\ table'.street = table.street /\ table'.phase = "betting"
      /\ table'.stack = [table.stack EXCEPT ![s] = @ + back]
      /\ table'.put = [table.put EXCEPT ![s] = @ - back]
      /\ table'.status = [table.status EXCEPT ![s] = "live"]
  BY <1>2, <1>3 DEF Refunded, InHand
<1>7. /\ line \in Lines /\ ~line.allIn /\ line.street = table.street /\ line.seat = s
      /\ line.type = "return_uncalled" /\ line.chips = back
  <2>1. "return_uncalled" \in ActionTypes
    BY DEF ActionTypes
  <2> QED BY <1>1, <1>6, <2>1, LineIsLine
<1>8. Read(line)
  BY <1>2
<1> HIDE DEF line
<1>9. /\ table.stack \in [Seats -> Nat] /\ table.put \in [Seats -> Nat]
      /\ table.stack[s] \in Nat
  BY <1>1, <1>6 DEF TableShape
<1>10. /\ ~Refused(line, table.stack, table.put)
       /\ table'.stack = StackAfter(line, table.stack, table.put)
       /\ table'.put = ContribAfter(line, table.stack, table.put)
  BY <1>6, <1>7, <1>9, LineRefunds
<1>11. table'.status = [table.status EXCEPT ![line.seat] =
                          StatusAfter(table.status[line.seat], line, table'.stack)]
  <2>1. table'.stack[s] = table.stack[s] + back
    BY <1>6, <1>9
  <2>2. table'.stack[s] # 0
    BY <1>6, <1>9, <2>1
  <2>3. StatusAfter(table.status[line.seat], line, table'.stack) = "live"
    BY <1>6, <1>7, <2>2 DEF StatusAfter
  <2> QED BY <1>6, <1>7, <2>3
<1>12. /\ BooksInv' /\ replay'.street = table.street
       /\ replay'.pending = CASE line.type \in {"bet", "raise_to"} -> Live(table') \ {line.seat}
                              [] line.type \in {"check", "call", "fold"} ->
                                   (Pending \cap Live(table')) \ {line.seat}
                              [] line.type = "return_uncalled" -> {}
                              [] OTHER -> Pending \cap Live(table')
       /\ replay'.snapshot =
            IF replay.snapshot.taken \/ ~TerminalAllIn(replay') THEN replay.snapshot
            ELSE [taken |-> TRUE, street |-> line.street,
                  committed |-> replay'.committed, status |-> replay'.status]
  BY <1>1, <1>3, <1>6, <1>7, <1>8, <1>10, <1>11, BooksRead
<1>13. replay'.pending = {}
  BY <1>7, <1>12
<1>14. replay'.status = table'.status /\ ReplayShape(replay') /\ replay'.street = table'.street
  BY <1>6, <1>12 DEF BooksInv, ReplayShape
<1>15. replay'.snapshot.taken \/ Cardinality(InHand(table')) <= 1
  <2>1. Cardinality(InHand(table')) \in Nat
    <3>1. InHand(table') \subseteq Seats
      BY DEF InHand
    <3> QED BY <3>1, FewSeats
  <2>2. Cardinality(InHand(table')) <= 1 \/ Cardinality(InHand(table')) >= 2
    BY <2>1
  <2>3. Cardinality(InHand(table')) >= 2 => TerminalAllIn(replay')
    BY <1>3, <1>5, <1>6, <1>13, <1>14, TerminalMeans DEF Lone
  <2> QED BY <1>12, <2>2, <2>3
<1>16. AwaitInv'
  <2>1. Pending' = {}
    BY <1>6, <1>12, <1>13 DEF Pending, AwaitedOn
  <2>2. Lone(table)' /\ InHand(table)' = InHand(table')
    BY <1>5 DEF Lone, Live, InHand
  <2> QED BY <1>6, <1>15, <2>1, <2>2 DEF AwaitInv
<1>17. replay.snapshot.taken => Settled'
  <2> SUFFICES ASSUME replay.snapshot.taken PROVE Settled'
    OBVIOUS
  <2>1. replay'.snapshot = replay.snapshot
    BY <1>12
  <2>2. Settled
    BY <1>1 DEF SnapshotInv
  <2>3. \A u \in Seats : /\ start[u] - table.stack[u] = replay.committed[u]
                         /\ start[u] - table'.stack[u] = replay'.committed[u]
    <3> SUFFICES ASSUME NEW u \in Seats
                 PROVE  /\ start[u] - table.stack[u] = replay.committed[u]
                        /\ start[u] - table'.stack[u] = replay'.committed[u]
      OBVIOUS
    <3>1. table.stack[u] + replay.committed[u] = start[u] /\ replay.committed[u] \in Int
      BY <1>1 DEF BooksInv, Kept, ReplayShape
    <3>2. table'.stack[u] + replay'.committed[u] = start[u] /\ replay'.committed[u] \in Int
      BY <1>6, <1>12 DEF BooksInv, Kept, ReplayShape
    <3>3. table.stack[u] \in Nat /\ table'.stack[u] \in Nat
      BY <1>4, <1>9 DEF Dealer, TableShape
    <3> QED BY <3>1, <3>2, <3>3
  <2>4. InHand(table) \in SUBSET Seats
    BY DEF InHand
  <2>5. Topped(replay.snapshot.committed, replay.committed, InHand(table))
    BY <2>2 DEF Settled, Topped
  <2>6. Lacking(table.stack, replay.committed) /\ Lacking(table'.stack, replay'.committed)
    BY <2>3 DEF Lacking
  <2>7. Topped(replay.snapshot.committed, replay'.committed, InHand(table))
    BY <1>1, <1>2, <1>3, <1>4, <1>6, <2>4, <2>5, <2>6, RefundSettles
  <2> QED BY <1>5, <2>1, <2>7 DEF Settled, InHand, Topped
<1>18. SnapshotInv'
  <2>1. table'.put \in [Seats -> Nat] /\ table'.price \in Nat /\ table'.spoken \subseteq Seats
    BY <1>4 DEF Dealer, TableShape
  <2>2. table'.street # "showdown" /\ table'.phase \notin Posting
    BY <1>3, <1>6 DEF Posting
  <2>3. replay.snapshot.taken => /\ Lone(table') /\ Cardinality(InHand(table')) >= 2 /\ Settled'
                                 /\ table'.phase \in Posting => Live(table') = {}
    <3>1. replay.snapshot.taken => Cardinality(InHand(table)) >= 2
      BY <1>1 DEF SnapshotInv
    <3> QED BY <1>5, <1>17, <2>2, <3>1
  <2> QED BY <1>12, <1>14, <1>16, <2>1, <2>2, <2>3, SnapshotFollows
<1> QED BY <1>4, <1>12, <1>16, <1>18 DEF TableInv

-----------------------------------------------------------------------------
(* The board and the showdown.                                             *)

(* When the betting of a street is over and two seats are in the hand,     *)
(* whoever still has chips paid the price.                                 *)
LEMMA PricePaid ==
  ASSUME TableShape(table), BettingOver(table), Cardinality(InHand(table)) > 1
  PROVE  \A s \in Live(table) : table.put[s] >= table.price
<1>1. ~(Cardinality(InHand(table)) <= 1)
  <2>1. InHand(table) \subseteq Seats
    BY DEF InHand
  <2>2. Cardinality(InHand(table)) \in Nat
    BY <2>1, FewSeats
  <2> QED BY <2>2
<1>2. ASSUME Awaited(table) = {}, NEW s \in Live(table) PROVE table.put[s] >= table.price
  <2>1. table.put[s] \in Nat /\ table.price \in Nat /\ ~(table.put[s] < table.price)
    BY <1>2 DEF Awaited, Live, TableShape
  <2> QED BY <2>1
<1> QED BY <1>1, <1>2 DEF BettingOver

(* What the next street changes of the table.                              *)
Opened ==
  /\ table.phase = "betting" /\ Cardinality(InHand(table)) > 1
  /\ table.street \in {"preflop", "flop", "turn"} /\ start' = start
  /\ DOMAIN table' = TableFields /\ table'.street = NextOf[table.street]
  /\ table'.put = NoChips /\ table'.price = 0 /\ table'.spoken = {} /\ table'.place = Button
  /\ table'.stack = table.stack /\ table'.status = table.status
  /\ table'.phase = "betting" /\ table'.owing = table.owing

(* On a new street whoever still has chips put in as much as anybody on    *)
(* the streets before.                                                     *)
LEMMA OpenedLevel ==
  ASSUME Dealer(table), BettingOver(table), Opened, start \in [Seats -> Nat]
  PROVE  Leveled(table')
<1>1. /\ TableShape(table) /\ Solvent(table) /\ Leveled(table)
      /\ table.stack \in [Seats -> Nat] /\ table.put \in [Seats -> Nat]
      /\ table.phase # "antes" /\ table.street # "showdown"
      /\ table'.put = NoChips /\ table'.stack = table.stack /\ table'.status = table.status
  BY DEF Dealer, TableShape, Opened
<1> SUFFICES ASSUME NEW s \in Seats, NEW u \in Seats, table.status[s] = "live"
             PROVE  Before(table', u) <= Before(table', s)
  BY <1>1, NoneIn DEF Leveled
<1>2. /\ start[u] \in Nat /\ start[s] \in Nat /\ table.stack[u] \in Nat /\ table.stack[s] \in Nat
      /\ table.put[u] \in Nat /\ table.put[s] \in Nat /\ table.price \in Nat
      /\ table'.put[u] = 0 /\ table'.put[s] = 0
  BY <1>1 DEF NoChips, TableShape
<1>3. Before(table, u) <= Before(table, s)
  BY <1>1 DEF Leveled
<1>4. table.put[u] <= table.price
  BY <1>1 DEF Solvent
<1>5. table.put[s] >= table.price
  BY <1>1, PricePaid DEF Opened, Live
<1> QED BY <1>1, <1>2, <1>3, <1>4, <1>5 DEF Before

(* The next street keeps the invariant: the books of the last street are   *)
(* read as a new street's.                                                 *)
LEMMA OpenedKeeps ==
  ASSUME TableInv, BettingOver(table), Opened, UNCHANGED <<annotation, engine, replay>>
  PROVE  TableInv'
<1>1. /\ DealerInv /\ BooksInv /\ SnapshotInv /\ TableShape(table) /\ Solvent(table)
      /\ Dealer(table) /\ start \in [Seats -> Nat]
  BY StartsAssumption DEF TableInv, DealerInv, Dealer
<1>2. /\ table'.put = NoChips /\ table'.price = 0 /\ table'.spoken = {} /\ table'.place = Button
      /\ table'.stack = table.stack /\ table'.status = table.status /\ start' = start
      /\ table'.phase = "betting" /\ table'.owing = table.owing /\ DOMAIN table' = TableFields
      /\ table'.street = NextOf[table.street] /\ table.street \in {"preflop", "flop", "turn"}
  BY DEF Opened
<1>3. /\ table'.street \in {"flop", "turn", "river"}
      /\ Reached(table.street) \subseteq Reached(table'.street)
      /\ table'.street \notin Reached(table.street)
  BY <1>2 DEF NextOf, Reached, BettingStreets
<1>4. Live(table') = Live(table) /\ InHand(table') = InHand(table)
  BY <1>2 DEF Live, InHand
<1>5. Dealer(table')
  <2>1. NoChips \in [Seats -> Nat] /\ 0 \in Nat /\ \A s \in Seats : NoChips[s] <= 0
    BY DEF NoChips
  <2>2. TableShape(table')
    BY <1>1, <1>2, <1>3, <2>1, Constants DEF TableShape, Phases, Streets, BettingStreets
  <2>3. Shown(table') /\ Dealt(table') /\ Anted(table')
    BY <1>2, <1>3 DEF Shown, Dealt, Anted, Posting
  <2>4. Solvent(table')
    BY <1>1, <1>2, <2>1 DEF Solvent
  <2>5. Leveled(table')
    BY <1>1, OpenedLevel
  <2> QED BY <2>2, <2>3, <2>4, <2>5 DEF Dealer
<1>6. DealerInv'
  BY <1>1, <1>2, <1>5, SameStart
<1>7. ASSUME NEW state, InStep(state)
      PROVE  /\ state.street \in Reached(table'.street)
             /\ RoundOf(state, table'.street) = table'.put
  BY <1>2, <1>3, <1>7 DEF InStep, RoundOf
<1>8. BooksInv'
  <2>1. InStep(annotation)' /\ InStep(engine)' /\ InStep(replay)'
    BY <1>1, <1>7 DEF BooksInv, InStep
  <2> QED BY <1>1, <1>2, <2>1 DEF BooksInv, AnnotationShape, EngineShape, ReplayShape, Kept, Reported
<1>9. AwaitInv'
  <2>1. LiveIn(replay) = Live(table)
    BY <1>1, SamePlayers DEF BooksInv
  <2>2. replay.street # table'.street
    BY <1>1, <1>2, <1>3 DEF BooksInv, InStep
  <2>3. Pending' = Live(table)
    BY <1>3, <2>1, <2>2 DEF Pending, AwaitedOn
  <2>4. Awaited(table)' = Live(table)
    BY <1>2, <1>4 DEF Awaited, Live
  <2> QED BY <2>3, <2>4 DEF AwaitInv
<1>10. Lone(table) => Lone(table')
  <2>1. \A s \in Live(table') : table'.put[s] >= table'.price
    BY <1>2 DEF Live, NoChips
  <2> QED BY <1>4, <2>1 DEF Lone
<1>11. Live(table) = {} /\ Cardinality(InHand(table)) >= 2 => replay.snapshot.taken
  <2>1. Live(table) = {} => Cardinality(Live(table)) <= 1
    BY FewSeats
  <2> QED BY <1>1, <1>2, <2>1 DEF SnapshotInv
<1>12. SnapshotInv'
  <2>1. replay.snapshot.taken => /\ Lone(table') /\ Cardinality(InHand(table')) >= 2 /\ Settled'
                                 /\ table'.phase \notin Posting
    BY <1>1, <1>2, <1>4, <1>10 DEF SnapshotInv, Settled, InHand, Posting
  <2>2. Cardinality(InHand(table')) >= 2 /\ Live(table') \subseteq table'.spoken
          => replay.snapshot.taken
    BY <1>2, <1>4, <1>11
  <2> QED BY <2>1, <2>2 DEF SnapshotInv, Lone, Live, InHand
<1> QED BY <1>6, <1>8, <1>9, <1>12 DEF TableInv

(* At the showdown the chips stay where they are.                          *)
Closed ==
  /\ start' = start /\ DOMAIN table' = TableFields
  /\ table'.phase \in {"showdown", "over"} /\ table'.street = "showdown"
  /\ table'.stack = table.stack /\ table'.put = table.put /\ table'.status = table.status
  /\ table'.price = table.price /\ table'.spoken = table.spoken /\ table'.place = table.place
  /\ table'.owing = table.owing

(* Books that are read to the end stay read.                               *)
LEMMA ClosedKeeps ==
  ASSUME TableInv, Closed,
         AnnotationShape(annotation'), EngineShape(engine'), ReplayShape(replay'),
         Kept(replay', start), ~replay'.invalid, ~Reported(engine'),
         \A state \in {annotation', engine', replay'} : state.stack = table.stack,
         \A state \in {engine', replay'} : state.status = table.status,
         replay'.snapshot = replay.snapshot, replay'.committed = replay.committed,
         table.phase \notin Posting
  PROVE  TableInv'
<1>1. DealerInv /\ BooksInv /\ SnapshotInv /\ Dealer(table) /\ TableShape(table)
  BY DEF TableInv, DealerInv, Dealer
<1>2. Live(table') = Live(table) /\ InHand(table') = InHand(table)
  BY DEF Live, InHand, Closed
<1>3. Dealer(table')
  <2>1. TableShape(table')
    BY <1>1 DEF TableShape, Closed, Phases, Streets
  <2>2. Shown(table') /\ Dealt(table') /\ Anted(table') /\ Leveled(table')
    BY DEF Closed, Shown, Dealt, Anted, Leveled, Posting
  <2>3. Solvent(table')
    BY <1>1 DEF Dealer, Solvent, Closed
  <2> QED BY <2>1, <2>2, <2>3 DEF Dealer
<1>4. DealerInv'
  BY <1>1, <1>3, SameStart DEF Closed
<1>5. BooksInv'
  BY DEF Closed, BooksInv, InStep, AnnotationShape, EngineShape, ReplayShape, Kept, Reported
<1>6. AwaitInv'
  BY DEF Closed, AwaitInv
<1>7. SnapshotInv'
  <2>1. replay.snapshot.taken => /\ Lone(table') /\ Cardinality(InHand(table')) >= 2 /\ Settled'
    BY <1>1, <1>2 DEF SnapshotInv, Settled, InHand, Lone, Closed
  <2>2. table'.phase \notin Posting /\ table'.street = "showdown"
    BY DEF Closed, Posting
  <2> QED BY <2>1, <2>2 DEF SnapshotInv, Lone, Live, InHand
<1> QED BY <1>4, <1>5, <1>6, <1>7 DEF TableInv

(* The end of a street keeps the invariant.                                *)
LEMMA StreetKeeps == TableInv /\ NextStreet => TableInv'
<1> SUFFICES ASSUME TableInv, NextStreet PROVE TableInv'
  OBVIOUS
<1>1. /\ TableShape(table) /\ Shown(table) /\ BooksInv
      /\ table.phase = "betting" /\ BettingOver(table) /\ start' = start
      /\ UNCHANGED <<annotation, engine, replay>>
  BY DEF TableInv, DealerInv, Dealer, NextStreet
<1>2. table.street \in BettingStreets
  BY <1>1 DEF Shown, TableShape, Streets
<1>3. CASE Cardinality(InHand(table)) > 1 /\ table.street \notin {LastStreet, "river"}
  <2>1. table' = [table EXCEPT !.street = NextOf[@], !.put = NoChips, !.price = 0,
                               !.minRaise = BigBlind, !.spoken = {}, !.place = Button]
    BY <1>3 DEF NextStreet
  <2>2. /\ DOMAIN table' = TableFields /\ table'.street = NextOf[table.street]
        /\ table'.put = NoChips /\ table'.price = 0 /\ table'.spoken = {} /\ table'.place = Button
        /\ table'.stack = table.stack /\ table'.status = table.status
        /\ table'.phase = table.phase /\ table'.owing = table.owing
    BY <1>1, <2>1 DEF TableShape, TableFields
  <2>3. table.street \in {"preflop", "flop", "turn"}
    BY <1>2, <1>3 DEF BettingStreets
  <2>4. Opened
    BY <1>1, <1>3, <2>2, <2>3 DEF Opened
  <2> QED BY <1>1, <2>4, OpenedKeeps
<1>4. CASE ~(Cardinality(InHand(table)) > 1 /\ table.street \notin {LastStreet, "river"})
  <2>1. table' = [table EXCEPT !.phase = "showdown", !.street = "showdown"]
    BY <1>4 DEF NextStreet
  <2>2. Closed
    BY <1>1, <2>1 DEF TableShape, TableFields, Closed
  <2>3. table.phase \notin Posting
    BY <1>1 DEF Posting
  <2> QED BY <1>1, <2>2, <2>3, ClosedKeeps DEF BooksInv
<1> QED BY <1>3, <1>4

(* A line of the showdown moves no chips.                                  *)
LEMMA ShownRead ==
  ASSUME TableInv, table.phase = "showdown", NEW s \in InHand(table),
         NEW type, type \in {"show", "muck", "collect"}, Read(Line(s, type, 0))
  PROVE  /\ AnnotationShape(annotation') /\ EngineShape(engine') /\ ReplayShape(replay')
         /\ Kept(replay', start) /\ ~replay'.invalid /\ ~Reported(engine')
         /\ \A state \in {annotation', engine', replay'} : state.stack = table.stack
         /\ \A state \in {engine', replay'} : state.status = table.status
         /\ replay'.snapshot = replay.snapshot /\ replay'.committed = replay.committed
<1> DEFINE line == Line(s, type, 0)
<1>1. /\ BooksInv /\ TableShape(table) /\ Solvent(table) /\ start \in [Seats -> Nat]
      /\ table.street = "showdown" /\ s \in Seats /\ table.status[s] \in {"live", "all_in"}
      /\ table.stack \in [Seats -> Nat] /\ table.status \in [Seats -> Statuses]
  BY StartsAssumption DEF TableInv, DealerInv, Dealer, Shown, InHand, TableShape
<1>2. type \in ActionTypes /\ type \notin Posts \cup {"call", "bet", "raise_to", "fold", "return_uncalled"}
  BY DEF ActionTypes, Posts
<1>3. /\ line \in Lines /\ ~line.allIn /\ line.street = "showdown" /\ line.seat = s
      /\ line.type = type /\ line.chips = 0 /\ Read(line)
  BY <1>1, <1>2, LineIsLine
<1> HIDE DEF line
<1>4. \A c : Delta(line, c) = 0
  BY <1>2, <1>3 DEF Delta
<1>5. table.stack[s] \in Nat /\ [table.stack EXCEPT ![s] = @ - 0] = table.stack
  BY <1>1
<1>6. \A c : ~Refused(line, table.stack, c) /\ StackAfter(line, table.stack, c) = table.stack
  <2> SUFFICES ASSUME NEW c
               PROVE  ~Refused(line, table.stack, c) /\ StackAfter(line, table.stack, c) = table.stack
    OBVIOUS
  <2>1. Pays(line, table.stack, c) /\ ~Refunds(line, c)
    <3>1. 0 <= table.stack[s]
      BY <1>5
    <3> QED BY <1>2, <1>3, <1>4, <3>1 DEF Pays, Refunds
  <2>2. StackAfter(line, table.stack, c) = [table.stack EXCEPT ![s] = @ - 0]
    BY <1>3, <1>4, <2>1 DEF StackAfter
  <2> QED BY <1>5, <2>1, <2>2 DEF Refused
<1>7. /\ AnnotationShape(annotation') /\ EngineShape(engine') /\ ReplayShape(replay')
      /\ Kept(replay', start) /\ ~replay'.invalid /\ ~Reported(engine')
      /\ \A state \in {annotation', engine', replay'} :
           state.street = line.street /\ state.stack = table.stack
      /\ \A state \in {engine', replay'} :
           state.status = [table.status EXCEPT ![line.seat] =
                             StatusAfter(table.status[line.seat], line, table.stack)]
      /\ replay'.snapshot =
           IF replay.snapshot.taken \/ ~TerminalAllIn(replay') THEN replay.snapshot
           ELSE [taken |-> TRUE, street |-> line.street,
                 committed |-> replay'.committed, status |-> replay'.status]
  <2>1. \A state \in {annotation, engine, replay} :
          LET c == RoundOf(state, line.street)
          IN ~Refused(line, table.stack, c) /\ StackAfter(line, table.stack, c) = table.stack
    BY <1>6
  <2>2. start \in [Seats -> Nat] /\ BooksInv /\ line \in Lines /\ ~line.allIn /\ Read(line)
        /\ line.street = "showdown"
    BY <1>1, <1>3
  <2> QED BY <2>1, <2>2, LineRead
<1>8. StatusAfter(table.status[s], line, table.stack) = table.status[s]
  <2>1. /\ table.status[s] = "live" => table.stack[s] # 0
        /\ table.status[s] = "all_in" => table.stack[s] = 0
    BY <1>1, <1>5 DEF Solvent
  <2> QED BY <1>1, <1>2, <1>3, <2>1 DEF StatusAfter
<1>9. [table.status EXCEPT ![s] = StatusAfter(table.status[s], line, table.stack)] = table.status
  BY <1>1, <1>8
<1>10. ~TerminalAllIn(replay')
  BY <1>3, <1>7 DEF TerminalAllIn
<1>11. replay'.committed = replay.committed
  <2>1. replay'.committed \in [Seats -> Int] /\ replay.committed \in [Seats -> Int]
    BY <1>1, <1>7 DEF BooksInv, ReplayShape
  <2>2. ASSUME NEW u \in Seats PROVE replay'.committed[u] = replay.committed[u]
    <3>1. table.stack[u] + replay'.committed[u] = start[u]
      BY <1>7 DEF Kept
    <3>2. table.stack[u] + replay.committed[u] = start[u]
      BY <1>1 DEF BooksInv, Kept
    <3>3. table.stack[u] \in Nat /\ replay'.committed[u] \in Int /\ replay.committed[u] \in Int
      BY <1>1, <2>1
    <3> QED BY <3>1, <3>2, <3>3
  <2> QED BY <2>1, <2>2
<1> QED BY <1>3, <1>7, <1>9, <1>10, <1>11

(* The showdown keeps the invariant.                                       *)
LEMMA ShowdownKeeps == TableInv /\ Showdown => TableInv'
<1> SUFFICES ASSUME TableInv, Showdown PROVE TableInv'
  OBVIOUS
<1>1. TableShape(table) /\ table.phase = "showdown" /\ table.street = "showdown" /\ start' = start
  BY DEF TableInv, DealerInv, Dealer, Shown, Showdown
<1>2. PICK s \in InHand(table), type \in {"show", "muck", "collect"} :
        /\ Read(Line(s, type, 0))
        /\ table' = [table EXCEPT !.phase = IF type = "collect" THEN "over" ELSE @]
  BY DEF Showdown
<1>3. Closed
  BY <1>1, <1>2 DEF TableShape, TableFields, Closed
<1>4. table.phase \notin Posting
  BY <1>1 DEF Posting
<1> QED BY <1>1, <1>2, <1>3, <1>4, ShownRead, ClosedKeeps

-----------------------------------------------------------------------------
(* The theorems.                                                           *)

(* Every step of the hand keeps the invariant.                             *)
LEMMA TableKept == TableInv /\ [Next]_vars => TableInv'
<1>1. TableInv /\ UNCHANGED vars => TableInv'
  <2> SUFFICES ASSUME TableInv, UNCHANGED vars PROVE TableInv'
    OBVIOUS
  <2>1. /\ DealerInv /\ BooksInv /\ AwaitInv /\ SnapshotInv
        /\ start' = start /\ table' = table /\ annotation' = annotation /\ engine' = engine
        /\ replay' = replay
    BY DEF TableInv, vars
  <2>2. DealerInv'
    BY <2>1, SameStart DEF DealerInv
  <2>3. BooksInv'
    BY <2>1 DEF BooksInv, InStep, AnnotationShape, EngineShape, ReplayShape, Kept, Reported
  <2>4. AwaitInv'
    BY <2>1 DEF AwaitInv, Pending, Awaited, Lone, Live, InHand
  <2>5. SnapshotInv'
    BY <2>1 DEF SnapshotInv, Settled, Lone, Live, InHand, BettingOver, Awaited
  <2> QED BY <2>2, <2>3, <2>4, <2>5 DEF TableInv
<1> QED BY <1>1, PostKeeps, ActKeeps, ReturnKeeps, StreetKeeps, ShowdownKeeps DEF Next

(* The hand keeps it for ever.                                             *)
THEOREM TableIsKept == Spec => []TableInv
<1>1. Init => TableInv
  BY TableInitially
<1>2. TableInv /\ [Next]_vars => TableInv'
  BY TableKept
<1> QED BY <1>1, <1>2, PTL DEF Spec

(* A hand dealt by the rules is never fail-safed: the normalizer accepts   *)
(* each of its lines, and the engine has nothing to say about its money.   *)
THEOREM LegalMoneyPasses == Spec => [](~replay.invalid /\ ~Reported(engine))
<1>1. TableInv => ~replay.invalid /\ ~Reported(engine)
  BY DEF TableInv, BooksInv
<1> QED BY <1>1, TableIsKept, PTL

(* The three replays and the dealer count the same chips.                  *)
THEOREM ReplaysAlwaysAgree == Spec => []ReplaysAgree
<1>1. TableInv => ReplaysAgree
  BY DEF TableInv, BooksInv, ReplaysAgree, Accounted, Kept
<1> QED BY <1>1, TableIsKept, PTL

(* The snapshot freezes the end of the betting.                            *)
THEOREM SnapshotsAreTerminal == Spec => []SnapshotIsTerminal
<1>1. TableInv => SnapshotIsTerminal
  BY DEF TableInv, SnapshotInv, SnapshotIsTerminal, Settled, Lone, BettingOver
<1> QED BY <1>1, TableIsKept, PTL

(* When the betting ends with somebody all-in and at most one player with  *)
(* chips, who has spoken, the snapshot is there.                           *)
THEOREM RunoutsHaveSnapshots == Spec => []RunoutHasSnapshot
<1>1. TableInv => RunoutHasSnapshot
  <2> SUFFICES ASSUME TableInv, table.phase = "betting", BettingOver(table),
                      Cardinality(InHand(table)) >= 2, Cardinality(Live(table)) <= 1,
                      Live(table) \subseteq table.spoken
               PROVE  replay.snapshot.taken
    BY DEF RunoutHasSnapshot
  <2>1. table.street # "showdown"
    BY DEF TableInv, DealerInv, Dealer, Shown
  <2> QED BY <2>1 DEF TableInv, SnapshotInv
<1> QED BY <1>1, TableIsKept, PTL

-----------------------------------------------------------------------------
(* The knockouts.                                                          *)
(*                                                                         *)
(* KoInv relates what the knockout rows are looked up from to the table:   *)
(* as long as the hero is in the hand, the targets he looks at as all-in   *)
(* are all-in.  A refund could undo that, but none goes to an all-in       *)
(* target while the hero is in: he covers it and matched it.               *)

KoFields == {"folded", "pushed", "early", "allIn", "late", "answered", "posted", "forced"}
KoShape == /\ DOMAIN ko = KoFields /\ ko.folded \in BOOLEAN /\ ko.pushed \in BOOLEAN
           /\ ko.posted \in [Seats -> Nat]
Seated == \A s \in Seats : table.status[s] = "eliminated" <=> s \notin Playing
HeroSeen ==
  /\ ko.folded <=> table.status[Hero] = "folded"
  /\ table.status[Hero] = "all_in" => ko.pushed
  /\ ko.late # {} => ko.folded
  /\ \A s \in Seats : s \in ko.early => table.status[s] = "folded"
PostsSeen ==
  \A s \in Targets(start) :
    /\ ko.posted[s] >= start[s] => s \in ko.forced
    /\ table.phase \in Posting => ko.posted[s] + table.stack[s] = start[s]
TargetsSeen ==
  Hero \in InHand(table) =>
    \A s \in Targets(start) : table.status[s] = "all_in" <=> s \in ko.allIn \cup ko.forced
KoInv == KoShape /\ Seated /\ HeroSeen /\ PostsSeen /\ TargetsSeen

(* What a line of the hero changes.                                        *)
LEMMA HeroFields ==
  ASSUME KoShape, NEW line, ko' = HeroSpoke(ko, start, line)
  PROVE  /\ DOMAIN ko' = KoFields
         /\ ko'.folded = (ko.folded \/ line.type = "fold")
         /\ ko'.pushed = (ko.pushed \/ IsPush(start, line))
         /\ ko'.early = ko.early /\ ko'.allIn = ko.allIn /\ ko'.late = ko.late
         /\ ko'.posted = ko.posted /\ ko'.forced = ko.forced
BY DEF KoShape, KoFields, HeroSpoke

(* A line and what becomes of the status of its seat.                      *)
Tells(line, s, now) ==
  /\ s \in Seats /\ line.seat = s
  /\ table.status[s] \in {"live", "all_in"} /\ now \in {"live", "all_in", "folded"}
  /\ table'.status = [table.status EXCEPT ![s] = now]
  /\ line.type = "fold" <=> now = "folded"
  /\ line.allIn <=> now = "all_in"
  /\ table.status[s] = "live" /\ now = "all_in" => PutsIn(line) \/ line.type \in Posts
  /\ s \in Targets(start) /\ Hero \in InHand(table) /\ table.status[s] = "all_in" => now = "all_in"
  /\ line.type \in Posts =>
       /\ table.phase \in Posting /\ line.chips \in Nat /\ line.chips <= table.stack[s]
       /\ now = "all_in" <=> line.chips = table.stack[s]
  /\ table'.phase \in Posting =>
       line.type \in Posts /\ table'.stack = [table.stack EXCEPT ![s] = @ - line.chips]

(* The posts of a target exhaust its stack when they reach it.             *)
LEMMA PostsAddUp ==
  ASSUME NEW posted \in Nat, NEW stack \in Nat, NEW full, posted + stack = full,
         NEW chips \in Nat, chips <= stack
  PROVE  /\ posted + chips \in Nat
         /\ posted + chips >= full <=> chips = stack
         /\ (posted + chips) + (stack - chips) = full
OBVIOUS

(* A line keeps the invariant.                                             *)
LEMMA KoLine ==
  ASSUME KoInv, TableShape(table), start \in [Seats -> Nat], start' = start,
         NEW line, NEW s, NEW now, Tells(line, s, now), ko' = KoAfter(ko, start, line)
  PROVE  KoInv'
<1>1. /\ KoShape /\ Seated /\ HeroSeen /\ PostsSeen /\ TargetsSeen
      /\ table.status \in [Seats -> Statuses] /\ table.stack \in [Seats -> Nat]
      /\ Hero \in Seats /\ Hero \notin Targets(start) /\ Targets(start) \subseteq Seats
      /\ s \in Seats /\ line.seat = s
  BY HeroAssumption DEF KoInv, TableShape, Targets, Tells
<1>2. /\ table'.status[s] = now /\ \A u \in Seats \ {s} : table'.status[u] = table.status[u]
      /\ now \in {"live", "all_in", "folded"} /\ table.status[s] \in {"live", "all_in"}
  BY <1>1 DEF Tells
<1>3. Seated'
  BY <1>1, <1>2 DEF Seated, Playing
<1>4. s \notin ko.early
  BY <1>1, <1>2 DEF HeroSeen
<1>5. Hero \in InHand(table') => Hero \in InHand(table)
  BY <1>1, <1>2 DEF InHand
<1>6. CASE s = Hero
  <2>1. ko' = HeroSpoke(ko, start, line)
    BY <1>1, <1>6 DEF KoAfter
  <2>2. /\ DOMAIN ko' = KoFields
        /\ ko'.folded = (ko.folded \/ line.type = "fold")
        /\ ko'.pushed = (ko.pushed \/ IsPush(start, line))
        /\ ko'.early = ko.early /\ ko'.allIn = ko.allIn /\ ko'.late = ko.late
        /\ ko'.posted = ko.posted /\ ko'.forced = ko.forced
    BY <1>1, <2>1, HeroFields
  <2>3. KoShape'
    BY <1>1, <2>2 DEF KoShape
  <2>4. /\ ~ko.folded /\ ko.late = {}
        /\ line.type = "fold" <=> now = "folded"
        /\ now = "all_in" => IsPush(start, line)
    BY <1>1, <1>2, <1>6 DEF HeroSeen, IsPush, Tells
  <2>5. HeroSeen'
    BY <1>1, <1>2, <1>4, <1>6, <2>2, <2>4 DEF HeroSeen
  <2>6. PostsSeen'
    <3>1. \A u \in Targets(start) : table'.phase \in Posting => table'.stack[u] = table.stack[u]
      BY <1>1, <1>6 DEF Tells
    <3>2. table'.phase \in Posting => table.phase \in Posting
      BY DEF Tells
    <3> QED BY <1>1, <2>2, <3>1, <3>2 DEF PostsSeen, Targets
  <2>7. TargetsSeen'
    <3>1. \A u \in Targets(start) : table'.status[u] = table.status[u]
      BY <1>1, <1>2, <1>6
    <3> QED BY <1>1, <1>5, <2>2, <3>1 DEF TargetsSeen, Targets, InHand
  <2> QED BY <1>3, <2>3, <2>5, <2>6, <2>7 DEF KoInv
<1>7. CASE s \in Targets(start)
  <2>0. PICK posted : posted = IF line.type \in Posts THEN ko.posted[s] + line.chips
                                                    ELSE ko.posted[s]
    OBVIOUS
  <2>1. s # Hero /\ ko' = TargetSpoke(ko, start, line)
    BY <1>1, <1>7 DEF KoAfter
  <2>2. /\ DOMAIN ko' = KoFields
        /\ ko'.folded = ko.folded /\ ko'.pushed = ko.pushed
        /\ ko'.early = IF line.type = "fold" /\ ~ko.pushed THEN ko.early \cup {s} ELSE ko.early
        /\ ko'.allIn = IF PutsIn(line) /\ line.allIn /\ s \notin ko.allIn
                         THEN ko.allIn \cup {s} ELSE ko.allIn
        /\ ko'.late = IF PutsIn(line) /\ line.allIn /\ s \notin ko.allIn /\ ko.folded
                        THEN ko.late \cup {s} ELSE ko.late
        /\ ko'.posted = [ko.posted EXCEPT ![s] = posted]
        /\ ko'.forced = IF posted >= start[s] THEN ko.forced \cup {s} ELSE ko.forced
    BY <1>1, <2>0, <2>1 DEF KoShape, KoFields, TargetSpoke
  <2>3. /\ posted \in Nat
        /\ line.type \in Posts => /\ posted >= start[s] <=> now = "all_in"
                                  /\ posted + (table.stack[s] - line.chips) = start[s]
        /\ line.type \notin Posts => posted = ko.posted[s]
    <3>1. ko.posted[s] \in Nat /\ table.stack[s] \in Nat
      BY <1>1 DEF KoShape
    <3>2. CASE line.type \in Posts
      <4>1. /\ ko.posted[s] + table.stack[s] = start[s] /\ line.chips \in Nat
            /\ line.chips <= table.stack[s] /\ (now = "all_in" <=> line.chips = table.stack[s])
        BY <1>1, <1>7, <3>2 DEF PostsSeen, Tells
      <4>2. posted = ko.posted[s] + line.chips
        BY <2>0, <3>2
      <4> QED BY <3>1, <3>2, <4>1, <4>2, PostsAddUp
    <3>3. CASE line.type \notin Posts
      BY <2>0, <3>1, <3>3
    <3> QED BY <3>2, <3>3
  <2>4. KoShape'
    BY <1>1, <2>2, <2>3 DEF KoShape
  <2>5. HeroSeen'
    <3>1. line.type = "fold" <=> now = "folded"
      BY DEF Tells
    <3>2. table'.status[Hero] = table.status[Hero]
      BY <1>1, <1>2, <2>1
    <3>3. \A u \in Seats : u \in ko'.early => table'.status[u] = "folded"
      BY <1>1, <1>2, <1>4, <2>2, <3>1 DEF HeroSeen
    <3>4. ko'.late # {} => ko'.folded
      BY <1>1, <2>2 DEF HeroSeen
    <3> QED BY <1>1, <2>2, <3>2, <3>3, <3>4 DEF HeroSeen
  <2>6. PostsSeen'
    <3>1. ASSUME NEW u \in Targets(start)
          PROVE  /\ ko'.posted[u] >= start[u] => u \in ko'.forced
                 /\ table'.phase \in Posting => ko'.posted[u] + table'.stack[u] = start[u]
      <4>1. CASE u = s
        <5>1. ko'.posted[s] = posted /\ (posted >= start[s] => s \in ko'.forced)
          BY <1>1, <2>2 DEF KoShape
        <5>2. table'.phase \in Posting => /\ line.type \in Posts
                                          /\ table'.stack[s] = table.stack[s] - line.chips
          BY <1>1 DEF Tells
        <5> QED BY <2>3, <4>1, <5>1, <5>2
      <4>2. CASE u # s
        <5>1. ko'.posted[u] = ko.posted[u] /\ (u \in ko.forced => u \in ko'.forced)
          BY <1>1, <2>2, <4>2 DEF KoShape
        <5>2. table'.phase \in Posting => table.phase \in Posting /\ table'.stack[u] = table.stack[u]
          BY <1>1, <4>2 DEF Tells
        <5> QED BY <1>1, <5>1, <5>2 DEF PostsSeen
      <4> QED BY <4>1, <4>2
    <3> QED BY <3>1 DEF PostsSeen, Targets
  <2>7. TargetsSeen'
    <3> SUFFICES ASSUME Hero \in InHand(table'), NEW u \in Targets(start)
                 PROVE  table'.status[u] = "all_in" <=> u \in ko'.allIn \cup ko'.forced
      BY DEF TargetsSeen, Targets, InHand
    <3>1. Hero \in InHand(table) /\ (table.status[u] = "all_in" <=> u \in ko.allIn \cup ko.forced)
      BY <1>1, <1>5 DEF TargetsSeen
    <3>2. CASE u = s
      <4>1. /\ line.allIn <=> now = "all_in"
            /\ table.status[s] = "all_in" => now = "all_in"
            /\ table.status[s] = "live" /\ now = "all_in" => PutsIn(line) \/ line.type \in Posts
        BY <1>7, <3>1 DEF Tells
      <4>2. now = "all_in" => s \in ko'.allIn \cup ko'.forced
        <5>1. CASE table.status[s] = "all_in"
          BY <2>2, <3>1, <3>2, <5>1
        <5>2. CASE table.status[s] = "live" /\ PutsIn(line)
          BY <2>2, <4>1, <5>2
        <5>3. CASE table.status[s] = "live" /\ line.type \in Posts
          BY <2>2, <2>3, <5>3
        <5> QED BY <1>2, <4>1, <5>1, <5>2, <5>3
      <4>3. s \in ko.allIn \cup ko.forced => now = "all_in"
        BY <3>1, <3>2, <4>1
      <4>4. s \in ko'.allIn => s \in ko.allIn \/ now = "all_in"
        BY <2>2, <4>1
      <4>5. s \in ko'.forced => s \in ko.forced \/ now = "all_in"
        <5>1. CASE line.type \in Posts
          BY <2>2, <2>3, <5>1
        <5>2. CASE line.type \notin Posts
          BY <1>1, <1>7, <2>2, <2>3, <5>2 DEF PostsSeen
        <5> QED BY <5>1, <5>2
      <4> QED BY <1>2, <3>2, <4>2, <4>3, <4>4, <4>5
    <3>3. CASE u # s
      <4>1. u \in ko'.allIn <=> u \in ko.allIn
        BY <2>2, <3>3
      <4>2. u \in ko'.forced <=> u \in ko.forced
        BY <2>2, <3>3
      <4> QED BY <1>1, <1>2, <3>1, <3>3, <4>1, <4>2
    <3> QED BY <3>2, <3>3
  <2> QED BY <1>3, <2>4, <2>5, <2>6, <2>7 DEF KoInv
<1>8. CASE s # Hero /\ s \notin Targets(start)
  <2>1. ko' = ko
    BY <1>1, <1>8 DEF KoAfter
  <2>2. KoShape'
    BY <1>1, <2>1 DEF KoShape
  <2>3. HeroSeen'
    BY <1>1, <1>2, <1>4, <1>8, <2>1 DEF HeroSeen
  <2>4. PostsSeen'
    <3>1. \A u \in Targets(start) : table'.phase \in Posting => table'.stack[u] = table.stack[u]
      BY <1>1, <1>8 DEF Tells
    <3>2. table'.phase \in Posting => table.phase \in Posting
      BY DEF Tells
    <3> QED BY <1>1, <2>1, <3>1, <3>2 DEF PostsSeen, Targets
  <2>5. TargetsSeen'
    <3>1. \A u \in Targets(start) : table'.status[u] = table.status[u]
      BY <1>1, <1>2, <1>8
    <3> QED BY <1>1, <1>5, <2>1, <3>1 DEF TargetsSeen, Targets, InHand
  <2> QED BY <1>3, <2>2, <2>3, <2>4, <2>5 DEF KoInv
<1> QED BY <1>6, <1>7, <1>8

(* A step without a line leaves the knockouts as they are.                 *)
LEMMA KoStill ==
  ASSUME KoInv, start' = start, ko' = ko, table'.status = table.status,
         table'.phase \in Posting => table.phase \in Posting /\ table'.stack = table.stack
  PROVE  KoInv'
<1>1. KoShape' /\ Seated'
  BY DEF KoInv, KoShape, Seated, Playing
<1>2. HeroSeen' /\ PostsSeen'
  BY DEF KoInv, HeroSeen, PostsSeen
<1>3. TargetsSeen'
  BY DEF KoInv, TargetsSeen, InHand
<1> QED BY <1>1, <1>2, <1>3 DEF KoInv

(* The line the knockouts are looked up from is the dealer's, marked when  *)
(* it leaves its seat without chips.                                       *)
MarkedAs(line, marked) ==
  /\ marked.seat = line.seat /\ marked.type = line.type /\ marked.chips = line.chips
  /\ marked.allIn <=> line.type # "return_uncalled" /\ table'.stack[line.seat] = 0

(* It is the line that reaches them.                                       *)
LEMMA KoReads ==
  ASSUME BooksInv', NEW line \in Lines, ~line.allIn, Read(line)
  PROVE  \E marked : MarkedAs(line, marked) /\ ko' = KoAfter(ko, start, marked)
<1>1. PICK marked : marked = Annotated(annotation, line)
  OBVIOUS
<1>2. ko' = KoAfter(ko, start, marked) /\ annotation' = AnnotationAfter(annotation, line)
  BY <1>1 DEF Read
<1>3. annotation'.stack = table'.stack
  BY DEF BooksInv
<1>4. /\ marked.seat = line.seat /\ marked.type = line.type /\ marked.chips = line.chips
      /\ marked.allIn <=> line.allIn \/ (line.type # "return_uncalled"
                                         /\ AnnotationAfter(annotation, line).stack[line.seat] = 0)
  BY <1>1, Marked
<1> QED BY <1>2, <1>3, <1>4 DEF MarkedAs

(* A hand starts with nothing to look up.                                  *)
LEMMA KoInitially == Init => KoInv
<1> SUFFICES ASSUME Init PROVE KoInv
  OBVIOUS
<1>1. /\ start \in [Seats -> Nat] /\ ko = KoInit /\ table.stack = start
      /\ table.status = InitialStatus(start) /\ table.phase = "antes" /\ Hero \in Seats
  BY StartsAssumption, HeroAssumption DEF Init
<1>2. KoShape
  BY <1>1 DEF KoShape, KoFields, KoInit, NoChips
<1>3. Seated
  BY <1>1 DEF Seated, Playing, InitialStatus
<1>4. HeroSeen
  BY <1>1 DEF HeroSeen, KoInit, InitialStatus
<1>5. PostsSeen
  <2>1. \A s \in Targets(start) : s \in Seats /\ start[s] > 0 /\ ko.posted[s] = 0
    BY <1>1 DEF Targets, KoInit, NoChips
  <2>2. \A s \in Targets(start) : ~(ko.posted[s] >= start[s]) /\ ko.posted[s] + table.stack[s] = start[s]
    <3> SUFFICES ASSUME NEW s \in Targets(start)
                 PROVE  ~(ko.posted[s] >= start[s]) /\ ko.posted[s] + table.stack[s] = start[s]
      OBVIOUS
    <3>1. start[s] \in Nat /\ start[s] > 0 /\ ko.posted[s] = 0 /\ table.stack[s] = start[s]
      BY <1>1, <2>1
    <3> QED BY <3>1
  <2> QED BY <2>2 DEF PostsSeen
<1>6. TargetsSeen
  BY <1>1 DEF TargetsSeen, KoInit, InitialStatus, Targets
<1> QED BY <1>2, <1>3, <1>4, <1>5, <1>6 DEF KoInv

(* Antes and blinds keep it.                                               *)
LEMMA KoPost ==
  ASSUME TableInv, BooksInv', KoInv, NEW seat, NEW type, NEW due, NEW phase,
         Charged(seat, type, due, phase)
  PROVE  KoInv'
<1>1. /\ DealerInv /\ TableShape(table) /\ Solvent(table) /\ Dealt(table)
      /\ start \in [Seats -> Nat] /\ seat \in Playing /\ seat \in Seats
      /\ type \in {"post_ante", "post_sb", "post_bb"} /\ due \in Nat
      /\ table.phase \in Posting /\ Posted(seat, type, due, phase)
  BY StartsAssumption DEF TableInv, DealerInv, Dealer, Charged, Playing
<1>2. PICK chips : chips = Atmost(due, table.stack[seat])
  OBVIOUS
<1>3. PostChange(seat, type, due, phase)
  BY <1>1, PostFields
<1>4. /\ chips \in Nat /\ chips <= table.stack[seat] /\ start' = start
      /\ table'.stack = [table.stack EXCEPT ![seat] = @ - chips]
      /\ table'.status = [table.status EXCEPT ![seat] =
                            IF table.stack[seat] = chips THEN "all_in" ELSE @]
      /\ table.stack[seat] \in Nat
  BY <1>1, <1>2, <1>3 DEF PostChange, TableShape
<1>5. CASE chips = 0
  <2>1. ko' = ko /\ table'.stack = table.stack /\ table'.status = table.status
    BY <1>1, <1>2, <1>5, PostNothing
  <2> QED BY <1>1, <1>4, <2>1, KoStill
<1>6. CASE chips # 0
  <2> DEFINE line == Line(seat, type, chips)
  <2>1. Read(line)
    BY <1>1, <1>2, <1>6 DEF Posted
  <2>2. type \in ActionTypes /\ type \in Posts /\ type # "fold" /\ type # "return_uncalled"
    BY <1>1 DEF ActionTypes, Posts
  <2>3. line \in Lines /\ ~line.allIn /\ line.seat = seat /\ line.type = type /\ line.chips = chips
    BY <1>1, <1>4, <2>2, LineIsLine
  <2> HIDE DEF line
  <2>4. PICK marked : MarkedAs(line, marked) /\ ko' = KoAfter(ko, start, marked)
    BY <2>1, <2>3, KoReads
  <2>5. PICK now : now = IF table.stack[seat] = chips THEN "all_in" ELSE table.status[seat]
    OBVIOUS
  <2>6. table.status[seat] = "live"
    <3>1. table.status[seat] \in {"live", "all_in"}
      BY <1>1 DEF Dealt
    <3>2. table.stack[seat] # 0
      BY <1>4, <1>6
    <3> QED BY <1>1, <3>1, <3>2 DEF Solvent
  <2>7. table'.stack[seat] = 0 <=> now = "all_in"
    <3>1. table'.stack[seat] = table.stack[seat] - chips
      BY <1>1, <1>4 DEF TableShape
    <3>2. table'.stack[seat] = 0 <=> table.stack[seat] = chips
      BY <1>4, <3>1
    <3> QED BY <2>5, <2>6, <3>2
  <2>8. Tells(marked, seat, now)
    BY <1>1, <1>4, <2>2, <2>3, <2>4, <2>5, <2>6, <2>7 DEF Tells, MarkedAs
  <2> QED BY <1>1, <1>4, <2>4, <2>8, KoLine
<1> QED BY <1>5, <1>6

(* A turn keeps it.                                                        *)
LEMMA KoAct ==
  ASSUME TableInv, BooksInv', KoInv, Act
  PROVE  KoInv'
<1>1. PICK s, type, chips, d : Turn(s, type, chips, d)
  BY ActTurns
<1>2. /\ TableShape(table) /\ Solvent(table) /\ start \in [Seats -> Nat]
      /\ table.phase = "betting" /\ ~BettingOver(table)
  BY StartsAssumption DEF TableInv, DealerInv, Dealer, Act
<1>3. s \in Seats /\ table.status[s] = "live"
  BY <1>1, <1>2, OnTurn DEF Turn
<1> DEFINE line == Line(s, type, chips)
<1>4. /\ type \in ActionTypes /\ type \in Voluntary /\ type \notin Posts
      /\ type # "return_uncalled" /\ chips \in Nat /\ d \in Nat
      /\ type \in {"fold", "check"} => d = 0
      /\ type \notin {"fold", "check"} => type \in {"call", "bet", "raise_to"}
  <2>1. /\ type \in Voluntary /\ chips \in Nat /\ d \in Nat /\ d = Delta(line, table.put[s])
        /\ line.type = type
    BY <1>1 DEF Turn, Line
  <2>2. type \in {"fold", "check"} => d = 0
    BY <2>1 DEF Delta, Posts
  <2> QED BY <2>1, <2>2 DEF Voluntary, ActionTypes, Posts
<1>5. line \in Lines /\ ~line.allIn /\ line.seat = s /\ line.type = type /\ line.chips = chips
  BY <1>2, <1>3, <1>4, LineIsLine
<1>6. Read(line) /\ ActChange(s, type, d)
  BY <1>1 DEF Turn
<1> HIDE DEF line
<1>7. PICK marked : MarkedAs(line, marked) /\ ko' = KoAfter(ko, start, marked)
  BY <1>5, <1>6, KoReads
<1>8. PICK now : now = ActStatus(s, type, d)
  OBVIOUS
<1>9. /\ table'.stack = [table.stack EXCEPT ![s] = @ - d] /\ start' = start
      /\ table'.status = [table.status EXCEPT ![s] = now] /\ table'.phase = "betting"
      /\ table.stack[s] \in Nat /\ table.stack[s] > 0
  BY <1>2, <1>3, <1>6, <1>8 DEF ActChange, TableShape, Solvent
<1>10. /\ now \in {"live", "all_in", "folded"}
       /\ type = "fold" <=> now = "folded"
       /\ now = "all_in" <=> type # "fold" /\ table.stack[s] = d
  BY <1>3, <1>8 DEF ActStatus
<1>11. /\ table'.stack[s] = 0 <=> table.stack[s] = d
       /\ type \in {"fold", "check"} => table.stack[s] # d
  <2>1. table'.stack[s] = table.stack[s] - d
    BY <1>2, <1>3, <1>9 DEF TableShape
  <2> QED BY <1>4, <1>9, <2>1
<1>12. Tells(marked, s, now)
  BY <1>3, <1>4, <1>5, <1>7, <1>9, <1>10, <1>11 DEF Tells, MarkedAs, PutsIn, Posting
<1> QED BY <1>2, <1>7, <1>9, <1>12, KoLine

(* Nobody gives back to an all-in target while the hero is in: he covers   *)
(* the target, and put in as much.                                         *)
LEMMA TargetMatched ==
  ASSUME TableInv, BettingOver(table), NEW s \in Targets(start), NEW back, Refunded(s, back),
         Hero \in InHand(table), table.status[s] = "all_in"
  PROVE  FALSE
<1>1. /\ TableShape(table) /\ Solvent(table) /\ Leveled(table) /\ start \in [Seats -> Nat]
      /\ table.street # "showdown" /\ table.phase = "betting"
      /\ Hero \in Seats /\ s \in Seats /\ s # Hero /\ start[s] <= start[Hero]
  BY StartsAssumption, HeroAssumption
  DEF TableInv, DealerInv, Dealer, Shown, Refunded, Targets
<1>2. /\ table.put[Hero] \in Nat /\ table.put[s] \in Nat /\ table.price \in Nat
      /\ start[Hero] \in Nat /\ start[s] \in Nat
      /\ table.put[s] <= table.price /\ table.stack[s] = 0
  BY <1>1 DEF TableShape, Solvent
<1>3. table.put[Hero] < table.put[s] /\ table.put[s] > 0
  <2>1. table.put[Hero] <= table.put[s] - back /\ back \in Nat /\ back > 0 /\ back <= table.put[s]
    BY <1>1 DEF Refunded
  <2> QED BY <1>2, <2>1
<1>4. CASE table.status[Hero] = "live"
  <2>1. Cardinality(InHand(table)) > 1
    <3>1. InHand(table) \subseteq Seats /\ s \in InHand(table) /\ Hero \in InHand(table)
      BY <1>1 DEF InHand
    <3>2. Cardinality(InHand(table)) \in Nat /\ ~(Cardinality(InHand(table)) <= 1)
      BY <1>1, <3>1, FewSeats
    <3> QED BY <3>2
  <2>2. table.put[Hero] >= table.price
    BY <1>1, <1>4, <2>1, PricePaid DEF Live
  <2> QED BY <1>2, <1>3, <2>2
<1>5. CASE table.status[Hero] = "all_in"
  <2>1. table.stack[Hero] = 0
    BY <1>1, <1>5 DEF Solvent
  <2>2. Before(table, Hero) <= Before(table, s)
    BY <1>1, <1>3 DEF Leveled
  <2>3. start[Hero] - 0 - table.put[Hero] <= start[s] - 0 - table.put[s]
    BY <1>2, <2>1, <2>2 DEF Before
  <2> QED BY <1>1, <1>2, <1>3, <2>3
<1> QED BY <1>4, <1>5 DEF InHand

(* A refund keeps it.                                                      *)
LEMMA KoReturn ==
  ASSUME TableInv, BooksInv', KoInv, ReturnUncalled
  PROVE  KoInv'
<1>1. /\ DealerInv /\ TableShape(table) /\ Solvent(table) /\ start \in [Seats -> Nat]
      /\ BettingOver(table)
  BY StartsAssumption DEF TableInv, DealerInv, Dealer, ReturnUncalled
<1>2. PICK s, back : Refunded(s, back) /\ Read(Line(s, "return_uncalled", back))
  BY <1>1, RefundFields
<1> DEFINE line == Line(s, "return_uncalled", back)
<1>3. /\ s \in Seats /\ back \in Nat /\ table.status[s] \in {"live", "all_in"} /\ start' = start
      /\ table'.status = [table.status EXCEPT ![s] = "live"] /\ table'.phase = "betting"
  BY <1>2 DEF Refunded
<1>4. "return_uncalled" \in ActionTypes /\ "return_uncalled" \notin Posts
  BY DEF ActionTypes, Posts
<1>5. line \in Lines /\ ~line.allIn /\ line.seat = s /\ line.type = "return_uncalled"
  BY <1>1, <1>3, <1>4, LineIsLine
<1>6. Read(line)
  BY <1>2
<1> HIDE DEF line
<1>7. PICK marked : MarkedAs(line, marked) /\ ko' = KoAfter(ko, start, marked)
  BY <1>5, <1>6, KoReads
<1>8. ~(s \in Targets(start) /\ Hero \in InHand(table) /\ table.status[s] = "all_in")
  BY <1>1, <1>2, TargetMatched
<1>9. Tells(marked, s, "live")
  BY <1>3, <1>4, <1>5, <1>7, <1>8 DEF Tells, MarkedAs, Posting
<1> QED BY <1>1, <1>3, <1>7, <1>9, KoLine

(* The end of a street keeps it.                                           *)
LEMMA KoStreet ==
  ASSUME TableInv, KoInv, NextStreet
  PROVE  KoInv'
<1>1. DOMAIN table = TableFields /\ table.phase = "betting" /\ start' = start /\ ko' = ko
  BY DEF TableInv, DealerInv, Dealer, TableShape, NextStreet
<1>2. table'.status = table.status /\ table'.phase \notin Posting
  <2>1. CASE Cardinality(InHand(table)) > 1 /\ table.street \notin {LastStreet, "river"}
    <3>1. table' = [table EXCEPT !.street = NextOf[@], !.put = NoChips, !.price = 0,
                                 !.minRaise = BigBlind, !.spoken = {}, !.place = Button]
      BY <2>1 DEF NextStreet
    <3> QED BY <1>1, <3>1 DEF TableFields, Posting
  <2>2. CASE ~(Cardinality(InHand(table)) > 1 /\ table.street \notin {LastStreet, "river"})
    <3>1. table' = [table EXCEPT !.phase = "showdown", !.street = "showdown"]
      BY <2>2 DEF NextStreet
    <3> QED BY <1>1, <3>1 DEF TableFields, Posting
  <2> QED BY <2>1, <2>2
<1> QED BY <1>1, <1>2, KoStill

(* The showdown keeps it.                                                  *)
LEMMA KoShowdown ==
  ASSUME TableInv, BooksInv', KoInv, Showdown
  PROVE  KoInv'
<1>1. /\ TableShape(table) /\ Solvent(table) /\ start \in [Seats -> Nat] /\ start' = start
      /\ DOMAIN table = TableFields
  BY StartsAssumption DEF TableInv, DealerInv, Dealer, TableShape, Showdown
<1>2. PICK s \in InHand(table), type \in {"show", "muck", "collect"} :
        /\ Read(Line(s, type, 0)) /\ table.phase = "showdown"
        /\ table' = [table EXCEPT !.phase = IF type = "collect" THEN "over" ELSE @]
  BY DEF Showdown
<1> DEFINE line == Line(s, type, 0)
<1>3. /\ s \in Seats /\ table.status[s] \in {"live", "all_in"}
      /\ table.status \in [Seats -> Statuses] /\ table.stack[s] \in Nat
      /\ table'.status = table.status /\ table'.stack = table.stack
      /\ table'.phase \in {"showdown", "over"}
  BY <1>1, <1>2 DEF TableFields, TableShape, InHand
<1>4. type \in ActionTypes /\ type \notin Posts /\ type # "fold" /\ type # "return_uncalled"
  BY DEF ActionTypes, Posts
<1>5. line \in Lines /\ ~line.allIn /\ line.seat = s /\ line.type = type
  BY <1>1, <1>3, <1>4, LineIsLine
<1>6. Read(line)
  BY <1>2
<1> HIDE DEF line
<1>7. PICK marked : MarkedAs(line, marked) /\ ko' = KoAfter(ko, start, marked)
  BY <1>5, <1>6, KoReads
<1>8. PICK now : now = table.status[s]
  OBVIOUS
<1>9. table'.stack[s] = 0 <=> now = "all_in"
  BY <1>1, <1>3, <1>8 DEF Solvent
<1>10. Tells(marked, s, now)
  BY <1>3, <1>4, <1>5, <1>7, <1>8, <1>9 DEF Tells, MarkedAs, Posting
<1> QED BY <1>1, <1>7, <1>10, KoLine

(* Every step keeps it.                                                    *)
LEMMA KoKept == TableInv /\ TableInv' /\ KoInv /\ [Next]_vars => KoInv'
<1> SUFFICES ASSUME TableInv, TableInv', KoInv, [Next]_vars PROVE KoInv'
  OBVIOUS
<1>1. BooksInv' /\ DealerInv
  BY DEF TableInv
<1>2. CASE Post
  BY <1>1, <1>2, PostCharges, KoPost
<1>3. CASE Act
  BY <1>1, <1>3, KoAct
<1>4. CASE ReturnUncalled
  BY <1>1, <1>4, KoReturn
<1>5. CASE NextStreet
  BY <1>5, KoStreet
<1>6. CASE Showdown
  BY <1>1, <1>6, KoShowdown
<1>7. CASE UNCHANGED vars
  <2>1. start' = start /\ ko' = ko /\ table' = table
    BY <1>7 DEF vars
  <2> QED BY <2>1, KoStill
<1> QED BY <1>2, <1>3, <1>4, <1>5, <1>6, <1>7 DEF Next

(* When the hands are shown, the knockout attempts of a hero who was dealt *)
(* in are among the all-in players he covers and faces, and each of these  *)
(* is an opportunity; when he is all-in himself each is an attempt.        *)
THEOREM KnockoutsFaced ==
  ASSUME Hero \notin SittingOut
  PROVE  Spec => []KnockoutsAreConfrontations
<1>1. Init => KoInv
  BY KoInitially
<1>2. TableInv /\ TableInv' /\ KoInv /\ [Next]_vars => KoInv'
  BY KoKept
<1>3. TableInv /\ KoInv => KnockoutsAreConfrontations
  <2> SUFFICES ASSUME TableInv, KoInv, table.phase = "showdown"
               PROVE  LET faced == {t \in Targets(start) : /\ {Hero, t} \subseteq InHand(table)
                                                           /\ table.status[t] = "all_in"}
                          attempts == KoAttempts(ko, start)
                      IN /\ attempts \subseteq faced
                         /\ faced \subseteq KoOpportunities(ko, start)
                         /\ table.status[Hero] = "all_in" => faced \subseteq attempts
    BY DEF KnockoutsAreConfrontations
  <2>1. /\ Seated /\ HeroSeen /\ TargetsSeen /\ Hero \in Seats
        /\ start \in [Seats -> Nat] /\ table.status \in [Seats -> Statuses]
    BY StartsAssumption, HeroAssumption DEF KoInv, TableInv, DealerInv, Dealer, TableShape
  <2>2. ASSUME NEW t \in Targets(start) PROVE Hero \in Playing
    <3>1. start[t] \in Nat /\ start[Hero] \in Nat /\ 0 < start[t] /\ start[t] <= start[Hero]
      BY <2>1, <2>2 DEF Targets
    <3>2. start[Hero] > 0
      BY <3>1
    <3> QED BY <2>1, <3>2 DEF Playing
  <2>3. ASSUME NEW t \in KoAttempts(ko, start)
        PROVE  t \in Targets(start) /\ {Hero, t} \subseteq InHand(table) /\ table.status[t] = "all_in"
    <3>1. t \in Targets(start) /\ ~ko.folded /\ t \in ko.allIn \cup ko.forced
      BY <2>3 DEF KoAttempts, StillIn
    <3>2. Hero \in InHand(table)
      BY <2>1, <2>2, <3>1 DEF Seated, HeroSeen, InHand, Statuses
    <3>3. table.status[t] = "all_in"
      BY <2>1, <3>1, <3>2 DEF TargetsSeen
    <3> QED BY <3>1, <3>2, <3>3 DEF InHand, Targets
  <2>4. ASSUME NEW t \in Targets(start), {Hero, t} \subseteq InHand(table),
               table.status[t] = "all_in"
        PROVE  t \in KoOpportunities(ko, start)
    <3>1. t \in ko.allIn \cup ko.forced /\ ko.late = {}
      BY <2>1, <2>4 DEF TargetsSeen, HeroSeen, InHand
    <3> QED BY <3>1 DEF KoOpportunities
  <2>5. ASSUME NEW t \in Targets(start), {Hero, t} \subseteq InHand(table),
               table.status[t] = "all_in", table.status[Hero] = "all_in"
        PROVE  t \in KoAttempts(ko, start)
    <3>1. t \in ko.allIn \cup ko.forced /\ ko.pushed /\ ~ko.folded /\ t \notin ko.early
      BY <2>1, <2>5 DEF TargetsSeen, HeroSeen, InHand, Targets
    <3> QED BY <3>1 DEF KoAttempts, StillIn
  <2> QED BY <2>3, <2>4, <2>5
<1> QED BY <1>1, <1>2, <1>3, TableIsKept, PTL DEF Spec

-----------------------------------------------------------------------------
(* The prices.                                                             *)
(*                                                                         *)
(* Besides the money the engine follows the price of the street, the size  *)
(* of the last full raise and who may still raise.  PriceInv says that     *)
(* these are the dealer's, until a refund ends the betting; hence the only *)
(* issues it may report are about the order of seats.                      *)

OrderKinds ==
  {"illegal_small_blind_actor", "illegal_big_blind_actor", "illegal_actor_order",
   "premature_street_close"}

PriceOn(e, street) == IF street = e.street THEN e.toCall ELSE 0
FullOn(e, street) == IF street = e.street THEN e.lastRaise ELSE BigBlind
OpenOn(e, street) ==
  IF street = e.street THEN e.reopened ELSE [s \in Seats |-> e.status[s] = "live"]

Betting(t) == t.phase \in Posting \/ (t.phase = "betting" /\ ~BettingOver(t))
PriceInv ==
  /\ engine.issues \subseteq OrderKinds /\ engine.reopened \in [Seats -> BOOLEAN]
  /\ Betting(table) =>
       /\ PriceOn(engine, table.street) = table.price
       /\ FullOn(engine, table.street) = table.minRaise
       /\ \A s \in Live(table) : OpenOn(engine, table.street)[s] <=> s \notin table.spoken

(* The stages of the engine that leave the price alone.                    *)
SamePrice(f, e) ==
  f.toCall = e.toCall /\ f.lastRaise = e.lastRaise /\ f.reopened = e.reopened

(* Initialising the street, reporting and the status are such stages.      *)
LEMMA StagesKeepPrice ==
  ASSUME NEW e, EngineShape(e), NEW line \in Lines
  PROVE  /\ SamePrice(WithActors(e), e) /\ WithActors(e).issues = e.issues
         /\ \A kinds : SamePrice(Flagged(e, kinds), e)
         /\ SamePrice(EngineStatus(e, line), e)
<1>1. SamePrice(WithActors(e), e) /\ WithActors(e).issues = e.issues
  BY DEF SamePrice, WithActors, EngineShape, EngineFields
<1>2. \A kinds : SamePrice(Flagged(e, kinds), e)
  BY DEF SamePrice, Flagged, EngineShape, EngineFields
<1>3. SamePrice(EngineStatus(e, line), e)
  BY DEF SamePrice, EngineStatus, EngineShape, EngineFields
<1> QED BY <1>1, <1>2, <1>3

(* A line whose money is accepted is not reported, and keeps the price.    *)
LEMMA MoneyKeepsPrice ==
  ASSUME NEW e, EngineShape(e), NEW line \in Lines,
         Pays(line, e.stack, e.contrib) \/ Refunds(line, e.contrib)
  PROVE  SamePrice(EngineMoney(e, line), e) /\ EngineMoney(e, line).issues = e.issues
<1> DEFINE s == line.seat
           d == Delta(line, e.contrib[s])
<1>1. s \in Seats /\ line.chips \in Nat /\ d \in Nat /\ e.contrib[s] \in Int /\ e.stack[s] \in Int
  BY DeltaNat DEF EngineShape, Lines
<1>2. CASE line.type = "return_uncalled"
  <2> DEFINE late == {k \in {"refund_exceeds_betting_round_contrib"} : line.chips > e.contrib[s]}
             base == IF RefundAllowed(e, line)
                       THEN [e EXCEPT !.stack[s] = @ + line.chips, !.contrib[s] = @ - line.chips]
                       ELSE e
  <2>1. late = {}
    BY <1>1, <1>2 DEF Refunds, Pays
  <2>2. EngineMoney(e, line) = Flagged(base, late)
    BY <1>2 DEF EngineMoney
  <2>3. SamePrice(base, e) /\ base.issues = e.issues /\ base = [f \in EngineFields |-> base[f]]
    BY DEF SamePrice, EngineShape, EngineFields
  <2> HIDE DEF base, late
  <2> QED BY <2>1, <2>2, <2>3 DEF Flagged, SamePrice, EngineFields
<1>3. CASE line.type # "return_uncalled"
  <2>1. ~(d > e.stack[s])
    BY <1>1, <1>3 DEF Pays, Refunds
  <2>2. EngineMoney(e, line) =
          [e EXCEPT !.stack[s] = @ - d,
                    !.contrib[s] = IF CountsInRound(line.type) THEN @ + d ELSE @]
    BY <1>3, <2>1 DEF EngineMoney
  <2> HIDE DEF d, s
  <2> QED BY <2>2 DEF SamePrice, EngineShape, EngineFields
<1> QED BY <1>2, <1>3

(* On a new street the price starts anew.                                  *)
LEMMA StreetPrice ==
  ASSUME NEW e, EngineShape(e), NEW street \in Streets
  PROVE  LET f == AdvanceStreet(e, street)
         IN /\ f.toCall = PriceOn(e, street) /\ f.lastRaise = FullOn(e, street)
            /\ street \in BettingStreets => f.reopened = OpenOn(e, street)
            /\ f.reopened = OpenOn(e, street) \/ f.reopened = e.reopened
            /\ f.issues \subseteq e.issues \cup OrderKinds
BY DEF AdvanceStreet, PriceOn, FullOn, OpenOn, OrderKinds, EngineShape, EngineFields

(* The round after an action of a seat.                                    *)
LEMMA RoundPrice ==
  ASSUME NEW e, EngineShape(e), e.reopened \in [Seats -> BOOLEAN], NEW line \in Lines,
         NEW aggression \in {"none", "short", "full"}, NEW level
  PROVE  LET f == AdvanceRound(e, line, aggression, level)
         IN /\ f.toCall = IF aggression = "none" THEN e.toCall ELSE level
            /\ f.lastRaise = IF aggression = "full" THEN level - e.toCall ELSE e.lastRaise
            /\ f.reopened = IF aggression = "full"
                              THEN [t \in Seats |-> e.status[t] = "live" /\ t # line.seat]
                              ELSE [e.reopened EXCEPT ![line.seat] = FALSE]
<1> DEFINE s == line.seat
           eligible == Only(e.eligible, Seats \ {s})
           acted == [e EXCEPT !.eligible = eligible, !.reopened[s] = FALSE]
           answering == Answering(e, s, level)
           short == [acted EXCEPT !.toCall = level, !.eligible = answering]
           live == [t \in Seats |-> e.status[t] = "live" /\ t # s]
           full == [acted EXCEPT !.toCall = level, !.lastRaise = level - e.toCall,
                                 !.eligible = answering, !.reopened = live]
           priced == CASE aggression = "none" -> acted
                       [] aggression = "short" -> short
                       [] aggression = "full" -> full
           f == AdvanceRound(e, line, aggression, level)
<1>1. f = IF RoundClosed(priced) THEN [priced EXCEPT !.eligible = <<>>] ELSE priced
  BY DEF AdvanceRound
<1>2. /\ acted = [x \in EngineFields |-> acted[x]]
      /\ acted.toCall = e.toCall /\ acted.lastRaise = e.lastRaise
      /\ acted.reopened = [e.reopened EXCEPT ![s] = FALSE]
  <2> HIDE DEF eligible
  <2> QED BY DEF EngineShape, EngineFields
<1> HIDE DEF acted, answering, live
<1>3. /\ priced = [x \in EngineFields |-> priced[x]]
      /\ priced.toCall = IF aggression = "none" THEN e.toCall ELSE level
      /\ priced.lastRaise = IF aggression = "full" THEN level - e.toCall ELSE e.lastRaise
      /\ priced.reopened = IF aggression = "full" THEN live ELSE [e.reopened EXCEPT ![s] = FALSE]
  <2>1. CASE aggression = "none"
    BY <1>2, <2>1
  <2>2. CASE aggression = "short"
    BY <1>2, <2>2 DEF EngineFields
  <2>3. CASE aggression = "full"
    BY <1>2, <2>3 DEF EngineFields
  <2> QED BY <2>1, <2>2, <2>3
<1> HIDE DEF priced
<1>4. /\ f.toCall = priced.toCall /\ f.lastRaise = priced.lastRaise /\ f.reopened = priced.reopened
  BY <1>1, <1>3 DEF EngineFields
<1> QED BY <1>3, <1>4 DEF live

(* A voluntary line: what is reported beyond the order of seats, and the   *)
(* price after it, decided by the engine before the line.                  *)
AtTurn(b, e, street) ==
  /\ b.toCall = PriceOn(e, street) /\ b.lastRaise = FullOn(e, street)
  /\ b.reopened = OpenOn(e, street) /\ b.contrib = RoundOf(e, street) /\ b.stack = e.stack
Turned(e, street) == WithActors(AdvanceStreet(e, street))
Priced(f, b, line) ==
  LET level == Level(b, line)
      aggression == Aggression(b, line)
  IN /\ f.toCall = IF aggression = "none" THEN b.toCall ELSE level
     /\ f.lastRaise = IF aggression = "full" THEN level - b.toCall ELSE b.lastRaise
     /\ f.reopened = IF aggression = "full"
                       THEN [t \in Seats |-> f.status[t] = "live" /\ t # line.seat]
                       ELSE [b.reopened EXCEPT ![line.seat] = FALSE]

(* A voluntary line that is paid is priced so, and is reported for what    *)
(* BetIssues says and for seats at most.                                   *)
LEMMA VoluntaryPrice ==
  ASSUME NEW e, EngineShape(e), e.reopened \in [Seats -> BOOLEAN],
         NEW line \in Lines, line.type \in Voluntary, line.street \in BettingStreets,
         Pays(line, e.stack, RoundOf(e, line.street))
  PROVE  LET b == Turned(e, line.street)
         IN /\ AtTurn(b, e, line.street) /\ Priced(EngineAfter(e, line), b, line)
            /\ EngineAfter(e, line).issues \subseteq
                 e.issues \cup OrderKinds \cup BetIssues(b, line)
            /\ BetIssues(b, line) \subseteq EngineAfter(e, line).issues
<1> DEFINE street == AdvanceStreet(e, line.street)
           b == WithActors(street)
           found == SurfaceIssues(b, line) \cup (OrderIssues(b, line) \cup BetIssues(b, line))
           flagged == Flagged(b, found)
           paid == EngineMoney(flagged, line)
           after == EngineStatus(paid, line)
           f == EngineAfter(e, line)
<1>1. line.street \in Streets /\ line.street # "showdown"
  BY DEF Streets, BettingStreets
<1>2. /\ EngineShape(street) /\ street.street = line.street /\ street.stack = e.stack
      /\ street.contrib = RoundOf(e, line.street)
      /\ street.toCall = PriceOn(e, line.street) /\ street.lastRaise = FullOn(e, line.street)
      /\ street.reopened = OpenOn(e, line.street) /\ street.issues \subseteq e.issues \cup OrderKinds
  BY <1>1, EngineStreetStage, StreetPrice DEF RoundOf
<1> HIDE DEF street
<1>3. /\ EngineShape(b) /\ b.stack = street.stack /\ b.contrib = street.contrib
      /\ b.toCall = street.toCall /\ b.lastRaise = street.lastRaise /\ b.reopened = street.reopened
      /\ b.issues = street.issues
  BY <1>2, EngineActorsStage, StagesKeepPrice DEF SamePrice
<1>4. AtTurn(b, e, line.street)
  BY <1>2, <1>3 DEF AtTurn
<1> HIDE DEF b
<1>5. SurfaceIssues(b, line) = {}
  BY DEF SurfaceIssues, Voluntary
<1>6. OrderIssues(b, line) \subseteq OrderKinds
  BY DEF OrderIssues, OrderKinds
<1>7. found \subseteq OrderKinds \cup BetIssues(b, line) /\ BetIssues(b, line) \subseteq found
  BY <1>5, <1>6
<1> HIDE DEF found
<1>8. /\ EngineShape(flagged) /\ flagged.stack = b.stack /\ flagged.contrib = b.contrib
      /\ flagged.issues = b.issues \cup found /\ SamePrice(flagged, b)
  BY <1>3, EngineFlagStage, StagesKeepPrice
<1> HIDE DEF flagged
<1>9. Pays(line, flagged.stack, flagged.contrib)
  BY <1>2, <1>3, <1>8
<1>10. EngineShape(paid) /\ SamePrice(paid, flagged) /\ paid.issues = flagged.issues
  BY <1>8, <1>9, EngineMoneyStage, MoneyKeepsPrice
<1> HIDE DEF paid
<1>11. EngineShape(after) /\ SamePrice(after, paid) /\ after.issues = paid.issues
  BY <1>10, EngineStatusStage, StagesKeepPrice
<1>12. f = AdvanceRound(after, line, Aggression(b, line), Level(b, line))
  BY DEF EngineAfter, after, paid, flagged, found, b, street
<1> HIDE DEF after, f
<1>13. Aggression(b, line) \in {"none", "short", "full"}
  BY DEF Aggression
<1>14. /\ after.toCall = b.toCall /\ after.lastRaise = b.lastRaise /\ after.reopened = b.reopened
       /\ after.issues \subseteq e.issues \cup OrderKinds \cup BetIssues(b, line)
       /\ BetIssues(b, line) \subseteq after.issues
  BY <1>2, <1>3, <1>7, <1>8, <1>10, <1>11 DEF SamePrice
<1>15. after.reopened \in [Seats -> BOOLEAN]
  BY <1>2, <1>3, <1>14 DEF OpenOn
<1>16. f.issues = after.issues /\ f.status = after.status
  BY <1>11, <1>12, <1>13, RoundStage
<1>17. Priced(f, b, line)
  <2>1. PICK aggression \in {"none", "short", "full"} : aggression = Aggression(b, line)
    BY <1>13
  <2>2. PICK level : level = Level(b, line)
    OBVIOUS
  <2>3. f = AdvanceRound(after, line, aggression, level)
    BY <1>12, <2>1, <2>2
  <2>4. /\ f.toCall = IF aggression = "none" THEN after.toCall ELSE level
        /\ f.lastRaise = IF aggression = "full" THEN level - after.toCall ELSE after.lastRaise
        /\ f.reopened = IF aggression = "full"
                          THEN [t \in Seats |-> after.status[t] = "live" /\ t # line.seat]
                          ELSE [after.reopened EXCEPT ![line.seat] = FALSE]
    BY <1>11, <1>15, <2>3, RoundPrice
  <2> QED BY <1>14, <1>16, <2>1, <2>2, <2>4 DEF Priced
<1>18. Turned(e, line.street) = b
  BY DEF Turned, b, street
<1> QED BY <1>4, <1>14, <1>16, <1>17, <1>18 DEF f

(* Any other line whose money is accepted: only a blind changes the price. *)
LEMMA OtherPrice ==
  ASSUME NEW e, EngineShape(e), e.reopened \in [Seats -> BOOLEAN],
         NEW line \in Lines, line.type \notin Voluntary,
         ~Refused(line, e.stack, RoundOf(e, line.street))
  PROVE  LET f == EngineAfter(e, line)
         IN /\ f.issues \subseteq e.issues \cup OrderKinds /\ f.reopened \in [Seats -> BOOLEAN]
            /\ line.street = e.street =>
                 /\ f.lastRaise = e.lastRaise /\ f.reopened = e.reopened
                 /\ f.toCall = IF line.type \in Posts \ {"post_ante"} /\ line.street = "preflop"
                                 THEN Max({e.toCall, f.contrib[line.seat]}) ELSE e.toCall
<1> DEFINE b == AdvanceStreet(e, line.street)
           found == SurfaceIssues(b, line) \cup {}
           flagged == Flagged(b, found)
           paid == EngineMoney(flagged, line)
           after == EngineStatus(paid, line)
           f == EngineAfter(e, line)
<1>1. line.street \in Streets
  BY DEF Lines
<1>2. /\ EngineShape(b) /\ b.stack = e.stack /\ b.contrib = RoundOf(e, line.street)
      /\ b.toCall = PriceOn(e, line.street) /\ b.lastRaise = FullOn(e, line.street)
      /\ b.reopened = OpenOn(e, line.street) \/ b.reopened = e.reopened
      /\ b.issues \subseteq e.issues \cup OrderKinds
  BY <1>1, EngineStreetStage, StreetPrice DEF RoundOf
<1>3. b.reopened \in [Seats -> BOOLEAN]
  BY <1>2 DEF OpenOn
<1> HIDE DEF b
<1>4. Pays(line, b.stack, b.contrib) \/ Refunds(line, b.contrib)
  BY <1>2 DEF Refused
<1>5. found \subseteq OrderKinds
  <2>1. CASE line.type = "return_uncalled"
    <3>1. Refunds(line, b.contrib)
      BY <1>4, <2>1 DEF Pays
    <3> QED BY <2>1, <3>1, SurfaceVerdict DEF Refunds
  <2>2. CASE line.type # "return_uncalled"
    BY <2>2 DEF SurfaceIssues, OrderKinds
  <2> QED BY <2>1, <2>2
<1> HIDE DEF found
<1>6. /\ EngineShape(flagged) /\ flagged.stack = b.stack /\ flagged.contrib = b.contrib
      /\ flagged.issues = b.issues \cup found /\ SamePrice(flagged, b)
  BY <1>2, EngineFlagStage, StagesKeepPrice
<1> HIDE DEF flagged
<1>7. EngineShape(paid) /\ SamePrice(paid, flagged) /\ paid.issues = flagged.issues
  BY <1>4, <1>6, EngineMoneyStage, MoneyKeepsPrice
<1> HIDE DEF paid
<1>8. EngineShape(after) /\ SamePrice(after, paid) /\ after.issues = paid.issues
  BY <1>7, EngineStatusStage, StagesKeepPrice
<1>9. f = IF line.type \in Posts \ {"post_ante"} /\ line.street = "preflop"
            THEN [after EXCEPT !.toCall = Max({@, after.contrib[line.seat]})] ELSE after
  BY DEF EngineAfter, after, paid, flagged, found, b
<1> HIDE DEF after, f
<1>10. /\ f.lastRaise = after.lastRaise /\ f.reopened = after.reopened /\ f.issues = after.issues
       /\ f.contrib = after.contrib
       /\ f.toCall = IF line.type \in Posts \ {"post_ante"} /\ line.street = "preflop"
                       THEN Max({after.toCall, f.contrib[line.seat]}) ELSE after.toCall
  BY <1>8, <1>9 DEF EngineShape, EngineFields
<1>11. /\ after.toCall = b.toCall /\ after.lastRaise = b.lastRaise /\ after.reopened = b.reopened
       /\ after.issues \subseteq e.issues \cup OrderKinds
  BY <1>2, <1>5, <1>6, <1>7, <1>8 DEF SamePrice
<1>12. line.street = e.street => b.toCall = e.toCall /\ b.lastRaise = e.lastRaise /\ b.reopened = e.reopened
  BY <1>2 DEF PriceOn, FullOn, OpenOn
<1> QED BY <1>3, <1>10, <1>11, <1>12 DEF f

(* A line at the dealer's prices, and with its all-in mark.                *)
PricedAt(b, s) ==
  /\ b.toCall = table.price /\ b.lastRaise = table.minRaise
  /\ b.contrib = table.put /\ b.stack = table.stack
  /\ s \notin table.spoken => b.reopened[s]
BetMarked(line, s, type, chips) ==
  /\ line.seat = s /\ line.type = type /\ line.chips = chips
  /\ type \in {"bet", "raise_to"} /\ table'.price = table.put[s] + table.stack[s] => line.allIn
FullRaise == table'.price - table.price >= table.minRaise

(* By the rules there is nothing wrong with it, and the engine takes it    *)
(* for what it is.                                                         *)
LEMMA RuledBet ==
  ASSUME TableShape(table), NEW s \in Seats, table.put[s] <= table.price, table'.price \in Nat,
         NEW type, NEW chips \in Nat, Ruled(s, type, chips),
         NEW line, BetMarked(line, s, type, chips), NEW b, PricedAt(b, s)
  PROVE  /\ BetIssues(b, line) = {}
         /\ type \notin {"bet", "raise_to"} => Aggression(b, line) = "none"
         /\ type \in {"bet", "raise_to"} =>
              /\ Level(b, line) = table'.price
              /\ Aggression(b, line) = IF FullRaise THEN "full" ELSE "short"
<1>1. /\ table.put[s] \in Nat /\ table.stack[s] \in Nat /\ table.price \in Nat
  BY DEF TableShape
<1>2. /\ line.seat = s /\ line.type = type /\ line.chips = chips
      /\ b.toCall = table.price /\ b.contrib[s] = table.put[s] /\ b.stack[s] = table.stack[s]
      /\ b.lastRaise = table.minRaise
  BY DEF BetMarked, PricedAt
<1>3. Need(b, line.seat) = table.price - table.put[s]
  BY <1>1, <1>2 DEF Need, AtLeast0
<1>4. ASSUME type \notin {"bet", "raise_to"}
      PROVE  BetIssues(b, line) = {} /\ Aggression(b, line) = "none"
  <2>1. /\ type \in {"fold", "check", "call"}
        /\ type = "check" => table.put[s] = table.price
        /\ type = "call" => table.put[s] < table.price /\ chips = CallChips(table, s)
    BY <1>4 DEF Ruled
  <2>2. Aggression(b, line) = "none"
    BY <1>2, <1>4 DEF Aggression
  <2>3. CASE type = "fold"
    BY <1>2, <2>3, <2>2 DEF BetIssues
  <2>4. CASE type = "check"
    <3>1. Need(b, line.seat) = 0
      BY <1>1, <1>3, <2>1, <2>4
    <3> QED BY <1>2, <2>4, <2>2, <3>1 DEF BetIssues
  <2>5. CASE type = "call"
    <3>1. Need(b, line.seat) # 0
      BY <1>1, <1>3, <2>1, <2>5
    <3>2. chips = Atmost(Need(b, line.seat), b.stack[line.seat])
      BY <1>2, <1>3, <2>1, <2>5 DEF CallChips
    <3>3. ~(chips < chips) /\ ~(chips > chips)
      OBVIOUS
    <3>4. ~(line.chips < Atmost(Need(b, line.seat), b.stack[line.seat]))
          /\ ~(line.chips > Atmost(Need(b, line.seat), b.stack[line.seat]))
      BY <1>2, <3>2, <3>3
    <3> QED BY <1>2, <2>5, <2>2, <3>1, <3>4 DEF BetIssues
  <2> QED BY <2>1, <2>3, <2>4, <2>5
<1>5. ASSUME type \in {"bet", "raise_to"}
      PROVE  /\ BetIssues(b, line) = {} /\ Level(b, line) = table'.price
             /\ Aggression(b, line) = IF FullRaise THEN "full" ELSE "short"
  <2>1. /\ MayRaiseTo(table, s, table'.price)
        /\ IF type = "bet" THEN table.price = 0 /\ chips = table'.price - table.put[s]
                           ELSE chips = table'.price
    BY <1>5 DEF Ruled
  <2>2. /\ table'.price > table.price /\ s \notin table.spoken
        /\ FullRaise \/ table'.price = table.put[s] + table.stack[s]
    BY <2>1 DEF MayRaiseTo, FullRaise
  <2>3. Level(b, line) = table'.price
    <3>1. CASE type = "bet"
      <4>1. table.put[s] + chips = table'.price
        BY <1>1, <2>1, <3>1
      <4> QED BY <1>2, <3>1, <4>1 DEF Level
    <3>2. CASE type # "bet"
      BY <1>2, <2>1, <3>2 DEF Level
    <3> QED BY <3>1, <3>2
  <2>4. ~(Level(b, line) <= b.toCall)
    BY <1>1, <1>2, <2>2, <2>3
  <2>5. Level(b, line) - b.toCall >= b.lastRaise <=> FullRaise
    BY <1>2, <2>3 DEF FullRaise
  <2>6. Aggression(b, line) = IF FullRaise THEN "full" ELSE "short"
    BY <1>2, <1>5, <2>4, <2>5 DEF Aggression
  <2>7. FullRaise \/ line.allIn
    BY <1>5, <2>2 DEF BetMarked
  <2>8. b.reopened[line.seat]
    BY <1>2, <2>2 DEF PricedAt
  <2>9. RaiseIssues(b, line) = {}
    BY <2>4, <2>6, <2>7, <2>8 DEF RaiseIssues, MayRaise
  <2>10. type = "bet" => Need(b, line.seat) = 0
    BY <1>1, <1>3, <2>1
  <2>11. BetIssues(b, line) = {}
    BY <1>2, <1>5, <2>9, <2>10 DEF BetIssues
  <2> QED BY <2>3, <2>6, <2>11
<1> QED BY <1>4, <1>5

(* On the street of its last line the engine's price is the dealer's.      *)
AtPrice(t) ==
  /\ engine'.street = t.street /\ engine'.toCall = t.price /\ engine'.lastRaise = t.minRaise
  /\ \A s \in Live(t) : engine'.reopened[s] <=> s \notin t.spoken

(* So PriceInv holds after it.                                             *)
LEMMA PriceFollows ==
  ASSUME engine'.issues \subseteq OrderKinds, engine'.reopened \in [Seats -> BOOLEAN],
         AtPrice(table')
  PROVE  PriceInv'
BY DEF PriceInv, AtPrice, PriceOn, FullOn, OpenOn, Live

(* A line takes the engine to its street.                                  *)
LEMMA EngineOnStreet ==
  ASSUME NEW e, EngineShape(e), NEW line \in Lines
  PROVE  EngineAfter(e, line).street = line.street
BY EngineLine

(* A hand starts without a price.                                          *)
LEMMA PriceInitially == Init => PriceInv
<1> SUFFICES ASSUME Init PROVE PriceInv
  OBVIOUS
<1>1. /\ engine = EngineInit(start)
      /\ table = [phase |-> "antes", street |-> "preflop", owing |-> Playing, stack |-> start,
                  put |-> NoChips, status |-> InitialStatus(start), price |-> 0,
                  minRaise |-> BigBlind, spoken |-> {}, place |-> OpeningPlace("preflop")]
  BY DEF Init
<1>2. /\ engine.street = "preflop" /\ engine.toCall = 0 /\ engine.lastRaise = BigBlind
      /\ engine.reopened = [s \in Seats |-> InitialStatus(start)[s] = "live"]
      /\ engine.issues = {}
  BY <1>1 DEF EngineInit
<1>3. /\ table.street = "preflop" /\ table.price = 0 /\ table.minRaise = BigBlind
      /\ table.spoken = {} /\ table.status = InitialStatus(start)
  BY <1>1
<1>4. \A s \in Live(table) : engine.reopened[s]
  BY <1>2, <1>3 DEF Live
<1> QED BY <1>2, <1>3, <1>4 DEF PriceInv, PriceOn, FullOn, OpenOn

(* Antes and blinds keep the prices.                                       *)
LEMMA PricePost ==
  ASSUME TableInv, BooksInv', PriceInv, NEW seat, NEW type, NEW due, NEW phase,
         Charged(seat, type, due, phase)
  PROVE  PriceInv'
<1>1. /\ DealerInv /\ BooksInv /\ TableShape(table) /\ Solvent(table) /\ Dealt(table)
      /\ seat \in Playing /\ seat \in Seats
      /\ type \in {"post_ante", "post_sb", "post_bb"} /\ due \in Nat
      /\ table.phase \in Posting /\ Posted(seat, type, due, phase)
  BY DEF TableInv, DealerInv, Dealer, Charged, Playing
<1>2. PICK chips : chips = Atmost(due, table.stack[seat])
  OBVIOUS
<1>3. /\ chips \in Nat /\ chips <= table.stack[seat]
      /\ table'.put = IF type = "post_ante" THEN table.put ELSE [table.put EXCEPT ![seat] = @ + chips]
      /\ table'.status = [table.status EXCEPT ![seat] =
                            IF table.stack[seat] = chips THEN "all_in" ELSE @]
      /\ table'.price = IF table.price >= table'.put[seat] THEN table.price ELSE table'.put[seat]
      /\ table'.street = table.street /\ table'.minRaise = table.minRaise
      /\ table'.spoken = table.spoken
  <2>1. PostChange(seat, type, due, phase)
    BY <1>1, PostFields
  <2> QED BY <1>2, <2>1 DEF PostChange
<1>4. /\ table.street = "preflop" /\ table.street # "showdown" /\ table.spoken = {}
      /\ engine.street = "preflop" /\ RoundOf(engine, "preflop") = table.put
      /\ engine.stack = table.stack /\ EngineShape(engine)
  BY <1>1 DEF Dealt, BooksInv, InStep, Reached
<1>5. /\ engine.toCall = table.price /\ engine.lastRaise = table.minRaise
      /\ \A s \in Live(table) : engine.reopened[s] <=> s \notin table.spoken
      /\ engine.issues \subseteq OrderKinds /\ engine.reopened \in [Seats -> BOOLEAN]
  BY <1>1, <1>4 DEF PriceInv, Betting, PriceOn, FullOn, OpenOn
<1>6. Live(table') \subseteq Live(table)
  BY <1>1, <1>3 DEF Live, TableShape
<1>7. CASE chips = 0
  <2>1. engine' = engine /\ table'.price = table.price
    BY <1>1, <1>2, <1>7, PostNothing
  <2>2. AtPrice(table')
    BY <1>3, <1>4, <1>5, <1>6, <2>1 DEF AtPrice
  <2> QED BY <1>5, <2>1, <2>2, PriceFollows
<1>8. CASE chips # 0
  <2> DEFINE line == Line(seat, type, chips)
  <2>1. Read(line)
    BY <1>1, <1>2, <1>8 DEF Posted
  <2>2. type \in ActionTypes /\ type \in Posts /\ type \notin Voluntary
    BY <1>1 DEF ActionTypes, Posts, Voluntary
  <2>3. /\ line \in Lines /\ ~line.allIn /\ line.seat = seat /\ line.type = type
        /\ line.chips = chips /\ line.street = "preflop"
    BY <1>1, <1>3, <1>4, <2>2, LineIsLine
  <2> HIDE DEF line
  <2>4. PICK marked : marked = Annotated(annotation, line)
    OBVIOUS
  <2>5. ~Refused(line, table.stack, table.put)
    <3>1. chips = Delta(line, table.put[line.seat])
      BY <1>1, <2>3 DEF Delta, Posts
    <3>2. line.type # "return_uncalled"
      BY <1>1, <2>3
    <3> QED BY <1>3, <2>3, <3>1, <3>2 DEF Refused, Pays
  <2>6. /\ marked \in Lines /\ marked.seat = seat /\ marked.type = type
        /\ marked.street = "preflop" /\ ~Refused(marked, table.stack, table.put)
    BY <2>3, <2>4, <2>5, Marked
  <2>7. engine' = EngineAfter(engine, marked)
    BY <2>1, <2>4 DEF Read
  <2> DEFINE f == EngineAfter(engine, marked)
  <2>8. f.street = marked.street
    BY <1>4, <2>6, EngineOnStreet
  <2>9. /\ f.issues \subseteq engine.issues \cup OrderKinds /\ f.reopened \in [Seats -> BOOLEAN]
        /\ f.lastRaise = engine.lastRaise /\ f.reopened = engine.reopened
        /\ f.toCall = IF marked.type \in Posts \ {"post_ante"} /\ marked.street = "preflop"
                        THEN Max({engine.toCall, f.contrib[marked.seat]}) ELSE engine.toCall
    <3>1. marked.type \notin Voluntary /\ marked.street = engine.street
      BY <1>4, <2>2, <2>6
    <3>2. ~Refused(marked, engine.stack, RoundOf(engine, marked.street))
      BY <1>4, <2>6
    <3> HIDE DEF f
    <3> QED BY <1>4, <1>5, <2>6, <3>1, <3>2, OtherPrice DEF f
  <2>10. engine'.toCall = table'.price
    <3>1. /\ table.price \in Nat /\ table.put[seat] \in Nat /\ table.put[seat] <= table.price
          /\ table.put \in [Seats -> Nat]
      BY <1>1 DEF TableShape, Solvent
    <3>2. CASE type = "post_ante"
      BY <1>3, <1>5, <2>6, <2>7, <2>9, <3>1, <3>2
    <3>3. CASE type # "post_ante"
      <4>1. engine'.contrib = table'.put
        BY <1>3, <1>4, <2>6, <2>7, <2>8 DEF BooksInv, InStep, RoundOf
      <4>2. table'.put[seat] = table.put[seat] + chips
        BY <1>1, <1>3, <3>1, <3>3
      <4>3. PICK put \in Nat : put = table'.put[seat]
        BY <1>3, <3>1, <4>2
      <4>4. engine'.toCall = Max({table.price, put})
        BY <1>5, <2>2, <2>6, <2>7, <2>9, <3>3, <4>1, <4>3
      <4> QED BY <1>3, <3>1, <4>3, <4>4, MaxOfTwo
    <3> QED BY <3>2, <3>3
  <2>11. AtPrice(table')
    BY <1>3, <1>4, <1>5, <1>6, <2>6, <2>7, <2>8, <2>9, <2>10 DEF AtPrice
  <2> QED BY <1>5, <2>7, <2>9, <2>11, PriceFollows
<1> QED BY <1>7, <1>8

(* The line of a turn as the engine takes it: nothing is wrong with the    *)
(* amount, and it raises the price when the dealer's price rises.          *)
Told(s, type, marked) ==
  LET b == Turned(engine, table.street)
  IN /\ marked \in Lines /\ marked.seat = s /\ marked.type = type
     /\ marked.street = table.street /\ engine' = EngineAfter(engine, marked)
     /\ BetIssues(b, marked) = {}
     /\ IF type \in {"bet", "raise_to"}
        THEN Aggression(b, marked) # "none" /\ Level(b, marked) = table'.price
        ELSE Aggression(b, marked) = "none"

(* A turn keeps them: the engine prices it as the dealer does.             *)
LEMMA PriceAct ==
  ASSUME TableInv, BooksInv', PriceInv, Act
  PROVE  /\ PriceInv' /\ AtPrice(table')
         /\ \E s, type, chips, d, marked : Turn(s, type, chips, d) /\ Told(s, type, marked)
<1>1. PICK s, type, chips, d : Turn(s, type, chips, d)
  BY ActTurns
<1>2. /\ TableShape(table) /\ Solvent(table) /\ BooksInv
      /\ table.phase = "betting" /\ ~BettingOver(table)
  BY DEF TableInv, DealerInv, Dealer, Act
<1>3. /\ s \in Seats /\ table.status[s] = "live"
      /\ table.street \in BettingStreets /\ table.street # "showdown"
  BY <1>1, <1>2, OnTurn DEF Turn, BettingStreets
<1>4. /\ engine.stack = table.stack /\ engine.status = table.status /\ EngineShape(engine)
      /\ RoundOf(engine, table.street) = table.put
      /\ annotation'.stack = table'.stack /\ engine'.status = table'.status
  BY <1>2, <1>3 DEF BooksInv, InStep
<1>5. /\ table.stack \in [Seats -> Nat] /\ table.put \in [Seats -> Nat]
      /\ table.status \in [Seats -> Statuses] /\ table.stack[s] \in Nat /\ table.put[s] \in Nat
      /\ table.put[s] <= table.price /\ table.price \in Nat /\ table.spoken \subseteq Seats
  BY <1>2, <1>3 DEF TableShape, Solvent
<1> DEFINE line == Line(s, type, chips)
<1>6. /\ type \in ActionTypes /\ type \in Voluntary /\ type # "return_uncalled"
      /\ chips \in Nat /\ d \in Nat /\ d = Delta(line, table.put[s]) /\ d <= table.stack[s]
      /\ Read(line) /\ ActChange(s, type, d) /\ (Follows(s, type) \/ Leads(s, type))
      /\ Ruled(s, type, chips)
  BY <1>1 DEF Turn, Voluntary, ActionTypes
<1>7. /\ line \in Lines /\ ~line.allIn /\ line.seat = s /\ line.type = type /\ line.chips = chips
      /\ line.street = table.street
  BY <1>2, <1>3, <1>6, LineIsLine
<1> HIDE DEF line
<1>8. /\ table'.stack = [table.stack EXCEPT ![s] = @ - d]
      /\ table'.put = [table.put EXCEPT ![s] = @ + d]
      /\ table'.status = [table.status EXCEPT ![s] = ActStatus(s, type, d)]
      /\ table'.street = table.street /\ table'.price \in Nat
  BY <1>6 DEF ActChange
<1>9. PICK marked : marked = Annotated(annotation, line)
  OBVIOUS
<1>10. engine' = EngineAfter(engine, marked) /\ annotation' = AnnotationAfter(annotation, line)
  BY <1>6, <1>9 DEF Read
<1>11. /\ marked \in Lines /\ marked.seat = s /\ marked.type = type /\ marked.chips = chips
       /\ marked.street = table.street
       /\ marked.allIn <=> table'.stack[s] = 0
       /\ Refused(marked, table.stack, table.put) <=> Refused(line, table.stack, table.put)
  <2>1. AnnotationAfter(annotation, line).stack = table'.stack
    BY <1>4, <1>10
  <2> QED BY <1>6, <1>7, <1>9, <2>1, Marked
<1>12. Pays(marked, engine.stack, RoundOf(engine, marked.street))
  <2>1. ~Refused(line, table.stack, table.put)
    BY <1>6, <1>7 DEF Refused, Pays
  <2>2. Pays(marked, table.stack, table.put)
    BY <1>6, <1>11, <2>1 DEF Refused, Refunds
  <2> QED BY <1>4, <1>11, <2>2
<1>13. BetMarked(marked, s, type, chips)
  <2> SUFFICES ASSUME type \in {"bet", "raise_to"},
                      table'.price = table.put[s] + table.stack[s]
               PROVE  table'.stack[s] = 0
    BY <1>11 DEF BetMarked
  <2>1. table'.put[s] = table'.price
    BY <1>6 DEF Follows, Leads
  <2>2. table'.put[s] = table.put[s] + d /\ table'.stack[s] = table.stack[s] - d
    BY <1>3, <1>5, <1>8
  <2> QED BY <1>5, <1>6, <2>1, <2>2
<1>14. /\ engine.issues \subseteq OrderKinds /\ engine.reopened \in [Seats -> BOOLEAN]
       /\ PriceOn(engine, table.street) = table.price
       /\ FullOn(engine, table.street) = table.minRaise
       /\ \A t \in Live(table) : OpenOn(engine, table.street)[t] <=> t \notin table.spoken
  BY <1>2 DEF PriceInv, Betting
<1>15. PICK b : /\ b = Turned(engine, table.street) /\ AtTurn(b, engine, table.street) 
                /\ Priced(engine', b, marked)
                /\ engine'.issues \subseteq engine.issues \cup OrderKinds \cup BetIssues(b, marked)
  <2>1. marked.type \in Voluntary /\ marked.street \in BettingStreets
    BY <1>3, <1>6, <1>11
  <2>2. \E b : /\ b = Turned(engine, marked.street) /\ AtTurn(b, engine, marked.street)
               /\ Priced(EngineAfter(engine, marked), b, marked)
               /\ EngineAfter(engine, marked).issues \subseteq
                    engine.issues \cup OrderKinds \cup BetIssues(b, marked)
    BY <1>4, <1>11, <1>12, <1>14, <2>1, VoluntaryPrice
  <2> QED BY <1>10, <1>11, <2>2
<1>16. /\ b.toCall = table.price /\ b.lastRaise = table.minRaise
       /\ b.contrib = table.put /\ b.stack = table.stack
       /\ b.reopened = OpenOn(engine, table.street)
  BY <1>4, <1>14, <1>15 DEF AtTurn
<1>17. \A t \in Live(table) : b.reopened[t] <=> t \notin table.spoken
  BY <1>14, <1>16
<1>18. PricedAt(b, s)
  BY <1>3, <1>16, <1>17 DEF PricedAt, Live
<1>19. /\ BetIssues(b, marked) = {}
       /\ type \notin {"bet", "raise_to"} => Aggression(b, marked) = "none"
       /\ type \in {"bet", "raise_to"} =>
            /\ Level(b, marked) = table'.price
            /\ Aggression(b, marked) = IF FullRaise THEN "full" ELSE "short"
  BY <1>2, <1>3, <1>5, <1>6, <1>8, <1>13, <1>18, RuledBet
<1>20. engine'.issues \subseteq OrderKinds
  BY <1>14, <1>15, <1>19
<1>21. engine'.street = table'.street
  BY <1>4, <1>8, <1>10, <1>11, EngineOnStreet
<1>22. b.reopened \in [Seats -> BOOLEAN]
  BY <1>4, <1>14, <1>16 DEF OpenOn
<1>23. Live(table') \subseteq Live(table)
  BY <1>3, <1>5, <1>8 DEF Live
<1> DEFINE full == type \in {"bet", "raise_to"} /\ FullRaise
<1>24. /\ engine'.toCall = table'.price /\ engine'.lastRaise = table'.minRaise
       /\ engine'.reopened = IF full THEN [t \in Seats |-> engine'.status[t] = "live" /\ t # s]
                             ELSE [b.reopened EXCEPT ![s] = FALSE]
       /\ table'.spoken = IF full THEN {s} ELSE table.spoken \cup {s}
  <2>1. CASE type \notin {"bet", "raise_to"}
    <3>1. table'.price = table.price /\ table'.spoken = table.spoken \cup {s}
      BY <1>6, <2>1 DEF Follows, Leads
    <3>2. table'.minRaise = table.minRaise
      BY <1>6, <2>1 DEF Ruled
    <3> QED BY <1>11, <1>15, <1>16, <1>19, <2>1, <3>1, <3>2 DEF Priced
  <2>2. CASE type \in {"bet", "raise_to"}
    <3>1. /\ table'.minRaise = IF FullRaise THEN table'.price - table.price ELSE table.minRaise
          /\ table'.spoken = IF FullRaise THEN {s} ELSE table.spoken \cup {s}
      BY <1>6, <2>2 DEF Ruled, FullRaise
    <3>2. CASE FullRaise
      BY <1>11, <1>15, <1>16, <1>19, <2>2, <3>1, <3>2 DEF Priced
    <3>3. CASE ~FullRaise
      BY <1>11, <1>15, <1>16, <1>19, <2>2, <3>1, <3>3 DEF Priced
    <3> QED BY <3>2, <3>3
  <2> QED BY <2>1, <2>2
<1>25. engine'.reopened \in [Seats -> BOOLEAN]
  BY <1>22, <1>24
<1>26. ASSUME NEW t \in Live(table')
       PROVE  engine'.reopened[t] <=> t \notin table'.spoken
  <2>1. t \in Seats /\ t \in Live(table) /\ engine'.status[t] = "live"
    BY <1>4, <1>23, <1>26 DEF Live
  <2>2. CASE full
    BY <1>24, <2>1, <2>2
  <2>3. CASE ~full
    BY <1>17, <1>22, <1>24, <2>1, <2>3
  <2> QED BY <2>2, <2>3
<1>27. AtPrice(table')
  BY <1>21, <1>24, <1>26 DEF AtPrice
<1>28. PriceInv'
  BY <1>20, <1>25, <1>27, PriceFollows
<1>29. Told(s, type, marked)
  <2>1. "full" # "none" /\ "short" # "none"
    OBVIOUS
  <2> QED BY <1>10, <1>11, <1>15, <1>19, <2>1 DEF Told
<1> QED BY <1>1, <1>27, <1>28, <1>29

(* A line that is no bet and whose money is accepted is not reported.      *)
LEMMA StillLegal ==
  ASSUME PriceInv, EngineShape(engine), NEW line \in Lines, Read(line),
         line.type \notin Voluntary,
         ~Refused(line, engine.stack, RoundOf(engine, line.street))
  PROVE  engine'.issues \subseteq OrderKinds /\ engine'.reopened \in [Seats -> BOOLEAN]
<1>1. PICK marked : marked = Annotated(annotation, line)
  OBVIOUS
<1>2. /\ marked \in Lines /\ marked.type = line.type /\ marked.street = line.street
      /\ ~Refused(marked, engine.stack, RoundOf(engine, line.street))
  BY <1>1, Marked
<1>3. ~Refused(marked, engine.stack, RoundOf(engine, marked.street)) /\ marked.type \notin Voluntary
  BY <1>2
<1>4. engine' = EngineAfter(engine, marked)
  BY <1>1 DEF Read
<1>5. engine.issues \subseteq OrderKinds /\ engine.reopened \in [Seats -> BOOLEAN]
  BY DEF PriceInv
<1> DEFINE f == EngineAfter(engine, marked)
<1>6. f.issues \subseteq engine.issues \cup OrderKinds /\ f.reopened \in [Seats -> BOOLEAN]
  <2> HIDE DEF f
  <2> QED BY <1>2, <1>3, <1>5, OtherPrice DEF f
<1> QED BY <1>4, <1>5, <1>6

(* After a refund nobody bets on this street.                              *)
LEMMA PriceReturn ==
  ASSUME TableInv, PriceInv, ReturnUncalled
  PROVE  PriceInv'
<1>1. /\ DealerInv /\ BooksInv /\ TableShape(table) /\ Solvent(table) /\ Shown(table)
      /\ BettingOver(table)
  BY DEF TableInv, DealerInv, Dealer, ReturnUncalled
<1>2. PICK s, back : Refunded(s, back) /\ Read(Line(s, "return_uncalled", back))
  BY <1>1, RefundFields
<1>3. /\ s \in Seats /\ back \in Nat /\ back > 0 /\ back = Overage(table.put, s)
      /\ back <= table.put[s] /\ table'.phase = "betting" /\ table.street # "showdown"
  BY <1>1, <1>2 DEF Refunded, Shown
<1>4. ~Betting(table')
  <2>1. Lone(table')
    BY <1>1, <1>2, RefundLone
  <2> QED BY <1>3, <2>1 DEF Lone, BettingOver, Betting, Posting
<1> DEFINE line == Line(s, "return_uncalled", back)
<1>5. "return_uncalled" \in ActionTypes /\ "return_uncalled" \notin Voluntary
  BY DEF ActionTypes, Voluntary
<1>6. /\ line \in Lines /\ line.seat = s /\ line.type = "return_uncalled"
      /\ line.chips = back /\ line.street = table.street
  BY <1>1, <1>3, <1>5, LineIsLine
<1>7. Read(line)
  BY <1>2
<1> HIDE DEF line
<1>8. EngineShape(engine) /\ RoundOf(engine, line.street) = table.put
  BY <1>1, <1>3, <1>6 DEF BooksInv, InStep
<1>9. ~Refused(line, engine.stack, RoundOf(engine, line.street))
  <2>1. back # 0 /\ back <= Overage(table.put, s)
    BY <1>3
  <2> QED BY <1>3, <1>6, <1>8, <2>1 DEF Refused, Refunds
<1>10. engine'.issues \subseteq OrderKinds /\ engine'.reopened \in [Seats -> BOOLEAN]
  BY <1>5, <1>6, <1>7, <1>8, <1>9, StillLegal
<1> QED BY <1>4, <1>10 DEF PriceInv, Betting, BettingOver, Awaited, InHand, Live

(* A new street has no price, and the engine is not there yet.             *)
LEMMA PriceOpens ==
  ASSUME TableInv, PriceInv, NextStreet
  PROVE  PriceInv'
<1>1. /\ BooksInv /\ TableShape(table) /\ Shown(table) /\ table.phase = "betting"
      /\ engine' = engine
  BY DEF TableInv, DealerInv, Dealer, NextStreet
<1>2. table.street \in BettingStreets /\ table.street # "showdown"
  BY <1>1 DEF Shown, TableShape, Streets, BettingStreets
<1>3. engine'.issues \subseteq OrderKinds /\ engine'.reopened \in [Seats -> BOOLEAN]
  BY <1>1 DEF PriceInv
<1>4. CASE Cardinality(InHand(table)) > 1 /\ table.street \notin {LastStreet, "river"}
  <2>1. table' = [table EXCEPT !.street = NextOf[@], !.put = NoChips, !.price = 0,
                               !.minRaise = BigBlind, !.spoken = {}, !.place = Button]
    BY <1>4 DEF NextStreet
  <2>2. /\ table'.street = NextOf[table.street] /\ table'.price = 0
        /\ table'.spoken = {} /\ table'.status = table.status
    BY <1>1, <2>1 DEF TableShape, TableFields
  <2>3. table'.minRaise = BigBlind
    BY <1>1, <2>1 DEF TableShape, TableFields
  <2>4. table'.street # engine.street
    <3>1. table.street \in {"preflop", "flop", "turn"}
      BY <1>2, <1>4 DEF BettingStreets
    <3>2. engine.street \in Reached(table.street)
      BY <1>1, <1>2 DEF BooksInv, InStep
    <3> QED BY <2>2, <3>1, <3>2 DEF Reached, NextOf
  <2>5. engine.status = table.status
    BY <1>1 DEF BooksInv
  <2>6. /\ PriceOn(engine, table'.street) = table'.price
        /\ FullOn(engine, table'.street) = table'.minRaise
        /\ \A s \in Live(table') : OpenOn(engine, table'.street)[s] <=> s \notin table'.spoken
    BY <2>2, <2>3, <2>4, <2>5 DEF PriceOn, FullOn, OpenOn, Live
  <2> QED BY <1>1, <1>3, <2>6 DEF PriceInv, PriceOn, FullOn, OpenOn, Live
<1>5. CASE ~(Cardinality(InHand(table)) > 1 /\ table.street \notin {LastStreet, "river"})
  <2>1. table' = [table EXCEPT !.phase = "showdown", !.street = "showdown"]
    BY <1>5 DEF NextStreet
  <2>2. table'.phase = "showdown"
    BY <1>1, <2>1 DEF TableShape, TableFields
  <2> QED BY <1>3, <2>2 DEF PriceInv, Betting, Posting
<1> QED BY <1>4, <1>5

(* At the showdown nobody bets.                                            *)
LEMMA PriceShown ==
  ASSUME TableInv, PriceInv, Showdown
  PROVE  PriceInv'
<1>1. /\ BooksInv /\ TableShape(table) /\ table.street = "showdown"
  BY DEF TableInv, DealerInv, Dealer, Shown, Showdown
<1>2. PICK s \in InHand(table), type \in {"show", "muck", "collect"} :
        /\ Read(Line(s, type, 0)) /\ table.phase = "showdown"
        /\ table' = [table EXCEPT !.phase = IF type = "collect" THEN "over" ELSE @]
  BY DEF Showdown
<1>3. /\ s \in Seats /\ table'.phase \in {"showdown", "over"}
      /\ engine.stack[s] \in Nat /\ EngineShape(engine)
  BY <1>1, <1>2 DEF TableFields, TableShape, InHand, BooksInv
<1> DEFINE line == Line(s, type, 0)
<1>4. /\ type \in ActionTypes /\ type \notin Voluntary
      /\ type \notin Posts \cup {"call", "bet", "raise_to", "return_uncalled"}
  BY DEF ActionTypes, Voluntary, Posts
<1>5. line \in Lines /\ line.seat = s /\ line.type = type
  BY <1>1, <1>3, <1>4, LineIsLine
<1>6. Read(line)
  BY <1>2
<1> HIDE DEF line
<1>7. ASSUME NEW c PROVE ~Refused(line, engine.stack, c)
  <2>1. Delta(line, c[line.seat]) = 0
    BY <1>4, <1>5 DEF Delta
  <2> QED BY <1>3, <1>4, <1>5, <2>1 DEF Refused, Pays
<1>8. engine'.issues \subseteq OrderKinds /\ engine'.reopened \in [Seats -> BOOLEAN]
  BY <1>3, <1>4, <1>5, <1>6, <1>7, StillLegal
<1> QED BY <1>3, <1>8 DEF PriceInv, Betting, Posting

(* Every step keeps the prices.                                            *)
LEMMA PriceKept == TableInv /\ TableInv' /\ PriceInv /\ [Next]_vars => PriceInv'
<1> SUFFICES ASSUME TableInv, TableInv', PriceInv, [Next]_vars PROVE PriceInv'
  OBVIOUS
<1>1. BooksInv' /\ DealerInv
  BY DEF TableInv
<1>2. CASE Post
  BY <1>1, <1>2, PostCharges, PricePost
<1>3. CASE Act
  BY <1>1, <1>3, PriceAct
<1>4. CASE ReturnUncalled
  BY <1>4, PriceReturn
<1>5. CASE NextStreet
  BY <1>5, PriceOpens
<1>6. CASE Showdown
  BY <1>6, PriceShown
<1>7. CASE UNCHANGED vars
  <2>1. engine' = engine /\ table' = table
    BY <1>7 DEF vars
  <2> QED BY <2>1 DEF PriceInv, Betting, BettingOver, Awaited, InHand, Live,
                      PriceOn, FullOn, OpenOn
<1> QED BY <1>2, <1>3, <1>4, <1>5, <1>6, <1>7 DEF Next

(* A hand dealt by the rules is reported for no amount and no right to     *)
(* raise: each call is the call, each bet and raise is recognised as full  *)
(* or short, and who may still raise is whom the rules allow to.  What the *)
(* engine might still report is a seat out of order.                       *)
THEOREM LegalAmountsPass == Spec => [](engine.issues \subseteq OrderKinds)
<1>1. Init => PriceInv
  BY PriceInitially
<1>2. TableInv /\ TableInv' /\ PriceInv /\ [Next]_vars => PriceInv'
  BY PriceKept
<1>3. PriceInv => engine.issues \subseteq OrderKinds
  BY DEF PriceInv
<1> QED BY <1>1, <1>2, <1>3, TableIsKept, PTL DEF Spec
-----------------------------------------------------------------------------
(* The verdict on the seat whose turn it is.                               *)

(* On its turn the engine reports an amount or a raise of the seat exactly *)
(* when the rules forbid it, for any amount at all.                        *)
TurnDecided ==
  table.phase = "betting" /\ ~BettingOver(table) =>
    \A type \in Voluntary, chips \in Nat :
      LET s == ToSpeak(table)
          after == EngineAfter(engine, Annotated(annotation, Line(s, type, chips)))
      IN after.issues \subseteq OrderKinds <=> Allowed(table, s, type, chips)

(* A line of a seat that has to speak, at the dealer's prices.             *)
OfSeat(line, s, type, chips) ==
  /\ line.seat = s /\ line.type = type /\ line.chips = chips
  /\ line.allIn <=> Delta(line, table.put[s]) = table.stack[s]
OpenAt(b, s) ==
  /\ b.toCall = table.price /\ b.lastRaise = table.minRaise
  /\ b.contrib = table.put /\ b.stack = table.stack
  /\ b.reopened[s] <=> s \notin table.spoken
HasToSpeak(s) ==
  /\ s \in Seats /\ table.put[s] \in Nat /\ table.stack[s] \in Nat /\ table.price \in Nat
  /\ table.put[s] <= table.price
  /\ s \notin table.spoken \/ table.put[s] < table.price

(* A raise is faultless when the rules allow it.                           *)
LEMMA RaiseDecided ==
  ASSUME NEW s, HasToSpeak(s), NEW type, type \in {"bet", "raise_to"}, NEW chips \in Nat,
         NEW line, OfSeat(line, s, type, chips), NEW b, OpenAt(b, s),
         Delta(line, table.put[s]) <= table.stack[s],
         type = "bet" => table.put[s] = table.price
  PROVE  /\ Level(b, line) = IF type = "bet" THEN table.put[s] + chips ELSE chips
         /\ RaiseIssues(b, line) = {} <=> MayRaiseTo(table, s, Level(b, line))
<1>1. /\ line.seat = s /\ line.type = type /\ line.chips = chips
      /\ b.toCall = table.price /\ b.contrib[s] = table.put[s]
      /\ b.lastRaise = table.minRaise
  BY DEF OfSeat, OpenAt
<1>2. /\ table.put[s] \in Nat /\ table.stack[s] \in Nat /\ table.price \in Nat
      /\ table.put[s] <= table.price
  BY DEF HasToSpeak
<1>3. Need(b, line.seat) = table.price - table.put[s]
  BY <1>1, <1>2 DEF Need, AtLeast0
<1>4. Level(b, line) = IF type = "bet" THEN table.put[s] + chips ELSE chips
  BY <1>1 DEF Level
<1>5. PICK level \in Nat : level = Level(b, line)
  BY <1>2, <1>4
<1>6. Delta(line, table.put[s]) = AtLeast0(level - table.put[s])
  <2>1. CASE type = "bet"
    <3>1. Delta(line, table.put[s]) = chips
      BY <1>1, <2>1 DEF Delta
    <3>2. level - table.put[s] = chips
      BY <1>2, <1>4, <1>5, <2>1
    <3> QED BY <3>1, <3>2 DEF AtLeast0
  <2>2. CASE type = "raise_to"
    BY <1>1, <1>4, <1>5, <2>2 DEF Delta, Posts
  <2> QED BY <2>1, <2>2
<1>7. level > table.price =>
        /\ level <= table.put[s] + table.stack[s]
        /\ line.allIn <=> level = table.put[s] + table.stack[s]
  <2> SUFFICES ASSUME level > table.price
               PROVE  /\ level <= table.put[s] + table.stack[s]
                      /\ line.allIn <=> level = table.put[s] + table.stack[s]
    OBVIOUS
  <2>1. PICK d : d = Delta(line, table.put[s])
    OBVIOUS
  <2>2. d = level - table.put[s]
    BY <1>2, <1>6, <2>1 DEF AtLeast0
  <2>3. d <= table.stack[s] /\ (line.allIn <=> d = table.stack[s])
    BY <2>1 DEF OfSeat
  <2> QED BY <1>2, <2>2, <2>3
<1>8. Need(b, line.seat) > 0 /\ ~MayRaise(b, line.seat) <=> s \in table.spoken
  <2>1. b.reopened[s] <=> s \notin table.spoken
    BY DEF OpenAt
  <2>2. s \in table.spoken => table.put[s] < table.price
    BY DEF HasToSpeak
  <2>3. table.put[s] < table.price => Need(b, line.seat) > 0
    BY <1>2, <1>3
  <2> QED BY <1>1, <2>1, <2>2, <2>3 DEF MayRaise
<1>9. Level(b, line) <= b.toCall <=> ~(level > table.price)
  BY <1>1, <1>2, <1>5
<1>10. level > table.price =>
         (Aggression(b, line) = "short" <=> ~(level - table.price >= table.minRaise))
  BY <1>1, <1>5, <1>9 DEF Aggression
<1>11. RaiseIssues(b, line) = {} <=>
         /\ s \notin table.spoken /\ level > table.price
         /\ level - table.price >= table.minRaise \/ line.allIn
  BY <1>8, <1>9, <1>10 DEF RaiseIssues
<1>12. RaiseIssues(b, line) = {} <=> MayRaiseTo(table, s, level)
  BY <1>7, <1>11 DEF MayRaiseTo
<1> QED BY <1>4, <1>5, <1>12

(* So are a check, a call and a bet.                                       *)
LEMMA BetDecided ==
  ASSUME NEW s, HasToSpeak(s), NEW type \in Voluntary, NEW chips \in Nat,
         table.phase = "betting", ~BettingOver(table), s = ToSpeak(table),
         NEW line, OfSeat(line, s, type, chips), NEW b, OpenAt(b, s),
         Delta(line, table.put[s]) <= table.stack[s]
  PROVE  BetIssues(b, line) = {} <=> Allowed(table, s, type, chips)
<1>1. /\ line.seat = s /\ line.type = type /\ line.chips = chips
      /\ b.contrib[s] = table.put[s] /\ b.stack[s] = table.stack[s] /\ b.toCall = table.price
  BY DEF OfSeat, OpenAt
<1>2. /\ table.put[s] \in Nat /\ table.stack[s] \in Nat /\ table.price \in Nat
      /\ table.put[s] <= table.price
  BY DEF HasToSpeak
<1>3. Need(b, line.seat) = table.price - table.put[s]
  BY <1>1, <1>2 DEF Need, AtLeast0
<1>4. /\ Need(b, line.seat) = 0 <=> table.put[s] = table.price
      /\ ~(table.put[s] < table.price) <=> table.put[s] = table.price
  BY <1>2, <1>3
<1>5. CASE type = "fold"
  BY <1>1, <1>5 DEF BetIssues, Allowed
<1>6. CASE type = "check"
  BY <1>1, <1>4, <1>6 DEF BetIssues, Allowed
<1>7. CASE type = "call"
  <2>1. PICK due : due = CallChips(table, s)
    OBVIOUS
  <2>2. Atmost(Need(b, line.seat), b.stack[line.seat]) = due
    BY <1>1, <1>3, <2>1 DEF CallChips
  <2>3. due \in Nat
    BY <1>2, <2>1 DEF CallChips, Atmost
  <2>4. chips = due <=> ~(chips < due) /\ ~(chips > due)
    BY <2>3
  <2>5. BetIssues(b, line) = {} <=> Need(b, line.seat) # 0 /\ ~(chips < due) /\ ~(chips > due)
    BY <1>1, <1>7, <2>2 DEF BetIssues
  <2> QED BY <1>4, <1>7, <2>1, <2>4, <2>5 DEF Allowed
<1>8. CASE type = "bet"
  <2>1. table.put[s] = table.price =>
          (RaiseIssues(b, line) = {} <=> MayRaiseTo(table, s, table.put[s] + chips))
    BY <1>8, RaiseDecided
  <2>2. BetIssues(b, line) = {} <=> Need(b, line.seat) = 0 /\ RaiseIssues(b, line) = {}
    BY <1>1, <1>8 DEF BetIssues
  <2> QED BY <1>4, <1>8, <2>1, <2>2 DEF Allowed
<1>9. CASE type = "raise_to"
  <2>1. RaiseIssues(b, line) = {} <=> MayRaiseTo(table, s, chips)
    BY <1>9, RaiseDecided
  <2>2. BetIssues(b, line) = RaiseIssues(b, line)
    BY <1>1, <1>9 DEF BetIssues
  <2> QED BY <1>9, <2>1, <2>2 DEF Allowed
<1> QED BY <1>5, <1>6, <1>7, <1>8, <1>9 DEF Voluntary

(* What the rules allow the seat can pay.                                  *)
LEMMA Affordable ==
  ASSUME NEW s, HasToSpeak(s), NEW type \in Voluntary, NEW chips \in Nat,
         NEW line, line.type = type, line.chips = chips,
         ~(Delta(line, table.put[s]) <= table.stack[s])
  PROVE  ~Allowed(table, s, type, chips)
<1>1. /\ table.put[s] \in Nat /\ table.stack[s] \in Nat /\ table.price \in Nat
  BY DEF HasToSpeak
<1>2. CASE type \in {"fold", "check"}
  <2>1. Delta(line, table.put[s]) = 0
    BY <1>2 DEF Delta, Posts
  <2> QED BY <1>1, <2>1
<1>3. CASE type = "call"
  <2>1. Delta(line, table.put[s]) = chips
    BY <1>3 DEF Delta
  <2>2. CallChips(table, s) <= table.stack[s]
    BY <1>1 DEF CallChips, Atmost
  <2> QED BY <1>3, <2>1, <2>2 DEF Allowed
<1>4. CASE type = "bet"
  <2>1. Delta(line, table.put[s]) = chips
    BY <1>4 DEF Delta
  <2>2. ~(table.put[s] + chips <= table.put[s] + table.stack[s])
    BY <1>1, <2>1
  <2> QED BY <1>4, <2>2 DEF Allowed, MayRaiseTo
<1>5. CASE type = "raise_to"
  <2>1. Delta(line, table.put[s]) = AtLeast0(chips - table.put[s])
    BY <1>5 DEF Delta, Posts
  <2>2. ~(chips <= table.put[s] + table.stack[s])
    BY <1>1, <2>1 DEF AtLeast0
  <2> QED BY <1>5, <2>2 DEF Allowed, MayRaiseTo
<1> QED BY <1>2, <1>3, <1>4, <1>5 DEF Voluntary

(* The verdict follows from the invariants.                                *)
LEMMA TurnFollows == TableInv /\ PriceInv => TurnDecided
<1> SUFFICES ASSUME TableInv, PriceInv, table.phase = "betting", ~BettingOver(table),
                    NEW type \in Voluntary, NEW chips \in Nat
             PROVE  EngineAfter(engine, Annotated(annotation, Line(ToSpeak(table), type, chips))).issues
                      \subseteq OrderKinds
                    <=> Allowed(table, ToSpeak(table), type, chips)
  BY DEF TurnDecided
<1>1. PICK s : s = ToSpeak(table)
  OBVIOUS
<1>2. /\ s \in Seats /\ table.status[s] = "live" /\ s \in Awaited(table)
      /\ table.street \in BettingStreets /\ table.street # "showdown"
      /\ BooksInv /\ TableShape(table) /\ Solvent(table)
  BY <1>1, OnTurn DEF TableInv, DealerInv, Dealer, BettingStreets
<1>3. HasToSpeak(s)
  <2>1. /\ table.stack[s] \in Nat /\ table.put[s] \in Nat /\ table.price \in Nat
        /\ table.put[s] <= table.price
    BY <1>2 DEF TableShape, Solvent
  <2>2. s \notin table.spoken \/ table.put[s] < table.price
    BY <1>2 DEF Awaited
  <2> QED BY <1>2, <2>1, <2>2 DEF HasToSpeak
<1>4. /\ annotation.stack = table.stack /\ engine.stack = table.stack /\ engine.status = table.status
      /\ AnnotationShape(annotation) /\ EngineShape(engine)
      /\ RoundOf(annotation, table.street) = table.put /\ RoundOf(engine, table.street) = table.put
      /\ annotation.street \in BettingStreets
  BY <1>2 DEF BooksInv, InStep, Reached, BettingStreets
<1> DEFINE line == Line(s, type, chips)
<1>5. /\ line \in Lines /\ ~line.allIn /\ line.seat = s /\ line.type = type /\ line.chips = chips
      /\ line.street = table.street /\ type # "return_uncalled"
  <2>1. type \in ActionTypes /\ type # "return_uncalled"
    BY DEF Voluntary, ActionTypes
  <2> QED BY <1>2, <2>1, LineIsLine
<1> HIDE DEF line
<1>6. PICK marked : marked = Annotated(annotation, line)
  OBVIOUS
<1>7. /\ marked \in Lines /\ marked.seat = s /\ marked.type = type /\ marked.chips = chips
      /\ marked.street = table.street
      /\ marked.allIn <=> AnnotationAfter(annotation, line).stack[s] = 0
      /\ Refused(marked, table.stack, table.put) <=> Refused(line, table.stack, table.put)
  BY <1>5, <1>6, Marked
<1>8. PICK d : d = Delta(line, table.put[s])
  OBVIOUS
<1>9. d = Delta(marked, table.put[s])
  BY <1>5, <1>7, <1>8 DEF Delta
<1>10. d \in Nat
  <2>1. s \in Seats /\ table.put \in [Seats -> Int] /\ table.put[s] \in Int
    BY <1>2 DEF TableShape
  <2> QED BY <1>5, <1>8, <2>1, DeltaNat
<1>11. Refused(line, table.stack, table.put) <=> ~(d <= table.stack[s])
  BY <1>5, <1>8 DEF Refused, Refunds, Pays
<1> DEFINE f == EngineAfter(engine, marked)
<1>12. CASE ~(d <= table.stack[s])
  <2>1. Refused(marked, engine.stack, RoundOf(engine, marked.street))
    BY <1>4, <1>7, <1>11, <1>12
  <2>2. Reported(f)
    BY <1>4, <1>7, <2>1, EngineLine
  <2>3. ~(f.issues \subseteq OrderKinds)
    BY <2>2 DEF Reported, FailSafeIssues, MoneyIssues, OrderKinds
  <2>4. ~Allowed(table, s, type, chips)
    BY <1>3, <1>5, <1>8, <1>12, Affordable
  <2> QED BY <1>1, <1>6, <2>3, <2>4 DEF line
<1>13. CASE d <= table.stack[s]
  <2>1. marked.allIn <=> d = table.stack[s]
    <3>1. ~Refused(line, annotation.stack, RoundOf(annotation, line.street))
      BY <1>4, <1>5, <1>11, <1>13
    <3>2. AnnotationAfter(annotation, line).stack = StackAfter(line, table.stack, table.put)
      BY <1>4, <1>5, <3>1, AnnotationLine
    <3>3. StackAfter(line, table.stack, table.put) = [table.stack EXCEPT ![s] = @ - d]
      BY <1>5, <1>8, <1>13 DEF StackAfter, Refunds, Pays
    <3>4. AnnotationAfter(annotation, line).stack[s] = table.stack[s] - d
      BY <1>2, <3>2, <3>3 DEF TableShape
    <3>5. table.stack[s] \in Nat
      BY <1>3 DEF HasToSpeak
    <3> QED BY <1>7, <1>10, <3>4, <3>5
  <2>2. OfSeat(marked, s, type, chips)
    BY <1>7, <1>9, <2>1 DEF OfSeat
  <2>3. Pays(marked, engine.stack, RoundOf(engine, marked.street))
    BY <1>4, <1>5, <1>7, <1>9, <1>13 DEF Pays
  <2>4. /\ engine.issues \subseteq OrderKinds /\ engine.reopened \in [Seats -> BOOLEAN]
        /\ PriceOn(engine, table.street) = table.price
        /\ FullOn(engine, table.street) = table.minRaise
        /\ \A t \in Live(table) : OpenOn(engine, table.street)[t] <=> t \notin table.spoken
    BY DEF PriceInv, Betting
  <2>5. PICK b : /\ AtTurn(b, engine, table.street)
                 /\ f.issues \subseteq engine.issues \cup OrderKinds \cup BetIssues(b, marked)
                 /\ BetIssues(b, marked) \subseteq f.issues
    <3>1. marked.type \in Voluntary /\ marked.street \in BettingStreets
      BY <1>2, <1>7
    <3>2. \E b : /\ AtTurn(b, engine, marked.street) /\ Priced(f, b, marked)
                 /\ f.issues \subseteq engine.issues \cup OrderKinds \cup BetIssues(b, marked)
                 /\ BetIssues(b, marked) \subseteq f.issues
      BY <1>4, <1>7, <2>3, <2>4, <3>1, VoluntaryPrice
    <3> QED BY <1>7, <3>2
  <2>6. OpenAt(b, s)
    <3>1. s \in Live(table)
      BY <1>2 DEF Live
    <3> QED BY <1>4, <2>4, <2>5, <3>1 DEF AtTurn, OpenAt
  <2>7. BetIssues(b, marked) = {} <=> Allowed(table, s, type, chips)
    BY <1>1, <1>3, <1>9, <1>13, <2>2, <2>6, BetDecided
  <2>8. BetIssues(b, marked) \cap OrderKinds = {}
    BY DEF BetIssues, RaiseIssues, OrderKinds
  <2>9. f.issues \subseteq OrderKinds <=> BetIssues(b, marked) = {}
    BY <2>4, <2>5, <2>8
  <2> QED BY <1>1, <1>6, <2>7, <2>9 DEF line
<1> QED BY <1>12, <1>13

(* Of the seat whose turn it is the engine reports exactly the amounts and *)
(* the raises that the rules forbid, whatever the line claims.             *)
THEOREM AmountsAreDecided == Spec => []TurnDecided
<1>1. Init => PriceInv
  BY PriceInitially
<1>2. TableInv /\ TableInv' /\ PriceInv /\ [Next]_vars => PriceInv'
  BY PriceKept
<1> QED BY <1>1, <1>2, TurnFollows, TableIsKept, PTL DEF Spec

-----------------------------------------------------------------------------
(* Seats in their order: the dealer's next seat is the first of a row.     *)

(* The next of some seats is the nearest.                                  *)
LEMMA NearestIsNext ==
  ASSUME NEW from \in 0..MaxSeats, NEW among, among \subseteq Seats, NEW s \in among,
         \A t \in among : Steps(from, s) <= Steps(from, t)
  PROVE  NextSeat(from, among) = s
<1> DEFINE nearest(u) == \A t \in among : Steps(from, u) <= Steps(from, t)
<1>1. NextSeat(from, among) = CHOOSE u \in among : nearest(u)
  BY DEF NextSeat, Steps
<1>2. ASSUME NEW u \in among, nearest(u) PROVE u = s
  <2>1. Steps(from, u) <= Steps(from, s) /\ Steps(from, s) <= Steps(from, u)
    BY <1>2
  <2>2. Steps(from, u) \in Int /\ Steps(from, s) \in Int
    BY StepsAre
  <2>3. Steps(from, u) = Steps(from, s)
    BY <2>1, <2>2
  <2> QED BY <2>3, StepsDiffer
<1>3. nearest(s)
  OBVIOUS
<1> HIDE DEF nearest
<1> QED BY <1>1, <1>2, <1>3

(* In a row that goes clockwise the first is the next.                     *)
LEMMA HeadIsNext ==
  ASSUME NEW from \in 0..MaxSeats, NEW row, Clockwise(row, from), row # <<>>
  PROVE  NextSeat(from, Range(row)) = Head(row)
<1>1. /\ row \in Seq(Seats) /\ Len(row) \in Nat /\ Len(row) >= 1 /\ Head(row) = row[1]
      /\ \A i \in 1..Len(row) : row[i] \in Seats
      /\ Range(row) = {row[i] : i \in 1..Len(row)}
  BY RowCounts DEF Clockwise
<1>2. Range(row) \subseteq Seats /\ row[1] \in Range(row) /\ row[1] \in Seats /\ 1 \in 1..Len(row)
  BY <1>1
<1>3. ASSUME NEW t \in Range(row) PROVE Steps(from, row[1]) <= Steps(from, t)
  <2>1. PICK i \in 1..Len(row) : t = row[i]
    BY <1>1
  <2>2. CASE i = 1
    <3>1. Steps(from, row[1]) \in Int
      BY <1>2, StepsAre
    <3> QED BY <2>1, <2>2, <3>1
  <2>3. CASE i # 1
    <3>1. 1 < i
      BY <1>1, <2>3
    <3>2. Steps(from, row[1]) < Steps(from, row[i])
      BY <1>2, <3>1 DEF Clockwise
    <3>3. Steps(from, row[1]) \in Int /\ Steps(from, row[i]) \in Int
      BY <1>1, <1>2, StepsAre
    <3> QED BY <2>1, <3>2, <3>3
  <2> QED BY <2>2, <2>3
<1> QED BY <1>1, <1>2, <1>3, NearestIsNext

(* And the next after a seat of the row is the one after it.               *)
LEMMA AfterIsNext ==
  ASSUME NEW from \in 0..MaxSeats, NEW row, Clockwise(row, from), NEW k \in 1..Len(row)
  PROVE  NextSeat(row[k], Range(row)) = IF k = Len(row) THEN row[1] ELSE row[k + 1]
<1> DEFINE turned == RotateLeft(row, k)
<1>1. /\ Clockwise(turned, row[k]) /\ Range(turned) = Range(row) /\ Len(turned) = Len(row)
      /\ turned[1] = IF k = Len(row) THEN row[1] ELSE row[k + 1]
  BY RowTurned
<1> HIDE DEF turned
<1>2. row \in Seq(Seats) /\ row[k] \in 0..MaxSeats
  <2>1. row \in Seq(Seats) /\ row[k] \in Seats
    BY DEF Clockwise
  <2> QED BY <2>1, TableAssumption DEF Seats
<1>3. turned # <<>> /\ Head(turned) = turned[1]
  BY <1>1, <1>2 DEF Clockwise
<1> QED BY <1>1, <1>2, <1>3, HeadIsNext

(* The players in their order, and the blinds among them.                  *)
LEMMA BlindsAre ==
  ASSUME start \in Starts
  PROVE  LET order == ActiveOrder(Playing)
             n == Len(order)
         IN /\ Clockwise(order, Button - 1) /\ Button - 1 \in 0..MaxSeats /\ Range(order) = Playing
            /\ n \in Nat /\ n >= 1 /\ order[1] = Button
            /\ SmallBlindSeat(Playing) = order[IF n <= 2 THEN 1 ELSE 2]
            /\ BigBlindSeat(Playing) = order[IF n <= 2 THEN n ELSE 3]
<1> DEFINE order == ActiveOrder(Playing)
           n == Len(order)
<1>1. Button \in Playing /\ Playing \subseteq Seats
  BY StartsAssumption, TableAssumption DEF Playing, Seats
<1>2. Clockwise(order, Button - 1) /\ Button - 1 \in 0..MaxSeats /\ Range(order) = Playing
  BY <1>1, ActiveGoes
<1> HIDE DEF order
<1>3. /\ n \in Nat /\ n = Cardinality(Playing) /\ order \in Seq(Seats)
      /\ Range(order) = {order[i] : i \in 1..n}
  BY <1>2, RowCounts DEF Clockwise
<1>4. n >= 1 /\ order # <<>> /\ Head(order) = order[1]
  <2>1. PICK i \in 1..n : order[i] = Button
    BY <1>1, <1>2, <1>3
  <2>2. n >= 1
    BY <1>3, <2>1
  <2> QED BY <1>3, <2>2
<1>5. order[1] = Button
  <2>1. NextSeat(Button - 1, Playing) = order[1]
    BY <1>2, <1>4, HeadIsNext
  <2>2. ASSUME NEW t \in Playing PROVE Steps(Button - 1, Button) <= Steps(Button - 1, t)
    <3>1. /\ Steps(Button - 1, Button) = IF Button > Button - 1 THEN Button - (Button - 1) - 1
                                         ELSE Button - (Button - 1) - 1 + MaxSeats
          /\ Steps(Button - 1, t) \in 0..(MaxSeats - 1) /\ Button \in Int
      BY <1>1, <1>2, StepsAre DEF Seats
    <3> QED BY <3>1, TableAssumption
  <2>3. NextSeat(Button - 1, Playing) = Button
    BY <1>1, <1>2, <2>2, NearestIsNext
  <2> QED BY <2>1, <2>3
<1>6. \A k \in 1..n : NextSeat(order[k], Playing) = IF k = n THEN order[1] ELSE order[k + 1]
  BY <1>2, AfterIsNext
<1>7. SmallBlindSeat(Playing) = order[IF n <= 2 THEN 1 ELSE 2]
  <2>1. CASE n = 2
    BY <1>3, <1>5, <2>1 DEF SmallBlindSeat
  <2>2. CASE n # 2
    <3>1. SmallBlindSeat(Playing) = NextSeat(order[1], Playing)
      BY <1>3, <1>5, <2>2 DEF SmallBlindSeat
    <3>2. 1 \in 1..n /\ (n <= 2 <=> n = 1)
      BY <1>3, <1>4, <2>2
    <3> QED BY <1>6, <3>1, <3>2
  <2> QED BY <2>1, <2>2
<1>8. BigBlindSeat(Playing) = order[IF n <= 2 THEN n ELSE 3]
  <2>1. BigBlindSeat(Playing) = NextSeat(order[IF n <= 2 THEN 1 ELSE 2], Playing)
    BY <1>7 DEF BigBlindSeat
  <2>2. CASE n <= 2
    <3>1. 1 \in 1..n /\ (n = 1 \/ n = 2)
      BY <1>3, <1>4, <2>2
    <3> QED BY <1>6, <2>1, <2>2, <3>1
  <2>3. CASE ~(n <= 2)
    <3>1. 2 \in 1..n /\ n # 2
      BY <1>3, <2>3
    <3> QED BY <1>6, <2>1, <2>3, <3>1
  <2> QED BY <2>2, <2>3
<1> QED BY <1>2, <1>3, <1>4, <1>5, <1>7, <1>8 DEF order

(* The actors of a street go clockwise from the place it is opened from.   *)
LEMMA ActorsGo ==
  ASSUME start \in Starts, NEW e, e.order = ActiveOrder(Playing), e.street \in BettingStreets
  PROVE  /\ OpeningPlace(e.street) \in Playing
         /\ Clockwise(StreetActors(e), OpeningPlace(e.street)) /\ Range(StreetActors(e)) = Playing
<1> DEFINE order == ActiveOrder(Playing)
           n == Len(order)
<1>1. /\ Clockwise(order, Button - 1) /\ Button - 1 \in 0..MaxSeats /\ Range(order) = Playing
      /\ n \in Nat /\ n >= 1 /\ order[1] = Button
      /\ BigBlindSeat(Playing) = order[IF n <= 2 THEN n ELSE 3]
  BY BlindsAre
<1>2. e.order = order
  OBVIOUS
<1> HIDE DEF order
<1>3. order \in Seq(Seats) /\ Range(order) = {order[i] : i \in 1..n}
  BY <1>1, RowCounts DEF Clockwise
<1>4. \E k \in 1..n : OpeningPlace(e.street) = order[k] /\ StreetActors(e) = RotateLeft(order, k)
  <2>1. 1 \in 1..n
    BY <1>1
  <2>2. CASE e.street = "preflop" /\ BigBlind = 0
    BY <1>1, <1>2, <2>1, <2>2, TableAssumption DEF OpeningPlace, StreetActors
  <2>3. CASE e.street = "preflop" /\ BigBlind # 0
    <3>1. /\ OpeningPlace(e.street) = order[IF n <= 2 THEN n ELSE 3]
          /\ StreetActors(e) = IF n = 2 THEN order ELSE RotateLeft(order, 3)
      BY <1>1, <1>2, <2>3, TableAssumption DEF OpeningPlace, StreetActors, PreflopOrder
    <3>2. CASE n >= 3
      <4>1. 3 \in 1..n /\ ~(n <= 2) /\ n # 2
        BY <1>1, <3>2
      <4> QED BY <3>1, <4>1
    <3>3. CASE n = 2
      <4>1. RotateLeft(order, 2) = order
        <5>1. RotateLeft(order, 2) = [i \in 1..2 |-> order[((i - 1 + 2) % 2) + 1]]
          BY <3>3 DEF RotateLeft
        <5>2. order = [i \in 1..2 |-> order[i]]
          BY <1>3, <3>3
        <5>3. ((1 - 1 + 2) % 2) + 1 = 1 /\ ((2 - 1 + 2) % 2) + 1 = 2 /\ \A i \in 1..2 : i = 1 \/ i = 2
          OBVIOUS
        <5> QED BY <5>1, <5>2, <5>3
      <4> QED BY <3>1, <3>3, <4>1
    <3>4. CASE n = 1
      <4>1. RotateLeft(order, 3) = RotateLeft(order, 1)
        <5>1. /\ RotateLeft(order, 3) = [i \in 1..1 |-> order[((i - 1 + 3) % 1) + 1]]
              /\ RotateLeft(order, 1) = [i \in 1..1 |-> order[((i - 1 + 1) % 1) + 1]]
          BY <3>4 DEF RotateLeft
        <5>2. \A i \in 1..1 : (i - 1 + 3) % 1 = (i - 1 + 1) % 1
          OBVIOUS
        <5> QED BY <5>1, <5>2
      <4> QED BY <2>1, <3>1, <3>4, <4>1
    <3>5. n >= 3 \/ n = 2 \/ n = 1
      <4>1. n \in Nat /\ n >= 1
        BY <1>1
      <4> HIDE DEF n
      <4> QED BY <4>1
    <3> QED BY <3>2, <3>3, <3>4, <3>5
  <2>4. CASE e.street # "preflop"
    <3>1. e.street \in {"flop", "turn", "river"}
      BY <2>4 DEF BettingStreets
    <3>2. OpeningPlace(e.street) = order[1] /\ StreetActors(e) = IF n = 2 THEN Reverse(order) ELSE RotateLeft(order, 1)
      BY <1>1, <1>2, <2>4, <3>1 DEF OpeningPlace, StreetActors, PostflopOrder
    <3>3. n = 2 => Reverse(order) = RotateLeft(order, 1)
      <4> SUFFICES ASSUME n = 2 PROVE Reverse(order) = RotateLeft(order, 1)
        OBVIOUS
      <4>1. /\ RotateLeft(order, 1) = [i \in 1..2 |-> order[((i - 1 + 1) % 2) + 1]]
            /\ Reverse(order) = [i \in 1..2 |-> order[(2 - i) + 1]]
        BY DEF RotateLeft, Reverse
      <4>2. ((1 - 1 + 1) % 2) + 1 = (2 - 1) + 1 /\ ((2 - 1 + 1) % 2) + 1 = (2 - 2) + 1 /\ \A i \in 1..2 : i = 1 \/ i = 2
        OBVIOUS
      <4> QED BY <4>1, <4>2
    <3> QED BY <2>1, <3>2, <3>3
  <2> QED BY <2>2, <2>3, <2>4
<1>5. PICK k \in 1..n : OpeningPlace(e.street) = order[k] /\ StreetActors(e) = RotateLeft(order, k)
  BY <1>4
<1>6. Clockwise(RotateLeft(order, k), order[k]) /\ Range(RotateLeft(order, k)) = Range(order)
  BY <1>1, RowTurned
<1> QED BY <1>1, <1>3, <1>5, <1>6

-----------------------------------------------------------------------------
(* Rows from another seat.                                                 *)

(* A row also goes clockwise from a seat that all of its seats come after. *)
LEMMA RowRebased ==
  ASSUME NEW from \in 0..MaxSeats, NEW row, Clockwise(row, from), NEW s \in Seats,
         \A t \in Range(row) : Steps(from, s) < Steps(from, t)
  PROVE  Clockwise(row, s)
<1>1. /\ row \in Seq(Seats) /\ Range(row) = {row[i] : i \in 1..Len(row)}
      /\ \A i \in 1..Len(row) : row[i] \in Seats
      /\ \A i, j \in 1..Len(row) : i < j => Steps(from, row[i]) < Steps(from, row[j])
  BY RowCounts DEF Clockwise
<1>2. ASSUME NEW i \in 1..Len(row), NEW j \in 1..Len(row), i < j
      PROVE  Steps(s, row[i]) < Steps(s, row[j])
  <2>1. /\ row[i] \in Seats /\ row[j] \in Seats /\ Steps(from, row[i]) < Steps(from, row[j])
        /\ Steps(from, s) < Steps(from, row[i]) /\ Steps(from, s) < Steps(from, row[j])
    BY <1>1, <1>2
  <2>2. /\ Steps(s, row[i]) = Steps(from, row[i]) - Steps(from, s) - 1
        /\ Steps(s, row[j]) = Steps(from, row[j]) - Steps(from, s) - 1
    BY <2>1, StepsDiffer
  <2>3. Steps(from, s) \in Int /\ Steps(from, row[i]) \in Int /\ Steps(from, row[j]) \in Int
    BY <2>1, StepsAre
  <2> QED BY <2>1, <2>2, <2>3
<1> QED BY <1>1, <1>2 DEF Clockwise

(* Those left after the first has spoken come after it.                    *)
LEMMA OthersOnward ==
  ASSUME NEW from \in 0..MaxSeats, NEW row, Clockwise(row, from), row # <<>>
  PROVE  LET rest == Only(row, Seats \ {Head(row)})
         IN Clockwise(rest, Head(row)) /\ Range(rest) = Range(row) \ {Head(row)}
<1> DEFINE s == Head(row)
           rest == Only(row, Seats \ {s})
<1>1. /\ row \in Seq(Seats) /\ Len(row) \in Nat /\ Len(row) >= 1 /\ s = row[1]
      /\ \A i \in 1..Len(row) : row[i] \in Seats
      /\ Range(row) = {row[i] : i \in 1..Len(row)} /\ Range(row) \subseteq Seats
  BY RowCounts DEF Clockwise
<1>2. 1 \in 1..Len(row) /\ s \in Seats
  BY <1>1
<1> HIDE DEF s
<1>3. Clockwise(rest, from) /\ Range(rest) = Range(row) \cap (Seats \ {s})
  BY <1>1, OnlyKeeps
<1>4. Range(rest) = Range(row) \ {s}
  BY <1>1, <1>3
<1> HIDE DEF rest
<1>5. ASSUME NEW t \in Range(rest) PROVE Steps(from, s) < Steps(from, t)
  <2>1. PICK i \in 1..Len(row) : t = row[i]
    BY <1>1, <1>4
  <2>2. i # 1
    BY <1>1, <1>4, <2>1
  <2>3. 1 < i
    BY <1>1, <2>1, <2>2
  <2> QED BY <1>1, <1>2, <2>1, <2>3 DEF Clockwise
<1>6. Clockwise(rest, s)
  BY <1>2, <1>3, <1>5, RowRebased
<1> QED BY <1>4, <1>6 DEF rest, s

-----------------------------------------------------------------------------
(* The turn: whom the engine lets act.                                     *)

(* The engine is not on the dealer's street yet.                           *)
Fresh == engine.street # table.street \/ ~engine.ready
Open(t) == t.phase = "betting" /\ ~BettingOver(t)

TurnInv ==
  /\ engine.order = ActiveOrder(Playing) /\ engine.issues = {} /\ engine.ready \in BOOLEAN
  /\ IF Open(table) /\ ~Fresh
     THEN Clockwise(engine.eligible, table.place) /\ Range(engine.eligible) = Awaited(table)
     ELSE engine.eligible = <<>>
  /\ Open(table) /\ Fresh => table.spoken = {} /\ table.place = OpeningPlace(table.street)
  /\ table.phase \in Posting => ~engine.ready /\ table.place = OpeningPlace("preflop")

(* The stages of the engine that leave the turn alone.                     *)
SameTurn(f, e) ==
  f.order = e.order /\ f.eligible = e.eligible /\ f.ready = e.ready /\ f.street = e.street

(* Reporting, the status and the money are such stages, and the money      *)
(* reports money only.                                                     *)
LEMMA StagesKeepTurn ==
  ASSUME NEW e, EngineShape(e), NEW line \in Lines
  PROVE  /\ \A kinds : SameTurn(Flagged(e, kinds), e)
         /\ SameTurn(EngineStatus(e, line), e)
         /\ SameTurn(EngineMoney(e, line), e)
         /\ e.issues \subseteq EngineMoney(e, line).issues
         /\ EngineMoney(e, line).issues \subseteq e.issues \cup MoneyIssues
<1>1. \A kinds : SameTurn(Flagged(e, kinds), e) /\ Flagged(e, kinds).issues = e.issues \cup kinds
  BY DEF SameTurn, Flagged, EngineShape, EngineFields
<1>2. SameTurn(EngineStatus(e, line), e)
  BY DEF SameTurn, EngineStatus, EngineShape, EngineFields
<1>3. /\ SameTurn(EngineMoney(e, line), e) /\ e.issues \subseteq EngineMoney(e, line).issues
      /\ EngineMoney(e, line).issues \subseteq e.issues \cup MoneyIssues
  <2> DEFINE s == line.seat
             d == Delta(line, e.contrib[s])
             back == [e EXCEPT !.stack[s] = @ + line.chips, !.contrib[s] = @ - line.chips]
             moved == [e EXCEPT !.stack[s] = @ - d,
                                !.contrib[s] = IF CountsInRound(line.type) THEN @ + d ELSE @]
  <2>1. /\ SameTurn(back, e) /\ back.issues = e.issues /\ back = [f \in EngineFields |-> back[f]]
    BY DEF SameTurn, EngineShape, EngineFields
  <2>2. /\ SameTurn(moved, e) /\ moved.issues = e.issues
    <3> HIDE DEF d, s
    <3> QED BY DEF SameTurn, EngineShape, EngineFields
  <2>3. \A b, kinds : b = [f \in EngineFields |-> b[f]] =>
          SameTurn(Flagged(b, kinds), b) /\ Flagged(b, kinds).issues = b.issues \cup kinds
    BY DEF SameTurn, Flagged, EngineFields
  <2>4. CASE line.type = "return_uncalled"
    <3> DEFINE base == IF RefundAllowed(e, line) THEN back ELSE e
               late == {k \in {"refund_exceeds_betting_round_contrib"} : line.chips > e.contrib[s]}
    <3>1. EngineMoney(e, line) = Flagged(base, late)
      BY <2>4 DEF EngineMoney
    <3>2. SameTurn(base, e) /\ base.issues = e.issues /\ base = [f \in EngineFields |-> base[f]]
      <4> HIDE DEF back
      <4> QED BY <2>1 DEF SameTurn, EngineShape
    <3>3. late \subseteq MoneyIssues
      BY DEF MoneyIssues
    <3> HIDE DEF base, late
    <3>4. SameTurn(Flagged(base, late), base) /\ Flagged(base, late).issues = base.issues \cup late
      BY <2>3, <3>2
    <3> QED BY <3>1, <3>2, <3>3, <3>4 DEF SameTurn
  <2>5. CASE line.type # "return_uncalled" /\ d > e.stack[s]
    <3>1. EngineMoney(e, line) = Flagged(e, {"action_amount_exceeds_stack"})
      BY <2>5 DEF EngineMoney
    <3> QED BY <1>1, <3>1 DEF MoneyIssues
  <2>6. CASE line.type # "return_uncalled" /\ ~(d > e.stack[s])
    <3>1. EngineMoney(e, line) = moved
      BY <2>6 DEF EngineMoney
    <3> HIDE DEF moved
    <3> QED BY <2>2, <3>1
  <2> QED BY <2>4, <2>5, <2>6
<1> QED BY <1>1, <1>2, <1>3

(* A new street finds nobody to act.                                       *)
LEMMA StreetTurn ==
  ASSUME NEW e, EngineShape(e), NEW street \in Streets
  PROVE  LET f == AdvanceStreet(e, street)
         IN /\ f.order = e.order
            /\ f.eligible = IF street = e.street THEN e.eligible ELSE <<>>
            /\ f.ready = IF street = e.street THEN e.ready ELSE FALSE
            /\ e.eligible = <<>> \/ street = e.street => f.issues = e.issues
BY DEF AdvanceStreet, EngineShape, EngineFields

(* The actors of a street, once they are known.                            *)
LEMMA ActorsTurn ==
  ASSUME NEW e, EngineShape(e), NEW street \in BettingStreets
  PROVE  LET b == Turned(e, street)
             a == AdvanceStreet(e, street)
         IN /\ EngineShape(b) /\ b.order = e.order /\ b.street = street
            /\ (e.ready \in BOOLEAN => b.ready)
            /\ b.status = e.status /\ b.issues = a.issues
            /\ StreetActors(b) = StreetActors(a)
            /\ b.eligible = IF street = e.street /\ e.ready THEN e.eligible
                            ELSE Only(StreetActors(b), LiveSeats(e))
<1> DEFINE a == AdvanceStreet(e, street)
           b == Turned(e, street)
<1>1. /\ EngineShape(a) /\ a.street = street /\ a.status = e.status
      /\ a.order = e.order /\ a.eligible = IF street = e.street THEN e.eligible ELSE <<>>
      /\ a.ready = IF street = e.street THEN e.ready ELSE FALSE
  <2>1. street \in Streets
    BY DEF Streets
  <2>2. EngineShape(a) /\ a.street = street /\ a.status = e.status
    BY <2>1, EngineStreetStage
  <2>3. /\ a.order = e.order /\ a.eligible = IF street = e.street THEN e.eligible ELSE <<>>
        /\ a.ready = IF street = e.street THEN e.ready ELSE FALSE
    BY <2>1, StreetTurn
  <2> QED BY <2>2, <2>3
<1>2. b = WithActors(a)
  BY DEF Turned
<1> HIDE DEF a, b
<1>3. EngineShape(b) /\ b.street = a.street /\ b.status = a.status /\ b.issues = a.issues
  BY <1>1, <1>2, EngineActorsStage
<1>4. b.order = a.order
  BY <1>1, <1>2 DEF WithActors, EngineShape, EngineFields
<1>5. StreetActors(b) = StreetActors(a)
  BY <1>3, <1>4 DEF StreetActors
<1>6. LiveSeats(a) = LiveSeats(e)
  BY <1>1 DEF LiveSeats
<1>7. /\ a.ready => b = a
      /\ ~a.ready => b.ready = TRUE /\ b.eligible = Only(StreetActors(a), LiveSeats(a))
  BY <1>1, <1>2 DEF WithActors, EngineShape, EngineFields
<1>8. a.ready <=> street = e.street /\ e.ready
  BY <1>1
<1>9. b.eligible = IF street = e.street /\ e.ready THEN e.eligible
                   ELSE Only(StreetActors(b), LiveSeats(e))
  BY <1>1, <1>5, <1>6, <1>7, <1>8
<1>10. e.ready \in BOOLEAN => b.ready
  BY <1>1, <1>7
<1> QED BY <1>1, <1>3, <1>4, <1>5, <1>9, <1>10 DEF a, b

(* The row of those still to speak after a turn, and the engine after it.  *)
TurnRow(f, b, line) ==
  IF Aggression(b, line) = "none" THEN Only(b.eligible, Seats \ {line.seat})
  ELSE Only(Following(StreetActors(b), line.seat),
            {t \in LiveSeats(f) : f.contrib[t] < Level(b, line)})
TurnTaken(f, b, line) ==
  LET row == TurnRow(f, b, line)
  IN /\ f.order = b.order /\ f.ready = b.ready /\ f.street = line.street
     /\ f.eligible = IF RoundClosed([f EXCEPT !.eligible = row]) THEN <<>> ELSE row
     /\ OrderIssues(b, line) \cup BetIssues(b, line) \subseteq f.issues
     /\ f.issues \subseteq b.issues \cup OrderIssues(b, line) \cup BetIssues(b, line)
                         \cup MoneyIssues

(* What the engine does to the turn at a voluntary line, decided by the    *)
(* engine before it: who is left to act, and what is reported.             *)
LEMMA VoluntaryTurn ==
  ASSUME NEW e, EngineShape(e), NEW line \in Lines, line.type \in Voluntary,
         line.street \in BettingStreets
  PROVE  TurnTaken(EngineAfter(e, line), Turned(e, line.street), line)
<1> DEFINE b == Turned(e, line.street)
           found == SurfaceIssues(b, line) \cup (OrderIssues(b, line) \cup BetIssues(b, line))
           flagged == Flagged(b, found)
           paid == EngineMoney(flagged, line)
           after == EngineStatus(paid, line)
           f == EngineAfter(e, line)
           aggression == Aggression(b, line)
           level == Level(b, line)
           s == line.seat
           acted == [after EXCEPT !.eligible = Only(@, Seats \ {s}), !.reopened[s] = FALSE]
           answering == Answering(after, s, level)
           priced ==
             CASE aggression = "none" -> acted
               [] aggression = "short" -> [acted EXCEPT !.toCall = level, !.eligible = answering]
               [] aggression = "full" ->
                    [acted EXCEPT !.toCall = level, !.lastRaise = level - after.toCall,
                                  !.eligible = answering,
                                  !.reopened = [t \in Seats |-> after.status[t] = "live" /\ t # s]]
           row == IF aggression = "none" THEN Only(b.eligible, Seats \ {s}) ELSE answering
<1>1. EngineShape(b) /\ b.order = e.order /\ b.street = line.street
  BY ActorsTurn
<1>2. f = AdvanceRound(after, line, aggression, level)
  BY DEF EngineAfter, Turned
<1>3. SurfaceIssues(b, line) = {}
  BY DEF SurfaceIssues, Voluntary
<1>4. aggression \in {"none", "short", "full"}
  BY DEF Aggression
<1> HIDE DEF b, aggression, level, f
<1>5. EngineShape(flagged) /\ SameTurn(flagged, b) /\ flagged.issues = b.issues \cup found
  BY <1>1, EngineFlagStage, StagesKeepTurn
<1>6. found = OrderIssues(b, line) \cup BetIssues(b, line)
  BY <1>3
<1> HIDE DEF found, flagged
<1>7. /\ EngineShape(paid) /\ SameTurn(paid, flagged) /\ flagged.issues \subseteq paid.issues
      /\ paid.issues \subseteq flagged.issues \cup MoneyIssues
  BY <1>5, EngineMoneyStage, StagesKeepTurn
<1> HIDE DEF paid
<1>8. EngineShape(after) /\ SameTurn(after, paid) /\ after.issues = paid.issues
  BY <1>7, EngineStatusStage, StagesKeepTurn
<1> HIDE DEF after
<1>9. /\ after.order = b.order /\ after.eligible = b.eligible /\ after.ready = b.ready
      /\ after.street = b.street
  BY <1>5, <1>7, <1>8 DEF SameTurn
<1>10. f = IF RoundClosed(priced) THEN [priced EXCEPT !.eligible = <<>>] ELSE priced
  BY <1>2 DEF AdvanceRound
<1>11. /\ acted = [x \in EngineFields |-> acted[x]]
       /\ acted.order = after.order /\ acted.ready = after.ready /\ acted.street = after.street
       /\ acted.eligible = Only(after.eligible, Seats \ {s})
  <2> DEFINE others == Only(after.eligible, Seats \ {s})
  <2>1. acted = [after EXCEPT !.eligible = others, !.reopened[s] = FALSE]
    OBVIOUS
  <2> HIDE DEF others, s
  <2> QED BY <1>8, <2>1 DEF EngineShape, EngineFields, others
<1> HIDE DEF acted, answering
<1>12. /\ priced = [x \in EngineFields |-> priced[x]]
       /\ priced.order = after.order /\ priced.ready = after.ready
       /\ priced.street = after.street /\ priced.eligible = row
  <2>1. CASE aggression = "none"
    BY <1>9, <1>11, <2>1
  <2>2. CASE aggression = "short"
    BY <1>11, <2>2 DEF EngineFields
  <2>3. CASE aggression = "full"
    <3> DEFINE now == [t \in Seats |-> after.status[t] = "live" /\ t # s]
               gap == level - after.toCall
    <3>1. priced = [acted EXCEPT !.toCall = level, !.lastRaise = gap, !.eligible = answering,
                                 !.reopened = now]
      BY <2>3
    <3> HIDE DEF now, gap
    <3> QED BY <1>11, <2>3, <3>1 DEF EngineFields
  <2> QED BY <1>4, <2>1, <2>2, <2>3
<1> HIDE DEF priced
<1>13. /\ f.order = after.order /\ f.ready = after.ready /\ f.street = after.street
       /\ f.eligible = IF RoundClosed(priced) THEN <<>> ELSE row
       /\ [f EXCEPT !.eligible = row] = priced
  <2>1. [[priced EXCEPT !.eligible = <<>>] EXCEPT !.eligible = row] = priced
    BY <1>12 DEF EngineFields
  <2>2. [priced EXCEPT !.eligible = row] = priced
    BY <1>12 DEF EngineFields
  <2>3. /\ [priced EXCEPT !.eligible = <<>>].order = priced.order
        /\ [priced EXCEPT !.eligible = <<>>].ready = priced.ready
        /\ [priced EXCEPT !.eligible = <<>>].street = priced.street
        /\ [priced EXCEPT !.eligible = <<>>].eligible = <<>>
    BY <1>12 DEF EngineFields
  <2> QED BY <1>10, <1>12, <2>1, <2>2, <2>3
<1>14. /\ f.issues = after.issues /\ f.status = after.status /\ f.contrib = after.contrib
  BY <1>2, <1>4, <1>8, RoundStage
<1>15. answering = Only(Following(StreetActors(b), s), {t \in LiveSeats(f) : f.contrib[t] < level})
  <2>1. StreetActors(after) = StreetActors(b)
    BY <1>9 DEF StreetActors
  <2>2. LiveSeats(after) = LiveSeats(f)
    BY <1>14 DEF LiveSeats
  <2> QED BY <1>14, <2>1, <2>2 DEF answering, Answering
<1>16. /\ OrderIssues(b, line) \cup BetIssues(b, line) \subseteq f.issues
       /\ f.issues \subseteq b.issues \cup OrderIssues(b, line) \cup BetIssues(b, line) \cup MoneyIssues
  BY <1>5, <1>6, <1>7, <1>8, <1>14
<1>17. row = TurnRow(f, b, line)
  BY <1>15 DEF TurnRow, aggression, level
<1> HIDE DEF row
<1>18. /\ f.order = b.order /\ f.ready = b.ready /\ f.street = line.street
       /\ f.eligible = IF RoundClosed([f EXCEPT !.eligible = row]) THEN <<>> ELSE row
  BY <1>1, <1>9, <1>13
<1>19. TurnTaken(f, b, line)
  BY <1>16, <1>17, <1>18 DEF TurnTaken
<1> QED BY <1>19 DEF b, f

(* Any other line moves no turn, and is reported for its surface only.     *)
Passed(f, b, e, line) ==
  /\ f.order = e.order /\ f.eligible = <<>> /\ f.street = line.street
  /\ f.ready = IF line.street = e.street THEN e.ready ELSE FALSE
  /\ f.issues = e.issues \cup SurfaceIssues(b, line)
  /\ EngineShape(b) /\ b.contrib = RoundOf(e, line.street) /\ b.order = e.order

(* It passes so when its money is accepted and nobody is let act.          *)
LEMMA OtherTurn ==
  ASSUME NEW e, EngineShape(e), NEW line \in Lines, line.type \notin Voluntary,
         ~Refused(line, e.stack, RoundOf(e, line.street)), e.eligible = <<>>
  PROVE  Passed(EngineAfter(e, line), AdvanceStreet(e, line.street), e, line)
<1> DEFINE b == AdvanceStreet(e, line.street)
           found == SurfaceIssues(b, line) \cup {}
           flagged == Flagged(b, found)
           paid == EngineMoney(flagged, line)
           after == EngineStatus(paid, line)
           f == EngineAfter(e, line)
<1>1. line.street \in Streets
  BY DEF Lines
<1>2. /\ EngineShape(b) /\ b.stack = e.stack /\ b.contrib = RoundOf(e, line.street)
      /\ b.order = e.order /\ b.eligible = <<>> /\ b.issues = e.issues /\ b.street = line.street
      /\ b.ready = IF line.street = e.street THEN e.ready ELSE FALSE
  <2>1. /\ EngineShape(b) /\ b.stack = e.stack /\ b.contrib = RoundOf(e, line.street)
        /\ b.street = line.street
    BY <1>1, EngineStreetStage DEF RoundOf
  <2>2. /\ b.order = e.order /\ b.issues = e.issues
        /\ b.eligible = IF line.street = e.street THEN e.eligible ELSE <<>>
        /\ b.ready = IF line.street = e.street THEN e.ready ELSE FALSE
    BY <1>1, StreetTurn
  <2> QED BY <2>1, <2>2
<1> HIDE DEF b
<1>3. Pays(line, b.stack, b.contrib) \/ Refunds(line, b.contrib)
  BY <1>2 DEF Refused
<1>4. /\ EngineShape(flagged) /\ flagged.stack = b.stack /\ flagged.contrib = b.contrib
      /\ flagged.issues = b.issues \cup found /\ SameTurn(flagged, b)
  BY <1>2, EngineFlagStage, StagesKeepTurn
<1> HIDE DEF flagged
<1>5. EngineShape(paid) /\ SameTurn(paid, flagged) /\ paid.issues = flagged.issues
  BY <1>3, <1>4, EngineMoneyStage, MoneyKeepsPrice, StagesKeepTurn
<1> HIDE DEF paid
<1>6. EngineShape(after) /\ SameTurn(after, paid) /\ after.issues = paid.issues
  BY <1>5, EngineStatusStage, StagesKeepTurn
<1>7. f = IF line.type \in Posts \ {"post_ante"} /\ line.street = "preflop"
            THEN [after EXCEPT !.toCall = Max({@, after.contrib[line.seat]})] ELSE after
  BY DEF EngineAfter, after, paid, flagged, found, b
<1> HIDE DEF after, f
<1>8. /\ f.order = after.order /\ f.eligible = after.eligible /\ f.street = after.street
      /\ f.ready = after.ready /\ f.issues = after.issues
  BY <1>6, <1>7 DEF EngineShape, EngineFields
<1>9. found = SurfaceIssues(b, line)
  OBVIOUS
<1> HIDE DEF found
<1>10. Passed(f, b, e, line)
  BY <1>2, <1>4, <1>5, <1>6, <1>8, <1>9 DEF SameTurn, Passed
<1> QED BY <1>10 DEF b, f

(* The engine closes a round when the betting is over, and only then.      *)
LEMMA ClosedIsOver ==
  ASSUME NEW t, TableShape(t), NEW p, p.status = t.status, p.contrib = t.put,
         p.toCall = t.price, p.street \in BettingStreets,
         NEW row \in Seq(Seats), p.eligible = row, Range(row) = Awaited(t)
  PROVE  /\ RoundClosed(p) => BettingOver(t)
         /\ BettingOver(t) => RoundClosed(p) \/ row = <<>>
<1>1. /\ t.put \in [Seats -> Nat] /\ t.price \in Nat /\ t.status \in [Seats -> Statuses]
  BY DEF TableShape
<1>2. LiveSeats(p) = Live(t) /\ Contesting(p) = InHand(t)
  BY DEF LiveSeats, Live, Contesting, InHand
<1>3. Live(t) \subseteq Seats /\ Awaited(t) \subseteq Live(t)
  BY DEF Live, Awaited
<1>4. /\ Cardinality(Live(t)) \in Nat /\ (Cardinality(Live(t)) = 0 <=> Live(t) = {})
  BY <1>3, FewSeats
<1>5. (\A s \in Range(p.eligible) \cap LiveSeats(p) : p.contrib[s] >= p.toCall)
        <=> \A s \in Live(t) : t.put[s] >= t.price
  <2>1. Range(p.eligible) \cap LiveSeats(p) = Awaited(t)
    BY <1>2, <1>3
  <2>2. ASSUME NEW s \in Live(t), s \notin Awaited(t) PROVE t.put[s] >= t.price
    <3>1. ~(t.put[s] < t.price) /\ t.put[s] \in Nat
      BY <1>1, <1>3, <2>2 DEF Awaited
    <3> QED BY <1>1, <3>1
  <2> QED BY <1>3, <2>1, <2>2
<1>6. RoundClosed(p) <=>
        \/ Cardinality(InHand(t)) <= 1
        \/ Live(t) = {}
        \/ Cardinality(Live(t)) <= 1 /\ \A s \in Live(t) : t.put[s] >= t.price
  BY <1>2, <1>4, <1>5 DEF RoundClosed
<1>7. Live(t) = {} => Awaited(t) = {}
  BY <1>3
<1>8. Awaited(t) = {} => row = <<>>
  <2> SUFFICES ASSUME row # <<>> PROVE Awaited(t) # {}
    OBVIOUS
  <2>1. 1 \in DOMAIN row /\ row[1] \in Range(row)
    BY DEF Range
  <2> QED BY <2>1
<1> QED BY <1>6, <1>7, <1>8 DEF BettingOver

(* Who plays the hand was dealt in.                                        *)
LEMMA LivePlay ==
  ASSUME TableInv, KoInv
  PROVE  Live(table) \subseteq Playing /\ Awaited(table) \subseteq Live(table)
BY DEF KoInv, Seated, Live, Awaited

(* At a turn the first of those the engine lets act is the seat on turn.   *)
LEMMA TurnOfSeat ==
  ASSUME TableInv, KoInv, TurnInv, Open(table)
  PROVE  LET b == Turned(engine, table.street)
         IN /\ b.order = ActiveOrder(Playing) /\ b.ready /\ b.issues = {}
            /\ table.place \in 0..MaxSeats /\ Clockwise(b.eligible, table.place)
            /\ b.eligible # <<>> /\ Head(b.eligible) = ToSpeak(table)
            /\ Range(b.eligible) = Awaited(table)
            /\ OpeningPlace(table.street) \in 0..MaxSeats
            /\ Clockwise(StreetActors(b), OpeningPlace(table.street))
            /\ Range(StreetActors(b)) = Playing
<1> DEFINE b == Turned(engine, table.street)
<1>1. /\ TableShape(table) /\ BooksInv /\ start \in Starts /\ table.street \in BettingStreets
      /\ Awaited(table) # {} /\ table.phase = "betting" /\ ~BettingOver(table)
  <2>1. table.phase = "betting" /\ ~BettingOver(table)
    BY DEF Open
  <2> QED BY <2>1, OnTurn DEF TableInv, DealerInv, Dealer, BettingOver
<1>2. EngineShape(engine) /\ engine.status = table.status
  BY <1>1 DEF BooksInv
<1>3. /\ engine.order = ActiveOrder(Playing) /\ engine.issues = {} /\ engine.ready \in BOOLEAN
      /\ ~Fresh => Clockwise(engine.eligible, table.place) /\ Range(engine.eligible) = Awaited(table)
      /\ Fresh => engine.eligible = <<>> /\ table.spoken = {}
                  /\ table.place = OpeningPlace(table.street)
  BY DEF TurnInv
<1>4. /\ EngineShape(b) /\ b.order = engine.order /\ b.street = table.street /\ b.ready
      /\ b.issues = AdvanceStreet(engine, table.street).issues
      /\ b.eligible = IF table.street = engine.street /\ engine.ready THEN engine.eligible
                      ELSE Only(StreetActors(b), LiveSeats(engine))
  BY <1>1, <1>2, <1>3, ActorsTurn
<1>5. b.issues = {}
  <2>1. table.street \in Streets
    BY <1>1 DEF Streets
  <2>2. engine.eligible = <<>> \/ table.street = engine.street
    BY <1>3 DEF Fresh
  <2>3. AdvanceStreet(engine, table.street).issues = engine.issues
    BY <1>2, <2>1, <2>2, StreetTurn
  <2> QED BY <1>3, <1>4, <2>3
<1> HIDE DEF b
<1>6. Playing \subseteq 0..MaxSeats
  BY Constants DEF Playing
<1>7. /\ OpeningPlace(table.street) \in Playing
      /\ Clockwise(StreetActors(b), OpeningPlace(table.street)) /\ Range(StreetActors(b)) = Playing
  <2>1. b.order = ActiveOrder(Playing) /\ b.street \in BettingStreets
    BY <1>1, <1>3, <1>4
  <2> QED BY <1>1, <1>4, <2>1, ActorsGo
<1>8. table.place \in 0..MaxSeats
  BY <1>1, Constants DEF TableShape
<1>9. Clockwise(b.eligible, table.place) /\ Range(b.eligible) = Awaited(table)
  <2>1. CASE ~Fresh
    BY <1>3, <1>4, <2>1 DEF Fresh
  <2>2. CASE Fresh
    <3>1. b.eligible = Only(StreetActors(b), LiveSeats(engine))
      BY <1>4, <2>2 DEF Fresh
    <3>2. StreetActors(b) \in Seq(Seats)
      BY <1>7 DEF Clockwise
    <3>3. OpeningPlace(table.street) \in 0..MaxSeats
      BY <1>6, <1>7
    <3>4. /\ Range(b.eligible) = Range(StreetActors(b)) \cap LiveSeats(engine)
          /\ Clockwise(b.eligible, OpeningPlace(table.street))
      BY <1>7, <3>1, <3>2, <3>3, OnlyKeeps
    <3>5. LiveSeats(engine) = Live(table)
      BY <1>2 DEF LiveSeats, Live
    <3>6. Awaited(table) = Live(table)
      BY <1>3, <2>2 DEF Awaited
    <3>7. Range(b.eligible) = Awaited(table)
      BY <1>7, <3>4, <3>5, <3>6, LivePlay
    <3> QED BY <1>3, <2>2, <3>4, <3>7
  <2> QED BY <2>1, <2>2
<1>10. b.eligible # <<>>
  <2> SUFFICES ASSUME b.eligible = <<>> PROVE FALSE
    OBVIOUS
  <2>1. Range(b.eligible) = {}
    BY DEF Range
  <2> QED BY <1>1, <1>9, <2>1
<1>11. Head(b.eligible) = ToSpeak(table)
  BY <1>8, <1>9, <1>10, HeadIsNext DEF ToSpeak
<1> QED BY <1>3, <1>4, <1>5, <1>6, <1>7, <1>8, <1>9, <1>10, <1>11 DEF b

(* After a turn the engine lets those act that the dealer awaits, and from *)
(* the seat that has spoken on.                                            *)
LEMMA RowAfterTurn ==
  ASSUME TableInv, KoInv, KoInv', TurnInv, Open(table), TableShape(table'), start' = start,
         NEW s, NEW type, NEW chips, NEW d, Turn(s, type, chips, d),
         NEW marked, Told(s, type, marked),
         engine'.status = table'.status, engine'.contrib = table'.put
  PROVE  LET row == TurnRow(engine', Turned(engine, table.street), marked)
         IN row \in Seq(Seats) /\ Clockwise(row, s) /\ Range(row) = Awaited(table')
<1>1. PICK b : b = Turned(engine, table.street)
  OBVIOUS
<1>2. /\ table.place \in 0..MaxSeats /\ Clockwise(b.eligible, table.place)
      /\ b.eligible # <<>> /\ Head(b.eligible) = ToSpeak(table)
      /\ Range(b.eligible) = Awaited(table) /\ OpeningPlace(table.street) \in 0..MaxSeats
      /\ Clockwise(StreetActors(b), OpeningPlace(table.street))
      /\ Range(StreetActors(b)) = Playing
  BY <1>1, TurnOfSeat
<1>3. /\ s = ToSpeak(table) /\ ActChange(s, type, d) /\ (Follows(s, type) \/ Leads(s, type))
      /\ d \in Nat
  BY DEF Turn
<1>4. /\ marked.seat = s
      /\ IF type \in {"bet", "raise_to"}
         THEN Aggression(b, marked) # "none" /\ Level(b, marked) = table'.price
         ELSE Aggression(b, marked) = "none"
  BY <1>1 DEF Told
<1>5. TableShape(table) /\ Solvent(table)
  BY DEF TableInv, DealerInv, Dealer
<1>6. s \in Awaited(table) /\ s \in Live(table) /\ s \in Seats /\ s \in Playing
  <2>1. table.phase = "betting" /\ ~BettingOver(table)
    BY DEF Open
  <2>2. s \in Awaited(table) /\ s \in Seats
    BY <1>3, <2>1, OnTurn
  <2> QED BY <2>2, LivePlay
<1>7. /\ table'.put = [table.put EXCEPT ![s] = @ + d]
      /\ table'.status = [table.status EXCEPT ![s] = ActStatus(s, type, d)]
  BY <1>3 DEF ActChange
<1>8. table.put \in [Seats -> Nat] /\ table.status \in [Seats -> Statuses]
      /\ table'.put \in [Seats -> Nat] /\ table'.status \in [Seats -> Statuses]
      /\ table.price \in Nat /\ table'.price \in Nat
  BY <1>5 DEF TableShape
<1>9. \A u \in Seats \ {s} : /\ table'.put[u] = table.put[u]
                             /\ table'.status[u] = table.status[u]
  BY <1>7, <1>8
<1>10. Awaited(table') = IF type \in {"bet", "raise_to"} THEN Live(table') \ {s}
                         ELSE (Awaited(table) \cap Live(table')) \ {s}
  BY <1>3, <1>5, <1>6, AwaitedNext
<1>11. CASE type \notin {"bet", "raise_to"}
  <2>1. TurnRow(engine', b, marked) = Only(b.eligible, Seats \ {s})
    BY <1>4, <1>11 DEF TurnRow
  <2>2. /\ Clockwise(Only(b.eligible, Seats \ {s}), s)
        /\ Range(Only(b.eligible, Seats \ {s})) = Awaited(table) \ {s}
    BY <1>2, <1>3, OthersOnward
  <2>3. Awaited(table) \ {s} \subseteq Live(table')
    BY <1>9 DEF Awaited, Live
  <2>4. Awaited(table') = Awaited(table) \ {s}
    BY <1>10, <1>11, <2>3
  <2> QED BY <1>1, <2>1, <2>2, <2>4 DEF Clockwise
<1>12. CASE type \in {"bet", "raise_to"}
  <2> DEFINE onward == Following(StreetActors(b), s)
             owing == {t \in LiveSeats(engine') : engine'.contrib[t] < table'.price}
  <2>1. TurnRow(engine', b, marked) = Only(onward, owing)
    BY <1>4, <1>12 DEF TurnRow
  <2>2. Clockwise(onward, s) /\ Range(onward) = Playing \ {s}
    BY <1>2, <1>6, FollowingGoes
  <2> HIDE DEF onward
  <2>3. onward \in Seq(Seats) /\ s \in 0..MaxSeats
    BY <1>6, <2>2, Constants DEF Clockwise
  <2>4. owing = Live(table') \ {s}
    <3>1. table.price < table'.price /\ table'.put[s] = table'.price
      BY <1>3, <1>12 DEF Follows, Leads
    <3>2. LiveSeats(engine') = Live(table')
      BY DEF LiveSeats, Live
    <3>3. ASSUME NEW u \in Seats \ {s} PROVE table'.put[u] < table'.price
      <4>1. table.put[u] \in Nat /\ table.put[u] <= table.price /\ table'.put[u] = table.put[u]
        BY <1>5, <1>8, <1>9 DEF Solvent
      <4> QED BY <1>8, <3>1, <4>1
    <3>4. ~(table'.put[s] < table'.price)
      BY <1>8, <3>1
    <3>5. Live(table') \subseteq Seats
      BY DEF Live
    <3> QED BY <3>2, <3>3, <3>4, <3>5
  <2> HIDE DEF owing
  <2>5. Live(table') \subseteq Playing
    BY DEF KoInv, Seated, Live, Playing
  <2>6. Clockwise(Only(onward, owing), s) /\ Range(Only(onward, owing)) = (Playing \ {s}) \cap owing
    BY <2>2, <2>3, OnlyKeeps
  <2>7. Awaited(table') = Live(table') \ {s}
    BY <1>10, <1>12
  <2>8. (Playing \ {s}) \cap owing = Live(table') \ {s}
    BY <2>4, <2>5
  <2> QED BY <1>1, <2>1, <2>6, <2>7, <2>8 DEF Clockwise
<1> QED BY <1>11, <1>12

(* A legal turn is not reported.                                           *)
LEMMA NoneReported ==
  ASSUME engine'.issues \subseteq OrderKinds, NEW b, b.issues = {}, NEW marked,
         TurnTaken(engine', b, marked), BetIssues(b, marked) = {},
         b.eligible = <<>> \/ Head(b.eligible) = marked.seat
  PROVE  engine'.issues = {}
<1>1. OrderIssues(b, marked) = {}
  BY DEF OrderIssues
<1>2. engine'.issues \subseteq MoneyIssues
  BY <1>1 DEF TurnTaken
<1>3. MoneyIssues \cap OrderKinds = {}
  BY DEF MoneyIssues, OrderKinds
<1> QED BY <1>2, <1>3

(* A turn of the dealer is a turn of the engine.                           *)
LEMMA TurnAct ==
  ASSUME TableInv, TableInv', PriceInv, KoInv, KoInv', TurnInv, Act
  PROVE  TurnInv'
<1>1. table.phase = "betting" /\ ~BettingOver(table)
  BY DEF Act
<1>2. /\ TableShape(table) /\ TableShape(table') /\ BooksInv /\ BooksInv' /\ Open(table)
  <2>1. TableShape(table) /\ BooksInv
    BY DEF TableInv, DealerInv, Dealer
  <2>2. DealerInv' /\ BooksInv'
    BY DEF TableInv
  <2>3. start' = start
    BY DEF Act
  <2>4. TableShape(table')
    BY <2>2, <2>3 DEF DealerInv, Dealer, TableShape, Playing
  <2> QED BY <1>1, <2>1, <2>2, <2>4 DEF Open
<1>3. PICK s, type, chips, d, marked : /\ Turn(s, type, chips, d) /\ Told(s, type, marked)
                                       /\ PriceInv' /\ AtPrice(table')
  BY <1>2, PriceAct
<1>4. /\ s = ToSpeak(table) /\ type \in Voluntary /\ ActChange(s, type, d)
  BY <1>3 DEF Turn
<1>5. /\ table'.phase = "betting" /\ table'.street = table.street /\ table'.place = s
      /\ start' = start
  BY <1>4 DEF ActChange
<1>6. /\ marked \in Lines /\ marked.seat = s /\ marked.type \in Voluntary
      /\ marked.street = table.street /\ engine' = EngineAfter(engine, marked)
      /\ table.street \in BettingStreets /\ EngineShape(engine)
      /\ BetIssues(Turned(engine, table.street), marked) = {}
  <2>1. table.street \in BettingStreets
    BY <1>1, OnTurn
  <2> QED BY <1>2, <1>3, <1>4, <2>1 DEF Told, BooksInv
<1>7. PICK b : b = Turned(engine, table.street)
  OBVIOUS
<1>8. TurnTaken(engine', b, marked)
  <2>1. TurnTaken(EngineAfter(engine, marked), Turned(engine, marked.street), marked)
    BY <1>6, VoluntaryTurn
  <2> QED BY <1>6, <1>7, <2>1
<1>9. /\ b.order = ActiveOrder(Playing) /\ b.ready /\ b.issues = {}
      /\ Head(b.eligible) = marked.seat
  BY <1>2, <1>4, <1>6, <1>7, TurnOfSeat
<1>10. engine'.issues = {}
  BY <1>3, <1>6, <1>7, <1>8, <1>9, NoneReported DEF PriceInv
<1>11. /\ engine'.order = ActiveOrder(Playing') /\ engine'.ready
       /\ engine'.street = table.street
  BY <1>5, <1>6, <1>8, <1>9 DEF TurnTaken, Playing
<1>12. engine'.status = table'.status /\ engine'.contrib = table'.put
       /\ engine'.toCall = table'.price
  <2>1. table'.street # "showdown" /\ engine'.street = table'.street
    BY <1>5, <1>6, <1>11 DEF BettingStreets
  <2> QED BY <1>2, <1>3, <2>1 DEF BooksInv, InStep, RoundOf, AtPrice
<1> DEFINE row == TurnRow(engine', b, marked)
<1>13. row \in Seq(Seats) /\ Clockwise(row, s) /\ Range(row) = Awaited(table')
  BY <1>2, <1>3, <1>5, <1>7, <1>12, RowAfterTurn
<1>14. engine'.eligible = IF RoundClosed([engine' EXCEPT !.eligible = row]) THEN <<>> ELSE row
  BY <1>8 DEF TurnTaken
<1> HIDE DEF row
<1>15. PICK p : p = [engine' EXCEPT !.eligible = row]
  OBVIOUS
<1>16. /\ p.status = table'.status /\ p.contrib = table'.put /\ p.toCall = table'.price
       /\ p.street \in BettingStreets /\ p.eligible = row
  <2>1. EngineShape(engine')
    BY <1>2 DEF BooksInv
  <2>2. /\ p.status = engine'.status /\ p.contrib = engine'.contrib /\ p.street = engine'.street
        /\ p.toCall = engine'.toCall /\ p.eligible = row
    BY <1>15, <2>1 DEF EngineShape, EngineFields
  <2> QED BY <1>6, <1>11, <1>12, <2>2
<1>17. (RoundClosed(p) => BettingOver(table')) /\ (BettingOver(table') => RoundClosed(p) \/ row = <<>>)
  BY <1>2, <1>13, <1>16, ClosedIsOver
<1>18. engine'.eligible = IF RoundClosed(p) THEN <<>> ELSE row
  BY <1>14, <1>15
<1>19. ~Fresh'
  BY <1>5, <1>11 DEF Fresh
<1>20. CASE BettingOver(table')
  BY <1>5, <1>10, <1>11, <1>17, <1>18, <1>19, <1>20 DEF TurnInv, Open, Posting
<1>21. CASE ~BettingOver(table')
  BY <1>5, <1>10, <1>11, <1>13, <1>17, <1>18, <1>19, <1>21 DEF TurnInv, Open, Posting
<1> QED BY <1>20, <1>21

(* A post by the seat that owes it and a refund of what is left over are   *)
(* not reported.                                                           *)
LEMMA SurfaceClean ==
  ASSUME start \in Starts, NEW b, b.order = ActiveOrder(Playing), NEW line,
         line.type = "post_sb" => line.seat = SmallBlindSeat(Playing),
         line.type = "post_bb" => line.seat = BigBlindSeat(Playing),
         line.type = "return_uncalled" =>
           line.chips \in Nat /\ line.chips > 0 /\ line.chips = Overage(b.contrib, line.seat)
  PROVE  SurfaceIssues(b, line) = {}
<1>1. PICK order, n : order = ActiveOrder(Playing) /\ n = Len(order)
  OBVIOUS
<1>2. /\ n \in Nat /\ n >= 1
      /\ SmallBlindSeat(Playing) = order[IF n <= 2 THEN 1 ELSE 2]
      /\ BigBlindSeat(Playing) = order[IF n <= 2 THEN n ELSE 3]
  BY <1>1, BlindsAre
<1>3. b.order = order /\ Len(b.order) = n
  BY <1>1
<1>4. CASE line.type = "post_sb"
  <2>1. BlindSeat(b, "post_sb") \in {{}, {line.seat}}
    <3>1. CASE n < 2 \/ BigBlind = 0
      BY <1>3, <3>1 DEF BlindSeat
    <3>2. CASE ~(n < 2 \/ BigBlind = 0)
      <4>1. n <= 2 <=> n = 2
        BY <1>2, <3>2
      <4>2. BlindSeat(b, "post_sb") = {order[IF n = 2 THEN 1 ELSE 2]}
        BY <1>3, <3>2 DEF BlindSeat
      <4> QED BY <1>2, <1>4, <4>1, <4>2
    <3> QED BY <3>1, <3>2
  <2> QED BY <1>4, <2>1 DEF SurfaceIssues
<1>5. CASE line.type = "post_bb"
  <2>1. BlindSeat(b, "post_bb") \in {{}, {line.seat}}
    <3>1. CASE n < 2 \/ BigBlind = 0
      BY <1>3, <3>1 DEF BlindSeat
    <3>2. CASE ~(n < 2 \/ BigBlind = 0)
      <4>1. n <= 2 <=> n = 2
        BY <1>2, <3>2
      <4>2. BlindSeat(b, "post_bb") = {order[(IF n = 2 THEN 1 ELSE 2) + 1]}
        BY <1>3, <3>2 DEF BlindSeat
      <4>3. BlindSeat(b, "post_bb") = {order[IF n = 2 THEN 2 ELSE 3]}
        BY <4>2
      <4> QED BY <1>2, <1>5, <4>1, <4>3
    <3> QED BY <3>1, <3>2
  <2> QED BY <1>5, <2>1 DEF SurfaceIssues
<1>6. CASE line.type = "return_uncalled"
  <2>1. /\ Overage(b.contrib, line.seat) # 0
        /\ line.chips <= Overage(b.contrib, line.seat)
    BY <1>6
  <2> QED BY <1>6, <2>1 DEF SurfaceIssues
<1>7. CASE line.type \notin {"post_sb", "post_bb", "return_uncalled"}
  BY <1>7 DEF SurfaceIssues
<1> QED BY <1>4, <1>5, <1>6, <1>7

(* A line that is no turn: an accepted post, refund or showdown line.      *)
LEMMA LineTurn ==
  ASSUME start \in Starts, BooksInv, engine.order = ActiveOrder(Playing), engine.issues = {},
         engine.eligible = <<>>, NEW line \in Lines, Read(line), line.type \notin Voluntary,
         ~Refused(line, table.stack, RoundOf(engine, line.street)),
         line.type = "post_sb" => line.seat = SmallBlindSeat(Playing),
         line.type = "post_bb" => line.seat = BigBlindSeat(Playing),
         line.type = "return_uncalled" =>
           /\ line.chips \in Nat /\ line.chips > 0
           /\ line.chips = Overage(RoundOf(engine, line.street), line.seat)
  PROVE  /\ engine'.order = ActiveOrder(Playing) /\ engine'.issues = {}
         /\ engine'.eligible = <<>> /\ engine'.street = line.street
         /\ engine'.ready = IF line.street = engine.street THEN engine.ready ELSE FALSE
<1>1. PICK marked : marked = Annotated(annotation, line)
  OBVIOUS
<1>2. /\ marked \in Lines /\ marked.street = line.street /\ marked.seat = line.seat
      /\ marked.type = line.type /\ marked.chips = line.chips
      /\ ~Refused(marked, table.stack, RoundOf(engine, line.street))
  BY <1>1, Marked
<1>3. EngineShape(engine) /\ engine.stack = table.stack
  BY DEF BooksInv
<1>4. engine' = EngineAfter(engine, marked)
  BY <1>1 DEF Read
<1>5. ~Refused(marked, engine.stack, RoundOf(engine, marked.street)) /\ marked.type \notin Voluntary
  BY <1>2, <1>3
<1>6. Passed(EngineAfter(engine, marked), AdvanceStreet(engine, marked.street), engine, marked)
  BY <1>2, <1>3, <1>5, OtherTurn
<1>7. PICK b : b = AdvanceStreet(engine, marked.street) /\ Passed(engine', b, engine, marked)
  BY <1>4, <1>6
<1>8. SurfaceIssues(b, marked) = {}
  BY <1>2, <1>7, SurfaceClean DEF Passed
<1> QED BY <1>2, <1>7, <1>8 DEF Passed

(* Nobody has spoken when the hand is dealt.                               *)
LEMMA TurnInitially == Init => TurnInv
<1> SUFFICES ASSUME Init PROVE TurnInv
  OBVIOUS
<1>1. /\ table.phase = "antes" /\ table.street = "preflop" /\ table.place = OpeningPlace("preflop")
      /\ engine = EngineInit(start)
  BY DEF Init
<1>2. /\ engine.order = ActiveOrder({s \in Seats : InitialStatus(start)[s] = "live"})
      /\ engine.issues = {} /\ engine.ready = FALSE /\ engine.eligible = <<>>
  BY <1>1 DEF EngineInit
<1>3. {s \in Seats : InitialStatus(start)[s] = "live"} = Playing
  BY DEF InitialStatus, Playing
<1> QED BY <1>1, <1>2, <1>3 DEF TurnInv, Open, Fresh, Posting

(* Antes and blinds are no turns.                                          *)
LEMMA TurnPost ==
  ASSUME TableInv, TurnInv, NEW seat, NEW type, NEW due, NEW phase,
         Charged(seat, type, due, phase)
  PROVE  TurnInv'
<1>1. /\ DealerInv /\ BooksInv /\ TableShape(table) /\ Dealt(table) /\ start \in Starts
      /\ seat \in Playing /\ seat \in Seats
      /\ type \in {"post_ante", "post_sb", "post_bb"} /\ due \in Nat
      /\ table.phase \in Posting /\ Posted(seat, type, due, phase)
      /\ phase \in Posting \cup {"betting"}
  BY DEF TableInv, DealerInv, Dealer, Charged, Playing
<1>2. PICK chips : chips = Atmost(due, table.stack[seat])
  OBVIOUS
<1>3. /\ chips \in Nat /\ chips <= table.stack[seat] /\ start' = start
      /\ table'.phase = phase /\ table'.street = table.street
      /\ table'.spoken = table.spoken /\ table'.place = table.place
  <2>1. PostChange(seat, type, due, phase)
    BY <1>1, PostFields
  <2> QED BY <1>2, <2>1 DEF PostChange
<1>4. /\ table.street = "preflop" /\ table.spoken = {}
      /\ engine.street = "preflop" /\ RoundOf(engine, "preflop") = table.put
  BY <1>1 DEF Dealt, BooksInv, InStep, Reached
<1>5. /\ engine.order = ActiveOrder(Playing) /\ engine.issues = {} /\ engine.eligible = <<>>
      /\ engine.ready = FALSE /\ table.place = OpeningPlace("preflop")
  BY <1>1 DEF TurnInv, Open, Posting
<1>6. /\ engine'.order = ActiveOrder(Playing) /\ engine'.issues = {} /\ engine'.eligible = <<>>
      /\ engine'.ready = FALSE /\ engine'.street = "preflop"
  <2>1. CASE chips = 0
    <3>1. engine' = engine
      BY <1>1, <1>2, <2>1, PostNothing
    <3> QED BY <1>4, <1>5, <3>1
  <2>2. CASE chips # 0
    <3> DEFINE line == Line(seat, type, chips)
    <3>1. Read(line)
      BY <1>1, <1>2, <2>2 DEF Posted
    <3>2. type \in ActionTypes /\ type \in Posts /\ type \notin Voluntary
      BY <1>1 DEF ActionTypes, Posts, Voluntary
    <3>3. /\ line \in Lines /\ line.seat = seat /\ line.type = type
          /\ line.chips = chips /\ line.street = "preflop"
      BY <1>1, <1>3, <1>4, <3>2, LineIsLine
    <3> HIDE DEF line
    <3>4. ~Refused(line, table.stack, table.put)
      <4>1. chips = Delta(line, table.put[line.seat])
        BY <1>1, <3>3 DEF Delta, Posts
      <4>2. line.type # "return_uncalled"
        BY <1>1, <3>3
      <4> QED BY <1>3, <3>3, <4>1, <4>2 DEF Refused, Pays
    <3>5. /\ line.type \notin Voluntary /\ line.type # "return_uncalled"
          /\ ~Refused(line, table.stack, RoundOf(engine, line.street))
          /\ line.type = "post_sb" => line.seat = SmallBlindSeat(Playing)
          /\ line.type = "post_bb" => line.seat = BigBlindSeat(Playing)
      BY <1>1, <1>4, <3>2, <3>3, <3>4 DEF Charged
    <3> QED BY <1>1, <1>4, <1>5, <3>1, <3>3, <3>5, LineTurn
  <2> QED BY <2>1, <2>2
<1>7. Playing' = Playing /\ OpeningPlace("preflop")' = OpeningPlace("preflop")
  BY <1>3 DEF Playing, OpeningPlace
<1>8. Fresh'
  BY <1>6 DEF Fresh
<1> QED BY <1>3, <1>4, <1>5, <1>6, <1>7, <1>8 DEF TurnInv, OpeningPlace

(* A refund is no turn, and nobody has to speak after it.                  *)
LEMMA TurnReturn ==
  ASSUME TableInv, TurnInv, ReturnUncalled
  PROVE  TurnInv'
<1>1. /\ DealerInv /\ BooksInv /\ TableShape(table) /\ Solvent(table) /\ Shown(table)
      /\ BettingOver(table) /\ start \in Starts
  BY DEF TableInv, DealerInv, Dealer, ReturnUncalled
<1>2. PICK s, back : Refunded(s, back) /\ Read(Line(s, "return_uncalled", back))
  BY <1>1, RefundFields
<1>3. /\ s \in Seats /\ back \in Nat /\ back > 0 /\ back = Overage(table.put, s)
      /\ back <= table.put[s] /\ table'.phase = "betting" /\ table.street # "showdown"
      /\ start' = start
  BY <1>1, <1>2 DEF Refunded, Shown
<1>4. BettingOver(table')
  <2>1. Lone(table')
    BY <1>1, <1>2, RefundLone
  <2> QED BY <2>1 DEF Lone, BettingOver
<1>5. /\ engine.order = ActiveOrder(Playing) /\ engine.issues = {} /\ engine.eligible = <<>>
      /\ engine.ready \in BOOLEAN
  BY <1>1 DEF TurnInv, Open
<1> DEFINE line == Line(s, "return_uncalled", back)
<1>6. "return_uncalled" \in ActionTypes /\ "return_uncalled" \notin Voluntary
  BY DEF ActionTypes, Voluntary
<1>7. /\ line \in Lines /\ line.seat = s /\ line.type = "return_uncalled"
      /\ line.chips = back /\ line.street = table.street
  BY <1>1, <1>3, <1>6, LineIsLine
<1>8. Read(line)
  BY <1>2
<1> HIDE DEF line
<1>9. RoundOf(engine, line.street) = table.put
  BY <1>1, <1>3, <1>7 DEF BooksInv, InStep
<1>10. ~Refused(line, table.stack, RoundOf(engine, line.street))
  <2>1. back # 0 /\ back <= Overage(table.put, s)
    BY <1>3
  <2> QED BY <1>3, <1>7, <1>9, <2>1 DEF Refused, Refunds
<1>11. /\ engine'.order = ActiveOrder(Playing) /\ engine'.issues = {} /\ engine'.eligible = <<>>
       /\ engine'.ready = IF line.street = engine.street THEN engine.ready ELSE FALSE
  <2>1. /\ line.type \notin Voluntary /\ line.type # "post_sb" /\ line.type # "post_bb"
        /\ line.chips \in Nat /\ line.chips > 0
        /\ line.chips = Overage(RoundOf(engine, line.street), line.seat)
    BY <1>3, <1>6, <1>7, <1>9
  <2> QED BY <1>1, <1>5, <1>7, <1>8, <1>10, <2>1, LineTurn
<1>12. Playing' = Playing
  BY <1>3 DEF Playing
<1> QED BY <1>3, <1>4, <1>5, <1>11, <1>12 DEF TurnInv, Open, Posting

(* The engine is not on a new street yet, and at the showdown nobody has   *)
(* to speak.                                                               *)
LEMMA TurnStreet ==
  ASSUME TableInv, TurnInv, NextStreet
  PROVE  TurnInv'
<1>1. /\ BooksInv /\ TableShape(table) /\ Shown(table) /\ table.phase = "betting"
      /\ engine' = engine /\ start' = start /\ BettingOver(table)
  BY DEF TableInv, DealerInv, Dealer, NextStreet
<1>2. table.street \in BettingStreets /\ table.street # "showdown"
  BY <1>1 DEF Shown, TableShape, Streets, BettingStreets
<1>3. /\ engine.order = ActiveOrder(Playing) /\ engine.issues = {} /\ engine.eligible = <<>>
      /\ engine.ready \in BOOLEAN
  BY <1>1 DEF TurnInv, Open
<1>4. Playing' = Playing /\ \A street : OpeningPlace(street)' = OpeningPlace(street)
  BY <1>1 DEF Playing, OpeningPlace
<1>5. CASE Cardinality(InHand(table)) > 1 /\ table.street \notin {LastStreet, "river"}
  <2>1. table' = [table EXCEPT !.street = NextOf[@], !.put = NoChips, !.price = 0,
                               !.minRaise = BigBlind, !.spoken = {}, !.place = Button]
    BY <1>5 DEF NextStreet
  <2>2. /\ table'.street = NextOf[table.street] /\ table'.place = Button
        /\ table'.spoken = {} /\ table'.phase = "betting"
    BY <1>1, <2>1 DEF TableShape, TableFields
  <2>3. table.street \in {"preflop", "flop", "turn"}
    BY <1>2, <1>5 DEF BettingStreets
  <2>4. table'.street # engine.street /\ table'.street # "preflop"
    <3>1. engine.street \in Reached(table.street)
      BY <1>1, <1>2 DEF BooksInv, InStep
    <3> QED BY <2>2, <2>3, <3>1 DEF Reached, NextOf
  <2>5. OpeningPlace(table'.street) = Button
    BY <2>4 DEF OpeningPlace
  <2>6. Fresh'
    BY <1>1, <2>4 DEF Fresh
  <2>7. table'.phase \notin Posting
    BY <2>2 DEF Posting
  <2>8. (OpeningPlace(table.street))' = Button
    BY <2>4 DEF OpeningPlace
  <2> QED BY <1>1, <1>3, <1>4, <2>2, <2>6, <2>7, <2>8 DEF TurnInv
<1>6. CASE ~(Cardinality(InHand(table)) > 1 /\ table.street \notin {LastStreet, "river"})
  <2>1. table' = [table EXCEPT !.phase = "showdown", !.street = "showdown"]
    BY <1>6 DEF NextStreet
  <2>2. table'.phase = "showdown"
    BY <1>1, <2>1 DEF TableShape, TableFields
  <2> QED BY <1>1, <1>3, <1>4, <2>2 DEF TurnInv, Open, Posting
<1> QED BY <1>5, <1>6

(* At the showdown nobody bets.                                            *)
LEMMA TurnShown ==
  ASSUME TableInv, TurnInv, Showdown
  PROVE  TurnInv'
<1>1. /\ BooksInv /\ TableShape(table) /\ table.street = "showdown" /\ start \in Starts
      /\ table.phase = "showdown" /\ start' = start
  BY DEF TableInv, DealerInv, Dealer, Shown, Showdown
<1>2. PICK s \in InHand(table), type \in {"show", "muck", "collect"} :
        /\ Read(Line(s, type, 0))
        /\ table' = [table EXCEPT !.phase = IF type = "collect" THEN "over" ELSE @]
  BY DEF Showdown
<1>3. /\ s \in Seats /\ table'.phase \in {"showdown", "over"} /\ table.stack[s] \in Nat
  BY <1>1, <1>2 DEF TableFields, TableShape, InHand
<1>4. /\ engine.order = ActiveOrder(Playing) /\ engine.issues = {} /\ engine.eligible = <<>>
      /\ engine.ready \in BOOLEAN
  BY <1>1 DEF TurnInv, Open
<1> DEFINE line == Line(s, type, 0)
<1>5. /\ type \in ActionTypes /\ type \notin Voluntary
      /\ type \notin Posts \cup {"call", "bet", "raise_to", "return_uncalled"}
  BY DEF ActionTypes, Voluntary, Posts
<1>6. line \in Lines /\ line.seat = s /\ line.type = type
  BY <1>1, <1>3, <1>5, LineIsLine
<1>7. Read(line)
  BY <1>2
<1> HIDE DEF line
<1>8. ~Refused(line, table.stack, RoundOf(engine, line.street))
  <2>1. Delta(line, RoundOf(engine, line.street)[line.seat]) = 0
    BY <1>5, <1>6 DEF Delta
  <2> QED BY <1>3, <1>5, <1>6, <2>1 DEF Refused, Pays
<1>9. /\ engine'.order = ActiveOrder(Playing) /\ engine'.issues = {} /\ engine'.eligible = <<>>
      /\ engine'.ready = IF line.street = engine.street THEN engine.ready ELSE FALSE
  <2>1. /\ line.type \notin Voluntary /\ line.type # "post_sb" /\ line.type # "post_bb"
        /\ line.type # "return_uncalled"
    BY <1>5, <1>6 DEF Posts
  <2> QED BY <1>1, <1>4, <1>6, <1>7, <1>8, <2>1, LineTurn
<1>10. Playing' = Playing
  BY <1>1 DEF Playing
<1> QED BY <1>3, <1>4, <1>9, <1>10 DEF TurnInv, Open, Posting

(* Every step keeps the turn.                                              *)
LEMMA TurnKept ==
  TableInv /\ TableInv' /\ PriceInv /\ KoInv /\ KoInv' /\ TurnInv /\ [Next]_vars => TurnInv'
<1> SUFFICES ASSUME TableInv, TableInv', PriceInv, KoInv, KoInv', TurnInv, [Next]_vars
             PROVE  TurnInv'
  OBVIOUS
<1>1. DealerInv
  BY DEF TableInv
<1>2. CASE Post
  BY <1>1, <1>2, PostCharges, TurnPost
<1>3. CASE Act
  BY <1>3, TurnAct
<1>4. CASE ReturnUncalled
  BY <1>4, TurnReturn
<1>5. CASE NextStreet
  BY <1>5, TurnStreet
<1>6. CASE Showdown
  BY <1>6, TurnShown
<1>7. CASE UNCHANGED vars
  <2>1. engine' = engine /\ table' = table /\ start' = start
    BY <1>7 DEF vars
  <2> QED BY <2>1 DEF TurnInv, Open, Fresh, BettingOver, Awaited, InHand, Live, Playing,
                      OpeningPlace
<1> QED BY <1>2, <1>3, <1>4, <1>5, <1>6, <1>7 DEF Next

(* A hand dealt by the rules is never reported: the engine lets act whom   *)
(* the dealer asks, and finds nothing wrong with what he does.             *)
THEOREM LegalHandsPass == Spec => []LegalHandPasses
<1>1. Init => KoInv /\ PriceInv /\ TurnInv
  BY KoInitially, PriceInitially, TurnInitially
<1>2. TableInv /\ TableInv' /\ KoInv /\ PriceInv /\ TurnInv /\ [Next]_vars
        => (KoInv /\ PriceInv /\ TurnInv)'
  BY KoKept, PriceKept, TurnKept
<1>3. TableInv /\ TurnInv => LegalHandPasses
  BY DEF TableInv, BooksInv, TurnInv, LegalHandPasses
<1> QED BY <1>1, <1>2, <1>3, TableIsKept, PTL DEF Spec

(* Of the lines of all seats the engine reports those the rules forbid,    *)
(* and no other.                                                           *)
LEMMA SeatDecided ==
  ASSUME TableInv, PriceInv, KoInv, TurnInv, Open(table),
         NEW s \in Seats, NEW type \in Voluntary, NEW chips \in Nat
  PROVE  LET line == Annotated(annotation, Line(s, type, chips))
         IN /\ line.seat = s /\ line.type = type /\ line.chips = chips
            /\ EngineAfter(engine, line).issues = {} <=> Allowed(table, s, type, chips)
<1>1. PICK line : line = Annotated(annotation, Line(s, type, chips))
  OBVIOUS
<1>2. /\ TableShape(table) /\ EngineShape(engine) /\ table.phase = "betting" /\ ~BettingOver(table)
      /\ table.street \in BettingStreets
  <2>1. TableShape(table) /\ EngineShape(engine)
    BY DEF TableInv, DealerInv, Dealer, BooksInv
  <2>2. table.phase = "betting" /\ ~BettingOver(table)
    BY DEF Open
  <2> QED BY <2>1, <2>2, OnTurn
<1>3. /\ line \in Lines /\ line.seat = s /\ line.type = type /\ line.chips = chips
      /\ line.street = table.street
  <2>1. type \in ActionTypes
    BY DEF Voluntary, ActionTypes
  <2>2. /\ Line(s, type, chips) \in Lines /\ Line(s, type, chips).street = table.street
        /\ Line(s, type, chips).seat = s /\ Line(s, type, chips).type = type
        /\ Line(s, type, chips).chips = chips
    BY <1>2, <2>1, LineIsLine
  <2> QED BY <1>1, <2>2, Marked
<1>4. PICK b : b = Turned(engine, table.street)
  OBVIOUS
<1>5. PICK f : f = EngineAfter(engine, line)
  OBVIOUS
<1>6. TurnTaken(f, b, line)
  <2>1. TurnTaken(EngineAfter(engine, line), Turned(engine, line.street), line)
    BY <1>2, <1>3, VoluntaryTurn
  <2> QED BY <1>3, <1>4, <1>5, <2>1
<1>7. b.issues = {} /\ b.eligible # <<>> /\ Head(b.eligible) = ToSpeak(table)
  BY <1>4, TurnOfSeat
<1>8. CASE s = ToSpeak(table)
  <2>1. OrderIssues(b, line) = {}
    BY <1>3, <1>7, <1>8 DEF OrderIssues
  <2>2. f.issues \subseteq BetIssues(b, line) \cup MoneyIssues
    BY <1>6, <1>7, <2>1 DEF TurnTaken
  <2>3. (BetIssues(b, line) \cup MoneyIssues) \cap OrderKinds = {}
    BY DEF BetIssues, RaiseIssues, MoneyIssues, OrderKinds
  <2>4. f.issues \subseteq OrderKinds <=> Allowed(table, s, type, chips)
    BY <1>1, <1>2, <1>5, <1>8, TurnFollows DEF TurnDecided
  <2> QED BY <1>1, <1>3, <1>5, <2>2, <2>3, <2>4
<1>9. CASE s # ToSpeak(table)
  <2>1. "illegal_actor_order" \in OrderIssues(b, line)
    BY <1>3, <1>7, <1>9 DEF OrderIssues
  <2>2. f.issues # {}
    BY <1>6, <2>1 DEF TurnTaken
  <2>3. ~Allowed(table, s, type, chips)
    BY <1>9 DEF Allowed
  <2> QED BY <1>1, <1>3, <1>5, <2>2, <2>3
<1> QED BY <1>8, <1>9

(* The verdict of the run follows from the invariants.                     *)
LEMMA AllDecided == TableInv /\ PriceInv /\ KoInv /\ TurnInv => EngineDecides
<1> SUFFICES ASSUME TableInv, PriceInv, KoInv, TurnInv,
                    table.phase = "betting", ~BettingOver(table)
             PROVE  \A line \in TriedLines({"call", "bet", "raise_to"}) \cup
                         {Annotated(annotation, Line(s, type, 0)) :
                            s \in Seats, type \in {"fold", "check"}} :
                      EngineAfter(engine, line).issues = {}
                        <=> Allowed(table, line.seat, line.type, line.chips)
  BY DEF EngineDecides
<1> SUFFICES ASSUME NEW line \in TriedLines({"call", "bet", "raise_to"}) \cup
                         {Annotated(annotation, Line(s, type, 0)) :
                            s \in Seats, type \in {"fold", "check"}}
             PROVE  EngineAfter(engine, line).issues = {}
                      <=> Allowed(table, line.seat, line.type, line.chips)
  OBVIOUS
<1>1. Chips \subseteq Nat /\ 0 \in Nat
  BY StreetAssumption DEF Chips
<1>2. PICK s \in Seats, type \in Voluntary, chips \in Nat :
        line = Annotated(annotation, Line(s, type, chips))
  BY <1>1 DEF TriedLines, Voluntary
<1>3. Open(table)
  BY DEF Open
<1> QED BY <1>2, <1>3, SeatDecided

(* The engine passes what the rules allow and nothing else: for every line *)
(* of every seat with every amount, at every turn of every hand.           *)
THEOREM EngineAlwaysDecides == Spec => []EngineDecides
<1>1. Init => KoInv /\ PriceInv /\ TurnInv
  BY KoInitially, PriceInitially, TurnInitially
<1>2. TableInv /\ TableInv' /\ KoInv /\ PriceInv /\ TurnInv /\ [Next]_vars
        => (KoInv /\ PriceInv /\ TurnInv)'
  BY KoKept, PriceKept, TurnKept
<1> QED BY <1>1, <1>2, AllDecided, TableIsKept, PTL DEF Spec
=============================================================================
