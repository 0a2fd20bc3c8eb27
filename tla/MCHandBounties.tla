--------------------------- MODULE MCHandBounties ----------------------------
(* Small instance of HandBounties for TLC.  The pots do not depend on the  *)
(* order of the seats, so the players are numbered by what they committed: *)
(* one pot, three nested pots, and two pots whose chips do not divide by   *)
(* the number of winners.                                                  *)
EXTENDS HandBounties, TLC

Played(shape, strengths, folded, away, heroes) ==
  LET quit == folded \cup away
      short == {p \in Players : 0 < shape[p] /\ shape[p] < shape[1] /\ p \notin quit}
  IN {[start |-> [p \in Players |-> shape[p] + IF p \in allIn THEN 0 ELSE 2],
       committed |-> shape, folded |-> folded, away |-> away,
       strength |-> strength, hero |-> hero, paid |-> None] :
        hero \in heroes,
        allIn \in {short, {p \in Players \ quit : shape[p] > 0} \ {1}, Players \ quit},
        strength \in {f \in [Players -> 1..strengths] : \A p \in Players :
                        shape[p] = 0 \/ p \in quit => f[p] = 1}}

SmallDeals ==
  Played(<<1, 1, 1, 0, 0>>, 2, {}, {}, {1}) \cup Played(<<1, 1, 1, 0, 0>>, 2, {2}, {3}, {1})
  \cup Played(<<3, 3, 2, 1, 0>>, 3, {}, {}, {1}) \cup Played(<<3, 3, 2, 1, 0>>, 3, {3}, {}, {1, 2})
  \cup Played(<<3, 3, 2, 1, 0>>, 2, {2}, {4}, {1})
  \cup Played(<<2, 2, 2, 1, 1>>, 2, {}, {}, {1, 4}) \cup Played(<<2, 2, 2, 1, 1>>, 2, {2}, {}, {1})

Report(amounts, told, broken) == [amounts |-> amounts, told |-> told, broken |-> broken]
SomeReports ==
  {Report("both", TRUE, FALSE), Report("both", TRUE, TRUE), Report("both", FALSE, FALSE),
   Report("collects", FALSE, FALSE), Report("summary", TRUE, FALSE),
   Report("misread", FALSE, FALSE), Report("none", FALSE, FALSE)}

SomeEnvelopes ==
  {[sort |-> 5, cents |-> 200, weight |-> 1], [sort |-> 6, cents |-> 150, weight |-> 2],
   [sort |-> 9, cents |-> 50, weight |-> 5]}
=============================================================================
