--------------------------- MODULE MCHandHistory ----------------------------
(* Small instance of HandHistory for TLC: two players, every order of      *)
(* three streets, lines of one or two chips.  The lines left out read like *)
(* one that is kept: post_dead like post_sb, show and muck like collect.   *)
EXTENDS HandHistory

TwoDeals == {<<2, 3>>, <<1, 2>>}

AnyLines ==
  {line \in [street : {"preflop", "flop", "showdown"}, seat : Seats,
             type : ActionTypes \ {"post_dead", "show", "muck"}, chips : {1, 2},
             allIn : {FALSE}] :
     line.type \in {"fold", "check", "collect"} => line.chips = 1}
=============================================================================
