--------------------------- MODULE MCTrackerStore ---------------------------
(* Small instances of TrackerStore for TLC: tournament 1, whose history    *)
(* was saved once before the final table and once after it, and tournament *)
(* 2; two uploads that bring them in different ways.                       *)
EXTENDS FtDashboard

CONSTANTS Moscow, NoId

Text(t, at, max, seats, stack, kos, attempts, opportunities, bust) ==
  [tournament |-> t, at |-> at, max |-> max, seats |-> seats, stack |-> stack, bb |-> 10,
   kos |-> kos, attempts |-> attempts, opportunities |-> opportunities,
   bust |-> bust]
Ko(seat, share, pot, exact) == [seat |-> seat, share |-> share, pot |-> pot, exact |-> exact]

SmallInfo == <<
  Text(1, 1, 5, 5, 100, {}, 0, 1, FALSE),
  Text(1, 2, 5, 4, 200, {Ko(2, 100, 1, TRUE)}, 1, 1, FALSE),
  Text(1, 3, 9, 6, 800, {Ko(3, 50, 2, TRUE), Ko(4, 100, 1, FALSE)}, 2, 3, TRUE),
  Text(2, 2, 5, 5, 100, {}, 0, 0, FALSE),
  Text(2, 2, 9, 2, 3800, {Ko(1, 100, 1, TRUE)}, 1, 1, FALSE)>>

SmallEconomics == <<
  [buyin |-> 25, payout |-> 10, prize |-> 0, place |-> 6, at |-> 1],
  [buyin |-> 25, payout |-> 200, prize |-> 150, place |-> 2, at |-> 2]>>

Summary(t) == [kind |-> "ts", tournament |-> t, hands |-> {}]
History(t, hs) == [kind |-> "hh", tournament |-> t, hands |-> hs]
File(path, text) == [path |-> path, doc |-> text]
Short == History(1, {1, 2})
Long == History(1, {1, 2, 3})
Rest == History(1, {3})
Part == History(2, {5})
Second == History(2, {4, 5})
Junk == [kind |-> "other", tournament |-> NoId, hands |-> {}]
Headless == [kind |-> "hh", tournament |-> NoId, hands |-> {1}]

SmallFiles == {
  File(1, Summary(1)), File(2, Long), File(3, Short), File(4, Short), File(5, Rest),
  File(6, Junk), File(7, Headless), File(8, Summary(2)), File(9, Second), File(10, Part)}
Of(paths) == {f \in SmallFiles : f.path \in paths}

(* The uploads bring tournament 1 with a longer and a shorter history, or  *)
(* with two halves of one, a copy and a conflict beside them; or the same  *)
(* pair is uploaded twice.                                                 *)
SmallUploads == {
  <<Of({1, 2, 6, 7}), Of({1, 3, 8, 9})>>,
  <<Of({1, 3, 4, 9}), Of({1, 5, 8, 9, 10})>>,
  <<Of({1, 2}), Of({1, 2, 7})>>}

(* The files of the instance are such as the theorems about boundary and   *)
(* dashboard speak of.                                                     *)
ASSUME SmallFilesAreStretches == PlayedInStretches
ASSUME SmallDataAreRoomData == RoomData
=============================================================================
