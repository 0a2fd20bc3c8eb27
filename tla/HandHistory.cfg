SPECIFICATION HistorySpec
CONSTANTS
  MaxSeats = 2
  Button = 1
  SittingOut = {}
  SmallBlind = 1
  BigBlind = 2
  Ante = 0
  Deals <- TwoDeals
  HistoryLines <- AnyLines
  LineBound = 3
INVARIANTS
  MoneyKept
  SameMoney
  SameVerdict
CHECK_DEADLOCK FALSE
