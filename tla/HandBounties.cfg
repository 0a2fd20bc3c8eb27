SPECIFICATION Spec
CONSTANTS
  Players = {1, 2, 3, 4, 5}
  None = None
  Deals <- SmallDeals
  Reports <- SomeReports
  Envelopes <- SomeEnvelopes
  MaxRecorded = 4
INVARIANTS
  ExactIsTruth
  KnownHandSettles
  KnockoutIsFair
  BustsAreReal
  TruthIsDecoded
CHECK_DEADLOCK FALSE
