SPECIFICATION Spec
CONSTANTS
  Players = {1, 2, 3, 4, 5}
  None = None
  Deals <- SmallDeals
  Reports <- SomeReports
  Envelopes <- SomeEnvelopes
  MaxRecorded = 4
INVARIANT KnownBigKoIsCounted
CHECK_DEADLOCK FALSE
