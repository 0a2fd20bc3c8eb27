SPECIFICATION Spec
CONSTANTS
  MaxSeats = 5
  Button = 3
  Hero = 4
  SittingOut = {1}
  SmallBlind = 1
  BigBlind = 2
  Ante = 1
  Starts <- SmallStacks
  LastStreet = "flop"
  MaxLevel = 7
INVARIANTS
  LegalHandPasses
  SnapshotIsTerminal
  RunoutHasSnapshot
  ReplaysAgree
  EngineDecides
  KnockoutsAreConfrontations
CHECK_DEADLOCK FALSE
