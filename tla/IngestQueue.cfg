SPECIFICATION Spec
CONSTANTS
  ts = ts
  hh = hh
  third = third
  solo = solo
  b1 = b1
  b2 = b2
  None = None
  Files = {ts, hh, third, solo}
  Bundles = {b1, b2}
  Workers = {w1, w2}
  BundleOf <- TwoBundleOf
  DependsOn <- ForkDependsOn
  FileOrder <- MemberOrder
  MaxAttempts = 2
  MaxCrashes = 1
INVARIANTS
  OutcomeInv
  PairOrder
  FinalizeBarrier
  AttemptLedger
  DependentsFollow
  HonestTerminal
  NothingForgotten
  LogReplaysFiles
PROPERTIES
  TerminalIsFinal
  KeepsPromise
