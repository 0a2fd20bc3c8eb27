SPECIFICATION Spec
CONSTANTS
  ts = ts
  hh = hh
  third = third
  solo = solo
  b1 = b1
  b2 = b2
  None = None
  Files = {ts, hh, third, solo}
  Bundles = {b1, b2}
  Workers = {w1, w2}
  BundleOf <- TwoBundleOf
  DependsOn <- ChainDependsOn
  FileOrder <- MemberOrder
  MaxAttempts = 2
  MaxCrashes = 0
INVARIANT FinalizeFailureFailsBundle
