SPECIFICATION Spec
CONSTANTS
  ts = ts
  hh = hh
  solo = solo
  b1 = b1
  None = None
  Files = {ts, hh, solo}
  Bundles = {b1}
  Workers = {w1, w2}
  Readers = {r}
  BundleOf <- OneBundleOf
  DependsOn <- PairDependsOn
  FileOrder <- OneFileOrder
  BundleOrder <- OneBundleOrder
  MaxAttempts = 2
  MaxCrashes = 1
  MaxReads = 1
SYMMETRY WorkerSymmetry
INVARIANTS
  RunnerInv
  ExclusiveClaim
  NoLockCycle
  OneFinalizeInsert
  DrainCompletes
PROPERTY KeepsPromise
