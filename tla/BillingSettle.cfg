CONSTANTS
  i1 = i1
  i2 = i2
  Imports = {i1, i2}
  Threads = {t1, t2}
  InitialBeans = 12
  TailRuns = TRUE
  FeatureSets <- OneModule
  ImageCounts = {0, 9}
  MaxRequests = 4
  MaxFailures = 1
  MaxWebCrashes = 1

SPECIFICATION Spec

CHECK_DEADLOCK FALSE

SYMMETRY ImportSymmetry
INVARIANT TypeOK
INVARIANT LedgerBalanced
INVARIANT ChargedOnce
