CONSTANTS
  i1 = i1
  i2 = i2
  Imports = {i1, i2}
  Threads = {t1}
  InitialBeans = 11
  TailRuns = FALSE
  FeatureSets <- EitherOrBoth
  ImageCounts = {0}
  MaxRequests = 6
  MaxFailures = 0
  MaxWebCrashes = 1

SPECIFICATION Spec

CHECK_DEADLOCK FALSE

SYMMETRY ImportSymmetry
INVARIANT NoOverdraft
INVARIANT FrozenExplained
