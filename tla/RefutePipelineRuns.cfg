CONSTANTS
  i1 = i1
  i2 = i2
  Imports = {i1}
  Threads = {t1}
  InitialBeans = 1
  TailRuns = FALSE
  FeatureSets <- AllModules
  ImageCounts = {0, 9}
  MaxRequests = 1
  MaxFailures = 0
  MaxWebCrashes = 0

SPECIFICATION Spec

CHECK_DEADLOCK FALSE

INVARIANT HoldResolved
