CONSTANTS
  Numbers <- TwoPrompts
  Urls = {u1}
  TailRuns = TRUE
  MaxRequests = 2
  MaxFailures = 1
  MaxRuns = 2

SPECIFICATION FairSpec

CHECK_DEADLOCK FALSE

INVARIANT TypeOK
INVARIANT ImageTypesUnique
INVARIANT ImagesOrdered
INVARIANT PaidIsStored
PROPERTY DoneIsComplete
PROPERTY RunContract
PROPERTY RunEnds
