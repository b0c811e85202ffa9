CONSTANTS
  u1 = u1
  u2 = u2
  i1 = i1
  i2 = i2
  i3 = i3
  Imports = {i1, i2}
  Users = {u1}
  Owner <- OwnerOf
  Threads = {t1, t2}
  Admins = {a1, a2}
  MaxPerUser = 1
  None = None
  FaultKinds = {}
  MaxRequests = 3
  MaxFaults = 0
  MaxStops = 2
  MaxWebCrashes = 0

SPECIFICATION Spec

CHECK_DEADLOCK FALSE

INVARIANT SlotsPaired
INVARIANT DedupSound
INVARIANT QueuedIsTracked
INVARIANT GeneratingHasRunner
PROPERTY RunsOnlyUnfinished
