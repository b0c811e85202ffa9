CONSTANTS
  u1 = u1
  u2 = u2
  i1 = i1
  i2 = i2
  i3 = i3
  Imports = {i1, i3}
  Users = {u1, u2}
  Owner <- OwnerOf
  Threads = {t1, t2}
  Admins = {a1}
  MaxPerUser = 1
  None = None
  FaultKinds = {}
  MaxRequests = 3
  MaxFaults = 0
  MaxStops = 1
  MaxWebCrashes = 0

SPECIFICATION FairSpec

CHECK_DEADLOCK FALSE

PROPERTY QueuedServed
