CONSTANTS
  u1 = u1
  u2 = u2
  i1 = i1
  i2 = i2
  i3 = i3
  Imports = {i1, i2}
  Users = {u1}
  Owner <- OwnerOf
  Threads = {t1, t2}
  Admins = {a1, a2}
  MaxPerUser = 1
  None = None
  FaultKinds = {"refused", "lost", "resent"}
  MaxRequests = 2
  MaxFaults = 2
  MaxStops = 1
  MaxWebCrashes = 1

SPECIFICATION Spec

CHECK_DEADLOCK FALSE

INVARIANT TypeOK
