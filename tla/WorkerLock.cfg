CONSTANTS
  p1 = p1
  p2 = p2
  p3 = p3
  n1 = n1
  n2 = n2
  n3 = n3
  Processes <- MCProcesses
  Inodes <- MCInodes
  None = None
  MaxStops = 2

SPECIFICATION Spec

CHECK_DEADLOCK FALSE

INVARIANT LockIsOfRunner
INVARIANT WorkersCounted
