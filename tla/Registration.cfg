CONSTANTS
  t1 = t1
  t2 = t2
  a1 = a1
  a2 = a2
  c1 = c1
  c2 = c2
  g1 = g1
  g2 = g2
  Threads <- MCThreads
  Accounts <- MCAccounts
  Codes <- MCCodes
  InitialCodes <- MCInitialCodes
  Groups <- MCGroups
  None = None
  PoolSize = 2
  DailyLimit = 1
  MaxRequests = 3

SPECIFICATION FairSpec

CHECK_DEADLOCK FALSE

INVARIANT OneAccountPerCode
INVARIANT KeysUnshared
INVARIANT StockKept
INVARIANT SendLimit
PROPERTY RequestsEnd
