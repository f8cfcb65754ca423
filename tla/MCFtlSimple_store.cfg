SPECIFICATION PartsSpec
CONSTANTS
  ZoneCnt = 1
  PhyPerZone = 3
  LogPerZone = 2
  PageCnt = 3
  BITS_PER_LONG = 1
  Specials <- SomeSpecials
  Written <- FirstOnly
  Shapes <- SomeShapes
  MaxRequests = 2
  MaxTroubles = 1
  SrcFaults = TRUE
  INVALID = INVALID
  None = None
  Devs = {a, b}
  MaxAsks = 2
  MaxSleeps = 1
  CanRemove = TRUE
  Keys = {1, 2}
  Nodes = {n1, n2, n3}
  Threads = {t1, t2}
  MaxCount = 2
  MaxOps = 5
INVARIANTS OneUser MarkIsTrue DataKept ReadsRight DevicesServed MapKept
CHECK_DEADLOCK FALSE
PROPERTIES RequestsEnd
