SPECIFICATION XdCardSpec
CONSTANTS
  INVALID = INVALID
  BLANK = BLANK
  JUNK = JUNK
  ERASED = ERASED
  GARBLED = GARBLED
  v1 = v1
  v2 = v2
  Values <- MCValues
  ZoneCnt = 1
  PhyBlockCnt = 4
  LogBlockCnt = 1
  PageCnt = 2
  PageSize = 1
  CisBlock = 0
  Requests <- SmallRequests
  InitMedia <- BlankCard
  Faults <- NoFaults
  MaxFaults = 0
  CanLosePower = TRUE
  CanRemount = TRUE
INVARIANTS
  CleanIsErased
  WriteTargetErased
  XdAlive
  XdOneAtATime
  XdComesToRest
CONSTANTS
  XdCards = {c1, c2, c3}
  XdCmds <- SomeXdCmds
  NoCard = NoCard
  XdRetries = 1
  MaxCmds = 2
  MaxPages = 2
  MaxBlocks = 1
  MaxXdIo = 1
  MaxXdEvents = 2
  ThreadFails = FALSE
CHECK_DEADLOCK FALSE
