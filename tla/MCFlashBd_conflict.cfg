SPECIFICATION Spec
CONSTANTS
  INVALID = INVALID
  BLANK = BLANK
  JUNK = JUNK
  ERASED = ERASED
  GARBLED = GARBLED
  v1 = v1
  v2 = v2
  Values <- MCValues
  ZoneCnt = 1
  PhyBlockCnt = 4
  LogBlockCnt = 2
  PageCnt = 2
  PageSize = 1
  CisBlock = 0
  Requests <- SmallRequests
  InitMedia <- BlankCard
  Faults <- NoFaults
  MaxFaults = 0
  CanLosePower = TRUE
  CanRemount = FALSE
PROPERTIES
  MountResolvesConflicts
