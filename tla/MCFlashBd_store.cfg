SPECIFICATION Spec
CONSTANTS
  INVALID = INVALID
  BLANK = BLANK
  JUNK = JUNK
  ERASED = ERASED
  GARBLED = GARBLED
  v1 = v1
  v2 = v2
  Values <- MCValues
  ZoneCnt = 2
  PhyBlockCnt = 3
  LogBlockCnt = 1
  PageCnt = 2
  PageSize = 2
  CisBlock = 0
  Requests <- ZoneRequests
  InitMedia <- BlankCard
  Faults <- NoFaults
  MaxFaults = 0
  CanLosePower = FALSE
  CanRemount = TRUE
PROPERTIES
  StoresData
