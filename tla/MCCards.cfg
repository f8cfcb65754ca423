SPECIFICATION CardsSpec
CONSTANTS
  Zones <- TwoZones
  ZoneSize = 2
  INVALID = INVALID
  Shapes <- SomeShapes
  MaxRequests = 2
  MaxBusy = 1
  MaxFaults = 2
  Media <- SomeMedia
  HostCaps = {"par4", "par8"}
  PageSize = 3
  MaxAttributes = 2
  MaxErrors = 2
  MaxOpens = 2
  MaxSleeps = 1
  Unknown = INVALID
  MaxSlots = 2
  OneThread = TRUE
  MaxSets = 5
  SdRequests <- SdAsks
  BlkSz = 2
  DmaTSize = 2
  FifoSize = 4
  MaxSdRequests = 2
  MaxSdFaults = 1
  LateTasklet = FALSE
INVARIANTS
  TypeOK
  FreeOnce
  EraseStateTrue
  PagesInStep
  PartsRight
  IdentityKept
PROPERTIES
  OncePerRound
  KeepsDevice
  EveryRequestEnds
CHECK_DEADLOCK FALSE
