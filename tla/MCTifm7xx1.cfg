SPECIFICATION PartsSpec
CONSTANTS
  NONE = NONE
  ms = ms
  sd = sd
  Sockets <- TwoSockets
  Types <- OneType
  MaxChanges = 2
  MaxEjects = 1
  MaxSleeps = 1
  MaxEvents = 1
  SharedLine = TRUE
  RegisterFails = TRUE
  CanRemove = TRUE
  ChangeOnResume = TRUE
  SlowPowerUp = TRUE
  EjectOnRemove = FALSE
INVARIANTS
  TypeOK
  SlotRegistered
  IrqComesBack
  ChangeQueued
  CompletionLives
  NothingLeft
CHECK_DEADLOCK FALSE
PROPERTIES
  LiveCardSeen
  LiveRemoveEnds
