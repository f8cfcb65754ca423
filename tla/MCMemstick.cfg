SPECIFICATION Spec
CONSTANTS
  c1 = c1
  c2 = c2
  Cards <- TwoCards
  None = None
  CmdRetries = 2
  MaxIo = 2
  MaxChanges = 1
  CanRemove = TRUE
  SlowTasklet = FALSE
INVARIANTS ReqAlive OwnCard TriesBounded
CHECK_DEADLOCK FALSE
PROPERTIES MemstickAnswers
