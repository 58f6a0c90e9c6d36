CONSTANTS
  Call = {c1, c2}
  NoResult = NoResult
  Impatient = {}
  Reconnectable = FALSE
  MaxConnections = 1
SPECIFICATION FairSpec
PROPERTIES EveryCallReturns
CHECK_DEADLOCK FALSE
