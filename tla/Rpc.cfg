CONSTANTS
  Call = {c1, c2, c3}
  NoResult = NoResult
  Impatient = {c3}
  Reconnectable = TRUE
  MaxConnections = 2
SPECIFICATION FairSpec
INVARIANTS TypeOK NoStrayAnswer
PROPERTIES CallsServed SentCallsReturn
CHECK_DEADLOCK FALSE
