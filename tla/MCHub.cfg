SPECIFICATION FairSpec
CONSTANTS
  Conns = {c1, c2}
  NoConn = NoConn
  MaxConnections = 1
  SendBuffer = 2
INVARIANTS TypeOK AdmissionCounts ClosedOnlyWhileRemoving
PROPERTIES FailedConnRemoved BroadcastReturns
CHECK_DEADLOCK FALSE
