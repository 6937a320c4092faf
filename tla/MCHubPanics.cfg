SPECIFICATION Spec
CONSTANTS
  Conns = {c1, c2, c3}
  NoConn = NoConn
  MaxConnections = 2
  SendBuffer = 1
INVARIANT NeverPanics
CHECK_DEADLOCK FALSE
