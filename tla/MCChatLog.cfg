SPECIFICATION Spec
CONSTANTS
  Conns = {c1}
  Bots = {b1}
  Server = Server
  MaxLines = 2
  Versions = {v1, v2}
  NoVersion = NoVersion
  MaxRestarts = 1
INVARIANTS NothingMissed SeenIsKept LiveInOrder
PROPERTY AnnouncedOnce
SYMMETRY Symmetry
CHECK_DEADLOCK FALSE
