SPECIFICATION Spec
CONSTANTS
  a = a
  aa = aa
  Names = {a, p}
  Marked <- MCMarked
  Lobby = lobby
  NoRoom = NoRoom
  Private = {p}
  MaxReconnects = 1
  MaxSockets = 3
  MaxTyped = 3
INVARIANTS TypeOK OfflineIsExplained GreetsFirst PageAgrees AstrayOnlyEncrypted
CHECK_DEADLOCK FALSE
