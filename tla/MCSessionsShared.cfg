SPECIFICATION Spec
CONSTANTS
  Conns = {c1, c2}
  NoConn = NoConn
  Sids = {s1}
  NoSid = NoSid
  Nicks = {a, b}
  NoNick = NoNick
  Names = {r}
  Lobby = lobby
INVARIANT ReconnectRestores

CHECK_DEADLOCK FALSE
