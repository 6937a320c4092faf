SPECIFICATION FairSpec
CONSTANTS
  Conns = {c1, c2}
  NoConn = NoConn
  Sids = {s1}
  NoSid = NoSid
  Nicks = {a, b}
  NoNick = NoNick
  Names = {r}
  Lobby = lobby
INVARIANTS RecordMirrors RecordKeepsLast LoneReconnectRestores
PROPERTIES RestoresExactly NoRecordLeak
CHECK_DEADLOCK FALSE
