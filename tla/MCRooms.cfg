SPECIFICATION Spec
CONSTANTS
  c1 = c1  c2 = c2  ip1 = ip1
  Clients = {c1, c2}
  Names = {n1, n2}
  Lobby = lobby
  RoomIds = {rLobby, r1, r2}
  LobbyRoom = rLobby
  NoRoom = NoRoom  NoName = NoName  NoClient = NoClient
  IPs = {ip1}
  IpOf <- OneIp
  Sids = {}
  Kinds = {FALSE}
  NoSid = NoSid
  MaxLobbyMembers = 1
  MaxPublicRoomMembers = 2
  MaxPrivateRoomMembers = 1
  MaxJoinedRooms = 1
  MaxRoomsPerIP = 1
  MaxRoomsPerSession = 1
  MaxTotalRooms = 1
  RoomCreateRateIP = 0
  RoomCreateRateSession = 0
INVARIANTS TrackerExact CapsHold SeatsAgree NoGhosts QuotaOvershootBounded
PROPERTY KeepsQuota
SYMMETRY Symmetry
