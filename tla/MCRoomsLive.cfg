SPECIFICATION FairSpec
CONSTANTS
  c1 = c1  c2 = c2  ip1 = ip1
  Clients = {c1, c2}
  Names = {n1}
  Lobby = lobby
  RoomIds = {rLobby, r1}
  LobbyRoom = rLobby
  NoRoom = NoRoom  NoName = NoName  NoClient = NoClient
  IPs = {ip1}
  IpOf <- OneIp
  Sids = {s1}
  Kinds = {TRUE}
  NoSid = NoSid
  MaxLobbyMembers = 1
  MaxPublicRoomMembers = 1
  MaxPrivateRoomMembers = 1
  MaxJoinedRooms = 2
  MaxRoomsPerIP = 1
  MaxRoomsPerSession = 1
  MaxTotalRooms = 1
  RoomCreateRateIP = 1
  RoomCreateRateSession = 1
PROPERTIES AgedEvicted RemovalCompletes
