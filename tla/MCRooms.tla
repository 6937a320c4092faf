------------------------------ MODULE MCRooms ------------------------------
(* Small instances of Rooms for TLC. *)
EXTENDS Rooms, TLC

CONSTANTS c1, c2, ip1

\* Every connection comes from the one address.
OneIp == [c \in Clients |-> ip1]

Symmetry == Permutations(Clients) \cup Permutations(Names)
              \cup Permutations(RoomIds \ {LobbyRoom})
=============================================================================
