----------------------------- MODULE RoomQuota -----------------------------
(***************************************************************************)
(* What the quota on rooms promises (RoomCreateTracker, limits.go, and     *)
(* handleCreateRoom, client.go).  There are no counters here: whoever asks *)
(* for a room is judged by the rooms that are there, and their makers.     *)
(* The total is judged first, and the verdict kept; the address and the    *)
(* session are judged later; the room is built later still.  A creation    *)
(* is refused for a quota that is full, and for nothing else unless        *)
(* creations are limited in rate too.                                      *)
(***************************************************************************)
EXTENDS Integers, FiniteSets

CONSTANTS
    Clients, IPs, IpOf, Sids, NoSid, RoomIds,
    MaxRoomsPerIP, MaxRoomsPerSession, MaxTotalRooms,
    Windowed       \* creations are limited in rate

VARIABLES
    live,          \* the rooms that users made and that are there
    maker,         \* who made each room
    claim          \* how far each client's creation is, and for which session

quotaVars == <<live, maker, claim>>

NoClaim == [at |-> "none", sid |-> NoSid]

Init ==
    /\ live = {}
    /\ \E ip \in IPs : maker = [r \in RoomIds |-> [ip |-> ip, sid |-> NoSid]]
    /\ claim = [c \in Clients |-> NoClaim]

Moves(c, to) == claim' = [claim EXCEPT ![c] = to]

\* The address and the session s of c may each have one room more.
Fits(c, s) ==
    /\ Cardinality({r \in live : maker[r].ip = IpOf[c]}) < MaxRoomsPerIP
    /\ s # NoSid => Cardinality({r \in live : maker[r].sid = s}) < MaxRoomsPerSession

CountRooms(c, s) ==
    /\ claim[c] = NoClaim
    /\ Moves(c, [at  |-> IF Cardinality(live) < MaxTotalRooms THEN "counted" ELSE "full",
                 sid |-> s])
    /\ UNCHANGED <<live, maker>>

Grant(c) ==
    /\ claim[c].at = "counted" /\ Fits(c, claim[c].sid)
    /\ Moves(c, [at |-> "granted", sid |-> claim[c].sid])
    /\ UNCHANGED <<live, maker>>

Refuse(c) ==
    /\ \/ claim[c].at = "full"
       \/ claim[c].at = "counted" /\ (~Fits(c, claim[c].sid) \/ Windowed)
    /\ Moves(c, NoClaim)
    /\ UNCHANGED <<live, maker>>

\* The name is taken, or the password is not accepted.
GiveUp(c) ==
    /\ claim[c].at = "granted"
    /\ Moves(c, NoClaim)
    /\ UNCHANGED <<live, maker>>

Build(c, r) ==
    /\ claim[c].at = "granted" /\ r \notin live
    /\ live' = live \cup {r}
    /\ maker' = [maker EXCEPT ![r] = [ip |-> IpOf[c], sid |-> claim[c].sid]]
    /\ Moves(c, NoClaim)

Evict(r) ==
    /\ live' = live \ {r}
    /\ UNCHANGED <<maker, claim>>

\* Every step moves a claim, or takes a room away.
Next ==
    \/ \E c \in Clients :
         /\ claim'[c] # claim[c]
         /\ \/ \E s \in Sids \cup {NoSid} : CountRooms(c, s)
            \/ Grant(c) \/ Refuse(c) \/ GiveUp(c)
            \/ \E r \in RoomIds : Build(c, r)
    \/ \E r \in live \ live' : Evict(r)

Spec == Init /\ [][Next]_quotaVars
=============================================================================
