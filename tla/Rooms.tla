------------------------------- MODULE Rooms -------------------------------
(***************************************************************************)
(* The room registry of the chat server: RoomManager and Room (room.go),   *)
(* the creation quota of RoomCreateTracker (limits.go), and the two-sided  *)
(* membership kept by Client.rooms and Room.members (hub.go), changed by   *)
(* every connection's reader goroutine, by the hub goroutine that removes  *)
(* dead connections, and by the evictor goroutine.                         *)
(*                                                                         *)
(* One step is one critical section (rm.mu, r.mu, t.mu), joined with the   *)
(* code around it that touches only the goroutine's own data: Client.rooms *)
(* is written by the connection's own reader alone, and by nobody once the *)
(* reader has ended.  The gaps between critical sections are where the     *)
(* interleavings of this module come from.                                 *)
(*                                                                         *)
(* A room name is looked up, and the *Room found is used later: RoomIds    *)
(* are the *Room objects, so a room evicted and created again under the    *)
(* same name is another object.                                            *)
(***************************************************************************)
EXTENDS Integers, FiniteSets

CONSTANTS
    Clients,               \* connections (one Client struct each)
    Names,                 \* names a user may give a room (validateRoomName)
    Lobby,                 \* "#lobby"
    RoomIds,               \* *Room objects: bounds the rooms ever created
    LobbyRoom,             \* the object ensureLobby makes
    NoRoom, NoName, NoClient,
    IPs, IpOf,             \* clientIP of each connection
    Sids, NoSid,           \* session ids, and the empty one
    Kinds,                 \* which rooms are created: FALSE public, TRUE private
    MaxLobbyMembers, MaxPublicRoomMembers, MaxPrivateRoomMembers,
    MaxJoinedRooms, MaxRoomsPerIP, MaxRoomsPerSession, MaxTotalRooms,
    RoomCreateRateIP, RoomCreateRateSession

AllNames == Names \cup {Lobby}

ASSUME ConstantsAssumption ==
    /\ IsFiniteSet(Clients)
    /\ IsFiniteSet(RoomIds)
    /\ IsFiniteSet(Names)
    /\ Lobby \notin Names
    /\ LobbyRoom \in RoomIds
    /\ NoRoom \notin RoomIds
    /\ NoName \notin AllNames
    /\ NoClient \notin Clients
    /\ NoSid \notin Sids
    /\ IpOf \in [Clients -> IPs]
    /\ Kinds \subseteq BOOLEAN

\* envInt refuses negative values (limits.go), so every limit is a natural.
ASSUME LimitsAssumption ==
    {MaxLobbyMembers, MaxPublicRoomMembers, MaxPrivateRoomMembers,
     MaxJoinedRooms, MaxRoomsPerIP, MaxRoomsPerSession, MaxTotalRooms,
     RoomCreateRateIP, RoomCreateRateSession} \subseteq Nat

VARIABLES
    rooms,        \* RoomManager.rooms: name -> object, or NoRoom
    born,         \* objects allocated so far
    info,         \* the fields of a Room that never change
    members,      \* Room.members
    quiet,        \* objects whose LastActivity is older than RoomIdleTTL
    aged,         \* objects whose CreatedAt is older than RoomMaxAge
    joined,       \* Client.rooms
    ipActive, sessActive,     \* RoomCreateTracker: live rooms per creator
    ipCreates, sessCreates,   \* RoomCreateTracker: grants inside the window
    peak, ipPeak, \* history: most creations ever in flight at once, of all
                  \* connections and of those of one address
    pc,           \* where each connection's goroutine stands
    job,          \* the locals of the handler it runs
    hub,          \* the locals of removeClient
    ev            \* the locals of evictStale; it holds rm.mu unless asleep

regVars   == <<rooms, born, info>>
trackVars == <<ipActive, sessActive, ipCreates, sessCreates>>
peakVars  == <<peak, ipPeak>>
clockVars == <<quiet, aged>>
vars == <<regVars, members, clockVars, joined, trackVars, peakVars, pc, job,
          hub, ev>>

Steps == {"idle", "quota", "make", "lookup", "enter", "leave",
          "closing", "removing", "gone"}

Job == [name : AllNames \cup {NoName}, room : RoomIds \cup {NoRoom},
        encrypted : BOOLEAN, sid : Sids \cup {NoSid}, roomLeft : BOOLEAN]
Removal == [client : Clients \cup {NoClient}, todo : SUBSET AllNames,
            room : RoomIds \cup {NoRoom}]
Scan == [at : {"sleep", "scan", "age", "delete"}, todo : SUBSET AllNames,
         name : AllNames \cup {NoName}, empty : BOOLEAN]

NoJob == [name |-> NoName, room |-> NoRoom, encrypted |-> FALSE,
          sid |-> NoSid, roomLeft |-> FALSE]
HubIdle == [client |-> NoClient, todo |-> {}, room |-> NoRoom]
EvIdle  == [at |-> "sleep", todo |-> {}, name |-> NoName, empty |-> FALSE]

RoomInfo == [name : AllNames, encrypted : BOOLEAN,
             ip : IPs, sid : Sids \cup {NoSid}]

-----------------------------------------------------------------------------
(* Readings of the state *)

Registered  == {r \in RoomIds : \E n \in AllNames : rooms[n] = r}
UserCreated(r) == r # LobbyRoom
UserRooms   == {r \in Registered : UserCreated(r)}
CreatedByIp(ip)  == {r \in UserRooms : info[r].ip = ip}
CreatedBySid(s)  == {r \in UserRooms : info[r].sid = s}
From(ip)    == {c \in Clients : IpOf[c] = ip}
Making(cs)  == {c \in cs : pc[c] = "make"}
InFlight(cs) == {c \in cs : pc[c] \in {"quota", "make"}}
AtLeast(m, n) == IF m < n THEN n ELSE m
RmFree == ev.at = "sleep"

\* LimitConfig.memberCap
memberCap(n, encrypted) ==
    IF n = Lobby THEN MaxLobbyMembers
    ELSE IF encrypted THEN MaxPrivateRoomMembers ELSE MaxPublicRoomMembers

FullOffByOne(r) ==
    Cardinality(members[r]) > memberCap(info[r].name, info[r].encrypted)

\* The test of Room.Join.
Full(r) ==
    Cardinality(members[r]) >= memberCap(info[r].name, info[r].encrypted)

\* slidingCounter.allow seen from outside: a limit of 0 always grants and
\* records nothing.
RateOpen(used, limit) == limit = 0 \/ used < limit
RateTake(used, limit) == IF limit = 0 THEN used ELSE used + 1

-----------------------------------------------------------------------------
Init ==
    /\ rooms = [n \in AllNames |-> IF n = Lobby THEN LobbyRoom ELSE NoRoom]
    /\ born = {LobbyRoom}
    /\ \E ip \in IPs :
         info = [r \in RoomIds |-> [name |-> Lobby, encrypted |-> FALSE,
                                    ip |-> ip, sid |-> NoSid]]
    /\ members = [r \in RoomIds |-> {}]
    /\ quiet = {} /\ aged = {}
    /\ joined = [c \in Clients |-> {}]
    /\ ipActive = [ip \in IPs |-> 0] /\ sessActive = [s \in Sids |-> 0]
    /\ ipCreates = [ip \in IPs |-> 0] /\ sessCreates = [s \in Sids |-> 0]
    /\ peak = 0 /\ ipPeak = [ip \in IPs |-> 0]
    /\ pc = [c \in Clients |-> "idle"]
    /\ job = [c \in Clients |-> NoJob]
    /\ hub = HubIdle
    /\ ev = EvIdle

Goto(c, step, j) ==
    /\ pc' = [pc EXCEPT ![c] = step]
    /\ job' = [job EXCEPT ![c] = j]

Finish(c) == Goto(c, "idle", NoJob)

-----------------------------------------------------------------------------
(* Creating a room: handleCreateRoom, RoomManager.Create *)

\* rm.CountUserCreated(), the argument of CanCreate: it is stale from here on.
\* Only its comparison with MaxTotalRooms is kept.
CountUserCreated(c, n, encrypted, sid) ==
    /\ pc[c] = "idle" /\ RmFree
    /\ Goto(c, "quota", [NoJob EXCEPT !.name = n, !.encrypted = encrypted,
                          !.sid = sid,
                          !.roomLeft = Cardinality(UserRooms) < MaxTotalRooms])
    /\ peak' = AtLeast(peak, Cardinality(InFlight(Clients)'))
    /\ ipPeak' = [ipPeak EXCEPT ![IpOf[c]] =
                     AtLeast(@, Cardinality(InFlight(From(IpOf[c]))'))]
    /\ UNCHANGED <<regVars, members, clockVars, joined, trackVars, hub, ev>>

QuotaOpenUnchecked(c) == TRUE

\* The three quota tests of CanCreate, before it takes a slot of any window.
QuotaOpen(c) ==
    LET ip == IpOf[c]
        s  == job[c].sid
    IN  /\ job[c].roomLeft
        /\ ipActive[ip] < MaxRoomsPerIP
        /\ s # NoSid => sessActive[s] < MaxRoomsPerSession

\* CanCreate takes the ip's slot before it asks for the session's: a refusal
\* by the session's window leaves the ip's slot spent.
CanCreate(c) ==
    LET ip   == IpOf[c]
        s    == job[c].sid
        ipOk == QuotaOpen(c) /\ RateOpen(ipCreates[ip], RoomCreateRateIP)
        sOk  == s # NoSid => RateOpen(sessCreates[s], RoomCreateRateSession)
    IN  /\ pc[c] = "quota"
        /\ ipCreates' = IF ipOk
             THEN [ipCreates EXCEPT ![ip] = RateTake(@, RoomCreateRateIP)]
             ELSE ipCreates
        /\ sessCreates' = IF ipOk /\ sOk /\ s # NoSid
             THEN [sessCreates EXCEPT ![s] = RateTake(@, RoomCreateRateSession)]
             ELSE sessCreates
        /\ IF ipOk /\ sOk THEN Goto(c, "make", [job[c] EXCEPT !.roomLeft = FALSE])
           ELSE Finish(c)
        /\ UNCHANGED <<regVars, members, clockVars, joined, ipActive,
                       sessActive, peakVars, hub, ev>>

\* A private room with no password, one too long, or a bcrypt error.
CreateRefused(c) ==
    /\ pc[c] = "make" /\ job[c].encrypted
    /\ Finish(c)
    /\ UNCHANGED <<regVars, members, clockVars, joined, trackVars, peakVars,
                   hub, ev>>

CreateExists(c) ==
    /\ pc[c] = "make" /\ RmFree
    /\ rooms[job[c].name] # NoRoom
    /\ Finish(c)
    /\ UNCHANGED <<regVars, members, clockVars, joined, trackVars, peakVars,
                   hub, ev>>

RegisterIpOnly(ip, s) ==
    /\ ipActive' = [ipActive EXCEPT ![ip] = @ + 1]
    /\ UNCHANGED <<sessActive, ipCreates, sessCreates>>

\* RoomCreateTracker.Register
Register(ip, s) ==
    /\ ipActive' = [ipActive EXCEPT ![ip] = @ + 1]
    /\ sessActive' = IF s = NoSid THEN sessActive
                     ELSE [sessActive EXCEPT ![s] = @ + 1]
    /\ UNCHANGED <<ipCreates, sessCreates>>

\* The locked part of Create; handleCreateRoom then calls joinRoom.
Create(c, r) ==
    LET n == job[c].name
    IN  /\ pc[c] = "make" /\ RmFree
        /\ rooms[n] = NoRoom
        /\ r \in RoomIds \ born
        /\ rooms' = [rooms EXCEPT ![n] = r]
        /\ born' = born \cup {r}
        /\ info' = [info EXCEPT ![r] = [name |-> n, ip |-> IpOf[c],
                        encrypted |-> job[c].encrypted, sid |-> job[c].sid]]
        /\ Register(IpOf[c], job[c].sid)
        /\ Goto(c, "lookup", [NoJob EXCEPT !.name = n])
        /\ UNCHANGED <<members, clockVars, joined, peakVars, hub, ev>>

-----------------------------------------------------------------------------
(* Joining and leaving: handleJoin, handleHello, joinRoom, handlePart *)

\* handleJoin finds the room and accepts the password, then calls joinRoom,
\* which looks the name up again.
handleJoin(c, n) ==
    /\ pc[c] = "idle" /\ RmFree
    /\ rooms[n] # NoRoom
    /\ Goto(c, "lookup", [NoJob EXCEPT !.name = n])
    /\ UNCHANGED <<regVars, members, clockVars, joined, trackVars, peakVars,
                   hub, ev>>

\* handleHello calls joinRoom for the lobby, or for each restored name
\* whether or not a room of that name is left.
handleHello(c, n) ==
    /\ pc[c] = "idle"
    /\ Goto(c, "lookup", [NoJob EXCEPT !.name = n])
    /\ UNCHANGED <<regVars, members, clockVars, joined, trackVars, peakVars,
                   hub, ev>>

\* joinRoom under c.mu: nothing to do when the name is there, refused when
\* the client is in too many rooms, otherwise the name is added.
Reserve(c, n) ==
    IF Cardinality(joined[c]) < MaxJoinedRooms THEN {n} \ joined[c] ELSE {}

JoinLookup(c) ==
    LET n == job[c].name
    IN  /\ pc[c] = "lookup" /\ RmFree
        /\ IF rooms[n] = NoRoom \/ Reserve(c, n) = {}
           THEN Finish(c) /\ UNCHANGED joined
           ELSE /\ joined' = [joined EXCEPT ![c] = @ \cup Reserve(c, n)]
                /\ Goto(c, "enter", [job[c] EXCEPT !.room = rooms[n]])
        /\ UNCHANGED <<regVars, members, clockVars, trackVars, peakVars, hub, ev>>

UndoForgotten(names, n) == names

Undo(names, n) == names \ {n}

\* Room.Join on the object found above, and joinRoom's undo when it is full.
JoinEnter(c) ==
    LET r == job[c].room
    IN  /\ pc[c] = "enter"
        /\ IF Full(r)
           THEN /\ joined' = [joined EXCEPT ![c] = Undo(@, job[c].name)]
                /\ UNCHANGED <<members, quiet>>
           ELSE /\ members' = [members EXCEPT ![r] = @ \cup {c}]
                /\ quiet' = quiet \ {r}
                /\ UNCHANGED joined
        /\ Finish(c)
        /\ UNCHANGED <<regVars, aged, trackVars, peakVars, hub, ev>>

\* handlePart refuses the lobby; partRoom drops the name, then looks it up.
PartLookup(c, n) ==
    /\ pc[c] = "idle" /\ RmFree
    /\ n # Lobby /\ n \in joined[c]
    /\ joined' = [joined EXCEPT ![c] = @ \ {n}]
    /\ IF rooms[n] = NoRoom
       THEN UNCHANGED <<pc, job>>
       ELSE Goto(c, "leave", [NoJob EXCEPT !.name = n, !.room = rooms[n]])
    /\ UNCHANGED <<regVars, members, clockVars, trackVars, peakVars, hub, ev>>

\* Room.Part
Part(c, r) ==
    /\ members' = [members EXCEPT ![r] = @ \ {c}]
    /\ quiet' = quiet \ {r}

PartLeave(c) ==
    /\ pc[c] = "leave"
    /\ Part(c, job[c].room)
    /\ Finish(c)
    /\ UNCHANGED <<regVars, aged, joined, trackVars, peakVars,
                   hub, ev>>

-----------------------------------------------------------------------------
(* The end of a connection: readPump's defer, Hub.removeClient *)

\* ReadMessage fails between two messages; the reader waits for the hub.
Disconnect(c) ==
    /\ pc[c] = "idle"
    /\ Goto(c, "closing", NoJob)
    /\ UNCHANGED <<regVars, members, clockVars, joined, trackVars, peakVars,
                   hub, ev>>

NamesToPartNotLobby(c) == joined[c] \ {Lobby}

\* The snapshot of c.rooms that removeClient works through.
NamesToPart(c) == joined[c]

HubTake(c) ==
    /\ pc[c] = "closing" /\ hub.client = NoClient
    /\ hub' = [HubIdle EXCEPT !.client = c, !.todo = NamesToPart(c)]
    /\ Goto(c, "removing", NoJob)
    /\ UNCHANGED <<regVars, members, clockVars, joined, trackVars, peakVars, ev>>

HubLookupSticks(n) ==
    /\ n \in hub.todo /\ hub.room = NoRoom /\ RmFree /\ rooms[n] # NoRoom
    /\ hub' = [hub EXCEPT !.todo = @ \ {n}, !.room = rooms[n]]
    /\ UNCHANGED <<regVars, members, clockVars, joined, trackVars, peakVars,
                   pc, job, ev>>

HubLookup(n) ==
    /\ n \in hub.todo /\ hub.room = NoRoom /\ RmFree
    /\ hub' = [hub EXCEPT !.todo = @ \ {n}, !.room = rooms[n]]
    /\ UNCHANGED <<regVars, members, clockVars, joined, trackVars, peakVars,
                   pc, job, ev>>

HubPart ==
    /\ hub.room # NoRoom
    /\ Part(hub.client, hub.room)
    /\ hub' = [hub EXCEPT !.room = NoRoom]
    /\ UNCHANGED <<regVars, aged, joined, trackVars, peakVars,
                   pc, job, ev>>

\* The end of removeClient: nobody reads Client.rooms any more.
HubDone ==
    /\ hub.client # NoClient /\ hub.todo = {} /\ hub.room = NoRoom
    /\ Goto(hub.client, "gone", NoJob)
    /\ joined' = [joined EXCEPT ![hub.client] = {}]
    /\ hub' = HubIdle
    /\ UNCHANGED <<regVars, members, clockVars, trackVars, peakVars, ev>>

-----------------------------------------------------------------------------
(* The evictor: evictLoop, evictStale.  rm.mu is held from start to end. *)

EvictStart ==
    /\ ev.at = "sleep"
    /\ ev' = [EvIdle EXCEPT !.at = "scan",
                            !.todo = {n \in AllNames : rooms[n] \in UserRooms}]
    /\ UNCHANGED <<regVars, members, clockVars, joined, trackVars, peakVars,
                   pc, job, hub>>

\* r.MemberCount() == 0, under r.mu alone.
EvictCount(n) ==
    /\ ev.at = "scan" /\ n \in ev.todo
    /\ ev' = [at |-> "age", todo |-> ev.todo \ {n}, name |-> n,
              empty |-> members[rooms[n]] = {}]
    /\ UNCHANGED <<regVars, members, clockVars, joined, trackVars, peakVars,
                   pc, job, hub>>

StaleWhenIdle(r) == ev.empty /\ r \in quiet

Stale(r) == (ev.empty /\ r \in quiet) \/ r \in aged

\* LastActivity is read with no lock: a Join or Part since EvictCount may or
\* may not have been seen; Sub uses one machine word of the time, so the
\* value read is the old or the new one.
EvictAge ==
    LET r == rooms[ev.name]
    IN  /\ ev.at = "age"
        /\ ev' = IF Stale(r)
                 THEN [ev EXCEPT !.at = "delete"]
                 ELSE [ev EXCEPT !.at = "scan", !.name = NoName, !.empty = FALSE]
        /\ UNCHANGED <<regVars, members, clockVars, joined, trackVars, peakVars,
                   pc, job, hub>>

DecrementNever(n) == n

Decrement(n) == IF n > 0 THEN n - 1 ELSE n

\* RoomCreateTracker.Unregister
Unregister(ip, s) ==
    /\ ipActive' = [ipActive EXCEPT ![ip] = Decrement(@)]
    /\ sessActive' = IF s = NoSid THEN sessActive
                     ELSE [sessActive EXCEPT ![s] = Decrement(@)]
    /\ UNCHANGED <<ipCreates, sessCreates>>

EvictDelete ==
    LET r == rooms[ev.name]
    IN  /\ ev.at = "delete"
        /\ rooms' = [rooms EXCEPT ![ev.name] = NoRoom]
        /\ Unregister(info[r].ip, info[r].sid)
        /\ ev' = [ev EXCEPT !.at = "scan", !.name = NoName, !.empty = FALSE]
        /\ UNCHANGED <<born, info, members, clockVars, joined, peakVars, pc, job,
                       hub>>

EvictDone ==
    /\ ev.at = "scan" /\ ev.todo = {}
    /\ ev' = EvIdle
    /\ UNCHANGED <<regVars, members, clockVars, joined, trackVars, peakVars,
                   pc, job, hub>>

-----------------------------------------------------------------------------
(* Time.  evictStale reads the clock once, before it takes rm.mu: what ages *)
(* during a scan is old for the next one, so the clock waits for the scan.  *)
(* Nobody reads the ages of the lobby or of a room out of the registry, and *)
(* LastActivity matters only to an empty room: every Join and Part sets it. *)

RoomTurnsQuiet(r) ==
    /\ RmFree /\ r \in UserRooms \ quiet /\ members[r] = {}
    /\ quiet' = quiet \cup {r}
    /\ UNCHANGED <<regVars, members, aged, joined, trackVars, peakVars,
                   pc, job, hub, ev>>

RoomTurnsAged(r) ==
    /\ RmFree /\ r \in UserRooms \ aged
    /\ aged' = aged \cup {r}
    /\ UNCHANGED <<regVars, members, quiet, joined, trackVars, peakVars,
                   pc, job, hub, ev>>

IpWindowSlides(ip) ==
    /\ ipCreates[ip] > 0
    /\ ipCreates' = [ipCreates EXCEPT ![ip] = @ - 1]
    /\ UNCHANGED <<regVars, members, clockVars, joined, ipActive, sessActive,
                   sessCreates, peakVars, pc, job, hub, ev>>

SessWindowSlides(s) ==
    /\ sessCreates[s] > 0
    /\ sessCreates' = [sessCreates EXCEPT ![s] = @ - 1]
    /\ UNCHANGED <<regVars, members, clockVars, joined, ipActive, sessActive,
                   ipCreates, peakVars, pc, job, hub, ev>>

-----------------------------------------------------------------------------
CreateSteps(c) ==
    \/ \E n \in Names, e \in Kinds, s \in Sids \cup {NoSid} :
         CountUserCreated(c, n, e, s)
    \/ CanCreate(c)
    \/ CreateRefused(c)
    \/ CreateExists(c)
    \/ \E r \in RoomIds : Create(c, r)

JoinSteps(c) ==
    \/ \E n \in AllNames : handleJoin(c, n)
    \/ \E n \in AllNames : handleHello(c, n)
    \/ JoinLookup(c)
    \/ JoinEnter(c)
    \/ \E n \in Names : PartLookup(c, n)
    \/ PartLeave(c)
    \/ Disconnect(c)

HubSteps ==
    \/ \E c \in Clients : HubTake(c)
    \/ \E n \in AllNames : HubLookup(n)
    \/ HubPart
    \/ HubDone

EvictSteps ==
    \/ EvictStart
    \/ \E n \in AllNames : EvictCount(n)
    \/ EvictAge
    \/ EvictDelete
    \/ EvictDone

ClockSteps ==
    \/ \E r \in RoomIds : RoomTurnsQuiet(r)
    \/ \E r \in RoomIds : RoomTurnsAged(r)
    \/ \E ip \in IPs : IpWindowSlides(ip)
    \/ \E s \in Sids : SessWindowSlides(s)

Next ==
    \/ \E c \in Clients : CreateSteps(c) \/ JoinSteps(c)
    \/ HubSteps
    \/ EvictSteps
    \/ ClockSteps

Spec == Init /\ [][Next]_vars

\* The evictor's ticker never stops and Hub.Run loops for ever: each keeps
\* taking the step it has.  Nothing is assumed of the connections.  rm.mu is a
\* sync.RWMutex: a reader waiting for it gets it once the writer is done, even
\* though the next scan will want it again.
FairSpec == Spec /\ WF_vars(EvictSteps) /\ SF_vars(HubSteps)

-----------------------------------------------------------------------------
(* Properties *)

TypeOK ==
    /\ rooms \in [AllNames -> RoomIds \cup {NoRoom}]
    /\ born \subseteq RoomIds
    /\ info \in [RoomIds -> RoomInfo]
    /\ members \in [RoomIds -> SUBSET Clients]
    /\ quiet \subseteq RoomIds /\ aged \subseteq RoomIds
    /\ joined \in [Clients -> SUBSET AllNames]
    /\ ipActive \in [IPs -> Nat] /\ sessActive \in [Sids -> Nat]
    /\ ipCreates \in [IPs -> Nat] /\ sessCreates \in [Sids -> Nat]
    /\ peak \in Nat /\ ipPeak \in [IPs -> Nat]
    /\ pc \in [Clients -> Steps]
    /\ job \in [Clients -> Job]
    /\ hub \in Removal
    /\ ev \in Scan

\* The quota counters of RoomCreateTracker are exactly the numbers of live
\* rooms their creators have, whatever order creations, failed creations and
\* evictions come in: no creator is locked out by a room that is gone, none
\* holds a room that is not counted, and Unregister's guard against negative
\* counters never hides a lost increment.
TrackerExact ==
    /\ \A ip \in IPs : ipActive[ip] = Cardinality(CreatedByIp(ip))
    /\ \A s \in Sids : sessActive[s] = Cardinality(CreatedBySid(s))

\* No interleaving of joins overfills a room (Room.Join tests and adds under
\* r.mu) nor puts a client in more than MaxJoinedRooms rooms (joinRoom).
CapsHold ==
    /\ \A c \in Clients : Cardinality(joined[c]) <= MaxJoinedRooms
    /\ \A r \in RoomIds :
         Cardinality(members[r]) <= memberCap(info[r].name, info[r].encrypted)

\* A connection that is seated in the object registered under a name has that
\* name in its own Client.rooms, unless it is just leaving it: otherwise it
\* would receive a room's messages with no way to part from it (partRoom
\* returns early) and removeClient would never take it out.
SeatIsKnown ==
    \A n \in AllNames, c \in Clients :
        (rooms[n] # NoRoom /\ c \in members[rooms[n]]) =>
            \/ n \in joined[c]
            \/ pc[c] = "leave" /\ job[c].room = rooms[n]

\* Between two commands every name in Client.rooms stands for a seat the
\* client holds in some object of that name: the one registered, or, when the
\* room was evicted around it, the object it joined.
SeatForEveryName ==
    \A c \in Clients : pc[c] = "idle" =>
        \A n \in joined[c] :
            \E r \in born : info[r].name = n /\ c \in members[r]

\* The two sides of a membership, Client.rooms and Room.members, agree as far as
\* the code relies on it, though a join, a part, an eviction and a new room of
\* the same name each touch them in several critical sections.
SeatsAgree == SeatIsKnown /\ SeatForEveryName

\* A connection that removeClient has finished with sits in no registered
\* room, although eviction and creation go on while it works through its
\* snapshot: a broadcast to a registered room never reaches a dead client.
NoGhosts ==
    \A c \in Clients, n \in AllNames :
        (pc[c] = "gone" /\ rooms[n] # NoRoom) => c \notin members[rooms[n]]

\* Rooms taken, against a limit that any of the creations then in flight may
\* have found open.
OvershootOf(taken, bound) == taken > 0 => taken < bound

\* The quota tests and the insertion of Create are separate critical sections
\* with bcrypt between them, so a quota can be passed by several creations at
\* once: it is exceeded by less than the most creations, of the server or of
\* the address, that were ever in flight at once.  Where creations come one at
\* a time, the limit is kept.
QuotaOvershootBounded ==
    /\ OvershootOf(Cardinality(UserRooms) + Cardinality(Making(Clients)),
                   MaxTotalRooms + peak)
    /\ \A ip \in IPs :
         OvershootOf(Cardinality(CreatedByIp(ip)) + Cardinality(Making(From(ip))),
                     MaxRoomsPerIP + ipPeak[ip])

\* The rooms and the creations as RoomQuota sees them.
NamedRooms == {rooms[n] : n \in Names} \ {NoRoom}
Makers     == [r \in RoomIds |-> [ip |-> info[r].ip, sid |-> info[r].sid]]

Claim(c) ==
    CASE pc[c] = "quota" -> [at  |-> IF job[c].roomLeft THEN "counted" ELSE "full",
                             sid |-> job[c].sid]
      [] pc[c] = "make"  -> [at |-> "granted", sid |-> job[c].sid]
      [] OTHER           -> [at |-> "none", sid |-> NoSid]

Claims == [c \in Clients |-> Claim(c)]
RatesLimited == RoomCreateRateIP > 0 \/ RoomCreateRateSession > 0

Quota == INSTANCE RoomQuota WITH
    live <- NamedRooms, maker <- Makers, claim <- Claims, Windowed <- RatesLimited

\* CanCreate, which asks counters that Register and Unregister keep under a
\* lock of their own, grants and refuses as if it had counted the registered
\* rooms of the address and of the session at that moment: nobody is let in by
\* a counter that lags behind, nobody is refused for a room that is gone.
KeepsQuota == Quota!Spec

\* A room past RoomMaxAge is taken out of the registry, however its members
\* come and go: evictStale never skips it for ever.
AgedEvicted ==
    \A r \in RoomIds \ {LobbyRoom} :
        r \in aged /\ r \in Registered ~> r \notin Registered

\* A connection whose reader has ended is eventually removed, although the
\* hub serves one at a time and each lookup waits for the evictor.
RemovalCompletes ==
    \A c \in Clients : pc[c] = "closing" ~> pc[c] = "gone"

=============================================================================
