------------------------------ MODULE Sessions ------------------------------
(***************************************************************************)
(* Session persistence across connections (session.go): the records of     *)
(* SessionManager, written by a connection's reader through handleHello,   *)
(* handleNick, joinRoom, partRoom and handleLogout (client.go, hub.go), by *)
(* the hub goroutine through removeClient, and by cleanupLoop.             *)
(*                                                                         *)
(* A step is one critical section of sm.mu with the reader's own work      *)
(* around it.  A connection says hello once, as web/app.js does, so a      *)
(* SessionData object is named by the connection whose hello made it; the  *)
(* pointer that CanRestore returns is such a name; handleHello reads its    *)
(* nick and its rooms after the unlock, each in a step of its own.         *)
(* A browser keeps its session id, so a reconnect, or a second tab, is a   *)
(* new connection with an old id.                                          *)
(*                                                                         *)
(* Of the rooms only what sessions see is here: joining a room succeeds or *)
(* fails (gone, full).                                                     *)
(***************************************************************************)
EXTENDS Integers, FiniteSets

CONSTANTS
    Conns,             \* connections: bounds the reconnects
    NoConn,
    Sids, NoSid,
    Nicks, NoNick,
    Names, Lobby       \* rooms other than the lobby, and the lobby

AllNames == Names \cup {Lobby}

ASSUME SessionsAssumption ==
    /\ NoConn \notin Conns /\ NoSid \notin Sids /\ NoNick \notin Nicks
    /\ Lobby \notin Names

VARIABLES
    sessions,     \* sm.sessions: sid -> record, or NoConn
    rec,          \* SessionData: Nick, Rooms, LiveClient # nil, and the age
                  \* of LastActivity: 0 within the 30s grace, 1 past it,
                  \* 2 past the 5min after which it is purged
    pc,           \* where a connection stands
    lost,         \* connections the browser has lost; the server learns later
    sid, nick, rooms,   \* c.sessionID, c.nick, c.rooms
    wanted,       \* the nick its hello carries
    found,        \* the record CanRestore returned
    todo,         \* the rooms its hello has read, and has still to join
    hub,          \* the connection removeClient is working on
    shared,       \* history: ids that two connections used at the same time
    left          \* history: nick and rooms of the last connection removed

selfVars == <<sid, nick, rooms>>
connVars == <<pc, lost, selfVars, wanted, found, todo>>
histVars == <<shared, left>>
vars == <<sessions, rec, connVars, hub, histVars>>

ConnSteps == {"off", "hello", "restore", "reading", "storing", "fresh", "named",
              "joining", "live", "closing", "cleared", "stored", "gone"}

NoRecord == [nick |-> NoNick, rooms |-> {}, live |-> FALSE, age |-> 0]
NothingLeft == [nick |-> NoNick, rooms |-> {}]

Init ==
    /\ sessions = [s \in Sids |-> NoConn]
    /\ rec = [c \in Conns |-> NoRecord]
    /\ pc = [c \in Conns |-> "off"]
    /\ lost = {}
    /\ sid = [c \in Conns |-> NoSid]
    /\ nick = [c \in Conns |-> NoNick]
    /\ rooms = [c \in Conns |-> {}]
    /\ wanted = [c \in Conns |-> NoNick]
    /\ found = [c \in Conns |-> NoConn]
    /\ todo = [c \in Conns |-> {}]
    /\ hub = NoConn
    /\ shared = {}
    /\ left = [s \in Sids |-> NothingLeft]

Goto(c, step) == pc' = [pc EXCEPT ![c] = step]

\* wanted and found are not used after the hello's own steps.
DropLocals(c) ==
    /\ wanted' = [wanted EXCEPT ![c] = NoNick]
    /\ found' = [found EXCEPT ![c] = NoConn]

Present(s) == s # NoSid /\ sessions[s] # NoConn

-----------------------------------------------------------------------------
(* The operations of SessionManager *)

\* A record that is neither in the map nor found by a hello is garbage.
Kept(records, ss, ff) ==
    [o \in Conns |->
        IF (\E s \in Sids : ss[s] = o) \/ (\E c \in Conns : ff[c] = o)
        THEN records[o] ELSE NoRecord]

Upsert(s, c, n, rs) ==
    /\ sessions' = [sessions EXCEPT ![s] = c]
    /\ rec' = Kept([rec EXCEPT ![c] = [nick |-> n, rooms |-> rs,
                                       live |-> TRUE, age |-> 0]],
                   sessions', found')

\* The record registered under s, if any, with LastActivity = now.
Touched(s) ==
    IF Present(s) THEN [rec EXCEPT ![sessions[s]].age = 0] ELSE rec

UpdateNick(s, n) ==
    rec' = IF Present(s) THEN [Touched(s) EXCEPT ![sessions[s]].nick = n] ELSE rec

UpdateRoomsNever(s, rs) == rec' = Touched(s)

UpdateRooms(s, rs) ==
    rec' = IF Present(s) THEN [Touched(s) EXCEPT ![sessions[s]].rooms = rs] ELSE rec

ClearLive(s) ==
    rec' = IF Present(s) THEN [Touched(s) EXCEPT ![sessions[s]].live = FALSE] ELSE rec

CanRestoreNever(s) == Present(s) /\ rec[sessions[s]].live

CanRestore(s) ==
    Present(s) /\ ~rec[sessions[s]].live /\ rec[sessions[s]].age = 0

-----------------------------------------------------------------------------
(* handleHello *)

Online(s) == {c \in Conns : sid[c] = s /\ pc[c] \notin {"off", "gone"}}

\* The first message arrives; it carries an id and perhaps a nick.
Connect(c, s, n) ==
    /\ pc[c] = "off"
    /\ Goto(c, "hello")
    /\ sid' = [sid EXCEPT ![c] = s]
    /\ wanted' = [wanted EXCEPT ![c] = n]
    /\ shared' = IF Online(s) = {} THEN shared ELSE shared \cup {s}
    /\ UNCHANGED <<sessions, rec, lost, nick, rooms, found, todo, hub, left>>

HelloCheck(c) ==
    /\ pc[c] = "hello"
    /\ IF CanRestore(sid[c])
       THEN Goto(c, "restore") /\ found' = [found EXCEPT ![c] = sessions[sid[c]]]
       ELSE Goto(c, "fresh") /\ UNCHANGED found
    /\ UNCHANGED <<sessions, rec, lost, selfVars, wanted, todo, hub, histVars>>

\* The nick of a restored client: its record's, unless its hello has one.
RestoredNick(c) ==
    IF wanted[c] # NoNick THEN wanted[c] ELSE rec[found[c]].nick

LobbyWhenEmpty(rs) == IF rs = {} THEN {Lobby} ELSE rs

\* The restored branch.  The record found is read after CanRestore has let go of
\* sm.mu: its nick, then the rooms that Upsert is given.
HelloRead(c) ==
    /\ pc[c] = "restore"
    /\ nick' = [nick EXCEPT ![c] = RestoredNick(c)]
    /\ Goto(c, "reading")
    /\ UNCHANGED <<sessions, rec, lost, sid, rooms, wanted, found, todo, hub, histVars>>

HelloRooms(c) ==
    /\ pc[c] = "reading"
    /\ todo' = [todo EXCEPT ![c] = rec[found[c]].rooms]
    /\ Goto(c, "storing")
    /\ UNCHANGED <<sessions, rec, lost, selfVars, wanted, found, hub, histVars>>

\* Upsert, and the rooms to join: the record found is out of the map by now, so
\* that nobody writes it any more.
HelloRestore(c) ==
    /\ pc[c] = "storing"
    /\ DropLocals(c)
    /\ Upsert(sid[c], c, nick[c], todo[c])
    /\ todo' = [todo EXCEPT ![c] = LobbyWhenEmpty(rec[found[c]].rooms)]
    /\ Goto(c, "joining")
    /\ UNCHANGED <<lost, selfVars, hub, histVars>>

HelloFresh(c) ==
    /\ pc[c] = "fresh"
    /\ UNCHANGED found
    /\ Upsert(sid[c], c, NoNick, {})
    /\ todo' = [todo EXCEPT ![c] = {Lobby}]
    /\ Goto(c, IF wanted[c] = NoNick THEN "joining" ELSE "named")
    /\ UNCHANGED <<lost, selfVars, wanted, hub, histVars>>

HelloNick(c) ==
    /\ pc[c] = "named"
    /\ nick' = [nick EXCEPT ![c] = wanted[c]]
    /\ UpdateNick(sid[c], wanted[c])
    /\ Goto(c, "joining")
    /\ DropLocals(c)
    /\ UNCHANGED <<sessions, lost, sid, rooms, todo, hub, histVars>>

\* joinRoom: when it fails the record is not told.
HelloJoin(c, n) ==
    /\ pc[c] = "joining" /\ n \in todo[c]
    /\ todo' = [todo EXCEPT ![c] = @ \ {n}]
    /\ \/ /\ rooms' = [rooms EXCEPT ![c] = @ \cup {n}]
          /\ UpdateRooms(sid[c], rooms[c] \cup {n})
       \/ UNCHANGED <<rooms, rec>>
    /\ UNCHANGED <<sessions, pc, lost, sid, nick, wanted, found, hub, histVars>>

HelloDone(c) ==
    /\ pc[c] = "joining" /\ todo[c] = {}
    /\ Goto(c, "live")
    /\ UNCHANGED <<sessions, rec, lost, selfVars, wanted, found, todo, hub, histVars>>

-----------------------------------------------------------------------------
(* Commands.  readPump calls Touch for each; the updates below do the same, *)
(* so Touch is an action of its own for the commands with no update.        *)

CommandFrame == UNCHANGED <<lost, wanted, found, todo, hub, histVars>>

Touch(c) ==
    /\ pc[c] = "live"
    /\ rec' = Touched(sid[c])
    /\ UNCHANGED <<sessions, pc, selfVars>> /\ CommandFrame

SetNick(c, n) ==
    /\ pc[c] = "live"
    /\ nick' = [nick EXCEPT ![c] = n]
    /\ UpdateNick(sid[c], n)
    /\ UNCHANGED <<sessions, pc, sid, rooms>> /\ CommandFrame

JoinRoom(c, n) ==
    /\ pc[c] = "live" /\ n \notin rooms[c]
    /\ rooms' = [rooms EXCEPT ![c] = @ \cup {n}]
    /\ UpdateRooms(sid[c], rooms[c] \cup {n})
    /\ UNCHANGED <<sessions, pc, sid, nick>> /\ CommandFrame

PartRoom(c, n) ==
    /\ pc[c] = "live" /\ n \in rooms[c] \ {Lobby}
    /\ rooms' = [rooms EXCEPT ![c] = @ \ {n}]
    /\ UpdateRooms(sid[c], rooms[c] \ {n})
    /\ UNCHANGED <<sessions, pc, sid, nick>> /\ CommandFrame

\* handleLogout: the rooms stay joined.
Logout(c) ==
    /\ pc[c] = "live" /\ sid[c] # NoSid
    /\ nick' = [nick EXCEPT ![c] = NoNick]
    /\ sid' = [sid EXCEPT ![c] = NoSid]
    /\ sessions' = [sessions EXCEPT ![sid[c]] = NoConn]
    /\ rec' = Kept(rec, sessions', found)
    /\ UNCHANGED <<pc, rooms>> /\ CommandFrame

\* The browser loses its connection, or closes it; what it sent before is
\* still read.
Lose(c) ==
    /\ pc[c] \notin {"off", "closing", "cleared", "stored", "gone"}
    /\ lost' = lost \cup {c}
    /\ UNCHANGED <<sessions, rec, pc, selfVars, wanted, found, todo, hub, histVars>>

\* ReadMessage fails: a close or an error from the peer, or no pong for 60s.
Disconnect(c) ==
    /\ pc[c] = "live" /\ c \in lost
    /\ Goto(c, "closing")
    /\ UNCHANGED <<sessions, rec, selfVars>> /\ CommandFrame

-----------------------------------------------------------------------------
(* Hub.removeClient, after the rooms: ClearLive, UpdateRooms, UpdateNick *)

HubClear(c) ==
    /\ pc[c] = "closing" /\ hub = NoConn
    /\ hub' = c
    /\ IF sid[c] = NoSid
       THEN Goto(c, "stored") /\ UNCHANGED rec
       ELSE Goto(c, "cleared") /\ ClearLive(sid[c])
    /\ UNCHANGED <<sessions, lost, selfVars, wanted, found, todo, histVars>>

HubRooms ==
    /\ hub # NoConn /\ pc[hub] = "cleared"
    /\ UpdateRooms(sid[hub], rooms[hub])
    /\ Goto(hub, "stored")
    /\ UNCHANGED <<sessions, lost, selfVars, wanted, found, todo, hub, histVars>>

\* UpdateNick, and the end of removeClient: the Client is garbage.
HubNick ==
    LET c == hub
    IN  /\ hub # NoConn /\ pc[c] = "stored"
        /\ IF nick[c] = NoNick \/ sid[c] = NoSid THEN UNCHANGED rec
           ELSE UpdateNick(sid[c], nick[c])
        /\ left' = [s \in Sids |-> IF s = sid[c] /\ s \notin shared
                                   THEN [nick |-> nick[c], rooms |-> rooms[c]]
                                   ELSE left[s]]
        /\ Goto(c, "gone")
        /\ sid' = [sid EXCEPT ![c] = NoSid]
        /\ nick' = [nick EXCEPT ![c] = NoNick]
        /\ rooms' = [rooms EXCEPT ![c] = {}]
        /\ lost' = lost \ {c}
        /\ hub' = NoConn
        /\ UNCHANGED <<sessions, wanted, found, todo, shared>>

-----------------------------------------------------------------------------
(* Time, and cleanupLoop *)

RecordAges(s) ==
    /\ Present(s) /\ rec[sessions[s]].age < 2
    /\ rec' = [rec EXCEPT ![sessions[s]].age = @ + 1]
    /\ UNCHANGED <<sessions, connVars, hub, histVars>>

PurgeableLive(o) == rec[o].age = 2

PurgeableNever(o) == rec[o].live /\ rec[o].age > 2

Purgeable(o) == ~rec[o].live /\ rec[o].age = 2

\* One pass over the map, under sm.mu.
Cleanup ==
    /\ \E s \in Sids : Present(s) /\ Purgeable(sessions[s])
    /\ sessions' = [s \in Sids |->
                      IF Present(s) /\ Purgeable(sessions[s]) THEN NoConn
                      ELSE sessions[s]]
    /\ rec' = Kept(rec, sessions', found)
    /\ UNCHANGED <<connVars, hub, histVars>>

-----------------------------------------------------------------------------
HelloSteps(c) ==
    \/ HelloCheck(c) \/ HelloRead(c) \/ HelloRooms(c) \/ HelloRestore(c)
    \/ HelloFresh(c) \/ HelloNick(c)
    \/ \E n \in AllNames : HelloJoin(c, n)
    \/ HelloDone(c)

HubSteps == (\E c \in Conns : HubClear(c)) \/ HubRooms \/ HubNick

Next ==
    \/ \E c \in Conns :
         \/ \E s \in Sids, n \in Nicks \cup {NoNick} : Connect(c, s, n)
         \/ HelloSteps(c)
         \/ Touch(c) \/ Logout(c) \/ Lose(c) \/ Disconnect(c)
         \/ \E n \in Nicks : SetNick(c, n)
         \/ \E n \in AllNames : JoinRoom(c, n) \/ PartRoom(c, n)
    \/ HubSteps
    \/ \E s \in Sids : RecordAges(s)
    \/ Cleanup

Spec == Init /\ [][Next]_vars

\* Handlers run to their end, the hub and the cleanup loop run for ever, and
\* time passes.  Nobody has to connect, speak or leave.
FairSpec ==
    /\ Spec
    /\ \A c \in Conns : WF_vars(HelloSteps(c))
    /\ WF_vars(HubSteps)
    /\ \A s \in Sids : WF_vars(RecordAges(s))
    /\ WF_vars(Cleanup)

-----------------------------------------------------------------------------
(* Properties *)

Profile == [nick : Nicks \cup {NoNick}, rooms : SUBSET AllNames]

TypeOK ==
    /\ sessions \in [Sids -> Conns \cup {NoConn}]
    /\ rec \in [Conns -> [nick : Nicks \cup {NoNick}, rooms : SUBSET AllNames,
                          live : BOOLEAN, age : 0 .. 2]]
    /\ pc \in [Conns -> ConnSteps]
    /\ lost \subseteq Conns
    /\ sid \in [Conns -> Sids \cup {NoSid}]
    /\ nick \in [Conns -> Nicks \cup {NoNick}]
    /\ rooms \in [Conns -> SUBSET AllNames]
    /\ wanted \in [Conns -> Nicks \cup {NoNick}]
    /\ found \in [Conns -> Conns \cup {NoConn}]
    /\ todo \in [Conns -> SUBSET AllNames]
    /\ hub \in Conns \cup {NoConn}
    /\ \A c \in Conns : pc[c] \in {"cleared", "stored"} => hub = c
    /\ shared \subseteq Sids /\ left \in [Sids -> Profile]

Alone(c) == sid[c] # NoSid /\ sid[c] \notin shared

\* A connection that does not share its session id has, between commands, a
\* record of its own that is marked live (so cleanupLoop never purges it,
\* however long the user is silent) and that mirrors its nick and rooms; only
\* when every restored room refused it does the record still list them.
RecordMirrors ==
    \A c \in Conns : (pc[c] = "live" /\ Alone(c)) =>
        /\ sessions[sid[c]] = c /\ rec[c].live
        /\ rec[c].nick = nick[c]
        /\ rooms[c] \in {{}, rec[c].rooms}

\* What a removed connection leaves behind is what it had at its end, although
\* removeClient writes it in three separate critical sections; and it no longer
\* holds the record, whoever shares its id and in whatever order hellos and
\* removals come: a session is not locked out of restoring for ever.
RecordKeepsLast ==
    \A s \in Sids : (Present(s) /\ pc[sessions[s]] = "gone") =>
        LET r == rec[sessions[s]]
        IN  /\ ~r.live
            /\ s \notin shared => r.nick = left[s].nick /\ r.rooms = left[s].rooms

\* README: "server restores nick/rooms on WS reconnect within 30s": a hello
\* whose session has a record inside the grace period, and whose earlier
\* connections the browser has all lost, is not given a fresh session.
ReconnectRestores ==
    \A c \in Conns :
        (/\ pc[c] = "fresh" /\ Present(sid[c])
         /\ Online(sid[c]) \ {c} \subseteq lost)
        => rec[sessions[sid[c]]].age > 0

\* The same, when the earlier connections have all been removed.
LoneReconnectRestores ==
    \A c \in Conns :
        (pc[c] = "fresh" /\ Present(sid[c]) /\ Alone(c))
            => rec[sessions[sid[c]]].age > 0

\* handleHello reads the record that CanRestore found when sm.mu has been let
\* go, and cleanupLoop may have purged it or logout and other hellos may have
\* gone by: a connection that has its id to itself is nevertheless given what
\* the last connection of that id had at its end, all of it and nothing else
\* (but for a nick its hello asks for), and its own new record says the same.
RestoresExactly ==
    [][\A c \in Conns : HelloRestore(c) /\ Alone(c) =>
          /\ nick[c] = IF wanted[c] = NoNick THEN left[sid[c]].nick ELSE wanted[c]
          /\ todo'[c] = LobbyWhenEmpty(left[sid[c]].rooms)
          /\ rec'[c].nick = nick[c] /\ rec'[c].rooms = left[sid[c]].rooms]_vars

\* The record of a connection that is gone is taken over, logged out or
\* purged in the end, unless another connection goes on using its id.
NoRecordLeak ==
    \A s \in Sids, c \in Conns :
        (sessions[s] = c /\ pc[c] = "gone")
            ~> (sessions[s] # c \/ Online(s) # {})
=============================================================================
