----------------------------- MODULE WebClient -----------------------------
(***************************************************************************)
(* The page (web/app.js) and its connection to the server: the socket and  *)
(* the reconnect timer, hello and the restored session, which rooms the    *)
(* page believes it is in, the active room, and the lines it sends.        *)
(*                                                                         *)
(* Handlers of the page run to their end or to an await; what follows an   *)
(* await (a key derived, a line encrypted) is a task of its own.  Messages *)
(* travel in order until the connection breaks.  Of the server there is    *)
(* what it tells the page about rooms (client.go): it may refuse any join. *)
(* The nick is set; rendering, presence and key contents are left out.     *)
(***************************************************************************)
EXTENDS Integers, Sequences, SequencesExt

CONSTANTS
    Names, Lobby, NoRoom,
    Marked,             \* what the page calls a room created by "#name"
    Private,            \* the rooms with a password
    MaxReconnects,
    MaxSockets,         \* bounds the sockets the page ever opens
    MaxTyped            \* bounds what the user types

ASSUME WebClientAssumption ==
    /\ Lobby \notin Names /\ NoRoom \notin Names \cup {Lobby}
    /\ Private \subseteq Names
    /\ DOMAIN Marked \subseteq Names
    /\ \A n \in DOMAIN Marked : Marked[n] \notin Names \cup {Lobby, NoRoom}
    /\ {MaxReconnects, MaxSockets, MaxTyped} \subseteq Nat

VARIABLES
    socket, timer, reconnectAttempts,   \* ws.readyState, reconnectTimer
    currentRoom, joinedRooms, roomKeys, pendingPrivateJoin, lastJoinAttempt,
    tasks,                              \* handlers that await crypto.subtle
    up, down,                           \* messages under way
    srv,                                \* the server's side of the connection
    saved,                              \* the session record: kept or not, rooms
    sockets, failures, typed,           \* sockets opened, those in a row that
                                        \* never opened, lines typed
    refused, bare, early, hasty, doubled
        \* of this connection, since their last join: rooms refused, parted by a
        \* name without its #, parted before the greeting's answer, joined before
        \* it; and those created by a name with its #

netVars  == <<socket, timer, reconnectAttempts, sockets, failures>>
viewVars == <<currentRoom, joinedRooms>>
joinVars == <<pendingPrivateJoin, lastJoinAttempt>>
srvVars  == <<srv, saved>>
histVars == <<refused, bare, early, hasty, doubled>>
vars == <<netVars, viewVars, joinVars, roomKeys, tasks, up, down, srvVars, typed,
          histVars>>

\* A name that starts with two # is no room of the server (validateRoomName).
ServerRooms == Names \cup {Lobby}

Rooms == ServerRooms \cup {Marked[n] : n \in DOMAIN Marked}

NoServer == [hello |-> FALSE, rooms |-> {}]
NoRecord == [kept |-> FALSE, rooms |-> {}]

Init ==
    /\ socket = "connecting" /\ timer = FALSE /\ reconnectAttempts = 0
    /\ currentRoom = Lobby /\ joinedRooms = {Lobby} /\ roomKeys = {}
    /\ pendingPrivateJoin = NoRoom /\ lastJoinAttempt = NoRoom
    /\ tasks = <<>> /\ up = <<>> /\ down = <<>>
    /\ srv = NoServer /\ saved = NoRecord
    /\ sockets = 1 /\ failures = 0 /\ typed = 0
    /\ refused = {} /\ bare = {} /\ early = {} /\ hasty = {} /\ doubled = {}

-----------------------------------------------------------------------------
(* The socket *)

Hello == [op |-> "hello"]

SendBuffered(m) == up' = IF socket # "closed" THEN Append(up, m) ELSE up

\* send: false, and nothing is sent, unless the socket is open.
Send(m) == up' = IF socket = "open" THEN Append(up, m) ELSE up

KeepRooms == UNCHANGED viewVars

\* onopen forgets the rooms of the connection before.
ResetRooms == currentRoom' = Lobby /\ joinedRooms' = {Lobby}

KeepAttempts == UNCHANGED reconnectAttempts

ResetAttempts == reconnectAttempts' = 0

\* In onopen itself, before any other handler can run.
Greet == up' = Append(up, Hello)

onopen ==
    /\ socket = "connecting"
    /\ socket' = "open"
    /\ failures' = 0
    /\ ResetAttempts /\ ResetRooms /\ Greet
    /\ UNCHANGED <<timer, sockets, joinVars, roomKeys, down, srvVars, typed,
                   tasks, histVars>>

scheduleReconnectOnceMore ==
    IF timer \/ reconnectAttempts > MaxReconnects
    THEN UNCHANGED <<timer, reconnectAttempts>>
    ELSE timer' = TRUE /\ reconnectAttempts' = reconnectAttempts + 1

scheduleReconnect ==
    IF timer \/ reconnectAttempts >= MaxReconnects
    THEN UNCHANGED <<timer, reconnectAttempts>>
    ELSE timer' = TRUE /\ reconnectAttempts' = reconnectAttempts + 1

\* The connection fails, or breaks: onerror, onclose.  What is under way is
\* lost; the server's removeClient keeps the session's rooms.
onclose ==
    /\ socket \in {"connecting", "open"}
    /\ socket' = "closed"
    /\ failures' = IF socket = "open" THEN 0 ELSE failures + 1
    /\ scheduleReconnect
    /\ up' = <<>> /\ down' = <<>>
    /\ saved' = IF srv.hello /\ saved.kept THEN [saved EXCEPT !.rooms = srv.rooms]
                ELSE saved
    /\ srv' = NoServer
    /\ refused' = {} /\ bare' = {} /\ early' = {} /\ hasty' = {} /\ doubled' = {}
    /\ UNCHANGED <<sockets, viewVars, joinVars, roomKeys, tasks, typed>>

\* The timer's callback, and connect.
Reconnect ==
    /\ timer
    /\ sockets < MaxSockets
    /\ timer' = FALSE
    /\ IF socket \in {"connecting", "open"}
       THEN UNCHANGED <<socket, sockets>>
       ELSE socket' = "connecting" /\ sockets' = sockets + 1
    /\ UNCHANGED <<reconnectAttempts, failures, viewVars, joinVars, roomKeys, tasks,
                   up, down, srvVars, typed, histVars>>

-----------------------------------------------------------------------------
(* The server, one message at a time *)

Receive(op) == socket = "open" /\ up # <<>> /\ Head(up).op = op /\ up' = Tail(up)

Tell(m) == down' = Append(down, m)

serverFrame == UNCHANGED <<netVars, viewVars, joinVars, roomKeys, tasks, typed>>

\* handleHello with a session it can restore: the rooms that take the client
\* back, or the lobby if there were none.
HelloRestored == \E r \in SUBSET (IF saved.rooms = {} THEN {Lobby} ELSE saved.rooms) :
    /\ Receive("hello") /\ saved.kept
    /\ srv' = [hello |-> TRUE, rooms |-> r]
    /\ Tell([op |-> "session_restored", rooms |-> r])
    /\ UNCHANGED <<saved, histVars>> /\ serverFrame

\* handleHello without: a fresh record, and the lobby, unless it is full.
HelloNew == \E r \in SUBSET {Lobby} :
    /\ Receive("hello")
    /\ srv' = [hello |-> TRUE, rooms |-> r]
    /\ saved' = [kept |-> TRUE, rooms |-> {}]
    /\ Tell([op |-> "session_new"])
    /\ UNCHANGED histVars /\ serverFrame

\* handleJoin, handleCreateRoom: they may refuse (no such room, a wrong password,
\* a room that is full, a name taken).
ServeJoin(m) ==
    /\ srv.hello /\ m.op \in {"join", "create"} /\ Receive(m.op)
    /\ \/ /\ m.room \in ServerRooms
          /\ (m.op = "join" /\ m.room \in Private) => m.pass
          /\ srv' = [srv EXCEPT !.rooms = @ \cup {m.room}]
          /\ UNCHANGED <<down, refused>>
       \/ refused' = refused \cup {m.room} /\ UNCHANGED <<srv, down>>
    /\ UNCHANGED <<saved, bare, early, hasty, doubled>> /\ serverFrame

PasswordRequired(m) ==
    /\ srv.hello /\ Receive("join")
    /\ m.room \in Private /\ ~m.pass
    /\ Tell([op |-> "password_required"])
    /\ refused' = refused \cup {m.room}
    /\ UNCHANGED <<srvVars, bare, early, hasty, doubled>> /\ serverFrame

\* handlePart: not from the lobby.
ServePart(m) ==
    /\ srv.hello /\ Receive("part")
    /\ srv' = [srv EXCEPT !.rooms = @ \ ({m.room} \ {Lobby})]
    /\ UNCHANGED <<saved, down, histVars>> /\ serverFrame

\* handleChat, handleRoll and the like: what becomes of a line, or what they
\* answer, does not concern the page's rooms.
ServeChat ==
    /\ srv.hello /\ \E op \in {"chat", "game", "ask"} : Receive(op)
    /\ UNCHANGED <<srvVars, down, histVars>> /\ serverFrame

ServeLogout ==
    /\ srv.hello /\ Receive("logout")
    /\ saved' = NoRecord
    /\ UNCHANGED <<srv, down, histVars>> /\ serverFrame

Serve ==
    \/ HelloRestored \/ HelloNew \/ ServeChat \/ ServeLogout
    \/ up # <<>> /\ (ServeJoin(Head(up)) \/ PasswordRequired(Head(up)) \/ ServePart(Head(up)))

-----------------------------------------------------------------------------
(* handleMessage *)

Handle(op) == down # <<>> /\ Head(down).op = op /\ down' = Tail(down)

handleFrame == UNCHANGED <<netVars, roomKeys, tasks, up, srvVars, typed, histVars>>

session_restored ==
    /\ Handle("session_restored")
    /\ joinedRooms' = {Lobby} \cup (IF Head(down).rooms = {} THEN joinedRooms
                                  ELSE Head(down).rooms)
    /\ currentRoom' = Lobby
    /\ UNCHANGED joinVars /\ handleFrame

session_new ==
    /\ Handle("session_new")
    /\ UNCHANGED <<viewVars, joinVars>> /\ handleFrame

\* The answer does not name the room; the page takes the latest /join.
password_required ==
    /\ Handle("password_required")
    /\ pendingPrivateJoin' = IF lastJoinAttempt # NoRoom THEN lastJoinAttempt
                             ELSE pendingPrivateJoin
    /\ UNCHANGED <<viewVars, lastJoinAttempt>> /\ handleFrame

-----------------------------------------------------------------------------
(* What the user types: submitLine, handleCommand *)

Type == typed < MaxTyped /\ typed' = typed + 1

typeFrame == UNCHANGED <<netVars, down, srv>>

\* The next line is the password the page asked for, whatever it is.
NoPrompt == pendingPrivateJoin = NoRoom

Activate(r) == currentRoom' = r /\ joinedRooms' = joinedRooms \cup {r}

JoinMsg(r, pass) == [op |-> "join", room |-> r, pass |-> pass]
CreateMsg(r) == [op |-> "create", room |-> r]
ChatMsg(r, from, enc) == [op |-> "chat", room |-> r, from |-> from, enc |-> enc]

Answered == srv.hello /\ \A i \in DOMAIN down :
    down[i].op \notin {"session_restored", "session_new"}

\* The page, which shows the room, asks the server for the one of that name.
Ask(shown, m) ==
    /\ Send(m)
    /\ IF socket = "open" /\ Answered
       THEN /\ refused' = refused \ {m.room} /\ bare' = bare \ {m.room}
            /\ early' = early \ {m.room} /\ hasty' = hasty \ {m.room}
       ELSE /\ hasty' = IF socket = "open" THEN hasty \cup {m.room} ELSE hasty
            /\ UNCHANGED <<refused, bare, early>>
    /\ doubled' = IF socket = "open" /\ shown # m.room THEN doubled \cup {m.room}
                  ELSE doubled

\* The names the page makes of one that is typed in /create: it adds a #, also to
\* one that has it, and sends the name as typed, which the server normalizes.
Shown(n) == {n} \cup {Marked[k] : k \in DOMAIN Marked \cap {n}}

\* The handler awaits the key.
deriveKey(op, shown, name) ==
    tasks' = Append(tasks, [op |-> op, room |-> shown, name |-> name])

TypePassword ==
    /\ Type /\ ~NoPrompt
    /\ pendingPrivateJoin' = NoRoom
    /\ deriveKey("password", pendingPrivateJoin, pendingPrivateJoin)
    /\ UNCHANGED <<viewVars, lastJoinAttempt, roomKeys, up, saved, histVars>> /\ typeFrame

TypeJoin(r) ==
    /\ Type /\ NoPrompt
    /\ lastJoinAttempt' = r
    /\ Activate(r)
    /\ Ask(r, JoinMsg(r, FALSE))
    /\ UNCHANGED <<pendingPrivateJoin, roomKeys, tasks, saved>> /\ typeFrame

\* /join with a password, /create private: deriveKey first.
TypePrivate(op, shown, name) ==
    /\ Type /\ NoPrompt
    /\ deriveKey(op, shown, name)
    /\ UNCHANGED <<viewVars, joinVars, roomKeys, up, saved, histVars>> /\ typeFrame

TypeCreate(shown, name) ==
    /\ Type /\ NoPrompt
    /\ Activate(shown)
    /\ Ask(shown, CreateMsg(name))
    /\ UNCHANGED <<joinVars, roomKeys, tasks, saved>> /\ typeFrame

\* /rooms: also with a number, which is taken for a name.
TypeRooms(r) ==
    /\ Type /\ NoPrompt
    /\ Activate(r)
    /\ IF r \in joinedRooms THEN UNCHANGED <<up, histVars>> ELSE Ask(r, JoinMsg(r, FALSE))
    /\ UNCHANGED <<joinVars, roomKeys, tasks, saved>> /\ typeFrame

PartView(r) ==
    /\ joinedRooms' = joinedRooms \ {r}
    /\ currentRoom' = IF r = currentRoom THEN Lobby ELSE currentRoom

TypePart(r) ==
    /\ Type /\ NoPrompt
    /\ PartView(r)
    /\ Send([op |-> "part", room |-> r])
    /\ early' = IF socket = "open" /\ ~Answered THEN early \cup {r} ELSE early
    /\ UNCHANGED <<joinVars, roomKeys, tasks, refused, bare, hasty, doubled, saved>> /\ typeFrame

\* The page looks for the name as typed, the server normalizes it.
TypePartBare(r) ==
    /\ Type /\ NoPrompt
    /\ Send([op |-> "part", room |-> r])
    /\ bare' = IF socket = "open" THEN bare \cup {r} ELSE bare
    /\ UNCHANGED <<viewVars, joinVars, roomKeys, tasks, refused, early, hasty, doubled, saved>>
    /\ typeFrame

\* The handler awaits the ciphertext.
encryptText(enc) == tasks' = Append(tasks, [op |-> "chat", room |-> currentRoom, enc |-> enc])

Later(enc) == encryptText(enc) /\ UNCHANGED up

SayPlainLater == Later(FALSE)

\* A line for a room without a key leaves at once.
SayPlain ==
    /\ Send(ChatMsg(currentRoom, currentRoom, FALSE))
    /\ UNCHANGED tasks

isEncryptedRoom == currentRoom \in roomKeys

TypeLine ==
    /\ Type /\ NoPrompt
    /\ IF isEncryptedRoom
       THEN Later(TRUE)
       ELSE SayPlain
    /\ UNCHANGED <<viewVars, joinVars, roomKeys, saved, histVars>> /\ typeFrame

\* The commands that send one message and change nothing on the page.
Command(m) ==
    /\ Type /\ NoPrompt
    /\ Send(m)
    /\ UNCHANGED <<viewVars, joinVars, roomKeys, tasks, saved, histVars>> /\ typeFrame

\* The server makes the line of the words: they leave as they were typed.
SayPublic == Command(ChatMsg(currentRoom, currentRoom, FALSE))

TypeAscii == ~isEncryptedRoom /\ SayPublic
TypeRoll  == ~isEncryptedRoom /\ SayPublic
TypeEmote == ~isEncryptedRoom /\ SayPublic

TypeTrivia == Command([op |-> "game", room |-> currentRoom])

\* Questions about rooms, and all of the message boards.
TypeList  == Command([op |-> "ask"])
TypeUsers == Command([op |-> "ask"])
TypeBoards == Command([op |-> "ask"])

\* The page takes a new session id; a greeting's answer still under way would
\* bring the old one back.
TypeLogout ==
    /\ Type /\ NoPrompt
    /\ saved' = IF socket = "open" /\ ~Answered THEN saved ELSE NoRecord
    /\ roomKeys' = {}
    /\ Send([op |-> "logout"])
    /\ UNCHANGED <<viewVars, joinVars, tasks, histVars>> /\ typeFrame

Typing ==
    \/ TypePassword \/ TypeLine \/ TypeLogout
    \/ TypeAscii \/ TypeRoll \/ TypeEmote \/ TypeTrivia \/ TypeList \/ TypeUsers \/ TypeBoards
    \/ \E r \in Rooms : TypeJoin(r) \/ TypeRooms(r) \/ TypePart(r)
    \/ \E r \in ServerRooms : TypePartBare(r)
    \/ \E n \in Names : TypePrivate("join", n, n)
    \/ \E n \in Names : \E shown \in Shown(n) :
          TypeCreate(shown, n) \/ TypePrivate("create", shown, n)

-----------------------------------------------------------------------------
(* After an await *)

Resume(i) ==
    /\ tasks' = RemoveAt(tasks, i)
    /\ UNCHANGED <<netVars, down, srvVars, typed>>

\* deriveKey, or encryptText, throws: nothing else happens.
Thrown(i) ==
    /\ Resume(i)
    /\ UNCHANGED <<viewVars, joinVars, roomKeys, up, histVars>>

KeyDerived(i) == LET r == tasks[i].room IN
    /\ tasks[i].op \in {"password", "join", "create"}
    /\ Resume(i)
    /\ roomKeys' = roomKeys \cup {r}
    /\ Activate(r)
    /\ lastJoinAttempt' = IF tasks[i].op = "join" THEN r ELSE lastJoinAttempt
    /\ Ask(r, IF tasks[i].op = "create" THEN CreateMsg(tasks[i].name)
              ELSE JoinMsg(r, TRUE))
    /\ UNCHANGED pendingPrivateJoin

\* The room is read after the await.
Encrypted(i) ==
    /\ tasks[i].op = "chat"
    /\ Resume(i)
    /\ Send(ChatMsg(currentRoom, tasks[i].room, tasks[i].enc))
    /\ UNCHANGED <<viewVars, joinVars, roomKeys, histVars>>

Page ==
    \/ onopen \/ Reconnect
    \/ session_restored \/ session_new \/ password_required
    \/ \E i \in DOMAIN tasks : KeyDerived(i) \/ Encrypted(i) \/ Thrown(i)

Next == Page \/ Typing \/ Serve \/ onclose

Spec == Init /\ [][Next]_vars

-----------------------------------------------------------------------------
(* Properties *)

Messages ==
    [op : {"hello", "logout", "ask"}] \cup [op : {"part", "create", "game"}, room : Rooms]
    \cup [op : {"join"}, room : Rooms, pass : BOOLEAN]
    \cup [op : {"chat"}, room : Rooms, from : Rooms, enc : BOOLEAN]

Answers ==
    [op : {"session_new", "password_required"}]
    \cup [op : {"session_restored"}, rooms : SUBSET ServerRooms]

Tasks ==
    {k \in [op : {"password", "join", "create"}, room : Rooms, name : Rooms] :
        k.room \in Shown(k.name)}
    \cup [op : {"chat"}, room : Rooms, enc : BOOLEAN]

TypeOK ==
    /\ socket \in {"connecting", "open", "closed"} /\ timer \in BOOLEAN
    /\ reconnectAttempts \in 0..MaxReconnects
    /\ {sockets, failures, typed} \subseteq Nat
    /\ currentRoom \in Rooms /\ joinedRooms \subseteq Rooms /\ roomKeys \subseteq Rooms
    /\ {pendingPrivateJoin, lastJoinAttempt} \subseteq Rooms \cup {NoRoom}
    /\ tasks \in Seq(Tasks) /\ up \in Seq(Messages) /\ down \in Seq(Answers)
    /\ srv \in [hello : BOOLEAN, rooms : SUBSET ServerRooms]
    /\ saved \in [kept : BOOLEAN, rooms : SUBSET ServerRooms]
    /\ refused \cup bare \cup early \cup hasty \cup doubled \subseteq Rooms
    \* No word of an old connection is left when there is none.
    /\ socket # "open" => up = <<>> /\ down = <<>> /\ srv = NoServer

\* A page that is offline has a reconnect pending, or has given up; and it
\* gives up only after MaxReconnects sockets in a row have failed to open, not
\* after that many losses in its lifetime.
OfflineIsExplained ==
    (socket = "closed" /\ ~timer) =>
        reconnectAttempts = MaxReconnects /\ failures >= MaxReconnects

\* On each connection hello comes first, and once, whatever a handler that
\* waited across the reconnect sends: the server refuses all else ("send hello
\* first"), and a second hello would start another session.
GreetsFirst ==
    /\ (~srv.hello /\ up # <<>>) => Head(up).op = "hello"
    /\ \A i \in DOMAIN up : up[i].op = "hello" => i = 1 /\ ~srv.hello

\* Nothing is under way between page and server.
Quiet == socket = "open" /\ srv.hello /\ up = <<>> /\ down = <<>> /\ tasks = <<>>

\* When all is quiet the rooms of the page are those the server has it in, and it
\* lets the user talk in no other, but for what their last join left behind.  The
\* page shows, and the server has it not in: rooms it was refused after it had
\* switched to them, rooms parted by a name without its # or before the greeting
\* was answered, and what it takes a room created by "#name" to be.  The server has
\* it in, and it does not show: rooms created so, and those asked for before the
\* greeting was answered.  Nothing is left over from the connection before.
PageAgrees ==
    Quiet =>
        /\ (joinedRooms \cup {currentRoom}) \ {Lobby}
              \subseteq srv.rooms \cup refused \cup bare \cup early
                       \cup {Marked[n] : n \in doubled \cap DOMAIN Marked}
        /\ srv.rooms \ {Lobby} \subseteq joinedRooms \cup hasty \cup doubled

\* A line goes to the room it was typed in; only one that waited to be
\* encrypted may follow the user to another room, and then as ciphertext.
AstrayOnlyEncrypted ==
    \A i \in DOMAIN up : up[i].op = "chat" => up[i].room = up[i].from \/ up[i].enc
=============================================================================
