--------------------------- MODULE WebClientProofs --------------------------
(***************************************************************************)
(* The page and its connection, for every set of rooms and every bound on  *)
(* reconnects, sockets and lines typed.                                    *)
(*                                                                         *)
(* Each of the four properties has its own invariant: the count of tries   *)
(* that have failed (Retries), where the greeting is (Greeting), what the  *)
(* handlers that wait may send (Waiting), and, for the rooms, the account  *)
(* that can be given at any time of every room the page believes it is in  *)
(* (RoomsInFlight): the server has it and nothing under way takes it out,  *)
(* or something under way brings it in, or PageAgrees excepts it.  The      *)
(* other way round, ServerInFlight says the same of every room the server  *)
(* has the client in.                                                      *)
(***************************************************************************)
EXTENDS WebClient, SequenceTheorems, TLAPS

\* A timer runs only for a closed socket; every try but one has failed.
Retries ==
    /\ timer => socket = "closed"
    /\ socket = "open" => reconnectAttempts = 0
    /\ socket # "open" => reconnectAttempts <= failures + 1
    /\ OfflineIsExplained

\* The greeting is the first message of its connection.
Greeting ==
    /\ socket = "open" /\ ~srv.hello =>
         up # <<>> /\ up[1].op = "hello" /\ down = <<>> /\ srv.rooms = {}
    /\ \A i \in 1 .. Len(up) : up[i].op = "hello" => i = 1 /\ ~srv.hello

Base == TypeOK /\ Greeting

Waiting ==
    /\ \A i \in 1 .. Len(tasks) : tasks[i].op = "chat" => tasks[i].enc
    /\ AstrayOnlyEncrypted

Rejoins(i, r) == up[i].op \in {"join", "create"} /\ up[i].room = r
Parts(i, r) == up[i].op = "part" /\ up[i].room = r
NoPartAfter(k, r) == \A i \in 1 .. Len(up) : Parts(i, r) => i <= k

\* When the server has read what is under way, and refuses nothing of it.
WillHave(r) ==
    \/ r \in srv.rooms /\ NoPartAfter(0, r)
    \/ \E k \in 1 .. Len(up) : Rejoins(k, r) /\ NoPartAfter(k, r)

\* What the page takes the rooms to be that were created by a name with a #.
Mistaken == {Marked[n] : n \in doubled \cap DOMAIN Marked}

Accounted(r) ==
    r \in refused \cup bare \cup early \cup Mistaken \cup {Lobby} \/ WillHave(r)

Believed == joinedRooms \cup {currentRoom}

RoomsInFlight ==
    socket = "open" =>
        /\ \A r \in Believed : Accounted(r)
        /\ \A i \in 1 .. Len(down) : down[i].op = "session_restored" =>
             \A r \in down[i].rooms : Accounted(r)
        /\ ~Answered => \A i \in 1 .. Len(up) : up[i].op = "part" =>
             up[i].room \in bare \cup early

\* The other way round: the server has the client in no room of which the page does
\* not know, or is about to, or which it is not about to leave.
Known(r) ==
    r \in hasty \cup doubled \cup {Lobby} \/ (Answered /\ r \in joinedRooms)

ServerInFlight ==
    socket = "open" =>
        /\ \A r \in srv.rooms : NoPartAfter(0, r) =>
             \/ Known(r)
             \/ \E i \in 1 .. Len(down) :
                  down[i].op = "session_restored" /\ r \in down[i].rooms
        /\ \A k \in 1 .. Len(up), r \in Rooms :
             Rejoins(k, r) /\ NoPartAfter(k, r) => Known(r)
        /\ \A i \in 1 .. Len(down) :
             down[i].op \in {"session_restored", "session_new"} => i = 1

-----------------------------------------------------------------------------
(* Types *)

LEMMA MessagesTyped ==
    ASSUME WebClientAssumption
    PROVE  /\ Hello \in Messages /\ [op |-> "logout"] \in Messages
           /\ [op |-> "ask"] \in Messages
           /\ \A r \in Rooms : /\ [op |-> "part", room |-> r] \in Messages
                               /\ [op |-> "game", room |-> r] \in Messages
                               /\ CreateMsg(r) \in Messages
                               /\ \A b \in BOOLEAN : JoinMsg(r, b) \in Messages
                               /\ \A q \in Rooms, b \in BOOLEAN : ChatMsg(r, q, b) \in Messages
           /\ \A m \in Messages : m.op \in {"part", "join", "create"} => m.room \in Rooms
           /\ Lobby \in ServerRooms /\ ServerRooms \subseteq Rooms /\ NoRoom \notin Rooms
           /\ Names \subseteq ServerRooms
  BY DEF WebClientAssumption, Messages, Hello, CreateMsg, JoinMsg, ChatMsg, Rooms, ServerRooms

LEMMA ShownIs ==
    /\ \A n \in Rooms : n \in Shown(n) /\ Shown(n) \subseteq Rooms
    /\ \A n : \A r \in Shown(n) : r # n => n \in DOMAIN Marked /\ r = Marked[n]
  BY DEF Shown, Rooms

LEMMA AnswersTyped ==
    /\ [op |-> "session_new"] \in Answers /\ [op |-> "password_required"] \in Answers
    /\ \A r \in SUBSET ServerRooms : [op |-> "session_restored", rooms |-> r] \in Answers
    /\ \A a \in Answers : a.op = "session_restored" => a.rooms \in SUBSET ServerRooms
  BY DEF Answers

LEMMA TasksTyped ==
    /\ \A n \in Rooms : \A r \in Shown(n), op \in {"password", "join", "create"} :
         [op |-> op, room |-> r, name |-> n] \in Tasks
    /\ \A r \in Rooms, b \in BOOLEAN : [op |-> "chat", room |-> r, enc |-> b] \in Tasks
    /\ \A k \in Tasks :
         /\ k.room \in Rooms
         /\ k.op = "chat" => k.enc \in BOOLEAN
         /\ k.op # "chat" => k.name \in Rooms /\ k.room \in Shown(k.name)
  BY ShownIs DEF Tasks

\* What a room asked for does to the account of this connection.
LEMMA Asked ==
    ASSUME TypeOK, NEW shown, NEW m \in Messages, m.op \in {"join", "create"}, Ask(shown, m)
    PROVE  /\ Send(m)
           /\ refused' \cup bare' \cup early' \cup hasty' \cup doubled' \subseteq Rooms
           /\ refused \subseteq refused' \cup {m.room} /\ bare \subseteq bare' \cup {m.room}
           /\ early \subseteq early' \cup {m.room} /\ hasty \subseteq hasty' \cup {m.room}
           /\ doubled \subseteq doubled'
           /\ ~Answered => bare' = bare /\ early' = early /\ hasty \subseteq hasty'
           /\ (socket = "open" /\ ~Answered) => m.room \in hasty'
           /\ (socket = "open" /\ shown # m.room) => m.room \in doubled'
  <1>1. m.room \in Rooms
    BY DEF Messages
  <1>2. refused \cup bare \cup early \cup hasty \cup doubled \subseteq Rooms
    BY DEF TypeOK
  <1> QED
    BY <1>1, <1>2 DEF Ask

\* What is sent is the last of what is under way.
LEMMA Sent ==
    ASSUME TypeOK, NEW m \in Messages, Send(m)
    PROVE  /\ up' \in Seq(Messages) /\ Len(up) \in Nat
           /\ socket # "open" => up' = up
           /\ socket = "open" =>
                /\ up' = Append(up, m) /\ up' # <<>>
                /\ Len(up') = Len(up) + 1 /\ up'[Len(up) + 1] = m
                /\ \A i \in 1 .. Len(up) : up'[i] = up[i]
  <1>1. up \in Seq(Messages)
    BY DEF TypeOK
  <1>2. /\ Append(up, m) \in Seq(Messages) /\ Append(up, m) # <<>>
        /\ Len(Append(up, m)) = Len(up) + 1 /\ Append(up, m)[Len(up) + 1] = m
        /\ \A i \in 1 .. Len(up) : Append(up, m)[i] = up[i]
    BY <1>1, AppendProperties
  <1>3. Len(up) \in Nat
    BY <1>1, LenProperties
  <1> QED
    BY <1>1, <1>2, <1>3 DEF Send

LEMMA Received ==
    ASSUME TypeOK, NEW op, Receive(op)
    PROVE  /\ socket = "open" /\ up # <<>> /\ Len(up) \in Nat \ {0}
           /\ Head(up) = up[1] /\ Head(up) \in Messages /\ up[1].op = op
           /\ up' \in Seq(Messages) /\ Len(up') = Len(up) - 1
           /\ \A i \in 1 .. Len(up') : up'[i] = up[i + 1]
  <1>1. up \in Seq(Messages) /\ up # <<>> /\ up' = Tail(up) /\ socket = "open" /\ Head(up).op = op
    BY DEF TypeOK, Receive
  <1>2. /\ Head(up) \in Messages /\ Tail(up) \in Seq(Messages) /\ Len(Tail(up)) = Len(up) - 1
        /\ \A i \in 1 .. Len(Tail(up)) : Tail(up)[i] = up[i + 1]
    BY <1>1, HeadTailProperties
  <1>3. Head(up) = up[1] /\ Len(up) \in Nat \ {0}
    BY <1>1, EmptySeq
  <1> QED
    BY <1>1, <1>2, <1>3

LEMMA Told ==
    ASSUME TypeOK, NEW a \in Answers, Tell(a)
    PROVE  /\ down' \in Seq(Answers) /\ Len(down) \in Nat
           /\ Len(down') = Len(down) + 1 /\ down'[Len(down) + 1] = a
           /\ \A i \in 1 .. Len(down) : down'[i] = down[i]
  <1>1. down \in Seq(Answers) /\ down' = Append(down, a)
    BY DEF TypeOK, Tell
  <1>2. /\ Append(down, a) \in Seq(Answers)
        /\ Len(Append(down, a)) = Len(down) + 1 /\ Append(down, a)[Len(down) + 1] = a
        /\ \A i \in 1 .. Len(down) : Append(down, a)[i] = down[i]
    BY <1>1, AppendProperties
  <1>3. Len(down) \in Nat
    BY <1>1, LenProperties
  <1> QED
    BY <1>1, <1>2, <1>3

LEMMA Handled ==
    ASSUME TypeOK, NEW op, Handle(op)
    PROVE  /\ down # <<>> /\ Len(down) \in Nat \ {0}
           /\ Head(down) = down[1] /\ Head(down) \in Answers /\ down[1].op = op
           /\ down' \in Seq(Answers) /\ Len(down') = Len(down) - 1
           /\ \A i \in 1 .. Len(down') : down'[i] = down[i + 1]
  <1>1. down \in Seq(Answers) /\ down # <<>> /\ down' = Tail(down) /\ Head(down).op = op
    BY DEF TypeOK, Handle
  <1>2. /\ Head(down) \in Answers /\ Tail(down) \in Seq(Answers)
        /\ Len(Tail(down)) = Len(down) - 1
        /\ \A i \in 1 .. Len(Tail(down)) : Tail(down)[i] = down[i + 1]
    BY <1>1, HeadTailProperties
  <1>3. Head(down) = down[1] /\ Len(down) \in Nat \ {0}
    BY <1>1, EmptySeq
  <1> QED
    BY <1>1, <1>2, <1>3

\* The tasks that go on waiting are some of those that waited.
LEMMA Resumed ==
    ASSUME TypeOK, NEW i \in DOMAIN tasks, Resume(i)
    PROVE  /\ tasks[i] \in Tasks /\ i \in 1 .. Len(tasks)
           /\ tasks' \in Seq(Tasks)
           /\ \A k \in 1 .. Len(tasks') : \E j \in 1 .. Len(tasks) : tasks'[k] = tasks[j]
  <1>1. tasks \in Seq(Tasks)
    BY DEF TypeOK
  <1>2. Len(tasks) \in Nat /\ i \in 1 .. Len(tasks) /\ \A k \in 1 .. Len(tasks) : tasks[k] \in Tasks
    BY <1>1, LenProperties, ElementOfSeq
  <1> DEFINE a == SubSeq(tasks, 1, i - 1)
             b == SubSeq(tasks, i + 1, Len(tasks))
             n == Len(tasks)
  <1>3. tasks' = a \o b
    BY DEF Resume, RemoveAt
  <1>4. /\ a \in Seq(Tasks) /\ Len(a) = i - 1
        /\ \A k \in 1 .. i - 1 : a[k] = tasks[k]
    <2>1. \A k \in 1 .. i - 1 : tasks[k] \in Tasks
      BY <1>2
    <2>2. /\ a \in Seq(Tasks) /\ Len(a) = IF 1 <= i - 1 THEN (i - 1) - 1 + 1 ELSE 0
          /\ \A k \in 1 .. (i - 1) - 1 + 1 : a[k] = tasks[1 + k - 1]
      BY <1>2, <2>1, SubSeqProperties
    <2> HIDE DEF a
    <2> QED
      BY <1>2, <2>2
  <1>5. /\ b \in Seq(Tasks) /\ Len(b) = n - i
        /\ \A k \in 1 .. n - i : b[k] = tasks[i + k]
    <2>1. \A k \in i + 1 .. n : tasks[k] \in Tasks
      BY <1>2
    <2>2. /\ b \in Seq(Tasks) /\ Len(b) = IF i + 1 <= n THEN n - (i + 1) + 1 ELSE 0
          /\ \A k \in 1 .. n - (i + 1) + 1 : b[k] = tasks[(i + 1) + k - 1]
      BY <1>2, <2>1, SubSeqProperties
    <2> HIDE DEF b
    <2> QED
      BY <1>2, <2>2
  <1> HIDE DEF a, b
  <1>6. /\ tasks' \in Seq(Tasks) /\ Len(tasks') = Len(a) + Len(b)
        /\ \A k \in 1 .. Len(a) + Len(b) : tasks'[k] = IF k <= Len(a) THEN a[k] ELSE b[k - Len(a)]
    BY <1>3, <1>4, <1>5, ConcatProperties
  <1>7. ASSUME NEW k \in 1 .. Len(tasks')
        PROVE  \E j \in 1 .. n : tasks'[k] = tasks[j]
    <2> HIDE DEF n
    <2>0. /\ i \in Nat /\ n \in Nat /\ 1 <= i /\ i <= n /\ k \in Nat /\ 1 <= k /\ k <= n - 1
          /\ tasks'[k] = IF k <= i - 1 THEN a[k] ELSE b[k - (i - 1)]
      <3>1. Len(a) + Len(b) = n - 1
        BY <1>2, <1>4, <1>5 DEF n
      <3> QED
        BY <1>2, <1>4, <1>6, <1>7, <3>1 DEF n
    <2>1. CASE k <= i - 1
      BY <1>4, <2>0, <2>1
    <2>2. CASE k > i - 1
      <3> DEFINE j == k - (i - 1)
      <3>1. j \in 1 .. n - i /\ i + j \in 1 .. n
        BY <2>0, <2>2
      <3>2. tasks'[k] = b[j]
        BY <2>0, <2>2
      <3> HIDE DEF j
      <3> QED
        BY <1>5, <3>1, <3>2
    <2> QED
      BY <2>0, <2>1, <2>2
  <1> QED
    BY <1>2, <1>6, <1>7

LEMMA InitOK ==
    ASSUME WebClientAssumption, Init
    PROVE  Base /\ Retries /\ Waiting /\ RoomsInFlight /\ ServerInFlight
  <1>1. Lobby \in Rooms /\ MaxReconnects \in Nat
    BY DEF WebClientAssumption, Rooms, ServerRooms
  <1>2. tasks \in Seq(Tasks) /\ up \in Seq(Messages) /\ down \in Seq(Answers)
        /\ Len(up) = 0 /\ Len(tasks) = 0
    BY EmptySeq DEF Init
  <1>3. srv \in [hello : BOOLEAN, rooms : SUBSET ServerRooms]
        /\ saved \in [kept : BOOLEAN, rooms : SUBSET ServerRooms]
    BY DEF Init, NoServer, NoRecord
  <1>4. TypeOK
    <2>1. /\ reconnectAttempts \in 0..MaxReconnects
          /\ sockets \in Nat /\ failures \in Nat /\ typed \in Nat
      BY <1>1 DEF Init
    <2>4. timer \in BOOLEAN
      BY DEF Init
    <2>2. /\ currentRoom \in Rooms /\ joinedRooms \subseteq Rooms /\ roomKeys \subseteq Rooms
          /\ refused \cup bare \cup early \cup hasty \cup doubled \subseteq Rooms
      BY <1>1 DEF Init
    <2>3. /\ socket = "connecting" /\ up = <<>> /\ down = <<>> /\ srv = NoServer
          /\ {pendingPrivateJoin, lastJoinAttempt} \subseteq Rooms \cup {NoRoom}
      BY DEF Init
    <2> QED
      BY <1>2, <1>3, <2>1, <2>2, <2>3, <2>4 DEF TypeOK
  <1>5. Greeting
    BY <1>2 DEF Init, Greeting
  <1>6. Retries
    BY <1>1 DEF Init, Retries, OfflineIsExplained
  <1>7. Waiting
    BY <1>2 DEF Init, Waiting, AstrayOnlyEncrypted
  <1>8. RoomsInFlight /\ ServerInFlight
    BY DEF Init, RoomsInFlight, ServerInFlight
  <1> QED
    BY <1>4, <1>5, <1>6, <1>7, <1>8 DEF Base

\* The connection opens, breaks and is tried again.
Dialing == onopen \/ onclose \/ Reconnect

LEMMA TypeDialing ==
    ASSUME WebClientAssumption, TypeOK, Dialing
    PROVE  TypeOK'
  <1> USE DEF netVars, viewVars, joinVars, srvVars, histVars
  <1>1. Lobby \in Rooms /\ MaxReconnects \in Nat
    BY DEF WebClientAssumption, Rooms, ServerRooms
  <1>2. CASE onopen
    <2>1. up = <<>> /\ down = <<>> /\ srv = NoServer
      BY <1>2 DEF onopen, TypeOK
    <2>2. up' \in Seq(Messages)
      BY <1>2, AppendProperties, MessagesTyped DEF onopen, Greet, TypeOK
    <2>3. reconnectAttempts' = 0 /\ currentRoom' = Lobby /\ joinedRooms' = {Lobby}
          /\ socket' = "open" /\ failures' = 0
          /\ UNCHANGED <<timer, sockets, joinVars, roomKeys, down, srvVars, typed,
                   tasks, histVars>>
      BY <1>2 DEF onopen, ResetAttempts, ResetRooms
    <2> QED
      BY <1>1, <2>2, <2>3 DEF TypeOK
  <1>3. CASE onclose
    <2>1. timer' \in BOOLEAN /\ reconnectAttempts' \in 0 .. MaxReconnects
      <3>1. timer \in BOOLEAN /\ reconnectAttempts \in 0 .. MaxReconnects /\ scheduleReconnect
        BY <1>3 DEF onclose, TypeOK
      <3>2. CASE timer \/ reconnectAttempts >= MaxReconnects
        BY <3>1, <3>2 DEF scheduleReconnect
      <3>3. CASE ~(timer \/ reconnectAttempts >= MaxReconnects)
        <4>1. reconnectAttempts + 1 \in 0 .. MaxReconnects
          BY <1>1, <3>1, <3>3
        <4> QED
          BY <3>1, <3>3, <4>1 DEF scheduleReconnect
      <3> QED
        BY <3>2, <3>3
    <2>2. failures' \in Nat
      BY <1>3 DEF onclose, TypeOK
    <2>3. up' \in Seq(Messages) /\ down' \in Seq(Answers) /\ up' = <<>> /\ down' = <<>>
      BY <1>3, EmptySeq DEF onclose
    <2>4. saved' \in [kept : BOOLEAN, rooms : SUBSET ServerRooms]
      BY <1>3 DEF onclose, TypeOK
    <2>5. srv' = NoServer /\ srv' \in [hello : BOOLEAN, rooms : SUBSET ServerRooms]
      BY <1>3 DEF onclose, NoServer
    <2> QED
      BY <1>3, <2>1, <2>2, <2>3, <2>4, <2>5 DEF onclose, TypeOK
  <1>4. CASE Reconnect
    <2>1. sockets' \in Nat /\ socket' \in {"connecting", "open", "closed"}
          /\ (socket' = "open" => socket = "open") /\ (socket = "open" => socket' = "open")
      BY <1>4 DEF Reconnect, TypeOK
    <2>2. /\ timer' \in BOOLEAN
          /\ UNCHANGED <<reconnectAttempts, failures, viewVars, joinVars, roomKeys, tasks,
                         up, down, srvVars, typed, histVars>>
      BY <1>4 DEF Reconnect
    <2> QED
      BY <2>1, <2>2 DEF TypeOK
  <1> QED
    BY <1>2, <1>3, <1>4 DEF Dialing

LEMMA TypeServe ==
    ASSUME WebClientAssumption, TypeOK, Serve
    PROVE  TypeOK'
  <1> USE DEF netVars, viewVars, joinVars, srvVars, histVars
  <1> DEFINE SrvT == [hello : BOOLEAN, rooms : SUBSET ServerRooms]
             SavedT == [kept : BOOLEAN, rooms : SUBSET ServerRooms]
  <1>1. ASSUME NEW op, Receive(op), serverFrame, down' \in Seq(Answers), srv' \in SrvT,
               saved' \in SavedT, refused' \subseteq Rooms, UNCHANGED <<bare, early, hasty, doubled>>
        PROVE  TypeOK'
    BY <1>1, Received DEF TypeOK, serverFrame
  <1>2. /\ srv \in SrvT /\ saved \in SavedT /\ refused \subseteq Rooms
        /\ down \in Seq(Answers) /\ Lobby \in ServerRooms
    BY DEF TypeOK, ServerRooms
  <1>3. CASE HelloRestored
    <2>1. PICK r \in SUBSET ServerRooms :
            /\ srv' = [hello |-> TRUE, rooms |-> r]
            /\ Tell([op |-> "session_restored", rooms |-> r])
      BY <1>2, <1>3 DEF HelloRestored
    <2>2. down' \in Seq(Answers)
      BY <2>1, Told, AnswersTyped
    <2> QED
      BY <1>1, <1>2, <1>3, <2>1, <2>2 DEF HelloRestored
  <1>4. CASE HelloNew
    <2>1. PICK r \in SUBSET {Lobby} : srv' = [hello |-> TRUE, rooms |-> r]
      BY <1>4 DEF HelloNew
    <2>2. down' \in Seq(Answers)
      BY <1>4, Told, AnswersTyped DEF HelloNew
    <2>3. srv' \in SrvT /\ saved' \in SavedT
      BY <1>2, <1>4, <2>1 DEF HelloNew
    <2> QED
      BY <1>1, <1>2, <1>4, <2>2, <2>3 DEF HelloNew
  <1>5. CASE ServeChat
    BY <1>1, <1>2, <1>5 DEF ServeChat
  <1>6. CASE ServeLogout
    BY <1>1, <1>2, <1>6 DEF ServeLogout, NoRecord
  <1> DEFINE m == Head(up)
  <1>7. CASE ServeJoin(m)
    <2>1. m.op \in {"join", "create"} /\ Receive(m.op)
      BY <1>7 DEF ServeJoin
    <2>2. m.room \in Rooms
      BY <2>1, Received, MessagesTyped
    <2>3. \/ /\ m.room \in ServerRooms
             /\ srv' = [srv EXCEPT !.rooms = @ \cup {m.room}] /\ UNCHANGED <<down, refused>>
          \/ refused' = refused \cup {m.room} /\ UNCHANGED <<srv, down>>
      BY <1>7 DEF ServeJoin
    <2>4. UNCHANGED <<saved, bare, early, hasty, doubled>> /\ serverFrame
      BY <1>7 DEF ServeJoin
    <2> HIDE DEF m
    <2>5. srv' \in SrvT /\ refused' \subseteq Rooms /\ down' \in Seq(Answers)
      BY <1>2, <2>2, <2>3
    <2> QED
      BY <1>1, <1>2, <2>1, <2>4, <2>5
  <1>8. CASE PasswordRequired(m)
    <2>1. m.room \in Rooms
      BY <1>8, Received, MessagesTyped DEF PasswordRequired
    <2>2. down' \in Seq(Answers)
      BY <1>8, Told, AnswersTyped DEF PasswordRequired
    <2>3. Receive("join") /\ refused' = refused \cup {m.room}
          /\ UNCHANGED <<srvVars, bare, early, hasty, doubled>> /\ serverFrame
      BY <1>8 DEF PasswordRequired
    <2> HIDE DEF m
    <2> QED
      BY <1>1, <1>2, <2>1, <2>2, <2>3
  <1>9. CASE ServePart(m)
    <2>1. srv' \in SrvT
      BY <1>2, <1>9 DEF ServePart
    <2> QED
      BY <1>1, <1>2, <1>9, <2>1 DEF ServePart
  <1> QED
    BY <1>3, <1>4, <1>5, <1>6, <1>7, <1>8, <1>9 DEF Serve

Answering == session_restored \/ session_new \/ password_required

LEMMA TypeAnswering ==
    ASSUME WebClientAssumption, TypeOK, Answering
    PROVE  TypeOK'
  <1> USE DEF netVars, viewVars, joinVars, srvVars, histVars
  <1>1. PICK op : Handle(op) /\ handleFrame
    BY DEF Answering, session_restored, session_new, password_required
  <1>2. down' \in Seq(Answers) /\ down # <<>>
    BY <1>1, Handled
  <1>3. currentRoom' \in Rooms /\ joinedRooms' \subseteq Rooms
    <2>1. CASE session_restored
      <3>1. Head(down).rooms \in SUBSET ServerRooms
        BY <2>1, Handled, AnswersTyped DEF session_restored
      <3> QED
        BY <2>1, <3>1 DEF session_restored, TypeOK, Rooms, ServerRooms
    <2>2. CASE ~session_restored
      BY <2>2 DEF Answering, session_new, password_required, TypeOK
    <2> QED
      BY <2>1, <2>2
  <1>4. {pendingPrivateJoin', lastJoinAttempt'} \subseteq Rooms \cup {NoRoom}
    BY DEF Answering, session_restored, session_new, password_required, TypeOK
  <1>5. socket = "open"
    BY <1>2 DEF TypeOK
  <1>6. UNCHANGED <<netVars, roomKeys, tasks, up, srvVars, typed, histVars>>
    BY <1>1 DEF handleFrame
  <1> QED
    BY <1>2, <1>3, <1>4, <1>5, <1>6 DEF TypeOK

Resuming(i) == KeyDerived(i) \/ Encrypted(i) \/ Thrown(i)

LEMMA TypeResuming ==
    ASSUME WebClientAssumption, TypeOK, NEW i \in DOMAIN tasks, Resuming(i)
    PROVE  TypeOK'
  <1> USE DEF netVars, viewVars, joinVars, srvVars, histVars
  <1>1. Resume(i)
    BY DEF Resuming, KeyDerived, Encrypted, Thrown
  <1>2. tasks[i] \in Tasks /\ tasks' \in Seq(Tasks)
    BY <1>1, Resumed
  <1>3. tasks[i].room \in Rooms /\ (tasks[i].op # "chat" => tasks[i].name \in Rooms)
    BY <1>2, TasksTyped
  <1>4. CASE Thrown(i)
    BY <1>1, <1>2, <1>4 DEF Thrown, Resume, TypeOK
  <1>5. CASE Encrypted(i)
    <2>1. ChatMsg(currentRoom, tasks[i].room, tasks[i].enc) \in Messages
      BY <1>2, <1>3, <1>5, TasksTyped, MessagesTyped DEF Encrypted, TypeOK
    <2>2. up' \in Seq(Messages) /\ (socket # "open" => up' = up)
      BY <1>5, <2>1, Sent DEF Encrypted
    <2>3. UNCHANGED <<netVars, down, srvVars, typed, histVars, viewVars, joinVars, roomKeys>>
      BY <1>1, <1>5 DEF Encrypted, Resume
    <2> QED
      BY <1>2, <2>2, <2>3 DEF TypeOK
  <1>6. CASE KeyDerived(i)
    <2> DEFINE r == tasks[i].room
               m == IF tasks[i].op = "create" THEN CreateMsg(tasks[i].name) ELSE JoinMsg(r, TRUE)
    <2>1. m \in Messages /\ m.op \in {"join", "create"}
      BY <1>3, <1>6, MessagesTyped DEF KeyDerived, CreateMsg, JoinMsg
    <2>2. /\ Ask(r, m) /\ roomKeys' = roomKeys \cup {r} /\ Activate(r)
          /\ lastJoinAttempt' \in {r, lastJoinAttempt} /\ UNCHANGED pendingPrivateJoin
          /\ UNCHANGED <<netVars, down, srvVars, typed>>
      BY <1>1, <1>6 DEF KeyDerived, Resume
    <2> HIDE DEF r, m
    <2>3. /\ up' \in Seq(Messages) /\ (socket # "open" => up' = up)
          /\ refused' \cup bare' \cup early' \cup hasty' \cup doubled' \subseteq Rooms
      BY <2>1, <2>2, Asked, Sent
    <2>4. r \in Rooms
      BY <1>3 DEF r
    <2> QED
      BY <1>2, <2>2, <2>3, <2>4 DEF TypeOK, Activate
  <1> QED
    BY <1>4, <1>5, <1>6 DEF Resuming

\* The rooms that a line names are rooms the page may show, and the server's.
LEMMA TypedRooms ==
    ASSUME WebClientAssumption, Typing
    PROVE  \/ TypePassword \/ TypeLine \/ TypeLogout
           \/ TypeAscii \/ TypeRoll \/ TypeEmote \/ TypeTrivia \/ TypeList \/ TypeUsers
           \/ TypeBoards
           \/ \E r \in Rooms : TypeJoin(r) \/ TypeRooms(r) \/ TypePart(r) \/ TypePartBare(r)
           \/ \E n \in Rooms : \E r \in Shown(n) :
                TypeCreate(r, n) \/ \E op \in {"join", "create"} : TypePrivate(op, r, n)
  <1>1. Names \subseteq Rooms /\ ServerRooms \subseteq Rooms /\ \A n \in Names : n \in Shown(n)
    BY MessagesTyped, ShownIs
  <1> QED
    BY <1>1 DEF Typing

\* What one line typed can do to the page: the message it sends, if any; the
\* handler it leaves waiting, if any; the rooms it shows.
LEMMA TypeTyping ==
    ASSUME WebClientAssumption, TypeOK, Typing
    PROVE  TypeOK'
  <1> USE DEF netVars, viewVars, joinVars, srvVars, histVars
  <1>1. typed' \in Nat /\ typeFrame
    <2>1. Type /\ typeFrame
      BY DEF Typing, TypePassword, TypeLine, TypeLogout, TypeAscii, TypeRoll, TypeEmote, SayPublic,
           TypeTrivia, TypeList, TypeUsers, TypeBoards, Command, TypeJoin, TypeRooms, TypePart,
           TypePartBare, TypeCreate, TypePrivate
    <2> QED
      BY <2>1 DEF Type, TypeOK
  <1>2. /\ Lobby \in Rooms /\ currentRoom \in Rooms /\ joinedRooms \subseteq Rooms
        /\ roomKeys \subseteq Rooms /\ ServerRooms \subseteq Rooms /\ Names \subseteq Rooms
        /\ refused \cup bare \cup early \cup hasty \cup doubled \subseteq Rooms
        /\ {pendingPrivateJoin, lastJoinAttempt} \subseteq Rooms \cup {NoRoom}
        /\ tasks \in Seq(Tasks) /\ up \in Seq(Messages)
        /\ saved \in [kept : BOOLEAN, rooms : SUBSET ServerRooms]
    BY DEF TypeOK, Rooms, ServerRooms
  <1>3. ASSUME currentRoom' \in Rooms, joinedRooms' \subseteq Rooms, roomKeys' \subseteq Rooms,
               {pendingPrivateJoin', lastJoinAttempt'} \subseteq Rooms \cup {NoRoom},
               tasks' \in Seq(Tasks),
               refused' \cup bare' \cup early' \cup hasty' \cup doubled' \subseteq Rooms,
               saved' \in [kept : BOOLEAN, rooms : SUBSET ServerRooms],
               up' = up \/ \E m \in Messages : Send(m)
        PROVE  TypeOK'
    <2>1. up' \in Seq(Messages) /\ (socket # "open" => up' = up)
      BY <1>2, <1>3, Sent
    <2> QED
      BY <1>1, <1>3, <2>1 DEF TypeOK, typeFrame
  <1>4. CASE TypePassword
    <2>1. [op |-> "password", room |-> pendingPrivateJoin, name |-> pendingPrivateJoin] \in Tasks
      BY <1>2, <1>4, TasksTyped, ShownIs DEF TypePassword, NoPrompt
    <2>2. tasks' \in Seq(Tasks)
      BY <1>2, <1>4, <2>1, AppendProperties DEF TypePassword, deriveKey
    <2> QED
      BY <1>2, <1>3, <1>4, <2>2 DEF TypePassword
  <1>5. CASE TypeLine
    <2>1. [op |-> "chat", room |-> currentRoom, enc |-> TRUE] \in Tasks
      BY <1>2, TasksTyped
    <2>2. ChatMsg(currentRoom, currentRoom, FALSE) \in Messages
      BY <1>2, MessagesTyped
    <2>3. tasks' \in Seq(Tasks) /\ (up' = up \/ \E m \in Messages : Send(m))
      <3>1. CASE Later(TRUE)
        BY <1>2, <2>1, <3>1, AppendProperties DEF Later, encryptText
      <3>2. CASE SayPlain
        BY <1>2, <2>2, <3>2 DEF SayPlain
      <3> QED
        BY <1>5, <3>1, <3>2 DEF TypeLine
    <2> QED
      BY <1>2, <1>3, <1>5, <2>3 DEF TypeLine
  <1>6. CASE TypeLogout
    <2>1. saved' \in [kept : BOOLEAN, rooms : SUBSET ServerRooms]
      BY <1>2, <1>6 DEF TypeLogout, NoRecord
    <2> QED
      BY <1>2, <1>3, <1>6, <2>1, MessagesTyped DEF TypeLogout
  <1>7. CASE \/ TypeAscii \/ TypeRoll \/ TypeEmote \/ TypeTrivia \/ TypeList \/ TypeUsers
             \/ TypeBoards
    <2>1. PICK m \in Messages : Command(m)
      BY <1>2, <1>7, MessagesTyped
      DEF TypeAscii, TypeRoll, TypeEmote, SayPublic, TypeTrivia, TypeList, TypeUsers, TypeBoards
    <2> QED
      BY <1>2, <1>3, <2>1 DEF Command
  <1>8. ASSUME NEW n \in Rooms, NEW r \in Shown(n), TypeJoin(r) \/ TypeRooms(r) \/ TypeCreate(r, n)
        PROVE  TypeOK'
    <2>0. r \in Rooms
      BY ShownIs
    <2>1. /\ JoinMsg(r, FALSE) \in Messages /\ JoinMsg(r, FALSE).op = "join"
          /\ CreateMsg(n) \in Messages /\ CreateMsg(n).op = "create"
      BY <2>0, MessagesTyped DEF JoinMsg, CreateMsg
    <2>2. /\ up' = up \/ \E m \in Messages : Send(m)
          /\ refused' \cup bare' \cup early' \cup hasty' \cup doubled' \subseteq Rooms
      <3>1. UNCHANGED <<up, histVars>> \/ Ask(r, JoinMsg(r, FALSE)) \/ Ask(r, CreateMsg(n))
        BY <1>8 DEF TypeJoin, TypeRooms, TypeCreate
      <3> QED
        BY <1>2, <2>1, <3>1, Asked
    <2>3. Activate(r) /\ lastJoinAttempt' \in {r, lastJoinAttempt}
          /\ UNCHANGED <<pendingPrivateJoin, roomKeys, tasks, saved>>
      BY <1>8 DEF TypeJoin, TypeRooms, TypeCreate
    <2> QED
      BY <1>2, <1>3, <2>0, <2>2, <2>3 DEF Activate
  <1>9. ASSUME NEW r \in Rooms, TypePart(r) \/ TypePartBare(r)
        PROVE  TypeOK'
    <2>1. Send([op |-> "part", room |-> r]) /\ [op |-> "part", room |-> r] \in Messages
      BY <1>9, MessagesTyped DEF TypePart, TypePartBare
    <2>2. /\ refused' \cup bare' \cup early' \cup hasty' \cup doubled' \subseteq Rooms
          /\ UNCHANGED <<joinVars, roomKeys, tasks, saved>>
      BY <1>2, <1>9 DEF TypePart, TypePartBare
    <2>3. currentRoom' \in Rooms /\ joinedRooms' \subseteq Rooms
      BY <1>2, <1>9 DEF TypePart, TypePartBare, PartView
    <2> QED
      BY <1>2, <1>3, <2>1, <2>2, <2>3
  <1>10. ASSUME NEW n \in Rooms, NEW r \in Shown(n), NEW op \in {"join", "create"},
                TypePrivate(op, r, n)
         PROVE  TypeOK'
    <2>1. [op |-> op, room |-> r, name |-> n] \in Tasks
      BY TasksTyped
    <2>2. tasks' \in Seq(Tasks)
      BY <1>2, <1>10, <2>1, AppendProperties DEF TypePrivate, deriveKey
    <2> QED
      BY <1>2, <1>3, <1>10, <2>2 DEF TypePrivate
  <1> QED
    BY <1>2, <1>4, <1>5, <1>6, <1>7, <1>8, <1>9, <1>10, TypedRooms, ShownIs

-----------------------------------------------------------------------------
(* The greeting *)

Straight(m) == m.op = "chat" => m.room = m.from \/ m.enc

MaySay(m) == m.op # "hello" /\ (Waiting => Straight(m)) /\ Send(m)

\* Whatever is typed, and whatever goes on after an await, the page says one thing at
\* most: no greeting, and no line for another room but a ciphertext.
LEMMA Says ==
    ASSUME WebClientAssumption, TypeOK, Typing \/ \E i \in DOMAIN tasks : Resuming(i)
    PROVE  /\ UNCHANGED <<socket, down, srv>>
           /\ up' = up \/ \E m \in Messages : MaySay(m)
  <1> USE DEF netVars, viewVars, joinVars, srvVars, histVars
  <1> USE DEF JoinMsg, CreateMsg, ChatMsg, MaySay, Straight
  <1>1. currentRoom \in Rooms
    BY DEF TypeOK
  <1> DEFINE Goal == /\ UNCHANGED <<socket, down, srv>>
                     /\ up' = up \/ \E m \in Messages : MaySay(m)
  <1>2. CASE TypePassword
    BY <1>2 DEF TypePassword, typeFrame
  <1>3. CASE TypeLine
    <2>1. up' = up \/ Send(ChatMsg(currentRoom, currentRoom, FALSE))
      BY <1>3 DEF TypeLine, Later, SayPlain
    <2> QED
      BY <1>1, <1>3, <2>1, MessagesTyped DEF TypeLine, typeFrame
  <1>4. CASE TypeLogout
    BY <1>4, MessagesTyped DEF TypeLogout, typeFrame
  <1>5. CASE \/ TypeAscii \/ TypeRoll \/ TypeEmote \/ TypeTrivia \/ TypeList \/ TypeUsers
             \/ TypeBoards
    BY <1>1, <1>5, MessagesTyped
    DEF TypeAscii, TypeRoll, TypeEmote, SayPublic, TypeTrivia, TypeList, TypeUsers, TypeBoards,
        Command, typeFrame
  <1>6. ASSUME NEW n \in Rooms, NEW r \in Rooms, TypeJoin(r) \/ TypeRooms(r) \/ TypeCreate(r, n)
        PROVE  Goal
    <2>1. up' = up \/ Send(JoinMsg(r, FALSE)) \/ Send(CreateMsg(n))
      BY <1>6 DEF TypeJoin, TypeRooms, TypeCreate, Ask
    <2> QED
      BY <1>6, <2>1, MessagesTyped DEF TypeJoin, TypeRooms, TypeCreate, typeFrame
  <1>7. ASSUME NEW r \in Rooms, TypePart(r) \/ TypePartBare(r)
        PROVE  Goal
    BY <1>7, MessagesTyped DEF TypePart, TypePartBare, typeFrame
  <1>8. ASSUME NEW n, NEW r, NEW op, TypePrivate(op, r, n)
        PROVE  UNCHANGED <<socket, down, srv, up>>
    BY <1>8 DEF TypePrivate, typeFrame
  <1>9. CASE Typing
    BY <1>2, <1>3, <1>4, <1>5, <1>6, <1>7, <1>8, <1>9, TypedRooms, ShownIs
  <1>10. ASSUME NEW i \in DOMAIN tasks, Resuming(i)
         PROVE  Goal
    <2>1. Resume(i) /\ UNCHANGED <<socket, down, srv>>
      BY <1>10 DEF Resuming, KeyDerived, Encrypted, Thrown, Resume
    <2>2. tasks[i] \in Tasks
      BY <2>1, Resumed
    <2>3. CASE Thrown(i)
      BY <2>1, <2>3 DEF Thrown
    <2>4. CASE Encrypted(i)
      <3>1. ChatMsg(currentRoom, tasks[i].room, tasks[i].enc) \in Messages
        BY <1>1, <2>2, <2>4, TasksTyped, MessagesTyped DEF Encrypted
      <3>2. Waiting => tasks[i].enc
        BY <2>1, <2>4, Resumed DEF Encrypted, Waiting
      <3> QED
        BY <2>1, <2>4, <3>1, <3>2 DEF Encrypted
    <2>5. CASE KeyDerived(i)
      <3>0. tasks[i].op # "chat"
        BY <2>5 DEF KeyDerived
      <3>1. JoinMsg(tasks[i].room, TRUE) \in Messages /\ CreateMsg(tasks[i].name) \in Messages
        BY <2>2, <3>0, TasksTyped, MessagesTyped
      <3>2. Send(JoinMsg(tasks[i].room, TRUE)) \/ Send(CreateMsg(tasks[i].name))
        BY <2>5 DEF KeyDerived, Ask
      <3> QED
        BY <2>1, <3>1, <3>2
    <2> QED
      BY <1>10, <2>3, <2>4, <2>5 DEF Resuming
  <1> QED
    BY <1>9, <1>10

\* What the server does with a message, but for its rooms.
LEMMA Serves ==
    ASSUME TypeOK, Greeting, Serve
    PROVE  /\ serverFrame /\ srv'.hello
           /\ \E op : /\ Receive(op)
                      /\ op = "hello" <=> ~srv.hello
                      /\ op = "hello" <=> HelloRestored \/ HelloNew
           /\ \A i \in 1 .. Len(up') : up'[i].op # "hello"
  <1>1. ASSUME NEW op, Receive(op)
        PROVE  \A i \in 1 .. Len(up') : up'[i].op # "hello"
    <2> SUFFICES ASSUME NEW i \in 1 .. Len(up')
                 PROVE  up'[i].op # "hello"
      OBVIOUS
    <2>1. up'[i] = up[i + 1] /\ i + 1 \in 1 .. Len(up) /\ i + 1 # 1
      BY <1>1, Received
    <2> QED
      BY <2>1 DEF Greeting
  <1>2. CASE HelloRestored \/ HelloNew
    <2>1. Receive("hello") /\ serverFrame /\ srv'.hello
      <3>1. CASE HelloRestored
        BY <3>1 DEF HelloRestored
      <3>2. CASE HelloNew
        BY <3>2 DEF HelloNew
      <3> QED
        BY <1>2, <3>1, <3>2
    <2>2. up[1].op = "hello" /\ 1 \in 1 .. Len(up)
      BY <2>1, Received
    <2>3. ~srv.hello
      BY <2>2 DEF Greeting
    <2> QED
      BY <1>1, <1>2, <2>1, <2>3
  <1>3. CASE ~(HelloRestored \/ HelloNew)
    <2>1. PICK op : Receive(op) /\ op # "hello" /\ serverFrame
      BY <1>3 DEF Serve, ServeChat, ServeLogout, ServeJoin, PasswordRequired, ServePart
    <2>2. srv.hello
      BY <1>3 DEF Serve, ServeChat, ServeLogout, ServeJoin, PasswordRequired, ServePart
    <2>3. srv'.hello
      <3>1. srv' = srv \/ \E r : srv' = [srv EXCEPT !.rooms = r]
        BY <1>3
        DEF Serve, ServeChat, ServeLogout, ServeJoin, PasswordRequired, ServePart, srvVars
      <3> QED
        BY <2>2, <3>1 DEF TypeOK
    <2> QED
      BY <1>1, <1>3, <2>1, <2>2, <2>3
  <1> QED
    BY <1>2, <1>3

LEMMA GreetingStep ==
    ASSUME WebClientAssumption, Base, Next
    PROVE  Base'
  <1> TypeOK /\ Greeting
    BY DEF Base
  <1> USE DEF netVars, srvVars
  <1>1. CASE Dialing
    <2>1. ASSUME onopen
          PROVE  Greeting'
      <3>1. up = <<>> /\ down' = <<>> /\ up' = Append(up, Hello)
        BY <2>1 DEF onopen, TypeOK, Greet
      <3>2. up' = <<Hello>>
        BY <3>1
      <3>3. Len(up') = 1 /\ up'[1].op = "hello" /\ up' # <<>>
        BY <3>2 DEF Hello
      <3>4. ~srv'.hello /\ srv'.rooms = {}
        BY <2>1 DEF onopen, TypeOK, NoServer
      <3> QED
        BY <3>1, <3>3, <3>4 DEF Greeting
    <2>2. ASSUME onclose
          PROVE  Greeting'
      <3>1. Len(up') = 0 /\ socket' = "closed"
        BY <2>2, EmptySeq DEF onclose
      <3> QED
        BY <3>1 DEF Greeting
    <2>3. ASSUME Reconnect
          PROVE  Greeting'
      BY <2>3 DEF Reconnect, Greeting
    <2> QED
      BY <1>1, <2>1, <2>2, <2>3, TypeDialing DEF Dialing, Base
  <1>2. CASE Serve
    BY <1>2, Serves, TypeServe DEF Base, Greeting, serverFrame
  <1>3. CASE Answering
    <2>1. PICK op : Handle(op) /\ handleFrame
      BY <1>3 DEF Answering, session_restored, session_new, password_required
    <2>2. UNCHANGED <<socket, up, srv>> /\ down # <<>> /\ socket = "open"
      BY <2>1, Handled DEF handleFrame, TypeOK
    <2>3. Greeting'
      BY <2>2 DEF Greeting
    <2> QED
      BY <1>3, <2>3, TypeAnswering DEF Base
  <1>4. CASE Typing \/ \E i \in DOMAIN tasks : Resuming(i)
    <2>1. TypeOK'
      BY <1>4, TypeTyping, TypeResuming
    <2>2. /\ UNCHANGED <<socket, down, srv>>
          /\ up' = up \/ \E m \in Messages : m.op # "hello" /\ Send(m)
      BY <1>4, Says DEF MaySay
    <2>3. CASE up' = up
      BY <2>1, <2>2, <2>3 DEF Base, Greeting
    <2>4. CASE up' # up
      <3>1. PICK m \in Messages : m.op # "hello" /\ Send(m)
        BY <2>2, <2>4
      <3>2. /\ socket = "open" /\ Len(up) \in Nat /\ Len(up') = Len(up) + 1 /\ up' # <<>>
            /\ up'[Len(up) + 1] = m /\ \A i \in 1 .. Len(up) : up'[i] = up[i]
        BY <2>4, <3>1, Sent
      <3>3. \A i \in 1 .. Len(up') : i \in 1 .. Len(up) \/ i = Len(up) + 1
        BY <3>2
      <3>4. \A i \in 1 .. Len(up') : up'[i].op = "hello" => i = 1 /\ ~srv'.hello
        BY <2>2, <3>1, <3>2, <3>3 DEF Greeting
      <3>5. ~srv.hello => up'[1].op = "hello"
        <4>1. up # <<>> => 1 \in 1 .. Len(up)
          BY EmptySeq, <3>2 DEF TypeOK
        <4> QED
          BY <3>2, <4>1 DEF Greeting
      <3> QED
        BY <2>1, <2>2, <3>2, <3>4, <3>5 DEF Base, Greeting
    <2> QED
      BY <2>3, <2>4
  <1> QED
    BY <1>1, <1>2, <1>3, <1>4 DEF Next, Page, Dialing, Answering, Resuming

-----------------------------------------------------------------------------
(* The reconnects *)

LEMMA RetriesStep ==
    ASSUME WebClientAssumption, TypeOK, Retries, Next
    PROVE  Retries'
  <1> USE DEF netVars
  <1>1. /\ MaxReconnects \in Nat /\ failures \in Nat /\ reconnectAttempts \in 0 .. MaxReconnects
        /\ reconnectAttempts \in Nat /\ reconnectAttempts <= MaxReconnects
    BY DEF WebClientAssumption, TypeOK
  <1>2. CASE onopen
    BY <1>1, <1>2 DEF onopen, ResetAttempts, Retries, OfflineIsExplained
  <1>3. CASE onclose
    <2>1. /\ socket \in {"connecting", "open"} /\ socket' = "closed" /\ ~timer
          /\ failures' = IF socket = "open" THEN 0 ELSE failures + 1
          /\ scheduleReconnect
      BY <1>3 DEF onclose, Retries
    <2>2. reconnectAttempts <= failures'
      BY <1>1, <2>1 DEF Retries
    <2>3. failures' \in Nat
      BY <1>1, <2>1
    <2>4. CASE reconnectAttempts >= MaxReconnects
      <3>1. ~timer' /\ reconnectAttempts' = reconnectAttempts
        BY <2>1, <2>4 DEF scheduleReconnect
      <3> QED
        BY <1>1, <2>1, <2>2, <2>3, <2>4, <3>1 DEF Retries, OfflineIsExplained
    <2>5. CASE ~(reconnectAttempts >= MaxReconnects)
      <3>1. timer' /\ reconnectAttempts' = reconnectAttempts + 1
        BY <2>1, <2>5 DEF scheduleReconnect
      <3> QED
        BY <1>1, <2>1, <2>2, <2>3, <3>1 DEF Retries, OfflineIsExplained
    <2> QED
      BY <2>4, <2>5
  <1>4. CASE Reconnect
    BY <1>1, <1>4 DEF Reconnect, Retries, OfflineIsExplained
  <1>5. CASE Serve
    <2>1. UNCHANGED <<socket, timer, reconnectAttempts, failures>>
      BY <1>5 DEF Serve, HelloRestored, HelloNew, ServeChat, ServeLogout, ServeJoin,
             PasswordRequired, ServePart, serverFrame
    <2> QED
      BY <2>1 DEF Retries, OfflineIsExplained
  <1>6. CASE Answering
    <2>1. UNCHANGED <<socket, timer, reconnectAttempts, failures>>
      BY <1>6 DEF Answering, session_restored, session_new, password_required, handleFrame
    <2> QED
      BY <2>1 DEF Retries, OfflineIsExplained
  <1>7. CASE Typing
    <2>1. UNCHANGED <<socket, timer, reconnectAttempts, failures>>
      BY <1>7 DEF Typing, TypePassword, TypeLine, TypeLogout, TypeAscii, TypeRoll, TypeEmote,
             SayPublic, TypeTrivia, TypeList, TypeUsers, TypeBoards, Command, TypeJoin, TypeRooms,
             TypePart, TypePartBare, TypeCreate, TypePrivate, typeFrame
    <2> QED
      BY <2>1 DEF Retries, OfflineIsExplained
  <1>8. CASE \E i \in DOMAIN tasks : Resuming(i)
    <2>1. UNCHANGED <<socket, timer, reconnectAttempts, failures>>
      BY <1>8 DEF Resuming, KeyDerived, Encrypted, Thrown, Resume
    <2> QED
      BY <2>1 DEF Retries, OfflineIsExplained
  <1> QED
    BY <1>2, <1>3, <1>4, <1>5, <1>6, <1>7, <1>8 DEF Next, Page, Answering, Resuming

-----------------------------------------------------------------------------
(* The lines *)

Calm == \A i \in 1 .. Len(up) : Straight(up[i])

Ready == \A i \in 1 .. Len(tasks) : tasks[i].op = "chat" => tasks[i].enc

LEMMA CalmIs ==
    ASSUME TypeOK
    PROVE  Waiting <=> Calm /\ Ready
  <1>1. DOMAIN up = 1 .. Len(up)
    BY LenProperties DEF TypeOK
  <1> QED
    BY <1>1 DEF Waiting, Calm, Ready, Straight, AstrayOnlyEncrypted

\* A handler that waits for a line has it encrypted.
LEMMA ReadyTyping ==
    ASSUME WebClientAssumption, TypeOK, Ready, Typing
    PROVE  Ready'
  <1>1. ASSUME NEW k \in Tasks, k.op = "chat" => k.enc, tasks' = Append(tasks, k)
        PROVE  Ready'
    <2>1. tasks \in Seq(Tasks)
      BY DEF TypeOK
    <2>2. /\ Len(tasks) \in Nat /\ Len(tasks') = Len(tasks) + 1 /\ tasks'[Len(tasks) + 1] = k
          /\ \A i \in 1 .. Len(tasks) : tasks'[i] = tasks[i]
      BY <1>1, <2>1, AppendProperties, LenProperties
    <2>3. \A i \in 1 .. Len(tasks') : i \in 1 .. Len(tasks) \/ i = Len(tasks) + 1
      BY <2>2
    <2> QED
      BY <1>1, <2>2, <2>3 DEF Ready
  <1>2. ASSUME tasks' = tasks
        PROVE  Ready'
    BY <1>2 DEF Ready
  <1>3. CASE TypePassword
    <2>1. pendingPrivateJoin \in Rooms
      BY <1>3 DEF TypePassword, NoPrompt, TypeOK
    <2>2. [op |-> "password", room |-> pendingPrivateJoin, name |-> pendingPrivateJoin] \in Tasks
      BY <2>1, TasksTyped, ShownIs
    <2> QED
      BY <1>1, <1>3, <2>2 DEF TypePassword, deriveKey
  <1>4. CASE TypeLine
    BY <1>1, <1>2, <1>4, TasksTyped DEF TypeLine, Later, encryptText, SayPlain, TypeOK
  <1>5. ASSUME NEW n \in Rooms, NEW r \in Shown(n), NEW op \in {"join", "create"},
               TypePrivate(op, r, n)
        PROVE  Ready'
    BY <1>1, <1>5, TasksTyped DEF TypePrivate, deriveKey
  <1>6. CASE ~ \E n \in Rooms : \E r \in Shown(n), op \in {"join", "create"} : TypePrivate(op, r, n)
    <2>1. TypePassword \/ TypeLine \/ UNCHANGED tasks
      BY <1>6, TypedRooms DEF TypeLogout, TypeAscii, TypeRoll, TypeEmote,
             SayPublic, TypeTrivia, TypeList, TypeUsers, TypeBoards, Command, TypeJoin, TypeRooms,
             TypePart, TypePartBare, TypeCreate
    <2> QED
      BY <1>2, <1>3, <1>4, <2>1
  <1> QED
    BY <1>5, <1>6

LEMMA WaitingStep ==
    ASSUME WebClientAssumption, Base, Waiting, Next
    PROVE  Waiting'
  <1> TypeOK /\ Greeting /\ TypeOK' /\ Calm /\ Ready
    BY GreetingStep, CalmIs DEF Base
  <1> SUFFICES Calm' /\ Ready'
    <2>1. DOMAIN up' = 1 .. Len(up')
      BY LenProperties DEF TypeOK
    <2> QED
      BY <2>1 DEF Waiting, Calm, Ready, Straight, AstrayOnlyEncrypted
  <1> USE DEF netVars, srvVars
  <1>1. CASE Dialing
    <2>1. UNCHANGED tasks /\ (up' = up \/ up' = <<>> \/ up' = <<Hello>>)
      <3>1. onopen => up = <<>>
        BY DEF onopen, TypeOK
      <3>2. onopen => up' = <<Hello>>
        BY <3>1 DEF onopen, Greet
      <3> QED
        BY <1>1, <3>2 DEF Dialing, onopen, onclose, Reconnect
    <2>2. CASE up' = <<Hello>>
      <3>1. Len(up') = 1 /\ up'[1].op = "hello"
        BY <2>2 DEF Hello
      <3> QED
        BY <2>1, <3>1 DEF Calm, Ready, Straight
    <2> QED
      BY <2>1, <2>2, EmptySeq DEF Calm, Ready
  <1>2. CASE Serve
    <2>1. UNCHANGED tasks /\ \E op : Receive(op)
      BY <1>2, Serves DEF serverFrame
    <2>2. \A i \in 1 .. Len(up') : i + 1 \in 1 .. Len(up) /\ up'[i] = up[i + 1]
      BY <2>1, Received
    <2> QED
      BY <2>1, <2>2 DEF Calm, Ready
  <1>3. CASE Answering
    <2>1. UNCHANGED <<up, tasks>>
      BY <1>3 DEF Answering, session_restored, session_new, password_required, handleFrame
    <2> QED
      BY <2>1 DEF Calm, Ready
  <1>4. CASE Typing \/ \E i \in DOMAIN tasks : Resuming(i)
    <2>1. Calm'
      <3>1. CASE up' = up
        BY <3>1 DEF Calm
      <3>2. CASE up' # up
        <4>1. PICK m \in Messages : Straight(m) /\ Send(m)
          BY <1>4, <3>2, Says DEF MaySay
        <4>2. /\ Len(up) \in Nat /\ Len(up') = Len(up) + 1
              /\ up'[Len(up) + 1] = m /\ \A i \in 1 .. Len(up) : up'[i] = up[i]
          BY <3>2, <4>1, Sent
        <4>3. \A i \in 1 .. Len(up') : i \in 1 .. Len(up) \/ i = Len(up) + 1
          BY <4>2
        <4> QED
          BY <4>1, <4>2, <4>3 DEF Calm
      <3> QED
        BY <3>1, <3>2
    <2>2. Ready'
      <3>1. CASE Typing
        BY <3>1, ReadyTyping
      <3>2. ASSUME NEW i \in DOMAIN tasks, Resuming(i)
            PROVE  Ready'
        BY <3>2, Resumed DEF Resuming, KeyDerived, Encrypted, Thrown, Ready
      <3> QED
        BY <1>4, <3>1, <3>2
    <2> QED
      BY <2>1, <2>2
  <1> QED
    BY <1>1, <1>2, <1>3, <1>4 DEF Next, Page, Dialing, Answering, Resuming

-----------------------------------------------------------------------------
(* The rooms *)

LEMMA Growing ==
    ASSUME TypeOK, NEW m, up' = Append(up, m), Len(up) \in Nat, Len(up') = Len(up) + 1,
           up'[Len(up) + 1] = m, \A i \in 1 .. Len(up) : up'[i] = up[i]
    PROVE  /\ \A i \in 1 .. Len(up') : i \in 1 .. Len(up) \/ i = Len(up) + 1
           /\ \A i \in 1 .. Len(up) : i \in 1 .. Len(up')
           /\ \A r, k : NoPartAfter(k, r) /\ ~(m.op = "part" /\ m.room = r) => NoPartAfter(k, r)'
  <1>1. \A i \in 1 .. Len(up') : i \in 1 .. Len(up) \/ i = Len(up) + 1
    OBVIOUS
  <1>2. \A i \in 1 .. Len(up) : i \in 1 .. Len(up')
    OBVIOUS
  <1>3. ASSUME NEW r, NEW k, NoPartAfter(k, r), ~(m.op = "part" /\ m.room = r)
        PROVE  NoPartAfter(k, r)'
    BY <1>1, <1>3 DEF NoPartAfter, Parts
  <1> QED
    BY <1>1, <1>2, <1>3

\* A message sent that does not part from a room leaves its account as it was.
LEMMA AccountedSent ==
    ASSUME TypeOK, socket = "open", NEW m \in Messages, Send(m), UNCHANGED srv,
           doubled \subseteq doubled', NEW r, Accounted(r),
           r \in refused \cup bare \cup early => r \in refused' \cup bare' \cup early',
           m.op = "part" /\ m.room = r => r \in bare' \cup early' \cup {Lobby}
    PROVE  Accounted(r)'
  <1>1. /\ up' = Append(up, m) /\ Len(up) \in Nat /\ Len(up') = Len(up) + 1
        /\ up'[Len(up) + 1] = m /\ \A i \in 1 .. Len(up) : up'[i] = up[i]
    BY Sent
  <1> SUFFICES ASSUME WillHave(r), ~(m.op = "part" /\ m.room = r)
               PROVE  WillHave(r)'
    BY DEF Accounted, Mistaken
  <1>2. CASE r \in srv.rooms /\ NoPartAfter(0, r)
    BY <1>1, <1>2, Growing DEF WillHave
  <1>3. ASSUME NEW k \in 1 .. Len(up), Rejoins(k, r), NoPartAfter(k, r)
        PROVE  WillHave(r)'
    <2>1. k \in 1 .. Len(up') /\ up'[k] = up[k] /\ NoPartAfter(k, r)'
      BY <1>1, <1>3, Growing
    <2>2. Rejoins(k, r)'
      BY <1>3, <2>1 DEF Rejoins
    <2> QED
      BY <2>1, <2>2 DEF WillHave
  <1> QED
    BY <1>2, <1>3 DEF WillHave

\* A room that the page asks to join is accounted for.
LEMMA AccountedJoin ==
    ASSUME TypeOK, socket = "open", NEW m \in Messages, Send(m),
           m.op \in {"join", "create"}
    PROVE  Accounted(m.room)'
  <1>1. /\ Len(up) \in Nat /\ Len(up') = Len(up) + 1 /\ up'[Len(up) + 1] = m
    BY Sent
  <1> DEFINE k == Len(up')
  <1>2. k \in 1 .. Len(up') /\ up'[k] = m /\ \A i \in 1 .. Len(up') : i <= k
    BY <1>1
  <1>3. WillHave(m.room)'
    <2>1. Rejoins(Len(up), m.room)' /\ NoPartAfter(Len(up), m.room)'
      BY <1>2 DEF Rejoins, NoPartAfter
    <2> QED
      BY <1>2, <2>1 DEF WillHave
  <1> QED
    BY <1>3 DEF Accounted

\* So does a message read, if the server keeps its rooms but for the one parted, and
\* joins or refuses the one it is asked for.
LEMMA AccountedRead ==
    ASSUME TypeOK, NEW op, Receive(op),
           refused \subseteq refused', UNCHANGED <<bare, early, doubled>>,
           NEW r, Accounted(r),
           ~Parts(1, r) /\ r \in srv.rooms => r \in srv'.rooms,
           Rejoins(1, r) => r \in srv'.rooms \cup refused'
    PROVE  Accounted(r)'
  <1>1. /\ Len(up) \in Nat \ {0} /\ Len(up') = Len(up) - 1
        /\ \A i \in 1 .. Len(up') : up'[i] = up[i + 1]
    BY Received
  <1>2. ASSUME NEW k \in Nat, NoPartAfter(k + 1, r)
        PROVE  NoPartAfter(k, r)'
    <2> SUFFICES ASSUME NEW i \in 1 .. Len(up'), Parts(i, r)'
                 PROVE  i <= k
      BY DEF NoPartAfter
    <2>1. i + 1 \in 1 .. Len(up) /\ up'[i] = up[i + 1]
      BY <1>1
    <2>2. Parts(i + 1, r)
      BY <2>1 DEF Parts
    <2>3. i + 1 <= k + 1
      BY <1>2, <2>1, <2>2 DEF NoPartAfter
    <2> QED
      BY <2>3
  <1>3. CASE r \in srv.rooms /\ NoPartAfter(0, r)
    <2>1. 1 \in 1 .. Len(up) /\ ~(1 <= 0)
      BY <1>1
    <2>2. ~Parts(1, r)
      BY <1>3, <2>1 DEF NoPartAfter
    <2>3. \A i \in 1 .. Len(up) : ~(i <= 0)
      OBVIOUS
    <2>4. NoPartAfter(0 + 1, r)
      BY <1>3, <2>3 DEF NoPartAfter
    <2>5. NoPartAfter(0, r)'
      BY <1>2, <2>4
    <2> QED
      BY <1>3, <2>2, <2>5 DEF Accounted, Mistaken, WillHave
  <1>4. ASSUME NEW k \in 1 .. Len(up), Rejoins(k, r), NoPartAfter(k, r)
        PROVE  Accounted(r)'
    <2>1. CASE k = 1
      <3>1. NoPartAfter(0 + 1, r)
        BY <1>4, <2>1
      <3>2. NoPartAfter(0, r)'
        BY <1>2, <3>1
      <3> QED
        BY <1>4, <2>1, <3>2 DEF Accounted, Mistaken, WillHave
    <2>2. CASE k # 1
      <3> DEFINE j == k - 1
      <3>1. j \in Nat /\ j \in 1 .. Len(up') /\ j + 1 = k
        BY <1>1, <2>2
      <3> HIDE DEF j
      <3>2. NoPartAfter(j, r)' /\ up'[j] = up[k]
        BY <1>1, <1>2, <1>4, <3>1
      <3>3. Rejoins(j, r)'
        BY <1>4, <3>2 DEF Rejoins
      <3> QED
        BY <3>1, <3>2, <3>3 DEF Accounted, Mistaken, WillHave
    <2> QED
      BY <2>1, <2>2
  <1> QED
    BY <1>3, <1>4 DEF Accounted, Mistaken, WillHave

\* What a line typed, or a handler that goes on, does to the rooms of the page: at
\* most one is added, with a join; one removed, with a part; or parted from by
\* another name.
Keeps ==
    /\ Believed' \subseteq Believed \cup {Lobby} /\ joinedRooms \subseteq joinedRooms'
    /\ UNCHANGED histVars
    /\ up' = up \/ \E m \in Messages : m.op \notin {"part", "join", "create"} /\ Send(m)

Enters ==
    \E m \in Messages : \E r \in Shown(m.room) :
        m.op \in {"join", "create"} /\ Ask(r, m) /\ Activate(r)

Leaves(r) ==
    /\ Send([op |-> "part", room |-> r]) /\ Believed' \subseteq (Believed \ {r}) \cup {Lobby}
    /\ joinedRooms' = joinedRooms \ {r} /\ UNCHANGED <<refused, bare, hasty, doubled>>
    /\ early \subseteq early' /\ (socket = "open" /\ ~Answered => r \in early')

LeavesBare(r) ==
    /\ Send([op |-> "part", room |-> r])
    /\ UNCHANGED <<viewVars, refused, early, hasty, doubled>>
    /\ bare \subseteq bare' /\ (socket = "open" => r \in bare')

LEMMA Intents ==
    ASSUME WebClientAssumption, TypeOK, Typing \/ \E i \in DOMAIN tasks : Resuming(i)
    PROVE  Keeps \/ Enters \/ \E r \in Rooms : Leaves(r) \/ LeavesBare(r)
  <1> USE DEF netVars, viewVars, joinVars, srvVars, histVars, Believed
  <1>1. currentRoom \in Rooms
    BY DEF TypeOK
  <1>2. CASE TypePassword
    BY <1>2 DEF TypePassword, Keeps
  <1>3. CASE TypeLine
    <2>1. up' = up \/ Send(ChatMsg(currentRoom, currentRoom, FALSE))
      BY <1>3 DEF TypeLine, Later, SayPlain
    <2>2. ChatMsg(currentRoom, currentRoom, FALSE).op = "chat"
      BY DEF ChatMsg
    <2>3. UNCHANGED <<currentRoom, joinedRooms, histVars>>
      BY <1>3 DEF TypeLine
    <2> QED
      BY <1>1, <2>1, <2>2, <2>3, MessagesTyped DEF Keeps
  <1>4. CASE TypeLogout
    BY <1>4, MessagesTyped DEF TypeLogout, Keeps
  <1>5. CASE \/ TypeAscii \/ TypeRoll \/ TypeEmote \/ TypeTrivia \/ TypeList \/ TypeUsers
             \/ TypeBoards
    <2>1. PICK m \in Messages : m.op \notin {"part", "join", "create"} /\ Command(m)
      BY <1>1, <1>5, MessagesTyped
      DEF TypeAscii, TypeRoll, TypeEmote, SayPublic, TypeTrivia, TypeList, TypeUsers, TypeBoards,
          ChatMsg
    <2> QED
      BY <2>1 DEF Command, Keeps
  <1>6. ASSUME NEW n \in Rooms, NEW r \in Shown(n), Activate(r),
               \/ Ask(r, CreateMsg(n))
               \/ r = n /\ (Ask(r, JoinMsg(r, FALSE)) \/ Ask(r, JoinMsg(r, TRUE)))
        PROVE  Enters
    <2>1. PICK m \in {JoinMsg(n, FALSE), JoinMsg(n, TRUE), CreateMsg(n)} : Ask(r, m)
      BY <1>6
    <2>2. m \in Messages /\ m.op \in {"join", "create"} /\ m.room = n
      <3>1. m \in Messages
        BY <2>1, MessagesTyped
      <3>2. m.op \in {"join", "create"} /\ m.room = n
        BY <2>1 DEF JoinMsg, CreateMsg
      <3> QED
        BY <3>1, <3>2
    <2> QED
      BY <1>6, <2>1, <2>2 DEF Enters
  <1>7. ASSUME NEW n \in Rooms, NEW r \in Shown(n), TypeCreate(r, n)
        PROVE  Enters
    BY <1>6, <1>7 DEF TypeCreate
  <1>8. ASSUME NEW r \in Rooms, TypeJoin(r) \/ TypeRooms(r)
        PROVE  Keeps \/ Enters
    <2>1. r \in Shown(r)
      BY ShownIs
    <2>2. CASE TypeJoin(r)
      BY <1>6, <2>1, <2>2 DEF TypeJoin
    <2>3. CASE TypeRooms(r) /\ r \in joinedRooms
      BY <2>3 DEF TypeRooms, Activate, Keeps
    <2>4. CASE TypeRooms(r) /\ r \notin joinedRooms
      BY <1>6, <2>1, <2>4 DEF TypeRooms
    <2> QED
      BY <1>8, <2>2, <2>3, <2>4
  <1>9. ASSUME NEW r \in Rooms, TypePart(r)
        PROVE  Leaves(r)
    BY <1>9 DEF TypePart, PartView, Leaves
  <1>10. ASSUME NEW r \in Rooms, TypePartBare(r)
         PROVE  LeavesBare(r)
    BY <1>10 DEF TypePartBare, LeavesBare
  <1>11. ASSUME NEW n, NEW r, NEW op, TypePrivate(op, r, n)
         PROVE  Keeps
    BY <1>11 DEF TypePrivate, Keeps
  <1>12. CASE Typing
    BY <1>2, <1>3, <1>4, <1>5, <1>7, <1>8, <1>9, <1>10, <1>11, <1>12, TypedRooms
  <1>13. ASSUME NEW i \in DOMAIN tasks, Resuming(i)
         PROVE  Keeps \/ Enters
    <2>1. Resume(i)
      BY <1>13 DEF Resuming, KeyDerived, Encrypted, Thrown
    <2>2. tasks[i] \in Tasks
      BY <2>1, Resumed
    <2>3. CASE Thrown(i)
      BY <2>1, <2>3 DEF Thrown, Keeps
    <2>4. CASE Encrypted(i)
      <3>1. ChatMsg(currentRoom, tasks[i].room, tasks[i].enc) \in Messages
        BY <1>1, <2>2, <2>4, TasksTyped, MessagesTyped DEF Encrypted
      <3>2. ChatMsg(currentRoom, tasks[i].room, tasks[i].enc).op = "chat"
        BY DEF ChatMsg
      <3>3. UNCHANGED <<currentRoom, joinedRooms, histVars>>
        BY <2>4 DEF Encrypted
      <3> QED
        BY <2>1, <2>4, <3>1, <3>2, <3>3 DEF Encrypted, Keeps
    <2>5. CASE KeyDerived(i)
      <3>1. /\ tasks[i].room \in Rooms /\ tasks[i].name \in Rooms
            /\ tasks[i].room \in Shown(tasks[i].name) /\ tasks[i].room \in Shown(tasks[i].room)
        BY <2>2, <2>5, TasksTyped, ShownIs DEF KeyDerived
      <3>2. /\ Ask(tasks[i].room, JoinMsg(tasks[i].room, TRUE))
               \/ Ask(tasks[i].room, CreateMsg(tasks[i].name))
            /\ Activate(tasks[i].room)
        BY <2>5 DEF KeyDerived
      <3> QED
        BY <1>6, <3>1, <3>2
    <2> QED
      BY <1>13, <2>3, <2>4, <2>5 DEF Resuming
  <1> QED
    BY <1>12, <1>13

\* The rooms of the account change only by a join, a part, or a part by another name.
LEMMA Recorded ==
    ASSUME TypeOK, Keeps \/ Enters \/ \E r \in Rooms : Leaves(r) \/ LeavesBare(r)
    PROVE  /\ doubled \subseteq doubled'
           /\ ~Answered => bare \subseteq bare' /\ early \subseteq early'
  <1> USE DEF histVars
  <1>1. CASE Enters
    <2>1. PICK m \in Messages : \E r \in Shown(m.room) :
             m.op \in {"join", "create"} /\ Ask(r, m)
      BY <1>1 DEF Enters
    <2>2. PICK r \in Shown(m.room) : m.op \in {"join", "create"} /\ Ask(r, m)
      BY <2>1
    <2> QED
      BY <2>2, Asked
  <1>2. CASE ~Enters
    BY <1>2 DEF Keeps, Leaves, LeavesBare
  <1> QED
    BY <1>1, <1>2

LEMMA RoomsSaid ==
    ASSUME WebClientAssumption, TypeOK, RoomsInFlight, socket = "open",
           Typing \/ \E i \in DOMAIN tasks : Resuming(i)
    PROVE  RoomsInFlight'
  <1> USE DEF histVars
  <1>1. UNCHANGED <<socket, down, srv>>
    BY Says
  <1>2. /\ Answered' <=> Answered
        /\ doubled \subseteq doubled'
        /\ ~Answered => bare \subseteq bare' /\ early \subseteq early'
    BY <1>1, Intents, Recorded DEF Answered
  <1>3. ASSUME NEW m \in Messages, Send(m),
               m.op = "part" => /\ ~Answered => m.room \in bare' \cup early'
                                /\ m.room \in Believed' => m.room \in bare' \cup {Lobby},
               \A r \in Believed' : r \in Believed \/ Accounted(r)',
               \A r \in refused \cup bare \cup early :
                 r \in refused' \cup bare' \cup early' \/ Accounted(r)'
        PROVE  RoomsInFlight'
    <2>1. /\ Len(up) \in Nat /\ Len(up') = Len(up) + 1
          /\ up'[Len(up) + 1] = m /\ \A i \in 1 .. Len(up) : up'[i] = up[i]
      BY <1>3, Sent
    <2>2. \A i \in 1 .. Len(up') : i \in 1 .. Len(up) \/ i = Len(up) + 1
      BY <2>1
    <2>3. ASSUME NEW r, Accounted(r),
                 m.op = "part" /\ m.room = r => r \in bare' \cup early' \cup {Lobby}
          PROVE  Accounted(r)'
      <3>1. CASE r \in refused \cup bare \cup early => r \in refused' \cup bare' \cup early'
        BY <1>1, <1>2, <1>3, <2>3, <3>1, AccountedSent
      <3> QED
        BY <1>3, <3>1
    <2>4. ASSUME NEW r \in Believed'
          PROVE  Accounted(r)'
      <3>1. Accounted(r) \/ Accounted(r)'
        BY <1>3, <2>4 DEF RoomsInFlight
      <3> QED
        BY <1>3, <2>3, <2>4, <3>1
    <2>5. ASSUME NEW i \in 1 .. Len(down), down[i].op = "session_restored", NEW r \in down[i].rooms
          PROVE  Accounted(r)'
      <3>1. Accounted(r)
        BY <2>5 DEF RoomsInFlight
      <3>2. ~Answered
        <4>1. DOMAIN down = 1 .. Len(down)
          BY LenProperties DEF TypeOK
        <4> QED
          BY <2>5, <4>1 DEF Answered
      <3> QED
        BY <1>3, <2>3, <3>1, <3>2
    <2>6. ASSUME ~Answered', NEW i \in 1 .. Len(up'), up'[i].op = "part"
          PROVE  up'[i].room \in bare' \cup early'
      <3>1. CASE i \in 1 .. Len(up)
        BY <1>2, <2>1, <2>6, <3>1 DEF RoomsInFlight
      <3>2. CASE i = Len(up) + 1
        BY <1>2, <1>3, <2>1, <2>6, <3>2
      <3> QED
        BY <2>2, <3>1, <3>2
    <2> QED
      BY <1>1, <2>4, <2>5, <2>6 DEF RoomsInFlight
  <1>4. Accounted(Lobby)'
    BY DEF Accounted
  <1>5. CASE Keeps
    <2>1. CASE up' = up
      <3>1. \A r : Accounted(r) => Accounted(r)'
        BY <1>1, <1>5, <2>1 DEF Keeps, Accounted, Mistaken, WillHave, Rejoins, NoPartAfter, Parts
      <3> QED
        BY <1>1, <1>2, <1>4, <1>5, <2>1, <3>1 DEF Keeps, RoomsInFlight
    <2>2. CASE up' # up
      BY <1>3, <1>4, <1>5, <2>2 DEF Keeps
    <2> QED
      BY <2>1, <2>2
  <1>6. CASE Enters
    <2>1. PICK m \in Messages : \E r \in Shown(m.room) :
             m.op \in {"join", "create"} /\ Ask(r, m) /\ Activate(r)
      BY <1>6 DEF Enters
    <2>2. PICK r \in Shown(m.room) : Ask(r, m) /\ Activate(r)
      BY <2>1
    <2>3. /\ Send(m) /\ (r # m.room => m.room \in doubled')
          /\ \A q \in refused \cup bare \cup early :
               q \in refused' \cup bare' \cup early' \cup {m.room}
      BY <2>1, <2>2, Asked
    <2>4. Accounted(m.room)'
      BY <2>1, <2>3, AccountedJoin
    <2>5. Accounted(r)'
      <3>1. r # m.room => m.room \in DOMAIN Marked /\ r = Marked[m.room]
        BY ShownIs
      <3> QED
        BY <2>3, <2>4, <3>1 DEF Accounted, Mistaken
    <2>6. Believed' \subseteq Believed \cup {r}
      BY <2>2 DEF Activate, Believed
    <2> QED
      BY <1>3, <2>1, <2>3, <2>4, <2>5, <2>6
  <1>7. ASSUME NEW r \in Rooms, Leaves(r) \/ LeavesBare(r)
        PROVE  RoomsInFlight'
    <2> DEFINE m == [op |-> "part", room |-> r]
    <2>1. m \in Messages /\ m.op = "part" /\ m.room = r
      BY MessagesTyped
    <2>2. Send(m)
      BY <1>7 DEF Leaves, LeavesBare
    <2>3. ~Answered => r \in bare' \cup early'
      BY <1>7 DEF Leaves, LeavesBare
    <2>4. r \in Believed' => r \in bare' \cup {Lobby}
      BY <1>7 DEF Leaves, LeavesBare
    <2>5. \A q \in Believed' : q \in Believed \/ Accounted(q)'
      BY <1>4, <1>7 DEF Leaves, LeavesBare, Believed, viewVars
    <2>6. \A q \in refused \cup bare \cup early : q \in refused' \cup bare' \cup early'
      BY <1>7 DEF Leaves, LeavesBare
    <2> HIDE DEF m
    <2> QED
      BY <1>3, <2>1, <2>2, <2>3, <2>4, <2>5, <2>6
  <1> QED
    BY <1>5, <1>6, <1>7, Intents

LEMMA Reads ==
    ASSUME TypeOK, NEW op, Receive(op)
    PROVE  /\ \A r : Parts(1, r) <=> Head(up).op = "part" /\ Head(up).room = r
           /\ \A r : Rejoins(1, r) <=> Head(up).op \in {"join", "create"} /\ Head(up).room = r
           /\ \A i \in 1 .. Len(up') : i + 1 \in 1 .. Len(up) /\ up'[i] = up[i + 1]
  <1>1. /\ Head(up) = up[1] /\ Len(up) \in Nat \ {0} /\ Len(up') = Len(up) - 1
        /\ \A i \in 1 .. Len(up') : up'[i] = up[i + 1]
    BY Received
  <1>2. \A i \in 1 .. Len(up') : i + 1 \in 1 .. Len(up)
    BY <1>1
  <1> QED
    BY <1>1, <1>2 DEF Parts, Rejoins

LEMMA RoomsGreeted ==
    ASSUME WebClientAssumption, Base, RoomsInFlight, HelloRestored \/ HelloNew
    PROVE  RoomsInFlight'
  <1> TypeOK /\ Greeting
    BY DEF Base
  <1> USE DEF netVars, viewVars, joinVars, srvVars, histVars
  <1>1. Receive("hello") /\ serverFrame /\ UNCHANGED histVars
    BY DEF HelloRestored, HelloNew
  <1>2. PICK a \in Answers :
          /\ Tell(a)
          /\ a.op = "session_restored" => a.rooms \subseteq srv'.rooms
    <2>1. CASE HelloRestored
      <3>1. PICK r \in SUBSET (IF saved.rooms = {} THEN {Lobby} ELSE saved.rooms) :
              srv' = [hello |-> TRUE, rooms |-> r] /\ Tell([op |-> "session_restored", rooms |-> r])
        BY <2>1 DEF HelloRestored
      <3>2. r \in SUBSET ServerRooms
        BY <3>1 DEF TypeOK, ServerRooms
      <3>3. [op |-> "session_restored", rooms |-> r] \in Answers
        BY <3>2, AnswersTyped
      <3> QED
        BY <3>1, <3>3
    <2>2. CASE HelloNew
      BY <2>2, AnswersTyped DEF HelloNew
    <2> QED
      BY <2>1, <2>2
  <1>3. /\ socket = "open" /\ up[1].op = "hello" /\ 1 \in 1 .. Len(up)
    BY <1>1, Received
  <1>4. /\ ~srv.hello /\ srv.rooms = {} /\ down = <<>>
    BY <1>3 DEF Greeting
  <1>5. UNCHANGED <<socket, currentRoom, joinedRooms, refused, bare, early, doubled>>
    BY <1>1 DEF serverFrame
  <1>6. \A r : ~Parts(1, r) /\ ~Rejoins(1, r)
    BY <1>3 DEF Parts, Rejoins
  <1>7. ASSUME NEW r, Accounted(r)
        PROVE  Accounted(r)'
    BY <1>1, <1>4, <1>5, <1>6, <1>7, AccountedRead
  <1>8. Len(down') = 1 /\ down'[1] = a
    <2>1. Len(down) = 0
      BY <1>4
    <2>2. Len(down') = Len(down) + 1 /\ down'[Len(down) + 1] = a
      BY <1>2, Told
    <2> QED
      BY <2>1, <2>2
  <1>9. \A i \in 1 .. Len(up') : up'[i].op = "part" => up'[i].room \in bare \cup early
    <2>1. ~Answered
      BY <1>4 DEF Answered
    <2> QED
      BY <1>1, <1>3, <2>1, Reads DEF RoomsInFlight
  <1>10. ASSUME a.op = "session_restored", NEW r \in a.rooms
         PROVE  Accounted(r)'
    <2>1. r \in srv'.rooms
      BY <1>2, <1>10
    <2>2. CASE r \in bare \cup early
      BY <1>5, <2>2 DEF Accounted
    <2>3. CASE r \notin bare \cup early
      <3>1. NoPartAfter(0, r)'
        BY <1>9, <2>3 DEF NoPartAfter, Parts
      <3> QED
        BY <2>1, <3>1 DEF Accounted, WillHave
    <2> QED
      BY <2>2, <2>3
  <1>11. ASSUME NEW r \in Believed'
         PROVE  Accounted(r)'
    BY <1>3, <1>5, <1>7, <1>11 DEF RoomsInFlight, Believed
  <1> QED
    BY <1>5, <1>8, <1>9, <1>10, <1>11 DEF RoomsInFlight

LEMMA RoomsServed ==
    ASSUME WebClientAssumption, Base, RoomsInFlight, Serve, ~(HelloRestored \/ HelloNew)
    PROVE  RoomsInFlight'
  <1> TypeOK /\ Greeting
    BY DEF Base
  <1> USE DEF netVars, viewVars, joinVars, srvVars, histVars
  <1>1. serverFrame /\ srv'.hello /\ srv.hello /\ \E op : Receive(op)
    BY Serves
  <1>2. UNCHANGED <<socket, currentRoom, joinedRooms>> /\ socket = "open"
    BY <1>1, Received DEF serverFrame
  <1> DEFINE m == Head(up)
  <1>3. /\ refused \subseteq refused' /\ UNCHANGED <<bare, early, hasty, doubled>>
        /\ \/ UNCHANGED down
           \/ Tell([op |-> "password_required"])
    BY DEF Serve, ServeChat, ServeLogout, ServeJoin, PasswordRequired, ServePart
  <1>4. /\ \A r \in srv.rooms : r \in srv'.rooms \/ (m.op = "part" /\ m.room = r)
        /\ m.op \in {"join", "create"} => m.room \in srv'.rooms \cup refused'
    <2>1. CASE ServeChat \/ ServeLogout
      BY <2>1 DEF ServeChat, ServeLogout, Receive
    <2>2. CASE PasswordRequired(m)
      BY <2>2 DEF PasswordRequired
    <2>3. CASE ServePart(m)
      <3>1. srv' = [srv EXCEPT !.rooms = @ \ ({m.room} \ {Lobby})] /\ m.op = "part"
        BY <2>3 DEF ServePart, Receive
      <3>2. srv'.rooms = srv.rooms \ ({m.room} \ {Lobby})
        BY <3>1 DEF TypeOK
      <3> QED
        BY <3>1, <3>2
    <2>4. CASE ServeJoin(m)
      <3>1. \/ srv' = [srv EXCEPT !.rooms = @ \cup {m.room}]
            \/ refused' = refused \cup {m.room} /\ UNCHANGED srv
        BY <2>4 DEF ServeJoin
      <3> HIDE DEF m
      <3> QED
        BY <3>1 DEF TypeOK
    <2> QED
      BY <2>1, <2>2, <2>3, <2>4 DEF Serve
  <1>5. ASSUME NEW r, Accounted(r)
        PROVE  Accounted(r)'
    <2>1. PICK op : Receive(op)
      BY <1>1
    <2>2. ~Parts(1, r) /\ r \in srv.rooms => r \in srv'.rooms
      BY <1>4, <2>1, Reads
    <2>3. Rejoins(1, r) => r \in srv'.rooms \cup refused'
      BY <1>4, <2>1, Reads
    <2> QED
      BY <1>3, <1>5, <2>1, <2>2, <2>3, AccountedRead
  <1>6. /\ \A i \in 1 .. Len(down') : down'[i].op = "session_restored" =>
             i \in 1 .. Len(down) /\ down'[i] = down[i]
        /\ Answered => Answered'
    <2>1. CASE UNCHANGED down
      BY <1>1, <2>1 DEF Answered
    <2>2. CASE Tell([op |-> "password_required"])
      <3>1. /\ Len(down) \in Nat /\ Len(down') = Len(down) + 1
            /\ down'[Len(down) + 1].op = "password_required"
            /\ \A i \in 1 .. Len(down) : down'[i] = down[i]
            /\ down' \in Seq(Answers)
        BY <2>2, Told, AnswersTyped
      <3>2. \A i \in 1 .. Len(down') : i \in 1 .. Len(down) \/ i = Len(down) + 1
        BY <3>1
      <3>3. DOMAIN down' = 1 .. Len(down') /\ DOMAIN down = 1 .. Len(down)
        BY <3>1, LenProperties DEF TypeOK
      <3> QED
        BY <1>1, <3>1, <3>2, <3>3 DEF Answered
    <2> QED
      BY <1>3, <2>1, <2>2
  <1>7. ASSUME ~Answered', NEW i \in 1 .. Len(up'), up'[i].op = "part"
        PROVE  up'[i].room \in bare' \cup early'
    BY <1>1, <1>2, <1>3, <1>6, <1>7, Reads DEF RoomsInFlight
  <1>8. ASSUME NEW r \in Believed'
        PROVE  Accounted(r)'
    BY <1>2, <1>5, <1>8 DEF RoomsInFlight, Believed
  <1>9. ASSUME NEW i \in 1 .. Len(down'), down'[i].op = "session_restored",
               NEW r \in down'[i].rooms
        PROVE  Accounted(r)'
    BY <1>2, <1>5, <1>6, <1>9 DEF RoomsInFlight
  <1> QED
    BY <1>2, <1>7, <1>8, <1>9 DEF RoomsInFlight

LEMMA RoomsAnswered ==
    ASSUME WebClientAssumption, TypeOK, RoomsInFlight, Answering
    PROVE  RoomsInFlight'
  <1> USE DEF netVars, viewVars, joinVars, srvVars, histVars
  <1>1. PICK op : Handle(op) /\ handleFrame
    BY DEF Answering, session_restored, session_new, password_required
  <1>2. /\ down # <<>> /\ Len(down) \in Nat \ {0} /\ Head(down) = down[1] /\ down[1].op = op
        /\ Len(down') = Len(down) - 1 /\ down' \in Seq(Answers)
        /\ \A i \in 1 .. Len(down') : down'[i] = down[i + 1]
    BY <1>1, Handled
  <1>3. socket = "open" /\ UNCHANGED <<socket, up, srv, refused, bare, early, doubled>>
    BY <1>1, <1>2 DEF handleFrame, TypeOK
  <1>4. \A r : Accounted(r) => Accounted(r)'
    BY <1>3 DEF Accounted, Mistaken, WillHave, Rejoins, NoPartAfter, Parts
  <1>5. \A i \in 1 .. Len(down') : i + 1 \in 1 .. Len(down) /\ down'[i] = down[i + 1]
    BY <1>2
  <1>6. Answered => Answered'
    <2>1. DOMAIN down' = 1 .. Len(down') /\ DOMAIN down = 1 .. Len(down)
      BY <1>2, LenProperties DEF TypeOK
    <2> QED
      BY <1>3, <1>5, <2>1 DEF Answered
  <1>7. ASSUME NEW r \in Believed'
        PROVE  Accounted(r)'
    <2>1. CASE ~session_restored
      <3>1. Believed' = Believed
        BY <2>1 DEF Answering, session_new, password_required, Believed
      <3> QED
        BY <1>3, <1>4, <1>7, <3>1 DEF RoomsInFlight
    <2>2. CASE session_restored
      <3>1. r \in Believed \cup {Lobby} \/ r \in down[1].rooms
        BY <1>2, <1>7, <2>2 DEF session_restored, Believed
      <3>2. 1 \in 1 .. Len(down) /\ down[1].op = "session_restored"
        BY <1>2, <2>2 DEF session_restored, Handle
      <3>3. Accounted(r)
        BY <1>3, <3>1, <3>2 DEF RoomsInFlight, Accounted
      <3> QED
        BY <1>4, <3>3
    <2> QED
      BY <2>1, <2>2
  <1> QED
    BY <1>3, <1>4, <1>5, <1>6, <1>7 DEF RoomsInFlight

LEMMA RoomsStep ==
    ASSUME WebClientAssumption, Base, RoomsInFlight, Next
    PROVE  RoomsInFlight'
  <1> TypeOK /\ TypeOK'
    BY GreetingStep DEF Base
  <1> USE DEF netVars, viewVars, joinVars, srvVars, histVars
  <1>1. CASE onopen
    <2>1. up = <<>> /\ down' = <<>> /\ up' = Append(up, Hello)
      BY <1>1 DEF onopen, TypeOK, Greet
    <2>2. up' = <<Hello>>
      BY <2>1
    <2>3. Len(up') = 1 /\ up'[1].op = "hello" /\ Len(down') = 0
      BY <2>1, <2>2 DEF Hello
    <2>4. Believed' = {Lobby}
      BY <1>1 DEF onopen, ResetRooms, Believed
    <2>5. Accounted(Lobby)'
      BY DEF Accounted
    <2> QED
      BY <2>3, <2>4, <2>5 DEF RoomsInFlight
  <1>2. CASE onclose
    BY <1>2 DEF onclose, RoomsInFlight
  <1>3. CASE Reconnect
    <2>1. CASE socket = "open"
      BY <1>3, <2>1 DEF Reconnect, RoomsInFlight, Believed, Accounted, Mistaken, WillHave, Rejoins,
         NoPartAfter, Parts, Answered
    <2>2. CASE socket # "open"
      BY <1>3, <2>2 DEF Reconnect, RoomsInFlight
    <2> QED
      BY <2>1, <2>2
  <1>4. CASE Serve
    BY <1>4, RoomsGreeted, RoomsServed
  <1>5. CASE Answering
    BY <1>5, RoomsAnswered
  <1>6. CASE Typing \/ \E i \in DOMAIN tasks : Resuming(i)
    <2>1. UNCHANGED socket
      BY <1>6, Says
    <2>2. CASE socket # "open"
      BY <2>1, <2>2 DEF RoomsInFlight
    <2> QED
      BY <1>6, <2>2, RoomsSaid
  <1> QED
    BY <1>1, <1>2, <1>3, <1>4, <1>5, <1>6 DEF Next, Page, Answering, Resuming

-----------------------------------------------------------------------------
(* The rooms, the other way round *)

\* What the server reads is no longer under way; the rest moves up.
LEMMA PartsRead ==
    ASSUME TypeOK, NEW op, Receive(op), NEW k \in Nat, NEW r
    PROVE  /\ NoPartAfter(k, r)' => NoPartAfter(k + 1, r)
           /\ NoPartAfter(1, r) /\ ~Parts(1, r) => NoPartAfter(0, r)
           /\ k \in 1 .. Len(up') /\ Rejoins(k, r)' => k + 1 \in 1 .. Len(up) /\ Rejoins(k + 1, r)
  <1>1. /\ Len(up) \in Nat \ {0} /\ Len(up') = Len(up) - 1
        /\ \A i \in 1 .. Len(up') : up'[i] = up[i + 1]
    BY Received
  <1>2. ASSUME NoPartAfter(k, r)', NEW i \in 1 .. Len(up), Parts(i, r), i # 1
        PROVE  i <= k + 1
    <2> DEFINE j == i - 1
    <2>1. j \in 1 .. Len(up') /\ j + 1 = i
      BY <1>1, <1>2
    <2> HIDE DEF j
    <2>2. Parts(j, r)'
      BY <1>1, <1>2, <2>1 DEF Parts
    <2>3. j <= k
      BY <1>2, <2>1, <2>2 DEF NoPartAfter
    <2> QED
      BY <2>1, <2>3
  <1>3. NoPartAfter(k, r)' => NoPartAfter(k + 1, r)
    BY <1>2 DEF NoPartAfter
  <1>4. NoPartAfter(1, r) /\ ~Parts(1, r) => NoPartAfter(0, r)
    <2> SUFFICES ASSUME NoPartAfter(1, r), ~Parts(1, r), NEW i \in 1 .. Len(up), Parts(i, r)
                 PROVE  FALSE
      BY DEF NoPartAfter
    <2>1. i <= 1
      BY DEF NoPartAfter
    <2> QED
      BY <2>1
  <1>5. ASSUME k \in 1 .. Len(up'), Rejoins(k, r)'
        PROVE  k + 1 \in 1 .. Len(up) /\ Rejoins(k + 1, r)
    BY <1>1, <1>5 DEF Rejoins
  <1> QED
    BY <1>3, <1>4, <1>5

LEMMA KnownRooms ==
    ASSUME TypeOK, NEW r, Known(r), UNCHANGED <<srv, down>>,
           Keeps \/ Enters \/ \E q \in Rooms : (Leaves(q) /\ q # r) \/ LeavesBare(q)
    PROVE  Known(r)'
  <1> USE DEF histVars, viewVars
  <1>1. Answered' <=> Answered
    BY DEF Answered
  <1>2. CASE Enters
    <2>1. PICK m \in Messages : \E q \in Shown(m.room) :
             m.op \in {"join", "create"} /\ Ask(q, m) /\ Activate(q)
      BY <1>2 DEF Enters
    <2>2. PICK q \in Shown(m.room) : Ask(q, m) /\ Activate(q)
      BY <2>1
    <2>3. joinedRooms \subseteq joinedRooms' /\ q \in joinedRooms'
      BY <2>2 DEF Activate
    <2>4. CASE r \in hasty /\ r \notin hasty'
      <3>1. /\ Answered /\ socket = "open" /\ r = m.room
            /\ (q # m.room => m.room \in doubled')
        BY <2>2, <2>4 DEF Ask
      <3> QED
        BY <1>1, <2>3, <3>1 DEF Known
    <2>5. CASE ~(r \in hasty /\ r \notin hasty')
      <3>1. doubled \subseteq doubled'
        BY <2>1, <2>2, Asked
      <3> QED
        BY <1>1, <2>3, <2>5, <3>1 DEF Known
    <2> QED
      BY <2>4, <2>5
  <1>3. CASE Keeps
    BY <1>1, <1>3 DEF Keeps, Known
  <1>4. ASSUME NEW q \in Rooms, (Leaves(q) /\ q # r) \/ LeavesBare(q)
        PROVE  Known(r)'
    BY <1>1, <1>4 DEF Leaves, LeavesBare, Known
  <1> QED
    BY <1>2, <1>3, <1>4

LEMMA ServerSaid ==
    ASSUME WebClientAssumption, TypeOK, ServerInFlight, socket = "open",
           Typing \/ \E i \in DOMAIN tasks : Resuming(i)
    PROVE  ServerInFlight'
  <1>1. UNCHANGED <<socket, down, srv>>
    BY Says
  <1>2. Keeps \/ Enters \/ \E r \in Rooms : Leaves(r) \/ LeavesBare(r)
    BY Intents
  <1>3. ASSUME NEW m \in Messages, Send(m),
               \A r : Known(r) /\ ~(m.op = "part" /\ m.room = r) => Known(r)',
               m.op \in {"join", "create"} => Known(m.room)'
        PROVE  ServerInFlight'
    <2>1. /\ Len(up) \in Nat /\ Len(up') = Len(up) + 1
          /\ up'[Len(up) + 1] = m /\ \A i \in 1 .. Len(up) : up'[i] = up[i]
      BY <1>3, Sent
    <2>2. \A i \in 1 .. Len(up) : i \in 1 .. Len(up')
      BY <2>1
    <2>3. \A i \in 1 .. Len(up') : i \in 1 .. Len(up) \/ i = Len(up) + 1
      BY <2>1
    <2>4. ASSUME NEW k \in 0 .. Len(up), NEW r, NoPartAfter(k, r)'
          PROVE  NoPartAfter(k, r) /\ ~(m.op = "part" /\ m.room = r)
      <3>1. NoPartAfter(k, r)
        BY <2>1, <2>2, <2>4 DEF NoPartAfter, Parts
      <3>2. Len(up) + 1 \in 1 .. Len(up') /\ ~(Len(up) + 1 <= k)
        BY <2>1
      <3>3. ~(up'[Len(up) + 1].op = "part" /\ up'[Len(up) + 1].room = r)
        BY <2>4, <3>2 DEF NoPartAfter, Parts
      <3> QED
        BY <2>1, <3>1, <3>3
    <2>5. ASSUME NEW r \in srv'.rooms, NoPartAfter(0, r)'
          PROVE  Known(r)' \/ \E i \in 1 .. Len(down') :
                    down'[i].op = "session_restored" /\ r \in down'[i].rooms
      <3>1. NoPartAfter(0, r) /\ ~(m.op = "part" /\ m.room = r)
        BY <2>1, <2>4, <2>5
      <3> QED
        BY <1>1, <1>3, <2>5, <3>1 DEF ServerInFlight
    <2>6. ASSUME NEW k \in 1 .. Len(up'), NEW r \in Rooms, Rejoins(k, r)', NoPartAfter(k, r)'
          PROVE  Known(r)'
      <3>1. CASE k \in 1 .. Len(up)
        <4>1. k \in 0 .. Len(up)
          BY <3>1
        <4>2. NoPartAfter(k, r) /\ ~(m.op = "part" /\ m.room = r)
          BY <2>4, <2>6, <4>1
        <4>3. Rejoins(k, r)
          BY <2>1, <2>6, <3>1 DEF Rejoins
        <4> QED
          BY <1>3, <3>1, <4>2, <4>3 DEF ServerInFlight
      <3>2. CASE k = Len(up) + 1
        BY <1>3, <2>1, <2>6, <3>2 DEF Rejoins
      <3> QED
        BY <2>3, <3>1, <3>2
    <2> QED
      BY <1>1, <2>5, <2>6 DEF ServerInFlight
  <1>4. CASE Keeps
    <2>1. \A r : Known(r) => Known(r)'
      BY <1>1, <1>4, KnownRooms
    <2>2. CASE up' = up
      BY <1>1, <2>1, <2>2 DEF ServerInFlight, NoPartAfter, Parts, Rejoins
    <2>3. CASE up' # up
      BY <1>3, <1>4, <2>1, <2>3 DEF Keeps
    <2> QED
      BY <2>2, <2>3
  <1>5. CASE Enters
    <2>1. PICK m \in Messages : \E r \in Shown(m.room) :
             m.op \in {"join", "create"} /\ Ask(r, m) /\ Activate(r)
      BY <1>5 DEF Enters
    <2>2. PICK r \in Shown(m.room) : Ask(r, m) /\ Activate(r)
      BY <2>1
    <2>3. Send(m) /\ (~Answered => m.room \in hasty') /\ (r # m.room => m.room \in doubled')
      BY <2>1, <2>2, Asked
    <2>4. Known(m.room)'
      <3>1. r \in joinedRooms'
        BY <2>2 DEF Activate
      <3>2. Answered' <=> Answered
        BY <1>1 DEF Answered
      <3> QED
        BY <2>3, <3>1, <3>2 DEF Known
    <2>5. \A q : Known(q) => Known(q)'
      BY <1>1, <1>5, KnownRooms
    <2> QED
      BY <1>3, <2>3, <2>4, <2>5
  <1>6. ASSUME NEW q \in Rooms, Leaves(q) \/ LeavesBare(q)
        PROVE  ServerInFlight'
    <2> DEFINE m == [op |-> "part", room |-> q]
    <2>1. m \in Messages /\ m.op = "part" /\ m.room = q
      BY MessagesTyped
    <2>2. Send(m)
      BY <1>6 DEF Leaves, LeavesBare
    <2>3. \A r : Known(r) /\ r # q => Known(r)'
      BY <1>1, <1>6, KnownRooms
    <2> HIDE DEF m
    <2> QED
      BY <1>3, <2>1, <2>2, <2>3
  <1> QED
    BY <1>2, <1>4, <1>5, <1>6

\* What the server says in answer to a message: it answers the greeting once, and first.
LEMMA AnswersFirst ==
    ASSUME TypeOK, Greeting, Serve
    PROVE  /\ \A i \in 1 .. Len(down) : i \in 1 .. Len(down') /\ down'[i] = down[i]
           /\ \A i \in 1 .. Len(down') :
                \/ i \in 1 .. Len(down)
                \/ down'[i].op = "password_required"
                \/ i = 1 /\ (HelloRestored \/ HelloNew)
           /\ HelloRestored => /\ 1 \in 1 .. Len(down') /\ down'[1].op = "session_restored"
                               /\ srv'.rooms = down'[1].rooms
  <1>1. ASSUME NEW a \in Answers, Tell(a)
        PROVE  /\ Len(down) \in Nat /\ Len(down') = Len(down) + 1 /\ down'[Len(down) + 1] = a
               /\ \A i \in 1 .. Len(down) : i \in 1 .. Len(down') /\ down'[i] = down[i]
               /\ \A i \in 1 .. Len(down') : i \in 1 .. Len(down) \/ i = Len(down) + 1
    BY <1>1, Told
  <1>2. CASE HelloRestored \/ HelloNew
    <2>1. down = <<>>
      <3>1. Receive("hello")
        BY <1>2 DEF HelloRestored, HelloNew
      <3>2. up[1].op = "hello" /\ 1 \in 1 .. Len(up) /\ socket = "open"
        BY <3>1, Received
      <3> QED
        BY <3>2 DEF Greeting
    <2>2. CASE HelloRestored
      <3>1. PICK r \in SUBSET ServerRooms :
              /\ srv' = [hello |-> TRUE, rooms |-> r]
              /\ Tell([op |-> "session_restored", rooms |-> r])
        BY <2>2 DEF HelloRestored, TypeOK, ServerRooms
      <3>2. [op |-> "session_restored", rooms |-> r] \in Answers
        BY AnswersTyped
      <3> DEFINE a == [op |-> "session_restored", rooms |-> r]
      <3>3. a.op = "session_restored" /\ a.rooms = r /\ a \in Answers /\ Tell(a)
        BY <3>1, <3>2
      <3>4. srv'.rooms = r
        BY <3>1
      <3> HIDE DEF a
      <3> QED
        BY <1>1, <2>1, <2>2, <3>3, <3>4
    <2>3. CASE ~HelloRestored
      <3>1. [op |-> "session_new"] \in Answers /\ Tell([op |-> "session_new"])
        BY <1>2, <2>3, AnswersTyped DEF HelloNew
      <3> QED
        BY <1>1, <1>2, <2>1, <2>3, <3>1
    <2> QED
      BY <2>2, <2>3
  <1>3. CASE PasswordRequired(Head(up))
    <2>1. /\ [op |-> "password_required"] \in Answers /\ Tell([op |-> "password_required"])
          /\ ~HelloRestored
      <3>1. Receive("join")
        BY <1>3 DEF PasswordRequired
      <3> QED
        BY <1>3, <3>1, AnswersTyped DEF PasswordRequired, HelloRestored, Receive
    <2> QED
      BY <1>1, <2>1
  <1>4. CASE ~(HelloRestored \/ HelloNew) /\ ~PasswordRequired(Head(up))
    <2>1. UNCHANGED down
      BY <1>4 DEF Serve, ServeChat, ServeLogout, ServeJoin, ServePart
    <2> QED
      BY <1>4, <2>1
  <1> QED
    BY <1>2, <1>3, <1>4

\* The rooms the server has the client in, after a message.
LEMMA RoomsRead ==
    ASSUME WebClientAssumption, TypeOK, Greeting, Serve, NEW r \in srv'.rooms, r # Lobby
    PROVE  \/ r \in srv.rooms /\ ~Parts(1, r)
           \/ 1 \in 1 .. Len(up) /\ r \in Rooms /\ Rejoins(1, r)
           \/ HelloRestored
  <1> USE DEF srvVars
  <1>1. PICK op : Receive(op) /\ (op = "hello" <=> HelloRestored \/ HelloNew)
    BY Serves
  <1>2. Head(up) = up[1] /\ Head(up) \in Messages /\ up[1].op = op /\ 1 \in 1 .. Len(up)
    BY <1>1, Received
  <1> DEFINE m == Head(up)
  <1>3. /\ Parts(1, r) <=> m.op = "part" /\ m.room = r
        /\ Rejoins(1, r) <=> m.op \in {"join", "create"} /\ m.room = r
    BY <1>1, Reads
  <1>4. CASE HelloNew
    <2>1. PICK q \in SUBSET {Lobby} : srv' = [hello |-> TRUE, rooms |-> q]
      BY <1>4 DEF HelloNew
    <2> QED
      BY <2>1
  <1>5. CASE ServeChat \/ ServeLogout
    BY <1>2, <1>3, <1>5 DEF ServeChat, ServeLogout, Receive
  <1>6. CASE PasswordRequired(m)
    BY <1>2, <1>3, <1>6 DEF PasswordRequired, Receive
  <1>7. CASE ServePart(m)
    <2>1. srv' = [srv EXCEPT !.rooms = @ \ ({m.room} \ {Lobby})]
      BY <1>7 DEF ServePart
    <2>2. srv'.rooms = srv.rooms \ ({m.room} \ {Lobby})
      BY <2>1 DEF TypeOK
    <2> QED
      BY <1>3, <2>2
  <1>8. CASE ServeJoin(m)
    <2>1. m.op \in {"join", "create"}
      BY <1>8 DEF ServeJoin
    <2>2. m.room \in Rooms /\ ~Parts(1, r)
      BY <1>2, <1>3, <2>1, MessagesTyped
    <2>3. srv' = srv \/ srv' = [srv EXCEPT !.rooms = @ \cup {m.room}]
      BY <1>8 DEF ServeJoin
    <2> HIDE DEF m
    <2>4. srv'.rooms \subseteq srv.rooms \cup {m.room}
      BY <2>3 DEF TypeOK
    <2> QED
      BY <1>2, <1>3, <2>1, <2>2, <2>4
  <1> QED
    BY <1>4, <1>5, <1>6, <1>7, <1>8 DEF Serve

LEMMA ServerServed ==
    ASSUME WebClientAssumption, Base, ServerInFlight, Serve
    PROVE  ServerInFlight'
  <1> TypeOK /\ Greeting
    BY DEF Base
  <1> USE DEF netVars, viewVars, joinVars, srvVars, histVars
  <1>1. PICK op : Receive(op) /\ (op = "hello" <=> ~srv.hello)
                  /\ (op = "hello" <=> HelloRestored \/ HelloNew)
    BY Serves
  <1>2. /\ srv'.hello /\ socket = "open" /\ UNCHANGED <<socket, joinedRooms>>
        /\ Len(up) \in Nat \ {0}
    BY <1>1, Serves, Received DEF serverFrame
  <1>3. UNCHANGED <<hasty, doubled>>
    BY DEF Serve, HelloRestored, HelloNew, ServeChat, ServeLogout, ServeJoin, PasswordRequired,
           ServePart
  <1>4. Answered => Answered'
    <2> SUFFICES ASSUME Answered, NEW i \in DOMAIN down'
                 PROVE  down'[i].op \notin {"session_restored", "session_new"}
      BY <1>2 DEF Answered
    <2>1. i \in 1 .. Len(down')
      BY TypeServe, LenProperties DEF TypeOK
    <2>2. srv.hello /\ ~(HelloRestored \/ HelloNew)
      BY <1>1 DEF Answered
    <2>3. DOMAIN down = 1 .. Len(down)
      BY LenProperties DEF TypeOK
    <2>4. i \in DOMAIN down \/ down'[i].op = "password_required"
      BY <2>1, <2>2, <2>3, AnswersFirst
    <2> QED
      BY <2>3, <2>4, AnswersFirst DEF Answered
  <1>5. \A r : Known(r) => Known(r)'
    BY <1>2, <1>3, <1>4 DEF Known
  <1>6. ASSUME NEW r \in srv'.rooms, NoPartAfter(0, r)'
        PROVE  Known(r)' \/ \E i \in 1 .. Len(down') :
                  down'[i].op = "session_restored" /\ r \in down'[i].rooms
    <2>1. NoPartAfter(1, r) /\ (~Parts(1, r) => NoPartAfter(0, r))
      <3>1. NoPartAfter(0 + 1, r)
        BY <1>1, <1>6, PartsRead
      <3>2. 0 \in Nat /\ NoPartAfter(1, r)
        BY <3>1
      <3> QED
        BY <1>1, <3>2, PartsRead
    <2>2. CASE r = Lobby
      BY <2>2 DEF Known
    <2>3. CASE r \in srv.rooms /\ ~Parts(1, r)
      BY <1>2, <1>5, <2>1, <2>3, AnswersFirst DEF ServerInFlight
    <2>4. CASE 1 \in 1 .. Len(up) /\ r \in Rooms /\ Rejoins(1, r)
      BY <1>2, <1>5, <2>1, <2>4 DEF ServerInFlight
    <2>5. CASE HelloRestored
      BY <1>6, <2>5, AnswersFirst
    <2> QED
      BY <1>6, <2>2, <2>3, <2>4, <2>5, RoomsRead
  <1>7. ASSUME NEW k \in 1 .. Len(up'), NEW r \in Rooms, Rejoins(k, r)', NoPartAfter(k, r)'
        PROVE  Known(r)'
    <2>1. k \in Nat
      BY <1>7
    <2>2. k + 1 \in 1 .. Len(up) /\ Rejoins(k + 1, r) /\ NoPartAfter(k + 1, r)
      BY <1>1, <1>7, <2>1, PartsRead
    <2> QED
      BY <1>2, <1>5, <2>2 DEF ServerInFlight
  <1>8. \A i \in 1 .. Len(down') :
          down'[i].op \in {"session_restored", "session_new"} => i = 1
    <2> SUFFICES ASSUME NEW i \in 1 .. Len(down'),
                        down'[i].op \in {"session_restored", "session_new"}
                 PROVE  i = 1
      OBVIOUS
    <2>1. i \in 1 .. Len(down) \/ i = 1
      BY AnswersFirst
    <2> QED
      BY <1>2, <2>1, AnswersFirst DEF ServerInFlight
  <1> QED
    BY <1>2, <1>6, <1>7, <1>8 DEF ServerInFlight

LEMMA ServerAnswered ==
    ASSUME WebClientAssumption, Base, ServerInFlight, Answering
    PROVE  ServerInFlight'
  <1> TypeOK /\ Greeting
    BY DEF Base
  <1> USE DEF netVars, viewVars, joinVars, srvVars, histVars
  <1>1. PICK op : Handle(op) /\ handleFrame
    BY DEF Answering, session_restored, session_new, password_required
  <1>2. /\ down # <<>> /\ Len(down) \in Nat \ {0} /\ Head(down) = down[1] /\ down[1].op = op
        /\ Len(down') = Len(down) - 1 /\ down' \in Seq(Answers)
        /\ \A i \in 1 .. Len(down') : down'[i] = down[i + 1]
    BY <1>1, Handled
  <1>3. socket = "open" /\ UNCHANGED <<socket, up, srv, hasty, doubled>>
    BY <1>1, <1>2 DEF handleFrame, TypeOK
  <1>4. srv.hello
    BY <1>2, <1>3 DEF Greeting
  <1>5. \A i \in 1 .. Len(down') :
          down'[i].op \notin {"session_restored", "session_new"}
    <2>1. \A i \in 1 .. Len(down') : i + 1 \in 1 .. Len(down) /\ i + 1 # 1
      BY <1>2
    <2> QED
      BY <1>2, <1>3, <2>1 DEF ServerInFlight
  <1>6. Answered'
    <2>1. DOMAIN down' = 1 .. Len(down')
      BY <1>2, LenProperties
    <2> QED
      BY <1>3, <1>4, <1>5, <2>1 DEF Answered
  <1>7. ASSUME NEW r, Known(r)
        PROVE  Known(r)'
    <2>1. CASE Answered /\ r \in joinedRooms
      <3>1. 1 \in DOMAIN down
        BY <1>2, LenProperties DEF TypeOK
      <3>2. ~session_restored
        BY <1>2, <2>1, <3>1 DEF Answered, session_restored, Handle
      <3>3. joinedRooms' = joinedRooms
        BY <3>2 DEF Answering, session_new, password_required
      <3> QED
        BY <1>6, <2>1, <3>3 DEF Known
    <2>2. CASE ~(Answered /\ r \in joinedRooms)
      BY <1>3, <1>7, <2>2 DEF Known
    <2> QED
      BY <2>1, <2>2
  <1>8. ASSUME NEW r \in srv'.rooms, NoPartAfter(0, r)'
        PROVE  Known(r)'
    <2>1. NoPartAfter(0, r) /\ r \in srv.rooms
      BY <1>3, <1>8 DEF NoPartAfter, Parts
    <2>2. CASE Known(r)
      BY <1>7, <2>2
    <2>3. CASE ~Known(r)
      <3>1. PICK i \in 1 .. Len(down) : down[i].op = "session_restored" /\ r \in down[i].rooms
        BY <1>3, <2>1, <2>3 DEF ServerInFlight
      <3>2. i = 1
        BY <1>3, <3>1 DEF ServerInFlight
      <3>3. session_restored
        BY <1>2, <3>1, <3>2 DEF Answering, session_new, password_required, Handle
      <3>4. r \in joinedRooms'
        BY <1>2, <3>1, <3>2, <3>3 DEF session_restored
      <3> QED
        BY <1>6, <3>4 DEF Known
    <2> QED
      BY <2>2, <2>3
  <1>9. ASSUME NEW k \in 1 .. Len(up'), NEW r \in Rooms, Rejoins(k, r)', NoPartAfter(k, r)'
        PROVE  Known(r)'
    <2>1. k \in 1 .. Len(up) /\ Rejoins(k, r) /\ NoPartAfter(k, r)
      BY <1>3, <1>9 DEF NoPartAfter, Parts, Rejoins
    <2> QED
      BY <1>3, <1>7, <2>1 DEF ServerInFlight
  <1> QED
    BY <1>3, <1>5, <1>8, <1>9 DEF ServerInFlight

LEMMA ServerStep ==
    ASSUME WebClientAssumption, Base, ServerInFlight, Next
    PROVE  ServerInFlight'
  <1> TypeOK /\ TypeOK'
    BY GreetingStep DEF Base
  <1> USE DEF netVars, viewVars, joinVars, srvVars, histVars
  <1>1. CASE onopen
    <2>1. up = <<>> /\ down' = <<>> /\ up' = Append(up, Hello) /\ srv'.rooms = {}
      BY <1>1 DEF onopen, TypeOK, Greet, NoServer
    <2>2. up' = <<Hello>>
      BY <2>1
    <2>3. Len(up') = 1 /\ up'[1].op = "hello" /\ Len(down') = 0
      BY <2>1, <2>2 DEF Hello
    <2>4. \A k \in 1 .. Len(up'), r \in Rooms : ~Rejoins(k, r)'
      BY <2>3 DEF Rejoins
    <2> QED
      BY <2>1, <2>3, <2>4 DEF ServerInFlight
  <1>2. CASE onclose
    BY <1>2 DEF onclose, ServerInFlight
  <1>3. CASE Reconnect
    <2>1. CASE socket = "open"
      BY <1>3, <2>1 DEF Reconnect, ServerInFlight, Known, Rejoins, NoPartAfter, Parts, Answered
    <2>2. CASE socket # "open"
      BY <1>3, <2>2 DEF Reconnect, ServerInFlight
    <2> QED
      BY <2>1, <2>2
  <1>4. CASE Serve
    BY <1>4, ServerServed
  <1>5. CASE Answering
    BY <1>5, ServerAnswered
  <1>6. CASE Typing \/ \E i \in DOMAIN tasks : Resuming(i)
    <2>1. UNCHANGED socket
      BY <1>6, Says
    <2>2. CASE socket # "open"
      BY <2>1, <2>2 DEF ServerInFlight
    <2> QED
      BY <1>6, <2>2, ServerSaid
  <1> QED
    BY <1>1, <1>2, <1>3, <1>4, <1>5, <1>6 DEF Next, Page, Answering, Resuming

-----------------------------------------------------------------------------
(* The theorems *)

LEMMA Stutter ==
    ASSUME UNCHANGED vars
    PROVE  /\ Base => Base'
           /\ Retries => Retries'
           /\ Waiting => Waiting'
           /\ RoomsInFlight => RoomsInFlight'
           /\ ServerInFlight => ServerInFlight'
  <1> USE DEF vars, netVars, viewVars, joinVars, srvVars, histVars
  <1>1. Base => Base'
    BY DEF Base, TypeOK, Greeting
  <1>2. Retries => Retries'
    BY DEF Retries, OfflineIsExplained
  <1>3. Waiting => Waiting'
    BY DEF Waiting, AstrayOnlyEncrypted
  <1>4. RoomsInFlight => RoomsInFlight'
    BY DEF RoomsInFlight, Believed, Accounted, Mistaken, WillHave, Rejoins, NoPartAfter, Parts,
         Answered
  <1>5. ServerInFlight => ServerInFlight'
    BY DEF ServerInFlight, Known, Rejoins, NoPartAfter, Parts, Answered
  <1> QED
    BY <1>1, <1>2, <1>3, <1>4, <1>5

LEMMA Steps ==
    ASSUME Base, [Next]_vars
    PROVE  /\ Base'
           /\ Retries => Retries'
           /\ Waiting => Waiting'
           /\ RoomsInFlight => RoomsInFlight'
           /\ ServerInFlight => ServerInFlight'
  BY Stutter, GreetingStep, RetriesStep, WaitingStep, RoomsStep, ServerStep, WebClientAssumption
  DEF Base

LEMMA BaseAlways == Spec => []Base
  <1>1. Init => Base
    BY InitOK, WebClientAssumption
  <1>2. Base /\ [Next]_vars => Base'
    BY Steps
  <1> QED
    BY <1>1, <1>2, PTL DEF Spec

\* Every variable keeps its type, and a connection that ends takes with it all that
\* was under way.
THEOREM TypeCorrect == Spec => []TypeOK
  <1>1. Base => TypeOK
    BY DEF Base
  <1> QED
    BY <1>1, BaseAlways, PTL

\* hello is the first message of every connection, and the only one of its kind,
\* whatever a handler that waited across the reconnect sends (onopen).
THEOREM HelloComesFirst == Spec => []GreetsFirst
  <1>1. Base => GreetsFirst
    <2> SUFFICES ASSUME Base
                 PROVE  GreetsFirst
      OBVIOUS
    <2>1. up \in Seq(Messages) /\ DOMAIN up = 1 .. Len(up)
      BY LenProperties DEF Base, TypeOK
    <2>2. up # <<>> => Head(up) = up[1] /\ socket = "open"
      BY <2>1 DEF Base, TypeOK
    <2> QED
      BY <2>1, <2>2 DEF Base, Greeting, GreetsFirst
  <1> QED
    BY <1>1, BaseAlways, PTL

\* A page that stays offline has tried MaxReconnects sockets in a row in vain
\* (scheduleReconnect, and the reset of reconnectAttempts in onopen).
THEOREM OfflineAfterAllTries == Spec => []OfflineIsExplained
  <1>1. Init => Retries
    BY InitOK, WebClientAssumption
  <1>2. Base /\ Retries /\ [Next]_vars => Retries'
    BY Steps
  <1>3. Retries => OfflineIsExplained
    BY DEF Retries
  <1> QED
    BY <1>1, <1>2, <1>3, BaseAlways, PTL DEF Spec

\* A line that leaves for another room than the one it was typed in is a ciphertext
\* (sendChat, whose room is read after the await).
THEOREM AstrayIsEncrypted == Spec => []AstrayOnlyEncrypted
  <1>1. Init => Waiting
    BY InitOK, WebClientAssumption
  <1>2. Base /\ Waiting /\ [Next]_vars => Waiting'
    BY Steps
  <1>3. Waiting => AstrayOnlyEncrypted
    BY DEF Waiting
  <1> QED
    BY <1>1, <1>2, <1>3, BaseAlways, PTL DEF Spec

\* Whatever was typed, refused, restored or lost before: once nothing is under way,
\* the rooms the page shows are those the server has it in, but for what the last
\* join of a room left behind (refused, bare, early, hasty) and for the rooms created
\* by a name with its #, which page and server call differently.
THEOREM PageAgreesWithServer == Spec => []PageAgrees
  <1>1. Init => RoomsInFlight /\ ServerInFlight
    BY InitOK, WebClientAssumption
  <1>2. Base /\ RoomsInFlight /\ ServerInFlight /\ [Next]_vars => RoomsInFlight' /\ ServerInFlight'
    BY Steps
  <1>3. RoomsInFlight /\ ServerInFlight => PageAgrees
    <2> SUFFICES ASSUME RoomsInFlight, ServerInFlight, Quiet
                 PROVE  PageAgrees
      BY DEF PageAgrees
    <2>1. Len(up) = 0 /\ Len(down) = 0 /\ socket = "open"
      BY DEF Quiet
    <2>2. ASSUME NEW r \in Believed \ {Lobby}
          PROVE  r \in srv.rooms \cup refused \cup bare \cup early \cup Mistaken
      <3>1. Accounted(r)
        BY <2>1 DEF RoomsInFlight
      <3> QED
        BY <2>1, <3>1 DEF Accounted, WillHave
    <2>3. ASSUME NEW r \in srv.rooms \ {Lobby}
          PROVE  r \in joinedRooms \cup hasty \cup doubled
      <3>1. NoPartAfter(0, r)
        BY <2>1 DEF NoPartAfter
      <3>2. Known(r)
        BY <2>1, <3>1 DEF ServerInFlight
      <3> QED
        BY <3>2 DEF Known
    <2> QED
      BY <2>2, <2>3 DEF PageAgrees, Believed, Mistaken
  <1> QED
    BY <1>1, <1>2, <1>3, BaseAlways, PTL DEF Spec
=============================================================================
