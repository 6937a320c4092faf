-------------------------------- MODULE Hub --------------------------------
(***************************************************************************)
(* The life of a WebSocket connection (hub.go, client.go): serveWS, the    *)
(* hub goroutine (Run, removeClient), the two pumps of a connection and    *)
(* its buffered send channel, and the broadcasts to one room that the      *)
(* other connections' readers make meanwhile.                              *)
(*                                                                         *)
(* register and unregister are unbuffered: a send on them is one step with *)
(* the hub's receive, and the hub receives only between two removals.      *)
(* Broadcast holds r.mu for reading over its whole loop, so Join and Part  *)
(* wait for it; a waiting Part holds new broadcasts off, as sync.RWMutex   *)
(* does.  Messages have no content here, only a place in a buffer.         *)
(***************************************************************************)
EXTENDS Integers, FiniteSets

CONSTANTS
    Conns,              \* connections that are attempted
    NoConn,
    MaxConnections,
    SendBuffer          \* capacity of Client.send (256)

ASSUME HubAssumption ==
    /\ IsFiniteSet(Conns) /\ NoConn \notin Conns
    /\ MaxConnections \in Nat /\ SendBuffer \in Nat

VARIABLES
    clients, connCount,    \* Hub.clients, Hub.connCount
    pc,                    \* serveWS, then readPump, of each connection
    writer,                \* writePump: "none", "running", "ended"
    down,                  \* connections whose reads and writes fail
    queue, closed,         \* Client.send: messages in it, close(c.send) done
    members,               \* Room.members of the room they talk in
    todo,                  \* members a broadcast has still to serve
    hub,                   \* removeClient: [at, conn, todo]
    crashed,               \* a goroutine panicked: the process is gone
    peak                   \* history: most connections ever between the check
                           \* of connCount and their registration

regVars  == <<clients, connCount>>
sendVars == <<queue, closed, crashed>>
vars == <<regVars, pc, writer, down, sendVars, members, todo, hub, peak>>

ConnSteps == {"off", "checked", "registering", "reading", "joined",
              "casting", "leaving", "done", "refused"}
HubIdle == [at |-> "idle", conn |-> NoConn, todo |-> {}]

Init ==
    /\ clients = {} /\ connCount = 0
    /\ pc = [c \in Conns |-> "off"]
    /\ writer = [c \in Conns |-> "none"]
    /\ down = {}
    /\ queue = [c \in Conns |-> 0]
    /\ closed = [c \in Conns |-> FALSE]
    /\ members = {}
    /\ todo = [c \in Conns |-> {}]
    /\ hub = HubIdle
    /\ crashed = FALSE
    /\ peak = 0

Goto(c, step) == pc' = [pc EXCEPT ![c] = step]

Admitted == {c \in Conns : pc[c] \in {"checked", "registering"}}
Working  == {"reading", "joined", "casting"}
Casting  == {c \in Conns : pc[c] = "casting"}

\* removeClient has closed a channel and has not left the room yet.
Parting == hub.at \in {"remove", "part"}

-----------------------------------------------------------------------------
(* serveWS *)

HasRoom == connCount < MaxConnections

\* The check of connCount, under h.mu alone: 503 when the server is full.
ServeCheck(c) ==
    /\ pc[c] = "off"
    /\ IF HasRoom
       THEN /\ Goto(c, "checked")
            /\ peak' = IF Cardinality(Admitted) < peak THEN peak
                       ELSE Cardinality(Admitted) + 1
       ELSE Goto(c, "refused") /\ UNCHANGED peak
    /\ UNCHANGED <<regVars, writer, down, sendVars, members, todo, hub>>

\* allowConnection and the upgrade succeed, or one of them fails.
ServeUpgrade(c) ==
    /\ pc[c] = "checked"
    /\ Goto(c, "registering") \/ Goto(c, "refused")
    /\ UNCHANGED <<regVars, writer, down, sendVars, members, todo, hub, peak>>

\* h.register <- client, received by Run; then the two pumps start.
Register(c) ==
    /\ pc[c] = "registering" /\ hub = HubIdle
    /\ clients' = clients \cup {c}
    /\ connCount' = connCount + 1
    /\ Goto(c, "reading")
    /\ writer' = [writer EXCEPT ![c] = "running"]
    /\ UNCHANGED <<down, sendVars, members, todo, hub, peak>>

-----------------------------------------------------------------------------
(* Send, SendRaw: never wait; a send on a closed channel panics *)

ReadyWhenDrained(c) == queue[c] < SendBuffer

\* The default branch of the select: the send is always ready.
SendReady(c) == TRUE

PushUnbounded(c) ==
    /\ queue' = [queue EXCEPT ![c] = IF closed[c] THEN @ ELSE @ + 1]
    /\ crashed' = (crashed \/ closed[c])
    /\ UNCHANGED closed

Push(c) ==
    /\ queue' = [queue EXCEPT ![c] = IF closed[c] \/ @ = SendBuffer THEN @
                                     ELSE @ + 1]
    /\ crashed' = (crashed \/ closed[c])
    /\ UNCHANGED closed

-----------------------------------------------------------------------------
(* readPump: each message is handled to its end before the next is read *)

\* An answer to the sender alone.
Reply(c) ==
    /\ pc[c] = "reading" /\ SendReady(c)
    /\ Push(c)
    /\ UNCHANGED <<regVars, pc, writer, down, members, todo, hub, peak>>

\* Room.Join: r.mu.Lock().
Join(c) ==
    /\ pc[c] = "reading" /\ c \notin members
    /\ Casting = {} /\ hub.at # "cast"
    /\ members' = members \cup {c}
    /\ Goto(c, "joined")
    /\ UNCHANGED <<regVars, writer, down, sendVars, todo, hub, peak>>

\* Room.Broadcast, of "has joined" or of a chat line: r.mu.RLock(), which waits
\* while a Part waits.
StartCast(c) ==
    /\ pc[c] = "joined" \/ (pc[c] = "reading" /\ c \in members)
    /\ hub.at # "part"
    /\ todo' = [todo EXCEPT ![c] = members]
    /\ Goto(c, "casting")
    /\ UNCHANGED <<regVars, writer, down, sendVars, members, hub, peak>>

CastOne(c, m) ==
    /\ pc[c] = "casting" /\ m \in todo[c] /\ SendReady(m)
    /\ Push(m)
    /\ todo' = [todo EXCEPT ![c] = @ \ {m}]
    /\ UNCHANGED <<regVars, pc, writer, down, members, hub, peak>>

CastDone(c) ==
    /\ pc[c] = "casting" /\ todo[c] = {}
    /\ Goto(c, "reading")
    /\ UNCHANGED <<regVars, writer, down, sendVars, members, todo, hub, peak>>

\* ReadMessage fails; the deferred h.unregister <- c waits for the hub.
ReadFails(c) ==
    /\ pc[c] = "reading" /\ c \in down
    /\ Goto(c, "leaving")
    /\ UNCHANGED <<regVars, writer, down, sendVars, members, todo, hub, peak>>

-----------------------------------------------------------------------------
(* Hub.removeClient *)

AfterUnregisterIdle == "idle"

\* What the hub does next: part from the room the client joined, if any.
AfterUnregister == "remove"

ForgetUncounted(c) ==
    /\ clients' = clients \ {c}
    /\ connCount' = connCount
    /\ closed' = [closed EXCEPT ![c] = TRUE]

\* Of a client that is still registered.
Forget(c) ==
    IF c \in clients
    THEN /\ clients' = clients \ {c}
         /\ connCount' = connCount - 1
         /\ closed' = [closed EXCEPT ![c] = TRUE]
    ELSE UNCHANGED <<clients, connCount, closed>>

\* The part under h.mu: the channel is closed.  The reader, its send received,
\* closes the connection.
Unregister(c) ==
    /\ pc[c] = "leaving" /\ hub = HubIdle
    /\ Forget(c)
    /\ Goto(c, "done")
    /\ down' = down \cup {c}
    /\ hub' = IF c \in members /\ AfterUnregister = "remove"
              THEN [HubIdle EXCEPT !.at = "remove", !.conn = c] ELSE HubIdle
    /\ UNCHANGED <<writer, queue, crashed, members, todo, peak>>

\* The rooms are copied under c.mu, the room is looked up (and others parted),
\* and only then Room.Part asks for r.mu: until here broadcasts go on starting.
HubAsks ==
    /\ hub.at = "remove"
    /\ hub' = [hub EXCEPT !.at = "part"]
    /\ UNCHANGED <<regVars, pc, writer, down, sendVars, members, todo, peak>>

\* Room.Part, once no broadcast holds r.mu; then "has left" goes out.
HubPart ==
    /\ hub.at = "part" /\ Casting = {}
    /\ members' = members \ {hub.conn}
    /\ hub' = [hub EXCEPT !.at = "cast", !.todo = members']
    /\ UNCHANGED <<regVars, pc, writer, down, sendVars, todo, peak>>

HubCastOne(m) ==
    /\ hub.at = "cast" /\ m \in hub.todo /\ SendReady(m)
    /\ Push(m)
    /\ hub' = [hub EXCEPT !.todo = @ \ {m}]
    /\ UNCHANGED <<regVars, pc, writer, down, members, todo, peak>>

HubCastDone ==
    /\ hub.at = "cast" /\ hub.todo = {}
    /\ hub' = HubIdle
    /\ UNCHANGED <<regVars, pc, writer, down, sendVars, members, todo, peak>>

-----------------------------------------------------------------------------
(* writePump *)

Write(c) ==
    /\ writer[c] = "running" /\ queue[c] > 0 /\ c \notin down
    /\ queue' = [queue EXCEPT ![c] = @ - 1]
    /\ UNCHANGED <<regVars, pc, writer, down, closed, crashed, members, todo,
                   hub, peak>>

\* A write or a ping fails, or the closed channel is empty: the deferred
\* conn.Close() makes the reader's read fail as well.
WriterEnds(c) ==
    /\ writer[c] = "running"
    /\ c \in down \/ (closed[c] /\ queue[c] = 0)
    /\ writer' = [writer EXCEPT ![c] = "ended"]
    /\ down' = down \cup {c}
    /\ UNCHANGED <<regVars, pc, sendVars, members, todo, hub, peak>>

\* The peer leaves, or stops reading until the 10s write deadline, or answers
\* no ping for 60s.
PeerFails(c) ==
    /\ pc[c] \in Working /\ c \notin down
    /\ down' = down \cup {c}
    /\ UNCHANGED <<regVars, pc, writer, sendVars, members, todo, hub, peak>>

-----------------------------------------------------------------------------
CastSteps(c) ==
    \/ pc[c] = "joined" /\ StartCast(c)
    \/ \E m \in Conns : CastOne(c, m)
    \/ CastDone(c)

HubSteps ==
    \/ \E c \in Conns : Register(c) \/ Unregister(c)
    \/ HubAsks \/ HubPart
    \/ \E m \in Conns : HubCastOne(m)
    \/ HubCastDone

Next ==
    /\ ~crashed
    /\ \/ \E c \in Conns :
            \/ ServeCheck(c) \/ ServeUpgrade(c)
            \/ Reply(c) \/ Join(c) \/ StartCast(c) \/ CastSteps(c)
            \/ ReadFails(c) \/ Write(c) \/ WriterEnds(c) \/ PeerFails(c)
       \/ HubSteps

Spec == Init /\ [][Next]_vars

\* A handler runs on, a failed read is noticed, a writer whose connection is
\* down ends, and the hub receives whatever is offered.  No peer has to read:
\* Write is not fair.  Two steps are strongly fair: ReadFails, for the messages
\* still to be read from a connection that is down are finitely many, and
\* Unregister, for Run's select chooses at random among its ready cases.
FairSpec ==
    /\ Spec
    /\ \A c \in Conns :
         /\ WF_vars(~crashed /\ CastSteps(c))
         /\ SF_vars(~crashed /\ ReadFails(c))
         /\ WF_vars(~crashed /\ WriterEnds(c))
         /\ SF_vars(~crashed /\ Unregister(c))
    /\ WF_vars(~crashed /\ HubSteps)

-----------------------------------------------------------------------------
(* Properties *)

TypeOK ==
    /\ clients \subseteq Conns /\ connCount \in Nat
    /\ pc \in [Conns -> ConnSteps]
    /\ writer \in [Conns -> {"none", "running", "ended"}]
    /\ down \subseteq Conns
    /\ queue \in [Conns -> 0 .. SendBuffer]
    /\ closed \in [Conns -> BOOLEAN]
    /\ members \subseteq Conns
    /\ todo \in [Conns -> SUBSET Conns]
    /\ hub \in [at : {"idle", "remove", "part", "cast"}, conn : Conns \cup {NoConn},
                todo : SUBSET Conns]
    /\ crashed \in BOOLEAN /\ peak \in Nat

\* connCount, which admits and refuses connections, counts exactly the
\* registered connections whose reader has not been unregistered: no order of
\* failures of the two pumps counts one twice or loses one.
ConnAccounting ==
    /\ clients = {c \in Conns : pc[c] \in Working \cup {"leaving"}}
    /\ connCount = Cardinality(clients)

\* The check of MaxConnections and the registration are far apart; the limit
\* is exceeded by no more connections than were between the two at once, and
\* with a limit of 0 nobody ever gets in.
OvershootBounded == connCount > 0 => connCount < MaxConnections + peak

\* Both together: the count is right, and so is what it is for.
AdmissionCounts == ConnAccounting /\ OvershootBounded

\* A member of the room, or a target of a broadcast under way, has a closed
\* channel only if it is the one connection that removeClient works on and has
\* not parted yet: the window in which a broadcast can panic is closed by Part,
\* and no panic falls outside it, whoever sends.
ClosedOnlyWhileRemoving ==
    /\ \A m \in Conns :
         /\ closed[m]
         /\ m \in members \/ m \in hub.todo \/ \E c \in Conns : m \in todo[c]
         => Parting /\ m = hub.conn
    /\ crashed => Parting

\* README: "curl .../health # -> ok".  The server stays up: no broadcast ever
\* sends on a channel that removeClient has closed.
NeverPanics == ~crashed

\* A connection that failed on either side is unregistered in the end, even
\* if the peers of the broadcasts its reader is in the middle of read nothing.
FailedConnRemoved ==
    \A c \in Conns :
        (c \in down /\ pc[c] \in Working)
            ~> (pc[c] = "done" \/ crashed)

\* A broadcast comes to its end though nobody reads: a slow consumer loses
\* messages and never holds up the others, nor the room's lock.
BroadcastReturns ==
    \A c \in Conns : pc[c] = "casting" ~> (pc[c] # "casting" \/ crashed)
=============================================================================
