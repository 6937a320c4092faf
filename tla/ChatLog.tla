------------------------------ MODULE ChatLog ------------------------------
(***************************************************************************)
(* What is said in a room and what is kept of it: MessageLog over SQLite   *)
(* (history.go, chat_db.go), the handlers that store a line and then       *)
(* broadcast it (chat, ascii, roll, emote, and the trivia goroutine), the  *)
(* history a joiner is sent (joinRoom), and the announcement of a release  *)
(* at start-up (release.go).  The process may be killed and started again  *)
(* at any moment: the database survives, everything else is lost.          *)
(*                                                                         *)
(* One room that is never evicted, the lobby.  A line is named by its      *)
(* speaker and a number: its text, nick and time stamp are left out.  A    *)
(* statement of SQLite is one step (the pool has one connection).  A push  *)
(* that finds a send buffer full is a push that may fail.                  *)
(***************************************************************************)
EXTENDS Integers, Sequences, FiniteSets, Functions

CONSTANTS
    Conns,           \* connections that join and talk
    Bots,            \* speakers that are no members: trivia games
    Server,          \* the speaker of announcements
    MaxLines,        \* bounds the lines ever said
    Versions, NoVersion,    \* first lines of release.txt
    MaxRestarts      \* bounds the restarts

Speakers == Conns \cup Bots

ASSUME ChatLogAssumption ==
    /\ IsFiniteSet(Speakers) /\ Conns \cap Bots = {} /\ Server \notin Speakers
    /\ MaxLines \in Nat /\ MaxRestarts \in Nat
    /\ NoVersion \notin Versions

VARIABLES
    store, old,        \* chat_messages; lines stored more than 24h ago
    meta,              \* the release_version kept in the database
    version, boot,     \* of the running process: its release, where main is
    pc, said,          \* where each speaker stands, how many lines it said
    pending,           \* the deliveries left of a speaker's broadcast
    members,           \* Room.members
    snap,              \* the entries joinRoom read
    live, shown,       \* what a member received: lines as they were said, and
                       \* the entries of the history message
    gap,               \* members that a full buffer or a failed read cost
                       \* something
    unsaved, seen,     \* history: lines whose insert failed; lines that any
                       \* connection ever received as they were said
    restarts, announced,    \* history: restarts, announcements made
    told, misreads     \* history: announcements of the release since it was
                       \* put in place, failed reads of meta by this process

dbVars    == <<store, old, meta>>
bootVars  == <<version, boot, restarts, announced, told, misreads>>
recvVars  == <<live, shown, gap, seen>>
sayVars   == <<said, pending, unsaved>>
vars == <<dbVars, bootVars, recvVars, sayVars, pc, members, snap>>

Line == [by : Speakers \cup {Server}, n : Nat]
LineOf(s) == [by |-> s, n |-> said[s]]
Announcement == [by |-> Server, n |-> announced + 1]

-----------------------------------------------------------------------------
(* The order in which handlers do things: from each step to the next.      *)

SayOrderCastFirst ==
    [start |-> "cast", cast |-> "casting", casting |-> "store", store |-> "in"]

\* Each of the handlers: history.Add, then Room.Broadcast.
SayOrder ==
    [start |-> "store", store |-> "cast", cast |-> "casting", casting |-> "in"]

JoinOrderReadFirst ==
    [start |-> "read", read |-> "enter", enter |-> "send", send |-> "in"]

\* joinRoom: Room.Join, GetRoomHistory, Send.
JoinOrder ==
    [start |-> "enter", enter |-> "read", read |-> "send", send |-> "in"]

BootOrderAnnounceFirst ==
    [start |-> "compare", compare |-> "announce", announce |-> "record",
     record |-> "up"]

\* LoadRelease: GetMeta, SetMeta, announceReleaseInLobby.
BootOrder ==
    [start |-> "compare", compare |-> "record", record |-> "announce",
     announce |-> "up"]

SaySteps == {"store", "cast", "casting"}
Steps == {"off", "in", "enter", "read", "send"} \cup SaySteps

Up == boot = "up"
SayNext(s)  == pc' = [pc EXCEPT ![s] = SayOrder[@]]
JoinNext(c) == pc' = [pc EXCEPT ![c] = JoinOrder[@]]
BootNext    == boot' = BootOrder[boot]

AtRest == [s \in Speakers |-> IF s \in Bots THEN "in" ELSE "off"]

Init ==
    /\ store = {} /\ old = {} /\ meta = NoVersion
    /\ version \in Versions /\ boot = BootOrder.start
    /\ pc = AtRest /\ said = [s \in Speakers |-> 0]
    /\ pending = [s \in Speakers |-> {}]
    /\ members = {}
    /\ snap = [c \in Conns |-> {}]
    /\ live = [c \in Conns |-> <<>>] /\ shown = [c \in Conns |-> {}]
    /\ gap = {} /\ unsaved = {} /\ seen = {}
    /\ restarts = 0 /\ announced = 0 /\ told = 0 /\ misreads = 0

-----------------------------------------------------------------------------
(* MessageLog *)

\* Add: a failed insert is logged, and nobody is told.
Add(l) ==
    \/ store' = store \cup {l} /\ UNCHANGED unsaved
    \/ unsaved' = unsaved \cup {l} /\ UNCHANGED store

\* GetRoomHistory: created_at >= cutoff.
GetRoomHistory == store \ old

Expire(l) ==
    /\ l \in store \ old
    /\ old' = old \cup {l}
    /\ UNCHANGED <<store, meta, bootVars, recvVars, sayVars, pc, members, snap>>

\* purgeLoop; a failed purge changes nothing.
Purge ==
    /\ Up /\ store \cap old # {}
    /\ store' = store \ old
    /\ UNCHANGED <<old, meta, bootVars, recvVars, sayVars, pc, members, snap>>

-----------------------------------------------------------------------------
(* A line is said *)

BusyOrIn(s) == pc[s] \in {"in", "casting"}

\* A reader, and a game's goroutine, do one thing at a time.
Free(s) == pc[s] = "in"

Say(s) ==
    /\ Up /\ Free(s) /\ SumFunction(said) < MaxLines
    /\ said' = [said EXCEPT ![s] = @ + 1]
    /\ pc' = [pc EXCEPT ![s] = SayOrder.start]
    /\ UNCHANGED <<dbVars, bootVars, recvVars, pending, unsaved, members, snap>>

StoreLine(s) ==
    /\ Up /\ pc[s] = "store"
    /\ Add(LineOf(s))
    /\ SayNext(s)
    /\ UNCHANGED <<old, meta, bootVars, recvVars, said, pending, members, snap>>

\* Room.Broadcast holds r.mu for reading until it returns.
Broadcast(s) ==
    /\ Up /\ pc[s] = "cast"
    /\ pending' = [pending EXCEPT ![s] = @ \cup ({LineOf(s)} \X members)]
    /\ SayNext(s)
    /\ UNCHANGED <<dbVars, bootVars, recvVars, said, unsaved, members, snap>>

\* SendRaw to one member, in the order of a map: in any order.
SendRaw(s, l, m) ==
    /\ Up /\ <<l, m>> \in pending[s]
    /\ pending' = [pending EXCEPT ![s] = @ \ {<<l, m>>}]
    /\ \/ /\ live' = [live EXCEPT ![m] = Append(@, l)]
          /\ seen' = seen \cup {l}
          /\ UNCHANGED gap
       \/ gap' = gap \cup {m} /\ UNCHANGED <<live, seen>>
    /\ UNCHANGED <<dbVars, bootVars, shown, said, unsaved, pc, members, snap>>

BroadcastReturns(s) ==
    /\ Up /\ pc[s] = "casting" /\ pending[s] = {}
    /\ SayNext(s)
    /\ UNCHANGED <<dbVars, bootVars, recvVars, sayVars, members, snap>>

-----------------------------------------------------------------------------
(* joinRoom, partRoom.  Join and Part take r.mu: they wait for broadcasts.  *)

NoBroadcast == \A s \in Speakers : pending[s] = {}

StartJoin(c) ==
    /\ Up /\ pc[c] = "off"
    /\ pc' = [pc EXCEPT ![c] = JoinOrder.start]
    /\ UNCHANGED <<dbVars, bootVars, recvVars, sayVars, members, snap>>

Join(c) ==
    /\ Up /\ pc[c] = "enter" /\ NoBroadcast
    /\ members' = members \cup {c}
    /\ JoinNext(c)
    /\ UNCHANGED <<dbVars, bootVars, recvVars, sayVars, snap>>

\* A failed read is logged, and the joiner gets no history.
ReadHistory(c) ==
    /\ Up /\ pc[c] = "read"
    /\ \/ snap' = [snap EXCEPT ![c] = GetRoomHistory] /\ UNCHANGED gap
       \/ gap' = gap \cup {c} /\ UNCHANGED snap
    /\ JoinNext(c)
    /\ UNCHANGED <<dbVars, bootVars, live, shown, seen, sayVars, members>>

SendHistory(c) ==
    /\ Up /\ pc[c] = "send"
    /\ \/ shown' = [shown EXCEPT ![c] = snap[c]] /\ UNCHANGED gap
       \/ gap' = gap \cup {c} /\ UNCHANGED shown
    /\ snap' = [snap EXCEPT ![c] = {}]
    /\ JoinNext(c)
    /\ UNCHANGED <<dbVars, bootVars, live, seen, sayVars, members>>

\* By command, or by removeClient; what it received is counted from its next
\* join.
Part(c) ==
    /\ Up /\ Free(c) /\ NoBroadcast
    /\ members' = members \ {c}
    /\ pc' = [pc EXCEPT ![c] = "off"]
    /\ live' = [live EXCEPT ![c] = <<>>]
    /\ shown' = [shown EXCEPT ![c] = {}]
    /\ gap' = gap \ {c}
    /\ UNCHANGED <<dbVars, bootVars, seen, sayVars, snap>>

-----------------------------------------------------------------------------
(* Start-up: LoadRelease, before anybody can connect *)

bootFrame == UNCHANGED <<old, recvVars, said, pending, pc, members, snap,
                         version, restarts>>

\* No readable release.txt: the release is not looked at.
NoRelease ==
    /\ boot = "compare"
    /\ boot' = "up"
    /\ UNCHANGED <<store, meta, unsaved, announced, told, misreads>> /\ bootFrame

\* An error of GetMeta reads as "no version yet".
Compare ==
    /\ boot = "compare"
    /\ \/ /\ IF meta = version THEN boot' = "up" ELSE BootNext
          /\ UNCHANGED misreads
       \/ BootNext /\ misreads' = misreads + 1
    /\ UNCHANGED <<store, meta, unsaved, announced, told>> /\ bootFrame

SetMeta ==
    /\ boot = "record"
    /\ \/ meta' = version /\ BootNext
       \/ boot' = "up" /\ UNCHANGED meta
    /\ UNCHANGED <<store, unsaved, announced, told, misreads>> /\ bootFrame

\* The broadcast that follows reaches nobody: main does not listen yet.
announceReleaseInLobby ==
    /\ boot = "announce"
    /\ Add(Announcement)
    /\ announced' = announced + 1
    /\ told' = told + 1
    /\ BootNext
    /\ UNCHANGED <<meta, misreads>> /\ bootFrame

\* The process ends, at any step, and is started again, perhaps with another
\* release.  Nothing but the database is left.
Restart(v) ==
    /\ restarts < MaxRestarts
    /\ restarts' = restarts + 1
    /\ version' = v
    /\ told' = IF v = version THEN told ELSE 0
    /\ misreads' = 0
    /\ boot' = BootOrder.start
    /\ pc' = AtRest
    /\ pending' = [s \in Speakers |-> {}]
    /\ members' = {}
    /\ snap' = [c \in Conns |-> {}]
    /\ live' = [c \in Conns |-> <<>>] /\ shown' = [c \in Conns |-> {}]
    /\ gap' = {}
    /\ UNCHANGED <<dbVars, said, unsaved, seen, announced>>

-----------------------------------------------------------------------------
Talk == \E s \in Speakers :
    \/ Say(s) \/ StoreLine(s) \/ Broadcast(s) \/ BroadcastReturns(s)
    \/ \E d \in pending[s] : SendRaw(s, d[1], d[2])

Membership == \E c \in Conns :
    StartJoin(c) \/ Join(c) \/ ReadHistory(c) \/ SendHistory(c) \/ Part(c)

Boot == NoRelease \/ Compare \/ SetMeta \/ announceReleaseInLobby

Next ==
    \/ Talk
    \/ Membership
    \/ (\E l \in store : Expire(l)) \/ Purge
    \/ Boot
    \/ \E v \in Versions : Restart(v)

Spec == Init /\ [][Next]_vars

-----------------------------------------------------------------------------
(* Properties *)

TypeOK ==
    /\ store \subseteq Line /\ old \subseteq Line
    /\ unsaved \subseteq Line /\ seen \subseteq Line
    /\ meta \in Versions \cup {NoVersion} /\ version \in Versions
    /\ boot \in {"compare", "record", "announce", "up"}
    /\ pc \in [Speakers -> Steps] /\ said \in [Speakers -> Nat]
    /\ pending \in [Speakers -> SUBSET (Line \X members)]
    /\ members \subseteq Conns /\ gap \subseteq Conns
    /\ snap \in [Conns -> SUBSET Line] /\ shown \in [Conns -> SUBSET Line]
    /\ live \in [Conns -> Seq(Line)]
    /\ {restarts, announced, told, misreads} \subseteq Nat

\* Lines whose handler is not done with them.
InHand == {LineOf(s) : s \in {x \in Speakers : pc[x] \in SaySteps}}

Received(c) == shown[c] \cup {live[c][i] : i \in DOMAIN live[c]}

\* A member that has completed joinRoom, and for which no buffer was full and
\* no read failed, has received every line of the last 24 hours, said before
\* it came or since, unless its handler is still at it: storing before the
\* broadcast and joining before the read leave no gap between history and
\* live lines, and a restart makes none.
NothingMissed ==
    \A c \in members : (c \notin gap /\ pc[c] \in {"in"} \cup SaySteps) =>
        store \ (old \cup InHand) \subseteq Received(c)

\* README: "Chat and trivia messages persist in SQLite for 24 hours": whatever
\* anybody was shown is in the history for a day, also when the process is
\* killed in between; only a failed insert, which is logged, makes an
\* exception.
SeenIsKept == seen \subseteq store \cup old \cup unsaved

\* A member receives the lines of one speaker in the order they were said.
LiveInOrder ==
    \A c \in Conns : \A i, j \in DOMAIN live[c] :
        (i < j /\ live[c][i].by = live[c][j].by) => live[c][i].n < live[c][j].n

\* A release is announced at most once as long as it stays in place, wherever a
\* crash falls and however many restarts follow: a process announces it a second
\* time only if that very process failed to read the version kept.  An older
\* release put back counts as put in place anew.
AnnouncedOnce ==
    [][announced' # announced => told = 0 \/ misreads > 0]_vars
=============================================================================
