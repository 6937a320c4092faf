------------------------------ MODULE Presence ------------------------------
(***************************************************************************)
(* Who is in a room, as one page (web/app.js) shows it.  The server tells  *)
(* the page in three ways: a list (room_users) that each goroutine reads   *)
(* and then broadcasts, a line ("x has joined", "x has left"), and a count *)
(* (room_list).  The page also takes the speaker of each line it renders   *)
(* for a member, and in a private room it renders a line only after an     *)
(* await, while other messages are handled.                                *)
(*                                                                         *)
(* One room, which is not evicted.  Each client's reader is one goroutine  *)
(* (joinRoom, partRoom, handleNick, handleChat); of the clients, Me is the *)
(* page, which joins the room once, with the key if it needs one.          *)
(***************************************************************************)
EXTENDS Integers, Sequences, FiniteSets, Functions, SequencesExt

CONSTANTS
    Me, Others,         \* the page's connection, and the others
    NoNick, Nicks,      \* nicks, with and without a tripcode
    Bare,               \* Bare[n]: n without its tripcode
    Bot,                \* a reserved nick that lines of the server carry
    Casts,              \* the nicks the clients may have at the start
    Pasts,              \* the lines the history may hold at the start
    Backlog, Budgets    \* bounds: of the messages under way; of each kind of event

Clients == Others \cup {Me}

Events == {"moves", "lines", "renames", "lists", "lost", "switches"}

\* What a list tells: the members' nicks, and their number.
Parts == {"nicks", "number"}

ASSUME PresenceAssumption ==
    /\ Me \notin Others /\ NoNick \notin Nicks /\ Bot \in Nicks
    /\ Bare \in [Nicks -> Nicks]
    /\ Casts \subseteq [Clients -> (Nicks \ {Bot}) \cup {NoNick}]
    /\ Pasts \subseteq Seq(Nicks)
    /\ Backlog \in Nat \ {0} /\ Budgets \subseteq [Events -> Nat]

VARIABLES
    private,            \* the room has a password
    members, nick, history,
    at, read,           \* per reader: where it stands, the list it has read
    down,               \* messages to the page
    known, nicks, count, label,     \* roomMemberNicks (if there is an entry),
                                    \* roomLiveCounts (or -1), the label's count
    active,             \* the room is the page's current room
    past, lines,        \* renderHistory and renderChatLine, while they wait
    budget,             \* the events that may still happen
    behind,             \* the parts that were overtaken, or lost, when last told
    renamed,            \* nicks given up or taken on since the last list was read
    guessed, spoke, putBack     \* what the page made up since the last list

roomVars == <<private, members, nick, history>>
sentVars == <<behind, renamed>>
madeUp   == <<guessed, spoke, putBack>>
pageVars == <<known, nicks, count, label, active, past, lines, madeUp>>
vars == <<roomVars, at, read, down, pageVars, budget, sentVars>>

NamedNicks(ms) == {nick[c] : c \in ms} \ {NoNick}

\* A list that is not being sent.  A part of one that is: "fresh" until the
\* members change, "overtaken" once a fresh one is sent before it.
NoList == [nicks |-> {}, number |-> 0, fresh |-> {}, overtaken |-> {}, renamed |-> {}]
NoPast == [on |-> FALSE, shared |-> FALSE, set |-> {}, left |-> <<>>]

Init ==
    /\ private \in BOOLEAN
    /\ members = {} /\ nick \in Casts
    /\ history \in {h \in Pasts : private => Bot \notin Range(h)}
    /\ at = [c \in Clients |-> "idle"] /\ read = [c \in Clients |-> NoList]
    /\ down = <<>>
    /\ known = FALSE /\ nicks = {} /\ count = -1 /\ label = 0 /\ active = TRUE
    /\ past = NoPast /\ lines = <<>>
    /\ budget \in Budgets
    /\ behind = {} /\ renamed = {}
    /\ guessed = FALSE /\ spoke = {} /\ putBack = FALSE

-----------------------------------------------------------------------------
(* The server *)

Use(event) == budget[event] > 0 /\ budget' = [budget EXCEPT ![event] = @ - 1]

\* SendRaw to the page: a full buffer drops the message.
Space == Len(down) < Backlog

Deliver(m) == Space /\ down' = Append(down, m) /\ UNCHANGED budget
Drop       == Use("lost") /\ UNCHANGED down

\* A broadcast: the page hears it if it is a member.
Broadcast(m) == IF Me \in members THEN Deliver(m) \/ Drop ELSE UNCHANGED <<down, budget>>

Go(c, from, to) == at[c] = from /\ at' = [at EXCEPT ![c] = to]

\* The members change: the lists read so far are old.
Aged == [c \in Clients |-> [read[c] EXCEPT !.fresh = {}]]

\* What follows a join or a part: a guest is not announced.
AfterMove(c, line) == IF nick[c] # NoNick THEN line ELSE "nicks"

\* room.Join.
Join(c) ==
    /\ Use("moves") /\ c \notin members
    /\ Go(c, "idle", IF c = Me THEN "history" ELSE AfterMove(c, "joined"))
    /\ members' = members \cup {c} /\ read' = Aged
    /\ UNCHANGED <<private, nick, history, down, sentVars, pageVars>>

\* partRoom, removeClient: room.Part.
Part(c) ==
    /\ Use("moves") /\ c \in members \ {Me}
    /\ Go(c, "idle", AfterMove(c, "left"))
    /\ members' = members \ {c} /\ read' = Aged
    /\ UNCHANGED <<private, nick, history, down, sentVars, pageVars>>

\* The part of a join that its own connection alone hears: history, then a list.
SendHistory ==
    /\ Go(Me, "history", "ownNicks")
    /\ IF history = <<>> THEN UNCHANGED <<down, budget>>
       ELSE Deliver([op |-> "history", nicks |-> history]) \/ Drop
    /\ UNCHANGED <<roomVars, read, sentVars, pageVars>>

AnnounceOnly(c) ==
    /\ \/ Go(c, "joined", "idle") /\ Broadcast([op |-> "joined", nick |-> nick[c]])
       \/ Go(c, "left", "idle") /\ Broadcast([op |-> "left", nick |-> nick[c]])
    /\ UNCHANGED <<roomVars, read, sentVars, pageVars>>

\* broadcastRoomSystem.
Announce(c) ==
    /\ \/ Go(c, "joined", "nicks") /\ Broadcast([op |-> "joined", nick |-> nick[c]])
       \/ Go(c, "left", "nicks") /\ Broadcast([op |-> "left", nick |-> nick[c]])
    /\ UNCHANGED <<roomVars, read, sentVars, pageVars>>

\* The reader c has read a list, or the nicks for it, and not sent it yet.
UnderWay(c) == at[c] \in {"number", "ownNumber", "tell", "ownTell", "list"}

\* MemberNickList.
ReadNicks(c) ==
    /\ Go(c, "nicks", "number") \/ Go(c, "ownNicks", "ownNumber")
    /\ read' = [read EXCEPT ![c] = [NoList EXCEPT !.nicks = NamedNicks(members),
                                                  !.fresh = {"nicks"}]]
    /\ UNCHANGED <<roomVars, down, budget, sentVars, pageVars>>

\* room.MemberCount: the lock was given up since the nicks were read.
ReadNumber(c) ==
    /\ Go(c, "number", "tell") \/ Go(c, "ownNumber", "ownTell")
    /\ read' = [read EXCEPT ![c] = [read[c] EXCEPT !.number = Cardinality(members),
                                                  !.fresh = @ \cup {"number"},
                                                  !.overtaken = @ \ {"number"}]]
    /\ UNCHANGED <<roomVars, down, budget, sentVars, pageVars>>

UsersMsg(c) == [op |-> "room_users", nicks |-> read[c].nicks, number |-> read[c].number]

\* Notes of a list that was sent, or dropped.  An empty one has no "nicks" in
\* its JSON, and the page passes over it.
Turn(c) == read' = [d \in Clients |->
    IF d = c THEN NoList
    ELSE IF UnderWay(d) THEN [read[d] EXCEPT !.overtaken = @ \cup (read[c].fresh \ read[d].fresh)]
    ELSE read[d]]

Sent(c) ==
    /\ behind' = IF read[c].nicks = {} THEN Parts ELSE read[c].overtaken
    /\ renamed' = read[c].renamed
    /\ Turn(c)

NotSent(c) == behind' = Parts /\ UNCHANGED renamed /\ Turn(c)

TellOwn ==
    /\ Go(Me, "ownTell", AfterMove(Me, "joined"))
    /\ \/ Deliver(UsersMsg(Me)) /\ Sent(Me)
       \/ Drop /\ NotSent(Me)
    /\ UNCHANGED <<roomVars, pageVars>>

\* broadcastRoomUsers: its broadcast.
TellUsers(c) ==
    /\ Go(c, "tell", "idle")
    /\ \/ Me \in members /\ Deliver(UsersMsg(c)) /\ Sent(c)
       \/ Me \in members /\ Drop /\ NotSent(c)
       \/ /\ Me \notin members /\ read' = [read EXCEPT ![c] = NoList]
          /\ UNCHANGED <<down, budget, sentVars>>
    /\ UNCHANGED <<roomVars, pageVars>>

\* handleNick: the line it broadcasts is no join and no part to the page.
Rename(c, n) == LET changed == {nick[c], n} \ {NoNick} IN
    /\ Use("renames") /\ at[c] = "idle" /\ n # nick[c]
    /\ nick' = [nick EXCEPT ![c] = n]
    /\ renamed' = renamed \cup changed
    /\ read' = [d \in Clients |-> IF UnderWay(d) THEN [read[d] EXCEPT !.renamed = @ \cup changed]
                                  ELSE read[d]]
    /\ UNCHANGED <<private, members, history, at, down, behind, pageVars>>

\* handleChat; Bot: a line of a game or the like, in public rooms.  What is said
\* after the page has asked for the history is not in it.
Speak(n) ==
    /\ Use("lines")
    /\ \/ \E c \in members : nick[c] = n /\ at[c] = "idle"
       \/ n = Bot /\ ~private
    /\ history' = IF Me \in members /\ at[Me] # "history" THEN history
                  ELSE Append(history, n)
    /\ IF Me \in members
       THEN Space /\ down' = Append(down, [op |-> "chat", nick |-> n])
       ELSE UNCHANGED down
    /\ UNCHANGED <<private, members, nick, at, read, sentVars, pageVars>>

\* handleList, for the page: a public room and its count.
ReadList ==
    /\ ~private /\ Me \in members /\ Use("lists")
    /\ Go(Me, "idle", "list")
    /\ read' = [read EXCEPT ![Me] = [NoList EXCEPT !.number = Cardinality(members),
                                                   !.fresh = {"number"}]]
    /\ UNCHANGED <<roomVars, down, sentVars, pageVars>>

TellList ==
    /\ Go(Me, "list", "idle")
    /\ read' = [read EXCEPT ![Me] = NoList]
    /\ \/ /\ Deliver([op |-> "room_list", number |-> read[Me].number])
          /\ behind' = (behind \ {"number"}) \cup (read[Me].overtaken \cap {"number"})
       \/ Drop /\ UNCHANGED behind
    /\ UNCHANGED <<roomVars, renamed, pageVars>>

Server ==
    \/ SendHistory \/ TellOwn \/ ReadList \/ TellList
    \/ \E c \in Clients :
        Join(c) \/ Part(c) \/ ReadNicks(c) \/ ReadNumber(c) \/ Announce(c) \/ TellUsers(c)
    \/ \E c \in Clients, n \in Nicks \ {Bot} : Rename(c, n)
    \/ \E n \in Nicks : Speak(n)

-----------------------------------------------------------------------------
(* The page *)

\* currentRoomMemberCount and updateRoomLabel, of the new values.
MemberCount(s, n) == IF n # -1 THEN n ELSE Cardinality(s)
Relabel == label' = IF active THEN MemberCount(nicks', count') ELSE label

\* A new Set in the map: a handler that holds the old one keeps that.
Detached == IF past.shared THEN [past EXCEPT !.shared = FALSE, !.set = nicks] ELSE past

\* In a public room the awaits of renderHistory wait for nothing: no other
\* handler comes between.
Busy == past.on /\ ~private

Handle(op) == ~Busy /\ down # <<>> /\ Head(down).op = op /\ down' = Tail(down)

pageFrame == UNCHANGED <<roomVars, at, read, sentVars, budget>>

PresenceFrame == guessed' = FALSE /\ spoke' = {} /\ putBack' = FALSE
                 /\ UNCHANGED <<active, lines>>

RefreshMerging(ns, n) ==
    /\ known' = TRUE /\ nicks' = nicks \cup ns
    /\ count' = n /\ past' = past
    /\ Relabel /\ PresenceFrame

RefreshByNicks(ns, n) ==
    /\ known' = TRUE /\ nicks' = ns
    /\ count' = Cardinality(ns)
    /\ past' = Detached
    /\ Relabel /\ PresenceFrame

\* refreshRoomPresence: a new set, and the count of the server, which counts guests.
refreshRoomPresence(ns, n) ==
    /\ known' = TRUE /\ nicks' = ns
    /\ count' = n
    /\ past' = Detached
    /\ Relabel /\ PresenceFrame

room_users ==
    /\ Handle("room_users")
    /\ IF Head(down).nicks = {} THEN UNCHANGED pageVars
       ELSE refreshRoomPresence(Head(down).nicks, Head(down).number)
    /\ pageFrame

room_list ==
    /\ Handle("room_list")
    /\ UNCHANGED nicks
    /\ count' = Head(down).number /\ Relabel
    /\ guessed' = FALSE
    /\ UNCHANGED <<known, active, past, lines, spoke, putBack>> /\ pageFrame

nickMatches(mention, n) == mention = n \/ (Bare[n] # n /\ mention = Bare[n])

\* trackRoomMembersFromSystem: the first nick that matches is taken out.
system_joined ==
    /\ Handle("joined")
    /\ known' = TRUE /\ nicks' = nicks \cup {Head(down).nick}
    /\ count' = Cardinality(nicks') /\ Relabel
    /\ guessed' = TRUE
    /\ UNCHANGED <<active, past, lines, spoke, putBack>> /\ pageFrame

system_left_uncounted ==
    /\ Handle("left")
    /\ known' = TRUE
    /\ nicks' = nicks \ {Head(down).nick}
    /\ count' = count - 1 /\ Relabel
    /\ guessed' = TRUE
    /\ UNCHANGED <<active, past, lines, spoke, putBack>> /\ pageFrame

system_left ==
    /\ Handle("left")
    /\ known' = TRUE
    /\ LET gone == {n \in nicks : nickMatches(Head(down).nick, n)} IN
           IF gone = {} THEN UNCHANGED nicks ELSE \E n \in gone : nicks' = nicks \ {n}
    /\ count' = Cardinality(nicks') /\ Relabel
    /\ guessed' = TRUE
    /\ UNCHANGED <<active, past, lines, spoke, putBack>> /\ pageFrame

\* The end of renderChatLine: a speaker is taken for a member.
Track(n) ==
    /\ known' = TRUE /\ nicks' = nicks \cup {n}
    /\ count' = IF active THEN Cardinality(nicks') ELSE count
    /\ Relabel
    /\ guessed' = (guessed \/ active)
    /\ spoke' = spoke \cup {n}

\* In a private room the line is decrypted first, while other handlers run.
decryptText(n) == lines' = Append(lines, n)

\* renderChatLine, to its await in a private room; lines of the server leave early.
chat ==
    /\ Handle("chat")
    /\ IF Head(down).nick = Bot
       THEN UNCHANGED <<known, nicks, count, label, lines, guessed, spoke>>
       ELSE IF private
       THEN /\ decryptText(Head(down).nick)
            /\ UNCHANGED <<known, nicks, count, label, guessed, spoke>>
       ELSE Track(Head(down).nick) /\ UNCHANGED lines
    /\ UNCHANGED <<active, past, putBack>> /\ pageFrame

\* After the await: decrypted, or not.
LineDecrypted(i) ==
    /\ lines' = RemoveAt(lines, i)
    /\ Track(lines[i]) \/ UNCHANGED <<known, nicks, count, label, guessed, spoke>>
    /\ UNCHANGED <<active, past, putBack, down>> /\ pageFrame

\* renderHistory, to its first line: the first speaker is already taken for a
\* member, in the set of the map or, if there is none yet, in one of its own.
history_begin == LET h == Head(down).nicks IN
    /\ Handle("history")
    /\ past' = [on |-> TRUE, shared |-> known, left |-> h,
                set |-> IF known THEN {} ELSE {h[1]}]
    /\ nicks' = IF known THEN nicks \cup {h[1]} ELSE nicks
    /\ spoke' = spoke \cup (nicks' \ nicks)
    /\ UNCHANGED <<known, count, label, active, lines, guessed, putBack>> /\ pageFrame

\* One line of it is rendered, or fails to decrypt; then the next speaker is
\* added, or the set goes back into the map.
history_line ==
    /\ past.on
    /\ \E shown \in IF Head(past.left) = Bot THEN {FALSE}
                    ELSE IF private THEN BOOLEAN ELSE {TRUE} :
       LET seen    == IF shown THEN nicks \cup {Head(past.left)} ELSE nicks
           counted == IF shown /\ active THEN Cardinality(seen) ELSE count
           rest    == Tail(past.left)
       IN
       /\ IF rest # <<>>
          THEN /\ past' = [past EXCEPT !.left = rest,
                               !.set = IF past.shared THEN @ ELSE @ \cup {rest[1]}]
               /\ nicks' = IF past.shared THEN seen \cup {rest[1]} ELSE seen
               /\ known' = (known \/ shown)
               /\ count' = counted
               /\ UNCHANGED putBack
          ELSE /\ past' = NoPast
               /\ nicks' = IF past.shared THEN seen ELSE past.set
               /\ known' = TRUE
               /\ count' = IF active /\ counted \in {-1, 0} THEN Cardinality(nicks')
                           ELSE counted
               /\ putBack' = (putBack \/ ~past.shared)
       /\ guessed' = (guessed \/ (active /\ (shown \/ count' # count)))
    /\ label' = IF active /\ count' # -1 THEN count' ELSE label
    /\ spoke' = spoke \cup (nicks' \ nicks)
    /\ UNCHANGED <<active, lines, down>> /\ pageFrame

\* setActiveRoom: to another room, and back.
Switch ==
    /\ ~Busy /\ Use("switches")
    /\ active' = ~active
    /\ label' = IF active THEN label ELSE MemberCount(nicks, count)
    /\ UNCHANGED <<known, nicks, count, past, lines, madeUp, down, roomVars, at, read,
                   sentVars>>

Page ==
    \/ room_users \/ room_list \/ system_joined \/ system_left
    \/ chat \/ history_begin \/ history_line \/ Switch
    \/ \E i \in DOMAIN lines : LineDecrypted(i)

Next == Server \/ Page

Spec == Init /\ [][Next]_vars

-----------------------------------------------------------------------------
(* Properties *)

Steps == {"idle", "history", "ownNicks", "ownNumber", "ownTell", "joined", "left",
          "nicks", "number", "tell", "list"}

Messages ==
    [op : {"history"}, nicks : Seq(Nicks)] \cup [op : {"joined", "left", "chat"}, nick : Nicks]
    \cup [op : {"room_users"}, nicks : SUBSET Nicks, number : Nat]
    \cup [op : {"room_list"}, number : Nat]

TypeOK ==
    /\ {private, known, active, guessed, putBack} \subseteq BOOLEAN
    /\ members \subseteq Clients
    /\ nick \in [Clients -> (Nicks \ {Bot}) \cup {NoNick}] /\ history \in Seq(Nicks)
    /\ at \in [Clients -> Steps]
    /\ read \in [Clients -> [nicks : SUBSET Nicks, number : Nat, fresh : SUBSET Parts,
                              overtaken : SUBSET Parts, renamed : SUBSET Nicks]]
    /\ behind \subseteq Parts
    /\ down \in Seq(Messages)
    /\ nicks \cup renamed \cup spoke \subseteq Nicks
    /\ count \in Nat \cup {-1} /\ label \in Nat
    /\ past \in [on : BOOLEAN, shared : BOOLEAN, set : SUBSET Nicks, left : Seq(Nicks)]
    /\ lines \in Seq(Nicks)
    /\ budget \in [Events -> Nat]

\* Nothing is under way: what the page shows now, it goes on showing.
Quiet ==
    /\ Me \in members /\ \A c \in Clients : at[c] = "idle"
    /\ down = <<>> /\ ~past.on /\ lines = <<>>

NobodyMissing  == NamedNicks(members) \subseteq nicks \cup renamed
StrangersSpoke == nicks \subseteq NamedNicks(members) \cup spoke \cup renamed

\* When all is quiet, the page has everybody who is in the room and has a nick
\* (whom it would highlight when they are mentioned), but for three cases: the
\* last list was overtaken by an older one or lost; a history that was still
\* being decrypted put back the set from before; a nick has changed since the
\* last list was read.  And whomever it has besides has spoken since that list
\* (a line may come after its speaker has left), or has just changed nicks.
ListAgrees ==
    (Quiet /\ "nicks" \notin behind /\ ~putBack) => NobodyMissing /\ StrangersSpoke

\* The number beside the room's name is the number of its members, guests and
\* second tabs included, but for two cases: the number told last was counted
\* before one that was told earlier, or was lost; the page has counted by itself
\* the nicks it knows.
LabelCounts ==
    (Quiet /\ active /\ "number" \notin behind /\ ~guessed) => label = Cardinality(members)
=============================================================================
