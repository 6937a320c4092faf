# A verification project for DoomChatII

DoomChatII is a browser chat: one Go process (`src/*.go`, all of it package
`main`) with WebSocket clients (`src/web`), an SQLite file for history and
boards, and everything else in memory.  This directory holds TLA+ modules that
model the concurrent core of the server and the connection logic of the page,
the TLC configurations that check them on small instances, and TLAPS proofs of
what holds for every size.

    tlc -workers 2 -config MCRooms.cfg MCRooms.tla     # a run
    tlapm RoomsProofs.tla                              # the proofs of a module

## 1. The system

### Goroutines and locks

| goroutine | started by | what it does |
|---|---|---|
| reader (`readPump`) of a connection | `serveWS` | reads one message, handles it to its end, reads the next; in the end sends the client on `h.unregister` |
| writer (`writePump`) of a connection | `serveWS` | drains `c.send`, pings; closes the socket when a write fails or the channel is closed |
| the hub (`Hub.Run`) | `main` | receives registrations and unregistrations, runs `removeClient` |
| the evictor (`evictLoop`) | `NewRoomManager` | each minute takes idle and old rooms out of the registry |
| the session cleaner (`cleanupLoop`) | `NewSessionManager` | purges old session records |
| a trivia game (`roomTrivia.run`) | `/trivia` commands | asks, waits 30 s, pauses, asks again |
| the purger (`purgeLoop`) | `NewMessageLog` | deletes history lines older than 24 h |

Each structure has a lock of its own (`h.mu`, `rm.mu`, `r.mu`, `t.mu`, `sm.mu`,
`tm.mu`, `rt.mu`, `c.mu`) and nothing spans two of them but the evictor, which
holds `rm.mu` while it asks each room for its member count, and `Broadcast`,
which pushes to every member under `r.mu`.  So a command is a *sequence* of
critical sections, and what one section read is old in the next: that is where
the hard behaviours of this program are, and the modules take one critical
section (with the goroutine's own work around it) as one step.

In the browser nothing runs in parallel, but handlers stop at each `await` of
`crypto.subtle`, and go on after other handlers, or a whole reconnect, have
changed the state they read.

### Components

| component | state | operations | talks to |
|---|---|---|---|
| Room registry (`room.go`) | `rooms`; per room `members`, `LastActivity` | `Create`, `Get`, `Join`, `Part`, `Broadcast`, `evictStale` | quota, connections |
| Creation quota (`limits.go`) | live rooms and recent creations per address and session | `CanCreate`, `Register`, `Unregister` | registry |
| Rate limiters (`limits.go`, `hub.go`) | a list of grant times per connection, address or session | `allow`, `allowConnection` | readers, `serveWS` |
| Hub and connections (`hub.go`, `client.go`) | `clients`, `connCount`; per client `send`, `rooms`, `nick`, `sessionID` | `serveWS`, `Run`, `removeClient`, `Send`, `SendRaw`, the pumps | everything |
| Sessions (`session.go`) | `sessions`: nick, rooms, `LiveClient`, `LastActivity` | `Upsert`, `CanRestore`, `UpdateNick`, `UpdateRooms`, `Touch`, `ClearLive`, `Delete`, cleanup | readers, hub |
| Trivia (`trivia.go`) | `byRoom`; per game `Active`, `CurrentQ`, `Answer`, `Scores`, `stopCh` | `start`, `Stop`, `CheckAnswer`, `ResyncClient`, `run` | rooms, history |
| Message handlers (`client.go`, `roll.go`, `emote.go`) | none of their own | one per message type | everything |
| Chat history (`history.go`, `chat_db.go`) | an SQLite table | `Add`, `Get` | handlers |
| Release notes (`release.go`) | a version in SQLite | `announceRelease` at start-up | history, lobby |
| Message boards (`boards.go`, `db.go`) | SQLite tables | one statement per request | HTTP |
| Wire format, validators (`protocol.go`) | none | JSON, character classes | handlers |
| Password hashing, headers, configuration, start-up (`security.go`, `main.go`, `limits.go`) | none | | |
| Web client (`web/app.js`) | `ws`, `reconnectTimer`, `reconnectAttempts`, `currentRoom`, `joinedRooms`, `roomKeys`, `pendingPrivateJoin`, `lastJoinAttempt`; `roomMemberNicks`, `roomLiveCounts`; `settings` (also in `localStorage`, shared by the tabs), `fullNick` | `connect`, `scheduleReconnect`, `handleMessage`, `submitLine`, `handleCommand`, rendering | server |

### What makes each of them correct

- **Registry.** The two sides of a membership (`Client.rooms`, `Room.members`)
  agree whenever no command is under way, although a `*Room` that was looked up
  may be evicted, and its name given to another object, before it is used; caps
  hold; a removed connection sits in no registered room; old rooms go.
- **Quota.** The counters equal the live rooms; a quota is exceeded by less than
  the creations that were in flight at once.
- **Limiters.** Pruning a list when it is read, and storing it only on a grant,
  loses nothing that still counts.
- **Connections.** A connection is counted in and out once; a failed one goes
  even if nobody reads; a broadcast neither blocks nor panics.
- **Sessions.** A record mirrors its connection while that lives, keeps its last
  state afterwards, restores a reconnect within 30 s, and does not stay for ever.
- **Trivia.** One game per room, one winner per question, one resolution per
  question, `stopCh` closed once; a stop ends the game; joiners see the open
  question.
- **History.** A line is stored, then broadcast; a joiner becomes a member, then
  reads: so nobody misses a line.  What was shown stays in the history for a day,
  across a restart.
- **Releases.** Announced at most once, wherever the process is killed.
- **Web client.** It is connected, has a reconnect pending, or has rightly given
  up; it greets first on every connection; when nothing is under way it shows the
  rooms the server has it in, all of them and no others; a line goes to the room
  it was typed in.
- **Presence.**  When nothing is under way the page has everybody who is in the
  room in its list, and the right number beside the room's name, although lists
  are read and sent by several goroutines and the page counts along.
- **Account.**  The nick the page shows is the one the server has; a session that
  was logged out stays forgotten; of each setting the one in store is the one
  chosen last.

Every place in the code where one of these can go wrong in a way a test would
hardly reach is listed under `hazards` in `PROJECT.json`, with its line and the
properties that watch it.

## 2. The modules

| module | models | run(s) |
|---|---|---|
| `Rooms` | `RoomManager`, `Room`, `RoomCreateTracker`, `joinRoom`, `partRoom`, `removeClient`'s parting, `evictStale` | `rooms`, `rooms_live` |
| `RoomQuota` | what the quota on rooms promises (abstract) | via `rooms` |
| `RateLimit` | what a limiter promises (abstract) | via `window` |
| `SlidingWindow` | `tokenBucket`, `slidingCounter`, `allowConnection` | `window` |
| `Trivia` | the games of one room | `trivia` |
| `Sessions` | `SessionManager` and all its callers | `sessions`, `sessions_shared` |
| `Hub` | `serveWS`, `Run`, `removeClient`, both pumps, `send`, `Broadcast` | `hub`, `hub_panics` |
| `ChatLog` | `MessageLog`, the handlers that say a line, `joinRoom`'s history, `LoadRelease` | `chat_log` |
| `WebClient` | `app.js`: socket, timer, rooms, keys, lines and commands; the server's answers | `web_client` |
| `Presence` | one room as a page shows it: `room_users`, "has joined", `room_list`, history; the goroutines that send them | `presence` |
| `Account` | the tabs of one browser: `localStorage`, nick, session id, looks, logout; what the server keeps of them | `account` |
| `RoomsProofs`, `TriviaProofs`, `SessionsProofs`, `HubProofs`, `ChatLogProofs`, `WebClientProofs`, `AccountProofs`, `PresenceProofs` | theorems about the module each extends (section 5); `HubProofs` is about `Hub` and the limiter `SlidingWindow` | |
| `MC*` | instances for TLC | |

Names in the modules are those of the source where TLA+ allows.  A program
counter per goroutine (`pc`, `gpc`, `vpc`, `hub.at`, `ev.at`) says between which
critical sections it stands; `job`, `cmd`, `found`, `held` are the locals it
carries across the gap.  An operator that stands just before the one it
resembles and is used nowhere (`FullOffByOne` before `Full`) is a plausible bug:
`PROJECT.json` "mutants" lists for each property the one that breaks it.

**Rooms.**  A room *object* (`RoomIds`) is kept apart from its *name*, since the
joiner keeps a pointer.  `Create` is the locked part of `RoomManager.Create`
with the tracker's `Register`; `CountUserCreated`, `CanCreate` are the two
earlier sections of the handler.  `JoinLookup` and `JoinEnter` are the halves of
`joinRoom` before and after the `*Room` is in hand, with the undo when the room
is full.  `HubTake`, `HubLookup`, `HubPart`, `HubDone` are `removeClient`; the
evictor takes `rm.mu` at `EvictStart` and everything that needs it waits
(`RmFree`), but `Room.Join` and `Room.Part` do not, and they race
`EvictCount`/`EvictAge`.  Time is two flags per room, quiet (past
`RoomIdleTTL`) and aged (past `RoomMaxAge`), that the clock raises; the clock
waits while a scan is on because `evictStale` reads it once.  The windows of the
quota are numbers of grants; the windows themselves are `SlidingWindow`.
Passwords are left out: a private room may be refused for any reason
(`CreateRefused`), and a join has been accepted when `handleJoin` fires.  `peak`
and `ipPeak` are history variables: the most creations there ever were at once
between the count of the rooms and `Create`, of all clients and of each address.

**RoomQuota.**  The quota without counters: whoever asks for a room is judged by
the rooms that are registered and by who made them.  `Rooms` refines it: `Quota`
is `INSTANCE RoomQuota WITH` the registered rooms, the address and session each
was made for, and how far each client's creation is (`Claim`: not asked, the total
counted, granted).  Membership, joins, the evictor's scan and the counters are
hidden.  `KeepsQuota` says that `CanCreate` grants and refuses as that count would,
at the moment it decides, and that rooms come and go by `Create` and `EvictDelete`
only.

**SlidingWindow / RateLimit.**  One module for the limiter that is written three
times; they differ in what a limit of 0 means (`ZeroRefuses`).  `RateLimit` is
the limiter that forgets nothing, and `SlidingWindow` refines it: `Promise` is
`INSTANCE RateLimit WITH` the clock, the grants made and the last answer, which
both modules have; the pruned list is hidden.  `KeepsPromise` says that every
step of the code is a step of the promise, or a stutter.

**Trivia.**  A step is one section under `tm.mu` or `rt.mu` or one branch of a
select.  The 30 s deadline and the 3 s pause end at any moment, so the deadline
may come between an answer and the tick that notices it.  A chat line that
answers no question changes nothing here and is left out.  The choice of an
unused question, score texts and history lines are abstracted.  `CurrentQ` is
read without a lock for the announcement (trivia.go:179); the model lets that
read see the emptied string, but not a mixture of two.  A question is sent by
`Sent`, to the members or to a joiner, and each of them may lose it to a full
buffer (`Dropped`), as `Send` and `SendRaw` allow.  `Found` is what a lookup under
`tm.mu` finds with its flag up.  `orphaned` is a history variable: the games that
the finish of another has unregistered.

**Sessions.**  A `SessionData` object is named by the connection whose hello
made it, so that the pointer `CanRestore` returns can outlive its place in the
map.  `HelloCheck`..`HelloDone` are the critical sections of `handleHello`; the
record found is read without the lock, and in three steps: its nick
(`HelloRead`), the rooms that `Upsert` is given (`HelloRooms`), and, after
`Upsert`, the rooms to join (`HelloRestore`).  `HubClear`, `HubRooms`,
`HubNick` are the three sections of `removeClient`.  The age of a record has three values: restorable, too old to restore, purgeable.  `shared`
and `left` are history variables: the ids that two connections used at once, and
what the last connection looked like when it was removed.

**Hub.**  One room.  `register` and `unregister` are rendezvous, taken by the
hub only between two removals.  A message is a place in a buffer; a full buffer
drops it; a push on a closed channel sets `crashed`, after which nothing
happens.  `SendReady` says that the select with its default never waits.
`Join` and `Part` need `r.mu` alone, a broadcast holds it for reading.
`removeClient` is `Unregister` (under `h.mu`: counted out, channel closed),
`HubAsks` (the rooms copied and looked up; only now it asks for `r.mu`, and until
here broadcasts go on starting), `HubPart`, and the broadcast that follows.  `peak`
is a history variable: the most connections there ever were between the check
of `MaxConnections` and their registration.

**ChatLog.**  One room that is never evicted.  A line is its speaker and a
number.  `Say`, `StoreLine`, `Broadcast`, `SendRaw`, `BroadcastReturns` are the
course of every handler that says something, a trivia game's too; `StartJoin`,
`Join`, `ReadHistory`, `SendHistory` that of `joinRoom`.  The orders are tables
(`SayOrder`, `JoinOrder`, `BootOrder`) because they are what the properties rest
on, and the mutants swap them.  Inserts, reads and pushes may fail, as the code
allows: it logs or drops.  `Join` and `Part` wait while a broadcast is under way
(`r.mu`).  A line grows old at any moment.  `Restart` kills the process between
any two steps and keeps the three database variables only; it may bring another
release.  `gap`, `unsaved`, `seen`, `announced`, `told`, `misreads` are history
variables: `told` counts the announcements since the present release was put in
place, `misreads` the failed reads of the kept version by the present process.

**WebClient.**  A handler of the page is one step, or two when it awaits a key or
an encryption: the rest is an element of `tasks`, which may run in any order and
at any time, or throw (`Thrown`).  Messages are two queues that a break empties.
The server is what `client.go` answers: it may find the session or not (when it
may is `Sessions`), and refuse any join (why it may is `Rooms`).  It answers
everything unless the connection breaks: a full buffer is not modelled here.  The
user's `/nick` has been given.  Commands that only send are `Command` with their
message: dice, emotes and art leave at once and in the clear, so they refuse to
leave for a room with a key, and they race the lines that wait for encryption.
A room has two names where the code has two: `/create` puts a `#` before whatever
was typed, and sends it as typed, so that of `#foo` the page makes `##foo`
(`Marked`, `Shown`) and the server's `normalizeRoom` makes `#foo`; no `##foo`
exists on the server (`ServerRooms`), which can only refuse it.  Five history
variables record, per connection and since the last join of the room, how the page
and the server come to disagree about a room: `refused`; `bare`, parted by a name
without its `#`; `early`, parted before the greeting was answered; `hasty`, asked
for before it was answered; `doubled`, created by a name with its `#`.  A number after
`/rooms` is taken for a name: the test before it in `handleCommand` accepts
digits, so the list is never consulted, although the repository's README
(line 43) says "Switch to a room by its list number".  `TypeRooms` stands for
both.

**Presence.**  One room that is not evicted, public or private, and one page
(`Me`) that joins it.  A list has two parts that are read under `r.mu` one after
the other, the nicks (`ReadNicks`) and the number (`ReadNumber`), and is then sent
(`TellUsers`, `TellOwn`); in between, other goroutines move, and each list carries
the parts that are `fresh` (nobody has moved since they were read) and those that
are `overtaken` (a fresh one has gone out before them), and the nicks that were
changed since it was read (`renamed`).  `Announce` is the line "has joined" or "has left", which
`trackRoomMembersFromSystem` reads back into nicks.  `renderHistory` keeps the
set it began with: `past.shared` says whether that is still the one in the map
(`roomMemberNicks`), which `refreshRoomPresence` replaces by a new one.  In a
private room each line of a history or a chat waits for `decryptText`, and every
other handler may run meanwhile; in a public room those awaits wait for nothing
(`Busy`).  `known` tells an absent entry from an empty set.  `Switch` leaves the
room's tab and returns.  `behind`, `countOld`, `renamed`, `guessed`, `spoke`,
`putBack` are history variables: they name the exceptions of the two properties.

**Account.**  Each tab has a copy of the settings that it reads once (`Load`) and
writes back as a whole (`Save`); `stored` is `localStorage`.  `TypeNick` is
`/nick`, in two steps when a secret has to be hashed (`NickHashed`).  `TypeLook`
is `/theme`, `/font`, `/sound` and `/brimley`: each kind of look has its value, one
is chosen at a time, and all are saved together with nick and session id, so that a
tab that has not seen a choice undoes it with whatever it saves next (`stale`,
`undone`).
`TypeLogout` removes the settings, makes up a new id that it does not save, and
sends the logout.  Of the server there is `handleHello`, restoring or not as it
likes (when it may is `Sessions`), `handleNick` with its refusals,
`handleLogout` and `removeClient`.  Session ids are numbers in the order they are
made up.  `refused`, `early`, `forgotten`, `excused`, `chosen`, `stale`,
`undone` are history variables.

## 3. The runs

| run | question | bounds |
|---|---|---|
| `rooms` | safety of the registry under every interleaving; does it keep the quota | 2 connections of one address, 2 names, the lobby and 2 room objects; all limits 1 or 2, windows unlimited; clients, names and room objects are symmetric |
| `rooms_live` | do aged rooms and removals get through | 2 connections, 1 name, private rooms, 1 session, rate limits 1 |
| `window` | does pruning matter; is the limit kept in every window | 5 grants, window 3, limit 2, 7 instants |
| `trivia` | one stop, one winner, no stuck game, joiners informed | 2 games, 2 players, 1 viewer, 1 question, any of which may be lost |
| `sessions` | do records mirror, keep, restore exactly, and go | 2 connections, 1 id, 2 nicks, 1 room and the lobby |
| `sessions_shared` | (violated) a reconnect within 30 s restores | the same |
| `hub` | accounting and closed channels; do removals and broadcasts end though no peer reads | 2 connections, limit 1, buffer 2 |
| `hub_panics` | (violated) no send on a closed channel | 3 connections, limit 2, buffer 1 |
| `chat_log` | no gap for a joiner, nothing shown is lost, order, releases | 1 member, 1 game, 2 lines, 2 releases, 1 restart |
| `web_client` | reconnects, greeting, agreement on rooms, lines astray | 1 public and 1 private room besides the lobby, the public one also typed as `#name`, 3 sockets, 3 lines typed, `MAX_RECONNECTS` 1 |
| `presence` | when all is quiet, whom does the page list, and how many does it count | the page and 2 others (a namesake with or without tripcode, a guest, or one user twice), 1 message under way, at most 3 joins and parts, with one each of: a line, a rename, a `/list`, a loss, a switch, in the combinations of `MCBudgets`; the 2 others are symmetric |
| `account` | what tabs, reconnects and logouts leave of nick, session and looks | 2 tabs, 3 ids, 2 lines typed, 4 connections, 2 nicks the server takes and 1 it refuses, 2 kinds of looks with 2 values each; tabs, nicks and kinds are symmetric |

The bounds are small because the hazards are: each of them needs two goroutines
at one object (a joiner and the evictor, two joiners at the last seat, two
players with one answer, a broadcaster and the hub, a hello and `removeClient`,
a joiner and a speaker), and an object replaced at most once under its name (two
user-made `RoomIds`).  Caps of 1 make "full" and "nearly full" states frequent.
In `rooms_live` one connection creates, joins and leaves while the other is
removed, so that the hub's lookups compete with it and with the evictor, and one
removal waits for the other.  Two connections in `hub` overtake each other between the check of a limit of 1
and the registration, and one broadcasts while the other is removed.  The
limiter needs more grants than two windows hold and more time than two windows
last.  In `chat_log` the two lines may come from one speaker (order) or two (a
line stored and one broadcast around a join); one restart cuts any handler once,
and two releases give a change, a return and a repetition.  In `web_client`
three lines are enough to join, say a line in a keyed room and switch away while
it is encrypted, and three sockets to lose one connection, give up, and come
back.  In `presence` one message under way is enough, because nothing on the
server waits for the page and no handler of the page waits for the server: what
matters is the order in which lists are read, sent and handled, which three
moves and one loss or line already turn round; the page's awaits overlap with
later messages all the same.  In `account` two lines are a nick and a logout, or
two nicks within two seconds, or a look in each tab; four connections let each
tab lose one and come back, and three ids allow two logouts.  What the sizes
leave open is, for the properties of section 5, closed by the proofs.

`CHECK_DEADLOCK FALSE` stands where an instance really runs out of something:
of grants (`window`), of games (`trivia`), of connections (`sessions`, `hub`),
of lines (`chat_log`), of sockets and lines (`web_client`, `account`), of events
(`presence`), or stops after the
panic (`hub_panics`).  `rooms` and `rooms_live` check deadlock: the evictor never
stops.

### Fairness

Nothing is assumed of users or networks: nobody has to connect, type, answer,
read or leave.

- `Rooms`: weak fairness of the evictor's steps (a ticker that is never stopped),
  strong fairness of the hub's.  The hub waits for `rm.mu`, which each scan takes
  away for a while; `sync.RWMutex` lets the readers that wait go first when a
  writer unlocks, so the wait ends.
- `Trivia`: weak fairness of each game's goroutine: it is scheduled, its timers fire.
- `Sessions`: handlers finish, the hub and the cleanup loop run, and a record grows old.
- `ChatLog`, `WebClient`, `Presence`, `Account`: none; only safety is stated of them.
- `Hub`: a handler runs on, a failed connection's writer ends, the hub receives
  what is offered (weak).  `ReadFails` is strongly fair: what is left to be read
  from a connection that is down is finite.  `Unregister` is strongly fair:
  `Run`'s `select` chooses at random among ready cases.  `Write` is not fair at
  all, so the liveness properties hold with peers that never read.

## 4. What the checks show

The passing runs found: membership, caps, counters, removal and eviction are
right under every interleaving of the instance; a joiner may end up in an
orphaned room object, but the name in its `Client.rooms` then stands for that
object (`SeatsAgree`), and no dead connection stays in a registered room
(`NoGhosts`).  Two limits are soft by construction: the room quota and
`MaxConnections` are tested in one critical section and spent in another.
`QuotaOvershootBounded` and the second half of `AdmissionCounts` bound by how much
each can be passed: by less than the most creations, or admissions, that were ever
in flight at once, so that a limit is kept where they come one at a time.  That the tests themselves are right, although they ask
counters under another lock than the registry's, is `KeepsQuota`.  Both bounds
are strict, and so speak of a total above 0 only (`OvershootOf`): with a limit of 0
and nobody about there is nothing below it.

The history needs no transaction: the two orders (store, then broadcast; join,
then read) leave no gap, even with failures and restarts in between.  What they
leave is duplicates, a live line that arrives before the history that holds
older ones, and a release that a crash between `SetMeta` and the announcement
leaves unannounced; the repository promises nothing about these.

The page is right about its connection.  About its rooms it may be wrong in five
ways, and `PageAgrees` says that there are no others.  Each of them happens in the
run: drop one from the property and TLC shows it.  The page shows a room that the
server does not have it in, when the server refused the room after the page had
switched to it; when `/part name` without its `#` was typed, which parts on the
server, where the name is normalized, and not on the page; when a `/part` typed
before the greeting was answered is undone by `session_restored`; or when the room
was created as `/create public #foo`, which the page calls `##foo`.  The server has
it in a room that the page does not show, when the room was created so, or when it
was asked for before the greeting was answered: `session_restored` replaces the list
by one the server made before it saw that.  Each of these lasts until the room is
joined again, or to the end of the connection.  A line can go to another room than
the one it was typed in only when it waited for its encryption
(`AstrayOnlyEncrypted`): the room is read after the `await`, so the ciphertext
may go to a room whose members cannot read it; plain text never goes astray.

The page's list of a room's members is right when all is quiet (`ListAgrees`),
whatever it guessed in between, but for cases that all occur in the run.  The last
list may have been overtaken by one that another goroutine had read before it, or
dropped by a full buffer: no later message corrects that until somebody moves.  A
list without nicks has no `nicks` in its JSON and is passed over.  A history that
is being decrypted while a list arrives puts the older set back at its end
(app.js:721).  After `/nick` the old nick stays and the new one is unknown until a
list that was read after it arrives.  And a line may arrive after its speaker has left.  The number
beside the room is the server's (`LabelCounts`) until a line or a join makes the
page count its own nicks, which lack the guests and count namesakes once.

The page's nick agrees with the server's when all is quiet (`NickAgrees`), but for
a nick that the server refused and the page keeps and will say hello with, and
one set, or dropped by a logout, before the greeting was answered, which the
answer undoes on the page.  A logout is final (`LogoutForgets`) unless another
tab still has the session's id, which it stores again with its next save, or the
greeting was under way.  Of each kind the look chosen last is in store
(`ChoiceKept`) until a tab that has not seen the choice saves anything at all, a
restored session, a nick, or a look of another kind, and with it what it had read:
`/font` in one tab undoes the `/theme` typed in another.

Two properties that the repository states or intends do not hold:

1. **`NeverPanics`** (hub.go:94, run `hub_panics`).  `removeClient` closes
   `c.send` before it takes the client out of its rooms.  A broadcast in between,
   from another reader, sends on the closed channel, which panics the process; it
   may start before the close or after it, up to the moment `Room.Part` asks for
   the room's lock.  `ClosedOnlyWhileRemoving` shows that this window is the only
   one: outside it nothing that a broadcast can reach is closed, and no crash
   falls.  (All that the repository says of the server staying up is the `curl` of
   its README, line 115.)
2. **`ReconnectRestores`** (session.go:99, run `sessions_shared`).
   `CanRestore` refuses while the server has not noticed the loss of the old
   connection, which a lost network may hide for the 60 s of the read deadline, and
   the fresh session then overwrites the record.  The repository's README (line 60)
   promises nick and rooms back "on WS reconnect within 30s".
   `LoneReconnectRestores` shows that a reconnect after the removal is restored,
   and `RestoresExactly` that it gets all that the last connection had.

Three more behaviours are in the modules, and worth a look at the code.  Two of
them are the exceptions that a property names:

- A room evicted by age keeps its members' `Client.rooms` (room.go:254,
  hub.go:227).  When the name is created again, those who hold it, even the
  creator, are told they are in the room and have no seat in it.  `SeatsAgree`
  says what is true instead: each name stands for a seat in *some* object of that
  name, and each seat in a registered room is known to its client.
- `finish` unregisters whatever game is registered for the room (trivia.go:301).
  A game that ends, by itself or by a stop, may be followed by a new one before
  its `finish`, which then unregisters the newer, active game: that can no longer
  be stopped or answered, and a third can be started beside it.
  `ActiveIsReachable` says that an active game's goroutine runs, and that it is
  registered unless just that has happened to this very game (`orphaned`).
- The deadline branch of `waitForAnswer` (trivia.go:218) does not look whether
  the question was just won, so that a won question may be announced as timed out
  too.  No property judges it.

## 5. What is proved

For every value of the constants that meets the named assumptions.

**`HubProofs`, second part** (the limiter that the hub calls), from
`WindowAssumption` (finite grants, natural window, limit and bound):
`LimiterTypeCorrect`, `ListIsComplete`, `WindowNeverOverLimit`, and
`ImplementsPromise`, the refinement of `RateLimit`.  The inductive invariant
`LimiterInv` is the conjunction of the first three.  `ListComplete` (what
the list has lost is out of the window) is the key: with it the code's count and
the full history's count are the same set (`SameRecent`), so each step maps to
the abstract step, and a new grant fits every window because all windows that
contain it end at or after `now`.

**`RoomsProofs`**, from `ConstantsAssumption` and `LimitsAssumption` (`envInt`
refuses negative limits): `TypeCorrect`, the five invariants of run `rooms`, and
the refinement of `RoomQuota`.
The inductive invariant `Base` has three parts: the types; the *registry* (an
object is registered under its own name only, was born, and the lobby stays
where it is); and the *locals* of each goroutine (what a handler, the hub and
the evictor carry across a gap is still what their program counter says).

- `TrackerIsExact`: that `EvictDelete` lowers the right counter needs `Base`: the
  room found under the name carries that name and its creator's address, and no
  other name shares the object.  The step lemmas are few because nearly all
  actions leave the registry and the counters alone (`CountersChange`,
  `MembershipChanges`); `Create` adds one room to exactly one creator's set,
  `EvictDelete` removes one.
- `CapsAlwaysHold`: an object not yet born has no members, so that `Create` cannot
  change the cap of a room that has any.
- `QuotaIsBounded`: the rooms that stand and the creations that will get one
  (`Promised`) together stay below the limit plus `peak`, or plus `ipPeak` for one
  address.  Whoever enters `Promised` does so by a count below the limit, and is
  itself in flight, as all the others promised are (`AdmitOne`, `PeaksReach`: the
  peaks are at least those in flight now).  A creation that ends puts its room in
  its place (`FlightEnds`), and all else only lowers the sum or raises a peak
  (`FewerInFlight`).  The quota of an address needs `TrackerIsExact` besides.
- `SeatsAlwaysAgree`, `NoGhostsRemain`: `Seats` says for each step of a connection
  how the name in `Client.rooms` and the seat in the object may differ: at `enter`
  the name is reserved and the seat not yet taken, at `leave` the reverse, and
  under removal every seat in a registered room belongs to a name that the hub has
  still to look up or has just looked up.
- `CountersDecideRightly`: the refinement, one lemma per action that asks for,
  grants, makes or takes away a room; all others leave the three mapped variables
  alone (`OthersStutter`).  The counters of `CanCreate` are replaced by the
  cardinalities they equal (`TrackerIsExact`, `FitsByCounters`), each step of a
  handler is read off its program counter (`ClaimMoves`), and `EvictDelete` takes
  one room away because no other name shares its object (`Base`).

**`ChatLogProofs`**, from `ChatLogAssumption` (finitely many speakers, members
are not games, the server is neither): `TypeOK` and the four properties of
`chat_log`.

- `AnnouncedAtMostOnce`: `Ledger` says that a release that has been announced is
  the version kept, and that a start-up which is about to record or announce it once
  more has misread that version.  A restart with the same release leaves both true,
  one with another sets `told` back.
- `TypeCorrect`: `Base` adds to the types that a delivery is pending only while
  its speaker broadcasts and that only members speak or sit between the steps of
  a join (`Phases`); `Join` and `Part` keep it because no broadcast is on.
- `ShownIsKept`: `KeptFirst` says that a line is stored, or its insert has
  failed, before any delivery of it is pending.
- `NoGapForJoiners`: `Covered` says of each member without a loss that each line
  stored and not old is received, read (`snap`), still to be read, pending for it
  (`OnItsWay`), or its handler has not broadcast it.  One lemma, `CoveredLasts`,
  shows that a step which keeps the places a line can be in keeps `Covered`.
- `SpokenOrder`: `OrderInv` adds that no number received is above its speaker's
  count, and that all are below it while the speaker's present line has not come
  to that member (`Ahead`).

**`SessionsProofs`**, from `SessionsAssumption` (the "none" values are no
connection, id or nick, and the lobby is not among the other names):
`TypeCorrect`, `LiveRecordIsMirror`, `RemovalIsComplete`, `LoneHelloIsRestored`
and the action property `RestoreIsExact`.  One invariant, `Records`, carries the
three state properties.  `Single`: a connection that is the only user of an id is the only one that
has it.  `Registered`: a record is reached through its own connection's id only,
or its connection is gone.  So a step of a connection writes no record of another
(`Acts`, `OthersAreKept`), and it is enough to look at the connection that acts
(`OwnIsEnough`): its record stays the image of its variables (`Mirrored`), and
when it goes, of what it had (`LeftBehind`).  `Single` is why the properties except
shared ids, and `sessions_shared` shows what happens to those.

`RestoreIsExact` needs more, `Found`: from `CanRestore` to the last of the three
steps that read what it found, the record is that of a connection which is gone, no other id
reaches it, and it is still what that connection left, even when the cleanup loop
has taken it out of the map meanwhile; and what has been read of it by then (the
nick, the rooms for `Upsert`) is what that connection left too.  `FoundByOthers` shows it for the steps of
other connections, which have ids of their own and so no way to that record, and
`TimeFound` for the clock and the purge.

**`TriviaProofs`**, from `TriviaAssumption` (finitely many questions, at least
one): `TypeCorrect` and the four invariants of `trivia`.  `ClosedAtMostOnce` rests on
`Stops` (an active game's channel is open, and whoever closes it brings the flag
down in the same section), `ActiveStaysReachable` on `Flags` (an active game's goroutine
has not come to its end, and the game is registered unless the finish of another
has unregistered this very one), `OneWinnerAtMost` on `Rounds` (an open question has
no winner, and none is left open when the next is picked), and
`ViewersKnowTheQuestion` on `Informed` (a viewer between its `Join` and
`ResyncClient` has seen the open question, has lost it to a full buffer, or holds
the game that will tell).

**`HubProofs`, first part**, from `HubAssumption` (finitely many connections): `TypeCorrect`,
`AdmissionIsCounted`, `OnlyWhileRemoving`.  The first two are inductive with
`Room`: connections counted and connections admitted together stay below the limit
plus `peak`.  `Channels` says that a channel is closed exactly when its connection
is done, that a member with a closed channel is the one being removed, before the hub
gets the room's lock for `Part` (`Parting`), that broadcasts serve members only,
which a removal cannot change while one is on, and that a crash stops the hub
right there.

**`WebClientProofs`**, from `WebClientAssumption`: `TypeCorrect` and the four
properties of `web_client`.  `HelloComesFirst`: until the server has greeted, the
first message under way is the greeting (`Greeting`).  `OfflineAfterAllTries`: tries
and failures differ by at most one (`Retries`).  `AstrayIsEncrypted`: a line that
waits is one that waits for its encryption.  `PageAgreesWithServer` is two
inclusions, and each has an invariant over what is under way.  For the page's rooms
(`RoomsInFlight`): for each of them, and each in a `session_restored` under way,
there is an account (`Accounted`): the server will have it once it has read what is
under way (`WillHave`: it has it and no `part` comes, or a `join` comes and no
`part` after it), or it is refused, bare, early, or the page's name of one that is
doubled (`Mistaken`).  For the server's rooms (`ServerInFlight`): each that it has,
or will have by a `join` under way that no `part` follows, is `Known`: hasty,
doubled, or on the page once that has its answer; what the server has before the
page has its answer is in the `session_restored` that brings it.

**`AccountProofs`**, from `AccountAssumption`: `TypeCorrect` and the three
properties of `account`.  A connection has two phases, before and after the server
has read its greeting, and at most one answer to it (`Connection`).
`NicksAgree`: `NickInFlight` says which nick the server has, or will have, in each
phase.  `LogoutIsForgotten`: no copy of a session, in store, in a tab, under way
either way, or at the server, has a forgotten id that is not excused
(`IdsInFlight`, `IdsKnown`).  `ChoiceIsKept`: a tab that is not stale for a kind of
look has the one of that kind chosen last (`LooksInTabs`), so that whatever it saves
keeps it.

**`PresenceProofs`**, from `PresenceAssumption`; the clients need not be finitely
many: that the members and every set of nicks are is part of the invariant
(`Typed`), because a label is a cardinality.  `TypeCorrect`, `PageAgrees` and
`LabelIsRight`, that is every property of run `presence`.

- A reader `Owes` the page a part of a list, the nicks or the number, when it has
  not read it yet, or has read it and not sent it, and nobody has moved since
  (`Holding`, `fresh`).  While somebody owes a part, nothing is claimed of it; the
  moment nobody does, the last list sent has to be right in it.  `ListsAge` makes that
  step: a part that was read is fresh, or one read later has gone out before it, or
  somebody still owes it.  `FreshIsRight`: fresh nicks are those of the members, but
  for nicks changed since they were read, and a fresh number is how many they are.
- `NewsFirst`: no "has joined" or "has left" comes after the last list under way,
  unless somebody owes another, so the page's last word is a list.  `NicksTold` says what
  the page will have once it has read what is under way: the last list, or, with
  none under way, what it shows.  `CountTold` and `LabelIsCount` say it of the
  label, which `room_list` may also set.
- The channel is a sequence, and everything said of it is about its last list:
  `LastOf` and `Without` with their lemmas on `Append` and `Tail`.

`TypeOK` of `Rooms`, `Trivia`, `Sessions` and `ChatLog`, `LimiterTypeOK`, and `NoWindowOverLimit`, are
proved and in no run: the proofs say more than a run could.  The strengthened
invariants were checked by TLC on the instances of section 3 before they were
proved.

**Only model-checked**: the liveness properties (`AgedEvicted`, `RemovalCompletes`,
`StopEnds`, `NoRecordLeak`, `FailedConnRemoved`, `BroadcastReturns`), since liveness
under fairness is out of the proof system's reach; and the two violated properties,
which have counterexamples instead.  Every safety property of a passing run is a
theorem.

## 6. What is not modelled

- Text: JSON, validation, formatting, dice, emotes, passwords and their hashes.
- Boards: each request is one SQL statement, and their concurrency is SQLite's.
- The second hello on one connection with another id; `app.js` says hello once.
- A torn read of a Go string: of `CurrentQ` (trivia.go:179), and of the nick of a
  record that two connections share (client.go:162).
- That questions do not repeat until the bank is used up.
- Of the web client: rendering, wrapping and scaling of text and art (data and
  layout, with no state that outlives a line), colours and sounds, help texts,
  the panes of small screens, and the release notice.
- Answers lost to a full buffer in `WebClient` and `Account` (they are modelled in
  `Hub`, `Trivia`, `ChatLog` and `Presence`), and a room's eviction in `Presence`.
- Cases that a property exempts and names: `shared` ids in `Sessions` (`RecordMirrors`
  and its like), a failed insert in `SeenIsKept`, what waits for its encryption in
  `AstrayOnlyEncrypted`, and those of `PageAgrees`, `ListAgrees`, `LabelCounts`,
  `NickAgrees` and `LogoutForgets` (section 4).  The model has them all; the property
  says that nothing else goes wrong, and the hazard's note says which case is let go.
- In `web_client` only the public room has a name that is also typed with its `#`
  (`Marked`); the proofs hold for any.
- Static assets and deployment scripts.

## 7. Plan

Done: `Rooms` (first: it is the heart, and the most shared), `SlidingWindow`
over `RateLimit`, `Trivia`, `Sessions`, `Hub`, `ChatLog`, `WebClient`,
`Presence`, `Account`; the proofs above.

Next, in this order:

1. An abstract membership (who is in which room) that `Rooms` implements between
   commands, as it implements `RoomQuota`, and an abstract session for `Sessions`.
2. The text layout of `app.js` (`wrapPlainWords` and its like) as recursive
   functions, checked against what they must keep of a line.
