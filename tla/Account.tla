------------------------------ MODULE Account -------------------------------
(***************************************************************************)
(* Who the user is, in the tabs of one browser and on the server: the      *)
(* settings that each tab reads from localStorage once and writes back as  *)
(* a whole (session id, last nick, looks), the nick of each tab and that   *)
(* of its connection, and what a logout leaves of them.                    *)
(*                                                                         *)
(* localStorage is shared by the tabs and written at once; a nick with a   *)
(* secret is set after an await.  Whether the server restores a session is *)
(* left open here (Sessions says when it may); rooms are in WebClient, and *)
(* no answer is lost but with its connection.                              *)
(* A session id is a number, in the order in which they are made up.       *)
(***************************************************************************)
EXTENDS Integers, Sequences

CONSTANTS
    Tabs,
    NoNick, Good, Reserved,     \* nicks the server takes, and those it does not
    NoRecord,
    Kinds,                      \* theme, font, size, sound: chosen apart, saved together
    Looks, Plain,               \* the values of each, the default among them
    MaxIds, MaxTyped, MaxSockets        \* bounds

ASSUME AccountAssumption ==
    /\ {NoNick, NoRecord} \cap (Good \cup Reserved) = {} /\ NoNick # NoRecord
    /\ Good \cap Reserved = {}
    /\ Plain \in Looks
    /\ {MaxIds, MaxTyped, MaxSockets} \subseteq Nat

Nicks == Good \cup Reserved
NoId == 0

VARIABLES
    stored,             \* localStorage: the settings, or Nothing
    ids,                \* session ids made up so far
    open, settings, fullNick, nicking,  \* per tab: loaded, its copy, its nick,
                                        \* the /nick that waits for a digest
    online, up, down,   \* per tab: its socket, the messages under way
    srv,                \* per tab: its connection on the server
    records,            \* SessionManager.sessions: the nick of each id kept
    typed, sockets,     \* bounded
    refused, early,     \* per tab: of this connection, a nick was refused; a nick
                        \* was set or the user logged out before it was greeted
    forgotten, excused, \* ids logged out; those another tab had, or a greeting
    chosen, stale, undone       \* of each kind, the look chosen last and the tabs that
                                \* have not seen it; the kinds one of them has undone

tabVars  == <<open, settings, fullNick, nicking>>
netVars  == <<online, up, down, sockets>>
srvVars  == <<srv, records>>
noteVars == <<refused, early, forgotten, excused, chosen, stale, undone>>
vars == <<stored, ids, tabVars, netVars, srvVars, typed, noteVars>>

Settings == [id : 0..MaxIds, nick : Nicks \cup {NoNick}, look : [Kinds -> Looks]]
Defaults == [k \in Kinds |-> Plain]
Nothing  == [id |-> NoId, nick |-> NoNick, look |-> Defaults]
NoServer == [hello |-> FALSE, id |-> NoId, nick |-> NoNick, hot |-> FALSE]

Init ==
    /\ stored = Nothing /\ ids = 0
    /\ open = [t \in Tabs |-> FALSE] /\ settings = [t \in Tabs |-> Nothing]
    /\ fullNick = [t \in Tabs |-> NoNick] /\ nicking = [t \in Tabs |-> NoNick]
    /\ online = [t \in Tabs |-> FALSE]
    /\ up = [t \in Tabs |-> <<>>] /\ down = [t \in Tabs |-> <<>>]
    /\ srv = [t \in Tabs |-> NoServer]
    /\ records = [i \in 1..MaxIds |-> NoRecord]
    /\ typed = 0 /\ sockets = 0
    /\ refused = [t \in Tabs |-> FALSE] /\ early = [t \in Tabs |-> FALSE]
    /\ forgotten = {} /\ excused = {}
    /\ chosen = Defaults /\ stale = [k \in Kinds |-> {}] /\ undone = {}

-----------------------------------------------------------------------------
(* A tab *)

\* send: nothing, unless the socket is open.
Send(t, m) == up' = IF online[t] THEN [up EXCEPT ![t] = Append(@, m)] ELSE up

\* The kinds of which the tab has an old look, which it stores with the rest.
Undoing(t) == {k \in Kinds : t \in stale[k]}

\* saveSettings, of the tab's copy s: all of it, whatever other tabs have stored.
Save(t, s) ==
    /\ settings' = [settings EXCEPT ![t] = s]
    /\ stored' = s
    /\ undone' = Undoing(t)

\* A new id, if there is none in store.
LoadedBlank == IF stored = Nothing THEN Nothing ELSE stored

loadSettings ==
    IF stored = Nothing THEN [id |-> ids + 1, nick |-> NoNick, look |-> Defaults] ELSE stored

\* The page is loaded: applyTheme, applyFont and applyBrimley save at once.
Load(t) ==
    /\ ~open[t] /\ (stored = Nothing => ids < MaxIds)
    /\ open' = [open EXCEPT ![t] = TRUE]
    /\ ids' = IF stored = Nothing THEN ids + 1 ELSE ids
    /\ settings' = [settings EXCEPT ![t] = loadSettings]
    /\ stored' = loadSettings
    /\ stale' = [k \in Kinds |-> IF k \in undone THEN stale[k] \cup {t} ELSE stale[k] \ {t}]
    /\ UNCHANGED <<fullNick, nicking, netVars, srvVars, typed, refused, early,
                   forgotten, excused, chosen, undone>>

\* onopen: hello, with the nick of before if there was one.
Connect(t) ==
    /\ open[t] /\ ~online[t] /\ sockets < MaxSockets
    /\ sockets' = sockets + 1
    /\ online' = [online EXCEPT ![t] = TRUE]
    /\ up' = [up EXCEPT ![t] =
           <<[op |-> "hello", id |-> settings[t].id, nick |-> fullNick[t]]>>]
    /\ UNCHANGED <<stored, ids, tabVars, down, srvVars, typed, noteVars>>

\* The greeting of this connection has been answered, and the page knows it.
Answered(t) == srv[t].hello /\ \A i \in DOMAIN down[t] : down[t][i].op = "error"

NoteEarly(t) == early' = [early EXCEPT ![t] = @ \/ (online[t] /\ ~Answered(t))]

\* /nick, when the tripcode is known.
SetNick(t, n) ==
    /\ fullNick' = [fullNick EXCEPT ![t] = n]
    /\ Save(t, [settings[t] EXCEPT !.nick = n])
    /\ Send(t, [op |-> "nick", nick |-> n])
    /\ NoteEarly(t)
    /\ UNCHANGED <<ids, open, online, down, sockets, srvVars, refused, forgotten, excused,
                   chosen, stale>>

Type == typed < MaxTyped /\ typed' = typed + 1

\* The handler awaits the digest of the secret.
parseTripcode(t, n) ==
    /\ nicking[t] = NoNick
    /\ nicking' = [nicking EXCEPT ![t] = n]
    /\ UNCHANGED <<stored, ids, open, settings, fullNick, netVars, srvVars, noteVars>>

\* Without a secret there is nothing to wait for.
TypeNick(t, n) ==
    /\ open[t] /\ Type
    /\ \/ SetNick(t, n) /\ UNCHANGED nicking
       \/ parseTripcode(t, n)

\* The digest is there.
NickHashed(t) ==
    /\ nicking[t] # NoNick
    /\ nicking' = [nicking EXCEPT ![t] = NoNick]
    /\ SetNick(t, nicking[t])
    /\ UNCHANGED typed

applyUnsaved(t, k, l) ==
    /\ settings' = [settings EXCEPT ![t].look[k] = l]
    /\ stored' = stored /\ undone' = undone \ {k}

\* applyTheme, applyFont, applyBrimley: one kind is chosen, all are saved.
applyLook(t, k, l) ==
    /\ settings' = [settings EXCEPT ![t].look[k] = l]
    /\ stored' = settings'[t]
    /\ undone' = Undoing(t) \ {k}

\* /theme, /font, /sound, /brimley.  What the server hears of it, it does not look at.
TypeLook(t, k, l) ==
    /\ open[t] /\ Type
    /\ applyLook(t, k, l)
    /\ chosen' = [chosen EXCEPT ![k] = l]
    /\ stale' = [stale EXCEPT ![k] = {u \in Tabs : open[u]} \ {t}]
    /\ UNCHANGED <<ids, open, fullNick, nicking, netVars, srvVars, refused, early,
                   forgotten, excused>>

KeepSettings(t) == settings' = settings /\ ids' = ids

\* loadSettings again, with nothing in store; what it makes up is not saved.
NewSettings(t) ==
    /\ ids' = ids + 1
    /\ settings' = [settings EXCEPT ![t] = [id |-> ids + 1, nick |-> NoNick, look |-> Defaults]]

TypeLogout(t) ==
    /\ open[t] /\ Type /\ ids < MaxIds
    /\ stored' = Nothing
    /\ NewSettings(t)
    /\ fullNick' = [fullNick EXCEPT ![t] = NoNick]
    /\ Send(t, [op |-> "logout"])
    /\ NoteEarly(t)
    /\ forgotten' = forgotten \cup {settings[t].id}
    /\ excused' = IF \/ online[t] /\ ~Answered(t)
                     \/ \E u \in Tabs \ {t} : open[u] /\ settings[u].id = settings[t].id
                  THEN excused \cup {settings[t].id} ELSE excused
    /\ chosen' = Defaults /\ undone' = {}
    /\ stale' = [k \in Kinds |-> {u \in Tabs : open[u]} \ {t}]
    /\ UNCHANGED <<open, nicking, online, down, sockets, srvVars, refused>>

\* Answers of the server.
Handle(t, op) ==
    /\ down[t] # <<>> /\ Head(down[t]).op = op
    /\ down' = [down EXCEPT ![t] = Tail(@)]

handleFrame == UNCHANGED <<ids, open, nicking, online, up, sockets, srvVars, typed,
                           refused, early, forgotten, excused, chosen, stale>>

RestoredKeeping(t) ==
    /\ Handle(t, "session_restored")
    /\ Save(t, [settings[t] EXCEPT !.id = Head(down[t]).id])
    /\ UNCHANGED fullNick /\ handleFrame

session_restored(t) ==
    /\ Handle(t, "session_restored")
    /\ Save(t, [settings[t] EXCEPT !.id = Head(down[t]).id])
    /\ fullNick' = IF Head(down[t]).nick = NoNick THEN fullNick
                   ELSE [fullNick EXCEPT ![t] = Head(down[t]).nick]
    /\ handleFrame

session_new(t) ==
    /\ Handle(t, "session_new")
    /\ Save(t, [settings[t] EXCEPT !.id = Head(down[t]).id])
    /\ UNCHANGED fullNick /\ handleFrame

\* An error is shown, and the page keeps the nick it has set.
error(t) ==
    /\ Handle(t, "error")
    /\ UNCHANGED <<stored, settings, fullNick, undone>> /\ handleFrame

-----------------------------------------------------------------------------
(* The server *)

Receive(t, op) ==
    /\ up[t] # <<>> /\ Head(up[t]).op = op
    /\ up' = [up EXCEPT ![t] = Tail(@)]

serverFrame == UNCHANGED <<stored, ids, tabVars, online, sockets, typed, early,
                           forgotten, excused, chosen, stale, undone>>

Tell(t, m) == down' = [down EXCEPT ![t] = Append(@, m)]

\* handleHello: what both ways have in common.
Greeted(t, id, n) ==
    /\ srv' = [srv EXCEPT ![t] = [hello |-> TRUE, id |-> id, nick |-> n, hot |-> FALSE]]
    /\ records' = [records EXCEPT ![id] = n]
    /\ serverFrame

HelloRestored(t) == LET m == Head(up[t]) IN
    /\ Receive(t, "hello") /\ records[m.id] # NoRecord
    /\ LET n == IF m.nick \in Good THEN m.nick ELSE records[m.id] IN
       /\ Greeted(t, m.id, n)
       /\ Tell(t, [op |-> "session_restored", id |-> m.id, nick |-> n])
       /\ refused' = [refused EXCEPT ![t] = m.nick \in Reserved /\ n = NoNick]

HelloNew(t) == LET m == Head(up[t]) IN
    /\ Receive(t, "hello")
    /\ Greeted(t, m.id, IF m.nick \in Good THEN m.nick ELSE NoNick)
    /\ Tell(t, [op |-> "session_new", id |-> m.id])
    /\ refused' = [refused EXCEPT ![t] = m.nick \in Reserved]

\* UpdateNick: of a record that is there.
WithNick(id, n) ==
    IF id # NoId /\ records[id] # NoRecord THEN [records EXCEPT ![id] = n] ELSE records

\* handleNick.  hot: less than two seconds since the last change.
ServeNick(t) == LET n == Head(up[t]).nick IN
    /\ Receive(t, "nick")
    /\ n \in Good /\ ~srv[t].hot
    /\ srv' = [srv EXCEPT ![t].nick = n, ![t].hot = TRUE]
    /\ records' = WithNick(srv[t].id, n)
    /\ refused' = [refused EXCEPT ![t] = FALSE]
    /\ UNCHANGED down /\ serverFrame

RefuseNick(t) ==
    /\ Receive(t, "nick")
    /\ Head(up[t]).nick \in Reserved \/ srv[t].hot
    /\ Tell(t, [op |-> "error"])
    /\ refused' = [refused EXCEPT ![t] = TRUE]
    /\ UNCHANGED srvVars /\ serverFrame

TwoSecondsPass(t) ==
    /\ srv[t].hot
    /\ srv' = [srv EXCEPT ![t].hot = FALSE]
    /\ UNCHANGED <<stored, ids, tabVars, netVars, records, typed, noteVars>>

\* handleLogout.
ServeLogout(t) ==
    /\ Receive(t, "logout")
    /\ srv' = [srv EXCEPT ![t].id = NoId, ![t].nick = NoNick]
    /\ records' = IF srv[t].id = NoId THEN records
                  ELSE [records EXCEPT ![srv[t].id] = NoRecord]
    /\ refused' = [refused EXCEPT ![t] = FALSE]
    /\ UNCHANGED down /\ serverFrame

\* The connection ends, with the tab or without: removeClient keeps the nick.
Disconnected(t) ==
    /\ online' = [online EXCEPT ![t] = FALSE]
    /\ up' = [up EXCEPT ![t] = <<>>] /\ down' = [down EXCEPT ![t] = <<>>]
    /\ srv' = [srv EXCEPT ![t] = NoServer]
    /\ records' = IF srv[t].nick = NoNick THEN records ELSE WithNick(srv[t].id, srv[t].nick)
    /\ refused' = [refused EXCEPT ![t] = FALSE] /\ early' = [early EXCEPT ![t] = FALSE]
    /\ UNCHANGED <<stored, ids, sockets, typed, forgotten, excused, chosen, undone>>

Lose(t) ==
    /\ online[t] /\ Disconnected(t)
    /\ UNCHANGED <<tabVars, stale>>

CloseTab(t) ==
    /\ open[t] /\ Disconnected(t)
    /\ open' = [open EXCEPT ![t] = FALSE] /\ settings' = [settings EXCEPT ![t] = Nothing]
    /\ fullNick' = [fullNick EXCEPT ![t] = NoNick] /\ nicking' = [nicking EXCEPT ![t] = NoNick]
    /\ stale' = [k \in Kinds |-> stale[k] \ {t}]

Page(t) ==
    \/ Load(t) \/ Connect(t) \/ NickHashed(t) \/ TypeLogout(t)
    \/ session_restored(t) \/ session_new(t) \/ error(t)
    \/ \E n \in Nicks : TypeNick(t, n)
    \/ \E k \in Kinds, l \in Looks : TypeLook(t, k, l)

Serve(t) ==
    \/ HelloRestored(t) \/ HelloNew(t) \/ ServeNick(t) \/ RefuseNick(t) \/ ServeLogout(t)
    \/ TwoSecondsPass(t)

Next == \E t \in Tabs : Page(t) \/ Serve(t) \/ Lose(t) \/ CloseTab(t)

Spec == Init /\ [][Next]_vars

-----------------------------------------------------------------------------
(* Properties *)

Messages ==
    [op : {"hello"}, id : 1..MaxIds, nick : Nicks \cup {NoNick}]
    \cup [op : {"nick"}, nick : Nicks] \cup [op : {"logout"}]

Answers ==
    [op : {"session_restored"}, id : 1..MaxIds, nick : Good \cup {NoNick}]
    \cup [op : {"session_new"}, id : 1..MaxIds] \cup [op : {"error"}]

TypeOK ==
    /\ stored \in Settings /\ ids \in 0..MaxIds
    /\ open \in [Tabs -> BOOLEAN] /\ online \in [Tabs -> BOOLEAN]
    /\ settings \in [Tabs -> Settings]
    /\ fullNick \in [Tabs -> Nicks \cup {NoNick}]
    /\ nicking \in [Tabs -> Nicks \cup {NoNick}]
    /\ up \in [Tabs -> Seq(Messages)] /\ down \in [Tabs -> Seq(Answers)]
    /\ srv \in [Tabs -> [hello : BOOLEAN, id : 0..MaxIds, nick : Good \cup {NoNick},
                         hot : BOOLEAN]]
    /\ records \in [1..MaxIds -> Good \cup {NoNick, NoRecord}]
    /\ {typed, sockets} \subseteq Nat
    /\ refused \in [Tabs -> BOOLEAN] /\ early \in [Tabs -> BOOLEAN]
    /\ forgotten \cup excused \subseteq 1..MaxIds
    /\ chosen \in [Kinds -> Looks] /\ stale \in [Kinds -> SUBSET Tabs] /\ undone \subseteq Kinds
    \* Who is connected has an id to say hello with.
    /\ \A t \in Tabs : open[t] => settings[t].id # NoId
    /\ \A t \in Tabs : online[t] => open[t]

Quiet(t) == online[t] /\ srv[t].hello /\ up[t] = <<>> /\ down[t] = <<>>

\* When nothing is under way, the nick the page shows (and speaks with after the
\* next reconnect) is the one the server has, through reconnects, reloads and
\* logouts in any tab; but for a nick the server refused, which the page keeps,
\* and one set before the greeting was answered, which the answer undoes.
NickAgrees ==
    \A t \in Tabs : Quiet(t) => srv[t].nick = fullNick[t] \/ refused[t] \/ early[t]

\* A session that was logged out stays so: its id is neither in store, nor in a
\* tab, nor that of a connection; unless another tab had it, which will store it
\* again, or the greeting was not answered yet, and the answer brings it back.
LogoutForgets ==
    LET gone == forgotten \ excused IN
    /\ stored.id \notin gone
    /\ \A t \in Tabs : settings[t].id \notin gone /\ (Quiet(t) => srv[t].id \notin gone)

\* Of each kind the look in store is the one chosen last, in whichever tab.  Only a
\* tab that had another look of that kind before, and saves whatever else (a nick, a
\* session id, a look of another kind), undoes the choice, until a tab that has seen
\* it saves again.
ChoiceKept == \A k \in Kinds \ undone : stored.look[k] = chosen[k]
=============================================================================
